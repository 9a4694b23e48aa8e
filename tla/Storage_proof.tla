---------------------------- MODULE Storage_proof ----------------------------
(***************************************************************************)
(* Proofs about what the runtime keeps in memory: OrbitMap for any keys,   *)
(* hashes and table sizes, and the request arena for any page, segment and *)
(* allocation sizes.                                                       *)
(***************************************************************************)
EXTENDS MapTable, Arena, Lemmas

Entry == [key : Keys, value : Values]

(* b is a table of n buckets. *)
Table(b, n) == n \in Nat \ {0} /\ b \in [0 .. n - 1 -> {Vacant} \cup Entry]

(* The d-th bucket of n that a search for key k looks at. *)
Step(n, k, d) == Turn(n, Hash[k], d)

Distinct(b) == \A i, j \in Occupied(b) : b[i].key = b[j].key => i = j

(* What a search relies on: between the home of an entry and the entry     *)
(* there is no vacant bucket; except, while a deletion is at a bucket (the *)
(* only member of X), that the entries of the cluster which begins there   *)
(* may have one before it.                                                 *)
Traced(b, n, X) ==
  \A i \in Occupied(b) : \A d \in 0 .. n - 1 : Step(n, b[i].key, d) = i =>
    \A c \in 0 .. d - 1 : b[Step(n, b[i].key, c)] = Vacant =>
      \E a \in c + 1 .. d :
        /\ Step(n, b[i].key, a) \in X
        /\ \A y \in a .. d : b[Step(n, b[i].key, y)] # Vacant

(* The d-th bucket is the first vacant one for key k. *)
FirstVacant(b, n, k, d) ==
  /\ d \in 0 .. n - 1 /\ b[Step(n, k, d)] = Vacant
  /\ \A c \in 0 .. d - 1 : b[Step(n, k, c)] # Vacant

Absent(b, k) == \A j \in Occupied(b) : b[j].key # k

(* b1 is b with e in bucket i. *)
Stored(b1, b, i, e) == b1 = [b EXCEPT ![i] = e]

Entries(b) == {b[i] : i \in Occupied(b)}

(* A table of n buckets, m of them occupied, between two steps. *)
Whole(b, n, m, X) ==
  /\ Table(b, n) /\ Distinct(b) /\ Traced(b, n, X)
  /\ m = Cardinality(Occupied(b)) /\ m < n

(* b1 has one entry more than b. *)
Grown(b1, b, e) ==
  /\ Entries(b1) = Entries(b) \cup {e}
  /\ Cardinality(Occupied(b1)) = Cardinality(Occupied(b)) + 1

(* b1 has lost the entry in bucket i. *)
Shrunk(b1, b, i) ==
  /\ b1[i] = Vacant /\ Occupied(b1) = Occupied(b) \ {i}
  /\ Cardinality(Occupied(b1)) = Cardinality(Occupied(b)) - 1
  /\ \A j \in Occupied(b1) : b1[j] = b[j]

(* Only bucket i, which was occupied and is, differs. *)
Changed(b1, b, i, e) ==
  /\ b1[i] = e /\ Occupied(b1) = Occupied(b)
  /\ \A j \in Occupied(b) : j # i => b1[j] = b[j]

(* The bucket a deletion is at. *)
Excused == IF mapPc = "rehash" THEN {at} ELSE {}

TableWhole ==
  /\ Whole(buckets, Size(buckets), entries, Excused)
  /\ Size(buckets) \in InitialBuckets .. MaxBuckets

(* Content, of any table. *)
ContentOf(b) ==
  [k \in Keys |->
     LET at_k == {i \in DOMAIN b : b[i].key = k}
     IN  IF at_k = {} THEN NoValue ELSE b[Min(at_k)].value]

(* The old buckets a resize has been through. *)
Moved == {i \in Occupied(buckets) : i < at}

(* The new table holds what was moved, and nothing else. *)
HalfWay ==
  mapPc = "resize" =>
    /\ Whole(fresh, 2 * Size(buckets), Cardinality(Moved), {})
    /\ Entries(fresh) = {buckets[i] : i \in Moved}
    /\ 2 * Size(buckets) <= MaxBuckets

(* Where a call is.  An entry is added only below the load limit. *)
CallShape ==
  /\ mapPc \in {"idle", "resize", "insert", "rehash"}
  /\ mapPc \in {"resize", "insert"} => call \in Entry
  /\ mapPc = "insert" => entries * 100 < Size(buckets) * 75
  /\ mapPc \in {"idle", "insert"} => at = 0
  /\ mapPc = "rehash" => at \in 0 .. Size(buckets) - 1
  /\ mapPc = "resize" => at \in 0 .. Size(buckets)

MapInductive == TableWhole /\ HalfWay /\ CallShape

-----------------------------------------------------------------------------
USE MapAssumption

(* A vacant bucket is no entry. *)
LEMMA VacantIsNone == Vacant \notin Entry /\ Vacant.key \notin Keys /\ Vacant.key = NoKey
BY DEF Vacant, Entry

(* The buckets of a table and how many of them are occupied. *)
LEMMA TableFacts ==
  ASSUME NEW n, NEW b, Table(b, n)
  PROVE  /\ n \in Nat \ {0} /\ DOMAIN b = 0 .. n - 1 /\ Size(b) = n
         /\ Occupied(b) \subseteq 0 .. n - 1 /\ IsFiniteSet(Occupied(b))
         /\ Cardinality(Occupied(b)) \in 0 .. n
         /\ Cardinality(Occupied(b)) < n => \E i \in 0 .. n - 1 : b[i] = Vacant
         /\ Cardinality(Occupied(b)) < n => Occupied(b) # DOMAIN b
         /\ Occupied(b) # DOMAIN b => \E i \in 0 .. n - 1 : b[i] = Vacant
         /\ \A i \in Occupied(b) : b[i] \in Entry
         /\ \A i \in 0 .. n - 1 : b[i].key \in Keys => i \in Occupied(b)
<1>1. n \in Nat \ {0} /\ DOMAIN b = 0 .. n - 1 BY DEF Table
<1>2. IsFiniteSet(0 .. n - 1) /\ Cardinality(0 .. n - 1) = n
  <2>1. 0 \in Int /\ n - 1 \in Int /\ 0 <= n - 1 BY <1>1
  <2>2. IsFiniteSet(0 .. n - 1) /\ Cardinality(0 .. n - 1) = n - 1 - 0 + 1
    BY <2>1, FS_Interval
  <2> QED BY <2>2, <1>1
<1>3. Size(b) = n BY <1>1, <1>2 DEF Size
<1>4. Occupied(b) \subseteq 0 .. n - 1 BY <1>1 DEF Occupied
<1>5. /\ IsFiniteSet(Occupied(b)) /\ Cardinality(Occupied(b)) <= n
      /\ Cardinality(Occupied(b)) = n => Occupied(b) = 0 .. n - 1
  BY <1>2, <1>4, FS_Subset
<1>6. Cardinality(Occupied(b)) \in 0 .. n BY <1>1, <1>5, FS_CardinalityType
<1>7. Cardinality(Occupied(b)) < n => Occupied(b) # 0 .. n - 1 BY <1>1, <1>2
<1>8. Occupied(b) # 0 .. n - 1 => \E i \in 0 .. n - 1 : b[i] = Vacant
  BY <1>1 DEF Occupied
<1>9. \A i \in 0 .. n - 1 : b[i] = Vacant \/ b[i] \in Entry BY DEF Table
<1>10. \A i \in Occupied(b) : b[i] \in Entry BY <1>4, <1>9 DEF Occupied
<1>11. \A i \in 0 .. n - 1 : b[i].key \in Keys => i \in Occupied(b)
  BY <1>1, VacantIsNone DEF Occupied
<1> QED BY <1>1, <1>3, <1>4, <1>5, <1>6, <1>7, <1>8, <1>10, <1>11

(* A search visits every bucket once. *)
LEMMA StepFacts ==
  ASSUME NEW n \in Nat \ {0}, NEW k \in Keys
  PROVE  /\ \A d \in 0 .. n - 1 : Step(n, k, d) \in 0 .. n - 1
         /\ \A i \in 0 .. n - 1 : \E d \in 0 .. n - 1 : Step(n, k, d) = i
         /\ \A c, d \in 0 .. n - 1 : Step(n, k, c) = Step(n, k, d) => c = d
         /\ \A d \in 0 .. n - 1 : Turn(n, Step(n, k, d), 1) = Step(n, k, d + 1)
<1>1. Hash[k] \in Nat OBVIOUS
<1> QED BY <1>1, TurnMeets DEF Step

(* The probe of the model is the place on the ring. *)
LEMMA ProbeIsStep ==
  ASSUME NEW n, NEW b, Table(b, n), NEW k, NEW d
  PROVE  Probe(b, Hash[k], d) = Step(n, k, d)
BY TableFacts DEF Probe, Step, Turn

(* Where an entry that is inserted again goes. *)
LEMMA InsertEnds ==
  ASSUME NEW n, NEW b, Table(b, n), NEW e \in Entry, \E i \in 0 .. n - 1 : b[i] = Vacant
  PROVE  \E d : /\ FirstVacant(b, n, e.key, d)
                /\ Stored(Insert(b, e), b, Step(n, e.key, d), e)
<1> DEFINE k == e.key
           S == {d \in 0 .. n - 1 : b[Step(n, k, d)] = Vacant}
<1>1. k \in Keys /\ n \in Nat \ {0} BY TableFacts DEF Entry
<1>2. S \in SUBSET Nat /\ S # {} BY <1>1, StepFacts
<1>3. Min(S) \in S /\ \A y \in S : Min(S) <= y
  <2> HIDE DEF S
  <2> QED BY <1>2, MinIsLeast
<1>4. Insert(b, e) = [b EXCEPT ![Step(n, k, Min(S))] = e]
  <2> DEFINE R == {d \in 0 .. Size(b) - 1 : b[Probe(b, Hash[e.key], d)] = Vacant}
  <2>1. R = S BY ProbeIsStep, TableFacts
  <2>2. Insert(b, e) = [b EXCEPT ![Probe(b, Hash[e.key], Min(R))] = e] BY DEF Insert
  <2>3. Probe(b, Hash[e.key], Min(S)) = Step(n, e.key, Min(S)) BY ProbeIsStep
  <2> HIDE DEF R, S
  <2> QED BY <2>1, <2>2, <2>3
<1>5. \A c \in 0 .. Min(S) - 1 : b[Step(n, k, c)] # Vacant
  <2> SUFFICES ASSUME NEW c \in 0 .. Min(S) - 1, b[Step(n, k, c)] = Vacant PROVE FALSE
    OBVIOUS
  <2>1. Min(S) \in 0 .. n - 1 BY <1>3
  <2>2. c \in 0 .. n - 1 /\ c < Min(S) BY <2>1, <1>1
  <2>3. c \in S BY <2>2
  <2> HIDE DEF S
  <2> QED BY <2>1, <2>2, <2>3, <1>3, <1>1
<1>6. FirstVacant(b, n, k, Min(S)) BY <1>3, <1>5 DEF FirstVacant
<1>7. Stored(Insert(b, e), b, Step(n, k, Min(S)), e) BY <1>4 DEF Stored
<1> HIDE DEF S
<1> QED BY <1>6, <1>7

(* Where a search ends. *)
LEMMA SearchEnds ==
  ASSUME NEW n, NEW b, Table(b, n), NEW k \in Keys, \E i \in 0 .. n - 1 : b[i] = Vacant
  PROVE  \E d \in 0 .. n - 1 :
           /\ Search(b, k) = Step(n, k, d)
           /\ b[Step(n, k, d)] = Vacant \/ b[Step(n, k, d)].key = k
           /\ \A c \in 0 .. d - 1 : b[Step(n, k, c)] # Vacant /\ b[Step(n, k, c)].key # k
<1> DEFINE S == {d \in 0 .. n - 1 : b[Step(n, k, d)] = Vacant \/ b[Step(n, k, d)].key = k}
<1>1. n \in Nat \ {0} BY TableFacts
<1>2. S \in SUBSET Nat /\ S # {}
  <2>1. PICK i \in 0 .. n - 1 : b[i] = Vacant OBVIOUS
  <2>2. PICK d \in 0 .. n - 1 : Step(n, k, d) = i BY <1>1, StepFacts
  <2>3. d \in S BY <2>1, <2>2
  <2> QED BY <2>3
<1>3. Min(S) \in S /\ \A y \in S : Min(S) <= y
  <2> HIDE DEF S
  <2> QED BY <1>2, MinIsLeast
<1>4. Search(b, k) = Step(n, k, Min(S))
  <2> DEFINE R == {d \in 0 .. Size(b) - 1 :
                     b[Probe(b, Hash[k], d)] = Vacant \/ b[Probe(b, Hash[k], d)].key = k}
  <2>1. R = S BY ProbeIsStep, TableFacts
  <2>2. Search(b, k) = Probe(b, Hash[k], Min(R)) BY DEF Search
  <2> HIDE DEF R, S
  <2> QED BY <2>1, <2>2, ProbeIsStep
<1>5. ASSUME NEW c \in 0 .. Min(S) - 1
      PROVE  b[Step(n, k, c)] # Vacant /\ b[Step(n, k, c)].key # k
  <2>1. Min(S) \in 0 .. n - 1 BY <1>3
  <2>2. c \in 0 .. n - 1 /\ c < Min(S) BY <2>1, <1>1
  <2>3. c \notin S
    <3> HIDE DEF S
    <3> QED BY <2>1, <2>2, <1>3, <1>1
  <2> QED BY <2>2, <2>3
<1> QED BY <1>3, <1>4, <1>5

(* A key that is in the table is found. *)
LEMMA FindsKey ==
  ASSUME NEW n, NEW b, Table(b, n), Distinct(b), Traced(b, n, {}),
         \E i \in 0 .. n - 1 : b[i] = Vacant,
         NEW j \in Occupied(b)
  PROVE  Search(b, b[j].key) = j
<1> DEFINE k == b[j].key
<1>1. k \in Keys /\ n \in Nat \ {0} /\ j \in 0 .. n - 1 BY TableFacts DEF Entry
<1>2. PICK d \in 0 .. n - 1 :
        /\ Search(b, k) = Step(n, k, d)
        /\ b[Step(n, k, d)] = Vacant \/ b[Step(n, k, d)].key = k
        /\ \A c \in 0 .. d - 1 : b[Step(n, k, c)] # Vacant /\ b[Step(n, k, c)].key # k
  BY <1>1, SearchEnds
<1>3. PICK m \in 0 .. n - 1 : Step(n, k, m) = j BY <1>1, StepFacts
<1>4. d <= m BY <1>2, <1>3
<1>5. ASSUME d < m PROVE FALSE
  <2>1. d \in 0 .. m - 1 BY <1>5
  <2>2. b[Step(n, k, d)] # Vacant BY <2>1, <1>3 DEF Traced
  <2>3. Step(n, k, d) \in 0 .. n - 1 BY <1>1, StepFacts
  <2>4. DOMAIN b = 0 .. n - 1 BY TableFacts
  <2>5. Step(n, k, d) \in Occupied(b) BY <2>2, <2>3, <2>4 DEF Occupied
  <2>6. Step(n, k, d) = j BY <2>5, <2>2, <1>2 DEF Distinct
  <2>7. \A x, y \in 0 .. n - 1 : Step(n, k, x) = Step(n, k, y) => x = y BY <1>1, StepFacts
  <2> QED BY <2>6, <2>7, <1>3, <1>5
<1> QED BY <1>2, <1>3, <1>4, <1>5

-----------------------------------------------------------------------------
(* What the changes of a table do to it. *)

(* A bucket is vacated; the deletion goes on with the next one. *)
LEMMA Vacated ==
  ASSUME NEW n, NEW b, Table(b, n), NEW i \in Occupied(b), NEW X \in {{}, {i}},
         Traced(b, n, X), NEW b1, Stored(b1, b, i, Vacant)
  PROVE  Table(b1, n) /\ Shrunk(b1, b, i) /\ Traced(b1, n, {Turn(n, i, 1)})
<1>1. n \in Nat \ {0} /\ DOMAIN b = 0 .. n - 1 /\ i \in 0 .. n - 1 BY TableFacts
<1>2. Table(b1, n) /\ b1[i] = Vacant /\ DOMAIN b1 = 0 .. n - 1 BY <1>1 DEF Table, Stored
<1>3. \A j \in 0 .. n - 1 : j # i => b1[j] = b[j] BY <1>1 DEF Stored
<1>4. Occupied(b1) = Occupied(b) \ {i} BY <1>1, <1>2, <1>3 DEF Occupied
<1>5. Cardinality(Occupied(b1)) = Cardinality(Occupied(b)) - 1
  BY <1>4, TableFacts, FS_RemoveElement
<1>6. \A j \in Occupied(b1) : b1[j] = b[j] BY <1>3, <1>4, TableFacts
<1>7. Traced(b1, n, {Turn(n, i, 1)})
  <2> SUFFICES ASSUME NEW j \in Occupied(b1), NEW d \in 0 .. n - 1,
                      Step(n, b1[j].key, d) = j,
                      NEW c \in 0 .. d - 1, b1[Step(n, b1[j].key, c)] = Vacant
               PROVE  \E a \in c + 1 .. d :
                        /\ Step(n, b1[j].key, a) \in {Turn(n, i, 1)}
                        /\ \A y \in a .. d : b1[Step(n, b1[j].key, y)] # Vacant
    BY DEF Traced
  <2> DEFINE k == b[j].key
  <2>1. j \in Occupied(b) /\ j # i /\ b1[j].key = k /\ k \in Keys
    BY <1>4, <1>6, TableFacts DEF Entry
  <2> HIDE DEF k
  <2>2. \A y \in 0 .. n - 1 : Step(n, k, y) \in 0 .. n - 1 BY <1>1, <2>1, StepFacts
  <2>3. \A x, y \in 0 .. n - 1 : Step(n, k, x) = Step(n, k, y) => x = y
    BY <1>1, <2>1, StepFacts
  <2>4. \A y \in 0 .. n - 1 : Turn(n, Step(n, k, y), 1) = Step(n, k, y + 1)
    BY <1>1, <2>1, StepFacts
  <2>5. \A x \in 0 .. d - 1 : b[Step(n, k, x)] = Vacant =>
          \E a \in x + 1 .. d : /\ Step(n, k, a) = i
                                /\ \A y \in a .. d : b[Step(n, k, y)] # Vacant
    BY <2>1 DEF Traced, k
  <2>6. c \in 0 .. n - 1 /\ d \in 0 .. n - 1 /\ c < d BY <1>1
  <2>7. b[Step(n, k, d)] # Vacant BY <2>1 DEF Occupied
  <2>8. CASE Step(n, k, c) = i
    <3>1. c + 1 \in c + 1 .. d /\ Step(n, k, c + 1) = Turn(n, i, 1) BY <2>4, <2>6, <2>8
    <3>2. ASSUME NEW y \in c + 1 .. d PROVE b1[Step(n, k, y)] # Vacant
      <4>1. y \in 0 .. n - 1 /\ y # c BY <2>6, <1>1
      <4>2. Step(n, k, y) # i BY <4>1, <2>3, <2>6, <2>8
      <4>3. ASSUME b[Step(n, k, y)] = Vacant PROVE FALSE
        <5>1. y \in 0 .. d - 1 BY <4>3, <2>7, <2>6
        <5>2. PICK a \in y + 1 .. d : Step(n, k, a) = i BY <5>1, <4>3, <2>5
        <5>3. a \in 0 .. n - 1 /\ a # c BY <5>1, <2>6, <1>1
        <5> QED BY <5>2, <5>3, <2>3, <2>6, <2>8
      <4> QED BY <4>1, <4>2, <4>3, <2>2, <1>3
    <3> QED BY <3>1, <3>2, <2>1
  <2>9. CASE Step(n, k, c) # i
    <3>1. b[Step(n, k, c)] = Vacant BY <2>9, <2>1, <2>2, <2>6, <1>3
    <3>2. PICK a \in c + 1 .. d : /\ Step(n, k, a) = i
                                  /\ \A y \in a .. d : b[Step(n, k, y)] # Vacant
      BY <3>1, <2>5
    <3>3. a # d BY <3>2, <2>1
    <3>4. a \in 0 .. n - 1 /\ a + 1 \in c + 1 .. d BY <3>3, <2>6, <1>1
    <3>5. Step(n, k, a + 1) = Turn(n, i, 1) BY <3>2, <3>4, <2>4
    <3>6. ASSUME NEW y \in a + 1 .. d PROVE b1[Step(n, k, y)] # Vacant
      <4>1. y \in 0 .. n - 1 /\ y # a /\ y \in a .. d BY <3>4, <2>6, <1>1
      <4>2. Step(n, k, y) # i BY <4>1, <3>2, <3>4, <2>3
      <4> QED BY <4>1, <4>2, <3>2, <2>2, <1>3
    <3> QED BY <3>4, <3>5, <3>6, <2>1
  <2> QED BY <2>8, <2>9
<1> QED BY <1>2, <1>4, <1>5, <1>6, <1>7 DEF Shrunk

(* An entry is put into the first vacant bucket of its search. *)
LEMMA Put ==
  ASSUME NEW n, NEW b, Table(b, n), NEW e \in Entry, NEW k, k = e.key,
         NEW d, NEW X, Traced(b, n, X),
         FirstVacant(b, n, k, d), Absent(b, k),
         NEW b1, Stored(b1, b, Step(n, k, d), e)
  PROVE  /\ Table(b1, n) /\ Grown(b1, b, e)
         /\ Distinct(b) => Distinct(b1)
         /\ Traced(b1, n, X)
<1> DEFINE p == Step(n, k, d)
<1>1. n \in Nat \ {0} /\ DOMAIN b = 0 .. n - 1 /\ k \in Keys /\ e # Vacant
  BY TableFacts, VacantIsNone DEF Entry
<1>2. p \in 0 .. n - 1 BY <1>1, StepFacts DEF FirstVacant
<1>3. /\ d \in 0 .. n - 1 /\ b[p] = Vacant
      /\ \A c \in 0 .. d - 1 : b[Step(n, k, c)] # Vacant
  BY DEF FirstVacant
<1>4. \A c \in 0 .. d - 1 : Step(n, k, c) \in 0 .. n - 1
  <2>1. \A c \in 0 .. d - 1 : c \in 0 .. n - 1 BY <1>1, <1>3
  <2> QED BY <2>1, <1>1, StepFacts
<1>5. ASSUME NEW c \in 0 .. n - 1, Step(n, k, c) = p PROVE c = d
  BY <1>1, <1>3, <1>5, StepFacts
<1>6. b1 = [b EXCEPT ![p] = e] BY DEF Stored
<1> HIDE DEF p
<1>7. Table(b1, n) /\ b1[p] = e /\ DOMAIN b1 = 0 .. n - 1 BY <1>1, <1>2, <1>6 DEF Table
<1>8. \A j \in 0 .. n - 1 : j # p => b1[j] = b[j] BY <1>1, <1>6
<1>9. Occupied(b1) = Occupied(b) \cup {p} BY <1>1, <1>2, <1>7, <1>8 DEF Occupied
<1>10. p \notin Occupied(b) BY <1>3 DEF Occupied
<1>11. Cardinality(Occupied(b1)) = Cardinality(Occupied(b)) + 1
  BY <1>9, <1>10, TableFacts, FS_AddElement
<1>12. \A j \in Occupied(b) : j # p /\ b1[j] = b[j] BY <1>8, <1>10, TableFacts
<1>13. Entries(b1) = Entries(b) \cup {e} BY <1>7, <1>9, <1>12 DEF Entries
<1>14. Distinct(b) => Distinct(b1) BY <1>7, <1>9, <1>12 DEF Distinct, Absent
<1>15. Traced(b1, n, X)
  <2> SUFFICES ASSUME NEW j \in Occupied(b1), NEW m \in 0 .. n - 1,
                      Step(n, b1[j].key, m) = j,
                      NEW c \in 0 .. m - 1, b1[Step(n, b1[j].key, c)] = Vacant
               PROVE  \E a \in c + 1 .. m :
                        /\ Step(n, b1[j].key, a) \in X
                        /\ \A y \in a .. m : b1[Step(n, b1[j].key, y)] # Vacant
    BY DEF Traced
  <2>1. CASE j = p
    <3>1. m = d BY <2>1, <1>7, <1>5
    <3>2. b[Step(n, k, c)] # Vacant /\ Step(n, k, c) \in 0 .. n - 1 BY <3>1, <1>3, <1>4
    <3> QED BY <3>2, <2>1, <1>1, <1>7, <1>8
  <2>2. CASE j \in Occupied(b)
    <3> DEFINE h == b[j].key
    <3>1. b1[j].key = h /\ h \in Keys BY <2>2, <1>12, TableFacts DEF Entry
    <3> HIDE DEF h
    <3>2. \A y \in 0 .. m : Step(n, h, y) \in 0 .. n - 1
      <4>1. \A y \in 0 .. m : y \in 0 .. n - 1 BY <1>1
      <4> QED BY <4>1, <1>1, <3>1, StepFacts
    <3>3. b[Step(n, h, c)] = Vacant BY <3>1, <3>2, <1>1, <1>7, <1>8
    <3>5. PICK a \in c + 1 .. m :
               /\ Step(n, h, a) \in X
               /\ \A y \in a .. m : b[Step(n, h, y)] # Vacant
      BY <2>2, <3>1, <3>3 DEF Traced, h
    <3>6. \A y \in a .. m : b1[Step(n, h, y)] # Vacant
      <4> SUFFICES ASSUME NEW y \in a .. m PROVE b1[Step(n, h, y)] # Vacant OBVIOUS
      <4>1. y \in 0 .. m OBVIOUS
      <4> QED BY <4>1, <3>2, <3>5, <1>1, <1>7, <1>8
    <3> QED BY <3>1, <3>5, <3>6
  <2> QED BY <2>1, <2>2, <1>9
<1> QED BY <1>7, <1>11, <1>13, <1>14, <1>15 DEF Grown

(* An entry is inserted again. *)
LEMMA Inserts ==
  ASSUME NEW n, NEW b, Table(b, n), NEW e \in Entry, NEW X, Traced(b, n, X),
         \E i \in 0 .. n - 1 : b[i] = Vacant, Absent(b, e.key)
  PROVE  /\ Table(Insert(b, e), n) /\ Grown(Insert(b, e), b, e)
         /\ Distinct(b) => Distinct(Insert(b, e))
         /\ Traced(Insert(b, e), n, X)
<1> DEFINE b1 == Insert(b, e)
           k == e.key
<1>1. PICK d : FirstVacant(b, n, k, d) /\ Stored(b1, b, Step(n, k, d), e)
  BY InsertEnds
<1>3. Absent(b, k) /\ k = e.key OBVIOUS
<1> HIDE DEF b1, k
<1>2. Table(b1, n) /\ Grown(b1, b, e) /\ (Distinct(b) => Distinct(b1)) /\ Traced(b1, n, X)
  BY <1>1, <1>3, Put
<1> QED BY <1>2 DEF b1

(* The value of a key that is there is replaced. *)
LEMMA Replaced ==
  ASSUME NEW n, NEW b, Table(b, n), NEW e \in Entry, NEW i \in Occupied(b), b[i].key = e.key,
         NEW b1, Stored(b1, b, i, e)
  PROVE  /\ Table(b1, n) /\ Changed(b1, b, i, e)
         /\ Distinct(b) => Distinct(b1)
         /\ Traced(b, n, {}) => Traced(b1, n, {})
<1>1. n \in Nat \ {0} /\ DOMAIN b = 0 .. n - 1 /\ i \in 0 .. n - 1 /\ e # Vacant
  BY TableFacts, VacantIsNone
<1>2. Table(b1, n) /\ DOMAIN b1 = 0 .. n - 1 /\ b1[i] = e BY <1>1 DEF Table, Stored
<1>3. \A j \in 0 .. n - 1 : j # i => b1[j] = b[j] BY <1>1 DEF Stored
<1>4. Occupied(b1) = Occupied(b) BY <1>1, <1>2, <1>3 DEF Occupied
<1>5. \A j \in Occupied(b) : b1[j].key = b[j].key BY <1>2, <1>3, TableFacts
<1>6. Distinct(b) => Distinct(b1) BY <1>4, <1>5 DEF Distinct
<1>7. \A j : b1[j] = Vacant /\ j \in 0 .. n - 1 => b[j] = Vacant BY <1>1, <1>2, <1>3
<1>8. ASSUME Traced(b, n, {}) PROVE Traced(b1, n, {})
  <2> SUFFICES ASSUME NEW j \in Occupied(b1), NEW m \in 0 .. n - 1,
                      Step(n, b1[j].key, m) = j,
                      NEW c \in 0 .. m - 1, b1[Step(n, b1[j].key, c)] = Vacant
               PROVE  FALSE
    BY DEF Traced
  <2>1. j \in Occupied(b) /\ b1[j].key = b[j].key /\ b[j].key \in Keys
    BY <1>4, <1>5, TableFacts DEF Entry
  <2>2. c \in 0 .. n - 1 BY <1>1
  <2>3. Step(n, b[j].key, c) \in 0 .. n - 1 BY <2>1, <2>2, <1>1, StepFacts
  <2> QED BY <2>1, <2>3, <1>7, <1>8 DEF Traced
<1> QED BY <1>2, <1>3, <1>4, <1>6, <1>8, TableFacts DEF Changed

-----------------------------------------------------------------------------
(* What the invariant says of the table, spelled out. *)
LEMMA WholeFacts ==
  ASSUME NEW b, NEW n, NEW m, NEW X, Whole(b, n, m, X)
  PROVE  /\ n \in Nat \ {0} /\ m \in 0 .. n - 1 /\ Size(b) = n /\ DOMAIN b = 0 .. n - 1
         /\ Occupied(b) # DOMAIN b /\ \E i \in 0 .. n - 1 : b[i] = Vacant
         /\ Table(b, n) /\ Distinct(b) /\ Traced(b, n, X)
         /\ m = Cardinality(Occupied(b))
BY TableFacts DEF Whole

(* The content of a table. *)

(* The content at a key is the value of the entry with that key, if there  *)
(* is one.                                                                 *)
LEMMA ContentIs ==
  ASSUME NEW n, NEW b, Table(b, n), Distinct(b)
  PROVE  /\ \A j \in Occupied(b) :
              ContentOf(b)[b[j].key] = b[j].value /\ b[j].value # NoValue /\ b[j].key \in Keys
         /\ \A k \in Keys : Absent(b, k) => ContentOf(b)[k] = NoValue
<1> DEFINE At(k) == {i \in DOMAIN b : b[i].key = k}
<1>1. \A k \in Keys : ContentOf(b)[k] = IF At(k) = {} THEN NoValue ELSE b[Min(At(k))].value
  BY DEF ContentOf
<1>2. DOMAIN b = 0 .. n - 1 /\ Occupied(b) \subseteq 0 .. n - 1
      /\ \A i \in 0 .. n - 1 : b[i].key \in Keys => i \in Occupied(b)
  BY TableFacts
<1>3. ASSUME NEW j \in Occupied(b)
      PROVE  ContentOf(b)[b[j].key] = b[j].value /\ b[j].value # NoValue /\ b[j].key \in Keys
  <2>1. b[j] \in Entry BY TableFacts
  <2>2. b[j].key \in Keys /\ b[j].value # NoValue BY <2>1 DEF Entry
  <2>3. At(b[j].key) = {j} BY <1>2, <2>2 DEF Distinct
  <2>4. Min({j}) = j
    <3>1. {j} \in SUBSET Nat /\ {j} # {} BY <1>2
    <3>2. Min({j}) \in {j} BY <3>1, MinIsLeast
    <3> QED BY <3>2
  <2>5. At(b[j].key) # {} BY <2>3
  <2> HIDE DEF At
  <2> QED BY <1>1, <2>2, <2>3, <2>4, <2>5
<1>4. ASSUME NEW k \in Keys, Absent(b, k) PROVE ContentOf(b)[k] = NoValue
  <2>1. At(k) = {} BY <1>2, <1>4 DEF Absent
  <2> HIDE DEF At
  <2> QED BY <1>1, <2>1
<1> QED BY <1>3, <1>4

(* Tables with the same entries are the same map. *)
LEMMA SameContent ==
  ASSUME NEW n, NEW b, Table(b, n), Distinct(b),
         NEW m, NEW c, Table(c, m), Distinct(c), Entries(b) = Entries(c)
  PROVE  ContentOf(b) = ContentOf(c)
<1> SUFFICES ASSUME NEW k \in Keys PROVE ContentOf(b)[k] = ContentOf(c)[k]
  BY DEF ContentOf
<1>1. CASE Absent(b, k)
  <2>1. Absent(c, k)
    <3> SUFFICES ASSUME NEW j \in Occupied(c) PROVE c[j].key # k
      BY DEF Absent
    <3>1. c[j] \in Entries(b) BY DEF Entries
    <3>2. PICK i \in Occupied(b) : c[j] = b[i] BY <3>1 DEF Entries
    <3> QED BY <3>2, <1>1 DEF Absent
  <2> QED BY <1>1, <2>1, ContentIs
<1>2. CASE ~Absent(b, k)
  <2>1. PICK i \in Occupied(b) : b[i].key = k BY <1>2 DEF Absent
  <2>2. b[i] \in Entries(c) BY DEF Entries
  <2>3. PICK j \in Occupied(c) : c[j] = b[i] BY <2>2 DEF Entries
  <2>4. ContentOf(b)[b[i].key] = b[i].value BY ContentIs
  <2>5. ContentOf(c)[c[j].key] = c[j].value BY ContentIs
  <2> QED BY <2>1, <2>3, <2>4, <2>5
<1> QED BY <1>1, <1>2

(* What a search tells of the content. *)
LEMMA Lookup ==
  ASSUME NEW n, NEW b, NEW m, Whole(b, n, m, {}), NEW k \in Keys
  PROVE  /\ Search(b, k) \in 0 .. n - 1
         /\ b[Search(b, k)].value = ContentOf(b)[k]
         /\ b[Search(b, k)] = Vacant => Absent(b, k) /\ ContentOf(b)[k] = NoValue
         /\ b[Search(b, k)] # Vacant => /\ Search(b, k) \in Occupied(b)
                                        /\ b[Search(b, k)].key = k
                                        /\ ContentOf(b)[k] # NoValue
<1>1. /\ n \in Nat \ {0} /\ DOMAIN b = 0 .. n - 1 /\ Table(b, n) /\ Distinct(b)
      /\ Traced(b, n, {}) /\ \E i \in 0 .. n - 1 : b[i] = Vacant
  BY WholeFacts
<1>2. PICK d \in 0 .. n - 1 :
           /\ Search(b, k) = Step(n, k, d)
           /\ b[Step(n, k, d)] = Vacant \/ b[Step(n, k, d)].key = k
  BY <1>1, SearchEnds
<1>3. Search(b, k) \in 0 .. n - 1 BY <1>1, <1>2, StepFacts
<1>4. CASE b[Search(b, k)] = Vacant
  <2>1. Absent(b, k)
    <3> SUFFICES ASSUME NEW j \in Occupied(b), b[j].key = k PROVE FALSE
      BY DEF Absent
    <3>1. Search(b, b[j].key) = j BY <1>1, FindsKey
    <3> QED BY <3>1, <1>4 DEF Occupied
  <2>2. ContentOf(b)[k] = NoValue BY <1>1, <2>1, ContentIs
  <2>3. b[Search(b, k)].value = NoValue BY <1>4 DEF Vacant
  <2> QED BY <1>3, <1>4, <2>1, <2>2, <2>3
<1>5. CASE b[Search(b, k)] # Vacant
  <2> DEFINE i == Search(b, k)
  <2>1. i \in Occupied(b) BY <1>1, <1>3, <1>5 DEF Occupied
  <2>2. b[i].key = k BY <1>2, <1>5
  <2>3. ContentOf(b)[b[i].key] = b[i].value /\ b[i].value # NoValue
    BY <1>1, <2>1, ContentIs
  <2> QED BY <1>3, <1>5, <2>1, <2>2, <2>3
<1> QED BY <1>4, <1>5

(* A value is stored where the search ended. *)
LEMMA Stores ==
  ASSUME NEW n, NEW b, NEW m, Whole(b, n, m, {}), m + 1 < n, NEW e \in Entry,
         NEW b1, Stored(b1, b, Search(b, e.key), e)
  PROVE  /\ Whole(b1, n, IF b[Search(b, e.key)] = Vacant THEN m + 1 ELSE m, {})
         /\ ContentOf(b1) = [ContentOf(b) EXCEPT ![e.key] = e.value]
<1> DEFINE k == e.key
           i == Search(b, k)
<1>1. k \in Keys /\ k = e.key BY DEF Entry
<1>2. /\ n \in Nat \ {0} /\ m \in 0 .. n - 1 /\ Table(b, n) /\ Distinct(b)
      /\ Traced(b, n, {}) /\ m = Cardinality(Occupied(b))
      /\ \E j \in 0 .. n - 1 : b[j] = Vacant
  BY WholeFacts
<1>3. Stored(b1, b, i, e) OBVIOUS
<1> HIDE DEF k
<1>4. CASE b[i] = Vacant
  <2>1. Absent(b, k) /\ ContentOf(b)[k] = NoValue BY <1>1, <1>4, Lookup
  <2>2. PICK d \in 0 .. n - 1 :
           /\ i = Step(n, k, d)
           /\ \A c \in 0 .. d - 1 : b[Step(n, k, c)] # Vacant
    BY <1>1, <1>2, SearchEnds
  <2>3. FirstVacant(b, n, k, d) BY <1>4, <2>2 DEF FirstVacant
  <2>4. Stored(b1, b, Step(n, k, d), e) BY <1>3, <2>2
  <2>5. Table(b1, n) /\ Grown(b1, b, e) /\ Distinct(b1) /\ Traced(b1, n, {})
    BY <1>1, <1>2, <2>1, <2>3, <2>4, Put
  <2>6. Whole(b1, n, m + 1, {}) BY <1>2, <2>5 DEF Whole, Grown
  <2>7. ASSUME NEW h \in Keys
        PROVE  ContentOf(b1)[h] = IF h = k THEN e.value ELSE ContentOf(b)[h]
    <3>1. CASE h = k
      <4>1. e \in Entries(b1) BY <2>5 DEF Grown
      <4>2. PICK j \in Occupied(b1) : b1[j] = e BY <4>1 DEF Entries
      <4>3. ContentOf(b1)[b1[j].key] = b1[j].value BY <2>5, ContentIs
      <4> QED BY <3>1, <4>2, <4>3, <1>1
    <3>2. CASE h # k /\ Absent(b, h)
      <4>1. Absent(b1, h)
        <5> SUFFICES ASSUME NEW j \in Occupied(b1) PROVE b1[j].key # h
          BY DEF Absent
        <5>1. b1[j] \in Entries(b) \cup {e} BY <2>5 DEF Grown, Entries
        <5>2. CASE b1[j] = e BY <5>2, <3>2, <1>1
        <5>3. CASE b1[j] \in Entries(b) BY <5>3, <3>2 DEF Entries, Absent
        <5> QED BY <5>1, <5>2, <5>3
      <4>2. ContentOf(b1)[h] = NoValue BY <4>1, <2>5, ContentIs
      <4>3. ContentOf(b)[h] = NoValue BY <3>2, <1>2, ContentIs
      <4> QED BY <3>2, <4>2, <4>3
    <3>3. CASE h # k /\ ~Absent(b, h)
      <4>1. PICK j \in Occupied(b) : b[j].key = h BY <3>3 DEF Absent
      <4>2. b[j] \in Entries(b1) BY <2>5 DEF Grown, Entries
      <4>3. PICK g \in Occupied(b1) : b1[g] = b[j] BY <4>2 DEF Entries
      <4>4. ContentOf(b)[b[j].key] = b[j].value BY <1>2, ContentIs
      <4>5. ContentOf(b1)[b1[g].key] = b1[g].value BY <2>5, ContentIs
      <4> QED BY <3>3, <4>1, <4>3, <4>4, <4>5
    <3> QED BY <3>1, <3>2, <3>3
  <2>8. ContentOf(b1) = [ContentOf(b) EXCEPT ![k] = e.value] BY <2>7 DEF ContentOf
  <2> QED BY <1>1, <1>4, <2>6, <2>8
<1>5. CASE b[i] # Vacant
  <2>1. i \in Occupied(b) /\ b[i].key = k BY <1>1, <1>5, Lookup
  <2> HIDE DEF i
  <2>2. Table(b1, n) /\ Changed(b1, b, i, e) /\ Distinct(b1) /\ Traced(b1, n, {})
    BY <1>1, <1>2, <1>3, <2>1, Replaced
  <2>3. Whole(b1, n, m, {}) BY <1>2, <2>2 DEF Whole, Changed
  <2>4. ASSUME NEW h \in Keys
        PROVE  ContentOf(b1)[h] = IF h = k THEN e.value ELSE ContentOf(b)[h]
    <3>1. CASE h = k
      <4>1. i \in Occupied(b1) /\ b1[i] = e BY <2>1, <2>2 DEF Changed
      <4>2. ContentOf(b1)[b1[i].key] = b1[i].value BY <4>1, <2>2, ContentIs
      <4> QED BY <3>1, <4>1, <4>2, <1>1
    <3>2. CASE h # k /\ Absent(b, h)
      <4>1. Absent(b1, h)
        <5> SUFFICES ASSUME NEW j \in Occupied(b1) PROVE b1[j].key # h
          BY DEF Absent
        <5> QED BY <3>2, <2>2, <1>1 DEF Changed, Absent
      <4>2. ContentOf(b1)[h] = NoValue BY <4>1, <2>2, ContentIs
      <4>3. ContentOf(b)[h] = NoValue BY <3>2, <1>2, ContentIs
      <4> QED BY <3>2, <4>2, <4>3
    <3>3. CASE h # k /\ ~Absent(b, h)
      <4>1. PICK j \in Occupied(b) : b[j].key = h BY <3>3 DEF Absent
      <4>2. j \in Occupied(b1) /\ b1[j] = b[j] BY <4>1, <3>3, <2>1, <2>2 DEF Changed
      <4>3. ContentOf(b)[b[j].key] = b[j].value BY <1>2, ContentIs
      <4>4. ContentOf(b1)[b1[j].key] = b1[j].value BY <4>2, <2>2, ContentIs
      <4> QED BY <3>3, <4>1, <4>2, <4>3, <4>4
    <3> QED BY <3>1, <3>2, <3>3
  <2>5. ContentOf(b1) = [ContentOf(b) EXCEPT ![k] = e.value] BY <2>4 DEF ContentOf
  <2> QED BY <1>1, <1>5, <2>3, <2>5 DEF i
<1> QED BY <1>4, <1>5

(* The entry that was found is deleted. *)
LEMMA Deletes ==
  ASSUME NEW n, NEW b, NEW m, Whole(b, n, m, {}), NEW k \in Keys,
         b[Search(b, k)] # Vacant, NEW b1, Stored(b1, b, Search(b, k), Vacant)
  PROVE  /\ Whole(b1, n, m - 1, {Turn(n, Search(b, k), 1)})
         /\ ContentOf(b1) = [ContentOf(b) EXCEPT ![k] = NoValue]
<1> DEFINE i == Search(b, k)
<1>1. i \in Occupied(b) /\ b[i].key = k BY Lookup
<1>2. /\ n \in Nat \ {0} /\ m \in 0 .. n - 1 /\ Table(b, n) /\ Distinct(b)
      /\ Traced(b, n, {}) /\ m = Cardinality(Occupied(b))
  BY WholeFacts
<1>3. Stored(b1, b, i, Vacant) OBVIOUS
<1> HIDE DEF i
<1>4. Table(b1, n) /\ Shrunk(b1, b, i) /\ Traced(b1, n, {Turn(n, i, 1)})
  <2>1. {} \in {{}, {i}} OBVIOUS
  <2> QED BY <1>1, <1>2, <1>3, <2>1, Vacated
<1>5. Distinct(b1) BY <1>2, <1>4 DEF Distinct, Shrunk
<1>6. Whole(b1, n, m - 1, {Turn(n, i, 1)}) BY <1>2, <1>4, <1>5 DEF Whole, Shrunk
<1>7. ASSUME NEW h \in Keys
      PROVE  ContentOf(b1)[h] = IF h = k THEN NoValue ELSE ContentOf(b)[h]
  <2>1. CASE h = k \/ Absent(b, h)
    <3>1. Absent(b1, h)
      <4> SUFFICES ASSUME NEW j \in Occupied(b1) PROVE b1[j].key # h
        BY DEF Absent
      <4>1. j \in Occupied(b) /\ j # i /\ b1[j] = b[j] BY <1>4 DEF Shrunk
      <4> QED BY <4>1, <2>1, <1>1, <1>2 DEF Distinct, Absent
    <3>2. ContentOf(b1)[h] = NoValue BY <3>1, <1>4, <1>5, ContentIs
    <3>3. Absent(b, h) => ContentOf(b)[h] = NoValue BY <1>2, ContentIs
    <3> QED BY <2>1, <3>2, <3>3
  <2>2. CASE h # k /\ ~Absent(b, h)
    <3>1. PICK j \in Occupied(b) : b[j].key = h BY <2>2 DEF Absent
    <3>2. j \in Occupied(b1) /\ b1[j] = b[j] BY <3>1, <2>2, <1>1, <1>4 DEF Shrunk
    <3>3. ContentOf(b)[b[j].key] = b[j].value BY <1>2, ContentIs
    <3>4. ContentOf(b1)[b1[j].key] = b1[j].value BY <3>2, <1>4, <1>5, ContentIs
    <3> QED BY <2>2, <3>1, <3>2, <3>3, <3>4
  <2> QED BY <2>1, <2>2
<1>8. ContentOf(b1) = [ContentOf(b) EXCEPT ![k] = NoValue] BY <1>7 DEF ContentOf
<1> QED BY <1>6, <1>8 DEF i

(* The entry at the deletion's bucket is taken out and inserted again. *)
LEMMA Rehashes ==
  ASSUME NEW n, NEW b, NEW m, NEW i \in Occupied(b), Whole(b, n, m, {i})
  PROVE  LET b1 == Insert([b EXCEPT ![i] = Vacant], b[i])
         IN  Whole(b1, n, m, {Turn(n, i, 1)}) /\ ContentOf(b1) = ContentOf(b)
<1> DEFINE c == [b EXCEPT ![i] = Vacant]
           e == b[i]
           b1 == Insert(c, e)
<1>1. /\ n \in Nat \ {0} /\ m \in 0 .. n - 1 /\ Table(b, n) /\ Distinct(b)
      /\ Traced(b, n, {i}) /\ m = Cardinality(Occupied(b))
  BY WholeFacts
<1>2. Stored(c, b, i, Vacant) BY DEF Stored
<1>3. e \in Entry /\ e = b[i] BY <1>1, TableFacts
<1>4. LET b2 == Insert(c, e)
      IN  Whole(b2, n, m, {Turn(n, i, 1)}) /\ ContentOf(b2) = ContentOf(b)
  <2> HIDE DEF c, e
  <2>1. Table(c, n) /\ Shrunk(c, b, i) /\ Traced(c, n, {Turn(n, i, 1)})
    <3>1. {i} \in {{}, {i}} OBVIOUS
    <3> QED BY <1>1, <1>2, <3>1, Vacated
  <2>2. Absent(c, e.key)
    <3> SUFFICES ASSUME NEW j \in Occupied(c) PROVE c[j].key # e.key
      BY DEF Absent
    <3>1. j \in Occupied(b) /\ j # i /\ c[j] = b[j] BY <2>1 DEF Shrunk
    <3> QED BY <3>1, <1>1, <1>3 DEF Distinct
  <2>3. Distinct(c) BY <1>1, <2>1 DEF Distinct, Shrunk
  <2>4. \E j \in 0 .. n - 1 : c[j] = Vacant BY <1>1, <2>1, TableFacts DEF Shrunk
  <2>5. Table(b1, n) /\ Grown(b1, c, e) /\ Distinct(b1) /\ Traced(b1, n, {Turn(n, i, 1)})
    BY <1>3, <2>1, <2>2, <2>3, <2>4, Inserts
  <2>6. Entries(b1) = Entries(b)
    <3>1. Entries(b) = Entries(c) \cup {e} BY <1>3, <2>1 DEF Entries, Shrunk
    <3> QED BY <3>1, <2>5 DEF Grown
  <2>7. Cardinality(Occupied(b1)) = m
    <3>1. Cardinality(Occupied(c)) = m - 1 BY <1>1, <2>1 DEF Shrunk
    <3>2. Cardinality(Occupied(b1)) = Cardinality(Occupied(c)) + 1 BY <2>5 DEF Grown
    <3> QED BY <3>1, <3>2, <1>1
  <2> HIDE DEF b1
  <2>8. Whole(b1, n, m, {Turn(n, i, 1)}) BY <1>1, <2>5, <2>7 DEF Whole
  <2>9. ContentOf(b1) = ContentOf(b) BY <1>1, <2>5, <2>6, SameContent
  <2> QED BY <2>8, <2>9 DEF b1
<1> QED BY <1>4

-----------------------------------------------------------------------------
(* The invariant. *)

(* A table without entries. *)
LEMMA EmptyWhole ==
  ASSUME NEW n \in Nat \ {0}
  PROVE  Whole(Empty(n), n, 0, {}) /\ Entries(Empty(n)) = {}
<1>1. Table(Empty(n), n) BY DEF Table, Empty
<1>2. Occupied(Empty(n)) = {} BY DEF Occupied, Empty
<1>3. Cardinality({}) = 0 BY FS_EmptySet
<1> QED BY <1>1, <1>2, <1>3 DEF Whole, Distinct, Traced, Entries

(* The inductive invariant gives what the run checks. *)
LEMMA InductiveImplies == MapInductive => MapInv
<1> SUFFICES ASSUME MapInductive PROVE MapInv
  OBVIOUS
<1> DEFINE n == Size(buckets)
<1>1. Whole(buckets, n, entries, Excused) /\ n \in InitialBuckets .. MaxBuckets
  BY DEF MapInductive, TableWhole
<1>2. n \in Nat \ {0} /\ entries \in 0 .. n BY <1>1, WholeFacts
<1>3. buckets \in [0 .. n - 1 -> {Vacant} \cup [key : Keys, value : Values]]
  BY <1>1, WholeFacts DEF Table, Entry
<1>4. /\ mapPc \in {"idle", "resize", "insert", "rehash"}
      /\ at \in 0 .. n /\ (mapPc = "rehash" => at < n)
  <2> HIDE DEF n
  <2>1. CallShape /\ n = Size(buckets) BY DEF MapInductive, n
  <2> QED BY <2>1, <1>2 DEF CallShape
<1>5. MapTypeOK BY <1>1, <1>2, <1>3, <1>4 DEF MapTypeOK
<1>6. ProbeEnds
  <2>1. mapPc = "resize" => Whole(fresh, 2 * Size(buckets), Cardinality(Moved), {})
    BY DEF MapInductive, HalfWay
  <2> QED BY <1>1, <2>1, WholeFacts DEF ProbeEnds
<1>7. KeyedOnce BY <1>1, WholeFacts DEF KeyedOnce, Distinct
<1> QED BY <1>5, <1>6, <1>7 DEF MapInv

(* A new map. *)
LEMMA MapInitInductive == MapInit => MapInductive
<1> SUFFICES ASSUME MapInit PROVE MapInductive
  OBVIOUS
<1> DEFINE n == InitialBuckets
<1>1. n \in Nat \ {0} /\ n \in InitialBuckets .. MaxBuckets OBVIOUS
<1> HIDE DEF n
<1>2. Whole(Empty(n), n, 0, {}) BY <1>1, EmptyWhole
<1>3. TableWhole
  <2>1. buckets = Empty(n) /\ entries = 0 BY DEF MapInit, n
  <2>2. Size(buckets) = n BY <1>2, <2>1, WholeFacts
  <2>3. Excused = {} BY DEF MapInit, Excused
  <2> QED BY <1>1, <1>2, <2>1, <2>2, <2>3 DEF TableWhole
<1>4. HalfWay /\ CallShape BY DEF MapInit, HalfWay, CallShape
<1> QED BY <1>3, <1>4 DEF MapInductive

(* Steps that leave the table alone. *)
LEMMA TableKept ==
  ASSUME MapInductive, UNCHANGED <<buckets, entries>>,
         mapPc # "rehash", mapPc' # "rehash"
  PROVE  TableWhole'
BY DEF MapInductive, TableWhole, Excused

(* A set begins, with a resize if the table is at its load limit. *)
LEMMA SetBeginKeeps ==
  ASSUME MapInductive, NEW k \in Keys, NEW v \in Values, SetBegin(k, v)
  PROVE  MapInductive'
<1> DEFINE n == Size(buckets)
<1>1. n \in Nat \ {0} /\ entries \in Nat BY WholeFacts DEF MapInductive, TableWhole
<1>2. TableWhole' BY TableKept DEF SetBegin
<1>3. call' \in Entry BY DEF SetBegin, Entry
<1>4. CASE Overloaded
  <2>1. mapPc' = "resize" /\ fresh' = Empty(n * 2) /\ at' = 0 /\ buckets' = buckets
        /\ n * 2 <= MaxBuckets
    BY <1>4 DEF SetBegin
  <2>2. Moved' = {}
    <3>1. Occupied(buckets) \subseteq 0 .. n - 1
      BY WholeFacts, TableFacts DEF MapInductive, TableWhole
    <3> QED BY <2>1, <3>1 DEF Moved
  <2>3. n * 2 = 2 * n /\ 2 * n \in Nat \ {0} BY <1>1
  <2>4. Whole(fresh', 2 * n, 0, {}) /\ Entries(fresh') = {} BY <2>1, <2>3, EmptyWhole
  <2>5. Cardinality({}) = 0 BY FS_EmptySet
  <2>6. HalfWay' BY <2>1, <2>2, <2>3, <2>4, <2>5 DEF HalfWay
  <2>7. CallShape' BY <2>1, <1>3, <1>1 DEF CallShape
  <2> QED BY <1>2, <2>6, <2>7 DEF MapInductive
<1>5. CASE ~Overloaded
  <2>1. mapPc' = "insert" /\ UNCHANGED <<fresh, at, buckets, entries>> /\ mapPc = "idle"
    BY <1>5 DEF SetBegin
  <2>2. entries * 100 < n * 75 BY <1>5, <1>1 DEF Overloaded
  <2>3. HalfWay' BY <2>1 DEF HalfWay
  <2>4. CallShape' BY <2>1, <2>2, <1>3 DEF CallShape, MapInductive
  <2> QED BY <1>2, <2>3, <2>4 DEF MapInductive
<1> QED BY <1>4, <1>5

(* One old bucket is moved to the new table. *)
LEMMA ResizeStepKeeps ==
  ASSUME MapInductive, ResizeStep
  PROVE  MapInductive'
<1> DEFINE n == Size(buckets)
<1>1. /\ Whole(buckets, n, entries, {})
      /\ mapPc = "resize" /\ mapPc' = "resize" /\ UNCHANGED <<buckets, entries, call>>
      /\ at \in 0 .. n - 1 /\ at' = at + 1 /\ n \in Nat \ {0}
  <2>1. Whole(buckets, n, entries, Excused) BY DEF MapInductive, TableWhole
  <2>2. mapPc = "resize" /\ mapPc' = "resize" /\ UNCHANGED <<buckets, entries, call>>
        /\ at < n /\ at' = at + 1
    BY DEF ResizeStep
  <2>3. at \in 0 .. n BY <2>2 DEF MapInductive, CallShape
  <2>4. Excused = {} BY <2>2 DEF Excused
  <2>5. n \in Nat \ {0} BY <2>1, WholeFacts
  <2>6. at \in 0 .. n - 1
    <3> HIDE DEF n
    <3> QED BY <2>2, <2>3, <2>5
  <2> QED BY <2>1, <2>2, <2>4, <2>5, <2>6
<1>2. /\ Whole(fresh, 2 * n, Cardinality(Moved), {})
      /\ Entries(fresh) = {buckets[i] : i \in Moved} /\ 2 * n <= MaxBuckets
  BY <1>1 DEF MapInductive, HalfWay
<1>3. TableWhole' BY <1>1, TableKept
<1>4. CallShape' 
  <2>1. call \in Entry BY <1>1 DEF MapInductive, CallShape
  <2>2. at' \in 0 .. n BY <1>1
  <2> QED BY <1>1, <2>1, <2>2 DEF CallShape
<1>5. Occupied(buckets) \subseteq 0 .. n - 1 /\ IsFiniteSet(Occupied(buckets))
      /\ Cardinality(Occupied(buckets)) = entries /\ entries \in 0 .. n - 1
  BY <1>1, WholeFacts, TableFacts
<1>6. IsFiniteSet(Moved') /\ Cardinality(Moved') \in 0 .. n - 1 /\ IsFiniteSet(Moved)
  <2>1. Moved' \subseteq Occupied(buckets) /\ Moved \subseteq Occupied(buckets) BY <1>1 DEF Moved
  <2>2. IsFiniteSet(Moved') /\ Cardinality(Moved') <= entries /\ IsFiniteSet(Moved)
    BY <2>1, <1>5, FS_Subset
  <2> QED BY <2>2, <1>5, <1>1, FS_CardinalityType
<1>7. CASE buckets[at] = Vacant
  <2>1. Moved' = Moved
    <3>1. at \notin Occupied(buckets) BY <1>7 DEF Occupied
    <3>2. ASSUME NEW i \in Occupied(buckets) PROVE i < at + 1 <=> i < at
      BY <3>1, <1>1, <1>5
    <3> QED BY <3>2, <1>1 DEF Moved
  <2>2. fresh' = fresh BY <1>7 DEF ResizeStep
  <2>3. HalfWay' BY <1>1, <1>2, <2>1, <2>2 DEF HalfWay
  <2> QED BY <1>3, <1>4, <2>3 DEF MapInductive
<1>8. CASE buckets[at] # Vacant
  <2> DEFINE e == buckets[at]
  <2>1. at \in Occupied(buckets) /\ e \in Entry
    <3>1. DOMAIN buckets = 0 .. n - 1 /\ Table(buckets, n) BY <1>1, WholeFacts
    <3>2. at \in Occupied(buckets) BY <1>8, <1>1, <3>1 DEF Occupied
    <3> QED BY <3>1, <3>2, TableFacts
  <2>2. Moved' = Moved \cup {at} /\ at \notin Moved
    <3>1. ASSUME NEW i \in Occupied(buckets) PROVE i < at + 1 <=> i < at \/ i = at
      BY <1>1, <1>5
    <3>2. ~(at < at) BY <1>1
    <3> QED BY <3>1, <3>2, <1>1, <2>1 DEF Moved
  <2>3. Cardinality(Moved') = Cardinality(Moved) + 1 BY <2>2, <1>6, FS_AddElement
  <2>4. fresh' = Insert(fresh, e) BY <1>8 DEF ResizeStep
  <2>5. Absent(fresh, e.key)
    <3> SUFFICES ASSUME NEW j \in Occupied(fresh) PROVE fresh[j].key # e.key
      BY DEF Absent
    <3>1. fresh[j] \in Entries(fresh) BY DEF Entries
    <3>2. PICK i \in Moved : fresh[j] = buckets[i] BY <3>1, <1>2
    <3>3. i \in Occupied(buckets) /\ i # at BY <2>2 DEF Moved
    <3> QED BY <3>2, <3>3, <2>1, <1>1, WholeFacts DEF Distinct
  <2> HIDE DEF e
  <2>6. Table(fresh, 2 * n) /\ Distinct(fresh) /\ Traced(fresh, 2 * n, {})
        /\ \E i \in 0 .. 2 * n - 1 : fresh[i] = Vacant
    BY <1>2, WholeFacts
  <2>7. /\ Table(fresh', 2 * n) /\ Grown(fresh', fresh, e)
        /\ Distinct(fresh') /\ Traced(fresh', 2 * n, {})
    BY <2>1, <2>4, <2>5, <2>6, Inserts
  <2>8. Cardinality(Moved') < 2 * n BY <1>6, <1>1
  <2>9. Whole(fresh', 2 * n, Cardinality(Moved'), {})
    BY <2>3, <2>7, <2>8, <1>2, WholeFacts DEF Whole, Grown
  <2>10. Entries(fresh') = {buckets[i] : i \in Moved'} BY <2>2, <2>7, <1>2 DEF e, Grown
  <2>11. HalfWay' BY <1>1, <1>2, <2>9, <2>10 DEF HalfWay
  <2> QED BY <1>3, <1>4, <2>11 DEF MapInductive
<1> QED BY <1>7, <1>8

(* Between two calls, or before a store, nothing is excused. *)
LEMMA Settled ==
  ASSUME MapInductive, mapPc # "rehash"
  PROVE  /\ Whole(buckets, Size(buckets), entries, {})
         /\ Size(buckets) \in InitialBuckets .. MaxBuckets
         /\ Size(buckets) \in Nat \ {0} /\ entries \in 0 .. Size(buckets) - 1
<1>1. Whole(buckets, Size(buckets), entries, {}) BY DEF MapInductive, TableWhole, Excused
<1>2. Size(buckets) \in InitialBuckets .. MaxBuckets BY DEF MapInductive, TableWhole
<1> QED BY <1>1, <1>2, WholeFacts

(* A resize ends with the entries it began with. *)
LEMMA ResizeDoneKeeps ==
  ASSUME MapInductive, ResizeDone
  PROVE  MapInductive' /\ ContentOf(buckets') = ContentOf(buckets)
<1> DEFINE n == Size(buckets)
<1>1. mapPc = "resize" /\ at = n /\ buckets' = fresh /\ at' = 0 /\ mapPc' = "insert"
      /\ UNCHANGED <<entries, call>>
  BY DEF ResizeDone
<1>2. /\ Whole(buckets, n, entries, {}) /\ n \in InitialBuckets .. MaxBuckets
      /\ n \in Nat \ {0} /\ entries \in 0 .. n - 1
  BY <1>1, Settled
<1>3. /\ Whole(fresh, 2 * n, Cardinality(Moved), {})
      /\ Entries(fresh) = {buckets[i] : i \in Moved} /\ 2 * n <= MaxBuckets
  BY <1>1 DEF MapInductive, HalfWay
<1>4. Moved = Occupied(buckets)
  <2>1. Occupied(buckets) \subseteq 0 .. n - 1 BY <1>2, WholeFacts, TableFacts
  <2>2. \A i \in 0 .. n - 1 : i < n BY <1>2
  <2> QED BY <1>1, <2>1, <2>2 DEF Moved
<1>5. Entries(fresh) = Entries(buckets) BY <1>3, <1>4 DEF Entries
<1>6. Cardinality(Moved) = entries BY <1>2, <1>4, WholeFacts
<1>7. Whole(buckets', 2 * n, entries', {}) BY <1>1, <1>3, <1>6
<1>8. Size(buckets') = 2 * n BY <1>7, WholeFacts
<1>9. Excused' = {} BY <1>1 DEF Excused
<1>10. 2 * n \in InitialBuckets .. MaxBuckets BY <1>2, <1>3
<1>11. TableWhole' BY <1>7, <1>8, <1>9, <1>10 DEF TableWhole
<1>12. HalfWay' BY <1>1 DEF HalfWay
<1>13. CallShape'
  <2>1. call \in Entry BY <1>1 DEF MapInductive, CallShape
  <2>2. entries * 100 < (2 * n) * 75 BY <1>2
  <2> QED BY <1>1, <1>8, <2>1, <2>2 DEF CallShape
<1>14. ContentOf(buckets') = ContentOf(buckets)
  <2>1. Table(fresh, 2 * n) /\ Distinct(fresh) BY <1>3, WholeFacts
  <2>2. Table(buckets, n) /\ Distinct(buckets) BY <1>2, WholeFacts
  <2> QED BY <1>1, <1>5, <2>1, <2>2, SameContent
<1> QED BY <1>11, <1>12, <1>13, <1>14 DEF MapInductive

(* The value is stored, and the map holds it. *)
LEMMA SetStoreKeeps ==
  ASSUME MapInductive, SetStore
  PROVE  MapInductive' /\ ContentOf(buckets') = [ContentOf(buckets) EXCEPT ![call.key] = call.value]
<1> DEFINE n == Size(buckets)
           i == Search(buckets, call.key)
<1>1. /\ mapPc = "insert" /\ buckets' = [buckets EXCEPT ![i] = call]
      /\ entries' = CountedIfNew(i) /\ mapPc' = "idle" /\ UNCHANGED at
  BY DEF SetStore
<1>2. /\ Whole(buckets, n, entries, {}) /\ n \in InitialBuckets .. MaxBuckets
      /\ n \in Nat \ {0} /\ entries \in 0 .. n - 1
  BY <1>1, Settled
<1>3. call \in Entry /\ at = 0 /\ entries * 100 < n * 75
  BY <1>1 DEF MapInductive, CallShape
<1>4. entries + 1 < n BY <1>2, <1>3
<1>5. Stored(buckets', buckets, i, call) BY <1>1 DEF Stored
<1>6. /\ Whole(buckets', n, IF buckets[i] = Vacant THEN entries + 1 ELSE entries, {})
      /\ ContentOf(buckets') = [ContentOf(buckets) EXCEPT ![call.key] = call.value]
  <2> HIDE DEF n
  <2> QED BY <1>2, <1>3, <1>4, <1>5, Stores
<1>7. Whole(buckets', n, entries', {}) BY <1>1, <1>6 DEF CountedIfNew
<1>8. Size(buckets') = n BY <1>7, WholeFacts
<1>9. Excused' = {} BY <1>1 DEF Excused
<1>10. TableWhole' BY <1>2, <1>7, <1>8, <1>9 DEF TableWhole
<1>11. HalfWay' /\ CallShape' BY <1>1, <1>3 DEF HalfWay, CallShape
<1> QED BY <1>6, <1>10, <1>11 DEF MapInductive

(* Memory is refused. *)
LEMMA SetRefusedKeeps ==
  ASSUME MapInductive, SetRefused
  PROVE  MapInductive'
<1>1. TableWhole' BY TableKept DEF SetRefused
<1>2. at = 0
  <2>1. CASE mapPc = "insert" BY <2>1 DEF MapInductive, CallShape
  <2>2. CASE mapPc = "resize" BY <2>2 DEF SetRefused
  <2> QED BY <2>1, <2>2 DEF SetRefused
<1>3. HalfWay' /\ CallShape' BY <1>2 DEF SetRefused, HalfWay, CallShape
<1> QED BY <1>1, <1>3 DEF MapInductive

(* A get answers what the map holds. *)
LEMMA MapGetKeeps ==
  ASSUME MapInductive, NEW k \in Keys, MapGet(k)
  PROVE  MapInductive' /\ mapAnswer' = ContentOf(buckets)[k]
<1>1. Whole(buckets, Size(buckets), entries, {}) BY Settled DEF MapGet
<1>2. mapAnswer' = ContentOf(buckets)[k] BY <1>1, Lookup DEF MapGet
<1>3. TableWhole' BY TableKept DEF MapGet
<1>4. HalfWay' /\ CallShape' BY DEF MapGet, HalfWay, CallShape, MapInductive
<1> QED BY <1>2, <1>3, <1>4 DEF MapInductive

(* The entry is dropped, and the map no longer holds the key. *)
LEMMA DeleteBeginKeeps ==
  ASSUME MapInductive, NEW k \in Keys, DeleteBegin(k)
  PROVE  /\ MapInductive'
         /\ ContentOf(buckets') = [ContentOf(buckets) EXCEPT ![k] = NoValue]
         /\ mapAnswer' = IF ContentOf(buckets)[k] = NoValue THEN NoValue ELSE Deleted
<1> DEFINE n == Size(buckets)
           i == Search(buckets, k)
<1>1. mapPc = "idle" /\ mapAnswer' = IF buckets[i] = Vacant THEN NoValue ELSE Deleted
  BY DEF DeleteBegin
<1>2. /\ Whole(buckets, n, entries, {}) /\ n \in InitialBuckets .. MaxBuckets
      /\ n \in Nat \ {0} /\ entries \in 0 .. n - 1
  BY <1>1, Settled
<1>3. /\ i \in 0 .. n - 1
      /\ buckets[i] = Vacant => ContentOf(buckets)[k] = NoValue
      /\ buckets[i] # Vacant => ContentOf(buckets)[k] # NoValue
  BY <1>2, Lookup
<1>4. mapAnswer' = IF ContentOf(buckets)[k] = NoValue THEN NoValue ELSE Deleted
  BY <1>1, <1>3
<1>5. CASE buckets[i] = Vacant
  <2>1. UNCHANGED <<buckets, entries, mapPc, at, call, fresh>> BY <1>5 DEF DeleteBegin
  <2>2. TableWhole' BY <1>1, <2>1, TableKept
  <2>3. HalfWay' /\ CallShape' BY <1>1, <2>1 DEF HalfWay, CallShape, MapInductive
  <2>4. ContentOf(buckets) = [ContentOf(buckets) EXCEPT ![k] = NoValue]
    BY <1>3, <1>5 DEF ContentOf
  <2> QED BY <1>4, <2>1, <2>2, <2>3, <2>4 DEF MapInductive
<1>6. CASE buckets[i] # Vacant
  <2>1. /\ buckets' = [buckets EXCEPT ![i] = Vacant] /\ entries' = entries - 1
        /\ mapPc' = "rehash" /\ at' = NextBucket(i)
    BY <1>6 DEF DeleteBegin, RehashFrom
  <2>2. Stored(buckets', buckets, i, Vacant) BY <2>1 DEF Stored
  <2>3. at' = Turn(n, i, 1) BY <2>1 DEF NextBucket, Turn
  <2>4. /\ Whole(buckets', n, entries - 1, {Turn(n, i, 1)})
        /\ ContentOf(buckets') = [ContentOf(buckets) EXCEPT ![k] = NoValue]
    <3> HIDE DEF n
    <3> QED BY <1>2, <1>6, <2>2, Deletes
  <2>5. Whole(buckets', n, entries', {at'}) BY <2>1, <2>3, <2>4
  <2>6. Size(buckets') = n BY <2>5, WholeFacts
  <2>7. Excused' = {at'} BY <2>1 DEF Excused
  <2>8. TableWhole' BY <1>2, <2>5, <2>6, <2>7 DEF TableWhole
  <2>9. at' \in 0 .. n - 1
    <3> HIDE DEF n
    <3>1. i \in Nat /\ 1 \in 0 .. n BY <1>2, <1>3
    <3>2. (i + 1) % n \in 0 .. n - 1 BY <1>2, <3>1
    <3> QED BY <2>3, <3>2 DEF Turn
  <2>10. HalfWay' /\ CallShape' BY <2>1, <2>6, <2>9 DEF HalfWay, CallShape
  <2> QED BY <1>4, <2>4, <2>8, <2>10 DEF MapInductive
<1> QED BY <1>5, <1>6

(* One entry of the cluster is inserted again; the map is the same. *)
LEMMA RehashStepKeeps ==
  ASSUME MapInductive, RehashStep
  PROVE  MapInductive' /\ ContentOf(buckets') = ContentOf(buckets)
<1> DEFINE n == Size(buckets)
<1>1. /\ mapPc = "rehash" /\ mapPc' = "rehash" /\ buckets[at] # Vacant
      /\ buckets' = Insert([buckets EXCEPT ![at] = Vacant], buckets[at])
      /\ at' = NextBucket(at) /\ entries' = entries
  BY DEF RehashStep
<1>2. Whole(buckets, n, entries, {at}) /\ n \in InitialBuckets .. MaxBuckets
  BY <1>1 DEF MapInductive, TableWhole, Excused
<1>3. n \in Nat \ {0} /\ DOMAIN buckets = 0 .. n - 1 BY <1>2, WholeFacts
<1>4. at \in 0 .. n - 1 BY <1>1 DEF MapInductive, CallShape
<1>5. at \in Occupied(buckets) BY <1>1, <1>3, <1>4 DEF Occupied
<1>6. at' = Turn(n, at, 1) BY <1>1 DEF NextBucket, Turn
<1>7. /\ Whole(buckets', n, entries, {Turn(n, at, 1)})
      /\ ContentOf(buckets') = ContentOf(buckets)
  <2> HIDE DEF n
  <2> QED BY <1>1, <1>2, <1>5, Rehashes
<1>8. Whole(buckets', n, entries', {at'}) BY <1>1, <1>6, <1>7
<1>9. Size(buckets') = n BY <1>8, WholeFacts
<1>10. Excused' = {at'} BY <1>1 DEF Excused
<1>11. TableWhole' BY <1>2, <1>8, <1>9, <1>10 DEF TableWhole
<1>12. at' \in 0 .. n - 1
  <2> HIDE DEF n
  <2>1. (at + 1) % n \in 0 .. n - 1 BY <1>3, <1>4
  <2> QED BY <1>6, <2>1 DEF Turn
<1>13. HalfWay' /\ CallShape' BY <1>1, <1>9, <1>12 DEF HalfWay, CallShape
<1> QED BY <1>7, <1>11, <1>13 DEF MapInductive

(* When the deletion meets a vacant bucket, no entry is left to excuse. *)
LEMMA RehashDoneKeeps ==
  ASSUME MapInductive, RehashDone
  PROVE  MapInductive'
<1> DEFINE n == Size(buckets)
<1>1. /\ mapPc = "rehash" /\ mapPc' = "idle" /\ buckets[at] = Vacant /\ at' = 0
      /\ UNCHANGED <<buckets, entries>>
  BY DEF RehashDone
<1>2. Whole(buckets, n, entries, {at}) /\ n \in InitialBuckets .. MaxBuckets
  BY <1>1 DEF MapInductive, TableWhole, Excused
<1>3. Traced(buckets, n, {})
  <2> HIDE DEF n
  <2>1. n \in Nat \ {0} /\ Traced(buckets, n, {at}) BY <1>2, WholeFacts
  <2> SUFFICES ASSUME NEW i \in Occupied(buckets), NEW d \in 0 .. n - 1,
                      Step(n, buckets[i].key, d) = i,
                      NEW c \in 0 .. d - 1, buckets[Step(n, buckets[i].key, c)] = Vacant
               PROVE  FALSE
    BY DEF Traced
  <2>2. PICK a \in c + 1 .. d :
          /\ Step(n, buckets[i].key, a) \in {at}
          /\ \A y \in a .. d : buckets[Step(n, buckets[i].key, y)] # Vacant
    BY <2>1 DEF Traced
  <2>3. a \in a .. d BY <2>1
  <2> QED BY <1>1, <2>2, <2>3
<1>4. Whole(buckets', n, entries', {}) BY <1>1, <1>2, <1>3 DEF Whole
<1>5. Excused' = {} BY <1>1 DEF Excused
<1>6. TableWhole' BY <1>1, <1>2, <1>4, <1>5 DEF TableWhole
<1>7. HalfWay' /\ CallShape' BY <1>1 DEF HalfWay, CallShape
<1> QED BY <1>6, <1>7 DEF MapInductive

(* Every step keeps the invariant. *)
LEMMA MapNextInductive == MapInductive /\ [MapNext]_mapVars => MapInductive'
<1> SUFFICES ASSUME MapInductive, [MapNext]_mapVars PROVE MapInductive'
  OBVIOUS
<1>1. ASSUME NEW k \in Keys, MapGet(k) PROVE MapInductive' BY <1>1, MapGetKeeps
<1>2. ASSUME NEW k \in Keys, DeleteBegin(k) PROVE MapInductive' BY <1>2, DeleteBeginKeeps
<1>3. ASSUME NEW k \in Keys, NEW v \in Values, SetBegin(k, v) PROVE MapInductive'
  BY <1>3, SetBeginKeeps
<1>4. CASE ResizeStep BY <1>4, ResizeStepKeeps
<1>5. CASE ResizeDone BY <1>5, ResizeDoneKeeps
<1>6. CASE SetStore BY <1>6, SetStoreKeeps
<1>7. CASE SetRefused BY <1>7, SetRefusedKeeps
<1>8. CASE RehashStep BY <1>8, RehashStepKeeps
<1>9. CASE RehashDone BY <1>9, RehashDoneKeeps
<1>10. CASE UNCHANGED mapVars
  BY <1>10 DEF mapVars, MapInductive, TableWhole, HalfWay, CallShape, Excused, Moved
<1> QED
  BY <1>1, <1>2, <1>3, <1>4, <1>5, <1>6, <1>7, <1>8, <1>9, <1>10 DEF MapNext, MapLoop

(* The invariant holds in every reachable state. *)
LEMMA MapInductiveHolds == MapSpec => []MapInductive
BY MapInitInductive, MapNextInductive, PTL DEF MapSpec

-----------------------------------------------------------------------------
(* For any keys, hashes and sizes of orbit_map_set, orbit_map_delete and   *)
(* orbit_map_resize: at every step there is a vacant bucket to end a probe *)
(* loop, no key is in two buckets, and the count is exact.                 *)
THEOREM ProbesEnd == MapSpec => []MapInv
<1>1. MapInductive => MapInv BY InductiveImplies
<1> QED BY <1>1, MapInductiveHolds, PTL

(* A step of the table is a step of the map, or changes nothing of it. *)
LEMMA StepRefines ==
  MapInductive /\ [MapNext]_mapVars => [Abstract!Next]_<<Content, mapAnswer>>
<1> SUFFICES ASSUME MapInductive, [MapNext]_mapVars
             PROVE  [Abstract!Next]_<<Content, mapAnswer>>
  OBVIOUS
<1>1. Content = ContentOf(buckets) /\ Content' = ContentOf(buckets')
  BY DEF Content, ContentOf
<1> USE <1>1
<1>2. ASSUME NEW k \in Keys, MapGet(k) PROVE Abstract!Get(k)
  <2>1. mapAnswer' = ContentOf(buckets)[k] /\ buckets' = buckets
    BY <1>2, MapGetKeeps DEF MapGet
  <2> QED BY <2>1 DEF Abstract!Get
<1>3. ASSUME NEW k \in Keys, DeleteBegin(k) PROVE Abstract!Delete(k)
  BY <1>3, DeleteBeginKeeps DEF Abstract!Delete
<1>4. ASSUME NEW k \in Keys, NEW v \in Values, SetBegin(k, v) PROVE UNCHANGED <<Content, mapAnswer>>
  BY <1>4 DEF SetBegin
<1>5. CASE ResizeStep BY <1>5 DEF ResizeStep
<1>6. CASE ResizeDone BY <1>6, ResizeDoneKeeps DEF ResizeDone
<1>7. CASE SetStore
  <2>1. call.key \in Keys /\ call.value \in Values
    BY <1>7 DEF SetStore, MapInductive, CallShape, Entry
  <2>2. Abstract!Set(call.key, call.value)
    BY <1>7, SetStoreKeeps DEF SetStore, Abstract!Set
  <2> QED BY <2>1, <2>2 DEF Abstract!Next
<1>8. CASE SetRefused BY <1>8 DEF SetRefused, Abstract!Next, Abstract!OutOfMemory
<1>9. CASE RehashStep BY <1>9, RehashStepKeeps DEF RehashStep
<1>10. CASE RehashDone BY <1>10 DEF RehashDone
<1>11. CASE UNCHANGED mapVars BY <1>11 DEF mapVars
<1> QED
  BY <1>2, <1>3, <1>4, <1>5, <1>6, <1>7, <1>8, <1>9, <1>10, <1>11
     DEF MapNext, MapLoop, Abstract!Next

(* A new table is the empty map. *)
LEMMA InitRefines == MapInit => Abstract!Init
<1> SUFFICES ASSUME MapInit PROVE Abstract!Init
  OBVIOUS
<1> DEFINE n == InitialBuckets
<1>1. Whole(buckets, n, 0, {}) /\ Entries(buckets) = {} BY EmptyWhole DEF MapInit
<1>2. ASSUME NEW k \in Keys PROVE Content[k] = NoValue
  <2>1. Occupied(buckets) = {} BY <1>1 DEF Entries
  <2>2. Absent(buckets, k) BY <2>1 DEF Absent
  <2>3. Content = ContentOf(buckets) BY DEF Content, ContentOf
  <2> HIDE DEF n
  <2> QED BY <1>1, <2>2, <2>3, WholeFacts, ContentIs
<1>3. Content = [k \in Keys |-> NoValue] BY <1>2 DEF Content
<1> QED BY <1>3 DEF MapInit, Abstract!Init

(* For any keys, hashes and sizes the calls on the table answer, and       *)
(* change what it holds, as the calls on a map do.                         *)
THEOREM TableIsMap == MapSpec => ImplementsMap
BY InitRefines, StepRefines, MapInductiveHolds, PTL DEF MapSpec, ImplementsMap, Abstract!Spec

-----------------------------------------------------------------------------
(* The limits of the arena. *)
LEMMA ArenaLimits ==
  /\ Align \in Nat \ {0} /\ Page \in Nat \ {0} /\ DefReserve \in Nat \ {0} /\ DefCommit \in Nat \ {0}
  /\ DefCommit <= DefReserve /\ Initial \in Nat /\ MaxRule \in Nat /\ HotLimit \in Nat
  /\ HotCeiling \in Nat /\ SizeMax \in Nat /\ LeaseLimit \in Nat /\ Sizes \subseteq Nat
  /\ MaxSegs \in Nat \ {0}
BY ArenaAssumption

(* Whole pages. *)
Paged(n) == \E k \in Nat : n = k * Page

(* Rounding up: 0, or the smallest multiple that is not below. *)
LEMMA AlignUpIs ==
  ASSUME NEW n \in Nat, NEW a \in Nat \ {0}
  PROVE  /\ AlignUp(n, a) \in Nat
         /\ AlignUp(n, a) > 0 => n <= AlignUp(n, a)
         /\ \E k \in Nat : AlignUp(n, a) = k * a
         /\ \A j \in Nat : n <= j * a => AlignUp(n, a) <= j * a
<1> USE ArenaLimits
<1>1. CASE n > SizeMax - (a - 1)
  <2>1. AlignUp(n, a) = 0 /\ 0 = 0 * a BY <1>1 DEF AlignUp
  <2>2. \A j \in Nat : j * a \in Nat OBVIOUS
  <2> QED BY <2>1, <2>2
<1>2. CASE ~(n > SizeMax - (a - 1))
  <2> DEFINE x == n + a - 1
             q == x \div a
  <2>1. AlignUp(n, a) = q * a BY <1>2 DEF AlignUp
  <2>2. x \in Nat OBVIOUS
  <2>3. q \in Nat /\ q * a <= x /\ x < (q + 1) * a BY <2>2, QuotientIs
  <2> HIDE DEF q
  <2>4. q * a \in Nat /\ (q + 1) * a = q * a + a BY <2>3
  <2>5. n <= q * a BY <2>3, <2>4
  <2>6. ASSUME NEW j \in Nat, n <= j * a PROVE q * a <= j * a
    <3>1. j * a \in Nat /\ (j + 1) * a = j * a + a OBVIOUS
    <3>2. q * a < (j + 1) * a BY <2>3, <2>4, <2>6, <3>1
    <3>3. q <= j
      <4> SUFFICES ASSUME j + 1 <= q PROVE FALSE BY <2>3
      <4>1. (j + 1) * a <= q * a BY <2>3, TimesMonotone
      <4> QED BY <2>4, <3>1, <3>2, <4>1
    <3> QED BY <2>3, <3>3, TimesMonotone
  <2> QED BY <2>1, <2>3, <2>4, <2>5, <2>6
<1> QED BY <1>1, <1>2

(* Rounding up to pages. *)
LEMMA PagesUp ==
  ASSUME NEW n \in Nat
  PROVE  LET p == AlignUp(n, Page)
         IN  /\ p \in Nat /\ Paged(p) /\ (p > 0 => n <= p)
             /\ \A m \in Nat : Paged(m) /\ n <= m => p <= m
<1> DEFINE p == AlignUp(n, Page)
<1>1. /\ p \in Nat /\ (p > 0 => n <= p) /\ \E k \in Nat : p = k * Page
      /\ \A j \in Nat : n <= j * Page => p <= j * Page
  BY ArenaLimits, AlignUpIs
<1> HIDE DEF p
<1>2. \A m \in Nat : Paged(m) /\ n <= m => p <= m BY <1>1 DEF Paged
<1> QED BY <1>1, <1>2 DEF Paged, p

(* The sum and the difference of whole pages are. *)
LEMMA PagedSums ==
  ASSUME NEW n \in Nat, NEW m \in Nat, Paged(n), Paged(m)
  PROVE  Paged(n + m) /\ (n <= m => Paged(m - n))
<1> USE ArenaLimits
<1>1. PICK j \in Nat : n = j * Page BY DEF Paged
<1>2. PICK k \in Nat : m = k * Page BY DEF Paged
<1>3. (j + k) * Page = n + m BY <1>1, <1>2
<1>4. ASSUME n <= m PROVE Paged(m - n)
  <2>1. j <= k BY <1>1, <1>2, <1>4, TimesCancel
  <2>2. k - j \in Nat /\ (k - j) * Page = m - n BY <1>1, <1>2, <2>1
  <2> QED BY <2>2 DEF Paged
<1> QED BY <1>3, <1>4 DEF Paged

(* Rounding a larger size up to pages gives no less. *)
LEMMA PagesMonotone ==
  ASSUME NEW n \in Nat, NEW m \in Nat, n <= m, AlignUp(m, Page) > 0
  PROVE  AlignUp(n, Page) <= AlignUp(m, Page)
<1>1. AlignUp(m, Page) \in Nat /\ Paged(AlignUp(m, Page)) /\ m <= AlignUp(m, Page) BY PagesUp
<1>2. n <= AlignUp(m, Page) BY <1>1
<1> QED BY <1>1, <1>2, PagesUp

-----------------------------------------------------------------------------
(* The segments: the cursor within the committed part, that within the     *)
(* reservation, both in whole pages; the retired ones numbered below the   *)
(* active one, each once; the byte counters exact and below the ceiling.   *)
SegTypes ==
  /\ seg \in 1 .. MaxSegs
  /\ cursor \in Nat /\ committedEnd \in Nat /\ reservedEnd \in Nat
  /\ committedBytes \in Nat /\ reservedBytes \in Nat /\ peakUsed \in Nat
SegShape ==
  /\ cursor <= committedEnd /\ committedEnd <= reservedEnd
  /\ Paged(committedEnd) /\ Paged(reservedEnd)
RetiredShape ==
  /\ retired \subseteq [id : 1 .. MaxSegs, size : Nat, committed : Nat] /\ IsFiniteSet(retired)
  /\ \A r \in retired : r.id < seg
  /\ \A r, q \in retired : r.id = q.id => r = q
Sums ==
  /\ committedBytes = committedEnd + Total([r \in retired |-> r.committed])
  /\ reservedBytes = reservedEnd + Total([r \in retired |-> r.size])
  /\ MaxRule > 0 => committedBytes <= Larger(MaxRule, FirstCommit)
SegInv == SegTypes /\ SegShape /\ RetiredShape /\ Sums

(* The sums over the retired segments. *)
LEMMA RetiredTotals ==
  ASSUME RetiredShape
  PROVE  Total([r \in retired |-> r.committed]) \in Nat /\ Total([r \in retired |-> r.size]) \in Nat
<1> DEFINE c == [r \in retired |-> r.committed]
           z == [r \in retired |-> r.size]
<1>1. Total(c) = SumOver(c, retired) /\ Total(z) = SumOver(z, retired) BY DEF Total, SumOver
<1>2. IsFiniteSet(retired) /\ \A r \in retired : c[r] \in Nat /\ z[r] \in Nat BY DEF RetiredShape
<1> HIDE DEF c, z
<1>3. SumOver(c, retired) \in Nat /\ SumOver(z, retired) \in Nat BY <1>2, SumNat
<1> QED BY <1>1, <1>3 DEF c, z

(* The arena starts with one segment. *)
LEMMA SegInit == Init => SegInv
<1> USE ArenaLimits
<1> SUFFICES ASSUME Init PROVE SegInv
  OBVIOUS
<1> DEFINE want == IF Initial > 0 THEN Initial ELSE DefCommit
           room == Larger(DefReserve, Initial)
<1>1. want \in Nat /\ room \in Nat BY DEF Larger
<1>2. FirstCommit \in Nat /\ Paged(FirstCommit) BY <1>1, PagesUp DEF FirstCommit
<1>3. AlignUp(room, Page) \in Nat /\ Paged(AlignUp(room, Page))
  <2> HIDE DEF room
  <2> QED BY <1>1, PagesUp
<1>4. FirstReserve \in Nat /\ Paged(FirstReserve) /\ FirstCommit <= FirstReserve
  BY <1>2, <1>3 DEF FirstReserve, Larger
<1>5. SegTypes BY <1>2, <1>4 DEF Init, SegTypes
<1>6. SegShape BY <1>2, <1>4 DEF Init, SegShape
<1>7. RetiredShape BY FS_EmptySet DEF Init, RetiredShape
<1>8. Sums
  <2> DEFINE c == [r \in {} |-> r.committed]
             z == [r \in {} |-> r.size]
  <2>1. Total(c) = SumOver(c, {}) /\ Total(z) = SumOver(z, {}) BY DEF Total, SumOver
  <2>2. SumOver(c, {}) = 0 /\ SumOver(z, {}) = 0 BY FS_EmptySet, SumZero
  <2>3. FirstCommit <= Larger(MaxRule, FirstCommit) BY <1>2 DEF Larger
  <2> QED BY <1>2, <1>4, <2>1, <2>2, <2>3 DEF Init, Sums
<1> QED BY <1>5, <1>6, <1>7, <1>8 DEF SegInv

(* A request within the committed part moves the cursor. *)
LEMMA FastSeg ==
  ASSUME SegInv, NEW aligned \in Nat \ {0}, AllocFast(aligned)
  PROVE  SegInv'
<1> USE ArenaLimits
<1>1. /\ cursor' = cursor + aligned /\ cursor + aligned <= committedEnd
      /\ peakUsed' = Larger(peakUsed, cursor + aligned)
      /\ UNCHANGED <<seg, committedEnd, reservedEnd, retired, committedBytes, reservedBytes>>
  BY DEF AllocFast, Bump, FitsCommitted
<1>2. SegTypes' BY <1>1 DEF SegInv, SegTypes, Larger
<1>3. SegShape' BY <1>1 DEF SegInv, SegShape
<1>4. RetiredShape' BY <1>1 DEF SegInv, RetiredShape
<1>5. Sums' BY <1>1 DEF SegInv, Sums
<1> QED BY <1>2, <1>3, <1>4, <1>5 DEF SegInv

(* What the ceiling lets through stays below it. *)
LEMMA CeilingKeeps ==
  ASSUME NEW more \in Nat, committedBytes \in Nat, ~CeilingReached(more), MaxRule > 0, FirstCommit \in Nat
  PROVE  committedBytes + more <= Larger(MaxRule, FirstCommit)
BY ArenaLimits DEF CeilingReached, Larger

(* The size of the first commit is a number. *)
LEMMA FirstCommitNat == FirstCommit \in Nat
<1>1. (IF Initial > 0 THEN Initial ELSE DefCommit) \in Nat BY ArenaLimits
<1> QED BY <1>1, PagesUp DEF FirstCommit

(* A request within the reservation commits whole pages of it. *)
LEMMA CommitSeg ==
  ASSUME SegInv, NEW aligned \in Nat \ {0}, AllocCommit(aligned)
  PROVE  SegInv'
<1> USE ArenaLimits
<1> DEFINE more == NeededPages(aligned)
           need == cursor + aligned - committedEnd
<1>1. /\ aligned <= reservedEnd - cursor /\ ~(cursor + aligned <= committedEnd)
      /\ more > 0 /\ ~CeilingReached(more)
      /\ committedEnd' = committedEnd + more /\ committedBytes' = committedBytes + more
      /\ cursor' = cursor + aligned
      /\ peakUsed' = Larger(peakUsed, cursor + aligned)
      /\ UNCHANGED <<seg, reservedEnd, retired, reservedBytes>>
  BY DEF AllocCommit, Bump, FitsCommitted, FitsReserved
<1>2. /\ cursor \in Nat /\ committedEnd \in Nat /\ reservedEnd \in Nat /\ committedBytes \in Nat
      /\ cursor <= committedEnd /\ committedEnd <= reservedEnd
      /\ Paged(committedEnd) /\ Paged(reservedEnd)
  BY DEF SegInv, SegTypes, SegShape
<1>3. need \in Nat /\ need <= reservedEnd - committedEnd BY <1>1, <1>2
<1>4. more \in Nat /\ Paged(more) /\ need <= more
      /\ (\A m \in Nat : Paged(m) /\ need <= m => more <= m)
  BY <1>1, <1>3, PagesUp DEF NeededPages
<1>5. reservedEnd - committedEnd \in Nat /\ Paged(reservedEnd - committedEnd) BY <1>2, PagedSums
<1>6. more <= reservedEnd - committedEnd BY <1>3, <1>4, <1>5
<1>7. Paged(committedEnd + more) BY <1>2, <1>4, PagedSums
<1> HIDE DEF more
<1>8. SegTypes' BY <1>1, <1>2, <1>4 DEF SegInv, SegTypes, Larger
<1>9. SegShape' BY <1>1, <1>2, <1>4, <1>6, <1>7 DEF SegShape
<1>10. RetiredShape' BY <1>1 DEF SegInv, RetiredShape
<1>11. Sums'
  <2>1. Total([r \in retired |-> r.committed]) \in Nat BY RetiredTotals DEF SegInv
  <2>2. MaxRule > 0 => committedBytes + more <= Larger(MaxRule, FirstCommit)
    BY <1>1, <1>2, <1>4, CeilingKeeps, FirstCommitNat
  <2> DEFINE t == Total([r \in retired |-> r.committed])
  <2>3. committedBytes = committedEnd + t BY DEF SegInv, Sums
  <2>4. committedBytes' = committedEnd' + t BY <1>1, <1>2, <1>4, <2>1, <2>3
  <2> HIDE DEF t
  <2> QED BY <1>1, <2>2, <2>4 DEF SegInv, Sums, t
<1> QED BY <1>8, <1>9, <1>10, <1>11 DEF SegInv

(* A request that does not fit retires the segment. *)
LEMMA OverflowSeg ==
  ASSUME SegInv, NEW aligned \in Nat \ {0}, AllocOverflow(aligned)
  PROVE  SegInv'
<1> USE ArenaLimits
<1> DEFINE nr == NewReserve(aligned)
           nc == NewCommit(aligned)
           new == [id |-> seg, size |-> reservedEnd, committed |-> committedEnd]
<1>1. /\ seg < MaxSegs /\ nr > 0 /\ nc > 0 /\ ~CeilingReached(nc)
      /\ retired' = retired \cup {new}
      /\ seg' = seg + 1 /\ cursor' = aligned
      /\ committedEnd' = nc /\ reservedEnd' = nr
      /\ committedBytes' = committedBytes + nc /\ reservedBytes' = reservedBytes + nr
      /\ UNCHANGED peakUsed
  BY DEF AllocOverflow
<1>2. /\ seg \in 1 .. MaxSegs /\ committedEnd \in Nat /\ reservedEnd \in Nat
      /\ committedBytes \in Nat /\ reservedBytes \in Nat /\ peakUsed \in Nat
  BY DEF SegInv, SegTypes
<1> DEFINE lr == Larger(aligned, DefReserve)
           lc == Larger(aligned, DefCommit)
<1>3. lr \in Nat /\ lc \in Nat /\ lc <= lr /\ aligned <= lc BY DEF Larger
<1>4. nr = AlignUp(lr, Page) /\ nc = AlignUp(lc, Page) BY DEF NewReserve, NewCommit
<1> HIDE DEF nr, nc, lr, lc
<1>5. nr \in Nat /\ Paged(nr) /\ nc \in Nat /\ Paged(nc) /\ lc <= nc
  BY <1>1, <1>3, <1>4, PagesUp
<1>6. nc <= nr BY <1>1, <1>3, <1>4, PagesMonotone
<1>7. aligned <= nc BY <1>3, <1>5
<1>8. SegTypes' BY <1>1, <1>2, <1>5 DEF SegTypes
<1>9. SegShape' BY <1>1, <1>5, <1>6, <1>7 DEF SegShape
<1>10. new \notin retired /\ new.id = seg /\ new.size = reservedEnd /\ new.committed = committedEnd
  BY <1>2 DEF SegInv, RetiredShape
<1>11. new \in [id : 1 .. MaxSegs, size : Nat, committed : Nat] BY <1>2
<1>12. IsFiniteSet(retired) BY DEF SegInv, RetiredShape
<1> HIDE DEF new
<1>13. RetiredShape'
  <2>1. IsFiniteSet(retired \cup {new}) BY <1>12, FS_AddElement
  <2>2. \A r \in retired : r.id \in Nat /\ r.id < seg BY DEF SegInv, RetiredShape
  <2>3. \A r \in retired \cup {new} : r.id < seg + 1 BY <1>2, <1>10, <2>2
  <2>4. \A r, q \in retired \cup {new} : r.id = q.id => r = q
    BY <1>2, <1>10, <2>2 DEF SegInv, RetiredShape
  <2> QED BY <1>1, <1>11, <2>1, <2>3, <2>4 DEF SegInv, RetiredShape
<1>14. Sums'
  <2> DEFINE c == [r \in retired |-> r.committed]
             z == [r \in retired |-> r.size]
             c1 == [r \in retired \cup {new} |-> r.committed]
             z1 == [r \in retired \cup {new} |-> r.size]
  <2>1. /\ Total(c) = SumOver(c, retired) /\ Total(z) = SumOver(z, retired)
        /\ Total(c1) = SumOver(c1, retired \cup {new}) /\ Total(z1) = SumOver(z1, retired \cup {new})
    BY DEF Total, SumOver
  <2>2. /\ \A r \in retired : c[r] \in Nat /\ c1[r] = c[r] /\ z[r] \in Nat /\ z1[r] = z[r]
        /\ c1[new] = committedEnd /\ z1[new] = reservedEnd
    BY <1>10 DEF SegInv, RetiredShape
  <2> HIDE DEF c, z, c1, z1
  <2>3. SumOver(c1, retired \cup {new}) = SumOver(c, retired) + committedEnd
    <3>1. (\A r \in retired : c[r] \in Nat /\ c1[r] = c[r]) /\ c1[new] \in Nat BY <1>2, <2>2
    <3>2. SumOver(c1, retired \cup {new}) = SumOver(c, retired) + c1[new]
      BY ONLY <1>10, <1>12, <3>1, SumAdd
    <3> QED BY <2>2, <3>2
  <2>4. SumOver(z1, retired \cup {new}) = SumOver(z, retired) + reservedEnd
    <3>1. (\A r \in retired : z[r] \in Nat /\ z1[r] = z[r]) /\ z1[new] \in Nat BY <1>2, <2>2
    <3>2. SumOver(z1, retired \cup {new}) = SumOver(z, retired) + z1[new]
      BY ONLY <1>10, <1>12, <3>1, SumAdd
    <3> QED BY <2>2, <3>2
  <2>5. SumOver(c, retired) \in Nat /\ SumOver(z, retired) \in Nat BY <1>12, <2>2, SumNat
  <2>6. committedBytes = committedEnd + Total(c) /\ reservedBytes = reservedEnd + Total(z)
    BY DEF SegInv, Sums, c, z
  <2>7. committedBytes' = committedEnd' + Total(c1)
    BY <1>1, <1>2, <1>5, <2>1, <2>3, <2>5, <2>6
  <2>8. reservedBytes' = reservedEnd' + Total(z1)
    BY <1>1, <1>2, <1>5, <2>1, <2>4, <2>5, <2>6
  <2>9. MaxRule > 0 => committedBytes + nc <= Larger(MaxRule, FirstCommit)
    BY <1>1, <1>2, <1>5, CeilingKeeps, FirstCommitNat
  <2> QED BY <1>1, <2>7, <2>8, <2>9 DEF Sums, c1, z1
<1> QED BY <1>8, <1>9, <1>13, <1>14 DEF SegInv

(* A rewind moves the cursor back. *)
LEMMA RewindSeg ==
  ASSUME SegInv, NEW cp \in cps, cps \subseteq [offset : Nat, generation : Nat, nth : Nat], Rewind(cp)
  PROVE  SegInv'
<1>1. /\ cursor' = cp.offset /\ cp.offset <= cursor /\ cp.offset \in Nat
      /\ UNCHANGED <<seg, committedEnd, reservedEnd, retired, committedBytes, reservedBytes, peakUsed>>
  BY DEF Rewind, Rewindable
<1>2. SegTypes' BY <1>1 DEF SegInv, SegTypes
<1>3. SegShape' BY <1>1 DEF SegInv, SegTypes, SegShape
<1>4. RetiredShape' BY <1>1 DEF SegInv, RetiredShape
<1>5. Sums' BY <1>1 DEF SegInv, Sums
<1> QED BY <1>2, <1>3, <1>4, <1>5 DEF SegInv

(* A reset keeps some pages of the active segment. *)
LEMMA ResetSeg == ASSUME SegInv, Reset PROVE SegInv'
<1> USE ArenaLimits
<1> DEFINE keep == Smaller(committedEnd, KeepSize)
<1>1. /\ retired' = {} /\ committedEnd' = keep /\ committedBytes' = keep
      /\ reservedBytes' = reservedEnd /\ cursor' = 0
      /\ UNCHANGED <<seg, reservedEnd, peakUsed>>
  BY DEF Reset
<1>2. /\ seg \in 1 .. MaxSegs /\ cursor \in Nat /\ committedEnd \in Nat /\ reservedEnd \in Nat
      /\ peakUsed \in Nat /\ committedEnd <= reservedEnd /\ Paged(committedEnd) /\ Paged(reservedEnd)
  BY DEF SegInv, SegTypes, SegShape
<1>3. KeepSize \in Nat /\ Paged(KeepSize)
  <2> DEFINE hot == Smaller(Larger(HotLimit, cursor), HotCeiling)
  <2>1. hot \in Nat BY <1>2 DEF Smaller, Larger
  <2>2. KeepSize = Smaller(AlignUp(hot, Page), reservedEnd) BY DEF KeepSize
  <2> HIDE DEF hot
  <2>3. AlignUp(hot, Page) \in Nat /\ Paged(AlignUp(hot, Page)) BY <2>1, PagesUp
  <2> QED BY <1>2, <2>2, <2>3 DEF Smaller
<1>4. keep \in Nat /\ keep <= committedEnd /\ Paged(keep) BY <1>2, <1>3 DEF Smaller
<1> HIDE DEF keep
<1>5. SegTypes' BY <1>1, <1>2, <1>4 DEF SegTypes
<1>6. SegShape' BY <1>1, <1>2, <1>4 DEF SegShape
<1>7. RetiredShape' BY <1>1, FS_EmptySet DEF RetiredShape
<1>8. Sums'
  <2> DEFINE c == [r \in {} |-> r.committed]
             z == [r \in {} |-> r.size]
  <2>1. Total(c) = SumOver(c, {}) /\ Total(z) = SumOver(z, {}) BY DEF Total, SumOver
  <2>2. SumOver(c, {}) = 0 /\ SumOver(z, {}) = 0 BY FS_EmptySet, SumZero
  <2>3. MaxRule > 0 => keep <= Larger(MaxRule, FirstCommit)
    <3> DEFINE t == Total([r \in retired |-> r.committed])
    <3>1. t \in Nat BY RetiredTotals DEF SegInv
    <3>2. committedBytes = committedEnd + t
          /\ (MaxRule > 0 => committedBytes <= Larger(MaxRule, FirstCommit))
      BY DEF SegInv, Sums
    <3>3. Larger(MaxRule, FirstCommit) \in Nat BY FirstCommitNat DEF Larger
    <3> HIDE DEF t
    <3> QED BY <1>2, <1>4, <3>1, <3>2, <3>3
  <2> QED BY <1>1, <1>2, <1>4, <2>1, <2>2, <2>3 DEF Sums
<1> QED BY <1>5, <1>6, <1>7, <1>8 DEF SegInv

-----------------------------------------------------------------------------
(* The blocks callers or the interning table know. *)
Interned == {pool[s].block : s \in Strings} \ {NoBlock}
Known == live \cup Interned
EntryType == [block : Block \cup {NoBlock}, dirty : BOOLEAN]

(* A block lies in the committed part of a segment the arena owns. *)
Mapped(b) ==
  /\ b.seg <= seg
  /\ b.seg = seg => b.off + b.len <= committedEnd
  /\ b.seg < seg => \E r \in retired : r.id = b.seg /\ b.off + b.len <= r.committed
BlocksInv ==
  /\ pool \in [Strings -> EntryType] /\ live \subseteq Block /\ allocCount \in Nat
  /\ \A b \in Known : b.nth <= allocCount /\ Mapped(b)

(* Callers hold disjoint blocks, of the active segment below the cursor;   *)
(* a checkpoint of this epoch is above the ones older than it.             *)
CpsInv ==
  /\ cps \subseteq [offset : Nat, generation : Nat, nth : Nat] /\ generation \in Nat
  /\ \A cp \in cps : /\ cp.generation <= generation
                     /\ cp.generation = generation => cp.nth <= allocCount
ApartInv ==
  ~reused => /\ \A a, b \in live : a # b => ~Overlap(a, b)
             /\ \A b \in live : b.seg = seg => b.off + b.len <= cursor
             /\ \A cp \in cps : cp.generation = generation =>
                  \A b \in live : b.seg = seg /\ b.nth <= cp.nth => b.off + b.len <= cp.offset

(* What was handed out under the lease fits into what it was charged: H is *)
(* everything it was handed, what a rewind took back included.             *)
Charged(H) ==
  /\ IsFiniteSet(H) /\ H \subseteq Block
  /\ \A b \in Known : b.nth > leaseFrom => b \in H
  /\ \A b \in H : b.nth <= allocCount
  /\ SumOver([b \in Block |-> b.len], H) <= charged
(* Some such set exists as long as the lease is open.                      *)
LeaseInv ==
  /\ leaseFrom \in Nat /\ charged \in 0 .. LeaseLimit \cup {NoLease}
  /\ charged # NoLease => \E H : Charged(H)

Flags == {ceilingHit, refused, reused} \subseteq BOOLEAN
(* The inductive invariant of the arena.                                   *)
ArenaInductive == SegInv /\ BlocksInv /\ CpsInv /\ ApartInv /\ LeaseInv /\ Flags

(* The block an allocation hands out: the next in rank, at the cursor or   *)
(* at the start of a new segment.                                          *)
Given(nb, aligned) ==
  /\ nb \in Block /\ nb.len = aligned /\ nb.nth = allocCount + 1 /\ nb.seg = seg'
  /\ nb.off + nb.len = cursor'
  /\ live' = live \cup {nb}
  /\ \/ /\ seg' = seg /\ nb.off = cursor /\ retired' = retired /\ committedEnd <= committedEnd'
     \/ /\ seg' = seg + 1
        /\ \E r \in retired' : r.id = seg /\ r.committed = committedEnd
        /\ retired \subseteq retired'

(* Each way to allocate keeps the segments and hands out such a block.     *)
LEMMA GivenBlock ==
  ASSUME SegInv, allocCount \in Nat, NEW aligned \in Nat \ {0},
         AllocFast(aligned) \/ AllocCommit(aligned) \/ AllocOverflow(aligned)
  PROVE  SegInv' /\ \E nb : Given(nb, aligned)
<1> USE ArenaLimits
<1>1. /\ seg \in 1 .. MaxSegs /\ cursor \in Nat /\ committedEnd \in Nat
  BY DEF SegInv, SegTypes
<1>2. CASE AllocFast(aligned) \/ AllocCommit(aligned)
  <2> DEFINE nb == [seg |-> seg, off |-> cursor, len |-> aligned, nth |-> allocCount + 1]
  <2>1. /\ seg' = seg /\ cursor' = cursor + aligned /\ retired' = retired
        /\ live' = live \cup {nb}
    BY <1>2 DEF AllocFast, AllocCommit, Bump, Hand
  <2>2. SegInv' BY <1>2, FastSeg, CommitSeg
  <2>3. committedEnd <= committedEnd'
    <3>1. CASE AllocFast(aligned) BY <1>1, <3>1 DEF AllocFast
    <3>2. CASE AllocCommit(aligned)
      <4>1. committedEnd' = committedEnd + NeededPages(aligned) /\ NeededPages(aligned) > 0
        BY <3>2 DEF AllocCommit
      <4>2. committedEnd' \in Nat BY <2>2 DEF SegInv, SegTypes
      <4>3. cursor + aligned - committedEnd \in Nat
        BY <1>1, <3>2 DEF AllocCommit, FitsCommitted
      <4>4. NeededPages(aligned) \in Nat BY <4>3, PagesUp DEF NeededPages
      <4> QED BY <1>1, <4>1, <4>4
    <3> QED BY <1>2, <3>1, <3>2
  <2>4. nb \in Block BY <1>1 DEF Block
  <2>5. Given(nb, aligned) BY <1>1, <2>1, <2>3, <2>4 DEF Given
  <2> QED BY <2>2, <2>5
<1>3. CASE AllocOverflow(aligned)
  <2> DEFINE nb == [seg |-> seg + 1, off |-> 0, len |-> aligned, nth |-> allocCount + 1]
             new == [id |-> seg, size |-> reservedEnd, committed |-> committedEnd]
  <2>1. /\ seg' = seg + 1 /\ seg < MaxSegs /\ cursor' = aligned /\ retired' = retired \cup {new}
        /\ live' = live \cup {nb}
    BY <1>3 DEF AllocOverflow, Hand
  <2>2. SegInv' BY <1>3, OverflowSeg
  <2>3. nb \in Block BY <1>1, <2>1 DEF Block
  <2>4. new \in retired' /\ new.id = seg /\ new.committed = committedEnd BY <2>1
  <2>5. Given(nb, aligned)
    <3> HIDE DEF new
    <3> QED BY <1>1, <2>1, <2>3, <2>4 DEF Given
  <2> QED BY <2>2, <2>5
<1> QED BY <1>2, <1>3

(* The block served last is the one handed out. *)
LEMMA NewestIs ==
  ASSUME BlocksInv, NEW aligned, NEW nb, Given(nb, aligned)
  PROVE  Newest = nb
<1>1. nb \in live' /\ nb.nth = allocCount + 1 /\ live' = live \cup {nb} BY DEF Given
<1>2. \A b \in live : b.nth # allocCount + 1
  <2> SUFFICES ASSUME NEW b \in live, b.nth = allocCount + 1 PROVE FALSE OBVIOUS
  <2>1. b.nth \in Nat /\ b.nth <= allocCount /\ allocCount \in Nat
    BY DEF BlocksInv, Known, Block
  <2> QED BY <2>1
<1>3. \A b \in live' : b.nth = allocCount + 1 => b = nb BY <1>1, <1>2
<1> QED BY <1>1, <1>3 DEF Newest

(* An allocation, from wherever it was made: pool1 tells what it left of   *)
(* the interning table.                                                    *)
LEMMA GrantBlocks ==
  ASSUME SegInv, SegInv', BlocksInv, NEW aligned \in Nat \ {0}, NEW nb, Given(nb, aligned),
         allocCount' = allocCount + 1,
         pool' \in [Strings -> EntryType], Interned' \subseteq Interned \cup {nb}
  PROVE  BlocksInv' /\ Known' \subseteq Known \cup {nb}
<1>1. /\ nb \in Block /\ nb.len = aligned /\ nb.nth = allocCount + 1 /\ nb.seg = seg'
      /\ nb.off + nb.len = cursor' /\ live' = live \cup {nb}
  BY DEF Given
<1>2. Known' \subseteq Known \cup {nb} BY <1>1 DEF Known
<1>3. live' \subseteq Block /\ allocCount \in Nat /\ allocCount' \in Nat BY <1>1 DEF BlocksInv
<1>4. Known \subseteq Block BY DEF Known, Interned, BlocksInv, EntryType
<1>5. /\ seg \in Nat /\ committedEnd \in Nat /\ committedEnd' \in Nat /\ cursor' \in Nat
      /\ cursor' <= committedEnd' /\ \A r \in retired : r.committed \in Nat
  BY ArenaLimits DEF SegInv, SegTypes, SegShape, RetiredShape
<1>6. ASSUME NEW b \in Known PROVE b.nth <= allocCount' /\ Mapped(b)'
  <2>1. /\ b.nth \in Nat /\ b.seg \in Nat /\ b.off \in Nat /\ b.len \in Nat
        /\ b.nth <= allocCount /\ Mapped(b)
    BY <1>4 DEF BlocksInv, Block
  <2>2. b.nth <= allocCount' BY <1>3, <2>1
  <2>3. CASE seg' = seg /\ retired' = retired /\ committedEnd <= committedEnd'
    BY <1>5, <2>1, <2>2, <2>3 DEF Mapped
  <2>4. CASE /\ seg' = seg + 1
             /\ \E r \in retired' : r.id = seg /\ r.committed = committedEnd
             /\ retired \subseteq retired'
    <3>1. b.seg <= seg' /\ b.seg # seg' BY <1>5, <2>1, <2>4 DEF Mapped
    <3>2. \E r \in retired' : r.id = b.seg /\ b.off + b.len <= r.committed
      <4>1. CASE b.seg = seg BY <2>1, <2>4, <4>1 DEF Mapped
      <4>2. CASE b.seg # seg
        <5>1. b.seg < seg BY <1>5, <2>1, <4>2 DEF Mapped
        <5> QED BY <2>1, <2>4, <5>1 DEF Mapped
      <4> QED BY <4>1, <4>2
    <3> QED BY <2>2, <3>1, <3>2 DEF Mapped
  <2> QED BY <2>3, <2>4 DEF Given
<1>7. nb.nth <= allocCount' /\ Mapped(nb)'
  <2>1. seg' \in Nat BY ArenaLimits DEF SegInv, SegTypes
  <2> QED BY <1>1, <1>3, <1>5, <2>1 DEF Mapped
<1>8. \A b \in Known' : b.nth <= allocCount' /\ Mapped(b)' BY <1>2, <1>6, <1>7
<1> QED BY <1>2, <1>3, <1>8 DEF BlocksInv

(* The new block is apart from the ones callers hold. *)
LEMMA GrantApart ==
  ASSUME SegInv, SegInv', BlocksInv, CpsInv, ApartInv, NEW aligned \in Nat \ {0}, NEW nb,
         Given(nb, aligned), allocCount' = allocCount + 1, UNCHANGED <<generation, cps, reused>>
  PROVE  CpsInv' /\ ApartInv'
<1>1. /\ nb \in Block /\ nb.len = aligned /\ nb.nth = allocCount + 1 /\ nb.seg = seg'
      /\ nb.off + nb.len = cursor' /\ live' = live \cup {nb}
  BY DEF Given
<1>2. allocCount \in Nat /\ live \subseteq Block BY DEF BlocksInv
<1>3. \A cp \in cps : cp.nth \in Nat /\ cp.offset \in Nat BY DEF CpsInv
<1>4. CpsInv' BY <1>2, <1>3 DEF CpsInv
<1>5. /\ cursor \in Nat /\ cursor' \in Nat /\ seg \in Nat /\ nb.off \in Nat /\ nb.len \in Nat
  BY <1>1, ArenaLimits DEF SegInv, SegTypes, Block
<1>6. ASSUME ~reused
      PROVE  /\ \A a, b \in live' : a # b => ~Overlap(a, b)
             /\ \A b \in live' : b.seg = seg' => b.off + b.len <= cursor'
             /\ \A cp \in cps : cp.generation = generation =>
                  \A b \in live' : b.seg = seg' /\ b.nth <= cp.nth => b.off + b.len <= cp.offset
  <2>1. /\ \A a, b \in live : a # b => ~Overlap(a, b)
        /\ \A b \in live : b.seg = seg => b.off + b.len <= cursor
        /\ \A cp \in cps : cp.generation = generation =>
             \A b \in live : b.seg = seg /\ b.nth <= cp.nth => b.off + b.len <= cp.offset
    BY <1>6 DEF ApartInv
  <2>2. \A b \in live : /\ b.off \in Nat /\ b.len \in Nat /\ b.seg \in Nat /\ b.seg <= seg
    BY <1>2 DEF BlocksInv, Known, Mapped, Block
  <2>3. \A b \in live : b.seg = seg' => seg' = seg /\ nb.off = cursor
    BY <1>5, <2>2 DEF Given
  <2>4. \A b \in live : b.seg = seg' => b.off + b.len <= nb.off BY <2>1, <2>3
  <2>5. \A b \in live : ~Overlap(b, nb) /\ ~Overlap(nb, b)
    <3> SUFFICES ASSUME NEW b \in live, b.seg = seg' PROVE ~(nb.off < b.off + b.len)
      BY <1>1 DEF Overlap
    <3>1. b.off + b.len <= nb.off /\ b.off + b.len \in Nat BY <2>2, <2>4
    <3> QED BY <1>5, <3>1
  <2>6. \A a, b \in live' : a # b => ~Overlap(a, b) BY <1>1, <2>1, <2>5
  <2>7. \A b \in live' : b.seg = seg' => b.off + b.len <= cursor'
    <3> SUFFICES ASSUME NEW b \in live, b.seg = seg' PROVE b.off + b.len <= cursor'
      BY <1>1, <1>5
    <3> QED BY <1>1, <1>5, <2>2, <2>4
  <2>8. ASSUME NEW cp \in cps, cp.generation = generation, NEW b \in live', b.seg = seg', b.nth <= cp.nth
        PROVE  b.off + b.len <= cp.offset
    <3>1. b # nb BY <1>1, <1>2, <1>3, <2>8 DEF CpsInv
    <3>2. b \in live /\ b.seg = seg BY <1>1, <2>3, <2>8, <3>1
    <3> QED BY <2>1, <2>8, <3>2
  <2> QED BY <2>6, <2>7, <2>8
<1>7. ApartInv' BY <1>6 DEF ApartInv
<1> QED BY <1>4, <1>7

(* What the lease is charged covers the block. *)
LEMMA GrantLease ==
  ASSUME BlocksInv, LeaseInv, NEW aligned \in Nat \ {0}, NEW nb, Given(nb, aligned),
         ~LeaseRefuses(aligned), Charge(aligned), allocCount' = allocCount + 1,
         UNCHANGED leaseFrom, Known' \subseteq Known \cup {nb}
  PROVE  LeaseInv'
<1> USE ArenaLimits
<1>1. nb \in Block /\ nb.len = aligned /\ nb.nth = allocCount + 1 BY DEF Given
<1>2. CASE charged = NoLease
  <2>1. charged' = charged BY <1>2 DEF Charge
  <2> QED BY <1>2, <2>1 DEF LeaseInv, NoLease
<1>3. CASE charged # NoLease
  <2>1. /\ charged \in Nat /\ charged <= LeaseLimit /\ aligned <= LeaseLimit - charged
        /\ charged' = charged + aligned
    BY <1>3 DEF LeaseInv, LeaseRefuses, Charge
  <2>2. PICK H : Charged(H) BY <1>3 DEF LeaseInv
  <2> DEFINE c == [b \in Block |-> b.len]
  <2>3. /\ IsFiniteSet(H) /\ H \subseteq Block
        /\ \A b \in Known : b.nth > leaseFrom => b \in H
        /\ \A b \in H : b.nth <= allocCount
        /\ SumOver(c, H) <= charged
    BY <2>2 DEF Charged
  <2>4. allocCount \in Nat /\ \A b \in H : b.nth \in Nat BY <2>3 DEF BlocksInv, Block
  <2>5. nb \notin H BY <1>1, <2>3, <2>4
  <2>6. (\A b \in H : c[b] \in Nat /\ c[b] = c[b]) /\ c[nb] = aligned BY <1>1, <2>3 DEF Block
  <2> HIDE DEF c
  <2>7. IsFiniteSet(H \cup {nb}) /\ SumOver(c, H \cup {nb}) = SumOver(c, H) + c[nb]
    BY ONLY <2>3, <2>5, <2>6, aligned \in Nat \ {0}, SumAdd
  <2>8. SumOver(c, H) \in Nat BY <2>3, <2>6, SumNat
  <2>9. SumOver(c, H \cup {nb}) <= charged' BY <2>1, <2>3, <2>6, <2>7, <2>8
  <2>10. \A b \in H \cup {nb} : b.nth <= allocCount' BY <1>1, <2>3, <2>4
  <2>11. \A b \in Known' : b.nth > leaseFrom => b \in H \cup {nb} BY <2>3
  <2>12. Charged(H \cup {nb})'
    BY <1>1, <2>3, <2>7, <2>9, <2>10, <2>11 DEF Charged, c
  <2>13. charged' \in 0 .. LeaseLimit BY <2>1
  <2> QED BY <2>12, <2>13 DEF LeaseInv
<1> QED BY <1>2, <1>3

(* What is written over is marked, and stays what it was otherwise. *)
LEMMA OverwrittenIs ==
  ASSUME BlocksInv, NEW nb
  PROVE  /\ Overwritten(nb) \in [Strings -> EntryType]
         /\ \A s \in Strings : Overwritten(nb)[s].block = pool[s].block
<1> SUFFICES ASSUME NEW s \in Strings
             PROVE  [pool[s] EXCEPT !.dirty = pool[s].dirty \/ Overlap(pool[s].block, nb)] \in EntryType
                    /\ Overwritten(nb)[s].block = pool[s].block
  BY DEF Overwritten
<1>1. pool[s] \in EntryType BY DEF BlocksInv
<1>2. (pool[s].dirty \/ Overlap(pool[s].block, nb)) \in BOOLEAN OBVIOUS
<1>3. [pool[s] EXCEPT !.dirty = pool[s].dirty \/ Overlap(pool[s].block, nb)] \in EntryType
  BY <1>1, <1>2 DEF EntryType
<1>4. Overwritten(nb)[s].block = pool[s].block BY <1>1 DEF Overwritten, EntryType
<1> QED BY <1>3, <1>4

(* An allocation keeps the invariant. *)
LEMMA GrantedInductive ==
  ASSUME ArenaInductive, NEW aligned \in Nat, Granted(aligned), NEW nb, Given(nb, aligned), SegInv',
         pool' \in [Strings -> EntryType], Interned' \subseteq Interned \cup {nb}
  PROVE  ArenaInductive'
<1>1. /\ aligned \in Nat \ {0} /\ ~LeaseRefuses(aligned) /\ Charge(aligned)
      /\ allocCount' = allocCount + 1 /\ refused' = FALSE
      /\ UNCHANGED <<generation, leaseFrom, cps, reused>>
  BY DEF Granted
<1>2. SegInv /\ BlocksInv /\ CpsInv /\ ApartInv /\ LeaseInv /\ Flags BY DEF ArenaInductive
<1>3. BlocksInv' /\ Known' \subseteq Known \cup {nb} BY <1>1, <1>2, GrantBlocks
<1>4. CpsInv' /\ ApartInv' BY <1>1, <1>2, GrantApart
<1>5. LeaseInv' BY <1>1, <1>2, <1>3, GrantLease
<1>6. Flags'
  <2>1. ceilingHit' = FALSE BY DEF Granted, AllocFast, AllocCommit, AllocOverflow
  <2> QED BY <1>1, <1>2, <2>1 DEF Flags
<1> QED BY <1>3, <1>4, <1>5, <1>6 DEF ArenaInductive

(* A granted request has a block. *)
LEMMA GrantedGives ==
  ASSUME ArenaInductive, NEW aligned \in Nat, Granted(aligned)
  PROVE  SegInv' /\ \E nb : Given(nb, aligned)
<1>1. /\ aligned \in Nat \ {0}
      /\ AllocFast(aligned) \/ AllocCommit(aligned) \/ AllocOverflow(aligned)
  BY DEF Granted
<1>2. SegInv /\ allocCount \in Nat BY DEF ArenaInductive, BlocksInv
<1> QED BY <1>1, <1>2, GivenBlock

(* orbit_alloc_try. *)
LEMMA AllocInductive ==
  ASSUME ArenaInductive, NEW n \in Sizes, Alloc(n) PROVE ArenaInductive'
<1> DEFINE aligned == AlignUp(n, Align)
<1>1. aligned \in Nat BY AlignUpIs, ArenaLimits
<1>2. Granted(aligned) /\ pool' = Overwritten(Newest) BY DEF Alloc
<1> HIDE DEF aligned
<1>3. SegInv' BY <1>1, <1>2, GrantedGives
<1>4. PICK nb : Given(nb, aligned) BY <1>1, <1>2, GrantedGives
<1>5. Newest = nb /\ BlocksInv BY <1>4, NewestIs DEF ArenaInductive
<1>6. pool' \in [Strings -> EntryType] /\ \A s \in Strings : pool'[s].block = pool[s].block
  BY <1>2, <1>5, OverwrittenIs
<1>7. Interned' \subseteq Interned \cup {nb} BY <1>6 DEF Interned
<1> QED BY <1>1, <1>2, <1>3, <1>4, <1>6, <1>7, GrantedInductive

(* orbit_string_intern of a new string. *)
LEMMA MissInductive ==
  ASSUME ArenaInductive, NEW s \in Strings, InternMiss(s) PROVE ArenaInductive'
<1>1. Align \in Nat BY ArenaLimits
<1>2. /\ Granted(Align)
      /\ pool' = [Overwritten(Newest) EXCEPT ![s] = [block |-> Newest, dirty |-> FALSE]]
  BY DEF InternMiss
<1>3. SegInv' BY <1>1, <1>2, GrantedGives
<1>4. PICK nb : Given(nb, Align) BY <1>1, <1>2, GrantedGives
<1>5. Newest = nb /\ BlocksInv /\ nb \in Block BY <1>4, NewestIs DEF ArenaInductive, Given
<1>6. /\ Overwritten(nb) \in [Strings -> EntryType]
      /\ \A x \in Strings : Overwritten(nb)[x].block = pool[x].block
  BY <1>5, OverwrittenIs
<1> DEFINE new == [block |-> nb, dirty |-> FALSE]
<1>7. new \in EntryType /\ new.block = nb BY <1>5 DEF EntryType
<1>8. pool' = [Overwritten(nb) EXCEPT ![s] = new] BY <1>2, <1>5
<1> HIDE DEF new
<1>9. pool' \in [Strings -> EntryType]
      /\ \A x \in Strings : pool'[x].block = IF x = s THEN nb ELSE pool[x].block
  BY <1>6, <1>7, <1>8
<1>10. Interned' \subseteq Interned \cup {nb} BY <1>9 DEF Interned
<1> QED BY <1>1, <1>2, <1>3, <1>4, <1>9, <1>10, GrantedInductive

(* The segments do not change with what is not theirs. *)
LEMMA SegStays == ASSUME SegInv, UNCHANGED <<segVars, peakUsed>> PROVE SegInv'
BY DEF SegInv, SegTypes, SegShape, RetiredShape, Sums, segVars

(* A refusal charges the lease at most. *)
LEMMA RefusedInductive ==
  ASSUME ArenaInductive, NEW n \in Sizes, RefuseSize(n) \/ RefuseCeiling(n) \/ RefuseSystem(n)
  PROVE  ArenaInductive'
<1> USE ArenaLimits
<1> DEFINE aligned == AlignUp(n, Align)
<1>1. aligned \in Nat BY AlignUpIs
<1>2. /\ refused' = TRUE /\ ceilingHit' \in BOOLEAN
      /\ UNCHANGED <<segVars, peakUsed, generation, allocCount, pool, leaseFrom, live, cps, reused>>
      /\ charged' = charged \/ (~LeaseRefuses(aligned) /\ Charge(aligned))
  BY DEF RefuseSize, RefuseCeiling, RefuseSystem, Refused
<1>3. SegInv /\ BlocksInv /\ CpsInv /\ ApartInv /\ LeaseInv /\ Flags BY DEF ArenaInductive
<1> HIDE DEF aligned
<1>4. UNCHANGED <<seg, cursor, committedEnd, retired>> BY <1>2 DEF segVars
<1>5. Known' = Known BY <1>2 DEF Known, Interned
<1>6. SegInv' BY <1>2, <1>3, SegStays
<1>7. BlocksInv' BY <1>2, <1>3, <1>4, <1>5 DEF BlocksInv, Mapped
<1>8. CpsInv' BY <1>2, <1>3 DEF CpsInv
<1>9. ApartInv' BY <1>2, <1>3, <1>4 DEF ApartInv
<1>10. LeaseInv'
  <2>1. CASE charged' = charged
    BY <1>2, <1>3, <1>5, <2>1 DEF LeaseInv, Charged
  <2>2. CASE ~LeaseRefuses(aligned) /\ Charge(aligned) /\ charged = NoLease
    BY <1>2, <1>3, <2>2 DEF LeaseInv, Charge
  <2>3. CASE ~LeaseRefuses(aligned) /\ Charge(aligned) /\ charged # NoLease
    <3>1. /\ charged \in Nat /\ charged <= LeaseLimit /\ aligned <= LeaseLimit - charged
          /\ charged' = charged + aligned
      BY <1>1, <1>3, <2>3 DEF LeaseInv, LeaseRefuses, Charge
    <3>2. PICK H : Charged(H) BY <1>3, <2>3 DEF LeaseInv
    <3> DEFINE sum == SumOver([b \in Block |-> b.len], H)
    <3>3. sum \in Nat /\ sum <= charged
      <4>1. IsFiniteSet(H) /\ H \subseteq Block /\ sum <= charged BY <3>2 DEF Charged
      <4>2. \A b \in H : [a \in Block |-> a.len][b] \in Nat BY <4>1 DEF Block
      <4> QED BY <4>1, <4>2, SumNat
    <3> HIDE DEF sum
    <3>4. sum <= charged' BY <1>1, <3>1, <3>3
    <3>5. Charged(H)' BY <1>2, <1>5, <3>2, <3>4 DEF Charged, sum
    <3>6. charged' \in 0 .. LeaseLimit /\ leaseFrom' \in Nat BY <1>1, <1>2, <1>3, <3>1 DEF LeaseInv
    <3> QED BY <3>5, <3>6 DEF LeaseInv
  <2> QED BY <1>2, <2>1, <2>2, <2>3
<1>11. Flags' BY <1>2, <1>3 DEF Flags
<1> QED BY <1>6, <1>7, <1>8, <1>9, <1>10, <1>11 DEF ArenaInductive

(* orbit_string_intern of a known string hands its block out again. *)
LEMMA HitInductive ==
  ASSUME ArenaInductive, NEW s \in Strings, InternHit(s) PROVE ArenaInductive'
<1> DEFINE nb == pool[s].block
<1>1. /\ nb # NoBlock /\ live' = live \cup {nb} /\ reused' = (reused \/ nb \notin live)
      /\ refused' = FALSE
      /\ UNCHANGED <<segVars, peakUsed, ceilingHit, generation, allocCount, pool, charged, leaseFrom, cps>>
  BY DEF InternHit
<1>2. SegInv /\ BlocksInv /\ CpsInv /\ ApartInv /\ LeaseInv /\ Flags BY DEF ArenaInductive
<1>3. nb \in Interned /\ nb \in Block BY <1>1, <1>2 DEF Interned, BlocksInv, EntryType
<1> HIDE DEF nb
<1>4. Known' = Known
  <2>1. Interned' = Interned BY <1>1 DEF Interned
  <2> QED BY <1>1, <1>3, <2>1 DEF Known
<1>5. UNCHANGED <<seg, cursor, committedEnd, retired>> BY <1>1 DEF segVars
<1>6. SegInv' BY <1>1, <1>2, SegStays
<1>7. BlocksInv' BY <1>1, <1>2, <1>3, <1>4, <1>5 DEF BlocksInv, Mapped
<1>8. CpsInv' BY <1>1, <1>2 DEF CpsInv
<1>9. ApartInv'
  <2> SUFFICES ASSUME ~reused' PROVE ApartInv' BY DEF ApartInv
  <2>1. ~reused /\ live' = live BY <1>1
  <2> QED BY <1>1, <1>2, <1>5, <2>1 DEF ApartInv
<1>10. LeaseInv' BY <1>1, <1>2, <1>4 DEF LeaseInv, Charged
<1>11. Flags'
  <2>1. reused' \in BOOLEAN BY <1>1
  <2> QED BY <1>1, <1>2, <2>1 DEF Flags
<1> QED BY <1>6, <1>7, <1>8, <1>9, <1>10, <1>11 DEF ArenaInductive

(* A lease begins with nothing handed out, or ends. *)
LEMMA LeaseInductive ==
  ASSUME ArenaInductive, LeaseBegin \/ LeaseEnd PROVE ArenaInductive'
<1> USE ArenaLimits
<1>1. /\ UNCHANGED <<segVars, peakUsed, ceilingHit, generation, allocCount, pool, live, cps, reused, refused>>
      /\ \/ charged' = 0 /\ leaseFrom' = allocCount
         \/ charged' = NoLease /\ leaseFrom' = leaseFrom
  BY DEF LeaseBegin, LeaseEnd
<1>2. SegInv /\ BlocksInv /\ CpsInv /\ ApartInv /\ LeaseInv /\ Flags BY DEF ArenaInductive
<1>3. Known' = Known BY <1>1 DEF Known, Interned
<1>4. UNCHANGED <<seg, cursor, committedEnd, retired>> BY <1>1 DEF segVars
<1>5. SegInv' BY <1>1, <1>2, SegStays
<1>6. BlocksInv' BY <1>1, <1>2, <1>3, <1>4 DEF BlocksInv, Mapped
<1>7. CpsInv' BY <1>1, <1>2 DEF CpsInv
<1>8. ApartInv' BY <1>1, <1>2, <1>4 DEF ApartInv
<1>9. LeaseInv'
  <2>1. CASE charged' = 0 /\ leaseFrom' = allocCount
    <3>1. allocCount \in Nat /\ \A b \in Known : b.nth \in Nat /\ b.nth <= allocCount
      BY <1>2 DEF BlocksInv, Known, Interned, EntryType, Block
    <3>2. \A b \in Known : ~(b.nth > allocCount) BY <3>1
    <3>3. IsFiniteSet({}) /\ SumOver([b \in Block |-> b.len], {}) = 0 BY FS_EmptySet, SumZero
    <3>4. Charged({})' BY <1>3, <2>1, <3>2, <3>3 DEF Charged
    <3> QED BY <2>1, <3>1, <3>4 DEF LeaseInv
  <2>2. CASE charged' = NoLease /\ leaseFrom' = leaseFrom BY <1>2, <2>2 DEF LeaseInv
  <2> QED BY <1>1, <2>1, <2>2
<1>10. Flags' BY <1>1, <1>2 DEF Flags
<1> QED BY <1>5, <1>6, <1>7, <1>8, <1>9, <1>10 DEF ArenaInductive

(* A checkpoint is above every block of its segment. *)
LEMMA CheckpointInductive == ASSUME ArenaInductive, Checkpoint PROVE ArenaInductive'
<1> DEFINE new == [offset |-> cursor, generation |-> generation, nth |-> allocCount]
<1>1. /\ cps' = cps \cup {new}
      /\ UNCHANGED <<segVars, peakUsed, ceilingHit, generation, allocCount, pool, charged, leaseFrom,
                     live, reused, refused>>
  BY DEF Checkpoint
<1>2. SegInv /\ BlocksInv /\ CpsInv /\ ApartInv /\ LeaseInv /\ Flags BY DEF ArenaInductive
<1>3. cursor \in Nat /\ generation \in Nat /\ allocCount \in Nat
  BY <1>2 DEF SegInv, SegTypes, BlocksInv, CpsInv
<1>4. /\ new \in [offset : Nat, generation : Nat, nth : Nat]
      /\ new.offset = cursor /\ new.generation = generation /\ new.nth = allocCount
  BY <1>3
<1> HIDE DEF new
<1>5. Known' = Known BY <1>1 DEF Known, Interned
<1>6. UNCHANGED <<seg, cursor, committedEnd, retired>> BY <1>1 DEF segVars
<1>7. SegInv' BY <1>1, <1>2, SegStays
<1>8. BlocksInv' BY <1>1, <1>2, <1>5, <1>6 DEF BlocksInv, Mapped
<1>9. CpsInv' BY <1>1, <1>2, <1>3, <1>4 DEF CpsInv
<1>10. ApartInv' BY <1>1, <1>2, <1>4, <1>6 DEF ApartInv
<1>11. LeaseInv' BY <1>1, <1>2, <1>5 DEF LeaseInv, Charged
<1>12. Flags' BY <1>1, <1>2 DEF Flags
<1> QED BY <1>7, <1>8, <1>9, <1>10, <1>11, <1>12 DEF ArenaInductive

(* A rewind gives back what is younger than the checkpoint. *)
LEMMA RewindInductive ==
  ASSUME ArenaInductive, NEW cp \in cps, Rewind(cp) PROVE ArenaInductive'
<1>1. /\ cp.generation = generation /\ cursor' = cp.offset
      /\ live' = {b \in live : b.nth <= cp.nth}
      /\ UNCHANGED <<seg, committedEnd, reservedEnd, retired, generation, allocCount, pool, charged,
                     leaseFrom, cps, reused, refused, ceilingHit>>
  BY DEF Rewind, Rewindable
<1>2. SegInv /\ BlocksInv /\ CpsInv /\ ApartInv /\ LeaseInv /\ Flags BY DEF ArenaInductive
<1>3. Known' \subseteq Known BY <1>1 DEF Known, Interned
<1>4. SegInv' BY <1>2, RewindSeg DEF CpsInv
<1>5. BlocksInv' BY <1>1, <1>2, <1>3 DEF BlocksInv, Mapped
<1>6. CpsInv' BY <1>1, <1>2 DEF CpsInv
<1>7. ApartInv' BY <1>1, <1>2 DEF ApartInv
<1>8. LeaseInv'
  <2>1. \A H : Charged(H) => Charged(H)' BY <1>1, <1>3 DEF Charged
  <2> QED BY <1>1, <1>2, <2>1 DEF LeaseInv
<1>9. Flags' BY <1>1, <1>2 DEF Flags
<1> QED BY <1>4, <1>5, <1>6, <1>7, <1>8, <1>9 DEF ArenaInductive

(* A reset begins a new epoch with no block. *)
LEMMA ResetInductive == ASSUME ArenaInductive, Reset PROVE ArenaInductive'
<1>1. /\ charged = NoLease /\ allocCount' = 0 /\ generation' = generation + 1
      /\ pool' = [s \in Strings |-> NoEntry] /\ live' = {} /\ leaseFrom' = 0 /\ reused' = FALSE
      /\ UNCHANGED <<ceilingHit, charged, cps, refused>>
  BY DEF Reset
<1>2. SegInv /\ BlocksInv /\ CpsInv /\ ApartInv /\ LeaseInv /\ Flags BY DEF ArenaInductive
<1>3. NoEntry \in EntryType /\ NoEntry.block = NoBlock BY DEF NoEntry, EntryType
<1>4. Known' = {} BY <1>1, <1>3 DEF Known, Interned
<1>5. SegInv' BY <1>2, ResetSeg
<1>6. BlocksInv' BY <1>1, <1>3, <1>4 DEF BlocksInv
<1>7. CpsInv'
  <2>1. \A cp \in cps : cp.generation \in Nat /\ cp.generation <= generation BY <1>2 DEF CpsInv
  <2>2. generation \in Nat BY <1>2 DEF CpsInv
  <2>3. \A cp \in cps : cp.generation <= generation' /\ cp.generation # generation' BY <1>1, <2>1, <2>2
  <2> QED BY <1>1, <1>2, <2>2, <2>3 DEF CpsInv
<1>8. ApartInv' BY <1>1 DEF ApartInv
<1>9. LeaseInv' BY <1>1 DEF LeaseInv
<1>10. Flags' BY <1>1, <1>2 DEF Flags
<1> QED BY <1>5, <1>6, <1>7, <1>8, <1>9, <1>10 DEF ArenaInductive

(* orbit_arena_create. *)
LEMMA ArenaInit == Init => ArenaInductive
<1> USE ArenaLimits
<1> SUFFICES ASSUME Init PROVE ArenaInductive
  OBVIOUS
<1>1. NoEntry \in EntryType /\ NoEntry.block = NoBlock BY DEF NoEntry, EntryType
<1>2. Known = {} BY <1>1 DEF Init, Known, Interned
<1>3. SegInv BY SegInit
<1>4. BlocksInv BY <1>1, <1>2 DEF Init, BlocksInv
<1>5. CpsInv /\ ApartInv BY DEF Init, CpsInv, ApartInv
<1>6. LeaseInv BY DEF Init, LeaseInv
<1>7. Flags BY DEF Init, Flags
<1> QED BY <1>3, <1>4, <1>5, <1>6, <1>7 DEF ArenaInductive

(* Every call keeps the invariant. *)
LEMMA ArenaNext == ASSUME ArenaInductive, [Next]_vars PROVE ArenaInductive'
<1>1. CASE UNCHANGED vars
  <2>1. /\ UNCHANGED <<segVars, peakUsed>>
        /\ UNCHANGED <<seg, cursor, committedEnd, retired>>
        /\ UNCHANGED <<ceilingHit, generation, allocCount, pool, charged, leaseFrom, live, cps, reused, refused>>
    BY <1>1 DEF vars, segVars
  <2>2. SegInv /\ BlocksInv /\ CpsInv /\ ApartInv /\ LeaseInv /\ Flags BY DEF ArenaInductive
  <2>3. Known' = Known BY <2>1 DEF Known, Interned
  <2>4. SegInv' BY <2>1, <2>2, SegStays
  <2>5. BlocksInv' BY <2>1, <2>2, <2>3 DEF BlocksInv, Mapped
  <2>6. CpsInv' /\ ApartInv' BY <2>1, <2>2 DEF CpsInv, ApartInv
  <2>7. LeaseInv' BY <2>1, <2>2, <2>3 DEF LeaseInv, Charged
  <2>8. Flags' BY <2>1, <2>2 DEF Flags
  <2> QED BY <2>4, <2>5, <2>6, <2>7, <2>8 DEF ArenaInductive
<1>2. CASE Next
  BY <1>2, AllocInductive, RefusedInductive, HitInductive, MissInductive, LeaseInductive,
     CheckpointInductive, RewindInductive, ResetInductive
     DEF Next
<1> QED BY <1>1, <1>2

(* The invariant holds in every reachable state. *)
LEMMA ArenaInductiveHolds == Spec => []ArenaInductive
BY ArenaInit, ArenaNext, PTL DEF Spec

(* LiveDisjoint in every reachable state: no two blocks of                 *)
(* orbit_alloc_try overlap while both are held, unless a stale interned    *)
(* string came back.                                                       *)
THEOREM BlocksApart == Spec => []LiveDisjoint
<1>1. ArenaInductive => LiveDisjoint BY DEF ArenaInductive, ApartInv, LiveDisjoint
<1> QED BY <1>1, ArenaInductiveHolds, PTL

(* LiveMapped in every reachable state: a block a caller holds is backed   *)
(* by committed memory of a segment the arena owns, retired ones included. *)
THEOREM BlocksMapped == Spec => []LiveMapped
<1>1. ArenaInductive => LiveMapped
  <2> SUFFICES ASSUME ArenaInductive, NEW b \in live PROVE b.off + b.len <= CommittedOf(b.seg)
    BY DEF LiveMapped
  <2>1. Mapped(b) /\ b \in Block /\ seg \in Nat
    BY ArenaLimits DEF ArenaInductive, BlocksInv, Known, SegInv, SegTypes
  <2>2. CASE b.seg = seg BY <2>1, <2>2 DEF Mapped, CommittedOf
  <2>3. CASE b.seg # seg
    <3>1. PICK r \in retired : r.id = b.seg /\ b.off + b.len <= r.committed
      BY <2>1, <2>3 DEF Mapped, Block
    <3> DEFINE rs == {q \in retired : q.id = b.seg}
    <3>2. r \in rs /\ \A q \in rs : q = r BY <3>1 DEF ArenaInductive, SegInv, RetiredShape
    <3>3. CommittedOf(b.seg) = IF rs = {} THEN 0 ELSE (CHOOSE q \in rs : TRUE).committed
      BY <2>3 DEF CommittedOf
    <3> HIDE DEF rs
    <3>4. (CHOOSE q \in rs : TRUE) = r BY <3>2
    <3> QED BY <3>1, <3>2, <3>3, <3>4
  <2> QED BY <2>2, <2>3
<1> QED BY <1>1, ArenaInductiveHolds, PTL

(* AccountsExact in every reachable state: the byte counters are the sums  *)
(* over the segments, the ceiling bounds them, and what was allocated      *)
(* under a lease is charged to it and within its limit.                    *)
THEOREM AccountsHold == Spec => []AccountsExact
<1>1. ArenaInductive => AccountsExact
  <2> SUFFICES ASSUME ArenaInductive PROVE AccountsExact OBVIOUS
  <2>1. SegInv /\ BlocksInv /\ CpsInv /\ LeaseInv /\ Flags BY DEF ArenaInductive
  <2>2. TypeOK
    <3>1. seg \in 1 .. MaxSegs
          /\ {cursor, committedEnd, reservedEnd, committedBytes, reservedBytes} \subseteq Nat
          /\ retired \subseteq [id : 1 .. MaxSegs, size : Nat, committed : Nat]
          /\ peakUsed \in Nat
      BY <2>1 DEF SegInv, SegTypes, RetiredShape
    <3>2. {peakUsed, leaseFrom, generation, allocCount} \subseteq Nat
      BY <2>1, <3>1 DEF BlocksInv, CpsInv, LeaseInv
    <3> QED BY <2>1, <3>1, <3>2 DEF TypeOK, BlocksInv, CpsInv, LeaseInv, Flags, EntryType
  <2>3. BytesExact /\ CeilingHeld
    BY <2>1 DEF SegInv, SegShape, Sums, BytesExact, CeilingHeld, CommittedSum
  <2>4. LeaseHeld
    <3> SUFFICES ASSUME charged # NoLease
                 PROVE  Total([b \in SinceLease |-> b.len]) <= charged /\ charged <= LeaseLimit
      BY DEF LeaseHeld
    <3>1. PICK H : Charged(H) BY <2>1 DEF LeaseInv
    <3> DEFINE c == [b \in Block |-> b.len]
               d == [b \in SinceLease |-> b.len]
    <3>2. IsFiniteSet(H) /\ H \subseteq Block /\ SumOver(c, H) <= charged BY <3>1 DEF Charged
    <3>3. SinceLease \in SUBSET H
      BY <3>1 DEF Charged, SinceLease, Known
    <3>4. \A b \in H : c[b] \in Nat BY <3>2 DEF Block
    <3>5. \A b \in SinceLease : d[b] = c[b] BY <3>2, <3>3
    <3>6. Total(d) = SumOver(d, SinceLease) BY DEF Total, SumOver
    <3> HIDE DEF c, d
    <3>7. IsFiniteSet(SinceLease) BY <3>2, <3>3, FS_Subset
    <3>8. SumOver(d, SinceLease) = SumOver(c, SinceLease) BY <3>5, <3>7, SumEqual
    <3>9. SumOver(c, SinceLease) <= SumOver(c, H) BY <3>2, <3>3, <3>4, SumSubset
    <3>10. SumOver(c, SinceLease) \in Nat /\ SumOver(c, H) \in Nat /\ charged \in 0 .. LeaseLimit
      BY <2>1, <3>2, <3>3, <3>4, <3>7, SumNat DEF LeaseInv
    <3>11. Total(d) <= charged BY <3>2, <3>6, <3>8, <3>9, <3>10
    <3> QED BY <3>10, <3>11 DEF d
  <2> QED BY <2>2, <2>3, <2>4 DEF AccountsExact
<1> QED BY <1>1, ArenaInductiveHolds, PTL

=============================================================================
