--------------------------- MODULE Process_proof ----------------------------
(***************************************************************************)
(* The life of a server process: start-up (Migrations) of any number of    *)
(* processes on one database with any number of migrations, then the       *)
(* request path (Request) of a worker for every budget and every bound,    *)
(* and the queries its requests make (Database) for any number of workers, *)
(* columns, rows and payloads, texts of any length and buffers of any size.*)
(* Last the receive loop its requests come through (HttpFraming), for any  *)
(* requests, any limits and every way their bytes are cut.                 *)
(***************************************************************************)
EXTENDS Migrations, Request, Database, HttpFraming, Lemmas, SequenceTheorems

-----------------------------------------------------------------------------
(* Start-up. *)

(* The places of a process that starts. *)
Places == {"off", "open", "seed", "check", "exec", "mark", "commit", "serve"}

(* Those of the migration loop. *)
InLoop == {"check", "exec", "mark", "commit"}

(* Processes that may still commit version v in the life they are in. *)
Pending(v) ==
  {p \in Procs : \/ bootPc[p] \in {"open", "seed"}
                 \/ bootPc[p] \in InLoop /\ version[p] <= v}

(* The type invariant. *)
Types ==
  /\ marks \subseteq Versions /\ applied \in [Versions -> Nat]
  /\ seeded \in 0 .. SeedRows /\ lock \in Procs \cup {NoProc}
  /\ bootPc \in [Procs -> Places] /\ version \in [Procs -> Nat \ {0}]
  /\ marked \in [Procs -> BOOLEAN]
  /\ boots \in 0 .. MaxBoots

(* A write transaction is open in one process at a time. *)
LockHeld == \A p \in Procs : lock = p <=> bootPc[p] \in {"mark", "commit"}

(* Where a process stands in its loop. *)
Position ==
  \A p \in Procs :
    /\ bootPc[p] = "check" => version[p] <= Count + 1
    /\ bootPc[p] \in {"exec", "mark", "commit"} => version[p] <= Count
    /\ bootPc[p] = "serve" => version[p] = Count + 1

(* A process has every migration behind it that comes before its own. *)
PrefixApplied ==
  /\ \A p \in Procs : bootPc[p] \in InLoop \cup {"serve"} =>
       \A u \in Versions : u < version[p] => applied[u] > 0
  /\ \A v \in Versions : applied[v] > 0 => \A u \in Versions : u < v => applied[u] > 0

(* A mark that waits for its commit is a new one. *)
MarkIsNew == \A p \in Procs : marked[p] => bootPc[p] = "commit" /\ version[p] \notin marks

(* Marked versions were applied, and applied ones marked or left unmarked. *)
MarksApplied ==
  /\ \A v \in marks : applied[v] > 0
  /\ \A v \in Versions : applied[v] > 0 => v \in marks \cup unmarked

(* Whoever is about to run a version that was applied before was overtaken *)
(* between its look at the marks and its transaction, or could not see it, *)
(* or could not read it.                                                   *)
RerunExcused ==
  /\ \A p \in Procs : bootPc[p] \in {"exec", "mark", "commit"} /\ applied[version[p]] > 0 =>
       version[p] \in overtaken \cup unmarked \cup misread
  /\ RunOnce

(* The seed is put in by one process at a time, in order: while it is not  *)
(* whole, and was not cut short, somebody is at its next row.              *)
SeedInOrder ==
  /\ \A p \in Procs : bootPc[p] = "seed" =>
       version[p] <= SeedRows /\ version[p] <= seeded + 1
  /\ ~seedCut /\ seeded > 0 /\ seeded < SeedRows =>
       \E p \in Procs : bootPc[p] = "seed" /\ version[p] = seeded + 1

(* A start commits a version at most once. *)
BootsCount == \A v \in Versions : applied[v] + Cardinality(Pending(v)) <= boots

(* The inductive invariant. *)
Inductive ==
  /\ Types /\ LockHeld /\ Position /\ PrefixApplied /\ MarkIsNew /\ MarksApplied
  /\ RerunExcused /\ SeedInOrder /\ BootsCount

-----------------------------------------------------------------------------
(* Processes that may still commit a version are finitely many. *)
LEMMA PendingFinite == \A v : IsFiniteSet(Pending(v)) /\ Cardinality(Pending(v)) \in Nat
<1> TAKE v
<1>1. Pending(v) \in SUBSET Procs BY DEF Pending
<1> QED BY <1>1, FS_Subset, FS_CardinalityType, MigrationsAssumption

(* No process has started. *)
LEMMA InitInductive == BootInit => Inductive
<1> SUFFICES ASSUME BootInit PROVE Inductive OBVIOUS
<1> USE MigrationsAssumption DEF BootInit, Versions
<1>1. Types BY DEF Types, Places
<1>2. LockHeld BY DEF LockHeld
<1>3. Position /\ PrefixApplied /\ MarkIsNew /\ MarksApplied /\ RerunExcused
  BY DEF Position, PrefixApplied, MarkIsNew, MarksApplied, RerunExcused, RunOnce, InLoop
<1>4. SeedInOrder BY DEF SeedInOrder
<1>5. BootsCount
  <2>1. \A v : Pending(v) = {} BY DEF Pending, InLoop
  <2>2. Cardinality({}) = 0 BY FS_EmptySet
  <2>3. \A v \in Versions : applied[v] = 0 OBVIOUS
  <2>4. boots = 0 OBVIOUS
  <2> QED BY ONLY <2>1, <2>2, <2>3, <2>4 DEF BootsCount
<1> QED BY <1>1, <1>2, <1>3, <1>4, <1>5 DEF Inductive


(* One process at a time changes its place, so the others stay pending.    *)
LEMMA PendingStep ==
  ASSUME NEW p \in Procs, NEW v \in Nat,
         \A q \in Procs \ {p} : bootPc'[q] = bootPc[q] /\ version'[q] = version[q]
  PROVE  /\ Cardinality(Pending(v)) \in Nat /\ Cardinality(Pending(v)') \in Nat
         /\ Cardinality(Pending(v)') <= Cardinality(Pending(v)) + 1
         /\ (p \in Pending(v)' => p \in Pending(v)) =>
              Cardinality(Pending(v)') <= Cardinality(Pending(v))
         /\ p \in Pending(v) /\ p \notin Pending(v)' =>
              Cardinality(Pending(v)') + 1 <= Cardinality(Pending(v))
<1>1. IsFiniteSet(Pending(v)) /\ Cardinality(Pending(v)) \in Nat BY PendingFinite
<1>2. Pending(v)' \subseteq Pending(v) \cup {p} BY DEF Pending
<1>3. Cardinality(Pending(v) \cup {p}) <= Cardinality(Pending(v)) + 1
  <2>1. \/ Cardinality(Pending(v) \cup {p}) = Cardinality(Pending(v))
        \/ Cardinality(Pending(v) \cup {p}) = Cardinality(Pending(v)) + 1
    BY <1>1, FS_AddElement
  <2> QED BY <1>1, <2>1
<1>4. IsFiniteSet(Pending(v) \cup {p}) BY <1>1, FS_AddElement
<1>5. Cardinality(Pending(v)') <= Cardinality(Pending(v) \cup {p})
       /\ Cardinality(Pending(v)') \in Nat /\ IsFiniteSet(Pending(v)')
       /\ Cardinality(Pending(v) \cup {p}) \in Nat
  BY <1>2, <1>4, FS_Subset, FS_CardinalityType
<1>6. ASSUME p \in Pending(v)' => p \in Pending(v)
      PROVE  Cardinality(Pending(v)') <= Cardinality(Pending(v))
  <2>1. Pending(v)' \subseteq Pending(v) BY <1>2, <1>6
  <2> QED BY <2>1, <1>1, FS_Subset
<1>7. ASSUME p \in Pending(v), p \notin Pending(v)'
      PROVE  Cardinality(Pending(v)') + 1 <= Cardinality(Pending(v))
  <2>1. Pending(v)' \subseteq Pending(v) \ {p} BY <1>2, <1>7
  <2>2. /\ Cardinality(Pending(v) \ {p}) = Cardinality(Pending(v)) - 1
        /\ IsFiniteSet(Pending(v) \ {p})
    BY <1>1, <1>7, FS_RemoveElement
  <2>3. Cardinality(Pending(v)') <= Cardinality(Pending(v) \ {p})
    BY <2>1, <2>2, FS_Subset
  <2> QED BY <2>2, <2>3, <1>1, <1>5
<1> QED BY <1>1, <1>3, <1>5, <1>6, <1>7

(* Every statement of a start-up, and every death, keeps the invariant. *)
LEMMA NextInductive == Inductive /\ [BootNext]_bootVars => Inductive'
<1> SUFFICES ASSUME Inductive, [BootNext]_bootVars PROVE Inductive' OBVIOUS
<1> USE MigrationsAssumption DEF Versions
<1>1. Types /\ LockHeld /\ Position /\ PrefixApplied /\ MarkIsNew /\ MarksApplied
      /\ RerunExcused /\ SeedInOrder /\ BootsCount
  BY DEF Inductive
<1>2. ASSUME NEW p \in Procs, Boot(p) PROVE Inductive'
  <2>0. \A q \in Procs \ {p} : bootPc'[q] = bootPc[q] /\ version'[q] = version[q]
    BY <1>1, <1>2 DEF Boot, To, Types
  <2>1. Types' BY <1>1, <1>2 DEF Boot, To, Types, Position, LockHeld, Places, InLoop
  <2>2. LockHeld' BY <1>1, <1>2 DEF Boot, To, LockHeld, Types, Places, Position
  <2>3. Position' BY <1>1, <1>2 DEF Boot, To, Position, Types, Places
  <2>4. PrefixApplied'
    BY <1>1, <1>2 DEF Boot, To, PrefixApplied, Types, Position, MarksApplied, InLoop
  <2>5. MarkIsNew' BY <1>1, <1>2 DEF Boot, To, MarkIsNew, Types, LockHeld
  <2>6. MarksApplied' BY <1>1, <1>2 DEF Boot, To, MarksApplied, Types, Position, InLoop
  <2>7. RerunExcused'
    BY <1>1, <1>2 DEF Boot, To, RerunExcused, RunOnce, Types, Position, MarksApplied, LockHeld
  <2>8. SeedInOrder' BY <1>1, <1>2 DEF Boot, To, SeedInOrder, Types
  <2>9. BootsCount'
    <3> SUFFICES ASSUME NEW v \in Versions
                 PROVE  applied'[v] + Cardinality(Pending(v)') <= boots'
      BY DEF BootsCount
    <3>1. /\ Cardinality(Pending(v)) \in Nat /\ Cardinality(Pending(v)') \in Nat
          /\ Cardinality(Pending(v)') <= Cardinality(Pending(v)) + 1
      BY <2>0, PendingStep
    <3> QED BY <3>1, <1>1, <1>2 DEF Boot, BootsCount, Types
  <2> QED BY <2>1, <2>2, <2>3, <2>4, <2>5, <2>6, <2>7, <2>8, <2>9 DEF Inductive
<1>3. ASSUME NEW p \in Procs, Die(p) PROVE Inductive'
  <2>0. \A q \in Procs \ {p} : bootPc'[q] = bootPc[q] /\ version'[q] = version[q]
    BY <1>1, <1>3 DEF Die, To, Types
  <2>1. Types' BY <1>1, <1>3 DEF Die, To, Types, Position, LockHeld, Places, InLoop
  <2>2. LockHeld' BY <1>1, <1>3 DEF Die, To, LockHeld, Types, Places, Position
  <2>3. Position' BY <1>1, <1>3 DEF Die, To, Position, Types, Places
  <2>4. PrefixApplied'
    BY <1>1, <1>3 DEF Die, To, PrefixApplied, Types, Position, MarksApplied, InLoop
  <2>5. MarkIsNew' BY <1>1, <1>3 DEF Die, To, MarkIsNew, Types, LockHeld
  <2>6. MarksApplied' BY <1>1, <1>3 DEF Die, To, MarksApplied, Types, Position, InLoop
  <2>7. RerunExcused'
    BY <1>1, <1>3 DEF Die, To, RerunExcused, RunOnce, Types, Position, MarksApplied, LockHeld
  <2>8. SeedInOrder' BY <1>1, <1>3 DEF Die, To, SeedInOrder, Types
  <2>9. BootsCount'
    <3> SUFFICES ASSUME NEW v \in Versions
                 PROVE  applied'[v] + Cardinality(Pending(v)') <= boots'
      BY DEF BootsCount
    <3>1. p \in Pending(v)' => p \in Pending(v)
      BY <1>1, <1>3 DEF Die, To, Types, Pending, InLoop
    <3>2. /\ Cardinality(Pending(v)) \in Nat /\ Cardinality(Pending(v)') \in Nat
          /\ Cardinality(Pending(v)') <= Cardinality(Pending(v))
      BY <3>1, <2>0, PendingStep
    <3> QED BY <3>2, <1>1, <1>3 DEF Die, To, BootsCount, Types
  <2> QED BY <2>1, <2>2, <2>3, <2>4, <2>5, <2>6, <2>7, <2>8, <2>9 DEF Inductive
<1>4. ASSUME NEW p \in Procs, Open(p) PROVE Inductive'
  <2>0. \A q \in Procs \ {p} : bootPc'[q] = bootPc[q] /\ version'[q] = version[q]
    BY <1>1, <1>4 DEF Open, To, Types
  <2>a. /\ bootPc[p] = "open" /\ bootPc'[p] \in {"seed", "check"} /\ version'[p] = 1
        /\ bootPc' \in [Procs -> Places] /\ version' \in [Procs -> Nat \ {0}]
        /\ UNCHANGED <<marks, applied, seeded, lock, marked, boots, overtaken, unmarked,
                       misread, seedCut>>
    <3>1. PICK place \in {"seed", "check"} : To(p, place, 1) BY <1>4 DEF Open
    <3>2. bootPc \in [Procs -> Places] /\ version \in [Procs -> Nat \ {0}] BY <1>1 DEF Types
    <3>3. /\ bootPc'[p] = place /\ version'[p] = 1 /\ bootPc' \in [Procs -> Places]
          /\ version' \in [Procs -> Nat \ {0}]
      BY <3>1, <3>2 DEF To, Places
    <3> QED BY <1>4, <3>3 DEF Open
  <2>1. Types' BY <1>1, <2>a DEF Types
  <2>2. LockHeld' BY <1>1, <1>4 DEF Open, To, LockHeld, Types, Places, Position
  <2>3. Position'
    <3> SUFFICES ASSUME NEW q \in Procs
                 PROVE  /\ bootPc'[q] = "check" => version'[q] <= Count + 1
                        /\ bootPc'[q] \in {"exec", "mark", "commit"} => version'[q] <= Count
                        /\ bootPc'[q] = "serve" => version'[q] = Count + 1
      BY DEF Position
    <3>1. CASE q = p
      <4>1. 1 <= Count + 1 OBVIOUS
      <4> QED BY <2>a, <3>1, <4>1
    <3>2. CASE q # p BY <1>1, <2>0, <3>2 DEF Position
    <3> QED BY <3>1, <3>2
  <2>4. PrefixApplied'
    BY <1>1, <1>4 DEF Open, To, PrefixApplied, Types, Position, MarksApplied, InLoop
  <2>5. MarkIsNew' BY <1>1, <1>4 DEF Open, To, MarkIsNew, Types, LockHeld
  <2>6. MarksApplied' BY <1>1, <1>4 DEF Open, To, MarksApplied, Types, Position, InLoop
  <2>7. RerunExcused'
    BY <1>1, <1>4 DEF Open, To, RerunExcused, RunOnce, Types, Position, MarksApplied, LockHeld
  <2>8. SeedInOrder'
    <3>1. ASSUME NEW q \in Procs, bootPc'[q] = "seed"
          PROVE  version'[q] <= SeedRows /\ version'[q] <= seeded' + 1
      <4>1. CASE q = p
        <5>1. seeded \in Nat BY <1>1 DEF Types
        <5>2. 1 <= SeedRows /\ 1 <= seeded + 1 BY <5>1
        <5> QED BY <2>a, <4>1, <5>2
      <4>2. CASE q # p BY <1>1, <2>0, <2>a, <3>1, <4>2 DEF SeedInOrder
      <4> QED BY <4>1, <4>2
    <3>2. ASSUME ~seedCut', seeded' > 0, seeded' < SeedRows
          PROVE  \E q \in Procs : bootPc'[q] = "seed" /\ version'[q] = seeded' + 1
      <4>1. PICK q \in Procs : bootPc[q] = "seed" /\ version[q] = seeded + 1
        BY <1>1, <2>a, <3>2 DEF SeedInOrder
      <4>2. q # p BY <2>a, <4>1
      <4> QED BY <2>0, <2>a, <4>1, <4>2
    <3> QED BY <3>1, <3>2 DEF SeedInOrder
  <2>9. BootsCount'
    <3> SUFFICES ASSUME NEW v \in Versions
                 PROVE  applied'[v] + Cardinality(Pending(v)') <= boots'
      BY DEF BootsCount
    <3>1. p \in Pending(v)' => p \in Pending(v)
      BY <1>1, <1>4 DEF Open, To, Types, Pending, InLoop
    <3>2. /\ Cardinality(Pending(v)) \in Nat /\ Cardinality(Pending(v)') \in Nat
          /\ Cardinality(Pending(v)') <= Cardinality(Pending(v))
      BY <3>1, <2>0, PendingStep
    <3> QED BY <3>2, <1>1, <1>4 DEF Open, To, BootsCount, Types
  <2> QED BY <2>1, <2>2, <2>3, <2>4, <2>5, <2>6, <2>7, <2>8, <2>9 DEF Inductive
<1>5. ASSUME NEW p \in Procs, Seed(p) PROVE Inductive'
  <2>0. \A q \in Procs \ {p} : bootPc'[q] = bootPc[q] /\ version'[q] = version[q]
    BY <1>1, <1>5 DEF Seed, To, Types
  <2>a. version[p] \in 1 .. SeedRows /\ version[p] <= seeded + 1
    BY <1>1, <1>5 DEF Seed, SeedInOrder, Types
  <2>1. Types'
    <3>1. seeded' \in 0 .. SeedRows BY <1>1, <1>5, <2>a DEF Seed, Types
    <3>2. bootPc' \in [Procs -> Places] /\ version' \in [Procs -> Nat \ {0}]
      <4>1. \E place \in Places, v \in Nat \ {0} : To(p, place, v)
        BY <1>1, <1>5, <2>a DEF Seed, Places
      <4> QED BY <1>1, <4>1 DEF To, Types
    <3> QED BY <1>1, <1>5, <3>1, <3>2 DEF Seed, Types
  <2>2. LockHeld' BY <1>1, <1>5 DEF Seed, To, SeedEnds, LockHeld, Types, Places, Position
  <2>3. Position' BY <1>1, <1>5 DEF Seed, To, SeedEnds, Position, Types, Places
  <2>4. PrefixApplied'
    BY <1>1, <1>5 DEF Seed, To, SeedEnds, PrefixApplied, Types, Position, MarksApplied, InLoop
  <2>5. MarkIsNew' BY <1>1, <1>5 DEF Seed, To, SeedEnds, MarkIsNew, Types, LockHeld
  <2>6. MarksApplied' BY <1>1, <1>5 DEF Seed, To, SeedEnds, MarksApplied, Types, Position, InLoop
  <2>7. RerunExcused'
    <3>1. bootPc'[p] \in {"check", "seed"} /\ UNCHANGED <<applied, overtaken, unmarked, misread>>
      BY <1>1, <1>5 DEF Seed, To, Types
    <3> QED BY <1>1, <2>0, <3>1 DEF RerunExcused, RunOnce
  <2>8. SeedInOrder'
    <3>1. seeded \in Nat /\ seeded' \in Nat /\ seeded <= seeded' /\ seedCut' = seedCut
      BY <1>1, <1>5, <2>a, <2>1 DEF Seed, Types
    <3>a. \A q \in Procs : version[q] \in Nat BY <1>1 DEF Types
    <3>b. \A q \in Procs : bootPc[q] = "seed" => version[q] <= SeedRows /\ version[q] <= seeded + 1
      BY <1>1 DEF SeedInOrder
    <3>2. CASE version[p] > seeded /\ version[p] # SeedRows
      <4>1. /\ seeded' = version[p] /\ bootPc'[p] = "seed"
            /\ version'[p] = version[p] + 1 /\ version'[p] <= SeedRows
        BY <1>1, <1>5, <2>a, <3>2 DEF Seed, To, SeedEnds, Types
      <4>2. ASSUME NEW q \in Procs, bootPc'[q] = "seed"
            PROVE  version'[q] <= SeedRows /\ version'[q] <= seeded' + 1
        <5>1. CASE q = p BY <5>1, <4>1, <2>a
        <5>2. CASE q # p BY <5>2, <4>2, <2>0, <3>a, <3>b, <3>1
        <5> QED BY <5>1, <5>2
      <4> QED BY <4>1, <4>2 DEF SeedInOrder
    <3>3. CASE version[p] > seeded /\ version[p] = SeedRows
      <4>1. seeded' = SeedRows /\ bootPc'[p] = "check"
        BY <1>1, <1>5, <2>a, <3>3 DEF Seed, To, SeedEnds, Types
      <4>2. ASSUME NEW q \in Procs, bootPc'[q] = "seed"
            PROVE  version'[q] <= SeedRows /\ version'[q] <= seeded' + 1
        <5>1. q # p BY <4>1, <4>2
        <5>2. version[q] <= SeedRows /\ version[q] <= seeded + 1 /\ version'[q] = version[q]
          BY <2>0, <3>b, <4>2, <5>1
        <5> QED BY <3>1, <3>a, <5>2
      <4>3. ~(seeded' < SeedRows) BY <3>1, <4>1
      <4> QED BY <4>2, <4>3 DEF SeedInOrder
    <3>4. CASE version[p] <= seeded
      <4>1. seeded' = seeded /\ bootPc'[p] = "check"
        BY <1>1, <1>5, <2>a, <3>4 DEF Seed, To, SeedEnds, Types
      <4>2. ASSUME NEW q \in Procs, bootPc'[q] = "seed"
            PROVE  version'[q] <= SeedRows /\ version'[q] <= seeded' + 1
        BY <4>1, <4>2, <2>0, <3>b
      <4>3. ASSUME ~seedCut', seeded' > 0, seeded' < SeedRows
            PROVE  \E q \in Procs : bootPc'[q] = "seed" /\ version'[q] = seeded' + 1
        <5>1. PICK q \in Procs : bootPc[q] = "seed" /\ version[q] = seeded + 1
          BY <1>1, <3>1, <4>1, <4>3 DEF SeedInOrder
        <5>2. q # p BY <5>1, <3>4, <3>1, <3>a
        <5> QED BY <5>1, <5>2, <2>0, <4>1
      <4> QED BY <4>2, <4>3 DEF SeedInOrder
    <3> QED BY <3>2, <3>3, <3>4, <2>a, <3>1
  <2>9. BootsCount'
    <3> SUFFICES ASSUME NEW v \in Versions
                 PROVE  applied'[v] + Cardinality(Pending(v)') <= boots'
      BY DEF BootsCount
    <3>1. p \in Pending(v)' => p \in Pending(v)
      BY <1>1, <1>5 DEF Seed, To, SeedEnds, Types, Pending, InLoop
    <3>2. /\ Cardinality(Pending(v)) \in Nat /\ Cardinality(Pending(v)') \in Nat
          /\ Cardinality(Pending(v)') <= Cardinality(Pending(v))
      BY <3>1, <2>0, PendingStep
    <3> QED BY <3>2, <1>1, <1>5 DEF Seed, To, SeedEnds, BootsCount, Types
  <2> QED BY <2>1, <2>2, <2>3, <2>4, <2>5, <2>6, <2>7, <2>8, <2>9 DEF Inductive
<1>6. ASSUME NEW p \in Procs, SeedBusy(p) PROVE Inductive'
  <2>0. \A q \in Procs \ {p} : bootPc'[q] = bootPc[q] /\ version'[q] = version[q]
    BY <1>1, <1>6 DEF SeedBusy, To, Types
  <2>1. Types' BY <1>1, <1>6 DEF SeedBusy, To, Types, Position, LockHeld, Places, InLoop
  <2>2. LockHeld' BY <1>1, <1>6 DEF SeedBusy, To, LockHeld, Types, Places, Position
  <2>3. Position' BY <1>1, <1>6 DEF SeedBusy, To, Position, Types, Places
  <2>4. PrefixApplied'
    BY <1>1, <1>6 DEF SeedBusy, To, PrefixApplied, Types, Position, MarksApplied, InLoop
  <2>5. MarkIsNew' BY <1>1, <1>6 DEF SeedBusy, To, MarkIsNew, Types, LockHeld
  <2>6. MarksApplied' BY <1>1, <1>6 DEF SeedBusy, To, MarksApplied, Types, Position, InLoop
  <2>7. RerunExcused'
    BY <1>1, <1>6 DEF SeedBusy, To, RerunExcused, RunOnce, Types, Position, MarksApplied, LockHeld
  <2>8. SeedInOrder' BY <1>1, <1>6 DEF SeedBusy, To, SeedInOrder, Types
  <2>9. BootsCount'
    <3> SUFFICES ASSUME NEW v \in Versions
                 PROVE  applied'[v] + Cardinality(Pending(v)') <= boots'
      BY DEF BootsCount
    <3>1. p \in Pending(v)' => p \in Pending(v)
      BY <1>1, <1>6 DEF SeedBusy, To, Types, Pending, InLoop
    <3>2. /\ Cardinality(Pending(v)) \in Nat /\ Cardinality(Pending(v)') \in Nat
          /\ Cardinality(Pending(v)') <= Cardinality(Pending(v))
      BY <3>1, <2>0, PendingStep
    <3> QED BY <3>2, <1>1, <1>6 DEF SeedBusy, To, BootsCount, Types
  <2> QED BY <2>1, <2>2, <2>3, <2>4, <2>5, <2>6, <2>7, <2>8, <2>9 DEF Inductive
<1>7. ASSUME NEW p \in Procs, Check(p) PROVE Inductive'
  <2>0. \A q \in Procs \ {p} : bootPc'[q] = bootPc[q] /\ version'[q] = version[q]
    BY <1>1, <1>7 DEF Check, To, Types
  <2>1. Types'
    <3>1. bootPc' \in [Procs -> Places] /\ version' \in [Procs -> Nat \ {0}]
      <4>1. version[p] \in Nat \ {0} BY <1>1 DEF Types
      <4>2. \E place \in Places, v \in Nat \ {0} : To(p, place, v)
        BY <1>7, <4>1 DEF Check, Places
      <4> QED BY <1>1, <4>2 DEF To, Types
    <3> QED BY <1>1, <1>7, <3>1 DEF Check, Types
  <2>2. LockHeld' BY <1>1, <1>7 DEF Check, To, Past, Done, LockHeld, Types, Places, Position
  <2>3. Position'
    <3>1. version[p] \in Nat \ {0} /\ version[p] <= Count + 1
      BY <1>1, <1>7 DEF Check, Position, Types
    <3> QED BY <1>1, <1>7, <2>0, <3>1 DEF Check, To, Past, Position, Types
  <2>4. PrefixApplied'
    <3>0. /\ UNCHANGED applied
          /\ \A v \in Versions : applied[v] > 0 => \A u \in Versions : u < v => applied[u] > 0
      BY <1>1, <1>7 DEF Check, PrefixApplied
    <3> SUFFICES ASSUME NEW q \in Procs, bootPc'[q] \in InLoop \cup {"serve"},
                        NEW u \in Versions, u < version'[q]
                 PROVE  applied[u] > 0
      BY <3>0 DEF PrefixApplied
    <3>1. CASE q # p BY <1>1, <2>0, <3>1 DEF PrefixApplied
    <3>2. CASE q = p
      <4>1. bootPc[p] = "check" /\ \A w \in Versions : w < version[p] => applied[w] > 0
        BY <1>1, <1>7 DEF Check, PrefixApplied, InLoop
      <4>2. \/ version'[p] = version[p]
            \/ version'[p] = version[p] + 1 /\ version[p] \in marks
        BY <1>1, <1>7 DEF Check, To, Done, Types
      <4>3. \A w \in marks : applied[w] > 0 BY <1>1 DEF MarksApplied
      <4>4. version[p] \in Nat /\ u \in Nat BY <1>1 DEF Types, Versions
      <4>5. u < version[p] \/ (u = version[p] /\ version[p] \in marks)
        BY ONLY <3>2, <4>2, <4>4, u < version'[q]
      <4> QED BY ONLY <4>1, <4>3, <4>5, u \in Versions
    <3> QED BY <3>1, <3>2
  <2>5. MarkIsNew' BY <1>1, <1>7 DEF Check, To, Past, Done, MarkIsNew, Types, LockHeld
  <2>6. MarksApplied' BY <1>1, <1>7 DEF Check, To, Past, Done, MarksApplied, Types, Position, InLoop
  <2>7. RerunExcused'
    BY <1>1, <1>7
       DEF Check, To, Past, Done, RerunExcused, RunOnce, Types, Position, MarksApplied, LockHeld
  <2>8. SeedInOrder' BY <1>1, <1>7 DEF Check, To, Past, Done, SeedInOrder, Types
  <2>9. BootsCount'
    <3> SUFFICES ASSUME NEW v \in Versions
                 PROVE  applied'[v] + Cardinality(Pending(v)') <= boots'
      BY DEF BootsCount
    <3>1. p \in Pending(v)' => p \in Pending(v)
      BY <1>1, <1>7 DEF Check, To, Past, Done, Types, Pending, InLoop
    <3>2. /\ Cardinality(Pending(v)) \in Nat /\ Cardinality(Pending(v)') \in Nat
          /\ Cardinality(Pending(v)') <= Cardinality(Pending(v))
      BY <3>1, <2>0, PendingStep
    <3> QED BY <3>2, <1>1, <1>7 DEF Check, To, Past, Done, BootsCount, Types
  <2> QED BY <2>1, <2>2, <2>3, <2>4, <2>5, <2>6, <2>7, <2>8, <2>9 DEF Inductive
<1>8. ASSUME NEW p \in Procs, Exec(p) PROVE Inductive'
  <2>0. \A q \in Procs \ {p} : bootPc'[q] = bootPc[q] /\ version'[q] = version[q]
    BY <1>1, <1>8 DEF Exec, To, Types
  <2>1. Types' BY <1>1, <1>8 DEF Exec, To, Types, Position, LockHeld, Places, InLoop
  <2>2. LockHeld' BY <1>1, <1>8 DEF Exec, To, LockHeld, Types, Places, Position
  <2>3. Position' BY <1>1, <1>8 DEF Exec, To, Position, Types, Places
  <2>4. PrefixApplied'
    BY <1>1, <1>8 DEF Exec, To, PrefixApplied, Types, Position, MarksApplied, InLoop
  <2>5. MarkIsNew' BY <1>1, <1>8 DEF Exec, To, MarkIsNew, Types, LockHeld
  <2>6. MarksApplied' BY <1>1, <1>8 DEF Exec, To, MarksApplied, Types, Position, InLoop
  <2>7. RerunExcused'
    BY <1>1, <1>8 DEF Exec, To, RerunExcused, RunOnce, Types, Position, MarksApplied, LockHeld
  <2>8. SeedInOrder' BY <1>1, <1>8 DEF Exec, To, SeedInOrder, Types
  <2>9. BootsCount'
    <3> SUFFICES ASSUME NEW v \in Versions
                 PROVE  applied'[v] + Cardinality(Pending(v)') <= boots'
      BY DEF BootsCount
    <3>1. p \in Pending(v)' => p \in Pending(v)
      BY <1>1, <1>8 DEF Exec, To, Types, Pending, InLoop
    <3>2. /\ Cardinality(Pending(v)) \in Nat /\ Cardinality(Pending(v)') \in Nat
          /\ Cardinality(Pending(v)') <= Cardinality(Pending(v))
      BY <3>1, <2>0, PendingStep
    <3> QED BY <3>2, <1>1, <1>8 DEF Exec, To, BootsCount, Types
  <2> QED BY <2>1, <2>2, <2>3, <2>4, <2>5, <2>6, <2>7, <2>8, <2>9 DEF Inductive
<1>9. ASSUME NEW p \in Procs, ExecFails(p) PROVE Inductive'
  <2>0. \A q \in Procs \ {p} : bootPc'[q] = bootPc[q] /\ version'[q] = version[q]
    BY <1>1, <1>9 DEF ExecFails, Failed, To, Types
  <2>1. Types' BY <1>1, <1>9 DEF ExecFails, Failed, To, Types, Position, LockHeld, Places, InLoop
  <2>2. LockHeld' BY <1>1, <1>9 DEF ExecFails, Failed, To, LockHeld, Types, Places, Position
  <2>3. Position' BY <1>1, <1>9 DEF ExecFails, Failed, To, Position, Types, Places
  <2>4. PrefixApplied'
    BY <1>1, <1>9 DEF ExecFails, Failed, To, PrefixApplied, Types, Position, MarksApplied, InLoop
  <2>5. MarkIsNew' BY <1>1, <1>9 DEF ExecFails, Failed, To, MarkIsNew, Types, LockHeld
  <2>6. MarksApplied' BY <1>1, <1>9 DEF ExecFails, Failed, To, MarksApplied, Types, Position, InLoop
  <2>7. RerunExcused'
    BY <1>1, <1>9
       DEF ExecFails, Failed, To, RerunExcused, RunOnce, Types, Position, MarksApplied, LockHeld
  <2>8. SeedInOrder' BY <1>1, <1>9 DEF ExecFails, Failed, To, SeedInOrder, Types
  <2>9. BootsCount'
    <3> SUFFICES ASSUME NEW v \in Versions
                 PROVE  applied'[v] + Cardinality(Pending(v)') <= boots'
      BY DEF BootsCount
    <3>1. p \in Pending(v)' => p \in Pending(v)
      BY <1>1, <1>9 DEF ExecFails, Failed, To, Types, Pending, InLoop
    <3>2. /\ Cardinality(Pending(v)) \in Nat /\ Cardinality(Pending(v)') \in Nat
          /\ Cardinality(Pending(v)') <= Cardinality(Pending(v))
      BY <3>1, <2>0, PendingStep
    <3> QED BY <3>2, <1>1, <1>9 DEF ExecFails, Failed, To, BootsCount, Types
  <2> QED BY <2>1, <2>2, <2>3, <2>4, <2>5, <2>6, <2>7, <2>8, <2>9 DEF Inductive
<1>10. ASSUME NEW p \in Procs, Mark(p) PROVE Inductive'
  <2>0. \A q \in Procs \ {p} : bootPc'[q] = bootPc[q] /\ version'[q] = version[q]
    BY <1>1, <1>10 DEF Mark, To, Types
  <2>1. Types' BY <1>1, <1>10 DEF Mark, To, Types, Position, LockHeld, Places, InLoop
  <2>2. LockHeld' BY <1>1, <1>10 DEF Mark, To, LockHeld, Types, Places, Position
  <2>3. Position' BY <1>1, <1>10 DEF Mark, To, Position, Types, Places
  <2>4. PrefixApplied'
    BY <1>1, <1>10 DEF Mark, To, PrefixApplied, Types, Position, MarksApplied, InLoop
  <2>5. MarkIsNew' BY <1>1, <1>10 DEF Mark, To, MarkIsNew, Types, LockHeld
  <2>6. MarksApplied' BY <1>1, <1>10 DEF Mark, To, MarksApplied, Types, Position, InLoop
  <2>7. RerunExcused'
    BY <1>1, <1>10 DEF Mark, To, RerunExcused, RunOnce, Types, Position, MarksApplied, LockHeld
  <2>8. SeedInOrder' BY <1>1, <1>10 DEF Mark, To, SeedInOrder, Types
  <2>9. BootsCount'
    <3> SUFFICES ASSUME NEW v \in Versions
                 PROVE  applied'[v] + Cardinality(Pending(v)') <= boots'
      BY DEF BootsCount
    <3>1. p \in Pending(v)' => p \in Pending(v)
      BY <1>1, <1>10 DEF Mark, To, Types, Pending, InLoop
    <3>2. /\ Cardinality(Pending(v)) \in Nat /\ Cardinality(Pending(v)') \in Nat
          /\ Cardinality(Pending(v)') <= Cardinality(Pending(v))
      BY <3>1, <2>0, PendingStep
    <3> QED BY <3>2, <1>1, <1>10 DEF Mark, To, BootsCount, Types
  <2> QED BY <2>1, <2>2, <2>3, <2>4, <2>5, <2>6, <2>7, <2>8, <2>9 DEF Inductive
<1>11. ASSUME NEW p \in Procs, Commit(p) PROVE Inductive'
  <2>0. \A q \in Procs \ {p} : bootPc'[q] = bootPc[q] /\ version'[q] = version[q]
    BY <1>1, <1>11 DEF Commit, To, Types
  <2>a. version[p] \in Versions BY <1>1, <1>11 DEF Commit, Position, Types
  <2>1. Types'
    <3>1. bootPc' \in [Procs -> Places] /\ version' \in [Procs -> Nat \ {0}]
      BY <1>1, <1>11, <2>a DEF Commit, To, Types, Places
    <3>2. marks' \subseteq Versions /\ applied' \in [Versions -> Nat]
      <4>1. marks' = MarksAfter(p) /\ applied' = [applied EXCEPT ![version[p]] = @ + 1]
        BY <1>11 DEF Commit
      <4>2. marks \subseteq Versions /\ applied \in [Versions -> Nat] BY <1>1 DEF Types
      <4>3. marks' \subseteq Versions BY <2>a, <4>1, <4>2 DEF MarksAfter
      <4>4. applied' \in [Versions -> Nat] BY <2>a, <4>1, <4>2
      <4> QED BY <4>3, <4>4
    <3> QED BY <1>1, <1>11, <3>1, <3>2 DEF Commit, Types
  <2>2. LockHeld' BY <1>1, <1>11 DEF Commit, To, MarksAfter, LockHeld, Types, Places, Position
  <2>3. Position' BY <1>1, <1>11 DEF Commit, To, MarksAfter, Position, Types, Places
  <2>4. PrefixApplied'
    <3>1. /\ bootPc[p] = "commit" /\ bootPc'[p] = "check" /\ version'[p] = version[p] + 1
          /\ applied'[version[p]] > 0
          /\ \A u \in Versions \ {version[p]} : applied'[u] = applied[u]
      BY <1>1, <1>11, <2>a DEF Commit, To, Types
    <3>2. \A u \in Versions : applied[u] > 0 => applied'[u] > 0 BY <3>1
    <3>3. \A u \in Versions : u < version[p] => applied'[u] > 0
      BY <1>1, <3>1, <3>2 DEF PrefixApplied, InLoop
    <3>4. ASSUME NEW q \in Procs, bootPc'[q] \in InLoop \cup {"serve"}, NEW u \in Versions,
                 u < version'[q]
          PROVE  applied'[u] > 0
      <4>1. CASE q = p
        <5>1. u \in Nat /\ version[p] \in Nat /\ u < version[p] + 1 BY <3>1, <3>4, <4>1, <2>a
        <5>2. u = version[p] \/ u < version[p] BY <5>1
        <5> QED BY <3>1, <3>3, <5>2
      <4>2. CASE q # p BY <1>1, <2>0, <3>2, <3>4, <4>2 DEF PrefixApplied
      <4> QED BY <4>1, <4>2
    <3>5. ASSUME NEW v \in Versions, applied'[v] > 0, NEW u \in Versions, u < v
          PROVE  applied'[u] > 0
      <4>1. CASE v = version[p] BY <3>3, <3>5, <4>1
      <4>2. CASE v # version[p] BY <1>1, <3>1, <3>2, <3>5, <4>2 DEF PrefixApplied
      <4> QED BY <4>1, <4>2
    <3> QED BY <3>4, <3>5 DEF PrefixApplied
  <2>5. MarkIsNew' BY <1>1, <1>11 DEF Commit, To, MarksAfter, MarkIsNew, Types, LockHeld
  <2>6. MarksApplied'
    BY <1>1, <1>11 DEF Commit, To, MarksAfter, MarksApplied, Types, Position, InLoop
  <2>7. RerunExcused'
    BY <1>1, <1>11
       DEF Commit, To, MarksAfter, RerunExcused, RunOnce, Types, Position, MarksApplied, LockHeld
  <2>8. SeedInOrder' BY <1>1, <1>11 DEF Commit, To, MarksAfter, SeedInOrder, Types
  <2>9. BootsCount'
    <3> SUFFICES ASSUME NEW v \in Versions
                 PROVE  applied'[v] + Cardinality(Pending(v)') <= boots'
      BY DEF BootsCount
    <3>1. /\ p \in Pending(v)' => p \in Pending(v)
          /\ v = version[p] => p \in Pending(v) /\ p \notin Pending(v)'
      BY <1>1, <1>11, <2>a DEF Commit, To, Types, Pending, InLoop
    <3>2. /\ Cardinality(Pending(v)) \in Nat /\ Cardinality(Pending(v)') \in Nat
          /\ Cardinality(Pending(v)') <= Cardinality(Pending(v))
          /\ v = version[p] => Cardinality(Pending(v)') + 1 <= Cardinality(Pending(v))
      BY <3>1, <2>0, PendingStep
    <3>3. applied[v] + Cardinality(Pending(v)) <= boots /\ boots' = boots
          /\ applied[v] \in Nat /\ boots \in Nat
      BY <1>1, <1>11 DEF BootsCount, Types, Commit
    <3>4. CASE v = version[p]
      <4>1. applied'[v] = applied[v] + 1 BY <3>4, <1>1, <1>11 DEF Commit, Types
      <4> QED BY <3>2, <3>3, <3>4, <4>1
    <3>5. CASE v # version[p]
      <4>1. applied'[v] = applied[v] BY <3>5, <1>1, <1>11 DEF Commit, Types
      <4> QED BY <3>2, <3>3, <4>1
    <3> QED BY <3>4, <3>5
  <2> QED BY <2>1, <2>2, <2>3, <2>4, <2>5, <2>6, <2>7, <2>8, <2>9 DEF Inductive
<1>13. ASSUME NEW p \in Procs, Misread(p) PROVE Inductive'
  <2>0. \A q \in Procs \ {p} : bootPc'[q] = bootPc[q] /\ version'[q] = version[q]
    BY <1>1, <1>13 DEF Misread, Past, Done, To, Types
  <2>1. Types' BY <1>1, <1>13 DEF Misread, Past, Done, To, Types, Position, LockHeld, Places, InLoop
  <2>2. LockHeld' BY <1>1, <1>13 DEF Misread, Past, Done, To, LockHeld, Types, Places, Position
  <2>3. Position' BY <1>1, <1>13 DEF Misread, Past, Done, To, Position, Types, Places
  <2>4. PrefixApplied'
    BY <1>1, <1>13 DEF Misread, Past, Done, To, PrefixApplied, Types, Position, MarksApplied, InLoop
  <2>5. MarkIsNew' BY <1>1, <1>13 DEF Misread, Past, Done, To, MarkIsNew, Types, LockHeld
  <2>6. MarksApplied' BY <1>1, <1>13 DEF Misread, Past, Done, To, MarksApplied, Types, Position, InLoop
  <2>7. RerunExcused'
    BY <1>1, <1>13 DEF Misread, Past, Done, To, RerunExcused, RunOnce, Types, Position, MarksApplied, LockHeld
  <2>8. SeedInOrder' BY <1>1, <1>13 DEF Misread, Past, Done, To, SeedInOrder, Types
  <2>9. BootsCount'
    <3> SUFFICES ASSUME NEW v \in Versions
                 PROVE  applied'[v] + Cardinality(Pending(v)') <= boots'
      BY DEF BootsCount
    <3>1. p \in Pending(v)' => p \in Pending(v)
      BY <1>1, <1>13 DEF Misread, Past, Done, To, Types, Pending, InLoop
    <3>2. /\ Cardinality(Pending(v)) \in Nat /\ Cardinality(Pending(v)') \in Nat
          /\ Cardinality(Pending(v)') <= Cardinality(Pending(v))
      BY <3>1, <2>0, PendingStep
    <3> QED BY <3>2, <1>1, <1>13 DEF Misread, Past, Done, To, BootsCount, Types
  <2> QED BY <2>1, <2>2, <2>3, <2>4, <2>5, <2>6, <2>7, <2>8, <2>9 DEF Inductive
<1>12. CASE UNCHANGED bootVars
 
    BY <1>1, <1>12
       DEF bootVars, Inductive, Types, LockHeld, Position, PrefixApplied, MarkIsNew,
           MarksApplied, RerunExcused, SeedInOrder, BootsCount, RunOnce, Pending, InLoop
<1> QED BY <1>2, <1>3, <1>4, <1>5, <1>6, <1>7, <1>8, <1>9, <1>10, <1>11, <1>12, <1>13 DEF BootNext

(* The invariant holds in every reachable state. *)
LEMMA InductiveHolds == BootSpec => []Inductive
BY InitInductive, NextInductive, PTL DEF BootSpec

(* A migration is applied once: a second time it takes a process that      *)
(* looked for the mark before another one committed it, or a mark that     *)
(* could not be inserted or read (orbit_run_migrations), whatever the      *)
(* number of processes and migrations and wherever processes died.         *)
THEOREM AppliedOnce == BootSpec => []RunOnce
<1>1. Inductive => RunOnce BY DEF Inductive, RerunExcused
<1> QED BY <1>1, InductiveHolds, PTL

(* A process that has left orbit_run_migrations with success serves on a   *)
(* database that has every migration; they are applied in their order.     *)
THEOREM ServesOnAll == BootSpec => []ServesMigrated
<1>1. Inductive => ServesMigrated
  <2> SUFFICES ASSUME Inductive PROVE ServesMigrated OBVIOUS
  <2> USE MigrationsAssumption
  <2>1. ASSUME NEW p \in Procs, bootPc[p] = "serve", NEW v \in Versions PROVE applied[v] > 0
    BY <2>1 DEF Inductive, Position, PrefixApplied, Versions
  <2>2. ASSUME NEW v \in Versions, applied[v] > 0, NEW u \in 1 .. v - 1 PROVE applied[u] > 0
    BY <2>2 DEF Inductive, PrefixApplied, Versions
  <2> QED BY <2>1, <2>2 DEF ServesMigrated
<1> QED BY <1>1, InductiveHolds, PTL

(* The recorded migrations are the applied ones, but for marks that could  *)
(* not be inserted, and the seed is whole unless it was cut short: what    *)
(* orbit_db_init and orbit_run_migrations leave in the file.               *)
THEOREM FileAgrees == BootSpec => []BootInv
<1>1. Inductive => BootInv
  <2> SUFFICES ASSUME Inductive PROVE BootInv OBVIOUS
  <2> USE MigrationsAssumption
  <2>1. BootTypeOK
    <3>1. applied \in [Versions -> 0 .. MaxBoots]
      <4> SUFFICES ASSUME NEW v \in Versions PROVE applied[v] \in 0 .. MaxBoots
        BY DEF Inductive, Types
      <4>1. applied[v] + Cardinality(Pending(v)) <= boots BY DEF Inductive, BootsCount
      <4>2. Cardinality(Pending(v)) \in Nat BY PendingFinite
      <4>3. applied[v] \in Nat /\ boots \in 0 .. MaxBoots BY DEF Inductive, Types
      <4> QED BY <4>1, <4>2, <4>3
    <3> QED BY <3>1 DEF Inductive, Types, LockHeld, Places, BootTypeOK
  <2>2. MarkedIsApplied BY DEF Inductive, Types, MarksApplied, MarkedIsApplied
  <2>3. SeedWhole BY DEF Inductive, Types, SeedInOrder, SeedWhole
  <2> QED BY <2>1, <2>2, <2>3 DEF BootInv
<1> QED BY <1>1, InductiveHolds, PTL


-----------------------------------------------------------------------------
(* The request path. *)


(* The router starts in a state that satisfies the invariant. *)
LEMMA InitInv == Init => RequestInv
<1> SUFFICES ASSUME Init PROVE RequestInv
  OBVIOUS
<1> USE RequestAssumption DEF Init
<1>1. TypeOK
  <2>1. armed \in BOOLEAN OBVIOUS
  <2>2. lease \in {NoLease} \cup [class : Classes, used : 0 .. MaxAsk + 1] OBVIOUS
  <2>3. lease # NoLease => lease.used <= Budget[lease.class] OBVIOUS
  <2>4. pc \in {"top", "parse", "gate", "create", "siege", "handler", "send", "release",
             "disarm", "boundary", "answer", "sendBoundary", "left", "exit"} OBVIOUS
  <2>5. active \in 0 .. MaxTaken /\ lost \in 0 .. MaxTaken /\ taken \in 0 .. MaxTaken OBVIOUS
  <2> QED BY <2>1, <2>2, <2>3, <2>4, <2>5 DEF TypeOK, Statuses
<1>2. LeaseByPlace BY DEF LeaseByPlace
<1>3. ArmedByPlace BY DEF ArmedByPlace, Before, Recovery
<1>4. AnswerByPlace BY DEF AnswerByPlace, Before, Recovery
<1>5. CountedLeases BY DEF CountedLeases
<1>6. OneAnswer /\ BudgetNeverFatal BY DEF OneAnswer, BudgetNeverFatal
<1> QED BY <1>1, <1>2, <1>3, <1>4, <1>5, <1>6 DEF RequestInv

(* A lease that was cut is told from the absence of one by its class. *)
LEMMA CutLease ==
  ASSUME NEW class \in Classes, NEW n
  PROVE  [class |-> class, used |-> n] # NoLease
BY DEF Classes, NoLease

(* Charging keeps the lease a lease, within its budget when there is room. *)
LEMMA ChargedLease ==
  ASSUME NEW n \in Nat, RequestInv, HasRoom(n), lease # NoLease
  PROVE  /\ Charged(n) = [class |-> lease.class, used |-> lease.used + n]
         /\ Charged(n) # NoLease
         /\ lease.class \in Classes /\ Charged(n).class = lease.class
         /\ lease.used + n <= Budget[lease.class]
         /\ lease.used \in Nat
<1>1. lease \in [class : Classes, used : 0 .. MaxAsk + 1]
  BY DEF RequestInv, TypeOK
<1>2. Charged(n) = [class |-> lease.class, used |-> lease.used + n]
  BY <1>1 DEF Charged
<1>3. lease.class \in Classes /\ lease.used \in Nat
  BY <1>1, RequestAssumption
<1> QED BY <1>2, <1>3, CutLease DEF HasRoom

(* Every step of the worker preserves the invariant. *)
LEMMA NextInv == RequestInv /\ [Next]_vars => RequestInv'
<1> SUFFICES ASSUME RequestInv, [Next]_vars PROVE RequestInv'
  OBVIOUS
<1> USE RequestAssumption DEF RequestInv, TypeOK, LeaseByPlace, ArmedByPlace, AnswerByPlace,
    CountedLeases, OneAnswer, BudgetNeverFatal, Before, Recovery, Statuses
<1>1. CASE Start BY <1>1 DEF Start
<1>2. CASE ParsePartial BY <1>2 DEF ParsePartial
<1>3. CASE ParseError BY <1>3 DEF ParseError, Build, Charged
<1>4. CASE ParseComplete BY <1>4 DEF ParseComplete
<1>5. CASE GateDeny BY <1>5 DEF GateDeny, Build, Charged
<1>6. CASE GateAdmit BY <1>6 DEF GateAdmit
<1>7. ASSUME NEW class \in Classes, CreateLease(class) PROVE RequestInv'
  BY <1>7, CutLease DEF CreateLease
<1>8. CASE CreateRefused
  <2>1. lease = NoLease /\ lease' = NoLease /\ armed
    BY <1>8 DEF CreateRefused
  <2>2. pc' = "boundary" /\ armed' = FALSE
    BY <1>8, <2>1 DEF CreateRefused, RefusedBy
  <2>3. active' = lost' /\ lost' <= taken' /\ lost' \in 0 .. MaxTaken /\ taken' \in 0 .. MaxTaken
    BY <1>8, <2>1 DEF CreateRefused
  <2>4. TypeOK' BY <1>8, <2>1, <2>2, <2>3 DEF CreateRefused, RefusedBy
  <2>5. LeaseByPlace' /\ ArmedByPlace' BY <2>1, <2>2
  <2>6. AnswerByPlace' BY <1>8, <2>2 DEF CreateRefused, RefusedBy
  <2>7. CountedLeases' BY <2>1, <2>2, <2>3
  <2>8. (OneAnswer /\ BudgetNeverFatal)' BY <1>8, <2>2 DEF CreateRefused
  <2> QED BY <2>4, <2>5, <2>6, <2>7, <2>8
<1>9. CASE SiegeReply
  BY <1>9, ChargedLease DEF SiegeReply, Build
<1>10. ASSUME NEW n \in 0 .. MaxAsk, Handle(n) PROVE RequestInv'
  BY <1>10, ChargedLease DEF Handle
<1>11. CASE Send
  <2>1. pc' = "release" /\ lease' = lease /\ armed' /\ reply' = 1 /\ status' \notin {"none", "unsent"}
    BY <1>11 DEF Send
  <2>2. TypeOK' BY <1>11, <2>1 DEF Send
  <2>3. LeaseByPlace' /\ ArmedByPlace' /\ AnswerByPlace' BY <2>1
  <2>4. CountedLeases' BY <1>11, <2>1 DEF Send
  <2>5. (OneAnswer /\ BudgetNeverFatal)' BY <2>1
  <2> QED BY <2>2, <2>3, <2>4, <2>5
<1>12. CASE Release BY <1>12 DEF Release
<1>13. CASE Disarm
  <2>1. /\ pc' \in {"left", "top"} /\ armed' = FALSE /\ lease' = NoLease
        /\ UNCHANGED <<lease, active, lost, taken, refuser, reply, status>>
        /\ reply = (IF status \in {"none", "unsent"} THEN 0 ELSE 1)
    BY <1>13 DEF Disarm
  <2>2. pc' = (IF status = "none" THEN "left" ELSE "top")
    BY <1>13 DEF Disarm
  <2>3. armed' \in BOOLEAN BY <2>1
  <2>4. TypeOK' BY <2>1, <2>3
  <2>5. LeaseByPlace' BY <2>1
  <2>6. ArmedByPlace' BY <2>1
  <2>7. AnswerByPlace' BY <2>1, <2>2
  <2>8. CountedLeases' BY <2>1
  <2>9. (OneAnswer /\ BudgetNeverFatal)' BY <2>1, <2>2
  <2> QED BY <2>4, <2>5, <2>6, <2>7, <2>8, <2>9
<1>14. CASE Boundary BY <1>14 DEF Boundary
<1>15. CASE Answer BY <1>15 DEF Answer, Build, Charged
<1>16. CASE SendBoundary BY <1>16 DEF SendBoundary
<1>17. CASE LoopLeft \/ BufferFull BY <1>17 DEF LoopLeft, BufferFull, Build, Charged
<1>18. CASE Refusal BY <1>18 DEF Refusal, Refuse, RefusedBy, HasRoom
<1>19. CASE SendNothing
  <2>1. /\ pc = "send" /\ pc' = "release" /\ status' = "unsent"
        /\ UNCHANGED <<armed, lease, active, lost, taken, refuser, reply>>
    BY <1>19 DEF SendNothing
  <2>2. TypeOK' BY <2>1
  <2>3. LeaseByPlace' /\ ArmedByPlace' /\ AnswerByPlace' BY <2>1
  <2>4. CountedLeases' BY <2>1
  <2>5. (OneAnswer /\ BudgetNeverFatal)' BY <2>1
  <2> QED BY <2>2, <2>3, <2>4, <2>5
<1>20. CASE UNCHANGED vars BY <1>20 DEF vars
<1> QED
  BY <1>1, <1>2, <1>3, <1>4, <1>5, <1>6, <1>7, <1>8, <1>9, <1>10, <1>11, <1>12, <1>13,
     <1>14, <1>15, <1>16, <1>17, <1>18, <1>19, <1>20 DEF Next

(* Where the worker is in the router decides what it holds, what it has    *)
(* sent and whether a refusal comes back to it, in every reachable state.  *)
THEOREM RequestInvariant == Spec => []RequestInv
BY InitInv, NextInv, PTL DEF Spec

(* However a request ends - answered, denied, rejected in SIEGE, over its  *)
(* budget - it has been answered when the worker turns to the next one,    *)
(* unless malloc had no room for a response's long headers, and twice only *)
(* when it was refused memory and filled the buffer.                       *)
THEOREM RequestsAnsweredOnce == Spec => []OneAnswer
<1>1. RequestInv => OneAnswer
  BY DEF RequestInv
<1> QED BY <1>1, RequestInvariant, PTL

(* The arena is never reset under a current lease, and the counter of      *)
(* active leases exceeds the leases held by exactly the lost ones.         *)
THEOREM LeasesEndWithTheirRequest == Spec => []NoLeaseAcrossReset
<1>1. RequestInv => NoLeaseAcrossReset
  BY DEF RequestInv, TypeOK, LeaseByPlace, CountedLeases, NoLeaseAcrossReset
<1> QED BY <1>1, RequestInvariant, PTL

(* No budget of a lease, however small, ends the process. *)
THEOREM BudgetsAreNotFatal == Spec => []BudgetNeverFatal
<1>1. RequestInv => BudgetNeverFatal
  BY DEF RequestInv
<1> QED BY <1>1, RequestInvariant, PTL

-----------------------------------------------------------------------------
(* The queries.  First the loops, as folds: what they go through. *)

(* Max is what its name says. *)
LEMMA MaxIsGreatest ==
  ASSUME NEW n \in Nat, NEW S \in SUBSET (0 .. n), S # {}
  PROVE  Max(S) \in S /\ \A y \in S : y <= Max(S)
<1> DEFINE T == {n - x : x \in S}
<1>1. T \in SUBSET Nat /\ T # {}
  <2>1. \A x \in S : x \in 0 .. n OBVIOUS
  <2>2. \A x \in 0 .. n : n - x \in Nat OBVIOUS
  <2> QED BY <2>1, <2>2
<1>2. PICK t \in T : \A u \in T : t <= u
  <2> HIDE DEF T
  <2> QED BY <1>1, LeastNumber
<1>3. PICK x \in S : t = n - x OBVIOUS
<1>4. \A y \in S : n - y \in T OBVIOUS
<1>5. \A y \in S : y <= x
  <2>1. \A y \in S : y \in Nat OBVIOUS
  <2> HIDE DEF T
  <2>2. \A y \in S : n - x <= n - y BY <1>2, <1>3, <1>4
  <2>3. n \in Nat /\ x \in Nat BY <2>1
  <2> QED BY ONLY <2>1, <2>2, <2>3
<1>6. \A y \in S : x >= y BY <1>3, <1>5
<1> QED BY <1>6 DEF Max

(* The greatest member of a segment. *)
LEMMA MaxOfSegment ==
  ASSUME NEW k \in Nat \ {0}
  PROVE  Max(1 .. k) = k /\ (1 .. k) \ {Max(1 .. k)} = 1 .. k - 1
<1>1. 1 .. k \in SUBSET (0 .. k) /\ k \in 1 .. k OBVIOUS
<1>2. Max(1 .. k) \in 1 .. k /\ k <= Max(1 .. k) BY <1>1, MaxIsGreatest
<1> QED BY <1>2

(* Without its greatest member a set of numbers is below it. *)
LEMMA WithoutMax ==
  ASSUME NEW m \in Nat, NEW S \in SUBSET (1 .. m), S # {}
  PROVE  Max(S) \in 1 .. m /\ S \ {Max(S)} \in SUBSET (1 .. m - 1)
<1> DEFINE x == Max(S)
<1>1. S \in SUBSET (0 .. m) OBVIOUS
<1>2. x \in S /\ \A y \in S : y <= x BY <1>1, MaxIsGreatest
<1> HIDE DEF x
<1>3. x \in 1 .. m BY <1>2
<1>4. ASSUME NEW y \in S, y # x PROVE y \in 1 .. m - 1
  <2>1. y \in 1 .. m /\ y <= x BY <1>2
  <2> QED BY <1>3, <1>4, <2>1
<1>5. S \ {x} \in SUBSET (1 .. m - 1) BY <1>4
<1> QED BY <1>3, <1>5 DEF x

(* f applies the steps of the members of a set to base, in their order. *)
Applies(f, base, step, n) ==
  f = [S \in SUBSET (1 .. n) |->
         IF S = {} THEN base ELSE step[Max(S)][f[S \ {Max(S)}]]]

(* There is such a function, within any set the steps stay in. *)
LEMMA AppliesExists ==
  ASSUME NEW A, NEW n \in Nat, NEW base \in A, NEW step \in [1 .. n -> [A -> A]]
  PROVE  \E f \in [SUBSET (1 .. n) -> A] : Applies(f, base, step, n)
<1> DEFINE Built(m) == \E f \in [SUBSET (1 .. m) -> A] : Applies(f, base, step, m)
           Bad == {m \in 0 .. n : ~Built(m)}
<1>0. \A m \in 0 .. n : m \in Nat /\ (m # 0 => m - 1 \in 0 .. n /\ m - 1 \in Nat) OBVIOUS
<1> HIDE DEF Built
<1>2. Bad = {}
  <2> SUFFICES ASSUME Bad # {} PROVE FALSE OBVIOUS
  <2>1. PICK m \in Bad : \A k \in Bad : m <= k
    <3>1. Bad \in SUBSET Nat OBVIOUS
    <3> HIDE DEF Bad
    <3> QED BY <3>1, LeastNumber
  <2>0. m \in 0 .. n /\ m \in Nat /\ ~Built(m) BY <1>0
  <2>2. CASE m = 0
    <3> DEFINE f == [S \in SUBSET (1 .. 0) |-> base]
    <3>1. \A S \in SUBSET (1 .. 0) : S = {} OBVIOUS
    <3>2. f \in [SUBSET (1 .. 0) -> A] /\ Applies(f, base, step, 0)
      BY <3>1 DEF Applies
    <3> HIDE DEF f
    <3> QED BY <3>2, <2>0, <2>2 DEF Built
  <2>3. CASE m # 0
    <3>1. m - 1 \in 0 .. n /\ m - 1 \in Nat /\ Built(m - 1)
      <4>1. m - 1 \in 0 .. n /\ m - 1 \in Nat BY <1>0, <2>0, <2>3
      <4>2. ~(m <= m - 1) BY <2>0
      <4> QED BY <2>1, <4>1, <4>2
    <3> HIDE DEF Bad
    <3>2. PICK f \in [SUBSET (1 .. m - 1) -> A] : Applies(f, base, step, m - 1)
      BY <3>1 DEF Built
    <3> DEFINE g == [S \in SUBSET (1 .. m) |->
                       IF S = {} THEN base ELSE step[Max(S)][f[S \ {Max(S)}]]]
    <3>3. \A S \in SUBSET (1 .. m - 1) : S \in SUBSET (1 .. m) BY <2>0, <3>1
    <3>4. ASSUME NEW S \in SUBSET (1 .. m), S # {}
          PROVE  S \ {Max(S)} \in SUBSET (1 .. m - 1) /\ Max(S) \in 1 .. n
      <4>1. Max(S) \in 1 .. m /\ S \ {Max(S)} \in SUBSET (1 .. m - 1) BY <2>0, <3>4, WithoutMax
      <4> QED BY <2>0, <4>1
    <3>5. g \in [SUBSET (1 .. m) -> A]
      <4>1. \A S \in SUBSET (1 .. m) : S # {} => step[Max(S)][f[S \ {Max(S)}]] \in A
        BY <3>4
      <4> QED BY <4>1
    <3>6. \A S \in SUBSET (1 .. m - 1) : g[S] = f[S]
      BY <3>2, <3>3 DEF Applies
    <3>7. \A S \in SUBSET (1 .. m) : S # {} => g[S \ {Max(S)}] = f[S \ {Max(S)}]
      BY <3>4, <3>6
    <3>8. g = [S \in SUBSET (1 .. m) |->
                 IF S = {} THEN base ELSE step[Max(S)][g[S \ {Max(S)}]]]
      BY ONLY <3>7
    <3>9. Applies(g, base, step, m) BY <3>8 DEF Applies
    <3> HIDE DEF g
    <3> QED BY <3>5, <3>9, <2>0 DEF Built
  <2> QED BY <2>2, <2>3
<1>3. n \in 0 .. n OBVIOUS
<1> QED BY <1>2, <1>3 DEF Built

(* On segments h applies the steps, as long as what it has is in A. *)
Advances(h, A, base, step, n) ==
  /\ h[{}] = base
  /\ \A k \in 1 .. n : h[1 .. k - 1] \in A => h[1 .. k] = step[k][h[1 .. k - 1]]

(* The steps lead from base through g to last. *)
Leads(g, base, step, n, last) ==
  g[0] = base /\ g[n] = last /\ \A k \in 1 .. n : g[k] = step[k][g[k - 1]]

(* What a fold computes, as the states it goes through. *)
LEMMA FoldGoes ==
  ASSUME NEW A, NEW n \in Nat, NEW base \in A, NEW step \in [1 .. n -> [A -> A]],
         NEW h, Advances(h, A, base, step, n)
  PROVE  \E g \in [0 .. n -> A] : Leads(g, base, step, n, h[1 .. n])
<1> DEFINE g == [k \in 0 .. n |-> h[1 .. k]]
           Bad == {k \in 0 .. n : g[k] \notin A}
<1>1. 1 .. 0 = {} OBVIOUS
<1>2. g[0] = base BY <1>1 DEF Advances
<1>3. \A k \in 1 .. n : k \in 0 .. n /\ k - 1 \in 0 .. n OBVIOUS
<1>4. \A k \in 1 .. n : g[k - 1] \in A => g[k] = step[k][g[k - 1]] BY <1>3 DEF Advances
<1> HIDE DEF g
<1>5. Bad = {}
  <2> SUFFICES ASSUME Bad # {} PROVE FALSE OBVIOUS
  <2>1. Bad \in SUBSET Nat OBVIOUS
  <2> HIDE DEF Bad
  <2>2. PICK k \in Bad : \A j \in Bad : k <= j BY <2>1, LeastNumber
  <2>3. k \in 0 .. n /\ g[k] \notin A BY DEF Bad
  <2>4. k # 0 BY <1>2, <2>3
  <2>5. k \in 1 .. n /\ k - 1 \in 0 .. n /\ ~(k <= k - 1) BY <2>3, <2>4
  <2>6. g[k - 1] \in A BY <2>2, <2>5 DEF Bad
  <2> QED BY <1>4, <2>3, <2>5, <2>6
<1>6. \A k \in 0 .. n : g[k] \in A BY <1>5
<1>7. g \in [0 .. n -> A] BY <1>6 DEF g
<1>8. \A k \in 1 .. n : g[k] = step[k][g[k - 1]] BY <1>3, <1>4, <1>6
<1>9. g[n] = h[1 .. n] BY DEF g
<1> QED BY <1>2, <1>7, <1>8, <1>9 DEF Leads

(* FlattenSeq, as the texts it goes through. *)
LEMMA FlattenGoes ==
  ASSUME NEW T, NEW seqs \in Seq(Seq(T))
  PROVE  \E g \in [0 .. Len(seqs) -> Seq(T)] :
           /\ g[0] = <<>> /\ g[Len(seqs)] = FlattenSeq(seqs)
           /\ \A k \in 1 .. Len(seqs) : g[k] = g[k - 1] \o seqs[k]
<1> DEFINE n == Len(seqs)
           A == Seq(T)
           step == [k \in 1 .. n |-> [a \in A |-> a \o seqs[k]]]
           flat(f) == f = [i \in 1 .. n |-> IF i = 1 THEN seqs[i] ELSE f[i - 1] \o seqs[i]]
<1>1. n \in Nat /\ <<>> \in A /\ \A k \in 1 .. n : seqs[k] \in A OBVIOUS
<1>2. step \in [1 .. n -> [A -> A]] BY <1>1
<1>3. \A a \in A : <<>> \o a = a BY ConcatEmptySeq
<1> HIDE DEF n, A
<1>4. PICK f \in [SUBSET (1 .. n) -> A] : Applies(f, <<>>, step, n)
  <2> HIDE DEF step
  <2> QED BY <1>1, <1>2, AppliesExists
<1>5. Advances(f, A, <<>>, step, n)
  <2>1. f[{}] = <<>> BY <1>4 DEF Applies
  <2>2. ASSUME NEW k \in 1 .. n PROVE f[1 .. k] = step[k][f[1 .. k - 1]]
    <3>1. 1 .. k \in SUBSET (1 .. n) /\ k \in 1 .. k BY <1>1
    <3>2. Max(1 .. k) = k /\ (1 .. k) \ {Max(1 .. k)} = 1 .. k - 1 BY <1>1, MaxOfSegment
    <3>3. f[1 .. k] = step[Max(1 .. k)][f[(1 .. k) \ {Max(1 .. k)}]] BY <1>4, <3>1 DEF Applies
    <3> QED BY <3>2, <3>3
  <2> QED BY <2>1, <2>2 DEF Advances
<1>6. PICK g \in [0 .. n -> A] : Leads(g, <<>>, step, n, f[1 .. n])
  <2> HIDE DEF step
  <2> QED BY <1>1, <1>2, <1>5, FoldGoes
<1>7. \A k \in 1 .. n : k - 1 \in 0 .. n /\ k \in 0 .. n /\ (k # 1 => k - 1 \in 1 .. n) BY <1>1
<1>8. \A k \in 1 .. n : g[k] = g[k - 1] \o seqs[k] BY <1>6, <1>7 DEF Leads
<1>0. 1 \in 1 .. n => g[1] = seqs[1] BY <1>1, <1>3, <1>6, <1>8 DEF Leads
<1>9. n = 0 => FlattenSeq(seqs) = <<>> BY DEF FlattenSeq, n
<1>10. n # 0 => FlattenSeq(seqs) = (CHOOSE fl : flat(fl))[n] BY DEF FlattenSeq, n
<1>11. flat([i \in 1 .. n |-> g[i]])
  <2> DEFINE fl == [i \in 1 .. n |-> g[i]]
  <2>1. \A i \in 1 .. n : fl[i] = IF i = 1 THEN seqs[i] ELSE fl[i - 1] \o seqs[i]
    <3> SUFFICES ASSUME NEW i \in 1 .. n
                 PROVE  fl[i] = IF i = 1 THEN seqs[i] ELSE fl[i - 1] \o seqs[i]
      OBVIOUS
    <3>1. CASE i = 1 BY <1>0, <3>1
    <3>2. CASE i # 1
      <4>1. i - 1 \in 1 .. n BY <1>7, <3>2
      <4>2. g[i] = g[i - 1] \o seqs[i] BY <1>8
      <4> QED BY <3>2, <4>1, <4>2
    <3> QED BY <3>1, <3>2
  <2> HIDE DEF fl
  <2>2. fl = [i \in 1 .. n |-> IF i = 1 THEN seqs[i] ELSE fl[i - 1] \o seqs[i]] BY <2>1 DEF fl
  <2> QED BY <2>2 DEF fl
<1> DEFINE u == CHOOSE fl : flat(fl)
<1>12. flat(u)
  <2> HIDE DEF flat
  <2> QED BY <1>11
<1>13. \A i \in 1 .. n : u[i] = IF i = 1 THEN seqs[i] ELSE u[i - 1] \o seqs[i] BY <1>12
<1>14. u = CHOOSE fl : flat(fl) OBVIOUS
<1> HIDE DEF u
<1> DEFINE Bad == {i \in 1 .. n : u[i] # g[i]}
<1>15. Bad = {}
  <2> SUFFICES ASSUME Bad # {} PROVE FALSE OBVIOUS
  <2>1. Bad \in SUBSET Nat OBVIOUS
  <2>2. PICK i \in Bad : \A j \in Bad : i <= j
    <3> HIDE DEF Bad
    <3> QED BY <2>1, LeastNumber
  <2>3. i \in 1 .. n /\ u[i] # g[i] OBVIOUS
  <2>4. i # 1 BY <1>0, <1>13, <2>3
  <2>5. i - 1 \in 1 .. n /\ ~(i <= i - 1) BY <1>1, <2>3, <2>4
  <2>6. u[i - 1] = g[i - 1] BY <2>2, <2>5
  <2> QED BY <1>8, <1>13, <2>3, <2>4, <2>6
<1>16. n # 0 => u[n] = g[n] BY <1>1, <1>15
<1>17. g[n] = FlattenSeq(seqs) BY <1>6, <1>9, <1>10, <1>14, <1>16 DEF Leads
<1> QED BY <1>6, <1>8, <1>17 DEF n, A, Leads

-----------------------------------------------------------------------------
(* Rows as JSON. *)

(* What a buffer holds, and where a loop that writes into it is. *)
Byte == Char \cup {"NUL"}

(* What the writers of rows make. *)
Written == Seq(Byte)

(* The state of such a writer: its text, and whether it has stopped. *)
Writing == [text : Written, stop : BOOLEAN]

(* The characters the functions write by themselves. *)
LEMMA Texts ==
  /\ {"u", "0", "1", "{", "}", "[", "]", ":", ",", "Q", "\\", "ctl"} \subseteq Char
  /\ "NUL" \notin Char
BY DbAssumption DEF Char

(* A text may be in a buffer. *)
LEMMA TextIsWritten == ASSUME NEW s \in Text PROVE s \in Written
<1>1. Char \subseteq Byte BY DEF Byte
<1> QED BY <1>1, SeqMonotonic DEF Text, Written

(* Literal sequences. *)
LEMMA Literals ==
  ASSUME NEW S, NEW a \in S, NEW b \in S, NEW c \in S, NEW d \in S
  PROVE  /\ <<a>> \in Seq(S) /\ Len(<<a>>) = 1 /\ <<a>>[1] = a
         /\ <<a, b>> \in Seq(S) /\ Len(<<a, b>>) = 2
         /\ <<a, b, c, c, c, d>> \in Seq(S) /\ Len(<<a, b, c, c, c, d>>) = 6
OBVIOUS

(* What stands before is not touched by what is appended. *)
LEMMA Concat ==
  ASSUME NEW S, NEW s \in Seq(S), NEW t \in Seq(S)
  PROVE  /\ s \o t \in Seq(S) /\ Len(s \o t) = Len(s) + Len(t)
         /\ Len(s) \in Nat /\ Len(t) \in Nat
         /\ \A i \in 1 .. Len(s) : (s \o t)[i] = s[i]
         /\ \A i \in 1 .. Len(t) : (s \o t)[Len(s) + i] = t[i]
<1>1. Len(s) \in Nat /\ Len(t) \in Nat OBVIOUS
<1>2. \A i \in 1 .. Len(s) + Len(t) : (s \o t)[i] = IF i <= Len(s) THEN s[i] ELSE t[i - Len(s)]
  BY ConcatProperties
<1>3. \A i \in 1 .. Len(s) : i \in 1 .. Len(s) + Len(t) /\ i <= Len(s) BY <1>1
<1>4. \A i \in 1 .. Len(t) : /\ Len(s) + i \in 1 .. Len(s) + Len(t) /\ ~(Len(s) + i <= Len(s))
                             /\ Len(s) + i - Len(s) = i
  BY <1>1
<1> QED BY <1>1, <1>2, <1>3, <1>4, ConcatProperties

(* An encoded character. *)
LEMMA EncodeIs ==
  ASSUME NEW c \in Char
  PROVE  Encode(c) \in Text /\ Len(Encode(c)) \in {1, 2, 6}
<1>1. CASE c \in {"Q", "\\"}
  <2>1. Encode(c) = <<"\\", c>> BY <1>1 DEF Encode
  <2>2. "\\" \in Char BY Texts
  <2> QED BY <2>1, <2>2, Literals DEF Text
<1>2. CASE c = "ctl"
  <2>1. Encode(c) = <<"\\", "u", "0", "0", "0", "1">> BY <1>2 DEF Encode
  <2>2. "\\" \in Char /\ "u" \in Char /\ "0" \in Char /\ "1" \in Char BY Texts
  <2> QED BY <2>1, <2>2, Literals DEF Text
<1>3. CASE c \notin {"Q", "\\", "ctl"}
  <2>1. Encode(c) = <<c>> BY <1>3 DEF Encode
  <2> QED BY <2>1, Literals DEF Text
<1> QED BY <1>1, <1>2, <1>3

(* A buffer is written on: what was there stays, and the end is not passed *)
(* by what begins before it.                                               *)
Grows(t, u, end) ==
  /\ u \in Written /\ Len(t) <= Len(u)
  /\ Len(t) <= end => Len(u) <= end
  /\ \A i \in 1 .. Len(t) : u[i] = t[i]

(* ... and on. *)
LEMMA GrowsOn ==
  ASSUME NEW end \in Nat, NEW t \in Written, NEW u, NEW v, Grows(t, u, end), Grows(u, v, end)
  PROVE  Grows(t, v, end)
<1>1. u \in Written /\ v \in Written BY DEF Grows
<1>2. Len(t) \in Nat /\ Len(u) \in Nat /\ Len(v) \in Nat BY <1>1 DEF Written
<1>3. \A i \in 1 .. Len(t) : i \in 1 .. Len(u) BY <1>2 DEF Grows
<1> QED BY <1>1, <1>2, <1>3 DEF Grows

(* Nothing is written. *)
LEMMA GrowsNot == ASSUME NEW end \in Nat, NEW t \in Written PROVE Grows(t, t, end)
<1>1. Len(t) \in Nat BY DEF Written
<1> QED BY <1>1 DEF Grows

(* One byte before the end. *)
LEMMA GrowsByOne ==
  ASSUME NEW end \in Nat, NEW t \in Written, NEW x \in Byte, Len(t) < end
  PROVE  Grows(t, Append(t, x), end) /\ Len(Append(t, x)) = Len(t) + 1
<1>1. Len(t) \in Nat BY DEF Written
<1>2. /\ Append(t, x) \in Written /\ Len(Append(t, x)) = Len(t) + 1
      /\ \A i \in 1 .. Len(t) : Append(t, x)[i] = t[i]
  BY AppendProperties DEF Written
<1> QED BY <1>1, <1>2 DEF Grows

(* One character more: nothing is overwritten. *)
LEMMA PutIs ==
  ASSUME NEW text \in Written, NEW end \in Nat, NEW e \in Text, Len(e) \in {1, 2, 6}
  PROVE  /\ Put(text, end, e) \in Written /\ Len(Put(text, end, e)) = Len(text) + Len(e)
         /\ \A i \in 1 .. Len(text) : Put(text, end, e)[i] = text[i]
<1> DEFINE t == IF Len(e) = 6 /\ Len(text) + 6 = end THEN SubSeq(e, 1, 5) \o <<"NUL">> ELSE e
<1>0. e \in Written BY TextIsWritten
<1>1. t \in Written /\ Len(t) = Len(e)
  <2>1. CASE Len(e) = 6
    <3>0. \A i \in 1 .. Len(e) : e[i] \in Byte BY <1>0, ElementOfSeq DEF Written
    <3>1. \A i \in 1 .. 5 : e[i] \in Byte BY <2>1, <3>0
    <3>2. SubSeq(e, 1, 5) \in Written /\ Len(SubSeq(e, 1, 5)) = 5 BY <3>1, SubSeqProperties DEF Written
    <3>3. <<"NUL">> \in Written /\ Len(<<"NUL">>) = 1
      <4>1. "NUL" \in Byte BY DEF Byte
      <4> QED BY <4>1, Literals DEF Written
    <3>4. SubSeq(e, 1, 5) \o <<"NUL">> \in Written /\ Len(SubSeq(e, 1, 5) \o <<"NUL">>) = 6
      BY <3>2, <3>3, Concat DEF Written
    <3> QED BY <1>0, <2>1, <3>4
  <2>2. CASE Len(e) # 6 BY <1>0, <2>2
  <2> QED BY <2>1, <2>2
<1>2. Put(text, end, e) = text \o t BY DEF Put
<1> HIDE DEF t
<1>3. /\ text \o t \in Written /\ Len(text \o t) = Len(text) + Len(t)
      /\ \A i \in 1 .. Len(text) : (text \o t)[i] = text[i]
  <2>1. text \in Seq(Byte) /\ t \in Seq(Byte) BY <1>1 DEF Written
  <2>2. text \o t \in Written BY <2>1, Concat DEF Written
  <2> QED BY <2>1, <2>2, Concat
<1> QED BY <1>1, <1>2, <1>3

(* One step of the loop stays within the end. *)
LEMMA PutCharIs ==
  ASSUME NEW end \in Nat, NEW a \in Writing, NEW c \in Char
  PROVE  PutChar(end, a, c) \in Writing /\ Grows(a.text, PutChar(end, a, c).text, end)
<1> DEFINE e == Encode(c)
           p == Put(a.text, end, e)
<1>1. e \in Text /\ Len(e) \in {1, 2, 6} BY EncodeIs
<1>2. a.text \in Written /\ a.stop \in BOOLEAN /\ Len(a.text) \in Nat BY DEF Writing, Written
<1> HIDE DEF e
<1>3. /\ p \in Written /\ Len(p) = Len(a.text) + Len(e)
      /\ \A i \in 1 .. Len(a.text) : p[i] = a.text[i]
  BY <1>1, <1>2, PutIs
<1> HIDE DEF p
<1>4. CASE a.stop \/ Len(a.text) + Len(e) > end
  <2>1. PutChar(end, a, c) = [a EXCEPT !.stop = TRUE] BY <1>4 DEF PutChar, e
  <2>2. [a EXCEPT !.stop = TRUE] \in Writing /\ [a EXCEPT !.stop = TRUE].text = a.text BY DEF Writing
  <2> QED BY <1>2, <2>1, <2>2, GrowsNot
<1>5. CASE ~(a.stop \/ Len(a.text) + Len(e) > end)
  <2>1. PutChar(end, a, c) = [a EXCEPT !.text = p] BY <1>5 DEF PutChar, e, p
  <2>2. [a EXCEPT !.text = p] \in Writing /\ [a EXCEPT !.text = p].text = p BY <1>3 DEF Writing
  <2>3. Len(p) <= end /\ Len(a.text) <= Len(p) BY <1>1, <1>2, <1>3, <1>5
  <2>4. Grows(a.text, p, end) BY <1>3, <2>3 DEF Grows
  <2> QED BY <2>1, <2>2, <2>4
<1> QED BY <1>4, <1>5

(* The characters of s one by one, from base. *)
Escapes(g, end, base, s) ==
  /\ g \in [0 .. Len(s) -> Writing] /\ g[0] = base
  /\ \A k \in 1 .. Len(s) : g[k] = PutChar(end, g[k - 1], s[k])

(* What the loop of AppendEscaped goes through. *)
LEMMA EscapeGoes ==
  ASSUME NEW end \in Nat, NEW base \in Writing, NEW s \in Text
  PROVE  \E g : /\ Escapes(g, end, base, s)
                /\ FoldLeft(LAMBDA acc, c : PutChar(end, acc, c), base, s) = g[Len(s)]
<1> DEFINE n == Len(s)
           step == [k \in 1 .. n |-> [a \in Writing |-> PutChar(end, a, s[k])]]
           P(h) == h = [S \in SUBSET (1 .. n) |->
                          IF S = {} THEN base ELSE PutChar(end, h[S \ {Max(S)}], s[Max(S)])]
           iter == CHOOSE h : P(h)
<1>1. n \in Nat /\ DOMAIN s = 1 .. n /\ \A k \in 1 .. n : s[k] \in Char BY DEF Text
<1>2. step \in [1 .. n -> [Writing -> Writing]] BY <1>1, PutCharIs
<1>3. FoldLeft(LAMBDA acc, c : PutChar(end, acc, c), base, s) = iter[1 .. n]
  BY <1>1 DEF FoldLeft, MapThenFoldSet
<1> HIDE DEF n
<1>4. PICK f \in [SUBSET (1 .. n) -> Writing] : Applies(f, base, step, n)
  <2> HIDE DEF step
  <2> QED BY <1>1, <1>2, AppliesExists
<1>5. P(f)
  <2>1. ASSUME NEW S \in SUBSET (1 .. n), S # {}
        PROVE  step[Max(S)][f[S \ {Max(S)}]] = PutChar(end, f[S \ {Max(S)}], s[Max(S)])
    <3>1. Max(S) \in 1 .. n /\ S \ {Max(S)} \in SUBSET (1 .. n) BY <1>1, <2>1, WithoutMax
    <3>2. f[S \ {Max(S)}] \in Writing BY <3>1
    <3> QED BY <3>1, <3>2
  <2> HIDE DEF step
  <2> QED BY <1>4, <2>1 DEF Applies
<1>6. P(iter)
  <2> HIDE DEF P
  <2> QED BY <1>5
<1> HIDE DEF iter
<1>7. Advances(iter, Writing, base, step, n)
  <2>1. iter[{}] = base BY <1>6
  <2>2. ASSUME NEW k \in 1 .. n, iter[1 .. k - 1] \in Writing
        PROVE  iter[1 .. k] = step[k][iter[1 .. k - 1]]
    <3>1. 1 .. k \in SUBSET (1 .. n) /\ k \in 1 .. k BY <1>1
    <3>2. Max(1 .. k) = k /\ (1 .. k) \ {Max(1 .. k)} = 1 .. k - 1 BY <1>1, MaxOfSegment
    <3>3. iter[1 .. k] = PutChar(end, iter[(1 .. k) \ {Max(1 .. k)}], s[Max(1 .. k)])
      BY <1>6, <3>1
    <3> QED BY <2>2, <3>2, <3>3
  <2> QED BY <2>1, <2>2 DEF Advances
<1>8. PICK g \in [0 .. n -> Writing] : Leads(g, base, step, n, iter[1 .. n])
  <2> HIDE DEF step
  <2> QED BY <1>1, <1>2, <1>7, FoldGoes
<1>9. \A k \in 1 .. n : g[k] = PutChar(end, g[k - 1], s[k])
  <2>1. \A k \in 1 .. n : k - 1 \in 0 .. n BY <1>1
  <2> QED BY <1>8, <2>1 DEF Leads
<1>10. Escapes(g, end, base, s) /\ iter[1 .. n] = g[n] BY <1>8, <1>9 DEF Escapes, Leads, n
<1> QED BY <1>3, <1>10 DEF n

(* The loop over the characters stays within the end. *)
LEMMA EscapesGrow ==
  ASSUME NEW end \in Nat, NEW base \in Writing, NEW s \in Text, NEW g, Escapes(g, end, base, s)
  PROVE  \A k \in 0 .. Len(s) : Grows(base.text, g[k].text, end)
<1> DEFINE Bad == {k \in 0 .. Len(s) : ~Grows(base.text, g[k].text, end)}
<1>1. Len(s) \in Nat BY DEF Text
<1>2. \A a \in Writing : a.text \in Written BY DEF Writing
<1>3. Grows(base.text, g[0].text, end) BY <1>2, GrowsNot DEF Escapes
<1> SUFFICES ASSUME Bad # {} PROVE FALSE OBVIOUS
<1>4. Bad \in SUBSET Nat BY <1>1
<1>5. PICK k \in Bad : \A j \in Bad : k <= j
  <2> HIDE DEF Bad
  <2> QED BY <1>4, LeastNumber
<1>6. k \in 0 .. Len(s) /\ ~Grows(base.text, g[k].text, end) /\ k # 0 BY <1>3
<1>7. k - 1 \in 0 .. Len(s) /\ k \in 1 .. Len(s) /\ ~(k <= k - 1) BY <1>1, <1>6
<1>8. Grows(base.text, g[k - 1].text, end) BY <1>5, <1>7
<1>9. s[k] \in Char /\ g[k - 1] \in Writing /\ g[k] = PutChar(end, g[k - 1], s[k])
  <2>1. s[k] \in Char BY <1>7, ElementOfSeq DEF Text
  <2> QED BY <1>7, <2>1 DEF Escapes
<1>10. Grows(g[k - 1].text, g[k].text, end) BY <1>9, PutCharIs
<1> QED BY <1>2, <1>6, <1>8, <1>10, GrowsOn

(* orbit_db_append_json_escaped does not write at or after the end, and    *)
(* what was written before stays.                                          *)
LEMMA AppendEscapedIs ==
  ASSUME NEW end \in Nat, NEW text \in Written, NEW s \in Text
  PROVE  Grows(text, AppendEscaped(text, end, s), end)
<1> DEFINE base == [text |-> Append(text, "Q"), stop |-> FALSE]
           w == FoldLeft(LAMBDA acc, c : PutChar(end, acc, c), base, s)
           r == AppendEscaped(text, end, s)
<1>1. "Q" \in Byte BY Texts DEF Byte
<1>2. Append(text, "Q") \in Written BY <1>1, AppendProperties DEF Written
<1>3. base \in Writing /\ base.text = Append(text, "Q") BY <1>2 DEF Writing
<1>4. r = IF Len(text) >= end THEN text
          ELSE IF Len(w.text) < end THEN Append(w.text, "Q") ELSE w.text
  BY DEF AppendEscaped
<1> HIDE DEF base, w, r
<1>5. PICK g : Escapes(g, end, base, s) /\ w = g[Len(s)] BY <1>3, EscapeGoes DEF w
<1>6. CASE Len(text) >= end BY <1>4, <1>6, GrowsNot DEF r
<1>7. CASE ~(Len(text) >= end)
  <2>1. Grows(text, base.text, end)
    <3>1. Len(text) < end
      <4>1. Len(text) \in Nat BY DEF Written
      <4> QED BY <1>7, <4>1
    <3> QED BY <1>1, <1>3, <3>1, GrowsByOne
  <2>2. Len(s) \in 0 .. Len(s) BY DEF Text
  <2>3. Grows(base.text, w.text, end) BY <1>3, <1>5, <2>2, EscapesGrow
  <2>4. Grows(text, w.text, end) BY <2>1, <2>3, GrowsOn
  <2>5. w.text \in Written BY <2>3 DEF Grows
  <2>6. CASE Len(w.text) < end
    <3>1. Grows(w.text, Append(w.text, "Q"), end) BY <1>1, <2>5, <2>6, GrowsByOne
    <3> QED BY <1>4, <1>7, <2>4, <2>6, <3>1, GrowsOn DEF r
  <2>7. CASE ~(Len(w.text) < end) BY <1>4, <1>7, <2>4, <2>7 DEF r
  <2> QED BY <2>6, <2>7
<1> QED BY <1>6, <1>7

-----------------------------------------------------------------------------
(* A row of the table. *)
FullRow == [Columns -> Text]

(* The columns are 1 to some number, from the key on. *)
LEMMA ColumnsAre ==
  /\ Len(Names) \in Nat /\ Columns = 1 .. Len(Names) /\ 1 \in Columns
  /\ \A i \in Columns : Names[i] \in Text
<1>1. Names \in Seq(Text) /\ Names # <<>> BY DbAssumption
<1>2. Len(Names) \in Nat /\ Len(Names) # 0 BY <1>1, EmptySeq
<1> QED BY <1>1, <1>2, ElementOfSeq DEF Columns

(* One column more stays within the end. *)
LEMMA PutColumnIs ==
  ASSUME NEW end \in Nat, NEW row \in FullRow, NEW a \in Writing, NEW i \in Columns
  PROVE  PutColumn(row, end, a, i) \in Writing /\ Grows(a.text, PutColumn(row, end, a, i).text, end)
<1> DEFINE sep == IF i > 1 THEN Append(a.text, ",") ELSE a.text
           named == AppendEscaped(sep, end, Names[i])
           value == AppendEscaped(Append(named, ":"), end, row[i])
           r == PutColumn(row, end, a, i)
<1>1. a.text \in Written BY DEF Writing
<1>2. "," \in Byte /\ ":" \in Byte BY Texts DEF Byte
<1>3. Names[i] \in Text /\ row[i] \in Text BY ColumnsAre DEF FullRow
<1>4. r = IF a.stop \/ Len(a.text) >= end THEN [a EXCEPT !.stop = TRUE]
          ELSE IF Len(sep) >= end THEN [text |-> sep, stop |-> TRUE]
          ELSE IF Len(named) + 1 >= end THEN [text |-> named, stop |-> TRUE]
          ELSE [text |-> value, stop |-> FALSE]
  BY DEF PutColumn
<1>5. \A t : Len(t) \in Nat /\ ~(Len(t) >= end) => Len(t) < end OBVIOUS
<1>6. \A t \in Written : Len(t) \in Nat BY DEF Written
<1> HIDE DEF r
<1>7. CASE a.stop \/ Len(a.text) >= end
  <2>1. r = [a EXCEPT !.stop = TRUE] BY <1>4, <1>7
  <2>2. r \in Writing /\ r.text = a.text BY <2>1 DEF Writing
  <2> QED BY <1>1, <2>2, GrowsNot DEF r
<1>8. CASE ~(a.stop \/ Len(a.text) >= end)
  <2>1. Grows(a.text, sep, end)
    <3>1. Len(a.text) < end BY <1>1, <1>5, <1>6, <1>8
    <3> QED BY <1>1, <1>2, <3>1, GrowsByOne, GrowsNot
  <2>2. sep \in Written BY <2>1 DEF Grows
  <2> HIDE DEF sep
  <2>3. Grows(sep, named, end) BY <1>3, <2>2, AppendEscapedIs
  <2>4. Grows(a.text, named, end) BY <1>1, <2>1, <2>3, GrowsOn
  <2>5. named \in Written BY <2>4 DEF Grows
  <2> HIDE DEF named
  <2>6. CASE Len(sep) >= end
    <3>1. r = [text |-> sep, stop |-> TRUE] BY <1>4, <1>8, <2>6
    <3>2. r \in Writing /\ r.text = sep BY <2>2, <3>1 DEF Writing
    <3> QED BY <2>1, <3>2 DEF r
  <2>7. CASE ~(Len(sep) >= end) /\ Len(named) + 1 >= end
    <3>1. r = [text |-> named, stop |-> TRUE] BY <1>4, <1>8, <2>7
    <3>2. r \in Writing /\ r.text = named BY <2>5, <3>1 DEF Writing
    <3> QED BY <2>4, <3>2 DEF r
  <2>8. CASE ~(Len(sep) >= end) /\ ~(Len(named) + 1 >= end)
    <3>1. r = [text |-> value, stop |-> FALSE] BY <1>4, <1>8, <2>8
    <3>2. Len(named) < end
      <4>1. Len(named) \in Nat BY <1>6, <2>5
      <4> QED BY <2>8, <4>1
    <3>3. Grows(named, Append(named, ":"), end) BY <1>2, <2>5, <3>2, GrowsByOne
    <3>4. Append(named, ":") \in Written BY <3>3 DEF Grows
    <3>5. Grows(Append(named, ":"), value, end) BY <1>3, <3>4, AppendEscapedIs
    <3> HIDE DEF value
    <3>6. Grows(named, value, end) BY <2>5, <3>3, <3>5, GrowsOn
    <3>7. Grows(a.text, value, end) BY <1>1, <2>4, <3>6, GrowsOn
    <3>8. r \in Writing /\ r.text = value
      <4>1. value \in Written BY <3>7 DEF Grows
      <4> QED BY <3>1, <4>1 DEF Writing
    <3> QED BY <3>7, <3>8 DEF r
  <2> QED BY <2>6, <2>7, <2>8
<1> QED BY <1>7, <1>8

(* The columns of a row one by one, from base. *)
Lists(g, end, base, row) ==
  /\ g \in [0 .. Len(Names) -> Writing] /\ g[0] = base
  /\ \A k \in 1 .. Len(Names) : g[k] = PutColumn(row, end, g[k - 1], k)

(* What the loop of orbit_db_row_to_json goes through. *)
LEMMA ListGoes ==
  ASSUME NEW end \in Nat, NEW base \in Writing, NEW row \in FullRow
  PROVE  \E g : /\ Lists(g, end, base, row)
                /\ FoldLeft(LAMBDA acc, i : PutColumn(row, end, acc, i), base, [i \in Columns |-> i])
                     = g[Len(Names)]
<1> DEFINE n == Len(Names)
           step == [k \in 1 .. n |-> [a \in Writing |-> PutColumn(row, end, a, k)]]
           s == [i \in Columns |-> i]
           P(h) == h = [S \in SUBSET (1 .. n) |->
                          IF S = {} THEN base ELSE PutColumn(row, end, h[S \ {Max(S)}], s[Max(S)])]
           iter == CHOOSE h : P(h)
<1>1. n \in Nat /\ DOMAIN s = 1 .. n /\ Columns = 1 .. n /\ \A k \in 1 .. n : s[k] = k BY ColumnsAre
<1>2. step \in [1 .. n -> [Writing -> Writing]] BY <1>1, PutColumnIs
<1>3. FoldLeft(LAMBDA acc, i : PutColumn(row, end, acc, i), base, s) = iter[1 .. n]
  <2> HIDE DEF s
  <2> QED BY <1>1 DEF FoldLeft, MapThenFoldSet
<1> HIDE DEF n, s
<1>4. PICK f \in [SUBSET (1 .. n) -> Writing] : Applies(f, base, step, n)
  <2> HIDE DEF step
  <2> QED BY <1>1, <1>2, AppliesExists
<1>5. P(f)
  <2>1. ASSUME NEW S \in SUBSET (1 .. n), S # {}
        PROVE  step[Max(S)][f[S \ {Max(S)}]] = PutColumn(row, end, f[S \ {Max(S)}], s[Max(S)])
    <3>1. Max(S) \in 1 .. n /\ S \ {Max(S)} \in SUBSET (1 .. n) BY <1>1, <2>1, WithoutMax
    <3>2. f[S \ {Max(S)}] \in Writing BY <3>1
    <3> QED BY <1>1, <3>1, <3>2
  <2> HIDE DEF step
  <2> QED BY <1>4, <2>1 DEF Applies
<1>6. P(iter)
  <2> HIDE DEF P
  <2> QED BY <1>5
<1> HIDE DEF iter
<1>7. Advances(iter, Writing, base, step, n)
  <2>1. iter[{}] = base BY <1>6
  <2>2. ASSUME NEW k \in 1 .. n, iter[1 .. k - 1] \in Writing
        PROVE  iter[1 .. k] = step[k][iter[1 .. k - 1]]
    <3>1. 1 .. k \in SUBSET (1 .. n) /\ k \in 1 .. k BY <1>1
    <3>2. Max(1 .. k) = k /\ (1 .. k) \ {Max(1 .. k)} = 1 .. k - 1 BY <1>1, MaxOfSegment
    <3>3. iter[1 .. k] = PutColumn(row, end, iter[(1 .. k) \ {Max(1 .. k)}], s[Max(1 .. k)])
      BY <1>6, <3>1
    <3> QED BY <1>1, <2>2, <3>2, <3>3
  <2> QED BY <2>1, <2>2 DEF Advances
<1>8. PICK g \in [0 .. n -> Writing] : Leads(g, base, step, n, iter[1 .. n])
  <2> HIDE DEF step
  <2> QED BY <1>1, <1>2, <1>7, FoldGoes
<1>9. \A k \in 1 .. n : g[k] = PutColumn(row, end, g[k - 1], k)
  <2>1. \A k \in 1 .. n : k - 1 \in 0 .. n BY <1>1
  <2> QED BY <1>8, <2>1 DEF Leads
<1>10. Lists(g, end, base, row) /\ iter[1 .. n] = g[n] BY <1>8, <1>9 DEF Lists, Leads, n
<1> QED BY <1>3, <1>10 DEF n, s

(* The loop over the columns stays within the end. *)
LEMMA ListsGrow ==
  ASSUME NEW end \in Nat, NEW base \in Writing, NEW row \in FullRow, NEW g,
         Lists(g, end, base, row)
  PROVE  \A k \in 0 .. Len(Names) : Grows(base.text, g[k].text, end)
<1> DEFINE n == Len(Names)
           Bad == {k \in 0 .. n : ~Grows(base.text, g[k].text, end)}
<1>1. n \in Nat /\ Columns = 1 .. n BY ColumnsAre
<1> HIDE DEF n
<1>2. \A a \in Writing : a.text \in Written BY DEF Writing
<1>3. Grows(base.text, g[0].text, end) BY <1>2, GrowsNot DEF Lists
<1> SUFFICES ASSUME Bad # {} PROVE FALSE BY DEF n
<1>4. Bad \in SUBSET Nat BY <1>1
<1>5. PICK k \in Bad : \A j \in Bad : k <= j
  <2> HIDE DEF Bad
  <2> QED BY <1>4, LeastNumber
<1>6. k \in 0 .. n /\ ~Grows(base.text, g[k].text, end) /\ k # 0 BY <1>3
<1>7. k - 1 \in 0 .. n /\ k \in 1 .. n /\ ~(k <= k - 1) BY <1>1, <1>6
<1>8. Grows(base.text, g[k - 1].text, end) BY <1>5, <1>7
<1>9. g[k - 1] \in Writing /\ g[k] = PutColumn(row, end, g[k - 1], k) BY <1>7 DEF Lists, n
<1>10. Grows(g[k - 1].text, g[k].text, end) BY <1>1, <1>7, <1>9, PutColumnIs
<1> QED BY <1>2, <1>6, <1>8, <1>10, GrowsOn

(* orbit_db_row_to_json leaves two bytes of the room it is given. *)
LEMMA RowToJsonIs ==
  ASSUME NEW row \in FullRow, NEW max \in Nat
  PROVE  /\ RowToJson(row, max) \in Written /\ Len(RowToJson(row, max)) \in Nat
         /\ max < 3 => RowToJson(row, max) = <<>>
         /\ max >= 3 => /\ Len(RowToJson(row, max)) \in 1 .. max - 2
                        /\ RowToJson(row, max)[1] = "{"
<1> DEFINE end == EndOf(max)
           base == [text |-> <<"{">>, stop |-> FALSE]
           w == FoldLeft(LAMBDA acc, i : PutColumn(row, end, acc, i), base, [i \in Columns |-> i])
           r == RowToJson(row, max)
<1>1. r = IF max < 3 THEN <<>> ELSE IF Len(w.text) < end THEN Append(w.text, "}") ELSE w.text
  BY DEF RowToJson
<1>2. "{" \in Byte /\ "}" \in Byte BY Texts DEF Byte
<1>3. <<"{">> \in Written /\ Len(<<"{">>) = 1 /\ <<"{">>[1] = "{" BY <1>2, Literals DEF Written
<1>4. base \in Writing /\ base.text = <<"{">> BY <1>3 DEF Writing
<1> HIDE DEF base, r
<1>5. CASE max < 3
  <2>1. r = <<>> BY <1>1, <1>5
  <2>2. <<>> \in Written /\ Len(<<>>) = 0 BY EmptySeq DEF Written
  <2> QED BY <1>5, <2>1, <2>2 DEF r
<1>6. CASE ~(max < 3)
  <2>1. end \in Nat /\ 1 <= end /\ end = max - 2 BY <1>6 DEF EndOf
  <2> HIDE DEF end
  <2>2. PICK g : Lists(g, end, base, row) /\ w = g[Len(Names)] BY <1>4, <2>1, ListGoes
  <2> HIDE DEF w
  <2>3. Grows(base.text, w.text, end)
    <3>1. Len(Names) \in 0 .. Len(Names) BY ColumnsAre
    <3> QED BY <1>4, <2>1, <2>2, <3>1, ListsGrow
  <2>4. Grows(base.text, r, end)
    <3>1. w.text \in Written BY <2>3 DEF Grows
    <3>2. CASE Len(w.text) < end
      <4>1. Grows(w.text, Append(w.text, "}"), end) BY <1>2, <2>1, <3>1, <3>2, GrowsByOne
      <4>2. r = Append(w.text, "}") BY <1>1, <1>6, <3>2
      <4>3. base.text \in Written BY <1>3, <1>4
      <4> QED BY <2>1, <2>3, <4>1, <4>2, <4>3, GrowsOn
    <3>3. CASE ~(Len(w.text) < end)
      <4>1. r = w.text BY <1>1, <1>6, <3>3
      <4> QED BY <2>3, <4>1
    <3> QED BY <3>2, <3>3
  <2>5. r \in Written /\ Len(r) \in Nat BY <2>4 DEF Grows, Written
  <2> DEFINE b == base.text
  <2>0. b = <<"{">> BY <1>4
  <2>6. Len(b) = 1 /\ b[1] = "{" /\ 1 \in 1 .. Len(b)
    <3>1. Len(b) = 1 /\ b[1] = "{" BY <1>3, <2>0
    <3>2. 1 \in 1 .. 1 OBVIOUS
    <3> HIDE DEF b
    <3> QED BY <3>1, <3>2
  <2> HIDE DEF b
  <2>7. Grows(b, r, end) BY <2>4 DEF b
  <2>8. 1 <= Len(r) /\ Len(r) <= end /\ r[1] = "{" BY <2>1, <2>6, <2>7 DEF Grows
  <2>9. Len(r) \in 1 .. max - 2
    <3> DEFINE n == Len(r)
    <3>1. n \in Nat /\ 1 <= n /\ n <= end BY <2>5, <2>8
    <3> HIDE DEF n
    <3>2. n \in 1 .. max - 2 BY <2>1, <3>1
    <3> QED BY <3>2 DEF n
  <2> QED BY <1>6, <2>5, <2>8, <2>9 DEF r
<1> QED BY <1>5, <1>6

-----------------------------------------------------------------------------
(* Payloads. *)

-----------------------------------------------------------------------------
(* A payload as text. *)

(* A function on 1 .. n is a sequence. *)
LEMMA SequenceIs ==
  ASSUME NEW S, NEW n \in Nat, NEW f \in [1 .. n -> S]
  PROVE  f \in Seq(S) /\ Len(f) = n
BY SeqDef

(* Flattened texts are a text. *)
LEMMA FlattenIs == ASSUME NEW T, NEW seqs \in Seq(Seq(T)) PROVE FlattenSeq(seqs) \in Seq(T)
<1>1. PICK g \in [0 .. Len(seqs) -> Seq(T)] : g[Len(seqs)] = FlattenSeq(seqs) BY FlattenGoes
<1>2. Len(seqs) \in 0 .. Len(seqs) OBVIOUS
<1> QED BY <1>1, <1>2

(* A quoted text. *)
LEMMA QuotedIs == ASSUME NEW s \in Text PROVE Quoted(s) \in Text
<1> DEFINE parts == [i \in 1 .. Len(s) |-> Encode(s[i])]
           q == <<"Q">>
<1>1. Len(s) \in Nat /\ \A i \in 1 .. Len(s) : Encode(s[i]) \in Text
  <2>1. \A i \in 1 .. Len(s) : s[i] \in Char BY ElementOfSeq DEF Text
  <2> QED BY <2>1, EncodeIs DEF Text
<1>2. parts \in Seq(Text)
  <2>1. parts \in [1 .. Len(s) -> Text] BY <1>1
  <2> HIDE DEF parts
  <2> QED BY <1>1, <2>1, SequenceIs
<1>3. q \in Text
  <2>1. "Q" \in Char BY Texts
  <2> QED BY <2>1, Literals DEF Text
<1>4. Quoted(s) = q \o FlattenSeq(parts) \o q BY DEF Quoted
<1> HIDE DEF parts, q
<1>5. FlattenSeq(parts) \in Text BY <1>2, FlattenIs DEF Text
<1>6. q \o FlattenSeq(parts) \in Text BY <1>3, <1>5, Concat DEF Text
<1>7. (q \o FlattenSeq(parts)) \o q \in Text BY <1>3, <1>6, Concat DEF Text
<1> QED BY <1>4, <1>7

(* Texts with commas between them. *)
LEMMA JoinedIs == ASSUME NEW parts \in Seq(Text) PROVE Joined(parts) \in Text
<1> DEFINE n == Len(parts)
           comma == <<",">>
           seqs == [i \in 1 .. n |-> IF i > 1 THEN comma \o parts[i] ELSE parts[i]]
<1>1. n \in Nat /\ \A i \in 1 .. n : parts[i] \in Text BY ElementOfSeq
<1>2. comma \in Text
  <2>1. "," \in Char BY Texts
  <2> QED BY <2>1, Literals DEF Text
<1>3. Joined(parts) = FlattenSeq(seqs) BY DEF Joined
<1> HIDE DEF n, comma
<1>4. \A i \in 1 .. n : comma \o parts[i] \in Text BY <1>1, <1>2, Concat DEF Text
<1>5. seqs \in [1 .. n -> Text] BY <1>1, <1>4
<1> HIDE DEF seqs
<1>6. seqs \in Seq(Text) BY <1>1, <1>5, SequenceIs
<1>7. FlattenSeq(seqs) \in Text BY <1>6, FlattenIs DEF Text
<1> QED BY <1>3, <1>7

(* A payload. *)
LEMMA JsonIs == ASSUME NEW fields \in Seq([name : Text, text : Text]) PROVE Json(fields) \in Text
<1> DEFINE n == Len(fields)
           colon == <<":">>
           open == <<"{">>
           close == <<"}">>
           part(i) == Quoted(fields[i].name) \o colon \o Quoted(fields[i].text)
           parts == [i \in 1 .. n |-> part(i)]
<1>1. n \in Nat /\ \A i \in 1 .. n : fields[i].name \in Text /\ fields[i].text \in Text
  <2>1. n \in Nat OBVIOUS
  <2>2. \A i \in 1 .. n : fields[i] \in [name : Text, text : Text] BY ElementOfSeq
  <2> QED BY <2>1, <2>2
<1>2. colon \in Text /\ open \in Text /\ close \in Text
  <2>1. ":" \in Char /\ "{" \in Char /\ "}" \in Char BY Texts
  <2> QED BY <2>1, Literals DEF Text
<1>3. Json(fields) = open \o Joined(parts) \o close BY DEF Json
<1> HIDE DEF n, colon, open, close
<1>4. ASSUME NEW i \in 1 .. n PROVE part(i) \in Text
  <2> DEFINE a == Quoted(fields[i].name)
             b == Quoted(fields[i].text)
  <2>1. a \in Text /\ b \in Text BY <1>1, QuotedIs
  <2> HIDE DEF a, b
  <2>2. a \o colon \in Text BY <1>2, <2>1, Concat DEF Text
  <2>3. (a \o colon) \o b \in Text BY <2>1, <2>2, Concat DEF Text
  <2> QED BY <2>3 DEF a, b
<1> HIDE DEF part
<1>5. parts \in [1 .. n -> Text] BY <1>4
<1> HIDE DEF parts
<1>6. parts \in Seq(Text) BY <1>1, <1>5, SequenceIs
<1>7. Joined(parts) \in Text BY <1>6, JoinedIs
<1>8. open \o Joined(parts) \in Text BY <1>2, <1>7, Concat DEF Text
<1>9. (open \o Joined(parts)) \o close \in Text BY <1>2, <1>8, Concat DEF Text
<1> QED BY <1>3, <1>9

-----------------------------------------------------------------------------
(* Where the decoding of a text is. *)
Decoding == [text : Text, escape : BOOLEAN]

(* One character of it. *)
DecodeStep(acc, c) ==
  IF acc.escape THEN [text |-> acc.text \o Unescaped(c), escape |-> FALSE]
  ELSE IF c = "\\" THEN [acc EXCEPT !.escape = TRUE]
  ELSE [acc EXCEPT !.text = Append(@, c)]

(* It gives a text. *)
LEMMA DecodeStepIs ==
  ASSUME NEW a \in Decoding, NEW c \in Char
  PROVE  DecodeStep(a, c) \in Decoding
<1>1. a.text \in Text /\ a.escape \in BOOLEAN BY DEF Decoding
<1>2. Unescaped(c) \in Text
  <2>1. "\\" \in Char BY Texts
  <2>2. <<c>> \in Text /\ <<"\\", c>> \in Text BY <2>1, Literals DEF Text
  <2> QED BY <2>2 DEF Unescaped
<1>3. a.text \o Unescaped(c) \in Text BY <1>1, <1>2, Concat DEF Text
<1>4. Append(a.text, c) \in Text BY <1>1, AppendProperties DEF Text
<1>5. CASE a.escape
  <2>1. DecodeStep(a, c) = [text |-> a.text \o Unescaped(c), escape |-> FALSE] BY <1>5 DEF DecodeStep
  <2> QED BY <1>3, <2>1 DEF Decoding
<1>6. CASE ~a.escape /\ c = "\\"
  <2>1. DecodeStep(a, c) = [a EXCEPT !.escape = TRUE] BY <1>6 DEF DecodeStep
  <2> QED BY <2>1 DEF Decoding
<1>7. CASE ~a.escape /\ c # "\\"
  <2>1. DecodeStep(a, c) = [a EXCEPT !.text = Append(a.text, c)] BY <1>7 DEF DecodeStep
  <2> QED BY <1>4, <2>1 DEF Decoding
<1> QED BY <1>5, <1>6, <1>7

(* A decoded text is a text. *)
LEMMA DecodeIs == ASSUME NEW s \in Text PROVE Decode(s) \in Text
<1> DEFINE n == Len(s)
           base == [text |-> <<>>, escape |-> FALSE]
           step == [k \in 1 .. n |-> [a \in Decoding |-> DecodeStep(a, s[k])]]
           P(h) == h = [S \in SUBSET (1 .. n) |->
                          IF S = {} THEN base ELSE DecodeStep(h[S \ {Max(S)}], s[Max(S)])]
           iter == CHOOSE h : P(h)
<1>1. n \in Nat /\ DOMAIN s = 1 .. n /\ \A k \in 1 .. n : s[k] \in Char BY DEF Text
<1>0. base \in Decoding
  <2>1. <<>> \in Text BY EmptySeq DEF Text
  <2> QED BY <2>1 DEF Decoding
<1>2. step \in [1 .. n -> [Decoding -> Decoding]] BY <1>1, DecodeStepIs
<1>3. Decode(s) = iter[1 .. n].text
  BY <1>1 DEF Decode, FoldLeft, MapThenFoldSet, DecodeStep
<1> HIDE DEF n, base
<1>4. PICK f \in [SUBSET (1 .. n) -> Decoding] : Applies(f, base, step, n)
  <2> HIDE DEF step
  <2> QED BY <1>0, <1>1, <1>2, AppliesExists
<1>5. P(f)
  <2>1. ASSUME NEW S \in SUBSET (1 .. n), S # {}
        PROVE  step[Max(S)][f[S \ {Max(S)}]] = DecodeStep(f[S \ {Max(S)}], s[Max(S)])
    <3>1. Max(S) \in 1 .. n /\ S \ {Max(S)} \in SUBSET (1 .. n) BY <1>1, <2>1, WithoutMax
    <3>2. f[S \ {Max(S)}] \in Decoding BY <3>1
    <3> QED BY <3>1, <3>2
  <2> HIDE DEF step
  <2> QED BY <1>4, <2>1 DEF Applies
<1>6. P(iter)
  <2> HIDE DEF P
  <2> QED BY <1>5
<1> HIDE DEF iter
<1>7. Advances(iter, Decoding, base, step, n)
  <2>1. iter[{}] = base BY <1>6
  <2>2. ASSUME NEW k \in 1 .. n, iter[1 .. k - 1] \in Decoding
        PROVE  iter[1 .. k] = step[k][iter[1 .. k - 1]]
    <3>1. 1 .. k \in SUBSET (1 .. n) /\ k \in 1 .. k BY <1>1
    <3>2. Max(1 .. k) = k /\ (1 .. k) \ {Max(1 .. k)} = 1 .. k - 1 BY <1>1, MaxOfSegment
    <3>3. iter[1 .. k] = DecodeStep(iter[(1 .. k) \ {Max(1 .. k)}], s[Max(1 .. k)])
      BY <1>6, <3>1
    <3> QED BY <2>2, <3>2, <3>3
  <2> QED BY <2>1, <2>2 DEF Advances
<1>8. PICK g \in [0 .. n -> Decoding] : Leads(g, base, step, n, iter[1 .. n])
  <2> HIDE DEF step
  <2> QED BY <1>0, <1>1, <1>2, <1>7, FoldGoes
<1>9. iter[1 .. n] = g[n] /\ n \in 0 .. n BY <1>1, <1>8 DEF Leads
<1>10. iter[1 .. n] \in Decoding BY <1>9
<1> QED BY <1>3, <1>10 DEF Decoding

-----------------------------------------------------------------------------
(* Where a pattern stands is a number. *)
LEMMA StrstrIs ==
  ASSUME NEW s, Len(s) \in Nat, NEW pat, Len(pat) \in Nat
  PROVE  Strstr(s, pat) \in Nat
<1> DEFINE m == Len(s) + 1 - Len(pat)
           f == [i \in 1 .. m |-> SubSeq(s, i, i + Len(pat) - 1)]
           I == {i \in 1 .. m : f[i] = pat}
<1>1. Strstr(s, pat) = IF I # {} THEN Min(I) ELSE 0 BY DEF Strstr, SelectInSubSeq
<1>2. I \in SUBSET Nat OBVIOUS
<1> HIDE DEF I
<1>3. I # {} => Min(I) \in Nat BY <1>2, MinIsLeast
<1> QED BY <1>1, <1>3

(* orbit_json_get_value answers NULL or a text. *)
LEMMA GetValueIs ==
  ASSUME NEW json \in Text, NEW name \in Text, GetValue(json, name) # <<>>
  PROVE  GetValue(json, name)[1] \in Text
<1> DEFINE pat == <<"Q">> \o name \o <<"Q">>
           at == Strstr(json, pat)
           from == at + Len(name) + 2 + 2
           ends == ClosingQuotes(json, from)
           raw == SubSeq(json, from, Min(ends) - 1)
<1>1. Len(json) \in Nat /\ Len(name) \in Nat BY DEF Text
<1>2. at \in Nat
  <2>1. <<"Q">> \in Text
    <3>1. "Q" \in Char BY Texts
    <3> QED BY <3>1, Literals DEF Text
  <2>2. <<"Q">> \o name \in Text BY <2>1, Concat DEF Text
  <2>3. (<<"Q">> \o name) \o <<"Q">> \in Text BY <2>1, <2>2, Concat DEF Text
  <2>4. Len(pat) \in Nat BY <2>3 DEF Text
  <2> HIDE DEF pat
  <2> QED BY <1>1, <2>4, StrstrIs
<1>3. ends # {} /\ GetValue(json, name) = <<Decode(raw)>> BY DEF GetValue
<1> HIDE DEF at
<1>4. from \in Nat /\ from >= 1 BY <1>1, <1>2
<1> HIDE DEF from
<1>5. ends \in SUBSET (from .. Len(json)) /\ ends \in SUBSET Nat
  <2>1. ends \in SUBSET (from .. Len(json)) BY DEF ClosingQuotes
  <2>2. \A i \in from .. Len(json) : i \in Nat BY <1>1, <1>4
  <2> QED BY <2>1, <2>2
<1> HIDE DEF ends
<1>6. Min(ends) \in from .. Len(json) BY <1>3, <1>5, MinIsLeast
<1>7. \A i \in from .. Min(ends) - 1 : json[i] \in Char
  <2>1. \A i \in from .. Min(ends) - 1 : i \in 1 .. Len(json) BY <1>1, <1>4, <1>6
  <2> QED BY <2>1, ElementOfSeq DEF Text
<1>8. from \in Int /\ Min(ends) - 1 \in Int BY <1>1, <1>4, <1>6
<1>9. raw \in Text BY <1>7, <1>8, SubSeqProperties DEF Text
<1>10. Decode(raw) \in Text BY <1>9, DecodeIs
<1>11. <<Decode(raw)>>[1] = Decode(raw) OBVIOUS
<1> QED BY <1>3, <1>10, <1>11

(* A payload makes a row, and changes no key. *)
LEMMA RowIs ==
  ASSUME NEW fields \in Seq([name : Text, text : Text])
  PROVE  /\ Row(fields) \in FullRow
         /\ \A row \in FullRow : Updated(row, fields) \in FullRow /\ Updated(row, fields)[1] = row[1]
<1> DEFINE v(i) == GetValue(Json(fields), Names[i])
<1>1. \A i \in Columns : v(i) # <<>> => v(i)[1] \in Text
  <2>1. Json(fields) \in Text BY JsonIs
  <2>2. \A i \in Columns : Names[i] \in Text BY ColumnsAre
  <2> QED BY <2>1, <2>2, GetValueIs
<1>2. Row(fields) = [i \in Columns |-> IF v(i) = <<>> THEN <<>> ELSE v(i)[1]] BY DEF Row
<1>3. \A row : Updated(row, fields) = [i \in Columns |-> IF i = 1 \/ v(i) = <<>> THEN row[i] ELSE v(i)[1]]
  BY DEF Updated
<1>4. <<>> \in Text BY EmptySeq DEF Text
<1> HIDE DEF v
<1>5. Row(fields) \in FullRow BY <1>1, <1>2, <1>4 DEF FullRow
<1>6. ASSUME NEW row \in FullRow
      PROVE  Updated(row, fields) \in FullRow /\ Updated(row, fields)[1] = row[1]
  <2>1. \A i \in Columns : row[i] \in Text BY DEF FullRow
  <2>2. 1 \in Columns BY ColumnsAre
  <2> QED BY <1>1, <1>3, <2>1, <2>2 DEF FullRow
<1> QED BY <1>5, <1>6

(* A text that is not empty is cut no sooner than at its second byte. *)
LEMMA CStringIs ==
  ASSUME NEW text \in Written, Len(text) >= 1, text[1] # "NUL"
  PROVE  CString(text)[1] = text[1] /\ CString(text) # <<>>
<1> DEFINE n == Len(text)
           I == {i \in 1 .. n : text[i] = "NUL"}
           zero == IF I # {} THEN Min(I) ELSE 0
<1>1. CString(text) = IF zero = 0 THEN text ELSE SubSeq(text, 1, zero - 1)
  BY DEF CString, SelectInSeq
<1>2. n \in Nat /\ n >= 1 /\ \A i \in 1 .. n : text[i] \in Byte BY ElementOfSeq DEF Written
<1>3. I \in SUBSET Nat BY <1>2
<1>4. CASE I = {}
  <2>1. CString(text) = text BY <1>1, <1>4
  <2>2. text # <<>> BY <1>2, EmptySeq DEF Written
  <2> QED BY <2>1, <2>2
<1>5. CASE I # {}
  <2> DEFINE m == Min(I)
             t == SubSeq(text, 1, m - 1)
  <2>1. m \in I
    <3> HIDE DEF I
    <3> QED BY <1>3, <1>5, MinIsLeast
  <2>2. m \in 2 .. n BY <1>2, <2>1
  <2>3. CString(text) = t
    <3>1. zero = m BY <1>5
    <3>2. m # 0 BY <1>2, <2>2
    <3> HIDE DEF m, I, zero
    <3> QED BY <1>1, <3>1, <3>2
  <2> HIDE DEF m, I
  <2>4. /\ t \in Written /\ Len(t) = m - 1 /\ \A i \in 1 .. m - 1 : t[i] = text[i]
    <3>1. \A i \in 1 .. m - 1 : text[i] \in Byte BY <1>2, <2>2
    <3>2. m - 1 \in Int /\ 1 <= m - 1 /\ (m - 1) - 1 + 1 = m - 1 BY <1>2, <2>2
    <3>3. \A i \in 1 .. (m - 1) - 1 + 1 : t[i] = text[1 + i - 1] BY <3>1, <3>2, SubSeqProperties
    <3>4. \A i \in 1 .. m - 1 : 1 + i - 1 = i BY <3>2
    <3>5. t \in Written /\ Len(t) = m - 1 BY <3>1, <3>2, SubSeqProperties DEF Written
    <3> QED BY <3>2, <3>3, <3>4, <3>5
  <2>5. t[1] = text[1] /\ Len(t) # 0
    <3>1. 1 \in 1 .. m - 1 /\ m - 1 # 0 BY <1>2, <2>2
    <3> QED BY <2>4, <3>1
  <2>6. t # <<>>
    <3> HIDE DEF t
    <3> QED BY <2>5
  <2> QED BY <2>3, <2>5, <2>6
<1> QED BY <1>4, <1>5

-----------------------------------------------------------------------------
(* The inductive invariant of the queries. *)

(* A buffer of the arena. *)
Buffer == [text : Written, cap : Nat]

(* The kinds of things the variables hold: rows have all their columns. *)
DbTypes ==
  /\ table \in [RowIds -> {NoRow} \cup FullRow]
  /\ changes \in {0, 1}
  /\ dbPc \in [Workers -> {"idle", "run", "changes", "scan"}]
  /\ query \in [Workers -> Queries \cup {NoQuery}]
  /\ out \in [Workers -> Buffer]
  /\ cursor \in [Workers -> 0 .. MaxRows]
  /\ DOMAIN result = Workers
  /\ hit \in [Workers -> BOOLEAN] /\ raced \in [Workers -> BOOLEAN]

(* The key is a primary key: a statement for one changes a row at most. *)
KeysUnique == \A r, q \in Rows : table[r][1] = table[q][1] => r = q

(* A worker that is in no call has none. *)
CallsMatch == \A w \in Workers : dbPc[w] = "idle" <=> query[w] = NoQuery

(* What is in a buffer leaves room for the zero and, while a scan goes on, *)
(* for the bracket that closes the array; an array is as large as the      *)
(* reserve.                                                                *)
RoomLeft ==
  \A w \in Workers :
    /\ Len(out[w].text) + 1 <= out[w].cap
    /\ dbPc[w] = "scan" =>
         /\ Len(out[w].text) + 2 <= out[w].cap /\ Reserve <= out[w].cap
         /\ Len(out[w].text) >= 1 /\ out[w].text[1] = "["

(* A worker knows whether its statement changed a row: until it looks,     *)
(* from the connection, unless somebody else's write came; afterwards,     *)
(* from its answer.                                                        *)
AnswersTrue ==
  \A w \in Workers :
    /\ dbPc[w] = "run" => ~hit[w]
    /\ dbPc[w] = "changes" /\ ~raced[w] => (hit[w] <=> changes > 0)
    /\ dbPc[w] = "idle" /\ result[w] \in {<<"true">>, <<"false">>} /\ ~raced[w]
         => (result[w] = <<"true">> <=> hit[w])

(* The inductive invariant. *)
DbInductive == DbTypes /\ KeysUnique /\ CallsMatch /\ RoomLeft /\ AnswersTrue

(* A call is none of the idle worker's, and an add or a set has a payload. *)
LEMMA QueriesAre ==
  /\ NoQuery \notin Queries
  /\ \A q \in Queries : q.op \in {"add", "set", "get", "del", "all"}
  /\ \A q \in Queries : q.op \in {"add", "set"} => q.fields \in Seq([name : Text, text : Text])
<1>1. \A q \in Queries : q.op \in {"add", "set", "get", "del", "all"} BY DEF Queries
<1>2. NoQuery \notin Queries BY <1>1 DEF NoQuery
<1>3. \A q \in Queries : q.op \in {"add", "set"} => q.fields \in Payloads BY DEF Queries
<1> QED BY <1>1, <1>2, <1>3, DbAssumption

(* The rows there are have all their columns. *)
LEMMA RowsAre ==
  ASSUME DbTypes
  PROVE  /\ Rows \subseteq RowIds /\ \A r \in Rows : table[r] \in FullRow
         /\ \A r \in RowIds \ Rows : table[r] = NoRow
BY DEF DbTypes, Rows

(* A row with its columns is as long as their list, and is a row. *)
LEMMA FullRowIs ==
  ASSUME NEW row \in FullRow
  PROVE  row # NoRow /\ Len(row) = Len(Names)
<1>1. Len(row) = Len(Names) BY SequenceIs, ColumnsAre DEF FullRow
<1>2. Len(Names) # 0 BY ColumnsAre
<1>3. Len(NoRow) = 0 BY DEF NoRow
<1> QED BY <1>1, <1>2, <1>3

(* Row ids are numbers from 1. *)
LEMMA RowIdsAre == MaxRows \in Nat /\ RowIds = 1 .. MaxRows /\ RowIds \in SUBSET Nat
<1>1. MaxRows \in Nat BY DbAssumption
<1> QED BY <1>1 DEF RowIds

(* A statement for a key finds one row or none. *)
LEMMA OneOrNone ==
  ASSUME KeysUnique, NEW id
  PROVE  Cardinality(WithKey(id)) \in {0, 1}
<1>1. CASE WithKey(id) = {} BY <1>1, FS_EmptySet
<1>2. CASE WithKey(id) # {}
  <2>1. PICK r \in WithKey(id) : TRUE BY <1>2
  <2>2. WithKey(id) = {r} BY <2>1 DEF WithKey, KeysUnique
  <2> QED BY <2>2, FS_Singleton
<1> QED BY <1>1, <1>2

(* It holds before the first call. *)
LEMMA DbInitially == DbInit => DbInductive
<1> SUFFICES ASSUME DbInit PROVE DbInductive OBVIOUS
<1> USE DEF DbInit
<1>0. Len(Existing) \in Nat /\ \A r \in 1 .. Len(Existing) : Existing[r] \in FullRow
  <2>1. Existing \in Seq(FullRow) BY DbAssumption DEF FullRow, Columns
  <2> QED BY <2>1, ElementOfSeq
<1>1. table \in [RowIds -> {NoRow} \cup FullRow] BY <1>0, RowIdsAre
<1>2. out \in [Workers -> Buffer]
  <2>1. NoBuffer \in Buffer BY EmptySeq DEF NoBuffer, Buffer, Written
  <2> QED BY <2>1
<1>3. DbTypes BY <1>1, <1>2, RowIdsAre DEF DbTypes
<1>4. KeysUnique
  <2>1. \A r \in Rows : r \in 1 .. Len(Existing) /\ table[r] = Existing[r]
    BY <1>0, RowIdsAre DEF Rows
  <2> QED BY <2>1, DbAssumption DEF KeysUnique
<1>5. CallsMatch BY DEF CallsMatch
<1>6. RoomLeft BY EmptySeq DEF RoomLeft, NoBuffer
<1>7. AnswersTrue
  <2>1. \A w \in Workers : dbPc[w] = "idle" /\ result[w] = <<>> OBVIOUS
  <2>2. <<>> \notin {<<"true">>, <<"false">>} OBVIOUS
  <2> QED BY <2>1, <2>2 DEF AnswersTrue
<1> QED BY <1>3, <1>4, <1>5, <1>6, <1>7 DEF DbInductive

(* A row that was read, with a buffer that holds it. *)
ScanRead(w, b, r) ==
  /\ out' = [out EXCEPT ![w] = b] /\ cursor' = [cursor EXCEPT ![w] = r]
  /\ Len(b.text) + 2 <= b.cap /\ Reserve <= b.cap
  /\ Len(b.text) >= 1 /\ b.text[1] = "["

(* A byte more leaves the first one where it is. *)
LEMMA LongerByOne ==
  ASSUME NEW t \in Written, NEW x \in Byte, Len(t) >= 1
  PROVE  Append(t, x) \in Written /\ Len(Append(t, x)) = Len(t) + 1 /\ Append(t, x)[1] = t[1]
<1>1. t \in Seq(Byte) /\ Len(t) \in Nat BY DEF Written
<1>2. 1 \in 1 .. Len(t) BY <1>1
<1> QED BY <1>1, <1>2, AppendProperties DEF Written

(* A scan that reads a row leaves room for the closing bracket and the     *)
(* zero: the buffer is doubled in time, and the row is cut to what is      *)
(* left.                                                                   *)
LEMMA ScanRowIs ==
  ASSUME DbTypes, RoomLeft, NEW w \in Workers, ScanRow(w)
  PROVE  \E b \in Buffer, r \in RowIds : ScanRead(w, b, r)
<1> DEFINE r == Min(Ahead(w))
           old == out[w].text
           cap == Grown(out[w])
           before == IF seen[w] = <<>> THEN old ELSE Append(old, ",")
           room == cap - Len(before)
           row == RowToJson(table[r], room)
           b == [text |-> before \o row, cap |-> cap]
<1>1. r \in RowIds /\ table[r] \in FullRow
  <2>1. Ahead(w) \subseteq Rows /\ Ahead(w) # {} BY DEF Ahead, ScanRow
  <2>2. Ahead(w) \in SUBSET Nat BY <2>1, RowsAre, RowIdsAre
  <2>3. r \in Ahead(w) BY <2>1, <2>2, MinIsLeast
  <2> QED BY <2>1, <2>3, RowsAre
<1>2. /\ old \in Written /\ out[w].cap \in Nat /\ Len(old) \in Nat
      /\ Len(old) + 2 <= out[w].cap /\ Reserve <= out[w].cap /\ Len(old) >= 1 /\ old[1] = "["
  <2>1. out[w] \in Buffer BY DEF DbTypes
  <2>2. old \in Written /\ out[w].cap \in Nat BY <2>1 DEF Buffer
  <2>3. Len(old) \in Nat BY <2>2 DEF Written
  <2>4. dbPc[w] = "scan" BY DEF ScanRow
  <2> QED BY <2>2, <2>3, <2>4 DEF RoomLeft
<1>3. Reserve \in Nat /\ 3 <= Reserve BY DbAssumption
<1>4. cap \in Nat /\ Len(old) + Reserve <= cap /\ Reserve <= cap
  <2>1. cap = IF Len(old) + Reserve > out[w].cap THEN 2 * out[w].cap ELSE out[w].cap BY DEF Grown
  <2> HIDE DEF old, cap
  <2> QED BY <1>2, <1>3, <2>1
<1>5. /\ before \in Written /\ Len(before) \in Len(old) .. Len(old) + 1 /\ before[1] = "["
  <2>1. "," \in Byte BY Texts DEF Byte
  <2> HIDE DEF old
  <2>2. /\ Append(old, ",") \in Written /\ Len(Append(old, ",")) = Len(old) + 1
        /\ Append(old, ",")[1] = old[1]
    BY <1>2, <2>1, LongerByOne
  <2>3. CASE seen[w] = <<>> BY <1>2, <2>3
  <2>4. CASE seen[w] # <<>>
    <3>1. before = Append(old, ",") BY <2>4
    <3> HIDE DEF before
    <3>2. Len(old) + 1 \in Len(old) .. Len(old) + 1 BY <1>2
    <3> QED BY <1>2, <2>2, <3>1, <3>2
  <2> QED BY <2>3, <2>4
<1> HIDE DEF r, old, cap, before
<1>6. Len(before) \in Nat /\ room \in Nat /\ room >= 2 /\ Len(before) >= 1 /\ Len(before) + room = cap
  BY <1>2, <1>3, <1>4, <1>5
<1> HIDE DEF room
<1>7. /\ row \in Written /\ Len(row) \in Nat /\ Len(row) + 2 <= room
  <2>1. /\ row \in Written /\ Len(row) \in Nat
        /\ room < 3 => row = <<>>
        /\ room >= 3 => Len(row) \in 1 .. room - 2
    BY <1>1, <1>6, RowToJsonIs
  <2> HIDE DEF row
  <2>2. CASE room < 3
    <3>1. Len(row) = 0 BY <2>1, <2>2
    <3> QED BY <1>6, <2>1, <3>1
  <2>3. CASE room >= 3 BY <1>6, <2>1, <2>3
  <2> QED BY <1>6, <2>1, <2>2, <2>3
<1> HIDE DEF row
<1>8. /\ before \o row \in Written /\ Len(before \o row) = Len(before) + Len(row)
      /\ (before \o row)[1] = "["
  <2>1. 1 \in 1 .. Len(before) BY <1>6
  <2> QED BY <1>5, <1>7, <2>1, Concat DEF Written
<1>9. b \in Buffer /\ b.text = before \o row /\ b.cap = cap BY <1>4, <1>8 DEF Buffer
<1>10. out' = [out EXCEPT ![w] = b] /\ cursor' = [cursor EXCEPT ![w] = r]
  BY DEF ScanRow, r, old, cap, before, room, row
<1> HIDE DEF b
<1>11. Len(b.text) + 2 <= b.cap /\ Len(b.text) >= 1 BY <1>4, <1>6, <1>7, <1>8, <1>9
<1>12. ScanRead(w, b, r) BY <1>4, <1>8, <1>9, <1>10, <1>11 DEF ScanRead
<1> QED BY <1>1, <1>9, <1>12

(* The closing bracket fits, and what is returned begins with the first. *)
LEMMA ScanEndIs ==
  ASSUME DbTypes, RoomLeft, NEW w \in Workers, ScanEnd(w)
  PROVE  /\ [out[w] EXCEPT !.text = Append(@, "]")] \in Buffer
         /\ out'[w] = [out[w] EXCEPT !.text = Append(@, "]")]
         /\ Len(out'[w].text) + 1 <= out'[w].cap
         /\ CString(out'[w].text)[1] = "[" /\ CString(out'[w].text) # <<>>
<1> DEFINE old == out[w].text
           b == [out[w] EXCEPT !.text = Append(@, "]")]
<1>1. /\ out[w] \in Buffer /\ old \in Written /\ out[w].cap \in Nat /\ Len(old) \in Nat
      /\ Len(old) + 2 <= out[w].cap /\ Len(old) >= 1 /\ old[1] = "["
  <2>1. out[w] \in Buffer BY DEF DbTypes
  <2>2. old \in Written /\ out[w].cap \in Nat BY <2>1 DEF Buffer
  <2>3. Len(old) \in Nat BY <2>2 DEF Written
  <2>4. dbPc[w] = "scan" BY DEF ScanEnd
  <2> QED BY <2>1, <2>2, <2>3, <2>4 DEF RoomLeft
<1>2. /\ Append(old, "]") \in Written /\ Len(Append(old, "]")) = Len(old) + 1
      /\ Append(old, "]")[1] = "["
  <2>1. "]" \in Byte BY Texts DEF Byte
  <2> QED BY <1>1, <2>1, LongerByOne
<1>3. b \in Buffer /\ b.text = Append(old, "]") /\ b.cap = out[w].cap BY <1>1, <1>2 DEF Buffer
<1>4. out'[w] = b BY DEF ScanEnd, DbTypes
<1> HIDE DEF b, old
<1>5. Len(b.text) + 1 <= b.cap /\ Len(b.text) >= 1 BY <1>1, <1>2, <1>3
<1>6. b.text \in Written /\ b.text[1] = "[" BY <1>2, <1>3
<1>7. CString(b.text)[1] = "[" /\ CString(b.text) # <<>> BY <1>5, <1>6, CStringIs
<1> QED BY <1>3, <1>4, <1>5, <1>7 DEF b

(* What every step keeps of the types. *)
LEMMA DbTypesKept ==
  ASSUME DbTypes, KeysUnique, RoomLeft, DbNext
  PROVE  DbTypes'
<1> USE DEF DbTypes
<1>1. PICK w \in Workers :
        \/ \E q \in Queries : Begin(w, q)
        \/ Refused(w) \/ WriteFails(w) \/ Add(w) \/ Set(w) \/ Del(w) \/ ReadChanges(w)
        \/ Get(w) \/ ScanBegin(w) \/ ScanRow(w) \/ ScanEnd(w)
  BY DEF DbNext
<1>2. CASE \E q \in Queries : Begin(w, q)
  <2>1. NoBuffer \in Buffer BY EmptySeq DEF NoBuffer, Buffer, Written
  <2> QED BY <1>2, <2>1 DEF Begin
<1>3. CASE Refused(w) BY <1>3 DEF Refused, Return
<1>4. CASE Add(w)
  <2> DEFINE row == Row(query[w].fields)
  <2>1. row \in FullRow
    <3>1. query[w] \in Queries /\ query[w].op = "add" BY <1>4 DEF Add, NoQuery
    <3>2. query[w].fields \in Seq([name : Text, text : Text]) BY <3>1, QueriesAre
    <3> QED BY <3>2, RowIs
  <2> HIDE DEF row
  <2>2. CASE WithKey(row[1]) = {}
    <3>1. table' = [table EXCEPT ![NextRowId] = row] /\ Ran(w, 1) /\ Return(w, <<"true">>)
      BY <1>4, <2>2 DEF Add, row
    <3>2. table' \in [RowIds -> {NoRow} \cup FullRow] BY <2>1, <3>1
    <3> QED BY <1>4, <3>1, <3>2 DEF Add, Return, Ran
  <2>3. CASE WithKey(row[1]) # {}
    <3>1. UNCHANGED table /\ Ran(w, 0) /\ Return(w, <<"false">>) BY <1>4, <2>3 DEF Add, row
    <3> QED BY <1>4, <3>1 DEF Add, Return, Ran
  <2> QED BY <2>2, <2>3
<1>5. CASE Set(w)
  <2> DEFINE fields == query[w].fields
             rows == WithKey(query[w].id)
             n == Cardinality(rows)
  <2>1. fields \in Seq([name : Text, text : Text])
    <3>1. query[w] \in Queries /\ query[w].op = "set" BY <1>5 DEF Set, NoQuery
    <3> QED BY <3>1, QueriesAre
  <2>2. \A r \in rows : table[r] \in FullRow BY RowsAre DEF WithKey
  <2>3. \A r \in rows : Updated(table[r], fields) \in FullRow BY <2>1, <2>2, RowIs
  <2>4. n \in {0, 1} BY OneOrNone
  <2>5. (n > 0) \in BOOLEAN OBVIOUS
  <2>6. CASE Return(w, <<"false">>) /\ UNCHANGED <<table, changes, hit, raced>>
    BY <1>5, <2>6 DEF Set, Return
  <2>7. CASE /\ table' = [r \in RowIds |-> IF r \in rows THEN Updated(table[r], fields) ELSE table[r]]
             /\ Ran(w, n) /\ dbPc' = [dbPc EXCEPT ![w] = "changes"]
             /\ UNCHANGED <<query, result>>
    <3> HIDE DEF rows, n, fields
    <3>1. table' \in [RowIds -> {NoRow} \cup FullRow] BY <2>3, <2>7
    <3> QED BY <1>5, <2>4, <2>7, <3>1 DEF Set, Ran
  <2> QED BY <1>5, <2>6, <2>7 DEF Set
<1>6. CASE Del(w)
  <2> DEFINE n == Cardinality(WithKey(query[w].id))
  <2>1. n \in {0, 1} BY OneOrNone
  <2>2. Ran(w, n) BY <1>6 DEF Del
  <2> HIDE DEF n
  <2> QED BY <1>6, <2>1, <2>2 DEF Del, Ran
<1>7. CASE ReadChanges(w) BY <1>7 DEF ReadChanges, Return
<1>8. CASE Get(w)
  <2> DEFINE rows == WithKey(query[w].id)
             text == RowToJson(table[Min(rows)], FixedCap)
  <2>1. CASE rows = {} BY <1>8, <2>1 DEF Get, Return
  <2>2. CASE rows # {}
    <3>1. rows \in SUBSET Nat BY RowsAre, RowIdsAre DEF WithKey
    <3>2. Min(rows) \in rows
      <4> HIDE DEF rows
      <4> QED BY <2>2, <3>1, MinIsLeast
    <3>3. table[Min(rows)] \in FullRow BY <3>2, RowsAre DEF WithKey
    <3>4. [text |-> text, cap |-> FixedCap] \in Buffer BY <3>3, RowToJsonIs, DbAssumption DEF Buffer
    <3> HIDE DEF text
    <3>5. out' \in [Workers -> Buffer] BY <1>8, <2>2, <3>4 DEF Get, text
    <3> QED BY <1>8, <2>2, <3>5 DEF Get, Return
  <2> QED BY <2>1, <2>2
<1>9. CASE ScanBegin(w)
  <2>1. <<"[">> \in Written BY Literals, Texts DEF Written, Byte
  <2>2. [text |-> <<"[">>, cap |-> InitialCap] \in Buffer BY <2>1, DbAssumption DEF Buffer
  <2>3. 0 \in 0 .. MaxRows BY RowIdsAre
  <2> QED BY <1>9, <2>2, <2>3 DEF ScanBegin
<1>10. CASE ScanRow(w)
  <2>1. PICK b \in Buffer, r \in RowIds : ScanRead(w, b, r) BY <1>10, ScanRowIs
  <2>2. r \in 0 .. MaxRows BY RowIdsAre
  <2>3. out' = [out EXCEPT ![w] = b] /\ cursor' = [cursor EXCEPT ![w] = r] BY <2>1 DEF ScanRead
  <2>4. out' \in [Workers -> Buffer] BY <2>3
  <2>5. cursor' \in [Workers -> 0 .. MaxRows] BY <2>2, <2>3
  <2> QED BY <1>10, <2>4, <2>5 DEF ScanRow
<1>11. CASE ScanEnd(w)
  <2>1. [out[w] EXCEPT !.text = Append(@, "]")] \in Buffer BY <1>11, ScanEndIs
  <2>2. out' = [out EXCEPT ![w] = [out[w] EXCEPT !.text = Append(@, "]")]] BY <1>11 DEF ScanEnd
  <2>3. out' \in [Workers -> Buffer] BY <2>1, <2>2
  <2> QED BY <1>11, <2>3 DEF ScanEnd, Return
<1>12. CASE WriteFails(w) BY <1>12 DEF WriteFails, Return, Ran
<1> QED BY <1>1, <1>2, <1>3, <1>4, <1>5, <1>6, <1>7, <1>8, <1>9, <1>10, <1>11, <1>12

(* The steps of a worker. *)
DbStep(w) ==
  \/ \E q \in Queries : Begin(w, q)
  \/ Refused(w) \/ WriteFails(w) \/ Add(w) \/ Set(w) \/ Del(w) \/ ReadChanges(w)
  \/ Get(w) \/ ScanBegin(w) \/ ScanRow(w) \/ ScanEnd(w)

(* Every step keeps keys unique: orbit_db_add is refused on a key that is  *)
(* there, orbit_db_set leaves the key out.                                 *)
LEMMA KeysStayUnique ==
  ASSUME DbTypes, KeysUnique, NEW w \in Workers, DbStep(w)
  PROVE  KeysUnique'
<1>1. \A r \in Rows : table[r] \in FullRow /\ r \in RowIds BY RowsAre
<1>2. CASE table' = table BY <1>2 DEF KeysUnique, Rows
<1>3. CASE Add(w)
  <2> DEFINE row == Row(query[w].fields)
             n == NextRowId
  <2>1. CASE WithKey(row[1]) = {}
    <3>1. table' = [table EXCEPT ![n] = row] BY <1>3, <2>1 DEF Add
    <3>2. \A r \in RowIds : table'[r] = IF r = n THEN row ELSE table[r] BY <3>1 DEF DbTypes
    <3>3. \A r \in Rows : table[r][1] # row[1] BY <2>1 DEF WithKey
    <3> HIDE DEF row, n
    <3> QED BY <3>2, <3>3 DEF KeysUnique, Rows
  <2>2. CASE WithKey(row[1]) # {} BY <1>2, <1>3, <2>2 DEF Add
  <2> QED BY <2>1, <2>2
<1>4. CASE Set(w)
  <2> DEFINE fields == query[w].fields
             rows == WithKey(query[w].id)
  <2>1. fields \in Seq([name : Text, text : Text])
    <3>1. query[w] \in Queries /\ query[w].op = "set" BY <1>4 DEF Set, NoQuery, DbTypes
    <3> QED BY <3>1, QueriesAre
  <2>2. \A r \in Rows : Updated(table[r], fields)[1] = table[r][1] BY <1>1, <2>1, RowIs
  <2>3. CASE table' = [r \in RowIds |-> IF r \in rows THEN Updated(table[r], fields) ELSE table[r]]
    <3>1. rows \subseteq Rows BY DEF WithKey
    <3> HIDE DEF fields, rows
    <3>2. \A r \in RowIds : table'[r] = IF r \in rows THEN Updated(table[r], fields) ELSE table[r]
      BY <2>3
    <3>3. \A r \in Rows' : r \in Rows /\ table'[r][1] = table[r][1]
      <4> TAKE r \in Rows'
      <4>1. r \in RowIds /\ table'[r] # NoRow BY DEF Rows
      <4>2. CASE r \in rows BY <2>2, <3>1, <3>2, <4>1, <4>2
      <4>3. CASE r \notin rows BY <3>2, <4>1, <4>3 DEF Rows
      <4> QED BY <4>2, <4>3
    <3> QED BY <3>3 DEF KeysUnique
  <2> QED BY <1>2, <1>4, <2>3 DEF Set
<1>5. CASE Del(w)
  <2>1. \A r \in Rows' : r \in Rows /\ table'[r] = table[r] BY <1>5 DEF Del, Rows
  <2> QED BY <2>1 DEF KeysUnique
<1>6. CASE ~(Add(w) \/ Set(w) \/ Del(w))
  <2>1. table' = table
    BY <1>6 DEF DbStep, Begin, Refused, WriteFails, ReadChanges, Get, ScanBegin, ScanRow, ScanEnd
  <2> QED BY <1>2, <2>1
<1> QED BY <1>3, <1>4, <1>5, <1>6

(* Every step keeps calls matched. *)
LEMMA CallsStayMatched ==
  ASSUME DbTypes, CallsMatch, NEW w \in Workers, DbStep(w)
  PROVE  CallsMatch'
<1> USE DEF DbTypes, CallsMatch
<1>1. CASE \E q \in Queries : Begin(w, q) BY <1>1, QueriesAre DEF Begin
<1>2. CASE dbPc' = [dbPc EXCEPT ![w] = "idle"] /\ query' = [query EXCEPT ![w] = NoQuery] BY <1>2
<1>3. ASSUME NEW p \in {"changes", "scan"}, dbPc' = [dbPc EXCEPT ![w] = p], query' = query, dbPc[w] = "run"
      PROVE  CallsMatch'
  BY <1>3
<1>4. CASE Refused(w) BY <1>2, <1>4 DEF Refused, Return
<1>5. CASE Add(w) BY <1>2, <1>5 DEF Add, Return
<1>6. CASE Set(w) BY <1>2, <1>3, <1>6 DEF Set, Return
<1>7. CASE Del(w) BY <1>3, <1>7 DEF Del
<1>8. CASE ReadChanges(w) BY <1>2, <1>8 DEF ReadChanges, Return
<1>9. CASE Get(w) BY <1>2, <1>9 DEF Get, Return
<1>10. CASE ScanBegin(w) BY <1>3, <1>10 DEF ScanBegin
<1>11. CASE ScanRow(w) BY <1>11 DEF ScanRow
<1>12. CASE ScanEnd(w) BY <1>2, <1>12 DEF ScanEnd, Return
<1>13. CASE WriteFails(w) BY <1>2, <1>13 DEF WriteFails, Return
<1> QED BY <1>1, <1>4, <1>5, <1>6, <1>7, <1>8, <1>9, <1>10, <1>11, <1>12, <1>13 DEF DbStep

(* What a read of one row has written. *)
LEMMA GetIs ==
  ASSUME DbTypes, NEW w \in Workers, Get(w), WithKey(query[w].id) # {}
  PROVE  \E b \in Buffer : /\ out' = [out EXCEPT ![w] = b] /\ Len(b.text) + 1 <= b.cap
                           /\ Return(w, CString(b.text))
                           /\ CString(b.text)[1] = "{" /\ CString(b.text) # <<>>
<1> DEFINE rows == WithKey(query[w].id)
           text == RowToJson(table[Min(rows)], FixedCap)
           b == [text |-> text, cap |-> FixedCap]
<1>1. rows \in SUBSET Nat BY RowsAre, RowIdsAre DEF WithKey
<1>2. Min(rows) \in rows
  <2>1. rows # {} OBVIOUS
  <2> HIDE DEF rows
  <2> QED BY <1>1, <2>1, MinIsLeast
<1>3. table[Min(rows)] \in FullRow BY <1>2, RowsAre DEF WithKey
<1>4. FixedCap \in Nat /\ FixedCap >= 3 BY DbAssumption
<1>5. text \in Written /\ Len(text) \in Nat /\ Len(text) \in 1 .. FixedCap - 2 /\ text[1] = "{"
  BY <1>3, <1>4, RowToJsonIs
<1>6. out' = [out EXCEPT ![w] = b] /\ Return(w, CString(text)) BY DEF Get
<1> HIDE DEF text
<1>7. b \in Buffer /\ b.text = text /\ b.cap = FixedCap BY <1>4, <1>5 DEF Buffer
<1>8. Len(text) + 1 <= FixedCap /\ Len(text) >= 1
  <2> DEFINE n == Len(text)
  <2>1. n \in Nat /\ n \in 1 .. FixedCap - 2 BY <1>5
  <2> HIDE DEF n, b
  <2>2. n + 1 <= FixedCap /\ n >= 1 BY <1>4, <2>1
  <2> QED BY <2>2 DEF n
<1>9. CString(text)[1] = "{" /\ CString(text) # <<>> BY <1>5, <1>8, CStringIs
<1> HIDE DEF b
<1> QED BY <1>6, <1>7, <1>8, <1>9

(* Every step keeps the room that is left. *)
LEMMA RoomStaysLeft ==
  ASSUME DbTypes, RoomLeft, NEW w \in Workers, DbStep(w)
  PROVE  RoomLeft'
<1>0. /\ \A v \in Workers : out[v] \in Buffer
      /\ DOMAIN out = Workers /\ DOMAIN dbPc = Workers
  BY DEF DbTypes
<1>1. ASSUME out' = out, \A v \in Workers : dbPc'[v] = "scan" => dbPc[v] = "scan"
      PROVE  RoomLeft'
  BY <1>1 DEF RoomLeft
<1>2. ASSUME NEW b, out' = [out EXCEPT ![w] = b], Len(b.text) + 1 <= b.cap,
             \A v \in Workers : dbPc'[v] = "scan" => dbPc[v] = "scan" /\ v # w
      PROVE  RoomLeft'
  BY <1>0, <1>2 DEF RoomLeft
<1>3. ASSUME NEW b, out' = [out EXCEPT ![w] = b], Len(b.text) + 1 <= b.cap,
             Len(b.text) + 2 <= b.cap, Reserve <= b.cap, Len(b.text) >= 1, b.text[1] = "[",
             \A v \in Workers \ {w} : dbPc'[v] = dbPc[v]
      PROVE  RoomLeft'
  BY <1>0, <1>3 DEF RoomLeft
<1>4. CASE \E q \in Queries : Begin(w, q)
  <2>1. out' = [out EXCEPT ![w] = NoBuffer] /\ dbPc' = [dbPc EXCEPT ![w] = "run"] BY <1>4 DEF Begin
  <2>2. Len(NoBuffer.text) + 1 <= NoBuffer.cap BY EmptySeq DEF NoBuffer
  <2>3. \A v \in Workers : dbPc'[v] = "scan" => dbPc[v] = "scan" /\ v # w BY <1>0, <2>1
  <2> QED BY <1>2, <2>1, <2>2, <2>3
<1>5. CASE Refused(w) BY <1>0, <1>1, <1>5 DEF Refused, Return
<1>6. CASE Add(w) BY <1>0, <1>1, <1>6 DEF Add, Return
<1>7. CASE Set(w) BY <1>0, <1>1, <1>7 DEF Set, Return
<1>8. CASE Del(w) BY <1>0, <1>1, <1>8 DEF Del
<1>9. CASE ReadChanges(w) BY <1>0, <1>1, <1>9 DEF ReadChanges, Return
<1>10. CASE Get(w)
  <2>1. CASE WithKey(query[w].id) = {} BY <1>0, <1>1, <1>10, <2>1 DEF Get, Return
  <2>2. CASE WithKey(query[w].id) # {}
    <3>1. PICK b \in Buffer : /\ out' = [out EXCEPT ![w] = b] /\ Len(b.text) + 1 <= b.cap
                              /\ Return(w, CString(b.text))
      BY <1>10, <2>2, GetIs
    <3>2. \A v \in Workers : dbPc'[v] = "scan" => dbPc[v] = "scan" /\ v # w BY <1>0, <3>1 DEF Return
    <3> QED BY <1>2, <3>1, <3>2
  <2> QED BY <2>1, <2>2
<1>11. CASE ScanBegin(w)
  <2> DEFINE b == [text |-> <<"[">>, cap |-> InitialCap]
  <2>1. out' = [out EXCEPT ![w] = b] /\ dbPc' = [dbPc EXCEPT ![w] = "scan"] BY <1>11 DEF ScanBegin
  <2>2. Len(b.text) = 1 /\ b.text[1] = "[" /\ b.cap = InitialCap OBVIOUS
  <2>3. InitialCap \in Nat /\ Reserve \in Nat /\ 3 <= Reserve /\ Reserve <= InitialCap BY DbAssumption
  <2> HIDE DEF b
  <2>4. Len(b.text) + 1 <= b.cap /\ Len(b.text) + 2 <= b.cap /\ Reserve <= b.cap /\ Len(b.text) >= 1
    BY <2>2, <2>3
  <2>5. \A v \in Workers \ {w} : dbPc'[v] = dbPc[v] BY <1>0, <2>1
  <2> QED BY <1>3, <2>1, <2>2, <2>4, <2>5
<1>12. CASE ScanRow(w)
  <2>1. PICK b \in Buffer, r \in RowIds : ScanRead(w, b, r) BY <1>12, ScanRowIs
  <2>2. Len(b.text) + 1 <= b.cap
    <3>1. Len(b.text) \in Nat /\ b.cap \in Nat BY DEF Buffer, Written
    <3> QED BY <2>1, <3>1 DEF ScanRead
  <2>3. dbPc' = dbPc BY <1>12 DEF ScanRow
  <2> QED BY <1>3, <2>1, <2>2, <2>3 DEF ScanRead
<1>13. CASE ScanEnd(w)
  <2> DEFINE b == [out[w] EXCEPT !.text = Append(@, "]")]
  <2>1. out' = [out EXCEPT ![w] = b] /\ dbPc' = [dbPc EXCEPT ![w] = "idle"] BY <1>13 DEF ScanEnd, Return
  <2>2. Len(b.text) + 1 <= b.cap BY <1>13, ScanEndIs
  <2> HIDE DEF b
  <2>3. \A v \in Workers : dbPc'[v] = "scan" => dbPc[v] = "scan" /\ v # w BY <1>0, <2>1
  <2> QED BY <1>2, <2>1, <2>2, <2>3
<1>14. CASE WriteFails(w) BY <1>0, <1>1, <1>14 DEF WriteFails, Return
<1> QED BY <1>4, <1>5, <1>6, <1>7, <1>8, <1>9, <1>10, <1>11, <1>12, <1>13, <1>14 DEF DbStep

(* Every step keeps answers true: whoever writes, or fails to, races all   *)
(* the workers that have not looked at sqlite3_changes yet, and a row or   *)
(* an array is never taken for an answer.                                  *)
LEMMA AnswersStayTrue ==
  ASSUME DbTypes, RoomLeft, KeysUnique, AnswersTrue, NEW w \in Workers, DbStep(w)
  PROVE  AnswersTrue'
<1>0. /\ DOMAIN dbPc = Workers /\ DOMAIN result = Workers /\ DOMAIN hit = Workers
      /\ DOMAIN raced = Workers /\ hit \in [Workers -> BOOLEAN] /\ raced \in [Workers -> BOOLEAN]
      /\ changes \in {0, 1}
  BY DEF DbTypes
<1>1. ASSUME NEW text, Return(w, text), UNCHANGED <<changes, hit, raced>>,
             text \in {<<"true">>, <<"false">>} /\ ~raced[w] => (text = <<"true">> <=> hit[w])
      PROVE  AnswersTrue'
  BY <1>0, <1>1 DEF Return, AnswersTrue
<1>2. ASSUME NEW text, Return(w, text), UNCHANGED <<changes, hit, raced>>,
             text \notin {<<"true">>, <<"false">>}
      PROVE  AnswersTrue'
  BY <1>1, <1>2
<1>3. ASSUME Return(w, <<"false">>), UNCHANGED <<changes, hit, raced>>, dbPc[w] = "run"
      PROVE  AnswersTrue'
  <2>1. ~hit[w] /\ <<"false">> # <<"true">> BY <1>3 DEF AnswersTrue
  <2> QED BY <1>1, <1>3, <2>1
<1>4. ASSUME NEW n \in {0, 1}, Ran(w, n), dbPc' = [dbPc EXCEPT ![w] = "changes"], result' = result
      PROVE  AnswersTrue'
  BY <1>0, <1>4 DEF Ran, AnswersTrue
<1>5. <<>> \notin {<<"true">>, <<"false">>} /\ <<"[", "]">> \notin {<<"true">>, <<"false">>}
  <2>1. Len(<<>>) = 0 /\ Len(<<"[", "]">>) = 2 /\ Len(<<"true">>) = 1 /\ Len(<<"false">>) = 1 OBVIOUS
  <2> QED BY <2>1
<1>6. \A text : text[1] = "{" \/ text[1] = "[" => text # <<"true">> /\ text # <<"false">>
  <2>1. <<"true">>[1] = "true" /\ <<"false">>[1] = "false" OBVIOUS
  <2>2. "true" # "{" /\ "true" # "[" /\ "false" # "{" /\ "false" # "[" OBVIOUS
  <2> QED BY <2>1, <2>2, Zenon
<1>7. CASE \E q \in Queries : Begin(w, q) BY <1>0, <1>5, <1>7 DEF Begin, AnswersTrue
<1>8. CASE Refused(w)
  <2> DEFINE text == Nothing(query[w].op)
  <2>1. Return(w, text) /\ UNCHANGED <<changes, hit, raced>> /\ dbPc[w] = "run" BY <1>8 DEF Refused
  <2>2. text \in {<<>>, <<"[", "]">>, <<"false">>} BY DEF Nothing
  <2> HIDE DEF text
  <2>3. CASE text = <<"false">> BY <1>3, <2>1, <2>3
  <2>4. CASE text # <<"false">> BY <1>2, <1>5, <2>1, <2>2, <2>4
  <2> QED BY <2>3, <2>4
<1>17. ASSUME Ran(w, 0), Return(w, <<"false">>)
       PROVE  AnswersTrue'
  <2>1. hit' = [hit EXCEPT ![w] = 0 > 0] BY <1>17 DEF Ran
  <2>2. ~hit'[w] /\ \A v \in Workers \ {w} : hit'[v] = hit[v]
    <3>1. hit'[w] = (0 > 0) BY <1>0, <2>1, Zenon
    <3>2. ~(0 > 0) OBVIOUS
    <3>3. \A v \in Workers \ {w} : hit'[v] = hit[v] BY <1>0, <2>1, Zenon
    <3> QED BY <3>1, <3>2, <3>3, Zenon
  <2>3. <<"false">> # <<"true">> OBVIOUS
  <2> QED BY <1>0, <1>17, <2>2, <2>3 DEF Ran, Return, AnswersTrue
<1>18. CASE WriteFails(w) BY <1>17, <1>18 DEF WriteFails
<1>9. CASE Add(w)
  <2> DEFINE row == Row(query[w].fields)
  <2>1. CASE WithKey(row[1]) = {}
    <3>1. Ran(w, 1) /\ Return(w, <<"true">>) BY <1>9, <2>1 DEF Add
    <3>2. hit' = [hit EXCEPT ![w] = 1 > 0] BY <3>1 DEF Ran
    <3>3. hit'[w] /\ \A v \in Workers \ {w} : hit'[v] = hit[v]
      <4>1. hit'[w] = (1 > 0) BY <1>0, <3>2, Zenon
      <4>2. 1 > 0 OBVIOUS
      <4>3. \A v \in Workers \ {w} : hit'[v] = hit[v] BY <1>0, <3>2, Zenon
      <4> QED BY <4>1, <4>2, <4>3, Zenon
    <3> QED BY <1>0, <3>1, <3>3 DEF Ran, Return, AnswersTrue
  <2>2. CASE WithKey(row[1]) # {}
    <3>1. Ran(w, 0) /\ Return(w, <<"false">>) BY <1>9, <2>2 DEF Add
    <3> QED BY <1>17, <3>1
  <2> QED BY <2>1, <2>2
<1>10. CASE Set(w)
  <2> DEFINE n == Cardinality(WithKey(query[w].id))
  <2>1. n \in {0, 1} BY OneOrNone
  <2>2. CASE Ran(w, n) /\ dbPc' = [dbPc EXCEPT ![w] = "changes"] /\ result' = result
    <3> HIDE DEF n
    <3> QED BY <1>4, <2>1, <2>2
  <2>3. CASE Return(w, <<"false">>) /\ UNCHANGED <<changes, hit, raced>> /\ dbPc[w] = "run"
    BY <1>3, <2>3
  <2> QED BY <1>10, <2>2, <2>3 DEF Set
<1>11. CASE Del(w)
  <2> DEFINE n == Cardinality(WithKey(query[w].id))
  <2>1. n \in {0, 1} BY OneOrNone
  <2>2. Ran(w, n) /\ dbPc' = [dbPc EXCEPT ![w] = "changes"] /\ result' = result BY <1>11 DEF Del
  <2> HIDE DEF n
  <2> QED BY <1>4, <2>1, <2>2
<1>12. CASE ReadChanges(w)
  <2> DEFINE text == IF Changed THEN <<"true">> ELSE <<"false">>
  <2>1. Return(w, text) /\ UNCHANGED <<changes, hit, raced>> /\ dbPc[w] = "changes"
    BY <1>12 DEF ReadChanges
  <2>2. <<"true">> # <<"false">> OBVIOUS
  <2>3. text = <<"true">> <=> changes > 0 BY <2>2 DEF Changed
  <2>4. ~raced[w] => (hit[w] <=> changes > 0) BY <2>1 DEF AnswersTrue
  <2> HIDE DEF text
  <2> QED BY <1>0, <1>1, <2>1, <2>3, <2>4
<1>13. CASE Get(w)
  <2>0. UNCHANGED <<changes, hit, raced>> BY <1>13 DEF Get
  <2>1. CASE WithKey(query[w].id) = {}
    <3>1. Return(w, <<>>) BY <1>13, <2>1 DEF Get
    <3> QED BY <1>2, <1>5, <2>0, <3>1
  <2>2. CASE WithKey(query[w].id) # {}
    <3>1. PICK b \in Buffer : Return(w, CString(b.text)) /\ CString(b.text)[1] = "{"
      BY <1>13, <2>2, GetIs
    <3>2. CString(b.text) # <<"true">> /\ CString(b.text) # <<"false">> BY <1>6, <3>1, Zenon
    <3>3. CString(b.text) \notin {<<"true">>, <<"false">>} BY <3>2
    <3> QED BY <1>2, <2>0, <3>1, <3>3
  <2> QED BY <2>1, <2>2
<1>14. CASE ScanBegin(w) BY <1>0, <1>14 DEF ScanBegin, AnswersTrue
<1>15. CASE ScanRow(w) BY <1>0, <1>15 DEF ScanRow, AnswersTrue
<1>16. CASE ScanEnd(w)
  <2> DEFINE text == CString(out'[w].text)
  <2>1. Return(w, text) /\ UNCHANGED <<changes, hit, raced>> BY <1>16 DEF ScanEnd
  <2>2. text[1] = "[" BY <1>16, ScanEndIs
  <2> HIDE DEF text
  <2>3. text # <<"true">> /\ text # <<"false">> BY <1>6, <2>2, Zenon
  <2>4. text \notin {<<"true">>, <<"false">>} BY <2>3
  <2> QED BY <1>2, <2>1, <2>4
<1> QED BY <1>7, <1>8, <1>9, <1>10, <1>11, <1>12, <1>13, <1>14, <1>15, <1>16, <1>18
  DEF DbStep

(* Every step keeps the inductive invariant. *)
LEMMA DbInductiveKept == DbInductive /\ [DbNext]_dbVars => DbInductive'
<1> SUFFICES ASSUME DbInductive, [DbNext]_dbVars PROVE DbInductive' OBVIOUS
<1>1. CASE UNCHANGED dbVars
  <2>1. DbTypes' /\ CallsMatch' BY <1>1 DEF dbVars, DbInductive, DbTypes, CallsMatch
  <2>2. KeysUnique' BY <1>1 DEF dbVars, DbInductive, KeysUnique, Rows
  <2>3. RoomLeft' /\ AnswersTrue' BY <1>1 DEF dbVars, DbInductive, RoomLeft, AnswersTrue
  <2> QED BY <2>1, <2>2, <2>3 DEF DbInductive
<1>2. CASE DbNext
  <2>1. PICK w \in Workers : DbStep(w) BY <1>2 DEF DbNext, DbStep
  <2>2. DbTypes' BY <1>2, DbTypesKept DEF DbInductive
  <2>3. KeysUnique' BY <2>1, KeysStayUnique DEF DbInductive
  <2>4. CallsMatch' BY <2>1, CallsStayMatched DEF DbInductive
  <2>5. RoomLeft' BY <2>1, RoomStaysLeft DEF DbInductive
  <2>6. AnswersTrue' BY <2>1, AnswersStayTrue DEF DbInductive
  <2> QED BY <2>2, <2>3, <2>4, <2>5, <2>6 DEF DbInductive
<1> QED BY <1>1, <1>2

(* It implies what is to be shown. *)
LEMMA DbSound == DbInductive => DbInv /\ TrueIffChanged
<1> SUFFICES ASSUME DbInductive PROVE DbInv /\ TrueIffChanged OBVIOUS
<1>1. \A r \in RowIds : table[r] = NoRow \/ Len(table[r]) = Len(Names)
  BY FullRowIs DEF DbInductive, DbTypes
<1>2. DbTypeOK BY <1>1 DEF DbInductive, DbTypes, CallsMatch, DbTypeOK
<1>3. WithinBuffer BY DEF DbInductive, RoomLeft, WithinBuffer
<1>4. TrueIffChanged BY DEF DbInductive, AnswersTrue, TrueIffChanged
<1> QED BY <1>2, <1>3, <1>4 DEF DbInv

(* No read of runtime/database.c writes past its buffer, the zero          *)
(* included, and a row always has all its columns: for rows of any size,   *)
(* any mix of escapes and separators, and a buffer that is doubled while   *)
(* the scan goes on.                                                       *)
THEOREM BuffersHold == DbSpec => []DbInv
BY DbInitially, DbInductiveKept, DbSound, PTL DEF DbSpec

(* orbit_db_set, orbit_db_del and orbit_db_add answer "true" exactly when  *)
(* they changed a row, unless another worker's write, done or failed, came *)
(* between theirs and their look at sqlite3_changes; for any number of     *)
(* workers on the one connection.                                          *)
THEOREM ChangesReported == DbSpec => []TrueIffChanged
BY DbInitially, DbInductiveKept, DbSound, PTL DEF DbSpec

-----------------------------------------------------------------------------
(* Rows that fit come out whole. *)

(* Sequences one after the other, as far as the k-th. *)
Pours(f, seqs, T) ==
  /\ f \in [0 .. Len(seqs) -> Seq(T)] /\ f[0] = <<>>
  /\ \A k \in 1 .. Len(seqs) : f[k] = f[k - 1] \o seqs[k]

(* FlattenSeq ends with all of them. *)
LEMMA FlattenPours ==
  ASSUME NEW T, NEW seqs \in Seq(Seq(T))
  PROVE  \E f : Pours(f, seqs, T) /\ f[Len(seqs)] = FlattenSeq(seqs)
BY FlattenGoes DEF Pours

(* They only get longer. *)
LEMMA PoursLonger ==
  ASSUME NEW T, NEW seqs \in Seq(Seq(T)), NEW f, Pours(f, seqs, T), NEW j \in 0 .. Len(seqs)
  PROVE  \A k \in j .. Len(seqs) : Len(f[j]) <= Len(f[k])
<1> DEFINE n == Len(seqs)
           Bad == {k \in j .. n : ~(Len(f[j]) <= Len(f[k]))}
<1>1. n \in Nat /\ j \in Nat /\ j <= n OBVIOUS
<1>2. \A k \in 0 .. n : f[k] \in Seq(T) /\ Len(f[k]) \in Nat
  <2>1. \A k \in 0 .. n : f[k] \in Seq(T) BY DEF Pours
  <2>2. \A s \in Seq(T) : Len(s) \in Nat OBVIOUS
  <2> QED BY ONLY <2>1, <2>2
<1> SUFFICES ASSUME Bad # {} PROVE FALSE OBVIOUS
<1>3. Bad \in SUBSET Nat BY <1>1
<1>4. PICK k \in Bad : \A i \in Bad : k <= i
  <2> HIDE DEF Bad
  <2> QED BY <1>3, LeastNumber
<1> HIDE DEF n
<1>5. k \in j .. n /\ ~(Len(f[j]) <= Len(f[k])) OBVIOUS
<1>6. j \in 0 .. n /\ k \in 0 .. n /\ k \in Nat BY <1>1, <1>5
<1>7. k # j BY <1>2, <1>5, <1>6
<1>8. k - 1 \in j .. n /\ k - 1 \in 0 .. n /\ k \in 1 .. n /\ ~(k <= k - 1) BY <1>1, <1>5, <1>6, <1>7
<1>9. Len(f[j]) <= Len(f[k - 1]) BY <1>4, <1>8
<1>10. f[k] = f[k - 1] \o seqs[k] /\ seqs[k] \in Seq(T) BY <1>8, ElementOfSeq DEF Pours, n
<1>11. f[k - 1] \in Seq(T) BY <1>2, <1>8
<1>12. Len(f[k]) = Len(f[k - 1]) + Len(seqs[k]) /\ Len(seqs[k]) \in Nat BY <1>10, <1>11, Concat
<1>13. Len(f[k]) \in Nat /\ Len(f[k - 1]) \in Nat /\ Len(f[j]) \in Nat BY <1>2, <1>6, <1>8
<1> DEFINE lj == Len(f[j])
           lp == Len(f[k - 1])
           lk == Len(f[k])
           le == Len(seqs[k])
<1>14. ~(lj <= lk) /\ lj <= lp /\ lk = lp + le /\ le \in Nat /\ lp \in Nat /\ lj \in Nat
  BY <1>5, <1>9, <1>12, <1>13
<1> HIDE DEF Bad, lj, lp, lk, le
<1> QED BY <1>14

(* What was poured does not depend on what comes after. *)
LEMMA PoursSame ==
  ASSUME NEW T, NEW s \in Seq(Seq(T)), NEW t \in Seq(Seq(T)), NEW f, NEW g,
         Pours(f, s, T), Pours(g, t, T), Len(s) <= Len(t), \A k \in 1 .. Len(s) : t[k] = s[k]
  PROVE  f[Len(s)] = g[Len(s)]
<1> DEFINE n == Len(s)
           Bad == {k \in 0 .. n : f[k] # g[k]}
<1>1. n \in Nat /\ n \in 0 .. n OBVIOUS
<1> SUFFICES ASSUME Bad # {} PROVE FALSE BY <1>1
<1>2. Bad \in SUBSET Nat BY <1>1
<1>3. PICK k \in Bad : \A i \in Bad : k <= i
  <2> HIDE DEF Bad
  <2> QED BY <1>2, LeastNumber
<1>4. k \in 0 .. n /\ f[k] # g[k] OBVIOUS
<1>5. k # 0 BY <1>4 DEF Pours
<1>6. k - 1 \in 0 .. n /\ k \in 1 .. n /\ ~(k <= k - 1) BY <1>1, <1>4, <1>5
<1>7. f[k - 1] = g[k - 1] BY <1>3, <1>6
<1>8. k \in 1 .. Len(s) /\ k \in 1 .. Len(t) BY <1>6
<1>9. f[k] = f[k - 1] \o s[k] /\ g[k] = g[k - 1] \o t[k] /\ t[k] = s[k] BY <1>8 DEF Pours
<1> QED BY <1>4, <1>7, <1>9

(* One sequence more. *)
LEMMA FlattenMore ==
  ASSUME NEW T, NEW seqs \in Seq(Seq(T)), NEW x \in Seq(T)
  PROVE  FlattenSeq(Append(seqs, x)) = FlattenSeq(seqs) \o x
<1> DEFINE t == Append(seqs, x)
           n == Len(seqs)
<1>1. /\ t \in Seq(Seq(T)) /\ Len(t) = n + 1 /\ \A k \in 1 .. n : t[k] = seqs[k]
      /\ t[n + 1] = x /\ n \in Nat
  OBVIOUS
<1> HIDE DEF t
<1>2. PICK f : Pours(f, seqs, T) /\ f[n] = FlattenSeq(seqs) BY FlattenPours
<1>3. PICK g : Pours(g, t, T) /\ g[Len(t)] = FlattenSeq(t) BY <1>1, FlattenPours
<1>4. n <= Len(t) BY <1>1
<1>5. f[n] = g[n]
  <2>1. Pours(f, seqs, T) /\ Pours(g, t, T) /\ Len(seqs) <= Len(t) BY <1>2, <1>3, <1>4
  <2>2. \A k \in 1 .. Len(seqs) : t[k] = seqs[k] BY <1>1
  <2>3. f[Len(seqs)] = g[Len(seqs)] BY <1>1, <2>1, <2>2, PoursSame
  <2> QED BY <2>3
<1> DEFINE m == n + 1
<1>6. m \in 1 .. Len(t) /\ m - 1 = n /\ Len(t) = m /\ t[m] = x BY <1>1
<1> HIDE DEF n, m
<1>7. g[m] = g[m - 1] \o t[m] BY <1>3, <1>6 DEF Pours
<1> QED BY <1>2, <1>3, <1>5, <1>6, <1>7 DEF t

(* What is written is written one after the other. *)
InTurn(s, t, u) == (s \o t) \o u = s \o (t \o u)

(* So it is with whatever is in a buffer. *)
LEMMA Assoc == ASSUME NEW s \in Written, NEW t \in Written, NEW u \in Written PROVE InTurn(s, t, u)
<1>1. s \in Seq(Byte) /\ t \in Seq(Byte) /\ u \in Seq(Byte) BY DEF Written
<1> QED BY <1>1, ConcatAssociative DEF InTurn

(* A character that fits, with a byte to spare, is written as its escape. *)
LEMMA PutCharWhole ==
  ASSUME NEW end \in Nat, NEW a \in Writing, NEW c \in Char, ~a.stop,
         Len(a.text) + Len(Encode(c)) < end
  PROVE  /\ PutChar(end, a, c).text = a.text \o Encode(c)
         /\ ~PutChar(end, a, c).stop
<1> DEFINE e == Encode(c)
<1>1. e \in Text /\ Len(e) \in {1, 2, 6} BY EncodeIs
<1>2. a.text \in Written /\ Len(a.text) \in Nat BY DEF Writing, Written
<1> HIDE DEF e
<1>3. ~(Len(a.text) + Len(e) > end) /\ ~(Len(e) = 6 /\ Len(a.text) + 6 = end)
  <2> DEFINE m == Len(a.text)
             l == Len(e)
  <2>1. m + l < end /\ m \in Nat /\ l \in Nat /\ end \in Nat BY <1>1, <1>2 DEF e
  <2> HIDE DEF m, l
  <2>2. ~(m + l > end) /\ ~(l = 6 /\ m + 6 = end) BY <2>1
  <2> QED BY <2>2 DEF m, l
<1>4. Put(a.text, end, e) = a.text \o e BY <1>3 DEF Put
<1>5. PutChar(end, a, c) = [a EXCEPT !.text = Put(a.text, end, e)] BY <1>3 DEF PutChar, e
<1>6. [a EXCEPT !.text = a.text \o e].text = a.text \o e /\ [a EXCEPT !.text = a.text \o e].stop = a.stop
  BY DEF Writing
<1> QED BY <1>4, <1>5, <1>6 DEF e

(* The escapes of the characters of s. *)
Encoded(s) == [i \in 1 .. Len(s) |-> Encode(s[i])]

(* They are texts. *)
LEMMA EncodedIs ==
  ASSUME NEW s \in Text
  PROVE  /\ Encoded(s) \in Seq(Text) /\ Len(Encoded(s)) = Len(s) /\ Len(s) \in Nat
         /\ \A i \in 1 .. Len(s) : s[i] \in Char /\ Encoded(s)[i] = Encode(s[i])
<1> DEFINE parts == [i \in 1 .. Len(s) |-> Encode(s[i])]
<1>1. Len(s) \in Nat /\ \A i \in 1 .. Len(s) : s[i] \in Char /\ Encode(s[i]) \in Text
  <2>1. \A i \in 1 .. Len(s) : s[i] \in Char BY ElementOfSeq DEF Text
  <2> QED BY <2>1, EncodeIs DEF Text
<1>2. parts \in Seq(Text) /\ Len(parts) = Len(s)
  <2>1. parts \in [1 .. Len(s) -> Text] BY <1>1
  <2> HIDE DEF parts
  <2> QED BY <1>1, <2>1, SequenceIs
<1> QED BY <1>1, <1>2 DEF Encoded

(* The loop over the characters writes them all when they fit. *)
LEMMA EscapesWhole ==
  ASSUME NEW end \in Nat, NEW base \in Writing, ~base.stop, NEW s \in Text,
         NEW g, Escapes(g, end, base, s), NEW f, Pours(f, Encoded(s), Char),
         Len(base.text) + Len(f[Len(s)]) < end
  PROVE  g[Len(s)].text = base.text \o f[Len(s)]
<1> DEFINE n == Len(s)
           Good(k) == ~g[k].stop /\ g[k].text = base.text \o f[k]
           Bad == {k \in 0 .. n : ~Good(k)}
<1>1. /\ Encoded(s) \in Seq(Text) /\ Len(Encoded(s)) = n /\ n \in Nat
      /\ \A i \in 1 .. n : s[i] \in Char /\ Encoded(s)[i] = Encode(s[i])
  BY EncodedIs
<1>2. base.text \in Written /\ Len(base.text) \in Nat BY DEF Writing, Written
<1>3. \A k \in 0 .. n : f[k] \in Text /\ Len(f[k]) \in Nat BY <1>1 DEF Pours, Text
<1>4. \A k \in 0 .. n : Len(f[k]) <= Len(f[n])
  <2> TAKE k \in 0 .. n
  <2>1. k \in 0 .. Len(Encoded(s)) /\ n \in k .. Len(Encoded(s)) BY <1>1
  <2> QED BY <1>1, <2>1, PoursLonger DEF Text
<1>5. Good(0)
  <2>1. base.text \o <<>> = base.text BY <1>2, ConcatEmptySeq DEF Written
  <2> QED BY <2>1 DEF Escapes, Pours
<1> SUFFICES ASSUME Bad # {} PROVE FALSE
  <2>1. n \in 0 .. n BY <1>1
  <2> QED BY <2>1
<1>6. Bad \in SUBSET Nat
  <2> HIDE DEF Good
  <2> QED BY <1>1
<1>7. PICK k \in Bad : \A i \in Bad : k <= i
  <2> HIDE DEF Bad
  <2> QED BY <1>6, LeastNumber
<1>8. k \in 0 .. n /\ ~Good(k) /\ k # 0 BY <1>5
<1>9. k - 1 \in 0 .. n /\ k \in 1 .. n /\ ~(k <= k - 1) BY <1>1, <1>8
<1>10. Good(k - 1) BY <1>7, <1>9
<1> HIDE DEF Bad, n
<1>11. g[k - 1] \in Writing /\ g[k] = PutChar(end, g[k - 1], s[k]) /\ s[k] \in Char
  BY <1>1, <1>9 DEF Escapes, n
<1>12. f[k] = f[k - 1] \o Encode(s[k]) BY <1>1, <1>9 DEF Pours
<1> DEFINE e == Encode(s[k])
           b == base.text
           p == f[k - 1]
<1>13. e \in Text /\ Len(e) \in Nat BY <1>11, EncodeIs
<1>14. p \in Text /\ b \in Written BY <1>2, <1>3, <1>9
<1>15. e \in Written /\ p \in Written BY <1>13, <1>14, TextIsWritten
<1>16. f[k] = p \o e BY <1>12
<1>17. g[k - 1].text = b \o p BY <1>10
<1> HIDE DEF e, p, b
<1>18. Len(b \o p) = Len(b) + Len(p) /\ Len(p \o e) = Len(p) + Len(e) /\ (b \o p) \o e = b \o (p \o e)
  BY <1>14, <1>15, Concat, ConcatAssociative DEF Written
<1>19. Len(f[k]) <= Len(f[n]) /\ Len(f[n]) \in Nat /\ Len(p) \in Nat /\ Len(b) \in Nat
  <2>1. n \in 0 .. n BY <1>1
  <2> QED BY <1>2, <1>3, <1>4, <1>8, <1>9, <2>1 DEF p, b
<1>20. Len(g[k - 1].text) + Len(e) < end
  <2>1. Len(b) + Len(f[n]) < end BY DEF b, n
  <2> QED BY <1>13, <1>16, <1>17, <1>18, <1>19, <2>1
<1>21. PutChar(end, g[k - 1], s[k]).text = g[k - 1].text \o e /\ ~PutChar(end, g[k - 1], s[k]).stop
  BY <1>10, <1>11, <1>20, PutCharWhole DEF e
<1> QED BY <1>8, <1>11, <1>16, <1>17, <1>18, <1>21 DEF b

(* orbit_db_append_json_escaped writes the quoted text when it fits. *)
LEMMA AppendWhole ==
  ASSUME NEW end \in Nat, NEW text \in Written, NEW s \in Text, Len(text) + Len(Quoted(s)) <= end
  PROVE  AppendEscaped(text, end, s) = text \o Quoted(s)
<1> DEFINE base == [text |-> Append(text, "Q"), stop |-> FALSE]
           w == FoldLeft(LAMBDA acc, c : PutChar(end, acc, c), base, s)
           q == <<"Q">>
           F == FlattenSeq(Encoded(s))
<1>1. "Q" \in Byte /\ "Q" \in Char BY Texts DEF Byte
<1>2. q \in Text /\ q \in Written /\ Len(q) = 1
  <2>1. q \in Seq(Char) /\ q \in Seq(Byte) /\ Len(q) = 1 BY <1>1, Literals
  <2> QED BY <2>1 DEF Text, Written
<1>3. Append(text, "Q") = text \o q BY <1>1, AppendIsConcat DEF Written
<1>4. Append(text, "Q") \in Written BY <1>1, AppendProperties DEF Written
<1>5. base \in Writing /\ base.text = Append(text, "Q") /\ ~base.stop BY <1>4 DEF Writing
<1>6. AppendEscaped(text, end, s) =
          IF Len(text) >= end THEN text
          ELSE IF Len(w.text) < end THEN Append(w.text, "Q") ELSE w.text
  BY DEF AppendEscaped
<1>7. Quoted(s) = (q \o F) \o q BY DEF Quoted, Encoded
<1> HIDE DEF base, w, q
<1>8. PICK g : Escapes(g, end, base, s) /\ w = g[Len(s)] BY <1>5, EscapeGoes DEF w
<1>9. Encoded(s) \in Seq(Text) /\ Len(Encoded(s)) = Len(s) BY EncodedIs
<1>10. PICK f : Pours(f, Encoded(s), Char) /\ f[Len(s)] = F BY <1>9, FlattenPours DEF Text
<1>11. F \in Text BY <1>9, FlattenIs DEF Text
<1>12. F \in Written BY <1>11, TextIsWritten
<1> HIDE DEF F
<1>13. /\ Len(text \o q) = Len(text) + 1 /\ text \o q \in Written /\ q \o F \in Written
       /\ Len(q \o F) = 1 + Len(F) /\ Len((q \o F) \o q) = Len(q \o F) + 1 /\ Len(text) \in Nat /\ Len(F) \in Nat
       /\ (text \o q) \o F \in Written /\ Len((text \o q) \o F) = Len(text \o q) + Len(F)
  <2>1. text \o q \in Written /\ Len(text \o q) = Len(text) + Len(q) /\ Len(text) \in Nat BY <1>2, Concat DEF Written
  <2>2. q \o F \in Written /\ Len(q \o F) = Len(q) + Len(F) /\ Len(F) \in Nat BY <1>2, <1>12, Concat DEF Written
  <2>3. Len((q \o F) \o q) = Len(q \o F) + Len(q) BY <1>2, <2>2, Concat DEF Written
  <2>4. (text \o q) \o F \in Written /\ Len((text \o q) \o F) = Len(text \o q) + Len(F)
    BY <1>12, <2>1, Concat DEF Written
  <2> QED BY <1>2, <2>1, <2>2, <2>3, <2>4
<1>14. Len(base.text) + Len(F) < end /\ ~(Len(text) >= end) BY <1>3, <1>5, <1>7, <1>13
<1>15. w.text = (text \o q) \o F
  <2>1. Len(base.text) + Len(f[Len(s)]) < end BY <1>10, <1>14
  <2>2. g[Len(s)].text = base.text \o f[Len(s)] BY <1>5, <1>8, <1>10, <2>1, EscapesWhole
  <2> QED BY <1>3, <1>5, <1>8, <1>10, <2>2
<1>16. Len(w.text) < end BY <1>3, <1>5, <1>13, <1>14, <1>15
<1>17. Append(w.text, "Q") = w.text \o q BY <1>1, <1>13, <1>15, AppendIsConcat DEF Written, q
<1>18. ((text \o q) \o F) \o q = text \o ((q \o F) \o q)
  <2>1. InTurn(text, q, F) BY <1>2, <1>12, Assoc
  <2> DEFINE u == q \o F
  <2>2. u \in Written BY <1>13
  <2> HIDE DEF u
  <2>3. InTurn(text, u, q) BY <1>2, <2>2, Assoc
  <2> QED BY <2>1, <2>3 DEF u, InTurn
<1> QED BY <1>6, <1>7, <1>14, <1>15, <1>16, <1>17, <1>18

(* One after the other, in a buffer and as text. *)
LEMMA WrittenOn ==
  ASSUME NEW s \in Written, NEW t \in Written
  PROVE  s \o t \in Written /\ Len(s \o t) = Len(s) + Len(t) /\ Len(s) \in Nat /\ Len(t) \in Nat
<1>1. s \in Seq(Byte) /\ t \in Seq(Byte) BY DEF Written
<1> QED BY <1>1, Concat DEF Written

(* Likewise for texts. *)
LEMMA TextOn ==
  ASSUME NEW s \in Text, NEW t \in Text
  PROVE  s \o t \in Text /\ Len(s \o t) = Len(s) + Len(t) /\ Len(s) \in Nat /\ Len(t) \in Nat
<1>1. s \in Seq(Char) /\ t \in Seq(Char) BY DEF Text
<1> QED BY <1>1, Concat DEF Text

(* One character as a text. *)
LEMMA OneChar ==
  ASSUME NEW c \in Char
  PROVE  /\ <<c>> \in Text /\ <<c>> \in Written /\ Len(<<c>>) = 1
         /\ \A s \in Written : Append(s, c) = s \o <<c>>
<1>1. c \in Byte BY DEF Byte
<1>2. <<c>> \in Seq(Char) /\ <<c>> \in Seq(Byte) /\ Len(<<c>>) = 1 BY <1>1, Literals
<1>3. ASSUME NEW s \in Written PROVE Append(s, c) = s \o <<c>>
  <2>1. s \in Seq(Byte) BY DEF Written
  <2> QED BY <1>1, <2>1, AppendIsConcat
<1> QED BY <1>2, <1>3 DEF Text, Written

(* Quotes take two bytes. *)
LEMMA QuotedLong == ASSUME NEW s \in Text PROVE Quoted(s) \in Text /\ Len(Quoted(s)) \in Nat /\ Len(Quoted(s)) >= 2
<1> DEFINE q == <<"Q">>
           F == FlattenSeq(Encoded(s))
<1>1. "Q" \in Char BY Texts
<1>2. q \in Text /\ Len(q) = 1 BY <1>1, OneChar
<1>3. Quoted(s) = (q \o F) \o q BY DEF Quoted, Encoded
<1>4. F \in Text
  <2>1. Encoded(s) \in Seq(Text) BY EncodedIs
  <2> QED BY <2>1, FlattenIs DEF Text
<1> HIDE DEF q, F
<1>5. q \o F \in Text /\ Len(q \o F) = Len(q) + Len(F) /\ Len(F) \in Nat BY <1>2, <1>4, TextOn
<1>6. (q \o F) \o q \in Text /\ Len((q \o F) \o q) = Len(q \o F) + Len(q) BY <1>2, <1>5, TextOn
<1> QED BY <1>2, <1>3, <1>5, <1>6

(* A column of a row, and with its comma. *)
Col(row, i) == (Quoted(Names[i]) \o <<":">>) \o Quoted(row[i])

(* The comma comes before all but the first. *)
Cell(row, i) == IF i > 1 THEN <<",">> \o Col(row, i) ELSE Col(row, i)

(* All of them. *)
Cells(row) == [i \in 1 .. Len(Names) |-> Cell(row, i)]

(* They are texts. *)
LEMMA CellsAre ==
  ASSUME NEW row \in FullRow
  PROVE  /\ Cells(row) \in Seq(Text) /\ Len(Cells(row)) = Len(Names)
         /\ \A i \in Columns : Col(row, i) \in Text /\ Cell(row, i) \in Text /\ Cells(row)[i] = Cell(row, i)
<1> DEFINE n == Len(Names)
<1>1. n \in Nat /\ Columns = 1 .. n BY ColumnsAre
<1>2. ASSUME NEW i \in Columns PROVE Col(row, i) \in Text /\ Cell(row, i) \in Text
  <2> DEFINE a == Quoted(Names[i])
             b == Quoted(row[i])
             k == <<":">>
             c == <<",">>
  <2>1. a \in Text /\ b \in Text
    <3>1. Names[i] \in Text /\ row[i] \in Text BY ColumnsAre DEF FullRow
    <3> QED BY <3>1, QuotedIs
  <2>2. k \in Text /\ c \in Text BY Texts, OneChar
  <2>3. Col(row, i) = (a \o k) \o b BY DEF Col
  <2> HIDE DEF a, b, k, c
  <2>4. a \o k \in Text BY <2>1, <2>2, TextOn
  <2>5. (a \o k) \o b \in Text BY <2>1, <2>4, TextOn
  <2>6. Col(row, i) \in Text BY <2>3, <2>5
  <2>7. c \o Col(row, i) \in Text BY <2>2, <2>6, TextOn
  <2> QED BY <2>6, <2>7 DEF Cell, c
<1>3. Cells(row) \in [1 .. n -> Text] BY <1>1, <1>2 DEF Cells
<1> HIDE DEF n
<1>4. Cells(row) \in Seq(Text) /\ Len(Cells(row)) = n BY <1>1, <1>3, SequenceIs
<1>5. \A i \in 1 .. n : Cells(row)[i] = Cell(row, i) BY DEF Cells, n
<1> QED BY <1>1, <1>2, <1>4, <1>5 DEF n

(* A whole row is its cells in braces. *)
LEMMA WholeRowIs ==
  ASSUME NEW row \in FullRow
  PROVE  WholeRow(row) = (<<"{">> \o FlattenSeq(Cells(row))) \o <<"}">>
<1> DEFINE n == Len(Names)
           fields == [i \in Columns |-> [name |-> Names[i], text |-> row[i]]]
           parts == [i \in 1 .. Len(fields) |->
                       (Quoted(fields[i].name) \o <<":">>) \o Quoted(fields[i].text)]
<1>1. n \in Nat /\ Columns = 1 .. n BY ColumnsAre
<1>2. Len(fields) = n /\ \A i \in 1 .. n : fields[i].name = Names[i] /\ fields[i].text = row[i]
  <2>1. fields \in [1 .. n -> [name : {Names[i] : i \in Columns}, text : {row[i] : i \in Columns}]] BY <1>1
  <2>2. \A i \in 1 .. n : fields[i].name = Names[i] /\ fields[i].text = row[i] BY <1>1
  <2> HIDE DEF n, fields
  <2>3. Len(fields) = n BY <1>1, <2>1, SequenceIs
  <2> QED BY <2>2, <2>3
<1>3. WholeRow(row) = (<<"{">> \o Joined(parts)) \o <<"}">> BY DEF WholeRow, Json
<1>4. parts = [i \in 1 .. n |-> Col(row, i)]
  <2> DEFINE part(i) == (Quoted(fields[i].name) \o <<":">>) \o Quoted(fields[i].text)
  <2>1. parts = [i \in 1 .. Len(fields) |-> part(i)] OBVIOUS
  <2> HIDE DEF fields
  <2>2. \A i \in 1 .. n : part(i) = Col(row, i) BY <1>2 DEF Col
  <2> HIDE DEF part, parts, n
  <2> QED BY <1>2, <2>1, <2>2
<1>5. Len(parts) = n /\ \A i \in 1 .. n : parts[i] = Col(row, i)
  <2>1. parts \in [1 .. n -> Text] BY <1>1, <1>4, CellsAre
  <2>2. \A i \in 1 .. n : parts[i] = Col(row, i) BY <1>4
  <2> HIDE DEF parts, n
  <2>3. Len(parts) = n BY <1>1, <2>1, SequenceIs
  <2> QED BY <2>2, <2>3
<1> HIDE DEF parts, n
<1>6. [i \in 1 .. Len(parts) |-> IF i > 1 THEN <<",">> \o parts[i] ELSE parts[i]]
        = [i \in 1 .. n |-> Cell(row, i)]
  BY <1>5 DEF Cell
<1>7. Joined(parts) = FlattenSeq(Cells(row)) BY <1>6 DEF Joined, Cells, n
<1> QED BY <1>3, <1>7

(* A column that fits is written whole after what separates it. *)
LEMMA ColumnWhole ==
  ASSUME NEW end \in Nat, NEW sep \in Written, NEW name \in Text, NEW text \in Text,
         Len(sep) + Len((Quoted(name) \o <<":">>) \o Quoted(text)) <= end
  PROVE  /\ Len(sep) < end /\ Len(AppendEscaped(sep, end, name)) + 1 < end
         /\ AppendEscaped(Append(AppendEscaped(sep, end, name), ":"), end, text)
              = sep \o ((Quoted(name) \o <<":">>) \o Quoted(text))
<1> DEFINE a == Quoted(name)
           b == Quoted(text)
           k == <<":">>
<1>1. a \in Text /\ b \in Text /\ Len(a) \in Nat /\ Len(b) \in Nat /\ Len(a) >= 2 /\ Len(b) >= 2 BY QuotedLong
<1>2. ":" \in Char BY Texts
<1>3. k \in Text /\ Len(k) = 1 /\ \A s \in Written : Append(s, ":") = s \o k BY <1>2, OneChar
<1>0. Len(sep) + Len((a \o k) \o b) <= end OBVIOUS
<1> HIDE DEF k
<1>4. a \in Written /\ b \in Written /\ k \in Written BY <1>1, <1>3, TextIsWritten
<1>5. AppendEscaped(sep, end, name) = sep \o a /\ Len(sep) < end /\ Len(sep \o a) + 1 < end
      /\ sep \o a \in Written /\ Len((sep \o a) \o k) + Len(b) <= end /\ (sep \o a) \o k \in Written
  <2>1. a \o k \in Written /\ Len(a \o k) = Len(a) + Len(k) BY <1>4, WrittenOn
  <2>2. Len((a \o k) \o b) = Len(a \o k) + Len(b) BY <1>4, <2>1, WrittenOn
  <2>3. sep \o a \in Written /\ Len(sep \o a) = Len(sep) + Len(a) /\ Len(sep) \in Nat BY <1>4, WrittenOn
  <2>4. (sep \o a) \o k \in Written /\ Len((sep \o a) \o k) = Len(sep \o a) + Len(k) BY <1>4, <2>3, WrittenOn
  <2> DEFINE ls == Len(sep)
             la == Len(a)
             lb == Len(b)
  <2>5. /\ ls \in Nat /\ la \in Nat /\ lb \in Nat /\ la >= 2 /\ lb >= 2 /\ ls + ((la + 1) + lb) <= end
        /\ Len(sep \o a) = ls + la /\ Len((sep \o a) \o k) = (ls + la) + 1
    BY <1>0, <1>1, <1>3, <2>1, <2>2, <2>3, <2>4
  <2> HIDE DEF ls, la, lb
  <2>6. ls + la <= end /\ ls < end /\ (ls + la) + 1 < end /\ ((ls + la) + 1) + lb <= end BY <2>5
  <2>7. Len(sep) + Len(Quoted(name)) <= end BY <2>6 DEF ls, la
  <2>8. AppendEscaped(sep, end, name) = sep \o a BY <2>7, AppendWhole
  <2> QED BY <2>3, <2>4, <2>5, <2>6, <2>8 DEF ls, lb
<1>6. AppendEscaped((sep \o a) \o k, end, text) = ((sep \o a) \o k) \o b
  <2> DEFINE u == (sep \o a) \o k
  <2>1. u \in Written /\ Len(u) + Len(Quoted(text)) <= end BY <1>5
  <2> HIDE DEF u
  <2>2. AppendEscaped(u, end, text) = u \o Quoted(text) BY <2>1, AppendWhole
  <2> QED BY <2>2 DEF u
<1> HIDE DEF a, b
<1>7. ((sep \o a) \o k) \o b = sep \o ((a \o k) \o b)
  <2>1. InTurn(sep, a, k) BY <1>4, Assoc
  <2> DEFINE u == a \o k
  <2>2. u \in Written BY <1>4, WrittenOn
  <2> HIDE DEF u
  <2>3. InTurn(sep, u, b) BY <1>4, <2>2, Assoc
  <2> QED BY <2>1, <2>3 DEF u, InTurn
<1>8. Append(sep \o a, ":") = (sep \o a) \o k BY <1>3, <1>5
<1> QED BY <1>5, <1>6, <1>7, <1>8 DEF a, b, k

(* A column that fits is written as its cell. *)
LEMMA PutColumnWhole ==
  ASSUME NEW end \in Nat, NEW row \in FullRow, NEW a \in Writing, ~a.stop, NEW i \in Columns,
         Len(a.text) + Len(Cell(row, i)) <= end
  PROVE  PutColumn(row, end, a, i).text = a.text \o Cell(row, i) /\ ~PutColumn(row, end, a, i).stop
<1> DEFINE sep == IF i > 1 THEN Append(a.text, ",") ELSE a.text
           named == AppendEscaped(sep, end, Names[i])
           value == AppendEscaped(Append(named, ":"), end, row[i])
           r == PutColumn(row, end, a, i)
           c == <<",">>
<1>1. a.text \in Written BY DEF Writing
<1>2. "," \in Char BY Texts
<1>3. Names[i] \in Text /\ row[i] \in Text BY ColumnsAre DEF FullRow
<1>4. r = IF a.stop \/ Len(a.text) >= end THEN [a EXCEPT !.stop = TRUE]
          ELSE IF Len(sep) >= end THEN [text |-> sep, stop |-> TRUE]
          ELSE IF Len(named) + 1 >= end THEN [text |-> named, stop |-> TRUE]
          ELSE [text |-> value, stop |-> FALSE]
  BY DEF PutColumn
<1>5. Col(row, i) \in Text BY CellsAre
<1>6. Col(row, i) \in Written BY <1>5, TextIsWritten
<1>7. c \in Written /\ Len(c) = 1 /\ Append(a.text, ",") = a.text \o c BY <1>1, <1>2, OneChar
<1>8. Cell(row, i) = IF i > 1 THEN c \o Col(row, i) ELSE Col(row, i) BY DEF Cell
<1> HIDE DEF c
<1>9. /\ sep \in Written /\ sep \o Col(row, i) = a.text \o Cell(row, i)
      /\ Len(sep) + Len(Col(row, i)) = Len(a.text) + Len(Cell(row, i)) /\ Len(a.text) <= Len(sep)
      /\ Len(sep) \in Nat /\ Len(a.text) \in Nat
  <2> DEFINE t == a.text
             d == Col(row, i)
  <2>0. t \in Written /\ d \in Written BY <1>1, <1>6
  <2> HIDE DEF t, d
  <2>1. t \o c \in Written /\ Len(t \o c) = Len(t) + 1 /\ Len(t) \in Nat
    <3>1. t \o c \in Written /\ Len(t \o c) = Len(t) + Len(c) /\ Len(t) \in Nat BY <1>7, <2>0, WrittenOn
    <3> QED BY <1>7, <3>1
  <2>2. c \o d \in Written /\ Len(c \o d) = 1 + Len(d) /\ Len(d) \in Nat BY <1>7, <2>0, WrittenOn
  <2>3. (t \o c) \o d = t \o (c \o d) BY <1>7, <2>0, Assoc DEF InTurn
  <2>4. CASE i > 1
    <3>1. sep = t \o c /\ Cell(row, i) = c \o d BY <1>7, <1>8, <2>4 DEF t, d
    <3> HIDE DEF sep
    <3>2. Len(t \o c) + Len(d) = Len(t) + Len(c \o d) /\ Len(t) <= Len(t \o c) /\ Len(t \o c) \in Nat BY <2>1, <2>2
    <3> QED BY <2>1, <2>3, <3>1, <3>2 DEF t, d
  <2>5. CASE ~(i > 1)
    <3>1. sep = t /\ Cell(row, i) = d BY <1>8, <2>5 DEF t, d
    <3> HIDE DEF sep
    <3>2. Len(t) <= Len(t) BY <2>1
    <3> QED BY <2>0, <2>1, <3>1, <3>2 DEF t, d
  <2> QED BY <2>4, <2>5
<1> HIDE DEF sep
<1>10. /\ Len(sep) < end /\ Len(named) + 1 < end
       /\ value = sep \o Col(row, i) /\ named \in Written
  <2>1. Len(sep) + Len((Quoted(Names[i]) \o <<":">>) \o Quoted(row[i])) <= end
    <3>1. Len(sep) + Len(Col(row, i)) <= end BY <1>9
    <3> QED BY <3>1 DEF Col
  <2>2. Grows(sep, named, end) BY <1>3, <1>9, AppendEscapedIs
  <2>3. named \in Written BY <2>2 DEF Grows
  <2> QED BY <1>3, <1>9, <2>1, <2>3, ColumnWhole DEF Col
<1> HIDE DEF named, value
<1>11. ~(Len(a.text) >= end) /\ ~(Len(sep) >= end) /\ ~(Len(named) + 1 >= end)
  <2>1. Len(named) \in Nat BY <1>10 DEF Written
  <2> QED BY <1>9, <1>10, <2>1
<1>12. r = [text |-> value, stop |-> FALSE] BY <1>4, <1>11
<1> QED BY <1>9, <1>10, <1>12

(* The loop over the columns of a row, after b, with room for them all.    *)
ListsFit(g, f, end, b, row) ==
  /\ end \in Nat /\ b \in Written /\ row \in FullRow
  /\ Lists(g, end, [text |-> b, stop |-> FALSE], row) /\ Pours(f, Cells(row), Char)
  /\ Len(b) + Len(f[Len(Names)]) <= end

(* It writes them all. *)
LEMMA ListsWhole ==
  ASSUME NEW g, NEW f, NEW end, NEW b, NEW row, ListsFit(g, f, end, b, row)
  PROVE  g[Len(Names)].text = b \o f[Len(Names)]
<1>0. /\ end \in Nat /\ b \in Written /\ row \in FullRow
      /\ Lists(g, end, [text |-> b, stop |-> FALSE], row) /\ Pours(f, Cells(row), Char)
      /\ Len(b) + Len(f[Len(Names)]) <= end
  BY DEF ListsFit
<1> DEFINE n == Len(Names)
           Good(k) == ~g[k].stop /\ g[k].text = b \o f[k]
           Bad == {k \in 0 .. n : ~Good(k)}
<1>1. /\ Cells(row) \in Seq(Text) /\ Len(Cells(row)) = n /\ n \in Nat /\ Columns = 1 .. n
      /\ \A i \in 1 .. n : Cell(row, i) \in Text /\ Cells(row)[i] = Cell(row, i)
  BY <1>0, CellsAre, ColumnsAre
<1>2. b \in Written /\ Len(b) \in Nat BY <1>0 DEF Written
<1>3. \A k \in 0 .. n : f[k] \in Text /\ Len(f[k]) \in Nat
  <2>1. f \in [0 .. n -> Seq(Char)] BY <1>0, <1>1 DEF Pours
  <2> HIDE DEF n
  <2>2. \A k \in 0 .. n : f[k] \in Seq(Char) BY <2>1
  <2> QED BY <2>2 DEF Text
<1>4. \A k \in 0 .. n : Len(f[k]) <= Len(f[n])
  <2> TAKE k \in 0 .. n
  <2>1. k \in 0 .. Len(Cells(row)) /\ n \in k .. Len(Cells(row)) BY <1>1
  <2> QED BY <1>0, <1>1, <2>1, PoursLonger DEF Text
<1>5. Good(0)
  <2>1. b \o <<>> = b BY <1>2, ConcatEmptySeq DEF Written
  <2> QED BY <1>0, <2>1 DEF Lists, Pours
<1> SUFFICES ASSUME Bad # {} PROVE FALSE
  <2>1. n \in 0 .. n BY <1>1
  <2> QED BY <2>1
<1>6. Bad \in SUBSET Nat
  <2> HIDE DEF Good
  <2> QED BY <1>1
<1>7. PICK k \in Bad : \A i \in Bad : k <= i
  <2> HIDE DEF Bad
  <2> QED BY <1>6, LeastNumber
<1>8. k \in 0 .. n /\ ~Good(k) /\ k # 0 BY <1>5
<1>9. k - 1 \in 0 .. n /\ k \in 1 .. n /\ ~(k <= k - 1) BY <1>1, <1>8
<1>10. Good(k - 1) BY <1>7, <1>9
<1> HIDE DEF Bad, n
<1>11. g[k - 1] \in Writing /\ g[k] = PutColumn(row, end, g[k - 1], k) /\ k \in Columns
  BY <1>0, <1>1, <1>9 DEF Lists, n
<1>12. f[k] = f[k - 1] \o Cell(row, k) BY <1>0, <1>1, <1>9 DEF Pours
<1> DEFINE e == Cell(row, k)
           p == f[k - 1]
<1>13. e \in Text BY <1>1, <1>9
<1>14. p \in Text /\ b \in Written BY <1>2, <1>3, <1>9
<1>15. e \in Written /\ p \in Written BY <1>13, <1>14, TextIsWritten
<1>16. f[k] = p \o e BY <1>12
<1>17. g[k - 1].text = b \o p BY <1>10
<1> HIDE DEF e, p
<1>18. /\ Len(b \o p) = Len(b) + Len(p) /\ Len(p \o e) = Len(p) + Len(e) /\ (b \o p) \o e = b \o (p \o e)
       /\ Len(e) \in Nat
  BY <1>14, <1>15, WrittenOn, Assoc DEF InTurn
<1>19. Len(f[k]) <= Len(f[n]) /\ Len(f[n]) \in Nat /\ Len(p) \in Nat /\ Len(b) \in Nat
  <2>1. n \in 0 .. n BY <1>1
  <2> QED BY <1>2, <1>3, <1>4, <1>8, <1>9, <2>1 DEF p
<1>20. Len(g[k - 1].text) + Len(e) <= end
  <2>1. Len(b) + Len(f[n]) <= end BY <1>0 DEF n
  <2> QED BY <1>0, <1>16, <1>17, <1>18, <1>19, <2>1
<1>21. /\ PutColumn(row, end, g[k - 1], k).text = g[k - 1].text \o e
       /\ ~PutColumn(row, end, g[k - 1], k).stop
  BY <1>0, <1>10, <1>11, <1>20, PutColumnWhole DEF e
<1> QED BY <1>8, <1>11, <1>16, <1>17, <1>18, <1>21

(* orbit_db_row_to_json writes a row whole when there are two bytes more   *)
(* than it needs.                                                          *)
LEMMA RowWhole ==
  ASSUME NEW row \in FullRow, NEW max \in Nat, Len(WholeRow(row)) <= max - 2
  PROVE  RowToJson(row, max) = WholeRow(row) /\ WholeRow(row) \in Text
<1> DEFINE end == EndOf(max)
           open == <<"{">>
           close == <<"}">>
           base == [text |-> open, stop |-> FALSE]
           w == FoldLeft(LAMBDA acc, i : PutColumn(row, end, acc, i), base, [i \in Columns |-> i])
           r == RowToJson(row, max)
           F == FlattenSeq(Cells(row))
<1>1. r = IF max < 3 THEN <<>> ELSE IF Len(w.text) < end THEN Append(w.text, "}") ELSE w.text
  BY DEF RowToJson
<1>2. "{" \in Char /\ "}" \in Char BY Texts
<1>3. /\ open \in Text /\ open \in Written /\ Len(open) = 1 /\ close \in Text /\ close \in Written
      /\ Len(close) = 1 /\ \A s \in Written : Append(s, "}") = s \o close
  BY <1>2, OneChar
<1>4. base \in Writing /\ base.text = open BY <1>3 DEF Writing
<1>5. WholeRow(row) = (open \o F) \o close BY WholeRowIs
<1>6. Cells(row) \in Seq(Text) /\ Len(Cells(row)) = Len(Names) BY CellsAre
<1>7. F \in Text BY <1>6, FlattenIs DEF Text
<1>8. PICK f : Pours(f, Cells(row), Char) /\ f[Len(Names)] = F BY <1>6, FlattenPours DEF Text
<1> HIDE DEF open, close, F, base, r
<1>9. open \o F \in Text /\ Len(open \o F) = 1 + Len(F) /\ Len(F) \in Nat
  <2>1. open \o F \in Text /\ Len(open \o F) = Len(open) + Len(F) /\ Len(F) \in Nat BY <1>3, <1>7, TextOn
  <2> QED BY <1>3, <2>1
<1>10. (open \o F) \o close \in Text /\ Len((open \o F) \o close) = Len(open \o F) + 1
  <2> DEFINE u == open \o F
  <2>0. u \in Text BY <1>9
  <2> HIDE DEF u
  <2>1. u \o close \in Text /\ Len(u \o close) = Len(u) + Len(close) BY <1>3, <2>0, TextOn
  <2> QED BY <1>3, <2>1 DEF u
<1>11. ~(max < 3) /\ Len(open \o F) < max - 2 /\ 1 + Len(F) <= max - 2
  <2> DEFINE l == Len(F)
             m == Len(open \o F)
  <2>1. l \in Nat /\ m = 1 + l /\ m + 1 <= max - 2 BY <1>5, <1>9, <1>10
  <2> HIDE DEF l, m
  <2>2. ~(max < 3) /\ m < max - 2 /\ 1 + l <= max - 2 BY <2>1
  <2> QED BY <2>2 DEF l, m
<1>12. end \in Nat /\ end = max - 2 BY <1>11 DEF EndOf
<1> HIDE DEF end
<1>13. PICK g : Lists(g, end, base, row) /\ w = g[Len(Names)] BY <1>4, <1>12, ListGoes
<1> HIDE DEF w
<1>14. Len(open) + Len(f[Len(Names)]) <= end BY <1>3, <1>8, <1>11, <1>12
<1>15. g[Len(Names)].text = open \o f[Len(Names)]
  <2>1. Lists(g, end, [text |-> open, stop |-> FALSE], row) BY <1>13 DEF base
  <2>2. ListsFit(g, f, end, open, row) BY <1>3, <1>8, <1>12, <1>14, <2>1 DEF ListsFit
  <2> QED BY <2>2, ListsWhole
<1>16. w.text = open \o F BY <1>8, <1>13, <1>15
<1>17. open \o F \in Written BY <1>9, TextIsWritten
<1>18. r = (open \o F) \o close BY <1>1, <1>3, <1>11, <1>12, <1>16, <1>17
<1> QED BY <1>5, <1>10, <1>18 DEF r

(* A text without a zero is what a C string of it holds. *)
LEMMA CStringText == ASSUME NEW t \in Text PROVE CString(t) = t
<1> DEFINE I == {i \in 1 .. Len(t) : t[i] = "NUL"}
           zero == SelectInSeq(t, LAMBDA x : x = "NUL")
<1>1. \A i \in 1 .. Len(t) : t[i] \in Char BY ElementOfSeq DEF Text
<1>2. I = {} BY <1>1, Texts
<1>3. zero = IF I # {} THEN Min(I) ELSE 0 BY DEF SelectInSeq
<1>4. zero = 0 BY <1>2, <1>3
<1>5. CString(t) = IF zero = 0 THEN t ELSE SubSeq(t, 1, zero - 1) BY DEF CString
<1> QED BY <1>4, <1>5

(* One part more, after a comma if there are others. *)
LEMMA JoinedMore ==
  ASSUME NEW parts \in Seq(Text), NEW p \in Text
  PROVE  Joined(Append(parts, p)) =
           IF parts = <<>> THEN p ELSE Joined(parts) \o (<<",">> \o p)
<1> DEFINE n == Len(parts)
           c == <<",">>
           more == Append(parts, p)
           piece(q, i) == IF i > 1 THEN c \o q[i] ELSE q[i]
           seqs == [i \in 1 .. n |-> piece(parts, i)]
           x == IF n + 1 > 1 THEN c \o p ELSE p
<1>1. n \in Nat /\ (parts = <<>> <=> n = 0) OBVIOUS
<1>2. \A i \in 1 .. n : parts[i] \in Text BY ElementOfSeq
<1>3. c \in Text BY Texts, OneChar
<1>4. /\ more \in Seq(Text) /\ Len(more) = n + 1 /\ more[n + 1] = p
      /\ \A i \in 1 .. n : more[i] = parts[i]
  OBVIOUS
<1>5. Joined(parts) = FlattenSeq(seqs) /\ Joined(more) = FlattenSeq([i \in 1 .. Len(more) |-> piece(more, i)])
  BY DEF Joined
<1> HIDE DEF c, more
<1>6. seqs \in Seq(Text) /\ Len(seqs) = n
  <2>1. \A i \in 1 .. n : c \o parts[i] \in Text BY <1>2, <1>3, TextOn
  <2>2. seqs \in [1 .. n -> Text] BY <1>2, <2>1
  <2> HIDE DEF seqs, n
  <2> QED BY <1>1, <2>2, SequenceIs
<1>7. c \o p \in Text BY <1>3, TextOn
<1>8. x \in Text BY <1>7
<1>9. [i \in 1 .. Len(more) |-> piece(more, i)] = Append(seqs, x)
  <2> DEFINE a == [i \in 1 .. n + 1 |-> piece(more, i)]
             b == Append(seqs, x)
  <2>1. b \in Seq(Text) /\ Len(b) = n + 1 /\ b[n + 1] = x /\ \A i \in 1 .. n : b[i] = seqs[i]
    <3> HIDE DEF seqs, x
    <3> QED BY <1>6, <1>8
  <2>2. \A i \in 1 .. n : a[i] = seqs[i] BY <1>1, <1>4
  <2>3. a[n + 1] = x BY <1>1, <1>4
  <2>4. b = [i \in 1 .. n + 1 |-> b[i]] BY <2>1
  <2> HIDE DEF b, n, seqs, x, piece
  <2>5. \A i \in 1 .. n + 1 : a[i] = b[i]
    <3>1. \A i \in 1 .. n + 1 : i \in 1 .. n \/ i = n + 1 BY <1>1
    <3> HIDE DEF a
    <3> QED BY <2>1, <2>2, <2>3, <3>1
  <2>6. a = b BY <2>4, <2>5
  <2>7. [i \in 1 .. Len(more) |-> piece(more, i)] = a BY <1>4
  <2> HIDE DEF a
  <2> QED BY <2>6, <2>7 DEF b
<1>10. FlattenSeq(Append(seqs, x)) = FlattenSeq(seqs) \o x
  <2> HIDE DEF seqs, x
  <2> QED BY <1>6, <1>8, FlattenMore DEF Text
<1>11. CASE n = 0
  <2>1. x = p BY <1>11
  <2>2. seqs = <<>> BY <1>11
  <2>3. FlattenSeq(seqs) = <<>>
    <3> HIDE DEF seqs, x, n
    <3>1. seqs \in Seq(Seq(Char)) /\ Len(seqs) = 0 BY <1>6, <1>11 DEF Text
    <3>2. PICK f : Pours(f, seqs, Char) /\ f[Len(seqs)] = FlattenSeq(seqs) BY <3>1, FlattenPours
    <3> QED BY <3>1, <3>2 DEF Pours
  <2>4. <<>> \o p = p BY ConcatEmptySeq DEF Text
  <2> HIDE DEF seqs, x, n, piece
  <2> QED BY <1>1, <1>5, <1>9, <1>10, <1>11, <2>1, <2>3, <2>4 DEF more
<1>12. CASE n # 0
  <2>1. x = c \o p BY <1>1, <1>12
  <2> HIDE DEF seqs, x, n, piece
  <2> QED BY <1>1, <1>5, <1>9, <1>10, <1>12, <2>1 DEF more, c
<1> QED BY <1>11, <1>12

(* A row as JSON is a text. *)
LEMMA WholeRowText == ASSUME NEW row \in FullRow PROVE WholeRow(row) \in Text
<1> DEFINE a == <<"{">>
           F == FlattenSeq(Cells(row))
           z == <<"}">>
<1>1. a \in Text /\ z \in Text BY Texts, OneChar
<1>2. F \in Text
  <2>1. Cells(row) \in Seq(Text) BY CellsAre
  <2> QED BY <2>1, FlattenIs DEF Text
<1>3. WholeRow(row) = (a \o F) \o z BY WholeRowIs
<1> HIDE DEF a, F, z
<1>4. a \o F \in Text BY <1>1, <1>2, TextOn
<1>5. (a \o F) \o z \in Text BY <1>1, <1>4, TextOn
<1> QED BY <1>3, <1>5

(* Rows as JSON, and that each of them fits into the reserve. *)
Wholes(rows) == [i \in 1 .. Len(rows) |-> WholeRow(rows[i])]

(* Three bytes are lost: one for the comma, two that row_to_json leaves. *)
AllFit(rows) == \A i \in 1 .. Len(rows) : Len(WholeRow(rows[i])) <= Reserve - 3

(* The array of them, still open. *)
ArrayOf(rows) == <<"[">> \o Joined(Wholes(rows))

(* They are texts. *)
LEMMA WholesAre ==
  ASSUME NEW rows \in Seq(FullRow)
  PROVE  Wholes(rows) \in Seq(Text) /\ Len(Wholes(rows)) = Len(rows) /\ ArrayOf(rows) \in Text
<1> DEFINE n == Len(rows)
<1>1. n \in Nat /\ \A i \in 1 .. n : rows[i] \in FullRow BY ElementOfSeq
<1>2. Wholes(rows) \in [1 .. n -> Text] BY <1>1, WholeRowText DEF Wholes
<1> HIDE DEF n
<1>3. Wholes(rows) \in Seq(Text) /\ Len(Wholes(rows)) = n BY <1>1, <1>2, SequenceIs
<1>4. Joined(Wholes(rows)) \in Text BY <1>3, JoinedIs
<1>5. <<"[">> \in Text BY Texts, OneChar
<1>6. <<"[">> \o Joined(Wholes(rows)) \in Text BY <1>4, <1>5, TextOn
<1> QED BY <1>3, <1>6 DEF ArrayOf, n

(* One row more. *)
LEMMA WholesMore ==
  ASSUME NEW rows \in Seq(FullRow), NEW row \in FullRow
  PROVE  /\ Append(rows, row) \in Seq(FullRow) /\ Append(rows, row) # <<>>
         /\ Wholes(Append(rows, row)) = Append(Wholes(rows), WholeRow(row))
         /\ AllFit(Append(rows, row)) => AllFit(rows) /\ Len(WholeRow(row)) <= Reserve - 3
<1> DEFINE n == Len(rows)
           more == Append(rows, row)
           a == Wholes(more)
           b == Append(Wholes(rows), WholeRow(row))
<1>1. /\ n \in Nat /\ more \in Seq(FullRow) /\ Len(more) = n + 1 /\ more[n + 1] = row
      /\ \A i \in 1 .. n : more[i] = rows[i]
  OBVIOUS
<1>2. more # <<>> BY <1>1
<1>3. Wholes(rows) \in Seq(Text) /\ Len(Wholes(rows)) = n BY WholesAre
<1>4. WholeRow(row) \in Text BY WholeRowText
<1> HIDE DEF more
<1>5. a \in Seq(Text) /\ Len(a) = n + 1 BY <1>1, WholesAre
<1>6. /\ b \in Seq(Text) /\ Len(b) = n + 1 /\ b[n + 1] = WholeRow(row)
      /\ \A i \in 1 .. n : b[i] = Wholes(rows)[i]
  BY <1>3, <1>4
<1>7. \A i \in 1 .. n + 1 : a[i] = WholeRow(more[i]) BY <1>1 DEF Wholes
<1>8. \A i \in 1 .. n : Wholes(rows)[i] = WholeRow(rows[i]) BY DEF Wholes
<1>9. \A i \in 1 .. n + 1 : i \in 1 .. n \/ i = n + 1 BY <1>1
<1>10. \A i \in 1 .. n : i \in 1 .. n + 1 BY <1>1
<1>11. n + 1 \in 1 .. n + 1 BY <1>1
<1> HIDE DEF n, a, b
<1>12. \A i \in 1 .. n + 1 : a[i] = b[i] BY <1>1, <1>6, <1>7, <1>8, <1>9, <1>10
<1>13. a = b BY <1>5, <1>6, <1>12, SeqEqual
<1>14. AllFit(more) => AllFit(rows) /\ Len(WholeRow(row)) <= Reserve - 3
  BY <1>1, <1>10, <1>11 DEF AllFit, n
<1> QED BY <1>1, <1>2, <1>13, <1>14 DEF a, b, more, n

(* What the answer of a read says of the rows it passed. *)
Answers(rows, res) ==
  /\ rows # <<>> /\ Head(res) = "{" /\ Len(WholeRow(rows[1])) <= FixedCap - 2 => res = WholeRow(rows[1])
  /\ rows # <<>> /\ Head(res) = "[" /\ AllFit(rows) => res = ArrayOf(rows) \o <<"]">>

(* A worker at a place, that has passed rows, has text in its buffer and   *)
(* last answered res: until a read begins it has passed none; while a scan *)
(* goes on the buffer holds the array of them.                             *)
ReadWhole(place, rows, text, res) ==
  /\ rows \in Seq(FullRow)
  /\ place \in {"run", "changes"} => rows = <<>>
  /\ place = "scan" /\ AllFit(rows) => text = ArrayOf(rows)
  /\ place = "idle" => Answers(rows, res)

(* So it is with every worker. *)
ReadsWhole ==
  /\ DOMAIN seen = Workers
  /\ \A w \in Workers : ReadWhole(dbPc[w], seen[w], out[w].text, result[w])

(* Nothing was read. *)
LEMMA NothingRead ==
  ASSUME NEW place, place # "scan", NEW text, NEW res
  PROVE  ReadWhole(place, <<>>, text, res)
<1>1. <<>> \in Seq(FullRow) OBVIOUS
<1> QED BY <1>1 DEF ReadWhole, Answers

(* A scan has passed nothing yet. *)
LEMMA ScanBegun == ASSUME NEW res PROVE ReadWhole("scan", <<>>, <<"[">>, res)
<1> DEFINE o == <<"[">>
<1>1. <<>> \in Seq(FullRow) /\ <<>> \in Seq(Seq(Char)) OBVIOUS
<1>2. Wholes(<<>>) = <<>>
  <2>1. Wholes(<<>>) \in Seq(Text) /\ Len(Wholes(<<>>)) = 0 BY <1>1, WholesAre, EmptySeq
  <2> QED BY <2>1, EmptySeq
<1>3. Joined(<<>>) = <<>>
  <2> DEFINE none == [i \in 1 .. Len(<<>>) |-> IF i > 1 THEN <<",">> \o (<<>>)[i] ELSE (<<>>)[i]]
  <2>1. Joined(<<>>) = FlattenSeq(none) BY DEF Joined
  <2>2. none \in Seq(Seq(Char)) /\ Len(none) = 0 OBVIOUS
  <2> HIDE DEF none
  <2>3. PICK f : Pours(f, none, Char) /\ f[Len(none)] = FlattenSeq(none) BY <2>2, FlattenPours
  <2> QED BY <2>1, <2>2, <2>3 DEF Pours
<1>4. o \in Text BY Texts, OneChar
<1>5. o \o <<>> = o BY <1>4, ConcatEmptySeq DEF Text
<1>6. ArrayOf(<<>>) = o BY <1>2, <1>3, <1>5 DEF ArrayOf
<1> QED BY <1>1, <1>6 DEF ReadWhole

(* The room after a comma, for a row three bytes shorter than the reserve. *)
LEMMA RoomAfterComma ==
  ASSUME NEW l, NEW t \in Nat, NEW m \in Nat, NEW cap \in Nat, NEW r \in Nat,
         l = t \/ l = t + 1, t + r <= cap, m <= r - 3, 3 <= r
  PROVE  cap - l \in Nat /\ m <= (cap - l) - 2
OBVIOUS

(* What is in the buffer when a row is written: a comma after the others. *)
SoFar(rows, text) == IF rows = <<>> THEN text ELSE Append(text, ",")

(* A row goes behind the others, whole if there is the reserve for it. *)
LEMMA ScanOn ==
  ASSUME NEW rows, NEW text \in Written, NEW res, ReadWhole("scan", rows, text, res),
         NEW row \in FullRow, NEW cap \in Nat, Len(text) + Reserve <= cap
  PROVE  LET before == SoFar(rows, text)
         IN  ReadWhole("scan", Append(rows, row), before \o RowToJson(row, cap - Len(before)), res)
<1> DEFINE before == SoFar(rows, text)
           more == Append(rows, row)
           p == WholeRow(row)
           parts == Wholes(rows)
           o == <<"[">>
           c == <<",">>
           room == cap - Len(before)
<1>1. rows \in Seq(FullRow) /\ (AllFit(rows) => text = ArrayOf(rows)) BY DEF ReadWhole
<1>2. /\ more \in Seq(FullRow) /\ more # <<>> /\ Wholes(more) = Append(parts, p)
      /\ AllFit(more) => AllFit(rows) /\ Len(p) <= Reserve - 3
  BY <1>1, WholesMore
<1>3. p \in Text /\ p \in Written /\ parts \in Seq(Text) /\ Len(parts) = Len(rows)
  BY <1>1, WholeRowText, TextIsWritten, WholesAre
<1>4. o \in Text /\ c \in Text /\ o \in Written /\ c \in Written /\ Len(c) = 1
  BY Texts, OneChar
<1>5. Append(text, ",") = text \o c BY Texts, OneChar
<1> SUFFICES ASSUME AllFit(more) PROVE before \o RowToJson(row, room) = ArrayOf(more)
  BY <1>2 DEF ReadWhole
<1>6. text = ArrayOf(rows) /\ Len(p) <= Reserve - 3 BY <1>1, <1>2
<1>7. room \in Nat /\ Len(p) <= room - 2
  <2>1. Reserve \in Nat /\ 3 <= Reserve BY DbAssumption
  <2>2. Len(text) \in Nat /\ Len(p) \in Nat BY <1>3, WrittenOn
  <2>3. Len(text \o c) = Len(text) + 1 BY <1>4, WrittenOn
  <2>4. before = text \/ before = text \o c BY <1>5 DEF SoFar
  <2> DEFINE l == Len(before)
             t == Len(text)
             m == Len(p)
  <2>5. l = t \/ l = t + 1 BY <2>3, <2>4
  <2>6. t \in Nat /\ m \in Nat /\ t + Reserve <= cap /\ m <= Reserve - 3 BY <1>6, <2>2
  <2> HIDE DEF l, t, m, before
  <2>7. cap - l \in Nat /\ m <= (cap - l) - 2 BY <2>1, <2>5, <2>6, RoomAfterComma
  <2> QED BY <2>7 DEF l, m
<1> HIDE DEF room, before
<1>8. RowToJson(row, room) = p BY <1>7, RowWhole
<1> DEFINE J == Joined(parts)
<1>9. Joined(Wholes(more)) = IF parts = <<>> THEN p ELSE J \o (c \o p) BY <1>2, <1>3, JoinedMore
<1>10. J \in Text /\ J \in Written BY <1>3, JoinedIs, TextIsWritten
<1>11. text = o \o J BY <1>6 DEF ArrayOf
<1>12. ArrayOf(more) = o \o Joined(Wholes(more)) BY DEF ArrayOf
<1>13. rows = <<>> <=> parts = <<>>
  <2>1. rows = <<>> <=> Len(rows) = 0 BY <1>1, EmptySeq
  <2>2. parts = <<>> <=> Len(parts) = 0 BY <1>3, EmptySeq
  <2> QED BY <1>3, <2>1, <2>2
<1>14. CASE rows = <<>>
  <2>1. text = o
    <3>1. ReadWhole("scan", <<>>, o, res) BY ScanBegun
    <3>2. AllFit(<<>>) BY <1>2, <1>14
    <3>3. o = ArrayOf(<<>>) BY <3>1, <3>2 DEF ReadWhole
    <3> QED BY <1>6, <1>14, <3>3
  <2> HIDE DEF p, o, c, J, parts, more
  <2>2. before = text BY <1>14 DEF SoFar, before
  <2> QED BY <1>8, <1>9, <1>12, <1>13, <1>14, <2>1, <2>2
<1>15. CASE rows # <<>>
  <2> HIDE DEF p, o, c, J, parts, more
  <2>1. before = (o \o J) \o c BY <1>5, <1>11, <1>15 DEF SoFar, before
  <2>2. o \in Written /\ J \in Written /\ c \in Written /\ p \in Written BY <1>3, <1>4, <1>10
  <2> DEFINE v == J \o c
  <2>3. v \in Written BY <2>2, WrittenOn
  <2>4. InTurn(o, J, c) /\ InTurn(J, c, p) BY <2>2, Assoc
  <2> HIDE DEF v
  <2>5. InTurn(o, v, p) BY <2>2, <2>3, Assoc
  <2>6. before \o p = o \o (J \o (c \o p)) BY <2>1, <2>4, <2>5 DEF v, InTurn
  <2> QED BY <1>8, <1>9, <1>12, <1>13, <1>15, <2>6
<1> QED BY <1>14, <1>15

(* The array is closed; a zero would cut it, but a text has none. *)
LEMMA ScanEnded ==
  ASSUME NEW rows, NEW text \in Written, NEW old, ReadWhole("scan", rows, text, old),
         NEW any, CString(Append(text, "]"))[1] = "[", CString(Append(text, "]")) # <<>>
  PROVE  ReadWhole("idle", rows, any, CString(Append(text, "]")))
<1> DEFINE res == CString(Append(text, "]"))
           z == <<"]">>
<1>1. rows \in Seq(FullRow) /\ (AllFit(rows) => text = ArrayOf(rows)) BY DEF ReadWhole
<1>2. z \in Text /\ Append(text, "]") = text \o z BY Texts, OneChar
<1>3. Head(res) = "[" /\ "[" # "{" OBVIOUS
<1>4. ASSUME AllFit(rows) PROVE res = ArrayOf(rows) \o z
  <2>1. text \in Text BY <1>1, <1>4, WholesAre
  <2>2. text \o z \in Text BY <1>2, <2>1, TextOn
  <2>3. CString(text \o z) = text \o z BY <2>2, CStringText
  <2> QED BY <1>1, <1>2, <1>4, <2>3
<1> HIDE DEF res
<1>5. Answers(rows, res) BY <1>3, <1>4 DEF Answers
<1>6. ReadWhole("idle", rows, any, res) BY <1>1, <1>5 DEF ReadWhole
<1> QED BY <1>6 DEF res

(* One row, in the buffer for one. *)
LEMMA GetWhole ==
  ASSUME NEW row \in FullRow, NEW any
  PROVE  ReadWhole("idle", <<row>>, any, CString(RowToJson(row, FixedCap)))
<1> DEFINE text == RowToJson(row, FixedCap)
           res == CString(text)
           rows == <<row>>
<1>1. FixedCap \in Nat /\ FixedCap >= 3 BY DbAssumption
<1>2. /\ text \in Written /\ Len(text) \in Nat /\ Len(text) \in 1 .. FixedCap - 2 /\ text[1] = "{"
  BY <1>1, RowToJsonIs
<1>3. res[1] = "{"
  <2> HIDE DEF text
  <2> DEFINE n == Len(text)
  <2>0. n \in 1 .. FixedCap - 2 BY <1>2
  <2> HIDE DEF n
  <2>1. n >= 1 BY <1>1, <2>0
  <2>2. text[1] # "NUL" BY <1>2
  <2> QED BY <1>2, <2>1, <2>2, CStringIs DEF n
<1>4. Head(res) = "{" /\ "[" # "{"
  <2>1. Head(res) = res[1]
    <3> HIDE DEF res
    <3> QED OBVIOUS
  <2> QED BY <1>3, <2>1
<1>5. rows \in Seq(FullRow) /\ rows[1] = row OBVIOUS
<1>6. ASSUME Len(WholeRow(row)) <= FixedCap - 2 PROVE res = WholeRow(row)
  <2>1. text = WholeRow(row) /\ WholeRow(row) \in Text BY <1>1, <1>6, RowWhole
  <2> HIDE DEF text
  <2> QED BY <2>1, CStringText
<1> HIDE DEF res, rows
<1>7. Answers(rows, res) BY <1>4, <1>5, <1>6 DEF Answers
<1>8. ReadWhole("idle", rows, any, res) BY <1>5, <1>7 DEF ReadWhole
<1> QED BY <1>8 DEF res, rows

(* Every step keeps reads whole: a step of one worker touches the buffer,  *)
(* the rows and the answer of no other, whatever it does to the table.     *)
LEMMA ReadsStayWhole ==
  ASSUME DbTypes, RoomLeft, ReadsWhole, NEW w \in Workers, DbStep(w)
  PROVE  ReadsWhole'
<1>0. /\ DOMAIN dbPc = Workers /\ DOMAIN seen = Workers /\ DOMAIN result = Workers
      /\ DOMAIN out = Workers /\ \A v \in Workers : out[v] \in Buffer
  BY DEF DbTypes, ReadsWhole
<1>1. \A v \in Workers : ReadWhole(dbPc[v], seen[v], out[v].text, result[v]) BY DEF ReadsWhole
<1>2. ASSUME DOMAIN seen' = Workers,
             ReadWhole(dbPc'[w], seen'[w], out'[w].text, result'[w]),
             \A v \in Workers \ {w} : /\ dbPc'[v] = dbPc[v] /\ seen'[v] = seen[v]
                                      /\ out'[v] = out[v] /\ result'[v] = result[v]
      PROVE  ReadsWhole'
  <2>1. ASSUME NEW v \in Workers PROVE ReadWhole(dbPc'[v], seen'[v], out'[v].text, result'[v])
    <3>1. CASE v = w BY <1>2, <3>1
    <3>2. CASE v # w BY <1>1, <1>2, <3>2
    <3> QED BY <3>1, <3>2
  <2> QED BY <1>2, <2>1 DEF ReadsWhole
<1>3. ASSUME NEW place, place # "scan", seen'[w] = <<>>, dbPc' = [dbPc EXCEPT ![w] = place],
             DOMAIN seen' = Workers,
             \A v \in Workers \ {w} : seen'[v] = seen[v] /\ out'[v] = out[v] /\ result'[v] = result[v]
      PROVE  ReadsWhole'
  <2>1. dbPc'[w] = place /\ \A v \in Workers \ {w} : dbPc'[v] = dbPc[v] BY <1>0, <1>3
  <2>2. ReadWhole(dbPc'[w], seen'[w], out'[w].text, result'[w]) BY <1>3, <2>1, NothingRead
  <2> QED BY <1>2, <1>3, <2>1, <2>2
<1>4. ASSUME dbPc[w] \in {"run", "changes"}, seen' = seen
      PROVE  seen'[w] = <<>> /\ DOMAIN seen' = Workers
  BY <1>0, <1>1, <1>4 DEF ReadWhole
<1>5. CASE \E q \in Queries : Begin(w, q)
  <2>1. /\ dbPc' = [dbPc EXCEPT ![w] = "run"] /\ seen' = [seen EXCEPT ![w] = <<>>]
        /\ out' = [out EXCEPT ![w] = NoBuffer] /\ result' = [result EXCEPT ![w] = <<>>]
    BY <1>5 DEF Begin
  <2>2. /\ seen'[w] = <<>> /\ DOMAIN seen' = Workers
        /\ \A v \in Workers \ {w} : seen'[v] = seen[v] /\ out'[v] = out[v] /\ result'[v] = result[v]
    BY <1>0, <2>1
  <2> QED BY <1>3, <2>1, <2>2
<1>6. ASSUME NEW text, Return(w, text), dbPc[w] \in {"run", "changes"}, UNCHANGED <<out, seen>>
      PROVE  ReadsWhole'
  <2>1. seen'[w] = <<>> /\ DOMAIN seen' = Workers BY <1>4, <1>6
  <2>2. dbPc' = [dbPc EXCEPT ![w] = "idle"] /\ result' = [result EXCEPT ![w] = text] BY <1>6 DEF Return
  <2>3. \A v \in Workers \ {w} : seen'[v] = seen[v] /\ out'[v] = out[v] /\ result'[v] = result[v]
    BY <1>0, <1>6, <2>2
  <2> QED BY <1>3, <2>1, <2>2, <2>3
<1>7. ASSUME dbPc' = [dbPc EXCEPT ![w] = "changes"], dbPc[w] = "run", UNCHANGED <<out, seen, result>>
      PROVE  ReadsWhole'
  <2>1. seen'[w] = <<>> /\ DOMAIN seen' = Workers BY <1>4, <1>7
  <2> QED BY <1>3, <1>7, <2>1
<1>8. CASE Refused(w) BY <1>6, <1>8 DEF Refused
<1>9. CASE Add(w) BY <1>6, <1>9 DEF Add
<1>17. CASE WriteFails(w) BY <1>6, <1>17 DEF WriteFails
<1>10. CASE Set(w) BY <1>6, <1>7, <1>10 DEF Set
<1>11. CASE Del(w) BY <1>7, <1>11 DEF Del
<1>12. CASE ReadChanges(w) BY <1>6, <1>12 DEF ReadChanges
<1>13. CASE Get(w)
  <2> DEFINE rows == WithKey(query[w].id)
             row == table[Min(rows)]
             text == RowToJson(row, FixedCap)
             b == [text |-> text, cap |-> FixedCap]
  <2>0. dbPc[w] = "run" BY <1>13 DEF Get
  <2>1. CASE rows = {} BY <1>6, <1>13, <2>0, <2>1 DEF Get
  <2>2. CASE rows # {}
    <3>1. row \in FullRow
      <4>1. rows \in SUBSET Nat BY RowsAre, RowIdsAre DEF WithKey
      <4>2. Min(rows) \in rows
        <5> HIDE DEF rows
        <5> QED BY <2>2, <4>1, MinIsLeast
      <4> QED BY <4>2, RowsAre DEF WithKey
    <3>2. /\ out' = [out EXCEPT ![w] = b] /\ seen' = [seen EXCEPT ![w] = <<row>>]
          /\ dbPc' = [dbPc EXCEPT ![w] = "idle"] /\ result' = [result EXCEPT ![w] = CString(text)]
      BY <1>13, <2>2 DEF Get, Return
    <3> HIDE DEF row, text, b
    <3>3. ReadWhole("idle", <<row>>, out'[w].text, CString(text)) BY <3>1, GetWhole DEF text
    <3>4. /\ dbPc'[w] = "idle" /\ seen'[w] = <<row>> /\ result'[w] = CString(text) /\ DOMAIN seen' = Workers
          /\ \A v \in Workers \ {w} : /\ dbPc'[v] = dbPc[v] /\ seen'[v] = seen[v]
                                      /\ out'[v] = out[v] /\ result'[v] = result[v]
      BY <1>0, <3>2
    <3> QED BY <1>2, <3>3, <3>4
  <2> QED BY <2>1, <2>2
<1>14. CASE ScanBegin(w)
  <2>1. /\ out' = [out EXCEPT ![w] = [text |-> <<"[">>, cap |-> InitialCap]]
        /\ dbPc' = [dbPc EXCEPT ![w] = "scan"] /\ UNCHANGED <<seen, result>> /\ dbPc[w] = "run"
    BY <1>14 DEF ScanBegin
  <2>2. seen'[w] = <<>> /\ DOMAIN seen' = Workers BY <1>4, <2>1
  <2>3. /\ out'[w].text = <<"[">> /\ dbPc'[w] = "scan"
        /\ \A v \in Workers \ {w} : dbPc'[v] = dbPc[v] /\ out'[v] = out[v]
    BY <1>0, <2>1
  <2>4. ReadWhole(dbPc'[w], seen'[w], out'[w].text, result'[w]) BY <2>2, <2>3, ScanBegun
  <2> QED BY <1>2, <2>1, <2>2, <2>3, <2>4
<1>15. CASE ScanRow(w)
  <2> DEFINE r == Min(Ahead(w))
             row == table[r]
             old == out[w].text
             cap == Grown(out[w])
             before == IF seen[w] = <<>> THEN old ELSE Append(old, ",")
             text == before \o RowToJson(row, cap - Len(before))
             b == [text |-> text, cap |-> cap]
  <2>0. dbPc[w] = "scan" BY <1>15 DEF ScanRow
  <2>1. row \in FullRow
    <3>1. Ahead(w) \subseteq Rows /\ Ahead(w) # {} BY <1>15 DEF Ahead, ScanRow
    <3>2. Ahead(w) \in SUBSET Nat BY <3>1, RowsAre, RowIdsAre
    <3>3. r \in Ahead(w) BY <3>1, <3>2, MinIsLeast
    <3> QED BY <3>1, <3>3, RowsAre
  <2>2. /\ old \in Written /\ out[w].cap \in Nat /\ Len(old) \in Nat
        /\ Len(old) + 2 <= out[w].cap /\ Reserve <= out[w].cap
    <3>1. old \in Written /\ out[w].cap \in Nat BY <1>0 DEF Buffer
    <3>2. Len(old) \in Nat BY <3>1 DEF Written
    <3> QED BY <2>0, <3>1, <3>2 DEF RoomLeft
  <2>3. cap \in Nat /\ Len(old) + Reserve <= cap
    <3>1. cap = IF Len(old) + Reserve > out[w].cap THEN 2 * out[w].cap ELSE out[w].cap BY DEF Grown
    <3>2. Reserve \in Nat BY DbAssumption
    <3> HIDE DEF old, cap
    <3> QED BY <2>2, <3>1, <3>2
  <2>4. /\ out' = [out EXCEPT ![w] = b] /\ seen' = [seen EXCEPT ![w] = Append(seen[w], row)]
        /\ UNCHANGED <<dbPc, result>>
    BY <1>15 DEF ScanRow
  <2>5. ReadWhole("scan", seen[w], old, result[w]) BY <1>1, <2>0
  <2>6. before = SoFar(seen[w], old) BY DEF SoFar
  <2>7. b.text = text OBVIOUS
  <2> HIDE DEF row, old, cap, before, b
  <2>8. ReadWhole("scan", Append(seen[w], row), text, result[w]) BY <2>1, <2>2, <2>3, <2>5, <2>6, ScanOn
  <2> HIDE DEF text
  <2>9. /\ out'[w] = b /\ seen'[w] = Append(seen[w], row) /\ DOMAIN seen' = Workers
        /\ \A v \in Workers \ {w} : seen'[v] = seen[v] /\ out'[v] = out[v]
    BY <1>0, <2>4
  <2>10. ReadWhole(dbPc'[w], seen'[w], out'[w].text, result'[w]) BY <2>0, <2>4, <2>7, <2>8, <2>9
  <2> QED BY <1>2, <2>4, <2>9, <2>10
<1>16. CASE ScanEnd(w)
  <2> DEFINE old == out[w].text
             res == CString(Append(old, "]"))
  <2>1. /\ dbPc[w] = "scan" /\ dbPc' = [dbPc EXCEPT ![w] = "idle"]
        /\ result' = [result EXCEPT ![w] = CString(out'[w].text)]
        /\ out' = [out EXCEPT ![w] = [out[w] EXCEPT !.text = Append(@, "]")]] /\ seen' = seen
    BY <1>16 DEF ScanEnd, Return
  <2>2. /\ out'[w] = [out[w] EXCEPT !.text = Append(@, "]")]
        /\ CString(out'[w].text)[1] = "[" /\ CString(out'[w].text) # <<>>
    BY <1>16, ScanEndIs
  <2>3. old \in Written /\ out'[w].text = Append(old, "]") BY <1>0, <2>2 DEF Buffer
  <2>4. ReadWhole("scan", seen[w], old, result[w]) BY <1>1, <2>1
  <2>5. res[1] = "[" /\ res # <<>> BY <2>2, <2>3
  <2> HIDE DEF old
  <2>6. ReadWhole("idle", seen[w], out'[w].text, res) BY <2>3, <2>4, <2>5, ScanEnded
  <2>7. /\ dbPc'[w] = "idle" /\ result'[w] = res /\ seen'[w] = seen[w] /\ DOMAIN seen' = Workers
        /\ \A v \in Workers \ {w} : /\ dbPc'[v] = dbPc[v] /\ seen'[v] = seen[v]
                                    /\ out'[v] = out[v] /\ result'[v] = result[v]
    BY <1>0, <2>1, <2>3
  <2> QED BY <1>2, <2>6, <2>7
<1> QED BY <1>5, <1>8, <1>9, <1>10, <1>11, <1>12, <1>13, <1>14, <1>15, <1>16, <1>17 DEF DbStep

(* Whole reads are what is to be shown. *)
LEMMA ReadsSound == ReadsWhole => RowsWhole
<1> SUFFICES ASSUME ReadsWhole, NEW w \in Workers, dbPc[w] = "idle"
             PROVE  /\ seen[w] # <<>> /\ Head(result[w]) = "{" /\ Len(WholeRow(seen[w][1])) <= FixedCap - 2
                          => result[w] = WholeRow(seen[w][1])
                    /\ seen[w] # <<>> /\ Head(result[w]) = "["
                         /\ (\A i \in 1 .. Len(seen[w]) : Len(WholeRow(seen[w][i])) <= Reserve - 3)
                          => result[w] = <<"[">> \o Joined([i \in 1 .. Len(seen[w]) |-> WholeRow(seen[w][i])])
                                           \o <<"]">>
  BY DEF RowsWhole
<1>1. Answers(seen[w], result[w]) BY DEF ReadsWhole, ReadWhole
<1> QED BY <1>1 DEF Answers, AllFit, ArrayOf, Wholes

(* orbit_db_get, orbit_db_first, orbit_db_all, orbit_db_where_bound and    *)
(* orbit_db_order answer with the rows they passed, whole and in their     *)
(* order, when each is three bytes shorter than the reserve (two shorter   *)
(* than the buffer of a single row): any number of rows, of columns and of *)
(* workers that write meanwhile, any escapes, and a buffer that grows.     *)
THEOREM RowsComeWhole == DbSpec => []RowsWhole
<1>1. DbInit => ReadsWhole
  <2> SUFFICES ASSUME DbInit, NEW w \in Workers
               PROVE  DOMAIN seen = Workers /\ ReadWhole(dbPc[w], seen[w], out[w].text, result[w])
    BY DEF ReadsWhole, DbInit
  <2>1. DOMAIN seen = Workers /\ dbPc[w] = "idle" /\ seen[w] = <<>> BY DEF DbInit
  <2> QED BY <2>1, NothingRead
<1>2. DbInductive /\ ReadsWhole /\ [DbNext]_dbVars => ReadsWhole'
  <2> SUFFICES ASSUME DbInductive, ReadsWhole, [DbNext]_dbVars PROVE ReadsWhole' OBVIOUS
  <2>1. CASE UNCHANGED dbVars BY <2>1 DEF dbVars, ReadsWhole
  <2>2. CASE DbNext
    <3>1. PICK w \in Workers : DbStep(w) BY <2>2 DEF DbNext, DbStep
    <3> QED BY <3>1, ReadsStayWhole DEF DbInductive
  <2> QED BY <2>1, <2>2
<1> QED BY <1>1, <1>2, DbInitially, DbInductiveKept, ReadsSound, PTL DEF DbSpec

-----------------------------------------------------------------------------
(* The receive loop.  First the bytes of a request. *)

(* What the symbols of a request are, and are not. *)
LEMMA SymbolsAre ==
  /\ LineSymbols \subseteq Symbols /\ FieldSymbols \subseteq Symbols
  /\ {"CR", "LF", "NUL", "x", "SP"} \subseteq Symbols
  /\ "CR" \notin LineSymbols /\ "LF" \notin LineSymbols
  /\ "CR" \notin FieldSymbols /\ "LF" \notin FieldSymbols
  /\ \A s \in LineSymbols \cup {"CR"} : s \notin DOMAIN LengthOf
BY HttpAssumption DEF Symbols, LineSymbols, FieldSymbols, OtherFields

(* What a request is made of. *)
LEMMA RequestIs ==
  ASSUME NEW r \in Requests
  PROVE  /\ r.line \in Seq(LineSymbols) /\ r.fields \in Seq(FieldSymbols) /\ r.body \in Nat
         /\ Len(r.line) \in Nat /\ Len(r.fields) \in Nat
         /\ \A i \in 1 .. Len(r.line) : r.line[i] \in LineSymbols
         /\ \A i \in 1 .. Len(r.fields) : r.fields[i] \in FieldSymbols
<1>1. r \in [line : Seq(LineSymbols), fields : Seq(FieldSymbols), body : Nat] BY HttpAssumption
<1>2. r.line \in Seq(LineSymbols) /\ r.fields \in Seq(FieldSymbols) /\ r.body \in Nat BY <1>1
<1> QED BY <1>2, ElementOfSeq

(* The triples of the header lines one after the other. *)
LEMMA FieldLinesAre ==
  ASSUME NEW r \in Requests
  PROVE  /\ FieldLines(r) \in Seq(Symbols) /\ Len(FieldLines(r)) = 3 * Len(r.fields)
         /\ \A j \in 1 .. Len(r.fields) :
              /\ FieldLines(r)[3 * j - 2] = r.fields[j]
              /\ FieldLines(r)[3 * j - 1] = "CR" /\ FieldLines(r)[3 * j] = "LF"
<1> DEFINE n == Len(r.fields)
           seqs == [i \in 1 .. n |-> <<r.fields[i], "CR", "LF">>]
<1>1. n \in Nat /\ \A i \in 1 .. n : r.fields[i] \in Symbols BY RequestIs, SymbolsAre
<1>2. \A i \in 1 .. n : /\ seqs[i] \in Seq(Symbols) /\ Len(seqs[i]) = 3
                        /\ seqs[i][1] = r.fields[i] /\ seqs[i][2] = "CR" /\ seqs[i][3] = "LF"
  BY <1>1, SymbolsAre
<1>3. FieldLines(r) = FlattenSeq(seqs) BY DEF FieldLines
<1>4. seqs \in [1 .. n -> Seq(Symbols)] BY <1>2
<1> HIDE DEF n, seqs
<1>5. seqs \in Seq(Seq(Symbols)) /\ Len(seqs) = n BY <1>1, <1>4, SequenceIs
<1>6. PICK g \in [0 .. n -> Seq(Symbols)] :
        /\ g[0] = <<>> /\ g[n] = FlattenSeq(seqs) /\ \A k \in 1 .. n : g[k] = g[k - 1] \o seqs[k]
  BY <1>5, FlattenGoes
<1> DEFINE Fine(k) == /\ Len(g[k]) = 3 * k
                      /\ \A j \in 1 .. k : /\ g[k][3 * j - 2] = r.fields[j]
                                           /\ g[k][3 * j - 1] = "CR" /\ g[k][3 * j] = "LF"
           Bad == {k \in 0 .. n : ~Fine(k)}
<1>7. Bad = {}
  <2> SUFFICES ASSUME Bad # {} PROVE FALSE OBVIOUS
  <2>1. Bad \in SUBSET Nat OBVIOUS
  <2>2. PICK k \in Bad : \A j \in Bad : k <= j
    <3> HIDE DEF Bad
    <3> QED BY <2>1, LeastNumber
  <2>3. k \in 0 .. n /\ ~Fine(k) OBVIOUS
  <2>4. Fine(0) BY <1>6
  <2>5. k \in 1 .. n /\ k - 1 \in 0 .. n /\ ~(k <= k - 1)
    <3> HIDE DEF Fine
    <3> QED BY <1>1, <2>3, <2>4
  <2>6. Fine(k - 1)
    <3> HIDE DEF Fine
    <3> QED BY <2>2, <2>5
  <2> DEFINE s == g[k - 1]
             t == seqs[k]
  <2>7. s \in Seq(Symbols) /\ t \in Seq(Symbols) /\ Len(t) = 3 /\ Len(s) = 3 * (k - 1)
    BY <1>2, <2>5, <2>6
  <2>8. t[1] = r.fields[k] /\ t[2] = "CR" /\ t[3] = "LF" BY <1>2, <2>5
  <2>9. g[k] = s \o t BY <1>6, <2>5
  <2> HIDE DEF s, t
  <2>10. /\ Len(s \o t) = 3 * k
         /\ \A i \in 1 .. 3 * (k - 1) : (s \o t)[i] = s[i]
         /\ \A i \in 1 .. 3 : (s \o t)[3 * (k - 1) + i] = t[i]
    <3>1. /\ Len(s \o t) = Len(s) + Len(t)
          /\ \A i \in 1 .. Len(s) : (s \o t)[i] = s[i]
          /\ \A i \in 1 .. Len(t) : (s \o t)[Len(s) + i] = t[i]
      <4>1. s \in Seq(Symbols) /\ t \in Seq(Symbols) BY <2>7
      <4> QED BY <4>1, Concat
    <3>2. 3 * (k - 1) + 3 = 3 * k BY <1>1, <2>5
    <3> QED BY <2>7, <3>1, <3>2
  <2>11. /\ (s \o t)[3 * k - 2] = r.fields[k] /\ (s \o t)[3 * k - 1] = "CR" /\ (s \o t)[3 * k] = "LF"
    <3>0. k \in Nat BY <1>1, <2>5
    <3>1. 3 * (k - 1) + 1 = 3 * k - 2 /\ 3 * (k - 1) + 2 = 3 * k - 1 /\ 3 * (k - 1) + 3 = 3 * k
      BY ONLY <3>0
    <3>2. 1 \in 1 .. 3 /\ 2 \in 1 .. 3 /\ 3 \in 1 .. 3 OBVIOUS
    <3>3. /\ (s \o t)[3 * (k - 1) + 1] = t[1] /\ (s \o t)[3 * (k - 1) + 2] = t[2]
          /\ (s \o t)[3 * (k - 1) + 3] = t[3]
      BY <2>10, <3>2
    <3> QED BY <2>8, <3>1, <3>3
  <2>12. ASSUME NEW j \in 1 .. k - 1
         PROVE  /\ (s \o t)[3 * j - 2] = r.fields[j]
                /\ (s \o t)[3 * j - 1] = "CR" /\ (s \o t)[3 * j] = "LF"
    <3>1. 3 * j - 2 \in 1 .. 3 * (k - 1) /\ 3 * j - 1 \in 1 .. 3 * (k - 1) /\ 3 * j \in 1 .. 3 * (k - 1)
      BY <1>1, <2>5
    <3>2. s[3 * j - 2] = r.fields[j] /\ s[3 * j - 1] = "CR" /\ s[3 * j] = "LF" BY <2>6 DEF s
    <3> QED BY <2>10, <3>1, <3>2
  <2>13. \A j \in 1 .. k : j = k \/ j \in 1 .. k - 1 BY <1>1, <2>5
  <2>14. Fine(k) BY <2>9, <2>10, <2>11, <2>12, <2>13
  <2> QED BY <2>3, <2>14
<1>8. Fine(n) /\ n \in 0 .. n
  <2> HIDE DEF Fine
  <2>1. \A k \in 0 .. n : Fine(k) BY <1>7
  <2>2. n \in 0 .. n BY <1>1
  <2> QED BY <2>1, <2>2
<1> QED BY <1>3, <1>6, <1>8 DEF n

(* The bytes of a head: its line, its header lines of three bytes each,    *)
(* and the blank line that ends it.                                        *)
HeadLen(r) == Len(r.line) + 3 * Len(r.fields) + 4

(* Where everything stands in the bytes b of request r. *)
Layout(r, b) ==
  /\ b \in Seq(Symbols) /\ Len(b) = HeadLen(r) + r.body
  /\ \A i \in 1 .. Len(r.line) : b[i] = r.line[i]
  /\ \A k \in 0 .. Len(r.fields) : /\ b[Len(r.line) + 3 * k + 1] = "CR"
                                   /\ b[Len(r.line) + 3 * k + 2] = "LF"
  /\ \A k \in 1 .. Len(r.fields) : b[Len(r.line) + 3 * k] = r.fields[k]
  /\ b[HeadLen(r) - 1] = "CR" /\ b[HeadLen(r)] = "LF"

(* A request has that layout. *)
LEMMA BytesAre ==
  ASSUME NEW r \in Requests
  PROVE  Layout(r, Bytes(r)) /\ Len(HeadBytes(r)) = HeadLen(r)
<1> DEFINE n == Len(r.line)
           f == Len(r.fields)
           F == FieldLines(r)
           c == <<"CR", "LF">>
           x == [i \in 1 .. r.body |-> "x"]
           a == r.line \o c
           d == a \o F
           e == d \o c
           b == e \o x
<1>1. /\ n \in Nat /\ f \in Nat /\ r.body \in Nat
      /\ r.line \in Seq(Symbols)
  <2>1. \A i \in 1 .. n : r.line[i] \in Symbols BY RequestIs, SymbolsAre
  <2>2. r.line \in Seq(LineSymbols) BY RequestIs
  <2>3. n \in Nat /\ r.line \in [1 .. n -> LineSymbols] BY <2>2
  <2>4. r.line \in [1 .. n -> Symbols] BY <2>3, SymbolsAre
  <2>5. r.line \in Seq(Symbols)
    <3> HIDE DEF n
    <3> QED BY <2>3, <2>4, SequenceIs
  <2> QED BY <2>3, <2>5, RequestIs
<1>2. c \in Seq(Symbols) /\ Len(c) = 2 /\ c[1] = "CR" /\ c[2] = "LF" BY SymbolsAre
<1>3. x \in Seq(Symbols) /\ Len(x) = r.body
  <2>1. x \in [1 .. r.body -> Symbols] BY SymbolsAre
  <2> HIDE DEF x
  <2> QED BY <1>1, <2>1, SequenceIs
<1>4. /\ F \in Seq(Symbols) /\ Len(F) = 3 * f
      /\ \A j \in 1 .. f : F[3 * j - 2] = r.fields[j] /\ F[3 * j - 1] = "CR" /\ F[3 * j] = "LF"
  BY FieldLinesAre
<1>5. Bytes(r) = b /\ HeadBytes(r) = e BY DEF Bytes, HeadBytes
<1>10. HeadLen(r) = n + 3 * f + 4 BY DEF HeadLen
<1> HIDE DEF F, c, x, n, f
<1>6. /\ a \in Seq(Symbols) /\ Len(a) = n + 2 /\ \A i \in 1 .. n : a[i] = r.line[i]
      /\ a[n + 1] = "CR" /\ a[n + 2] = "LF"
  <2>1. /\ a \in Seq(Symbols) /\ Len(a) = Len(r.line) + Len(c)
        /\ \A i \in 1 .. Len(r.line) : a[i] = r.line[i]
        /\ \A i \in 1 .. Len(c) : a[Len(r.line) + i] = c[i]
    <3>1. r.line \in Seq(Symbols) /\ c \in Seq(Symbols) BY <1>1, <1>2
    <3> QED BY <3>1, Concat
  <2>2. 1 \in 1 .. 2 /\ 2 \in 1 .. 2 OBVIOUS
  <2>3. Len(r.line) = n BY DEF n
  <2> HIDE DEF a
  <2> QED BY <1>2, <2>1, <2>2, <2>3
<1> HIDE DEF a
<1>7. /\ d \in Seq(Symbols) /\ Len(d) = n + 2 + 3 * f
      /\ \A i \in 1 .. n + 2 : d[i] = a[i]
      /\ \A i \in 1 .. 3 * f : d[n + 2 + i] = F[i]
  <2>1. /\ d \in Seq(Symbols) /\ Len(d) = Len(a) + Len(F)
        /\ \A i \in 1 .. Len(a) : d[i] = a[i]
        /\ \A i \in 1 .. Len(F) : d[Len(a) + i] = F[i]
    <3>1. a \in Seq(Symbols) /\ F \in Seq(Symbols) BY <1>4, <1>6
    <3> QED BY <3>1, Concat
  <2> HIDE DEF d
  <2> QED BY <1>4, <1>6, <2>1
<1> HIDE DEF d
<1>8. /\ e \in Seq(Symbols) /\ Len(e) = n + 2 + 3 * f + 2
      /\ \A i \in 1 .. n + 2 + 3 * f : e[i] = d[i]
      /\ e[n + 2 + 3 * f + 1] = "CR" /\ e[n + 2 + 3 * f + 2] = "LF"
  <2>1. /\ e \in Seq(Symbols) /\ Len(e) = Len(d) + Len(c)
        /\ \A i \in 1 .. Len(d) : e[i] = d[i]
        /\ \A i \in 1 .. Len(c) : e[Len(d) + i] = c[i]
    <3>1. d \in Seq(Symbols) /\ c \in Seq(Symbols) BY <1>2, <1>7
    <3> QED BY <3>1, Concat
  <2>2. 1 \in 1 .. 2 /\ 2 \in 1 .. 2 OBVIOUS
  <2> HIDE DEF e
  <2> QED BY <1>2, <1>7, <2>1, <2>2
<1> HIDE DEF e
<1>9. /\ b \in Seq(Symbols) /\ Len(b) = n + 2 + 3 * f + 2 + r.body
      /\ \A i \in 1 .. n + 2 + 3 * f + 2 : b[i] = e[i]
  <2>1. /\ b \in Seq(Symbols) /\ Len(b) = Len(e) + Len(x)
        /\ \A i \in 1 .. Len(e) : b[i] = e[i]
    <3>1. e \in Seq(Symbols) /\ x \in Seq(Symbols) BY <1>3, <1>8
    <3> QED BY <3>1, Concat
  <2> HIDE DEF b
  <2> QED BY <1>3, <1>8, <2>1
<1> HIDE DEF b
<1>11. \A i \in 1 .. n : b[i] = r.line[i]
  <2>1. \A i \in 1 .. n : i \in 1 .. n + 2 /\ i \in 1 .. n + 2 + 3 * f /\ i \in 1 .. n + 2 + 3 * f + 2
    BY <1>1
  <2> QED BY <1>6, <1>7, <1>8, <1>9, <2>1
<1>12. b[n + 1] = "CR" /\ b[n + 2] = "LF"
  <2>1. ASSUME NEW i \in 1 .. n + 2 PROVE b[i] = a[i]
    <3>1. i \in 1 .. n + 2 + 3 * f /\ i \in 1 .. n + 2 + 3 * f + 2 BY <1>1
    <3> QED BY <1>7, <1>8, <1>9, <3>1
  <2>2. n + 1 \in 1 .. n + 2 /\ n + 2 \in 1 .. n + 2 BY <1>1
  <2> QED BY <1>6, <2>1, <2>2
<1>13. ASSUME NEW k \in 1 .. f
       PROVE  b[n + 3 * k] = r.fields[k] /\ b[n + 3 * k + 1] = "CR" /\ b[n + 3 * k + 2] = "LF"
  <2>1. ASSUME NEW i \in 1 .. 3 * f PROVE b[n + 2 + i] = F[i]
    <3>1. n + 2 + i \in 1 .. n + 2 + 3 * f /\ n + 2 + i \in 1 .. n + 2 + 3 * f + 2 BY <1>1
    <3> QED BY <1>7, <1>8, <1>9, <3>1
  <2>2. 3 * k - 2 \in 1 .. 3 * f /\ 3 * k - 1 \in 1 .. 3 * f /\ 3 * k \in 1 .. 3 * f BY <1>1
  <2>3. /\ n + 2 + (3 * k - 2) = n + 3 * k /\ n + 2 + (3 * k - 1) = n + 3 * k + 1
        /\ n + 2 + 3 * k = n + 3 * k + 2
    BY <1>1
  <2>4. /\ b[n + 2 + (3 * k - 2)] = F[3 * k - 2] /\ b[n + 2 + (3 * k - 1)] = F[3 * k - 1]
        /\ b[n + 2 + 3 * k] = F[3 * k]
    BY <2>1, <2>2
  <2> QED BY <1>4, <2>3, <2>4
<1>14. \A k \in 0 .. f : b[n + 3 * k + 1] = "CR" /\ b[n + 3 * k + 2] = "LF"
  <2>1. \A k \in 0 .. f : k = 0 \/ k \in 1 .. f BY <1>1
  <2>2. n + 3 * 0 + 1 = n + 1 /\ n + 3 * 0 + 2 = n + 2 BY <1>1
  <2> QED BY <1>12, <1>13, <2>1, <2>2
<1>15. b[HeadLen(r) - 1] = "CR" /\ b[HeadLen(r)] = "LF"
  <2>1. HeadLen(r) - 1 = n + 2 + 3 * f + 1 /\ HeadLen(r) = n + 2 + 3 * f + 2 BY <1>1, <1>10
  <2>2. n + 2 + 3 * f + 1 \in 1 .. n + 2 + 3 * f + 2 /\ n + 2 + 3 * f + 2 \in 1 .. n + 2 + 3 * f + 2 BY <1>1
  <2> QED BY <1>8, <1>9, <2>1, <2>2
<1>16. Len(b) = HeadLen(r) + r.body BY <1>1, <1>9, <1>10
<1>17. Len(e) = HeadLen(r) BY <1>1, <1>8, <1>10
<1> QED BY <1>5, <1>9, <1>11, <1>13, <1>14, <1>15, <1>16, <1>17 DEF Layout, n, f

(* Every place of the head is one of these. *)
LEMMA PlacesAre ==
  ASSUME NEW n \in Nat, NEW f \in Nat, NEW i \in 1 .. n + 3 * f + 4
  PROVE  \/ i \in 1 .. n
         \/ \E k \in 0 .. f : i = n + 3 * k + 1 \/ i = n + 3 * k + 2
         \/ \E k \in 1 .. f : i = n + 3 * k
         \/ i = n + 3 * f + 3 \/ i = n + 3 * f + 4
<1> SUFFICES ASSUME i > n, i < n + 3 * f + 3
             PROVE  \/ \E k \in 0 .. f : i = n + 3 * k + 1 \/ i = n + 3 * k + 2
                    \/ \E k \in 1 .. f : i = n + 3 * k
  OBVIOUS
<1> DEFINE k == (i - n) \div 3
<1>1. i - n \in Nat /\ i - n >= 1 /\ i - n <= 3 * f + 2 OBVIOUS
<1>2. k \in Nat /\ (i - n = 3 * k \/ i - n = 3 * k + 1 \/ i - n = 3 * k + 2) BY <1>1
<1> HIDE DEF k
<1>3. CASE i - n = 3 * k
  <2>1. k \in 1 .. f /\ i = n + 3 * k BY <1>1, <1>2, <1>3
  <2> QED BY <2>1
<1>4. CASE i - n # 3 * k
  <2>1. k \in 0 .. f /\ (i = n + 3 * k + 1 \/ i = n + 3 * k + 2) BY <1>1, <1>2, <1>4
  <2> QED BY <2>1
<1> QED BY <1>3, <1>4

-----------------------------------------------------------------------------
(* What the parser finds in what was received of a request. *)

(* What was received is, as far as it goes, the request r and what         *)
(* follows.                                                                *)
Receives(raw, r) ==
  /\ raw \in Seq(Symbols)
  /\ \A i \in 1 .. Len(raw) : i <= Len(Bytes(r)) => raw[i] = Bytes(r)[i]

(* The facts about the head that all of the parser's searches rest on. *)
LEMMA HeadIs ==
  ASSUME NEW r \in Requests, NEW raw, Receives(raw, r)
  PROVE  /\ Len(raw) \in Nat /\ HeadLen(r) \in Nat /\ Len(r.line) \in Nat /\ Len(r.fields) \in Nat
         /\ HeadLen(r) = Len(r.line) + 3 * Len(r.fields) + 4 /\ Len(Bytes(r)) = HeadLen(r) + r.body
         /\ r.body \in Nat
         /\ \A i \in 1 .. Len(raw) : i <= HeadLen(r) => raw[i] = Bytes(r)[i]
<1>1. Layout(r, Bytes(r)) BY BytesAre
<1>2. Len(raw) \in Nat /\ Len(r.line) \in Nat /\ Len(r.fields) \in Nat /\ r.body \in Nat
  BY RequestIs DEF Receives
<1>3. HeadLen(r) = Len(r.line) + 3 * Len(r.fields) + 4 BY DEF HeadLen
<1>4. Len(Bytes(r)) = HeadLen(r) + r.body BY <1>1 DEF Layout
<1>5. HeadLen(r) \in Nat
  <2> DEFINE n == Len(r.line)
             f == Len(r.fields)
  <2>1. n \in Nat /\ f \in Nat /\ HeadLen(r) = n + 3 * f + 4 BY <1>2, <1>3
  <2> HIDE DEF n, f
  <2> QED BY <2>1
<1>6. \A i \in 1 .. Len(raw) : i <= HeadLen(r) => i <= Len(Bytes(r)) BY <1>2, <1>4, <1>5
<1> QED BY <1>2, <1>3, <1>4, <1>5, <1>6 DEF Receives

(* The carriage returns of a head, the last one apart: another one comes   *)
(* two bytes later only at the end.                                        *)
LEMMA ReturnsAre ==
  ASSUME NEW r \in Requests, NEW i \in 1 .. HeadLen(r) - 4
  PROVE  ~(Bytes(r)[i] = "CR" /\ Bytes(r)[i + 2] = "CR")
<1> DEFINE b == Bytes(r)
           n == Len(r.line)
           f == Len(r.fields)
<1>1. Layout(r, b) BY BytesAre
<1>2. /\ n \in Nat /\ f \in Nat /\ HeadLen(r) = n + 3 * f + 4
      /\ \A j \in 1 .. n : r.line[j] # "CR"
      /\ \A j \in 1 .. f : r.fields[j] # "CR"
  BY RequestIs, SymbolsAre DEF HeadLen
<1>3. \A j \in 1 .. n : b[j] # "CR" BY <1>1, <1>2 DEF Layout
<1>4. /\ \A k \in 0 .. f : b[n + 3 * k + 1] = "CR" /\ b[n + 3 * k + 2] = "LF"
      /\ \A k \in 1 .. f : b[n + 3 * k] # "CR"
  <2>1. \A k \in 1 .. f : b[n + 3 * k] = r.fields[k] BY <1>1 DEF Layout
  <2>2. \A k \in 0 .. f : b[n + 3 * k + 1] = "CR" /\ b[n + 3 * k + 2] = "LF" BY <1>1 DEF Layout
  <2> HIDE DEF b, n
  <2> QED BY <1>2, <2>1, <2>2
<1> HIDE DEF b, n, f
<1>5. i \in 1 .. n + 3 * f BY <1>2
<1>6. \/ i \in 1 .. n
      \/ \E k \in 0 .. f : i = n + 3 * k + 1 \/ i = n + 3 * k + 2
      \/ \E k \in 1 .. f : i = n + 3 * k
  <2>1. i \in 1 .. n + 3 * f + 4 /\ i # n + 3 * f + 3 /\ i # n + 3 * f + 4 BY <1>2, <1>5
  <2> QED BY <1>2, <2>1, PlacesAre
<1>7. CASE i \in 1 .. n BY <1>3, <1>7 DEF b
<1>8. ASSUME NEW k \in 0 .. f, i = n + 3 * k + 1
      PROVE  b[i + 2] # "CR"
  <2>1. k + 1 \in 1 .. f /\ i + 2 = n + 3 * (k + 1) BY <1>2, <1>5, <1>8
  <2> QED BY <1>4, <2>1
<1>9. ASSUME NEW k \in 0 .. f, i = n + 3 * k + 2
      PROVE  b[i] # "CR"
  BY <1>4, <1>9
<1>10. ASSUME NEW k \in 1 .. f, i = n + 3 * k
       PROVE  b[i] # "CR"
  BY <1>4, <1>10
<1> QED BY <1>6, <1>7, <1>8, <1>9, <1>10 DEF b

(* The terminator is found where the head ends, once all of it is there,   *)
(* and not before, whatever follows.                                       *)
LEMMA HeadEndIs ==
  ASSUME NEW r \in Requests, NEW raw, Receives(raw, r)
  PROVE  HeadEnd(raw) = IF Len(raw) < HeadLen(r) THEN 0 ELSE HeadLen(r) - 3
<1> DEFINE h == HeadLen(r)
           b == Bytes(r)
           m == Len(raw)
           end == <<"CR", "LF", "CR", "LF">>
           s == [i \in 1 .. m |-> SubSeq(raw, i, i + 3)]
           I == {i \in 1 .. m - 3 : s[i] = end}
<1>1. HeadEnd(raw) = IF I # {} THEN Min(I) ELSE 0 BY DEF HeadEnd, SelectInSubSeq
<1>2. /\ m \in Nat /\ h \in Nat /\ h >= 4 /\ raw \in Seq(Symbols)
      /\ \A i \in 1 .. m : i <= h => raw[i] = b[i]
  <2>1. h >= 4
    <3> DEFINE n == Len(r.line)
               f == Len(r.fields)
    <3>1. n \in Nat /\ f \in Nat /\ h = n + 3 * f + 4 BY HeadIs
    <3> HIDE DEF n, f, h
    <3> QED BY <3>1
  <2> QED BY <2>1, HeadIs DEF Receives
<1>3. b[h - 3] = "CR" /\ b[h - 2] = "LF" /\ b[h - 1] = "CR" /\ b[h] = "LF"
  <2> DEFINE n == Len(r.line)
             f == Len(r.fields)
  <2>1. Layout(r, b) BY BytesAre
  <2>2. n \in Nat /\ f \in Nat /\ h = n + 3 * f + 4 BY HeadIs
  <2>3. b[n + 3 * f + 1] = "CR" /\ b[n + 3 * f + 2] = "LF"
    <3>1. f \in 0 .. f BY <2>2
    <3> QED BY <2>1, <3>1 DEF Layout
  <2>4. b[h - 1] = "CR" /\ b[h] = "LF" BY <2>1 DEF Layout
  <2> HIDE DEF n, f, h
  <2>5. h - 3 = n + 3 * f + 1 /\ h - 2 = n + 3 * f + 2 BY <2>2
  <2> QED BY <2>3, <2>4, <2>5
<1>4. ASSUME NEW i \in 1 .. h - 4 PROVE ~(b[i] = "CR" /\ b[i + 2] = "CR") BY ReturnsAre
<1> HIDE DEF h, b, m
<1>5. ASSUME NEW i \in 1 .. m - 3
      PROVE  s[i] = end <=> /\ raw[i] = "CR" /\ raw[i + 1] = "LF"
                            /\ raw[i + 2] = "CR" /\ raw[i + 3] = "LF"
  <2> DEFINE t == SubSeq(raw, i, i + 3)
  <2>1. i \in 1 .. m BY <1>2
  <2>2. s[i] = t BY <2>1
  <2>3. /\ Len(t) = 4 /\ t[1] = raw[i] /\ t[2] = raw[i + 1] /\ t[3] = raw[i + 2] /\ t[4] = raw[i + 3]
        /\ t \in Seq(Symbols)
    <3>1. \A j \in i .. i + 3 : raw[j] \in Symbols
      <4>1. \A j \in i .. i + 3 : j \in 1 .. Len(raw) BY <1>2 DEF m
      <4> QED BY <1>2, <4>1, ElementOfSeq
    <3>2. i \in Int /\ i + 3 \in Int /\ i <= i + 3 /\ i + 3 - i + 1 = 4 BY <1>2
    <3>3. t \in Seq(Symbols) BY <3>1, <3>2, SubSeqProperties
    <3>4. Len(t) = i + 3 - i + 1 /\ \A j \in 1 .. i + 3 - i + 1 : t[j] = raw[i + j - 1]
      BY <3>1, <3>2, SubSeqProperties
    <3> HIDE DEF t
    <3>5. Len(t) = 4 /\ \A j \in 1 .. 4 : t[j] = raw[i + j - 1] BY <3>2, <3>4
    <3>6. i + 1 - 1 = i /\ i + 2 - 1 = i + 1 /\ i + 3 - 1 = i + 2 /\ i + 4 - 1 = i + 3 BY <1>2
    <3>7. /\ t[1] = raw[i + 1 - 1] /\ t[2] = raw[i + 2 - 1] /\ t[3] = raw[i + 3 - 1]
          /\ t[4] = raw[i + 4 - 1]
      BY <3>5
    <3> QED BY <3>3, <3>5, <3>6, <3>7
  <2>4. /\ end \in Seq(Symbols) /\ Len(end) = 4 /\ end[1] = "CR" /\ end[2] = "LF" /\ end[3] = "CR"
        /\ end[4] = "LF"
    BY SymbolsAre
  <2> HIDE DEF t, end, s
  <2>5. t = end <=> \A j \in 1 .. 4 : t[j] = end[j]
    <3>1. t = end => \A j \in 1 .. 4 : t[j] = end[j] OBVIOUS
    <3>2. ASSUME \A j \in 1 .. 4 : t[j] = end[j] PROVE t = end
      <4>1. Len(t) = Len(end) /\ \A j \in 1 .. Len(t) : t[j] = end[j] BY <2>3, <2>4, <3>2
      <4> QED BY <2>3, <2>4, <4>1, SeqEqual
    <3> QED BY <3>1, <3>2
  <2>6. (\A j \in 1 .. 4 : t[j] = end[j]) <=> /\ t[1] = end[1] /\ t[2] = end[2]
                                               /\ t[3] = end[3] /\ t[4] = end[4]
    <3>1. \A j \in 1 .. 4 : j = 1 \/ j = 2 \/ j = 3 \/ j = 4 OBVIOUS
    <3>2. 1 \in 1 .. 4 /\ 2 \in 1 .. 4 /\ 3 \in 1 .. 4 /\ 4 \in 1 .. 4 OBVIOUS
    <3> QED BY <3>1, <3>2
  <2> QED BY <2>2, <2>3, <2>4, <2>5, <2>6
<1>6. ASSUME NEW i \in I PROVE i >= h - 3
  <2> SUFFICES ASSUME i < h - 3 PROVE FALSE BY <1>2
  <2>1. i \in 1 .. m - 3 /\ s[i] = end OBVIOUS
  <2>2. raw[i] = "CR" /\ raw[i + 2] = "CR" BY <1>5, <2>1
  <2>3. i \in 1 .. h - 4 /\ i \in 1 .. m /\ i + 2 \in 1 .. m /\ i <= h /\ i + 2 <= h BY <1>2, <2>1
  <2> QED BY <1>2, <1>4, <2>2, <2>3
<1>7. m >= h => h - 3 \in I
  <2> SUFFICES ASSUME m >= h PROVE h - 3 \in I OBVIOUS
  <2>1. /\ h - 3 \in 1 .. m - 3 /\ h - 3 + 1 = h - 2 /\ h - 3 + 2 = h - 1 /\ h - 3 + 3 = h
        /\ \A j \in {h - 3, h - 2, h - 1, h} : j \in 1 .. m /\ j <= h
    BY <1>2
  <2>2. raw[h - 3] = "CR" /\ raw[h - 2] = "LF" /\ raw[h - 1] = "CR" /\ raw[h] = "LF"
    BY <1>2, <1>3, <2>1
  <2>3. s[h - 3] = end BY <1>5, <2>1, <2>2
  <2> HIDE DEF s, end
  <2> QED BY <2>1, <2>3
<1>8. I \in SUBSET Nat /\ \A i \in I : i <= m - 3
  <2>1. \A i \in 1 .. m - 3 : i \in Nat /\ i <= m - 3 BY <1>2
  <2> QED BY <2>1
<1> HIDE DEF I
<1>9. CASE m < h
  <2>1. I = {} BY <1>2, <1>6, <1>8, <1>9
  <2> QED BY <1>1, <1>9, <2>1 DEF m, h
<1>10. CASE ~(m < h)
  <2>1. h - 3 \in I BY <1>2, <1>7, <1>10
  <2>2. Min(I) \in I /\ Min(I) <= h - 3 BY <1>8, <2>1, MinIsLeast
  <2>3. Min(I) \in Nat /\ Min(I) >= h - 3 BY <1>6, <1>8, <2>2
  <2>4. Min(I) = h - 3 BY <1>2, <2>2, <2>3
  <2> QED BY <1>1, <1>10, <2>1, <2>4 DEF m, h
<1> QED BY <1>9, <1>10

(* Once the head is there its end is found. *)
LEMMA WholeHead ==
  ASSUME NEW r \in Requests, NEW raw, Receives(raw, r), Len(raw) >= HeadLen(r)
  PROVE  HeadEnd(raw) = HeadLen(r) - 3 /\ HeadEnd(raw) + 3 = HeadLen(r)
<1> DEFINE m == Len(raw)
           h == HeadLen(r)
           e == HeadEnd(raw)
<1>1. m \in Nat /\ h \in Nat /\ m >= h BY HeadIs
<1>2. e = IF m < h THEN 0 ELSE h - 3 BY HeadEndIs
<1> HIDE DEF m, h, e
<1>3. e = h - 3 /\ e + 3 = h BY <1>1, <1>2
<1> QED BY <1>3 DEF h, e

(* The fields that tell the parser something. *)
Telling == {"lenBad", "chunked"} \cup DOMAIN LengthOf

(* The parser sees the header fields of the request, and no others: not in *)
(* its line, and not in what follows its head.                             *)
LEMMA FieldsAre ==
  ASSUME NEW r \in Requests, NEW raw, Receives(raw, r), Len(raw) >= HeadLen(r)
  PROVE  \A s \in Telling : s \in Fields(raw) <=> s \in Declared(r)
<1> DEFINE h == HeadLen(r)
           b == Bytes(r)
           n == Len(r.line)
           f == Len(r.fields)
<1>1. Layout(r, b) BY BytesAre
<1>2. n \in Nat /\ f \in Nat /\ h = n + 3 * f + 4 BY HeadIs
<1>3. Len(raw) \in Nat /\ \A i \in 1 .. Len(raw) : i <= h => raw[i] = b[i] BY HeadIs
<1>4. HeadEnd(raw) + 3 = h BY WholeHead
<1>5. /\ \A i \in 1 .. n : b[i] \in LineSymbols
      /\ \A k \in 0 .. f : b[n + 3 * k + 1] = "CR" /\ b[n + 3 * k + 2] = "LF"
      /\ \A k \in 1 .. f : b[n + 3 * k] = r.fields[k]
      /\ b[h - 1] = "CR" /\ b[h] = "LF"
  BY <1>1, RequestIs DEF Layout
<1>6. /\ \A s \in LineSymbols \cup {"CR", "LF"} : s \notin Telling
      /\ \A s \in LineSymbols : s # "LF"
      /\ \A k \in 1 .. f : r.fields[k] # "LF"
  <2>1. \A k \in 1 .. f : r.fields[k] # "LF" BY RequestIs, SymbolsAre
  <2> QED BY <2>1, HttpAssumption DEF Telling, LineSymbols, OtherFields
<1>7. Fields(raw) = {raw[i] : i \in {j \in 1 .. h : j = 1 \/ raw[j - 1] = "LF"}}
  BY <1>4 DEF Fields
<1>8. Declared(r) = {r.fields[k] : k \in 1 .. f} BY DEF Declared
<1> HIDE DEF b, h, n, f
<1>9. \A i \in 1 .. h : raw[i] = b[i] BY <1>2, <1>3 DEF h
<1>10. ASSUME NEW i \in 1 .. h, b[i] = "LF"
       PROVE  i = h \/ \E k \in 0 .. f : i = n + 3 * k + 2
  <2>1. i \in 1 .. n + 3 * f + 4 BY <1>2
  <2>2. \/ i \in 1 .. n
        \/ \E k \in 0 .. f : i = n + 3 * k + 1 \/ i = n + 3 * k + 2
        \/ \E k \in 1 .. f : i = n + 3 * k
        \/ i = n + 3 * f + 3 \/ i = n + 3 * f + 4
    BY <1>2, <2>1, PlacesAre
  <2>3. i \notin 1 .. n BY <1>5, <1>6, <1>10
  <2>4. \A k \in 0 .. f : i # n + 3 * k + 1 BY <1>5, <1>10
  <2>5. \A k \in 1 .. f : i # n + 3 * k BY <1>5, <1>6, <1>10
  <2>6. i # n + 3 * f + 3
    <3>1. n + 3 * f + 3 = h - 1 BY <1>2
    <3> QED BY <1>5, <1>10, <3>1
  <2> QED BY <1>2, <2>2, <2>3, <2>4, <2>5, <2>6
<1>11. ASSUME NEW s \in Telling, s \in Fields(raw) PROVE s \in Declared(r)
  <2>1. PICK j \in 1 .. h : s = raw[j] /\ (j = 1 \/ raw[j - 1] = "LF") BY <1>7, <1>11
  <2>2. s = b[j] BY <1>9, <2>1
  <2>3. CASE j = 1
    <3>1. b[1] \in LineSymbols \cup {"CR"}
      <4>1. CASE n = 0
        <5>1. 0 \in 0 .. f /\ n + 3 * 0 + 1 = 1 BY <1>2, <4>1
        <5> QED BY <1>5, <5>1
      <4>2. CASE n # 0
        <5>1. 1 \in 1 .. n BY <1>2, <4>2
        <5> QED BY <1>5, <5>1
      <4> QED BY <4>1, <4>2
    <3> QED BY <1>6, <2>2, <2>3, <3>1
  <2>4. CASE j # 1
    <3>1. j - 1 \in 1 .. h /\ j - 1 # h BY <1>2, <2>4
    <3>2. b[j - 1] = "LF" BY <1>9, <2>1, <2>4, <3>1
    <3>3. PICK k \in 0 .. f : j - 1 = n + 3 * k + 2 BY <1>10, <3>1, <3>2
    <3>4. CASE k = f
      <4>1. j = h - 1 BY <1>2, <3>3, <3>4
      <4> QED BY <1>5, <1>6, <2>2, <4>1
    <3>5. CASE k # f
      <4>1. k + 1 \in 1 .. f /\ j = n + 3 * (k + 1) BY <1>2, <3>3, <3>5
      <4>2. s = r.fields[k + 1] BY <1>5, <2>2, <4>1
      <4> QED BY <1>8, <4>1, <4>2
    <3> QED BY <3>4, <3>5
  <2> QED BY <2>3, <2>4
<1>12. ASSUME NEW s, s \in Declared(r) PROVE s \in Fields(raw)
  <2>1. PICK k \in 1 .. f : s = r.fields[k] BY <1>8, <1>12
  <2> DEFINE j == n + 3 * k
  <2>2. /\ j \in 1 .. h /\ j - 1 \in 1 .. h /\ k - 1 \in 0 .. f /\ j - 1 = n + 3 * (k - 1) + 2
    BY <1>2
  <2>3. raw[j] = s BY <1>5, <1>9, <2>1, <2>2
  <2>4. b[j - 1] = "LF" BY <1>5, <2>2
  <2>5. raw[j - 1] = "LF" BY <1>9, <2>2, <2>4
  <2> HIDE DEF j
  <2> QED BY <1>7, <2>2, <2>3, <2>5
<1> QED BY <1>11, <1>12

(* So it has its lengths. *)
LEMMA LengthsAre ==
  ASSUME NEW r \in Requests, NEW raw, Receives(raw, r), Len(raw) >= HeadLen(r)
  PROVE  /\ ContentLengths(raw) = Lengths(r)
         /\ LengthMalformed(raw) <=> "lenBad" \in Declared(r) \/ Cardinality(Lengths(r)) > 1
         /\ ~LengthMalformed(raw) => Consumed(raw) = Len(Bytes(r)) /\ ContentLength(raw) = r.body
<1>1. \A s \in Telling : s \in Fields(raw) <=> s \in Declared(r) BY FieldsAre
<1>2. Fields(raw) \cap DOMAIN LengthOf = Declared(r) \cap DOMAIN LengthOf BY <1>1 DEF Telling
<1>3. ContentLengths(raw) = Lengths(r) BY <1>2 DEF ContentLengths, Lengths
<1>4. LengthMalformed(raw) <=> "lenBad" \in Declared(r) \/ Cardinality(Lengths(r)) > 1
  BY <1>1, <1>3 DEF LengthMalformed, Telling
<1>5. ASSUME ~LengthMalformed(raw) PROVE Consumed(raw) = Len(Bytes(r)) /\ ContentLength(raw) = r.body
  <2>1. Cardinality(Lengths(r)) \in Nat
    <3>1. Len(r.fields) \in Nat BY RequestIs
    <3>2. IsFiniteSet(1 .. Len(r.fields)) BY <3>1, FS_Interval
    <3>3. IsFiniteSet(Declared(r))
      <4> DEFINE e == [i \in 1 .. Len(r.fields) |-> r.fields[i]]
      <4>1. Declared(r) = {e[i] : i \in 1 .. Len(r.fields)} BY DEF Declared
      <4>2. e \in Surjection(1 .. Len(r.fields), Declared(r)) BY <4>1 DEF Surjection
      <4> QED BY <3>2, <4>2, FS_Surjection
    <3>4. IsFiniteSet(Declared(r) \cap DOMAIN LengthOf) BY <3>3, FS_Subset
    <3>5. IsFiniteSet(Lengths(r))
      <4> DEFINE D == Declared(r) \cap DOMAIN LengthOf
                 e == [f \in D |-> LengthOf[f]]
      <4>1. Lengths(r) = {e[f] : f \in D} BY DEF Lengths
      <4>2. e \in Surjection(D, Lengths(r)) BY <4>1 DEF Surjection
      <4> QED BY <3>4, <4>2, FS_Surjection
    <3> QED BY <3>5, FS_CardinalityType
  <2>2. Cardinality(Lengths(r)) <= 1 BY <1>4, <1>5, <2>1
  <2>3. ContentLength(raw) = r.body BY <1>3, <2>2, HttpAssumption DEF ContentLength
  <2>4. HeadEnd(raw) = HeadLen(r) - 3 /\ HeadLen(r) \in Nat /\ r.body \in Nat
        /\ Len(Bytes(r)) = HeadLen(r) + r.body
    BY HeadIs, WholeHead
  <2>5. Consumed(raw) = Len(Bytes(r)) BY <2>3, <2>4 DEF Consumed
  <2> QED BY <2>3, <2>5
<1> QED BY <1>3, <1>4, <1>5

(* A request the parser takes is consumed to its last byte, and no         *)
(* further.                                                                *)
LEMMA TakenWhole ==
  ASSUME NEW r \in Requests, NEW raw, Receives(raw, r), Parse(raw) = 200
  PROVE  /\ Consumed(raw) = Len(Bytes(r)) /\ Len(Bytes(r)) <= Len(raw) /\ HeadLen(r) <= Len(raw)
         /\ SubSeq(raw, 1, Consumed(raw)) = Bytes(r)
<1>1. HeadEnd(raw) # 0 /\ ~LengthMalformed(raw) /\ ~(Len(raw) < Consumed(raw)) BY DEF Parse
<1>2. Len(raw) \in Nat /\ HeadLen(r) \in Nat BY HeadIs
<1>3. HeadLen(r) <= Len(raw) BY <1>1, <1>2, HeadEndIs
<1>4. Consumed(raw) = Len(Bytes(r)) BY <1>1, <1>2, <1>3, LengthsAre
<1>5. Bytes(r) \in Seq(Symbols) /\ Len(Bytes(r)) \in Nat
  <2>1. Layout(r, Bytes(r)) BY BytesAre
  <2>2. Bytes(r) \in Seq(Symbols) BY <2>1 DEF Layout
  <2> QED BY <2>2
<1>6. Len(Bytes(r)) <= Len(raw) BY <1>1, <1>2, <1>4, <1>5
<1> DEFINE b == Bytes(r)
           t == SubSeq(raw, 1, Len(b))
<1>7. t \in Seq(Symbols) /\ Len(t) = Len(b) /\ \A i \in 1 .. Len(b) : t[i] = raw[i]
  <2> DEFINE m == Len(b)
  <2>1. \A i \in 1 .. m : raw[i] \in Symbols
    <3>1. raw \in Seq(Symbols) BY DEF Receives
    <3>2. \A i \in 1 .. m : i \in 1 .. Len(raw) BY <1>2, <1>5, <1>6
    <3> QED BY <3>1, <3>2, ElementOfSeq
  <2>2. m \in Nat /\ m \in Int /\ 1 \in Int BY <1>5
  <2> HIDE DEF m
  <2>3. /\ SubSeq(raw, 1, m) \in Seq(Symbols)
        /\ Len(SubSeq(raw, 1, m)) = IF 1 <= m THEN m - 1 + 1 ELSE 0
        /\ \A i \in 1 .. m - 1 + 1 : SubSeq(raw, 1, m)[i] = raw[1 + i - 1]
    BY <2>1, <2>2, SubSeqProperties
  <2>4. m - 1 + 1 = m /\ (~(1 <= m) => m = 0) /\ \A i \in 1 .. m : 1 + i - 1 = i BY <2>2
  <2>5. t = SubSeq(raw, 1, m) BY DEF m
  <2> HIDE DEF t
  <2> QED BY <2>3, <2>4, <2>5 DEF m
<1>8. \A i \in 1 .. Len(b) : i \in 1 .. Len(raw) /\ i <= Len(b) BY <1>2, <1>5, <1>6
<1>9. \A i \in 1 .. Len(b) : t[i] = b[i] BY <1>7, <1>8 DEF Receives
<1> HIDE DEF t, b
<1>10. t = b
  <2>1. b \in Seq(Symbols) BY <1>5 DEF b
  <2> QED BY <1>7, <1>9, <2>1, SeqEqual
<1> QED BY <1>3, <1>4, <1>6, <1>10 DEF t, b

(* The place of the first c of a part of raw, 0 for none. *)
FirstAt(raw, c, from, to, at) ==
  \/ at = 0 /\ \A i \in from .. to : raw[i] # c
  \/ /\ at \in from .. to /\ raw[at] = c
     /\ \A i \in from .. to : raw[i] = c => at <= i

(* memchr finds it. *)
LEMMA MemchrIs ==
  ASSUME NEW raw, NEW c, NEW from \in Nat, NEW to \in Int
  PROVE  FirstAt(raw, c, from, to, Memchr(raw, c, from, to))
<1> DEFINE I == {i \in from .. to : raw[i] = c}
<1>1. Memchr(raw, c, from, to) = IF I # {} THEN Min(I) ELSE 0 BY DEF Memchr, SelectInSubSeq
<1>2. I \in SUBSET Nat
  <2>1. \A i \in from .. to : i \in Nat OBVIOUS
  <2> QED BY <2>1
<1>3. CASE I = {} BY <1>1, <1>3 DEF FirstAt
<1>4. CASE I # {}
  <2> DEFINE m == Min(I)
  <2>1. m \in I /\ \A i \in I : m <= i
    <3> HIDE DEF I
    <3> QED BY <1>2, <1>4, MinIsLeast
  <2>2. Memchr(raw, c, from, to) = m BY <1>1, <1>4
  <2> HIDE DEF m
  <2> QED BY <2>1, <2>2 DEF FirstAt
<1> QED BY <1>3, <1>4

(* Two spaces in a line. *)
LEMMA TwoSpaces ==
  ASSUME NEW r \in Requests, WellFormed(r)
  PROVE  \E p, q \in 1 .. Len(r.line) : p < q /\ r.line[p] = "SP" /\ r.line[q] = "SP"
<1> DEFINE n == Len(r.line)
           S == {i \in 1 .. n : r.line[i] = "SP"}
<1>1. n \in Nat BY RequestIs
<1>2. Cardinality(S) >= 2 BY DEF WellFormed
<1>3. S # {}
  <2> HIDE DEF S
  <2>1. Cardinality({}) = 0 BY FS_EmptySet
  <2> QED BY <1>2, <2>1
<1>4. PICK p \in S : TRUE BY <1>3
<1>5. S # {p}
  <2> HIDE DEF S
  <2>1. Cardinality({p}) = 1 BY FS_Singleton
  <2> QED BY <1>2, <2>1
<1>6. PICK q \in S : q # p BY <1>4, <1>5
<1>7. p \in 1 .. n /\ q \in 1 .. n /\ r.line[p] = "SP" /\ r.line[q] = "SP" BY <1>4, <1>6
<1>8. p < q \/ q < p BY <1>1, <1>6, <1>7
<1> QED BY <1>7, <1>8

(* The zeros the parser writes into the buffer are in the request line. *)
LEMMA ZeroedIs ==
  ASSUME NEW r \in Requests, WellFormed(r), NEW raw, Receives(raw, r), Len(raw) >= HeadLen(r)
  PROVE  \A z \in Zeroed(raw) : z \in 0 .. Len(r.line)
<1> DEFINE n == Len(r.line)
           m == Len(raw)
           method == Memchr(raw, "SP", 1, m)
           second == Memchr(raw, "SP", method + 1, m)
           path == IF second = 0 THEN method + 1 ELSE second
           mark == Memchr(raw, "?", method + 1, path - 1)
<1>0. Zeroed(raw) = {method, mark, path} BY DEF Zeroed
<1>1. PICK p, q \in 1 .. n : p < q /\ r.line[p] = "SP" /\ r.line[q] = "SP" BY TwoSpaces
<1>2. m \in Nat /\ n \in Nat /\ n <= m
  <2> DEFINE f == Len(r.fields)
             h == HeadLen(r)
  <2>1. m \in Nat /\ n \in Nat /\ f \in Nat /\ h = n + 3 * f + 4 /\ h <= m BY HeadIs
  <2> HIDE DEF n, m, f, h
  <2> QED BY <2>1
<1>3. \A i \in 1 .. n : raw[i] = r.line[i]
  <2>1. Layout(r, Bytes(r)) BY BytesAre
  <2>2. \A i \in 1 .. n : i \in 1 .. m /\ i <= Len(Bytes(r))
    <3> DEFINE f == Len(r.fields)
               l == Len(Bytes(r))
    <3>1. f \in Nat /\ r.body \in Nat /\ l = n + 3 * f + 4 + r.body BY HeadIs
    <3> HIDE DEF f, l, n, m
    <3>2. n <= l BY <1>2, <3>1
    <3> QED BY <1>2, <3>1, <3>2 DEF l
  <2> QED BY <2>1, <2>2 DEF Receives, Layout
<1>4. raw[p] = "SP" /\ raw[q] = "SP" /\ p \in 1 .. m /\ q \in 1 .. m
  <2> HIDE DEF n, m
  <2> QED BY <1>1, <1>2, <1>3
<1> HIDE DEF n, m
<1>5. method \in 1 .. m /\ method <= p
  <2>1. FirstAt(raw, "SP", 1, m, method) BY <1>2, MemchrIs
  <2> HIDE DEF method
  <2> QED BY <1>4, <2>1 DEF FirstAt
<1> HIDE DEF method
<1>6. q \in method + 1 .. m /\ method + 1 \in Nat BY <1>1, <1>2, <1>4, <1>5
<1>7. second \in method + 1 .. m /\ second <= q
  <2> DEFINE from == method + 1
  <2> HIDE DEF from
  <2>1. from \in Nat /\ second = Memchr(raw, "SP", from, m) BY <1>6 DEF from
  <2>2. FirstAt(raw, "SP", from, m, second) BY <1>2, <2>1, MemchrIs
  <2>3. q \in from .. m BY <1>6 DEF from
  <2> HIDE DEF second
  <2>4. second \in from .. m /\ second <= q BY <1>4, <2>2, <2>3 DEF FirstAt
  <2> QED BY <2>4 DEF from
<1> HIDE DEF second
<1>8. path = second /\ path - 1 \in Int BY <1>2, <1>5, <1>7
<1> HIDE DEF path
<1>9. mark = 0 \/ mark \in method + 1 .. path - 1
  <2> DEFINE from == method + 1
             to == path - 1
  <2> HIDE DEF from, to
  <2>1. from \in Nat /\ to \in Int /\ mark = Memchr(raw, "?", from, to) BY <1>6, <1>8 DEF from, to
  <2>2. FirstAt(raw, "?", from, to, mark) BY <2>1, MemchrIs
  <2>3. mark = 0 \/ mark \in from .. to BY <2>2 DEF FirstAt
  <2> QED BY <2>3 DEF from, to
<1> HIDE DEF mark
<1>10. method \in 0 .. n /\ path \in 0 .. n /\ mark \in 0 .. n
  BY <1>1, <1>2, <1>5, <1>6, <1>7, <1>8, <1>9
<1> QED BY <1>0, <1>10 DEF n

(* Where a request is whole its head is. *)
LEMMA WholeRequest ==
  ASSUME NEW r \in Requests, NEW raw, Receives(raw, r), Len(raw) >= Len(Bytes(r))
  PROVE  Len(raw) >= HeadLen(r)
<1> DEFINE m == Len(raw)
           h == HeadLen(r)
           l == Len(Bytes(r))
<1>1. m \in Nat /\ h \in Nat /\ r.body \in Nat /\ l = h + r.body /\ m >= l BY HeadIs
<1> HIDE DEF m, h, l
<1>2. m >= h BY <1>1
<1> QED BY <1>2 DEF m, h

(* The request line is where it was sent. *)
LEMMA LineIs ==
  ASSUME NEW r \in Requests, NEW raw, Receives(raw, r)
  PROVE  /\ \A i \in 1 .. Len(raw) : i <= Len(r.line) => raw[i] \in LineSymbols /\ raw[i] = r.line[i]
         /\ Len(raw) >= Len(r.line) + 1 => raw[Len(r.line) + 1] = "CR"
         /\ Len(raw) >= Len(r.line) + 2 => raw[Len(r.line) + 2] = "LF"
<1> DEFINE n == Len(r.line)
           f == Len(r.fields)
           h == HeadLen(r)
           m == Len(raw)
           b == Bytes(r)
<1>1. /\ m \in Nat /\ n \in Nat /\ f \in Nat /\ h = n + 3 * f + 4
      /\ \A i \in 1 .. m : i <= h => raw[i] = b[i]
  BY HeadIs
<1>2. Layout(r, b) BY BytesAre
<1>3. /\ \A i \in 1 .. n : b[i] = r.line[i] /\ r.line[i] \in LineSymbols
      /\ b[n + 3 * 0 + 1] = "CR" /\ b[n + 3 * 0 + 2] = "LF"
  <2>1. 0 \in 0 .. f BY <1>1
  <2> QED BY <1>2, <2>1, RequestIs DEF Layout
<1> HIDE DEF n, f, h, m, b
<1>4. n + 3 * 0 + 1 = n + 1 /\ n + 3 * 0 + 2 = n + 2 BY <1>1
<1>5. \A i \in 1 .. m : i <= n => i <= h /\ i \in 1 .. n BY <1>1
<1>6. /\ m >= n + 1 => n + 1 \in 1 .. m /\ n + 1 <= h
      /\ m >= n + 2 => n + 2 \in 1 .. m /\ n + 2 <= h
  BY <1>1
<1>7. /\ \A i \in 1 .. m : i <= n => raw[i] \in LineSymbols /\ raw[i] = r.line[i]
      /\ m >= n + 1 => raw[n + 1] = "CR"
      /\ m >= n + 2 => raw[n + 2] = "LF"
  BY <1>1, <1>3, <1>4, <1>5, <1>6
<1> QED BY <1>7 DEF m, n

(* Once it is whole the parser does not wait for more of it. *)
LEMMA CompleteParsed ==
  ASSUME NEW r \in Requests, WellFormed(r), NEW raw, Receives(raw, r), Len(raw) >= Len(Bytes(r))
  PROVE  Parse(raw) # 0
<1>1. Len(raw) >= HeadLen(r) BY WholeRequest
<1>2. HeadEnd(raw) # 0
  <2> DEFINE h == HeadLen(r)
             n == Len(r.line)
             f == Len(r.fields)
  <2>1. n \in Nat /\ f \in Nat /\ h = n + 3 * f + 4 /\ HeadEnd(raw) = h - 3 BY <1>1, HeadIs, WholeHead
  <2> HIDE DEF h, n, f
  <2> QED BY <2>1
<1>3. "SP" \in ToSet(raw)
  <2>1. PICK p, q \in 1 .. Len(r.line) : p < q /\ r.line[p] = "SP" /\ r.line[q] = "SP" BY TwoSpaces
  <2>2. p \in 1 .. Len(raw) /\ p <= Len(r.line)
    <3> DEFINE h == HeadLen(r)
               n == Len(r.line)
               f == Len(r.fields)
               m == Len(raw)
    <3>1. n \in Nat /\ f \in Nat /\ h = n + 3 * f + 4 /\ m \in Nat /\ m >= h /\ p \in 1 .. n
      BY <1>1, HeadIs
    <3> HIDE DEF h, n, f, m
    <3>2. p \in 1 .. m /\ p <= n BY <3>1
    <3> QED BY <3>2 DEF m, n
  <2>3. raw[p] = "SP" BY <2>1, <2>2, LineIs
  <2>4. DOMAIN raw = 1 .. Len(raw)
    <3>1. raw \in Seq(Symbols) BY DEF Receives
    <3> QED BY <3>1
  <2> QED BY <2>2, <2>3, <2>4 DEF ToSet
<1>4. ~LengthMalformed(raw) => ~(Len(raw) < Consumed(raw))
  <2> SUFFICES ASSUME ~LengthMalformed(raw) PROVE ~(Len(raw) < Consumed(raw)) OBVIOUS
  <2>1. Consumed(raw) = Len(Bytes(r)) BY <1>1, LengthsAre
  <2>2. Len(raw) \in Nat /\ Len(Bytes(r)) \in Nat
    <3>1. HeadLen(r) \in Nat /\ r.body \in Nat /\ Len(Bytes(r)) = HeadLen(r) + r.body /\ Len(raw) \in Nat BY HeadIs
    <3> QED BY <3>1
  <2> QED BY <2>1, <2>2
<1> QED BY <1>2, <1>3, <1>4 DEF Parse

(* What the parser leaves in the buffer has the length it had. *)
LEMMA InPlaceIs ==
  ASSUME NEW raw \in Seq(Symbols)
  PROVE  /\ InPlace(raw) \in Seq(Symbols) /\ Len(InPlace(raw)) = Len(raw)
         /\ \A i \in 1 .. Len(raw) : i \notin Zeroed(raw) => InPlace(raw)[i] = raw[i]
<1> DEFINE n == Len(raw)
<1>1. n \in Nat /\ \A i \in 1 .. n : raw[i] \in Symbols OBVIOUS
<1>2. "NUL" \in Symbols BY SymbolsAre
<1> DEFINE t == [i \in 1 .. n |-> IF i \in Zeroed(raw) THEN "NUL" ELSE raw[i]]
<1>3. InPlace(raw) = t BY DEF InPlace
<1>4. t \in [1 .. n -> Symbols] BY <1>1, <1>2
<1>5. \A i \in 1 .. n : i \notin Zeroed(raw) => t[i] = raw[i] OBVIOUS
<1> HIDE DEF t, n
<1>6. t \in Seq(Symbols) /\ Len(t) = n BY <1>1, <1>4, SequenceIs
<1> QED BY <1>3, <1>5, <1>6 DEF n

(* And the next request is as it was. *)
LEMMA NextUntouched ==
  ASSUME NEW r \in Requests, WellFormed(r), NEW raw, Receives(raw, r), Len(raw) >= HeadLen(r)
  PROVE  \A i \in 1 .. Len(raw) : i > Len(Bytes(r)) => InPlace(raw)[i] = raw[i]
<1> DEFINE h == HeadLen(r)
           n == Len(r.line)
           f == Len(r.fields)
           l == Len(Bytes(r))
           m == Len(raw)
<1>1. n \in Nat /\ f \in Nat /\ h = n + 3 * f + 4 /\ m \in Nat /\ r.body \in Nat /\ l = h + r.body
  BY HeadIs
<1>2. \A z \in Zeroed(raw) : z \in 0 .. n BY ZeroedIs
<1>3. raw \in Seq(Symbols) BY DEF Receives
<1>4. \A i \in 1 .. m : i \notin Zeroed(raw) => InPlace(raw)[i] = raw[i] BY <1>3, InPlaceIs
<1> HIDE DEF h, n, f, l, m
<1>5. \A i \in 1 .. m : i > l => i \notin 0 .. n BY <1>1
<1>6. \A i \in 1 .. m : i > l => InPlace(raw)[i] = raw[i] BY <1>2, <1>4, <1>5
<1> QED BY <1>6 DEF m, l

-----------------------------------------------------------------------------
(* The limits. *)

(* The end of the request line is found as soon as it is there, if it is   *)
(* within the limit.                                                       *)
LEMMA LineNlIs ==
  ASSUME NEW r \in Requests, NEW raw, Receives(raw, r)
  PROVE  LineNl(raw) = IF Len(r.line) + 2 <= Len(raw) /\ Len(r.line) <= MaxLine
                       THEN Len(r.line) + 2 ELSE 0
<1> DEFINE n == Len(r.line)
           m == Len(raw)
           to == IF m < MaxLine + 2 THEN m ELSE MaxLine + 2
           nl == Memchr(raw, "LF", 1, to)
<1>1. n \in Nat /\ m \in Nat /\ MaxLine \in Nat BY HeadIs, HttpAssumption
<1>2. LineNl(raw) = nl BY DEF LineNl
<1>3. /\ \A i \in 1 .. m : i <= n => raw[i] \in LineSymbols
      /\ m >= n + 1 => raw[n + 1] = "CR"
      /\ m >= n + 2 => raw[n + 2] = "LF"
  BY LineIs
<1> HIDE DEF n, m
<1>4. to \in Int /\ 1 \in Nat /\ to <= m /\ to <= MaxLine + 2 /\ (to = m \/ to = MaxLine + 2)
  BY <1>1
<1> HIDE DEF to
<1>5. FirstAt(raw, "LF", 1, to, nl) BY <1>4, MemchrIs
<1> HIDE DEF nl
<1>6. \A i \in 1 .. to : i <= n + 1 => raw[i] # "LF"
  <2>1. "LF" \notin LineSymbols BY SymbolsAre
  <2> SUFFICES ASSUME NEW i \in 1 .. to, i <= n + 1 PROVE raw[i] # "LF" OBVIOUS
  <2>2. CASE i <= n
    <3>1. i \in 1 .. m BY <1>1, <1>4
    <3> QED BY <1>3, <2>1, <2>2, <3>1
  <2>3. CASE i = n + 1
    <3>1. m >= n + 1 BY <1>1, <1>4, <2>3
    <3> QED BY <1>3, <2>3, <3>1
  <2> QED BY <1>1, <2>2, <2>3
<1>7. CASE n + 2 <= m /\ n <= MaxLine
  <2>1. n + 2 \in 1 .. to /\ raw[n + 2] = "LF" BY <1>1, <1>3, <1>4, <1>7
  <2>2. nl \in 1 .. to /\ raw[nl] = "LF" /\ nl <= n + 2 BY <1>5, <2>1 DEF FirstAt
  <2>3. ~(nl <= n + 1) BY <1>6, <2>2
  <2>4. nl = n + 2 BY <1>1, <1>4, <2>2, <2>3
  <2> QED BY <1>2, <1>7, <2>4 DEF n, m
<1>8. CASE ~(n + 2 <= m /\ n <= MaxLine)
  <2>1. to < n + 2 BY <1>1, <1>4, <1>8
  <2>2. \A i \in 1 .. to : i <= n + 1 BY <1>1, <1>4, <2>1
  <2>3. nl = 0 BY <1>5, <1>6, <2>2 DEF FirstAt
  <2> QED BY <1>2, <1>8, <2>3 DEF n, m
<1> QED BY <1>7, <1>8

(* A line is refused when it is too long and as much of it is there. *)
LEMMA TooLongIs ==
  ASSUME NEW r \in Requests, NEW raw, Receives(raw, r)
  PROVE  LineTooLong(raw) <=> Len(r.line) > MaxLine /\ Len(raw) > MaxLine + 1
<1> DEFINE n == Len(r.line)
           m == Len(raw)
           nl == LineNl(raw)
           line == IF nl > 1 /\ raw[nl - 1] = "CR" THEN nl - 2 ELSE nl - 1
<1>1. n \in Nat /\ m \in Nat /\ MaxLine \in Nat BY HeadIs, HttpAssumption
<1>2. nl = IF n + 2 <= m /\ n <= MaxLine THEN n + 2 ELSE 0 BY LineNlIs
<1>3. m >= n + 1 => raw[n + 1] = "CR" BY LineIs
<1>4. LineTooLong(raw) <=> IF nl > 0 THEN line > MaxLine ELSE m > MaxLine + 1 BY DEF LineTooLong
<1> HIDE DEF n, m, nl
<1>5. CASE n + 2 <= m /\ n <= MaxLine
  <2>1. nl = n + 2 /\ nl > 1 /\ nl - 1 = n + 1 /\ nl - 2 = n /\ m >= n + 1 BY <1>1, <1>2, <1>5
  <2>2. line = n BY <1>3, <2>1
  <2> HIDE DEF line
  <2>3. ~(line > MaxLine) /\ nl > 0 BY <1>1, <1>5, <2>1, <2>2
  <2>4. ~LineTooLong(raw) BY <1>4, <2>3
  <2>5. ~(n > MaxLine) BY <1>1, <1>5
  <2> QED BY <2>4, <2>5 DEF n, m
<1>6. CASE ~(n + 2 <= m /\ n <= MaxLine)
  <2>1. ~(nl > 0) BY <1>2, <1>6
  <2>2. LineTooLong(raw) <=> m > MaxLine + 1 BY <1>4, <2>1
  <2>3. m > MaxLine + 1 => n > MaxLine BY <1>1, <1>6
  <2> QED BY <2>2, <2>3 DEF n, m
<1> QED BY <1>5, <1>6

(* The header block in bytes. *)
LEMMA HeaderSizeIs ==
  ASSUME NEW r \in Requests
  PROVE  HeaderSize(r) = IF Len(r.fields) = 0 THEN 0 ELSE 3 * Len(r.fields) - 2
<1>1. r.fields \in Seq(FieldSymbols) BY RequestIs
<1>2. r.fields = <<>> <=> Len(r.fields) = 0 BY <1>1, EmptySeq
<1>3. Len(FieldLines(r)) = 3 * Len(r.fields) BY FieldLinesAre
<1> QED BY <1>2, <1>3 DEF HeaderSize

(* The line ends between the first header and the last. *)
LEMMA LineEndsAre ==
  ASSUME NEW r \in Requests, NEW raw, Receives(raw, r), Len(raw) >= HeadLen(r), Len(r.fields) > 0
  PROVE  Cardinality({i \in Len(r.line) + 3 .. HeadLen(r) - 4 : raw[i] = "LF"}) = Len(r.fields) - 1
<1> DEFINE n == Len(r.line)
           f == Len(r.fields)
           h == HeadLen(r)
           m == Len(raw)
           b == Bytes(r)
           S == {i \in n + 3 .. h - 4 : raw[i] = "LF"}
           e == [k \in 1 .. f - 1 |-> n + 3 * k + 2]
<1>1. /\ n \in Nat /\ f \in Nat /\ h = n + 3 * f + 4 /\ m \in Nat /\ m >= h /\ f > 0
      /\ \A i \in 1 .. m : i <= h => raw[i] = b[i]
  BY HeadIs
<1>2. Layout(r, b) BY BytesAre
<1>3. /\ \A k \in 0 .. f : b[n + 3 * k + 1] = "CR" /\ b[n + 3 * k + 2] = "LF"
      /\ \A k \in 1 .. f : b[n + 3 * k] = r.fields[k] /\ r.fields[k] # "LF"
  <2>1. \A k \in 1 .. f : b[n + 3 * k] = r.fields[k] BY <1>2 DEF Layout
  <2>2. \A k \in 1 .. f : r.fields[k] # "LF" BY RequestIs, SymbolsAre
  <2>3. \A k \in 0 .. f : b[n + 3 * k + 1] = "CR" /\ b[n + 3 * k + 2] = "LF" BY <1>2 DEF Layout
  <2> QED BY <2>1, <2>2, <2>3
<1> HIDE DEF n, f, h, m, b
<1>4. \A i \in n + 3 .. h - 4 : raw[i] = b[i] BY <1>1
<1>5. ASSUME NEW k \in 1 .. f - 1 PROVE e[k] \in S
  <2>1. e[k] = n + 3 * k + 2 OBVIOUS
  <2>2. n + 3 * k + 2 \in n + 3 .. h - 4 /\ k \in 0 .. f BY <1>1
  <2>3. raw[n + 3 * k + 2] = "LF" BY <1>3, <1>4, <2>2
  <2> HIDE DEF e
  <2> QED BY <2>1, <2>2, <2>3
<1>6. ASSUME NEW i \in S PROVE \E k \in 1 .. f - 1 : i = e[k]
  <2>1. i \in n + 3 .. h - 4 /\ b[i] = "LF" BY <1>4
  <2>2. i \in 1 .. n + 3 * f + 4 BY <1>1, <2>1
  <2>3. \/ i \in 1 .. n
        \/ \E k \in 0 .. f : i = n + 3 * k + 1 \/ i = n + 3 * k + 2
        \/ \E k \in 1 .. f : i = n + 3 * k
        \/ i = n + 3 * f + 3 \/ i = n + 3 * f + 4
    BY <1>1, <2>2, PlacesAre
  <2>4. i \notin 1 .. n /\ i # n + 3 * f + 3 /\ i # n + 3 * f + 4 BY <1>1, <2>1
  <2>5. \A k \in 0 .. f : i # n + 3 * k + 1 BY <1>3, <2>1
  <2>6. \A k \in 1 .. f : i # n + 3 * k BY <1>3, <2>1
  <2>7. PICK k \in 0 .. f : i = n + 3 * k + 2 BY <2>3, <2>4, <2>5, <2>6
  <2>8. k \in 1 .. f - 1 BY <1>1, <2>1, <2>7
  <2> QED BY <2>7, <2>8
<1>7. \A k, j \in 1 .. f - 1 : e[k] = e[j] => k = j BY <1>1
<1>8. e \in [1 .. f - 1 -> S] BY <1>5
<1>9. f - 1 \in Nat BY <1>1
<1> HIDE DEF e, S
<1> DEFINE g == f - 1
<1> HIDE DEF g
<1>10. g \in Nat BY <1>9 DEF g
<1>11. e \in [1 .. g -> S] /\ (\A i \in S : \E k \in 1 .. g : e[k] = i)
      /\ \A k, j \in 1 .. g : e[k] = e[j] => k = j
  BY <1>6, <1>7, <1>8 DEF g
<1>12. e \in Bijection(1 .. g, S)
  BY <1>11, Zenon DEF Bijection, Injection, Surjection, IsInjective
<1>13. Cardinality(S) = g BY <1>10, <1>12, FS_CountingElements DEF ExistsBijection
<1> QED BY <1>13 DEF S, g, f, n, h

(* The header limits, judged on a whole head. *)
LEMMA TooLargeIs ==
  ASSUME NEW r \in Requests, NEW raw, Receives(raw, r), Len(raw) >= HeadLen(r), Len(r.line) <= MaxLine
  PROVE  HeadersTooLarge(raw) <=> HeaderSize(r) > MaxHeaderBytes \/ Len(r.fields) > MaxHeaders
<1> DEFINE n == Len(r.line)
           f == Len(r.fields)
           h == HeadLen(r)
           m == Len(raw)
           from == HeadersFrom(raw)
           to == HeadersTo(raw)
           S(x, y) == {i \in x .. y : raw[i] = "LF"}
           lines == 1 + Cardinality(S(from, to))
<1>1. /\ n \in Nat /\ f \in Nat /\ h = n + 3 * f + 4 /\ m \in Nat /\ m >= h /\ n <= MaxLine
      /\ MaxLine \in Nat /\ MaxHeaderBytes \in Nat /\ MaxHeaders \in Nat
  BY HeadIs, HttpAssumption
<1>2. LineNl(raw) = IF n + 2 <= m /\ n <= MaxLine THEN n + 2 ELSE 0 BY LineNlIs
<1>3. HeadEnd(raw) = h - 3 BY WholeHead
<1>4. HeaderSize(r) = IF f = 0 THEN 0 ELSE 3 * f - 2 BY HeaderSizeIs
<1>5. f > 0 => Cardinality(S(n + 3, h - 4)) = f - 1 BY LineEndsAre
<1>6. HeadersTooLarge(raw) <=> \/ to + 1 > from + MaxHeaderBytes
                               \/ HeadEnd(raw) > 0 /\ to + 1 > from /\ lines > MaxHeaders
  BY DEF HeadersTooLarge
<1>7. from = (IF LineNl(raw) > 0 THEN LineNl(raw) + 1 ELSE m + 1)
      /\ to = (IF HeadEnd(raw) > 0 THEN HeadEnd(raw) - 1 ELSE m)
  BY DEF HeadersFrom, HeadersTo
<1> HIDE DEF n, f, h, m, from, to, S
<1>8. LineNl(raw) = n + 2 BY <1>1, <1>2
<1>9. from = n + 3 /\ to = h - 4 /\ HeadEnd(raw) > 0 BY <1>1, <1>3, <1>7, <1>8
<1>10. f > 0 => lines = f BY <1>1, <1>5, <1>9
<1> HIDE DEF lines
<1>11. CASE f = 0
  <2>1. ~(to + 1 > from) /\ ~(to + 1 > from + MaxHeaderBytes) BY <1>1, <1>9, <1>11
  <2>2. ~(HeaderSize(r) > MaxHeaderBytes) /\ ~(f > MaxHeaders) BY <1>1, <1>4, <1>11
  <2> QED BY <1>6, <2>1, <2>2 DEF f
<1>12. CASE f # 0
  <2>1. f > 0 /\ to + 1 > from BY <1>1, <1>9, <1>12
  <2>2. to + 1 > from + MaxHeaderBytes <=> HeaderSize(r) > MaxHeaderBytes BY <1>1, <1>4, <1>9, <1>12
  <2>3. lines > MaxHeaders <=> f > MaxHeaders BY <1>10, <2>1
  <2> QED BY <1>6, <1>9, <2>1, <2>2, <2>3 DEF f
<1> QED BY <1>11, <1>12

(* And before the head is whole: refused too early by less than the        *)
(* terminator.                                                             *)
LEMMA TooLargeEarly ==
  ASSUME NEW r \in Requests, NEW raw, Receives(raw, r), ~(Len(raw) >= HeadLen(r)), HeadersTooLarge(raw)
  PROVE  NearHeaderLimit(r)
<1> DEFINE n == Len(r.line)
           f == Len(r.fields)
           h == HeadLen(r)
           m == Len(raw)
           nl == LineNl(raw)
           from == HeadersFrom(raw)
           to == HeadersTo(raw)
<1>1. /\ n \in Nat /\ f \in Nat /\ h = n + 3 * f + 4 /\ m \in Nat /\ ~(m >= h)
      /\ MaxHeaderBytes \in Nat /\ MaxHeaderBytes # 0
  BY HeadIs, HttpAssumption
<1>2. nl = 0 \/ nl = n + 2 BY LineNlIs
<1>3. HeadEnd(raw) = IF m < h THEN 0 ELSE h - 3 BY HeadEndIs
<1>4. HeaderSize(r) = IF f = 0 THEN 0 ELSE 3 * f - 2 BY HeaderSizeIs
<1>5. \/ to + 1 > from + MaxHeaderBytes \/ HeadEnd(raw) > 0
  BY DEF HeadersTooLarge
<1>6. from = (IF nl > 0 THEN nl + 1 ELSE m + 1)
      /\ to = (IF HeadEnd(raw) > 0 THEN HeadEnd(raw) - 1 ELSE m)
  BY DEF HeadersFrom, HeadersTo
<1> HIDE DEF n, f, h, m, nl, from, to
<1>7. HeadEnd(raw) = 0 BY <1>1, <1>3
<1>8. to = m /\ m + 1 > from + MaxHeaderBytes BY <1>5, <1>6, <1>7
<1>9. nl = n + 2 /\ from = n + 3 BY <1>1, <1>2, <1>6, <1>8
<1>10. 3 * f + 1 > MaxHeaderBytes BY <1>1, <1>8, <1>9
<1>11. f # 0 BY <1>1, <1>10
<1>12. HeaderSize(r) + 3 > MaxHeaderBytes BY <1>1, <1>4, <1>10, <1>11
<1> QED BY <1>12 DEF NearHeaderLimit

(* A head that broke no limit of the parser breaks none of its own. *)
LEMMA HeadWithin ==
  ASSUME NEW r \in Requests, NEW raw, Receives(raw, r), Len(raw) <= RecvBuf,
         ~LineTooLong(raw), ~HeadersTooLarge(raw), Len(raw) >= HeadLen(r)
  PROVE  Expected(r) = IF "chunked" \in Declared(r) THEN 501
                       ELSE IF LengthMalformed(raw) THEN 400
                       ELSE IF r.body > MaxBody \/ Len(Bytes(r)) > RecvBuf THEN 413 ELSE 200
<1> DEFINE n == Len(r.line)
           f == Len(r.fields)
           h == HeadLen(r)
           m == Len(raw)
<1>1. /\ n \in Nat /\ f \in Nat /\ h = n + 3 * f + 4 /\ m \in Nat /\ m >= h /\ m <= RecvBuf
      /\ MaxLine \in Nat /\ MaxHeaderBytes \in Nat /\ MaxHeaders \in Nat /\ RecvBuf \in Nat
  BY HeadIs, HttpAssumption
<1>2. ~(n > MaxLine /\ m > MaxLine + 1) BY TooLongIs
<1>3. Len(HeadBytes(r)) = h BY BytesAre
<1>4. n <= MaxLine => ~(HeaderSize(r) > MaxHeaderBytes) /\ ~(f > MaxHeaders) BY TooLargeIs
<1>5. LengthMalformed(raw) <=> "lenBad" \in Declared(r) \/ Cardinality(Lengths(r)) > 1 BY LengthsAre
<1> HIDE DEF n, f, h, m
<1>6. n <= MaxLine /\ ~(n > MaxLine) /\ ~(h > RecvBuf) BY <1>1, <1>2
<1>7. /\ ~(Len(r.line) > MaxLine) /\ ~(HeaderSize(r) > MaxHeaderBytes)
      /\ ~(Len(HeadBytes(r)) > RecvBuf) /\ ~(Len(r.fields) > MaxHeaders)
  BY <1>3, <1>4, <1>6 DEF n, f
<1>8. Expected(r) = IF "chunked" \in Declared(r) THEN 501
                    ELSE IF "lenBad" \in Declared(r) \/ Cardinality(Lengths(r)) > 1 THEN 400
                    ELSE IF r.body > MaxBody \/ Len(Bytes(r)) > RecvBuf THEN 413 ELSE 200
  BY <1>7, ZenonT(40) DEF Expected
<1> QED BY <1>5, <1>8, ZenonT(40)

(* An end of the head means that all of it is there. *)
LEMMA EndMeansWhole ==
  ASSUME NEW r \in Requests, NEW raw, Receives(raw, r)
  PROVE  HeadEnd(raw) > 0 <=> Len(raw) >= HeadLen(r)
<1> DEFINE n == Len(r.line)
           f == Len(r.fields)
           h == HeadLen(r)
           m == Len(raw)
<1>1. n \in Nat /\ f \in Nat /\ h = n + 3 * f + 4 /\ m \in Nat BY HeadIs
<1>2. HeadEnd(raw) = IF m < h THEN 0 ELSE h - 3 BY HeadEndIs
<1> HIDE DEF n, f, h, m
<1>3. HeadEnd(raw) > 0 <=> m >= h BY <1>1, <1>2
<1> QED BY <1>3 DEF m, h

(* The answer of the parser is the one the request calls for, but for the  *)
(* bytes of a terminator.                                                  *)
LEMMA ParseSays ==
  ASSUME NEW r \in Requests, NEW raw, Receives(raw, r), Len(raw) <= RecvBuf, Parse(raw) # 0
  PROVE  Parse(raw) = Expected(r) \/ (NearHeaderLimit(r) /\ Parse(raw) = 431)
<1> DEFINE n == Len(r.line)
           f == Len(r.fields)
           h == HeadLen(r)
           m == Len(raw)
<1>1. /\ n \in Nat /\ f \in Nat /\ h = n + 3 * f + 4 /\ m \in Nat
      /\ MaxLine \in Nat /\ MaxHeaderBytes \in Nat /\ MaxHeaders \in Nat /\ RecvBuf \in Nat
  BY HeadIs, HttpAssumption
<1>2. LineTooLong(raw) <=> n > MaxLine /\ m > MaxLine + 1 BY TooLongIs
<1>3. CASE LineTooLong(raw)
  <2>1. Parse(raw) = 414 BY <1>3 DEF Parse
  <2>2. Expected(r) = 414 BY <1>2, <1>3 DEF Expected
  <2> QED BY <2>1, <2>2
<1>4. CASE ~LineTooLong(raw) /\ HeadersTooLarge(raw)
  <2>1. Parse(raw) = 431 BY <1>4 DEF Parse
  <2>2. CASE ~(m >= h) BY <1>4, <2>1, <2>2, TooLargeEarly
  <2>3. CASE m >= h
    <3>1. n <= MaxLine /\ ~(n > MaxLine)
      <4> HIDE DEF n, f, h, m
      <4> QED BY <1>1, <1>2, <1>4, <2>3
    <3>2. HeaderSize(r) > MaxHeaderBytes \/ f > MaxHeaders BY <1>4, <2>3, <3>1, TooLargeIs
    <3>3. Expected(r) = 431 BY <3>1, <3>2 DEF Expected
    <3> QED BY <2>1, <3>3
  <2> QED BY <2>2, <2>3
<1>5. CASE ~LineTooLong(raw) /\ ~HeadersTooLarge(raw)
  <2>1. HeadEnd(raw) # 0 BY <1>5 DEF Parse
  <2>2. m >= h
    <3>1. HeadEnd(raw) = IF m < h THEN 0 ELSE h - 3 BY HeadEndIs
    <3> HIDE DEF n, f, h, m
    <3> QED BY <1>1, <2>1, <3>1
  <2>3. Expected(r) = IF "chunked" \in Declared(r) THEN 501
                       ELSE IF LengthMalformed(raw) THEN 400
                       ELSE IF r.body > MaxBody \/ Len(Bytes(r)) > RecvBuf THEN 413 ELSE 200
    BY <1>5, <2>2, HeadWithin
  <2>4. Parse(raw) = IF "chunked" \in Fields(raw) THEN 501
                     ELSE IF LengthMalformed(raw) THEN 400
                     ELSE IF ContentLength(raw) > MaxBody THEN 413 ELSE 200
    BY <1>5, <2>1, ZenonT(60) DEF Parse
  <2>5. "chunked" \in Fields(raw) <=> "chunked" \in Declared(r) BY <2>2, FieldsAre DEF Telling
  <2>6. ~LengthMalformed(raw) => Consumed(raw) = Len(Bytes(r)) /\ ContentLength(raw) = r.body
    BY <2>2, LengthsAre
  <2>7. CASE "chunked" \in Fields(raw) \/ LengthMalformed(raw) BY <2>3, <2>4, <2>5, <2>7
  <2>8. CASE ~("chunked" \in Fields(raw)) /\ ~LengthMalformed(raw)
    <3>1. CASE r.body > MaxBody BY <2>3, <2>4, <2>5, <2>6, <2>8, <3>1
    <3>2. CASE ~(r.body > MaxBody)
      <4>1. ~(m < Consumed(raw)) BY <1>5, <2>1, <2>6, <2>8, <3>2 DEF Parse
      <4>2. ~(Len(Bytes(r)) > RecvBuf)
        <5> DEFINE l == Len(Bytes(r))
        <5>1. l = h + r.body /\ h \in Nat /\ r.body \in Nat /\ m <= RecvBuf /\ ~(m < l)
          BY <2>6, <2>8, <4>1, HeadIs
        <5> HIDE DEF l, h, m, n, f
        <5>2. ~(l > RecvBuf) BY <1>1, <5>1
        <5> QED BY <5>2 DEF l
      <4> QED BY <2>3, <2>4, <2>5, <2>6, <2>8, <3>2, <4>2
    <3> QED BY <3>1, <3>2
  <2> QED BY <2>7, <2>8
<1> QED BY <1>3, <1>4, <1>5

(* A request line within the limit fits the receive buffer: 8192 of 16383  *)
(* bytes, unless ORBIT_HTTP_MAX_REQUEST_LINE says otherwise.               *)
LinesFit == MaxLine + 1 < RecvBuf

(* And so is the answer to a full buffer. *)
LEMMA FullSays ==
  ASSUME LinesFit, NEW r \in Requests, WellFormed(r), NEW raw, Receives(raw, r),
         Len(raw) = RecvBuf, Parse(raw) = 0
  PROVE  Expected(r) = IF HeadEnd(raw) > 0 THEN 413 ELSE 431
<1> DEFINE n == Len(r.line)
           f == Len(r.fields)
           h == HeadLen(r)
           m == Len(raw)
           l == Len(Bytes(r))
<1>1. /\ n \in Nat /\ f \in Nat /\ h = n + 3 * f + 4 /\ m \in Nat /\ m = RecvBuf
      /\ MaxLine \in Nat /\ MaxHeaderBytes \in Nat /\ MaxHeaders \in Nat /\ RecvBuf \in Nat
      /\ l = h + r.body /\ r.body \in Nat
  BY HeadIs, HttpAssumption
<1>2. ~LineTooLong(raw) /\ ~HeadersTooLarge(raw) BY DEF Parse
<1>3. ~(n > MaxLine)
  <2>1. ~(n > MaxLine /\ m > MaxLine + 1) BY <1>2, TooLongIs
  <2> HIDE DEF n, f, h, m, l
  <2> QED BY <1>1, <2>1 DEF LinesFit
<1>4. ~(m >= l) BY CompleteParsed
<1>5. HeadEnd(raw) > 0 <=> m >= h BY EndMeansWhole
<1>6. CASE m >= h
  <2>1. Expected(r) = IF "chunked" \in Declared(r) THEN 501
                       ELSE IF LengthMalformed(raw) THEN 400
                       ELSE IF r.body > MaxBody \/ l > RecvBuf THEN 413 ELSE 200
    <3>1. m <= RecvBuf BY <1>1
    <3> QED BY <1>2, <1>6, <3>1, HeadWithin
  <2>2. HeadEnd(raw) # 0 BY <1>5, <1>6
  <2>3. "chunked" \notin Fields(raw) /\ ~LengthMalformed(raw) BY <1>2, <2>2 DEF Parse
  <2>4. "chunked" \notin Declared(r) BY <1>6, <2>3, FieldsAre DEF Telling
  <2>5. l > RecvBuf
    <3> HIDE DEF n, f, h, m, l
    <3> QED BY <1>1, <1>4
  <2> QED BY <1>5, <1>6, <2>1, <2>3, <2>4, <2>5
<1>7. CASE ~(m >= h)
  <2>1. h > RecvBuf
    <3> HIDE DEF n, f, h, m, l
    <3> QED BY <1>1, <1>7
  <2>2. Len(HeadBytes(r)) > RecvBuf BY <2>1, BytesAre
  <2>3. Expected(r) = 431 BY <1>3, <2>2 DEF Expected
  <2> QED BY <1>5, <1>7, <2>3
<1> QED BY <1>6, <1>7

-----------------------------------------------------------------------------
(* The stream: requests one after the other, in the buffer and on the      *)
(* wire.                                                                   *)

(* A part of a sequence, from after a to b. *)
LEMMA PartIs ==
  ASSUME NEW S, NEW s \in Seq(S), NEW a \in Nat, NEW b \in Nat, a <= b, b <= Len(s)
  PROVE  /\ SubSeq(s, a + 1, b) \in Seq(S) /\ Len(SubSeq(s, a + 1, b)) = b - a
         /\ \A i \in 1 .. b - a : SubSeq(s, a + 1, b)[i] = s[a + i]
<1> DEFINE c == a + 1
           l == Len(s)
<1>1. l \in Nat /\ c \in Int /\ b \in Int /\ b <= l BY LenProperties
<1>2. \A i \in c .. b : i \in 1 .. l BY <1>1
<1>3. \A i \in c .. b : s[i] \in S BY <1>2, ElementOfSeq
<1>4. /\ b - c + 1 = b - a /\ (~(c <= b) => b - a = 0)
      /\ \A i \in 1 .. b - a : c + i - 1 = a + i
  OBVIOUS
<1> HIDE DEF c
<1>5. /\ SubSeq(s, c, b) \in Seq(S) /\ Len(SubSeq(s, c, b)) = (IF c <= b THEN b - c + 1 ELSE 0)
      /\ \A i \in 1 .. b - c + 1 : SubSeq(s, c, b)[i] = s[c + i - 1]
  BY <1>1, <1>3, SubSeqProperties
<1> DEFINE t == SubSeq(s, c, b)
<1> HIDE DEF t
<1>6. /\ t \in Seq(S) /\ Len(t) = (IF c <= b THEN b - c + 1 ELSE 0)
      /\ \A i \in 1 .. b - c + 1 : t[i] = s[c + i - 1]
  BY <1>5 DEF t
<1>7. t \in Seq(S) /\ Len(t) = b - a /\ \A i \in 1 .. b - a : t[i] = s[a + i]
  BY <1>4, <1>6
<1> QED BY <1>7 DEF t, c

(* The stream of requests rs as it grows by one request after the other. *)
Stream(rs, g) ==
  /\ g \in [0 .. Len(rs) -> Seq(Symbols)] /\ g[0] = <<>>
  /\ \A k \in 1 .. Len(rs) : g[k] = g[k - 1] \o Bytes(rs[k])
  /\ g[Len(rs)] = FlattenSeq([i \in 1 .. Len(rs) |-> Bytes(rs[i])])

(* That stream after each of the requests. *)
Cuts(rs) == CHOOSE g : Stream(rs, g)

(* There is such a stream: FlattenSeq builds it. *)
LEMMA CutsAre == ASSUME NEW rs \in Seq(Requests) PROVE Stream(rs, Cuts(rs))
<1> DEFINE n == Len(rs)
           seqs == [i \in 1 .. n |-> Bytes(rs[i])]
<1>1. n \in Nat /\ \A i \in 1 .. n : rs[i] \in Requests OBVIOUS
<1>2. \A i \in 1 .. n : Bytes(rs[i]) \in Seq(Symbols) BY <1>1, BytesAre DEF Layout
<1>3. seqs \in [1 .. n -> Seq(Symbols)] /\ \A i \in 1 .. n : seqs[i] = Bytes(rs[i]) BY <1>2
<1> HIDE DEF n
<1>4. PICK q : q = seqs OBVIOUS
<1>5. q \in Seq(Seq(Symbols)) /\ Len(q) = n
  <2>1. q \in [1 .. n -> Seq(Symbols)] BY <1>3, <1>4
  <2> QED BY <1>1, <2>1, SequenceIs
<1>6. PICK g \in [0 .. n -> Seq(Symbols)] :
        /\ g[0] = <<>> /\ g[n] = FlattenSeq(q) /\ \A k \in 1 .. n : g[k] = g[k - 1] \o q[k]
  BY <1>5, FlattenGoes
<1>7. \A k \in 1 .. n : g[k] = g[k - 1] \o Bytes(rs[k]) BY <1>3, <1>4, <1>6
<1>8. g[n] = FlattenSeq([i \in 1 .. n |-> Bytes(rs[i])]) BY <1>4, <1>6
<1>9. Stream(rs, g) BY <1>6, <1>7, <1>8 DEF Stream, n
<1> QED BY <1>9 DEF Cuts

(* The bytes of all of rs. *)
Whole(rs) == Cuts(rs)[Len(rs)]

(* Where the h-th request ends in them. *)
StreamEnd(rs, h) == Len(Cuts(rs)[h])

(* The first request begins at 0, and the last ends where the stream does. *)
LEMMA WholeIs ==
  ASSUME NEW rs \in Seq(Requests)
  PROVE  /\ Whole(rs) \in Seq(Symbols) /\ StreamEnd(rs, 0) = 0 /\ StreamEnd(rs, Len(rs)) = Len(Whole(rs))
         /\ Whole(rs) = FlattenSeq([i \in 1 .. Len(rs) |-> Bytes(rs[i])])
<1>1. Stream(rs, Cuts(rs)) BY CutsAre
<1>2. Len(rs) \in 0 .. Len(rs) OBVIOUS
<1> QED BY <1>1, <1>2 DEF Stream, Whole, StreamEnd

(* The bytes of a request are in the stream after those before it. *)
LEMMA RequestAt ==
  ASSUME NEW rs \in Seq(Requests), NEW h \in Nat, h < Len(rs)
  PROVE  /\ StreamEnd(rs, h) \in Nat /\ StreamEnd(rs, h + 1) = StreamEnd(rs, h) + Len(Bytes(rs[h + 1]))
         /\ StreamEnd(rs, h + 1) <= Len(Whole(rs))
         /\ \A i \in 1 .. Len(Bytes(rs[h + 1])) :
              Whole(rs)[StreamEnd(rs, h) + i] = Bytes(rs[h + 1])[i]
<1> DEFINE n == Len(rs)
           c == Cuts(rs)
           b == Bytes(rs[h + 1])
<1>1. Stream(rs, c) BY CutsAre
<1>2. /\ n \in Nat /\ c \in [0 .. n -> Seq(Symbols)]
      /\ \A k \in 1 .. n : c[k] = c[k - 1] \o Bytes(rs[k])
  BY <1>1 DEF Stream
<1>3. \A k \in 1 .. n : Bytes(rs[k]) \in Seq(Symbols)
  <2>1. \A k \in 1 .. n : rs[k] \in Requests OBVIOUS
  <2> QED BY <2>1, BytesAre DEF Layout
<1>4. h < n OBVIOUS
<1> HIDE DEF n, c
<1>5. h + 1 \in 1 .. n /\ h \in 0 .. n /\ h + 1 \in 0 .. n /\ h + 1 - 1 = h BY <1>2, <1>4
<1>6. c[h + 1] = c[h] \o b /\ c[h] \in Seq(Symbols) /\ b \in Seq(Symbols)
  <2> DEFINE k == h + 1
  <2> HIDE DEF k
  <2>1. k \in 1 .. n /\ k - 1 = h BY <1>5 DEF k
  <2>2. c[k] = c[k - 1] \o Bytes(rs[k]) /\ Bytes(rs[k]) \in Seq(Symbols) BY <1>2, <1>3, <2>1
  <2>3. c[h] \in Seq(Symbols) BY <1>2, <1>5
  <2> QED BY <2>1, <2>2, <2>3 DEF k
<1> HIDE DEF b
<1> DEFINE u == c[h]
           v == c[h + 1]
<1>7. u \in Seq(Symbols) /\ v = u \o b BY <1>6
<1> HIDE DEF u, v
<1>8. /\ v \in Seq(Symbols) /\ Len(v) = Len(u) + Len(b) /\ Len(u) \in Nat /\ Len(b) \in Nat
      /\ \A i \in 1 .. Len(b) : v[Len(u) + i] = b[i]
  BY <1>6, <1>7, Concat
<1> DEFINE Fine(k) == Len(v) <= Len(c[k]) /\ \A i \in 1 .. Len(v) : c[k][i] = v[i]
           Bad == {k \in h + 1 .. n : ~Fine(k)}
<1>9. Bad = {}
  <2> SUFFICES ASSUME Bad # {} PROVE FALSE OBVIOUS
  <2>1. Bad \in SUBSET Nat
    <3>1. \A k \in h + 1 .. n : k \in Nat BY <1>2
    <3> QED BY <3>1
  <2>2. PICK k \in Bad : \A j \in Bad : k <= j
    <3> HIDE DEF Bad
    <3> QED BY <2>1, LeastNumber
  <2>3. k \in h + 1 .. n /\ ~Fine(k) OBVIOUS
  <2>4. Fine(h + 1)
    <3>1. c[h + 1] = v BY DEF v
    <3> QED BY <1>8, <3>1
  <2>5. k \in 1 .. n /\ k - 1 \in 0 .. n /\ k - 1 \in h + 1 .. n /\ ~(k <= k - 1) /\ k \in 0 .. n
    <3> HIDE DEF Fine
    <3> QED BY <1>2, <2>3, <2>4
  <2>6. Fine(k - 1)
    <3> HIDE DEF Fine
    <3> QED BY <2>2, <2>5
  <2> DEFINE s == c[k - 1]
             t == Bytes(rs[k])
  <2>7. s \in Seq(Symbols) /\ t \in Seq(Symbols) /\ c[k] = s \o t BY <1>2, <1>3, <2>5
  <2>8. Len(v) <= Len(s) /\ \A i \in 1 .. Len(v) : s[i] = v[i] BY <2>6
  <2> HIDE DEF s, t
  <2>9. /\ Len(s \o t) = Len(s) + Len(t) /\ Len(s) \in Nat /\ Len(t) \in Nat
        /\ \A i \in 1 .. Len(s) : (s \o t)[i] = s[i]
    BY <2>7, Concat
  <2>10. Len(v) \in Nat BY <1>8
  <2>11. \A i \in 1 .. Len(v) : i \in 1 .. Len(s) BY <2>8, <2>9, <2>10
  <2>12. Len(v) <= Len(s \o t) BY <2>8, <2>9, <2>10
  <2>13. \A i \in 1 .. Len(v) : (s \o t)[i] = v[i] BY <2>8, <2>9, <2>11
  <2>14. Fine(k) BY <2>7, <2>12, <2>13
  <2> QED BY <2>3, <2>14
<1>10. n \in h + 1 .. n BY <1>2, <1>5
<1>11. Fine(n) BY <1>9, <1>10
<1>12. \A i \in 1 .. Len(b) : Len(u) + i \in 1 .. Len(v) BY <1>8
<1>13. \A i \in 1 .. Len(b) : c[n][Len(u) + i] = b[i] BY <1>8, <1>11, <1>12
<1>14. /\ StreamEnd(rs, h) = Len(u) /\ StreamEnd(rs, h + 1) = Len(v) /\ Whole(rs) = c[n]
  BY DEF StreamEnd, Whole, u, v, c, n
<1>15. Len(v) <= Len(c[n]) BY <1>11
<1> QED BY <1>8, <1>13, <1>14, <1>15 DEF b

(* Nothing comes after the last request. *)
LEMMA EndsApart ==
  ASSUME NEW rs \in Seq(Requests), NEW h \in Nat, h <= Len(rs), StreamEnd(rs, h) < Len(Whole(rs))
  PROVE  h < Len(rs)
<1>1. StreamEnd(rs, Len(rs)) = Len(Whole(rs)) /\ Whole(rs) \in Seq(Symbols) BY WholeIs
<1>2. Len(Whole(rs)) \in Nat BY <1>1
<1>3. h # Len(rs) BY <1>1, <1>2
<1>4. Len(rs) \in Nat OBVIOUS
<1> QED BY <1>3, <1>4

(* The stream of rs goes on in buffer b after p bytes and then on the wire *)
(* w, from the end of the h-th request.                                    *)
InStep(rs, h, b, p, w) ==
  /\ StreamEnd(rs, h) - p + Len(b) + Len(w) = Len(Whole(rs))
  /\ \A i \in p + 1 .. Len(b) : b[i] = Whole(rs)[StreamEnd(rs, h) - p + i]
  /\ \A i \in 1 .. Len(w) : w[i] = Whole(rs)[StreamEnd(rs, h) - p + Len(b) + i]

(* The end of a request in the stream is a number of bytes. *)
LEMMA EndsAre ==
  ASSUME NEW rs \in Seq(Requests), NEW h \in Nat, h <= Len(rs)
  PROVE  StreamEnd(rs, h) \in Nat
<1>1. Stream(rs, Cuts(rs)) BY CutsAre
<1>2. h \in 0 .. Len(rs) OBVIOUS
<1>3. Cuts(rs)[h] \in Seq(Symbols) BY <1>1, <1>2 DEF Stream
<1> QED BY <1>3 DEF StreamEnd

(* When a client has connected. *)
LEMMA StepsFirst ==
  ASSUME NEW rs \in Seq(Requests)
  PROVE  InStep(rs, 0, <<>>, 0, Whole(rs))
<1>1. Whole(rs) \in Seq(Symbols) /\ StreamEnd(rs, 0) = 0 BY WholeIs
<1>2. Len(Whole(rs)) \in Nat BY <1>1
<1>3. Len(<<>>) = 0 OBVIOUS
<1> QED BY <1>1, <1>2, <1>3 DEF InStep

(* When n bytes have been received. *)
LEMMA StepsReceived ==
  ASSUME NEW rs \in Seq(Requests), NEW h \in Nat, h <= Len(rs),
         NEW b \in Seq(Symbols), NEW w \in Seq(Symbols), NEW n \in Nat, n <= Len(w),
         InStep(rs, h, b, 0, w)
  PROVE  InStep(rs, h, b \o SubSeq(w, 1, n), 0, SubSeq(w, n + 1, Len(w)))
<1> DEFINE E == StreamEnd(rs, h)
           T == Whole(rs)
           x == SubSeq(w, 1, n)
           y == SubSeq(w, n + 1, Len(w))
           m == Len(b)
           k == Len(w)
<1>1. E \in Nat /\ m \in Nat /\ k \in Nat /\ n <= k BY EndsAre
<1>2. x \in Seq(Symbols) /\ Len(x) = n /\ \A i \in 1 .. n : x[i] = w[i]
  <2> DEFINE z == 0
             o == z + 1
  <2>1. z \in Nat /\ z <= n /\ n - z = n /\ o = 1 /\ \A i \in 1 .. n : z + i = i OBVIOUS
  <2> HIDE DEF z
  <2>2. /\ SubSeq(w, z + 1, n) \in Seq(Symbols) /\ Len(SubSeq(w, z + 1, n)) = n - z
        /\ \A i \in 1 .. n - z : SubSeq(w, z + 1, n)[i] = w[z + i]
    BY <2>1, PartIs
  <2> HIDE DEF o
  <2>3. SubSeq(w, z + 1, n) = SubSeq(w, 1, n) BY <2>1 DEF o
  <2> QED BY <2>1, <2>2, <2>3
<1>3. y \in Seq(Symbols) /\ Len(y) = k - n /\ \A i \in 1 .. k - n : y[i] = w[n + i]
  <2>1. k \in Nat /\ n <= k /\ k <= Len(w) BY <1>1
  <2> QED BY <2>1, PartIs
<1> HIDE DEF x, y
<1>5. /\ E - 0 + m + k = Len(T)
      /\ \A i \in 0 + 1 .. m : b[i] = T[E - 0 + i]
      /\ \A i \in 1 .. k : w[i] = T[E - 0 + m + i]
  BY DEF InStep
<1>6. /\ Len(b \o x) = m + n
      /\ \A i \in 1 .. m : (b \o x)[i] = b[i]
      /\ \A j \in 1 .. n : (b \o x)[m + j] = x[j]
  <2>1. /\ Len(b \o x) = Len(b) + Len(x)
        /\ \A i \in 1 .. Len(b) : (b \o x)[i] = b[i]
        /\ \A i \in 1 .. Len(x) : (b \o x)[Len(b) + i] = x[i]
    <3>1. b \in Seq(Symbols) /\ x \in Seq(Symbols) BY <1>2
    <3> QED BY <3>1, Concat
  <2> QED BY <1>2, <2>1
<1> DEFINE c == b \o x
<1> HIDE DEF E, T, m, k, c
<1>7. /\ E - 0 + (m + n) + (k - n) = Len(T)
      /\ E - 0 = E /\ 0 + 1 = 1
  <2> DEFINE t == Len(T)
  <2>1. E - 0 + m + k = t BY <1>5
  <2> HIDE DEF t
  <2>2. E - 0 + (m + n) + (k - n) = t BY <1>1, <2>1
  <2>3. E - 0 = E /\ 0 + 1 = 1 BY <1>1
  <2> QED BY <2>2, <2>3 DEF t
<1>8. ASSUME NEW i \in 1 .. m + n PROVE c[i] = T[E + i]
  <2>1. CASE i <= m
    <3>1. i \in 1 .. m BY <1>1, <2>1
    <3> QED BY <1>5, <1>6, <1>7, <3>1 DEF c
  <2>2. CASE i > m
    <3>1. i - m \in 1 .. n /\ m + (i - m) = i /\ i - m \in 1 .. k /\ E + m + (i - m) = E + i BY <1>1, <2>2
    <3>2. c[m + (i - m)] = x[i - m] BY <1>6, <3>1 DEF c
    <3>3. x[i - m] = w[i - m] BY <1>2, <3>1
    <3>4. w[i - m] = T[E + m + (i - m)] BY <1>5, <1>7, <3>1
    <3> QED BY <3>1, <3>2, <3>3, <3>4
  <2> QED BY <1>1, <2>1, <2>2
<1>9. ASSUME NEW i \in 1 .. k - n PROVE y[i] = T[E + (m + n) + i]
  <2>1. n + i \in 1 .. k /\ E + m + (n + i) = E + (m + n) + i BY <1>1
  <2>2. y[i] = w[n + i] BY <1>3
  <2>3. w[n + i] = T[E + m + (n + i)] BY <1>5, <1>7, <2>1
  <2> QED BY <2>1, <2>2, <2>3
<1>10. Len(c) = m + n /\ Len(y) = k - n BY <1>3, <1>6 DEF c
<1>11. InStep(rs, h, c, 0, y)
  <2>1. E = StreamEnd(rs, h) /\ T = Whole(rs) BY DEF E, T
  <2> QED BY <1>7, <1>8, <1>9, <1>10, <2>1 DEF InStep
<1> QED BY <1>11 DEF c, x, y, k

(* When what is left has been moved to the front. *)
LEMMA StepsMoved ==
  ASSUME NEW rs \in Seq(Requests), NEW h \in Nat, h <= Len(rs),
         NEW b \in Seq(Symbols), NEW w \in Seq(Symbols), NEW p \in 0 .. Len(b), InStep(rs, h, b, p, w)
  PROVE  InStep(rs, h, SubSeq(b, p + 1, Len(b)), 0, w)
<1> DEFINE E == StreamEnd(rs, h)
           T == Whole(rs)
           m == Len(b)
           k == Len(w)
           x == SubSeq(b, p + 1, m)
<1>1. E \in Nat /\ m \in Nat /\ k \in Nat /\ p \in Nat /\ p <= m BY EndsAre
<1>2. x \in Seq(Symbols) /\ Len(x) = m - p /\ \A i \in 1 .. m - p : x[i] = b[p + i]
  <2>1. p \in Nat /\ m \in Nat /\ p <= m /\ m <= Len(b) BY <1>1
  <2> QED BY <2>1, PartIs
<1>3. /\ E - p + m + k = Len(T)
      /\ \A i \in p + 1 .. m : b[i] = T[E - p + i]
      /\ \A i \in 1 .. k : w[i] = T[E - p + m + i]
  BY DEF InStep
<1> HIDE DEF E, T, m, k, x
<1>4. E - 0 + (m - p) + k = Len(T) BY <1>1, <1>3
<1>5. ASSUME NEW i \in 0 + 1 .. m - p PROVE x[i] = T[E - 0 + i]
  <2>1. i \in 1 .. m - p /\ p + i \in p + 1 .. m /\ E - p + (p + i) = E - 0 + i BY <1>1
  <2>2. b[p + i] = T[E - p + (p + i)] BY <1>3, <2>1
  <2> QED BY <1>2, <2>1, <2>2
<1>6. ASSUME NEW i \in 1 .. k PROVE w[i] = T[E - 0 + (m - p) + i]
  <2>1. E - p + m + i = E - 0 + (m - p) + i BY <1>1
  <2> QED BY <1>3, <2>1
<1>7. InStep(rs, h, x, 0, w)
  <2>1. E = StreamEnd(rs, h) /\ T = Whole(rs) /\ k = Len(w) BY DEF E, T, k
  <2> QED BY <1>2, <1>4, <1>5, <1>6, <2>1 DEF InStep
<1> QED BY <1>7 DEF x, m

(* While something is left, it is the next request. *)
LEMMA StepsNext ==
  ASSUME NEW rs \in Seq(Requests), NEW h \in Nat, h <= Len(rs),
         NEW b \in Seq(Symbols), NEW w \in Seq(Symbols), NEW p \in 0 .. Len(b), InStep(rs, h, b, p, w)
  PROVE  /\ p < Len(b) \/ w # <<>> => h < Len(rs)
         /\ h < Len(rs) => Receives(SubSeq(b, p + 1, Len(b)), rs[h + 1])
         /\ h < Len(rs) /\ w = <<>> => Len(SubSeq(b, p + 1, Len(b))) >= Len(Bytes(rs[h + 1]))
         /\ Len(SubSeq(b, p + 1, Len(b))) = Len(b) - p /\ SubSeq(b, p + 1, Len(b)) \in Seq(Symbols)
<1> DEFINE E == StreamEnd(rs, h)
           T == Whole(rs)
           m == Len(b)
           k == Len(w)
           x == SubSeq(b, p + 1, m)
<1>1. E \in Nat /\ m \in Nat /\ k \in Nat /\ p \in Nat /\ p <= m BY EndsAre
<1>2. x \in Seq(Symbols) /\ Len(x) = m - p /\ \A i \in 1 .. m - p : x[i] = b[p + i]
  <2>1. p \in Nat /\ m \in Nat /\ p <= m /\ m <= Len(b) BY <1>1
  <2> QED BY <2>1, PartIs
<1>3. /\ E - p + m + k = Len(T)
      /\ \A i \in p + 1 .. m : b[i] = T[E - p + i]
  BY DEF InStep
<1>4. w # <<>> <=> k > 0 BY EmptySeq
<1>5. ASSUME p < m \/ w # <<>> PROVE h < Len(rs)
  <2>1. E < Len(T)
    <3> HIDE DEF E, T, m, k
    <3> QED BY <1>1, <1>3, <1>4, <1>5
  <2> QED BY <2>1, EndsApart
<1>6. ASSUME h < Len(rs)
      PROVE  Receives(x, rs[h + 1]) /\ (w = <<>> => Len(x) >= Len(Bytes(rs[h + 1])))
  <2> DEFINE z == Bytes(rs[h + 1])
             l == Len(z)
  <2>1. /\ StreamEnd(rs, h + 1) = E + l /\ StreamEnd(rs, h + 1) <= Len(T)
        /\ \A i \in 1 .. l : T[E + i] = z[i]
    BY <1>6, RequestAt
  <2>2. l \in Nat
    <3>1. h + 1 \in 1 .. Len(rs) BY <1>6
    <3>2. rs[h + 1] \in Requests BY <3>1
    <3> HIDE DEF l
    <3>3. z \in Seq(Symbols) BY <3>2, BytesAre DEF Layout
    <3> QED BY <3>3 DEF l
  <2> HIDE DEF E, T, m, k, x, z, l
  <2>3. ASSUME NEW i \in 1 .. m - p, i <= l PROVE x[i] = z[i]
    <3>1. p + i \in p + 1 .. m /\ E - p + (p + i) = E + i /\ i \in 1 .. l BY <1>1, <2>2, <2>3
    <3>2. b[p + i] = T[E + i] BY <1>3, <3>1
    <3> QED BY <1>2, <2>1, <3>1, <3>2
  <2>4. Receives(x, rs[h + 1]) BY <1>2, <2>3 DEF Receives, z, l
  <2>5. w = <<>> => m - p >= l BY <1>1, <1>3, <1>4, <2>1, <2>2
  <2> QED BY <1>2, <2>4, <2>5 DEF l, z
<1> QED BY <1>2, <1>5, <1>6

(* When a request has been taken out, whatever zeros it was cut with. *)
LEMMA StepsTaken ==
  ASSUME NEW rs \in Seq(Requests), NEW h \in Nat, h < Len(rs),
         NEW b \in Seq(Symbols), NEW w \in Seq(Symbols), NEW p \in 0 .. Len(b), InStep(rs, h, b, p, w),
         NEW x \in Seq(Symbols), Len(x) = Len(b) - p,
         \A i \in 1 .. Len(x) : i > Len(Bytes(rs[h + 1])) => x[i] = SubSeq(b, p + 1, Len(b))[i]
  PROVE  InStep(rs, h + 1, SubSeq(b, 1, p) \o x, p + Len(Bytes(rs[h + 1])), w)
<1> DEFINE E == StreamEnd(rs, h)
           T == Whole(rs)
           m == Len(b)
           k == Len(w)
           z == Bytes(rs[h + 1])
           l == Len(z)
           y == SubSeq(b, p + 1, m)
           a == SubSeq(b, 1, p)
<1>1. E \in Nat /\ m \in Nat /\ k \in Nat /\ p \in Nat /\ p <= m
  <2>1. h <= Len(rs) OBVIOUS
  <2>2. E \in Nat BY <2>1, EndsAre
  <2>3. m \in Nat /\ k \in Nat OBVIOUS
  <2> HIDE DEF E
  <2> QED BY <2>2, <2>3
<1>2. y \in Seq(Symbols) /\ Len(y) = m - p /\ \A i \in 1 .. m - p : y[i] = b[p + i]
  <2>1. p \in Nat /\ m \in Nat /\ p <= m /\ m <= Len(b) BY <1>1
  <2> QED BY <2>1, PartIs
<1>3. a \in Seq(Symbols) /\ Len(a) = p
  <2> DEFINE o == 0
  <2>1. o \in Nat /\ p \in Nat /\ o <= p /\ p <= Len(b) /\ o + 1 = 1 /\ p - o = p BY <1>1
  <2> HIDE DEF o
  <2>2. SubSeq(b, o + 1, p) \in Seq(Symbols) /\ Len(SubSeq(b, o + 1, p)) = p - o BY <2>1, PartIs
  <2> QED BY <2>1, <2>2
<1>4. /\ E - p + m + k = Len(T)
      /\ \A i \in p + 1 .. m : b[i] = T[E - p + i]
      /\ \A i \in 1 .. k : w[i] = T[E - p + m + i]
  BY DEF InStep
<1>5. StreamEnd(rs, h + 1) = E + l BY RequestAt
<1>6. l \in Nat
  <2>1. h + 1 \in 1 .. Len(rs) OBVIOUS
  <2>2. rs[h + 1] \in Requests BY <2>1
  <2> HIDE DEF l
  <2>3. z \in Seq(Symbols) BY <2>2, BytesAre DEF Layout
  <2> QED BY <2>3 DEF l
<1>7. Len(x) = m - p /\ \A i \in 1 .. m - p : i > l => x[i] = y[i] OBVIOUS
<1> HIDE DEF E, T, m, k, z, l, y, a
<1> DEFINE c == a \o x
<1>8. /\ Len(c) = m
      /\ \A i \in 1 .. m - p : c[p + i] = x[i]
  <2>1. /\ Len(a \o x) = Len(a) + Len(x)
        /\ \A i \in 1 .. Len(x) : (a \o x)[Len(a) + i] = x[i]
    BY <1>3, Concat
  <2> QED BY <1>1, <1>3, <1>7, <2>1
<1> HIDE DEF c
<1>9. E + l - (p + l) = E - p BY <1>1, <1>6
<1>10. ASSUME NEW i \in p + l + 1 .. m PROVE c[i] = T[E - p + i]
  <2>1. i - p \in 1 .. m - p /\ i - p > l /\ p + (i - p) = i /\ i \in p + 1 .. m BY <1>1, <1>6
  <2>2. c[i] = x[i - p] BY <1>8, <2>1
  <2>3. x[i - p] = y[i - p] /\ y[i - p] = b[i] BY <1>2, <1>7, <2>1
  <2> QED BY <1>4, <2>1, <2>2, <2>3
<1>11. InStep(rs, h + 1, c, p + l, w)
  <2>1. T = Whole(rs) /\ k = Len(w) BY DEF T, k
  <2> DEFINE q == p + l
             e == StreamEnd(rs, h + 1)
  <2>2. e - q = E - p
    <3>1. e = E + l BY <1>5
    <3> HIDE DEF e
    <3> QED BY <1>1, <1>6, <3>1
  <2>3. \A i \in q + 1 .. m : c[i] = T[E - p + i] BY <1>10
  <2> HIDE DEF q, e
  <2>4. /\ e - q + Len(c) + Len(w) = Len(T)
        /\ \A i \in q + 1 .. Len(c) : c[i] = T[e - q + i]
        /\ \A i \in 1 .. Len(w) : w[i] = T[e - q + Len(c) + i]
    BY <1>4, <1>8, <2>1, <2>2, <2>3
  <2>5. InStep(rs, h + 1, c, q, w) BY <2>1, <2>4 DEF InStep, e
  <2> QED BY <2>5 DEF q
<1> QED BY <1>11 DEF c, a, l, z

-----------------------------------------------------------------------------
(* The inductive invariant of the receive loop. *)

(* The requests up to the h-th have a proper request line. *)
Proper(h) == \A j \in 1 .. Len(sent) : j <= h => WellFormed(sent[j])

(* The connection still looks for requests in the stream. *)
Following ==
  \/ connPc = "recv"
  \/ connPc = "loop" /\ (keepConn \/ LoopAgain)
  \/ connPc = "shift" /\ keepConn

(* Nothing has been received before there is a client. *)
Unused ==
  connPc = "new" => buf = <<>> /\ parsed = 0 /\ keepConn = TRUE /\ handled = <<>> /\ answers = <<>>

(* As long as it does, every request it took was answered once, and the    *)
(* buffer and the wire hold the stream from the end of the last one.       *)
Followed ==
  Following =>
    /\ Len(answers) = Len(handled)
    /\ Proper(Len(handled)) => /\ Len(handled) <= Len(sent)
                               /\ InStep(sent, Len(handled), buf, parsed, wire)

(* It waits for bytes only when those it has are not a request.            *)
Waits ==
  /\ connPc = "recv" => parsed = 0 /\ keepConn
  /\ connPc = "recv" \/ (connPc = "shift" /\ keepConn) => (LoopAgain => Parse(Rest) = 0)

(* When it will close, a request was consumed, or there was no memory.     *)
Closing ==
  /\ connPc = "loop" /\ ~keepConn => parsed > 0
  /\ connPc = "shift" /\ ~keepConn =>
       parsed > 0 \/ (Len(answers) > 0 /\ answers[Len(answers)] = 503)

(* The inductive invariant. *)
HttpInductive ==
  /\ HttpTypeOK /\ Unused /\ Followed /\ Waits /\ Closing
  /\ FramedAsSent /\ (LinesFit => AnsweredByLimits)

(* Sequences up to a length are sequences. *)
LEMMA SentAre == ASSUME NEW rs \in SeqOf(Requests, MaxSent) PROVE rs \in Seq(Requests)
<1>1. PICK m \in 0 .. MaxSent : rs \in [1 .. m -> Requests] BY DEF SeqOf
<1>2. m \in Nat BY HttpAssumption
<1> QED BY <1>1, <1>2, SequenceIs

(* The parser answers with its codes. *)
LEMMA CodesAre == ASSUME NEW raw PROVE Parse(raw) \in {0, 200, 414, 431, 501, 400, 413}
BY DEF Parse

(* What is left in the buffer. *)
LEMMA RestIs ==
  ASSUME HttpTypeOK
  PROVE  /\ Rest \in Seq(Symbols) /\ Len(Rest) = Len(buf) - parsed
         /\ Len(buf) \in Nat /\ parsed \in Nat /\ parsed <= Len(buf) /\ Len(Rest) <= RecvBuf /\ RecvBuf \in Nat
<1>1. /\ buf \in Seq(Symbols) /\ Len(buf) \in Nat /\ parsed \in Nat /\ parsed <= Len(buf)
      /\ Len(buf) <= RecvBuf /\ RecvBuf \in Nat
  BY HttpAssumption DEF HttpTypeOK
<1> DEFINE m == Len(buf)
<1> HIDE DEF m
<1>2. m \in Nat /\ m <= Len(buf) /\ parsed <= m /\ m <= RecvBuf BY <1>1 DEF m
<1>3. SubSeq(buf, parsed + 1, m) \in Seq(Symbols) /\ Len(SubSeq(buf, parsed + 1, m)) = m - parsed
  BY <1>1, <1>2, PartIs
<1>4. m - parsed <= RecvBuf BY <1>1, <1>2
<1> QED BY <1>1, <1>3, <1>4 DEF m, Rest

(* While the connection is followed and something is left, it is the next  *)
(* request.                                                                *)
LEMMA NextRequest ==
  ASSUME HttpInductive, Following, Proper(Len(handled))
  PROVE  /\ Len(handled) \in Nat /\ Len(sent) \in Nat
         /\ LoopAgain \/ wire # <<>> => Len(handled) < Len(sent)
         /\ Len(handled) < Len(sent) =>
              /\ sent[Len(handled) + 1] \in Requests /\ Receives(Rest, sent[Len(handled) + 1])
              /\ wire = <<>> => Len(Rest) >= Len(Bytes(sent[Len(handled) + 1]))
<1> DEFINE h == Len(handled)
<1>1. /\ sent \in Seq(Requests) /\ buf \in Seq(Symbols) /\ wire \in Seq(Symbols) /\ parsed \in 0 .. Len(buf)
      /\ handled \in Seq(Seq(Symbols))
  BY DEF HttpInductive, HttpTypeOK
<1>2. h \in Nat /\ Len(sent) \in Nat BY <1>1
<1>3. h <= Len(sent) /\ InStep(sent, h, buf, parsed, wire) BY DEF HttpInductive, Followed
<1> HIDE DEF h
<1>4. /\ parsed < Len(buf) \/ wire # <<>> => h < Len(sent)
      /\ h < Len(sent) => Receives(SubSeq(buf, parsed + 1, Len(buf)), sent[h + 1])
      /\ h < Len(sent) /\ wire = <<>> =>
           Len(SubSeq(buf, parsed + 1, Len(buf))) >= Len(Bytes(sent[h + 1]))
  BY <1>1, <1>2, <1>3, StepsNext
<1>5. h < Len(sent) => sent[h + 1] \in Requests BY <1>1, <1>2
<1> QED BY <1>2, <1>4, <1>5 DEF LoopAgain, Rest, h

(* The invariant makes the properties true. *)
LEMMA HttpSound ==
  HttpInductive => HttpInv /\ FramedAsSent /\ (LinesFit => AnsweredByLimits)
<1> SUFFICES ASSUME HttpInductive PROVE HttpInv /\ FramedAsSent /\ (LinesFit => AnsweredByLimits)
  OBVIOUS
<1>1. HttpTypeOK /\ FramedAsSent /\ (LinesFit => AnsweredByLimits) /\ Followed /\ Waits
  BY DEF HttpInductive
<1>2. NoneLeftWaiting
  <2> SUFFICES ASSUME connPc = "recv", wire = <<>>, ProperUpTo(Len(sent)) PROVE Len(answers) = Len(sent)
    BY DEF NoneLeftWaiting
  <2>1. Following BY DEF Following
  <2>2. Proper(Len(handled)) BY DEF Proper, ProperUpTo
  <2>3. Len(answers) = Len(handled) /\ Len(handled) <= Len(sent) BY <1>1, <2>1, <2>2 DEF Followed
  <2>4. ASSUME Len(handled) < Len(sent) PROVE FALSE
    <3> DEFINE r == sent[Len(handled) + 1]
    <3>1. r \in Requests /\ Receives(Rest, r) /\ Len(Rest) >= Len(Bytes(r))
      BY <2>1, <2>2, <2>4, NextRequest
    <3>2. WellFormed(r)
      <4>1. Len(handled) \in Nat /\ Len(sent) \in Nat BY <2>1, <2>2, NextRequest
      <4>2. Len(handled) + 1 \in 1 .. Len(sent) BY <2>4, <4>1
      <4> QED BY <4>2 DEF ProperUpTo
    <3> HIDE DEF r
    <3>3. Parse(Rest) # 0 BY <3>1, <3>2, CompleteParsed
    <3>4. LoopAgain
      <4> DEFINE l == Len(Bytes(r))
                 q == HeadLen(r)
                 n == Len(r.line)
                 f == Len(r.fields)
      <4>1. n \in Nat /\ f \in Nat /\ q = n + 3 * f + 4 /\ r.body \in Nat /\ l = q + r.body
        BY <3>1, HeadIs
      <4>2. Len(Rest) = Len(buf) - parsed /\ Len(buf) \in Nat /\ parsed \in Nat /\ Len(Rest) >= l
        BY <1>1, <3>1, RestIs
      <4> HIDE DEF l, q, n, f
      <4> QED BY <4>1, <4>2 DEF LoopAgain
    <3> QED BY <1>1, <3>3, <3>4 DEF Waits
  <2> QED BY <2>1, <2>2, <2>3, <2>4, NextRequest
<1> QED BY <1>1, <1>2 DEF HttpInv

(* A new connection. *)
LEMMA HttpInitially == HttpInit => HttpInductive
<1> SUFFICES ASSUME HttpInit PROVE HttpInductive OBVIOUS
<1> USE DEF HttpInit
<1>1. HttpTypeOK BY HttpAssumption DEF HttpTypeOK
<1>2. Unused /\ Followed /\ Waits /\ Closing BY DEF Unused, Followed, Waits, Closing, Following
<1>3. FramedAsSent /\ AnsweredByLimits BY DEF FramedAsSent, AnsweredByLimits
<1> QED BY <1>1, <1>2, <1>3 DEF HttpInductive

(* The end of a head is a place of the bytes searched. *)
LEMMA HeadEndNat == ASSUME NEW raw \in Seq(Symbols) PROVE HeadEnd(raw) \in Nat
<1> DEFINE s == [i \in 1 .. Len(raw) |-> SubSeq(raw, i, i + 3)]
           I == {i \in 1 .. Len(raw) - 3 : s[i] = <<"CR", "LF", "CR", "LF">>}
<1>1. HeadEnd(raw) = IF I # {} THEN Min(I) ELSE 0 BY DEF HeadEnd, SelectInSubSeq
<1>2. I \in SUBSET Nat OBVIOUS
<1> HIDE DEF I
<1>3. I # {} => Min(I) \in Nat BY <1>2, MinIsLeast
<1> QED BY <1>1, <1>3

(* A length the parser accepts is a number. *)
LEMMA LengthNat ==
  ASSUME NEW raw \in Seq(Symbols), ~LengthMalformed(raw)
  PROVE  ContentLength(raw) \in Nat
<1> DEFINE J == {j \in 1 .. HeadEnd(raw) + 3 : j = 1 \/ raw[j - 1] = "LF"}
           F == Fields(raw)
           D == F \cap DOMAIN LengthOf
           L == ContentLengths(raw)
<1>1. IsFiniteSet(J)
  <2> DEFINE e == HeadEnd(raw) + 3
  <2>1. 1 \in Int /\ e \in Int BY HeadEndNat
  <2> HIDE DEF e
  <2>2. IsFiniteSet(1 .. e) BY <2>1, FS_Interval
  <2> QED BY <2>2, FS_Subset DEF e
<1>2. IsFiniteSet(F)
  <2> DEFINE e == [i \in J |-> raw[i]]
  <2>1. F = {e[i] : i \in J} BY DEF Fields
  <2> HIDE DEF J, F
  <2>2. e \in Surjection(J, F) BY <2>1 DEF Surjection
  <2> QED BY <1>1, <2>2, FS_Surjection
<1>3. IsFiniteSet(D) BY <1>2, FS_Subset
<1>4. IsFiniteSet(L) /\ L \in SUBSET Nat
  <2> DEFINE e == [f \in D |-> LengthOf[f]]
  <2>1. L = {e[f] : f \in D} BY DEF ContentLengths
  <2>2. \A f \in D : LengthOf[f] \in Nat BY HttpAssumption
  <2> HIDE DEF D, L
  <2>3. e \in Surjection(D, L) BY <2>1 DEF Surjection
  <2>4. L \in SUBSET Nat BY <2>1, <2>2
  <2> QED BY <1>3, <2>3, <2>4, FS_Surjection
<1>5. ~(Cardinality(L) > 1) BY DEF LengthMalformed
<1>6. ContentLength(raw) = IF L = {} THEN 0 ELSE Max(L) BY DEF ContentLength, LengthFrom
<1> HIDE DEF L
<1>7. ASSUME L # {} PROVE Max(L) \in Nat
  <2>1. PICK x \in L : TRUE BY <1>7
  <2>2. L = {x}
    <3> SUFFICES ASSUME NEW y \in L, y # x PROVE FALSE OBVIOUS
    <3>1. {x, y} \in SUBSET L BY <2>1
    <3>2. Cardinality({x, y}) <= Cardinality(L) /\ Cardinality(L) \in Nat
      BY <1>4, <3>1, FS_Subset, FS_CardinalityType
    <3>3. Cardinality({x, y}) = 2
      <4>1. IsFiniteSet({x}) /\ Cardinality({x}) = 1 BY FS_Singleton
      <4>2. {x, y} = {x} \cup {y} /\ y \notin {x} OBVIOUS
      <4>3. Cardinality({x} \cup {y}) = Cardinality({x}) + 1 BY <4>1, <4>2, FS_AddElement
      <4>4. Cardinality({x} \cup {y}) = 2
        <5> DEFINE a == Cardinality({x})
                   b == Cardinality({x} \cup {y})
        <5>1. a = 1 /\ b = a + 1 BY <4>1, <4>3
        <5> HIDE DEF a, b
        <5>2. b = 2 BY ONLY <5>1
        <5> QED BY <5>2 DEF b
      <4>5. {x, y} = {x} \cup {y} BY <4>2
      <4> QED BY ONLY <4>4, <4>5, Zenon
    <3> QED BY <1>5, <3>2, <3>3
  <2>3. x \in Nat BY <1>4, <2>1
  <2>4. Max({x}) = x BY <2>3 DEF Max
  <2> QED BY <2>2, <2>3, <2>4
<1> QED BY <1>6, <1>7

(* What the parser consumes it has received. *)
LEMMA ConsumedIs ==
  ASSUME NEW raw \in Seq(Symbols), Parse(raw) = 200
  PROVE  Consumed(raw) \in Nat /\ 1 <= Consumed(raw) /\ Consumed(raw) <= Len(raw)
<1>1. ~LengthMalformed(raw) /\ ~(Len(raw) < Consumed(raw)) BY DEF Parse
<1>2. HeadEnd(raw) \in Nat /\ ContentLength(raw) \in Nat /\ Len(raw) \in Nat
  BY <1>1, HeadEndNat, LengthNat
<1>3. Consumed(raw) \in Nat /\ 1 <= Consumed(raw) BY <1>2 DEF Consumed
<1> QED BY <1>1, <1>2, <1>3

(* The answers AnsweredByLimits allows to a request. *)
Fits(r, code) ==
  \/ code = Expected(r)
  \/ Expected(r) = 200 /\ code \in {429, 503}
  \/ NearHeaderLimit(r) /\ code = 431

(* One more answer that is allowed keeps them as the limits decide. *)
LEMMA OneMoreAnswer ==
  ASSUME AnsweredByLimits, answers \in Seq(Codes), NEW code \in Codes,
         answers' = Append(answers, code), sent' = sent,
         ProperUpTo(Len(answers) + 1) =>
           \/ Fits(sent[Len(answers) + 1], code)
           \/ Len(answers) > 0 /\ answers[Len(answers)] = 503 /\ code \in {413, 431}
  PROVE  AnsweredByLimits'
<1> DEFINE n == Len(answers)
<1>1. n \in Nat OBVIOUS
<1>2. Len(answers') = n + 1 /\ answers'[n + 1] = code /\ \A i \in 1 .. n : answers'[i] = answers[i]
  OBVIOUS
<1>3. \A i : ProperUpTo(i)' <=> ProperUpTo(i) BY DEF ProperUpTo
<1> SUFFICES ASSUME NEW i \in 1 .. Len(answers'), ProperUpTo(i)
             PROVE  \/ answers'[i] = Expected(sent[i])
                    \/ Expected(sent[i]) = 200 /\ answers'[i] \in {429, 503}
                    \/ NearHeaderLimit(sent[i]) /\ answers'[i] = 431
                    \/ i > 1 /\ answers'[i - 1] = 503 /\ answers'[i] \in {413, 431}
  BY <1>3 DEF AnsweredByLimits
<1>4. \/ Fits(sent[n + 1], code) \/ (n > 0 /\ answers[n] = 503 /\ code \in {413, 431})
      \/ ~ProperUpTo(n + 1)
  OBVIOUS
<1>5. \A j \in 1 .. n : ProperUpTo(j) =>
        \/ answers[j] = Expected(sent[j])
        \/ Expected(sent[j]) = 200 /\ answers[j] \in {429, 503}
        \/ NearHeaderLimit(sent[j]) /\ answers[j] = 431
        \/ j > 1 /\ answers[j - 1] = 503 /\ answers[j] \in {413, 431}
  BY DEF AnsweredByLimits
<1> HIDE DEF n
<1>6. CASE i \in 1 .. n
  <2>1. answers'[i] = answers[i] /\ (i > 1 => answers'[i - 1] = answers[i - 1]) BY <1>1, <1>2, <1>6
  <2> QED BY <1>5, <1>6, <2>1
<1>7. CASE i = n + 1
  <2>1. n > 0 => n \in 1 .. n /\ i > 1 /\ i - 1 = n BY <1>1, <1>7
  <2>2. n > 0 => answers'[i - 1] = answers[n] BY <1>2, <2>1
  <2>3. answers'[i] = code BY <1>2, <1>7
  <2> QED BY <1>4, <1>7, <2>1, <2>2, <2>3 DEF Fits
<1> QED BY <1>1, <1>2, <1>6, <1>7

(* What does not change with the requests and the histories. *)
LEMMA HistoriesKept ==
  ASSUME UNCHANGED <<sent, handled>>
  PROVE  /\ FramedAsSent => FramedAsSent'
         /\ UNCHANGED answers => (AnsweredByLimits => AnsweredByLimits')
         /\ \A i : Proper(i)' <=> Proper(i)
<1>1. \A i : ProperUpTo(i)' <=> ProperUpTo(i) BY DEF ProperUpTo
<1>2. \A i : Proper(i)' <=> Proper(i) BY DEF Proper
<1> QED BY <1>1, <1>2 DEF FramedAsSent, AnsweredByLimits

(* A client connects: its stream is on the wire. *)
LEMMA ConnectInductive ==
  ASSUME HttpInductive, NEW rs \in Seq(Requests), Connect(rs) PROVE HttpInductive'
<1>1. /\ connPc = "new" /\ sent' = rs /\ connPc' = "recv"
      /\ wire' = FlattenSeq([i \in 1 .. Len(rs) |-> Bytes(rs[i])])
      /\ UNCHANGED <<buf, parsed, keepConn, handled, answers>>
  BY DEF Connect
<1>2. HttpTypeOK /\ Unused BY DEF HttpInductive
<1>3. buf = <<>> /\ parsed = 0 /\ keepConn = TRUE /\ handled = <<>> /\ answers = <<>>
  BY <1>1, <1>2 DEF Unused
<1>4. wire' = Whole(rs) /\ Whole(rs) \in Seq(Symbols) BY <1>1, WholeIs
<1>5. HttpTypeOK' BY <1>1, <1>2, <1>4 DEF HttpTypeOK
<1>6. Unused' /\ Closing' BY <1>1 DEF Unused, Closing
<1>7. Followed'
  <2>1. InStep(rs, 0, <<>>, 0, Whole(rs)) BY StepsFirst
  <2>2. Len(handled') = 0 /\ Len(answers') = 0 /\ 0 <= Len(rs) BY <1>1, <1>3
  <2>3. InStep(sent', Len(handled'), buf', parsed', wire') BY <1>1, <1>3, <1>4, <2>1, <2>2
  <2> QED BY <1>1, <2>2, <2>3 DEF Followed
<1>8. Waits'
  <2>1. ~LoopAgain' BY <1>1, <1>3 DEF LoopAgain
  <2> QED BY <1>1, <1>3, <2>1 DEF Waits
<1>9. FramedAsSent' /\ AnsweredByLimits'
  <2>1. Len(handled') = 0 /\ Len(answers') = 0 BY <1>1, <1>3
  <2> QED BY <2>1 DEF FramedAsSent, AnsweredByLimits
<1> QED BY <1>5, <1>6, <1>7, <1>8, <1>9 DEF HttpInductive

(* Some of the bytes are received. *)
LEMMA RecvInductive ==
  ASSUME HttpInductive, NEW n \in 1 .. RecvBuf, Recv(n) PROVE HttpInductive'
<1>1. /\ connPc = "recv" /\ n <= Len(wire) /\ n <= RecvBuf - Len(buf)
      /\ buf' = buf \o SubSeq(wire, 1, n) /\ wire' = SubSeq(wire, n + 1, Len(wire))
      /\ parsed' = 0 /\ keepConn' = TRUE /\ connPc' = "loop"
      /\ UNCHANGED <<sent, handled, answers>>
  BY DEF Recv, Room
<1>2. HttpTypeOK /\ Followed /\ Waits /\ FramedAsSent /\ (LinesFit => AnsweredByLimits)
  BY DEF HttpInductive
<1>3. /\ sent \in Seq(Requests) /\ wire \in Seq(Symbols) /\ buf \in Seq(Symbols)
      /\ handled \in Seq(Seq(Symbols)) /\ Len(buf) \in Nat /\ Len(wire) \in Nat /\ RecvBuf \in Nat /\ n \in Nat
  BY <1>2, HttpAssumption DEF HttpTypeOK
<1>4. SubSeq(wire, 1, n) \in Seq(Symbols) /\ Len(SubSeq(wire, 1, n)) = n
  <2> DEFINE o == 0
  <2>1. o \in Nat /\ n \in Nat /\ o <= n /\ n <= Len(wire) /\ o + 1 = 1 /\ n - o = n BY <1>1, <1>3
  <2> HIDE DEF o
  <2>2. SubSeq(wire, o + 1, n) \in Seq(Symbols) /\ Len(SubSeq(wire, o + 1, n)) = n - o BY <1>3, <2>1, PartIs
  <2> QED BY <2>1, <2>2
<1>5. wire' \in Seq(Symbols)
  <2> DEFINE m == Len(wire)
  <2>1. m \in Nat /\ n <= m /\ m <= Len(wire) BY <1>1, <1>3
  <2> HIDE DEF m
  <2>2. SubSeq(wire, n + 1, m) \in Seq(Symbols) BY <1>3, <2>1, PartIs
  <2> QED BY <1>1, <2>2 DEF m
<1>6. buf' \in Seq(Symbols) /\ Len(buf') = Len(buf) + n
  <2> DEFINE x == SubSeq(wire, 1, n)
  <2>1. x \in Seq(Symbols) /\ buf \in Seq(Symbols) /\ Len(x) = n BY <1>3, <1>4
  <2> HIDE DEF x
  <2>2. buf \o x \in Seq(Symbols) /\ Len(buf \o x) = Len(buf) + Len(x) BY <2>1, Concat
  <2> QED BY <1>1, <2>1, <2>2 DEF x
<1>7. HttpTypeOK'
  <2>1. Len(buf') <= RecvBuf /\ 0 \in 0 .. Len(buf') BY <1>1, <1>3, <1>6
  <2> QED BY <1>1, <1>2, <1>5, <1>6, <2>1 DEF HttpTypeOK
<1>8. Unused' /\ Closing' /\ Waits' BY <1>1 DEF Unused, Closing, Waits
<1>9. Followed'
  <2>1. Following /\ parsed = 0 BY <1>1, <1>2 DEF Following, Waits
  <2>2. Len(answers) = Len(handled) BY <1>2, <2>1 DEF Followed
  <2>3. ASSUME Proper(Len(handled))
        PROVE  Len(handled) <= Len(sent) /\ InStep(sent, Len(handled), buf', 0, wire')
    <3> DEFINE h == Len(handled)
    <3>1. h <= Len(sent) /\ InStep(sent, h, buf, 0, wire) BY <1>2, <2>1, <2>3 DEF Followed
    <3>2. h \in Nat BY <1>3
    <3> HIDE DEF h
    <3>3. InStep(sent, h, buf \o SubSeq(wire, 1, n), 0, SubSeq(wire, n + 1, Len(wire)))
      BY <1>1, <1>3, <3>1, <3>2, StepsReceived
    <3> QED BY <1>1, <3>1, <3>3 DEF h
  <2>4. Proper(Len(handled))' <=> Proper(Len(handled)) BY <1>1 DEF Proper
  <2> QED BY <1>1, <2>2, <2>3, <2>4 DEF Followed
<1>10. FramedAsSent' /\ (LinesFit => AnsweredByLimits') BY <1>1, <1>2, HistoriesKept
<1> QED BY <1>7, <1>8, <1>9, <1>10 DEF HttpInductive

(* The loop is left. *)
LEMMA LeaveInductive == ASSUME HttpInductive, LoopLeave PROVE HttpInductive'
<1>1. /\ connPc = "loop" /\ (LoopAgain => Parse(Rest) = 0) /\ connPc' = "shift"
      /\ UNCHANGED <<sent, wire, buf, parsed, keepConn, handled, answers>>
  BY DEF LoopLeave
<1>2. HttpTypeOK /\ Followed /\ Closing /\ FramedAsSent /\ (LinesFit => AnsweredByLimits)
  BY DEF HttpInductive
<1>3. HttpTypeOK' BY <1>1, <1>2 DEF HttpTypeOK
<1>4. Unused' BY <1>1 DEF Unused
<1>5. Closing' BY <1>1, <1>2 DEF Closing
<1>6. Waits'
  <2>1. (LoopAgain' <=> LoopAgain) /\ Rest' = Rest BY <1>1 DEF LoopAgain, Rest
  <2> QED BY <1>1, <2>1 DEF Waits
<1>7. Followed'
  <2>1. Following' => Following BY <1>1 DEF Following
  <2>2. Proper(Len(handled))' <=> Proper(Len(handled)) BY <1>1 DEF Proper
  <2> QED BY <1>1, <1>2, <2>1, <2>2 DEF Followed
<1>8. FramedAsSent' /\ (LinesFit => AnsweredByLimits') BY <1>1, <1>2, HistoriesKept
<1> QED BY <1>3, <1>4, <1>5, <1>6, <1>7, <1>8 DEF HttpInductive

(* The client hangs up. *)
LEMMA GoneInductive == ASSUME HttpInductive, ClientGone PROVE HttpInductive'
<1>1. /\ connPc = "recv" /\ connPc' = "closed"
      /\ UNCHANGED <<sent, wire, buf, parsed, keepConn, handled, answers>>
  BY DEF ClientGone
<1>2. HttpTypeOK /\ FramedAsSent /\ (LinesFit => AnsweredByLimits) BY DEF HttpInductive
<1>3. HttpTypeOK' BY <1>1, <1>2 DEF HttpTypeOK
<1>4. Unused' /\ Closing' /\ Waits' /\ Followed'
  BY <1>1 DEF Unused, Closing, Waits, Followed, Following
<1>5. FramedAsSent' /\ (LinesFit => AnsweredByLimits') BY <1>1, <1>2, HistoriesKept
<1> QED BY <1>3, <1>4, <1>5 DEF HttpInductive

(* What the parser says in the loop fits the next request. *)
LEMMA SaysOfNext ==
  ASSUME HttpInductive, connPc = "loop", LoopAgain, Parse(Rest) # 0, ProperUpTo(Len(answers) + 1)
  PROVE  /\ Len(answers) = Len(handled)
         /\ Parse(Rest) = Expected(sent[Len(answers) + 1])
              \/ (NearHeaderLimit(sent[Len(answers) + 1]) /\ Parse(Rest) = 431)
<1>1. Following BY DEF Following
<1>2. Len(answers) = Len(handled) BY <1>1 DEF HttpInductive, Followed
<1>3. Len(answers) \in Nat /\ HttpTypeOK BY DEF HttpInductive, HttpTypeOK
<1>4. Proper(Len(handled))
  <2>1. \A j \in 1 .. Len(sent) : j <= Len(answers) => j \in 1 .. Len(answers) + 1 BY <1>3
  <2> QED BY <1>2, <2>1 DEF Proper, ProperUpTo
<1> DEFINE r == sent[Len(answers) + 1]
<1>5. r \in Requests /\ Receives(Rest, r) BY <1>1, <1>2, <1>4, NextRequest
<1>6. Len(Rest) <= RecvBuf BY <1>3, RestIs
<1> HIDE DEF r
<1>7. Parse(Rest) = Expected(r) \/ (NearHeaderLimit(r) /\ Parse(Rest) = 431) BY <1>5, <1>6, ParseSays
<1> QED BY <1>2, <1>7 DEF r

(* A request is refused. *)
LEMMA RefuseInductive == ASSUME HttpInductive, RefuseRequest PROVE HttpInductive'
<1>1. /\ connPc = "loop" /\ LoopAgain /\ Parse(Rest) \notin {0, 200}
      /\ answers' = Append(answers, Parse(Rest)) /\ parsed' = Len(buf) /\ keepConn' = FALSE
      /\ UNCHANGED <<connPc, sent, wire, buf, handled>>
  BY DEF RefuseRequest
<1>2. HttpTypeOK /\ FramedAsSent /\ (LinesFit => AnsweredByLimits) BY DEF HttpInductive
<1>3. Parse(Rest) \in Codes /\ Parse(Rest) # 0 BY <1>1, CodesAre DEF Codes
<1>4. Len(buf) \in Nat /\ parsed \in Nat BY <1>2, RestIs
<1>5. HttpTypeOK'
  <2>1. answers \in Seq(Codes) BY <1>2 DEF HttpTypeOK
  <2>2. Append(answers, Parse(Rest)) \in Seq(Codes) BY <1>3, <2>1
  <2>3. Len(buf) \in 0 .. Len(buf) BY <1>4
  <2> QED BY <1>1, <1>2, <2>2, <2>3 DEF HttpTypeOK
<1>6. ~LoopAgain' BY <1>1, <1>4 DEF LoopAgain
<1>7. Unused' /\ Waits' /\ Followed' BY <1>1, <1>6 DEF Unused, Waits, Followed, Following
<1>8. Closing'
  <2>1. parsed' > 0 BY <1>1, <1>4 DEF LoopAgain
  <2> QED BY <1>1, <2>1 DEF Closing
<1>9. FramedAsSent' BY <1>1, <1>2, HistoriesKept
<1>10. AnsweredByLimits => AnsweredByLimits'
  <2> SUFFICES ASSUME AnsweredByLimits PROVE AnsweredByLimits' OBVIOUS
  <2>1. ProperUpTo(Len(answers) + 1) => Fits(sent[Len(answers) + 1], Parse(Rest))
    BY <1>1, <1>3, SaysOfNext DEF Fits
  <2>2. answers \in Seq(Codes) BY <1>2 DEF HttpTypeOK
  <2> DEFINE code == Parse(Rest)
  <2>3. code \in Codes /\ answers' = Append(answers, code) /\ sent' = sent BY <1>1, <1>3
  <2> HIDE DEF code
  <2>4. ProperUpTo(Len(answers) + 1) => Fits(sent[Len(answers) + 1], code) BY <2>1 DEF code
  <2> QED BY <2>2, <2>3, <2>4, OneMoreAnswer
<1> QED BY <1>2, <1>5, <1>7, <1>8, <1>9, <1>10 DEF HttpInductive

(* There is no memory for it. *)
LEMMA MemoryInductive == ASSUME HttpInductive, OutOfMemory PROVE HttpInductive'
<1>1. /\ connPc = "loop" /\ LoopAgain /\ Parse(Rest) = 200
      /\ answers' = Append(answers, 503) /\ keepConn' = FALSE /\ connPc' = "shift"
      /\ UNCHANGED <<sent, wire, buf, parsed, handled>>
  BY DEF OutOfMemory
<1>2. HttpTypeOK /\ FramedAsSent /\ (LinesFit => AnsweredByLimits) BY DEF HttpInductive
<1>3. answers \in Seq(Codes) /\ 503 \in Codes BY <1>2 DEF HttpTypeOK, Codes
<1>4. HttpTypeOK'
  <2>1. Append(answers, 503) \in Seq(Codes) BY <1>3
  <2> QED BY <1>1, <1>2, <2>1 DEF HttpTypeOK
<1>5. Unused' /\ Waits' /\ Followed' BY <1>1 DEF Unused, Waits, Followed, Following
<1>6. Closing'
  <2>1. Len(answers') > 0 /\ answers'[Len(answers')] = 503 BY <1>1, <1>3
  <2> QED BY <1>1, <2>1 DEF Closing
<1>7. FramedAsSent' BY <1>1, <1>2, HistoriesKept
<1>8. AnsweredByLimits => AnsweredByLimits'
  <2> SUFFICES ASSUME AnsweredByLimits PROVE AnsweredByLimits' OBVIOUS
  <2>1. ProperUpTo(Len(answers) + 1) => Fits(sent[Len(answers) + 1], 503)
    BY <1>1, SaysOfNext DEF Fits
  <2> QED BY <1>1, <1>3, <2>1, OneMoreAnswer
<1> QED BY <1>2, <1>4, <1>5, <1>6, <1>7, <1>8 DEF HttpInductive

(* A proper request is taken as it was sent, and the stream goes on after  *)
(* it.                                                                     *)
LEMMA TakenAsSent ==
  ASSUME HttpInductive, connPc = "loop", LoopAgain, Parse(Rest) = 200, Proper(Len(handled) + 1)
  PROVE  /\ Len(handled) + 1 <= Len(sent)
         /\ SubSeq(Rest, 1, Consumed(Rest)) = Bytes(sent[Len(handled) + 1])
         /\ InStep(sent, Len(handled) + 1, SubSeq(buf, 1, parsed) \o InPlace(Rest),
                   parsed + Consumed(Rest), wire)
<1> DEFINE h == Len(handled)
           r == sent[h + 1]
           raw == Rest
           x == InPlace(raw)
<1>1. Following /\ HttpTypeOK /\ Followed BY DEF Following, HttpInductive
<1>2. /\ sent \in Seq(Requests) /\ buf \in Seq(Symbols) /\ wire \in Seq(Symbols) /\ parsed \in 0 .. Len(buf)
      /\ h \in Nat /\ Len(sent) \in Nat
  BY <1>1 DEF HttpTypeOK
<1>3. Proper(h)
  <2>1. \A j \in 1 .. Len(sent) : j <= h => j <= h + 1 BY <1>2
  <2> QED BY <2>1 DEF Proper
<1>4. h < Len(sent) /\ r \in Requests /\ Receives(raw, r) BY <1>1, <1>3, NextRequest
<1>5. WellFormed(r)
  <2>1. h + 1 \in 1 .. Len(sent) /\ h + 1 <= h + 1 BY <1>2, <1>4
  <2> QED BY <2>1 DEF Proper
<1>6. h <= Len(sent) /\ InStep(sent, h, buf, parsed, wire) BY <1>1, <1>3 DEF Followed
<1>7. raw \in Seq(Symbols) /\ Len(raw) = Len(buf) - parsed BY <1>1, RestIs
<1>8. raw = SubSeq(buf, parsed + 1, Len(buf)) BY DEF Rest
<1>9. Parse(raw) = 200 OBVIOUS
<1> HIDE DEF h, r, raw
<1>10. /\ Consumed(raw) = Len(Bytes(r)) /\ HeadLen(r) <= Len(raw)
       /\ SubSeq(raw, 1, Consumed(raw)) = Bytes(r)
  BY <1>4, <1>9, TakenWhole
<1>11. Len(raw) >= HeadLen(r)
  <2>1. HeadLen(r) \in Nat /\ Len(raw) \in Nat BY <1>4, HeadIs
  <2> QED BY <1>10, <2>1
<1>12. \A i \in 1 .. Len(raw) : i > Len(Bytes(r)) => x[i] = raw[i] BY <1>4, <1>5, <1>11, NextUntouched
<1>13. x \in Seq(Symbols) /\ Len(x) = Len(raw) BY <1>7, InPlaceIs
<1> HIDE DEF x
<1>14. InStep(sent, h + 1, SubSeq(buf, 1, parsed) \o x, parsed + Len(Bytes(r)), wire)
  <2>1. r = sent[h + 1] BY DEF r
  <2>2. Len(x) = Len(buf) - parsed BY <1>7, <1>13
  <2>3. \A i \in 1 .. Len(x) : i > Len(Bytes(sent[h + 1])) => x[i] = SubSeq(buf, parsed + 1, Len(buf))[i]
    BY <1>8, <1>12, <1>13, <2>1
  <2>4. InStep(sent, h + 1, SubSeq(buf, 1, parsed) \o x, parsed + Len(Bytes(sent[h + 1])), wire)
    <3>1. sent \in Seq(Requests) /\ h \in Nat /\ h < Len(sent) /\ InStep(sent, h, buf, parsed, wire)
      BY <1>2, <1>4, <1>6
    <3>2. buf \in Seq(Symbols) /\ wire \in Seq(Symbols) /\ parsed \in 0 .. Len(buf) BY <1>2
    <3>3. x \in Seq(Symbols) BY <1>13
    <3> QED BY <2>2, <2>3, <3>1, <3>2, <3>3, StepsTaken, SMTT(60)
  <2> QED BY <2>1, <2>4
<1>15. h + 1 <= Len(sent) BY <1>2, <1>4
<1> QED BY <1>10, <1>14, <1>15 DEF x, raw, r, h

(* A request goes to the router. *)
LEMMA HandleInductive ==
  ASSUME HttpInductive, NEW code \in {200, 429}, HandleRequest(code) PROVE HttpInductive'
<1> DEFINE cut == SubSeq(Rest, 1, Consumed(Rest))
           left == SubSeq(buf, 1, parsed) \o InPlace(Rest)
           k == Consumed(Rest)
<1>1. /\ connPc = "loop" /\ LoopAgain /\ Parse(Rest) = 200
      /\ handled' = Append(handled, cut) /\ answers' = Append(answers, code)
      /\ buf' = left /\ parsed' = parsed + k
      /\ keepConn' = (keepConn /\ code = 200 /\ ~AsksToClose(InPlace(Rest)))
      /\ UNCHANGED <<connPc, sent, wire>>
  BY DEF HandleRequest
<1>2. HttpTypeOK /\ Followed /\ FramedAsSent /\ (LinesFit => AnsweredByLimits) BY DEF HttpInductive
<1>3. /\ Rest \in Seq(Symbols) /\ Len(Rest) = Len(buf) - parsed /\ Len(buf) \in Nat /\ parsed \in Nat
      /\ parsed <= Len(buf)
  BY <1>2, RestIs
<1>4. /\ handled \in Seq(Seq(Symbols)) /\ answers \in Seq(Codes) /\ code \in Codes /\ buf \in Seq(Symbols)
      /\ Len(handled) \in Nat /\ Len(answers) \in Nat
  BY <1>2 DEF HttpTypeOK, Codes
<1>5. k \in Nat /\ 1 <= k /\ k <= Len(Rest) BY <1>1, <1>3, ConsumedIs
<1>6. cut \in Seq(Symbols)
  <2> DEFINE o == 0
             t == Rest
  <2>1. o \in Nat /\ o <= k /\ o + 1 = 1 /\ t \in Seq(Symbols) /\ k \in Nat /\ k <= Len(t) BY <1>3, <1>5
  <2> HIDE DEF o, k, t
  <2>2. SubSeq(t, o + 1, k) \in Seq(Symbols) BY <2>1, PartIs
  <2> QED BY <2>1, <2>2 DEF k, t
<1>7. left \in Seq(Symbols) /\ Len(left) = Len(buf)
  <2> DEFINE o == 0
             x == InPlace(Rest)
             a == SubSeq(buf, 1, parsed)
  <2>1. x \in Seq(Symbols) /\ Len(x) = Len(Rest) BY <1>3, InPlaceIs
  <2>2. o \in Nat /\ o <= parsed /\ o + 1 = 1 /\ parsed - o = parsed BY <1>3
  <2> HIDE DEF o, x
  <2>3. SubSeq(buf, o + 1, parsed) \in Seq(Symbols) /\ Len(SubSeq(buf, o + 1, parsed)) = parsed - o
    BY <1>3, <1>4, <2>2, PartIs
  <2>4. a \in Seq(Symbols) /\ Len(a) = parsed BY <2>2, <2>3
  <2> HIDE DEF a
  <2>5. a \o x \in Seq(Symbols) /\ Len(a \o x) = Len(a) + Len(x)
    <3>1. a \in Seq(Symbols) /\ x \in Seq(Symbols) BY <2>1, <2>4
    <3> QED BY <3>1, Concat
  <2>6. left = a \o x BY DEF a, x
  <2> HIDE DEF left
  <2> QED BY <1>3, <2>1, <2>4, <2>5, <2>6
<1>9. Following BY <1>1 DEF Following
<1>10. Len(answers) = Len(handled) BY <1>2, <1>9 DEF Followed
<1>11. Proper(Len(handled) + 1) =>
         /\ Len(handled) + 1 <= Len(sent)
         /\ cut = Bytes(sent[Len(handled) + 1])
         /\ InStep(sent, Len(handled) + 1, left, parsed + k, wire)
  BY <1>1, TakenAsSent
<1>12. keepConn' \in BOOLEAN BY <1>1, Zenon
<1> HIDE DEF cut, left, k
<1>13. /\ handled' \in Seq(Seq(Symbols)) /\ Len(handled') = Len(handled) + 1
       /\ handled'[Len(handled) + 1] = cut /\ \A i \in 1 .. Len(handled) : handled'[i] = handled[i]
  BY <1>1, <1>4, <1>6
<1>14. answers' \in Seq(Codes) /\ Len(answers') = Len(answers) + 1 BY <1>1, <1>4
<1>15. HttpTypeOK'
  <2>1. parsed + k \in 0 .. Len(buf) BY <1>3, <1>5
  <2> QED BY <1>1, <1>2, <1>7, <1>12, <1>13, <1>14, <2>1 DEF HttpTypeOK
<1>16. Unused' /\ Waits' BY <1>1 DEF Unused, Waits
<1>17. Closing'
  <2>1. parsed' > 0 BY <1>1, <1>3, <1>5
  <2> QED BY <1>1, <2>1 DEF Closing
<1>18. Followed'
  <2>1. Len(answers') = Len(handled') BY <1>10, <1>13, <1>14
  <2>2. Proper(Len(handled))' <=> \A j \in 1 .. Len(sent) : j <= Len(handled') => WellFormed(sent[j])
    BY <1>1 DEF Proper
  <2>3. Proper(Len(handled))' => Proper(Len(handled) + 1) BY <1>13, <2>2 DEF Proper
  <2>4. ASSUME Proper(Len(handled))'
        PROVE  Len(handled') <= Len(sent') /\ InStep(sent', Len(handled'), buf', parsed', wire')
    BY <1>1, <1>11, <1>13, <2>3, <2>4
  <2> QED BY <2>1, <2>4 DEF Followed
<1>19. FramedAsSent'
  <2> SUFFICES ASSUME NEW i \in 1 .. Len(handled'), ProperUpTo(i)' PROVE handled'[i] = Bytes(sent'[i])
    BY DEF FramedAsSent
  <2>1. ProperUpTo(i) /\ sent' = sent BY <1>1 DEF ProperUpTo
  <2>2. CASE i \in 1 .. Len(handled) BY <1>2, <1>13, <2>1, <2>2 DEF FramedAsSent
  <2>3. CASE i = Len(handled) + 1
    <3>1. Proper(Len(handled) + 1)
      <4>1. \A j \in 1 .. Len(sent) : j <= Len(handled) + 1 => j \in 1 .. Len(handled) + 1 BY <1>4
      <4> QED BY <2>1, <2>3, <4>1 DEF Proper, ProperUpTo
    <3> QED BY <1>11, <1>13, <2>1, <2>3, <3>1
  <2> QED BY <1>4, <1>13, <2>2, <2>3
<1>20. AnsweredByLimits => AnsweredByLimits'
  <2> SUFFICES ASSUME AnsweredByLimits PROVE AnsweredByLimits' OBVIOUS
  <2>1. ProperUpTo(Len(answers) + 1) => Fits(sent[Len(answers) + 1], code)
    BY <1>1, SaysOfNext DEF Fits
  <2> QED BY <1>1, <1>4, <2>1, OneMoreAnswer
<1> QED BY <1>2, <1>15, <1>16, <1>17, <1>18, <1>19, <1>20 DEF HttpInductive

(* The rest is moved to the front, and a full buffer answered. *)
LEMMA ShiftInductive == ASSUME HttpInductive, ShiftBuffer PROVE HttpInductive'
<1> DEFINE rest == Rest
           full == Len(rest) = RecvBuf
           code == IF HeadEnd(rest) > 0 THEN 413 ELSE 431
<1>1. /\ connPc = "shift" /\ buf' = rest /\ parsed' = 0
      /\ answers' = (IF full THEN Append(answers, code) ELSE answers)
      /\ connPc' = (IF full \/ ~keepConn THEN "closed" ELSE "recv")
      /\ UNCHANGED <<sent, wire, keepConn, handled>>
  BY DEF ShiftBuffer
<1>2. /\ HttpTypeOK /\ Followed /\ Waits /\ Closing /\ FramedAsSent
      /\ (LinesFit => AnsweredByLimits)
  BY DEF HttpInductive
<1>3. /\ rest \in Seq(Symbols) /\ Len(rest) = Len(buf) - parsed /\ Len(buf) \in Nat /\ parsed \in Nat
      /\ parsed <= Len(buf) /\ Len(rest) <= RecvBuf /\ Len(buf) <= RecvBuf /\ RecvBuf \in Nat /\ RecvBuf # 0
  <2>1. Len(buf) <= RecvBuf /\ RecvBuf # 0 BY <1>2, HttpAssumption DEF HttpTypeOK
  <2> QED BY <1>2, <2>1, RestIs
<1>4. /\ sent \in Seq(Requests) /\ wire \in Seq(Symbols) /\ buf \in Seq(Symbols) /\ parsed \in 0 .. Len(buf)
      /\ handled \in Seq(Seq(Symbols)) /\ answers \in Seq(Codes) /\ code \in Codes /\ code \in {413, 431}
      /\ Len(handled) \in Nat /\ Len(answers) \in Nat /\ Len(rest) \in Nat
  BY <1>2, <1>3 DEF HttpTypeOK, Codes
<1>5. rest = SubSeq(buf, parsed + 1, Len(buf)) BY DEF Rest
<1>6. LoopAgain <=> Len(rest) > 0
  <2> DEFINE l == Len(rest)
  <2>1. l = Len(buf) - parsed BY <1>3
  <2> HIDE DEF l
  <2>2. parsed < Len(buf) <=> l > 0 BY <1>3, <2>1
  <2> QED BY <2>2 DEF l, LoopAgain
<1>7. HttpTypeOK'
  <2>1. answers' \in Seq(Codes) BY <1>1, <1>4
  <2>2. 0 \in 0 .. Len(rest) BY <1>4
  <2>3. connPc' \in {"closed", "recv"} BY <1>1
  <2> HIDE DEF rest
  <2> QED BY <1>1, <1>2, <1>3, <2>1, <2>2, <2>3 DEF HttpTypeOK
<1>8. Unused' /\ Closing' BY <1>1 DEF Unused, Closing
<1>9. connPc' = "recv" => keepConn /\ ~full BY <1>1
<1>11. Followed'
  <2> SUFFICES ASSUME connPc' = "recv" PROVE Followed'
    BY <1>1 DEF Followed, Following
  <2>1. Following BY <1>1, <1>9 DEF Following
  <2>2. Len(answers) = Len(handled) BY <1>2, <2>1 DEF Followed
  <2>3. ASSUME Proper(Len(handled))
        PROVE  Len(handled) <= Len(sent) /\ InStep(sent, Len(handled), rest, 0, wire)
    <3> DEFINE h == Len(handled)
    <3>1. h <= Len(sent) /\ InStep(sent, h, buf, parsed, wire) /\ h \in Nat
      BY <1>2, <1>4, <2>1, <2>3 DEF Followed
    <3> HIDE DEF h
    <3>2. InStep(sent, h, SubSeq(buf, parsed + 1, Len(buf)), 0, wire) BY <1>4, <3>1, StepsMoved
    <3> QED BY <1>5, <3>1, <3>2 DEF h
  <2>4. answers' = answers BY <1>1, <1>9
  <2>5. Proper(Len(handled))' <=> Proper(Len(handled)) BY <1>1 DEF Proper
  <2> HIDE DEF rest
  <2> QED BY <1>1, <2>2, <2>3, <2>4, <2>5 DEF Followed
<1>12. Waits'
  <2> SUFFICES ASSUME connPc' = "recv" PROVE parsed' = 0 /\ keepConn' /\ (LoopAgain' => Parse(Rest') = 0)
    BY <1>1 DEF Waits
  <2>1. LoopAgain => Parse(rest) = 0 BY <1>1, <1>2, <1>9 DEF Waits
  <2>2. Rest' = SubSeq(rest, 1, Len(rest))
    <3>1. Rest' = SubSeq(buf', parsed' + 1, Len(buf')) BY DEF Rest
    <3>2. parsed' + 1 = 1 BY <1>1
    <3> HIDE DEF rest
    <3> QED BY <1>1, <3>1, <3>2
  <2>3. LoopAgain' => Len(rest) > 0 BY <1>1 DEF LoopAgain
  <2> HIDE DEF rest
  <2>4. SubSeq(rest, 1, Len(rest)) = rest BY <1>3, SubSeqFull
  <2> QED BY <1>1, <1>6, <1>9, <2>1, <2>2, <2>3, <2>4
<1>13. FramedAsSent' BY <1>1, <1>2, HistoriesKept
<1>14. ASSUME LinesFit PROVE AnsweredByLimits'
  <2>1. CASE ~full
    <3>1. answers' = answers BY <1>1, <2>1
    <3> QED BY <1>1, <1>2, <1>14, <3>1, HistoriesKept
  <2>2. CASE full /\ ~keepConn
    <3>1. ~(parsed > 0)
      <4> DEFINE l == Len(rest)
      <4>1. l = Len(buf) - parsed /\ l = RecvBuf BY <1>3, <2>2
      <4> HIDE DEF l
      <4> QED BY <1>3, <4>1
    <3>2. Len(answers) > 0 /\ answers[Len(answers)] = 503 BY <1>1, <1>2, <2>2, <3>1 DEF Closing
    <3>3. answers' = Append(answers, code) /\ AnsweredByLimits BY <1>1, <1>2, <1>14, <2>2
    <3> HIDE DEF code
    <3> QED BY <1>1, <1>4, <3>2, <3>3, OneMoreAnswer
  <2>3. CASE full /\ keepConn
    <3>1. Following BY <1>1, <2>3 DEF Following
    <3>2. Len(answers) = Len(handled) BY <1>2, <3>1 DEF Followed
    <3>3. LoopAgain /\ Parse(rest) = 0
      <4>1. Len(rest) > 0 BY <1>3, <2>3
      <4> QED BY <1>1, <1>2, <1>6, <2>3, <4>1 DEF Waits
    <3>4. ASSUME ProperUpTo(Len(answers) + 1) PROVE Fits(sent[Len(answers) + 1], code)
      <4> DEFINE r == sent[Len(answers) + 1]
      <4>1. Proper(Len(handled))
        <5>1. \A j \in 1 .. Len(sent) : j <= Len(answers) => j \in 1 .. Len(answers) + 1 BY <1>4
        <5> QED BY <3>2, <3>4, <5>1 DEF Proper, ProperUpTo
      <4>2. r \in Requests /\ Receives(rest, r) BY <3>1, <3>2, <3>3, <4>1, NextRequest
      <4>3. WellFormed(r)
        <5>1. Len(answers) + 1 \in 1 .. Len(answers) + 1 BY <1>4
        <5> QED BY <3>4, <5>1 DEF ProperUpTo
      <4> HIDE DEF r, rest
      <4>4. Expected(r) = code BY <1>14, <2>3, <3>3, <4>2, <4>3, FullSays
      <4> QED BY <4>4 DEF Fits, r
    <3>5. answers' = Append(answers, code) /\ AnsweredByLimits BY <1>1, <1>2, <1>14, <2>3
    <3> HIDE DEF code
    <3> QED BY <1>1, <1>4, <3>4, <3>5, OneMoreAnswer
  <2>4. keepConn \in BOOLEAN BY <1>2 DEF HttpTypeOK
  <2> QED BY <2>1, <2>2, <2>3
<1> QED BY <1>7, <1>8, <1>11, <1>12, <1>13, <1>14 DEF HttpInductive

(* Every step keeps the invariant. *)
LEMMA HttpInductiveKept == HttpInductive /\ [HttpNext]_httpVars => HttpInductive'
<1> SUFFICES ASSUME HttpInductive, [HttpNext]_httpVars PROVE HttpInductive' OBVIOUS
<1>1. ASSUME NEW rs \in SeqOf(Requests, MaxSent), Connect(rs) PROVE HttpInductive'
  <2>1. rs \in Seq(Requests) BY SentAre
  <2> QED BY <1>1, <2>1, ConnectInductive
<1>2. ASSUME NEW n \in 1 .. RecvBuf, Recv(n) PROVE HttpInductive' BY <1>2, RecvInductive
<1>3. CASE LoopLeave BY <1>3, LeaveInductive
<1>4. CASE RefuseRequest BY <1>4, RefuseInductive
<1>5. ASSUME NEW code \in {200, 429}, HandleRequest(code) PROVE HttpInductive' BY <1>5, HandleInductive
<1>6. CASE OutOfMemory BY <1>6, MemoryInductive
<1>7. CASE ShiftBuffer BY <1>7, ShiftInductive
<1>8. CASE ClientGone BY <1>8, GoneInductive
<1>9. CASE UNCHANGED httpVars
  <2>1. UNCHANGED <<connPc, sent, wire, buf, parsed, keepConn, handled, answers>> BY <1>9 DEF httpVars
  <2>2. /\ HttpTypeOK /\ Unused /\ Followed /\ Waits /\ Closing
        /\ FramedAsSent /\ (LinesFit => AnsweredByLimits)
    BY DEF HttpInductive
  <2>3. HttpTypeOK' BY <2>1, <2>2 DEF HttpTypeOK
  <2>4. (LoopAgain' <=> LoopAgain) /\ Rest' = Rest BY <2>1 DEF LoopAgain, Rest
  <2>5. Unused' /\ Waits' /\ Closing' BY <2>1, <2>2, <2>4 DEF Unused, Waits, Closing
  <2>6. Proper(Len(handled))' <=> Proper(Len(handled)) BY <2>1 DEF Proper
  <2>7. Followed' BY <2>1, <2>2, <2>4, <2>6 DEF Followed, Following
  <2>8. FramedAsSent' /\ (LinesFit => AnsweredByLimits') BY <2>1, <2>2, HistoriesKept
  <2> QED BY <2>3, <2>5, <2>7, <2>8 DEF HttpInductive
<1> QED BY <1>1, <1>2, <1>3, <1>4, <1>5, <1>6, <1>7, <1>8, <1>9 DEF HttpNext

(* The receive loop of route_runtime.orb keeps to its buffer,              *)
(* and never waits for bytes while a whole request is in it.               *)
THEOREM NoRequestWaits == HttpSpec => []HttpInv
BY HttpInitially, HttpInductiveKept, HttpSound, PTL DEF HttpSpec

(* Whatever orbit_http_parse_request_ex is given by recv, routes get the   *)
(* requests that were sent, byte for byte: for requests of any size and    *)
(* any way the stream is cut, with the zeros the parser writes in place.   *)
THEOREM RequestsFramed == HttpSpec => []FramedAsSent
BY HttpInitially, HttpInductiveKept, HttpSound, PTL DEF HttpSpec

(* The answers are those the limits call for, and not those of how the     *)
(* bytes came, for all limits with which a request line that is allowed    *)
(* fits the receive buffer.  Without LinesFit it is false: a line that is  *)
(* too long and fills the buffer is answered with 431 and not with 414.    *)
THEOREM LimitsDecide == ASSUME LinesFit PROVE HttpSpec => []AnsweredByLimits
<1>1. HttpInductive => AnsweredByLimits BY HttpSound
<1> QED BY <1>1, HttpInitially, HttpInductiveKept, PTL DEF HttpSpec
=============================================================================
