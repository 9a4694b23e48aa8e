---------------------------- MODULE Ledger_proof ----------------------------
(***************************************************************************)
(* The ledger for any number of threads, rows, routes and calls.           *)
(***************************************************************************)
EXTENDS Ledger, Lemmas

Types ==
  /\ used \in [RowIds -> BOOLEAN]
  /\ key \in [RowIds -> Keys \cup {NoKey}] /\ writing \in [RowIds -> Keys \cup {NoKey}]
  /\ count \in [RowIds -> Nat] /\ overflow \in Nat
  /\ pc \in [Threads -> {"idle", "find", "claim", "write", "run"}]
  /\ want \in [Threads -> Keys \cup {NoKey}] /\ row \in [Threads -> 0 .. Rows]
  /\ entered \in 0 .. MaxCalls /\ skipped \in Nat

(* A call under way has a key; a search or a claim is at a row. *)
AtRow ==
  \A t \in Threads :
    /\ pc[t] # "idle" => want[t] \in Keys
    /\ pc[t] \in {"find", "claim", "write"} => row[t] \in RowIds

(* A row is unused, being written or written, and never goes back. *)
RowState ==
  \A i \in RowIds :
    /\ ~used[i] => key[i] = NoKey /\ writing[i] = NoKey
    /\ used[i] => (key[i] = NoKey) # (writing[i] = NoKey)

(* A row is written by the thread that claimed it. *)
Writers ==
  /\ \A t \in Threads : pc[t] = "write" => used[row[t]] /\ writing[row[t]] = want[t]
  /\ \A t, u \in Threads : pc[t] = "write" /\ pc[u] = "write" /\ row[t] = row[u] => t = u

Complete(k) == {i \in RowIds : key[i] = k}

(* Threads that may yet claim a row for k: all that are not writing one,   *)
(* until a row of k is complete; then the ones whose search has passed it. *)
Candidates(k) ==
  {t \in Threads :
    \/ Complete(k) = {} /\ ~(pc[t] = "write" /\ want[t] = k)
    \/ want[t] = k /\ pc[t] = "claim"
    \/ want[t] = k /\ pc[t] = "find" /\ \A i \in Complete(k) : i < row[t]}

RowsAndCandidates ==
  \A k \in Keys : Cardinality(RowsOf(k)) + Cardinality(Candidates(k)) <= Cardinality(Threads)

Accounts ==
  entered = SumOver(count, RowIds) + overflow + skipped + Cardinality(UnderWay)

Inductive ==
  /\ Types /\ AtRow /\ RowState /\ Writers /\ OwnRow /\ RowsAndCandidates /\ Accounts

-----------------------------------------------------------------------------
(* Sizes of the sets that are counted. *)
LEMMA Finite ==
  /\ IsFiniteSet(RowIds) /\ IsFiniteSet(UnderWay) /\ Cardinality(UnderWay) \in Nat
  /\ Cardinality(Threads) \in Nat
  /\ \A k : /\ IsFiniteSet(RowsOf(k)) /\ Cardinality(RowsOf(k)) \in Nat
            /\ IsFiniteSet(Candidates(k)) /\ Cardinality(Candidates(k)) \in Nat
<1>1. IsFiniteSet(RowIds) BY FS_Interval, LedgerAssumption DEF RowIds
<1>2. UnderWay \in SUBSET Threads /\ \A k : RowsOf(k) \in SUBSET RowIds /\ Candidates(k) \in SUBSET Threads
  BY DEF UnderWay, RowsOf, Candidates
<1> QED BY <1>1, <1>2, FS_Subset, FS_CardinalityType, LedgerAssumption

(* An empty table. *)
LEMMA InitInductive == Init => Inductive
<1> SUFFICES ASSUME Init PROVE Inductive OBVIOUS
<1> USE LedgerAssumption DEF Init
<1>1. Types BY DEF Types, NoRow
<1>2. AtRow /\ RowState /\ Writers /\ OwnRow
  BY DEF AtRow, RowState, Writers, OwnRow, NoRow
<1>3. RowsAndCandidates
  <2> SUFFICES ASSUME NEW k \in Keys
               PROVE  Cardinality(RowsOf(k)) + Cardinality(Candidates(k)) <= Cardinality(Threads)
    BY DEF RowsAndCandidates
  <2>1. RowsOf(k) = {} BY DEF RowsOf
  <2>2. Candidates(k) \in SUBSET Threads BY DEF Candidates
  <2>3. Cardinality(Candidates(k)) <= Cardinality(Threads) BY <2>2, FS_Subset
  <2> QED BY <2>1, <2>3, FS_EmptySet, Finite
<1>4. Accounts
  <2>1. UnderWay = {} BY DEF UnderWay
  <2>2. SumOver(count, RowIds) = 0 BY Finite, SumZero
  <2> QED BY <2>1, <2>2, FS_EmptySet DEF Accounts
<1> QED BY <1>1, <1>2, <1>3, <1>4 DEF Inductive

(* The sum over the rows as Accounts takes it is the one CallsAccounted    *)
(* takes.                                                                  *)
LEMMA AccountsCalls == Accounts <=> CallsAccounted
BY DEF Accounts, CallsAccounted, SumOver

(* The bound survives a step that makes no row of k and no candidate. *)
LEMMA NoNewCandidate ==
  ASSUME NEW k \in Keys, RowsAndCandidates,
         RowsOf(k)' \subseteq RowsOf(k), Candidates(k)' \subseteq Candidates(k)
  PROVE  Cardinality(RowsOf(k)') + Cardinality(Candidates(k)') <= Cardinality(Threads)
<1>1. /\ Cardinality(RowsOf(k)') <= Cardinality(RowsOf(k))
      /\ Cardinality(Candidates(k)') <= Cardinality(Candidates(k))
      /\ Cardinality(RowsOf(k)') \in Nat /\ Cardinality(Candidates(k)') \in Nat
  BY Finite, FS_Subset, FS_CardinalityType
<1> QED BY <1>1, Finite DEF RowsAndCandidates

(* A search stops at a row that bears its key, or a part of the key that   *)
(* is being written, and passes none that bears it.                        *)
LEMMA MatchesSound ==
  ASSUME Types, RowState, NEW i \in RowIds, NEW k \in Keys
  PROVE  /\ TRUE \in Matches(i, k) =>
              \E c \in Keys \cap {key[i], writing[i]} : k \in {c} \cup PrefixOf[c]
         /\ FALSE \in Matches(i, k) => key[i] # k
<1> USE LedgerAssumption
<1>1. /\ key[i] \in Keys \cup {NoKey} /\ writing[i] \in Keys \cup {NoKey} /\ used[i] \in BOOLEAN
      /\ ~used[i] => key[i] = NoKey
      /\ used[i] => (key[i] = NoKey) # (writing[i] = NoKey)
  BY DEF Types, RowState
<1>2. CASE ~used[i] BY <1>1, <1>2 DEF Matches
<1>3. CASE used[i] /\ writing[i] = NoKey
  <2>1. Matches(i, k) = {key[i] = k} BY <1>3 DEF Matches
  <2> QED BY <2>1, <1>1, <1>3
<1>4. CASE used[i] /\ writing[i] # NoKey
  <2>1. Matches(i, k) = {FALSE} \cup {TRUE : p \in {k} \cap ({writing[i]} \cup PrefixOf[writing[i]])}
    BY <1>4 DEF Matches
  <2> QED BY <2>1, <1>1, <1>4
<1> QED BY <1>2, <1>3, <1>4

(* Every step of a thread keeps the invariant. *)
LEMMA NextInductive == Inductive /\ [Next]_vars => Inductive'
<1> SUFFICES ASSUME Inductive, [Next]_vars PROVE Inductive' OBVIOUS
<1> USE LedgerAssumption
<1>1. Types /\ AtRow /\ RowState /\ Writers /\ OwnRow /\ RowsAndCandidates /\ Accounts
  BY DEF Inductive
<1>a. /\ IsFiniteSet(UnderWay) /\ Cardinality(UnderWay) \in Nat
      /\ IsFiniteSet(RowIds) /\ SumOver(count, RowIds) \in Nat
  BY <1>1, Finite, SumNat DEF Types
<1>2. ASSUME NEW t \in Threads, NEW k \in Keys, Enter(t, k) PROVE Inductive'
  <2>1. Types'
    BY <1>1, <1>2 DEF Enter, Types, AtRow, RowIds, NoRow
  <2>2. AtRow'
    BY <1>1, <1>2 DEF Enter, AtRow, Types, RowIds, NoRow
  <2>3. RowState'
    BY <1>1, <1>2 DEF Enter, RowState, Types, Writers, AtRow
  <2>4. Writers'
    BY <1>1, <1>2 DEF Enter, Writers, Types, AtRow, RowState
  <2>5. OwnRow'
    BY <1>1, <1>2 DEF Enter, OwnRow, Types, AtRow, Writers, RowState, NoRow
  <2>6. RowsAndCandidates'
    <3> SUFFICES ASSUME NEW c \in Keys
                 PROVE  Cardinality(RowsOf(c)') + Cardinality(Candidates(c)') <= Cardinality(Threads)
      BY DEF RowsAndCandidates
    <3>1. RowsOf(c)' \subseteq RowsOf(c)
      BY <1>1, <1>2 DEF Enter, RowsOf, Types, Writers, AtRow, RowState
    <3>2. Candidates(c)' \subseteq Candidates(c)
      BY <1>1, <1>2 DEF Enter, Candidates, Complete, Types, Writers, AtRow, RowState, RowIds
    <3> QED BY <1>1, <3>1, <3>2, NoNewCandidate
  <2>7. Accounts'
    <3>1. t \notin UnderWay /\ UnderWay' = UnderWay \cup {t}
      BY <1>1, <1>2 DEF Enter, UnderWay, Types, NoRow
    <3>2. Cardinality(UnderWay') = Cardinality(UnderWay) + 1 BY <1>a, <3>1, FS_AddElement
    <3> QED BY <1>1, <1>2, <1>a, <3>2 DEF Enter, Accounts, Types
  <2> QED BY <2>1, <2>2, <2>3, <2>4, <2>5, <2>6, <2>7 DEF Inductive
<1>3. ASSUME NEW t \in Threads, Find(t) PROVE Inductive'
  <2>a. row[t] \in RowIds /\ want[t] \in Keys BY <1>1, <1>3 DEF Find, AtRow
  <2>b. UNCHANGED <<used, key, writing, count, overflow, want, entered, skipped>>
    BY <1>3 DEF Find
  <2>1. CASE /\ TRUE \in Matches(row[t], want[t])
             /\ pc' = [pc EXCEPT ![t] = "run"] /\ row' = row
    <3>a. \E c \in Keys \cap {key[row[t]], writing[row[t]]} : want[t] \in {c} \cup PrefixOf[c]
      BY <1>1, <2>1, <2>a, MatchesSound
    <3>1. Types'
      BY <1>1, <1>3, <2>1, <2>a, <2>b, <3>a DEF Find, Types, AtRow, RowIds, NoRow
    <3>2. AtRow'
      BY <1>1, <1>3, <2>1, <2>a, <2>b, <3>a DEF Find, AtRow, Types, RowIds, NoRow
    <3>3. RowState'
      BY <1>1, <1>3, <2>1, <2>a, <2>b, <3>a DEF Find, RowState, Types, Writers, AtRow
    <3>4. Writers'
      BY <1>1, <1>3, <2>1, <2>a, <2>b, <3>a DEF Find, Writers, Types, AtRow, RowState
    <3>5. OwnRow'
      BY <1>1, <1>3, <2>1, <2>a, <2>b, <3>a DEF Find, OwnRow, Types, AtRow, Writers, RowState, NoRow
    <3>6. RowsAndCandidates'
      <4> SUFFICES ASSUME NEW c \in Keys
                   PROVE  Cardinality(RowsOf(c)') + Cardinality(Candidates(c)') <= Cardinality(Threads)
        BY DEF RowsAndCandidates
      <4>1. RowsOf(c)' \subseteq RowsOf(c)
        BY <1>1, <1>3, <2>1, <2>a, <2>b, <3>a DEF Find, RowsOf, Types, Writers, AtRow, RowState
      <4>2. Candidates(c)' \subseteq Candidates(c)
       
          BY <1>1, <1>3, <2>1, <2>a, <2>b, <3>a
             DEF Find, Candidates, Complete, Types, Writers, AtRow, RowState, RowIds
      <4> QED BY <1>1, <4>1, <4>2, NoNewCandidate
    <3>7. Accounts'
      <4>1. UnderWay' = UnderWay
        BY <1>1, <1>3, <2>1, <2>a, <2>b, <3>a DEF Find, UnderWay, Types, AtRow, RowIds, NoRow
      <4> QED BY <1>1, <1>1, <1>3, <2>1, <2>a, <2>b, <3>a, <4>1 DEF Find, Accounts
    <3> QED BY <3>1, <3>2, <3>3, <3>4, <3>5, <3>6, <3>7 DEF Inductive
  <2>2. CASE /\ FALSE \in Matches(row[t], want[t]) /\ row[t] < Rows
             /\ row' = [row EXCEPT ![t] = @ + 1] /\ pc' = pc
    <3>b. key[row[t]] # want[t] BY <1>1, <2>2, <2>a, MatchesSound
    <3>a. key[row[t]] # want[t] /\ row[t] + 1 \in RowIds BY <2>2, <2>a, <3>b DEF RowIds
    <3>1. Types'
      BY <1>1, <1>3, <2>2, <2>a, <2>b, <3>a DEF Find, Types, AtRow, RowIds, NoRow
    <3>2. AtRow'
      BY <1>1, <1>3, <2>2, <2>a, <2>b, <3>a DEF Find, AtRow, Types, RowIds, NoRow
    <3>3. RowState'
      BY <1>1, <1>3, <2>2, <2>a, <2>b, <3>a DEF Find, RowState, Types, Writers, AtRow
    <3>4. Writers'
      BY <1>1, <1>3, <2>2, <2>a, <2>b, <3>a DEF Find, Writers, Types, AtRow, RowState
    <3>5. OwnRow'
      BY <1>1, <1>3, <2>2, <2>a, <2>b, <3>a DEF Find, OwnRow, Types, AtRow, Writers, RowState, NoRow
    <3>6. RowsAndCandidates'
      <4> SUFFICES ASSUME NEW c \in Keys
                   PROVE  Cardinality(RowsOf(c)') + Cardinality(Candidates(c)') <= Cardinality(Threads)
        BY DEF RowsAndCandidates
      <4>1. RowsOf(c)' \subseteq RowsOf(c)
        BY <1>1, <1>3, <2>2, <2>a, <2>b, <3>a DEF Find, RowsOf, Types, Writers, AtRow, RowState
      <4>2. Candidates(c)' \subseteq Candidates(c)
       
          BY <1>1, <1>3, <2>2, <2>a, <2>b, <3>a
             DEF Find, Candidates, Complete, Types, Writers, AtRow, RowState, RowIds
      <4> QED BY <1>1, <4>1, <4>2, NoNewCandidate
    <3>7. Accounts'
      <4>1. UnderWay' = UnderWay
        BY <1>1, <1>3, <2>2, <2>a, <2>b, <3>a DEF Find, UnderWay, Types, AtRow, RowIds, NoRow
      <4> QED BY <1>1, <1>1, <1>3, <2>2, <2>a, <2>b, <3>a, <4>1 DEF Find, Accounts
    <3> QED BY <3>1, <3>2, <3>3, <3>4, <3>5, <3>6, <3>7 DEF Inductive
  <2>3. CASE /\ FALSE \in Matches(row[t], want[t]) /\ row[t] = Rows
             /\ row' = [row EXCEPT ![t] = 1] /\ pc' = [pc EXCEPT ![t] = "claim"]
    <3>a. key[row[t]] # want[t] BY <1>1, <2>3, <2>a, MatchesSound
    <3>1. Types'
      BY <1>1, <1>3, <2>3, <2>a, <2>b, <3>a DEF Find, Types, AtRow, RowIds, NoRow
    <3>2. AtRow'
      BY <1>1, <1>3, <2>3, <2>a, <2>b, <3>a DEF Find, AtRow, Types, RowIds, NoRow
    <3>3. RowState'
      BY <1>1, <1>3, <2>3, <2>a, <2>b, <3>a DEF Find, RowState, Types, Writers, AtRow
    <3>4. Writers'
      BY <1>1, <1>3, <2>3, <2>a, <2>b, <3>a DEF Find, Writers, Types, AtRow, RowState
    <3>5. OwnRow'
      BY <1>1, <1>3, <2>3, <2>a, <2>b, <3>a DEF Find, OwnRow, Types, AtRow, Writers, RowState, NoRow
    <3>6. RowsAndCandidates'
      <4> SUFFICES ASSUME NEW c \in Keys
                   PROVE  Cardinality(RowsOf(c)') + Cardinality(Candidates(c)') <= Cardinality(Threads)
        BY DEF RowsAndCandidates
      <4>1. RowsOf(c)' \subseteq RowsOf(c)
        BY <1>1, <1>3, <2>3, <2>a, <2>b, <3>a DEF Find, RowsOf, Types, Writers, AtRow, RowState
      <4>2. Candidates(c)' \subseteq Candidates(c)
       
          BY <1>1, <1>3, <2>3, <2>a, <2>b, <3>a
             DEF Find, Candidates, Complete, Types, Writers, AtRow, RowState, RowIds
      <4> QED BY <1>1, <4>1, <4>2, NoNewCandidate
    <3>7. Accounts'
      <4>1. UnderWay' = UnderWay
        BY <1>1, <1>3, <2>3, <2>a, <2>b, <3>a DEF Find, UnderWay, Types, AtRow, RowIds, NoRow
      <4> QED BY <1>1, <1>1, <1>3, <2>3, <2>a, <2>b, <3>a, <4>1 DEF Find, Accounts
    <3> QED BY <3>1, <3>2, <3>3, <3>4, <3>5, <3>6, <3>7 DEF Inductive
  <2>4. PICK found \in Matches(row[t], want[t]) :
          IF found THEN pc' = [pc EXCEPT ![t] = "run"] /\ UNCHANGED row
                   ELSE Advance(t, [row |-> 1, pc |-> "claim"])
    BY <1>3 DEF Find
  <2>5. found \in BOOLEAN BY <1>1, <2>a DEF Matches, Types
  <2>6. row[t] < Rows \/ row[t] = Rows BY <2>a DEF RowIds
  <2> QED BY <2>1, <2>2, <2>3, <2>4, <2>5, <2>6 DEF Advance, MoreRows
<1>4. ASSUME NEW t \in Threads, Claim(t) PROVE Inductive'
  <2>a. row[t] \in RowIds /\ want[t] \in Keys /\ pc[t] = "claim" BY <1>1, <1>4 DEF Claim, AtRow
  <2>b. UNCHANGED <<key, count, want, entered, skipped>> BY <1>4 DEF Claim
  <2>1. CASE /\ ~used[row[t]] /\ row' = row /\ overflow' = overflow
             /\ used' = [used EXCEPT ![row[t]] = TRUE]
             /\ writing' = [writing EXCEPT ![row[t]] = want[t]]
             /\ pc' = [pc EXCEPT ![t] = "write"]
    <3>1. Types'
      BY <1>1, <2>1, <2>a, <2>b DEF Types, AtRow, RowIds, NoRow
    <3>2. AtRow'
      BY <1>1, <2>1, <2>a, <2>b DEF AtRow, Types, RowIds, NoRow
    <3>3. RowState'
      BY <1>1, <2>1, <2>a, <2>b DEF RowState, Types, Writers, AtRow
    <3>4. Writers'
      BY <1>1, <2>1, <2>a, <2>b DEF Writers, Types, AtRow, RowState
    <3>5. OwnRow'
      BY <1>1, <2>1, <2>a, <2>b DEF OwnRow, Types, AtRow, Writers, RowState, NoRow
    <3>6. RowsAndCandidates'
      <4> SUFFICES ASSUME NEW c \in Keys
                   PROVE  Cardinality(RowsOf(c)') + Cardinality(Candidates(c)') <= Cardinality(Threads)
        BY DEF RowsAndCandidates
      <4>1. CASE c # want[t]
        <5>1. RowsOf(c)' \subseteq RowsOf(c)
          BY <1>1, <2>1, <2>a, <2>b, <4>1 DEF RowsOf, Types, RowState
        <5>2. Candidates(c)' \subseteq Candidates(c)
          BY <1>1, <2>1, <2>a, <2>b, <4>1 DEF Candidates, Complete, Types
        <5> QED BY <1>1, <5>1, <5>2, NoNewCandidate
      <4>2. CASE c = want[t]
        <5>1. row[t] \notin RowsOf(c) /\ RowsOf(c)' = RowsOf(c) \cup {row[t]}
          BY <1>1, <2>1, <2>a, <2>b, <4>2 DEF RowsOf, Types, RowState
        <5>2. t \in Candidates(c) /\ Candidates(c)' \subseteq Candidates(c) \ {t}
          BY <1>1, <2>1, <2>a, <2>b, <4>2 DEF Candidates, Complete, Types
        <5>3. Cardinality(RowsOf(c)') = Cardinality(RowsOf(c)) + 1 BY <5>1, Finite, FS_AddElement
        <5>4. /\ Cardinality(Candidates(c)') <= Cardinality(Candidates(c) \ {t})
              /\ Cardinality(Candidates(c) \ {t}) = Cardinality(Candidates(c)) - 1
              /\ Cardinality(Candidates(c)') \in Nat
          BY <5>2, Finite, FS_Subset, FS_RemoveElement, FS_CardinalityType
        <5> QED BY <1>1, <5>3, <5>4, Finite DEF RowsAndCandidates
      <4> QED BY <4>1, <4>2
    <3>7. Accounts'
      <4>1. UnderWay' = UnderWay
        BY <1>1, <2>1, <2>a, <2>b DEF UnderWay, Types, AtRow, RowIds, NoRow
      <4> QED BY <1>1, <1>1, <2>1, <2>a, <2>b, <4>1 DEF Accounts
    <3> QED BY <3>1, <3>2, <3>3, <3>4, <3>5, <3>6, <3>7 DEF Inductive
  <2>2. CASE /\ used[row[t]] /\ row[t] < Rows /\ UNCHANGED <<pc, used, writing, overflow>>
             /\ row' = [row EXCEPT ![t] = @ + 1]
    <3>a. row[t] + 1 \in RowIds BY <2>2, <2>a DEF RowIds
    <3>1. Types'
      BY <1>1, <2>2, <2>a, <2>b, <3>a DEF Types, AtRow, RowIds, NoRow
    <3>2. AtRow'
      BY <1>1, <2>2, <2>a, <2>b, <3>a DEF AtRow, Types, RowIds, NoRow
    <3>3. RowState'
      BY <1>1, <2>2, <2>a, <2>b, <3>a DEF RowState, Types, Writers, AtRow
    <3>4. Writers'
      BY <1>1, <2>2, <2>a, <2>b, <3>a DEF Writers, Types, AtRow, RowState
    <3>5. OwnRow'
      BY <1>1, <2>2, <2>a, <2>b, <3>a DEF OwnRow, Types, AtRow, Writers, RowState, NoRow
    <3>6. RowsAndCandidates'
      <4> SUFFICES ASSUME NEW c \in Keys
                   PROVE  Cardinality(RowsOf(c)') + Cardinality(Candidates(c)') <= Cardinality(Threads)
        BY DEF RowsAndCandidates
      <4>1. RowsOf(c)' \subseteq RowsOf(c)
        BY <1>1, <2>2, <2>a, <2>b, <3>a DEF RowsOf, Types, Writers, AtRow, RowState
      <4>2. Candidates(c)' \subseteq Candidates(c)
       
          BY <1>1, <2>2, <2>a, <2>b, <3>a
             DEF Candidates, Complete, Types, Writers, AtRow, RowState, RowIds
      <4> QED BY <1>1, <4>1, <4>2, NoNewCandidate
    <3>7. Accounts'
      <4>1. UnderWay' = UnderWay
        BY <1>1, <2>2, <2>a, <2>b, <3>a DEF UnderWay, Types, AtRow, RowIds, NoRow
      <4> QED BY <1>1, <1>1, <2>2, <2>a, <2>b, <3>a, <4>1 DEF Accounts
    <3> QED BY <3>1, <3>2, <3>3, <3>4, <3>5, <3>6, <3>7 DEF Inductive
  <2>3. CASE /\ used[row[t]] /\ row[t] = Rows /\ UNCHANGED <<used, writing>>
             /\ row' = [row EXCEPT ![t] = NoRow] /\ pc' = [pc EXCEPT ![t] = "run"]
             /\ overflow' = overflow + 1
    <3>1. Types'
      BY <1>1, <2>3, <2>a, <2>b DEF Types, AtRow, RowIds, NoRow
    <3>2. AtRow'
      BY <1>1, <2>3, <2>a, <2>b DEF AtRow, Types, RowIds, NoRow
    <3>3. RowState'
      BY <1>1, <2>3, <2>a, <2>b DEF RowState, Types, Writers, AtRow
    <3>4. Writers'
      BY <1>1, <2>3, <2>a, <2>b DEF Writers, Types, AtRow, RowState
    <3>5. OwnRow'
      BY <1>1, <2>3, <2>a, <2>b DEF OwnRow, Types, AtRow, Writers, RowState, NoRow
    <3>6. RowsAndCandidates'
      <4> SUFFICES ASSUME NEW c \in Keys
                   PROVE  Cardinality(RowsOf(c)') + Cardinality(Candidates(c)') <= Cardinality(Threads)
        BY DEF RowsAndCandidates
      <4>1. RowsOf(c)' \subseteq RowsOf(c)
        BY <1>1, <2>3, <2>a, <2>b DEF RowsOf, Types, Writers, AtRow, RowState
      <4>2. Candidates(c)' \subseteq Candidates(c)
        BY <1>1, <2>3, <2>a, <2>b DEF Candidates, Complete, Types, Writers, AtRow, RowState, RowIds
      <4> QED BY <1>1, <4>1, <4>2, NoNewCandidate
    <3>7. Accounts'
      <4>1. t \in UnderWay /\ UnderWay' = UnderWay \ {t}
        BY <1>1, <2>3, <2>a, <2>b DEF UnderWay, Types, RowIds, NoRow
      <4>2. Cardinality(UnderWay') = Cardinality(UnderWay) - 1 BY <1>a, <4>1, FS_RemoveElement
      <4> QED BY <1>1, <2>3, <2>b, <1>a, <4>2 DEF Accounts, Types
    <3> QED BY <3>1, <3>2, <3>3, <3>4, <3>5, <3>6, <3>7 DEF Inductive
  <2> QED
    BY <1>1, <1>4, <2>1, <2>2, <2>3, <2>a DEF Claim, Claimable, Advance, MoreRows, Types, RowIds
<1>5. ASSUME NEW t \in Threads, Write(t) PROVE Inductive'
  <2>a. row[t] \in RowIds /\ want[t] \in Keys BY <1>1, <1>5 DEF Write, AtRow
  <2>1. Types'
    BY <1>1, <1>5, <2>a DEF Write, Types, AtRow, RowIds, NoRow
  <2>2. AtRow'
    BY <1>1, <1>5, <2>a DEF Write, AtRow, Types, RowIds, NoRow
  <2>3. RowState'
    BY <1>1, <1>5, <2>a DEF Write, RowState, Types, Writers, AtRow
  <2>4. Writers'
    BY <1>1, <1>5, <2>a DEF Write, Writers, Types, AtRow, RowState
  <2>5. OwnRow'
    BY <1>1, <1>5, <2>a DEF Write, OwnRow, Types, AtRow, Writers, RowState, NoRow
  <2>6. RowsAndCandidates'
    <3> SUFFICES ASSUME NEW c \in Keys
                 PROVE  Cardinality(RowsOf(c)') + Cardinality(Candidates(c)') <= Cardinality(Threads)
      BY DEF RowsAndCandidates
    <3>1. RowsOf(c)' \subseteq RowsOf(c)
      BY <1>1, <1>5, <2>a DEF Write, RowsOf, Types, Writers, AtRow, RowState
    <3>2. Candidates(c)' \subseteq Candidates(c)
      <4>1. key[row[t]] = NoKey BY <1>1, <1>5, <2>a DEF Write, Writers, RowState
      <4>2. \A i \in RowIds : key[i] = c => key'[i] = c BY <1>1, <1>5, <2>a, <4>1 DEF Write, Types
      <4>3. Complete(c)' = IF c = want[t] THEN Complete(c) \cup {row[t]} ELSE Complete(c)
        BY <1>1, <1>5, <2>a, <4>2 DEF Write, Complete, Types
      <4>4. want' = want /\ row' = row /\ pc'[t] = "run" /\ pc[t] = "write"
            /\ \A u \in Threads \ {t} : pc'[u] = pc[u]
        BY <1>1, <1>5 DEF Write, Types
      <4> QED BY <4>3, <4>4 DEF Candidates
    <3> QED BY <1>1, <3>1, <3>2, NoNewCandidate
  <2>7. Accounts'
    <3>1. UnderWay' = UnderWay
      BY <1>1, <1>5, <2>a DEF Write, UnderWay, Types, AtRow, RowIds, NoRow
    <3> QED BY <1>1, <1>1, <1>5, <2>a, <3>1 DEF Write, Accounts
  <2> QED BY <2>1, <2>2, <2>3, <2>4, <2>5, <2>6, <2>7 DEF Inductive
<1>6. ASSUME NEW t \in Threads, Exit(t) PROVE Inductive'
  <2>1. Types'
    BY <1>1, <1>6 DEF Exit, Leave, Recorded, Types, AtRow, RowIds, NoRow
  <2>2. AtRow'
    BY <1>1, <1>6 DEF Exit, Leave, Recorded, AtRow, Types, RowIds, NoRow
  <2>3. RowState'
    BY <1>1, <1>6 DEF Exit, Leave, Recorded, RowState, Types, Writers, AtRow
  <2>4. Writers'
    BY <1>1, <1>6 DEF Exit, Leave, Recorded, Writers, Types, AtRow, RowState
  <2>5. OwnRow'
    BY <1>1, <1>6 DEF Exit, Leave, Recorded, OwnRow, Types, AtRow, Writers, RowState, NoRow
  <2>6. RowsAndCandidates'
    <3> SUFFICES ASSUME NEW c \in Keys
                 PROVE  Cardinality(RowsOf(c)') + Cardinality(Candidates(c)') <= Cardinality(Threads)
      BY DEF RowsAndCandidates
    <3>1. RowsOf(c)' \subseteq RowsOf(c)
      BY <1>1, <1>6 DEF Exit, Leave, Recorded, RowsOf, Types, Writers, AtRow, RowState
    <3>2. Candidates(c)' \subseteq Candidates(c)
     
        BY <1>1, <1>6
           DEF Exit, Leave, Recorded, Candidates, Complete, Types, Writers, AtRow, RowState, RowIds
    <3> QED BY <1>1, <3>1, <3>2, NoNewCandidate
  <2>7. Accounts'
    <3>1. CASE row[t] = NoRow
      <4>1. UnderWay' = UnderWay BY <1>1, <1>6, <3>1 DEF Exit, Leave, UnderWay, Types
      <4> QED BY <1>1, <1>6, <3>1, <4>1 DEF Exit, Leave, Recorded, Accounts
    <3>2. CASE row[t] # NoRow
      <4>1. t \in UnderWay /\ UnderWay' = UnderWay \ {t}
        BY <1>1, <1>6, <3>2 DEF Exit, Leave, UnderWay, Types
      <4>2. Cardinality(UnderWay') = Cardinality(UnderWay) - 1 BY <1>a, <4>1, FS_RemoveElement
      <4>3. row[t] \in RowIds /\ count[row[t]] \in Nat /\ count'[row[t]] = count[row[t]] + 1
        BY <1>1, <1>6, <3>2 DEF Exit, Recorded, Types, RowIds, NoRow
      <4>4. /\ \A i \in RowIds : count[i] \in Nat /\ count'[i] \in Nat
            /\ \A i \in RowIds \ {row[t]} : count'[i] = count[i]
        BY <1>1, <1>6, <2>1, <3>2 DEF Exit, Recorded, Types
      <4>5. SumOver(count', RowIds) + count[row[t]] = SumOver(count, RowIds) + count'[row[t]]
        BY <1>a, <4>3, <4>4, SumChange
      <4>6. SumOver(count', RowIds) \in Nat BY <1>a, <4>4, SumNat
      <4>7. SumOver(count', RowIds) = SumOver(count, RowIds) + 1 BY <1>a, <4>3, <4>5, <4>6
      <4> QED BY <1>1, <1>6, <1>a, <4>2, <4>7 DEF Exit, Leave, Accounts, Types
    <3> QED BY <3>1, <3>2
  <2> QED BY <2>1, <2>2, <2>3, <2>4, <2>5, <2>6, <2>7 DEF Inductive
<1>7. ASSUME NEW t \in Threads, Abandon(t) PROVE Inductive'
  <2>1. Types'
    BY <1>1, <1>7 DEF Abandon, Leave, Types, AtRow, RowIds, NoRow
  <2>2. AtRow'
    BY <1>1, <1>7 DEF Abandon, Leave, AtRow, Types, RowIds, NoRow
  <2>3. RowState'
    BY <1>1, <1>7 DEF Abandon, Leave, RowState, Types, Writers, AtRow
  <2>4. Writers'
    BY <1>1, <1>7 DEF Abandon, Leave, Writers, Types, AtRow, RowState
  <2>5. OwnRow'
    BY <1>1, <1>7 DEF Abandon, Leave, OwnRow, Types, AtRow, Writers, RowState, NoRow
  <2>6. RowsAndCandidates'
    <3> SUFFICES ASSUME NEW c \in Keys
                 PROVE  Cardinality(RowsOf(c)') + Cardinality(Candidates(c)') <= Cardinality(Threads)
      BY DEF RowsAndCandidates
    <3>1. RowsOf(c)' \subseteq RowsOf(c)
      BY <1>1, <1>7 DEF Abandon, Leave, RowsOf, Types, Writers, AtRow, RowState
    <3>2. Candidates(c)' \subseteq Candidates(c)
     
        BY <1>1, <1>7
           DEF Abandon, Leave, Candidates, Complete, Types, Writers, AtRow, RowState, RowIds
    <3> QED BY <1>1, <3>1, <3>2, NoNewCandidate
  <2>7. Accounts'
    <3>1. t \in UnderWay /\ UnderWay' = UnderWay \ {t}
      BY <1>1, <1>7 DEF Abandon, Leave, UnderWay, Types
    <3>2. Cardinality(UnderWay') = Cardinality(UnderWay) - 1 BY <1>a, <3>1, FS_RemoveElement
    <3> QED BY <1>1, <1>7, <1>a, <3>2 DEF Abandon, Leave, Accounts, Types
  <2> QED BY <2>1, <2>2, <2>3, <2>4, <2>5, <2>6, <2>7 DEF Inductive
<1>8. CASE UNCHANGED vars
  BY <1>1, <1>8 DEF vars, Inductive, Types, AtRow, RowState, Writers, OwnRow,
     RowsAndCandidates, Accounts, RowsOf, Candidates, Complete, UnderWay
<1> QED BY <1>2, <1>3, <1>4, <1>5, <1>6, <1>7, <1>8 DEF Next

(* The invariant holds in every reachable state. *)
LEMMA InductiveHolds == Spec => []Inductive
BY InitInductive, NextInductive, PTL DEF Spec

(* orbit_ledger_exit adds a call's cost to a row that bears the call's own *)
(* key, or one that begins with it and was being written when the search   *)
(* of orbit_ledger_find came by; no other route's row is ever charged.     *)
THEOREM ChargesOwnRow == Spec => []OwnRow
<1>1. Inductive => OwnRow BY DEF Inductive
<1> QED BY <1>1, InductiveHolds, PTL

(* Every call that orbit_ledger_enter has seen is recorded in some row,    *)
(* counted as overflow, abandoned or under way.                            *)
THEOREM NothingLost == Spec => []CallsAccounted
<1>1. Inductive => CallsAccounted BY AccountsCalls DEF Inductive
<1> QED BY <1>1, InductiveHolds, PTL

(* Types, and the bound on duplicates: whatever the interleaving of the    *)
(* searches and claims, a key has at most one row per thread.              *)
THEOREM LedgerBounded == Spec => []LedgerInv
<1>1. Inductive => LedgerInv
  <2> SUFFICES ASSUME Inductive PROVE LedgerInv OBVIOUS
  <2> USE LedgerAssumption
  <2>1. Types /\ RowsAndCandidates /\ Accounts BY DEF Inductive
  <2>2. TypeOK
    <3>1. /\ SumOver(count, RowIds) \in Nat /\ Cardinality(UnderWay) \in Nat
          /\ \A i \in RowIds : count[i] <= SumOver(count, RowIds)
      BY <2>1, Finite, SumNat, SumBounds DEF Types
    <3>2. overflow \in 0 .. MaxCalls /\ skipped \in 0 .. MaxCalls
      BY <2>1, <3>1 DEF Accounts, Types
    <3>3. SumOver(count, RowIds) <= MaxCalls BY <2>1, <3>1 DEF Accounts, Types
    <3>4. \A i \in RowIds : count[i] \in 0 .. MaxCalls BY <2>1, <3>1, <3>3 DEF Types
    <3>5. count \in [RowIds -> 0 .. MaxCalls] BY <2>1, <3>4 DEF Types
    <3> QED BY <2>1, <3>2, <3>5 DEF Types, TypeOK
  <2>3. DuplicatesBounded
    <3> SUFFICES ASSUME NEW k \in Keys PROVE Cardinality(RowsOf(k)) <= Cardinality(Threads)
      BY DEF DuplicatesBounded
    <3> QED BY <2>1, Finite DEF RowsAndCandidates
  <2> QED BY <2>2, <2>3 DEF LedgerInv
<1> QED BY <1>1, InductiveHolds, PTL

=============================================================================
