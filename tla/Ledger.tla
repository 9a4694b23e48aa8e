------------------------------- MODULE Ledger -------------------------------
(***************************************************************************)
(* The per-route cost ledger (runtime/ledger.c): a fixed table of rows     *)
(* keyed by method and path, shared by all workers without a lock.  A      *)
(* handler call searches the table for its key, one row after the other,   *)
(* claims the first unused row when there is none, and adds its cost to    *)
(* the row when the handler returns.  A claim is a compare-and-swap of     *)
(* `used' followed by the plain writes of the key, byte by byte: a search  *)
(* that reads the row in between compares with a prefix of the key.        *)
(***************************************************************************)
EXTENDS Naturals, FiniteSets, FiniteSetsExt

CONSTANTS Threads,
          Keys, NoKey,  \* method and path, as the table keeps them
          PrefixOf,     \* PrefixOf[k]: keys that a part of k's bytes spells out
          Rows,         \* ORBIT_LEDGER_MAX (64)
          MaxCalls      \* bound: handler calls entered

ASSUME LedgerAssumption ==
  /\ IsFiniteSet(Threads) /\ NoKey \notin Keys
  /\ PrefixOf \in [Keys -> SUBSET Keys]
  /\ Rows \in Nat \ {0} /\ MaxCalls \in Nat

VARIABLES
  used,      \* row: claimed
  key,       \* row: its key, once it is written
  writing,   \* row: the key being written into it
  count,     \* row: calls recorded
  overflow,  \* orbit_ledger_overflow
  pc,        \* thread: "idle", "find", "claim", "write", "run"
  want,      \* thread: the key of its call
  row,       \* thread: i of the loop, then the slot it was given; NoRow for -1
  entered, skipped  \* history: calls entered; calls that never reached exit

vars == <<used, key, writing, count, overflow, pc, want, row, entered, skipped>>

RowIds == 1 .. Rows
NoRow == 0

TypeOK ==
  /\ used \in [RowIds -> BOOLEAN]
  /\ key \in [RowIds -> Keys \cup {NoKey}] /\ writing \in [RowIds -> Keys \cup {NoKey}]
  /\ count \in [RowIds -> 0 .. MaxCalls] /\ overflow \in 0 .. MaxCalls
  /\ pc \in [Threads -> {"idle", "find", "claim", "write", "run"}]
  /\ want \in [Threads -> Keys \cup {NoKey}] /\ row \in [Threads -> 0 .. Rows]
  /\ entered \in 0 .. MaxCalls /\ skipped \in 0 .. MaxCalls

Init ==
  /\ used = [i \in RowIds |-> FALSE]
  /\ key = [i \in RowIds |-> NoKey] /\ writing = [i \in RowIds |-> NoKey]
  /\ count = [i \in RowIds |-> 0] /\ overflow = 0
  /\ pc = [t \in Threads |-> "idle"]
  /\ want = [t \in Threads |-> NoKey] /\ row = [t \in Threads |-> NoRow]
  /\ entered = 0 /\ skipped = 0

Enter(t, k) ==
  /\ pc[t] = "idle" /\ entered < MaxCalls
  /\ want' = [want EXCEPT ![t] = k]
  /\ row' = [row EXCEPT ![t] = 1]
  /\ pc' = [pc EXCEPT ![t] = "find"]
  /\ entered' = entered + 1
  /\ UNCHANGED <<used, key, writing, count, overflow, skipped>>

(* Mutant: a row without a recorded call is taken for an unused one. *)
MatchesRecorded(i, k) == IF count[i] = 0 THEN {FALSE} ELSE {key[i] = k}

(* What strncmp may report for row i and key k: while the row is being     *)
(* written it holds some prefix of the key that is coming.                 *)
Matches(i, k) ==
  IF ~used[i] THEN {FALSE}
  ELSE IF writing[i] = NoKey THEN {key[i] = k}
  ELSE {FALSE} \cup {TRUE : p \in {k} \cap ({writing[i]} \cup PrefixOf[writing[i]])}

MoreRows(i) == i < Rows

(* The loop goes on to row i + 1, or ends. *)
Advance(t, onEnd) ==
  IF MoreRows(row[t])
  THEN row' = [row EXCEPT ![t] = @ + 1] /\ UNCHANGED pc
  ELSE row' = [row EXCEPT ![t] = onEnd.row] /\ pc' = [pc EXCEPT ![t] = onEnd.pc]

(* One iteration of orbit_ledger_find. *)
Find(t) ==
  /\ pc[t] = "find"
  /\ \E found \in Matches(row[t], want[t]) :
       IF found
       THEN pc' = [pc EXCEPT ![t] = "run"] /\ UNCHANGED row
       ELSE Advance(t, [row |-> 1, pc |-> "claim"])
  /\ UNCHANGED <<used, key, writing, count, overflow, want, entered, skipped>>

(* Mutant: `used' is tested and then set, as if nobody could come between. *)
ClaimableRacy(i) == key[i] = NoKey

(* The compare-and-swap of used from 0 to 1 succeeds. *)
Claimable(i) == ~used[i]

(* One iteration of orbit_ledger_claim; past the last row the call goes    *)
(* unrecorded.                                                             *)
Claim(t) ==
  LET i == row[t] IN
  /\ pc[t] = "claim"
  /\ IF Claimable(i)
     THEN /\ used' = [used EXCEPT ![i] = TRUE]
          /\ writing' = [writing EXCEPT ![i] = want[t]]
          /\ pc' = [pc EXCEPT ![t] = "write"]
          /\ UNCHANGED <<row, overflow>>
     ELSE /\ Advance(t, [row |-> NoRow, pc |-> "run"])
          /\ overflow' = IF MoreRows(i) THEN overflow ELSE overflow + 1
          /\ UNCHANGED <<used, writing>>
  /\ UNCHANGED <<key, count, want, entered, skipped>>

(* The last byte of the key is in its place. *)
Write(t) ==
  /\ pc[t] = "write"
  /\ key' = [key EXCEPT ![row[t]] = want[t]]
  /\ writing' = [writing EXCEPT ![row[t]] = NoKey]
  /\ pc' = [pc EXCEPT ![t] = "run"]
  /\ UNCHANGED <<used, count, overflow, want, row, entered, skipped>>

Leave(t) ==
  /\ pc' = [pc EXCEPT ![t] = "idle"]
  /\ want' = [want EXCEPT ![t] = NoKey]
  /\ row' = [row EXCEPT ![t] = NoRow]
  /\ UNCHANGED <<used, key, writing, overflow, entered>>

(* Mutant: the call is recorded in the first row when it has none. *)
RecordedAnyRow(t) ==
  IF row[t] = NoRow THEN [count EXCEPT ![1] = @ + 1] ELSE [count EXCEPT ![row[t]] = @ + 1]

Recorded(t) == IF row[t] = NoRow THEN count ELSE [count EXCEPT ![row[t]] = @ + 1]

Exit(t) ==
  /\ pc[t] = "run"
  /\ count' = Recorded(t)
  /\ Leave(t)
  /\ UNCHANGED skipped

(* A refused allocation jumps over orbit_ledger_exit (arena_oom.c). *)
Abandon(t) ==
  /\ pc[t] = "run" /\ row[t] # NoRow
  /\ skipped' = skipped + 1
  /\ Leave(t)
  /\ UNCHANGED count

Next == \E t \in Threads :
  \/ \E k \in Keys : Enter(t, k)
  \/ Find(t) \/ Claim(t) \/ Write(t) \/ Exit(t) \/ Abandon(t)

Spec == Init /\ [][Next]_vars

-----------------------------------------------------------------------------
RowsOf(k) == {i \in RowIds : used[i] /\ k \in {key[i], writing[i]}}

(* Every thread that runs its handler with a row has one that bears its    *)
(* key, or is about to: no cost is booked on another route, except on one  *)
(* whose key begins with the caller's and was being written when the       *)
(* search came by.                                                         *)
OwnRow ==
  \A t \in Threads : pc[t] = "run" /\ row[t] # NoRow =>
    \E k \in Keys \cap {key[row[t]], writing[row[t]]} : want[t] \in {k} \cup PrefixOf[k]

(* A key has at most one row per thread: only a search that was under way  *)
(* while the row was made can miss it, so duplicates do not pile up.       *)
DuplicatesBounded == \A k \in Keys : Cardinality(RowsOf(k)) <= Cardinality(Threads)

(* Every call that was entered is recorded, counted as overflow, abandoned *)
(* or still under way: nothing is lost and nothing is counted twice.       *)
UnderWay == {t \in Threads : pc[t] # "idle" /\ ~(pc[t] = "run" /\ row[t] = NoRow)}
CallsAccounted ==
  entered = MapThenSumSet(LAMBDA i : count[i], RowIds) + overflow + skipped
              + Cardinality(UnderWay)

(* Types and the bound on rows of one key. *)
LedgerInv == TypeOK /\ DuplicatesBounded
=============================================================================
