---------------------------- MODULE Migrations -----------------------------
(***************************************************************************)
(* A service process brings its database up to date before it serves       *)
(* (runtime/database.c, orbit_db_init and orbit_run_migrations).  All      *)
(* processes of a cluster are started at once and open the same file.      *)
(*                                                                         *)
(* SQLite is external: one writer at a time, which holds the lock to the   *)
(* end of its transaction; a statement that meets the lock waits, up to a  *)
(* timeout; a transaction of a process that dies leaves no trace.  BEGIN   *)
(* takes no lock: the first write does.                                    *)
(***************************************************************************)
EXTENDS Naturals, FiniteSets

CONSTANTS Procs, NoProc,
          Count,      \* migrations, 1 .. Count
          Once,       \* the ones that fail when they are run again
          SeedRows,   \* rows put into an empty database, each by itself
          MaxBoots    \* bound: process starts

ASSUME MigrationsAssumption ==
  /\ NoProc \notin Procs /\ IsFiniteSet(Procs)
  /\ Count \in Nat /\ Once \subseteq 1 .. Count
  /\ SeedRows \in Nat \ {0} /\ MaxBoots \in Nat

VARIABLES
  marks,     \* _orbit_migrations
  applied,   \* version: how often it was run and committed
  seeded,    \* rows of the seed that are in the database
  lock,      \* the process in a write transaction
  bootPc,    \* process: "off", "open", "seed", "check", "exec", "mark", "commit", "serve"
  version,   \* process: i of the loop; the next row of the seed
  marked,    \* process: its transaction has inserted the mark
  boots,     \* history: process starts
  overtaken, \* history: versions committed by one process while another had found them open
  unmarked,  \* history: versions committed without their mark
  misread,   \* history: versions whose mark was there and could not be read
  seedCut    \* history: a seed was ended by a crash or a timeout

bootVars == <<marks, applied, seeded, lock, bootPc, version, marked,
              boots, overtaken, unmarked, misread, seedCut>>

Versions == 1 .. Count

BootTypeOK ==
  /\ marks \subseteq Versions /\ applied \in [Versions -> 0 .. MaxBoots]
  /\ seeded \in 0 .. SeedRows
  /\ lock \in Procs \cup {NoProc}
  /\ bootPc \in [Procs -> {"off", "open", "seed", "check", "exec", "mark", "commit", "serve"}]
  /\ \A p \in Procs : version[p] \in Nat \ {0}
  /\ \A p \in Procs : lock = p <=> bootPc[p] \in {"mark", "commit"}

BootInit ==
  /\ marks = {} /\ applied = [v \in Versions |-> 0] /\ seeded = 0
  /\ lock = NoProc
  /\ bootPc = [p \in Procs |-> "off"] /\ version = [p \in Procs |-> 1]
  /\ marked = [p \in Procs |-> FALSE]
  /\ boots = 0 /\ overtaken = {} /\ unmarked = {} /\ misread = {}
  /\ seedCut = FALSE

-----------------------------------------------------------------------------
To(p, pc, v) ==
  /\ bootPc' = [bootPc EXCEPT ![p] = pc]
  /\ version' = [version EXCEPT ![p] = v]

Boot(p) ==
  /\ bootPc[p] = "off" /\ boots < MaxBoots
  /\ boots' = boots + 1
  /\ To(p, "open", 1)
  /\ UNCHANGED <<marks, applied, seeded, lock, marked, overtaken, unmarked, misread, seedCut>>

(* The process ends, in whatever it was doing: killed, exit(1), or done.   *)
Die(p) ==
  /\ bootPc[p] # "off"
  /\ To(p, "off", 1)
  /\ lock' = IF lock = p THEN NoProc ELSE lock
  /\ marked' = [marked EXCEPT ![p] = FALSE]
  /\ seedCut' = (seedCut \/ bootPc[p] = "seed")
  /\ UNCHANGED <<marks, applied, seeded, boots, overtaken, unmarked, misread>>

(* orbit_db_init: an empty database gets the seed, and so does one whose   *)
(* rows could not be counted.                                              *)
Open(p) ==
  /\ bootPc[p] = "open"
  /\ \/ seeded > 0 /\ To(p, "check", 1)
     \/ To(p, "seed", 1)
  /\ UNCHANGED <<marks, applied, seeded, lock, marked, boots, overtaken, unmarked, misread, seedCut>>

SeedEnds(k) == k = SeedRows

(* One row of the seed; one that is there already ends the whole list. *)
Seed(p) ==
  LET k == version[p] IN
  /\ bootPc[p] = "seed" /\ lock = NoProc
  /\ seeded' = IF k > seeded THEN k ELSE seeded
  /\ IF k <= seeded \/ SeedEnds(k) THEN To(p, "check", 1) ELSE To(p, "seed", k + 1)
  /\ UNCHANGED <<marks, applied, lock, marked, boots, overtaken, unmarked, misread, seedCut>>

(* The busy timeout, or another error, ends the list too; nobody looks at  *)
(* the result.                                                             *)
SeedBusy(p) ==
  /\ bootPc[p] = "seed"
  /\ seedCut' = TRUE
  /\ To(p, "check", 1)
  /\ UNCHANGED <<marks, applied, seeded, lock, marked, boots, overtaken, unmarked, misread>>

(* Mutant: what follows the last mark is run, and the last one again. *)
DonePast(v) == \E m \in marks : m > v

Done(v) == v \in marks

Past(v) == v > Count

(* The top of the loop; BEGIN is part of it. *)
Check(p) ==
  LET v == version[p] IN
  /\ bootPc[p] = "check"
  /\ IF Past(v) THEN To(p, "serve", v)
     ELSE IF Done(v) THEN To(p, "check", v + 1)
     ELSE To(p, "exec", v)
  /\ UNCHANGED <<marks, applied, seeded, lock, marked, boots, overtaken, unmarked, misread, seedCut>>

(* sqlite3_step fails where it should have found the mark: anything but a  *)
(* row is taken for a migration that was not done.                         *)
Misread(p) ==
  LET v == version[p] IN
  /\ bootPc[p] = "check" /\ ~Past(v) /\ Done(v)
  /\ misread' = misread \cup {v}
  /\ To(p, "exec", v)
  /\ UNCHANGED <<marks, applied, seeded, lock, marked, boots, overtaken, unmarked, seedCut>>

(* The statement runs, in a transaction that takes the lock with it. *)
Exec(p) ==
  /\ bootPc[p] = "exec" /\ lock = NoProc
  /\ version[p] \in Once => applied[version[p]] = 0
  /\ lock' = p
  /\ To(p, "mark", version[p])
  /\ UNCHANGED <<marks, applied, seeded, marked, boots, overtaken, unmarked, misread, seedCut>>

(* Mutant: after a rollback the loop goes on. *)
FailedGoesOn(p) == To(p, "check", version[p] + 1)

(* orbit_run_migrations returns false and the generated main exits. *)
Failed(p) == To(p, "off", 1)

(* It fails, or the lock is not had in time: ROLLBACK. *)
ExecFails(p) ==
  /\ bootPc[p] = "exec"
  /\ lock # NoProc \/ (version[p] \in Once /\ applied[version[p]] > 0)
  /\ Failed(p)
  /\ UNCHANGED <<marks, applied, seeded, lock, marked, boots, overtaken, unmarked, misread, seedCut>>

(* The mark is inserted, if it can be; nobody looks at the result. *)
Mark(p) ==
  /\ bootPc[p] = "mark"
  /\ \/ marked' = [marked EXCEPT ![p] = version[p] \notin marks]
     \/ marked' = [marked EXCEPT ![p] = FALSE]
  /\ To(p, "commit", version[p])
  /\ UNCHANGED <<marks, applied, seeded, lock, boots, overtaken, unmarked, misread, seedCut>>

(* Mutant: the mark is left for later. *)
MarksUnchanged(p) == marks

MarksAfter(p) == IF marked[p] THEN marks \cup {version[p]} ELSE marks

Commit(p) ==
  LET v == version[p] IN
  /\ bootPc[p] = "commit"
  /\ applied' = [applied EXCEPT ![v] = @ + 1]
  /\ marks' = MarksAfter(p)
  /\ lock' = NoProc /\ marked' = [marked EXCEPT ![p] = FALSE]
  /\ overtaken' = overtaken \cup {v : q \in {q \in Procs \ {p} : bootPc[q] = "exec" /\ version[q] = v}}
  /\ unmarked' = IF marked[p] \/ v \in marks THEN unmarked ELSE unmarked \cup {v}
  /\ To(p, "check", v + 1)
  /\ UNCHANGED <<seeded, boots, misread, seedCut>>

BootNext == \E p \in Procs :
  \/ Boot(p) \/ Die(p) \/ Open(p) \/ Seed(p) \/ SeedBusy(p)
  \/ Check(p) \/ Misread(p) \/ Exec(p) \/ ExecFails(p) \/ Mark(p) \/ Commit(p)

BootSpec == BootInit /\ [][BootNext]_bootVars

-----------------------------------------------------------------------------
(* "Runs each statement exactly once", across crashes at any step, failed  *)
(* commits, timeouts and restarts, with three exceptions: another process  *)
(* had looked for the mark before this one committed it and runs the       *)
(* statement again, or the mark itself could not be inserted, or it was    *)
(* there and could not be read.                                            *)
RunOnce ==
  \A v \in Versions : applied[v] > 1 => v \in overtaken \cup unmarked \cup misread

(* No process serves on a database that lacks one of its migrations, and   *)
(* none is applied before the ones that come before it, whichever process  *)
(* ran them and wherever one of them gave up.                              *)
ServesMigrated ==
  /\ (\E p \in Procs : bootPc[p] = "serve") => \A v \in Versions : applied[v] > 0
  /\ \A v \in Versions : applied[v] > 0 => \A u \in 1 .. v - 1 : applied[u] > 0

(* "A bad statement fails the whole migration rather than being recorded": *)
(* the recorded versions are the ones that were applied, but for those     *)
(* whose mark could not be inserted.                                       *)
MarkedIsApplied == {v \in Versions : applied[v] > 0} \ unmarked = marks \ unmarked

(* When nobody is putting the seed in, it is in, or it was never begun, or *)
(* a crash or a timeout cut it short; then it stays as it is, for the next *)
(* start sees a database that is not empty.                                *)
SeedWhole ==
  (\A p \in Procs : bootPc[p] # "seed") => seeded \in {0, SeedRows} \/ seedCut

(* What is in the file agrees with what was done to it, whichever process  *)
(* died at whichever step: the recorded migrations and the seed.           *)
BootInv == BootTypeOK /\ MarkedIsApplied /\ SeedWhole
=============================================================================
