--------------------------- MODULE KynxAdmission ---------------------------
(***************************************************************************)
(* The global admission gate (runtime/kynx.c, orbit_kynx_check) on one     *)
(* shard of its table.  A thread reads the clock, then takes the shard's   *)
(* spinlock and does the rest under it: the two steps of a check are       *)
(* Begin, and Check for the critical section.  Between them the clock runs *)
(* and other threads pass the gate, so a check may work with a time that   *)
(* is older than the times it finds in the table.                          *)
(***************************************************************************)
EXTENDS KynxBucket, FiniteSetsExt

CONSTANTS IPs, NoIP,
          Slots,      \* KYNX_SLOTS_PER_SHARD (64)
          RateLimit, WindowMs, Burst, BanThreshold, ScoreIncrement, ScoreDecay,
          BanNs       \* kynx_ban_duration_ns()

ASSUME AdmissionAssumption ==
  /\ NoIP \notin IPs
  /\ Slots \in Nat \ {0}
  /\ {RateLimit, WindowMs, Burst, BanThreshold, ScoreIncrement} \subseteq Nat \ {0}
  /\ ScoreDecay \in Nat /\ BanNs \in Nat
  /\ MaxTime < Word

VARIABLES
  table,    \* the shard's entries
  pending,  \* thread: the check it is in, between reading the clock and the lock
  out,      \* the last verdict: [ip, ok]
  first,    \* history: when the address was inserted last
  admits,   \* history: admissions since then
  bannedAt, \* history: when it was banned last since then, 0 for never
  late      \* history: since then, a check used a clock older than its entry

gateVars == <<now, table, pending, out, first, admits, bannedAt, late>>

WindowNs == WindowMs * NsPerMs
Cap == Burst * Milli
SlotIds == 1 .. Slots

(* e->ip.family == 0 *)
Free == [ip |-> NoIP, last |-> 0, viol |-> 0, decay |-> 0, tokens |-> 0,
         score |-> 0, banned |-> FALSE, banAt |-> 0]
Idle == [ip |-> NoIP, at |-> 0]

Times == 0 .. MaxTime
GateTypeOK ==
  /\ now \in Times
  /\ table \in [SlotIds -> [ip : IPs \cup {NoIP}, last : Times, viol : Times,
                            decay : Times, tokens : 0 .. Cap, score : Nat,
                            banned : BOOLEAN, banAt : Times]]
  /\ pending \in [Threads -> [ip : IPs \cup {NoIP}, at : Times]]
  /\ out \in [ip : IPs \cup {NoIP}, ok : BOOLEAN]
  /\ first \in [IPs -> Times] /\ admits \in [IPs -> Nat] /\ bannedAt \in [IPs -> Times]
  /\ late \in [IPs -> BOOLEAN]

GateInit ==
  /\ now = 1
  /\ table = [i \in SlotIds |-> Free]
  /\ pending = [t \in Threads |-> Idle]
  /\ out = [ip |-> NoIP, ok |-> FALSE]
  /\ first = [ip \in IPs |-> 0] /\ admits = [ip \in IPs |-> 0]
  /\ bannedAt = [ip \in IPs |-> 0] /\ late = [ip \in IPs |-> FALSE]

-----------------------------------------------------------------------------
(* The table. *)

Holding(ip) == {i \in SlotIds : table[i].ip = ip}

(* The first free slot, else the slot refilled longest ago before `at',    *)
(* else the first slot.                                                    *)
TargetSlot(at) ==
  LET free == Holding(NoIP)
      older == {i \in SlotIds : table[i].last < at}
      oldest == {i \in older : \A j \in older : table[i].last <= table[j].last}
  IN  CASE free # {} -> Min(free)
        [] free = {} /\ older # {} -> Min(oldest)
        [] OTHER -> 1

(* A new address: a full bucket, of which this request spends one token.   *)
Inserted(ip, at) ==
  [Free EXCEPT !.ip = ip, !.last = at, !.decay = at, !.tokens = Cap - Milli]

BanExpired(e, at) == Since(at, e.banAt) > BanNs

(* Mutant: a ban that ran out leaves the score as it was. *)
UnbannedSameScore(e, at) ==
  IF e.banned /\ BanExpired(e, at) THEN [e EXCEPT !.banned = FALSE] ELSE e

Unbanned(e, at) ==
  IF e.banned /\ BanExpired(e, at)
  THEN [e EXCEPT !.banned = FALSE, !.score = @ \div 2]
  ELSE e

(* Mutant: the ban is looked at only once the bucket is empty. *)
BlockedNever(e, at) == FALSE

Blocked(e, at) == e.banned /\ ~BanExpired(e, at)

Refilled(e, at) ==
  [e EXCEPT !.tokens = Refill(@, e.last, at, RateLimit, WindowMs, Cap), !.last = at]

Admitted(e, at) ==
  LET decays == e.score > 0 /\ Since(at, e.decay) >= WindowNs
      lower == IF e.score > ScoreDecay THEN e.score - ScoreDecay ELSE 0
  IN  [e EXCEPT !.tokens = @ - Milli,
                !.score = IF decays THEN lower ELSE @,
                !.decay = IF decays THEN at ELSE @]

(* Mutant: every denied request is a violation of its own. *)
DeniedEveryTime(e, at) ==
  LET score == e.score + ScoreIncrement
      bans == score >= BanThreshold
  IN  [e EXCEPT !.score = score, !.viol = at, !.banned = bans,
                !.banAt = IF bans THEN at ELSE @]

Denied(e, at) ==
  LET score == e.score + ScoreIncrement
      bans == score >= BanThreshold
  IN  IF Since(at, e.viol) >= WindowNs
      THEN [e EXCEPT !.score = score, !.viol = at, !.banned = bans,
                     !.banAt = IF bans THEN at ELSE @]
      ELSE e

-----------------------------------------------------------------------------
(* The clock runs; it stops at MaxTime, a bound of the model. *)
Tick ==
  /\ now < MaxTime
  /\ now' = now + 1
  /\ UNCHANGED <<table, pending, out, first, admits, bannedAt, late>>

(* orbit_kynx_check reads the clock before it takes the lock. *)
Begin(t, ip) ==
  /\ pending[t] = Idle
  /\ pending' = [pending EXCEPT ![t] = [ip |-> ip, at |-> now]]
  /\ UNCHANGED <<now, table, out, first, admits, bannedAt, late>>

CheckNew(t) ==
  LET ip == pending[t].ip
      at == pending[t].at
  IN  /\ ip # NoIP /\ Holding(ip) = {}
      /\ table' = [table EXCEPT ![TargetSlot(at)] = Inserted(ip, at)]
      /\ out' = [ip |-> ip, ok |-> TRUE]
      /\ first' = [first EXCEPT ![ip] = at]
      /\ admits' = [admits EXCEPT ![ip] = 1]
      /\ bannedAt' = [bannedAt EXCEPT ![ip] = 0]
      /\ late' = [late EXCEPT ![ip] = FALSE]
      /\ pending' = [pending EXCEPT ![t] = Idle]
      /\ UNCHANGED now

CheckKnown(t) ==
  LET ip == pending[t].ip
      at == pending[t].at
      slot == Min(Holding(ip))
      e == Refilled(Unbanned(table[slot], at), at)
      admit == e.tokens >= Milli
      after == IF admit THEN Admitted(e, at) ELSE Denied(e, at)
  IN  /\ ip # NoIP /\ Holding(ip) # {}
      /\ ~Blocked(table[slot], at)
      /\ table' = [table EXCEPT ![slot] = after]
      /\ out' = [ip |-> ip, ok |-> admit]
      /\ admits' = [admits EXCEPT ![ip] = IF admit THEN @ + 1 ELSE @]
      /\ bannedAt' = [bannedAt EXCEPT ![ip] = IF after.banned THEN at ELSE @]
      /\ late' = [late EXCEPT ![ip] = @ \/ at < table[slot].last]
      /\ pending' = [pending EXCEPT ![t] = Idle]
      /\ UNCHANGED <<now, first>>

CheckBanned(t) ==
  LET ip == pending[t].ip
  IN  /\ ip # NoIP /\ Holding(ip) # {}
      /\ Blocked(table[Min(Holding(ip))], pending[t].at)
      /\ out' = [ip |-> ip, ok |-> FALSE]
      /\ pending' = [pending EXCEPT ![t] = Idle]
      /\ UNCHANGED <<now, table, first, admits, bannedAt, late>>

Check(t) == CheckNew(t) \/ CheckKnown(t) \/ CheckBanned(t)

GateNext ==
  \/ Tick
  \/ \E t \in Threads : Check(t) \/ \E ip \in IPs : Begin(t, ip)

GateSpec == GateInit /\ [][GateNext]_gateVars

-----------------------------------------------------------------------------
(* Since it was inserted an address has been admitted no more often than   *)
(* its burst and the sustained rate allow, unless a thread that waited for *)
(* the lock set last_refill_ns back.                                       *)
RateBound ==
  \A ip \in IPs : Holding(ip) # {} /\ ~late[ip] =>
    admits[ip] * WindowNs <= Burst * WindowNs + (now - first[ip]) * RateLimit

(* A ban takes sustained abuse: as many violation windows, less one, as    *)
(* increments make up the threshold lie between the first request and it,  *)
(* unless a late thread's clock made the last violation look ages old.     *)
WindowsToBan == (BanThreshold + ScoreIncrement - 1) \div ScoreIncrement
BanIsSustained ==
  \A i \in SlotIds : table[i].banned /\ ~late[table[i].ip] =>
    table[i].banAt >= first[table[i].ip] + (WindowsToBan - 1) * WindowNs

(* "Reaching ban_threshold bans the IP for 5 minutes": who was banned and  *)
(* is still in the table is not admitted before the ban has run its time,  *)
(* unless a thread came late to the lock, to which the ban looks ages old. *)
BanHolds == out.ok /\ ~late[out.ip] => bannedAt[out.ip] = 0 \/ now > bannedAt[out.ip] + BanNs

(* A ban that has run its time leaves a score below the threshold, so the  *)
(* next request is judged anew and not by the old sentence; this holds for *)
(* late threads too.                                                       *)
UnbannedBelowThreshold ==
  \A i \in SlotIds : ~table[i].banned => table[i].score < BanThreshold

(* What holds of every entry whatever the clocks of the threads: types, no *)
(* bucket above its capacity, no unbanned entry at the threshold.          *)
AdmissionInv == GateTypeOK /\ UnbannedBelowThreshold
=============================================================================
