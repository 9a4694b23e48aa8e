----------------------------- MODULE KynxRoute -----------------------------
(***************************************************************************)
(* The per-route gate (runtime/kynx.c, orbit_kynx_check_route) for one     *)
(* address on one route annotated `limit Rate/Win burst GivenBurst'.  The  *)
(* other pairs of the shard appear as their insertions, which may take the *)
(* slot of this one; the global gate that follows an admission is the one  *)
(* of KynxAdmission and its verdict is open here.                          *)
(***************************************************************************)
EXTENDS KynxBucket

CONSTANTS Rate, Win, GivenBurst  \* rate, window_ms and burst as registered

ASSUME RouteAssumption ==
  /\ Rate \in Nat \ {0} /\ Win \in Nat \ {0} /\ GivenBurst \in Nat

(* orbit_kynx_register_route_limit: an omitted burst is the rate. *)
RouteBurst == IF GivenBurst > 0 THEN GivenBurst ELSE Rate

VARIABLES
  used,     \* the pair has a bucket
  last,     \* last_refill_ns
  tokens,   \* tokens_milli
  readAt,   \* thread: the time its check has read, 0 when it is in none
  verdict,  \* of the last check: "admit", "global", "deny" or "none"
  retry     \* kynx_tls_retry_ms as the route gate leaves it

routeVars == <<now, used, last, tokens, readAt, verdict, retry>>

Larger(x, y) == IF x > y THEN x ELSE y

(* What kynx_route_refill clamps to; a new bucket starts at the burst. *)
RouteCap == Rate * Milli

RouteTypeOK ==
  /\ now \in 1 .. MaxTime /\ used \in BOOLEAN
  /\ last \in 0 .. MaxTime /\ readAt \in [Threads -> 0 .. MaxTime]
  /\ tokens \in 0 .. Larger(Rate, RouteBurst) * Milli
  /\ verdict \in {"admit", "global", "deny", "none"}
  /\ retry \in 0 .. Win

RouteInit ==
  /\ now = 1 /\ used = FALSE /\ last = 0 /\ tokens = 0
  /\ readAt = [t \in Threads |-> 0] /\ verdict = "none" /\ retry = 0

RouteTick ==
  /\ now < MaxTime
  /\ now' = now + 1
  /\ UNCHANGED <<used, last, tokens, readAt, verdict, retry>>

(* The route is matched and the clock read before the shard's lock. *)
RouteBegin(t) ==
  /\ readAt[t] = 0
  /\ readAt' = [readAt EXCEPT ![t] = now]
  /\ UNCHANGED <<now, used, last, tokens, verdict, retry>>

(* The request passed the route gate: the global gate has the last word. *)
CheckGlobal == verdict' \in {"admit", "global"} /\ retry' = 0

CheckInsert(t) ==
  /\ readAt[t] > 0 /\ ~used
  /\ used' = TRUE /\ last' = readAt[t]
  /\ tokens' = (RouteBurst - 1) * Milli
  /\ CheckGlobal
  /\ readAt' = [readAt EXCEPT ![t] = 0]
  /\ UNCHANGED now

RefilledTo(t) == Refill(tokens, last, readAt[t], Rate, Win, RouteCap)

CheckSpend(t) ==
  /\ readAt[t] > 0 /\ used /\ RefilledTo(t) >= Milli
  /\ last' = readAt[t]
  /\ tokens' = RefilledTo(t) - Milli
  /\ CheckGlobal
  /\ readAt' = [readAt EXCEPT ![t] = 0]
  /\ UNCHANGED <<now, used>>

CheckDeny(t) ==
  /\ readAt[t] > 0 /\ used /\ RefilledTo(t) < Milli
  /\ last' = readAt[t]
  /\ tokens' = RefilledTo(t)
  /\ verdict' = "deny"
  /\ retry' = RetryMs(RefilledTo(t), Rate, Win)
  /\ readAt' = [readAt EXCEPT ![t] = 0]
  /\ UNCHANGED <<now, used>>

(* Another pair is inserted into the full shard and takes the slot of this *)
(* one: it is the oldest, or the first when none is older.                 *)
Evict ==
  /\ used
  /\ used' = FALSE /\ last' = 0 /\ tokens' = 0
  /\ verdict' = "none" /\ retry' = 0
  /\ UNCHANGED <<now, readAt>>

RouteNext ==
  \/ RouteTick \/ Evict
  \/ \E t \in Threads : RouteBegin(t) \/ CheckInsert(t) \/ CheckSpend(t) \/ CheckDeny(t)

RouteSpec == RouteInit /\ [][RouteNext]_routeVars

-----------------------------------------------------------------------------
(* The bucket holds a token, of which the last check left what is there,   *)
(* ms milliseconds after that check.                                       *)
TokenAfter(ms) ==
  Refill(tokens, last, last + ms * NsPerMs, Rate, Win, RouteCap) >= Milli

(* A denied client that waits one millisecond longer than it was told, and *)
(* is alone, finds a token: the advice of kynx_route_retry_ms is short by  *)
(* less than a millisecond.                                                *)
RetryWithinOneMs == verdict = "deny" => TokenAfter(retry + 1)

(* With it, that the bucket stays within the larger of burst and rate.     *)
RouteInv == RouteTypeOK /\ RetryWithinOneMs

(* A pair that was idle for a whole window is let through by the route     *)
(* gate: a window refills at least one token, however long the idle time.  *)
IdleWindowAdmits ==
  [][\A t \in Threads :
       used /\ readAt[t] >= last + Win * NsPerMs /\ readAt'[t] = 0 => verdict' # "deny"]_routeVars
=============================================================================
