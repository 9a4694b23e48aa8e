------------------------------ MODULE Request ------------------------------
(***************************************************************************)
(* One worker taking requests through the generated router                 *)
(* (compiler/emit/route_runtime.orb, orbit_handle_request_full), with the  *)
(* lease of runtime/kynx.c that budgets the request and the boundary of    *)
(* runtime/arena_oom.c that answers it when an allocation is refused.      *)
(*                                                                         *)
(* Memory is counted in units.  An allocation is refused when the current  *)
(* lease has no room for it, or by the arena itself (its ceiling or the    *)
(* system), which may happen at any allocation.  The tier a new lease is   *)
(* cut for is open: the other workers' leases decide it, see KynxLeases.   *)
(***************************************************************************)
EXTENDS Naturals

CONSTANTS Budget,    \* arena_limit of a lease: [class -> units]
          MaxAsk,    \* bound: units a handler asks for
          MaxTaken   \* bound: leases taken over the worker's life

(* What a lease is cut for.  A search request in SIEGE is rejected, yet    *)
(* gets the budgets of "/search" afterwards.                               *)
Classes == {"standard", "guarded", "critical", "search", "siege", "siegeSearch"}

ASSUME RequestAssumption ==
  /\ Budget \in [Classes -> Nat] /\ Budget["siege"] = 0
  /\ MaxAsk \in Nat /\ MaxTaken \in Nat

VARIABLES
  pc,      \* the call the worker is in
  armed,   \* orbit_request_oom_armed
  lease,   \* current_lease: NoLease or [class, used]
  active,  \* this worker's share of orbit_kynx_active_leases
  lost,    \* history: leases counted in active that nobody holds
  taken,   \* history: leases counted so far
  refuser, \* history: who refused this request memory: "none", "lease", "arena"
  reply,   \* history: what was sent for this request, in order: 0, 1 or 2 answers
  status   \* the response built last

vars == <<pc, armed, lease, active, lost, taken, refuser, reply, status>>

NoLease == [class |-> "none", used |-> 0]
Rejected(l) == l.class \in {"siege", "siegeSearch"}
Statuses == {"none", "4xx", "429", "siege", "route", "500", "limit", "unsent", "refused", "full"}

TypeOK ==
  /\ pc \in {"top", "parse", "gate", "create", "siege", "handler", "send", "release",
             "disarm", "boundary", "answer", "sendBoundary", "left", "exit"}
  /\ armed \in BOOLEAN
  /\ lease \in {NoLease} \cup [class : Classes, used : 0 .. MaxAsk + 1]
  /\ (lease # NoLease => lease.used <= Budget[lease.class])
  /\ active \in 0 .. MaxTaken /\ lost \in 0 .. MaxTaken /\ taken \in 0 .. MaxTaken
  /\ refuser \in {"none", "lease", "arena"}
  /\ reply \in 0 .. 2 /\ status \in Statuses

Init ==
  /\ pc = "top" /\ armed = FALSE /\ lease = NoLease
  /\ active = 0 /\ lost = 0 /\ taken = 0
  /\ refuser = "none" /\ reply = 0 /\ status = "none"

-----------------------------------------------------------------------------
(* orbit_alloc, as far as a request sees it. *)

HasRoom(n) == lease # NoLease => lease.used + n <= Budget[lease.class]

Charged(n) == IF lease = NoLease THEN NoLease ELSE [lease EXCEPT !.used = @ + n]

(* orbit_request_oom_handler: back to the boundary while it is armed, else *)
(* orbit_oom_abort_default ends the process.                               *)
RefusedBy(who) ==
  /\ refuser' = who
  /\ pc' = IF armed THEN "boundary" ELSE "exit"
  /\ armed' = FALSE

(* Some allocation of n units in this call is refused. *)
Refuse(n) ==
  /\ RefusedBy(IF HasRoom(n) THEN "arena" ELSE "lease")
  /\ UNCHANGED <<lease, active, lost, taken, reply, status>>

(* A response of one unit is built. *)
Build(s) ==
  /\ HasRoom(1)
  /\ lease' = Charged(1)
  /\ status' = s

-----------------------------------------------------------------------------
(* The request loop arms the boundary for one request, in a fresh arena. *)
Start ==
  /\ pc = "top"
  /\ pc' = "parse" /\ armed' = TRUE
  /\ refuser' = "none" /\ reply' = 0 /\ status' = "none"
  /\ UNCHANGED <<lease, active, lost, taken>>

(* The request is not complete: wait for more bytes. *)
ParsePartial ==
  /\ pc = "parse"
  /\ pc' = "disarm"
  /\ UNCHANGED <<armed, lease, active, lost, taken, refuser, reply, status>>

(* The request is refused on its head. *)
ParseError ==
  /\ pc = "parse"
  /\ Build("4xx")
  /\ pc' = "send"
  /\ UNCHANGED <<armed, active, lost, taken, refuser, reply>>

ParseComplete ==
  /\ pc = "parse"
  /\ pc' = "gate"
  /\ UNCHANGED <<armed, lease, active, lost, taken, refuser, reply, status>>

GateDeny ==
  /\ pc = "gate"
  /\ Build("429")
  /\ pc' = "send"
  /\ UNCHANGED <<armed, active, lost, taken, refuser, reply>>

GateAdmit ==
  /\ pc = "gate" /\ taken < MaxTaken
  /\ pc' = "create"
  /\ UNCHANGED <<armed, lease, active, lost, taken, refuser, reply, status>>

(* orbit_kynx_lease_create_for_route: counted first, then allocated. *)
CreateLease(class) ==
  /\ pc = "create"
  /\ active' = active + 1 /\ taken' = taken + 1
  /\ lease' = [class |-> class, used |-> 0]
  /\ pc' = IF Rejected(lease') THEN "siege" ELSE "handler"
  /\ UNCHANGED <<armed, lost, refuser, reply, status>>

(* The lease itself is refused its memory: it is counted and never held.   *)
CreateRefused ==
  /\ pc = "create"
  /\ active' = active + 1 /\ taken' = taken + 1 /\ lost' = lost + 1
  /\ RefusedBy("arena")
  /\ UNCHANGED <<lease, reply, status>>

SiegeReply ==
  /\ pc = "siege"
  /\ Build("siege")
  /\ pc' = "send"
  /\ UNCHANGED <<armed, active, lost, taken, refuser, reply>>

(* The route's handler, a built-in route or the 404: it allocates n units  *)
(* with the response; without one orbit_response_or_500 builds a 500.      *)
Handle(n) ==
  /\ pc = "handler"
  /\ HasRoom(n + 1)
  /\ lease' = Charged(n + 1)
  /\ status' \in {"route", "500"}
  /\ pc' = "send"
  /\ UNCHANGED <<armed, active, lost, taken, refuser, reply>>

(* orbit_send_response: a lease past its deadline or its response limit    *)
(* turns the answer into a 500.  The lease of a rejected route has its     *)
(* deadline at zero and is always past it, unless it is "/search".         *)
Send ==
  /\ pc = "send"
  /\ reply' = reply + 1
  /\ \/ lease = NoLease /\ UNCHANGED status
     \/ lease # NoLease /\ lease.class # "siege" /\ UNCHANGED status
     \/ lease # NoLease /\ status' = "limit"
  /\ pc' = "release"
  /\ UNCHANGED <<armed, lease, active, lost, taken, refuser>>

(* A route's response has headers too long for the buffer on the stack,    *)
(* and malloc has no other: nothing is sent, and nobody is told.           *)
SendNothing ==
  /\ pc = "send" /\ status = "route"
  /\ status' = "unsent"
  /\ pc' = "release"
  /\ UNCHANGED <<armed, lease, active, lost, taken, refuser, reply>>

(* Mutant: a log line is put together in the arena after the answer went   *)
(* out, and may be refused.                                                *)
ReleaseAllocates ==
  /\ pc = "release"
  /\ RefusedBy("arena")
  /\ UNCHANGED <<lease, active, lost, taken, reply, status>>

(* orbit_kynx_lease_destroy, if there is a lease. *)
Release ==
  /\ pc = "release"
  /\ active' = IF lease = NoLease THEN active ELSE active - 1
  /\ lease' = NoLease
  /\ pc' = "disarm"
  /\ UNCHANGED <<armed, lost, taken, refuser, reply, status>>

(* A request that was not complete consumes nothing and ends the loop. *)
Disarm ==
  /\ pc = "disarm"
  /\ armed' = FALSE
  /\ pc' = IF status = "none" THEN "left" ELSE "top"
  /\ UNCHANGED <<lease, active, lost, taken, refuser, reply, status>>

(* Mutant: the lease is kept while the answer is built. *)
BoundaryKeepsLease ==
  /\ pc = "boundary"
  /\ pc' = "answer"
  /\ UNCHANGED <<armed, lease, active, lost, taken, refuser, reply, status>>

(* setjmp returned again: the lease is abandoned before anything is built. *)
Boundary ==
  /\ pc = "boundary"
  /\ active' = IF lease = NoLease THEN active ELSE active - 1
  /\ lease' = NoLease
  /\ pc' = "answer"
  /\ UNCHANGED <<armed, lost, taken, refuser, reply, status>>

Answer ==
  /\ pc = "answer"
  /\ Build("refused")
  /\ pc' = "sendBoundary"
  /\ UNCHANGED <<armed, active, lost, taken, refuser, reply>>

(* The 503 goes out, the loop is left and the connection will be closed. *)
SendBoundary ==
  /\ pc = "sendBoundary"
  /\ reply' = reply + 1
  /\ pc' = "left"
  /\ UNCHANGED <<armed, lease, active, lost, taken, refuser, status>>

(* The loop was left with the request still in the receive buffer, which   *)
(* has room for more.                                                      *)
LoopLeft ==
  /\ pc = "left"
  /\ pc' = "top"
  /\ UNCHANGED <<armed, lease, active, lost, taken, refuser, reply, status>>

(* It has none: answered in a fresh arena, outside any boundary. *)
BufferFull ==
  /\ pc = "left"
  /\ Build("full")
  /\ reply' = reply + 1
  /\ pc' = "top"
  /\ UNCHANGED <<armed, active, lost, taken, refuser>>

(* Every call in which an allocation can be refused, with what it asks for *)
(* at once; the lease's own is CreateRefused.                              *)
Refusal ==
  \/ pc \in {"parse", "gate", "siege", "answer", "left"} /\ Refuse(1)
  \/ pc = "handler" /\ \E n \in 1 .. MaxAsk + 1 : Refuse(n)

Next ==
  \/ Start \/ ParsePartial \/ ParseError \/ ParseComplete
  \/ GateDeny \/ GateAdmit
  \/ (\E class \in Classes : CreateLease(class)) \/ CreateRefused
  \/ SiegeReply \/ (\E n \in 0 .. MaxAsk : Handle(n))
  \/ Send \/ SendNothing \/ Release \/ Disarm
  \/ Boundary \/ Answer \/ SendBoundary
  \/ LoopLeft \/ BufferFull \/ Refusal

Spec == Init /\ [][Next]_vars

-----------------------------------------------------------------------------
(* Whoever comes back to the top of the loop with a request that was       *)
(* complete has answered it, and it had one answer only: a refusal in the  *)
(* middle neither swallows the answer nor adds a second one.  The two      *)
(* exceptions are a refused request that fills the receive buffer, and a   *)
(* response whose long headers malloc has no room for.                     *)
OneAnswer ==
  /\ pc \in {"release", "top"} /\ status \notin {"none", "unsent"} => reply >= 1
  /\ reply = 2 => refuser # "none" /\ status = "full"

(* Between requests, when the arena is about to be reset, no lease points  *)
(* into it, and all the leases still counted are ones that were never      *)
(* handed out.                                                             *)
NoLeaseAcrossReset == pc \in {"top", "left"} => lease = NoLease /\ active = lost

(* "Exceeding it is answered rather than fatal": the process only ends     *)
(* when the arena itself has nothing left, never on the word of a lease.   *)
BudgetNeverFatal == pc = "exit" => refuser = "arena"

(***************************************************************************)
(* The inductive invariant.  Where the worker is decides whether it holds  *)
(* a lease, whether the boundary is armed and whether it has answered; the *)
(* counter is the leases lost and the one held.                            *)
(***************************************************************************)
Before == {"parse", "gate", "create", "siege", "handler", "send"}
Recovery == {"boundary", "answer", "sendBoundary"}

LeaseByPlace ==
  /\ pc \in {"top", "parse", "gate", "create", "answer", "sendBoundary", "disarm", "left"}
       => lease = NoLease
  /\ pc \in {"siege", "handler"} => lease # NoLease /\ lease.used = 0
ArmedByPlace ==
  /\ pc \in Before \cup {"release", "disarm"} => armed
  /\ pc \in Recovery \cup {"top", "left", "exit"} => ~armed
AnswerByPlace ==
  /\ pc = "parse" => status = "none"
  /\ pc \in {"send", "sendBoundary"} => status \notin {"none", "unsent"}
  /\ pc = "release" => status # "none"
  /\ pc \in Before \cup Recovery => reply = 0
  /\ pc \in Recovery => refuser # "none"
  /\ pc = "release" => reply = IF status = "unsent" THEN 0 ELSE 1
  /\ pc = "disarm" => reply = IF status \in {"none", "unsent"} THEN 0 ELSE 1
  /\ pc = "left" => IF status = "none" THEN reply = 0 ELSE reply = 1 /\ refuser # "none"
CountedLeases ==
  /\ active = IF lease = NoLease THEN lost ELSE lost + 1
  /\ active <= taken
  /\ pc = "create" => taken < MaxTaken

RequestInv ==
  /\ TypeOK
  /\ LeaseByPlace /\ ArmedByPlace /\ AnswerByPlace /\ CountedLeases
  /\ OneAnswer /\ BudgetNeverFatal
=============================================================================
