---------------------------- MODULE AcceptQueue ----------------------------
(***************************************************************************)
(* The lock-free single-producer/single-consumer ring through which the    *)
(* acceptor thread hands sockets to one worker (runtime/thread_pool.c,     *)
(* OrbitAcceptQueue).  Each shared access is a step of its own, so the     *)
(* acceptor and the worker interleave between the load of the other side's *)
(* index, the access to the slot and the publication of their own index.   *)
(***************************************************************************)
EXTENDS Naturals, Sequences

CONSTANTS Socks,  \* the sockets the acceptor may push
          NoSock, \* the contents of a slot nothing was ever stored in
          Cap     \* ORBIT_ACCEPT_Q_CAP: number of slots of the ring

ASSUME CapAssumption == Cap \in Nat \ {0, 1}
ASSUME NoSockAssumption == NoSock \notin Socks

VARIABLES slots,     \* OrbitAcceptQueue.slots
          head,      \* OrbitAcceptQueue.head, written by the worker only
          tail,      \* OrbitAcceptQueue.tail, written by the acceptor only
          pushPc,    \* where the acceptor is in orbit_accept_q_push
          pushSock,  \* its argument s
          popPc,     \* where the worker is in orbit_accept_q_pop
          popOut,    \* *out of the last or current pop
          refused,   \* the last push returned 0
          drained    \* the last pop returned 0

vars == <<slots, head, tail, pushPc, pushSock, popPc, popOut, refused, drained>>

Idx == 0 .. Cap - 1

(* Index after i in the ring. *)
NextIndex(i) == (i + 1) % Cap

Init ==
  /\ slots = [i \in Idx |-> NoSock]
  /\ head = 0
  /\ tail = 0
  /\ pushPc = "idle"
  /\ pushSock = NoSock
  /\ popPc = "idle"
  /\ popOut = NoSock
  /\ refused = FALSE
  /\ drained = FALSE

-----------------------------------------------------------------------------
(* orbit_accept_q_push, called by the acceptor only. *)

(* Mutant: the full check compares the wrong index and never refuses. *)
PushCheckNeverFull(s) ==
  /\ pushPc = "idle"
  /\ pushPc' = "fill"
  /\ pushSock' = s
  /\ UNCHANGED <<slots, head, tail, popPc, popOut, refused, drained>>

(* Line 107: load head; a ring with one free slot left is full. *)
PushCheck(s) ==
  /\ pushPc = "idle"
  /\ IF NextIndex(tail) = head
       THEN /\ refused' = TRUE
            /\ UNCHANGED <<pushPc, pushSock>>
       ELSE /\ pushPc' = "fill"
            /\ pushSock' = s
            /\ UNCHANGED refused
  /\ UNCHANGED <<slots, head, tail, popPc, popOut, drained>>

PushFill ==
  /\ pushPc = "fill"
  /\ slots' = [slots EXCEPT ![tail] = pushSock]
  /\ pushPc' = "publish"
  /\ UNCHANGED <<head, tail, pushSock, popPc, popOut, refused, drained>>

PushPublish ==
  /\ pushPc = "publish"
  /\ tail' = NextIndex(tail)
  /\ pushPc' = "idle"
  /\ refused' = FALSE
  /\ UNCHANGED <<slots, head, pushSock, popPc, popOut, drained>>

(* orbit_accept_q_pop, called by the owning worker only. *)

(* Mutant: a pop does not check for an empty ring. *)
PopCheckNeverEmpty ==
  /\ popPc = "idle"
  /\ popPc' = "take"
  /\ UNCHANGED <<slots, head, tail, pushPc, pushSock, popOut, refused, drained>>

PopCheck ==
  /\ popPc = "idle"
  /\ IF head = tail
       THEN drained' = TRUE /\ UNCHANGED popPc
       ELSE popPc' = "take" /\ UNCHANGED drained
  /\ UNCHANGED <<slots, head, tail, pushPc, pushSock, popOut, refused>>

PopTake ==
  /\ popPc = "take"
  /\ popOut' = slots[head]
  /\ popPc' = "release"
  /\ UNCHANGED <<slots, head, tail, pushPc, pushSock, refused, drained>>

PopRelease ==
  /\ popPc = "release"
  /\ head' = NextIndex(head)
  /\ popPc' = "idle"
  /\ drained' = FALSE
  /\ UNCHANGED <<slots, tail, pushPc, pushSock, popOut, refused>>

Producer == (\E s \in Socks : PushCheck(s)) \/ PushFill \/ PushPublish
Consumer == PopCheck \/ PopTake \/ PopRelease

Next == Producer \/ Consumer

Spec == Init /\ [][Next]_vars

-----------------------------------------------------------------------------
TypeOK ==
  /\ slots \in [Idx -> Socks \cup {NoSock}]
  /\ head \in Idx
  /\ tail \in Idx
  /\ pushPc \in {"idle", "fill", "publish"}
  /\ pushSock \in Socks \cup {NoSock}
  /\ popPc \in {"idle", "take", "release"}
  /\ popOut \in Socks \cup {NoSock}
  /\ refused \in BOOLEAN
  /\ drained \in BOOLEAN

(* Sockets published and not yet released, and the index of the i-th. *)
Size == IF head <= tail THEN tail - head ELSE (Cap - head) + tail
Place(i) == IF head + i - 1 < Cap THEN head + i - 1 ELSE head + i - 1 - Cap
Contents == [i \in 1 .. Size |-> slots[Place(i)]]

(***************************************************************************)
(* A slot is never written while the worker may be reading it: the slot    *)
(* the acceptor fills is outside the published ones, although the worker   *)
(* moves head at any time between the acceptor's check and its store.      *)
(***************************************************************************)
NoSlotRace ==
  (pushPc \in {"fill", "publish"} /\ popPc = "take") => head # tail

(***************************************************************************)
(* Every published slot, and the socket a pop has taken, is a socket some  *)
(* push stored there: the worker never adopts an empty or stale slot.      *)
(***************************************************************************)
NoGarbage ==
  /\ \A i \in 1 .. Size : slots[Place(i)] \in Socks
  /\ popPc = "release" => popOut = slots[head] /\ popOut \in Socks

(***************************************************************************)
(* The inductive invariant: what each side may rely on between its check   *)
(* and its publication, whatever the other side does meanwhile.  A full    *)
(* check that passed stays passed because only the worker moves head and   *)
(* it only moves it away; a non-empty check stays passed likewise.         *)
(***************************************************************************)
RingInv ==
  /\ TypeOK
  /\ NoGarbage
  /\ pushPc # "idle" => NextIndex(tail) # head /\ pushSock \in Socks
  /\ pushPc = "publish" => slots[tail] = pushSock
  /\ popPc # "idle" => head # tail

(***************************************************************************)
(* The ring implements a FIFO of capacity Cap - 1: a push takes effect     *)
(* when tail is published and a pop when head is released, and 0 is only   *)
(* returned by a push on a full ring or by a pop on an empty one.          *)
(***************************************************************************)
Fifo == INSTANCE BoundedFIFO WITH queue <- Contents, Bound <- Cap - 1

ImplementsFifo == Fifo!FifoSpec
=============================================================================
