------------------------- MODULE AcceptQueue_proof -------------------------
(***************************************************************************)
(* Proofs about the accept ring, for every set of sockets and every        *)
(* capacity of at least two slots.                                         *)
(***************************************************************************)
EXTENDS AcceptQueue, TLAPS

(* One step round the ring, without the modulo. *)
LEMMA NextIndexValue ==
  ASSUME NEW i \in Idx
  PROVE  NextIndex(i) = IF i = Cap - 1 THEN 0 ELSE i + 1
  <1>1. CASE i = Cap - 1
    <2>1. i + 1 = Cap BY <1>1, CapAssumption
    <2>2. Cap % Cap = 0 BY CapAssumption
    <2> QED BY <1>1, <2>1, <2>2 DEF NextIndex
  <1>2. CASE i # Cap - 1
    <2>1. i + 1 \in 0 .. Cap - 1 BY <1>2, CapAssumption DEF Idx
    <2>2. ASSUME NEW k \in 0 .. Cap - 1 PROVE k % Cap = k
      BY <2>2, CapAssumption
    <2> QED BY <1>2, <2>1, <2>2 DEF NextIndex
  <1> QED BY <1>1, <1>2

(* The next index is an index. *)
LEMMA NextIndexIdx == \A i \in Idx : NextIndex(i) \in Idx
  BY NextIndexValue, CapAssumption DEF Idx

(* The empty ring. *)
LEMMA InitRing == Init => RingInv
  <1> SUFFICES ASSUME Init PROVE RingInv
    OBVIOUS
  <1>0. 0 \in Idx
    BY CapAssumption DEF Idx
  <1>1. TypeOK
    BY <1>0 DEF Init, TypeOK
  <1>2. Size = 0
    BY DEF Init, Size
  <1>3. NoGarbage
    BY <1>2 DEF Init, NoGarbage
  <1> QED BY <1>1, <1>3 DEF Init, RingInv

(* Each shared access of a push and of a pop keeps the invariant. *)
LEMMA StepRing == RingInv /\ [Next]_vars => RingInv'
  <1> SUFFICES ASSUME RingInv, [Next]_vars PROVE RingInv'
    OBVIOUS
  <1> USE CapAssumption, NoSockAssumption
  <1>1. ASSUME NEW s \in Socks, PushCheck(s) PROVE RingInv'
    BY <1>1 DEF PushCheck, RingInv, TypeOK, NoGarbage, Size, Place
  <1>2. CASE PushFill
    <2>1. /\ slots \in [Idx -> Socks \cup {NoSock}]
          /\ head \in Idx /\ tail \in Idx /\ pushSock \in Socks
          /\ slots' = [slots EXCEPT ![tail] = pushSock]
          /\ UNCHANGED <<head, tail, pushSock, popPc, popOut, refused, drained>>
          /\ pushPc' = "publish"
      BY <1>2 DEF PushFill, RingInv, TypeOK
    <2>2. \A i \in 1 .. Size : Place(i) \in Idx /\ Place(i) # tail
      BY <2>1 DEF Size, Place, Idx
    <2>3. Size' = Size /\ \A i \in 1 .. Size : Place(i)' = Place(i)
      BY <2>1 DEF Size, Place
    <2>4. NoGarbage'
      BY <2>1, <2>2, <2>3 DEF NoGarbage, RingInv
    <2> QED BY <2>1, <2>4, <1>2 DEF RingInv, TypeOK, PushFill
  <1>3. CASE PushPublish
    <2>1. /\ head \in Idx /\ tail \in Idx /\ pushSock \in Socks
          /\ slots[tail] = pushSock /\ NextIndex(tail) # head
          /\ tail' = NextIndex(tail) /\ NextIndex(tail) \in Idx
          /\ UNCHANGED <<slots, head, pushSock, popPc, popOut, drained>>
          /\ pushPc' = "idle" /\ refused' = FALSE
      BY <1>3, NextIndexIdx DEF PushPublish, RingInv, TypeOK
    <2>2. NextIndex(tail) = IF tail = Cap - 1 THEN 0 ELSE tail + 1
      BY <2>1, NextIndexValue
    <2>3. Size' = Size + 1 /\ Size \in Nat
      BY <2>1, <2>2 DEF Size, Idx
    <2>4. Place(Size + 1) = tail /\ \A i \in 1 .. Size' : Place(i)' = Place(i)
      BY <2>1, <2>2 DEF Size, Idx, Place
    <2>5. \A i \in 1 .. Size' : slots[Place(i)] \in Socks
      BY <2>1, <2>3, <2>4 DEF RingInv, NoGarbage
    <2>6. NoGarbage'
      BY <2>1, <2>4, <2>5 DEF RingInv, NoGarbage
    <2> QED BY <2>1, <2>2, <2>6 DEF RingInv, TypeOK
  <1>4. CASE PopCheck
    BY <1>4 DEF PopCheck, RingInv, TypeOK, NoGarbage, Size, Place
  <1>5. CASE PopTake
    <2>1. /\ head \in Idx /\ tail \in Idx /\ head # tail /\ popOut' = slots[head]
          /\ popPc' = "release"
          /\ UNCHANGED <<slots, head, tail, pushPc, pushSock, refused, drained>>
      BY <1>5 DEF PopTake, RingInv, TypeOK
    <2>2. 1 \in 1 .. Size /\ Place(1) = head
      BY <2>1 DEF Size, Place, Idx
    <2>3. slots[head] \in Socks
      BY <2>2 DEF RingInv, NoGarbage
    <2>4. Size' = Size /\ \A i \in 1 .. Size : Place(i)' = Place(i)
      BY <2>1 DEF Size, Place
    <2>5. NoGarbage'
      BY <2>1, <2>3, <2>4 DEF RingInv, NoGarbage
    <2> QED BY <2>1, <2>3, <2>5 DEF RingInv, TypeOK
  <1>6. CASE PopRelease
    <2>1. /\ head \in Idx /\ tail \in Idx /\ head # tail
          /\ head' = NextIndex(head) /\ NextIndex(head) \in Idx
          /\ popPc' = "idle" /\ drained' = FALSE
          /\ UNCHANGED <<slots, tail, pushPc, pushSock, popOut, refused>>
      BY <1>6, NextIndexIdx DEF PopRelease, RingInv, TypeOK
    <2>2. NextIndex(head) = IF head = Cap - 1 THEN 0 ELSE head + 1
      BY <2>1, NextIndexValue
    <2>3. Size' = Size - 1 /\ Size \in Nat
      BY <2>1, <2>2 DEF Size, Idx
    <2>4. \A i \in 1 .. Size' : i + 1 \in 1 .. Size /\ Place(i)' = Place(i + 1)
      BY <2>1, <2>2 DEF Size, Place, Idx
    <2>5. NoGarbage'
      BY <2>1, <2>4 DEF RingInv, NoGarbage
    <2>6. pushPc # "idle" => NextIndex(tail) # head'
      BY <2>1, <2>2, NextIndexValue DEF Idx
    <2> QED BY <2>1, <2>5, <2>6 DEF RingInv, TypeOK
  <1>7. CASE UNCHANGED vars
    BY <1>7 DEF vars, RingInv, TypeOK, NoGarbage, Size, Place
  <1> QED
    BY <1>1, <1>2, <1>3, <1>4, <1>5, <1>6, <1>7 DEF Next, Producer, Consumer

(***************************************************************************)
(* Every reachable state of the ring satisfies its inductive invariant.    *)
(***************************************************************************)
THEOREM RingInvariant == Spec => []RingInv
  BY InitRing, StepRing, PTL DEF Spec

(***************************************************************************)
(* The acceptor never writes a slot the worker is reading                  *)
(* (orbit_accept_q_push against orbit_accept_q_pop, line by line).         *)
(***************************************************************************)
THEOREM SlotsNeverRace == Spec => []NoSlotRace
  <1>1. RingInv => NoSlotRace
    BY DEF RingInv, NoSlotRace
  <1> QED BY <1>1, RingInvariant, PTL

-----------------------------------------------------------------------------
(* The size of the ring, and the value and type of its contents. *)
LEMMA ContentsType ==
  ASSUME RingInv
  PROVE  /\ Size \in 0 .. Cap - 1
         /\ Contents \in Seq(Socks) /\ Len(Contents) = Size
         /\ \A i \in 1 .. Size : Contents[i] = slots[Place(i)]
  <1>1. Size \in 0 .. Cap - 1
    BY CapAssumption DEF RingInv, TypeOK, Size, Idx
  <1>2. \A i \in 1 .. Size : slots[Place(i)] \in Socks
    BY DEF RingInv, NoGarbage
  <1> QED BY <1>1, <1>2, CapAssumption DEF Contents

(* The empty ring is the empty FIFO. *)
LEMMA InitFifo == Init => Fifo!FifoInit
  <1> SUFFICES ASSUME Init PROVE Fifo!FifoInit
    OBVIOUS
  <1>1. Size = 0 BY DEF Init, Size
  <1>2. Contents = <<>> BY <1>1 DEF Contents
  <1> QED BY <1>2 DEF Init, Fifo!FifoInit

(* Publishing and releasing are the steps of the FIFO; the others are      *)
(* invisible.                                                              *)
LEMMA StepFifo ==
  RingInv /\ RingInv' /\ [Next]_vars => [Fifo!FifoNext]_Fifo!FifoVars
  <1> SUFFICES ASSUME RingInv, RingInv', [Next]_vars
               PROVE  [Fifo!FifoNext]_Fifo!FifoVars
    OBVIOUS
  <1> USE CapAssumption
  <1> DEFINE Same == Contents' = Contents
  <1>0. ASSUME UNCHANGED <<slots, head, tail>> PROVE Same
    BY <1>0 DEF Contents, Size, Place
  <1>1. ASSUME NEW s \in Socks, PushCheck(s)
        PROVE  Fifo!Refuse \/ UNCHANGED Fifo!FifoVars
    <2>1. Same BY <1>0, <1>1 DEF PushCheck
    <2>2. CASE NextIndex(tail) = head
      <3>1. Size = Cap - 1
        BY <2>2, NextIndexValue DEF RingInv, TypeOK, Size, Idx
      <3> QED BY <1>1, <2>1, <2>2, <3>1, ContentsType DEF PushCheck, Fifo!Refuse
    <2>3. CASE NextIndex(tail) # head
      BY <1>1, <2>1, <2>3 DEF PushCheck, Fifo!FifoVars
    <2> QED BY <2>2, <2>3
  <1>2. CASE PushFill
    <2>1. /\ head \in Idx /\ tail \in Idx /\ slots \in [Idx -> Socks \cup {NoSock}]
          /\ slots' = [slots EXCEPT ![tail] = pushSock] /\ UNCHANGED <<head, tail>>
      BY <1>2 DEF PushFill, RingInv, TypeOK
    <2>2. \A i \in 1 .. Size : Place(i) \in Idx /\ Place(i) # tail
      BY <2>1 DEF Size, Place, Idx
    <2>3. Size' = Size /\ \A i \in 1 .. Size : Place(i)' = Place(i)
      BY <2>1 DEF Size, Place
    <2>4. \A i \in 1 .. Size : slots'[Place(i)'] = slots[Place(i)]
      BY <2>1, <2>2, <2>3
    <2>5. Same BY <2>3, <2>4 DEF Contents
    <2> QED BY <1>2, <2>5 DEF PushFill, Fifo!FifoVars
  <1>3. CASE PushPublish
    <2>1. /\ head \in Idx /\ tail \in Idx /\ pushSock \in Socks
          /\ slots[tail] = pushSock /\ NextIndex(tail) # head
          /\ tail' = NextIndex(tail) /\ UNCHANGED <<slots, head, drained>>
          /\ refused' = FALSE
      BY <1>3 DEF PushPublish, RingInv, TypeOK
    <2>2. NextIndex(tail) = IF tail = Cap - 1 THEN 0 ELSE tail + 1
      BY <2>1, NextIndexValue
    <2>3. Size' = Size + 1 /\ Size \in Nat /\ Size < Cap - 1
      BY <2>1, <2>2 DEF Size, Idx
    <2>4. Place(Size + 1) = tail /\ \A i \in 1 .. Size' : Place(i)' = Place(i)
      BY <2>1, <2>2 DEF Size, Idx, Place
    <2>5. \A i \in 1 .. Size' : Contents'[i] = IF i = Size + 1 THEN pushSock ELSE Contents[i]
      BY <2>1, <2>3, <2>4 DEF Contents
    <2>6. /\ Contents \in Seq(Socks) /\ Len(Contents) = Size
          /\ Contents' \in Seq(Socks) /\ Len(Contents') = Size'
      BY ContentsType, <2>3 DEF Contents, RingInv, NoGarbage
    <2>7. Contents' = Append(Contents, pushSock)
      BY <2>1, <2>3, <2>5, <2>6
    <2> QED BY <2>1, <2>3, <2>6, <2>7 DEF Fifo!FifoNext, Fifo!Push
  <1>4. CASE PopCheck
    <2>1. Same BY <1>0, <1>4 DEF PopCheck
    <2>2. CASE head = tail
      <3>1. Size = 0 BY <2>2 DEF Size, RingInv, TypeOK, Idx
      <3>2. Contents = <<>> BY <3>1 DEF Contents
      <3> QED BY <1>4, <2>1, <2>2, <3>2 DEF PopCheck, Fifo!FifoNext, Fifo!FindEmpty
    <2>3. CASE head # tail
      BY <1>4, <2>1, <2>3 DEF PopCheck, Fifo!FifoVars
    <2> QED BY <2>2, <2>3
  <1>5. CASE PopTake
    <2>1. Same BY <1>0, <1>5 DEF PopTake
    <2> QED BY <1>5, <2>1 DEF PopTake, Fifo!FifoVars
  <1>6. CASE PopRelease
    <2>1. /\ head \in Idx /\ tail \in Idx /\ head # tail
          /\ head' = NextIndex(head) /\ UNCHANGED <<slots, tail, refused>>
          /\ drained' = FALSE
      BY <1>6 DEF PopRelease, RingInv, TypeOK
    <2>2. NextIndex(head) = IF head = Cap - 1 THEN 0 ELSE head + 1
      BY <2>1, NextIndexValue
    <2>3. Size' = Size - 1 /\ Size \in Nat \ {0}
      BY <2>1, <2>2 DEF Size, Idx
    <2>4. \A i \in 1 .. Size' : i + 1 \in 1 .. Size /\ Place(i)' = Place(i + 1)
      BY <2>1, <2>2 DEF Size, Place, Idx
    <2>5. \A i \in 1 .. Size' : Contents'[i] = Contents[i + 1]
      BY <2>1, <2>4 DEF Contents
    <2>6. /\ Contents \in Seq(Socks) /\ Len(Contents) = Size
          /\ Contents' \in Seq(Socks) /\ Len(Contents') = Size'
      BY ContentsType, <2>3 DEF Contents, RingInv, NoGarbage
    <2>7. Contents # <<>> /\ Contents' = Tail(Contents)
      BY <2>3, <2>5, <2>6
    <2> QED BY <2>1, <2>7 DEF Fifo!FifoNext, Fifo!Pop
  <1>7. CASE UNCHANGED vars
    BY <1>0, <1>7 DEF vars, Fifo!FifoVars
  <1> QED
    BY <1>1, <1>2, <1>3, <1>4, <1>5, <1>6, <1>7
       DEF Next, Producer, Consumer, Fifo!FifoNext

(***************************************************************************)
(* The ring implements a FIFO of Cap - 1 sockets: nothing the acceptor     *)
(* pushed is lost, duplicated or reordered on its way to the worker.       *)
(***************************************************************************)
THEOREM RingImplementsFifo == Spec => ImplementsFifo
  <1>1. Spec => Fifo!FifoInit /\ [][Fifo!FifoNext]_Fifo!FifoVars
    BY InitFifo, StepFifo, RingInvariant, PTL DEF Spec
  <1> QED BY <1>1 DEF ImplementsFifo, Fifo!FifoSpec
=============================================================================
