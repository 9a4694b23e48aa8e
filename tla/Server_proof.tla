---------------------------- MODULE Server_proof ----------------------------
(***************************************************************************)
(* The sockets, receive buffers and peer strings of a server with any      *)
(* number of workers, connections, slots and ring places.                  *)
(***************************************************************************)
EXTENDS Server, Lemmas, SequenceTheorems

(* The acceptor has a socket while it dispatches it, and only then. *)
AcceptorHand ==
  /\ accPc = "dispatch" => accSock \in Conns
  /\ accPc # "dispatch" => accSock = NoConn /\ accK = 0

(* No two places have the same socket; slot sl[w] and ring q[w] of each    *)
(* worker, and the sockets that are elsewhere.                             *)
Elsewhere == backlog \cup closed \cup {accSock}
NotInBoth == backlog \cap closed = {} /\ accSock \notin backlog \cup closed
RingsApart(q) ==
  \A w, v \in Workers : \A i \in 1 .. Len(q[w]), j \in 1 .. Len(q[v]) :
    q[w][i] = q[v][j] => w = v /\ i = j
SlotsApart(sl) ==
  \A w, v \in Workers : \A i \in 1 .. Len(sl[w]), j \in 1 .. Len(sl[v]) :
    sl[w][i].sock = sl[v][j].sock => w = v /\ i = j
RingsOff(q, out) == \A w \in Workers : \A i \in 1 .. Len(q[w]) : q[w][i] \notin out
SlotsOff(sl, out) == \A w \in Workers : \A i \in 1 .. Len(sl[w]) : sl[w][i].sock \notin out
RingsOffSlots(q, sl) ==
  \A w, v \in Workers : \A i \in 1 .. Len(q[w]), j \in 1 .. Len(sl[v]) :
    q[w][i] # sl[v][j].sock
Apart ==
  /\ NotInBoth
  /\ RingsApart(queue) /\ SlotsApart(clients) /\ RingsOffSlots(queue, clients)
  /\ RingsOff(queue, Elsewhere) /\ SlotsOff(clients, Elsewhere)

(* The pool of one worker: its slots, free buffers and free peers. *)
PoolOf(slots, bufs, peers) ==
  /\ Len(bufs) + Len(slots) = MaxClients
  /\ Len(peers) + Len(slots) = MaxClients
  /\ ToSet(bufs) \cup {slots[i].buf : i \in 1 .. Len(slots)} = Ids
  /\ ToSet(peers) \cup {slots[i].peer : i \in 1 .. Len(slots)} = Ids
Pools == \A w \in Workers : PoolOf(clients[w], freeBufs[w], freePeers[w])

(* While a worker handles the requests of a connection, what it parsed is  *)
(* in the buffer, and an answer that is owed is owed for a whole request   *)
(* that the loop has still to come to; nobody else is owed one.            *)
TurnOf(w) ==
  LET slot == clients[w][cur[w]] IN
  /\ cur[w] \in 1 .. Len(clients[w])
  /\ turn[w].parsed <= slot.buffered
  /\ slot.sock \in owed => turn[w].more /\ slot.buffered - turn[w].parsed >= ReqLen[slot.sock]
OwedInTurn == \A c \in owed : \E w \in Workers : wPc[w] = "request" /\ clients[w][cur[w]].sock = c
Turns == OwedInTurn /\ \A w \in Workers : wPc[w] = "request" => TurnOf(w)

Inductive == TypeOK /\ AcceptorHand /\ Apart /\ Pools /\ Turns

-----------------------------------------------------------------------------
USE ServerAssumption

(* A remainder is below the divisor and not above the number. *)
LEMMA Remainder ==
  ASSUME NEW b \in Nat, NEW L \in Nat \ {0}
  PROVE  b % L \in Nat /\ b % L < L /\ b % L <= b
<1>1. b % L \in 0 .. L - 1 OBVIOUS
<1>2. CASE b < L
  <2>1. b \in 0 .. L - 1 BY <1>2
  <2>2. b % L = b BY <2>1
  <2> QED BY <1>1, <2>2
<1>3. CASE b >= L BY <1>1, <1>3
<1> QED BY <1>2, <1>3

(* Two slots that hold the same socket are one. *)
LEMMA SameSocket ==
  ASSUME NEW sl, SlotsApart(sl), NEW u \in Workers, NEW v \in Workers,
         NEW a \in 1 .. Len(sl[u]), NEW b \in 1 .. Len(sl[v]), sl[u][a].sock = sl[v][b].sock
  PROVE  u = v /\ a = b
BY DEF SlotsApart

(* Taking the last element off a sequence. *)
LEMMA FrontLast ==
  ASSUME NEW S, NEW s \in Seq(S), s # <<>>
  PROVE  /\ Front(s) \in Seq(S) /\ Len(Front(s)) = Len(s) - 1 /\ Last(s) \in S
         /\ Len(s) \in Nat \ {0}
         /\ \A j \in 1 .. Len(s) - 1 : Front(s)[j] = s[j]
<1>1. Len(s) \in Nat \ {0} OBVIOUS
<1>2. SubSeq(s, 1, Len(s) - 1) \in Seq(S) /\ Len(SubSeq(s, 1, Len(s) - 1)) = Len(s) - 1
  <2> DEFINE n == Len(s) - 1
  <2>1. n \in Int /\ \A j \in 1 .. n : s[j] \in S BY <1>1
  <2> HIDE DEF n
  <2>2. SubSeq(s, 1, n) \in Seq(S) /\ Len(SubSeq(s, 1, n)) = IF 1 <= n THEN n - 1 + 1 ELSE 0
    BY <2>1, SubSeqProperties
  <2>3. n \in Nat BY <1>1 DEF n
  <2>4. (IF 1 <= n THEN n - 1 + 1 ELSE 0) = n BY <2>3
  <2>5. Len(SubSeq(s, 1, n)) = n BY <2>2, <2>4
  <2> QED BY <2>2, <2>5, Zenon DEF n
<1>3. \A j \in 1 .. Len(s) - 1 : SubSeq(s, 1, Len(s) - 1)[j] = s[j] BY <1>1
<1>4. s[Len(s)] \in S BY <1>1
<1> QED BY <1>1, <1>2, <1>3, <1>4 DEF Front, Last

(* The elements of a sequence without its last one. *)
LEMMA FrontSet ==
  ASSUME NEW S, NEW s \in Seq(S), s # <<>>
  PROVE  ToSet(s) = ToSet(Front(s)) \cup {Last(s)}
<1>1. /\ Front(s) \in Seq(S) /\ Len(Front(s)) = Len(s) - 1 /\ Len(s) \in Nat \ {0}
      /\ \A j \in 1 .. Len(s) - 1 : Front(s)[j] = s[j]
  BY FrontLast
<1>2. DOMAIN Front(s) = 1 .. Len(s) - 1 /\ DOMAIN s = 1 .. Len(s) BY <1>1
<1>3. ToSet(s) = {s[j] : j \in 1 .. Len(s)} BY <1>2 DEF ToSet
<1>4. ToSet(Front(s)) = {s[j] : j \in 1 .. Len(s) - 1} BY <1>1, <1>2 DEF ToSet
<1>5. \A j : j \in 1 .. Len(s) <=> j \in 1 .. Len(s) - 1 \/ j = Len(s) BY <1>1
<1>6. Last(s) = s[Len(s)] BY DEF Last
<1> QED BY ONLY <1>3, <1>4, <1>5, <1>6

(* The elements after an append. *)
LEMMA AppendSet ==
  ASSUME NEW S, NEW s \in Seq(S), NEW e \in S
  PROVE  ToSet(Append(s, e)) = ToSet(s) \cup {e}
<1>1. DOMAIN Append(s, e) = 1 .. Len(s) + 1 /\ DOMAIN s = 1 .. Len(s) /\ Len(s) \in Nat
  OBVIOUS
<1>2. /\ \A j \in 1 .. Len(s) : Append(s, e)[j] = s[j]
      /\ Append(s, e)[Len(s) + 1] = e
  OBVIOUS
<1> QED BY <1>1, <1>2 DEF ToSet

(* The slots after a swap-remove: where each of them was before. *)
Was(s, i, j) == IF j = i THEN Len(s) ELSE j
(* A slot is overwritten by the last one and that one dropped: the others  *)
(* stay.                                                                   *)
LEMMA Swapped ==
  ASSUME NEW S, NEW s \in Seq(S), NEW i \in 1 .. Len(s)
  PROVE  /\ SwapRemove(s, i) \in Seq(S) /\ Len(SwapRemove(s, i)) = Len(s) - 1
         /\ \A j \in 1 .. Len(s) - 1 : /\ SwapRemove(s, i)[j] = s[Was(s, i, j)]
                                       /\ Was(s, i, j) \in (1 .. Len(s)) \ {i}
<1> DEFINE r == [s EXCEPT ![i] = Last(s)]
<1>1. Len(s) \in Nat \ {0} /\ s # <<>> /\ Last(s) \in S BY DEF Last
<1>2. r \in Seq(S) /\ Len(r) = Len(s) BY <1>1
<1>3. \A j \in 1 .. Len(s) : r[j] = IF j = i THEN Last(s) ELSE s[j] BY <1>2
<1>4. r # <<>> BY <1>1, <1>2
<1> HIDE DEF r
<1>5. /\ Front(r) \in Seq(S) /\ Len(Front(r)) = Len(s) - 1
      /\ \A j \in 1 .. Len(s) - 1 : Front(r)[j] = r[j]
  BY <1>2, <1>4, FrontLast
<1>6. SwapRemove(s, i) = Front(r) BY DEF SwapRemove, r
<1>7. \A j \in 1 .. Len(s) - 1 : r[j] = s[Was(s, i, j)] /\ Was(s, i, j) \in (1 .. Len(s)) \ {i}
  BY <1>1, <1>3 DEF Was, Last
<1> QED BY <1>5, <1>6, <1>7

(* Every slot but the removed one is still there. *)
LEMMA SwappedBack ==
  ASSUME NEW S, NEW s \in Seq(S), NEW i \in 1 .. Len(s), NEW k \in (1 .. Len(s)) \ {i}
  PROVE  \E j \in 1 .. Len(s) - 1 : SwapRemove(s, i)[j] = s[k]
<1>0. \A j \in 1 .. Len(s) - 1 : SwapRemove(s, i)[j] = s[Was(s, i, j)] BY Swapped
<1>1. CASE k = Len(s)
  <2>1. i \in 1 .. Len(s) - 1 /\ Was(s, i, i) = k BY <1>1 DEF Was
  <2> QED BY <1>0, <2>1
<1>2. CASE k # Len(s)
  <2>1. k \in 1 .. Len(s) - 1 /\ Was(s, i, k) = k BY <1>2 DEF Was
  <2> QED BY <1>0, <2>1
<1> QED BY <1>1, <1>2

(* Its buffer and peer given back, the pool is whole. *)
LEMMA PoolDrops ==
  ASSUME NEW slots \in Seq(Slot), NEW bufs \in Seq(Ids), NEW peers \in Seq(Ids),
         PoolOf(slots, bufs, peers), NEW i \in 1 .. Len(slots)
  PROVE  PoolOf(SwapRemove(slots, i), Append(bufs, slots[i].buf), Append(peers, slots[i].peer))
<1> DEFINE new == SwapRemove(slots, i)
<1>0. slots[i] \in Slot OBVIOUS
<1>1. slots[i].buf \in Ids /\ slots[i].peer \in Ids BY <1>0 DEF Slot
<1>a. /\ new \in Seq(Slot) /\ Len(new) = Len(slots) - 1
      /\ \A j \in 1 .. Len(slots) - 1 : /\ new[j] = slots[Was(slots, i, j)]
                                        /\ Was(slots, i, j) \in (1 .. Len(slots)) \ {i}
  BY Swapped
<1>2. /\ new \in Seq(Slot) /\ Len(new) = Len(slots) - 1
      /\ \A j \in 1 .. Len(slots) - 1 : \E k \in 1 .. Len(slots) : new[j] = slots[k]
  BY <1>a
<1>3. \A k \in (1 .. Len(slots)) \ {i} : \E j \in 1 .. Len(slots) - 1 : new[j] = slots[k]
  BY SwappedBack
<1> HIDE DEF new
<1>b. /\ \A j \in 1 .. Len(new) : \E k \in 1 .. Len(slots) : new[j] = slots[k]
      /\ \A k \in (1 .. Len(slots)) \ {i} : \E j \in 1 .. Len(new) : new[j] = slots[k]
  BY <1>2, <1>3
<1>4. {slots[k].buf : k \in 1 .. Len(slots)}
        = {new[j].buf : j \in 1 .. Len(new)} \cup {slots[i].buf}
  <2> DEFINE A == {slots[k].buf : k \in 1 .. Len(slots)}
             B == {new[j].buf : j \in 1 .. Len(new)} \cup {slots[i].buf}
  <2>1. \A k \in 1 .. Len(slots) : slots[k].buf \in B BY <1>b
  <2>2. \A j \in 1 .. Len(new) : new[j].buf \in A BY <1>b
  <2> QED BY <2>1, <2>2
<1>5. {slots[k].peer : k \in 1 .. Len(slots)}
        = {new[j].peer : j \in 1 .. Len(new)} \cup {slots[i].peer}
  <2> DEFINE A == {slots[k].peer : k \in 1 .. Len(slots)}
             B == {new[j].peer : j \in 1 .. Len(new)} \cup {slots[i].peer}
  <2>1. \A k \in 1 .. Len(slots) : slots[k].peer \in B BY <1>b
  <2>2. \A j \in 1 .. Len(new) : new[j].peer \in A BY <1>b
  <2> QED BY <2>1, <2>2
<1>6. /\ ToSet(Append(bufs, slots[i].buf)) = ToSet(bufs) \cup {slots[i].buf}
      /\ ToSet(Append(peers, slots[i].peer)) = ToSet(peers) \cup {slots[i].peer}
  BY <1>1, AppendSet
<1>7. /\ Len(Append(bufs, slots[i].buf)) + Len(new) = MaxClients
      /\ Len(Append(peers, slots[i].peer)) + Len(new) = MaxClients
  <2>1. /\ Len(Append(bufs, slots[i].buf)) = Len(bufs) + 1
        /\ Len(Append(peers, slots[i].peer)) = Len(peers) + 1
    BY <1>1
  <2>2. Len(bufs) + Len(slots) = MaxClients /\ Len(peers) + Len(slots) = MaxClients
    BY DEF PoolOf
  <2>3. Len(bufs) \in Nat /\ Len(peers) \in Nat /\ Len(slots) \in Nat OBVIOUS
  <2> QED BY <1>2, <2>1, <2>2, <2>3
<1> QED BY <1>4, <1>5, <1>6, <1>7 DEF PoolOf, new

(* A slot with the last free buffer and the last free peer. *)
LEMMA PoolAdopts ==
  ASSUME NEW slots \in Seq(Slot), NEW bufs \in Seq(Ids), NEW peers \in Seq(Ids),
         PoolOf(slots, bufs, peers), bufs # <<>>,
         NEW slot \in Slot, slot.buf = Last(bufs), slot.peer = Last(peers)
  PROVE  PoolOf(Append(slots, slot), Front(bufs), Front(peers))
<1> DEFINE new == Append(slots, slot)
<1>1. peers # <<>>
  <2>1. Len(peers) = Len(bufs) /\ Len(bufs) # 0 BY DEF PoolOf
  <2> QED BY <2>1
<1>2. new \in Seq(Slot) /\ Len(new) = Len(slots) + 1 /\ Len(slots) \in Nat
      /\ (\A j \in 1 .. Len(slots) : new[j] = slots[j]) /\ new[Len(slots) + 1] = slot
  OBVIOUS
<1> HIDE DEF new
<1>a. /\ \A j \in 1 .. Len(new) : new[j] = slot \/ \E k \in 1 .. Len(slots) : new[j] = slots[k]
      /\ \A k \in 1 .. Len(slots) : \E j \in 1 .. Len(new) : new[j] = slots[k]
      /\ \E j \in 1 .. Len(new) : new[j] = slot
  <2>1. \A j \in 1 .. Len(new) : j = Len(slots) + 1 \/ j \in 1 .. Len(slots) BY <1>2
  <2>2. \A j \in 1 .. Len(slots) : j \in 1 .. Len(new) BY <1>2
  <2>3. Len(slots) + 1 \in 1 .. Len(new) BY <1>2
  <2> QED BY <1>2, <2>1, <2>2, <2>3, Zenon
<1>3. {new[j].buf : j \in 1 .. Len(new)} = {slots[j].buf : j \in 1 .. Len(slots)} \cup {slot.buf}
  <2> DEFINE A == {slots[j].buf : j \in 1 .. Len(slots)} \cup {slot.buf}
             B == {new[j].buf : j \in 1 .. Len(new)}
  <2>1. \A k \in 1 .. Len(slots) : slots[k].buf \in B BY <1>a
  <2>2. slot.buf \in B BY <1>a
  <2>3. \A j \in 1 .. Len(new) : new[j].buf \in A BY <1>a
  <2>4. A \subseteq B BY ONLY <2>1, <2>2
  <2>5. B \subseteq A BY ONLY <2>3
  <2> QED BY <2>4, <2>5
<1>4. {new[j].peer : j \in 1 .. Len(new)} = {slots[j].peer : j \in 1 .. Len(slots)} \cup {slot.peer}
  <2> DEFINE A == {slots[j].peer : j \in 1 .. Len(slots)} \cup {slot.peer}
             B == {new[j].peer : j \in 1 .. Len(new)}
  <2>1. \A k \in 1 .. Len(slots) : slots[k].peer \in B BY <1>a
  <2>2. slot.peer \in B BY <1>a
  <2>3. \A j \in 1 .. Len(new) : new[j].peer \in A BY <1>a
  <2>4. A \subseteq B BY ONLY <2>1, <2>2
  <2>5. B \subseteq A BY ONLY <2>3
  <2> QED BY <2>4, <2>5
<1>5. /\ ToSet(bufs) = ToSet(Front(bufs)) \cup {Last(bufs)}
      /\ ToSet(peers) = ToSet(Front(peers)) \cup {Last(peers)}
  BY <1>1, FrontSet
<1>6. Len(Front(bufs)) = Len(bufs) - 1 /\ Len(Front(peers)) = Len(peers) - 1
  BY <1>1, FrontLast
<1>7. /\ Len(Front(bufs)) + Len(new) = MaxClients
      /\ Len(Front(peers)) + Len(new) = MaxClients
  BY <1>2, <1>6 DEF PoolOf
<1> QED BY <1>3, <1>4, <1>5, <1>7 DEF PoolOf, new

-----------------------------------------------------------------------------
(* Nobody is connected. *)
LEMMA InitInductive == Init => Inductive
<1> SUFFICES ASSUME Init PROVE Inductive OBVIOUS
<1> USE DEF Init
<1>1. [j \in Ids |-> j] \in Seq(Ids) /\ Len([j \in Ids |-> j]) = MaxClients
      /\ ToSet([j \in Ids |-> j]) = Ids
  BY DEF Ids, ToSet
<1>2. TypeOK
  <2>1. /\ freeBufs \in [Workers -> Seq(Ids)] /\ freePeers \in [Workers -> Seq(Ids)]
    BY <1>1
  <2>2. 0 \in Workers /\ 0 \in 0 .. NumWorkers - 1 /\ 0 \in 0 .. MaxUnits BY DEF Workers
  <2>3. 1 \in 1 .. MaxClients + 1 OBVIOUS
  <2>4. queue \in [Workers -> Seq(Conns)] /\ clients \in [Workers -> Seq(Slot)] OBVIOUS
  <2>5. eof \in [Conns -> BOOLEAN] /\ answered \in [Conns -> BOOLEAN]
        /\ wake \in [Workers -> BOOLEAN]
    OBVIOUS
  <2>6. inbox \in [Conns -> 0 .. MaxUnits] /\ cur \in [Workers -> 1 .. MaxClients + 1]
    BY <2>2, <2>3
  <2>7. NewTurn(FALSE) \in Progress BY DEF NewTurn, Progress
  <2>8. turn \in [Workers -> Progress] /\ owed \subseteq Conns BY <2>7
  <2> QED BY <2>1, <2>2, <2>4, <2>5, <2>6, <2>8 DEF TypeOK
<1>3. AcceptorHand BY DEF AcceptorHand
<1>4. \A w \in Workers : queue[w] = <<>> /\ clients[w] = <<>> OBVIOUS
<1>5. \A i : i \notin 1 .. Len(<<>>) OBVIOUS
<1>6. Apart
  <2>1. NotInBoth BY DEF NotInBoth
  <2>2. RingsApart(queue) /\ SlotsApart(clients) /\ RingsOffSlots(queue, clients)
    BY <1>4, <1>5 DEF RingsApart, SlotsApart, RingsOffSlots
  <2>3. RingsOff(queue, Elsewhere) /\ SlotsOff(clients, Elsewhere)
    BY <1>4, <1>5 DEF RingsOff, SlotsOff
  <2> QED BY <2>1, <2>2, <2>3 DEF Apart
<1>7. Turns BY DEF Turns, OwedInTurn
<1>8. Pools
  <2> SUFFICES ASSUME NEW w \in Workers PROVE PoolOf(clients[w], freeBufs[w], freePeers[w])
    BY DEF Pools
  <2>1. /\ clients[w] = <<>> /\ freeBufs[w] = [j \in Ids |-> j]
        /\ freePeers[w] = [j \in Ids |-> j]
    OBVIOUS
  <2>2. PoolOf(<<>>, [j \in Ids |-> j], [j \in Ids |-> j])
    <3> DEFINE id == [j \in Ids |-> j]
    <3>1. Len(id) + Len(<<>>) = MaxClients BY <1>1
    <3>2. \A x : x \notin {<<>>[i].buf : i \in 1 .. Len(<<>>)} BY <1>5
    <3>3. \A x : x \notin {<<>>[i].peer : i \in 1 .. Len(<<>>)} BY <1>5
    <3> QED BY ONLY <1>1, <3>1, <3>2, <3>3 DEF PoolOf
  <2> QED BY <2>1, <2>2
<1> QED BY <1>2, <1>3, <1>6, <1>7, <1>8 DEF Inductive

(* A step that moves no socket. *)
LEMMA NothingMoves ==
  ASSUME Inductive, UNCHANGED <<backlog, closed, accSock, queue, clients>>
  PROVE  Apart'
<1>1. Apart' = Apart BY DEF Apart, NotInBoth, Elsewhere
<1> QED BY <1>1 DEF Inductive

(* Steps that leave the slots and their pools alone. *)
LEMMA SlotsAlone ==
  ASSUME Inductive, UNCHANGED <<clients, freeBufs, freePeers>>
  PROVE  Pools'
BY DEF Inductive, Pools

(* Steps of nobody in a turn: the turns of the others go on. *)
LEMMA TurnsGoOn ==
  ASSUME Inductive, UNCHANGED owed,
         NEW w \in Workers, wPc[w] # "request", wPc'[w] # "request",
         \A v \in Workers \ {w} : /\ wPc'[v] = wPc[v] /\ clients'[v] = clients[v]
                                  /\ cur'[v] = cur[v] /\ turn'[v] = turn[v]
  PROVE  Turns'
<1>1. OwedInTurn'
  <2> SUFFICES ASSUME NEW c \in owed
               PROVE  \E v \in Workers : wPc'[v] = "request" /\ clients'[v][cur'[v]].sock = c
    BY DEF OwedInTurn
  <2>1. PICK v \in Workers : wPc[v] = "request" /\ clients[v][cur[v]].sock = c
    BY DEF Inductive, Turns, OwedInTurn
  <2>2. v # w BY <2>1
  <2> QED BY <2>1, <2>2
<1>2. ASSUME NEW v \in Workers, wPc'[v] = "request" PROVE TurnOf(v)'
  <2>1. v # w BY <1>2
  <2>2. TurnOf(v) BY <1>2, <2>1 DEF Inductive, Turns
  <2> QED BY <2>1, <2>2 DEF TurnOf
<1> QED BY <1>1, <1>2 DEF Turns

(* Steps that leave all of the workers alone. *)
LEMMA TurnsAlone ==
  ASSUME Inductive, UNCHANGED <<wPc, clients, cur, turn, owed>>
  PROVE  Turns'
BY DEF Inductive, Turns, OwedInTurn, TurnOf

(* Slot i of worker w is dropped. *)
LEMMA DropKeeps ==
  ASSUME Inductive, NEW w \in Workers, NEW i \in 1 .. Len(clients[w]), DropSlot(w, i),
         UNCHANGED <<backlog, accSock, queue>>
  PROVE  /\ Apart' /\ Pools'
         /\ clients' \in [Workers -> Seq(Slot)] /\ closed' \subseteq Conns
         /\ freeBufs' \in [Workers -> Seq(Ids)] /\ freePeers' \in [Workers -> Seq(Ids)]
         /\ cur' = cur /\ \A v \in Workers \ {w} : clients'[v] = clients[v]
<1> DEFINE s == clients[w]
           c == s[i].sock
<1>0. /\ closed' = closed \cup {c} /\ cur' = cur
      /\ freeBufs' = [freeBufs EXCEPT ![w] = Append(@, s[i].buf)]
      /\ freePeers' = [freePeers EXCEPT ![w] = Append(freePeers[w], s[i].peer)]
      /\ clients' = [clients EXCEPT ![w] = SwapRemove(@, i)]
  BY DEF DropSlot, ReleasePeer
<1>1. /\ clients \in [Workers -> Seq(Slot)] /\ freeBufs \in [Workers -> Seq(Ids)]
      /\ freePeers \in [Workers -> Seq(Ids)] /\ closed \subseteq Conns
  BY DEF Inductive, TypeOK
<1>2. s \in Seq(Slot) /\ s[i] \in Slot BY <1>1
<1>3. c \in Conns /\ s[i].buf \in Ids /\ s[i].peer \in Ids BY <1>2 DEF Slot
<1>4. /\ clients'[w] = SwapRemove(s, i) /\ freeBufs'[w] = Append(freeBufs[w], s[i].buf)
      /\ freePeers'[w] = Append(freePeers[w], s[i].peer)
      /\ \A v \in Workers \ {w} : /\ clients'[v] = clients[v] /\ freeBufs'[v] = freeBufs[v]
                                 /\ freePeers'[v] = freePeers[v]
  BY <1>0, <1>1
<1>5. /\ SwapRemove(s, i) \in Seq(Slot) /\ Len(SwapRemove(s, i)) = Len(s) - 1
      /\ \A j \in 1 .. Len(s) - 1 : /\ SwapRemove(s, i)[j] = s[Was(s, i, j)]
                                    /\ Was(s, i, j) \in (1 .. Len(s)) \ {i}
  BY <1>2, Swapped
<1>6. clients' \in [Workers -> Seq(Slot)] /\ closed' \subseteq Conns
  BY <1>0, <1>1, <1>3, <1>5
<1>7. freeBufs' \in [Workers -> Seq(Ids)] /\ freePeers' \in [Workers -> Seq(Ids)]
  <2>1. Append(freeBufs[w], s[i].buf) \in Seq(Ids) /\ Append(freePeers[w], s[i].peer) \in Seq(Ids)
    BY <1>1, <1>3
  <2> QED BY <1>0, <1>1, <2>1
<1>8. Pools'
  <2>1. PoolOf(SwapRemove(s, i), Append(freeBufs[w], s[i].buf), Append(freePeers[w], s[i].peer))
    BY <1>1, <1>2, PoolDrops DEF Inductive, Pools
  <2>2. \A v \in Workers : PoolOf(clients[v], freeBufs[v], freePeers[v])
    BY DEF Inductive, Pools
  <2> QED BY <1>4, <2>1, <2>2 DEF Pools
<1> DEFINE From(v, j) == IF v = w THEN Was(s, i, j) ELSE j
<1>9. \A v \in Workers : \A j \in 1 .. Len(clients'[v]) :
        /\ clients'[v][j] = clients[v][From(v, j)] /\ From(v, j) \in 1 .. Len(clients[v])
        /\ v = w => From(v, j) # i
  BY <1>4, <1>5
<1>10. \A v \in Workers : \A j, k \in 1 .. Len(clients'[v]) : From(v, j) = From(v, k) => j = k
  <2>1. Len(s) \in Nat BY <1>2
  <2>2. \A j, k \in 1 .. Len(s) - 1 : Was(s, i, j) = Was(s, i, k) => j = k BY <2>1 DEF Was
  <2> QED BY <1>4, <1>5, <2>2
<1> HIDE DEF From
<1>12. SlotsApart(clients')
  <2> SUFFICES ASSUME NEW u \in Workers, NEW v \in Workers,
                      NEW j \in 1 .. Len(clients'[u]), NEW k \in 1 .. Len(clients'[v]),
                      clients'[u][j].sock = clients'[v][k].sock
               PROVE  u = v /\ j = k
    BY DEF SlotsApart
  <2>a. /\ clients[u][From(u, j)].sock = clients[v][From(v, k)].sock
        /\ From(u, j) \in 1 .. Len(clients[u]) /\ From(v, k) \in 1 .. Len(clients[v])
    BY <1>9
  <2>b. SlotsApart(clients) BY DEF Inductive, Apart
  <2>1. u = v /\ From(u, j) = From(v, k) BY ONLY <2>a, <2>b, SameSocket
  <2> QED BY <1>10, <2>1
<1>13. RingsOffSlots(queue', clients')
  <2> SUFFICES ASSUME NEW u \in Workers, NEW v \in Workers,
                      NEW j \in 1 .. Len(queue[u]), NEW k \in 1 .. Len(clients'[v])
               PROVE  queue[u][j] # clients'[v][k].sock
    BY DEF RingsOffSlots
  <2>1. clients'[v][k] = clients[v][From(v, k)] /\ From(v, k) \in 1 .. Len(clients[v])
    BY <1>9
  <2>2. RingsOffSlots(queue, clients) BY DEF Inductive, Apart
  <2> QED BY <2>1, <2>2 DEF RingsOffSlots
<1>14. ASSUME NEW v \in Workers, NEW j \in 1 .. Len(clients'[v]) PROVE clients'[v][j].sock # c
  <2>1. /\ clients'[v][j] = clients[v][From(v, j)] /\ From(v, j) \in 1 .. Len(clients[v])
        /\ v = w => From(v, j) # i
    BY <1>9
  <2>2. SlotsApart(clients) BY DEF Inductive, Apart
  <2>3. clients[v][From(v, j)].sock = clients[w][i].sock => v = w /\ From(v, j) = i
    BY ONLY <2>1, <2>2, SameSocket
  <2> QED BY <2>1, <2>3
<1>15. Elsewhere' = Elsewhere \cup {c} BY <1>0 DEF Elsewhere
<1>16. SlotsOff(clients', Elsewhere')
  <2> SUFFICES ASSUME NEW v \in Workers, NEW j \in 1 .. Len(clients'[v])
               PROVE  clients'[v][j].sock \notin Elsewhere \cup {c}
    BY <1>15 DEF SlotsOff
  <2>1. clients'[v][j] = clients[v][From(v, j)] /\ From(v, j) \in 1 .. Len(clients[v])
    BY <1>9
  <2>2. clients[v][From(v, j)].sock \notin Elsewhere
    BY <2>1 DEF Inductive, Apart, SlotsOff
  <2> QED BY <1>14, <2>1, <2>2
<1>17. RingsOff(queue', Elsewhere')
  BY <1>15 DEF Inductive, Apart, RingsOff, RingsOffSlots
<1>18. NotInBoth'
  <2>1. c \notin Elsewhere BY DEF Inductive, Apart, SlotsOff
  <2> QED BY <1>0, <2>1 DEF Inductive, Apart, NotInBoth, Elsewhere
<1>19. Apart' BY <1>12, <1>13, <1>16, <1>17, <1>18 DEF Inductive, Apart
<1> QED BY <1>0, <1>4, <1>6, <1>7, <1>8, <1>19

(* Slot i of worker w has `rest' units in its buffer now. *)
Refilled(w, i, rest) == clients' = [clients EXCEPT ![w][i].buffered = rest]

(* Nothing but the buffer is different then. *)
LEMMA BufferKeeps ==
  ASSUME Inductive, NEW w \in Workers, NEW i \in 1 .. Len(clients[w]),
         NEW rest \in 0 .. BufMax, Refilled(w, i, rest),
         UNCHANGED <<backlog, closed, accSock, queue, freeBufs, freePeers>>
  PROVE  /\ Apart' /\ Pools'
         /\ clients' \in [Workers -> Seq(Slot)]
         /\ \A v \in Workers \ {w} : clients'[v] = clients[v]
         /\ Len(clients'[w]) = Len(clients[w])
         /\ clients'[w][i].sock = clients[w][i].sock /\ clients'[w][i].buffered = rest
<1> DEFINE s == clients[w]
           t == [s[i] EXCEPT !.buffered = rest]
<1>0. clients' = [clients EXCEPT ![w] = [s EXCEPT ![i] = t]] BY DEF Refilled
<1>1. /\ clients \in [Workers -> Seq(Slot)] /\ freeBufs \in [Workers -> Seq(Ids)]
      /\ freePeers \in [Workers -> Seq(Ids)] /\ closed \subseteq Conns
  BY DEF Inductive, TypeOK
<1>2. s \in Seq(Slot) /\ s[i] \in Slot /\ Len(s) \in Nat BY <1>1
<1>3. /\ t \in Slot /\ t.sock = s[i].sock /\ t.buf = s[i].buf /\ t.peer = s[i].peer
      /\ t.buffered = rest
  BY ONLY <1>2, rest \in 0 .. BufMax DEF Slot
<1> HIDE DEF t
<1>4. [s EXCEPT ![i] = t] \in Seq(Slot) /\ Len([s EXCEPT ![i] = t]) = Len(s)
  BY <1>2, <1>3
<1>5. clients' \in [Workers -> Seq(Slot)] BY <1>0, <1>1, <1>4
<1>6. \A v \in Workers : Len(clients'[v]) = Len(clients[v])
  BY <1>0, <1>1, <1>4
<1>7. \A v \in Workers : \A j \in 1 .. Len(clients[v]) :
        clients'[v][j] = IF v = w /\ j = i THEN t ELSE clients[v][j]
  <2>1. clients'[w] = [s EXCEPT ![i] = t] /\ \A v \in Workers \ {w} : clients'[v] = clients[v]
    BY <1>0, <1>1
  <2>2. \A j \in 1 .. Len(s) : [s EXCEPT ![i] = t][j] = IF j = i THEN t ELSE s[j]
    BY <1>2
  <2> QED BY <2>1, <2>2
<1>8. \A v \in Workers : \A j \in 1 .. Len(clients[v]) :
        /\ clients'[v][j].sock = clients[v][j].sock /\ clients'[v][j].buf = clients[v][j].buf
        /\ clients'[v][j].peer = clients[v][j].peer
  BY <1>3, <1>7
<1>10. SlotsApart(clients') BY <1>6, <1>8 DEF Inductive, Apart, SlotsApart
<1>11. RingsOffSlots(queue', clients') BY <1>6, <1>8 DEF Inductive, Apart, RingsOffSlots
<1>12. Elsewhere' = Elsewhere BY <1>0 DEF Elsewhere
<1>13. SlotsOff(clients', Elsewhere') BY <1>6, <1>8, <1>12 DEF Inductive, Apart, SlotsOff
<1>14. Apart'
  <2>1. NotInBoth' BY <1>0 DEF Inductive, Apart, NotInBoth
  <2>2. RingsApart(queue') /\ RingsOff(queue', Elsewhere') BY <1>12 DEF Inductive, Apart
  <2> QED BY <1>10, <1>11, <1>13, <2>1, <2>2 DEF Apart
<1>15. Pools'
  <2> SUFFICES ASSUME NEW v \in Workers PROVE PoolOf(clients'[v], freeBufs[v], freePeers[v])
    BY <1>0 DEF Pools
  <2>1. PoolOf(clients[v], freeBufs[v], freePeers[v]) BY DEF Inductive, Pools
  <2> DEFINE new == clients'[v]
             old == clients[v]
  <2>a. /\ Len(new) = Len(old)
        /\ \A j \in 1 .. Len(old) : new[j].buf = old[j].buf /\ new[j].peer = old[j].peer
    BY <1>6, <1>8
  <2> HIDE DEF new, old
  <2>b. {new[j].buf : j \in 1 .. Len(new)} = {old[j].buf : j \in 1 .. Len(old)} BY <2>a
  <2>c. {new[j].peer : j \in 1 .. Len(new)} = {old[j].peer : j \in 1 .. Len(old)} BY <2>a
  <2>2. PoolOf(old, freeBufs[v], freePeers[v]) => PoolOf(new, freeBufs[v], freePeers[v])
    BY <2>a, <2>b, <2>c DEF PoolOf
  <2> QED BY <2>1, <2>2 DEF new, old
<1>16. \A v \in Workers \ {w} : clients'[v] = clients[v] BY <1>0, <1>1
<1> QED BY <1>3, <1>5, <1>6, <1>7, <1>14, <1>15, <1>16

(* Slot i of worker w is kept, with what is left in its buffer. *)
LEMMA KeepKeeps ==
  ASSUME Inductive, NEW w \in Workers, NEW i \in 1 .. Len(clients[w]),
         NEW rest \in 0 .. BufMax, KeepSlot(w, i, rest), UNCHANGED <<backlog, accSock, queue>>
  PROVE  /\ Apart' /\ Pools'
         /\ clients' \in [Workers -> Seq(Slot)] /\ closed' \subseteq Conns
         /\ freeBufs' \in [Workers -> Seq(Ids)] /\ freePeers' \in [Workers -> Seq(Ids)]
         /\ cur' \in [Workers -> 1 .. MaxClients + 1]
         /\ \A v \in Workers \ {w} : clients'[v] = clients[v] /\ cur'[v] = cur[v]
<1> DEFINE s == clients[w]
<1>0. /\ clients' = [clients EXCEPT ![w][i].buffered = rest]
      /\ cur' = [cur EXCEPT ![w] = i + 1] /\ UNCHANGED <<closed, freeBufs, freePeers>>
  BY DEF KeepSlot
<1>1. /\ clients \in [Workers -> Seq(Slot)] /\ freeBufs \in [Workers -> Seq(Ids)]
      /\ freePeers \in [Workers -> Seq(Ids)] /\ closed \subseteq Conns
      /\ cur \in [Workers -> 1 .. MaxClients + 1]
  BY DEF Inductive, TypeOK
<1>2. s \in Seq(Slot) /\ Len(s) \in Nat BY <1>1
<1>3. /\ Apart' /\ Pools' /\ clients' \in [Workers -> Seq(Slot)]
      /\ \A v \in Workers \ {w} : clients'[v] = clients[v]
  BY <1>0, BufferKeeps DEF Refilled
<1>4. \A v \in Workers \ {w} : cur'[v] = cur[v] BY <1>0, <1>1
<1>16. cur' \in [Workers -> 1 .. MaxClients + 1]
  <2>1. Len(freeBufs[w]) \in Nat /\ Len(freeBufs[w]) + Len(s) = MaxClients
    BY <1>1 DEF Inductive, Pools, PoolOf
  <2>2. i \in Nat /\ i <= Len(s) /\ MaxClients \in Nat BY <1>2
  <2>3. i + 1 \in 1 .. MaxClients + 1
    <3> DEFINE a == Len(freeBufs[w])
               b == Len(s)
    <3>1. a \in Nat /\ b \in Nat /\ a + b = MaxClients /\ i <= b BY <1>2, <2>1, <2>2
    <3> HIDE DEF a, b
    <3> QED BY <2>2, <3>1
  <2> QED BY <1>0, <1>1, <2>3
<1> QED BY <1>0, <1>1, <1>3, <1>4, <1>16

-----------------------------------------------------------------------------
(* The clients and the operator. *)

(* A client connects. *)
LEMMA ConnectKeeps ==
  ASSUME Inductive, NEW c \in Conns, Connect(c) PROVE Inductive'
<1>0. /\ c \notin closed /\ ~Connected(c) /\ backlog' = backlog \cup {c}
      /\ UNCHANGED <<stop, listening, closed, clientVars, answered, accVars, wake,
                     queue, workVars, mainPc, owed>>
  BY DEF Connect
<1> USE DEF clientVars, accVars, workVars
<1>1. TypeOK' BY <1>0 DEF Inductive, TypeOK
<1>2. AcceptorHand' BY <1>0 DEF Inductive, AcceptorHand
<1>3. Pools' /\ Turns' BY <1>0, SlotsAlone, TurnsAlone
<1>4. Elsewhere' = Elsewhere \cup {c} BY <1>0 DEF Elsewhere
<1>5. c # accSock /\ \A w \in Workers : c \notin ToSet(queue[w]) /\ c \notin InSlots(w)
  BY <1>0 DEF Connected, Held
<1>6. \A w \in Workers : \A i \in 1 .. Len(queue[w]) : queue[w][i] # c
  <2>1. \A w \in Workers : queue[w] \in Seq(Conns) BY DEF Inductive, TypeOK
  <2>2. \A w \in Workers : DOMAIN queue[w] = 1 .. Len(queue[w]) BY <2>1
  <2> QED BY <1>5, <2>2 DEF ToSet
<1>7. \A w \in Workers : \A i \in 1 .. Len(clients[w]) : clients[w][i].sock # c
  BY <1>5 DEF InSlots
<1>8. NotInBoth' BY <1>0, <1>5 DEF Inductive, Apart, NotInBoth
<1>9. RingsOff(queue', Elsewhere') /\ SlotsOff(clients', Elsewhere')
  BY <1>0, <1>4, <1>6, <1>7 DEF Inductive, Apart, RingsOff, SlotsOff
<1>10. Apart' BY <1>0, <1>8, <1>9 DEF Inductive, Apart
<1> QED BY <1>1, <1>2, <1>3, <1>10 DEF Inductive

(* A client sends. *)
LEMMA SendKeeps ==
  ASSUME Inductive, NEW c \in Conns, Send(c) PROVE Inductive'
<1>0. /\ inbox[c] < MaxUnits /\ inbox' = [inbox EXCEPT ![c] = @ + 1]
      /\ UNCHANGED <<stop, listening, backlog, closed, eof, answered, accVars, wake,
                     queue, workVars, mainPc, owed>>
  BY DEF Send
<1> USE DEF accVars, workVars
<1>1. inbox' \in [Conns -> 0 .. MaxUnits] BY <1>0 DEF Inductive, TypeOK
<1>2. TypeOK' BY <1>0, <1>1 DEF Inductive, TypeOK
<1>3. AcceptorHand' BY <1>0 DEF Inductive, AcceptorHand
<1> QED BY <1>0, <1>2, <1>3, NothingMoves, SlotsAlone, TurnsAlone DEF Inductive

(* A client hangs up. *)
LEMMA HangUpKeeps ==
  ASSUME Inductive, NEW c \in Conns, HangUp(c) PROVE Inductive'
<1>0. /\ eof' = [eof EXCEPT ![c] = TRUE] /\ inbox' \in {inbox, [inbox EXCEPT ![c] = 0]}
      /\ UNCHANGED <<stop, listening, backlog, closed, answered,
                     accVars, wake, queue, workVars, mainPc, owed>>
  BY DEF HangUp
<1> USE DEF accVars, workVars
<1>1. inbox' \in [Conns -> 0 .. MaxUnits]
  <2>1. inbox \in [Conns -> 0 .. MaxUnits] /\ 0 \in 0 .. MaxUnits BY DEF Inductive, TypeOK
  <2>2. [inbox EXCEPT ![c] = 0] \in [Conns -> 0 .. MaxUnits] BY <2>1
  <2> QED BY <1>0, <2>1, <2>2
<1>2. eof' \in [Conns -> BOOLEAN] BY <1>0 DEF Inductive, TypeOK
<1>3. TypeOK' BY <1>0, <1>1, <1>2 DEF Inductive, TypeOK
<1>4. AcceptorHand' BY <1>0 DEF Inductive, AcceptorHand
<1> QED BY <1>0, <1>3, <1>4, NothingMoves, SlotsAlone, TurnsAlone DEF Inductive

(* The operator stops the server. *)
LEMMA SignalKeeps ==
  ASSUME Inductive, Signal PROVE Inductive'
<1>0. /\ stop' = TRUE
      /\ UNCHANGED <<listening, backlog, closed, clientVars, answered, accVars, wake,
                     queue, clients, freeBufs, freePeers, ready, cur, turn, mainPc, owed>>
  BY DEF Signal
<1> USE DEF clientVars, accVars
<1>1. wPc' \in [Workers -> {"top", "select", "adopt", "serve", "request", "exit"}]
  BY DEF Signal, Inductive, TypeOK
<1>2. TypeOK' BY <1>0, <1>1 DEF Inductive, TypeOK
<1>3. AcceptorHand' BY <1>0 DEF Inductive, AcceptorHand
<1>4. Turns'
  <2>1. CASE UNCHANGED wPc BY <1>0, <2>1, TurnsAlone
  <2>2. ASSUME NEW w \in Workers, wPc[w] = "select", wPc' = [wPc EXCEPT ![w] = "top"]
        PROVE  Turns'
    <3>1. wPc'[w] = "top" /\ \A v \in Workers \ {w} : wPc'[v] = wPc[v]
      BY <2>2 DEF Inductive, TypeOK
    <3> QED BY <1>0, <2>2, <3>1, TurnsGoOn
  <2> QED BY <2>1, <2>2 DEF Signal
<1> QED BY <1>0, <1>2, <1>3, <1>4, NothingMoves, SlotsAlone DEF Inductive

-----------------------------------------------------------------------------
(* The acceptor. *)

(* The acceptor looks at the backlog or at the flag. *)
LEMMA AccLooksKeeps ==
  ASSUME Inductive, AccCheck \/ AccWait PROVE Inductive'
<1>0. /\ accPc # "dispatch" /\ accPc' \in {"wait", "exit", "accept", "check"}
      /\ UNCHANGED <<stop, listening, backlog, closed, clientVars, answered, accSock,
                     accK, rr, wake, queue, workVars, mainPc, owed>>
  BY DEF AccCheck, AccWait
<1> USE DEF clientVars, workVars
<1>1. TypeOK' BY <1>0 DEF Inductive, TypeOK
<1>2. AcceptorHand' BY <1>0 DEF Inductive, AcceptorHand
<1> QED BY <1>0, <1>1, <1>2, NothingMoves, SlotsAlone, TurnsAlone DEF Inductive

(* A socket moves from the backlog to the acceptor. *)
LEMMA AccAcceptKeeps ==
  ASSUME Inductive, AccAccept PROVE Inductive'
<1>0. /\ accPc = "accept"
      /\ UNCHANGED <<stop, listening, closed, clientVars, answered, accK, rr, wake,
                     queue, workVars, mainPc, owed>>
  BY DEF AccAccept
<1> USE DEF clientVars, workVars
<1>a. Pools' /\ Turns' BY <1>0, SlotsAlone, TurnsAlone
<1>b. accSock = NoConn /\ accK = 0 BY <1>0 DEF Inductive, AcceptorHand
<1>1. CASE accPc' = "check" /\ UNCHANGED <<backlog, accSock>>
  <2>1. TypeOK' BY <1>0, <1>1 DEF Inductive, TypeOK
  <2>2. AcceptorHand' BY <1>0, <1>1, <1>b DEF AcceptorHand
  <2>3. Apart' BY <1>0, <1>1, NothingMoves
  <2> QED BY <1>a, <2>1, <2>2, <2>3 DEF Inductive
<1>2. ASSUME NEW c \in backlog, backlog' = backlog \ {c}, accSock' = c, accPc' = "dispatch"
      PROVE  Inductive'
  <2>0. c \in Conns BY DEF Inductive, TypeOK
  <2>1. TypeOK' BY <1>0, <1>2, <2>0 DEF Inductive, TypeOK
  <2>2. AcceptorHand' BY <1>2, <2>0 DEF AcceptorHand
  <2>3. Elsewhere' \subseteq Elsewhere BY <1>0, <1>2 DEF Elsewhere
  <2>4. NotInBoth' BY <1>0, <1>2 DEF Inductive, Apart, NotInBoth
  <2>5. RingsOff(queue', Elsewhere') /\ SlotsOff(clients', Elsewhere')
    BY <1>0, <2>3 DEF Inductive, Apart, RingsOff, SlotsOff
  <2>6. Apart' BY <1>0, <2>4, <2>5 DEF Inductive, Apart
  <2> QED BY <1>a, <2>1, <2>2, <2>6 DEF Inductive
<1> QED BY <1>1, <1>2 DEF AccAccept

(* The dispatch loop stays within the workers. *)
LEMMA NextOfRound == \A k \in Nat : k % NumWorkers \in Workers
<1> TAKE k \in Nat
<1>1. k % NumWorkers \in Nat /\ k % NumWorkers < NumWorkers BY Remainder
<1> QED BY <1>1 DEF Workers

(* The acceptor pushes to a ring, tries the next one or closes the         *)
(* socket.                                                                 *)
LEMMA AccDispatchKeeps ==
  ASSUME Inductive, AccDispatch PROVE Inductive'
<1> DEFINE w == (rr + accK) % NumWorkers
<1>0. /\ accPc = "dispatch"
      /\ UNCHANGED <<stop, listening, backlog, clientVars, answered, workVars, mainPc, owed>>
  BY DEF AccDispatch
<1> USE DEF clientVars, workVars
<1>a. Pools' /\ Turns' BY <1>0, SlotsAlone, TurnsAlone
<1>b. /\ accSock \in Conns /\ accSock # NoConn /\ rr \in Nat /\ accK \in 0 .. NumWorkers - 1
      /\ rr \in Workers
  BY <1>0 DEF Inductive, AcceptorHand, TypeOK, Workers
<1>c. w \in Workers /\ (w + 1) % NumWorkers \in Workers /\ (rr + 1) % NumWorkers \in Workers
  <2>1. w \in Workers BY <1>b, NextOfRound
  <2>2. w + 1 \in Nat BY <2>1 DEF Workers
  <2>3. rr + 1 \in Nat BY <1>b
  <2> HIDE DEF w
  <2> QED BY <2>1, <2>2, <2>3, NextOfRound
<1> HIDE DEF w
<1>d. Dispatched => AcceptorHand' /\ accPc' = "accept" /\ accSock' = NoConn /\ accK' = 0
  BY DEF Dispatched, AcceptorHand
<1>1. ASSUME queue' = [queue EXCEPT ![w] = Append(@, accSock)],
             NEW delivered \in BOOLEAN, wake' = [wake EXCEPT ![w] = @ \/ delivered],
             rr' = (w + 1) % NumWorkers, Dispatched, UNCHANGED closed
      PROVE  Inductive'
  <2>1. queue \in [Workers -> Seq(Conns)] /\ wake \in [Workers -> BOOLEAN]
    BY DEF Inductive, TypeOK
  <2>2. queue' \in [Workers -> Seq(Conns)]
    <3>1. Append(queue[w], accSock) \in Seq(Conns) BY <1>b, <1>c, <2>1
    <3> QED BY <1>1, <2>1, <3>1
  <2>3. wake' \in [Workers -> BOOLEAN] BY <1>1, <2>1
  <2>4. TypeOK'
    <3>1. 0 \in 0 .. NumWorkers - 1 OBVIOUS
    <3> QED BY <1>0, <1>1, <1>c, <1>d, <2>2, <2>3, <3>1 DEF Inductive, TypeOK
  <2>5. /\ Len(queue'[w]) = Len(queue[w]) + 1 /\ Len(queue[w]) \in Nat
        /\ queue'[w][Len(queue[w]) + 1] = accSock
        /\ \A i \in 1 .. Len(queue[w]) : queue'[w][i] = queue[w][i]
        /\ \A v \in Workers \ {w} : queue'[v] = queue[v]
    BY <1>1, <1>b, <1>c, <2>1
  <2>6. \A v \in Workers : \A i \in 1 .. Len(queue'[v]) :
          \/ v = w /\ i = Len(queue[w]) + 1 /\ queue'[v][i] = accSock
          \/ i \in 1 .. Len(queue[v]) /\ queue'[v][i] = queue[v][i]
    BY <2>5
  <2>7. /\ RingsApart(queue) /\ RingsOffSlots(queue, clients) /\ NotInBoth
        /\ RingsOff(queue, Elsewhere) /\ SlotsOff(clients, Elsewhere)
    BY DEF Inductive, Apart
  <2>8. RingsApart(queue') BY <2>6, <2>7 DEF RingsApart, RingsOff, Elsewhere
  <2>9. RingsOffSlots(queue', clients')
    BY <1>0, <2>6, <2>7 DEF RingsOffSlots, SlotsOff, Elsewhere
  <2>10. Elsewhere' = backlog \cup closed \cup {NoConn} BY <1>0, <1>1, <1>d DEF Elsewhere
  <2>11. RingsOff(queue', Elsewhere')
    <3>1. \A v \in Workers : \A i \in 1 .. Len(queue[v]) : queue[v][i] # NoConn
      BY <2>1
    <3>2. accSock \notin Elsewhere' BY <1>b, <2>7, <2>10 DEF NotInBoth
    <3> QED BY <2>6, <2>7, <2>10, <3>1, <3>2 DEF RingsOff, Elsewhere
  <2>12. \A v \in Workers : \A i \in 1 .. Len(clients[v]) : clients[v][i].sock # NoConn
    <3>1. \A v \in Workers : \A i \in 1 .. Len(clients[v]) : clients[v][i] \in Slot
      BY DEF Inductive, TypeOK
    <3> QED BY <3>1 DEF Slot
  <2>13. SlotsOff(clients', Elsewhere')
    BY <1>0, <2>7, <2>10, <2>12 DEF SlotsOff, Elsewhere
  <2>14. NotInBoth' BY <1>0, <1>1, <1>d, <2>7 DEF NotInBoth, Inductive, TypeOK
  <2>15. Apart' BY <1>0, <2>8, <2>9, <2>11, <2>13, <2>14 DEF Inductive, Apart
  <2> QED BY <1>1, <1>a, <1>d, <2>4, <2>15 DEF Inductive
<1>2. CASE accK + 1 < NumWorkers /\ accK' = accK + 1
           /\ UNCHANGED <<queue, wake, rr, accSock, accPc, closed>>
  <2>1. accK' \in 0 .. NumWorkers - 1 BY <1>2, <1>b
  <2>2. TypeOK' BY <1>0, <1>2, <2>1 DEF Inductive, TypeOK
  <2>3. AcceptorHand' BY <1>0, <1>2, <1>b DEF AcceptorHand
  <2>4. Apart' BY <1>0, <1>2, NothingMoves
  <2> QED BY <1>a, <2>2, <2>3, <2>4 DEF Inductive
<1>3. CASE closed' = closed \cup {accSock} /\ rr' = (rr + 1) % NumWorkers /\ Dispatched
           /\ UNCHANGED <<queue, wake>>
  <2>1. TypeOK'
    <3>1. 0 \in 0 .. NumWorkers - 1 OBVIOUS
    <3>2. closed' \subseteq Conns BY <1>3, <1>b DEF Inductive, TypeOK
    <3> QED BY <1>0, <1>3, <1>c, <1>d, <3>1, <3>2 DEF Inductive, TypeOK
  <2>2. NotInBoth /\ RingsOff(queue, Elsewhere) /\ SlotsOff(clients, Elsewhere)
    BY DEF Inductive, Apart
  <2>3. Elsewhere' = Elsewhere \cup {NoConn} BY <1>0, <1>3, <1>d DEF Elsewhere
  <2>4. \A v \in Workers : \A i \in 1 .. Len(queue[v]) : queue[v][i] # NoConn
    <3>1. \A v \in Workers : queue[v] \in Seq(Conns) BY DEF Inductive, TypeOK
    <3> QED BY <3>1
  <2>5. \A v \in Workers : \A i \in 1 .. Len(clients[v]) : clients[v][i].sock # NoConn
    <3>1. \A v \in Workers : \A i \in 1 .. Len(clients[v]) : clients[v][i] \in Slot
      BY DEF Inductive, TypeOK
    <3> QED BY <3>1 DEF Slot
  <2>6. RingsOff(queue', Elsewhere') /\ SlotsOff(clients', Elsewhere')
    BY <1>0, <1>3, <2>2, <2>3, <2>4, <2>5 DEF RingsOff, SlotsOff
  <2>7. NotInBoth'
    <3>1. NoConn \notin backlog \cup closed /\ NoConn # accSock
      BY <1>b DEF Inductive, TypeOK
    <3> QED BY <1>0, <1>3, <1>d, <2>2, <3>1 DEF NotInBoth
  <2>8. Apart' BY <1>0, <1>3, <2>6, <2>7 DEF Inductive, Apart
  <2> QED BY <1>3, <1>a, <1>d, <2>1, <2>8 DEF Inductive
<1> QED BY <1>1, <1>2, <1>3 DEF AccDispatch, w

-----------------------------------------------------------------------------
(* The workers. *)

(* A worker begins its loop or leaves it. *)
LEMMA WorkerTopKeeps ==
  ASSUME Inductive, NEW w \in Workers, WorkerTop(w) PROVE Inductive'
<1>0. /\ wPc[w] = "top"
      /\ wPc' = [wPc EXCEPT ![w] = IF LoopAgain(w) THEN "select" ELSE "exit"]
      /\ UNCHANGED <<stop, listening, backlog, closed, clientVars, answered, accVars,
                     wake, queue, clients, freeBufs, freePeers, ready, cur, turn, mainPc, owed>>
  BY DEF WorkerTop
<1> USE DEF clientVars, accVars
<1>1. wPc' \in [Workers -> {"top", "select", "adopt", "serve", "request", "exit"}]
  BY <1>0 DEF Inductive, TypeOK
<1>2. TypeOK' BY <1>0, <1>1 DEF Inductive, TypeOK
<1>3. AcceptorHand' BY <1>0 DEF Inductive, AcceptorHand
<1>4. Turns'
  <2>1. wPc'[w] # "request" /\ \A v \in Workers \ {w} : wPc'[v] = wPc[v]
    BY <1>0 DEF Inductive, TypeOK
  <2> QED BY <1>0, <2>1, TurnsGoOn
<1> QED BY <1>0, <1>2, <1>3, <1>4, NothingMoves, SlotsAlone DEF Inductive

(* The clients of a worker are slots. *)
LEMMA SlotsAreSlots ==
  ASSUME Inductive
  PROVE  \A w \in Workers : \A i \in 1 .. Len(clients[w]) :
           clients[w][i] \in Slot /\ clients[w][i].sock \in Conns
<1>1. \A w \in Workers : \A i \in 1 .. Len(clients[w]) : clients[w][i] \in Slot
  BY DEF Inductive, TypeOK
<1> QED BY <1>1 DEF Slot

(* A worker selects, with or without readable sockets. *)
LEMMA WorkerSelectKeeps ==
  ASSUME Inductive, NEW w \in Workers, WorkerSelect(w) PROVE Inductive'
<1>0. /\ wPc[w] = "select"
      /\ ready' = [ready EXCEPT ![w] = Readable(w)] /\ wake' = [wake EXCEPT ![w] = FALSE]
      /\ wPc' = [wPc EXCEPT ![w] = "adopt"]
      /\ UNCHANGED <<stop, listening, backlog, closed, clientVars, answered, accVars,
                     queue, clients, freeBufs, freePeers, cur, turn, mainPc, owed>>
  BY DEF WorkerSelect
<1> USE DEF clientVars, accVars
<1>1. wPc' \in [Workers -> {"top", "select", "adopt", "serve", "request", "exit"}]
  BY <1>0 DEF Inductive, TypeOK
<1>2. Readable(w) \in SUBSET Conns BY SlotsAreSlots DEF Readable, InSlots
<1>3. ready' \in [Workers -> SUBSET Conns] BY <1>0, <1>2 DEF Inductive, TypeOK
<1>4. wake' \in [Workers -> BOOLEAN] BY <1>0 DEF Inductive, TypeOK
<1>5. TypeOK' BY <1>0, <1>1, <1>3, <1>4 DEF Inductive, TypeOK
<1>6. AcceptorHand' BY <1>0 DEF Inductive, AcceptorHand
<1>7. Turns'
  <2>1. wPc'[w] # "request" /\ \A v \in Workers \ {w} : wPc'[v] = wPc[v]
    BY <1>0 DEF Inductive, TypeOK
  <2> QED BY <1>0, <2>1, TurnsGoOn
<1> QED BY <1>0, <1>5, <1>6, <1>7, NothingMoves, SlotsAlone DEF Inductive

(* The first socket of the ring of w is taken out of it. *)
LEMMA RingTail ==
  ASSUME Inductive, NEW w \in Workers, queue[w] # <<>>, queue' = [queue EXCEPT ![w] = Tail(@)]
  PROVE  /\ Head(queue[w]) \in Conns /\ queue' \in [Workers -> Seq(Conns)]
         /\ 1 \in 1 .. Len(queue[w]) /\ queue[w][1] = Head(queue[w])
         /\ RingsApart(queue') /\ RingsOffSlots(queue', clients)
         /\ RingsOff(queue', Elsewhere \cup {Head(queue[w])})
<1>1. queue \in [Workers -> Seq(Conns)] BY DEF Inductive, TypeOK
<1>2. /\ Head(queue[w]) \in Conns /\ Tail(queue[w]) \in Seq(Conns)
      /\ Len(Tail(queue[w])) = Len(queue[w]) - 1 /\ Len(queue[w]) \in Nat \ {0}
      /\ queue[w][1] = Head(queue[w])
      /\ \A i \in 1 .. Len(queue[w]) - 1 : Tail(queue[w])[i] = queue[w][i + 1]
  BY <1>1
<1>3. /\ queue' \in [Workers -> Seq(Conns)] /\ queue'[w] = Tail(queue[w])
      /\ \A v \in Workers \ {w} : queue'[v] = queue[v]
  BY <1>1, <1>2
<1> DEFINE From(v, i) == IF v = w THEN i + 1 ELSE i
<1>4. \A v \in Workers : \A i \in 1 .. Len(queue'[v]) :
        /\ queue'[v][i] = queue[v][From(v, i)] /\ From(v, i) \in 1 .. Len(queue[v])
        /\ v = w => From(v, i) # 1
  BY <1>2, <1>3
<1>5. \A v \in Workers : \A i, j \in 1 .. Len(queue'[v]) : From(v, i) = From(v, j) => i = j
  OBVIOUS
<1> HIDE DEF From
<1>6. /\ RingsApart(queue) /\ RingsOffSlots(queue, clients) /\ RingsOff(queue, Elsewhere)
  BY DEF Inductive, Apart
<1>7. RingsApart(queue')
  <2> SUFFICES ASSUME NEW u \in Workers, NEW v \in Workers,
                      NEW i \in 1 .. Len(queue'[u]), NEW j \in 1 .. Len(queue'[v]),
                      queue'[u][i] = queue'[v][j]
               PROVE  u = v /\ i = j
    BY DEF RingsApart
  <2>1. /\ queue[u][From(u, i)] = queue[v][From(v, j)]
        /\ From(u, i) \in 1 .. Len(queue[u]) /\ From(v, j) \in 1 .. Len(queue[v])
    BY <1>4
  <2>2. u = v /\ From(u, i) = From(v, j) BY <1>6, <2>1 DEF RingsApart
  <2> QED BY <1>5, <2>2
<1>8. RingsOffSlots(queue', clients)
  <2> SUFFICES ASSUME NEW u \in Workers, NEW v \in Workers,
                      NEW i \in 1 .. Len(queue'[u]), NEW j \in 1 .. Len(clients[v])
               PROVE  queue'[u][i] # clients[v][j].sock
    BY DEF RingsOffSlots
  <2>1. queue'[u][i] = queue[u][From(u, i)] /\ From(u, i) \in 1 .. Len(queue[u]) BY <1>4
  <2> QED BY <1>6, <2>1 DEF RingsOffSlots
<1>9. 1 \in 1 .. Len(queue[w]) BY <1>2
<1>10. RingsOff(queue', Elsewhere \cup {Head(queue[w])})
  <2> SUFFICES ASSUME NEW u \in Workers, NEW i \in 1 .. Len(queue'[u])
               PROVE  queue'[u][i] \notin Elsewhere \cup {Head(queue[w])}
    BY DEF RingsOff
  <2>1. /\ queue'[u][i] = queue[u][From(u, i)] /\ From(u, i) \in 1 .. Len(queue[u])
        /\ u = w => From(u, i) # 1
    BY <1>4
  <2>2. queue[u][From(u, i)] # queue[w][1] BY <1>6, <1>9, <2>1 DEF RingsApart
  <2> QED BY <1>2, <1>6, <2>1, <2>2 DEF RingsOff
<1> QED BY <1>2, <1>3, <1>7, <1>8, <1>9, <1>10

(* A worker takes a socket from its ring into a slot, or drops it. *)
LEMMA WorkerAdoptKeeps ==
  ASSUME Inductive, NEW w \in Workers, WorkerAdopt(w) PROVE Inductive'
<1>0. /\ wPc[w] = "adopt"
      /\ UNCHANGED <<stop, listening, backlog, clientVars, answered, accVars, wake,
                     ready, cur, turn, mainPc, owed>>
  BY DEF WorkerAdopt
<1> USE DEF clientVars, accVars
<1>a. AcceptorHand' BY <1>0 DEF Inductive, AcceptorHand
<1>1. CASE /\ wPc' = [wPc EXCEPT ![w] = "serve"]
           /\ UNCHANGED <<queue, clients, freeBufs, freePeers, closed>>
  <2>1. wPc' \in [Workers -> {"top", "select", "adopt", "serve", "request", "exit"}]
    BY <1>1 DEF Inductive, TypeOK
  <2>2. TypeOK' BY <1>0, <1>1, <2>1 DEF Inductive, TypeOK
  <2>3. Turns'
    <3>1. wPc'[w] # "request" /\ \A v \in Workers \ {w} : wPc'[v] = wPc[v]
      BY <1>1 DEF Inductive, TypeOK
    <3> QED BY <1>0, <1>1, <3>1, TurnsGoOn
  <2> QED BY <1>0, <1>1, <1>a, <2>2, <2>3, NothingMoves, SlotsAlone DEF Inductive
<1> DEFINE c == Head(queue[w])
<1>2. CASE /\ queue[w] # <<>> /\ queue' = [queue EXCEPT ![w] = Tail(@)]
           /\ closed' = closed \cup {c} /\ UNCHANGED <<clients, freeBufs, freePeers, wPc>>
  <2>1. /\ c \in Conns /\ queue' \in [Workers -> Seq(Conns)]
        /\ 1 \in 1 .. Len(queue[w]) /\ queue[w][1] = c
        /\ RingsApart(queue') /\ RingsOffSlots(queue', clients)
        /\ RingsOff(queue', Elsewhere \cup {c})
    BY <1>2, RingTail
  <2>2. TypeOK' BY <1>0, <1>2, <2>1 DEF Inductive, TypeOK
  <2>3. Elsewhere' = Elsewhere \cup {c} BY <1>0, <1>2 DEF Elsewhere
  <2>4. c \notin Elsewhere /\ \A v \in Workers : \A j \in 1 .. Len(clients[v]) : c # clients[v][j].sock
    BY <2>1 DEF Inductive, Apart, RingsOff, RingsOffSlots
  <2>5. SlotsOff(clients', Elsewhere')
    BY <1>2, <2>3, <2>4 DEF Inductive, Apart, SlotsOff
  <2>6. NotInBoth' BY <1>0, <1>2, <2>4 DEF Inductive, Apart, NotInBoth, Elsewhere
  <2>7. Apart' BY <1>2, <2>1, <2>3, <2>5, <2>6 DEF Inductive, Apart
  <2> QED BY <1>0, <1>2, <1>a, <2>2, <2>7, SlotsAlone, TurnsAlone DEF Inductive
<1> DEFINE slot == [sock |-> c, buffered |-> 0, buf |-> Last(freeBufs[w]),
                    peer |-> Last(freePeers[w])]
<1>3. CASE /\ queue[w] # <<>> /\ queue' = [queue EXCEPT ![w] = Tail(@)]
           /\ freeBufs[w] # <<>>
           /\ clients' = [clients EXCEPT ![w] = Append(@, slot)]
           /\ freeBufs' = [freeBufs EXCEPT ![w] = Front(@)]
           /\ freePeers' = [freePeers EXCEPT ![w] = Front(@)]
           /\ UNCHANGED <<closed, wPc>>
  <2>1. /\ c \in Conns /\ queue' \in [Workers -> Seq(Conns)]
        /\ 1 \in 1 .. Len(queue[w]) /\ queue[w][1] = c
        /\ RingsApart(queue') /\ RingsOffSlots(queue', clients)
        /\ RingsOff(queue', Elsewhere \cup {c})
    BY <1>3, RingTail
  <2>2. /\ clients \in [Workers -> Seq(Slot)] /\ freeBufs \in [Workers -> Seq(Ids)]
        /\ freePeers \in [Workers -> Seq(Ids)]
    BY DEF Inductive, TypeOK
  <2>3. PoolOf(clients[w], freeBufs[w], freePeers[w]) BY DEF Inductive, Pools
  <2>4. freePeers[w] # <<>>
    <3>1. Len(freePeers[w]) = Len(freeBufs[w]) /\ Len(freeBufs[w]) # 0
      BY <1>3, <2>2, <2>3 DEF PoolOf
    <3> QED BY <3>1
  <2>5. /\ Front(freeBufs[w]) \in Seq(Ids) /\ Last(freeBufs[w]) \in Ids
        /\ Front(freePeers[w]) \in Seq(Ids) /\ Last(freePeers[w]) \in Ids
    BY <1>3, <2>2, <2>4, FrontLast
  <2>6. slot \in Slot BY <2>1, <2>5 DEF Slot
  <2>7. /\ slot.sock = c /\ slot.buffered = 0 /\ slot.buf = Last(freeBufs[w])
        /\ slot.peer = Last(freePeers[w])
    OBVIOUS
  <2> HIDE DEF slot, c
  <2>8. Append(clients[w], slot) \in Seq(Slot) BY <2>2, <2>6
  <2>9. /\ clients' \in [Workers -> Seq(Slot)] /\ freeBufs' \in [Workers -> Seq(Ids)]
        /\ freePeers' \in [Workers -> Seq(Ids)]
    BY <1>3, <2>2, <2>5, <2>8
  <2>10. TypeOK' BY <1>0, <1>3, <2>1, <2>9 DEF Inductive, TypeOK
  <2>11. /\ clients'[w] = Append(clients[w], slot) /\ freeBufs'[w] = Front(freeBufs[w])
         /\ freePeers'[w] = Front(freePeers[w])
         /\ \A v \in Workers \ {w} : /\ clients'[v] = clients[v] /\ freeBufs'[v] = freeBufs[v]
                                    /\ freePeers'[v] = freePeers[v]
    BY <1>3, <2>2
  <2>12. Pools'
    <3>1. PoolOf(Append(clients[w], slot), Front(freeBufs[w]), Front(freePeers[w]))
      BY <1>3, <2>2, <2>3, <2>6, <2>7, PoolAdopts
    <3>2. \A v \in Workers : PoolOf(clients[v], freeBufs[v], freePeers[v])
      BY DEF Inductive, Pools
    <3> QED BY <2>11, <3>1, <3>2 DEF Pools
  <2>13. \A v \in Workers : \A j \in 1 .. Len(clients'[v]) :
           \/ v = w /\ j = Len(clients[w]) + 1 /\ clients'[v][j] = slot
           \/ j \in 1 .. Len(clients[v]) /\ clients'[v][j] = clients[v][j]
    <3>1. /\ Len(clients'[w]) = Len(clients[w]) + 1 /\ Len(clients[w]) \in Nat
          /\ clients'[w][Len(clients[w]) + 1] = slot
          /\ \A j \in 1 .. Len(clients[w]) : clients'[w][j] = clients[w][j]
      BY <2>2, <2>6, <2>11
    <3> QED BY <2>11, <3>1
  <2>14. Turns' BY <1>0, <1>3, <2>11, TurnsGoOn
  <2>15. /\ SlotsApart(clients) /\ SlotsOff(clients, Elsewhere) /\ NotInBoth
         /\ RingsOff(queue, Elsewhere) /\ RingsOffSlots(queue, clients)
    BY DEF Inductive, Apart
  <2>16. c \notin Elsewhere /\ \A v \in Workers : \A j \in 1 .. Len(clients[v]) : c # clients[v][j].sock
    BY <2>1, <2>15 DEF RingsOff, RingsOffSlots
  <2>17. SlotsApart(clients')
    <3> SUFFICES ASSUME NEW u \in Workers, NEW v \in Workers,
                        NEW j \in 1 .. Len(clients'[u]), NEW k \in 1 .. Len(clients'[v]),
                        clients'[u][j].sock = clients'[v][k].sock
                 PROVE  u = v /\ j = k
      BY DEF SlotsApart
    <3>1. \/ u = w /\ j = Len(clients[w]) + 1 /\ clients'[u][j].sock = c
          \/ j \in 1 .. Len(clients[u]) /\ clients'[u][j] = clients[u][j]
      BY <2>7, <2>13
    <3>2. \/ v = w /\ k = Len(clients[w]) + 1 /\ clients'[v][k].sock = c
          \/ k \in 1 .. Len(clients[v]) /\ clients'[v][k] = clients[v][k]
      BY <2>7, <2>13
    <3>3. CASE u = w /\ j = Len(clients[w]) + 1 /\ clients'[u][j].sock = c
      BY <2>16, <3>2, <3>3
    <3>4. CASE j \in 1 .. Len(clients[u]) /\ clients'[u][j] = clients[u][j]
      <4>1. clients'[v][k].sock # c BY <2>16, <3>4
      <4>2. k \in 1 .. Len(clients[v]) /\ clients'[v][k] = clients[v][k] BY <3>2, <4>1
      <4> QED BY <2>15, <3>4, <4>2 DEF SlotsApart
    <3> QED BY <3>1, <3>3, <3>4
  <2>18. Elsewhere' = Elsewhere BY <1>0, <1>3 DEF Elsewhere
  <2>19. SlotsOff(clients', Elsewhere')
    BY <2>7, <2>13, <2>15, <2>16, <2>18 DEF SlotsOff
  <2>20. RingsOffSlots(queue', clients')
    <3> SUFFICES ASSUME NEW u \in Workers, NEW v \in Workers,
                        NEW i \in 1 .. Len(queue'[u]), NEW j \in 1 .. Len(clients'[v])
                 PROVE  queue'[u][i] # clients'[v][j].sock
      BY DEF RingsOffSlots
    <3>1. \/ clients'[v][j].sock = c
          \/ j \in 1 .. Len(clients[v]) /\ clients'[v][j] = clients[v][j]
      BY <2>7, <2>13
    <3> QED BY <2>1, <3>1 DEF RingsOffSlots, RingsOff
  <2>21. RingsOff(queue', Elsewhere') BY <2>1, <2>18 DEF RingsOff
  <2>22. Apart'
    <3>1. NotInBoth' BY <1>0, <1>3, <2>15 DEF NotInBoth
    <3> QED BY <2>1, <2>17, <2>19, <2>20, <2>21, <3>1 DEF Apart
  <2> QED BY <1>a, <2>10, <2>12, <2>14, <2>22 DEF Inductive
<1> QED BY <1>1, <1>2, <1>3 DEF WorkerAdopt

(* A client that sent nothing, or hung up, is looked at. *)
LEMMA ServeQuietKeeps ==
  ASSUME Inductive, NEW w \in Workers, NEW i \in 1 .. Len(clients[w]), ServeQuiet(w, i),
         wPc[w] = "serve",
         UNCHANGED <<stop, listening, backlog, inbox, eof, answered, accVars, wake, queue,
                     wPc, ready, turn, mainPc, owed>>
  PROVE  Inductive'
<1> USE DEF accVars
<1>1. AcceptorHand' BY DEF Inductive, AcceptorHand
<1>2. CASE DropSlot(w, i)
  <2>1. /\ Apart' /\ Pools'
        /\ clients' \in [Workers -> Seq(Slot)] /\ closed' \subseteq Conns
        /\ freeBufs' \in [Workers -> Seq(Ids)] /\ freePeers' \in [Workers -> Seq(Ids)]
        /\ cur' = cur /\ \A v \in Workers \ {w} : clients'[v] = clients[v]
    BY <1>2, DropKeeps
  <2>2. TypeOK' BY <2>1 DEF Inductive, TypeOK
  <2>3. Turns' BY <2>1, TurnsGoOn
  <2> QED BY <1>1, <2>1, <2>2, <2>3 DEF Inductive
<1>3. CASE KeepSlot(w, i, clients[w][i].buffered)
  <2>1. clients[w][i] \in Slot BY SlotsAreSlots
  <2>2. clients[w][i].buffered \in 0 .. BufMax BY <2>1 DEF Slot
  <2>3. /\ Apart' /\ Pools'
        /\ clients' \in [Workers -> Seq(Slot)] /\ closed' \subseteq Conns
        /\ freeBufs' \in [Workers -> Seq(Ids)] /\ freePeers' \in [Workers -> Seq(Ids)]
        /\ cur' \in [Workers -> 1 .. MaxClients + 1]
        /\ \A v \in Workers \ {w} : clients'[v] = clients[v] /\ cur'[v] = cur[v]
    BY <1>3, <2>2, KeepKeeps
  <2>4. TypeOK' BY <2>3 DEF Inductive, TypeOK
  <2>5. Turns' BY <2>3, TurnsGoOn
  <2> QED BY <1>1, <2>3, <2>4, <2>5 DEF Inductive
<1> QED BY <1>2, <1>3 DEF ServeQuiet

(* A client's bytes are received, and the turn of its connection begins. *)
LEMMA ServeBytesKeeps ==
  ASSUME Inductive, NEW w \in Workers, cur[w] \in 1 .. Len(clients[w]),
         ServeBytes(w, cur[w]), wPc[w] = "serve",
         UNCHANGED <<stop, listening, backlog, eof, answered, accVars, wake, queue,
                     ready, mainPc>>
  PROVE  Inductive'
<1> DEFINE i == cur[w]
           slot == clients[w][i]
           c == slot.sock
           got == Min({inbox[c], RecvRoom(slot)})
           n == slot.buffered + got
<1> USE DEF accVars
<1>1. AcceptorHand' BY DEF Inductive, AcceptorHand
<1>2. slot \in Slot /\ c \in Conns BY SlotsAreSlots
<1>3. slot.buffered \in 0 .. BufMax BY <1>2 DEF Slot
<1>4. inbox \in [Conns -> 0 .. MaxUnits] /\ inbox[c] \in 0 .. MaxUnits
  BY <1>2 DEF Inductive, TypeOK
<1>5. RecvRoom(slot) \in Nat /\ RecvRoom(slot) = BufMax - slot.buffered
  BY <1>3 DEF RecvRoom
<1>6. got \in Nat /\ got <= inbox[c] /\ got <= RecvRoom(slot)
  <2>1. {inbox[c], RecvRoom(slot)} \in SUBSET Nat /\ {inbox[c], RecvRoom(slot)} # {}
    BY <1>4, <1>5
  <2> QED BY <1>4, <1>5, <2>1, MinIsLeast
<1>7. /\ inbox' = [inbox EXCEPT ![c] = @ - got]
      /\ clients' = [clients EXCEPT ![w][i].buffered = n]
      /\ turn' = [turn EXCEPT ![w] = NewTurn(DrainDrop(w, i))]
      /\ owed' = IF n >= ReqLen[c] THEN owed \cup {c} ELSE owed
      /\ wPc' = [wPc EXCEPT ![w] = "request"]
      /\ UNCHANGED <<closed, freeBufs, freePeers, cur>>
  BY DEF ServeBytes
<1> HIDE DEF got
<1>8. n \in 0 .. BufMax BY <1>3, <1>5, <1>6
<1> HIDE DEF n
<1>9. inbox' \in [Conns -> 0 .. MaxUnits]
  <2>1. inbox[c] - got \in 0 .. MaxUnits
    <3> DEFINE a == inbox[c]
    <3>1. a \in 0 .. MaxUnits /\ got \in Nat /\ got <= a BY <1>4, <1>6
    <3> HIDE DEF a
    <3>2. a - got \in 0 .. MaxUnits BY <3>1
    <3> QED BY <3>2 DEF a
  <2> QED BY <1>4, <1>7, <2>1
<1>10. /\ Apart' /\ Pools' /\ clients' \in [Workers -> Seq(Slot)]
       /\ \A v \in Workers \ {w} : clients'[v] = clients[v]
       /\ Len(clients'[w]) = Len(clients[w])
       /\ clients'[w][i].sock = c /\ clients'[w][i].buffered = n
  <2>1. Refilled(w, i, n) BY <1>7 DEF Refilled
  <2>2. UNCHANGED <<backlog, closed, accSock, queue, freeBufs, freePeers>> BY <1>7
  <2>3. i \in 1 .. Len(clients[w]) OBVIOUS
  <2> HIDE DEF i
  <2> QED BY <1>8, <2>1, <2>2, <2>3, BufferKeeps
<1>11. turn' \in [Workers -> Progress]
  <2>1. DrainDrop(w, i) \in BOOLEAN BY DEF DrainDrop, Inductive, TypeOK
  <2>2. NewTurn(DrainDrop(w, i)) \in Progress BY <2>1 DEF NewTurn, Progress
  <2> QED BY <1>7, <2>2 DEF Inductive, TypeOK
<1>12. TypeOK'
  <2>1. wPc' \in [Workers -> {"top", "select", "adopt", "serve", "request", "exit"}]
    BY <1>7 DEF Inductive, TypeOK
  <2>2. owed' \subseteq Conns BY <1>2, <1>7 DEF Inductive, TypeOK
  <2> QED BY <1>7, <1>9, <1>10, <1>11, <2>1, <2>2 DEF Inductive, TypeOK
<1>13. /\ turn'[w] = NewTurn(DrainDrop(w, i)) /\ wPc'[w] = "request"
       /\ \A v \in Workers \ {w} : wPc'[v] = wPc[v] /\ turn'[v] = turn[v]
  BY <1>7 DEF Inductive, TypeOK
<1>14. ASSUME NEW d \in owed
       PROVE  \E v \in Workers \ {w} : wPc[v] = "request" /\ clients[v][cur[v]].sock = d
  BY DEF Inductive, Turns, OwedInTurn
<1>15. OwedInTurn'
  <2> SUFFICES ASSUME NEW d \in owed'
               PROVE  \E v \in Workers : wPc'[v] = "request" /\ clients'[v][cur'[v]].sock = d
    BY DEF OwedInTurn
  <2>1. CASE d = c BY <1>7, <1>10, <1>13, <2>1
  <2>2. CASE d # c
    <3>1. d \in owed BY <1>7, <2>2
    <3>2. PICK v \in Workers \ {w} : wPc[v] = "request" /\ clients[v][cur[v]].sock = d
      BY <1>14, <3>1
    <3> QED BY <1>7, <1>10, <1>13, <3>2
  <2> QED BY <2>1, <2>2
<1>16. SlotsApart(clients) BY DEF Inductive, Apart
<1>17. c \notin owed
  <2> SUFFICES ASSUME c \in owed PROVE FALSE OBVIOUS
  <2>1. PICK v \in Workers \ {w} : wPc[v] = "request" /\ clients[v][cur[v]].sock = c
    BY <1>14
  <2>2. cur[v] \in 1 .. Len(clients[v]) BY <2>1 DEF Inductive, Turns, TurnOf
  <2> QED BY <1>16, <2>1, <2>2 DEF SlotsApart
<1>18. ASSUME NEW v \in Workers, wPc'[v] = "request" PROVE TurnOf(v)'
  <2>1. CASE v = w
    <3>1. turn'[w].parsed = 0 /\ turn'[w].more = TRUE BY <1>13 DEF NewTurn
    <3>2. c \in owed' => n >= ReqLen[c] BY <1>7, <1>17
    <3>3. n - 0 = n /\ 0 <= n BY <1>8
    <3> QED BY <1>7, <1>10, <2>1, <3>1, <3>2, <3>3 DEF TurnOf
  <2>2. CASE v # w
    <3>1. TurnOf(v) BY <1>13, <1>18, <2>2 DEF Inductive, Turns
    <3>2. clients[v][cur[v]].sock # c
      BY <1>16, <2>2, <3>1 DEF SlotsApart, TurnOf
    <3>3. clients[v][cur[v]].sock \in owed' => clients[v][cur[v]].sock \in owed
      BY <1>7, <3>2
    <3> QED BY <1>7, <1>10, <1>13, <2>2, <3>1, <3>3 DEF TurnOf
  <2> QED BY <2>1, <2>2
<1> QED BY <1>1, <1>10, <1>12, <1>15, <1>18 DEF Inductive, Turns

(* One iteration over the clients. *)
LEMMA WorkerServeKeeps ==
  ASSUME Inductive, NEW w \in Workers, WorkerServe(w) PROVE Inductive'
<1>0. /\ wPc[w] = "serve"
      /\ UNCHANGED <<stop, listening, backlog, eof, answered, accVars, wake, queue, mainPc>>
  BY DEF WorkerServe
<1>1. CASE /\ wPc' = [wPc EXCEPT ![w] = "top"] /\ ready' = [ready EXCEPT ![w] = {}]
           /\ cur' = [cur EXCEPT ![w] = 1]
           /\ UNCHANGED <<closed, clients, freeBufs, freePeers, inbox, turn, owed>>
  <2> USE DEF accVars
  <2>1. wPc' \in [Workers -> {"top", "select", "adopt", "serve", "request", "exit"}]
    BY <1>1 DEF Inductive, TypeOK
  <2>2. ready' \in [Workers -> SUBSET Conns] BY <1>1 DEF Inductive, TypeOK
  <2>3. cur' \in [Workers -> 1 .. MaxClients + 1]
    <3>1. 1 \in 1 .. MaxClients + 1 OBVIOUS
    <3> QED BY <1>1, <3>1 DEF Inductive, TypeOK
  <2>4. TypeOK' BY <1>0, <1>1, <2>1, <2>2, <2>3 DEF Inductive, TypeOK
  <2>5. AcceptorHand' BY <1>0 DEF Inductive, AcceptorHand
  <2>6. Turns'
    <3>1. /\ wPc'[w] # "request"
          /\ \A v \in Workers \ {w} : wPc'[v] = wPc[v] /\ cur'[v] = cur[v]
      BY <1>1 DEF Inductive, TypeOK
    <3> QED BY <1>0, <1>1, <3>1, TurnsGoOn
  <2> QED BY <1>0, <1>1, <2>4, <2>5, <2>6, NothingMoves, SlotsAlone DEF Inductive
<1>2. CASE /\ ~(cur[w] > Len(clients[w])) /\ UNCHANGED ready
           /\ \/ ServeQuiet(w, cur[w]) /\ UNCHANGED <<wPc, inbox, turn, owed>>
              \/ ServeBytes(w, cur[w])
  <2>1. cur[w] \in 1 .. Len(clients[w])
    <3>1. cur[w] \in 1 .. MaxClients + 1 /\ clients[w] \in Seq(Slot) BY DEF Inductive, TypeOK
    <3> QED BY <1>2, <3>1
  <2> QED BY <1>0, <1>2, <2>1, ServeQuietKeeps, ServeBytesKeeps
<1> QED BY <1>1, <1>2 DEF WorkerServe

(* What is known of the turn worker w is in. *)
LEMMA TurnFacts ==
  ASSUME Inductive, NEW w \in Workers, wPc[w] = "request"
  PROVE  /\ TurnOf(w) /\ turn[w] \in Progress
         /\ turn[w].parsed \in Nat /\ turn[w].more \in BOOLEAN /\ turn[w].keep \in BOOLEAN
         /\ clients[w][cur[w]] \in Slot /\ clients[w][cur[w]].sock \in Conns
         /\ clients[w][cur[w]].buffered \in 0 .. BufMax
         /\ ReqLen[clients[w][cur[w]].sock] \in Nat \ {0}
<1>1. TurnOf(w) BY DEF Inductive, Turns
<1>2. cur[w] \in 1 .. Len(clients[w]) BY <1>1 DEF TurnOf
<1>3. turn[w] \in Progress BY DEF Inductive, TypeOK
<1>4. turn[w].parsed \in Nat /\ turn[w].more \in BOOLEAN /\ turn[w].keep \in BOOLEAN
  BY <1>3 DEF Progress
<1>5. clients[w][cur[w]] \in Slot /\ clients[w][cur[w]].sock \in Conns BY <1>2, SlotsAreSlots
<1>6. clients[w][cur[w]].buffered \in 0 .. BufMax BY <1>5 DEF Slot
<1> QED BY <1>1, <1>3, <1>4, <1>5, <1>6

(* What the others are owed is the business of their workers. *)
LEMMA OthersOwed ==
  ASSUME Inductive, NEW w \in Workers, wPc[w] = "request",
         NEW d \in owed, d # clients[w][cur[w]].sock
  PROVE  \E v \in Workers \ {w} : wPc[v] = "request" /\ clients[v][cur[v]].sock = d
BY DEF Inductive, Turns, OwedInTurn

(* What handling a request leaves to be said: it consumes no more than     *)
(* there is, and stays silent only over part of a request.                 *)
LEMMA OutcomeFacts ==
  ASSUME NEW left \in Nat, NEW L \in Nat \ {0}, NEW r \in Outcomes(left, L)
  PROVE  /\ r.consumed \in Nat /\ r.consumed <= left
         /\ r.keep \in BOOLEAN /\ r.replied \in BOOLEAN
         /\ ~r.replied => left < L
<1>1. CASE r \in [consumed : {0}, keep : {TRUE}, replied : {FALSE}] /\ left < L
  <2>1. r.consumed = 0 /\ r.keep = TRUE /\ r.replied = FALSE BY <1>1
  <2>2. r.consumed \in Nat /\ r.consumed <= left BY ONLY <2>1, left \in Nat
  <2>3. r.keep \in BOOLEAN /\ r.replied \in BOOLEAN BY ONLY <2>1
  <2> QED BY ONLY <1>1, <2>2, <2>3
<1>2. CASE r \in [consumed : {L}, keep : BOOLEAN, replied : {TRUE}] /\ ~(left < L)
  <2>1. r.consumed = L /\ r.keep \in BOOLEAN /\ r.replied = TRUE BY <1>2
  <2>2. L <= left BY <1>2
  <2> QED BY <2>1, <2>2
<1>3. CASE r \in [consumed : {0, left}, keep : {FALSE}, replied : {TRUE}]
  <2>1. r.consumed \in {0, left} /\ r.keep = FALSE /\ r.replied = TRUE BY <1>3
  <2>2. r.consumed \in Nat /\ r.consumed <= left BY ONLY <2>1, left \in Nat
  <2>3. r.keep \in BOOLEAN /\ r.replied \in BOOLEAN BY ONLY <2>1
  <2> QED BY ONLY <2>1, <2>2, <2>3
<1> QED BY <1>1, <1>2, <1>3 DEF Outcomes

(* One request of the buffer is handled. *)
LEMMA HandleRequestKeeps ==
  ASSUME Inductive, NEW w \in Workers, HandleRequest(w) PROVE Inductive'
<1> DEFINE slot == clients[w][cur[w]]
           c == slot.sock
           left == slot.buffered - turn[w].parsed
           L == ReqLen[c]
<1>0. /\ wPc[w] = "request" /\ RequestLeft(w)
      /\ UNCHANGED <<stop, listening, backlog, closed, clientVars, accVars, wake, queue, wPc,
                     clients, freeBufs, freePeers, ready, cur, mainPc>>
  BY DEF HandleRequest
<1>1. PICK r \in Outcomes(left, L) :
        /\ turn' = [turn EXCEPT ![w].more = r.consumed # 0, ![w].parsed = @ + r.consumed,
                                ![w].keep = @ /\ r.keep]
        /\ answered' = [answered EXCEPT ![c] = @ \/ r.replied]
        /\ owed' = IF r.replied /\ (r.consumed = 0 \/ left - r.consumed < L)
                     THEN owed \ {c} ELSE owed
  BY DEF HandleRequest
<1> USE DEF clientVars, accVars
<1>2. /\ TurnOf(w) /\ turn[w] \in Progress
      /\ turn[w].parsed \in Nat /\ turn[w].more \in BOOLEAN /\ turn[w].keep \in BOOLEAN
      /\ c \in Conns /\ slot.buffered \in 0 .. BufMax /\ L \in Nat \ {0}
  BY <1>0, TurnFacts
<1>3. /\ turn[w].more /\ turn[w].parsed < slot.buffered BY <1>0 DEF RequestLeft
<1>4. left \in Nat /\ left > 0 /\ turn[w].parsed + left = slot.buffered BY <1>2, <1>3
<1>5. /\ r.consumed \in Nat /\ r.consumed <= left /\ r.keep \in BOOLEAN /\ r.replied \in BOOLEAN
      /\ ~r.replied => left < L
  BY <1>1, <1>2, <1>4, OutcomeFacts
<1> DEFINE t == [turn[w] EXCEPT !.more = r.consumed # 0, !.parsed = @ + r.consumed,
                                !.keep = @ /\ r.keep]
<1>6. turn' = [turn EXCEPT ![w] = t]
  BY <1>1 DEF Inductive, TypeOK
<1>7. /\ t.more = (r.consumed # 0) /\ t.parsed = turn[w].parsed + r.consumed
      /\ t \in Progress
  <2>1. turn[w].parsed + r.consumed \in 0 .. BufMax BY <1>2, <1>4, <1>5
  <2>2. turn[w] \in [drop : BOOLEAN, more : BOOLEAN, parsed : 0 .. BufMax, keep : BOOLEAN]
    BY <1>2 DEF Progress
  <2> QED BY ONLY <1>5, <2>1, <2>2 DEF Progress
<1> HIDE DEF t
<1>8. /\ turn' \in [Workers -> Progress] /\ turn'[w] = t
      /\ \A v \in Workers \ {w} : turn'[v] = turn[v]
  BY <1>6, <1>7 DEF Inductive, TypeOK
<1>9. answered' \in [Conns -> BOOLEAN] /\ owed' \subseteq owed
  <2>1. answered \in [Conns -> BOOLEAN] BY DEF Inductive, TypeOK
  <2> QED BY <1>1, <1>5, <2>1
<1>10. TypeOK' BY <1>0, <1>8, <1>9 DEF Inductive, TypeOK
<1>11. AcceptorHand' BY <1>0 DEF Inductive, AcceptorHand
<1>12. OwedInTurn' BY <1>0, <1>9 DEF Inductive, Turns, OwedInTurn
<1>13. ASSUME NEW v \in Workers, wPc'[v] = "request" PROVE TurnOf(v)'
  <2>1. CASE v = w
    <3> DEFINE p == turn[w].parsed
               k == r.consumed
               b == slot.buffered
    <3>1. p \in Nat /\ k \in Nat /\ b \in Nat /\ left = b - p /\ k <= left BY <1>2, <1>5
    <3>2. p + k <= b /\ b - (p + k) = left - k BY <1>4, <3>1
    <3>3. c \in owed' => k # 0 /\ left - k >= L
      <4>1. SUFFICES ASSUME c \in owed' PROVE k # 0 /\ left - k >= L OBVIOUS
      <4>2. c \in owed BY <1>9, <4>1
      <4>3. left >= L BY <1>2, <4>2 DEF TurnOf
      <4>4. r.replied BY <1>2, <1>4, <1>5, <4>3
      <4>5. ~(k = 0 \/ left - k < L) BY <1>1, <4>1, <4>4
      <4> QED BY <1>2, <1>4, <3>1, <4>5
    <3> HIDE DEF p, k, b, left, L
    <3>4. t.parsed = p + k /\ t.more = (k # 0) BY <1>7 DEF p, k
    <3>5. clients'[w][cur'[w]] = slot /\ cur'[w] \in 1 .. Len(clients'[w])
      BY <1>0, <1>2 DEF TurnOf
    <3>6. turn'[w].parsed <= b BY <1>8, <3>2, <3>4
    <3>7. c \in owed' => turn'[w].more /\ b - turn'[w].parsed >= L
      BY <1>8, <3>2, <3>3, <3>4
    <3> QED BY <2>1, <3>5, <3>6, <3>7 DEF TurnOf, b, L
  <2>2. CASE v # w
    <3>1. TurnOf(v) BY <1>0, <1>13 DEF Inductive, Turns
    <3> QED BY <1>0, <1>8, <1>9, <2>2, <3>1 DEF TurnOf
  <2> QED BY <2>1, <2>2
<1> QED BY <1>0, <1>10, <1>11, <1>12, <1>13, NothingMoves, SlotsAlone DEF Inductive, Turns

(* The turn of a connection is over. *)
LEMMA FinishTurnKeeps ==
  ASSUME Inductive, NEW w \in Workers, FinishTurn(w) PROVE Inductive'
<1> DEFINE slot == clients[w][cur[w]]
           c == slot.sock
           rest == slot.buffered - turn[w].parsed
<1>0. /\ wPc[w] = "request" /\ ~RequestLeft(w)
      /\ answered' = [answered EXCEPT ![c] = @ \/ BufferFull(rest)]
      /\ owed' = IF BufferFull(rest) THEN owed \ {c} ELSE owed
      /\ DropSlot(w, cur[w]) \/ KeepSlot(w, cur[w], rest)
      /\ wPc' = [wPc EXCEPT ![w] = "serve"]
      /\ turn' = [turn EXCEPT ![w] = NewTurn(FALSE)]
      /\ UNCHANGED <<stop, listening, backlog, clientVars, accVars, wake, queue, ready, mainPc>>
  BY DEF FinishTurn
<1> USE DEF clientVars, accVars
<1>1. /\ TurnOf(w) /\ turn[w].parsed \in Nat /\ turn[w].more \in BOOLEAN
      /\ c \in Conns /\ slot.buffered \in 0 .. BufMax /\ ReqLen[c] \in Nat \ {0}
  BY <1>0, TurnFacts
<1>2. cur[w] \in 1 .. Len(clients[w]) /\ turn[w].parsed <= slot.buffered BY <1>1 DEF TurnOf
<1>3. rest \in 0 .. BufMax
  <2> DEFINE b == slot.buffered
             p == turn[w].parsed
  <2>1. b \in 0 .. BufMax /\ p \in Nat /\ p <= b BY <1>1, <1>2
  <2> HIDE DEF b, p
  <2>2. b - p \in 0 .. BufMax BY <2>1
  <2> QED BY <2>2 DEF b, p
<1>4. c \notin owed
  <2> SUFFICES ASSUME c \in owed PROVE FALSE OBVIOUS
  <2>1. turn[w].more /\ rest >= ReqLen[c] BY <1>1 DEF TurnOf
  <2>2. turn[w].parsed < slot.buffered BY <1>1, <2>1
  <2> QED BY <1>0, <2>1, <2>2 DEF RequestLeft
<1>5. owed' = owed BY <1>0, <1>4
<1> HIDE DEF rest
<1>6. /\ Apart' /\ Pools'
      /\ clients' \in [Workers -> Seq(Slot)] /\ closed' \subseteq Conns
      /\ freeBufs' \in [Workers -> Seq(Ids)] /\ freePeers' \in [Workers -> Seq(Ids)]
      /\ cur' \in [Workers -> 1 .. MaxClients + 1]
      /\ \A v \in Workers \ {w} : clients'[v] = clients[v] /\ cur'[v] = cur[v]
  <2>1. CASE DropSlot(w, cur[w])
    <3>1. cur \in [Workers -> 1 .. MaxClients + 1] BY DEF Inductive, TypeOK
    <3> QED BY <1>0, <1>2, <2>1, <3>1, DropKeeps
  <2>2. CASE KeepSlot(w, cur[w], rest) BY <1>0, <1>2, <1>3, <2>2, KeepKeeps
  <2> QED BY <1>0, <2>1, <2>2
<1>7. /\ wPc'[w] = "serve" /\ \A v \in Workers \ {w} : wPc'[v] = wPc[v] /\ turn'[v] = turn[v]
      /\ wPc' \in [Workers -> {"top", "select", "adopt", "serve", "request", "exit"}]
  BY <1>0 DEF Inductive, TypeOK
<1>8. turn' \in [Workers -> Progress]
  <2>1. NewTurn(FALSE) \in Progress BY DEF NewTurn, Progress
  <2> QED BY <1>0, <2>1 DEF Inductive, TypeOK
<1>9. answered' \in [Conns -> BOOLEAN]
  <2>1. answered \in [Conns -> BOOLEAN] /\ BufferFull(rest) \in BOOLEAN
    BY DEF Inductive, TypeOK, BufferFull
  <2> QED BY <1>0, <2>1
<1>10. TypeOK' BY <1>0, <1>5, <1>6, <1>7, <1>8, <1>9 DEF Inductive, TypeOK
<1>11. AcceptorHand' BY <1>0 DEF Inductive, AcceptorHand
<1>12. OwedInTurn'
  <2> SUFFICES ASSUME NEW d \in owed
               PROVE  \E v \in Workers : wPc'[v] = "request" /\ clients'[v][cur'[v]].sock = d
    BY <1>5 DEF OwedInTurn
  <2>1. PICK v \in Workers \ {w} : wPc[v] = "request" /\ clients[v][cur[v]].sock = d
    BY <1>0, <1>4, OthersOwed
  <2> QED BY <1>6, <1>7, <2>1
<1>13. ASSUME NEW v \in Workers, wPc'[v] = "request" PROVE TurnOf(v)'
  <2>1. v # w BY <1>7, <1>13
  <2>2. TurnOf(v) BY <1>7, <1>13, <2>1 DEF Inductive, Turns
  <2> QED BY <1>5, <1>6, <1>7, <2>1, <2>2 DEF TurnOf
<1> QED BY <1>6, <1>10, <1>11, <1>12, <1>13 DEF Inductive, Turns

-----------------------------------------------------------------------------
(* main, and all of them. *)

(* The tail of main. *)
LEMMA MainKeeps == ASSUME Inductive, Main PROVE Inductive'
<1> USE DEF clientVars, accVars, workVars
<1>1. CASE MainCloseListener
  <2>0. /\ listening' = FALSE /\ backlog' = {} /\ closed' = closed \cup backlog
        /\ mainPc' = "join"
        /\ UNCHANGED <<stop, clientVars, answered, accVars, wake, queue, workVars, owed>>
    BY <1>1 DEF MainCloseListener
  <2>1. TypeOK' BY <2>0 DEF Inductive, TypeOK
  <2>2. AcceptorHand' BY <2>0 DEF Inductive, AcceptorHand
  <2>3. Elsewhere' = Elsewhere BY <2>0 DEF Elsewhere
  <2>4. NotInBoth' BY <2>0 DEF Inductive, Apart, NotInBoth
  <2>5. Apart' BY <2>0, <2>3, <2>4 DEF Inductive, Apart
  <2> QED BY <2>0, <2>1, <2>2, <2>5, SlotsAlone, TurnsAlone DEF Inductive
<1>2. CASE MainJoin
  <2>0. /\ mainPc' = "done"
        /\ UNCHANGED <<stop, listening, backlog, closed, clientVars, answered, accVars,
                       wake, queue, workVars, owed>>
    BY <1>2 DEF MainJoin
  <2>1. TypeOK' BY <2>0 DEF Inductive, TypeOK
  <2>2. AcceptorHand' BY <2>0 DEF Inductive, AcceptorHand
  <2> QED BY <2>0, <2>1, <2>2, NothingMoves, SlotsAlone, TurnsAlone DEF Inductive
<1> QED BY <1>1, <1>2 DEF Main

(* Every step keeps the invariant. *)
LEMMA NextInductive == ASSUME Inductive, [Next]_vars PROVE Inductive'
<1>1. CASE UNCHANGED vars
  <2> USE <1>1 DEF vars, clientVars, accVars, workVars
  <2>1. TypeOK' BY DEF Inductive, TypeOK
  <2>2. AcceptorHand' BY DEF Inductive, AcceptorHand
  <2> QED BY <2>1, <2>2, NothingMoves, SlotsAlone, TurnsAlone DEF Inductive
<1>2. CASE Acceptor BY <1>2, AccLooksKeeps, AccAcceptKeeps, AccDispatchKeeps DEF Acceptor
<1>3. ASSUME NEW w \in Workers, Worker(w) PROVE Inductive'
  BY <1>3, WorkerTopKeeps, WorkerSelectKeeps, WorkerAdoptKeeps, WorkerServeKeeps,
     HandleRequestKeeps, FinishTurnKeeps DEF Worker
<1>4. CASE Main BY <1>4, MainKeeps
<1>5. CASE Environment
  BY <1>5, ConnectKeeps, SendKeeps, HangUpKeeps, SignalKeeps DEF Environment
<1> QED BY <1>1, <1>2, <1>3, <1>4, <1>5 DEF Next

(* The invariant holds in every reachable state. *)
LEMMA InductiveHolds == Spec => []Inductive
BY InitInductive, NextInductive, PTL DEF Spec

-----------------------------------------------------------------------------
(* A set whose members are all equal has at most one. *)
LEMMA AtMostOne == ASSUME NEW S, \A x, y \in S : x = y PROVE Cardinality(S) <= 1
<1>1. CASE S = {} BY <1>1, FS_EmptySet
<1>2. CASE S # {}
  <2>1. PICK x : x \in S BY <1>2
  <2>2. S = {x} BY <2>1
  <2> QED BY <2>2, FS_Singleton
<1> QED BY <1>1, <1>2

(* The pairwise facts say that a socket is in one place. *)
LEMMA OnePlace == ASSUME Inductive PROVE Ownership
<1> SUFFICES ASSUME NEW c \in Conns PROVE \A x, y \in Places(c) : x = y
  BY AtMostOne DEF Ownership
<1> DEFINE R == UNION {{<<"ring", w, i>> : i \in {j \in 1 .. Len(queue[w]) : queue[w][j] = c}}
                      : w \in Workers}
           S == UNION {{<<"slot", w, i>> :
                         i \in {j \in 1 .. Len(clients[w]) : clients[w][j].sock = c}}
                      : w \in Workers}
           E == (IF c \in backlog THEN {<<"backlog">>} ELSE {})
                  \cup (IF c = accSock THEN {<<"acceptor">>} ELSE {})
                  \cup (IF c \in closed THEN {<<"closed">>} ELSE {})
<1>0. Places(c) = E \cup R \cup S BY DEF Places
<1>a. /\ RingsApart(queue) /\ SlotsApart(clients) /\ RingsOffSlots(queue, clients)
      /\ RingsOff(queue, Elsewhere) /\ SlotsOff(clients, Elsewhere) /\ NotInBoth
  BY DEF Inductive, Apart
<1>1. \A x \in R : \E w \in Workers : \E i \in 1 .. Len(queue[w]) :
        queue[w][i] = c /\ x = <<"ring", w, i>>
  OBVIOUS
<1>2. \A x \in S : \E w \in Workers : \E i \in 1 .. Len(clients[w]) :
        clients[w][i].sock = c /\ x = <<"slot", w, i>>
  OBVIOUS
<1>3. \A x, y \in E : x = y BY <1>a DEF NotInBoth
<1>4. E # {} => c \in Elsewhere BY DEF Elsewhere
<1> HIDE DEF E, R, S
<1>5. \A x, y \in R : x = y BY <1>1, <1>a DEF RingsApart
<1>6. ASSUME NEW x \in S, NEW y \in S PROVE x = y
  <2>1. PICK w \in Workers : \E i \in 1 .. Len(clients[w]) :
          clients[w][i].sock = c /\ x = <<"slot", w, i>>
    BY <1>2
  <2>2. PICK v \in Workers : \E j \in 1 .. Len(clients[v]) :
          clients[v][j].sock = c /\ y = <<"slot", v, j>>
    BY <1>2
  <2>3. PICK i \in 1 .. Len(clients[w]) : clients[w][i].sock = c /\ x = <<"slot", w, i>>
    BY <2>1
  <2>4. PICK j \in 1 .. Len(clients[v]) : clients[v][j].sock = c /\ y = <<"slot", v, j>>
    BY <2>2
  <2>5. w = v /\ i = j BY <1>a, <2>3, <2>4 DEF SlotsApart
  <2> QED BY ONLY <2>3, <2>4, <2>5
<1>7. R # {} => c \notin Elsewhere /\ S = {}
  <2> SUFFICES ASSUME NEW x \in R PROVE c \notin Elsewhere /\ S = {} OBVIOUS
  <2>1. PICK w \in Workers : \E i \in 1 .. Len(queue[w]) : queue[w][i] = c BY <1>1
  <2>2. PICK i \in 1 .. Len(queue[w]) : queue[w][i] = c BY <2>1
  <2>3. c \notin Elsewhere BY <1>a, <2>2 DEF RingsOff
  <2>4. ASSUME NEW y \in S PROVE FALSE
    <3>1. PICK v \in Workers : \E j \in 1 .. Len(clients[v]) : clients[v][j].sock = c BY <1>2
    <3>2. PICK j \in 1 .. Len(clients[v]) : clients[v][j].sock = c BY <3>1
    <3> QED BY <1>a, <2>2, <3>2, Zenon DEF RingsOffSlots
  <2> QED BY <2>3, <2>4
<1>8. S # {} => c \notin Elsewhere BY <1>2, <1>a DEF SlotsOff
<1> QED BY <1>0, <1>3, <1>4, <1>5, <1>6, <1>7, <1>8

(* A socket is in one place only, for every number of workers, clients,    *)
(* slots and ring places: the backlog, the acceptor, one position of one   *)
(* ring, one slot of one worker, or closed.                                *)
THEOREM SocketsOwned == Spec => []Ownership
BY OnePlace, InductiveHolds, PTL

(* No receive buffer and no peer string is lost or owned twice, whatever   *)
(* order slots are dropped, swapped and adopted in.                        *)
THEOREM PoolsWhole == Spec => []PoolInv
<1>1. ASSUME Inductive PROVE PoolInv
  BY <1>1, OnePlace DEF Inductive, PoolInv, PoolDiscipline, Pools, PoolOf
<1> QED BY <1>1, InductiveHolds, PTL

(* No request that was received whole waits in its buffer while the worker *)
(* goes on, and no connection is closed over one, however the requests are *)
(* cut into receives, whichever of them asks to close and whenever a stop  *)
(* begins the drain.                                                       *)
THEOREM WholeRequestsAnswered == Spec => []NoneIgnored
<1>1. ASSUME Inductive PROVE NoneIgnored
  <2> SUFFICES ASSUME NEW c \in owed
               PROVE  /\ c \notin closed
                      /\ \E w \in Workers : wPc[w] = "request" /\ clients[w][cur[w]].sock = c
    BY DEF NoneIgnored
  <2>1. PICK w \in Workers : wPc[w] = "request" /\ clients[w][cur[w]].sock = c
    BY <1>1 DEF Inductive, Turns, OwedInTurn
  <2>2. cur[w] \in 1 .. Len(clients[w]) BY <1>1, <2>1 DEF Inductive, Turns, TurnOf
  <2>3. c \notin Elsewhere BY <1>1, <2>1, <2>2 DEF Inductive, Apart, SlotsOff
  <2> QED BY <2>1, <2>3 DEF Elsewhere
<1> QED BY <1>1, InductiveHolds, PTL
=============================================================================
