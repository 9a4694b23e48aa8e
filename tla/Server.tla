------------------------------- MODULE Server -------------------------------
(***************************************************************************)
(* The threads of a generated Orbit server: the acceptor                   *)
(* (runtime/thread_pool.c, orbit_acceptor_loop), the workers and main      *)
(* (compiler/emit/route_runtime.orb, serverMainText), with the clients and *)
(* the kernel's socket buffers as their environment.                       *)
(*                                                                         *)
(* Bytes are counted in units: client c sends requests of ReqLen[c] units  *)
(* one after the other, and a receive buffer holds BufMax of them.  What   *)
(* handling one request does is abstracted to what the worker sees of it:  *)
(* how much it consumed, whether it keeps the connection, whether it ran   *)
(* out of its memory budget (HttpFraming models the parsing, Request the   *)
(* handling; a request has a proper request line).  The accept rings are the FIFOs of BoundedFIFO,   *)
(* which AcceptQueue is shown to implement.                                *)
(***************************************************************************)
EXTENDS Naturals, FiniteSets, SequencesExt

CONSTANTS NumWorkers,  \* worker threads; worker 0 is the main thread
          Conns,       \* the connections clients open
          NoConn,
          ReqLen,      \* units of one request of each connection
          RingBound,   \* sockets an accept ring holds (ORBIT_ACCEPT_Q_CAP - 1)
          MaxClients,  \* slots of a worker (512)
          BufMax,      \* units of a receive buffer (16384 - 1)
          MaxUnits     \* bound: units a socket holds that were not received

ASSUME ServerAssumption ==
  /\ NumWorkers \in Nat \ {0}
  /\ NoConn \notin Conns
  /\ ReqLen \in [Conns -> Nat \ {0}]
  /\ RingBound \in Nat \ {0}
  /\ MaxClients \in Nat \ {0}
  /\ BufMax \in Nat \ {0}
  /\ MaxUnits \in Nat

Workers == 0 .. NumWorkers - 1

VARIABLES
  stop,       \* orbit_stop_flag
  listening,  \* server_sock is open
  backlog,    \* connections the kernel completed and nobody accepted
  closed,     \* connections the server or its exit closed
  inbox,      \* units sent by the client and not yet received
  eof,        \* the client closed or reset its side
  answered,   \* the client was sent at least one response
  accPc,      \* acceptor: "check", "wait", "accept", "dispatch", "exit"
  accSock,    \* acceptor: the socket being dispatched
  accK,       \* acceptor: k of the dispatch loop
  rr,         \* acceptor: next worker of the round robin
  wake,       \* a wake datagram waits on the worker's UDP socket
  queue,      \* the worker's accept ring
  wPc,        \* worker: "top", "select", "adopt", "serve", "request", "exit"
  clients,    \* worker: clients[], buffered[], buffers[] and peers[], in slots
  freeBufs,   \* worker: free_buffers, a stack
  freePeers,  \* worker: free_peers, a stack
  ready,      \* worker: the client sockets set in readfds after select
  cur,        \* worker: i of the loop over the clients
  turn,       \* worker: drop, parsed, keep_alive of the slot it has received for
  mainPc,     \* main after its worker loop: "serve", "join", "done"
  owed        \* history: a whole request was received and not answered

clientVars == <<inbox, eof>>
accVars == <<accPc, accSock, accK, rr>>
workVars == <<wPc, clients, freeBufs, freePeers, ready, cur, turn>>
vars == <<stop, listening, backlog, closed, clientVars, answered, accVars,
          wake, queue, workVars, mainPc, owed>>

Ids == 1 .. MaxClients
Slot == [sock : Conns, buffered : 0 .. BufMax, buf : Ids, peer : Ids]
(* `more' is FALSE once the loop over the requests was left by a break. *)
Progress == [drop : BOOLEAN, more : BOOLEAN, parsed : 0 .. BufMax, keep : BOOLEAN]
NewTurn(drop) == [drop |-> drop, more |-> TRUE, parsed |-> 0, keep |-> TRUE]

TypeOK ==
  /\ stop \in BOOLEAN /\ listening \in BOOLEAN
  /\ backlog \subseteq Conns /\ closed \subseteq Conns
  /\ inbox \in [Conns -> 0 .. MaxUnits]
  /\ eof \in [Conns -> BOOLEAN] /\ answered \in [Conns -> BOOLEAN]
  /\ accPc \in {"check", "wait", "accept", "dispatch", "exit"}
  /\ accSock \in Conns \cup {NoConn} /\ accK \in 0 .. NumWorkers - 1 /\ rr \in Workers
  /\ wake \in [Workers -> BOOLEAN] /\ queue \in [Workers -> Seq(Conns)]
  /\ wPc \in [Workers -> {"top", "select", "adopt", "serve", "request", "exit"}]
  /\ clients \in [Workers -> Seq(Slot)]
  /\ freeBufs \in [Workers -> Seq(Ids)] /\ freePeers \in [Workers -> Seq(Ids)]
  /\ ready \in [Workers -> SUBSET Conns] /\ cur \in [Workers -> 1 .. MaxClients + 1]
  /\ turn \in [Workers -> Progress]
  /\ mainPc \in {"serve", "join", "done"}
  /\ owed \subseteq Conns

Init ==
  /\ stop = FALSE /\ listening = TRUE
  /\ backlog = {} /\ closed = {}
  /\ inbox = [c \in Conns |-> 0]
  /\ eof = [c \in Conns |-> FALSE] /\ answered = [c \in Conns |-> FALSE]
  /\ accPc = "check" /\ accSock = NoConn /\ accK = 0 /\ rr = 0
  /\ wake = [w \in Workers |-> FALSE] /\ queue = [w \in Workers |-> <<>>]
  /\ wPc = [w \in Workers |-> "top"]
  /\ clients = [w \in Workers |-> <<>>]
  /\ freeBufs = [w \in Workers |-> [j \in Ids |-> j]]
  /\ freePeers = [w \in Workers |-> [j \in Ids |-> j]]
  /\ ready = [w \in Workers |-> {}] /\ cur = [w \in Workers |-> 1]
  /\ turn = [w \in Workers |-> NewTurn(FALSE)]
  /\ mainPc = "serve" /\ owed = {}

-----------------------------------------------------------------------------
(* Where the sockets are. *)

InSlots(w) == {clients[w][i].sock : i \in 1 .. Len(clients[w])}
Held(c) == \/ c = accSock
           \/ \E w \in Workers : c \in ToSet(queue[w]) \cup InSlots(w)
Connected(c) == c \in backlog \/ Held(c)

-----------------------------------------------------------------------------
(* The clients and the operator. *)

Connect(c) ==
  /\ listening /\ c \notin closed /\ ~Connected(c)
  /\ backlog' = backlog \cup {c}
  /\ UNCHANGED <<stop, listening, closed, clientVars, answered, accVars, wake,
                 queue, workVars, mainPc, owed>>

Send(c) ==
  /\ Connected(c) /\ ~eof[c] /\ inbox[c] < MaxUnits
  /\ inbox' = [inbox EXCEPT ![c] = @ + 1]
  /\ UNCHANGED <<stop, listening, backlog, closed, eof, answered, accVars, wake,
                 queue, workVars, mainPc, owed>>

(* The client closes its side, or resets it: then what was not received is *)
(* gone.                                                                   *)
HangUp(c) ==
  /\ Connected(c) /\ ~eof[c]
  /\ eof' = [eof EXCEPT ![c] = TRUE]
  /\ inbox' \in {inbox, [inbox EXCEPT ![c] = 0]}
  /\ UNCHANGED <<stop, listening, backlog, closed, answered,
                 accVars, wake, queue, workVars, mainPc, owed>>

(* Ctrl-C or SIGTERM, delivered to some thread; a worker's select that it  *)
(* interrupts fails with EINTR and the worker goes round its loop again.   *)
Signal ==
  /\ ~stop
  /\ stop' = TRUE
  /\ \E w \in Workers : \/ UNCHANGED wPc
                        \/ /\ wPc[w] = "select"
                           /\ wPc' = [wPc EXCEPT ![w] = "top"]
  /\ UNCHANGED <<listening, backlog, closed, clientVars, answered, accVars, wake,
                 queue, clients, freeBufs, freePeers, ready, cur, turn, mainPc, owed>>

-----------------------------------------------------------------------------
(* The acceptor. *)

(* Mutant: the acceptor only leaves its loop when the listener is gone. *)
AccLoopAgainWhileListening == TRUE

AccLoopAgain == ~stop

AccCheck ==
  /\ accPc = "check"
  /\ accPc' = IF AccLoopAgain THEN "wait" ELSE "exit"
  /\ UNCHANGED <<stop, listening, backlog, closed, clientVars, answered, accSock,
                 accK, rr, wake, queue, workVars, mainPc, owed>>

(* select on the listener: readable, or one second passed. *)
AccWait ==
  /\ accPc = "wait"
  /\ accPc' = IF listening /\ backlog # {} THEN "accept" ELSE "check"
  /\ UNCHANGED <<stop, listening, backlog, closed, clientVars, answered, accSock,
                 accK, rr, wake, queue, workVars, mainPc, owed>>

AccAccept ==
  /\ accPc = "accept"
  /\ IF listening /\ backlog # {}
       THEN \E c \in backlog : /\ backlog' = backlog \ {c}
                               /\ accSock' = c
                               /\ accPc' = "dispatch"
       ELSE /\ accPc' = "check"
            /\ UNCHANGED <<backlog, accSock>>
  /\ UNCHANGED <<stop, listening, closed, clientVars, answered, accK, rr, wake,
                 queue, workVars, mainPc, owed>>

HasRoom(w) == Len(queue[w]) < RingBound

(* Mutant: no break after the push, so the loop goes on to the next worker. *)
DispatchedNoBreak ==
  IF accK + 1 < NumWorkers
    THEN accK' = accK + 1 /\ UNCHANGED <<accSock, accPc>>
    ELSE accK' = 0 /\ accSock' = NoConn /\ accPc' = "accept"

(* The socket has its worker, or was closed: accept the next one. *)
Dispatched == accK' = 0 /\ accSock' = NoConn /\ accPc' = "accept"

(* One iteration of the dispatch loop: push to this worker's ring if it    *)
(* has room (the wake datagram may be lost), else try the next worker, and *)
(* close the socket when every ring is full.                               *)
AccDispatch ==
  /\ accPc = "dispatch"
  /\ LET w == (rr + accK) % NumWorkers IN
     \/ /\ HasRoom(w)
        /\ queue' = [queue EXCEPT ![w] = Append(@, accSock)]
        /\ \E delivered \in BOOLEAN : wake' = [wake EXCEPT ![w] = @ \/ delivered]
        /\ rr' = (w + 1) % NumWorkers
        /\ Dispatched
        /\ UNCHANGED closed
     \/ /\ ~HasRoom(w) /\ accK + 1 < NumWorkers
        /\ accK' = accK + 1
        /\ UNCHANGED <<queue, wake, rr, accSock, accPc, closed>>
     \/ /\ ~HasRoom(w) /\ accK + 1 = NumWorkers
        /\ closed' = closed \cup {accSock}
        /\ rr' = (rr + 1) % NumWorkers
        /\ Dispatched
        /\ UNCHANGED <<queue, wake>>
  /\ UNCHANGED <<stop, listening, backlog, clientVars, answered, workVars, mainPc, owed>>

Acceptor == AccCheck \/ AccWait \/ AccAccept \/ AccDispatch

-----------------------------------------------------------------------------
(* The workers. *)

(* Mutant: a stopped worker does not look at its ring before it leaves. *)
LoopAgainIgnoringRing(w) == ~stop \/ clients[w] # <<>>

LoopAgain(w) == ~stop \/ clients[w] # <<>> \/ queue[w] # <<>>

WorkerTop(w) ==
  /\ wPc[w] = "top"
  /\ wPc' = [wPc EXCEPT ![w] = IF LoopAgain(w) THEN "select" ELSE "exit"]
  /\ UNCHANGED <<stop, listening, backlog, closed, clientVars, answered, accVars,
                 wake, queue, clients, freeBufs, freePeers, ready, cur, turn, mainPc, owed>>

Readable(w) == {c \in InSlots(w) : inbox[c] > 0 \/ eof[c]}

(* Mutant: select waits without a timeout. *)
NeverTimesOut == FALSE

(* The wait is bounded to one second, which may have passed at any moment. *)
TimedOut == TRUE

SelectReturns(w) == wake[w] \/ Readable(w) # {} \/ TimedOut

(* Its error path besides EINTR (see Signal) prunes slots whose descriptor *)
(* is closed: there are none, by Ownership.                                *)
WorkerSelect(w) ==
  /\ wPc[w] = "select"
  /\ SelectReturns(w)
  /\ ready' = [ready EXCEPT ![w] = Readable(w)]
  /\ wake' = [wake EXCEPT ![w] = FALSE]
  /\ wPc' = [wPc EXCEPT ![w] = "adopt"]
  /\ UNCHANGED <<stop, listening, backlog, closed, clientVars, answered, accVars,
                 queue, clients, freeBufs, freePeers, cur, turn, mainPc, owed>>

(* One iteration of the adoption loop: a socket for which the worker has   *)
(* no slot is closed.  The peer is taken without looking at free_peers.    *)
WorkerAdopt(w) ==
  /\ wPc[w] = "adopt"
  /\ IF queue[w] = <<>>
       THEN /\ wPc' = [wPc EXCEPT ![w] = "serve"]
            /\ UNCHANGED <<queue, clients, freeBufs, freePeers, closed>>
       ELSE LET c == Head(queue[w]) IN
            /\ queue' = [queue EXCEPT ![w] = Tail(@)]
            /\ IF Len(clients[w]) < MaxClients /\ freeBufs[w] # <<>>
                 THEN /\ clients' = [clients EXCEPT ![w] = Append(@,
                           [sock |-> c, buffered |-> 0, buf |-> Last(freeBufs[w]),
                            peer |-> Last(freePeers[w])])]
                      /\ freeBufs' = [freeBufs EXCEPT ![w] = Front(@)]
                      /\ freePeers' = [freePeers EXCEPT ![w] = Front(@)]
                      /\ UNCHANGED closed
                 ELSE /\ closed' = closed \cup {c}
                      /\ UNCHANGED <<clients, freeBufs, freePeers>>
            /\ UNCHANGED wPc
  /\ UNCHANGED <<stop, listening, backlog, clientVars, answered, accVars, wake,
                 ready, cur, turn, mainPc, owed>>

(***************************************************************************)
(* What orbit_handle_request_full may do with the `left' units that are    *)
(* not parsed yet when requests have L of them.  Part of a request is left *)
(* alone; a whole one is answered, and its connection kept or not; a       *)
(* malformed one is refused and takes everything with it; one that         *)
(* exhausts its budget comes back through the boundary of arena_oom.c and  *)
(* is answered 503, with nothing consumed.                                 *)
(***************************************************************************)
Outcomes(left, L) ==
  (IF left < L THEN [consumed : {0}, keep : {TRUE}, replied : {FALSE}]
               ELSE [consumed : {L}, keep : BOOLEAN, replied : {TRUE}])
    \cup [consumed : {0, left}, keep : {FALSE}, replied : {TRUE}]

BufferFull(rest) == rest = BufMax

(* Mutant: the last slot is copied over the dropped one before the peer is *)
(* given back, so the live connection's peer goes on the free stack.       *)
ReleasePeerAfterSwap(w, i) == Append(freePeers[w], Last(clients[w]).peer)

ReleasePeer(w, i) == Append(freePeers[w], clients[w][i].peer)

SwapRemove(slots, i) == Front([slots EXCEPT ![i] = Last(slots)])

(* Close the socket of slot i, give back its buffer and peer, and move the *)
(* last slot into its place.                                               *)
DropSlot(w, i) ==
  /\ closed' = closed \cup {clients[w][i].sock}
  /\ freeBufs' = [freeBufs EXCEPT ![w] = Append(@, clients[w][i].buf)]
  /\ freePeers' = [freePeers EXCEPT ![w] = ReleasePeer(w, i)]
  /\ clients' = [clients EXCEPT ![w] = SwapRemove(@, i)]
  /\ UNCHANGED cur

KeepSlot(w, i, rest) ==
  /\ clients' = [clients EXCEPT ![w][i].buffered = rest]
  /\ cur' = [cur EXCEPT ![w] = i + 1]
  /\ UNCHANGED <<closed, freeBufs, freePeers>>

(* While draining, a connection with nothing buffered is dropped. *)
DrainDrop(w, i) == stop /\ clients[w][i].buffered = 0

(* Slot i was not in readfds, or recv reports the end of the stream. *)
ServeQuiet(w, i) ==
  LET slot == clients[w][i]
      c == slot.sock
      ended == c \in ready[w] /\ inbox[c] = 0 IN
  /\ c \notin ready[w] \/ ended
  /\ IF DrainDrop(w, i) \/ ended THEN DropSlot(w, i)
                                ELSE KeepSlot(w, i, slot.buffered)

RecvRoom(slot) == BufMax - slot.buffered

(* Slot i has bytes: receive what fits. *)
ServeBytes(w, i) ==
  LET slot == clients[w][i]
      c == slot.sock
      got == Min({inbox[c], RecvRoom(slot)}) IN
  /\ c \in ready[w] /\ inbox[c] > 0
  /\ inbox' = [inbox EXCEPT ![c] = @ - got]
  /\ clients' = [clients EXCEPT ![w][i].buffered = @ + got]
  /\ turn' = [turn EXCEPT ![w] = NewTurn(DrainDrop(w, i))]
  /\ owed' = IF slot.buffered + got >= ReqLen[c] THEN owed \cup {c} ELSE owed
  /\ wPc' = [wPc EXCEPT ![w] = "request"]
  /\ UNCHANGED <<closed, freeBufs, freePeers, cur>>

WorkerServe(w) ==
  /\ wPc[w] = "serve"
  /\ IF cur[w] > Len(clients[w])
       THEN /\ wPc' = [wPc EXCEPT ![w] = "top"]
            /\ ready' = [ready EXCEPT ![w] = {}]
            /\ cur' = [cur EXCEPT ![w] = 1]
            /\ UNCHANGED <<closed, clients, freeBufs, freePeers, inbox, turn, owed>>
       ELSE /\ \/ ServeQuiet(w, cur[w]) /\ UNCHANGED <<wPc, inbox, turn, owed>>
               \/ ServeBytes(w, cur[w])
            /\ UNCHANGED ready
  /\ UNCHANGED <<stop, listening, backlog, eof, answered, accVars, wake, queue, mainPc>>

(* Mutant: one request is handled per receive. *)
RequestLeftOnce(w) == turn[w].more /\ turn[w].parsed = 0

(* The condition of the loop over the requests in the buffer. *)
RequestLeft(w) == turn[w].more /\ turn[w].parsed < clients[w][cur[w]].buffered

(* The body of that loop: `consumed == 0' and a 503 leave it, a request    *)
(* that does not keep the connection does not.                             *)
HandleRequest(w) ==
  LET slot == clients[w][cur[w]]
      c == slot.sock
      left == slot.buffered - turn[w].parsed IN
  /\ wPc[w] = "request" /\ RequestLeft(w)
  /\ \E r \in Outcomes(left, ReqLen[c]) :
       /\ turn' = [turn EXCEPT ![w].more = r.consumed # 0,
                               ![w].parsed = @ + r.consumed,
                               ![w].keep = @ /\ r.keep]
       /\ answered' = [answered EXCEPT ![c] = @ \/ r.replied]
       /\ owed' = IF r.replied /\ (r.consumed = 0 \/ left - r.consumed < ReqLen[c])
                    THEN owed \ {c} ELSE owed
  /\ UNCHANGED <<stop, listening, backlog, closed, clientVars, accVars, wake, queue, wPc,
                 clients, freeBufs, freePeers, ready, cur, mainPc>>

(* After the loop: what was parsed leaves the buffer; a buffer that is     *)
(* full all the same is answered 431 or 413.                               *)
FinishTurn(w) ==
  LET slot == clients[w][cur[w]]
      c == slot.sock
      rest == slot.buffered - turn[w].parsed IN
  /\ wPc[w] = "request" /\ ~RequestLeft(w)
  /\ answered' = [answered EXCEPT ![c] = @ \/ BufferFull(rest)]
  /\ owed' = IF BufferFull(rest) THEN owed \ {c} ELSE owed
  /\ IF turn[w].drop \/ ~turn[w].keep \/ BufferFull(rest)
       THEN DropSlot(w, cur[w])
       ELSE KeepSlot(w, cur[w], rest)
  /\ wPc' = [wPc EXCEPT ![w] = "serve"]
  /\ turn' = [turn EXCEPT ![w] = NewTurn(FALSE)]
  /\ UNCHANGED <<stop, listening, backlog, clientVars, accVars, wake, queue, ready, mainPc>>

Worker(w) ==
  \/ WorkerTop(w) \/ WorkerSelect(w) \/ WorkerAdopt(w)
  \/ WorkerServe(w) \/ HandleRequest(w) \/ FinishTurn(w)

-----------------------------------------------------------------------------
(* main, once its own worker loop returned. *)

(* Close the listener: the kernel resets what waits in the backlog. *)
MainCloseListener ==
  /\ mainPc = "serve" /\ wPc[0] = "exit"
  /\ listening' = FALSE
  /\ backlog' = {}
  /\ closed' = closed \cup backlog
  /\ mainPc' = "join"
  /\ UNCHANGED <<stop, clientVars, answered, accVars, wake, queue, workVars, owed>>

MainJoin ==
  /\ mainPc = "join" /\ accPc = "exit" /\ \A w \in Workers : wPc[w] = "exit"
  /\ mainPc' = "done"
  /\ UNCHANGED <<stop, listening, backlog, closed, clientVars, answered, accVars,
                 wake, queue, workVars, owed>>

Main == MainCloseListener \/ MainJoin

Environment == \/ \E c \in Conns : Connect(c) \/ Send(c) \/ HangUp(c)
               \/ Signal

Next == Acceptor \/ (\E w \in Workers : Worker(w)) \/ Main \/ Environment

(* Every thread is scheduled; clients and the operator owe nothing. *)
Fairness ==
  /\ WF_vars(Acceptor)
  /\ \A w \in Workers : WF_vars(Worker(w))
  /\ WF_vars(Main)

Spec == Init /\ [][Next]_vars /\ Fairness

-----------------------------------------------------------------------------
(***************************************************************************)
(* A socket is in one place only: the backlog, the acceptor's hands, one   *)
(* position of one ring or one slot of one worker, and in none of them     *)
(* once it is closed.  Closing a descriptor twice, or serving it from two  *)
(* threads, would break it.                                                *)
(***************************************************************************)
Places(c) ==
  (IF c \in backlog THEN {<<"backlog">>} ELSE {})
    \cup (IF c = accSock THEN {<<"acceptor">>} ELSE {})
    \cup (IF c \in closed THEN {<<"closed">>} ELSE {})
    \cup (UNION {{<<"ring", w, i>> : i \in {j \in 1 .. Len(queue[w]) : queue[w][j] = c}}
                 : w \in Workers})
    \cup (UNION {{<<"slot", w, i>> :
                    i \in {j \in 1 .. Len(clients[w]) : clients[w][j].sock = c}}
                 : w \in Workers})

Ownership == \A c \in Conns : Cardinality(Places(c)) <= 1

(***************************************************************************)
(* A receive buffer, and likewise a peer string, is owned by exactly one   *)
(* live slot or by the free stack, never both, and none is lost: so the    *)
(* peer taken at adoption without a check is always there.                 *)
(***************************************************************************)
PoolDiscipline ==
  \A w \in Workers :
    LET slots == clients[w] IN
    /\ Len(freeBufs[w]) + Len(slots) = MaxClients
    /\ Len(freePeers[w]) + Len(slots) = MaxClients
    /\ ToSet(freeBufs[w]) \cup {slots[i].buf : i \in 1 .. Len(slots)} = Ids
    /\ ToSet(freePeers[w]) \cup {slots[i].peer : i \in 1 .. Len(slots)} = Ids

(* Sockets, buffers and peer strings together, over swap-removes of slots  *)
(* and adoptions into the freed ones, and no buffer filled past its end.   *)
PoolInv == TypeOK /\ Ownership /\ PoolDiscipline

(***************************************************************************)
(* A request that was received whole is owed an answer only while its      *)
(* worker is busy with that connection: it neither waits in the buffer     *)
(* while the worker waits in select, nor is its connection closed over it, *)
(* by the drain of a stop, by the client's hanging up or by an earlier     *)
(* request's wish to close.  A 503, 431 or 413 ends the debt.              *)
(***************************************************************************)
NoneIgnored ==
  \A c \in owed :
    /\ c \notin closed
    /\ \E w \in Workers : wPc[w] = "request" /\ clients[w][cur[w]].sock = c

(***************************************************************************)
(* A connection pushed to the ring of a worker that has not left its loop  *)
(* is taken out of it, even if its wake datagram was lost.                 *)
(***************************************************************************)
RingsDrain ==
  \A w \in Workers : \A c \in Conns :
    (c \in ToSet(queue[w]) /\ wPc[w] # "exit") ~> c \notin ToSet(queue[w])

(***************************************************************************)
(* As long as no stop is requested, a client whose whole request reached   *)
(* the server's socket gets an answer or has its connection closed.        *)
(***************************************************************************)
RequestsServed ==
  \A c \in Conns :
    (Connected(c) /\ inbox[c] >= ReqLen[c]) ~> (answered[c] \/ c \in closed \/ stop)

(***************************************************************************)
(* Once a stop is requested the process ends, provided the clients that    *)
(* are connected eventually hang up.                                       *)
(***************************************************************************)
ClientsLeave == \A c \in Conns : []<>(eof[c] \/ ~Connected(c))
StopEnds == ClientsLeave => (stop ~> mainPc = "done")

(***************************************************************************)
(* "Ctrl-C / SIGTERM stops accepting; workers finish in-flight requests,   *)
(* then the process exits cleanly": a requested stop ends the process.     *)
(***************************************************************************)
StopAlwaysEnds == stop ~> mainPc = "done"
=============================================================================
