---------------------------- MODULE BoundedFIFO ----------------------------
(***************************************************************************)
(* What the accept ring of one worker promises to the acceptor and to the  *)
(* worker: a FIFO of freshly accepted sockets that holds at most Bound of  *)
(* them, refuses a push only when it is full and a pop only when it is     *)
(* empty, and neither loses, duplicates nor reorders a socket.             *)
(***************************************************************************)
EXTENDS Naturals, Sequences

CONSTANTS Socks,  \* the sockets the acceptor may push
          Bound   \* how many sockets the queue can hold

VARIABLES queue,   \* sockets pushed and not yet popped, oldest first
          refused, \* TRUE in the state after a push was refused
          drained  \* TRUE in the state after a pop found nothing

FifoInit ==
  /\ queue = <<>>
  /\ refused = FALSE
  /\ drained = FALSE

Push(s) ==
  /\ Len(queue) < Bound
  /\ queue' = Append(queue, s)
  /\ refused' = FALSE
  /\ UNCHANGED drained

Refuse ==
  /\ Len(queue) = Bound
  /\ refused' = TRUE
  /\ UNCHANGED <<queue, drained>>

Pop ==
  /\ queue # <<>>
  /\ queue' = Tail(queue)
  /\ drained' = FALSE
  /\ UNCHANGED refused

FindEmpty ==
  /\ queue = <<>>
  /\ drained' = TRUE
  /\ UNCHANGED <<queue, refused>>

FifoNext ==
  \/ \E s \in Socks : Push(s)
  \/ Refuse
  \/ Pop
  \/ FindEmpty

FifoVars == <<queue, refused, drained>>

FifoSpec == FifoInit /\ [][FifoNext]_FifoVars
=============================================================================
