--------------------------- MODULE MCAcceptQueue ---------------------------
(* The ring with the sockets as model values. *)
EXTENDS AcceptQueue
=============================================================================
