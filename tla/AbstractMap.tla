---------------------------- MODULE AbstractMap ----------------------------
(***************************************************************************)
(* What a map promises its caller: a partial function from keys to values  *)
(* and the answer to the last call.  A call that is refused memory changes *)
(* nothing.                                                                *)
(***************************************************************************)
CONSTANTS Keys, Values, NoValue,
          Done     \* the answer to a deletion that found its key

VARIABLES content,  \* [Keys -> Values, or NoValue for a key that is not there]
          answer    \* of the last call; NoValue for an error

Init == content = [k \in Keys |-> NoValue] /\ answer = NoValue

Set(k, v) == content' = [content EXCEPT ![k] = v] /\ answer' = v

Get(k) == answer' = content[k] /\ UNCHANGED content

(* The answer tells whether it was there. *)
Delete(k) ==
  /\ content' = [content EXCEPT ![k] = NoValue]
  /\ answer' = IF content[k] = NoValue THEN NoValue ELSE Done

OutOfMemory == answer' = NoValue /\ UNCHANGED content

Next ==
  \/ \E k \in Keys : Get(k) \/ Delete(k) \/ \E v \in Values : Set(k, v)
  \/ OutOfMemory

Spec == Init /\ [][Next]_<<content, answer>>
=============================================================================
