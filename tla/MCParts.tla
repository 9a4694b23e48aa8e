------------------------------ MODULE MCParts ------------------------------
(***************************************************************************)
(* Five parts of the runtime that do not share state, each from its own    *)
(* initial state: `part' says which of them takes the steps.               *)
(***************************************************************************)
EXTENDS Request, HttpFraming, MapTable, Database, Migrations

VARIABLE part

partsVars == <<part, vars, httpVars, mapVars, dbVars, bootVars>>

PartsInit ==
  /\ part \in {"request", "http", "map", "database", "boot"}
  /\ Init /\ HttpInit /\ MapInit /\ DbInit /\ BootInit

PartsNext ==
  /\ UNCHANGED part
  /\ \/ part = "request" /\ Next /\ UNCHANGED <<httpVars, mapVars, dbVars, bootVars>>
     \/ part = "http" /\ HttpNext /\ UNCHANGED <<vars, mapVars, dbVars, bootVars>>
     \/ part = "map" /\ MapNext /\ UNCHANGED <<vars, httpVars, dbVars, bootVars>>
     \/ part = "database" /\ DbNext /\ UNCHANGED <<vars, httpVars, mapVars, bootVars>>
     \/ part = "boot" /\ BootNext /\ UNCHANGED <<vars, httpVars, mapVars, dbVars>>

(* A call on a map runs to its end by itself. *)
MapRuns ==
  /\ part = "map" /\ MapLoop
  /\ UNCHANGED <<part, vars, httpVars, dbVars, bootVars>>

PartsSpec == PartsInit /\ [][PartsNext]_partsVars /\ WF_partsVars(MapRuns)

-----------------------------------------------------------------------------
(* Half of a handler's largest request for memory fits the guarded budget, *)
(* one response the emergency budget.                                      *)
MCBudget ==
  [class \in Classes |->
     CASE class = "standard" -> 3
       [] class = "guarded"  -> 2
       [] class = "siege"    -> 0
       [] OTHER              -> 1]

(* Requests at and past each limit, with and without a body, two that have *)
(* no proper request line, and lengths that agree and that do not.         *)
MCLengthOf == [len0 |-> 0, len1 |-> 1, len2 |-> 2, len9 |-> 9]
MCLine(n) == <<"x", "SP", "x", "SP">> \o [i \in 1 .. n |-> "x"]
MCQuery == <<"x", "SP", "?", "x", "SP", "x">>
MCRequest(line, fields, body) == [line |-> line, fields |-> fields, body |-> body]
MCRequests ==
  {MCRequest(MCLine(n), <<>>, 0) : n \in {1, 2, 3}}
    \cup {MCRequest(MCLine(1), <<f>>, 0) : f \in {"lenBad", "len0", "chunked"}}
    \cup {MCRequest(MCQuery, <<"close">>, 0),
          MCRequest(MCLine(2), <<"len2", "len2">>, 2),
          MCRequest(MCLine(1), <<"x", "x", "x">>, 0),
          MCRequest(MCLine(1), <<"x", "len1", "len2">>, 2),
          MCRequest(MCLine(1), <<"len9">>, 9),
          MCRequest(<<"x", "SP", "x">>, <<>>, 0), MCRequest(<<"x">>, <<>>, 0)}

(* Two keys of one hash, a cluster that wraps around, one that collides    *)
(* only in the smaller table.                                              *)
MCHash ==
  [k \in Keys |-> CASE k = "a" -> 3 [] k = "b" -> 7 [] k = "c" -> 3 [] k = "d" -> 2 [] OTHER -> 0]

(* A key column and one other; a key that spells the other column's name,  *)
(* one that ends in a quote and it, texts with a backslash and a quote, a  *)
(* row as long as a reader holds, and control characters.                  *)
MCNames == <<<<"i">>, <<"a">>>>
MCField(n, t) == [name |-> <<n>>, text |-> t]
MCPayloads ==
  {<<MCField("i", <<"k">>), MCField("a", <<"\\", "Q">>)>>,
   <<MCField("i", <<"a">>), MCField("a", <<"ctl", "ctl">>)>>,
   <<MCField("a", <<"\\", "x", "ctl">>), MCField("i", <<"Q", "m">>)>>,
   <<MCField("i", <<"Q", "a">>), MCField("a", <<"x">>)>>,
   <<MCField("i", <<"k">>)>>}
MCExisting == <<<<<<"k">>, <<"ctl">>>>>>
MCWanted == {<<"k">>, <<"Q", "m">>}
=============================================================================
