--------------------------- MODULE Cluster_proof ---------------------------
(***************************************************************************)
(* Any number of overlapping commands on a service of any number of nodes. *)
(* The parts of the invariant are stated of one command, its record r, and *)
(* of the processes and nodes, pr and no, so that a step that leaves them  *)
(* alone keeps them.                                                       *)
(***************************************************************************)
EXTENDS Cluster, Lemmas

Real == [pids : [Nodes -> Pids], draining : SUBSET Nodes]

ToolState ==
  [pc : {"idle", "read", "spawn", "signal", "node", "wait", "start", "confirm",
         "write", "written", "remove"},
   cmd : Commands \cup {"none"}, node : 1 .. N + 1, content : Real \cup {NoFile},
   mine : Seq(Pids), fresh : Pids \cup {NoPid}, healthy : BOOLEAN,
   was : SUBSET Nodes, alone : BOOLEAN]

Types ==
  /\ file \in Real \cup {NoFile}
  /\ proc \in [Pids -> {"unused", "run", "told", "dead"}]
  /\ nodeOf \in [Pids -> Nodes]
  /\ tool \in [Tools -> ToolState]
  /\ crashed \in SUBSET Pids /\ drained \in SUBSET Nodes
  /\ stale \in BOOLEAN /\ faulted \in BOOLEAN /\ cleared \in BOOLEAN

(* What a command holds at each of its places. *)
Empty(r) == r.mine = <<>> /\ r.fresh = NoPid
Replacing(r) == r.cmd = "restart" /\ r.content \in Real /\ r.node \in Nodes \ r.content.draining
Writes(r) ==
  \/ r.cmd = "up" /\ r.content = NoFile /\ r.fresh = NoPid /\ Len(r.mine) = N
  \/ r.cmd = "drain" /\ r.content \in Real /\ r.node \in Nodes /\ Empty(r)
  \/ Replacing(r) /\ r.mine = <<>> /\ r.fresh \in Pids
Shape(r) ==
  /\ r.pc = "idle" => r = Idle
  /\ r.pc \in {"read", "signal", "node", "wait", "start", "remove"} => Empty(r)
  /\ r.pc = "read" => r.content = NoFile /\ r.cmd \in Commands /\ r.node \in Nodes
                      /\ (r.cmd = "restart" => r.node = 1)
  /\ r.pc = "spawn" => r.cmd = "up" /\ r.content = NoFile /\ r.fresh = NoPid /\ Len(r.mine) < N
  /\ r.pc = "signal" => r.cmd \in {"drain", "down"} /\ r.content \in Real /\ r.node \in Nodes
  /\ r.pc = "node" => r.cmd = "restart"
  /\ r.pc \in {"wait", "start"} => Replacing(r)
  /\ r.pc = "confirm" => Replacing(r) /\ r.mine = <<>> /\ r.fresh \in Pids
  /\ r.pc = "remove" => r.cmd = "down" /\ r.content \in Real
  /\ r.pc \in {"write", "written"} => Writes(r)
Shapes == \A t \in Tools : Shape(tool[t])

(* Every pid that is written down was started, for the node it stands for. *)
Placed(pr, no, p, i) == p \in Pids /\ pr[p] # "unused" /\ no[p] = i
PlacedIn(pr, no, c) == \A i \in DOMAIN c.pids : Placed(pr, no, c.pids[i], i)
KnownBy(pr, no, r) ==
  /\ PlacedIn(pr, no, r.content)
  /\ \A j \in DOMAIN r.mine : Placed(pr, no, r.mine[j], j)
  /\ r.fresh # NoPid => Placed(pr, no, r.fresh, r.node)
Known == PlacedIn(proc, nodeOf, file) /\ \A t \in Tools : KnownBy(proc, nodeOf, tool[t])

(* A command that is about to write has told the process it writes off. *)
ToldOff(pr, r) ==
  /\ \/ r.cmd = "drain" /\ r.pc \in {"write", "written"}
     \/ r.cmd = "restart" /\ r.pc \in {"wait", "start", "confirm", "write", "written"}
     => pr[r.content.pids[r.node]] # "run"
  /\ r.pc = "remove" => \A i \in Nodes : pr[r.content.pids[i]] # "run"
TellsFirst == \A t \in Tools : ToldOff(proc, tool[t])

(* While nothing went wrong: the one command that has truncated the file   *)
(* has what was in it, and no process is anywhere else.                    *)
Quiet == ~stale /\ ~faulted
Writing(r) == r.pc = "written"
OneWriter ==
  Quiet => \A t \in Tools : Writing(tool[t]) =>
    file = NoFile /\ \A u \in Tools : Writing(tool[u]) => u = t
Made(r, p) == p \in Range(r.mine) \/ p = r.fresh
Holds(r, p) == Made(r, p) \/ (Writing(r) /\ p \in Range(r.content.pids))
AllHeld ==
  Quiet => \A p \in Pids : proc[p] = "run" => p \in OnFile \/ \E t \in Tools : Holds(tool[t], p)
Drains ==
  /\ Quiet /\ file # NoFile => drained \subseteq file.draining
  /\ Quiet => \A t \in Tools : Writing(tool[t]) /\ tool[t].content # NoFile =>
       drained \subseteq tool[t].content.draining
Stay ==
  Quiet => \A i \in drained : \A p \in Pids :
    proc[p] = "run" /\ nodeOf[p] = i => \E t \in Tools : Made(tool[t], p)
AfterDown == cleared => \A t \in Tools : tool[t].pc = "idle"

(* A restart that runs by itself: what it has not touched is as it was. *)
Excused(pr, cr, r, p, i) == pr[p] = "run" \/ i \in r.was \/ p \in cr
ByItself ==
  \A t \in Tools : tool[t].alone /\ tool[t].pc # "idle" =>
    \A u \in Tools \ {t} : tool[u].pc = "idle"
Untouched(pr, cr, f, r) ==
  r.cmd = "restart" /\ r.alone =>
    /\ r.pc \in {"read", "node"} /\ f # NoFile =>
         \A i \in Nodes : Excused(pr, cr, r, f.pids[i], i)
    /\ r.pc \in {"wait", "start", "confirm", "write"} => f = r.content
    /\ r.pc \in {"wait", "start", "confirm", "write", "written"} =>
         \A i \in Nodes \ {r.node} : Excused(pr, cr, r, r.content.pids[i], i)
    /\ r.pc = "confirm" => pr[r.fresh] \in {"run", "dead"}
    /\ r.pc \in {"write", "written"} /\ r.healthy => pr[r.fresh] = "run" \/ r.fresh \in cr
RestartAlone == \A t \in Tools : Untouched(proc, crashed, file, tool[t])

Inductive ==
  /\ Types /\ Shapes /\ Known /\ TellsFirst
  /\ OneWriter /\ AllHeld /\ Drains /\ Stay /\ AfterDown /\ DownClears
  /\ ByItself /\ RestartAlone

-----------------------------------------------------------------------------
USE ClusterAssumption DEF Nodes, Pids, NoPid, Commands

(* A missing state file names no process. *)
LEMMA NoFileIsNone == NoFile \notin Real /\ NoFile.pids = <<>> /\ DOMAIN NoFile.pids = {}
BY DEF NoFile, Real

(* A command that has not begun knows of nothing. *)
LEMMA IdleTool == Idle \in ToolState /\ Shape(Idle) /\ Idle.content = NoFile /\ Empty(Idle)
BY DEF Idle, ToolState, Shape, Empty, Replacing, Writes

(* An idle command holds no process and has nothing to tell. *)
LEMMA Nobody ==
  \A pr, no, r : r = Idle => KnownBy(pr, no, r) /\ ToldOff(pr, r) /\ (\A p \in Pids : ~Holds(r, p))
    /\ \A cr, f : Untouched(pr, cr, f, r)
<1> SUFFICES ASSUME NEW pr, NEW no
             PROVE KnownBy(pr, no, Idle) /\ ToldOff(pr, Idle) /\ (\A p \in Pids : ~Holds(Idle, p))
                   /\ \A cr, f : Untouched(pr, cr, f, Idle)
  OBVIOUS
<1>1. Idle.pc = "idle" /\ Idle.cmd = "none" /\ Idle.mine = <<>> /\ Idle.fresh = 0 /\ Idle.content = NoFile
  BY DEF Idle
<1>2. KnownBy(pr, no, Idle) BY <1>1, NoFileIsNone DEF KnownBy, PlacedIn
<1>3. ToldOff(pr, Idle) BY <1>1 DEF ToldOff
<1>4. \A p \in Pids : ~Holds(Idle, p) BY <1>1 DEF Holds, Made, Writing, Range
<1>5. \A cr, f : Untouched(pr, cr, f, Idle) BY <1>1 DEF Untouched
<1> QED BY <1>2, <1>3, <1>4, <1>5

(* No command, no process, no file. *)
LEMMA InitInductive == ClusterInit => Inductive
<1> SUFFICES ASSUME ClusterInit PROVE Inductive OBVIOUS
<1> USE DEF ClusterInit
<1>1. Types
  <2>1. tool \in [Tools -> ToolState] BY IdleTool
  <2>2. proc \in [Pids -> {"unused", "run", "told", "dead"}] /\ nodeOf \in [Pids -> Nodes] OBVIOUS
  <2> QED BY <2>1, <2>2 DEF Types
<1>2. Shapes BY IdleTool DEF Shapes
<1>3. Known BY Nobody, NoFileIsNone DEF Known, PlacedIn
<1>4. TellsFirst BY Nobody DEF TellsFirst
<1>5. OneWriter /\ AfterDown /\ ByItself
  BY DEF OneWriter, AfterDown, ByItself, Writing, Idle
<1>6. AllHeld /\ Stay BY DEF AllHeld, Stay
<1>7. Drains BY DEF Drains, Writing, Idle
<1>8. DownClears BY DEF DownClears
<1>9. RestartAlone BY Nobody DEF RestartAlone
<1> QED BY <1>1, <1>2, <1>3, <1>4, <1>5, <1>6, <1>7, <1>8, <1>9 DEF Inductive

(* A process that was started stays started and for its node; one that     *)
(* does not run never runs again.                                          *)
Evolves ==
  \A p \in Pids : proc[p] # "unused" =>
    /\ proc'[p] # "unused" /\ nodeOf'[p] = nodeOf[p]
    /\ proc'[p] = "run" => proc[p] = "run"

(* A process stays on its node whatever other processes do. *)
LEMMA StaysPlaced ==
  ASSUME Evolves
  PROVE  /\ \A p, i : Placed(proc, nodeOf, p, i) => Placed(proc', nodeOf', p, i)
         /\ \A c : PlacedIn(proc, nodeOf, c) => PlacedIn(proc', nodeOf', c)
         /\ \A r : KnownBy(proc, nodeOf, r) => KnownBy(proc', nodeOf', r)
BY DEF Evolves, Placed, PlacedIn, KnownBy

(* Once told to stop, a process does not run again. *)
LEMMA StaysTold ==
  ASSUME Evolves, NEW r \in ToolState, Shape(r), KnownBy(proc, nodeOf, r), ToldOff(proc, r)
  PROVE  ToldOff(proc', r)
<1>1. r.content \in Real => \A i \in Nodes : r.content.pids[i] \in Pids /\ proc[r.content.pids[i]] # "unused"
  BY DEF Real, KnownBy, PlacedIn, Placed
<1>2. r.content \in Real => \A i \in Nodes : proc[r.content.pids[i]] # "run" => proc'[r.content.pids[i]] # "run"
  BY <1>1 DEF Evolves
<1> QED BY <1>2 DEF ToldOff, Shape, Writes, Replacing

(* A step of the command t alone.  Whoever is by itself is t, so of the    *)
(* others nothing needs to be shown.                                       *)
OnlyTool(t) ==
  /\ tool[t].pc # "idle"
  /\ \A u \in Tools \ {t} : tool'[u] = tool[u]
  /\ tool'[t].alone => tool[t].alone \/ tool'[t] = Idle

(* What a step of one command leaves true of the others. *)
LEMMA OneTool ==
  ASSUME Inductive, NEW t \in Tools, OnlyTool(t), Evolves,
         Shape(tool'[t]), KnownBy(proc', nodeOf', tool'[t]), PlacedIn(proc', nodeOf', file'),
         ToldOff(proc', tool'[t]), Untouched(proc', crashed', file', tool'[t])
  PROVE  Shapes' /\ Known' /\ TellsFirst' /\ ByItself' /\ RestartAlone' /\ ~cleared
<1>1. \A u \in Tools \ {t} : tool'[u] = tool[u] BY DEF OnlyTool
<1>2. Shapes' BY <1>1 DEF Inductive, Shapes
<1>3. Known' BY <1>1, StaysPlaced DEF Inductive, Known
<1>4. TellsFirst'
  <2>1. ASSUME NEW u \in Tools \ {t} PROVE ToldOff(proc', tool[u])
    <3>1. tool[u] \in ToolState /\ Shape(tool[u]) /\ KnownBy(proc, nodeOf, tool[u]) /\ ToldOff(proc, tool[u])
      BY DEF Inductive, Types, Shapes, Known, TellsFirst
    <3> QED BY <3>1, StaysTold
  <2> QED BY <1>1, <2>1 DEF TellsFirst
<1>5. \A u \in Tools \ {t} : tool[u].alone => tool[u].pc = "idle"
  BY DEF Inductive, ByItself, OnlyTool
<1>6. ByItself'
  <2>1. Idle.pc = "idle" BY DEF Idle
  <2> QED BY <1>1, <1>5, <2>1 DEF Inductive, ByItself, OnlyTool
<1>7. RestartAlone'
  <2>1. ASSUME NEW u \in Tools \ {t} PROVE Untouched(proc', crashed', file', tool[u])
    <3>1. tool[u].alone => tool[u] = Idle BY <1>5 DEF Inductive, Shapes, Shape
    <3>2. CASE tool[u] = Idle BY <3>2, Nobody
    <3>3. CASE ~tool[u].alone BY <3>3 DEF Untouched
    <3> QED BY <3>1, <3>2, <3>3
  <2> QED BY <1>1, <2>1 DEF RestartAlone
<1>8. ~cleared BY DEF Inductive, AfterDown, OnlyTool
<1> QED BY <1>2, <1>3, <1>4, <1>6, <1>7, <1>8

(* It leaves the file alone, and what it held it holds. *)
FileAlone(t) ==
  /\ file' = file /\ drained' = drained
  /\ (stale => stale') /\ (faulted => faulted')
  /\ ~Writing(tool'[t])
  /\ \A p \in Pids : proc'[p] = "run" =>
       \/ Made(tool'[t], p)
       \/ proc[p] = "run" /\ nodeOf'[p] = nodeOf[p] /\ ~Holds(tool[t], p)

(* Steps that leave the file alone. *)
LEMMA FileKept ==
  ASSUME Inductive, NEW t \in Tools, OnlyTool(t), FileAlone(t)
  PROVE  OneWriter' /\ AllHeld' /\ Drains' /\ Stay'
<1>1. \A u \in Tools \ {t} : tool'[u] = tool[u] BY DEF OnlyTool
<1>2. Quiet' => Quiet BY DEF Quiet, FileAlone, Inductive, Types
<1>3. OneWriter' BY <1>1, <1>2 DEF Inductive, OneWriter, FileAlone
<1>4. AllHeld'
  <2> SUFFICES ASSUME Quiet', NEW p \in Pids, proc'[p] = "run", p \notin OnFile'
               PROVE  \E u \in Tools : Holds(tool'[u], p)
    BY DEF AllHeld
  <2>1. CASE Made(tool'[t], p) BY <2>1 DEF Holds
  <2>2. CASE ~Made(tool'[t], p)
    <3>1. proc[p] = "run" /\ ~Holds(tool[t], p) /\ p \notin OnFile BY <2>2 DEF FileAlone, OnFile
    <3>2. PICK u \in Tools : Holds(tool[u], p) BY <1>2, <3>1 DEF Inductive, AllHeld
    <3> QED BY <1>1, <3>1, <3>2
  <2> QED BY <2>1, <2>2
<1>5. Drains' BY <1>1, <1>2 DEF Inductive, Drains, FileAlone
<1>6. Stay'
  <2> SUFFICES ASSUME Quiet', NEW i \in drained', NEW p \in Pids, proc'[p] = "run", nodeOf'[p] = i
               PROVE  \E u \in Tools : Made(tool'[u], p)
    BY DEF Stay
  <2>1. CASE ~Made(tool'[t], p)
    <3>1. proc[p] = "run" /\ ~Holds(tool[t], p) /\ nodeOf[p] = i /\ i \in drained
      BY <2>1 DEF FileAlone
    <3>2. PICK u \in Tools : Made(tool[u], p) BY <1>2, <3>1 DEF Inductive, Stay
    <3> QED BY <1>1, <3>1, <3>2 DEF Holds
  <2> QED BY <2>1
<1> QED BY <1>3, <1>4, <1>5, <1>6

(* The ways in which a step changes the processes. *)
LEMMA NothingChanges == UNCHANGED <<proc, nodeOf>> => Evolves
BY DEF Evolves

(* What a signal changes: running processes at most leave that state. *)
LEMMA ToldChanges ==
  ASSUME Types, NEW ps, proc' = Told(ps), nodeOf' = nodeOf
  PROVE  /\ Evolves /\ proc' \in [Pids -> {"unused", "run", "told", "dead"}]
         /\ \A p \in Pids : proc'[p] = "run" => proc[p] = "run" /\ p \notin ps
         /\ \A p \in Pids : p \notin ps => proc'[p] = proc[p]
BY DEF Evolves, Told, Types, Alive

(* What a spawn changes: an unused process runs. *)
LEMMA SpawnChanges ==
  ASSUME Types, NEW i \in Nodes, Spawned(i)
  PROVE  /\ Evolves /\ proc' \in [Pids -> {"unused", "run", "told", "dead"}]
         /\ nodeOf' \in [Pids -> Nodes]
         /\ NextPid \in Pids /\ proc[NextPid] = "unused"
         /\ proc'[NextPid] = "run" /\ nodeOf'[NextPid] = i
         /\ \A p \in Pids \ {NextPid} : proc'[p] = proc[p] /\ nodeOf'[p] = nodeOf[p]
<1>1. {p \in Pids : proc[p] = "unused"} \in SUBSET Nat /\ {p \in Pids : proc[p] = "unused"} # {}
  BY DEF Spawned
<1>2. NextPid \in {p \in Pids : proc[p] = "unused"} BY <1>1, MinIsLeast DEF NextPid
<1> HIDE DEF Pids
<1> QED BY <1>2 DEF Spawned, Types, Evolves

(* What has to be shown of a step of t: the record it has then fits, and   *)
(* the file is left alone or treated with care.                            *)
Fits(t) ==
  /\ OnlyTool(t) /\ Evolves /\ Types'
  /\ Shape(tool'[t]) /\ KnownBy(proc', nodeOf', tool'[t])
  /\ ToldOff(proc', tool'[t]) /\ Untouched(proc', crashed', file', tool'[t])

(* A step of a command whose effect on the file and on drained nodes is    *)
(* known.                                                                  *)
LEMMA CarefulStep ==
  ASSUME Inductive, NEW t \in Tools, Fits(t), PlacedIn(proc', nodeOf', file'),
         OneWriter', AllHeld', Drains', Stay',
         cleared' = cleared \/ (AfterDown' /\ DownClears')
  PROVE  Inductive'
<1>1. Shapes' /\ Known' /\ TellsFirst' /\ ByItself' /\ RestartAlone' /\ ~cleared
  BY OneTool DEF Fits
<1>2. AfterDown' /\ DownClears' BY <1>1 DEF AfterDown, DownClears
<1> QED BY <1>1, <1>2 DEF Inductive, Fits

(* A step of a command that leaves the file alone. *)
LEMMA PlainStep ==
  ASSUME Inductive, NEW t \in Tools, Fits(t), FileAlone(t), cleared' = cleared
  PROVE  Inductive'
<1>1. PlacedIn(proc', nodeOf', file') BY StaysPlaced DEF Inductive, Known, Fits, FileAlone
<1>2. OneWriter' /\ AllHeld' /\ Drains' /\ Stay' BY FileKept DEF Fits
<1> QED BY <1>1, <1>2, CarefulStep

(* A command that ends while the file is left alone. *)
LEMMA EndFits ==
  ASSUME Inductive, NEW t \in Tools, tool[t].pc # "idle", End(t), Evolves,
         file' \in Real \cup {NoFile}, proc' \in [Pids -> {"unused", "run", "told", "dead"}],
         nodeOf' \in [Pids -> Nodes], crashed' = crashed, drained' \in SUBSET Nodes,
         stale' \in BOOLEAN, faulted' \in BOOLEAN, cleared' \in BOOLEAN
  PROVE  Fits(t) /\ tool'[t] = Idle
<1>1. tool'[t] = Idle /\ (\A u \in Tools \ {t} : tool'[u] = tool[u]) /\ tool' \in [Tools -> ToolState]
  BY IdleTool DEF End, Inductive, Types
<1>2. OnlyTool(t) BY <1>1 DEF OnlyTool
<1>3. Types' BY <1>1 DEF Types, Inductive
<1>4. /\ Shape(tool'[t]) /\ KnownBy(proc', nodeOf', tool'[t])
      /\ ToldOff(proc', tool'[t]) /\ Untouched(proc', crashed', file', tool'[t])
  BY <1>1, IdleTool, Nobody
<1> QED BY <1>1, <1>2, <1>3, <1>4 DEF Fits

(* A command ends, and no process that it held is left running. *)
LEMMA EndStep ==
  ASSUME Inductive, NEW t \in Tools, tool[t].pc # "idle", End(t), Evolves,
         proc' \in [Pids -> {"unused", "run", "told", "dead"}],
         UNCHANGED <<file, nodeOf, crashed, drained, cleared>>,
         stale' \in BOOLEAN, faulted' \in BOOLEAN, stale => stale', faulted => faulted',
         \/ faulted'
         \/ \A p \in Pids : proc'[p] = "run" => proc[p] = "run" /\ ~Holds(tool[t], p)
  PROVE  Inductive'
<1>1. Fits(t) /\ tool'[t] = Idle BY EndFits DEF Inductive, Types
<1>2. CASE \A p \in Pids : proc'[p] = "run" => proc[p] = "run" /\ ~Holds(tool[t], p)
  <2>1. ~Writing(Idle) BY DEF Idle, Writing
  <2>2. FileAlone(t) BY <1>1, <1>2, <2>1 DEF FileAlone
  <2> QED BY <1>1, <2>2, PlainStep
<1>3. CASE faulted'
  <2>1. OneWriter' /\ AllHeld' /\ Drains' /\ Stay'
    BY <1>3 DEF OneWriter, AllHeld, Drains, Stay, Quiet
  <2>2. PlacedIn(proc', nodeOf', file') BY StaysPlaced DEF Inductive, Known
  <2> QED BY <1>1, <2>1, <2>2, CarefulStep
<1> QED BY <1>2, <1>3

(* Who holds nothing. *)
LEMMA EmptyHands ==
  \A r : Empty(r) /\ ~Writing(r) => \A p \in Pids : ~Holds(r, p)
BY DEF Empty, Holds, Made, Range

(* What the invariant says of one command. *)
LEMMA ToolFacts ==
  ASSUME Inductive, NEW t \in Tools
  PROVE  /\ tool[t] \in ToolState /\ Shape(tool[t]) /\ KnownBy(proc, nodeOf, tool[t])
         /\ ToldOff(proc, tool[t]) /\ Untouched(proc, crashed, file, tool[t])
         /\ PlacedIn(proc, nodeOf, file)
BY DEF Inductive, Types, Shapes, Known, TellsFirst, RestartAlone

(* The fields that a jump leaves alone. *)
SameBut(r, s) ==
  /\ s.cmd = r.cmd /\ s.node = r.node /\ s.content = r.content /\ s.mine = r.mine
  /\ s.fresh = r.fresh /\ s.was = r.was /\ s.alone = r.alone

(* A command moves on and knows what it knew. *)
LEMMA GotoChanges ==
  ASSUME Inductive, NEW t \in Tools, tool[t].pc # "idle",
         NEW pc \in {"wait", "start", "write", "written", "remove"}, Goto(t, pc)
  PROVE  /\ tool' \in [Tools -> ToolState] /\ OnlyTool(t)
         /\ tool'[t].pc = pc /\ SameBut(tool[t], tool'[t])
         /\ tool'[t].healthy = tool[t].healthy
<1>1. tool[t] \in ToolState BY ToolFacts
<1>2. tool'[t] = [tool[t] EXCEPT !.pc = pc] /\ (\A u \in Tools \ {t} : tool'[u] = tool[u])
  BY DEF Goto, Inductive, Types
<1>3. tool'[t] \in ToolState BY <1>1, <1>2 DEF ToolState
<1>4. tool' \in [Tools -> ToolState] BY <1>2, <1>3 DEF Goto, Inductive, Types
<1>5. /\ tool'[t].pc = pc /\ SameBut(tool[t], tool'[t]) /\ tool'[t].healthy = tool[t].healthy
  BY <1>1, <1>2 DEF ToolState, SameBut
<1> QED BY <1>2, <1>4, <1>5 DEF OnlyTool, SameBut

(* A known record stays known; what is excused stays excused where the     *)
(* process is not touched.                                                 *)
LEMMA SameKnown ==
  ASSUME NEW pr, NEW no, NEW r, NEW s, SameBut(r, s), KnownBy(pr, no, r)
  PROVE  KnownBy(pr, no, s)
BY DEF SameBut, KnownBy

-----------------------------------------------------------------------------
(* A command that is killed leaves what it did; from then on nothing is    *)
(* promised.                                                               *)
LEMMA KillToolKeeps ==
  ASSUME Inductive, NEW t \in Tools, KillTool(t) PROVE Inductive'
<1>1. Evolves BY NothingChanges DEF KillTool
<1> QED BY <1>1, EndStep DEF KillTool, Inductive, Types

(* A command reads the state file. *)
LEMMA ReadKeeps ==
  ASSUME Inductive, NEW t \in Tools, Read(t) PROVE Inductive'
<1> USE DEF Read
<1>1. Evolves BY NothingChanges
<1>2. /\ tool[t] \in ToolState /\ Shape(tool[t]) /\ KnownBy(proc, nodeOf, tool[t])
      /\ PlacedIn(proc, nodeOf, file) /\ Untouched(proc, crashed, file, tool[t])
  BY DEF Inductive, Types, Shapes, Known, RestartAlone
<1>3. /\ Empty(tool[t]) /\ tool[t].content = NoFile /\ tool[t].cmd \in Commands
      /\ tool[t].node \in Nodes
  BY <1>2 DEF Shape
<1>4. \A p \in Pids : ~Holds(tool[t], p) BY <1>3, EmptyHands DEF Writing
<1>5. CASE ~MayRead(tool[t].cmd)
  BY <1>1, <1>4, <1>5, EndStep DEF Inductive, Types
<1>6. CASE MayRead(tool[t].cmd)
  <2> DEFINE at == CASE tool[t].cmd = "up" -> "spawn"
                     [] tool[t].cmd = "restart" -> "node"
                     [] OTHER -> "signal"
  <2>1. tool' = [tool EXCEPT ![t].content = file, ![t].pc = at] BY <1>6
  <2>2. /\ tool[t].cmd = "up" => at = "spawn" /\ file = NoFile
        /\ tool[t].cmd = "restart" => at = "node" /\ file \in Real
        /\ tool[t].cmd \in {"drain", "down"} => at = "signal" /\ file \in Real
    BY <1>6 DEF MayRead, Inductive, Types
  <2>3. at \in {"spawn", "node", "signal"} BY <1>3, <2>2
  <2> HIDE DEF at
  <2>4. tool'[t] = [tool[t] EXCEPT !.content = file, !.pc = at]
        /\ (\A u \in Tools \ {t} : tool'[u] = tool[u])
    BY <2>1 DEF Inductive, Types
  <2>5. /\ tool'[t].pc = at /\ tool'[t].content = file /\ tool'[t].cmd = tool[t].cmd
        /\ tool'[t].node = tool[t].node /\ tool'[t].mine = tool[t].mine
        /\ tool'[t].fresh = tool[t].fresh /\ tool'[t].was = tool[t].was
        /\ tool'[t].alone = tool[t].alone
    BY <1>2, <2>4 DEF ToolState
  <2>6. tool'[t] \in ToolState BY <1>2, <2>3, <2>4 DEF ToolState, Inductive, Types
  <2>7. Types'
    <3>1. tool' \in [Tools -> ToolState] BY <2>1, <2>4, <2>6 DEF Inductive, Types
    <3> QED BY <3>1 DEF Inductive, Types
  <2>8. Shape(tool'[t]) BY <1>3, <2>2, <2>3, <2>5 DEF Shape, Empty
  <2>9. KnownBy(proc', nodeOf', tool'[t]) BY <1>2, <2>5 DEF KnownBy
  <2>10. ToldOff(proc', tool'[t]) BY <2>3, <2>5 DEF ToldOff
  <2>11. Untouched(proc', crashed', file', tool'[t])
    BY <1>2, <2>3, <2>5 DEF Untouched, Excused
  <2>12. Fits(t)
    BY <1>1, <2>4, <2>5, <2>7, <2>8, <2>9, <2>10, <2>11 DEF Fits, OnlyTool
  <2>13. FileAlone(t) BY <1>4, <2>3, <2>5 DEF FileAlone, Writing
  <2> QED BY <2>12, <2>13, PlainStep
<1> QED BY <1>5, <1>6

(* Nobody but t tells a process to stop while t is by itself. *)
LEMMA UpSpawnFailsKeeps ==
  ASSUME Inductive, NEW t \in Tools, UpSpawnFails(t) PROVE Inductive'
<1> USE DEF UpSpawnFails, At
<1>1. Shape(tool[t]) BY ToolFacts
<1>2. /\ Evolves /\ proc' \in [Pids -> {"unused", "run", "told", "dead"}]
      /\ \A p \in Pids : proc'[p] = "run" => proc[p] = "run" /\ p \notin Range(tool[t].mine)
  BY ToldChanges DEF Cleanup, Inductive
<1>3. \A p \in Pids : proc'[p] = "run" => ~Holds(tool[t], p)
  BY <1>1, <1>2 DEF Shape, Holds, Made, Writing
<1> QED BY <1>2, <1>3, EndStep DEF Inductive, Types

(* The file could not be written. *)
LEMMA WriteFailsKeeps ==
  ASSUME Inductive, NEW t \in Tools, WriteFails(t) PROVE Inductive'
<1> USE DEF WriteFails
<1>1. tool[t] \in ToolState /\ Writes(tool[t]) BY ToolFacts DEF Shape
<1>2. CASE tool[t].cmd = "up"
  <2>1. /\ Evolves /\ proc' \in [Pids -> {"unused", "run", "told", "dead"}]
        /\ \A p \in Pids : proc'[p] = "run" => proc[p] = "run" /\ p \notin Range(tool[t].mine)
    BY <1>2, ToldChanges DEF Cleanup, Inductive
  <2>2. tool[t].fresh = NoPid /\ tool[t].content = NoFile
    BY <1>1, <1>2 DEF Writes, Replacing
  <2>3. \A p \in Pids : proc'[p] = "run" => ~Holds(tool[t], p)
    BY <2>1, <2>2, NoFileIsNone DEF Holds, Made, Range
  <2> QED BY <2>1, <2>3, EndStep DEF Inductive, Types
<1>3. CASE tool[t].cmd # "up"
  <2>1. Evolves /\ faulted' BY <1>3, NothingChanges
  <2> QED BY <1>3, <2>1, EndStep DEF Inductive, Types
<1> QED BY <1>2, <1>3

(* A sequence after an append. *)
LEMMA Appended ==
  ASSUME NEW S, NEW s \in Seq(S), NEW p \in S
  PROVE  /\ Append(s, p) \in Seq(S) /\ Len(Append(s, p)) = Len(s) + 1
         /\ DOMAIN Append(s, p) = 1 .. Len(Append(s, p))
         /\ Append(s, p)[Len(Append(s, p))] = p
         /\ \A j \in DOMAIN s : j \in DOMAIN Append(s, p) /\ Append(s, p)[j] = s[j]
         /\ \A j \in DOMAIN Append(s, p) : j = Len(Append(s, p)) \/ j \in DOMAIN s
<1>1. Len(s) \in Nat /\ DOMAIN s = 1 .. Len(s) OBVIOUS
<1>2. Append(s, p) \in Seq(S) /\ Len(Append(s, p)) = Len(s) + 1 OBVIOUS
<1>3. DOMAIN Append(s, p) = 1 .. Len(s) + 1 BY <1>2
<1>4. Append(s, p)[Len(s) + 1] = p OBVIOUS
<1>5. \A j \in 1 .. Len(s) : Append(s, p)[j] = s[j] OBVIOUS
<1> QED BY <1>1, <1>2, <1>3, <1>4, <1>5

(* `up' starts one node. *)
LEMMA UpSpawnKeeps ==
  ASSUME Inductive, NEW t \in Tools, UpSpawn(t) PROVE Inductive'
<1> DEFINE mine == Append(tool[t].mine, NextPid)
           at == IF SpawnedAll(mine) THEN "write" ELSE "spawn"
<1>1. /\ At(t, "up", "spawn") /\ Spawned(Len(mine))
      /\ tool' = [tool EXCEPT ![t].mine = mine, ![t].pc = at]
      /\ UNCHANGED <<file, begun, crashed, drained, stale, faulted, cleared>>
  BY DEF UpSpawn
<1>2. /\ tool[t] \in ToolState /\ Shape(tool[t]) /\ KnownBy(proc, nodeOf, tool[t])
      /\ PlacedIn(proc, nodeOf, file)
  BY ToolFacts
<1>3. /\ tool[t].mine \in Seq(Pids) /\ tool[t].content = NoFile /\ tool[t].fresh = NoPid
      /\ Len(tool[t].mine) < N /\ tool[t].cmd = "up" /\ tool[t].pc = "spawn"
  BY <1>1, <1>2 DEF Shape, ToolState, At
<1>4. Len(mine) = Len(tool[t].mine) + 1 /\ Len(mine) \in Nodes BY <1>3
<1>5. /\ Evolves /\ proc' \in [Pids -> {"unused", "run", "told", "dead"}]
      /\ nodeOf' \in [Pids -> Nodes] /\ NextPid \in Pids
      /\ proc'[NextPid] = "run" /\ nodeOf'[NextPid] = Len(mine)
      /\ \A p \in Pids \ {NextPid} : proc'[p] = proc[p] /\ nodeOf'[p] = nodeOf[p]
  BY <1>1, <1>4, SpawnChanges DEF Inductive
<1>6. /\ mine \in Seq(Pids) /\ DOMAIN mine = 1 .. Len(mine)
      /\ mine[Len(mine)] = NextPid
      /\ \A j \in DOMAIN tool[t].mine : j \in DOMAIN mine /\ mine[j] = tool[t].mine[j]
      /\ \A j \in DOMAIN mine : j = Len(mine) \/ j \in DOMAIN tool[t].mine
  <2> HIDE DEF Pids
  <2>1. tool[t].mine \in Seq(Pids) /\ NextPid \in Pids BY <1>3, <1>5
  <2> QED BY ONLY <2>1, Appended
<1>7. at \in {"write", "spawn"} /\ (at = "write" => Len(mine) = N) /\ (at = "spawn" => Len(mine) < N)
  BY <1>4 DEF SpawnedAll
<1> HIDE DEF at, mine
<1>8. tool'[t] = [tool[t] EXCEPT !.mine = mine, !.pc = at]
      /\ (\A u \in Tools \ {t} : tool'[u] = tool[u])
  BY <1>1 DEF Inductive, Types
<1>9. /\ tool'[t].pc = at /\ tool'[t].mine = mine /\ tool'[t].content = NoFile
      /\ tool'[t].cmd = "up" /\ tool'[t].fresh = NoPid /\ tool'[t].alone = tool[t].alone
  BY <1>2, <1>3, <1>8 DEF ToolState
<1>10. Types'
  <2>1. tool'[t] \in ToolState BY <1>2, <1>6, <1>7, <1>8 DEF ToolState
  <2>2. tool' \in [Tools -> ToolState] BY <2>1, <1>1, <1>8 DEF Inductive, Types
  <2> QED BY <1>1, <1>5, <2>2 DEF Inductive, Types
<1>11. Shape(tool'[t]) BY <1>7, <1>9 DEF Shape, Writes
<1>12. KnownBy(proc', nodeOf', tool'[t])
  <2>1. KnownBy(proc', nodeOf', tool[t]) BY <1>2, <1>5, StaysPlaced
  <2>2. \A j \in DOMAIN mine : Placed(proc', nodeOf', mine[j], j)
    BY <1>5, <1>6, <2>1 DEF KnownBy, Placed
  <2> QED BY <1>9, <2>2, NoFileIsNone DEF KnownBy, PlacedIn
<1>13. ToldOff(proc', tool'[t]) /\ Untouched(proc', crashed', file', tool'[t])
  BY <1>7, <1>9 DEF ToldOff, Untouched
<1>14. OnlyTool(t) BY <1>3, <1>8, <1>9 DEF OnlyTool
<1>15. Fits(t) BY <1>1, <1>5, <1>10, <1>11, <1>12, <1>13, <1>14 DEF Fits
<1>16. FileAlone(t)
  <2>1. Made(tool'[t], NextPid) BY <1>4, <1>6, <1>9 DEF Made, Range
  <2>2. \A p \in Pids : Holds(tool[t], p) => Made(tool'[t], p)
    BY <1>3, <1>6, <1>9 DEF Holds, Made, Writing, Range
  <2> QED BY <1>1, <1>5, <1>7, <1>9, <2>1, <2>2 DEF FileAlone, Writing
<1> QED BY <1>1, <1>15, <1>16, PlainStep

(* `drain' tells the process of its node to stop. *)
LEMMA DrainSignalKeeps ==
  ASSUME Inductive, NEW t \in Tools, DrainSignal(t) PROVE Inductive'
<1> DEFINE p == tool[t].content.pids[tool[t].node]
<1> USE DEF DrainSignal, At
<1>1. /\ Shape(tool[t]) /\ KnownBy(proc, nodeOf, tool[t]) /\ tool[t].pc = "signal"
      /\ Empty(tool[t]) /\ tool[t].content \in Real /\ tool[t].node \in Nodes
      /\ tool[t].cmd = "drain"
  BY ToolFacts DEF Shape
<1>2. \A q \in Pids : ~Holds(tool[t], q) BY <1>1, EmptyHands DEF Writing
<1>3. p \in Pids BY <1>1 DEF Real
<1>4. /\ Evolves /\ proc' \in [Pids -> {"unused", "run", "told", "dead"}]
      /\ \A q \in Pids : proc'[q] = "run" => proc[q] = "run" /\ q # p
  BY ToldChanges DEF Inductive
<1>5. CASE End(t) BY <1>1, <1>2, <1>4, <1>5, EndStep DEF Inductive, Types
<1>6. CASE Goto(t, "write")
  <2>1. /\ tool' \in [Tools -> ToolState] /\ OnlyTool(t)
        /\ tool'[t].pc = "write" /\ SameBut(tool[t], tool'[t])
    BY <1>1, <1>6, GotoChanges
  <2>2. Types' BY <1>4, <2>1 DEF Inductive, Types
  <2>3. Shape(tool'[t]) BY <1>1, <2>1 DEF SameBut, Shape, Writes, Empty
  <2>4. KnownBy(proc', nodeOf', tool'[t])
    BY <1>1, <1>4, <2>1, StaysPlaced, SameKnown
  <2>5. ToldOff(proc', tool'[t]) BY <1>1, <1>3, <1>4, <2>1 DEF ToldOff, SameBut
  <2>6. Untouched(proc', crashed', file', tool'[t]) BY <1>1, <2>1 DEF Untouched, SameBut
  <2>7. Fits(t) BY <1>4, <2>1, <2>2, <2>3, <2>4, <2>5, <2>6 DEF Fits
  <2>8. FileAlone(t) BY <1>2, <1>4, <2>1 DEF FileAlone, Writing
  <2> QED BY <2>7, <2>8, PlainStep
<1> QED BY <1>5, <1>6

(* `down' tells the processes on the file to stop. *)
LEMMA DownSignalKeeps ==
  ASSUME Inductive, NEW t \in Tools, DownSignal(t) PROVE Inductive'
<1> USE DEF DownSignal, At
<1>1. /\ Shape(tool[t]) /\ KnownBy(proc, nodeOf, tool[t]) /\ tool[t].pc = "signal"
      /\ Empty(tool[t]) /\ tool[t].content \in Real /\ tool[t].cmd = "down"
  BY ToolFacts DEF Shape
<1>2. \A q \in Pids : ~Holds(tool[t], q) BY <1>1, EmptyHands DEF Writing
<1>3. \A i \in Nodes : tool[t].content.pids[i] \in Pids /\ tool[t].content.pids[i] \in Recorded(t)
  BY <1>1 DEF Real, Recorded
<1>4. /\ Evolves /\ proc' \in [Pids -> {"unused", "run", "told", "dead"}]
      /\ \A q \in Pids : proc'[q] = "run" => proc[q] = "run" /\ q \notin Recorded(t)
  BY ToldChanges DEF Inductive
<1>5. /\ tool' \in [Tools -> ToolState] /\ OnlyTool(t)
      /\ tool'[t].pc = "remove" /\ SameBut(tool[t], tool'[t])
  BY <1>1, GotoChanges
<1>6. Types' BY <1>4, <1>5 DEF Inductive, Types
<1>7. Shape(tool'[t]) BY <1>1, <1>5 DEF SameBut, Shape, Empty
<1>8. KnownBy(proc', nodeOf', tool'[t]) BY <1>1, <1>4, <1>5, StaysPlaced, SameKnown
<1>9. ToldOff(proc', tool'[t]) BY <1>1, <1>3, <1>4, <1>5 DEF ToldOff, SameBut
<1>10. Untouched(proc', crashed', file', tool'[t]) BY <1>1, <1>5 DEF Untouched, SameBut
<1>11. Fits(t) BY <1>4, <1>5, <1>6, <1>7, <1>8, <1>9, <1>10 DEF Fits
<1>12. FileAlone(t) BY <1>2, <1>4, <1>5 DEF FileAlone, Writing
<1> QED BY <1>11, <1>12, PlainStep

(* A rolling restart turns to the next node. *)
LEMMA RestartNodeKeeps ==
  ASSUME Inductive, NEW t \in Tools, RestartNode(t) PROVE Inductive'
<1> DEFINE i == tool[t].node
           p == file.pids[i]
<1>1. /\ tool[t] \in ToolState /\ Shape(tool[t]) /\ KnownBy(proc, nodeOf, tool[t])
      /\ PlacedIn(proc, nodeOf, file) /\ Untouched(proc, crashed, file, tool[t])
      /\ tool[t].pc = "node" /\ tool[t].cmd = "restart" /\ Empty(tool[t])
  BY ToolFacts DEF Shape, RestartNode, At
<1>2. \A q \in Pids : ~Holds(tool[t], q) BY <1>1, EmptyHands DEF Writing
<1>3. UNCHANGED <<file, nodeOf, begun, crashed, drained, stale, faulted, cleared>>
  BY DEF RestartNode
<1>4. CASE (i > N \/ file = NoFile) /\ End(t) /\ proc' = proc
  <2>1. Evolves BY <1>3, <1>4, NothingChanges
  <2> QED BY <1>1, <1>2, <1>3, <1>4, <2>1, EndStep DEF Inductive, Types
<1>5. CASE /\ i \in Nodes /\ file \in Real /\ proc' = proc
           /\ tool' = [tool EXCEPT ![t].node = i + 1]
  <2>1. Evolves BY <1>3, <1>5, NothingChanges
  <2>2. tool'[t] = [tool[t] EXCEPT !.node = i + 1] /\ (\A u \in Tools \ {t} : tool'[u] = tool[u])
    BY <1>5 DEF Inductive, Types
  <2>a. i + 1 \in 1 .. N + 1 BY <1>5
  <2>3. tool'[t] \in ToolState
    <3> HIDE DEF i
    <3> QED BY <1>1, <2>2, <2>a DEF ToolState
  <2>4. /\ tool'[t].pc = "node" /\ tool'[t].cmd = "restart" /\ Empty(tool'[t])
        /\ tool'[t].was = tool[t].was /\ tool'[t].alone = tool[t].alone
        /\ tool'[t].content = tool[t].content
    BY <1>1, <2>2 DEF ToolState, Empty
  <2>5. Types'
    <3>1. tool' \in [Tools -> ToolState] BY <1>5, <2>2, <2>3 DEF Inductive, Types
    <3> QED BY <1>3, <1>5, <3>1 DEF Inductive, Types
  <2>6. Shape(tool'[t]) BY <2>4 DEF Shape
  <2>7. KnownBy(proc', nodeOf', tool'[t])
    <3>1. DOMAIN tool'[t].mine = {} BY <2>4 DEF Empty
    <3> QED BY <1>1, <1>3, <1>5, <2>4, <3>1 DEF KnownBy, Empty
  <2>8. ToldOff(proc', tool'[t]) BY <2>4 DEF ToldOff
  <2>9. Untouched(proc', crashed', file', tool'[t])
    BY <1>1, <1>3, <1>5, <2>4 DEF Untouched, Excused
  <2>10. Fits(t) BY <1>1, <2>1, <2>2, <2>4, <2>5, <2>6, <2>7, <2>8, <2>9 DEF Fits, OnlyTool
  <2>11. FileAlone(t) BY <1>2, <1>3, <1>5, <2>4 DEF FileAlone, Writing
  <2> QED BY <1>3, <2>10, <2>11, PlainStep
<1>6. ASSUME i \in Nodes, file \in Real, i \notin file.draining, proc' = Told({p}),
             NEW at \in {"wait", "start"},
             tool' = [tool EXCEPT ![t].content = file, ![t].pc = at]
      PROVE  Inductive'
  <2>1. /\ Evolves /\ proc' \in [Pids -> {"unused", "run", "told", "dead"}]
        /\ \A q \in Pids : proc'[q] = "run" => proc[q] = "run" /\ q # p
        /\ \A q \in Pids : q # p => proc'[q] = proc[q]
    <3>1. Types BY DEF Inductive
    <3> HIDE DEF p
    <3>2. /\ Evolves /\ proc' \in [Pids -> {"unused", "run", "told", "dead"}]
          /\ \A q \in Pids : proc'[q] = "run" => proc[q] = "run" /\ q \notin {p}
          /\ \A q \in Pids : q \notin {p} => proc'[q] = proc[q]
      BY <1>3, <1>6, <3>1, ToldChanges
    <3> QED BY <3>2
  <2>2. tool'[t] = [tool[t] EXCEPT !.content = file, !.pc = at]
        /\ (\A u \in Tools \ {t} : tool'[u] = tool[u])
    BY <1>6 DEF Inductive, Types
  <2>3. tool'[t] \in ToolState
    <3>1. file \in Real \cup {NoFile} BY <1>6
    <3>2. at \in {"wait", "start"} /\ tool[t] \in ToolState BY <1>1
    <3> QED BY ONLY <2>2, <3>1, <3>2 DEF ToolState
  <2>4. /\ tool'[t].pc = at /\ tool'[t].cmd = "restart" /\ Empty(tool'[t])
        /\ tool'[t].was = tool[t].was /\ tool'[t].alone = tool[t].alone
        /\ tool'[t].content = file /\ tool'[t].node = i
    BY <1>1, <2>2 DEF ToolState, Empty
  <2>5. Types'
    <3>1. tool' \in [Tools -> ToolState] BY <1>6, <2>2, <2>3 DEF Inductive, Types
    <3> QED BY <1>3, <2>1, <3>1 DEF Inductive, Types
  <2>6. Shape(tool'[t]) BY <1>6, <2>4 DEF Shape, Replacing
  <2>7. KnownBy(proc', nodeOf', tool'[t])
    <3>1. DOMAIN tool'[t].mine = {} BY <2>4 DEF Empty
    <3> QED BY <1>1, <2>1, <2>4, <3>1, StaysPlaced DEF KnownBy, Empty
  <2>8. p \in Pids /\ \A j \in Nodes \ {i} : file.pids[j] \in Pids /\ file.pids[j] # p
    BY <1>1, <1>6 DEF Real, PlacedIn, Placed
  <2>9. ToldOff(proc', tool'[t]) BY <1>6, <2>1, <2>4, <2>8 DEF ToldOff
  <2>10. Untouched(proc', crashed', file', tool'[t])
    <3> SUFFICES ASSUME tool[t].alone
                 PROVE  \A j \in Nodes \ {i} : Excused(proc', crashed', tool'[t], file.pids[j], j)
      BY <1>3, <1>6, <2>4 DEF Untouched
    <3>1. \A j \in Nodes : Excused(proc, crashed, tool[t], file.pids[j], j)
      BY <1>1, <1>6, NoFileIsNone DEF Untouched
    <3> QED BY <1>3, <2>1, <2>4, <2>8, <3>1 DEF Excused
  <2>11. Fits(t)
    BY <1>1, <2>1, <2>2, <2>4, <2>5, <2>6, <2>7, <2>9, <2>10 DEF Fits, OnlyTool
  <2>12. FileAlone(t) BY <1>2, <1>3, <1>6, <2>1, <2>4 DEF FileAlone, Writing
  <2> QED BY <1>3, <2>11, <2>12, PlainStep
<1> QED
  <2>1. i \in 1 .. N + 1 /\ (i > N \/ i \in Nodes) /\ (file = NoFile \/ file \in Real)
    BY <1>1 DEF ToolState, Inductive, Types
  <2> HIDE DEF Nodes
  <2> QED BY <1>4, <1>5, <1>6, <2>1 DEF RestartNode, Skips

(* The old process has ended. *)
LEMMA RestartStoppedKeeps ==
  ASSUME Inductive, NEW t \in Tools, RestartStopped(t) PROVE Inductive'
<1> USE DEF RestartStopped, At
<1>1. /\ Shape(tool[t]) /\ KnownBy(proc, nodeOf, tool[t]) /\ ToldOff(proc, tool[t])
      /\ Untouched(proc, crashed, file, tool[t])
      /\ tool[t].pc = "wait" /\ tool[t].cmd = "restart" /\ Empty(tool[t]) /\ Replacing(tool[t])
  BY ToolFacts DEF Shape
<1>2. \A q \in Pids : ~Holds(tool[t], q) BY <1>1, EmptyHands DEF Writing
<1>3. Evolves BY NothingChanges
<1>4. /\ tool' \in [Tools -> ToolState] /\ OnlyTool(t)
      /\ tool'[t].pc = "start" /\ SameBut(tool[t], tool'[t])
  BY <1>1, GotoChanges
<1>5. Types' BY <1>4 DEF Inductive, Types
<1>6. Shape(tool'[t]) BY <1>1, <1>4 DEF SameBut, Shape, Empty, Replacing
<1>7. KnownBy(proc', nodeOf', tool'[t]) BY <1>1, <1>4, SameKnown
<1>8. ToldOff(proc', tool'[t]) BY <1>1, <1>4 DEF ToldOff, SameBut
<1>9. Untouched(proc', crashed', file', tool'[t]) BY <1>1, <1>4 DEF Untouched, Excused, SameBut
<1>10. Fits(t) BY <1>3, <1>4, <1>5, <1>6, <1>7, <1>8, <1>9 DEF Fits
<1>11. FileAlone(t) BY <1>2, <1>4 DEF FileAlone, Writing
<1> QED BY <1>10, <1>11, PlainStep

(* The old process does not end; the restart aborts. *)
LEMMA RestartStuckKeeps ==
  ASSUME Inductive, NEW t \in Tools, RestartStuck(t) PROVE Inductive'
<1> USE DEF RestartStuck, At
<1>1. tool[t].pc = "wait" /\ Empty(tool[t]) BY ToolFacts DEF Shape
<1>2. \A q \in Pids : ~Holds(tool[t], q) BY <1>1, EmptyHands DEF Writing
<1>3. Evolves BY NothingChanges
<1> QED BY <1>1, <1>2, <1>3, EndStep DEF Inductive, Types

(* The new process is started. *)
LEMMA RestartSpawnKeeps ==
  ASSUME Inductive, NEW t \in Tools, RestartSpawn(t) PROVE Inductive'
<1> USE DEF RestartSpawn, At
<1>1. /\ tool[t] \in ToolState /\ Shape(tool[t]) /\ KnownBy(proc, nodeOf, tool[t])
      /\ ToldOff(proc, tool[t]) /\ Untouched(proc, crashed, file, tool[t])
      /\ tool[t].pc = "start" /\ tool[t].cmd = "restart" /\ Empty(tool[t])
      /\ Replacing(tool[t]) /\ tool[t].node \in Nodes /\ tool[t].content \in Real
  BY ToolFacts DEF Shape, Replacing
<1>2. \A q \in Pids : ~Holds(tool[t], q) BY <1>1, EmptyHands DEF Writing
<1>3. UNCHANGED <<file, begun, crashed, drained, stale, faulted, cleared>> OBVIOUS
<1>4. CASE End(t) /\ UNCHANGED <<proc, nodeOf>>
  <2>1. Evolves BY <1>4, NothingChanges
  <2> QED BY <1>1, <1>2, <1>3, <1>4, <2>1, EndStep DEF Inductive, Types
<1>5. CASE /\ Spawned(tool[t].node)
           /\ tool' = [tool EXCEPT ![t].fresh = NextPid, ![t].pc = "confirm"]
  <2>1. /\ Evolves /\ proc' \in [Pids -> {"unused", "run", "told", "dead"}]
        /\ nodeOf' \in [Pids -> Nodes] /\ NextPid \in Pids /\ proc[NextPid] = "unused"
        /\ proc'[NextPid] = "run" /\ nodeOf'[NextPid] = tool[t].node
        /\ \A p \in Pids \ {NextPid} : proc'[p] = proc[p] /\ nodeOf'[p] = nodeOf[p]
    BY <1>1, <1>5, SpawnChanges DEF Inductive
  <2>2. tool'[t] = [tool[t] EXCEPT !.fresh = NextPid, !.pc = "confirm"]
        /\ (\A u \in Tools \ {t} : tool'[u] = tool[u])
    BY <1>5 DEF Inductive, Types
  <2>3. tool'[t] \in ToolState
    <3>1. NextPid \in Pids \cup {NoPid} BY <2>1
    <3> QED BY ONLY <1>1, <2>2, <3>1 DEF ToolState
  <2>4. /\ tool'[t].pc = "confirm" /\ tool'[t].cmd = "restart" /\ tool'[t].mine = <<>>
        /\ tool'[t].fresh = NextPid /\ tool'[t].was = tool[t].was /\ tool'[t].alone = tool[t].alone
        /\ tool'[t].content = tool[t].content /\ tool'[t].node = tool[t].node
    BY <1>1, <2>2 DEF ToolState, Empty
  <2>5. Types'
    <3>1. tool' \in [Tools -> ToolState] BY <1>5, <2>2, <2>3 DEF Inductive, Types
    <3> QED BY <1>3, <2>1, <3>1 DEF Inductive, Types
  <2>6. Shape(tool'[t]) BY <1>1, <2>1, <2>4 DEF Shape, Replacing
  <2>7. KnownBy(proc', nodeOf', tool'[t])
    <3>1. KnownBy(proc', nodeOf', tool[t]) BY <1>1, <2>1, StaysPlaced
    <3> QED BY <2>1, <2>4, <3>1 DEF KnownBy, Placed
  <2>8. \A i \in Nodes : /\ tool[t].content.pids[i] \in Pids
                         /\ proc'[tool[t].content.pids[i]] = proc[tool[t].content.pids[i]]
    <3>1. DOMAIN tool[t].content.pids = Nodes /\ tool[t].content.pids \in [Nodes -> Pids]
      BY <1>1 DEF Real
    <3>2. \A i \in Nodes : tool[t].content.pids[i] \in Pids /\ proc[tool[t].content.pids[i]] # "unused"
      BY <1>1, <3>1 DEF KnownBy, PlacedIn, Placed
    <3> HIDE DEF Nodes, Pids
    <3> QED BY <2>1, <3>2
  <2>9. ToldOff(proc', tool'[t]) BY <1>1, <2>4, <2>8 DEF ToldOff
  <2>10. Untouched(proc', crashed', file', tool'[t])
    BY <1>1, <1>3, <2>1, <2>4, <2>8 DEF Untouched, Excused
  <2>11. Fits(t)
    BY <1>1, <2>1, <2>2, <2>4, <2>5, <2>6, <2>7, <2>9, <2>10 DEF Fits, OnlyTool
  <2>12. FileAlone(t) BY <1>2, <1>3, <2>1, <2>4 DEF FileAlone, Writing, Made
  <2> QED BY <1>3, <2>11, <2>12, PlainStep
<1> QED BY <1>4, <1>5

(* The new process is looked at. *)
LEMMA RestartConfirmKeeps ==
  ASSUME Inductive, NEW t \in Tools, RestartConfirm(t) PROVE Inductive'
<1> DEFINE well == Alive(tool[t].fresh)
<1> USE DEF RestartConfirm, At
<1>1. /\ tool[t] \in ToolState /\ Shape(tool[t]) /\ KnownBy(proc, nodeOf, tool[t])
      /\ ToldOff(proc, tool[t]) /\ Untouched(proc, crashed, file, tool[t])
      /\ tool[t].pc = "confirm" /\ tool[t].cmd = "restart" /\ tool[t].mine = <<>>
      /\ Replacing(tool[t]) /\ tool[t].fresh \in Pids
  BY ToolFacts DEF Shape
<1>2. Evolves BY NothingChanges
<1>3. tool'[t] = [tool[t] EXCEPT !.pc = "write", !.healthy = well]
      /\ (\A u \in Tools \ {t} : tool'[u] = tool[u])
  BY DEF Inductive, Types
<1>4. well \in BOOLEAN BY DEF Alive
<1>5. well => proc[tool[t].fresh] \in {"run", "told"} BY DEF Alive
<1>6. tool'[t] \in ToolState
  <2> HIDE DEF well
  <2> QED BY ONLY <1>1, <1>3, <1>4 DEF ToolState
<1>7. tool'[t].pc = "write" /\ tool'[t].healthy = well /\ SameBut(tool[t], tool'[t])
  <2> HIDE DEF well
  <2> QED BY ONLY <1>1, <1>3, <1>4 DEF ToolState, SameBut
<1>8. Types'
  <2>1. tool' \in [Tools -> ToolState] BY <1>3, <1>6 DEF Inductive, Types
  <2> QED BY <2>1 DEF Inductive, Types
<1>9. Shape(tool'[t]) BY <1>1, <1>7 DEF SameBut, Shape, Writes, Replacing
<1>10. KnownBy(proc', nodeOf', tool'[t]) BY <1>1, <1>7, SameKnown
<1>11. ToldOff(proc', tool'[t]) BY <1>1, <1>7 DEF ToldOff, SameBut
<1>12. Untouched(proc', crashed', file', tool'[t])
  <2> HIDE DEF well
  <2>1. tool[t].alone /\ well => proc[tool[t].fresh] = "run" BY <1>1, <1>5 DEF Untouched
  <2>2. tool'[t].fresh = tool[t].fresh /\ tool'[t].alone = tool[t].alone BY <1>7 DEF SameBut
  <2>3. tool'[t].healthy => well BY <1>4, <1>7
  <2>4. tool'[t].alone /\ tool'[t].healthy => proc[tool'[t].fresh] = "run" BY <2>1, <2>2, <2>3
  <2>5. tool'[t].pc = "write" /\ SameBut(tool[t], tool'[t]) BY <1>7
  <2>6. proc' = proc /\ crashed' = crashed /\ file' = file OBVIOUS
  <2> QED BY ONLY <1>1, <2>4, <2>5, <2>6 DEF Untouched, Excused, SameBut
<1>13. Fits(t)
  BY <1>1, <1>2, <1>3, <1>7, <1>8, <1>9, <1>10, <1>11, <1>12 DEF Fits, OnlyTool, SameBut
<1>14. FileAlone(t)
  <2>1. \A p \in Pids : Holds(tool[t], p) => Made(tool'[t], p)
    BY <1>1, <1>7 DEF Holds, Made, Writing, SameBut
  <2> QED BY <1>7, <2>1 DEF FileAlone, Writing
<1> QED BY <1>13, <1>14, PlainStep

(* The file is truncated before it is written. *)
LEMMA TruncateKeeps ==
  ASSUME Inductive, NEW t \in Tools, Truncate(t) PROVE Inductive'
<1> USE DEF Truncate
<1>1. /\ tool[t] \in ToolState /\ Shape(tool[t]) /\ KnownBy(proc, nodeOf, tool[t])
      /\ ToldOff(proc, tool[t]) /\ Untouched(proc, crashed, file, tool[t])
      /\ tool[t].pc = "write" /\ Writes(tool[t])
  BY ToolFacts DEF Shape
<1>2. Evolves BY NothingChanges
<1>3. /\ tool' \in [Tools -> ToolState] /\ OnlyTool(t)
      /\ tool'[t].pc = "written" /\ SameBut(tool[t], tool'[t])
      /\ tool'[t].healthy = tool[t].healthy
  BY <1>1, GotoChanges
<1>4. Types'
  <2>1. stale' \in BOOLEAN BY DEF WritesOver, Inductive, Types
  <2> QED BY <1>3, <2>1 DEF Inductive, Types
<1>5. Shape(tool'[t]) BY <1>1, <1>3 DEF SameBut, Shape, Writes, Replacing, Empty
<1>6. KnownBy(proc', nodeOf', tool'[t]) BY <1>1, <1>3, SameKnown
<1>7. ToldOff(proc', tool'[t]) BY <1>1, <1>3 DEF ToldOff, SameBut
<1>8. Untouched(proc', crashed', file', tool'[t]) BY <1>1, <1>3 DEF Untouched, Excused, SameBut
<1>9. Fits(t) BY <1>2, <1>3, <1>4, <1>5, <1>6, <1>7, <1>8 DEF Fits
<1>10. PlacedIn(proc', nodeOf', file') BY NoFileIsNone DEF PlacedIn
<1>11. Quiet' => Quiet /\ file = tool[t].content /\ \A u \in Tools \ {t} : ~Writing(tool[u])
  BY DEF Quiet, WritesOver, Writing, Inductive, Types
<1>12. \A u \in Tools \ {t} : tool'[u] = tool[u] BY <1>3 DEF OnlyTool
<1>13. OneWriter' BY <1>11, <1>12 DEF OneWriter
<1>14. \A p : Made(tool[t], p) => Made(tool'[t], p) BY <1>3 DEF SameBut, Made
<1>15. AllHeld'
  <2> SUFFICES ASSUME Quiet', NEW p \in Pids, proc[p] = "run"
               PROVE  \E u \in Tools : Holds(tool'[u], p)
    BY DEF AllHeld
  <2>1. CASE p \in OnFile
    <3>1. p \in Range(tool'[t].content.pids) BY <1>3, <1>11, <2>1 DEF OnFile, SameBut
    <3> QED BY <1>3, <3>1 DEF Holds, Writing
  <2>2. CASE p \notin OnFile
    <3>1. PICK u \in Tools : Holds(tool[u], p) BY <1>11, <2>2 DEF Inductive, AllHeld
    <3>2. CASE u = t BY <1>1, <1>14, <3>1, <3>2 DEF Holds, Writing
    <3>3. CASE u # t BY <1>12, <3>1, <3>3
    <3> QED BY <3>2, <3>3
  <2> QED BY <2>1, <2>2
<1>16. Drains'
  BY <1>3, <1>11, <1>12 DEF Inductive, Drains, SameBut
<1>17. Stay'
  <2> SUFFICES ASSUME Quiet', NEW i \in drained, NEW p \in Pids, proc[p] = "run", nodeOf[p] = i
               PROVE  \E u \in Tools : Made(tool'[u], p)
    BY DEF Stay
  <2>1. PICK u \in Tools : Made(tool[u], p) BY <1>11 DEF Inductive, Stay
  <2> QED BY <1>12, <1>14, <2>1
<1> QED BY <1>9, <1>10, <1>13, <1>15, <1>16, <1>17, CarefulStep

(* What a command writes. *)
LEMMA NewContentIs ==
  ASSUME Inductive, NEW t \in Tools, tool[t].pc = "written"
  PROVE  /\ NewContent(t) \in Real /\ PlacedIn(proc, nodeOf, NewContent(t))
         /\ tool[t].cmd \in {"up", "drain", "restart"}
         /\ tool[t].cmd = "up" =>
              NewContent(t).pids = tool[t].mine /\ tool[t].content = NoFile /\ tool[t].fresh = NoPid
         /\ tool[t].cmd = "drain" =>
              /\ NewContent(t).pids = tool[t].content.pids /\ Empty(tool[t])
              /\ tool[t].content \in Real /\ tool[t].node \in Nodes
              /\ NewContent(t).draining = tool[t].content.draining \cup {tool[t].node}
         /\ tool[t].cmd = "restart" =>
              /\ \A i \in Nodes : NewContent(t).pids[i] =
                   IF i = tool[t].node THEN tool[t].fresh ELSE tool[t].content.pids[i]
              /\ NewContent(t).draining = tool[t].content.draining
              /\ tool[t].mine = <<>> /\ Replacing(tool[t]) /\ tool[t].node \in Nodes
<1>1. /\ tool[t] \in ToolState /\ Writes(tool[t]) /\ KnownBy(proc, nodeOf, tool[t])
  BY ToolFacts DEF Shape
<1>2. CASE tool[t].cmd = "up"
  <2>1. tool[t].content = NoFile /\ tool[t].fresh = NoPid /\ Len(tool[t].mine) = N
        /\ tool[t].mine \in Seq(Pids)
    BY <1>1, <1>2 DEF Writes, Replacing, ToolState
  <2>2. NewContent(t) = [pids |-> tool[t].mine, draining |-> {}] BY <1>2 DEF NewContent
  <2>3. tool[t].mine \in [Nodes -> Pids] BY <2>1
  <2>4. NewContent(t) \in Real BY <2>2, <2>3 DEF Real
  <2>5. PlacedIn(proc, nodeOf, NewContent(t)) BY <1>1, <2>2 DEF PlacedIn, KnownBy
  <2> QED BY <1>2, <2>1, <2>2, <2>4, <2>5
<1>3. CASE tool[t].cmd = "drain"
  <2>1. Empty(tool[t]) /\ tool[t].content \in Real /\ tool[t].node \in Nodes
    BY <1>1, <1>3 DEF Writes, Replacing
  <2>2. NewContent(t) = [tool[t].content EXCEPT !.draining = @ \cup {tool[t].node}]
    BY <1>3 DEF NewContent, AddDraining
  <2>3. NewContent(t) \in Real /\ NewContent(t).pids = tool[t].content.pids
        /\ NewContent(t).draining = tool[t].content.draining \cup {tool[t].node}
    BY ONLY <2>1, <2>2 DEF Real
  <2>4. PlacedIn(proc, nodeOf, NewContent(t)) BY <1>1, <2>3 DEF PlacedIn, KnownBy
  <2> QED BY <1>3, <2>1, <2>3, <2>4
<1>4. CASE tool[t].cmd = "restart"
  <2>1. /\ tool[t].mine = <<>> /\ Replacing(tool[t]) /\ tool[t].fresh \in Pids
        /\ tool[t].content \in Real /\ tool[t].node \in Nodes
    BY <1>1, <1>4 DEF Writes, Replacing
  <2>2. NewContent(t) = [tool[t].content EXCEPT !.pids[tool[t].node] = tool[t].fresh]
    BY <1>4 DEF NewContent, SetNodePid
  <2>3. /\ NewContent(t) \in Real /\ NewContent(t).draining = tool[t].content.draining
        /\ NewContent(t).pids = [tool[t].content.pids EXCEPT ![tool[t].node] = tool[t].fresh]
    <3> DEFINE c == tool[t].content
               i == tool[t].node
               p == tool[t].fresh
    <3>1. c \in Real /\ i \in Nodes /\ p \in Pids /\ NewContent(t) = [c EXCEPT !.pids[i] = p]
      BY <2>1, <2>2
    <3> HIDE DEF c, i, p, Nodes, Pids
    <3>2. NewContent(t) = [c EXCEPT !.pids = [c.pids EXCEPT ![i] = p]] BY <3>1 DEF Real
    <3>3. [c.pids EXCEPT ![i] = p] \in [Nodes -> Pids] BY <3>1 DEF Real
    <3>4. /\ NewContent(t) \in Real /\ NewContent(t).draining = c.draining
          /\ NewContent(t).pids = [c.pids EXCEPT ![i] = p]
      BY <3>1, <3>2, <3>3 DEF Real
    <3> QED BY <3>4 DEF c, i, p
  <2>4. \A i \in Nodes : NewContent(t).pids[i] =
          IF i = tool[t].node THEN tool[t].fresh ELSE tool[t].content.pids[i]
    BY <2>1, <2>3 DEF Real
  <2>5. DOMAIN NewContent(t).pids = Nodes /\ DOMAIN tool[t].content.pids = Nodes
    BY <2>1, <2>3 DEF Real
  <2>6. PlacedIn(proc, nodeOf, NewContent(t))
    BY <1>1, <2>1, <2>4, <2>5 DEF PlacedIn, KnownBy
  <2> QED BY <1>4, <2>1, <2>3, <2>4, <2>6
<1> QED BY <1>1, <1>2, <1>3, <1>4 DEF Writes, Replacing

(* The content is written. *)
LEMMA WrittenKeeps ==
  ASSUME Inductive, NEW t \in Tools, Written(t) PROVE Inductive'
<1>0. /\ tool[t].pc = "written" /\ file' = NewContent(t) /\ stale' = (stale \/ file # NoFile)
      /\ UNCHANGED <<proc, nodeOf, begun, crashed, faulted, cleared>>
  BY DEF Written
<1>1. /\ tool[t] \in ToolState /\ KnownBy(proc, nodeOf, tool[t])
      /\ ToldOff(proc, tool[t]) /\ Untouched(proc, crashed, file, tool[t])
  BY ToolFacts
<1>2. /\ NewContent(t) \in Real /\ PlacedIn(proc, nodeOf, NewContent(t))
      /\ tool[t].cmd \in {"up", "drain", "restart"}
      /\ tool[t].cmd = "up" =>
           NewContent(t).pids = tool[t].mine /\ tool[t].content = NoFile /\ tool[t].fresh = NoPid
      /\ tool[t].cmd = "drain" =>
           /\ NewContent(t).pids = tool[t].content.pids /\ Empty(tool[t])
           /\ tool[t].content \in Real /\ tool[t].node \in Nodes
           /\ NewContent(t).draining = tool[t].content.draining \cup {tool[t].node}
      /\ tool[t].cmd = "restart" =>
           /\ \A i \in Nodes : NewContent(t).pids[i] =
                IF i = tool[t].node THEN tool[t].fresh ELSE tool[t].content.pids[i]
           /\ NewContent(t).draining = tool[t].content.draining
           /\ tool[t].mine = <<>> /\ Replacing(tool[t]) /\ tool[t].node \in Nodes
  BY <1>0, NewContentIs
<1>3. Evolves BY <1>0, NothingChanges
<1>4. /\ tool[t].cmd = "up" => drained' = {}
      /\ tool[t].cmd = "drain" => drained' = drained \cup {tool[t].node}
      /\ tool[t].cmd = "restart" => drained' = drained
  BY DEF Written
<1>5. drained' \in SUBSET Nodes /\ stale' \in BOOLEAN
  BY <1>0, <1>2, <1>4 DEF Inductive, Types
<1>6. Fits(t) /\ ~Writing(tool'[t])
  <2>1. CASE End(t)
    <3>1. Fits(t) /\ tool'[t] = Idle
      BY <1>0, <1>2, <1>3, <1>5, <2>1, EndFits DEF Inductive, Types
    <3> QED BY <3>1 DEF Writing, Idle
  <2>2. CASE GoesOn(t) /\ tool' = [tool EXCEPT ![t].pc = "node", ![t].node = @ + 1, ![t].fresh = NoPid]
    <3>1. tool[t].cmd = "restart" /\ tool[t].healthy BY <2>2 DEF GoesOn
    <3>2. tool'[t] = [tool[t] EXCEPT !.pc = "node", !.node = @ + 1, !.fresh = NoPid]
          /\ (\A u \in Tools \ {t} : tool'[u] = tool[u])
      BY <2>2 DEF Inductive, Types
    <3>3. tool[t].node + 1 \in 1 .. N + 1 BY <1>2, <3>1
    <3>4. tool'[t] \in ToolState
      <4>1. NoPid \in Pids \cup {NoPid} OBVIOUS
      <4> HIDE DEF Pids, NoPid
      <4> QED BY ONLY <1>1, <3>2, <3>3, <4>1 DEF ToolState
    <3>5. /\ tool'[t].pc = "node" /\ tool'[t].cmd = "restart" /\ Empty(tool'[t])
          /\ tool'[t].was = tool[t].was /\ tool'[t].alone = tool[t].alone
          /\ tool'[t].content = tool[t].content
      BY <1>1, <1>2, <3>1, <3>2 DEF ToolState, Empty
    <3>6. Types'
      <4>1. tool' \in [Tools -> ToolState] BY <2>2, <3>2, <3>4 DEF Inductive, Types
      <4> QED BY <1>0, <1>2, <1>5, <4>1 DEF Inductive, Types
    <3>7. Shape(tool'[t]) BY <3>5 DEF Shape
    <3>8. KnownBy(proc', nodeOf', tool'[t])
      <4>1. DOMAIN tool'[t].mine = {} BY <3>5 DEF Empty
      <4> QED BY <1>0, <1>1, <3>5, <4>1 DEF KnownBy, Empty
    <3>9. ToldOff(proc', tool'[t]) BY <3>5 DEF ToldOff
    <3>10. Untouched(proc', crashed', file', tool'[t])
      <4> SUFFICES ASSUME tool[t].alone, NEW i \in Nodes
                   PROVE  Excused(proc, crashed, tool'[t], NewContent(t).pids[i], i)
        BY <1>0, <3>5 DEF Untouched
      <4>1. CASE i = tool[t].node
        BY <1>0, <1>1, <1>2, <3>1, <4>1 DEF Untouched, Excused
      <4>2. CASE i # tool[t].node
        BY <1>0, <1>1, <1>2, <3>1, <3>5, <4>2 DEF Untouched, Excused
      <4> QED BY <4>1, <4>2
    <3> QED
      BY <1>0, <1>3, <3>2, <3>5, <3>6, <3>7, <3>8, <3>9, <3>10 DEF Fits, OnlyTool, Writing
  <2> QED BY <2>1, <2>2 DEF Written
<1>7. PlacedIn(proc', nodeOf', file') BY <1>0, <1>2
<1>8. \A u \in Tools \ {t} : tool'[u] = tool[u] BY <1>6 DEF Fits, OnlyTool
<1>9. Quiet' => Quiet /\ file = NoFile /\ \A u \in Tools \ {t} : ~Writing(tool[u])
  BY <1>0 DEF Quiet, Inductive, Types, OneWriter, Writing
<1>10. OneWriter' BY <1>6, <1>8, <1>9 DEF OneWriter
<1>11. DOMAIN NewContent(t).pids = Nodes BY <1>2 DEF Real
<1>12. ASSUME Quiet', NEW p \in Pids, proc[p] = "run", Holds(tool[t], p)
       PROVE  p \in OnFile'
  <2>1. CASE tool[t].cmd = "up"
    <3>1. p \in Range(tool[t].mine) BY <1>2, <1>12, <2>1, NoFileIsNone DEF Holds, Made, Range
    <3> QED BY <1>0, <1>2, <2>1, <3>1 DEF OnFile
  <2>2. CASE tool[t].cmd = "drain"
    <3>1. p \in Range(tool[t].content.pids) BY <1>2, <1>12, <2>2 DEF Holds, Made, Range, Empty
    <3> QED BY <1>0, <1>2, <2>2, <3>1 DEF OnFile
  <2>3. CASE tool[t].cmd = "restart"
    <3>1. tool[t].content \in Real /\ tool[t].node \in Nodes BY <1>2, <2>3 DEF Replacing
    <3>2. DOMAIN tool[t].content.pids = Nodes BY <3>1 DEF Real
    <3>3. proc[tool[t].content.pids[tool[t].node]] # "run" BY <1>0, <1>1, <2>3 DEF ToldOff
    <3>4. p = tool[t].fresh \/ \E i \in Nodes \ {tool[t].node} : p = tool[t].content.pids[i]
      BY <1>2, <1>12, <2>3, <3>2, <3>3 DEF Holds, Made, Range
    <3>5. \E i \in Nodes : p = NewContent(t).pids[i] BY <1>2, <2>3, <3>1, <3>4
    <3> QED BY <1>0, <1>11, <3>5 DEF OnFile, Range
  <2> QED BY <1>2, <2>1, <2>2, <2>3
<1>13. AllHeld'
  <2> SUFFICES ASSUME Quiet', NEW p \in Pids, proc[p] = "run", p \notin OnFile'
               PROVE  \E u \in Tools : Holds(tool'[u], p)
    BY <1>0 DEF AllHeld
  <2>1. p \notin OnFile BY <1>9, NoFileIsNone DEF OnFile, Range
  <2>2. PICK u \in Tools : Holds(tool[u], p) BY <1>9, <2>1 DEF Inductive, AllHeld
  <2> QED BY <1>8, <1>12, <2>2
<1>14. Drains'
  <2>1. ASSUME Quiet' PROVE drained' \subseteq file'.draining
    <3>1. tool[t].content # NoFile => drained \subseteq tool[t].content.draining
      BY <1>0, <1>9, <2>1 DEF Inductive, Drains, Writing
    <3>2. tool[t].cmd \in {"drain", "restart"} => tool[t].content # NoFile
      BY <1>2, NoFileIsNone DEF Replacing
    <3> QED BY <1>0, <1>2, <1>4, <3>1, <3>2
  <2> QED BY <1>6, <1>8, <1>9, <2>1 DEF Drains
<1>15. Stay'
  <2> SUFFICES ASSUME Quiet', NEW i \in drained', NEW p \in Pids, proc[p] = "run", nodeOf[p] = i
               PROVE  \E u \in Tools : Made(tool'[u], p)
    BY <1>0 DEF Stay
  <2>1. \A u \in Tools \ {t} : Holds(tool[u], p) => Made(tool'[u], p)
    BY <1>8, <1>9 DEF Holds
  <2>2. CASE i \in drained
    <3>1. PICK u \in Tools : Made(tool[u], p) BY <1>9, <2>2 DEF Inductive, Stay
    <3>2. u # t
      <4>1. CASE tool[t].cmd = "up" BY <1>4, <4>1
      <4>2. CASE tool[t].cmd = "drain" BY <1>2, <3>1, <4>2 DEF Made, Empty, Range
      <4>3. CASE tool[t].cmd = "restart"
        <5>1. tool[t].content # NoFile /\ tool[t].node \notin tool[t].content.draining
          BY <1>2, <4>3, NoFileIsNone DEF Replacing
        <5>2. drained \subseteq tool[t].content.draining
          BY <1>0, <1>9, <5>1 DEF Inductive, Drains, Writing
        <5>3. Made(tool[t], p) => nodeOf[p] = tool[t].node
          BY <1>1, <1>2, <4>3 DEF Made, Range, KnownBy, Placed
        <5> QED BY <2>2, <3>1, <5>1, <5>2, <5>3
      <4> QED BY <1>2, <4>1, <4>2, <4>3
    <3> QED BY <2>1, <3>1, <3>2 DEF Holds
  <2>3. CASE i \notin drained
    <3>1. tool[t].cmd = "drain" /\ i = tool[t].node BY <1>2, <1>4, <2>3
    <3>2. p \notin OnFile BY <1>9, NoFileIsNone DEF OnFile, Range
    <3>3. PICK u \in Tools : Holds(tool[u], p) BY <1>9, <3>2 DEF Inductive, AllHeld
    <3>4. u # t
      <4>1. proc[tool[t].content.pids[i]] # "run" BY <1>0, <1>1, <3>1 DEF ToldOff
      <4>2. Holds(tool[t], p) => p \in Range(tool[t].content.pids)
        BY <1>2, <3>1 DEF Holds, Made, Empty, Range
      <4>3. p \in Range(tool[t].content.pids) => p = tool[t].content.pids[i]
        BY <1>1 DEF KnownBy, PlacedIn, Placed, Range
      <4> QED BY <3>3, <4>1, <4>2, <4>3
    <3> QED BY <2>1, <3>3, <3>4
  <2> QED BY <2>2, <2>3
<1> QED BY <1>0, <1>6, <1>7, <1>10, <1>13, <1>14, <1>15, CarefulStep

(* `down' removes the file. *)
LEMMA DownRemoveKeeps ==
  ASSUME Inductive, NEW t \in Tools, DownRemove(t) PROVE Inductive'
<1>0. /\ tool[t].pc = "remove" /\ file' \in {NoFile, file} /\ End(t)
      /\ stale' = (stale \/ WritesOver(t))
      /\ cleared' = (Reports(t, file') /\ \A u \in Tools \ {t} : tool[u].pc = "idle")
      /\ drained' = (IF file' = NoFile THEN {} ELSE drained)
      /\ UNCHANGED <<proc, nodeOf, begun, crashed, faulted>>
  BY DEF DownRemove, At
<1>1. Shape(tool[t]) /\ ToldOff(proc, tool[t]) /\ PlacedIn(proc, nodeOf, file)
  BY ToolFacts
<1>2. Empty(tool[t]) /\ tool[t].content \in Real BY <1>0, <1>1 DEF Shape
<1>3. \A q \in Pids : ~Holds(tool[t], q) BY <1>0, <1>2, EmptyHands DEF Writing
<1>4. Evolves BY <1>0, NothingChanges
<1>5. /\ file' \in Real \cup {NoFile} /\ drained' \in SUBSET Nodes /\ stale' \in BOOLEAN
      /\ cleared' \in BOOLEAN
  BY <1>0 DEF Inductive, Types, WritesOver, Reports
<1>6. Fits(t) /\ tool'[t] = Idle
  BY <1>0, <1>4, <1>5, EndFits DEF Inductive, Types
<1>7. PlacedIn(proc', nodeOf', file') BY <1>0, <1>1, NoFileIsNone DEF PlacedIn
<1>8. (\A u \in Tools \ {t} : tool'[u] = tool[u]) /\ ~Writing(tool'[t])
  BY <1>6 DEF Fits, OnlyTool, Idle, Writing
<1>9. Quiet' => Quiet /\ file = tool[t].content /\ \A u \in Tools \ {t} : ~Writing(tool[u])
  BY <1>0 DEF Quiet, WritesOver, Writing, Inductive, Types
<1>10. OneWriter' BY <1>8, <1>9 DEF OneWriter
<1>11. AllHeld'
  <2> SUFFICES ASSUME Quiet', NEW p \in Pids, proc[p] = "run", p \notin OnFile'
               PROVE  \E u \in Tools : Holds(tool'[u], p)
    BY <1>0 DEF AllHeld
  <2>1. p \notin OnFile
    <3>1. CASE file' = file BY <3>1 DEF OnFile
    <3>2. CASE file' = NoFile
      <4>1. DOMAIN file.pids = Nodes BY <1>2, <1>9 DEF Real
      <4> QED BY <1>0, <1>1, <1>9, <4>1 DEF OnFile, Range, ToldOff
    <3> QED BY <1>0, <3>1, <3>2
  <2>2. PICK u \in Tools : Holds(tool[u], p) BY <1>9, <2>1 DEF Inductive, AllHeld
  <2> QED BY <1>3, <1>8, <2>2
<1>12. Drains' BY <1>0, <1>8, <1>9 DEF Inductive, Drains
<1>13. Stay'
  <2> SUFFICES ASSUME Quiet', NEW i \in drained, NEW p \in Pids, proc[p] = "run", nodeOf[p] = i
               PROVE  \E u \in Tools : Made(tool'[u], p)
    BY <1>0 DEF Stay
  <2>1. PICK u \in Tools : Made(tool[u], p) BY <1>9 DEF Inductive, Stay
  <2> QED BY <1>3, <1>8, <2>1 DEF Holds
<1>a. cleared' => file' = NoFile /\ \A u \in Tools \ {t} : tool[u].pc = "idle"
  BY <1>0 DEF Reports
<1>b. Idle.pc = "idle" BY DEF Idle
<1>14. AfterDown' BY <1>6, <1>8, <1>a, <1>b DEF AfterDown
<1>15. DownClears'
  <2> SUFFICES ASSUME cleared', Quiet' PROVE file' = NoFile /\ \A p \in Pids : proc'[p] # "run"
    BY DEF DownClears, Quiet, Running
  <2>1. file' = NoFile BY <1>a
  <2>2. \A p \in Pids : p \notin OnFile' BY <2>1, NoFileIsNone DEF OnFile, Range
  <2>3. \A u \in Tools : tool'[u] = Idle
    BY <1>6, <1>8, <1>a DEF Inductive, Shapes, Shape
  <2>4. \A p \in Pids : \A u \in Tools : ~Holds(tool'[u], p) BY <2>3, Nobody
  <2> QED BY <1>11, <2>1, <2>2, <2>4 DEF AllHeld
<1> QED BY <1>6, <1>7, <1>10, <1>11, <1>12, <1>13, <1>14, <1>15, CarefulStep

(* A command begins. *)
LEMMA StartKeeps ==
  ASSUME Inductive, NEW t \in Tools, NEW cmd \in Commands, NEW i \in Nodes, Start(t, cmd, i)
  PROVE  Inductive'
<1> DEFINE others == \E u \in Tools \ {t} : tool[u].pc # "idle"
           r == [Idle EXCEPT !.pc = "read", !.cmd = cmd, !.node = i,
                             !.was = {j \in Nodes : Down(j)}, !.alone = ~others]
<1>0. /\ tool[t].pc = "idle" /\ (cmd # "drain" => i = 1) /\ cleared' = FALSE
      /\ tool' = [u \in Tools |-> IF u = t THEN r
                                   ELSE IF tool[u].pc = "idle" THEN Idle
                                   ELSE [tool[u] EXCEPT !.alone = FALSE]]
      /\ UNCHANGED <<file, proc, nodeOf, crashed, drained, stale, faulted>>
  BY DEF Start
<1>1. others \in BOOLEAN /\ {j \in Nodes : Down(j)} \in SUBSET Nodes OBVIOUS
<1>2. \A u \in Tools : tool[u] \in ToolState /\ Shape(tool[u]) /\ (tool[u].pc = "idle" => tool[u] = Idle)
  BY DEF Inductive, Types, Shapes, Shape
<1>3. /\ r.pc = "read" /\ r.cmd = cmd /\ r.node = i /\ Empty(r) /\ r.content = NoFile
      /\ r.was = {j \in Nodes : Down(j)} /\ (r.alone => ~others) /\ r \in ToolState
  <2> DEFINE al == ~others
             was == {j \in Nodes : Down(j)}
  <2>1. al \in BOOLEAN /\ was \in SUBSET Nodes /\ i \in 1 .. N + 1 /\ cmd \in Commands \cup {"none"}
    OBVIOUS
  <2>2. r = [Idle EXCEPT !.pc = "read", !.cmd = cmd, !.node = i, !.was = was, !.alone = al]
    OBVIOUS
  <2>3. al => ~others OBVIOUS
  <2> HIDE DEF al, was, others, r
  <2>4. /\ r.pc = "read" /\ r.cmd = cmd /\ r.node = i /\ r.mine = <<>> /\ r.fresh = NoPid
        /\ r.content = NoFile /\ r.was = was /\ r.alone = al
    BY <2>2 DEF Idle
  <2>5. r \in ToolState BY ONLY <2>1, <2>2, IdleTool DEF ToolState
  <2>6. r.was = {j \in Nodes : Down(j)} BY <2>4 DEF was
  <2>7. r.alone => ~others BY <2>1, <2>3, <2>4
  <2> QED BY <2>4, <2>5, <2>6, <2>7 DEF Empty
<1>4. tool'[t] = r BY <1>0
<1> HIDE DEF r
<1>5. ASSUME NEW u \in Tools \ {t}
      PROVE  /\ tool'[u] \in ToolState /\ SameBut([tool[u] EXCEPT !.alone = tool'[u].alone], tool'[u])
             /\ tool'[u].pc = tool[u].pc /\ tool'[u].cmd = tool[u].cmd /\ tool'[u].node = tool[u].node
             /\ tool'[u].content = tool[u].content /\ tool'[u].mine = tool[u].mine
             /\ tool'[u].fresh = tool[u].fresh
             /\ tool'[u] = Idle \/ (tool'[u].alone = FALSE /\ tool'[u].pc # "idle")
  <2>1. CASE tool[u].pc = "idle"
    <3>1. tool'[u] = Idle /\ tool[u] = Idle BY <1>0, <1>2, <2>1
    <3> QED BY <3>1, IdleTool DEF SameBut, ToolState
  <2>2. CASE tool[u].pc # "idle"
    <3>1. tool'[u] = [tool[u] EXCEPT !.alone = FALSE] BY <1>0, <2>2
    <3>2. tool[u] \in ToolState BY <1>2
    <3> QED BY ONLY <2>2, <3>1, <3>2 DEF ToolState, SameBut
  <2> QED BY <2>1, <2>2
<1>6. Types'
  <2>1. tool' \in [Tools -> ToolState] BY <1>0, <1>3, <1>4, <1>5
  <2> QED BY <1>0, <2>1 DEF Inductive, Types
<1>7. Shapes'
  <2>1. Shape(r) BY <1>0, <1>3 DEF Shape
  <2>2. ASSUME NEW u \in Tools \ {t} PROVE Shape(tool'[u])
    <3>1. Shape(tool[u]) BY <1>2
    <3> QED BY <1>5, <3>1, IdleTool DEF Shape, Empty, Replacing, Writes
  <2> QED BY <1>4, <2>1, <2>2 DEF Shapes
<1>8. Known'
  <2>1. KnownBy(proc, nodeOf, r)
    <3>1. DOMAIN r.mine = {} BY <1>3 DEF Empty
    <3> QED BY <1>3, <3>1, NoFileIsNone DEF KnownBy, PlacedIn, Empty
  <2>2. \A u \in Tools \ {t} : KnownBy(proc, nodeOf, tool'[u])
    BY <1>5 DEF Inductive, Known, KnownBy
  <2> QED BY <1>0, <1>4, <2>1, <2>2 DEF Inductive, Known
<1>9. TellsFirst'
  <2>1. ToldOff(proc, r) BY <1>3 DEF ToldOff
  <2>2. ASSUME NEW u \in Tools \ {t} PROVE ToldOff(proc, tool'[u])
    <3>1. ToldOff(proc, tool[u]) BY DEF Inductive, TellsFirst
    <3>2. /\ tool'[u].pc = tool[u].pc /\ tool'[u].cmd = tool[u].cmd
          /\ tool'[u].node = tool[u].node /\ tool'[u].content = tool[u].content
      BY <1>5
    <3> QED BY ONLY <3>1, <3>2 DEF ToldOff
  <2> QED BY <1>0, <1>4, <2>1, <2>2 DEF TellsFirst
<1>10. ~Writing(r) /\ ~Writing(tool[t]) BY <1>0, <1>3 DEF Writing
<1>11. \A u \in Tools \ {t} : /\ Writing(tool'[u]) <=> Writing(tool[u])
                             /\ \A p : Made(tool[u], p) => Made(tool'[u], p)
  BY <1>5 DEF Writing, Made
<1>12. \A p \in Pids : ~Holds(tool[t], p) BY <1>0, <1>2, Nobody
<1>13. Quiet' = Quiet BY <1>0 DEF Quiet
<1>14. OneWriter' BY <1>0, <1>4, <1>10, <1>11, <1>13 DEF Inductive, OneWriter
<1>15. AllHeld'
  <2> SUFFICES ASSUME Quiet', NEW p \in Pids, proc[p] = "run", p \notin OnFile'
               PROVE  \E u \in Tools : Holds(tool'[u], p)
    BY <1>0 DEF AllHeld
  <2>1. PICK u \in Tools : Holds(tool[u], p) BY <1>0, <1>13 DEF Inductive, AllHeld, OnFile
  <2>2. u # t BY <1>12, <2>1
  <2>3. u \in Tools \ {t} BY <2>2
  <2>4. /\ tool'[u].pc = tool[u].pc /\ tool'[u].content = tool[u].content
        /\ tool'[u].mine = tool[u].mine /\ tool'[u].fresh = tool[u].fresh
    BY <1>5, <2>3
  <2>5. Holds(tool'[u], p) BY ONLY <2>1, <2>4 DEF Holds, Made, Writing
  <2> QED BY <2>5
<1>16. Drains'
  <2>1. \A u \in Tools : Writing(tool'[u]) => /\ u # t /\ Writing(tool[u]) /\ tool'[u].cmd = tool[u].cmd
                                             /\ tool'[u].content = tool[u].content
                                             /\ tool'[u].node = tool[u].node
    BY <1>4, <1>5, <1>10, <1>11
  <2> QED BY <1>0, <1>13, <2>1 DEF Inductive, Drains
<1>17. Stay'
  <2> SUFFICES ASSUME Quiet', NEW n \in drained, NEW p \in Pids, proc[p] = "run", nodeOf[p] = n
               PROVE  \E u \in Tools : Made(tool'[u], p)
    BY <1>0 DEF Stay
  <2>1. PICK u \in Tools : Made(tool[u], p) BY <1>13 DEF Inductive, Stay
  <2> QED BY <1>11, <1>12, <2>1 DEF Holds
<1>18. AfterDown' /\ DownClears' BY <1>0 DEF AfterDown, DownClears
<1>19. ByItself'
  <2>1. r.alone => \A u \in Tools \ {t} : tool'[u].pc = "idle" BY <1>3, <1>5
  <2>2. Idle.pc = "idle" BY DEF Idle
  <2>3. \A u \in Tools \ {t} : tool'[u].pc = "idle" \/ tool'[u].alone = FALSE BY <1>5, <2>2
  <2> QED BY <1>4, <2>1, <2>3 DEF ByItself
<1>20. RestartAlone'
  <2>1. Untouched(proc, crashed, file, r)
    <3>1. file # NoFile => \A j \in Nodes : Excused(proc, crashed, r, file.pids[j], j)
      BY <1>3 DEF Excused, Down, Running
    <3> QED BY <1>3, <3>1 DEF Untouched
  <2>2. \A u \in Tools \ {t} : Untouched(proc, crashed, file, tool'[u])
    <3>1. \A s : s.alone = FALSE => Untouched(proc, crashed, file, s) BY DEF Untouched
    <3>2. Untouched(proc, crashed, file, Idle) BY Nobody
    <3>3. \A u \in Tools \ {t} : tool'[u] = Idle \/ tool'[u].alone = FALSE BY <1>5
    <3> QED BY <3>1, <3>2, <3>3
  <2> QED BY <1>0, <1>4, <2>1, <2>2 DEF RestartAlone
<1> QED
  BY <1>6, <1>7, <1>8, <1>9, <1>14, <1>15, <1>16, <1>17, <1>18, <1>19, <1>20 DEF Inductive

(* A process that ends: one that is missed by a restart that runs by       *)
(* itself ended unasked, for the only one on trial is its own replacement. *)
LEMMA ExitKeeps ==
  ASSUME Inductive, NEW p \in Pids, Exit(p) PROVE Inductive'
<1>0. /\ proc' = [proc EXCEPT ![p] = "dead"]
      /\ crashed' = IF Running(p) /\ ~OnTrial(p) THEN crashed \cup {p} ELSE crashed
      /\ proc[p] # "unused"
      /\ UNCHANGED <<file, nodeOf, tool, begun, drained, stale, faulted, cleared>>
  BY DEF Exit, Alive
<1>1. /\ proc' \in [Pids -> {"unused", "run", "told", "dead"}] /\ proc'[p] = "dead"
      /\ \A q \in Pids \ {p} : proc'[q] = proc[q]
  BY <1>0 DEF Inductive, Types
<1>2. Types' BY <1>0, <1>1 DEF Inductive, Types
<1>3. Evolves BY <1>0, <1>1 DEF Evolves
<1>4. \A q \in Pids : proc'[q] = "run" => proc[q] = "run" BY <1>1
<1>5. Shapes' BY <1>0 DEF Inductive, Shapes
<1>6. Known' BY <1>0, <1>3, StaysPlaced DEF Inductive, Known
<1>7. TellsFirst'
  <2>1. \A t \in Tools : /\ tool[t] \in ToolState /\ Shape(tool[t])
                        /\ KnownBy(proc, nodeOf, tool[t]) /\ ToldOff(proc, tool[t])
    BY DEF Inductive, Types, Shapes, Known, TellsFirst
  <2> QED BY <1>0, <1>3, <2>1, StaysTold DEF TellsFirst
<1>8. Quiet' = Quiet BY <1>0 DEF Quiet
<1>9. OneWriter' /\ Drains' /\ AfterDown' /\ ByItself'
  BY <1>0, <1>8 DEF Inductive, OneWriter, Drains, AfterDown, ByItself
<1>10. AllHeld' /\ Stay'
  BY <1>0, <1>4, <1>8 DEF Inductive, AllHeld, Stay, OnFile
<1>11. DownClears' BY <1>0, <1>4 DEF Inductive, DownClears, Running
<1>12. ASSUME NEW t \in Tools, tool[t].alone, tool[t].pc # "idle",
              NEW q \in Pids, proc[q] = "run", tool[t].pc = "confirm" => q # tool[t].fresh
       PROVE  proc'[q] = "run" \/ q \in crashed'
  <2>1. CASE q # p BY <1>1, <1>12, <2>1
  <2>2. CASE q = p
    <3>1. ~OnTrial(p) BY <1>12, <2>2 DEF OnTrial, Inductive, ByItself
    <3> QED BY <1>0, <1>12, <2>2, <3>1 DEF Running
  <2> QED BY <2>1, <2>2
<1>13. crashed \subseteq crashed' BY <1>0
<1>14. ASSUME NEW t \in Tools, tool[t].alone, tool[t].pc # "idle", NEW q \in Pids, NEW i,
              Excused(proc, crashed, tool[t], q, i),
              tool[t].pc = "confirm" => q # tool[t].fresh
       PROVE  Excused(proc', crashed', tool[t], q, i)
  BY <1>12, <1>13, <1>14 DEF Excused
<1>15. RestartAlone'
  <2> SUFFICES ASSUME NEW t \in Tools, tool[t].cmd = "restart", tool[t].alone
               PROVE  Untouched(proc', crashed', file, tool[t])
    BY <1>0 DEF RestartAlone, Untouched
  <2>1. Untouched(proc, crashed, file, tool[t]) /\ Shape(tool[t])
        /\ KnownBy(proc, nodeOf, tool[t]) /\ file \in Real \cup {NoFile}
    BY DEF Inductive, RestartAlone, Shapes, Known, Types
  <2>2. ASSUME tool[t].pc \in {"read", "node"}, file # NoFile, NEW i \in Nodes
        PROVE  Excused(proc', crashed', tool[t], file.pids[i], i)
    <3>1. file.pids[i] \in Pids BY <2>1, <2>2 DEF Real
    <3>2. Excused(proc, crashed, tool[t], file.pids[i], i) BY <2>1, <2>2 DEF Untouched
    <3> QED BY <1>14, <2>2, <3>1, <3>2
  <2>3. ASSUME tool[t].pc \in {"wait", "start", "confirm", "write", "written"},
               NEW i \in Nodes \ {tool[t].node}
        PROVE  Excused(proc', crashed', tool[t], tool[t].content.pids[i], i)
    <3>1. Replacing(tool[t]) BY <2>1, <2>3 DEF Shape, Writes
    <3>2. tool[t].content.pids[i] \in Pids /\ DOMAIN tool[t].content.pids = Nodes
      BY <3>1 DEF Replacing, Real
    <3>3. nodeOf[tool[t].content.pids[i]] = i BY <2>1, <3>2 DEF KnownBy, PlacedIn, Placed
    <3>4. tool[t].pc = "confirm" => nodeOf[tool[t].fresh] = tool[t].node
      BY <2>1 DEF Shape, KnownBy, Placed
    <3>5. Excused(proc, crashed, tool[t], tool[t].content.pids[i], i)
      BY <2>1, <2>3 DEF Untouched
    <3> QED BY <1>14, <2>3, <3>2, <3>3, <3>4, <3>5
  <2>4. tool[t].pc = "confirm" => proc'[tool[t].fresh] \in {"run", "dead"}
    <3>1. tool[t].pc = "confirm" => tool[t].fresh \in Pids BY <2>1 DEF Shape
    <3> QED BY <1>1, <2>1, <3>1 DEF Untouched
  <2>5. ASSUME tool[t].pc \in {"write", "written"}, tool[t].healthy
        PROVE  proc'[tool[t].fresh] = "run" \/ tool[t].fresh \in crashed'
    <3>1. tool[t].fresh \in Pids BY <2>1, <2>5 DEF Shape, Writes
    <3>2. proc[tool[t].fresh] = "run" \/ tool[t].fresh \in crashed BY <2>1, <2>5 DEF Untouched
    <3> QED BY <1>12, <1>13, <2>5, <3>1, <3>2
  <2>6. tool[t].pc \in {"wait", "start", "confirm", "write"} => file = tool[t].content
    BY <2>1 DEF Untouched
  <2> HIDE DEF Nodes
  <2> QED BY <2>2, <2>3, <2>4, <2>5, <2>6 DEF Untouched
<1> QED
  BY <1>2, <1>5, <1>6, <1>7, <1>9, <1>10, <1>11, <1>15 DEF Inductive

(* Nothing happens. *)
LEMMA StutterKeeps ==
  ASSUME Inductive, UNCHANGED clusterVars PROVE Inductive'
<1> USE DEF clusterVars
<1>1. Types' /\ Shapes' /\ Known' /\ TellsFirst'
  BY DEF Inductive, Types, Shapes, Known, TellsFirst
<1>2. OneWriter' /\ AllHeld' /\ Drains' /\ Stay' /\ AfterDown'
  BY DEF Inductive, OneWriter, AllHeld, Drains, Stay, AfterDown, Quiet, OnFile
<1>3. DownClears' /\ ByItself' /\ RestartAlone'
  BY DEF Inductive, DownClears, ByItself, RestartAlone, Running
<1> QED BY <1>1, <1>2, <1>3 DEF Inductive

(* Every step keeps the invariant. *)
LEMMA NextInductive ==
  ASSUME Inductive, [ClusterNext]_clusterVars PROVE Inductive'
<1>1. CASE UNCHANGED clusterVars BY <1>1, StutterKeeps
<1>2. CASE \E p \in Pids : Exit(p) BY <1>2, ExitKeeps
<1>3. ASSUME NEW t \in Tools, \E cmd \in Commands, i \in Nodes : Start(t, cmd, i)
      PROVE Inductive'
  BY <1>3, StartKeeps
<1>4. ASSUME NEW t \in Tools,
             Read(t) \/ Truncate(t) \/ Written(t) \/ WriteFails(t) \/ KillTool(t)
      PROVE Inductive'
  BY <1>4, ReadKeeps, TruncateKeeps, WrittenKeeps, WriteFailsKeeps, KillToolKeeps
<1>5. ASSUME NEW t \in Tools, UpSpawn(t) \/ UpSpawnFails(t) \/ DrainSignal(t)
      PROVE Inductive'
  BY <1>5, UpSpawnKeeps, UpSpawnFailsKeeps, DrainSignalKeeps
<1>6. ASSUME NEW t \in Tools,
             \/ RestartNode(t) \/ RestartStopped(t) \/ RestartStuck(t)
             \/ RestartSpawn(t) \/ RestartConfirm(t)
      PROVE Inductive'
  BY <1>6, RestartNodeKeeps, RestartStoppedKeeps, RestartStuckKeeps, RestartSpawnKeeps,
     RestartConfirmKeeps
<1>7. ASSUME NEW t \in Tools, DownSignal(t) \/ DownRemove(t) PROVE Inductive'
  BY <1>7, DownSignalKeeps, DownRemoveKeeps
<1> QED BY <1>1, <1>2, <1>3, <1>4, <1>5, <1>6, <1>7 DEF ClusterNext

(* The invariant holds in every reachable state. *)
LEMMA InductiveHolds == ClusterSpec => []Inductive
BY InitInductive, NextInductive, PTL DEF ClusterSpec

-----------------------------------------------------------------------------
(* What `up' has started and the fresh pid of a restart are what a command *)
(* has in hand.                                                            *)
LEMMA MadeIsFresh == \A p : (\E t \in Tools : Made(tool[t], p)) <=> p \in Fresh
BY DEF Made, Fresh

(* No process is lost sight of, for any number of commands and nodes: as   *)
(* long as no command was killed or wrote over another one, every process  *)
(* that runs is on file or in the hands of a command; and a `down' by      *)
(* itself that reports success has told every process and left no file.    *)
THEOREM NoneLost == ClusterSpec => []ClusterInv
<1>1. ASSUME Inductive PROVE ClusterInv
  <2>1. \A t \in Tools : tool[t] \in ToolState /\ Shape(tool[t])
    BY <1>1 DEF Inductive, Types, Shapes
  <2>2. \A t \in Tools : Len(tool[t].mine) <= N
    <3> TAKE t \in Tools
    <3>1. tool[t] \in ToolState /\ Shape(tool[t]) BY <2>1
    <3>2. \/ tool[t].mine = <<>> \/ Len(tool[t].mine) <= N
      BY <3>1 DEF ToolState, Shape, Empty, Writes, Idle
    <3>3. tool[t].mine = <<>> => Len(tool[t].mine) = 0 OBVIOUS
    <3> QED BY <3>2, <3>3
  <2>3. \A t \in Tools : tool[t].cmd \in Commands \cup {"none"} /\ tool[t].node \in 1 .. N + 1
    BY <2>1 DEF ToolState
  <2>4. ClusterTypeOK BY <1>1, <2>2, <2>3 DEF ClusterTypeOK, Inductive, Types, Real
  <2>5. NoOrphans
    <3> SUFFICES ASSUME Quiet, NEW p \in Pids, Running(p), p \notin OnFile
                 PROVE  p \in InHand
      BY DEF NoOrphans, Quiet
    <3>1. PICK t \in Tools : Holds(tool[t], p)
      BY <1>1 DEF Inductive, AllHeld, Running
    <3>2. CASE Made(tool[t], p) BY <3>2, MadeIsFresh DEF InHand
    <3>3. CASE p \in Range(tool[t].content.pids) BY <3>3 DEF InHand
    <3> QED BY <3>1, <3>2, <3>3 DEF Holds
  <2> QED BY <1>1, <2>4, <2>5 DEF ClusterInv, Inductive
<1> QED BY <1>1, InductiveHolds, PTL

(* A process of a drained node was told to stop, unless a command that had *)
(* read the file before the drain has just started it.                     *)
THEOREM DrainedStayDown == ClusterSpec => []DrainedStay
<1>1. ASSUME Inductive PROVE DrainedStay
  BY <1>1, MadeIsFresh DEF Inductive, Stay, DrainedStay, Quiet, Running
<1> QED BY <1>1, InductiveHolds, PTL

(* A restart that runs by itself takes one node down at a time: the others *)
(* run, were down before, or died on their own.                            *)
THEOREM RollsOneByOne == ClusterSpec => []OneAtATime
<1>1. ASSUME Inductive PROVE OneAtATime
  <2> SUFFICES ASSUME NEW t \in Tools, tool[t].cmd = "restart", tool[t].alone,
                      tool[t].pc # "written", NEW i \in Nodes \ {tool[t].node}, Down(i)
               PROVE  i \in tool[t].was \/ file.pids[i] \in crashed
    BY DEF OneAtATime
  <2>1. /\ tool[t] \in ToolState /\ Shape(tool[t]) /\ Untouched(proc, crashed, file, tool[t])
        /\ file \in Real \cup {NoFile}
    BY <1>1 DEF Inductive, Types, Shapes, RestartAlone
  <2>2. file # NoFile /\ file.pids[i] \in Pids /\ proc[file.pids[i]] # "run"
    BY <2>1 DEF Down, Running, Real
  <2>3. tool[t].pc \in {"read", "node", "wait", "start", "confirm", "write"}
    BY <2>1 DEF ToolState, Shape, Idle
  <2>4. CASE tool[t].pc \in {"read", "node"} BY <2>1, <2>2, <2>4 DEF Untouched, Excused
  <2>5. CASE tool[t].pc \in {"wait", "start", "confirm", "write"}
    BY <2>1, <2>2, <2>5 DEF Untouched, Excused
  <2> QED BY <2>3, <2>4, <2>5
<1> QED BY <1>1, InductiveHolds, PTL
=============================================================================
