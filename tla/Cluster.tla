------------------------------ MODULE Cluster ------------------------------
(***************************************************************************)
(* `orbit cluster' (compiler/host/cluster.orb): commands that start, stop  *)
(* and replace the processes of a service and keep their pids in a state   *)
(* file.  Nothing locks the file: commands may overlap, be killed half     *)
(* way, and a write truncates before it writes.  An empty file reads like  *)
(* no file.                                                                *)
(*                                                                         *)
(* A process that is told to stop may take any time; every wait of a       *)
(* command may end before it.  Pids are not used twice.                    *)
(***************************************************************************)
EXTENDS Naturals, Sequences, FiniteSets, FiniteSetsExt, Functions

CONSTANTS Tools,   \* commands that may run at the same time
          N,       \* nodes, 1 .. N
          MaxPid,  \* bound: processes started
          MaxCommands  \* bound: commands given

ASSUME ClusterAssumption == N \in Nat \ {0} /\ MaxPid \in Nat /\ MaxCommands \in Nat

VARIABLES
  file,     \* .orbit/cluster.json: [pids, draining], or NoFile
  proc,     \* pid: "unused", "run", "told" (a signal was sent), "dead"
  nodeOf,   \* pid: the node it was started for
  tool,     \* tool: its command and its place in it
  begun,    \* history: commands given
  crashed,  \* history: pids that ended without being told, once in service
  drained,  \* history: nodes drained since the cluster is up
  stale,    \* history: a command wrote over what another one had written
  faulted,  \* history: a command was killed, or could not write the file
  cleared   \* history: the last command was a `down' by itself that reported success

clusterVars == <<file, proc, nodeOf, tool, begun, crashed, drained, stale,
                 faulted, cleared>>

Nodes == 1 .. N
Pids == 1 .. MaxPid
NoPid == 0
NoFile == [pids |-> <<>>, draining |-> {}]
Commands == {"up", "drain", "restart", "down"}
Idle == [pc |-> "idle", cmd |-> "none", node |-> 1, content |-> NoFile,
         mine |-> <<>>, fresh |-> NoPid, healthy |-> TRUE,
         was |-> {}, alone |-> TRUE]

Alive(p) == p \in Pids /\ proc[p] \in {"run", "told"}
Running(p) == p \in Pids /\ proc[p] = "run"

ClusterTypeOK ==
  /\ file = NoFile \/ (file.pids \in [Nodes -> Pids] /\ file.draining \subseteq Nodes)
  /\ proc \in [Pids -> {"unused", "run", "told", "dead"}]
  /\ \A t \in Tools : /\ tool[t].cmd \in Commands \cup {"none"}
                      /\ tool[t].node \in 1 .. N + 1
                      /\ Len(tool[t].mine) <= N

ClusterInit ==
  /\ file = NoFile
  /\ proc = [p \in Pids |-> "unused"] /\ nodeOf = [p \in Pids |-> 1]
  /\ tool = [t \in Tools |-> Idle]
  /\ begun = 0 /\ crashed = {} /\ drained = {}
  /\ stale = FALSE /\ faulted = FALSE /\ cleared = FALSE

-----------------------------------------------------------------------------
(* The processes. *)

(* A replacement whose health has not been confirmed. *)
OnTrial(p) == \E t \in Tools : tool[t].pc = "confirm" /\ tool[t].fresh = p

(* It ends: as it was told, or by itself. *)
Exit(p) ==
  /\ Alive(p)
  /\ proc' = [proc EXCEPT ![p] = "dead"]
  /\ crashed' = IF Running(p) /\ ~OnTrial(p) THEN crashed \cup {p} ELSE crashed
  /\ UNCHANGED <<file, nodeOf, tool, begun, drained, stale, faulted, cleared>>

(* orbit_os_kill, graceful or forceful, for all of them. *)
Told(ps) == [p \in Pids |-> IF p \in ps /\ Alive(p) THEN "told" ELSE proc[p]]

NextPid == Min({p \in Pids : proc[p] = "unused"})

(* orbit_os_spawn_bg. *)
Spawned(i) ==
  /\ \E p \in Pids : proc[p] = "unused"
  /\ proc' = [proc EXCEPT ![NextPid] = "run"]
  /\ nodeOf' = [nodeOf EXCEPT ![NextPid] = i]

-----------------------------------------------------------------------------
(* A command. *)

At(t, cmd, pc) == tool[t].cmd = cmd /\ tool[t].pc = pc
Goto(t, pc) == tool' = [tool EXCEPT ![t].pc = pc]
End(t) == tool' = [tool EXCEPT ![t] = Idle]

Down(i) == file # NoFile /\ ~Running(file.pids[i])

(* The command line; `was' are the nodes that are down already. *)
Start(t, cmd, i) ==
  LET others == \E u \in Tools \ {t} : tool[u].pc # "idle"
      r == [Idle EXCEPT !.pc = "read", !.cmd = cmd, !.node = i,
                        !.was = {j \in Nodes : Down(j)}, !.alone = ~others]
  IN  /\ tool[t].pc = "idle" /\ begun < MaxCommands /\ (cmd # "drain" => i = 1)
      /\ begun' = begun + 1
      /\ tool' = [u \in Tools |-> IF u = t THEN r
                                  ELSE IF tool[u].pc = "idle" THEN Idle
                                  ELSE [tool[u] EXCEPT !.alone = FALSE]]
      /\ cleared' = FALSE
      /\ UNCHANGED <<file, proc, nodeOf, crashed, drained, stale, faulted>>

(* The command itself is killed, at any of its steps. *)
KillTool(t) ==
  /\ tool[t].pc # "idle"
  /\ End(t)
  /\ faulted' = TRUE
  /\ UNCHANGED <<file, proc, nodeOf, begun, crashed, drained, stale, cleared>>

MayRead(cmd) == (file = NoFile) <=> (cmd = "up")

(* The state file is read; `up' wants none, the others want one. *)
Read(t) ==
  /\ tool[t].pc = "read"
  /\ IF MayRead(tool[t].cmd)
     THEN tool' = [tool EXCEPT ![t].content = file,
                     ![t].pc = CASE tool[t].cmd = "up" -> "spawn"
                                 [] tool[t].cmd = "restart" -> "node"
                                 [] OTHER -> "signal"]
     ELSE End(t)
  /\ UNCHANGED <<file, proc, nodeOf, begun, crashed, drained, stale, faulted, cleared>>

(* The new content of the file. *)
AddDraining(c, i) == [c EXCEPT !.draining = @ \cup {i}]
SetNodePid(c, i, p) == [c EXCEPT !.pids[i] = p]
NewContent(t) ==
  CASE tool[t].cmd = "up" -> [pids |-> tool[t].mine, draining |-> {}]
    [] tool[t].cmd = "drain" -> AddDraining(tool[t].content, tool[t].node)
    [] OTHER -> SetNodePid(tool[t].content, tool[t].node, tool[t].fresh)

(* For the history only: the file is not what this command read, or        *)
(* another one is writing it.                                              *)
WritesOver(t) ==
  file # tool[t].content \/ \E u \in Tools \ {t} : tool[u].pc = "written"

(* orbit_file_write: the file is truncated, then written. *)
Truncate(t) ==
  /\ tool[t].pc = "write"
  /\ stale' = (stale \/ WritesOver(t))
  /\ file' = NoFile
  /\ Goto(t, "written")
  /\ UNCHANGED <<proc, nodeOf, begun, crashed, drained, faulted, cleared>>

(* Mutant: a restart goes on after a replacement that is not healthy. *)
GoesOnAnyway(t) == tool[t].cmd = "restart"

GoesOn(t) == tool[t].cmd = "restart" /\ tool[t].healthy

(* Where a command is after its write: `up' looks whether its nodes live,  *)
(* a restart goes on when the replacement was healthy.                     *)
Written(t) ==
  /\ tool[t].pc = "written"
  /\ file' = NewContent(t)
  /\ drained' = CASE tool[t].cmd = "up" -> {}
                  [] tool[t].cmd = "drain" -> drained \cup {tool[t].node}
                  [] OTHER -> drained
  /\ IF GoesOn(t)
     THEN tool' = [tool EXCEPT ![t].pc = "node", ![t].node = @ + 1, ![t].fresh = NoPid]
     ELSE End(t)
  /\ stale' = (stale \/ file # NoFile)
  /\ UNCHANGED <<proc, nodeOf, begun, crashed, faulted, cleared>>

(* Mutant: the nodes that were started are left to themselves. *)
CleanupNone(t) == proc

(* clusterKillList on what `up' has started. *)
Cleanup(t) == Told(Range(tool[t].mine))

(* It cannot be written, before or after it was truncated: `up' tells its  *)
(* nodes to stop.                                                          *)
WriteFails(t) ==
  /\ tool[t].pc \in {"write", "written"}
  /\ proc' = IF tool[t].cmd = "up" THEN Cleanup(t) ELSE proc
  /\ faulted' = (faulted \/ tool[t].cmd # "up")
  /\ End(t)
  /\ UNCHANGED <<file, nodeOf, begun, crashed, drained, stale, cleared>>

-----------------------------------------------------------------------------
(* clusterUp: all nodes, then the file. *)

SpawnedAll(mine) == Len(mine) = N

UpSpawn(t) ==
  LET mine == Append(tool[t].mine, NextPid)
  IN  /\ At(t, "up", "spawn")
      /\ Spawned(Len(mine))
      /\ tool' = [tool EXCEPT ![t].mine = mine,
                           ![t].pc = IF SpawnedAll(mine) THEN "write" ELSE "spawn"]
      /\ UNCHANGED <<file, begun, crashed, drained, stale, faulted, cleared>>

UpSpawnFails(t) ==
  /\ At(t, "up", "spawn")
  /\ proc' = Cleanup(t)
  /\ End(t)
  /\ UNCHANGED <<file, nodeOf, begun, crashed, drained, stale, faulted, cleared>>

(* clusterDrain: told to stop if it lives, recorded in either case; a      *)
(* signal that cannot be sent ends it.                                     *)
DrainSignal(t) ==
  LET p == tool[t].content.pids[tool[t].node]
  IN  /\ At(t, "drain", "signal")
      /\ proc' = Told({p})
      /\ \/ Goto(t, "write")
         \/ ~Alive(p) /\ End(t)
      /\ UNCHANGED <<file, nodeOf, begun, crashed, drained, stale, faulted, cleared>>

-----------------------------------------------------------------------------
(* clusterRestart, one node after the other. *)

(* Mutant: a node is replaced whether it was drained or not. *)
SkipsNone(c, i) == FALSE

Skips(c, i) == i \in c.draining

RestartNode(t) ==
  LET i == tool[t].node
      p == file.pids[i]
  IN  /\ At(t, "restart", "node")
      /\ IF i > N \/ file = NoFile THEN End(t) /\ UNCHANGED proc
         ELSE IF Skips(file, i)
         THEN tool' = [tool EXCEPT ![t].node = i + 1] /\ UNCHANGED proc
         ELSE /\ proc' = Told({p})
              /\ tool' = [tool EXCEPT ![t].content = file,
                            ![t].pc = IF Alive(p) THEN "wait" ELSE "start"]
      /\ UNCHANGED <<file, nodeOf, begun, crashed, drained, stale, faulted, cleared>>

(* clusterWaitDead sees it gone. *)
RestartStopped(t) ==
  /\ At(t, "restart", "wait")
  /\ ~Alive(tool[t].content.pids[tool[t].node])
  /\ Goto(t, "start")
  /\ UNCHANGED <<file, proc, nodeOf, begun, crashed, drained, stale, faulted, cleared>>

(* It does not end, not even when it is killed: the others are not touched.*)
RestartStuck(t) ==
  /\ At(t, "restart", "wait")
  /\ Alive(tool[t].content.pids[tool[t].node])
  /\ End(t)
  /\ UNCHANGED <<file, proc, nodeOf, begun, crashed, drained, stale, faulted, cleared>>

RestartSpawn(t) ==
  /\ At(t, "restart", "start")
  /\ \/ /\ Spawned(tool[t].node)
        /\ tool' = [tool EXCEPT ![t].fresh = NextPid, ![t].pc = "confirm"]
     \/ End(t) /\ UNCHANGED <<proc, nodeOf>>
  /\ UNCHANGED <<file, begun, crashed, drained, stale, faulted, cleared>>

(* clusterConfirmAlive; without health the command ends after its write.   *)
RestartConfirm(t) ==
  /\ At(t, "restart", "confirm")
  /\ tool' = [tool EXCEPT ![t].pc = "write", ![t].healthy = Alive(tool[t].fresh)]
  /\ UNCHANGED <<file, proc, nodeOf, begun, crashed, drained, stale, faulted, cleared>>

-----------------------------------------------------------------------------
(* clusterDown: told, killed after 3 s, looked at 2 s later. *)

Recorded(t) == {tool[t].content.pids[i] : i \in Nodes}

DownSignal(t) ==
  /\ At(t, "down", "signal")
  /\ proc' = Told(Recorded(t))
  /\ Goto(t, "remove")
  /\ UNCHANGED <<file, nodeOf, begun, crashed, drained, stale, faulted, cleared>>

Survivors(t) == {p \in Recorded(t) : Alive(p)}

Reports(t, after) == after = NoFile /\ Survivors(t) = {}

(* The file is removed, if it can be, with survivors too. *)
DownRemove(t) ==
  /\ At(t, "down", "remove")
  /\ file' \in {NoFile, file}
  /\ stale' = (stale \/ WritesOver(t))
  /\ cleared' = (Reports(t, file') /\ \A u \in Tools \ {t} : tool[u].pc = "idle")
  /\ drained' = IF file' = NoFile THEN {} ELSE drained
  /\ End(t)
  /\ UNCHANGED <<proc, nodeOf, begun, crashed, faulted>>

ClusterNext ==
  \/ \E p \in Pids : Exit(p)
  \/ \E t \in Tools :
       \/ \E cmd \in Commands, i \in Nodes : Start(t, cmd, i)
       \/ Read(t) \/ Truncate(t) \/ Written(t) \/ WriteFails(t) \/ KillTool(t)
       \/ UpSpawn(t) \/ UpSpawnFails(t) \/ DrainSignal(t)
       \/ RestartNode(t) \/ RestartStopped(t) \/ RestartStuck(t)
       \/ RestartSpawn(t) \/ RestartConfirm(t)
       \/ DownSignal(t) \/ DownRemove(t)

ClusterSpec == ClusterInit /\ [][ClusterNext]_clusterVars

-----------------------------------------------------------------------------
(* The pids a running command has and will write. *)
Fresh == UNION {Range(tool[t].mine) \cup {tool[t].fresh} : t \in Tools}
InHand == Fresh \cup UNION {Range(tool[t].content.pids) : t \in Tools}
OnFile == Range(file.pids)

(* "No orphans left": every process that runs and was not told to stop is  *)
(* in the state file or in the hands of a command that is about to write   *)
(* it, through failed spawns, processes that die or do not stop, and       *)
(* commands that give up.  It takes a command that is killed or cannot     *)
(* write, or two that write over each other, to lose one.                  *)
NoOrphans ==
  ~stale /\ ~faulted => \A p \in Pids : Running(p) => p \in OnFile \cup InHand

(* "Drained nodes are not restarted": a process of a drained node was told *)
(* to stop, unless a command that had looked at the file before the node   *)
(* was drained has just started it; that command will write over the drain.*)
DrainedStay ==
  ~stale /\ ~faulted => \A i \in drained : \A p \in Pids :
    Running(p) /\ nodeOf[p] = i => p \in Fresh

(* "One node at a time, health-verified before the next": while a restart  *)
(* runs by itself, the nodes that are down are the one it is at, the ones  *)
(* that were down when it began and the ones that died on their own.       *)
OneAtATime ==
  \A t \in Tools : tool[t].cmd = "restart" /\ tool[t].alone /\ tool[t].pc # "written" =>
    \A i \in Nodes \ {tool[t].node} :
      Down(i) => i \in tool[t].was \/ file.pids[i] \in crashed

(* After a `down' that reported success, with no other command under way,  *)
(* every process of the service was told to stop and no file is left.      *)
DownClears ==
  cleared /\ ~stale /\ ~faulted => file = NoFile /\ \A p \in Pids : ~Running(p)

(* No process is lost sight of, while commands run and after a `down'. *)
ClusterInv == ClusterTypeOK /\ DownClears /\ NoOrphans
=============================================================================
