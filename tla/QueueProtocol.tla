---------------------------- MODULE QueueProtocol ----------------------------
(***************************************************************************)
(* What the queue managers of a site promise: the nodes that have to apply *)
(* a configuration do so one after the other, through a queue in etcd that *)
(* changes in atomic steps. A step is a successful compare-and-swap by a   *)
(* node's queue manager or by the script modify_nodes_in_queue, or the     *)
(* start or the loss of the work a node does at the front of the queue.    *)
(***************************************************************************)
EXTENDS QueueConfig

CONSTANTS
  TimersAccurate, \* does no timer pop for a node that is at work?
  OncePerTurn     \* does a node call its plugin, and is the outcome reported, once
                  \* in its turn and at no other time?

ASSUME TurnsAssumption == TimersAccurate \in BOOLEAN /\ OncePerTurn \in BOOLEAN

VARIABLES
  config,   \* the queue in etcd
  working   \* the nodes on which at_front_of_queue is applying configuration

vars == <<config, working>>

TypeOK == config \in QueueConfigs /\ working \in SUBSET Nodes

Init == config = DefaultValue /\ working = {}

------------------------------------------------------------------------------
(* Requests, made with modify_nodes_in_queue.                              *)

Add(n) ==
  /\ \E retries \in Retries(config) : config' = AddToQueue(config, n, retries)
  /\ UNCHANGED working

SetForce(force) ==
  /\ config' = [config EXCEPT !.force = force]
  /\ UNCHANGED working

------------------------------------------------------------------------------
(* A turn.                                                                 *)

\* FIRST_IN_QUEUE: the node takes its turn ...
Start(n) ==
  /\ AtFront(config, n)
  /\ ~BeingProcessed(config, n)
  /\ config' = MoveToProcessing(config, n)
  /\ UNCHANGED working

\* ... and, once it has read that from etcd, PROCESSING, it calls its plugin. Unless
\* OncePerTurn, it may call it again while the work goes on, having forgotten that
\* it has called it (an exception, a restart, a round on the default value), or too
\* late, its turn having been taken away since it read the queue.
BeginWork(n) ==
  /\ OncePerTurn => BeingProcessed(config, n)
  /\ working' = working \cup {n}
  /\ UNCHANGED config

\* The outcome of a call of the plugin is reported. Unless OncePerTurn, that need
\* not be the end of the node's work: there may have been another call, or the
\* report, though applied, has raised and will be made again.
Report(n, successful) ==
  /\ n \in working
  /\ working' = working \ {n} \/ (~OncePerTurn /\ UNCHANGED working)
  /\ config' = RemoveFromQueue(config, n, successful)

\* The node's queue manager dies in the middle of its work.
Crash(n) ==
  /\ n \in working
  /\ working' = working \ {n}
  /\ UNCHANGED config

\* Nothing has happened for too long while the node was at the front: a node
\* whose timer pops takes it off the queue.
TimeOut(n) ==
  /\ AtFront(config, n)
  /\ TimersAccurate => n \notin working
  /\ config' = MarkUnresponsive(config, n)
  /\ UNCHANGED working

Next ==
  \/ \E n \in Nodes : \/ Add(n) \/ Start(n) \/ BeginWork(n)
                      \/ \E successful \in BOOLEAN : Report(n, successful)
                      \/ Crash(n) \/ TimeOut(n)
  \/ \E force \in BOOLEAN : SetForce(force)

Safety == Init /\ [][Next]_vars

------------------------------------------------------------------------------
(* Safety.                                                                 *)

\* Configuration is applied on one node at a time, as a node restarts its
\* services in the process: the point of the queue. It takes timers that pop
\* only for nodes that are dead or were never told, and plugins that are called,
\* and report, once in a turn: the queue knows of turns, not of calls.
OneAtATime ==
  TimersAccurate /\ OncePerTurn => \A m, n \in working : m = n

\* The lists of the queue make sense, each of them and together: the next turn
\* and the alarms are computed from them and from nothing else, on every node.
QueueInOrder == InOrder(config)
ListsAgree == CompletedAgrees(config) /\ ErroredAgrees(config)

\* Why OneAtATime holds: a node is at work only during its turn.
WorkInTurn ==
  TimersAccurate /\ OncePerTurn => \A n \in working : BeingProcessed(config, n)

IInv == TypeOK /\ WorkInTurn /\ QueueInOrder /\ ListsAgree

\* A failed node is not forgotten: it stops being errored by being queued again.
FailuresRetried ==
  [][\A n \in Nodes :
       /\ Entry(n, FAILURE) \in config.errored
       /\ Entry(n, FAILURE) \notin config'.errored
       => InQueue(config', n)]_vars

\* Under FORCE a failure takes the failed node off the queue and nobody else: a
\* node loses its place without having had its turn only if FORCE is unset,
\* and then some node is left errored to show why.
ForcePushesOn ==
  [][\A n \in Nodes :
       /\ InQueue(config, n) /\ ~AtFront(config, n) /\ ~InQueue(config', n)
       => ~config.force /\ config'.errored # {}]_vars
==============================================================================
