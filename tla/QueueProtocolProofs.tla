------------------------- MODULE QueueProtocolProofs -------------------------
(***************************************************************************)
(* Proofs about QueueProtocol, for any finite set of nodes: the queue      *)
(* stays well formed, configuration is applied on one node at a time, and  *)
(* nobody is forgotten.                                                    *)
(***************************************************************************)
EXTENDS QueueProtocol, QueueConfigProofs

------------------------------------------------------------------------------
(* The invariants.                                                         *)

\* IInv in terms of WellFormed.
LEMMA InvariantParts ==
  IInv <=> WellFormed(config) /\ working \in SUBSET Nodes /\ WorkInTurn
  BY DEF IInv, TypeOK, QueueInOrder, ListsAgree, WellFormed

\* The empty queue a key is created with satisfies the invariant.
LEMMA InitInvariant == Init => IInv
<1> SUFFICES ASSUME Init PROVE IInv
  OBVIOUS
<1>1. /\ config.force = FALSE /\ config.queued = <<>> /\ config.errored = {}
      /\ config.completed = {} /\ working = {}
  BY DEF Init, DefaultValue
<1>2. config \in QueueConfigs
  <2>1. <<>> \in Seq(QueueEntries)
    OBVIOUS
  <2> QED BY <2>1 DEF Init, DefaultValue, QueueConfigs
<1>3. InOrder(config) /\ CompletedAgrees(config) /\ ErroredAgrees(config)
  BY <1>1 DEF InOrder, IsInjective, CompletedAgrees, ErroredAgrees
<1>4. WorkInTurn
  BY <1>1 DEF WorkInTurn
<1> QED BY <1>1, <1>2, <1>3, <1>4, InvariantParts DEF WellFormed

\* Every step preserves the invariant.
LEMMA NextInvariant == IInv /\ [Next]_vars => IInv'
<1> SUFFICES ASSUME IInv, [Next]_vars PROVE IInv'
  OBVIOUS
<1>1. WellFormed(config) /\ working \in SUBSET Nodes /\ WorkInTurn
  BY InvariantParts
<1>2. SUFFICES WellFormed(config') /\ working' \in SUBSET Nodes /\ WorkInTurn'
  BY DEF IInv, TypeOK, QueueInOrder, ListsAgree, WellFormed
<1>3. ASSUME NEW n \in Nodes, Add(n)
      PROVE  WellFormed(config') /\ working' \in SUBSET Nodes /\ WorkInTurn'
  <2>1. PICK retries \in Retries(config) : config' = AddToQueue(config, n, retries)
    BY <1>3 DEF Add
  <2>2. /\ WellFormed(config')
        /\ \A m \in Nodes : BeingProcessed(config, m) => BeingProcessed(config', m)
    BY <1>1, <2>1, Added
  <2> QED BY <1>1, <1>3, <2>2 DEF Add, WorkInTurn
<1>4. ASSUME NEW n \in Nodes, Start(n)
      PROVE  WellFormed(config') /\ working' \in SUBSET Nodes /\ WorkInTurn'
  <2>1. /\ AtFront(config, n) /\ ~BeingProcessed(config, n)
        /\ config' = MoveToProcessing(config, n) /\ working' = working
    BY <1>4 DEF Start
  <2>2. WellFormed(config')
    BY <1>1, <2>1, TurnTaken
  <2>3. TimersAccurate /\ OncePerTurn => working = {}
    <3>1. ASSUME NEW m \in working, BeingProcessed(config, m) PROVE FALSE
      <4>1. m = n
        BY <2>1, <3>1, OneFront DEF BeingProcessed
      <4> QED BY <2>1, <3>1, <4>1
    <3> QED BY <1>1, <3>1 DEF WorkInTurn
  <2> QED BY <1>1, <2>1, <2>2, <2>3 DEF WorkInTurn
<1>5. ASSUME NEW n \in Nodes, BeginWork(n)
      PROVE  WellFormed(config') /\ working' \in SUBSET Nodes /\ WorkInTurn'
  BY <1>1, <1>5 DEF BeginWork, WorkInTurn
<1>6. ASSUME NEW n \in Nodes, NEW successful \in BOOLEAN, Report(n, successful)
      PROVE  WellFormed(config') /\ working' \in SUBSET Nodes /\ WorkInTurn'
  <2>1. /\ n \in working /\ working' \subseteq working
        /\ OncePerTurn => working' = working \ {n}
        /\ config' = RemoveFromQueue(config, n, successful)
    BY <1>6 DEF Report
  <2>2. WellFormed(config')
    BY <1>1, <2>1, TurnEnded
  <2>3. TimersAccurate /\ OncePerTurn => working' = {}
    <3>1. ASSUME TimersAccurate, OncePerTurn, NEW m \in working PROVE m = n
      BY <1>1, <2>1, <3>1, OneFront DEF WorkInTurn, BeingProcessed
    <3> QED BY <2>1, <3>1
  <2> QED BY <1>1, <2>1, <2>2, <2>3 DEF WorkInTurn
<1>7. ASSUME NEW n \in Nodes, Crash(n)
      PROVE  WellFormed(config') /\ working' \in SUBSET Nodes /\ WorkInTurn'
  BY <1>1, <1>7 DEF Crash, WorkInTurn
<1>8. ASSUME NEW n \in Nodes, TimeOut(n)
      PROVE  WellFormed(config') /\ working' \in SUBSET Nodes /\ WorkInTurn'
  <2>1. /\ AtFront(config, n) /\ (TimersAccurate => n \notin working)
        /\ config' = MarkUnresponsive(config, n) /\ working' = working
    BY <1>8 DEF TimeOut
  <2>2. WellFormed(config')
    BY <1>1, <2>1, TurnEnded
  <2>3. TimersAccurate /\ OncePerTurn => working = {}
    BY <1>1, <2>1, OneFront DEF WorkInTurn, BeingProcessed
  <2> QED BY <1>1, <2>1, <2>2, <2>3 DEF WorkInTurn
<1>9. ASSUME NEW force \in BOOLEAN, SetForce(force)
      PROVE  WellFormed(config') /\ working' \in SUBSET Nodes /\ WorkInTurn'
  <2>1. /\ config' \in QueueConfigs /\ config'.queued = config.queued
        /\ config'.errored = config.errored /\ config'.completed = config.completed
        /\ working' = working
    BY <1>1, <1>9 DEF SetForce, WellFormed, QueueConfigs
  <2> QED BY <1>1, <2>1 DEF WellFormed, InOrder, CompletedAgrees, ErroredAgrees,
                          InQueue, InError, AtFront, BeingProcessed, WorkInTurn
<1>10. CASE UNCHANGED vars
  BY <1>1, <1>10 DEF vars, WorkInTurn
<1> QED BY <1>3, <1>4, <1>5, <1>6, <1>7, <1>8, <1>9, <1>10 DEF Next

\* The queue in etcd and the set of nodes at work keep their types, whatever
\* the interleaving of requests, turns, reports and timers.
THEOREM TypeCorrect == Safety => []TypeOK
<1>1. IInv => TypeOK
  BY DEF IInv
<1> QED BY <1>1, InitInvariant, NextInvariant, PTL DEF Safety

\* The inductive invariant holds: the queue is in order, its lists agree, and
\* with accurate timers, and plugins called once in a turn, a node is at work only
\* during its turn.
THEOREM Invariance == Safety => []IInv
  BY InitInvariant, NextInvariant, PTL DEF Safety

\* QUEUED is in order: only its front is being processed, no entry is there
\* twice (add_to_queue, move_to_processing and remove_from_queue).
THEOREM QueueInOrderHolds == Safety => []QueueInOrder
<1>1. IInv => QueueInOrder
  BY DEF IInv
<1> QED BY <1>1, Invariance, PTL

\* COMPLETED and ERRORED agree with QUEUED after every operation on the queue.
THEOREM ListsAgreeHolds == Safety => []ListsAgree
<1>1. IInv => ListsAgree
  BY DEF IInv
<1> QED BY <1>1, Invariance, PTL

\* With accurate timers, and plugins that are called and report once in a turn,
\* configuration is applied on one node at a time: no request, crash, report or
\* change of FORCE in between makes a second node take its turn.
THEOREM OneAtATimeHolds == Safety => []OneAtATime
<1>1. IInv => OneAtATime
  BY OneFront DEF IInv, TypeOK, WorkInTurn, OneAtATime, BeingProcessed
<1> QED BY <1>1, Invariance, PTL

------------------------------------------------------------------------------
(* What a step does to the failed nodes and to the nodes that wait.        *)

\* A step of the protocol forgets no failed node, and takes a waiting node off
\* the queue only if FORCE is unset.
LEMMA NextKeepsNodes ==
  ASSUME IInv, [Next]_vars, NEW m \in Nodes
  PROVE  /\ Entry(m, FAILURE) \in config.errored =>
              Entry(m, FAILURE) \in config'.errored \/ InQueue(config', m)
         /\ InQueue(config, m) /\ ~AtFront(config, m) =>
              InQueue(config', m) \/ (~config.force /\ config'.errored # {})
<1> DEFINE Kept == /\ Entry(m, FAILURE) \in config.errored =>
                        Entry(m, FAILURE) \in config'.errored \/ InQueue(config', m)
                   /\ InQueue(config, m) /\ ~AtFront(config, m) =>
                        InQueue(config', m) \/ (~config.force /\ config'.errored # {})
<1>1. WellFormed(config)
  BY InvariantParts
<1>2. ASSUME NEW n \in Nodes, Add(n) PROVE Kept
  BY <1>1, <1>2, AddKeeps DEF Add
<1>3. ASSUME NEW n \in Nodes, Start(n) PROVE Kept
  BY <1>1, <1>3, TurnKeepsNodes DEF Start
<1>4. ASSUME NEW n \in Nodes, AtFront(config, n), NEW d, config' = ClearFront(d),
             \/ d = NodeSucceeded(RemoveFirst(config), n)
             \/ \E status \in {FAILURE, UNRESPONSIVE} :
                   d = NodeFailed(RemoveFirst(config), n, status)
      PROVE  Kept
  BY <1>1, <1>4, TurnEndKeepsNodes
<1>5. ASSUME NEW n \in Nodes, NEW successful \in BOOLEAN, Report(n, successful) PROVE Kept
  <2>1. config' = RemoveFromQueue(config, n, successful)
    BY <1>5 DEF Report
  <2>2. CASE ~BeingProcessed(config, n)
    BY <2>1, <2>2 DEF RemoveFromQueue
  <2>3. CASE BeingProcessed(config, n)
    BY <1>4, <2>1, <2>3 DEF RemoveFromQueue, BeingProcessed
  <2> QED BY <2>2, <2>3
<1>6. ASSUME NEW n \in Nodes, TimeOut(n) PROVE Kept
  BY <1>4, <1>6 DEF TimeOut, MarkUnresponsive
<1>7. ASSUME NEW force \in BOOLEAN, SetForce(force) PROVE Kept
  <2>1. config'.queued = config.queued /\ config'.errored = config.errored
    BY <1>1, <1>7 DEF SetForce, WellFormed, QueueConfigs
  <2> QED BY <2>1 DEF InQueue
<1>8. CASE UNCHANGED config
  BY <1>8
<1> QED BY <1>2, <1>3, <1>5, <1>6, <1>7, <1>8 DEF Next, BeginWork, Crash, vars

\* A failed node is not forgotten by any step: Started queues all of the failed
\* nodes again, and a node is cleared only at the front (remove_from_queue).
THEOREM FailuresRetriedHolds == Safety => FailuresRetried
<1>1. IInv /\ [Next]_vars =>
        [\A n \in Nodes :
           /\ Entry(n, FAILURE) \in config.errored
           /\ Entry(n, FAILURE) \notin config'.errored
           => InQueue(config', n)]_vars
  BY NextKeepsNodes
<1> QED BY <1>1, Invariance, PTL DEF Safety, FailuresRetried

\* Under FORCE no node loses its place before its turn, and without FORCE there
\* is an errored node to show for it (_node_failure_processing).
THEOREM ForcePushesOnHolds == Safety => ForcePushesOn
<1>1. IInv /\ [Next]_vars =>
        [\A n \in Nodes :
           /\ InQueue(config, n) /\ ~AtFront(config, n) /\ ~InQueue(config', n)
           => ~config.force /\ config'.errored # {}]_vars
  BY NextKeepsNodes
<1> QED BY <1>1, Invariance, PTL DEF Safety, ForcePushesOn

==============================================================================
