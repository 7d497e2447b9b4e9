--------------------------- MODULE ClusterProtocol ---------------------------
(***************************************************************************)
(* What the cluster managers of one etcd cluster promise each other: the   *)
(* view of the cluster changes in atomic steps, each of which takes one    *)
(* node (or, when a resize starts, every waiting node) from one state of   *)
(* the view to the next.                                                   *)
(*                                                                         *)
(* A step here is a whole turn of EtcdSynchronizer.main that ended in a    *)
(* successful compare-and-swap: read the view, let SyncFSM.next decide and *)
(* call the plugin, write. ClusterSync takes the turn apart and is shown   *)
(* to implement this module.                                               *)
(***************************************************************************)
EXTENDS ClusterStates, Naturals

CONSTANTS
  Nodes,        \* the nodes that may ever be members of the cluster
  QuitAgain,    \* may SIGQUIT come to a node that is leaving, or has left?
  MaxRequests,  \* bound on the leave requests (SIGQUIT) of a behaviour
  MaxFaults     \* bound on failed nodes, failed hooks and restarts

ASSUME BoundsAssumption == MaxRequests \in Nat /\ MaxFaults \in Nat
ASSUME QuitAgainAssumption == QuitAgain \in BOOLEAN

VARIABLES
  view,      \* the cluster view in etcd
  fsm,       \* fsm[n]: "running", "departing" once on_leaving_cluster has
             \* returned and only the DELETE_ME write is left, or "stopped"
  leaving,   \* leaving[n]: a pending request to leave, and of which kind
  synced,    \* the nodes that resynchronised since the last resize started
  requests,  \* how many leave requests were made
  faults     \* how many faults happened

vars == <<view, fsm, leaving, synced, requests, faults>>

TypeOK ==
  /\ view \in [Nodes -> LocalStates]
  /\ fsm \in [Nodes -> {"running", "departing", "stopped"}]
  /\ leaving \in [Nodes -> {"no", "graceful", "forced"}]
  /\ synced \in SUBSET Nodes
  /\ requests \in 0..MaxRequests
  /\ faults \in 0..MaxFaults

Init ==
  /\ view = [n \in Nodes |-> ABSENT]
  /\ fsm = [n \in Nodes |-> "running"]
  /\ leaving = [n \in Nodes |-> "no"]
  /\ synced = {}
  /\ requests = 0
  /\ faults = 0

Cluster == ClusterState(view)

------------------------------------------------------------------------------
(* The steps of a node's synchronizer.                                     *)

\* local_state is None: put ourselves in the view.
Join(n) ==
  /\ fsm[n] = "running"
  /\ view[n] = ABSENT
  /\ Joinable(Cluster)
  /\ view' = [view EXCEPT ![n] = WAITING_TO_JOIN]
  /\ UNCHANGED <<fsm, leaving, synced, requests, faults>>

\* The first waiting node to wake up moves every waiting node on: a resize
\* starts, and what was synchronised before does not count for it.
StartJoining(n) ==
  /\ fsm[n] = "running"
  /\ view[n] = WAITING_TO_JOIN
  /\ Cluster = JOIN_PENDING
  /\ view' = SwitchAll(view, WAITING_TO_JOIN, JOINING)
  /\ synced' = {}
  /\ UNCHANGED <<fsm, leaving, requests, faults>>

StartLeaving(n) ==
  /\ fsm[n] = "running"
  /\ view[n] = WAITING_TO_LEAVE
  /\ Cluster = LEAVE_PENDING
  /\ view' = SwitchAll(view, WAITING_TO_LEAVE, LEAVING)
  /\ synced' = {}
  /\ UNCHANGED <<fsm, leaving, requests, faults>>

\* The node does its part of the current phase: acknowledge the resize, change
\* the configuration, or resynchronise.
Advance(n) ==
  /\ fsm[n] = "running"
  /\ \E row \in FsmRows(Cluster, view[n]) :
       /\ row[4] \in NodeStates
       /\ view' = [view EXCEPT ![n] = row[4]]
       /\ synced' = IF row[3] = "on_new_cluster_config_ready"
                    THEN synced \cup {n} ELSE synced
  /\ UNCHANGED <<fsm, leaving, requests, faults>>

\* Mutant of Finish: without waiting for the others to resynchronise.
FinishEarly(n) ==
  /\ fsm[n] = "running" /\ view[n] = FINISHED
  /\ fsm' = [fsm EXCEPT ![n] = "departing"]
  /\ UNCHANGED <<view, leaving, synced, requests, faults>>

\* on_leaving_cluster ran: the FSM stops, the node's entry is still there.
Finish(n) ==
  /\ fsm[n] = "running"
  /\ view[n] = FINISHED
  /\ Cluster = FINISHED_LEAVING
  /\ fsm' = [fsm EXCEPT ![n] = "departing"]
  /\ UNCHANGED <<view, leaving, synced, requests, faults>>

\* DELETE_ME: remove our entry, whatever it says by now.
Depart(n) ==
  /\ fsm[n] = "departing"
  /\ view' = [view EXCEPT ![n] = ABSENT]
  /\ fsm' = [fsm EXCEPT ![n] = "stopped"]
  /\ UNCHANGED <<leaving, synced, requests, faults>>

\* A node asked to leave is marked as soon as the cluster lets it: leave_cluster
\* does not ask whether the FSM still runs. If etcd's answer to that write is lost,
\* the request survives in memory.
Leave(n) ==
  /\ fsm[n] = "running" \/ (QuitAgain /\ fsm[n] = "stopped")
  /\ leaving[n] # "no"
  /\ CanLeave(Cluster, leaving[n] = "forced")
  /\ view' = [view EXCEPT ![n] = WAITING_TO_LEAVE]
  /\ leaving' \in {leaving, [leaving EXCEPT ![n] = "no"]}
  /\ UNCHANGED <<fsm, synced, requests, faults>>

------------------------------------------------------------------------------
(* Operators and faults.                                                   *)

\* SIGQUIT: leave_cluster on a node's synchronizer.
RequestLeave(n) ==
  /\ leaving[n] # "forced"
  /\ QuitAgain \/ (fsm[n] = "running" /\ leaving[n] = "no")
  /\ requests < MaxRequests
  /\ leaving' = [leaving EXCEPT ![n] = "graceful"]
  /\ requests' = requests + 1
  /\ UNCHANGED <<view, fsm, synced, faults>>

\* Mutant of MarkFailed: the entry is deleted, not marked.
RemoveFailed(n) ==
  /\ view[n] # ABSENT /\ faults < MaxFaults
  /\ view' = [view EXCEPT ![n] = ABSENT]
  /\ faults' = faults + 1
  /\ UNCHANGED <<fsm, leaving, synced, requests>>

\* mark_node_failed, first half: the member is marked ERROR on its behalf.
MarkFailed(n) ==
  /\ view[n] # ABSENT
  /\ faults < MaxFaults
  /\ view' = [view EXCEPT ![n] = ERROR]
  /\ faults' = faults + 1
  /\ UNCHANGED <<fsm, leaving, synced, requests>>

\* mark_node_failed, second half: a synchronizer of the script's own runs the
\* failed node's FSM, with force_leave and a request to leave.
TakeOver(n) ==
  /\ view[n] = ERROR
  /\ fsm' = [fsm EXCEPT ![n] = "running"]
  /\ leaving' = [leaving EXCEPT ![n] = "forced"]
  /\ UNCHANGED <<view, synced, requests, faults>>

\* on_leaving_cluster raised, or the DELETE_ME write failed for good: the FSM
\* has stopped and nothing removes the node's entry.
StopEarly(n) ==
  /\ \/ fsm[n] = "departing"
     \/ fsm[n] = "running" /\ view[n] = FINISHED /\ Cluster = FINISHED_LEAVING
  /\ faults < MaxFaults
  /\ fsm' = [fsm EXCEPT ![n] = "stopped"]
  /\ faults' = faults + 1
  /\ UNCHANGED <<view, leaving, synced, requests>>

\* The process restarts (Monit, after a crash): flags in memory are lost.
Restart(n) ==
  /\ faults < MaxFaults
  /\ fsm' = [fsm EXCEPT ![n] = "running"]
  /\ leaving' = [leaving EXCEPT ![n] = "no"]
  /\ faults' = faults + 1
  /\ UNCHANGED <<view, synced, requests>>

\* A turn of the synchronizer thread that runs node n's FSM.
Synchronize(n) ==
  \/ Join(n) \/ StartJoining(n) \/ StartLeaving(n) \/ Advance(n)
  \/ Finish(n) \/ Depart(n)

Disturb(n) ==
  RequestLeave(n) \/ MarkFailed(n) \/ TakeOver(n) \/ StopEarly(n) \/ Restart(n)

Next == \E n \in Nodes : Synchronize(n) \/ Leave(n) \/ Disturb(n)

\* A synchronizer thread keeps running and its hooks return, so a node that can
\* take a turn eventually does; the mark_node_failed script, once it has marked
\* a node, carries on. Operators and faults owe nobody anything, and nothing
\* obliges Leave: main looks at a request only when the view changes, which may be
\* never again (ClusterSync says what becomes of requests).
Fairness == \A n \in Nodes : WF_vars(Synchronize(n) \/ TakeOver(n))

Safety == Init /\ [][Next]_vars
Spec == Safety /\ Fairness

------------------------------------------------------------------------------
(* Safety.                                                                 *)

\* However joins, leaves and failures interleave, the view is never one the
\* FSM cannot classify: INVALID_CLUSTER_STATE (cluster_state.py:111-113) would
\* stop every node, with no transition out of it.
NeverInvalid == Cluster # INVALID_CLUSTER_STATE

\* on_stable_cluster runs only when "all elements in the cluster have finished
\* any scaling-related work" (plugin_base.py:100-110): in a STABLE cluster every
\* member has resynchronised since the last resize started, even if nodes
\* failed, left or restarted while it ran.
StableMeansSynced == Cluster = STABLE => Members(view) \subseteq synced

\* The entry of a node that nobody has marked failed goes away only when it has
\* streamed its own data and every other live member has resynchronised without
\* it (plugin_base.py:114-120).
RemovalAfterResync ==
  [][\A n \in Nodes :
       view[n] \notin {ABSENT, ERROR} /\ view'[n] = ABSENT =>
         {m \in Members(view) : view[m] # ERROR} \subseteq synced]_vars

------------------------------------------------------------------------------
(* Why the safety properties hold: an invariant that every step preserves. *)

\* The states live members can have together: each phase of a resize, with the
\* states of the phase before it that its members have not left yet.
Phases ==
  { {NORMAL, WAITING_TO_JOIN},
    {NORMAL, JOINING, NORMAL_ACKNOWLEDGED_CHANGE, JOINING_ACKNOWLEDGED_CHANGE},
    {NORMAL_ACKNOWLEDGED_CHANGE, JOINING_ACKNOWLEDGED_CHANGE,
     NORMAL_CONFIG_CHANGED, JOINING_CONFIG_CHANGED},
    {NORMAL_CONFIG_CHANGED, JOINING_CONFIG_CHANGED, NORMAL},
    {NORMAL, WAITING_TO_LEAVE},
    {NORMAL, LEAVING, NORMAL_ACKNOWLEDGED_CHANGE, LEAVING_ACKNOWLEDGED_CHANGE},
    {NORMAL_ACKNOWLEDGED_CHANGE, LEAVING_ACKNOWLEDGED_CHANGE,
     NORMAL_CONFIG_CHANGED, LEAVING_CONFIG_CHANGED},
    {NORMAL_CONFIG_CHANGED, LEAVING_CONFIG_CHANGED, NORMAL, FINISHED} }

InPhase == \E phase \in Phases : Live(view) \subseteq phase

\* Past the configuration change, whoever is NORMAL again has resynchronised.
ResyncedAfterConfig ==
  /\ (\E m \in Nodes : view[m] \in {NORMAL_CONFIG_CHANGED, JOINING_CONFIG_CHANGED,
                                    LEAVING_CONFIG_CHANGED, FINISHED})
       => \A n \in Nodes : view[n] = NORMAL => n \in synced
  /\ \A n \in Nodes : view[n] = FINISHED => n \in synced

\* The members that show that a resize was begun and is not completed.
Unsettled(m) ==
  /\ view[m] \in {JOINING, JOINING_ACKNOWLEDGED_CHANGE, WAITING_TO_LEAVE, LEAVING,
                  LEAVING_ACKNOWLEDGED_CHANGE, NORMAL_ACKNOWLEDGED_CHANGE, ERROR}
  /\ fsm[m] # "departing"

UnsyncedWhileUnsettled ==
  \A n \in Nodes : view[n] = NORMAL /\ n \notin synced => \E m \in Nodes : Unsettled(m)

\* A node that is about to delete its entry was the last to wait for.
DepartingIsLast ==
  \A n \in Nodes : fsm[n] = "departing" =>
    /\ view[n] \in {FINISHED, ERROR}
    /\ view[n] = FINISHED => Live(view) \subseteq {NORMAL, FINISHED}

IInv ==
  /\ TypeOK /\ InPhase /\ ResyncedAfterConfig
  /\ UnsyncedWhileUnsettled /\ DepartingIsLast

------------------------------------------------------------------------------
(* Liveness.                                                               *)

\* Whoever waits to join becomes a working member, unless it is marked failed.
JoinerSettles ==
  \A n \in Nodes : view[n] = WAITING_TO_JOIN ~> view[n] \in {NORMAL, ERROR}

\* A leaver's entry disappears, unless the node is marked failed or its last
\* step fails: decommissioning waits for this.
LeaverDeparts ==
  \A n \in Nodes : view[n] = WAITING_TO_LEAVE
                     ~> view[n] \in {ABSENT, ERROR} \/ fsm[n] = "stopped"
==============================================================================
