---------------------------- MODULE ClusterStates ----------------------------
(***************************************************************************)
(* The vocabulary of clearwater-cluster-manager: the states a node can     *)
(* have in the cluster view kept in etcd, the state of the whole cluster   *)
(* that ClusterInfo computes from a view, and the table of the             *)
(* synchronization FSM (SyncFSM.next).                                     *)
(*                                                                         *)
(* A view is a function from every node that could ever be a member to its *)
(* state. The code keeps a dictionary; a node that has no entry is ABSENT. *)
(***************************************************************************)

\* Node states
ABSENT == "absent"      \* no entry in the dictionary: local_state is None
WAITING_TO_JOIN == "waiting to join"
JOINING == "joining"
JOINING_ACKNOWLEDGED_CHANGE == "joining, acknowledged change"
JOINING_CONFIG_CHANGED == "joining, config changed"
NORMAL == "normal"
NORMAL_ACKNOWLEDGED_CHANGE == "normal, acknowledged change"
NORMAL_CONFIG_CHANGED == "normal, config changed"
WAITING_TO_LEAVE == "waiting to leave"
LEAVING == "leaving"
LEAVING_ACKNOWLEDGED_CHANGE == "leaving, acknowledged change"
LEAVING_CONFIG_CHANGED == "leaving, config changed"
FINISHED == "finished"
ERROR == "error"

\* What FsmTable says a node does next besides taking a new state of its own.
NO_CHANGE == "no change"
DELETE_ME == "DELETE_ME"
ALL_JOINING == "switch all to joining"
ALL_LEAVING == "switch all to leaving"

NodeStates ==
  {WAITING_TO_JOIN, JOINING, JOINING_ACKNOWLEDGED_CHANGE,
   JOINING_CONFIG_CHANGED, NORMAL, NORMAL_ACKNOWLEDGED_CHANGE,
   NORMAL_CONFIG_CHANGED, WAITING_TO_LEAVE, LEAVING,
   LEAVING_ACKNOWLEDGED_CHANGE, LEAVING_CONFIG_CHANGED, FINISHED, ERROR}

LocalStates == NodeStates \cup {ABSENT}

\* Cluster states
EMPTY == "empty"
STABLE == "stable"
STABLE_WITH_ERRORS == "stable with errors"
JOIN_PENDING == "join pending"
STARTED_JOINING == "started joining"
JOINING_CONFIG_CHANGING == "joining, config changing"
JOINING_RESYNCING == "joining, resyncing"
LEAVE_PENDING == "leave pending"
STARTED_LEAVING == "started leaving"
LEAVING_CONFIG_CHANGING == "leaving, config changing"
LEAVING_RESYNCING == "leaving, resyncing"
FINISHED_LEAVING == "finished leaving"
INVALID_CLUSTER_STATE == "invalid cluster state"

------------------------------------------------------------------------------
(* The members of a view, and the states its members that are not in ERROR
   have: all that ClusterInfo.calculate_cluster_state looks at.            *)
Members(view) == {n \in DOMAIN view : view[n] # ABSENT}

Live(view) == {view[n] : n \in DOMAIN view} \ {ABSENT, ERROR}

StateCheck(live, zeroOrMore, oneOrMore) ==
  /\ live \cap oneOrMore # {}
  /\ live \subseteq zeroOrMore \cup oneOrMore

ClusterState(view) ==
  LET live == Live(view)
      errors == \E n \in DOMAIN view : view[n] = ERROR
  IN  IF live = {} /\ ~errors THEN EMPTY
      ELSE IF live \subseteq {NORMAL} /\ ~errors THEN STABLE
      ELSE IF live \subseteq {NORMAL} THEN STABLE_WITH_ERRORS
      ELSE IF StateCheck(live, {}, {NORMAL, WAITING_TO_JOIN})
        THEN JOIN_PENDING
      ELSE IF StateCheck(live, {NORMAL_ACKNOWLEDGED_CHANGE,
                                JOINING_ACKNOWLEDGED_CHANGE},
                         {NORMAL, JOINING})
        THEN STARTED_JOINING
      ELSE IF StateCheck(live, {NORMAL_CONFIG_CHANGED, JOINING_CONFIG_CHANGED},
                         {NORMAL_ACKNOWLEDGED_CHANGE,
                          JOINING_ACKNOWLEDGED_CHANGE})
        THEN JOINING_CONFIG_CHANGING
      ELSE IF StateCheck(live, {NORMAL},
                         {NORMAL_CONFIG_CHANGED, JOINING_CONFIG_CHANGED})
        THEN JOINING_RESYNCING
      ELSE IF StateCheck(live, {}, {NORMAL, WAITING_TO_LEAVE})
        THEN LEAVE_PENDING
      ELSE IF StateCheck(live, {NORMAL_ACKNOWLEDGED_CHANGE,
                                LEAVING_ACKNOWLEDGED_CHANGE},
                         {NORMAL, LEAVING})
        THEN STARTED_LEAVING
      ELSE IF StateCheck(live, {NORMAL_CONFIG_CHANGED, LEAVING_CONFIG_CHANGED},
                         {NORMAL_ACKNOWLEDGED_CHANGE,
                          LEAVING_ACKNOWLEDGED_CHANGE})
        THEN LEAVING_CONFIG_CHANGING
      ELSE IF StateCheck(live, {NORMAL, FINISHED},
                         {NORMAL_CONFIG_CHANGED, LEAVING_CONFIG_CHANGED})
        THEN LEAVING_RESYNCING
      ELSE IF StateCheck(live, {}, {NORMAL, FINISHED})
        THEN FINISHED_LEAVING
      ELSE INVALID_CLUSTER_STATE

\* Mutants of CanLeave: a join may be pending; only with others.
CanLeaveWhileJoining(c, force) == c \in {STABLE, JOIN_PENDING, LEAVE_PENDING}
CanLeaveWithOthers(c, force) == c = LEAVE_PENDING

\* May a node of a cluster in state c start to leave?
CanLeave(c, force) ==
  c \in {STABLE, LEAVE_PENDING} \cup (IF force THEN {STABLE_WITH_ERRORS} ELSE {})

------------------------------------------------------------------------------
(* SyncFSM.next for a node that is in the cluster and not in ERROR: a row
   <<cluster state, local state, plugin hook called, what comes next>> for
   every pair that makes the node do something. In every other pair next()
   returns None (or logs an error and returns None).                       *)
FsmTable ==
  { <<STABLE, NORMAL, "on_stable_cluster", NO_CHANGE>>,
    <<STABLE_WITH_ERRORS, NORMAL, "on_stable_cluster", NO_CHANGE>>,
    <<JOIN_PENDING, WAITING_TO_JOIN, "none", ALL_JOINING>>,
    <<STARTED_JOINING, NORMAL, "none", NORMAL_ACKNOWLEDGED_CHANGE>>,
    <<STARTED_JOINING, JOINING, "none", JOINING_ACKNOWLEDGED_CHANGE>>,
    <<JOINING_CONFIG_CHANGING, NORMAL_ACKNOWLEDGED_CHANGE,
      "on_cluster_changing", NORMAL_CONFIG_CHANGED>>,
    <<JOINING_CONFIG_CHANGING, JOINING_ACKNOWLEDGED_CHANGE,
      "on_joining_cluster", JOINING_CONFIG_CHANGED>>,
    <<JOINING_RESYNCING, NORMAL_CONFIG_CHANGED,
      "on_new_cluster_config_ready", NORMAL>>,
    <<JOINING_RESYNCING, JOINING_CONFIG_CHANGED,
      "on_new_cluster_config_ready", NORMAL>>,
    <<LEAVE_PENDING, WAITING_TO_LEAVE, "none", ALL_LEAVING>>,
    <<STARTED_LEAVING, NORMAL, "none", NORMAL_ACKNOWLEDGED_CHANGE>>,
    <<STARTED_LEAVING, LEAVING, "none", LEAVING_ACKNOWLEDGED_CHANGE>>,
    <<LEAVING_CONFIG_CHANGING, NORMAL_ACKNOWLEDGED_CHANGE,
      "on_cluster_changing", NORMAL_CONFIG_CHANGED>>,
    <<LEAVING_CONFIG_CHANGING, LEAVING_ACKNOWLEDGED_CHANGE,
      "on_cluster_changing", LEAVING_CONFIG_CHANGED>>,
    <<LEAVING_RESYNCING, LEAVING_CONFIG_CHANGED,
      "on_new_cluster_config_ready", FINISHED>>,
    <<LEAVING_RESYNCING, NORMAL_CONFIG_CHANGED,
      "on_new_cluster_config_ready", NORMAL>>,
    <<FINISHED_LEAVING, FINISHED, "on_leaving_cluster", DELETE_ME>> }

Hooks == {"none", "on_stable_cluster", "on_cluster_changing",
          "on_joining_cluster", "on_new_cluster_config_ready",
          "on_leaving_cluster"}

\* Mutant of FsmRows: resynchronise before everybody has changed configuration.
EagerFsmRows(c, local) ==
  LET seen == IF c = JOINING_CONFIG_CHANGING THEN {c, JOINING_RESYNCING} ELSE {c}
  IN {row \in FsmTable : row[1] \in seen /\ row[2] = local}

\* The row for a pair: at most one.
FsmRows(c, local) == {row \in FsmTable : row[1] = c /\ row[2] = local}

\* Mutants of Joinable: a leave may be pending; a resize may be under way.
JoinableWhileLeaving(c) == c \in {EMPTY, STABLE, JOIN_PENDING, LEAVE_PENDING}
JoinableInResize(c) == c \in {EMPTY, STABLE, JOIN_PENDING, STARTED_JOINING}

\* A node that has no entry asks to join only in these cluster states.
Joinable(c) == c \in {EMPTY, STABLE, JOIN_PENDING}

\* The dictionaries _switch_all_to_joining and _switch_all_to_leaving return.
SwitchAll(view, from, to) ==
  [n \in DOMAIN view |-> IF view[n] = from THEN to ELSE view[n]]
==============================================================================
