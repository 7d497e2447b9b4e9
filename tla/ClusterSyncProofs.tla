--------------------------- MODULE ClusterSyncProofs ---------------------------
(***************************************************************************)
(* Proofs about ClusterSync, for any set of nodes and any bounds: what the *)
(* threads know is true, the view stays one that the FSM can classify, and *)
(* contention makes nobody repeat work, whatever overtakes what. Where     *)
(* main does not run between the steps of leave_cluster, the hooks run in  *)
(* the phase they are meant for, and the synchronizers take only steps of  *)
(* ClusterProtocol.                                                        *)
(***************************************************************************)
EXTENDS ClusterSync, TLAPS

USE DEF ABSENT, WAITING_TO_JOIN, JOINING, JOINING_ACKNOWLEDGED_CHANGE,
        JOINING_CONFIG_CHANGED, NORMAL, NORMAL_ACKNOWLEDGED_CHANGE,
        NORMAL_CONFIG_CHANGED, WAITING_TO_LEAVE, LEAVING,
        LEAVING_ACKNOWLEDGED_CHANGE, LEAVING_CONFIG_CHANGED, FINISHED, ERROR
USE DEF EMPTY, STABLE, STABLE_WITH_ERRORS, JOIN_PENDING, STARTED_JOINING,
        JOINING_CONFIG_CHANGING, JOINING_RESYNCING, LEAVE_PENDING,
        STARTED_LEAVING, LEAVING_CONFIG_CHANGING, LEAVING_RESYNCING,
        FINISHED_LEAVING, INVALID_CLUSTER_STATE
USE DEF NO_CHANGE, DELETE_ME, ALL_JOINING, ALL_LEAVING

------------------------------------------------------------------------------
(* Views, cluster states and the FSM's table.                              *)

\* The states of live members that a cluster state stands for.
LEMMA ClusterStateMeans ==
  ASSUME NEW v
  PROVE  LET c == ClusterState(v)
             live == Live(v)
         IN  /\ c = EMPTY => live = {}
             /\ c \in {STABLE, STABLE_WITH_ERRORS} => live \subseteq {NORMAL}
             /\ c = JOIN_PENDING => live \subseteq {NORMAL, WAITING_TO_JOIN}
             /\ c \in {STARTED_JOINING, STARTED_LEAVING} =>
                  /\ live \cap {NORMAL, JOINING, LEAVING} # {}
                  /\ live \subseteq {NORMAL, JOINING, LEAVING} \cup Acknowledged
             /\ c \in {JOINING_CONFIG_CHANGING, LEAVING_CONFIG_CHANGING} =>
                  live \subseteq Acknowledged \cup ConfigChanged
             /\ c \in {JOINING_RESYNCING, LEAVING_RESYNCING} =>
                  /\ live \cap ConfigChanged # {}
                  /\ live \subseteq ConfigChanged \cup {NORMAL, FINISHED}
             /\ c = LEAVE_PENDING => live \subseteq {NORMAL, WAITING_TO_LEAVE}
             /\ c = FINISHED_LEAVING => live \subseteq {NORMAL, FINISHED}
  BY DEF ClusterState, StateCheck, Acknowledged, ConfigChanged

\* Before any node is in the view the cluster is empty.
LEMMA EmptyView ==
  /\ ClusterState([m \in Nodes |-> ABSENT]) = EMPTY
  /\ ClusterState(NoView) = EMPTY
<1>1. Live([m \in Nodes |-> ABSENT]) = {}
  BY DEF Live
<1>2. ClusterState([m \in Nodes |-> ABSENT]) = EMPTY
  BY <1>1 DEF ClusterState
<1>3. DOMAIN NoView = {}
  BY DEF NoView
<1>4. Live(NoView) = {}
  BY <1>3 DEF Live
<1>5. ClusterState(NoView) = EMPTY
  BY <1>3, <1>4 DEF ClusterState
<1> QED BY <1>2, <1>5

\* The state of a node that has not failed is the state of a live member.
LEMMA LiveMember ==
  ASSUME NEW v \in Views, NEW n \in Nodes, v[n] \notin {ABSENT, ERROR}
  PROVE  v[n] \in Live(v)
  BY DEF Live, Views

\* The states that are written are states of a view.
LEMMA KnownStates ==
  /\ {WAITING_TO_JOIN, JOINING, WAITING_TO_LEAVE, LEAVING} \subseteq NodeStates
  /\ NodeStates \cup {ABSENT, ERROR} \subseteq LocalStates
  /\ Acknowledged \cup ConfigChanged \cup {NORMAL, FINISHED} \subseteq NodeStates
  BY DEF NodeStates, LocalStates, Acknowledged, ConfigChanged

\* A view in which one node's state was replaced.
Put(v, n, s) == [v EXCEPT ![n] = s]

LEMMA ViewUpdated ==
  ASSUME NEW v \in Views, NEW n \in Nodes, NEW s \in LocalStates
  PROVE  /\ Put(v, n, s) \in Views /\ Put(v, n, s)[n] = s
         /\ \A k \in Nodes \ {n} : Put(v, n, s)[k] = v[k]
         /\ Live(Put(v, n, s)) \subseteq Live(v) \cup ({s} \ {ABSENT, ERROR})
  BY DEF Live, Views, Put

\* A view in which all nodes in one state took another.
LEMMA ViewSwitched ==
  ASSUME NEW v \in Views, NEW s \in NodeStates, NEW t \in NodeStates
  PROVE  /\ SwitchAll(v, s, t) \in Views
         /\ \A k \in Nodes : SwitchAll(v, s, t)[k] = IF v[k] = s THEN t ELSE v[k]
         /\ Live(SwitchAll(v, s, t)) \subseteq (Live(v) \ {s}) \cup {t}
  BY DEF Live, Views, SwitchAll, LocalStates, NodeStates

\* What a row of the table does: to whom, in what cluster.
RowKind(c, l, hook, to) ==
  \/ /\ hook = "on_stable_cluster" /\ to = NO_CHANGE
     /\ c \in {STABLE, STABLE_WITH_ERRORS} /\ l = NORMAL
  \/ hook = "none" /\ to = ALL_JOINING /\ c = JOIN_PENDING /\ l = WAITING_TO_JOIN
  \/ hook = "none" /\ to = ALL_LEAVING /\ c = LEAVE_PENDING /\ l = WAITING_TO_LEAVE
  \/ /\ hook = "none" /\ to \in Acknowledged
     /\ c \in {STARTED_JOINING, STARTED_LEAVING} /\ l \in {NORMAL, JOINING, LEAVING}
     /\ to \in Leaving => l \in Leaving
  \/ /\ hook \in {"on_cluster_changing", "on_joining_cluster"} /\ to \in ConfigChanged
     /\ c \in {JOINING_CONFIG_CHANGING, LEAVING_CONFIG_CHANGING} /\ l \in Acknowledged
     /\ to \in Leaving => l \in Leaving
  \/ /\ hook = "on_new_cluster_config_ready" /\ to \in {NORMAL, FINISHED}
     /\ c \in {JOINING_RESYNCING, LEAVING_RESYNCING} /\ l \in ConfigChanged
     /\ to \in Leaving => l \in Leaving
  \/ /\ hook = "on_leaving_cluster" /\ to = DELETE_ME
     /\ c = FINISHED_LEAVING /\ l = FINISHED

LEMMA RowKinds ==
  ASSUME NEW c, NEW l, NEW row \in FsmRows(c, l)
  PROVE  RowKind(c, l, row[3], row[4])
<1>1. ASSUME NEW d, NEW m, NEW hook, NEW to, <<d, m, hook, to>> \in FsmTable
      PROVE  RowKind(d, m, hook, to)
  <2>1. hook \in {"on_stable_cluster", "on_leaving_cluster"} => RowKind(d, m, hook, to)
    BY <1>1 DEF FsmTable, RowKind
  <2>2. hook \in {"on_cluster_changing", "on_joining_cluster"} => RowKind(d, m, hook, to)
    BY <1>1 DEF FsmTable, RowKind, Acknowledged, ConfigChanged, Leaving
  <2>3. hook = "on_new_cluster_config_ready" => RowKind(d, m, hook, to)
    BY <1>1 DEF FsmTable, RowKind, ConfigChanged, Leaving
  <2>4. hook = "none" => RowKind(d, m, hook, to)
    BY <1>1 DEF FsmTable, RowKind, Acknowledged, Leaving
  <2>5. hook \in Hooks
    BY <1>1 DEF FsmTable, Hooks
  <2> QED BY <2>1, <2>2, <2>3, <2>4, <2>5 DEF Hooks
<1>2. \E d, m, hook, to : row = <<d, m, hook, to>>
  BY DEF FsmRows, FsmTable
<1>3. row \in FsmTable /\ row[1] = c /\ row[2] = l
  BY DEF FsmRows
<1> QED BY <1>1, <1>2, <1>3

\* A hook is called in the phase that it is for.
LEMMA RowActs ==
  ASSUME NEW v \in Views, NEW n \in Nodes, NEW row \in FsmRows(ClusterState(v), v[n])
  PROVE  row[3] = "none" \/ Acting(v, n, row[3], row[4])
<1>1. RowKind(ClusterState(v), v[n], row[3], row[4])
  BY RowKinds
<1> HIDE DEF NoView
<1> QED BY <1>1, ClusterStateMeans DEF RowKind, Acting, Acknowledged, ConfigChanged

\* Nothing is done in an empty cluster.
LEMMA NoRows == \A l : FsmRows(EMPTY, l) = {}
<1> SUFFICES ASSUME NEW l, NEW row \in FsmRows(EMPTY, l) PROVE FALSE
  OBVIOUS
<1>1. RowKind(EMPTY, l, row[3], row[4])
  BY RowKinds
<1> QED BY <1>1 DEF RowKind

------------------------------------------------------------------------------
(* What a write does to the nodes that did not make it.                    *)

\* Node k's entry is as it was, or moved on by the start of a resize; and a hook that
\* it runs is still in its phase.
ActsOn(k, v, w) == \A hook, new : Acting(v, k, hook, new) => Acting(w, k, hook, new)

Keeps(k, v, w) ==
  /\ \/ w[k] = v[k]
     \/ v[k] = WAITING_TO_JOIN /\ w[k] = JOINING
     \/ v[k] = WAITING_TO_LEAVE /\ w[k] = LEAVING
  /\ ActsOn(k, v, w)

\* A node that is taken out of the view, or marked, holds nobody up.
LEMMA Removed ==
  ASSUME NEW v \in Views, NEW n \in Nodes, NEW s \in {ABSENT, ERROR},
         NEW w, w = Put(v, n, s)
  PROVE  w \in Views /\ w[n] = s /\ \A k \in Nodes \ {n} : Keeps(k, v, w)
<1>1. s \in LocalStates
  BY KnownStates
<1>2. /\ w \in Views /\ w[n] = s /\ Live(w) \subseteq Live(v)
      /\ \A k \in Nodes \ {n} : w[k] = v[k]
  BY <1>1, ViewUpdated
<1>3. \A k \in Nodes \ {n} : ActsOn(k, v, w)
  BY <1>2 DEF ActsOn, Acting
<1> QED BY <1>2, <1>3 DEF Keeps

\* Why a node may write state new: to leave or to join when the cluster lets it, or
\* by a row of the table.
Due(v, n, new) ==
  \/ new = WAITING_TO_LEAVE /\ \E forced \in BOOLEAN : CanLeave(ClusterState(v), forced)
  \/ new = WAITING_TO_JOIN /\ Joinable(ClusterState(v))
  \/ \E row \in FsmRows(ClusterState(v), v[n]) : row[4] = new

\* Such a write moves no other node out of the phase it works in.
LEMMA Moved ==
  ASSUME NEW v \in Views, NEW n \in Nodes, NEW new, Due(v, n, new),
         new \notin {NO_CHANGE, DELETE_ME}, NEW w, w = Updated(v, n, new)
  PROVE  w \in Views /\ \A k \in Nodes \ {n} : Keeps(k, v, w)
<1> DEFINE c == ClusterState(v)
<1>1. /\ new = ALL_JOINING => c = JOIN_PENDING
      /\ new = ALL_LEAVING => c = LEAVE_PENDING
      /\ new \notin {ALL_JOINING, ALL_LEAVING} =>
           \/ new = WAITING_TO_LEAVE /\ c \in {STABLE, LEAVE_PENDING, STABLE_WITH_ERRORS}
           \/ new = WAITING_TO_JOIN /\ c \in {EMPTY, STABLE, JOIN_PENDING}
           \/ new \in Acknowledged /\ c \in {STARTED_JOINING, STARTED_LEAVING}
           \/ /\ new \in ConfigChanged
              /\ c \in {JOINING_CONFIG_CHANGING, LEAVING_CONFIG_CHANGING}
           \/ new \in {NORMAL, FINISHED} /\ c \in {JOINING_RESYNCING, LEAVING_RESYNCING}
  <2>1. CASE new = WAITING_TO_LEAVE /\ \E forced \in BOOLEAN : CanLeave(c, forced)
    BY <2>1 DEF CanLeave
  <2>2. CASE new = WAITING_TO_JOIN /\ Joinable(c)
    BY <2>2 DEF Joinable
  <2>3. CASE \E row \in FsmRows(c, v[n]) : row[4] = new
    <3>1. PICK row \in FsmRows(c, v[n]) : row[4] = new
      BY <2>3
    <3>2. RowKind(c, v[n], row[3], row[4])
      BY RowKinds
    <3> QED BY <3>1, <3>2 DEF RowKind, Acknowledged, ConfigChanged
  <2> QED BY <2>1, <2>2, <2>3 DEF Due
<1>2. /\ c \in {EMPTY, STABLE, STABLE_WITH_ERRORS, JOIN_PENDING, LEAVE_PENDING} =>
           Live(v) \subseteq {NORMAL, WAITING_TO_JOIN, WAITING_TO_LEAVE}
      /\ c \in {STARTED_JOINING, STARTED_LEAVING} =>
           /\ Live(v) \cap {NORMAL, JOINING, LEAVING} # {}
           /\ Live(v) \subseteq {NORMAL, JOINING, LEAVING} \cup Acknowledged
      /\ c \in {JOINING_CONFIG_CHANGING, LEAVING_CONFIG_CHANGING} =>
           Live(v) \subseteq Acknowledged \cup ConfigChanged
      /\ c \in {JOINING_RESYNCING, LEAVING_RESYNCING} =>
           /\ Live(v) \cap ConfigChanged # {}
           /\ Live(v) \subseteq ConfigChanged \cup {NORMAL, FINISHED}
  BY ClusterStateMeans
<1>3. \A k \in Nodes : v[k] \notin {ABSENT, ERROR} => v[k] \in Live(v)
  BY LiveMember
<1> HIDE DEF c
<1>4. CASE new = ALL_JOINING \/ new = ALL_LEAVING
  <2>1. PICK from \in {WAITING_TO_JOIN, WAITING_TO_LEAVE}, to \in {JOINING, LEAVING} :
          /\ w = SwitchAll(v, from, to)
          /\ \/ from = WAITING_TO_JOIN /\ to = JOINING
             \/ from = WAITING_TO_LEAVE /\ to = LEAVING
    BY <1>4 DEF Updated
  <2>2. from \in NodeStates /\ to \in NodeStates
    BY KnownStates
  <2>3. /\ w \in Views /\ Live(w) \subseteq (Live(v) \ {from}) \cup {to}
        /\ \A k \in Nodes : w[k] = IF v[k] = from THEN to ELSE v[k]
    <3> HIDE DEF WAITING_TO_JOIN, WAITING_TO_LEAVE, JOINING, LEAVING, NO_CHANGE, DELETE_ME,
                 ALL_JOINING, ALL_LEAVING
    <3> QED BY <2>1, <2>2, ViewSwitched
  <2>4. Live(v) \subseteq {NORMAL, WAITING_TO_JOIN, WAITING_TO_LEAVE}
    BY <1>1, <1>2, <1>4
  <2>5. ASSUME NEW k \in Nodes PROVE ActsOn(k, v, w)
    BY <1>3, <2>1, <2>3, <2>4 DEF ActsOn, Acting, Acknowledged, ConfigChanged
  <2> QED BY <2>1, <2>3, <2>5 DEF Keeps
<1>5. CASE new \notin {ALL_JOINING, ALL_LEAVING}
  <2>1. w = Put(v, n, new)
    BY <1>5 DEF Updated, Put
  <2>2. new \in LocalStates /\ new \notin {ABSENT, ERROR}
    BY <1>1, <1>5, KnownStates DEF Acknowledged, ConfigChanged
  <2>3. /\ w \in Views /\ Live(w) \subseteq Live(v) \cup {new}
        /\ \A k \in Nodes \ {n} : w[k] = v[k]
    <3> HIDE DEF ABSENT, ERROR, NO_CHANGE, DELETE_ME, ALL_JOINING, ALL_LEAVING
    <3> QED BY <2>1, <2>2, ViewUpdated
  <2>4. ASSUME NEW k \in Nodes \ {n}, NEW hook, NEW next, Acting(v, k, hook, next)
        PROVE  Acting(w, k, hook, next)
    <3>1. w[k] = v[k] /\ (v[k] \notin {ABSENT, ERROR} => v[k] \in Live(v))
      BY <1>3, <2>3
    <3>2. CASE hook \in {"on_cluster_changing", "on_joining_cluster"}
      <4>1. /\ v[k] \in Acknowledged /\ Live(v) \subseteq Acknowledged \cup ConfigChanged
            /\ next \in ConfigChanged
        BY <2>4, <3>2 DEF Acting
      <4>2. v[k] \in Live(v)
        BY <3>1, <4>1 DEF Acknowledged
      <4>3. new \in Acknowledged \cup ConfigChanged
        BY <1>1, <1>2, <1>5, <4>1, <4>2 DEF Acknowledged, ConfigChanged
      <4> QED BY <2>3, <3>1, <3>2, <4>1, <4>3 DEF Acting
    <3>3. CASE hook = "on_new_cluster_config_ready"
      <4>1. /\ v[k] \in ConfigChanged /\ Live(v) \subseteq ConfigChanged \cup {NORMAL, FINISHED}
            /\ next \in {NORMAL, FINISHED}
        BY <2>4, <3>3 DEF Acting
      <4>2. v[k] \in Live(v)
        BY <3>1, <4>1 DEF ConfigChanged
      <4>3. new \in ConfigChanged \cup {NORMAL, FINISHED}
        BY <1>1, <1>2, <1>5, <4>1, <4>2 DEF Acknowledged, ConfigChanged
      <4> QED BY <2>3, <3>1, <3>3, <4>1, <4>3 DEF Acting
    <3>4. CASE hook = "on_leaving_cluster"
      <4>1. v[k] = FINISHED /\ Live(v) \subseteq {NORMAL, FINISHED} /\ next = DELETE_ME
        BY <2>4, <3>4 DEF Acting
      <4>2. v[k] \in Live(v)
        BY <3>1, <4>1
      <4>3. FALSE
        BY <1>1, <1>2, <1>5, <4>1, <4>2 DEF Acknowledged, ConfigChanged
      <4> QED BY <4>3
    <3>5. CASE hook = "on_stable_cluster"
      <4>1. /\ v[k] \in {NORMAL, WAITING_TO_LEAVE, LEAVING} /\ next = NO_CHANGE
            /\ Live(v) \cap (ConfigChanged \cup {FINISHED}) = {}
        BY <2>4, <3>5 DEF Acting
      <4>2. v[k] \in Live(v)
        BY <3>1, <4>1
      <4>3. new \notin ConfigChanged \cup {FINISHED}
        BY <1>1, <1>2, <1>5, <4>1, <4>2 DEF Acknowledged, ConfigChanged
      <4> QED BY <2>3, <3>1, <3>5, <4>1, <4>3 DEF Acting
    <3> QED BY <2>4, <3>2, <3>3, <3>4, <3>5 DEF Acting
  <2> QED BY <2>3, <2>4 DEF Keeps, ActsOn
<1> QED BY <1>4, <1>5

\* A node that is asked to leave may be at work on a stable cluster, and goes on.
LEMMA Asked ==
  ASSUME NEW v \in Views, NEW n \in Nodes, NEW allowed \in BOOLEAN,
         CanLeave(ClusterState(v), allowed), NEW w, w = Put(v, n, WAITING_TO_LEAVE)
  PROVE  ActsOn(n, v, w)
<1>1. ClusterState(v) \in {STABLE, LEAVE_PENDING, STABLE_WITH_ERRORS}
  BY DEF CanLeave
<1>2. Live(v) \subseteq {NORMAL, WAITING_TO_LEAVE}
  BY <1>1, ClusterStateMeans
<1>3. WAITING_TO_LEAVE \in LocalStates
  BY KnownStates
<1>4. Live(w) \subseteq Live(v) \cup {WAITING_TO_LEAVE} /\ w[n] = WAITING_TO_LEAVE
  <2> HIDE DEF WAITING_TO_LEAVE, ABSENT, ERROR
  <2> QED BY <1>3, ViewUpdated
<1>5. v[n] \notin {ABSENT, ERROR} => v[n] \in Live(v)
  BY LiveMember
<1> QED BY <1>2, <1>4, <1>5 DEF ActsOn, Acting, Acknowledged, ConfigChanged

------------------------------------------------------------------------------
(* What the rest needs of the names of states is that they are different.  *)

LEMMA Words ==
  /\ ABSENT \notin
       {WAITING_TO_JOIN, JOINING, JOINING_ACKNOWLEDGED_CHANGE, JOINING_CONFIG_CHANGED,
        NORMAL, NORMAL_ACKNOWLEDGED_CHANGE, NORMAL_CONFIG_CHANGED,
        WAITING_TO_LEAVE, LEAVING, LEAVING_ACKNOWLEDGED_CHANGE,
        LEAVING_CONFIG_CHANGED, FINISHED, ERROR, NO_CHANGE, DELETE_ME,
        ALL_JOINING, ALL_LEAVING}
  /\ WAITING_TO_JOIN \notin
       {JOINING, JOINING_ACKNOWLEDGED_CHANGE, JOINING_CONFIG_CHANGED, NORMAL,
        NORMAL_ACKNOWLEDGED_CHANGE, NORMAL_CONFIG_CHANGED, WAITING_TO_LEAVE,
        LEAVING, LEAVING_ACKNOWLEDGED_CHANGE, LEAVING_CONFIG_CHANGED, FINISHED,
        ERROR, NO_CHANGE, DELETE_ME, ALL_JOINING, ALL_LEAVING}
  /\ JOINING \notin
       {JOINING_ACKNOWLEDGED_CHANGE, JOINING_CONFIG_CHANGED, NORMAL,
        NORMAL_ACKNOWLEDGED_CHANGE, NORMAL_CONFIG_CHANGED, WAITING_TO_LEAVE,
        LEAVING, LEAVING_ACKNOWLEDGED_CHANGE, LEAVING_CONFIG_CHANGED, FINISHED,
        ERROR, NO_CHANGE, DELETE_ME, ALL_JOINING, ALL_LEAVING}
  /\ JOINING_ACKNOWLEDGED_CHANGE \notin
       {JOINING_CONFIG_CHANGED, NORMAL, NORMAL_ACKNOWLEDGED_CHANGE,
        NORMAL_CONFIG_CHANGED, WAITING_TO_LEAVE, LEAVING,
        LEAVING_ACKNOWLEDGED_CHANGE, LEAVING_CONFIG_CHANGED, FINISHED, ERROR,
        NO_CHANGE, DELETE_ME, ALL_JOINING, ALL_LEAVING}
  /\ JOINING_CONFIG_CHANGED \notin
       {NORMAL, NORMAL_ACKNOWLEDGED_CHANGE, NORMAL_CONFIG_CHANGED, WAITING_TO_LEAVE,
        LEAVING, LEAVING_ACKNOWLEDGED_CHANGE, LEAVING_CONFIG_CHANGED, FINISHED,
        ERROR, NO_CHANGE, DELETE_ME, ALL_JOINING, ALL_LEAVING}
  /\ NORMAL \notin
       {NORMAL_ACKNOWLEDGED_CHANGE, NORMAL_CONFIG_CHANGED, WAITING_TO_LEAVE, LEAVING,
        LEAVING_ACKNOWLEDGED_CHANGE, LEAVING_CONFIG_CHANGED, FINISHED, ERROR,
        NO_CHANGE, DELETE_ME, ALL_JOINING, ALL_LEAVING}
  /\ NORMAL_ACKNOWLEDGED_CHANGE \notin
       {NORMAL_CONFIG_CHANGED, WAITING_TO_LEAVE, LEAVING, LEAVING_ACKNOWLEDGED_CHANGE,
        LEAVING_CONFIG_CHANGED, FINISHED, ERROR, NO_CHANGE, DELETE_ME,
        ALL_JOINING, ALL_LEAVING}
  /\ NORMAL_CONFIG_CHANGED \notin
       {WAITING_TO_LEAVE, LEAVING, LEAVING_ACKNOWLEDGED_CHANGE,
        LEAVING_CONFIG_CHANGED, FINISHED, ERROR, NO_CHANGE, DELETE_ME,
        ALL_JOINING, ALL_LEAVING}
  /\ WAITING_TO_LEAVE \notin
       {LEAVING, LEAVING_ACKNOWLEDGED_CHANGE, LEAVING_CONFIG_CHANGED, FINISHED, ERROR,
        NO_CHANGE, DELETE_ME, ALL_JOINING, ALL_LEAVING}
  /\ LEAVING \notin
       {LEAVING_ACKNOWLEDGED_CHANGE, LEAVING_CONFIG_CHANGED, FINISHED, ERROR,
        NO_CHANGE, DELETE_ME, ALL_JOINING, ALL_LEAVING}
  /\ LEAVING_ACKNOWLEDGED_CHANGE \notin
       {LEAVING_CONFIG_CHANGED, FINISHED, ERROR, NO_CHANGE, DELETE_ME, ALL_JOINING,
        ALL_LEAVING}
  /\ LEAVING_CONFIG_CHANGED \notin
       {FINISHED, ERROR, NO_CHANGE, DELETE_ME, ALL_JOINING, ALL_LEAVING}
  /\ FINISHED \notin {ERROR, NO_CHANGE, DELETE_ME, ALL_JOINING, ALL_LEAVING}
  /\ ERROR \notin {NO_CHANGE, DELETE_ME, ALL_JOINING, ALL_LEAVING}
  /\ NO_CHANGE \notin {DELETE_ME, ALL_JOINING, ALL_LEAVING}
  /\ DELETE_ME \notin {ALL_JOINING, ALL_LEAVING}
  /\ ALL_JOINING \notin {ALL_LEAVING}
  OBVIOUS

LEMMA ClusterWords ==
  /\ EMPTY \notin
       {STABLE, STABLE_WITH_ERRORS, JOIN_PENDING, STARTED_JOINING,
       JOINING_CONFIG_CHANGING, JOINING_RESYNCING, LEAVE_PENDING,
       STARTED_LEAVING, LEAVING_CONFIG_CHANGING, LEAVING_RESYNCING,
       FINISHED_LEAVING, INVALID_CLUSTER_STATE}
  /\ STABLE \notin
       {STABLE_WITH_ERRORS, JOIN_PENDING, STARTED_JOINING,
       JOINING_CONFIG_CHANGING, JOINING_RESYNCING, LEAVE_PENDING,
       STARTED_LEAVING, LEAVING_CONFIG_CHANGING, LEAVING_RESYNCING,
       FINISHED_LEAVING, INVALID_CLUSTER_STATE}
  /\ STABLE_WITH_ERRORS \notin
       {JOIN_PENDING, STARTED_JOINING, JOINING_CONFIG_CHANGING,
       JOINING_RESYNCING, LEAVE_PENDING, STARTED_LEAVING,
       LEAVING_CONFIG_CHANGING, LEAVING_RESYNCING, FINISHED_LEAVING,
       INVALID_CLUSTER_STATE}
  /\ JOIN_PENDING \notin
       {STARTED_JOINING, JOINING_CONFIG_CHANGING, JOINING_RESYNCING,
       LEAVE_PENDING, STARTED_LEAVING, LEAVING_CONFIG_CHANGING,
       LEAVING_RESYNCING, FINISHED_LEAVING, INVALID_CLUSTER_STATE}
  /\ STARTED_JOINING \notin
       {JOINING_CONFIG_CHANGING, JOINING_RESYNCING, LEAVE_PENDING,
       STARTED_LEAVING, LEAVING_CONFIG_CHANGING, LEAVING_RESYNCING,
       FINISHED_LEAVING, INVALID_CLUSTER_STATE}
  /\ JOINING_CONFIG_CHANGING \notin
       {JOINING_RESYNCING, LEAVE_PENDING, STARTED_LEAVING,
       LEAVING_CONFIG_CHANGING, LEAVING_RESYNCING, FINISHED_LEAVING,
       INVALID_CLUSTER_STATE}
  /\ JOINING_RESYNCING \notin
       {LEAVE_PENDING, STARTED_LEAVING, LEAVING_CONFIG_CHANGING,
       LEAVING_RESYNCING, FINISHED_LEAVING, INVALID_CLUSTER_STATE}
  /\ LEAVE_PENDING \notin
       {STARTED_LEAVING, LEAVING_CONFIG_CHANGING, LEAVING_RESYNCING,
       FINISHED_LEAVING, INVALID_CLUSTER_STATE}
  /\ STARTED_LEAVING \notin
       {LEAVING_CONFIG_CHANGING, LEAVING_RESYNCING, FINISHED_LEAVING,
       INVALID_CLUSTER_STATE}
  /\ LEAVING_CONFIG_CHANGING \notin
       {LEAVING_RESYNCING, FINISHED_LEAVING, INVALID_CLUSTER_STATE}
  /\ LEAVING_RESYNCING \notin
       {FINISHED_LEAVING, INVALID_CLUSTER_STATE}
  /\ FINISHED_LEAVING \notin
       {INVALID_CLUSTER_STATE}
  OBVIOUS

\* Nobody can leave a cluster that is not there; anybody can join one that is empty.
LEMMA EmptyClusters ==
  /\ Joinable(ClusterState([m \in Nodes |-> ABSENT]))
  /\ \A allowed : ~CanLeave(ClusterState(NoView), allowed)
  BY EmptyView DEF Joinable, CanLeave

\* The vocabulary of ClusterStates as ClusterProtocol sees it.
LEMMA SameWords ==
  /\ Abstract!ABSENT = ABSENT /\ Abstract!WAITING_TO_JOIN = WAITING_TO_JOIN
  /\ Abstract!JOINING = JOINING
  /\ Abstract!JOINING_ACKNOWLEDGED_CHANGE = JOINING_ACKNOWLEDGED_CHANGE
  /\ Abstract!JOINING_CONFIG_CHANGED = JOINING_CONFIG_CHANGED
  /\ Abstract!NORMAL = NORMAL
  /\ Abstract!NORMAL_ACKNOWLEDGED_CHANGE = NORMAL_ACKNOWLEDGED_CHANGE
  /\ Abstract!NORMAL_CONFIG_CHANGED = NORMAL_CONFIG_CHANGED
  /\ Abstract!WAITING_TO_LEAVE = WAITING_TO_LEAVE /\ Abstract!LEAVING = LEAVING
  /\ Abstract!LEAVING_ACKNOWLEDGED_CHANGE = LEAVING_ACKNOWLEDGED_CHANGE
  /\ Abstract!LEAVING_CONFIG_CHANGED = LEAVING_CONFIG_CHANGED
  /\ Abstract!FINISHED = FINISHED /\ Abstract!ERROR = ERROR
  /\ Abstract!NO_CHANGE = NO_CHANGE /\ Abstract!DELETE_ME = DELETE_ME
  /\ Abstract!ALL_JOINING = ALL_JOINING /\ Abstract!ALL_LEAVING = ALL_LEAVING
  BY DEF Abstract!ABSENT, Abstract!WAITING_TO_JOIN, Abstract!JOINING,
         Abstract!JOINING_ACKNOWLEDGED_CHANGE, Abstract!JOINING_CONFIG_CHANGED,
         Abstract!NORMAL, Abstract!NORMAL_ACKNOWLEDGED_CHANGE,
         Abstract!NORMAL_CONFIG_CHANGED, Abstract!WAITING_TO_LEAVE, Abstract!LEAVING,
         Abstract!LEAVING_ACKNOWLEDGED_CHANGE, Abstract!LEAVING_CONFIG_CHANGED,
         Abstract!FINISHED, Abstract!ERROR, Abstract!NO_CHANGE, Abstract!DELETE_ME,
         Abstract!ALL_JOINING, Abstract!ALL_LEAVING

LEMMA SameClusterWords ==
  /\ Abstract!EMPTY = EMPTY /\ Abstract!STABLE = STABLE
  /\ Abstract!STABLE_WITH_ERRORS = STABLE_WITH_ERRORS
  /\ Abstract!JOIN_PENDING = JOIN_PENDING /\ Abstract!STARTED_JOINING = STARTED_JOINING
  /\ Abstract!JOINING_CONFIG_CHANGING = JOINING_CONFIG_CHANGING
  /\ Abstract!JOINING_RESYNCING = JOINING_RESYNCING
  /\ Abstract!LEAVE_PENDING = LEAVE_PENDING
  /\ Abstract!STARTED_LEAVING = STARTED_LEAVING
  /\ Abstract!LEAVING_CONFIG_CHANGING = LEAVING_CONFIG_CHANGING
  /\ Abstract!LEAVING_RESYNCING = LEAVING_RESYNCING
  /\ Abstract!FINISHED_LEAVING = FINISHED_LEAVING
  /\ Abstract!INVALID_CLUSTER_STATE = INVALID_CLUSTER_STATE
  BY DEF Abstract!EMPTY, Abstract!STABLE, Abstract!STABLE_WITH_ERRORS,
         Abstract!JOIN_PENDING, Abstract!STARTED_JOINING,
         Abstract!JOINING_CONFIG_CHANGING, Abstract!JOINING_RESYNCING,
         Abstract!LEAVE_PENDING, Abstract!STARTED_LEAVING,
         Abstract!LEAVING_CONFIG_CHANGING, Abstract!LEAVING_RESYNCING,
         Abstract!FINISHED_LEAVING, Abstract!INVALID_CLUSTER_STATE

HIDE DEF ABSENT, WAITING_TO_JOIN, JOINING, JOINING_ACKNOWLEDGED_CHANGE,
         JOINING_CONFIG_CHANGED, NORMAL, NORMAL_ACKNOWLEDGED_CHANGE,
         NORMAL_CONFIG_CHANGED, WAITING_TO_LEAVE, LEAVING,
         LEAVING_ACKNOWLEDGED_CHANGE, LEAVING_CONFIG_CHANGED, FINISHED, ERROR, EMPTY,
         STABLE, STABLE_WITH_ERRORS, JOIN_PENDING, STARTED_JOINING,
         JOINING_CONFIG_CHANGING, JOINING_RESYNCING, LEAVE_PENDING, STARTED_LEAVING,
         LEAVING_CONFIG_CHANGING, LEAVING_RESYNCING, FINISHED_LEAVING,
         INVALID_CLUSTER_STATE, NO_CHANGE, DELETE_ME, ALL_JOINING, ALL_LEAVING

LEMMA SameNodeStates == Abstract!NodeStates = NodeStates
  BY SameWords DEF Abstract!NodeStates, NodeStates

LEMMA SameClusterState == Abstract!Cluster = ClusterState(view)
<1>1. Abstract!Live(view) = Live(view)
  BY SameWords DEF Abstract!Live, Live
<1>2. \A live, more, one : Abstract!StateCheck(live, more, one) <=> StateCheck(live, more, one)
  BY DEF Abstract!StateCheck, StateCheck
<1> QED
  BY <1>1, <1>2, SameWords, SameClusterWords
     DEF Abstract!Cluster, Abstract!ClusterState, ClusterState

LEMMA SameRules ==
  /\ \A c : Abstract!Joinable(c) <=> Joinable(c)
  /\ \A c, allowed : Abstract!CanLeave(c, allowed) <=> CanLeave(c, allowed)
  /\ \A c, l : Abstract!FsmRows(c, l) = FsmRows(c, l)
  /\ \A v, from, to : Abstract!SwitchAll(v, from, to) = SwitchAll(v, from, to)
<1>1. /\ \A c : Abstract!Joinable(c) <=> Joinable(c)
      /\ \A c, allowed : Abstract!CanLeave(c, allowed) <=> CanLeave(c, allowed)
  BY SameClusterWords DEF Abstract!Joinable, Joinable, Abstract!CanLeave, CanLeave
<1>2. \A v, from, to : Abstract!SwitchAll(v, from, to) = SwitchAll(v, from, to)
  BY DEF Abstract!SwitchAll, SwitchAll
<1>3. Abstract!FsmTable = FsmTable
  BY SameWords, SameClusterWords DEF Abstract!FsmTable, FsmTable
<1>4. \A c, l : Abstract!FsmRows(c, l) = FsmRows(c, l)
  BY <1>3 DEF Abstract!FsmRows, FsmRows
<1> QED BY <1>1, <1>2, <1>4


------------------------------------------------------------------------------
(* The invariant: what a step of one node leaves of the others.            *)

News == NodeStates \cup {NO_CHANGE, DELETE_ME, ALL_JOINING, ALL_LEAVING}
Events == [Nodes -> [view : Views \cup {NoView}, index : Indices]]
Turns == [Nodes -> [info : Views \cup {NoView}, att : Indices, hook : Hooks, new : News]]
Handlers == [Nodes -> [info : Views \cup {NoView}, att : Indices,
                       pc : {"idle", "called", "create", "decide", "write", "reread"}]]

\* What becomes of an index.
LEMMA Ages ==
  \A i : /\ i \in Indices => Aged(i) \in Indices
        /\ Aged(i) # "current"
  BY DEF Aged, Indices

\* When the key is written every index ages, and who watches is told.
LEMMA AllNotice ==
  ASSUME TypeOK, NEW w \in Views, NEW ownturn \in Turns, NEW ownhandler \in Handlers,
         Publish(w, ownturn, ownhandler)
  PROVE  /\ view' = w
         /\ index' \in [Nodes -> Indices] /\ event' \in Events
         /\ turn' \in Turns /\ handler' \in Handlers
         /\ \A m \in Nodes :
              /\ index'[m] = Aged(index[m])
              /\ event'[m].index = "current" => event'[m].view = w
              /\ pc[m] # "watch" => event'[m] = NoEvent
              /\ pc[m] = "watch" =>
                   /\ event'[m] # NoEvent
                   /\ event'[m].view \in {w, event[m].view}
              /\ turn'[m].info = ownturn[m].info /\ turn'[m].new = ownturn[m].new
              /\ turn'[m].hook = ownturn[m].hook /\ turn'[m].att = Aged(ownturn[m].att)
              /\ handler'[m].pc = ownhandler[m].pc /\ handler'[m].info = ownhandler[m].info
              /\ handler'[m].att = Aged(ownhandler[m].att)
<1>1. index \in [Nodes -> Indices] /\ event \in Events
  BY DEF TypeOK, Events
<1>2. view' = w /\ index' \in [Nodes -> Indices] /\ \A m \in Nodes : index'[m] = Aged(index[m])
  BY <1>1, Ages DEF Publish
<1>3. /\ turn' \in Turns
      /\ \A m \in Nodes :
           /\ turn'[m].info = ownturn[m].info /\ turn'[m].new = ownturn[m].new
           /\ turn'[m].hook = ownturn[m].hook /\ turn'[m].att = Aged(ownturn[m].att)
  <2>1. turn' = [m \in Nodes |-> [ownturn[m] EXCEPT !.att = Aged(ownturn[m].att)]]
    BY DEF Publish
  <2> QED BY <2>1, Ages DEF Turns
<1>4. /\ handler' \in Handlers
      /\ \A m \in Nodes :
           /\ handler'[m].pc = ownhandler[m].pc /\ handler'[m].info = ownhandler[m].info
           /\ handler'[m].att = Aged(ownhandler[m].att)
  <2>1. handler' = [m \in Nodes |-> [ownhandler[m] EXCEPT !.att = Aged(ownhandler[m].att)]]
    BY DEF Publish
  <2> QED BY <2>1, Ages DEF Handlers
<1>5. event' = [m \in Nodes |->
                  IF pc[m] # "watch" THEN NoEvent
                  ELSE IF event[m] = NoEvent THEN [view |-> w, index |-> "current"]
                  ELSE [event[m] EXCEPT !.index = "stale"]]
  BY DEF Publish
<1>6. event' \in Events
  BY <1>1, <1>5 DEF NoEvent, Events, Indices
<1>7. \A m \in Nodes :
        /\ event'[m].index = "current" => event'[m].view = w
        /\ pc[m] # "watch" => event'[m] = NoEvent
        /\ pc[m] = "watch" => event'[m] # NoEvent /\ event'[m].view \in {w, event[m].view}
  BY <1>1, <1>5 DEF NoEvent, Events
<1> QED BY <1>2, <1>3, <1>4, <1>6, <1>7

\* What a step leaves alone of the threads of node m, besides what etcd's news does
\* to them.
Rests(m) ==
  /\ pc'[m] = pc[m] /\ last'[m] = last[m] /\ fsm'[m] = fsm[m]
  /\ force'[m] = force[m] /\ leaving'[m] = leaving[m]

\* What every step is shown to do: whatever the threads know they still know; and, if
\* main and leave_cluster take turns and were in order, they still are.
InOrder(n) == Stops(n) /\ Asks(n) /\ Acts(n)

Preserved == Knows' /\ (Orderly => Orderly')

LEMMA PreservedBy ==
  ASSUME NEW n \in Nodes, Knows',
         ~PreemptHandler /\ (\A m \in Nodes : InOrder(m)) =>
           InOrder(n)' /\ \A m \in Nodes \ {n} : InOrder(m)'
  PROVE  Preserved
<1>1. (\A m \in Nodes : InOrder(m)) /\ ~PreemptHandler => \A m \in Nodes : InOrder(m)'
  OBVIOUS
<1> QED BY <1>1 DEF Preserved, Orderly, InOrder

\* A step that leaves the key alone is no concern of the other nodes.
LEMMA OwnStep ==
  ASSUME Knows, NEW n \in Nodes, TypeOK', view' = view, BeforeCreation', Decides(n)',
         ~PreemptHandler /\ InOrder(n) => InOrder(n)',
         \A m \in Nodes \ {n} :
           /\ Rests(m) /\ index'[m] = index[m] /\ event'[m] = event[m]
           /\ turn'[m] = turn[m] /\ handler'[m] = handler[m]
  PROVE  Preserved
<1>1. ASSUME NEW m \in Nodes \ {n} PROVE Decides(m)'
  <2>1. Decides(m)
    BY DEF Knows
  <2> QED BY <2>1 DEF Decides, Decided, Rests
<1>2. Knows'
  BY <1>1 DEF Knows
<1>3. ASSUME NEW m \in Nodes \ {n}, InOrder(m) PROVE InOrder(m)'
  <2>1. Stops(m)' /\ Asks(m)'
    BY <1>3 DEF InOrder, Stops, Asks, Rests
  <2>2. Acts(m)'
    BY <1>3 DEF InOrder, Acts, Rests
  <2> QED BY <2>1, <2>2 DEF InOrder
<1> QED BY <1>2, <1>3, PreservedBy

\* News of the key leaves a node's decisions as they were, and its hooks in phase.
LEMMA NewsDecided ==
  ASSUME Knows, NEW m \in Nodes, NEW w \in Views,
         NEW ownturn \in Turns, NEW ownhandler \in Handlers,
         Publish(w, ownturn, ownhandler), ownturn[m] = turn[m],
         \/ ownhandler[m] = handler[m]
         \/ ownhandler[m].pc = "idle",
         pc'[m] = pc[m], force'[m] = force[m]
  PROVE  Decides(m)'
<1>1. /\ index'[m] # "current" /\ turn'[m].att # "current"
      /\ event'[m].index = "current" => event'[m].view = w
      /\ pc[m] = "watch" => event'[m] # NoEvent
      /\ pc[m] # "watch" => event'[m] = NoEvent
      /\ turn'[m].info = turn[m].info /\ turn'[m].new = turn[m].new
      /\ turn'[m].hook = turn[m].hook /\ view' = w
      /\ handler'[m].pc \in {"idle", handler[m].pc}
      /\ handler'[m].pc \in {"write", "reread"} => handler'[m].info = handler[m].info
  BY AllNotice, Ages DEF Knows
<1>2. Decides(m)
  BY DEF Knows
<1> QED BY <1>1, <1>2 DEF Decides, Decided

LEMMA NewsActs ==
  ASSUME TypeOK, NEW m \in Nodes, Acts(m), NEW w \in Views,
         NEW ownturn \in Turns, NEW ownhandler \in Handlers,
         Publish(w, ownturn, ownhandler), ownturn[m] = turn[m],
         pc'[m] = pc[m], pc[m] = "watch" => last'[m] = last[m], ActsOn(m, view, w)
  PROVE  Acts(m)'
<1>1. /\ turn'[m].hook = turn[m].hook /\ turn'[m].new = turn[m].new /\ view' = w
      /\ pc[m] = "watch" => event'[m].view \in {w, event[m].view}
  BY AllNotice
<1>2. pc[m] = "hook" => Acting(w, m, turn[m].hook, turn[m].new)
  BY DEF Acts, ActsOn
<1>3. ASSUME pc[m] = "watch", NEW v \in {last[m], event'[m].view} \ {NoView},
             NEW row \in FsmRows(ClusterState(v), v[m]), row[3] # "none"
      PROVE  Acting(w, m, row[3], row[4])
  <2>1. CASE v = w
    BY <1>3, <2>1, RowActs
  <2>2. CASE v \in {last[m], event[m].view}
    <3>1. Acting(view, m, row[3], row[4])
      BY <1>3, <2>2 DEF Acts
    <3> QED BY <3>1 DEF ActsOn
  <2> QED BY <1>1, <1>3, <2>1, <2>2
<1> QED BY <1>1, <1>2, <1>3 DEF Acts

\* A write that is due leaves the other nodes in step; any write leaves them what they
\* know.
LEMMA WriteStep ==
  ASSUME Knows, NEW n \in Nodes, TypeOK', created, created',
         NEW w \in Views, NEW ownturn \in Turns, NEW ownhandler \in Handlers,
         Publish(w, ownturn, ownhandler), Decides(n)',
         ~PreemptHandler /\ InOrder(n) =>
           InOrder(n)' /\ \A m \in Nodes \ {n} : Keeps(m, view, w),
         \A m \in Nodes \ {n} :
           Rests(m) /\ ownturn[m] = turn[m] /\ ownhandler[m] = handler[m]
  PROVE  Preserved
<1>1. TypeOK /\ BeforeCreation'
  BY DEF Knows, BeforeCreation
<1>2. \A m \in Nodes \ {n} : Decides(m)'
  BY NewsDecided DEF Rests
<1>3. Knows'
  BY <1>1, <1>2 DEF Knows
<1>4. ASSUME NEW m \in Nodes \ {n}, InOrder(m), Keeps(m, view, w) PROVE InOrder(m)'
  <2>1. /\ index'[m] # "current" /\ handler'[m].att # "current" /\ view' = w
        /\ turn'[m].info = turn[m].info /\ turn'[m].new = turn[m].new
        /\ handler'[m].pc = handler[m].pc /\ handler'[m].info = handler[m].info
    BY <1>1, AllNotice, Ages
  <2>2. \/ w[m] = view[m]
        \/ view[m] = WAITING_TO_JOIN /\ w[m] = JOINING
        \/ view[m] = WAITING_TO_LEAVE /\ w[m] = LEAVING
    BY <1>4 DEF Keeps
  <2>3. /\ view[m] \in {ERROR, FINISHED} => w[m] = view[m]
        /\ w[m] \in Leaving <=> view[m] \in Leaving
    BY <2>2, Words DEF Leaving
  <2>4. Stops(m)'
    BY <1>4, <2>1, <2>3 DEF InOrder, Stops, Rests
  <2>5. Asks(m)'
    BY <1>4, <2>1, <2>3 DEF InOrder, Asks, Rests
  <2>6. Acts(m)'
    BY <1>1, <1>4, NewsActs DEF InOrder, Rests, Keeps
  <2> QED BY <2>4, <2>5, <2>6 DEF InOrder
<1> QED BY <1>3, <1>4, PreservedBy

------------------------------------------------------------------------------
(* The steps of the synchronizer thread.                                   *)

\* How far the counters are from their bounds does not matter to anybody.
Budgets == requests \in 0..MaxRequests /\ faults \in 0..MaxFaults /\ glitches \in 0..MaxGlitches

Places == {"read", "create", "watch", "hook", "write", "reread", "dead", "done"}

\* What is known of the variables of one node.
LEMMA Typed ==
  ASSUME Knows
  PROVE  /\ view \in Views /\ created \in BOOLEAN /\ Budgets /\ synced \subseteq Nodes
         /\ pc \in [Nodes -> Places]
         /\ last \in [Nodes -> Views \cup {NoView}] /\ index \in [Nodes -> Indices]
         /\ event \in Events /\ turn \in Turns /\ worked \in [Nodes -> Hooks]
         /\ fsm \in [Nodes -> {"running", "departing", "stopped"}]
         /\ force \in [Nodes -> BOOLEAN] /\ leaving \in [Nodes -> BOOLEAN]
         /\ handler \in Handlers
         /\ \A n \in Nodes : Decides(n)
         /\ BeforeCreation
  BY DEF Knows, TypeOK, Budgets, Events, Turns, News, Handlers, Places

LEMMA TypedAgain ==
  ASSUME view' \in Views, created' \in BOOLEAN, Budgets', synced' \subseteq Nodes,
         pc' \in [Nodes -> Places],
         last' \in [Nodes -> Views \cup {NoView}], index' \in [Nodes -> Indices],
         event' \in Events, turn' \in Turns, worked' \in [Nodes -> Hooks],
         fsm' \in [Nodes -> {"running", "departing", "stopped"}],
         force' \in [Nodes -> BOOLEAN], leaving' \in [Nodes -> BOOLEAN],
         handler' \in Handlers
  PROVE  TypeOK'
  BY DEF TypeOK, Budgets, Events, Turns, News, Handlers, Places

LEMMA BudgetsKept ==
  ASSUME Knows
  PROVE  /\ UNCHANGED budgets => Budgets'
         /\ Glitch /\ UNCHANGED <<requests, faults>> => Budgets'
         /\ Fault /\ UNCHANGED <<requests, glitches>> => Budgets'
<1>1. Budgets
  BY Typed
<1>2. UNCHANGED budgets => Budgets'
  BY <1>1 DEF Budgets, budgets
<1>3. Glitch /\ UNCHANGED <<requests, faults>> => Budgets'
  BY <1>1, ConstantsAssumption DEF Budgets, Glitch
<1>4. Fault /\ UNCHANGED <<requests, glitches>> => Budgets'
  BY <1>1, ConstantsAssumption DEF Budgets, Fault
<1> QED BY <1>2, <1>3, <1>4

\* A cluster that can be left has no node on its way out.
LEMMA NobodyLeaving ==
  ASSUME NEW v \in Views, NEW n \in Nodes, NEW allowed, CanLeave(ClusterState(v), allowed)
  PROVE  v[n] \in {NORMAL, WAITING_TO_LEAVE, ABSENT, ERROR}
<1>1. ClusterState(v) \in {STABLE, LEAVE_PENDING, STABLE_WITH_ERRORS}
  BY DEF CanLeave
<1>2. Live(v) \subseteq {NORMAL, WAITING_TO_LEAVE}
  BY <1>1, ClusterStateMeans
<1> QED BY <1>2, LiveMember

\* What main and the FSM may make of view v.
LEMMA MovesKnown ==
  ASSUME NEW n \in Nodes, NEW v \in Views \cup {NoView}, NEW move \in Moves(n, v)
  PROVE  /\ move[1] \in Hooks /\ move[2] \in News
         /\ \/ /\ move[1] = "none" /\ move[2] = WAITING_TO_LEAVE
               /\ leaving[n] /\ CanLeave(ClusterState(v), force[n]) /\ v[n] \notin Leaving
            \/ /\ move[1] = "none" /\ move[2] = WAITING_TO_JOIN
               /\ v[n] = ABSENT /\ Joinable(ClusterState(v))
            \/ \E row \in FsmRows(ClusterState(v), v[n]) :
                 move[1] = row[3] /\ move[2] = row[4]
<1> DEFINE MayAsk == leaving[n] /\ v[n] # WAITING_TO_LEAVE
                    /\ CanLeave(ClusterState(v), force[n])
<1>1. CASE MayAsk
  <2>1. move = <<"none", WAITING_TO_LEAVE>>
    BY <1>1 DEF Moves
  <2>2. v \in Views
    BY <1>1, EmptyClusters
  <2>3. v[n] \notin Leaving
    BY <1>1, <2>2, NobodyLeaving, Words DEF Leaving
  <2> QED BY <1>1, <2>1, <2>3, KnownStates DEF News, Hooks
<1>2. CASE ~MayAsk /\ v[n] = ABSENT
  <2>1. move = <<"none", WAITING_TO_JOIN>> /\ Joinable(ClusterState(v))
    BY <1>2 DEF Moves
  <2> QED BY <1>2, <2>1, KnownStates DEF News, Hooks
<1>3. CASE ~MayAsk /\ v[n] # ABSENT
  <2>1. PICK row \in FsmRows(ClusterState(v), v[n]) : move = <<row[3], row[4]>>
    BY <1>3 DEF Moves
  <2>2. RowKind(ClusterState(v), v[n], row[3], row[4])
    BY RowKinds
  <2>3. row[3] \in Hooks /\ row[4] \in News
    BY <2>2, KnownStates DEF RowKind, Hooks, News
  <2> QED BY <2>1, <2>3
<1> QED BY <1>1, <1>2, <1>3

\* What a row of the table asks for, if it has no hook.
LEMMA RowWrites ==
  ASSUME NEW c, NEW l, NEW row \in FsmRows(c, l)
  PROVE  /\ row[4] \notin {WAITING_TO_LEAVE, WAITING_TO_JOIN, ABSENT, ERROR}
         /\ row[3] = "none" => row[4] \notin {NO_CHANGE, DELETE_ME}
<1>1. RowKind(c, l, row[3], row[4])
  BY RowKinds
<1> QED BY <1>1, Words DEF RowKind, Acknowledged, ConfigChanged

\* n's synchronizer goes on with a value of the view: that of etcd, if the index says
\* so; what the FSM makes of it is in its phase.
LEMMA Taken ==
  ASSUME Knows, NEW n \in Nodes, NEW v \in Views \cup {NoView},
         NEW i \in Indices, Runs(n, "read") \/ Runs(n, "watch"), created, Budgets',
         Take(n, v, i), i = "current" => v = view,
         ~PreemptHandler /\ InOrder(n) =>
           \A row \in FsmRows(ClusterState(v), v[n]) :
             row[3] = "none" \/ Acting(view, n, row[3], row[4])
  PROVE  Preserved
<1>1. /\ last' = [last EXCEPT ![n] = v] /\ index' = [index EXCEPT ![n] = i]
      /\ event' = [event EXCEPT ![n] = NoEvent]
      /\ UNCHANGED <<view, created, worked, fsm, leaveVars, synced>>
  BY DEF Take
<1>2. UNCHANGED <<force, leaving, handler>>
  BY <1>1 DEF leaveVars
<1>3. pc[n] \in {"read", "watch"}
  BY DEF Runs
<1>4. NoEvent \in [view : Views \cup {NoView}, index : Indices] /\ NoEvent.index = "none"
  BY DEF NoEvent, Indices
<1>5. /\ turn' \in Turns /\ pc' \in [Nodes -> Places]
      /\ \A m \in Nodes \ {n} : turn'[m] = turn[m] /\ pc'[m] = pc[m]
      /\ \/ pc'[n] = "read"
         \/ \E move \in Moves(n, v) :
              /\ turn'[n] = [info |-> v, new |-> move[2], att |-> i, hook |-> move[1]]
              /\ pc'[n] = IF move[1] = "none" THEN "write" ELSE "hook"
  <2>1. CASE pc' = [pc EXCEPT ![n] = "read"] /\ turn' = turn
    BY <2>1, Typed DEF Places
  <2>2. ASSUME NEW move \in Moves(n, v),
               turn' = [turn EXCEPT ![n] = [info |-> v, new |-> move[2],
                                            att |-> i, hook |-> move[1]]],
               pc' = [pc EXCEPT ![n] = IF move[1] = "none" THEN "write" ELSE "hook"]
        PROVE  /\ turn' \in Turns /\ pc' \in [Nodes -> Places]
               /\ \A m \in Nodes \ {n} : turn'[m] = turn[m] /\ pc'[m] = pc[m]
               /\ turn'[n] = [info |-> v, new |-> move[2], att |-> i, hook |-> move[1]]
               /\ pc'[n] = IF move[1] = "none" THEN "write" ELSE "hook"
    <3>1. move[1] \in Hooks /\ move[2] \in News
      BY MovesKnown
    <3> QED BY <2>2, <3>1, Typed DEF Turns, Places
  <2> QED BY <2>1, <2>2 DEF Take
<1>6. /\ last' \in [Nodes -> Views \cup {NoView}] /\ index' \in [Nodes -> Indices]
      /\ event' \in Events /\ last'[n] = v /\ index'[n] = i /\ event'[n] = NoEvent
      /\ \A m \in Nodes \ {n} : /\ last'[m] = last[m] /\ index'[m] = index[m]
                                /\ event'[m] = event[m]
  BY <1>1, <1>4, Typed DEF Events
<1>7. TypeOK'
  BY <1>1, <1>2, <1>5, <1>6, Typed, TypedAgain
<1>8. Decides(n)'
  <2>1. CASE pc'[n] = "read"
    BY <1>1, <1>2, <1>4, <1>6, <2>1, Typed DEF Decides
  <2>2. ASSUME NEW move \in Moves(n, v),
               turn'[n] = [info |-> v, new |-> move[2], att |-> i, hook |-> move[1]],
               pc'[n] = IF move[1] = "none" THEN "write" ELSE "hook"
        PROVE  Decides(n)'
    <3>1. /\ move[1] = "none" => move[2] # NO_CHANGE /\ Decided(n, v, move[2])
          /\ move[1] # "none" => \E row \in FsmRows(ClusterState(v), v[n]) :
                                   move[1] = row[3] /\ move[2] = row[4]
      BY MovesKnown, RowWrites, Words DEF Decided
    <3>2. /\ turn'[n].info = v /\ turn'[n].new = move[2] /\ turn'[n].att = i
          /\ turn'[n].hook = move[1] /\ index'[n] = i /\ event'[n] = NoEvent
          /\ view' = view /\ force' = force
      BY <1>1, <1>2, <1>6, <2>2
    <3> QED BY <1>2, <1>4, <2>2, <3>1, <3>2, Typed DEF Decides, Decided
  <2> QED BY <1>5, <2>1, <2>2
<1>9. ASSUME ~PreemptHandler, InOrder(n) PROVE InOrder(n)'
  <2>1. /\ handler[n].pc \in {"idle", "called"} /\ fsm[n] = "running"
        /\ Stops(n) /\ Asks(n)
    BY <1>3, <1>9 DEF Runs, InOrder, Stops
  <2>2. CASE pc'[n] = "read"
    BY <1>1, <1>2, <1>3, <2>1, <2>2 DEF InOrder, Stops, Asks, Acts
  <2>3. ASSUME NEW move \in Moves(n, v),
               turn'[n] = [info |-> v, new |-> move[2], att |-> i, hook |-> move[1]],
               pc'[n] = IF move[1] = "none" THEN "write" ELSE "hook"
        PROVE  InOrder(n)'
    <3>1. /\ turn'[n].info = v /\ turn'[n].new = move[2]
          /\ turn'[n].hook = move[1]
          /\ pc'[n] = IF move[1] = "none" THEN "write" ELSE "hook"
      BY <2>3
    <3>2. move[2] = WAITING_TO_LEAVE => leaving[n] /\ v[n] \notin Leaving
      BY MovesKnown, RowWrites, Words
    <3>3. move[1] = "none" => move[2] # DELETE_ME
      BY MovesKnown, RowWrites, Words
    <3>4. Stops(n)'
      BY <1>1, <2>1, <3>1, <3>3 DEF Stops
    <3>5. Asks(n)'
      BY <1>1, <1>2, <2>1, <3>1, <3>2 DEF Asks
    <3>6. move[1] # "none" => Acting(view, n, move[1], move[2])
      BY <1>9, MovesKnown
    <3>7. Acts(n)'
      BY <1>1, <3>1, <3>6 DEF Acts
    <3> QED BY <3>4, <3>5, <3>7 DEF InOrder
  <2> QED BY <1>5, <2>2, <2>3
<1>10. BeforeCreation'
  BY <1>1 DEF BeforeCreation
<1>11. \A m \in Nodes \ {n} :
         /\ Rests(m) /\ index'[m] = index[m] /\ event'[m] = event[m]
         /\ turn'[m] = turn[m] /\ handler'[m] = handler[m]
  BY <1>1, <1>2, <1>5, <1>6 DEF Rests
<1> QED BY <1>1, <1>7, <1>8, <1>9, <1>10, <1>11, OwnStep

LEMMA ReadSteps ==
  ASSUME Knows, NEW n \in Nodes, Read(n) \/ WatchReturns(n) \/ WatchRaises(n)
  PROVE  Preserved
<1>1. /\ view \in Views /\ event \in Events /\ last \in [Nodes -> Views \cup {NoView}]
      /\ Decides(n)
  BY Typed
<1>2. CASE Read(n)
  <2>1. Runs(n, "read") /\ created /\ Take(n, view, "current") /\ UNCHANGED budgets
    BY <1>2 DEF Read
  <2>2. "current" \in Indices
    BY DEF Indices
  <2>3. \A row \in FsmRows(ClusterState(view), view[n]) :
          row[3] = "none" \/ Acting(view, n, row[3], row[4])
    BY <1>1, RowActs
  <2> QED BY <1>1, <2>1, <2>2, <2>3, BudgetsKept, Taken
<1>3. ASSUME Runs(n, "watch"), InOrder(n), NEW v \in {last[n], event[n].view}
      PROVE  \A row \in FsmRows(ClusterState(v), v[n]) :
               row[3] = "none" \/ Acting(view, n, row[3], row[4])
  <2>1. CASE v = NoView
    BY <2>1, EmptyView, NoRows
  <2>2. CASE v # NoView
    BY <1>1, <1>3, <2>2 DEF InOrder, Acts, Runs
  <2> QED BY <2>1, <2>2
<1>4. Runs(n, "watch") => created
  BY Typed DEF BeforeCreation, Runs
<1>5. CASE WatchReturns(n)
  <2>1. Runs(n, "watch") /\ Take(n, event[n].view, event[n].index) /\ UNCHANGED budgets
    BY <1>5 DEF WatchReturns
  <2>2. event[n].index \in Indices /\ event[n].view \in Views \cup {NoView}
    BY <1>1 DEF Events
  <2>3. event[n].index = "current" => event[n].view = view
    BY <1>1 DEF Decides
  <2> QED BY <1>3, <1>4, <2>1, <2>2, <2>3, BudgetsKept, Taken
<1>6. CASE WatchRaises(n)
  <2> DEFINE i == IF event[n] = NoEvent THEN "current" ELSE "stale"
  <2>1. /\ Runs(n, "watch") /\ Take(n, last[n], i)
        /\ Glitch /\ UNCHANGED <<requests, faults>>
    BY <1>6 DEF WatchRaises
  <2>2. i \in Indices /\ last[n] \in Views \cup {NoView}
    BY <1>1 DEF Indices
  <2>3. i = "current" => last[n] = view
    BY <1>1, <2>1 DEF Decides, Runs
  <2> HIDE DEF i
  <2> QED BY <1>3, <1>4, <2>1, <2>2, <2>3, BudgetsKept, Taken
<1> QED BY <1>2, <1>5, <1>6

\* A thread that turns to something else, without a new decision of what to write; the
\* key may have come to exist.
LEMMA TurnEnds ==
  ASSUME Knows, NEW n \in Nodes, NEW to \in {"read", "create"},
         pc[n] \in {"read", "create", "hook", "write", "reread"},
         ~PreemptHandler /\ InOrder(n) => fsm[n] = "running",
         pc[n] \in {"read", "create"} \/ created,
         pc' = [pc EXCEPT ![n] = to],
         turn' = turn \/ turn' = [turn EXCEPT ![n] = NoTurn],
         last' = last \/ last' = [last EXCEPT ![n] = NoView],
         index' = index \/ index' = [index EXCEPT ![n] = "none"],
         worked' \in [Nodes -> Hooks],
         created' \in BOOLEAN, created => created',
         UNCHANGED <<view, event, fsm, leaveVars, synced>>, Budgets'
  PROVE  Preserved
<1>1. NoTurn \in [info : Views \cup {NoView}, att : Indices, hook : Hooks, new : News]
  BY DEF NoTurn, Indices, Hooks, News
<1>2. "none" \in Indices
  BY DEF Indices
<1>3. turn' \in Turns /\ \A m \in Nodes \ {n} : turn'[m] = turn[m]
  BY <1>1, Typed DEF Turns
<1>4. /\ last' \in [Nodes -> Views \cup {NoView}] /\ index' \in [Nodes -> Indices]
      /\ \A m \in Nodes \ {n} : last'[m] = last[m] /\ index'[m] = index[m]
      /\ index'[n] \in {index[n], "none"}
  BY <1>2, Typed
<1>5. /\ pc' \in [Nodes -> Places] /\ pc'[n] = to
      /\ \A m \in Nodes \ {n} : pc'[m] = pc[m]
  BY Typed DEF Places
<1>6. UNCHANGED <<view, event, fsm, force, leaving, handler, synced>>
  BY DEF leaveVars
<1>7. TypeOK'
  BY <1>3, <1>4, <1>5, <1>6, Typed, TypedAgain
<1>8. Decides(n)'
  BY <1>4, <1>5, <1>6, Typed DEF Decides
<1>9. BeforeCreation'
  BY <1>5, <1>6, Typed DEF BeforeCreation
<1>10. ASSUME ~PreemptHandler, InOrder(n) PROVE InOrder(n)'
  <2>1. Stops(n)' /\ Acts(n)'
    BY <1>5, <1>6, <1>10 DEF InOrder, Stops, Acts
  <2>2. Asks(n)'
    BY <1>4, <1>5, <1>6, <1>10 DEF InOrder, Asks
  <2> QED BY <2>1, <2>2 DEF InOrder
<1> QED BY <1>3, <1>4, <1>5, <1>6, <1>7, <1>8, <1>9, <1>10, OwnStep DEF Rests

\* A thread that goes on to write what it has decided.
GoesOn(n) ==
  /\ pc[n] \in {"hook", "write", "reread"}
  /\ turn[n].new # NO_CHANGE
  /\ turn' \in Turns /\ turn'[n].new = turn[n].new
  /\ \A m \in Nodes \ {n} : turn'[m] = turn[m]
  /\ turn[n].new = DELETE_ME \/ Decided(n, turn'[n].info, turn[n].new)
  /\ pc' \in [Nodes -> Places]
  /\ pc'[n] \in {"write", "reread"} /\ \A m \in Nodes \ {n} : pc'[m] = pc[m]
  /\ index[n] = "current" \/ (turn'[n].att = "current" /\ pc'[n] # "reread") =>
       turn'[n].info = view
  /\ fsm' \in [Nodes -> {"running", "departing", "stopped"}]
  /\ \A m \in Nodes \ {n} : fsm'[m] = fsm[m]
  /\ worked' \in [Nodes -> Hooks] /\ Budgets'
  /\ UNCHANGED <<view, created, last, index, event, leaveVars, synced>>
  /\ ~PreemptHandler /\ InOrder(n) =>
       /\ handler[n].pc \in {"idle", "called"}
       /\ fsm'[n] = IF turn[n].new = DELETE_ME THEN "departing" ELSE "running"
       /\ turn[n].new = DELETE_ME => view[n] = FINISHED
       /\ turn[n].new = WAITING_TO_LEAVE =>
            turn'[n].info[n] \notin Leaving /\ (leaving[n] \/ view[n] \in Leaving)

LEMMA TurnGoesOn ==
  ASSUME Knows, NEW n \in Nodes, GoesOn(n)
  PROVE  Preserved
<1>1. UNCHANGED <<view, created, last, index, event, force, leaving, handler, synced>>
  BY DEF GoesOn, leaveVars
<1>2. TypeOK'
  BY <1>1, Typed, TypedAgain DEF GoesOn
<1>3. Decides(n)'
  BY <1>1, Typed DEF GoesOn, Decides, Decided
<1>4. BeforeCreation'
  <2>1. created
    BY Typed DEF GoesOn, BeforeCreation
  <2> QED BY <1>1, <2>1 DEF BeforeCreation
<1>5. ASSUME ~PreemptHandler, InOrder(n) PROVE InOrder(n)'
  <2>1. /\ handler[n].pc \in {"idle", "called"}
        /\ fsm'[n] = IF turn[n].new = DELETE_ME THEN "departing" ELSE "running"
        /\ turn[n].new = DELETE_ME => view[n] = FINISHED
        /\ turn[n].new = WAITING_TO_LEAVE =>
             turn'[n].info[n] \notin Leaving /\ (leaving[n] \/ view[n] \in Leaving)
    BY <1>5 DEF GoesOn
  <2>2. Stops(n)' /\ Acts(n)'
    BY <1>1, <2>1 DEF GoesOn, Stops, Acts
  <2>3. handler[n].pc = "called" =>
          QuitAgain \/ (~leaving[n] /\ view[n] \notin Leaving /\ turn[n].new # DELETE_ME)
    BY <1>5, <2>1 DEF InOrder, Asks, Leaving
  <2>4. Asks(n)'
    BY <1>1, <2>1, <2>3 DEF GoesOn, Asks
  <2> QED BY <2>2, <2>4 DEF InOrder
<1>6. \A m \in Nodes \ {n} :
        /\ Rests(m) /\ index'[m] = index[m] /\ event'[m] = event[m]
        /\ turn'[m] = turn[m] /\ handler'[m] = handler[m]
  BY <1>1 DEF GoesOn, Rests
<1> QED BY <1>1, <1>2, <1>3, <1>4, <1>5, <1>6, OwnStep

LEMMA StartWatchStep ==
  ASSUME Knows, NEW n \in Nodes, StartWatch(n)
  PROVE  Preserved
<1>1. /\ pc[n] = "read" /\ created /\ view = last[n] /\ pc' = [pc EXCEPT ![n] = "watch"]
      /\ UNCHANGED <<view, created, last, index, event, turn, worked, fsm, force, leaving,
                     handler, synced, budgets>>
  BY DEF StartWatch, leaveVars, Runs
<1>2. /\ pc' \in [Nodes -> Places] /\ pc'[n] = "watch"
      /\ \A m \in Nodes \ {n} : pc'[m] = pc[m]
  BY <1>1, Typed DEF Places
<1>3. TypeOK'
  BY <1>1, <1>2, Typed, TypedAgain, BudgetsKept
<1>4. Decides(n)'
  BY <1>1, <1>2, Typed DEF Decides
<1>5. ASSUME ~PreemptHandler, InOrder(n) PROVE InOrder(n)'
  <2>1. Stops(n)'
    BY <1>1, <1>2, <1>5 DEF InOrder, Stops
  <2>2. Asks(n)'
    BY <1>1, <1>2, <1>5 DEF InOrder, Asks
  <2>3. Acts(n)'
    <3>1. event'[n].view = NoView /\ last'[n] = view
      BY <1>1, Typed DEF Decides, NoEvent
    <3>2. \A row \in FsmRows(ClusterState(view), view[n]) :
            row[3] = "none" \/ Acting(view, n, row[3], row[4])
      BY Typed, RowActs
    <3> QED BY <1>1, <1>2, <3>1, <3>2 DEF Acts
  <2> QED BY <2>1, <2>2, <2>3 DEF InOrder
<1>6. BeforeCreation'
  BY <1>1 DEF BeforeCreation
<1> QED BY <1>1, <1>2, <1>3, <1>4, <1>5, <1>6, OwnStep DEF Rests

LEMMA CreateKeyStep ==
  ASSUME Knows, NEW n \in Nodes, CreateKey(n)
  PROVE  Preserved
<1> DEFINE empty == [m \in Nodes |-> ABSENT]
           t == [info |-> empty, new |-> WAITING_TO_JOIN, att |-> "none", hook |-> "none"]
<1>1. /\ Runs(n, "create") /\ ~created /\ view' = empty /\ created' = TRUE
      /\ last' = [last EXCEPT ![n] = empty] /\ index' = [index EXCEPT ![n] = "none"]
      /\ turn' = [turn EXCEPT ![n] = t] /\ pc' = [pc EXCEPT ![n] = "write"]
      /\ UNCHANGED <<event, worked, fsm, force, leaving, handler, synced, budgets>>
  BY DEF CreateKey, leaveVars
<1>2. view = empty
  BY <1>1, Typed DEF BeforeCreation
<1>3. Joinable(ClusterState(empty)) /\ empty[n] = ABSENT /\ empty \in Views
  BY EmptyClusters DEF Views, LocalStates
<1>4. t \in [info : Views \cup {NoView}, att : Indices, hook : Hooks, new : News]
  BY <1>3, KnownStates DEF Indices, Hooks, News
<1>5. t.info = empty /\ t.new = WAITING_TO_JOIN /\ t.att = "none" /\ t.hook = "none"
  OBVIOUS
<1> HIDE DEF t, empty
<1>6. /\ turn' \in Turns /\ turn'[n] = t /\ \A m \in Nodes \ {n} : turn'[m] = turn[m]
      /\ last' \in [Nodes -> Views \cup {NoView}]
      /\ \A m \in Nodes \ {n} : last'[m] = last[m]
  BY <1>1, <1>3, <1>4, Typed DEF Turns
<1>7. /\ index' \in [Nodes -> Indices] /\ index'[n] = "none"
      /\ \A m \in Nodes \ {n} : index'[m] = index[m]
      /\ pc' \in [Nodes -> Places]
      /\ pc[n] = "create" /\ pc'[n] = "write" /\ \A m \in Nodes \ {n} : pc'[m] = pc[m]
  BY <1>1, Typed DEF Indices, Runs, Places
<1>8. TypeOK'
  BY <1>1, <1>3, <1>6, <1>7, Typed, TypedAgain, BudgetsKept
<1>9. Decides(n)'
  <2>1. Decided(n, empty, WAITING_TO_JOIN)'
    BY <1>3 DEF Decided
  <2> QED BY <1>1, <1>2, <1>5, <1>6, <1>7, <2>1, Typed, Words DEF Decides
<1>10. ASSUME ~PreemptHandler, InOrder(n) PROVE InOrder(n)'
  <2>1. Stops(n)' /\ Acts(n)'
    BY <1>1, <1>5, <1>6, <1>7, <1>10, Words DEF InOrder, Stops, Acts
  <2>2. Asks(n)'
    BY <1>1, <1>2, <1>5, <1>6, <1>7, <1>10, Words DEF InOrder, Asks
  <2> QED BY <2>1, <2>2 DEF InOrder
<1>11. BeforeCreation'
  BY <1>1 DEF BeforeCreation
<1> QED BY <1>1, <1>2, <1>6, <1>7, <1>8, <1>9, <1>10, <1>11, OwnStep DEF Rests

LEMMA TurnEndSteps ==
  ASSUME Knows, NEW n \in Nodes,
         \/ ReadMissing(n) \/ CreateFails(n) \/ CreateRaises(n) \/ ReadRaises(n)
         \/ HookRaises(n) \/ WriteRaises(n, FALSE)
  PROVE  Preserved
<1>1. BeforeCreation /\ worked \in [Nodes -> Hooks] /\ created \in BOOLEAN
  BY Typed
<1>2. ~PreemptHandler /\ InOrder(n) /\ pc[n] \in {"read", "create", "hook"} =>
        fsm[n] = "running"
  BY DEF InOrder, Stops
<1>3. CASE ReadMissing(n)
  <2>1. /\ pc[n] = "read" /\ pc' = [pc EXCEPT ![n] = "create"]
        /\ UNCHANGED <<view, created, last, index, event, turn, worked, fsm, leaveVars,
                       synced, budgets>>
    BY <1>3 DEF ReadMissing, Runs
  <2> QED BY <1>1, <1>2, <2>1, BudgetsKept, TurnEnds
<1>4. CASE CreateFails(n)
  <2>1. /\ pc[n] = "create" /\ pc' = [pc EXCEPT ![n] = "read"]
        /\ last' = [last EXCEPT ![n] = NoView] /\ index' = [index EXCEPT ![n] = "none"]
        /\ UNCHANGED <<view, created, event, turn, worked, fsm, leaveVars, synced, budgets>>
    BY <1>4 DEF CreateFails, Runs, ResetLast
  <2> QED BY <1>1, <1>2, <2>1, BudgetsKept, TurnEnds
<1>5. CASE ReadRaises(n)
  <2>1. /\ pc[n] = "read" /\ Glitch
        /\ last' = [last EXCEPT ![n] = NoView] /\ index' = [index EXCEPT ![n] = "none"]
        /\ UNCHANGED <<view, created, pc, event, turn, worked, fsm, leaveVars, synced,
                       requests, faults>>
    BY <1>5 DEF ReadRaises, Runs, ResetLast
  <2>2. pc' = [pc EXCEPT ![n] = "read"]
    BY <2>1, Typed
  <2> QED BY <1>1, <1>2, <2>1, <2>2, BudgetsKept, TurnEnds
<1>6. CASE HookRaises(n)
  <2>1. /\ pc[n] = "hook" /\ Glitch
        /\ turn' = [turn EXCEPT ![n] = NoTurn] /\ pc' = [pc EXCEPT ![n] = "read"]
        /\ UNCHANGED <<view, created, last, index, event, worked, fsm, leaveVars, synced,
                       requests, faults>>
    BY <1>6 DEF HookRaises, Runs
  <2>2. created
    BY <1>1, <2>1 DEF BeforeCreation
  <2> QED BY <1>1, <1>2, <2>1, <2>2, BudgetsKept, TurnEnds
<1>7. CASE WriteRaises(n, FALSE)
  <2>1. /\ pc[n] = "write" /\ Glitch /\ fsm[n] # "departing"
        /\ turn' = [turn EXCEPT ![n] = NoTurn] /\ last' = [last EXCEPT ![n] = NoView]
        /\ worked' = [worked EXCEPT ![n] = worked[n]]
        /\ fsm' = [fsm EXCEPT ![n] = IF fsm[n] = "departing" THEN "stopped" ELSE fsm[n]]
        /\ pc' = [pc EXCEPT ![n] = AfterTurn(n)]
        /\ UNCHANGED <<view, created, index, event, handler, synced, force, leaving,
                       requests, faults>>
    BY <1>7 DEF WriteRaises, Runs, ResetLast
  <2>2. created
    BY <1>1, <2>1 DEF BeforeCreation
  <2>3. fsm' = fsm /\ worked' = worked /\ pc' = [pc EXCEPT ![n] = "read"]
    BY <2>1, Typed DEF AfterTurn
  <2>4. UNCHANGED <<view, created, event, fsm, leaveVars, synced>>
    BY <2>1, <2>3 DEF leaveVars
  <2>5. ~PreemptHandler /\ InOrder(n) => fsm[n] = "running"
    BY <2>1 DEF InOrder, Stops
  <2>6. created' \in BOOLEAN /\ (created => created')
    BY <1>1, <2>1
  <2> QED BY <1>1, <2>1, <2>2, <2>3, <2>4, <2>5, <2>6, BudgetsKept, TurnEnds
<1>8. CASE CreateRaises(n)
  <2>1. /\ pc[n] = "create" /\ pc' = [pc EXCEPT ![n] = "read"]
        /\ ~created /\ created' \in BOOLEAN
        /\ last' = [last EXCEPT ![n] = NoView] /\ index' = [index EXCEPT ![n] = "none"]
        /\ Glitch
        /\ UNCHANGED <<view, event, turn, worked, fsm, leaveVars, synced, requests, faults>>
    BY <1>8 DEF CreateRaises, Runs, ResetLast
  <2> QED BY <1>1, <1>2, <2>1, BudgetsKept, TurnEnds
<1> QED BY <1>3, <1>4, <1>5, <1>6, <1>7, <1>8

\* What is decided is due, and marks nobody as failed.
LEMMA DecidedKinds ==
  ASSUME Knows, NEW n \in Nodes, NEW v, NEW new, Decided(n, v, new)
  PROVE  Due(v, n, new) /\ new # ERROR
<1>1. force[n] \in BOOLEAN
  BY Typed
<1>2. Due(v, n, new)
  BY <1>1 DEF Decided, Due
<1>3. new # ERROR
  BY RowWrites, Words DEF Decided
<1> QED BY <1>2, <1>3

\* What a thread that is about to write holds ...
LEMMA Writing ==
  ASSUME Knows, NEW n \in Nodes, pc[n] \in {"write", "reread"}
  PROVE  /\ created /\ turn[n].new \in News /\ turn[n].new # NO_CHANGE
         /\ turn[n].new = DELETE_ME \/ Decided(n, turn[n].info, turn[n].new)
         /\ index[n] = "current" => turn[n].info = view
         /\ turn[n].att = "current" /\ pc[n] = "write" => turn[n].info = view
<1>1. /\ Decides(n) /\ BeforeCreation
      /\ turn[n] \in [info : Views \cup {NoView}, att : Indices, hook : Hooks, new : News]
  BY Typed DEF Turns
<1>2. created /\ turn[n].new # NO_CHANGE
  BY <1>1 DEF BeforeCreation, Decides
<1>3. turn[n].new = DELETE_ME \/ Decided(n, turn[n].info, turn[n].new)
  BY <1>1, <1>2 DEF Decides
<1>4. index[n] = "current" \/ (turn[n].att = "current" /\ pc[n] = "write") =>
       turn[n].info = view
  BY <1>1 DEF Decides
<1> QED BY <1>1, <1>2, <1>3, <1>4

\* ... and what is in order then.
LEMMA WritingInOrder ==
  ASSUME NEW n \in Nodes, InOrder(n), pc[n] \in {"write", "reread"}
  PROVE  /\ fsm[n] = IF turn[n].new = DELETE_ME THEN "departing" ELSE "running"
         /\ turn[n].new = DELETE_ME => view[n] = FINISHED
         /\ turn[n].new = WAITING_TO_LEAVE =>
              turn[n].info[n] \notin Leaving /\ (leaving[n] \/ view[n] \in Leaving)
  BY DEF InOrder, Stops, Asks

LEMMA TurnGoesOnSteps ==
  ASSUME Knows, NEW n \in Nodes, WriteContended(n) \/ Reread(n) \/ RereadRaises(n)
  PROVE  Preserved
<1>1. /\ pc[n] \in {"write", "reread"}
      /\ ~PreemptHandler => handler[n].pc \in {"idle", "called"}
  BY DEF WriteContended, Reread, RereadRaises, Runs
<1>2. /\ created /\ turn[n].new # NO_CHANGE
      /\ turn[n].new = DELETE_ME \/ Decided(n, turn[n].info, turn[n].new)
      /\ index[n] = "current" => turn[n].info = view
  BY <1>1, Writing
<1>3. ASSUME pc' = [pc EXCEPT ![n] = "read"], turn' = [turn EXCEPT ![n] = NoTurn],
             turn[n].new # DELETE_ME \/ fsm[n] # "departing",
             UNCHANGED <<view, created, last, index, event, worked, fsm, leaveVars, synced>>,
             Budgets'
      PROVE  Preserved
  <2>1. ~PreemptHandler /\ InOrder(n) => fsm[n] = "running"
    BY <1>1, <1>3, WritingInOrder
  <2>2. /\ worked' \in [Nodes -> Hooks] /\ last' = last /\ index' = index
        /\ created' \in BOOLEAN /\ (created => created')
        /\ UNCHANGED <<view, event, fsm, leaveVars, synced>>
    BY <1>3, Typed
  <2> QED BY <1>1, <1>2, <1>3, <2>1, <2>2, TurnEnds
<1>4. ASSUME UNCHANGED <<view, created, last, index, event, worked, fsm, leaveVars, synced>>,
             Budgets', turn' \in Turns, turn'[n].new = turn[n].new,
             \A m \in Nodes \ {n} : turn'[m] = turn[m],
             turn'[n].info \in {turn[n].info, view},
             turn'[n].info[n] = turn[n].info[n] \/ turn[n].new = DELETE_ME,
             turn[n].new = DELETE_ME \/ Decided(n, turn'[n].info, turn[n].new),
             NEW to \in {"write", "reread"}, pc' = [pc EXCEPT ![n] = to],
             to = "write" /\ turn'[n].att = "current" => turn'[n].info = view
      PROVE  Preserved
  <2>1. pc' \in [Nodes -> Places] /\ pc'[n] = to /\ \A m \in Nodes \ {n} : pc'[m] = pc[m]
    BY <1>4, Typed DEF Places
  <2>2. ASSUME ~PreemptHandler, InOrder(n)
        PROVE  /\ fsm'[n] = IF turn[n].new = DELETE_ME THEN "departing" ELSE "running"
               /\ turn[n].new = DELETE_ME => view[n] = FINISHED
               /\ turn[n].new = WAITING_TO_LEAVE =>
                    turn'[n].info[n] \notin Leaving /\ (leaving[n] \/ view[n] \in Leaving)
    BY <1>1, <1>4, <2>2, WritingInOrder, Words
  <2>3. GoesOn(n)
    BY <1>1, <1>2, <1>4, <2>1, <2>2, Typed DEF GoesOn
  <2> QED BY <2>3, TurnGoesOn
<1>5. CASE WriteContended(n)
  <2>1. /\ pc[n] = "write" /\ turn[n].att # "current" /\ Budgets'
        /\ UNCHANGED <<view, created, last, index, event, worked, fsm, leaveVars, synced>>
    BY <1>5, BudgetsKept DEF WriteContended, Runs
  <2>2. CASE turn[n].new \in {ALL_JOINING, ALL_LEAVING}
    <3>1. turn[n].new # DELETE_ME
      BY <2>2, Words
    <3> QED BY <1>3, <1>5, <2>1, <2>2, <3>1 DEF WriteContended
  <2>3. CASE turn[n].new \notin {ALL_JOINING, ALL_LEAVING}
    <3>1. pc' = [pc EXCEPT ![n] = "reread"] /\ turn' = turn
      BY <1>5, <2>3 DEF WriteContended
    <3> QED BY <1>2, <1>4, <2>1, <3>1, Typed
  <2> QED BY <2>2, <2>3
<1>6. CASE Reread(n)
  <2>1. /\ Budgets'
        /\ UNCHANGED <<view, created, last, index, event, worked, fsm, leaveVars, synced>>
    BY <1>6, BudgetsKept DEF Reread
  <2>2. CASE MayRetry(n, turn[n].info, view, turn[n].new)
    <3>1. /\ turn' = [turn EXCEPT ![n].info = view, ![n].att = "current"]
          /\ pc' = [pc EXCEPT ![n] = "write"]
      BY <1>6, <2>2 DEF Reread
    <3>2. /\ turn' \in Turns /\ turn'[n].info = view /\ turn'[n].new = turn[n].new
          /\ \A m \in Nodes \ {n} : turn'[m] = turn[m]
      <4>1. turn \in Turns /\ view \in Views /\ "current" \in Indices
        BY Typed DEF Indices
      <4> QED BY <3>1, <4>1 DEF Turns
    <3>3. \/ turn[n].new = DELETE_ME
          \/ view[n] = turn[n].info[n] /\ Decided(n, view, turn[n].new)
      <4>1. turn[n].new = DELETE_ME \/ turn[n].new # ERROR
        BY <1>2, DecidedKinds
      <4> QED BY <1>2, <2>2, <4>1 DEF MayRetry, Decided
    <3> QED BY <1>4, <2>1, <3>1, <3>2, <3>3
  <2>3. CASE ~MayRetry(n, turn[n].info, view, turn[n].new)
    <3>1. turn[n].new # DELETE_ME
      BY <2>3 DEF MayRetry
    <3> QED BY <1>3, <1>6, <2>1, <2>3, <3>1 DEF Reread
  <2> QED BY <2>2, <2>3
<1>7. CASE RereadRaises(n)
  <2>1. /\ Budgets' /\ pc[n] = "reread" /\ fsm[n] # "departing"
        /\ UNCHANGED <<view, created, last, index, event, worked, fsm, leaveVars, synced>>
    BY <1>7, BudgetsKept DEF RereadRaises, Runs
  <2>2. CASE turn[n].info = [m \in Nodes |-> ABSENT]
    <3>1. /\ turn' = [turn EXCEPT ![n].att = index[n]]
          /\ pc' = [pc EXCEPT ![n] = "write"]
      BY <1>7, <2>2 DEF RereadRaises
    <3>2. /\ turn' \in Turns /\ turn'[n].info = turn[n].info /\ turn'[n].new = turn[n].new
          /\ turn'[n].att = index[n] /\ \A m \in Nodes \ {n} : turn'[m] = turn[m]
      BY <3>1, Typed DEF Turns
    <3> QED BY <1>2, <1>4, <2>1, <3>1, <3>2
  <2>3. CASE turn[n].info # [m \in Nodes |-> ABSENT]
    BY <1>3, <1>7, <2>1, <2>3 DEF RereadRaises
  <2> QED BY <2>2, <2>3
<1> QED BY <1>5, <1>6, <1>7

LEMMA HookReturnsStep ==
  ASSUME Knows, NEW n \in Nodes, HookReturns(n)
  PROVE  Preserved
<1>1. /\ turn \in Turns /\ worked \in [Nodes -> Hooks] /\ BeforeCreation
      /\ pc \in [Nodes -> Places] /\ Decides(n) /\ turn[n].hook \in Hooks
  BY Typed DEF Turns
<1>2. /\ pc[n] = "hook" /\ (~PreemptHandler => handler[n].pc \in {"idle", "called"})
      /\ worked' = [worked EXCEPT ![n] = turn[n].hook]
      /\ fsm' = [fsm EXCEPT ![n] = IF turn[n].new = DELETE_ME THEN "departing" ELSE fsm[n]]
      /\ UNCHANGED <<view, created, last, index, event, leaveVars, synced>> /\ Budgets'
  BY BudgetsKept DEF HookReturns, Runs
<1>3. /\ fsm' \in [Nodes -> {"running", "departing", "stopped"}]
      /\ \A m \in Nodes \ {n} : fsm'[m] = fsm[m]
      /\ fsm'[n] = IF turn[n].new = DELETE_ME THEN "departing" ELSE fsm[n]
      /\ created /\ worked' \in [Nodes -> Hooks]
  BY <1>1, <1>2, Typed DEF BeforeCreation
<1>4. ~PreemptHandler /\ InOrder(n) =>
        fsm[n] = "running" /\ (turn[n].new = DELETE_ME => view[n] = FINISHED)
  BY <1>2, Words DEF InOrder, Stops, Acts, Acting, ConfigChanged
<1>5. CASE turn[n].new = NO_CHANGE
  <2>1. pc' = [pc EXCEPT ![n] = "read"] /\ turn' = [turn EXCEPT ![n] = NoTurn]
    BY <1>5 DEF HookReturns
  <2>2. fsm' = fsm
    BY <1>2, <1>5, Typed, Words
  <2> QED BY <1>2, <1>3, <1>4, <2>1, <2>2, TurnEnds
<1>6. CASE turn[n].new # NO_CHANGE
  <2>1. pc' = [pc EXCEPT ![n] = "write"] /\ turn' = [turn EXCEPT ![n].hook = "none"]
    BY <1>6 DEF HookReturns
  <2>2. /\ turn' \in Turns /\ turn'[n].info = turn[n].info /\ turn'[n].new = turn[n].new
        /\ turn'[n].att = turn[n].att /\ \A m \in Nodes \ {n} : turn'[m] = turn[m]
    BY <1>1, <2>1 DEF Turns, Hooks
  <2>3. /\ Decided(n, turn[n].info, turn[n].new) /\ turn[n].new # WAITING_TO_LEAVE
        /\ index[n] = "current" \/ turn[n].att = "current" => turn[n].info = view
    BY <1>1, <1>2, RowWrites DEF Decides, Decided
  <2>4. pc' \in [Nodes -> Places] /\ pc'[n] = "write" /\ \A m \in Nodes \ {n} : pc'[m] = pc[m]
    BY <1>1, <2>1 DEF Places
  <2>5. GoesOn(n)
    BY <1>2, <1>3, <1>4, <1>6, <2>2, <2>3, <2>4 DEF GoesOn
  <2> QED BY <2>5, TurnGoesOn
<1> QED BY <1>5, <1>6

\* A node that does not leave makes no step on the way out.
LEMMA StaysIn ==
  ASSUME NEW v \in Views, NEW n \in Nodes, NEW new, Decided(n, v, new),
         new \notin {NO_CHANGE, DELETE_ME, WAITING_TO_LEAVE}, v[n] \notin Leaving,
         NEW w, w = Updated(v, n, new)
  PROVE  w[n] \notin Leaving
<1>1. CASE new = WAITING_TO_JOIN
  <2>1. w[n] = WAITING_TO_JOIN
    BY <1>1, Words DEF Updated, Views
  <2> QED BY <2>1, Words DEF Leaving
<1>2. CASE new # WAITING_TO_JOIN
  <2>1. PICK row \in FsmRows(ClusterState(v), v[n]) : row[4] = new
    BY <1>2 DEF Decided
  <2>2. RowKind(ClusterState(v), v[n], row[3], row[4])
    BY RowKinds
  <2>3. CASE new = ALL_JOINING
    <3>1. w[n] = IF v[n] = WAITING_TO_JOIN THEN JOINING ELSE v[n]
      BY <2>3 DEF Updated, SwitchAll, Views
    <3> QED BY <3>1, Words DEF Leaving
  <2>4. CASE new = ALL_LEAVING
    BY <2>1, <2>2, <2>4, Words DEF RowKind, Acknowledged, ConfigChanged, Leaving
  <2>5. CASE new \notin {ALL_JOINING, ALL_LEAVING}
    <3>1. w[n] = new
      BY <2>5 DEF Updated, Views
    <3>2. new \in Leaving => v[n] \in Leaving
      BY <2>1, <2>2, <2>5 DEF RowKind
    <3> QED BY <3>1, <3>2
  <2> QED BY <2>3, <2>4, <2>5
<1> QED BY <1>1, <1>2

\* What a write of n that is applied does, whatever answer n gets.
Applies(n) ==
  /\ pc[n] = "write" /\ turn[n].att = "current"
  /\ Publish(Updated(turn[n].info, n, turn[n].new), [turn EXCEPT ![n] = NoTurn], handler)
  /\ synced' = SyncedAfter(n, turn[n].new)
  /\ worked' \in [Nodes -> Hooks]
  /\ fsm' = [fsm EXCEPT ![n] = IF @ = "departing" THEN "stopped" ELSE @]
  /\ pc' = [pc EXCEPT ![n] = AfterTurn(n)]
  /\ last' \in [Nodes -> Views \cup {NoView}] /\ \A m \in Nodes \ {n} : last'[m] = last[m]
  /\ leaving' \in [Nodes -> BOOLEAN] /\ \A m \in Nodes \ {n} : leaving'[m] = leaving[m]
  /\ leaving'[n] => leaving[n]
  /\ UNCHANGED <<created, force>> /\ Budgets'
  /\ ~PreemptHandler => handler[n].pc \in {"idle", "called"}

\* What is written then, and that it leaves the others at what they are doing.
LEMMA WrittenView ==
  ASSUME Knows, NEW n \in Nodes, pc[n] = "write", turn[n].att = "current"
  PROVE  /\ turn[n].info = view
         /\ Updated(view, n, turn[n].new) \in Views
         /\ \A m \in Nodes \ {n} : Keeps(m, view, Updated(view, n, turn[n].new))
<1>1. /\ turn[n].info = view /\ turn[n].new # NO_CHANGE /\ view \in Views
      /\ turn[n].new = DELETE_ME \/ Decided(n, view, turn[n].new)
  BY Writing, Typed
<1>2. CASE turn[n].new = DELETE_ME
  <2>1. Updated(view, n, turn[n].new) = Put(view, n, ABSENT)
    BY <1>2, Words DEF Updated, Put
  <2> QED BY <1>1, <2>1, Removed
<1>3. CASE turn[n].new # DELETE_ME
  <2>1. Due(view, n, turn[n].new)
    BY <1>1, <1>3, DecidedKinds
  <2> QED BY <1>1, <1>3, <2>1, Moved
<1> QED BY <1>1, <1>2, <1>3

LEMMA NothingToDo ==
  /\ NoTurn \in [info : Views \cup {NoView}, att : Indices, hook : Hooks, new : News]
  /\ NoTurn.hook = "none" /\ NoTurn.info = NoView /\ NoTurn.new = NO_CHANGE
  /\ Idle \in [pc : {"idle", "called", "decide", "write", "reread"},
               info : Views \cup {NoView}, att : Indices]
  /\ Idle.pc = "idle"
  /\ NoEvent \in [view : Views \cup {NoView}, index : Indices]
  /\ NoEvent.index = "none" /\ NoEvent.view = NoView
  /\ "none" \in Indices /\ "none" \in Hooks
  BY DEF NoTurn, Idle, NoEvent, Indices, Hooks, News

LEMMA TurnDropped ==
  ASSUME Knows, NEW n \in Nodes
  PROVE  /\ [turn EXCEPT ![n] = NoTurn] \in Turns
         /\ \A m \in Nodes \ {n} : [turn EXCEPT ![n] = NoTurn][m] = turn[m]
  BY NothingToDo, Typed DEF Turns

LEMMA Applied ==
  ASSUME Knows, NEW n \in Nodes, Applies(n)
  PROVE  Preserved
<1> DEFINE w == Updated(view, n, turn[n].new)
           t == [turn EXCEPT ![n] = NoTurn]
<1>1. pc[n] = "write" /\ turn[n].att = "current"
  BY DEF Applies
<1>2. /\ created /\ turn[n].new # NO_CHANGE /\ turn[n].info = view
      /\ turn[n].new = DELETE_ME \/ Decided(n, view, turn[n].new)
      /\ TypeOK
  BY <1>1, Writing DEF Knows
<1>3. w \in Views /\ \A m \in Nodes \ {n} : Keeps(m, view, w)
  BY <1>1, WrittenView
<1>4. t \in Turns /\ \A m \in Nodes \ {n} : t[m] = turn[m]
  BY TurnDropped
<1>5. Publish(w, t, handler)
  BY <1>2 DEF Applies
<1>6. turn[n].new \notin {DELETE_ME, WAITING_TO_LEAVE} /\ view[n] \notin Leaving =>
        w[n] \notin Leaving
  BY <1>2, StaysIn, Typed
<1> HIDE DEF w, t
<1>7. /\ view' = w /\ event'[n] = NoEvent
      /\ index' \in [Nodes -> Indices] /\ event' \in Events
      /\ turn' \in Turns /\ handler' \in Handlers
      /\ handler'[n].pc = handler[n].pc /\ handler'[n].info = handler[n].info
  BY <1>1, <1>2, <1>3, <1>4, <1>5, AllNotice, Typed
<1>8. /\ pc' \in [Nodes -> Places] /\ pc'[n] = AfterTurn(n)
      /\ \A m \in Nodes \ {n} : pc'[m] = pc[m]
      /\ fsm' \in [Nodes -> {"running", "departing", "stopped"}]
      /\ \A m \in Nodes \ {n} : fsm'[m] = fsm[m]
      /\ fsm'[n] = IF fsm[n] = "departing" THEN "stopped" ELSE fsm[n]
      /\ AfterTurn(n) \in {"read", "done"}
  BY Typed DEF Applies, AfterTurn, Places
<1>9. TypeOK'
  <2>1. synced' \subseteq Nodes
    BY Typed DEF Applies, SyncedAfter
  <2> QED BY <1>3, <1>7, <1>8, <2>1, Typed, TypedAgain DEF Applies
<1>10. Decides(n)'
  BY <1>7, <1>8, Typed, NothingToDo DEF Applies, Decides
<1>11. ASSUME ~PreemptHandler, InOrder(n) PROVE InOrder(n)'
  <2>1. fsm[n] = IF turn[n].new = DELETE_ME THEN "departing" ELSE "running"
    BY <1>1, <1>11, WritingInOrder
  <2>2. Stops(n)' /\ Acts(n)'
    BY <1>8, <2>1 DEF Stops, Acts, AfterTurn
  <2>3. handler[n].pc = "called" =>
          \/ QuitAgain
          \/ /\ turn[n].new \notin {DELETE_ME, WAITING_TO_LEAVE}
             /\ ~leaving[n] /\ view[n] \notin Leaving
    BY <1>1, <1>11, WritingInOrder DEF InOrder, Asks, Leaving
  <2>4. handler[n].pc \in {"idle", "called"} /\ (leaving'[n] => leaving[n])
    BY <1>11 DEF Applies
  <2>5. handler'[n].pc = "called" =>
          QuitAgain \/ (~leaving'[n] /\ fsm'[n] = "running" /\ view'[n] \notin Leaving)
    BY <1>6, <1>7, <1>8, <2>1, <2>3, <2>4
  <2>6. Asks(n)'
    BY <1>7, <1>8, <2>4, <2>5 DEF Asks
  <2> QED BY <2>2, <2>6 DEF InOrder
<1>12. /\ created /\ created'
       /\ \A m \in Nodes \ {n} : Rests(m) /\ t[m] = turn[m] /\ Keeps(m, view, w)
  BY <1>2, <1>3, <1>4, <1>8 DEF Applies, Rests
<1> QED BY <1>3, <1>4, <1>5, <1>9, <1>10, <1>11, <1>12, Typed, WriteStep

LEMMA WriteSteps ==
  ASSUME Knows, NEW n \in Nodes, Write(n) \/ WriteRaises(n, TRUE)
  PROVE  Preserved
<1>1. CASE Write(n)
  <2>1. /\ Runs(n, "write") /\ leaving' = [leaving EXCEPT ![n] = @ /\ turn[n].new # WAITING_TO_LEAVE]
        /\ worked' = [worked EXCEPT ![n] = "none"] /\ UNCHANGED <<created, last, force>>
        /\ Budgets'
    BY <1>1, BudgetsKept DEF Write
  <2>2. /\ leaving' \in [Nodes -> BOOLEAN] /\ (leaving'[n] => leaving[n])
        /\ \A m \in Nodes \ {n} : leaving'[m] = leaving[m]
    BY <2>1, Typed
  <2>3. worked' \in [Nodes -> Hooks]
    BY <2>1, NothingToDo, Typed
  <2>4. Applies(n)
    BY <1>1, <2>1, <2>2, <2>3, Typed DEF Applies, Write, Runs
  <2> QED BY <2>4, Applied
<1>2. CASE WriteRaises(n, TRUE)
  <2>1. /\ Runs(n, "write") /\ Budgets' /\ last' = [last EXCEPT ![n] = NoView]
        /\ worked' = [worked EXCEPT ![n] = "none"] /\ UNCHANGED <<created, force, leaving>>
    BY <1>2, BudgetsKept DEF WriteRaises, ResetLast
  <2>2. /\ last' \in [Nodes -> Views \cup {NoView}] /\ \A m \in Nodes \ {n} : last'[m] = last[m]
    BY <2>1, Typed
  <2>3. worked' \in [Nodes -> Hooks]
    BY <2>1, NothingToDo, Typed
  <2>4. Applies(n)
    BY <1>2, <2>1, <2>2, <2>3, Typed DEF Applies, WriteRaises, Runs
  <2> QED BY <2>4, Applied
<1> QED BY <1>1, <1>2

------------------------------------------------------------------------------
(* The steps of leave_cluster.                                             *)

\* _last_value may be reset meanwhile, but to a main that watches this means nothing.
LastLost(n) ==
  /\ last' \in [Nodes -> Views \cup {NoView}] /\ \A m \in Nodes \ {n} : last'[m] = last[m]
  /\ pc[n] = "watch" => last'[n] = last[n]

LEMMA LastLosses ==
  ASSUME Knows, NEW n \in Nodes
  PROVE  /\ last' = last => LastLost(n)
         /\ pc[n] # "watch" /\ ResetLast(n) => LastLost(n)
<1>1. last \in [Nodes -> Views \cup {NoView}]
  BY Typed
<1> QED BY <1>1 DEF LastLost, ResetLast

\* leave_cluster goes on, with nobody else moving.
HandlerGoesOn(n) ==
  /\ handler' \in Handlers /\ \A m \in Nodes \ {n} : handler'[m] = handler[m]
  /\ leaving' \in [Nodes -> BOOLEAN] /\ \A m \in Nodes \ {n} : leaving'[m] = leaving[m]
  /\ leaving[n] => leaving'[n]
  /\ handler'[n].pc \in {"idle", "called", "create"} \/ created
  /\ handler'[n].pc \in {"write", "reread"} =>
       CanLeave(ClusterState(handler'[n].info), force[n])
  /\ created' \in BOOLEAN /\ (created => created') /\ LastLost(n)
  /\ UNCHANGED <<view, pc, index, event, turn, worked, fsm, force, synced>> /\ Budgets'

LEMMA HandlerOnly ==
  ASSUME Knows, NEW n \in Nodes, HandlerGoesOn(n),
         ~PreemptHandler /\ InOrder(n) => Asks(n)'
  PROVE  Preserved
<1>1. /\ UNCHANGED <<view, pc, index, event, turn, worked, fsm, force, synced>>
      /\ last' \in [Nodes -> Views \cup {NoView}]
      /\ \A m \in Nodes \ {n} : last'[m] = last[m]
      /\ pc[n] = "watch" => last'[n] = last[n]
  BY DEF HandlerGoesOn, LastLost
<1>2. TypeOK'
  BY <1>1, Typed, TypedAgain DEF HandlerGoesOn
<1>3. Decides(n)'
  BY <1>1, Typed DEF HandlerGoesOn, Decides, Decided
<1>4. BeforeCreation'
  BY <1>1, Typed DEF HandlerGoesOn, BeforeCreation
<1>5. ASSUME ~PreemptHandler, InOrder(n) PROVE InOrder(n)'
  BY <1>1, <1>5 DEF InOrder, Stops, Acts
<1>6. \A m \in Nodes \ {n} :
        /\ Rests(m) /\ index'[m] = index[m] /\ event'[m] = event[m]
        /\ turn'[m] = turn[m] /\ handler'[m] = handler[m]
  BY <1>1 DEF HandlerGoesOn, Rests
<1> QED BY <1>1, <1>2, <1>3, <1>4, <1>5, <1>6, OwnStep

LEMMA LeaveSteps ==
  ASSUME Knows, NEW n \in Nodes,
         \/ Quit(n) \/ HandlerRead(n) \/ HandlerReadMissing(n) \/ HandlerCreate(n)
         \/ HandlerDecide(n) \/ HandlerContended(n) \/ HandlerReread(n)
         \/ HandlerReadRaises(n) \/ HandlerRereadRaises(n) \/ HandlerWriteRaises(n, FALSE)
  PROVE  Preserved
<1>1. /\ handler \in Handlers /\ leaving \in [Nodes -> BOOLEAN] /\ view \in Views
      /\ index \in [Nodes -> Indices] /\ Budgets /\ BeforeCreation /\ Decides(n)
      /\ handler[n].info \in Views \cup {NoView} /\ handler[n].att \in Indices
      /\ created \in BOOLEAN /\ last \in [Nodes -> Views \cup {NoView}]
  BY Typed DEF Handlers
<1>2. handler[n].pc \in {"decide", "write", "reread"} => created
  BY <1>1 DEF BeforeCreation
<1>3. CASE Quit(n)
  <2>1. /\ handler' = [handler EXCEPT ![n].pc = "called"]
        /\ QuitAgain \/ (fsm[n] = "running" /\ ~leaving[n] /\ view[n] \notin Leaving)
        /\ UNCHANGED <<view, created, pc, last, index, event, turn, worked, fsm, force,
                       leaving, synced, faults, glitches>>
    BY <1>3 DEF Quit, syncVars
  <2>2. Budgets'
    BY <1>1, <1>3, ConstantsAssumption DEF Quit, Budgets
  <2>3. /\ handler' \in Handlers /\ handler'[n].pc = "called"
        /\ \A m \in Nodes \ {n} : handler'[m] = handler[m]
    BY <1>1, <2>1 DEF Handlers
  <2>4. InOrder(n) => Asks(n)'
    BY <1>1, <2>1, <2>3 DEF InOrder, Asks
  <2>5. HandlerGoesOn(n)
    BY <1>1, <2>1, <2>2, <2>3 DEF HandlerGoesOn, LastLost
  <2> QED BY <2>4, <2>5, HandlerOnly
<1>4. CASE HandlerRead(n)
  <2>1. /\ handler[n].pc = "called" /\ created /\ Budgets'
        /\ handler' = [handler EXCEPT ![n].pc = "decide", ![n].info = view]
        /\ UNCHANGED <<view, created, pc, last, index, event, turn, worked, fsm, force,
                       leaving, synced>>
    BY <1>4, BudgetsKept DEF HandlerRead, Handles, syncVars
  <2>2. /\ handler' \in Handlers /\ handler'[n].pc = "decide" /\ handler'[n].info = view
        /\ \A m \in Nodes \ {n} : handler'[m] = handler[m]
    BY <1>1, <2>1 DEF Handlers
  <2>3. InOrder(n) => Asks(n)'
    BY <1>1, <2>1, <2>2 DEF InOrder, Asks
  <2>4. HandlerGoesOn(n)
    BY <1>1, <2>1, <2>2 DEF HandlerGoesOn, LastLost
  <2> QED BY <2>3, <2>4, HandlerOnly
<1>5. CASE HandlerDecide(n)
  <2>1. /\ handler[n].pc = "decide" /\ Budgets'
        /\ leaving' = [leaving EXCEPT ![n] = TRUE]
        /\ handler' = [handler EXCEPT ![n] =
                         IF CanLeave(ClusterState(handler[n].info), force[n])
                         THEN [pc |-> "write", info |-> handler[n].info, att |-> index[n]]
                         ELSE Idle]
        /\ UNCHANGED <<view, created, pc, last, index, event, turn, worked, fsm, force, synced>>
    BY <1>5, BudgetsKept DEF HandlerDecide, Handles, syncVars
  <2>2. /\ handler' \in Handlers /\ \A m \in Nodes \ {n} : handler'[m] = handler[m]
        /\ IF CanLeave(ClusterState(handler[n].info), force[n])
           THEN /\ handler'[n].pc = "write" /\ handler'[n].info = handler[n].info
                /\ handler'[n].att = index[n]
           ELSE handler'[n].pc = "idle"
    BY <1>1, <2>1, NothingToDo DEF Handlers
  <2>3. leaving' \in [Nodes -> BOOLEAN] /\ leaving'[n] /\ \A m \in Nodes \ {n} : leaving'[m] = leaving[m]
    BY <1>1, <2>1
  <2>4. ASSUME InOrder(n) PROVE Asks(n)'
    <3>1. /\ QuitAgain \/ fsm[n] = "running"
          /\ index[n] = "current" => handler[n].info = view
          /\ pc[n] \in {"write", "reread"} /\ turn[n].new = WAITING_TO_LEAVE =>
               turn[n].info[n] \notin Leaving
      BY <2>1, <2>4 DEF InOrder, Asks
    <3> QED BY <2>1, <2>2, <2>3, <3>1 DEF Asks
  <2>5. HandlerGoesOn(n)
    BY <1>1, <1>2, <2>1, <2>2, <2>3 DEF HandlerGoesOn, LastLost
  <2> QED BY <2>4, <2>5, HandlerOnly
<1>6. CASE HandlerContended(n)
  <2>1. /\ handler[n].pc = "write" /\ Budgets'
        /\ handler' = [handler EXCEPT ![n].pc = "reread"]
        /\ UNCHANGED <<view, created, pc, last, index, event, turn, worked, fsm, force,
                       leaving, synced>>
    BY <1>6, BudgetsKept DEF HandlerContended, Handles, syncVars
  <2>2. /\ handler' \in Handlers /\ handler'[n].pc = "reread"
        /\ handler'[n].info = handler[n].info
        /\ \A m \in Nodes \ {n} : handler'[m] = handler[m]
    BY <1>1, <2>1 DEF Handlers
  <2>3. InOrder(n) => Asks(n)'
    BY <1>1, <2>1, <2>2 DEF InOrder, Asks
  <2>4. CanLeave(ClusterState(handler[n].info), force[n])
    BY <1>1, <2>1 DEF Decides
  <2>5. HandlerGoesOn(n)
    BY <1>1, <1>2, <2>1, <2>2, <2>4 DEF HandlerGoesOn, LastLost
  <2> QED BY <2>3, <2>5, HandlerOnly
<1>7. CASE HandlerReread(n)
  <2>1. /\ handler[n].pc = "reread" /\ Budgets'
        /\ handler' = [handler EXCEPT ![n] =
                         IF MayRetry(n, handler[n].info, view, WAITING_TO_LEAVE)
                         THEN [pc |-> "write", info |-> view, att |-> "current"] ELSE Idle]
        /\ UNCHANGED <<view, created, pc, last, index, event, turn, worked, fsm, force,
                       leaving, synced>>
    BY <1>7, BudgetsKept DEF HandlerReread, Handles, syncVars
  <2>2. /\ handler' \in Handlers /\ \A m \in Nodes \ {n} : handler'[m] = handler[m]
        /\ IF MayRetry(n, handler[n].info, view, WAITING_TO_LEAVE)
           THEN handler'[n].pc = "write" /\ handler'[n].info = view
           ELSE handler'[n].pc = "idle"
    BY <1>1, <2>1, NothingToDo DEF Handlers, Indices
  <2>3. MayRetry(n, handler[n].info, view, WAITING_TO_LEAVE) =>
          CanLeave(ClusterState(view), force[n])
    BY <1>1, <2>1, Words DEF MayRetry, Decides
  <2>4. InOrder(n) => Asks(n)'
    BY <1>1, <2>1, <2>2 DEF InOrder, Asks
  <2>5. HandlerGoesOn(n)
    BY <1>1, <1>2, <2>1, <2>2, <2>3 DEF HandlerGoesOn, LastLost
  <2> QED BY <2>4, <2>5, HandlerOnly
<1>8. ASSUME handler[n].pc \in {"called", "create"}, Budgets',
             created' \in BOOLEAN, created => created',
             leaving' = [leaving EXCEPT ![n] = TRUE], handler' = [handler EXCEPT ![n] = Idle],
             UNCHANGED <<view, pc, last, index, event, turn, worked, fsm, force, synced>>
      PROVE  Preserved
  <2>1. /\ handler' \in Handlers /\ handler'[n].pc = "idle"
        /\ \A m \in Nodes \ {n} : handler'[m] = handler[m]
    BY <1>1, <1>8, NothingToDo DEF Handlers
  <2>2. leaving' \in [Nodes -> BOOLEAN] /\ leaving'[n] /\ \A m \in Nodes \ {n} : leaving'[m] = leaving[m]
    BY <1>1, <1>8
  <2>3. InOrder(n) => Asks(n)'
    BY <1>8, <2>1, <2>2 DEF InOrder, Asks
  <2>4. HandlerGoesOn(n)
    BY <1>1, <1>8, <2>1, <2>2 DEF HandlerGoesOn, LastLost
  <2> QED BY <2>3, <2>4, HandlerOnly
<1>9. CASE HandlerCreate(n)
  BY <1>1, <1>8, <1>9, BudgetsKept DEF HandlerCreate, Handles, syncVars
<1>10. CASE HandlerReadRaises(n)
  BY <1>1, <1>8, <1>10, BudgetsKept DEF HandlerReadRaises, Handles, syncVars
<1>11. CASE HandlerReadMissing(n)
  <2>1. /\ handler[n].pc = "called" /\ Budgets'
        /\ handler' = [handler EXCEPT ![n].pc = "create"]
        /\ UNCHANGED <<view, created, pc, last, index, event, turn, worked, fsm, force,
                       leaving, synced>>
    BY <1>11, BudgetsKept DEF HandlerReadMissing, Handles, syncVars
  <2>2. /\ handler' \in Handlers /\ handler'[n].pc = "create"
        /\ \A m \in Nodes \ {n} : handler'[m] = handler[m]
    BY <1>1, <2>1 DEF Handlers
  <2>3. InOrder(n) => Asks(n)'
    BY <1>1, <2>1, <2>2 DEF InOrder, Asks
  <2>4. HandlerGoesOn(n)
    BY <1>1, <2>1, <2>2 DEF HandlerGoesOn, LastLost
  <2> QED BY <2>3, <2>4, HandlerOnly
<1>12. CASE HandlerRereadRaises(n) \/ HandlerWriteRaises(n, FALSE)
  <2>1. /\ handler[n].pc \in {"write", "reread"} /\ Budgets' /\ LastLost(n)
        /\ handler' = [handler EXCEPT ![n] = Idle]
        /\ UNCHANGED <<view, created, pc, index, event, turn, worked, fsm, force,
                       leaving, synced>>
    <3>1. CASE HandlerRereadRaises(n)
      BY <3>1, BudgetsKept, LastLosses DEF HandlerRereadRaises, Handles, syncVars
    <3>2. CASE HandlerWriteRaises(n, FALSE)
      BY <3>2, BudgetsKept, LastLosses DEF HandlerWriteRaises, Handles
    <3> QED BY <1>12, <3>1, <3>2
  <2>2. /\ handler' \in Handlers /\ handler'[n].pc = "idle"
        /\ \A m \in Nodes \ {n} : handler'[m] = handler[m]
    BY <1>1, <2>1, NothingToDo DEF Handlers
  <2>3. InOrder(n) => Asks(n)'
    BY <2>1, <2>2 DEF InOrder, Asks
  <2>4. HandlerGoesOn(n)
    BY <1>1, <2>1, <2>2 DEF HandlerGoesOn
  <2> QED BY <2>3, <2>4, HandlerOnly
<1> QED BY <1>3, <1>4, <1>5, <1>6, <1>7, <1>9, <1>10, <1>11, <1>12

\* What leave_cluster writes.
LEMMA Requested ==
  ASSUME Knows, NEW n \in Nodes, Handles(n, "write")
  PROVE  /\ created /\ pc[n] # "dead" /\ handler[n].info \in Views
         /\ CanLeave(ClusterState(handler[n].info), force[n])
         /\ Updated(handler[n].info, n, WAITING_TO_LEAVE) =
              Put(handler[n].info, n, WAITING_TO_LEAVE)
         /\ Put(handler[n].info, n, WAITING_TO_LEAVE) \in Views
<1>1. /\ handler[n].pc = "write" /\ pc[n] # "dead"
  BY DEF Handles
<1>2. Decides(n) /\ BeforeCreation /\ handler[n].info \in Views \cup {NoView}
  BY Typed DEF Handlers
<1>3. CanLeave(ClusterState(handler[n].info), force[n]) /\ created
  BY <1>1, <1>2 DEF Decides, BeforeCreation
<1>4. handler[n].info \in Views
  BY <1>2, <1>3, EmptyClusters
<1>5. Updated(handler[n].info, n, WAITING_TO_LEAVE) = Put(handler[n].info, n, WAITING_TO_LEAVE)
  BY Words DEF Updated, Put
<1>6. Put(handler[n].info, n, WAITING_TO_LEAVE) \in Views
  BY <1>4, KnownStates, ViewUpdated
<1> QED BY <1>1, <1>3, <1>4, <1>5, <1>6

\* Taking turns with main, it writes the view that is in etcd.
LEMMA RequestedInOrder ==
  ASSUME Knows, NEW n \in Nodes, Handles(n, "write"), handler[n].att = "current", InOrder(n)
  PROVE  /\ leaving[n] /\ handler[n].info = view /\ (QuitAgain \/ fsm[n] = "running")
         /\ view[n] \notin {FINISHED, LEAVING, LEAVING_ACKNOWLEDGED_CHANGE,
                            LEAVING_CONFIG_CHANGED}
         /\ fsm[n] # "departing"
         /\ \A m \in Nodes \ {n} : Keeps(m, view, Put(view, n, WAITING_TO_LEAVE))
         /\ ActsOn(n, view, Put(view, n, WAITING_TO_LEAVE))
<1>1. handler[n].pc = "write" /\ handler[n].att = "current" /\ pc[n] # "dead"
  BY DEF Handles
<1>2. /\ leaving[n] /\ handler[n].info = view /\ (QuitAgain \/ fsm[n] = "running")
  BY <1>1 DEF InOrder, Asks
<1>3. /\ CanLeave(ClusterState(view), force[n]) /\ view \in Views /\ force[n] \in BOOLEAN
      /\ Updated(view, n, WAITING_TO_LEAVE) = Put(view, n, WAITING_TO_LEAVE)
  BY <1>2, Requested, Typed
<1>4. view[n] \notin {FINISHED, LEAVING, LEAVING_ACKNOWLEDGED_CHANGE, LEAVING_CONFIG_CHANGED}
  BY <1>3, NobodyLeaving, Words
<1>5. fsm[n] # "departing"
  BY <1>1, <1>4 DEF InOrder, Stops
<1>6. Due(view, n, WAITING_TO_LEAVE) /\ WAITING_TO_LEAVE \notin {NO_CHANGE, DELETE_ME}
  BY <1>3, Words DEF Due
<1>7. \A m \in Nodes \ {n} : Keeps(m, view, Put(view, n, WAITING_TO_LEAVE))
  BY <1>3, <1>6, Moved
<1>8. ActsOn(n, view, Put(view, n, WAITING_TO_LEAVE))
  BY <1>3, Asked
<1> QED BY <1>2, <1>4, <1>5, <1>7, <1>8

\* The write of leave_cluster is applied, whether it hears of that or not.
HandlerApplies(n) ==
  /\ Handles(n, "write") /\ handler[n].att = "current"
  /\ Publish(Updated(handler[n].info, n, WAITING_TO_LEAVE), turn,
             [handler EXCEPT ![n] = Idle])
  /\ leaving' = leaving \/ leaving' = [leaving EXCEPT ![n] = FALSE]
  /\ LastLost(n)
  /\ UNCHANGED <<created, pc, worked, fsm, force, synced, requests, faults>> /\ Budgets'

LEMMA HandlerWrites ==
  ASSUME Knows, NEW n \in Nodes, HandlerWrite(n) \/ HandlerWriteRaises(n, TRUE)
  PROVE  HandlerApplies(n)
<1>1. CASE HandlerWrite(n)
  BY <1>1, BudgetsKept, LastLosses DEF HandlerWrite, HandlerApplies, budgets
<1>2. CASE HandlerWriteRaises(n, TRUE)
  BY <1>2, BudgetsKept, LastLosses DEF HandlerWriteRaises, HandlerApplies
<1> QED BY <1>1, <1>2

LEMMA HandlerWriteStep ==
  ASSUME Knows, NEW n \in Nodes, HandlerApplies(n)
  PROVE  Preserved
<1> DEFINE w == Put(handler[n].info, n, WAITING_TO_LEAVE)
           h == [handler EXCEPT ![n] = Idle]
<1>1. /\ TypeOK /\ turn \in Turns /\ handler \in Handlers
      /\ handler[n].info \in [Nodes -> LocalStates]
  BY Requested, Typed DEF Knows, Views, HandlerApplies
<1>2. /\ Publish(w, turn, h)
      /\ leaving' = leaving \/ leaving' = [leaving EXCEPT ![n] = FALSE]
      /\ UNCHANGED <<created, pc, worked, fsm, force, synced>> /\ Budgets'
      /\ last' \in [Nodes -> Views \cup {NoView}]
      /\ \A m \in Nodes \ {n} : last'[m] = last[m]
      /\ pc[n] = "watch" => last'[n] = last[n]
  BY Requested DEF HandlerApplies, LastLost
<1>3. /\ h \in Handlers /\ h[n].pc = "idle" /\ \A m \in Nodes \ {n} : h[m] = handler[m]
  BY <1>1, NothingToDo DEF Handlers
<1>4. /\ leaving' \in [Nodes -> BOOLEAN] /\ \A m \in Nodes \ {n} : leaving'[m] = leaving[m]
  BY <1>2, Typed
<1>5. w \in Views /\ created /\ created' /\ w[n] = WAITING_TO_LEAVE /\ pc[n] # "dead"
  BY <1>1, <1>2, Requested DEF Put, HandlerApplies
<1>6. ~PreemptHandler /\ InOrder(n) =>
        /\ \A m \in Nodes \ {n} : Keeps(m, view, w)
        /\ ActsOn(n, view, w) /\ fsm[n] # "departing"
  BY RequestedInOrder DEF HandlerApplies
<1> HIDE DEF w, h
<1>7. /\ view' = w /\ index' \in [Nodes -> Indices] /\ event' \in Events
      /\ turn' \in Turns /\ handler' \in Handlers /\ handler'[n].pc = "idle"
      /\ turn'[n].new = turn[n].new /\ turn'[n].info = turn[n].info
  BY <1>1, <1>2, <1>3, <1>5, AllNotice
<1>8. TypeOK'
  BY <1>2, <1>4, <1>5, <1>7, Typed, TypedAgain
<1>9. Decides(n)'
  BY <1>1, <1>2, <1>3, <1>5, NewsDecided
<1>10. ASSUME ~PreemptHandler, InOrder(n) PROVE InOrder(n)'
  <2>1. Stops(n)'
    BY <1>2, <1>5, <1>6, <1>7, <1>10 DEF InOrder, Stops
  <2>2. w[n] \in Leaving
    BY <1>5 DEF Leaving
  <2>3. Asks(n)'
    BY <1>2, <1>7, <1>10, <2>2 DEF InOrder, Asks
  <2>4. Acts(n)'
    BY <1>1, <1>2, <1>3, <1>5, <1>6, <1>10, NewsActs DEF InOrder
  <2> QED BY <2>1, <2>3, <2>4 DEF InOrder
<1>11. \A m \in Nodes \ {n} : Rests(m) /\ h[m] = handler[m]
  BY <1>2, <1>3, <1>4 DEF Rests
<1> QED BY <1>1, <1>2, <1>3, <1>5, <1>6, <1>8, <1>9, <1>10, <1>11, WriteStep

------------------------------------------------------------------------------
(* Failures.                                                               *)

LEMMA MarkFailedStep ==
  ASSUME Knows, NEW n \in Nodes, MarkFailed(n)
  PROVE  Preserved
<1> DEFINE w == Put(view, n, ERROR)
           t == [turn EXCEPT ![n] = NoTurn]
<1>1. /\ TypeOK /\ turn \in Turns /\ handler \in Handlers /\ view \in [Nodes -> LocalStates]
  BY Typed DEF Knows, Views
<1>2. /\ view[n] # ABSENT /\ Publish(w, t, handler)
      /\ pc' = [pc EXCEPT ![n] = "dead"] /\ last' = [last EXCEPT ![n] = NoView]
      /\ worked' = [worked EXCEPT ![n] = "none"]
      /\ UNCHANGED <<created, fsm, force, leaving, synced>> /\ Budgets'
  BY BudgetsKept DEF MarkFailed, Put
<1>3. created
  BY <1>2, Typed DEF BeforeCreation
<1>4. w \in Views /\ w[n] = ERROR /\ \A m \in Nodes \ {n} : Keeps(m, view, w)
  BY Typed, Removed, KnownStates, ViewUpdated
<1>5. t \in Turns /\ \A m \in Nodes \ {n} : t[m] = turn[m]
  BY TurnDropped
<1> HIDE DEF w, t
<1>6. /\ view' = w /\ index' \in [Nodes -> Indices] /\ event' \in Events
      /\ turn' \in Turns /\ handler' \in Handlers
      /\ handler'[n].pc = handler[n].pc /\ handler'[n].info = handler[n].info
      /\ handler'[n].att = Aged(handler[n].att) /\ index'[n] = Aged(index[n])
      /\ event'[n].index = "current" => event'[n].view = w
  BY <1>1, <1>2, <1>4, <1>5, AllNotice
<1>7. /\ pc' \in [Nodes -> Places] /\ pc'[n] = "dead"
      /\ \A m \in Nodes \ {n} : pc'[m] = pc[m]
      /\ last' \in [Nodes -> Views \cup {NoView}] /\ \A m \in Nodes \ {n} : last'[m] = last[m]
      /\ worked' \in [Nodes -> Hooks]
  BY <1>2, NothingToDo, Typed DEF Places
<1>8. TypeOK'
  BY <1>2, <1>4, <1>6, <1>7, Typed, TypedAgain
<1>9. Decides(n)'
  BY <1>2, <1>6, <1>7, Typed DEF Decides
<1>10. ASSUME ~PreemptHandler, InOrder(n) PROVE InOrder(n)'
  <2>1. Stops(n)' /\ Acts(n)'
    BY <1>4, <1>6, <1>7 DEF Stops, Acts
  <2>2. w[n] \notin Leaving /\ index'[n] # "current" /\ handler'[n].att # "current"
    BY <1>4, <1>6, Ages, Words DEF Leaving
  <2>3. Asks(n)'
    BY <1>2, <1>6, <1>7, <1>10, <2>2 DEF InOrder, Asks
  <2> QED BY <2>1, <2>3 DEF InOrder
<1>11. \A m \in Nodes \ {n} : Rests(m) /\ t[m] = turn[m] /\ Keeps(m, view, w)
  BY <1>2, <1>4, <1>5, <1>7 DEF Rests
<1> QED BY <1>1, <1>2, <1>3, <1>4, <1>5, <1>8, <1>9, <1>10, <1>11, WriteStep

\* A process that starts anew knows nothing, and has nothing to do but what it may be
\* asked at once.
LEMMA FreshStep ==
  ASSUME Knows, NEW n \in Nodes, Fresh(n),
         force' \in [Nodes -> BOOLEAN], \A m \in Nodes \ {n} : force'[m] = force[m],
         handler' \in Handlers, \A m \in Nodes \ {n} : handler'[m] = handler[m],
         handler'[n].pc \in {"idle", "called"},
         ~PreemptHandler /\ InOrder(n) /\ handler'[n].pc = "called" => view[n] \notin Leaving,
         UNCHANGED <<view, created, synced>>, Budgets'
  PROVE  Preserved
<1>1. /\ pc' \in [Nodes -> Places] /\ pc'[n] = "read"
      /\ \A m \in Nodes \ {n} : pc'[m] = pc[m]
      /\ fsm' \in [Nodes -> {"running", "departing", "stopped"}]
      /\ fsm'[n] = "running" /\ \A m \in Nodes \ {n} : fsm'[m] = fsm[m]
  BY Typed DEF Fresh, Places
<1>2. /\ leaving' \in [Nodes -> BOOLEAN] /\ ~leaving'[n]
      /\ \A m \in Nodes \ {n} : leaving'[m] = leaving[m]
      /\ last' \in [Nodes -> Views \cup {NoView}] /\ \A m \in Nodes \ {n} : last'[m] = last[m]
      /\ worked' \in [Nodes -> Hooks]
  BY NothingToDo, Typed DEF Fresh
<1>3. /\ index' \in [Nodes -> Indices] /\ \A m \in Nodes \ {n} : index'[m] = index[m]
      /\ event' \in Events /\ event'[n] = NoEvent
      /\ \A m \in Nodes \ {n} : event'[m] = event[m]
  BY NothingToDo, Typed DEF Fresh, Events
<1>4. turn' \in Turns /\ \A m \in Nodes \ {n} : turn'[m] = turn[m]
  BY TurnDropped DEF Fresh
<1>5. TypeOK'
  BY <1>1, <1>2, <1>3, <1>4, Typed, TypedAgain
<1>6. Decides(n)'
  BY <1>1, <1>3, NothingToDo DEF Decides
<1>7. ASSUME ~PreemptHandler, InOrder(n) PROVE InOrder(n)'
  BY <1>1, <1>2, <1>7 DEF InOrder, Stops, Acts, Asks
<1>8. BeforeCreation'
  BY <1>1, Typed DEF BeforeCreation
<1>9. \A m \in Nodes \ {n} : Rests(m)
  BY <1>1, <1>2 DEF Rests
<1> QED BY <1>3, <1>4, <1>5, <1>6, <1>7, <1>8, <1>9, OwnStep

LEMMA StartSteps ==
  ASSUME Knows, NEW n \in Nodes, Restart(n) \/ TakeOver(n)
  PROVE  Preserved
<1>1. CASE Restart(n)
  <2>1. /\ Fresh(n) /\ force' = [force EXCEPT ![n] = FALSE]
        /\ handler' = [handler EXCEPT ![n] = Idle]
        /\ UNCHANGED <<view, created, synced>> /\ Budgets'
    BY <1>1, BudgetsKept DEF Restart
  <2>2. /\ handler' \in Handlers /\ handler'[n].pc = "idle"
        /\ \A m \in Nodes \ {n} : handler'[m] = handler[m]
    BY <2>1, NothingToDo, Typed DEF Handlers
  <2> QED BY <2>1, <2>2, Typed, FreshStep
<1>2. CASE TakeOver(n)
  <2>1. /\ Fresh(n) /\ force' = [force EXCEPT ![n] = TRUE]
        /\ handler' = [handler EXCEPT ![n] = [Idle EXCEPT !.pc = "called"]]
        /\ UNCHANGED <<view, created, synced>> /\ Budgets' /\ pc[n] = "dead"
    BY <1>2, BudgetsKept DEF TakeOver
  <2>2. /\ handler' \in Handlers /\ handler'[n].pc = "called"
        /\ \A m \in Nodes \ {n} : handler'[m] = handler[m]
    BY <2>1, Typed DEF Handlers, Idle, Indices
  <2>3. InOrder(n) => view[n] \notin Leaving
    BY <2>1, Words DEF InOrder, Stops, Leaving
  <2> QED BY <2>1, <2>2, <2>3, Typed, FreshStep
<1> QED BY <1>1, <1>2

\* What a node is about to do that stops early.
LEMMA StoppingEarly ==
  ASSUME ~PreemptHandler, NEW n \in Nodes, InOrder(n), StopEarly(n)
  PROVE  /\ view[n] = FINISHED
         /\ handler[n].pc = "idle" \/ (QuitAgain /\ handler[n].pc = "called")
         /\ \/ fsm[n] = "departing"
            \/ fsm[n] = "running" /\ Live(view) \subseteq {NORMAL, FINISHED}
<1>1. Stops(n) /\ Asks(n) /\ Acts(n)
  BY DEF InOrder
<1>2. CASE Runs(n, "hook") /\ turn[n].new = DELETE_ME
  <2>1. pc[n] = "hook" /\ handler[n].pc \in {"idle", "called"}
    BY <1>2 DEF Runs
  <2>2. view[n] = FINISHED /\ Live(view) \subseteq {NORMAL, FINISHED} /\ fsm[n] = "running"
    BY <1>1, <1>2, <2>1, Words DEF Acts, Acting, ConfigChanged, Stops
  <2> QED BY <1>1, <2>1, <2>2 DEF Asks, Leaving
<1>3. CASE Runs(n, "write") /\ fsm[n] = "departing"
  <2>1. pc[n] = "write" /\ handler[n].pc \in {"idle", "called"} /\ fsm[n] = "departing"
    BY <1>3 DEF Runs
  <2>2. view[n] = FINISHED
    BY <1>1, <2>1 DEF Stops
  <2> QED BY <1>1, <2>1, <2>2 DEF Asks, Leaving
<1> QED BY <1>2, <1>3 DEF StopEarly

LEMMA StopEarlyStep ==
  ASSUME Knows, NEW n \in Nodes, StopEarly(n)
  PROVE  Preserved
<1>1. /\ turn' = [turn EXCEPT ![n] = NoTurn] /\ pc' = [pc EXCEPT ![n] = "done"]
      /\ fsm' = [fsm EXCEPT ![n] = "stopped"] /\ Budgets' /\ pc[n] \in {"hook", "write"}
      /\ UNCHANGED <<view, created, last, index, event, worked, force, leaving, handler, synced>>
  BY BudgetsKept DEF StopEarly, leaveVars, Runs
<1>2. created
  BY <1>1, Typed DEF BeforeCreation
<1>3. /\ turn' \in Turns /\ \A m \in Nodes \ {n} : turn'[m] = turn[m]
      /\ pc' \in [Nodes -> Places] /\ pc'[n] = "done"
      /\ \A m \in Nodes \ {n} : pc'[m] = pc[m]
  BY <1>1, TurnDropped, Typed DEF Places
<1>4. /\ fsm' \in [Nodes -> {"running", "departing", "stopped"}]
      /\ fsm'[n] = "stopped" /\ \A m \in Nodes \ {n} : fsm'[m] = fsm[m]
  BY <1>1, Typed
<1>5. TypeOK'
  BY <1>1, <1>3, <1>4, Typed, TypedAgain
<1>6. Decides(n)'
  BY <1>1, <1>3, Typed DEF Decides
<1>7. ASSUME ~PreemptHandler, InOrder(n) PROVE InOrder(n)'
  <2>1. handler[n].pc = "idle" \/ (QuitAgain /\ handler[n].pc = "called")
    BY <1>7, StoppingEarly
  <2> QED BY <1>1, <1>3, <1>4, <2>1 DEF InOrder, Stops, Acts, Asks
<1>8. BeforeCreation'
  BY <1>1, <1>2 DEF BeforeCreation
<1>9. \A m \in Nodes \ {n} : Rests(m)
  BY <1>1, <1>3, <1>4 DEF Rests
<1> QED BY <1>1, <1>3, <1>5, <1>6, <1>7, <1>8, <1>9, OwnStep

------------------------------------------------------------------------------
(* The invariant holds, but for what nodes do as long as nothing fails.    *)

LEMMA InitKnows ==
  ASSUME Init
  PROVE  Knows /\ \A n \in Nodes : InOrder(n)
<1>1. ABSENT \in LocalStates
  BY KnownStates
<1>2. TypeOK
  <2>1. Budgets
    BY ConstantsAssumption DEF Init, Budgets
  <2>2. view \in Views /\ turn \in Turns /\ event \in Events /\ handler \in Handlers
    BY <1>1, NothingToDo DEF Init, Views, Turns, Events, Handlers
  <2> QED BY <2>1, <2>2, NothingToDo DEF Init, TypeOK, Budgets, Turns, Events, Handlers, News
<1>3. BeforeCreation
  BY NothingToDo DEF Init, BeforeCreation
<1>4. ASSUME NEW n \in Nodes PROVE Decides(n) /\ InOrder(n)
  <2>1. /\ pc[n] = "read" /\ fsm[n] = "running" /\ event[n] = NoEvent
        /\ index[n] = "none" /\ handler[n] = Idle
    BY DEF Init
  <2> QED BY <2>1, NothingToDo DEF InOrder, Stops, Decides, Asks, Acts
<1> QED BY <1>2, <1>3, <1>4 DEF Knows

LEMMA StutterPreserves ==
  ASSUME Knows, UNCHANGED vars
  PROVE  Preserved
<1>1. UNCHANGED <<view, created, pc, last, index, event, turn, worked, fsm, force, leaving,
                  handler, synced, requests, faults, glitches>>
  BY DEF vars, syncVars, leaveVars, budgets
<1>2. TypeOK' /\ BeforeCreation'
  BY <1>1 DEF Knows, TypeOK, BeforeCreation
<1>3. ASSUME NEW n \in Nodes PROVE Decides(n)' /\ (InOrder(n) => InOrder(n)')
  <2>1. Decides(n)'
    BY <1>1, Typed DEF Decides, Decided
  <2>2. ASSUME InOrder(n) PROVE Stops(n)' /\ Asks(n)'
    BY <1>1, <2>2 DEF InOrder, Stops, Asks
  <2>3. ASSUME InOrder(n) PROVE Acts(n)'
    BY <1>1, <2>3 DEF InOrder, Acts
  <2> QED BY <2>1, <2>2, <2>3 DEF InOrder
<1> QED BY <1>2, <1>3 DEF Knows, Preserved, Orderly, InOrder

LEMMA NextPreserves ==
  ASSUME Knows, [Next]_vars
  PROVE  Preserved
<1>1. CASE UNCHANGED vars
  BY <1>1, StutterPreserves
<1>2. ASSUME NEW n \in Nodes,
             Main(n) \/ LeaveCluster(n) \/ Quit(n) \/ TakeOver(n) \/ Raises(n) \/ Suffers(n)
      PROVE  Preserved
  <2>1. CASE Main(n)
    BY <2>1, ReadSteps, StartWatchStep, TurnEndSteps, CreateKeyStep, HookReturnsStep,
       WriteSteps, TurnGoesOnSteps DEF Main
  <2>2. CASE LeaveCluster(n) \/ Quit(n)
    BY <2>2, LeaveSteps, HandlerWrites, HandlerWriteStep DEF LeaveCluster
  <2>3. CASE Raises(n)
    <3>1. PICK applied \in BOOLEAN :
            \/ ReadRaises(n) \/ WatchRaises(n) \/ CreateRaises(n) \/ HookRaises(n)
            \/ RereadRaises(n) \/ HandlerReadRaises(n) \/ HandlerRereadRaises(n)
            \/ WriteRaises(n, applied) \/ HandlerWriteRaises(n, applied)
      BY <2>3 DEF Raises
    <3> QED BY <3>1, ReadSteps, TurnEndSteps, TurnGoesOnSteps, LeaveSteps, WriteSteps,
               HandlerWrites, HandlerWriteStep
  <2>4. CASE TakeOver(n) \/ Suffers(n)
    BY <2>4, StartSteps, MarkFailedStep, StopEarlyStep DEF Suffers
  <2> QED BY <1>2, <2>1, <2>2, <2>3, <2>4
<1> QED BY <1>1, <1>2 DEF Next

------------------------------------------------------------------------------
(* As long as nothing fails, what a node has been given to do stays to be  *)
(* done until it has done it.                                              *)

\* When a cluster is busy: what its live members are in.
LEMMA BusyStates ==
  ASSUME NEW v
  PROVE  LET c == ClusterState(v)
             live == Live(v)
         IN  /\ c = JOINING_CONFIG_CHANGING <=>
                  /\ live \cap {NORMAL_ACKNOWLEDGED_CHANGE, JOINING_ACKNOWLEDGED_CHANGE} # {}
                  /\ live \subseteq {NORMAL_ACKNOWLEDGED_CHANGE, JOINING_ACKNOWLEDGED_CHANGE,
                                     NORMAL_CONFIG_CHANGED, JOINING_CONFIG_CHANGED}
             /\ c = JOINING_RESYNCING <=>
                  /\ live \cap {NORMAL_CONFIG_CHANGED, JOINING_CONFIG_CHANGED} # {}
                  /\ live \subseteq {NORMAL, NORMAL_CONFIG_CHANGED, JOINING_CONFIG_CHANGED}
             /\ c = LEAVING_CONFIG_CHANGING <=>
                  /\ live \cap {NORMAL_ACKNOWLEDGED_CHANGE, LEAVING_ACKNOWLEDGED_CHANGE} # {}
                  /\ live \subseteq {NORMAL_ACKNOWLEDGED_CHANGE, LEAVING_ACKNOWLEDGED_CHANGE,
                                     NORMAL_CONFIG_CHANGED, LEAVING_CONFIG_CHANGED}
                  /\ live \cap {LEAVING_ACKNOWLEDGED_CHANGE, LEAVING_CONFIG_CHANGED} # {}
             /\ c = LEAVING_RESYNCING <=>
                  /\ live \cap {NORMAL_CONFIG_CHANGED, LEAVING_CONFIG_CHANGED} # {}
                  /\ live \subseteq {NORMAL, FINISHED, NORMAL_CONFIG_CHANGED,
                                     LEAVING_CONFIG_CHANGED}
                  /\ live \cap {FINISHED, LEAVING_CONFIG_CHANGED} # {}
<1> DEFINE c == ClusterState(v)
           live == Live(v)
           errors == \E n \in DOMAIN v : v[n] = ERROR
<1>1. c = IF live = {} /\ ~errors THEN EMPTY
          ELSE IF live \subseteq {NORMAL} /\ ~errors THEN STABLE
          ELSE IF live \subseteq {NORMAL} THEN STABLE_WITH_ERRORS
          ELSE IF StateCheck(live, {}, {NORMAL, WAITING_TO_JOIN})
            THEN JOIN_PENDING
          ELSE IF StateCheck(live, {NORMAL_ACKNOWLEDGED_CHANGE,
                                    JOINING_ACKNOWLEDGED_CHANGE},
                             {NORMAL, JOINING})
            THEN STARTED_JOINING
          ELSE IF StateCheck(live, {NORMAL_CONFIG_CHANGED, JOINING_CONFIG_CHANGED},
                             {NORMAL_ACKNOWLEDGED_CHANGE,
                              JOINING_ACKNOWLEDGED_CHANGE})
            THEN JOINING_CONFIG_CHANGING
          ELSE IF StateCheck(live, {NORMAL},
                             {NORMAL_CONFIG_CHANGED, JOINING_CONFIG_CHANGED})
            THEN JOINING_RESYNCING
          ELSE IF StateCheck(live, {}, {NORMAL, WAITING_TO_LEAVE})
            THEN LEAVE_PENDING
          ELSE IF StateCheck(live, {NORMAL_ACKNOWLEDGED_CHANGE,
                                    LEAVING_ACKNOWLEDGED_CHANGE},
                             {NORMAL, LEAVING})
            THEN STARTED_LEAVING
          ELSE IF StateCheck(live, {NORMAL_CONFIG_CHANGED, LEAVING_CONFIG_CHANGED},
                             {NORMAL_ACKNOWLEDGED_CHANGE,
                              LEAVING_ACKNOWLEDGED_CHANGE})
            THEN LEAVING_CONFIG_CHANGING
          ELSE IF StateCheck(live, {NORMAL, FINISHED},
                             {NORMAL_CONFIG_CHANGED, LEAVING_CONFIG_CHANGED})
            THEN LEAVING_RESYNCING
          ELSE IF StateCheck(live, {}, {NORMAL, FINISHED})
            THEN FINISHED_LEAVING
          ELSE INVALID_CLUSTER_STATE
  BY DEF ClusterState
<1> HIDE DEF c, live, errors
<1>2. c = JOINING_CONFIG_CHANGING <=>
        /\ live \cap {NORMAL_ACKNOWLEDGED_CHANGE, JOINING_ACKNOWLEDGED_CHANGE} # {}
        /\ live \subseteq {NORMAL_ACKNOWLEDGED_CHANGE, JOINING_ACKNOWLEDGED_CHANGE,
                           NORMAL_CONFIG_CHANGED, JOINING_CONFIG_CHANGED}
  BY <1>1, Words, ClusterWords DEF StateCheck
<1>3. c = JOINING_RESYNCING <=>
        /\ live \cap {NORMAL_CONFIG_CHANGED, JOINING_CONFIG_CHANGED} # {}
        /\ live \subseteq {NORMAL, NORMAL_CONFIG_CHANGED, JOINING_CONFIG_CHANGED}
  BY <1>1, Words, ClusterWords DEF StateCheck
<1>4. c = LEAVING_CONFIG_CHANGING <=>
        /\ live \cap {NORMAL_ACKNOWLEDGED_CHANGE, LEAVING_ACKNOWLEDGED_CHANGE} # {}
        /\ live \subseteq {NORMAL_ACKNOWLEDGED_CHANGE, LEAVING_ACKNOWLEDGED_CHANGE,
                           NORMAL_CONFIG_CHANGED, LEAVING_CONFIG_CHANGED}
        /\ live \cap {LEAVING_ACKNOWLEDGED_CHANGE, LEAVING_CONFIG_CHANGED} # {}
  BY <1>1, Words, ClusterWords DEF StateCheck
<1>5. c = LEAVING_RESYNCING <=>
        /\ live \cap {NORMAL_CONFIG_CHANGED, LEAVING_CONFIG_CHANGED} # {}
        /\ live \subseteq {NORMAL, FINISHED, NORMAL_CONFIG_CHANGED, LEAVING_CONFIG_CHANGED}
        /\ live \cap {FINISHED, LEAVING_CONFIG_CHANGED} # {}
  BY <1>1, Words, ClusterWords DEF StateCheck
<1> QED BY <1>2, <1>3, <1>4, <1>5 DEF c, live

\* The rows of the table for a busy cluster.
LEMMA BusyRows ==
  ASSUME NEW c, NEW l, NEW row \in FsmRows(c, l)
  PROVE  /\ c = JOINING_CONFIG_CHANGING =>
              \/ l = NORMAL_ACKNOWLEDGED_CHANGE /\ row[4] = NORMAL_CONFIG_CHANGED
              \/ l = JOINING_ACKNOWLEDGED_CHANGE /\ row[4] = JOINING_CONFIG_CHANGED
         /\ c = JOINING_RESYNCING =>
              l \in {NORMAL_CONFIG_CHANGED, JOINING_CONFIG_CHANGED} /\ row[4] = NORMAL
         /\ c = LEAVING_CONFIG_CHANGING =>
              \/ l = NORMAL_ACKNOWLEDGED_CHANGE /\ row[4] = NORMAL_CONFIG_CHANGED
              \/ l = LEAVING_ACKNOWLEDGED_CHANGE /\ row[4] = LEAVING_CONFIG_CHANGED
         /\ c = LEAVING_RESYNCING =>
              \/ l = NORMAL_CONFIG_CHANGED /\ row[4] = NORMAL
              \/ l = LEAVING_CONFIG_CHANGED /\ row[4] = FINISHED
<1>1. row \in FsmTable /\ row[1] = c /\ row[2] = l
  BY DEF FsmRows
<1> QED BY <1>1, ClusterWords DEF FsmTable

\* What is left of a view in which one node's state was replaced.
LEMMA OthersStay ==
  ASSUME NEW v \in Views, NEW n \in Nodes, NEW s \in LocalStates
  PROVE  /\ Live(v) \subseteq Live(Put(v, n, s)) \cup {v[n]}
         /\ s \notin {ABSENT, ERROR} => s \in Live(Put(v, n, s))
  BY DEF Live, Views, Put

\* A node that does its part by a row of the table leaves the cluster as busy as it was
\* for a node that still has its own part to do.
LEMMA StillBusy ==
  ASSUME NEW v \in Views, NEW n \in Nodes, NEW m \in Nodes \ {n}, AtWork(v, m),
         NEW row \in FsmRows(ClusterState(v), v[n]), row[4] \in LocalStates,
         NEW w, w = Put(v, n, row[4])
  PROVE  w[m] = v[m] /\ ClusterState(w) = ClusterState(v)
<1> DEFINE new == row[4]
           c == ClusterState(v)
<1>1. /\ w \in Views /\ w[m] = v[m] /\ Live(w) \subseteq Live(v) \cup {new}
      /\ Live(v) \subseteq Live(w) \cup {v[n]}
      /\ new \notin {ABSENT, ERROR} => new \in Live(w)
  BY ViewUpdated, OthersStay
<1>2. v[m] \in Live(v) /\ v[m] \in Live(w)
  <2>1. v[m] \notin {ABSENT, ERROR}
    BY Words DEF AtWork, Acknowledged, ConfigChanged
  <2> QED BY <1>1, <2>1, LiveMember
<1>3. /\ c = JOINING_CONFIG_CHANGING =>
           /\ v[m] \in Acknowledged
           /\ \/ v[n] = NORMAL_ACKNOWLEDGED_CHANGE /\ new = NORMAL_CONFIG_CHANGED
              \/ v[n] = JOINING_ACKNOWLEDGED_CHANGE /\ new = JOINING_CONFIG_CHANGED
      /\ c = JOINING_RESYNCING =>
           /\ v[m] \in ConfigChanged
           /\ v[n] \in {NORMAL_CONFIG_CHANGED, JOINING_CONFIG_CHANGED} /\ new = NORMAL
      /\ c = LEAVING_CONFIG_CHANGING =>
           /\ v[m] \in Acknowledged
           /\ \/ v[n] = NORMAL_ACKNOWLEDGED_CHANGE /\ new = NORMAL_CONFIG_CHANGED
              \/ v[n] = LEAVING_ACKNOWLEDGED_CHANGE /\ new = LEAVING_CONFIG_CHANGED
      /\ c = LEAVING_RESYNCING =>
           /\ v[m] \in ConfigChanged
           /\ \/ v[n] = NORMAL_CONFIG_CHANGED /\ new = NORMAL
              \/ v[n] = LEAVING_CONFIG_CHANGED /\ new = FINISHED
  BY BusyRows, ClusterWords DEF AtWork
<1>4. c \in {JOINING_CONFIG_CHANGING, JOINING_RESYNCING, LEAVING_CONFIG_CHANGING,
             LEAVING_RESYNCING}
  BY DEF AtWork
<1> HIDE DEF new, c
<1>5. CASE c = JOINING_CONFIG_CHANGING
  <2>1. /\ v[m] \in {NORMAL_ACKNOWLEDGED_CHANGE, JOINING_ACKNOWLEDGED_CHANGE}
        /\ Live(v) \subseteq {NORMAL_ACKNOWLEDGED_CHANGE, JOINING_ACKNOWLEDGED_CHANGE,
                              NORMAL_CONFIG_CHANGED, JOINING_CONFIG_CHANGED}
    BY <1>2, <1>3, <1>5, BusyStates, Words DEF c, Acknowledged
  <2>2. Live(w) \subseteq {NORMAL_ACKNOWLEDGED_CHANGE, JOINING_ACKNOWLEDGED_CHANGE,
                           NORMAL_CONFIG_CHANGED, JOINING_CONFIG_CHANGED}
    BY <1>1, <1>3, <1>5, <2>1
  <2> QED BY <1>1, <1>2, <1>5, <2>1, <2>2, BusyStates DEF c
<1>6. CASE c = JOINING_RESYNCING
  <2>1. /\ v[m] \in {NORMAL_CONFIG_CHANGED, JOINING_CONFIG_CHANGED}
        /\ Live(v) \subseteq {NORMAL, NORMAL_CONFIG_CHANGED, JOINING_CONFIG_CHANGED}
    BY <1>2, <1>3, <1>6, BusyStates, Words DEF c, ConfigChanged
  <2>2. Live(w) \subseteq {NORMAL, NORMAL_CONFIG_CHANGED, JOINING_CONFIG_CHANGED}
    BY <1>1, <1>3, <1>6, <2>1
  <2> QED BY <1>1, <1>2, <1>6, <2>1, <2>2, BusyStates DEF c
<1>7. CASE c = LEAVING_CONFIG_CHANGING
  <2>1. /\ v[m] \in {NORMAL_ACKNOWLEDGED_CHANGE, LEAVING_ACKNOWLEDGED_CHANGE}
        /\ Live(v) \subseteq {NORMAL_ACKNOWLEDGED_CHANGE, LEAVING_ACKNOWLEDGED_CHANGE,
                              NORMAL_CONFIG_CHANGED, LEAVING_CONFIG_CHANGED}
        /\ Live(v) \cap {LEAVING_ACKNOWLEDGED_CHANGE, LEAVING_CONFIG_CHANGED} # {}
    BY <1>2, <1>3, <1>7, BusyStates, Words DEF c, Acknowledged
  <2>2. Live(w) \subseteq {NORMAL_ACKNOWLEDGED_CHANGE, LEAVING_ACKNOWLEDGED_CHANGE,
                           NORMAL_CONFIG_CHANGED, LEAVING_CONFIG_CHANGED}
    BY <1>1, <1>3, <1>7, <2>1
  <2>3. Live(w) \cap {LEAVING_ACKNOWLEDGED_CHANGE, LEAVING_CONFIG_CHANGED} # {}
    BY <1>1, <1>3, <1>7, <2>1, Words
  <2> QED BY <1>1, <1>2, <1>7, <2>1, <2>2, <2>3, BusyStates DEF c
<1>8. CASE c = LEAVING_RESYNCING
  <2>1. /\ v[m] \in {NORMAL_CONFIG_CHANGED, LEAVING_CONFIG_CHANGED}
        /\ Live(v) \subseteq {NORMAL, FINISHED, NORMAL_CONFIG_CHANGED, LEAVING_CONFIG_CHANGED}
        /\ Live(v) \cap {FINISHED, LEAVING_CONFIG_CHANGED} # {}
    BY <1>2, <1>3, <1>8, BusyStates, Words DEF c, ConfigChanged
  <2>2. Live(w) \subseteq {NORMAL, FINISHED, NORMAL_CONFIG_CHANGED, LEAVING_CONFIG_CHANGED}
    BY <1>1, <1>3, <1>8, <2>1
  <2>3. Live(w) \cap {FINISHED, LEAVING_CONFIG_CHANGED} # {}
    BY <1>1, <1>3, <1>8, <2>1, Words
  <2> QED BY <1>1, <1>2, <1>8, <2>1, <2>2, <2>3, BusyStates DEF c
<1> QED BY <1>1, <1>4, <1>5, <1>6, <1>7, <1>8

\* Who has left holds nobody up, once the entry is gone.
LEMMA RemovedFromBusy ==
  ASSUME NEW v \in Views, NEW n \in Nodes, NEW m \in Nodes \ {n}, AtWork(v, m),
         LeftBehind(v, n), NEW w, w = Put(v, n, ABSENT)
  PROVE  w[m] = v[m] /\ ClusterState(w) = ClusterState(v)
<1>1. ABSENT \in LocalStates
  BY KnownStates
<1>2. /\ w[m] = v[m] /\ Live(w) \subseteq Live(v) /\ Live(v) \subseteq Live(w) \cup {v[n]}
      /\ v[n] \notin {ABSENT, ERROR} => v[n] \in Live(v)
  BY <1>1, ViewUpdated, OthersStay, LiveMember
<1>3. v[m] \in Live(v)
  BY LiveMember, Words DEF AtWork, Acknowledged, ConfigChanged
<1>4. \/ v[m] \in Acknowledged /\ Live(v) \subseteq Acknowledged \cup ConfigChanged
      \/ v[m] \in ConfigChanged /\ Live(v) \cap ConfigChanged # {}
  BY <1>3, ClusterStateMeans DEF AtWork
<1>5. v[n] \in {ABSENT, ERROR}
  BY <1>2, <1>4, Words DEF LeftBehind, Acknowledged, ConfigChanged
<1>6. Live(w) = Live(v)
  <2>1. Live(v) \cap {ABSENT, ERROR} = {}
    BY DEF Live
  <2> QED BY <1>2, <1>5, <2>1
<1> QED BY <1>2, <1>6, BusyStates DEF AtWork

\* A node that is not at work, or has left, is not put to work by the write of another.
LEMMA NotPutToWork ==
  ASSUME NEW v \in Views, NEW m \in Nodes, NEW w,
         \/ w[m] = v[m]
         \/ v[m] = WAITING_TO_JOIN /\ w[m] = JOINING
         \/ v[m] = WAITING_TO_LEAVE /\ w[m] = LEAVING
  PROVE  /\ v[m] \notin InWork => w[m] \notin InWork
         /\ LeftBehind(v, m) /\ Live(w) \cap ConfigChanged \subseteq Live(v) =>
              LeftBehind(w, m)
  BY Words DEF InWork, LeftBehind, Acknowledged, ConfigChanged

\* Such a write by n leaves node m its work, as long as n deletes no entry but of a
\* node that has left.
LEMMA WriteLeavesWork ==
  ASSUME Knows, NEW n \in Nodes, pc[n] = "write", turn[n].att = "current",
         turn[n].new = DELETE_ME => LeftBehind(view, n),
         NEW w, w = Updated(view, n, turn[n].new), NEW m \in Nodes \ {n}
  PROVE  /\ StillDue(view, w, m)
         /\ view[m] \notin InWork => w[m] \notin InWork
         /\ LeftBehind(view, m) => LeftBehind(w, m)
<1> DEFINE new == turn[n].new
           c == ClusterState(view)
<1>1. /\ view \in Views /\ new # NO_CHANGE /\ (new = DELETE_ME \/ Decided(n, view, new))
      /\ \/ w[m] = view[m]
         \/ view[m] = WAITING_TO_JOIN /\ w[m] = JOINING
         \/ view[m] = WAITING_TO_LEAVE /\ w[m] = LEAVING
  BY Typed, Writing, WrittenView DEF Keeps
<1>2. /\ view[m] \notin InWork => w[m] \notin InWork
      /\ LeftBehind(view, m) /\ Live(w) \cap ConfigChanged \subseteq Live(view) =>
           LeftBehind(w, m)
  BY <1>1, NotPutToWork
<1>3. CASE new = DELETE_ME
  <2>1. w = Put(view, n, ABSENT) /\ ABSENT \in LocalStates
    BY <1>3, Words, KnownStates DEF Updated, Put
  <2>2. Live(w) \subseteq Live(view)
    BY <1>1, <2>1, ViewUpdated
  <2>3. StillDue(view, w, m)
    BY <1>1, <1>3, <2>1, RemovedFromBusy DEF StillDue
  <2> QED BY <1>2, <2>2, <2>3
<1>4. CASE new \in {ALL_JOINING, ALL_LEAVING}
  <2>1. \/ w = SwitchAll(view, WAITING_TO_JOIN, JOINING) /\ c = JOIN_PENDING
        \/ w = SwitchAll(view, WAITING_TO_LEAVE, LEAVING) /\ c = LEAVE_PENDING
    <3>1. new \notin {DELETE_ME, WAITING_TO_JOIN, WAITING_TO_LEAVE}
      BY <1>4, Words
    <3>2. PICK row \in FsmRows(c, view[n]) : row[4] = new
      BY <1>1, <3>1 DEF Decided
    <3>3. RowKind(c, view[n], row[3], row[4])
      BY RowKinds
    <3> QED BY <1>4, <3>2, <3>3, Words DEF RowKind, Updated, Acknowledged, ConfigChanged
  <2>2. ~AtWork(view, m)
    <3>1. c \notin {JOINING_CONFIG_CHANGING, JOINING_RESYNCING, LEAVING_CONFIG_CHANGING,
                    LEAVING_RESYNCING}
      BY <2>1, ClusterWords
    <3> QED BY <3>1 DEF AtWork
  <2>3. Live(w) \subseteq Live(view) \cup {JOINING, LEAVING}
    <3>1. {WAITING_TO_JOIN, JOINING, WAITING_TO_LEAVE, LEAVING} \subseteq NodeStates
      BY KnownStates
    <3>2. /\ Live(SwitchAll(view, WAITING_TO_JOIN, JOINING)) \subseteq Live(view) \cup {JOINING}
          /\ Live(SwitchAll(view, WAITING_TO_LEAVE, LEAVING)) \subseteq Live(view) \cup {LEAVING}
      BY <1>1, <3>1, ViewSwitched
    <3> QED BY <2>1, <3>2
  <2>4. Live(w) \cap ConfigChanged \subseteq Live(view)
    BY <2>3, Words DEF ConfigChanged
  <2> QED BY <1>2, <2>2, <2>4 DEF StillDue
<1>5. CASE new \notin {DELETE_ME, ALL_JOINING, ALL_LEAVING}
  <2>1. w = Put(view, n, new) /\ new \in LocalStates
    <3>1. new \in News
      BY Writing
    <3> QED BY <1>1, <1>5, <3>1, KnownStates DEF Updated, Put, News
  <2>2. Live(w) \subseteq Live(view) \cup {new}
    BY <1>1, <2>1, ViewUpdated
  <2>3. CASE new \in {WAITING_TO_LEAVE, WAITING_TO_JOIN}
    <3>1. CanLeave(c, force[n]) \/ Joinable(c)
      BY <1>1, <1>5, <2>3, RowWrites DEF Decided
    <3>2. ~AtWork(view, m)
      BY <3>1, ClusterWords DEF AtWork, CanLeave, Joinable
    <3>3. Live(w) \cap ConfigChanged \subseteq Live(view)
      BY <2>2, <2>3, Words DEF ConfigChanged
    <3> QED BY <1>2, <3>2, <3>3 DEF StillDue
  <2>4. CASE new \notin {WAITING_TO_LEAVE, WAITING_TO_JOIN}
    <3>1. PICK row \in FsmRows(c, view[n]) : row[4] = new
      BY <1>1, <1>5, <2>4 DEF Decided
    <3>2. StillDue(view, w, m)
      BY <1>1, <2>1, <3>1, StillBusy DEF StillDue
    <3>3. new \in ConfigChanged => Live(view) \subseteq Acknowledged \cup ConfigChanged
      <4>1. RowKind(c, view[n], row[3], row[4])
        BY RowKinds
      <4>2. new \in ConfigChanged => c \in {JOINING_CONFIG_CHANGING, LEAVING_CONFIG_CHANGING}
        BY <3>1, <4>1, Words DEF RowKind, Acknowledged, ConfigChanged
      <4> QED BY <4>2, ClusterStateMeans
    <3>4. LeftBehind(view, m) => LeftBehind(w, m)
      <4>1. CASE view[m] \in {ABSENT, ERROR}
        BY <1>1, <4>1, Words DEF LeftBehind
      <4>2. CASE view[m] \notin {ABSENT, ERROR} /\ LeftBehind(view, m)
        <5>1. view[m] \in Live(view) /\ view[m] \notin Acknowledged \cup ConfigChanged
          BY <1>1, <4>2, LiveMember, Words DEF LeftBehind, Acknowledged, ConfigChanged
        <5> QED BY <1>2, <2>2, <3>3, <4>2, <5>1
      <4> QED BY <4>1, <4>2
    <3> QED BY <1>2, <3>2, <3>4
  <2> QED BY <2>3, <2>4
<1> QED BY <1>3, <1>4, <1>5

\* News of the key leaves another node its work.
LEMMA NewsWorks ==
  ASSUME TypeOK, NEW m \in Nodes, Works(m), NEW w \in Views,
         NEW ownturn \in Turns, NEW ownhandler \in Handlers,
         Publish(w, ownturn, ownhandler), ownturn[m] = turn[m],
         pc'[m] = pc[m], worked'[m] = worked[m],
         StillDue(view, w, m), view[m] \notin InWork => w[m] \notin InWork,
         LeftBehind(view, m) => LeftBehind(w, m)
  PROVE  Works(m)'
<1>1. /\ view' = w /\ turn'[m].info = turn[m].info /\ turn'[m].new = turn[m].new
      /\ pc[m] = "watch" => event'[m].view \in {w, event[m].view}
  BY AllNotice
<1>2. GoesBy(m)' \subseteq GoesBy(m) \cup {w}
  BY <1>1 DEF GoesBy
<1>3. \A v \in GoesBy(m)' : StillDue(v, w, m)
  <2>1. \A v \in GoesBy(m) : StillDue(v, view, m)
    BY DEF Works
  <2>2. ASSUME NEW v, StillDue(v, view, m) PROVE StillDue(v, w, m)
    BY <2>2 DEF StillDue, AtWork, InWork
  <2>3. StillDue(w, w, m)
    BY DEF StillDue
  <2> QED BY <1>2, <2>1, <2>2, <2>3
<1>4. Deletes(m)' => LeftBehind(w, m)
  <2>1. CASE Deletes(m)
    BY <2>1 DEF Works
  <2>2. ASSUME ~Deletes(m), Deletes(m)'
        PROVE  \E row \in FsmRows(ClusterState(w), w[m]) : row[4] = DELETE_ME
    BY <1>1, <1>2, <2>2 DEF Deletes
  <2>3. ASSUME NEW row \in FsmRows(ClusterState(w), w[m]), row[4] = DELETE_ME
        PROVE  LeftBehind(w, m)
    <3>1. ClusterState(w) = FINISHED_LEAVING /\ w[m] = FINISHED
      BY <2>3, RowKinds, Words DEF RowKind, Acknowledged, ConfigChanged
    <3>2. Live(w) \subseteq {NORMAL, FINISHED}
      BY <3>1, ClusterStateMeans
    <3> QED BY <3>1, <3>2, Words DEF LeftBehind, ConfigChanged
  <2> QED BY <2>1, <2>2, <2>3
<1>5. worked[m] \in {"none", "on_stable_cluster"} \/ Completed(m)'
  <2>1. ASSUME Completed(m) PROVE Completed(m)'
    <3>1. CASE pc[m] \in {"write", "reread"} /\ turn[m].new = DELETE_ME
      BY <1>1, <3>1 DEF Completed
    <3>2. CASE /\ worked[m] # "on_leaving_cluster"
               /\ pc[m] \in {"write", "reread"} /\ AtWork(turn[m].info, m)
      <4>1. AtWork(turn'[m].info, m)
        BY <1>1, <3>2
      <4> QED BY <3>2, <4>1 DEF Completed, AtWork
    <3>3. CASE /\ worked[m] # "on_leaving_cluster"
               /\ \A v \in GoesBy(m) \cup {view} : v[m] \notin InWork
      BY <1>1, <1>2, <3>3 DEF Completed
    <3> QED BY <2>1, <3>1, <3>2, <3>3 DEF Completed
  <2> QED BY <2>1 DEF Works
<1> QED BY <1>1, <1>3, <1>4, <1>5 DEF Works

\* What is worked on goes on as it was where a step leaves a node alone.
LEMMA RestWorks ==
  ASSUME NEW m \in Nodes, Works(m), view' = view, pc'[m] = pc[m], event'[m] = event[m],
         turn'[m] = turn[m], worked'[m] = worked[m]
  PROVE  Works(m)'
<1>1. GoesBy(m)' = GoesBy(m)
  BY DEF GoesBy
<1>2. Deletes(m)' = Deletes(m)
  BY <1>1 DEF Deletes
<1>3. Completed(m)' = Completed(m)
  BY <1>1 DEF Completed, AtWork
<1> QED BY <1>1, <1>2, <1>3 DEF Works

\* A thread that turns to something else has completed nothing that it is still to do.
LEMMA FreeWorks ==
  ASSUME NEW n \in Nodes, pc'[n] \in {"read", "create", "watch", "done"},
         pc'[n] = "watch" => event'[n].view = NoView,
         \/ worked'[n] \in {"none", "on_stable_cluster"}
         \/ worked'[n] # "on_leaving_cluster" /\ view'[n] \notin InWork
  PROVE  Works(n)'
<1>1. GoesBy(n)' = {}
  BY DEF GoesBy
<1>2. ~Deletes(n)'
  BY <1>1 DEF Deletes
<1> QED BY <1>1, <1>2 DEF Works, Completed

\* The FSM decides on what the node goes by.
LEMMA TakeWorks ==
  ASSUME Knows, NEW n \in Nodes, Works(n), NEW v \in Views \cup {NoView}, NEW i \in Indices,
         pc[n] \in {"read", "watch"}, Take(n, v, i),
         v = view \/ v \in GoesBy(n) \cup {NoView}
  PROVE  Works(n)'
<1>1. view' = view /\ worked' = worked
  BY DEF Take
<1>2. \/ worked[n] \in {"none", "on_stable_cluster"}
      \/ worked[n] # "on_leaving_cluster" /\ \A u \in GoesBy(n) \cup {view} : u[n] \notin InWork
  BY DEF Works, Completed
<1>3. CASE pc' = [pc EXCEPT ![n] = "read"]
  <2>1. pc'[n] = "read"
    BY <1>3, Typed
  <2> QED BY <1>1, <1>2, <2>1, FreeWorks
<1>4. ASSUME NEW move \in Moves(n, v),
             turn' = [turn EXCEPT ![n] = [info |-> v, new |-> move[2],
                                          att |-> i, hook |-> move[1]]],
             pc' = [pc EXCEPT ![n] = IF move[1] = "none" THEN "write" ELSE "hook"]
      PROVE  Works(n)'
  <2>1. /\ turn'[n].info = v /\ turn'[n].new = move[2] /\ pc'[n] \in {"write", "hook"}
    BY <1>4, Typed DEF Turns
  <2>2. GoesBy(n)' = {v} \ {NoView}
    BY <2>1 DEF GoesBy
  <2>3. \A u \in GoesBy(n)' : u = view \/ u \in GoesBy(n)
    BY <2>2
  <2>4. \A u \in GoesBy(n)' : StillDue(u, view, n)
    BY <2>3 DEF Works, StillDue
  <2>5. Deletes(n)' => LeftBehind(view, n)
    <3>1. SUFFICES ASSUME move[2] = DELETE_ME PROVE LeftBehind(view, n)
      BY <2>1 DEF Deletes
    <3>2. PICK row \in FsmRows(ClusterState(v), v[n]) : row[4] = DELETE_ME
      BY <3>1, MovesKnown, Words
    <3>3. v # NoView
      BY <3>2, EmptyView, NoRows
    <3>4. CASE v = view
      <4>1. ClusterState(view) = FINISHED_LEAVING /\ view[n] = FINISHED
        BY <3>2, <3>4, RowKinds, Words DEF RowKind, Acknowledged, ConfigChanged
      <4>2. Live(view) \subseteq {NORMAL, FINISHED}
        BY <4>1, ClusterStateMeans
      <4> QED BY <4>1, <4>2, Words DEF LeftBehind, ConfigChanged
    <3>5. CASE v \in GoesBy(n)
      <4>1. pc[n] = "watch"
        BY <3>5 DEF GoesBy
      <4>2. Deletes(n)
        BY <3>2, <3>5, <4>1 DEF Deletes
      <4> QED BY <4>2 DEF Works
    <3> QED BY <3>3, <3>4, <3>5
  <2>6. worked'[n] \in {"none", "on_stable_cluster"} \/ Completed(n)'
    BY <1>1, <1>2, <2>3 DEF Completed
  <2> QED BY <1>1, <2>1, <2>4, <2>5, <2>6 DEF Works
<1> QED BY <1>3, <1>4 DEF Take

\* What a thread is about to write, and what it means to the rest that it has not.
LEMMA ReadsWork ==
  ASSUME Knows, NEW n \in Nodes, Works(n), Read(n) \/ WatchReturns(n)
  PROVE  Works(n)'
<1>1. CASE Read(n)
  <2>1. pc[n] = "read" /\ Take(n, view, "current") /\ "current" \in Indices /\ view \in Views
    BY <1>1, Typed DEF Read, Runs, Indices
  <2> QED BY <2>1, TakeWorks
<1>2. CASE WatchReturns(n)
  <2>1. pc[n] = "watch" /\ Take(n, event[n].view, event[n].index)
    BY <1>2 DEF WatchReturns, Runs
  <2>2. event[n].view \in Views \cup {NoView} /\ event[n].index \in Indices
    BY Typed DEF Events
  <2>3. event[n].view \in GoesBy(n) \cup {NoView}
    BY <2>1 DEF GoesBy
  <2> QED BY <2>1, <2>2, <2>3, TakeWorks
<1> QED BY <1>1, <1>2

LEMMA HookWorks ==
  ASSUME Knows, NEW n \in Nodes, Works(n), HookReturns(n)
  PROVE  Works(n)'
<1>1. /\ pc[n] = "hook" /\ worked'[n] = turn[n].hook /\ view' = view
  BY Typed DEF HookReturns, Runs
<1>2. PICK row \in FsmRows(ClusterState(turn[n].info), turn[n].info[n]) :
        turn[n].hook = row[3] /\ turn[n].new = row[4]
  BY <1>1, Typed DEF Decides
<1>3. RowKind(ClusterState(turn[n].info), turn[n].info[n], turn[n].hook, turn[n].new)
  BY <1>2, RowKinds
<1>4. turn[n].hook # "none"
  BY <1>1, Typed DEF Decides
<1>5. CASE turn[n].new = NO_CHANGE
  <2>1. pc'[n] = "read"
    BY <1>5, Typed DEF HookReturns
  <2>2. turn[n].hook = "on_stable_cluster"
    BY <1>3, <1>4, <1>5, Words DEF RowKind, Acknowledged, ConfigChanged
  <2> QED BY <1>1, <2>1, <2>2, FreeWorks
<1>6. CASE turn[n].new # NO_CHANGE
  <2>1. /\ pc'[n] = "write" /\ turn'[n].info = turn[n].info /\ turn'[n].new = turn[n].new
    BY <1>6, Typed DEF HookReturns, Turns
  <2>2. GoesBy(n)' = GoesBy(n)
    BY <1>1, <2>1 DEF GoesBy
  <2>3. Deletes(n)' = Deletes(n)
    BY <1>1, <2>1 DEF Deletes
  <2>4. \/ turn[n].new = DELETE_ME
        \/ turn[n].hook # "on_leaving_cluster" /\ AtWork(turn[n].info, n)
    BY <1>3, <1>4, <1>6 DEF RowKind, AtWork
  <2>5. Completed(n)'
    BY <1>1, <2>1, <2>4 DEF Completed, AtWork
  <2> QED BY <1>1, <2>1, <2>2, <2>3, <2>5 DEF Works
<1> QED BY <1>5, <1>6

LEMMA RetryWorks ==
  ASSUME Knows, NEW n \in Nodes, Works(n), WriteContended(n) \/ Reread(n)
  PROVE  Works(n)'
<1>1. view' = view /\ worked' = worked /\ pc[n] \in {"write", "reread"}
  BY DEF WriteContended, Reread, Runs
<1>2. /\ turn[n].new = DELETE_ME \/ Decided(n, turn[n].info, turn[n].new)
      /\ turn[n].info \in Views \cup {NoView}
  BY <1>1, Writing, Typed DEF Turns
<1>3. /\ Deletes(n) => LeftBehind(view, n)
      /\ AtWork(turn[n].info, n) => StillDue(turn[n].info, view, n)
  <2>1. AtWork(turn[n].info, n) => turn[n].info # NoView
    BY EmptyView, ClusterWords DEF AtWork
  <2>2. AtWork(turn[n].info, n) => turn[n].info \in GoesBy(n)
    BY <1>1, <2>1 DEF GoesBy
  <2> QED BY <2>2 DEF Works
<1>4. \/ worked[n] \in {"none", "on_stable_cluster"}
      \/ turn[n].new = DELETE_ME
      \/ worked[n] # "on_leaving_cluster" /\ AtWork(turn[n].info, n)
      \/ worked[n] # "on_leaving_cluster" /\ view[n] \notin InWork
  BY DEF Works, Completed
<1>5. CASE WriteContended(n)
  <2>1. CASE turn[n].new \in {ALL_JOINING, ALL_LEAVING}
    <3>1. pc'[n] = "read"
      BY <1>5, <2>1, Typed DEF WriteContended
    <3>2. turn[n].new \notin {DELETE_ME, WAITING_TO_JOIN, WAITING_TO_LEAVE}
      BY <2>1, Words
    <3>3. PICK row \in FsmRows(ClusterState(turn[n].info), turn[n].info[n]) :
            row[4] = turn[n].new
      BY <1>2, <3>2 DEF Decided
    <3>4. RowKind(ClusterState(turn[n].info), turn[n].info[n], row[3], row[4])
      BY RowKinds
    <3>5. ClusterState(turn[n].info) \in {JOIN_PENDING, LEAVE_PENDING}
      BY <2>1, <3>3, <3>4, Words DEF RowKind, Acknowledged, ConfigChanged
    <3>6. ~AtWork(turn[n].info, n)
      BY <3>5, ClusterWords DEF AtWork
    <3> QED BY <1>1, <1>4, <3>1, <3>2, <3>6, FreeWorks
  <2>2. CASE turn[n].new \notin {ALL_JOINING, ALL_LEAVING}
    <3>1. pc'[n] = "reread" /\ pc[n] = "write" /\ turn' = turn
      BY <1>5, <2>2, Typed DEF WriteContended, Runs
    <3>2. GoesBy(n)' = GoesBy(n)
      BY <3>1 DEF GoesBy
    <3>3. Deletes(n)' = Deletes(n)
      BY <3>1 DEF Deletes
    <3>4. Completed(n)' = Completed(n)
      BY <1>1, <3>1, <3>2 DEF Completed, AtWork
    <3> QED BY <1>1, <3>1, <3>2, <3>3, <3>4 DEF Works
  <2> QED BY <2>1, <2>2
<1>6. CASE Reread(n)
  <2>1. turn[n].new = DELETE_ME \/ turn[n].new # ERROR
    BY <1>2, DecidedKinds
  <2>2. CASE MayRetry(n, turn[n].info, view, turn[n].new)
    <3>1. pc'[n] = "write" /\ turn'[n].info = view /\ turn'[n].new = turn[n].new
      BY <1>6, <2>2, Typed DEF Reread, Turns
    <3>2. GoesBy(n)' \subseteq {view}
      BY <3>1 DEF GoesBy
    <3>3. \A v \in GoesBy(n)' : StillDue(v, view, n)
      BY <3>2 DEF StillDue
    <3>4. Deletes(n)' => LeftBehind(view, n)
      BY <1>1, <1>3, <3>1 DEF Deletes
    <3>5. AtWork(turn[n].info, n) => AtWork(view, n) \/ turn[n].new = DELETE_ME
      BY <2>1, <2>2 DEF MayRetry, AtWork
    <3>6. worked'[n] \in {"none", "on_stable_cluster"} \/ Completed(n)'
      BY <1>1, <1>4, <3>1, <3>2, <3>5 DEF Completed, AtWork
    <3> QED BY <1>1, <3>1, <3>3, <3>4, <3>6 DEF Works
  <2>3. CASE ~MayRetry(n, turn[n].info, view, turn[n].new)
    <3>1. pc'[n] = "read"
      BY <1>6, <2>3, Typed DEF Reread
    <3>2. turn[n].new # DELETE_ME
      BY <2>3 DEF MayRetry
    <3>3. AtWork(turn[n].info, n) => view[n] \notin InWork
      BY <1>3, <2>3 DEF StillDue, MayRetry
    <3> QED BY <1>1, <1>4, <3>1, <3>2, <3>3, FreeWorks
  <2> QED BY <2>2, <2>3
<1> QED BY <1>5, <1>6

------------------------------------------------------------------------------
(* The phases of a resize.                                                 *)

\* Some phase has all the states that live members of v are in.
Classified(v) == \E phase \in Abstract!Phases : Live(v) \subseteq phase

LEMMA ThePhases ==
  /\ {NORMAL, WAITING_TO_JOIN} \in Abstract!Phases
  /\ {NORMAL, JOINING, NORMAL_ACKNOWLEDGED_CHANGE, JOINING_ACKNOWLEDGED_CHANGE}
       \in Abstract!Phases
  /\ {NORMAL_ACKNOWLEDGED_CHANGE, JOINING_ACKNOWLEDGED_CHANGE, NORMAL_CONFIG_CHANGED,
      JOINING_CONFIG_CHANGED} \in Abstract!Phases
  /\ {NORMAL_CONFIG_CHANGED, JOINING_CONFIG_CHANGED, NORMAL} \in Abstract!Phases
  /\ {NORMAL, WAITING_TO_LEAVE} \in Abstract!Phases
  /\ {NORMAL, LEAVING, NORMAL_ACKNOWLEDGED_CHANGE, LEAVING_ACKNOWLEDGED_CHANGE}
       \in Abstract!Phases
  /\ {NORMAL_ACKNOWLEDGED_CHANGE, LEAVING_ACKNOWLEDGED_CHANGE, NORMAL_CONFIG_CHANGED,
      LEAVING_CONFIG_CHANGED} \in Abstract!Phases
  /\ {NORMAL_CONFIG_CHANGED, LEAVING_CONFIG_CHANGED, NORMAL, FINISHED} \in Abstract!Phases
  BY SameWords DEF Abstract!Phases

LEMMA SamePhase ==
  /\ Abstract!InPhase <=> Classified(view)
  /\ Abstract!InPhase' <=> Classified(view')
<1>1. \A v : Abstract!Live(v) = Live(v)
  BY SameWords DEF Abstract!Live, Live
<1> QED BY <1>1 DEF Abstract!InPhase, Classified

\* What live members a write may meet, and the phase it leads to.
LEMMA StartedStates ==
  ASSUME NEW v
  PROVE  LET c == ClusterState(v)
             live == Live(v)
         IN  /\ c \in {EMPTY, STABLE, JOIN_PENDING} => live \subseteq {NORMAL, WAITING_TO_JOIN}
             /\ c \in {STABLE, STABLE_WITH_ERRORS, LEAVE_PENDING} =>
                  live \subseteq {NORMAL, WAITING_TO_LEAVE}
             /\ c = STARTED_JOINING =>
                  live \subseteq {NORMAL, JOINING, NORMAL_ACKNOWLEDGED_CHANGE,
                                  JOINING_ACKNOWLEDGED_CHANGE}
             /\ c = STARTED_LEAVING =>
                  live \subseteq {NORMAL, LEAVING, NORMAL_ACKNOWLEDGED_CHANGE,
                                  LEAVING_ACKNOWLEDGED_CHANGE}
  BY ClusterWords DEF ClusterState, StateCheck

LEMMA StartedRows ==
  ASSUME NEW c, NEW l, NEW row \in FsmRows(c, l)
  PROVE  /\ c = STARTED_JOINING =>
              row[4] \in {NORMAL_ACKNOWLEDGED_CHANGE, JOINING_ACKNOWLEDGED_CHANGE}
         /\ c = STARTED_LEAVING =>
              row[4] \in {NORMAL_ACKNOWLEDGED_CHANGE, LEAVING_ACKNOWLEDGED_CHANGE}
         /\ \/ c \in {STARTED_JOINING, STARTED_LEAVING, JOINING_CONFIG_CHANGING,
                       JOINING_RESYNCING, LEAVING_CONFIG_CHANGING, LEAVING_RESYNCING}
            \/ row[4] \in {NO_CHANGE, DELETE_ME}
            \/ row[4] = ALL_JOINING /\ c = JOIN_PENDING
            \/ row[4] = ALL_LEAVING /\ c = LEAVE_PENDING
<1>1. row \in FsmTable /\ row[1] = c /\ row[2] = l
  BY DEF FsmRows
<1> QED BY <1>1, ClusterWords DEF FsmTable

\* Fewer live members are of the same phase.
LEMMA ShrinksInPhase ==
  ASSUME NEW v \in Views, Classified(v), NEW n \in Nodes, NEW s \in {ABSENT, ERROR}
  PROVE  Classified(Put(v, n, s))
<1>1. s \in LocalStates
  BY KnownStates
<1>2. Live(Put(v, n, s)) \subseteq Live(v)
  BY <1>1, ViewUpdated
<1> QED BY <1>2 DEF Classified

\* Whatever is due in a view leads from one phase to a phase.
LEMMA MovesInPhase ==
  ASSUME NEW v \in Views, NEW n \in Nodes, NEW new, Due(v, n, new),
         new \notin {NO_CHANGE, DELETE_ME}
  PROVE  Classified(Updated(v, n, new))
<1> DEFINE c == ClusterState(v)
           w == Updated(v, n, new)
<1>1. CASE new = WAITING_TO_LEAVE /\ \E forced \in BOOLEAN : CanLeave(c, forced)
  <2>1. w = Put(v, n, WAITING_TO_LEAVE) /\ WAITING_TO_LEAVE \in LocalStates
    BY <1>1, Words, KnownStates DEF Updated, Put
  <2>2. c \in {STABLE, STABLE_WITH_ERRORS, LEAVE_PENDING}
    BY <1>1 DEF CanLeave
  <2>3. Live(w) \subseteq {NORMAL, WAITING_TO_LEAVE}
    BY <2>1, <2>2, StartedStates, ViewUpdated
  <2> QED BY <2>3, ThePhases DEF Classified
<1>2. CASE new = WAITING_TO_JOIN /\ Joinable(c)
  <2>1. w = Put(v, n, WAITING_TO_JOIN) /\ WAITING_TO_JOIN \in LocalStates
    BY <1>2, Words, KnownStates DEF Updated, Put
  <2>2. c \in {EMPTY, STABLE, JOIN_PENDING}
    BY <1>2 DEF Joinable
  <2>3. Live(w) \subseteq {NORMAL, WAITING_TO_JOIN}
    BY <2>1, <2>2, StartedStates, ViewUpdated
  <2> QED BY <2>3, ThePhases DEF Classified
<1>3. ASSUME NEW row \in FsmRows(c, v[n]), row[4] = new
      PROVE  Classified(w)
  <2>1. CASE new = ALL_JOINING /\ c = JOIN_PENDING
    <3>1. w = SwitchAll(v, WAITING_TO_JOIN, JOINING)
      BY <2>1 DEF Updated
    <3>2. Live(v) \subseteq {NORMAL, WAITING_TO_JOIN}
      BY <2>1, StartedStates
    <3>3. Live(w) \subseteq {NORMAL, JOINING}
      BY <3>1, <3>2, KnownStates, ViewSwitched
    <3> QED BY <3>3, ThePhases DEF Classified
  <2>2. CASE new = ALL_LEAVING /\ c = LEAVE_PENDING
    <3>1. w = SwitchAll(v, WAITING_TO_LEAVE, LEAVING)
      BY <2>2, Words DEF Updated
    <3>2. Live(v) \subseteq {NORMAL, WAITING_TO_LEAVE}
      BY <2>2, StartedStates
    <3>3. Live(w) \subseteq {NORMAL, LEAVING}
      BY <3>1, <3>2, KnownStates, ViewSwitched
    <3> QED BY <3>3, ThePhases DEF Classified
  <2>3. CASE c \in {STARTED_JOINING, STARTED_LEAVING, JOINING_CONFIG_CHANGING,
                    JOINING_RESYNCING, LEAVING_CONFIG_CHANGING, LEAVING_RESYNCING}
    <3>1. PICK phase \in Abstract!Phases : Live(v) \cup {new} \subseteq phase
      BY <1>3, <2>3, StartedRows, StartedStates, BusyRows, BusyStates, ThePhases
    <3>2. new \in Acknowledged \cup ConfigChanged \cup {NORMAL, FINISHED}
      BY <1>3, <2>3, StartedRows, BusyRows DEF Acknowledged, ConfigChanged
    <3>3. w = Put(v, n, new) /\ new \in LocalStates
      BY <3>2, Words, KnownStates DEF Updated, Put, Acknowledged, ConfigChanged
    <3>4. Live(w) \subseteq Live(v) \cup {new}
      BY <3>3, ViewUpdated
    <3> QED BY <3>1, <3>4 DEF Classified
  <2> QED BY <1>3, <2>1, <2>2, <2>3, StartedRows
<1> QED BY <1>1, <1>2, <1>3 DEF Due

\* Every step leaves the live members in one phase: a leave_cluster that was overtaken
\* writes an old view, but one that has no resize in it.
LEMMA NextInPhase ==
  ASSUME Knows, Abstract!InPhase, [Next]_vars
  PROVE  Abstract!InPhase'
<1>1. Classified(view) /\ view \in Views
  BY SamePhase, Typed
<1>2. SUFFICES view' = view \/ Classified(view')
  BY <1>1, SamePhase
<1>3. CASE UNCHANGED vars
  BY <1>3 DEF vars
<1>4. ASSUME NEW n \in Nodes,
             Main(n) \/ LeaveCluster(n) \/ Quit(n) \/ TakeOver(n) \/ Raises(n) \/ Suffers(n)
      PROVE  view' = view \/ Classified(view')
  <2>1. CASE Write(n) \/ WriteRaises(n, TRUE)
    <3>1. /\ pc[n] = "write" /\ turn[n].att = "current"
          /\ view' = Updated(turn[n].info, n, turn[n].new)
      BY <2>1 DEF Write, WriteRaises, Runs, Publish
    <3>2. /\ turn[n].info = view /\ turn[n].new # NO_CHANGE
          /\ turn[n].new = DELETE_ME \/ Decided(n, view, turn[n].new)
      BY <3>1, Writing
    <3>3. CASE turn[n].new = DELETE_ME
      <4>1. view' = Put(view, n, ABSENT)
        BY <3>1, <3>2, <3>3, Words DEF Updated, Put
      <4> QED BY <1>1, <4>1, ShrinksInPhase
    <3>4. CASE turn[n].new # DELETE_ME
      <4>1. Due(view, n, turn[n].new)
        BY <3>2, <3>4, DecidedKinds
      <4> QED BY <1>1, <3>1, <3>2, <3>4, <4>1, MovesInPhase
    <3> QED BY <3>3, <3>4
  <2>2. CASE HandlerWrite(n) \/ HandlerWriteRaises(n, TRUE)
    <3>1. view' = Put(handler[n].info, n, WAITING_TO_LEAVE) /\ Handles(n, "write")
      BY <2>2, Requested, HandlerWrites DEF HandlerApplies, Publish
    <3>2. /\ handler[n].info \in Views /\ CanLeave(ClusterState(handler[n].info), force[n])
          /\ WAITING_TO_LEAVE \in LocalStates
      BY <3>1, Requested, KnownStates
    <3>3. Live(handler[n].info) \subseteq {NORMAL, WAITING_TO_LEAVE}
      BY <3>2, StartedStates DEF CanLeave
    <3>4. Live(view') \subseteq {NORMAL, WAITING_TO_LEAVE}
      BY <3>1, <3>2, <3>3, ViewUpdated
    <3> QED BY <3>4, ThePhases DEF Classified
  <2>3. CASE MarkFailed(n)
    <3>1. view' = Put(view, n, ERROR)
      BY <2>3 DEF MarkFailed, Publish, Put
    <3> QED BY <1>1, <3>1, ShrinksInPhase
  <2>4. CASE CreateKey(n)
    BY <2>4, Typed DEF CreateKey, BeforeCreation
  <2>5. CASE \/ Read(n) \/ WatchReturns(n) \/ StartWatch(n) \/ ReadMissing(n) \/ CreateFails(n)
             \/ HookReturns(n) \/ WriteContended(n) \/ Reread(n)
    BY <2>5 DEF Read, WatchReturns, Take, StartWatch, ReadMissing, CreateFails, HookReturns,
                WriteContended, Reread
  <2>6. CASE \/ HandlerRead(n) \/ HandlerReadMissing(n) \/ HandlerCreate(n)
             \/ HandlerDecide(n) \/ HandlerContended(n) \/ HandlerReread(n)
             \/ Quit(n) \/ TakeOver(n) \/ Restart(n) \/ StopEarly(n)
    BY <2>6 DEF HandlerRead, HandlerReadMissing, HandlerCreate, HandlerDecide,
                HandlerContended, HandlerReread, Quit, TakeOver, Restart, StopEarly
  <2>7. CASE \/ ReadRaises(n) \/ WatchRaises(n) \/ CreateRaises(n) \/ HookRaises(n)
             \/ RereadRaises(n) \/ HandlerReadRaises(n) \/ HandlerRereadRaises(n)
             \/ WriteRaises(n, FALSE) \/ HandlerWriteRaises(n, FALSE)
    BY <2>7 DEF ReadRaises, WatchRaises, Take, CreateRaises, HookRaises, RereadRaises,
                HandlerReadRaises, HandlerRereadRaises, WriteRaises, HandlerWriteRaises
  <2> QED BY <1>4, <2>1, <2>2, <2>3, <2>4, <2>5, <2>6, <2>7
          DEF Main, LeaveCluster, Raises, Suffers
<1> QED BY <1>3, <1>4 DEF Next

LEMMA InitInPhase ==
  ASSUME Init
  PROVE  Abstract!InPhase
<1>1. Live(view) = {}
  BY DEF Init, Live
<1> QED BY <1>1, SamePhase, ThePhases DEF Classified

\* A view of one phase is one that calculate_cluster_state knows.
LEMMA PhaseIsValid ==
  ASSUME Abstract!InPhase
  PROVE  Abstract!NeverInvalid
<1>1. PICK phase \in Abstract!Phases : Live(view) \subseteq phase
  BY SamePhase DEF Classified
<1>2. ClusterState(view) # INVALID_CLUSTER_STATE
  BY <1>1, SameWords, Words, ClusterWords DEF ClusterState, StateCheck, Abstract!Phases
<1> QED BY <1>2, SameClusterState, SameClusterWords DEF Abstract!NeverInvalid

LEMMA WriteWorks ==
  ASSUME Knows, NEW n \in Nodes, \A m \in Nodes : Works(m), Write(n)
  PROVE  \A m \in Nodes : Works(m)'
<1> DEFINE w == Updated(view, n, turn[n].new)
           t == [turn EXCEPT ![n] = NoTurn]
<1>1. /\ pc[n] = "write" /\ turn[n].att = "current"
      /\ pc' = [pc EXCEPT ![n] = AfterTurn(n)] /\ worked' = [worked EXCEPT ![n] = "none"]
      /\ Publish(Updated(turn[n].info, n, turn[n].new), t, handler)
  BY DEF Write, Runs
<1>2. turn[n].info = view /\ w \in Views
  BY <1>1, WrittenView
<1>3. /\ Publish(w, t, handler) /\ handler \in Handlers /\ t \in Turns
      /\ \A m \in Nodes \ {n} : t[m] = turn[m]
  BY <1>1, <1>2, TurnDropped, Typed
<1>4. turn[n].new = DELETE_ME => LeftBehind(view, n)
  <2>1. Works(n)
    OBVIOUS
  <2> QED BY <1>1, <2>1 DEF Works, Deletes
<1>5. ASSUME NEW m \in Nodes \ {n} PROVE Works(m)'
  <2>1. /\ StillDue(view, w, m)
        /\ view[m] \notin InWork => w[m] \notin InWork
        /\ LeftBehind(view, m) => LeftBehind(w, m)
    BY <1>1, <1>4, WriteLeavesWork
  <2>2. pc'[m] = pc[m] /\ worked'[m] = worked[m]
    BY <1>1, Typed
  <2> HIDE DEF w, t
  <2> QED BY <1>2, <1>3, <2>1, <2>2, NewsWorks DEF Knows
<1>6. Works(n)'
  <2>1. pc'[n] \in {"read", "done"} /\ worked'[n] = "none"
    BY <1>1, Typed DEF AfterTurn
  <2> QED BY <2>1, FreeWorks
<1> QED BY <1>5, <1>6

\* leave_cluster writes a view that nobody works in, be it old.
LEMMA RequestWorks ==
  ASSUME Knows, NEW n \in Nodes, \A m \in Nodes : Works(m), HandlerWrite(n)
  PROVE  \A m \in Nodes : Works(m)'
<1> DEFINE w == Put(handler[n].info, n, WAITING_TO_LEAVE)
           h == [handler EXCEPT ![n] = Idle]
<1>1. Handles(n, "write") /\ Publish(w, turn, h) /\ pc' = pc /\ worked' = worked
  BY Requested DEF HandlerWrite
<1>2. h \in Handlers /\ turn \in Turns /\ w \in Views
  BY <1>1, Requested, NothingToDo, Typed DEF Handlers
<1>3. /\ \A m \in Nodes : w[m] \in {NORMAL, WAITING_TO_LEAVE, ABSENT, ERROR}
      /\ Live(w) \subseteq {NORMAL, WAITING_TO_LEAVE}
  <2>1. /\ handler[n].info \in Views /\ CanLeave(ClusterState(handler[n].info), force[n])
        /\ WAITING_TO_LEAVE \in LocalStates
    BY <1>1, Requested, KnownStates
  <2>2. \A m \in Nodes : handler[n].info[m] \in {NORMAL, WAITING_TO_LEAVE, ABSENT, ERROR}
    BY <2>1, NobodyLeaving
  <2>3. w[n] = WAITING_TO_LEAVE /\ \A m \in Nodes \ {n} : w[m] = handler[n].info[m]
    BY <2>1, ViewUpdated
  <2>4. \A m \in Nodes : w[m] \in {NORMAL, WAITING_TO_LEAVE, ABSENT, ERROR}
    BY <2>2, <2>3
  <2> QED BY <1>2, <2>4 DEF Live, Views
<1> HIDE DEF w, h
<1>4. ASSUME NEW m \in Nodes PROVE Works(m)'
  <2>1. w[m] \notin InWork /\ LeftBehind(w, m)
    BY <1>3, Words DEF InWork, LeftBehind, Acknowledged, ConfigChanged
  <2> QED BY <1>1, <1>2, <2>1, NewsWorks DEF Knows, StillDue
<1> QED BY <1>4

\* A step that no failure makes leaves every node with the work it has to do.
LEMMA NextWorks ==
  ASSUME Knows, Unfailing, [Next]_vars
  PROVE  Unfailing'
<1>1. CASE UNCHANGED vars
  <2>1. UNCHANGED <<view, pc, event, turn, worked, faults, glitches>>
    BY <1>1 DEF vars, syncVars, budgets
  <2> QED BY <2>1, RestWorks DEF Unfailing
<1>2. ASSUME NEW n \in Nodes,
             Main(n) \/ LeaveCluster(n) \/ Quit(n) \/ TakeOver(n) \/ Raises(n) \/ Suffers(n)
      PROVE  Unfailing'
  <2>1. CASE Raises(n) \/ Suffers(n)
    <3>1. Fault \/ Glitch
      BY <2>1 DEF Raises, ReadRaises, WatchRaises, CreateRaises, HookRaises, RereadRaises,
                  HandlerReadRaises, HandlerRereadRaises, HandlerWriteRaises, WriteRaises,
                  Suffers, Restart, MarkFailed, StopEarly
    <3>2. faults \in Nat /\ glitches \in Nat
      BY Typed, ConstantsAssumption DEF Budgets
    <3> QED BY <3>1, <3>2 DEF Fault, Glitch, Unfailing
  <2>2. CASE (Main(n) \/ LeaveCluster(n) \/ Quit(n) \/ TakeOver(n)) /\ ~(Raises(n) \/ Suffers(n))
    <3>1. faults' = faults /\ glitches' = glitches
      BY <2>2 DEF Main, Read, StartWatch, WatchReturns, ReadMissing, CreateKey, CreateFails,
                  HookReturns, Write, WriteContended, Reread, LeaveCluster, HandlerRead,
                  HandlerReadMissing, HandlerCreate, HandlerDecide, HandlerWrite,
                  HandlerContended, HandlerReread, Quit, TakeOver, budgets
    <3> SUFFICES ASSUME faults = 0, glitches = 0 PROVE \A m \in Nodes : Works(m)'
      BY <3>1 DEF Unfailing
    <3>2. \A m \in Nodes : Works(m)
      BY DEF Unfailing
    <3>3. pc[n] # "dead" /\ Works(n)
      BY <3>2 DEF Works
    <3>4. CASE Write(n)
      BY <3>2, <3>4, WriteWorks
    <3>5. CASE HandlerWrite(n)
      BY <3>2, <3>5, RequestWorks
    <3>6. CASE \/ Quit(n) \/ HandlerRead(n) \/ HandlerReadMissing(n) \/ HandlerCreate(n)
               \/ HandlerDecide(n) \/ HandlerContended(n) \/ HandlerReread(n)
      <4>1. UNCHANGED <<view, pc, event, turn, worked>>
        BY <3>6 DEF Quit, HandlerRead, HandlerReadMissing, HandlerCreate, HandlerDecide,
                    HandlerContended, HandlerReread, syncVars
      <4> QED BY <3>2, <4>1, RestWorks
    <3>7. ASSUME view' = view, Works(n)',
                 \A m \in Nodes \ {n} : /\ pc'[m] = pc[m] /\ event'[m] = event[m]
                                        /\ turn'[m] = turn[m] /\ worked'[m] = worked[m]
          PROVE  \A m \in Nodes : Works(m)'
      BY <3>2, <3>7, RestWorks
    <3>8. CASE Read(n) \/ WatchReturns(n)
      <4>1. \E v, i : Take(n, v, i)
        BY <3>8 DEF Read, WatchReturns
      <4>2. /\ view' = view
            /\ \A m \in Nodes \ {n} : /\ pc'[m] = pc[m] /\ event'[m] = event[m]
                                      /\ turn'[m] = turn[m] /\ worked'[m] = worked[m]
        <5>1. PICK v, i : Take(n, v, i)
          BY <4>1
        <5>2. view' = view /\ worked' = worked /\ event' = [event EXCEPT ![n] = NoEvent]
          BY <5>1 DEF Take
        <5>3. \A m \in Nodes \ {n} : pc'[m] = pc[m]
          BY <5>1, Typed DEF Take
        <5>4. \A m \in Nodes \ {n} : turn'[m] = turn[m]
          <6>1. turn' = turn \/ \E x : turn' = [turn EXCEPT ![n] = x]
            BY <5>1 DEF Take
          <6> QED BY <6>1, Typed DEF Turns
        <5> QED BY <5>2, <5>3, <5>4, Typed
      <4> QED BY <3>3, <3>7, <3>8, <4>2, ReadsWork
    <3>9. CASE HookReturns(n) \/ WriteContended(n) \/ Reread(n)
      <4>1. /\ view' = view
            /\ \A m \in Nodes \ {n} : /\ pc'[m] = pc[m] /\ event'[m] = event[m]
                                      /\ turn'[m] = turn[m] /\ worked'[m] = worked[m]
        <5>1. view' = view /\ event' = event
          BY <3>9 DEF HookReturns, WriteContended, Reread
        <5>2. \/ worked' = worked
              \/ worked' = [worked EXCEPT ![n] = turn[n].hook]
          BY <3>9 DEF HookReturns, WriteContended, Reread
        <5>3. \E s : pc' = [pc EXCEPT ![n] = s]
          BY <3>9 DEF HookReturns, WriteContended, Reread
        <5>4. turn' = turn \/ \E x : turn' = [turn EXCEPT ![n] = x]
          <6>1. CASE HookReturns(n)
            BY <6>1 DEF HookReturns
          <6>2. CASE WriteContended(n)
            BY <6>2 DEF WriteContended
          <6>3. CASE Reread(n)
            BY <6>3 DEF Reread
          <6> QED BY <3>9, <6>1, <6>2, <6>3
        <5>5. \A m \in Nodes \ {n} : pc'[m] = pc[m] /\ worked'[m] = worked[m]
          BY <5>2, <5>3, Typed
        <5>6. \A m \in Nodes \ {n} : turn'[m] = turn[m]
          BY <5>4, Typed DEF Turns
        <5> QED BY <5>1, <5>5, <5>6
      <4> QED BY <3>3, <3>7, <3>9, <4>1, HookWorks, RetryWorks
    <3>10. CASE StartWatch(n) \/ ReadMissing(n) \/ CreateFails(n)
      <4>1. /\ view' = view /\ pc[n] \in {"read", "create"}
            /\ worked' = worked /\ event' = event
            /\ pc'[n] \in {"read", "create", "watch"}
            /\ \A m \in Nodes \ {n} : pc'[m] = pc[m] /\ turn'[m] = turn[m]
        BY <3>10, Typed DEF StartWatch, ReadMissing, CreateFails, Runs
      <4>2. event[n].view = NoView
        BY <4>1, Typed, NothingToDo DEF Decides
      <4>3. \/ worked[n] \in {"none", "on_stable_cluster"}
            \/ worked[n] # "on_leaving_cluster" /\ view[n] \notin InWork
        BY <3>3, <4>1 DEF Works, Completed
      <4>4. Works(n)'
        BY <4>1, <4>2, <4>3, FreeWorks
      <4> QED BY <3>7, <4>1, <4>4
    <3>11. CASE CreateKey(n)
      <4> DEFINE empty == [m \in Nodes |-> ABSENT]
      <4>1. /\ pc[n] = "create" /\ ~created /\ view' = empty /\ pc'[n] = "write"
            /\ worked' = worked /\ event' = event
            /\ turn'[n].info = empty /\ turn'[n].new = WAITING_TO_JOIN
            /\ \A m \in Nodes \ {n} : pc'[m] = pc[m] /\ turn'[m] = turn[m]
        BY <3>11, Typed DEF CreateKey, Runs, Turns
      <4>2. view = empty
        BY <4>1, Typed DEF BeforeCreation
      <4>3. GoesBy(n)' \subseteq {view}
        BY <4>1, <4>2 DEF GoesBy
      <4>4. ~Deletes(n)'
        BY <4>1, Words DEF Deletes
      <4>5. \/ worked[n] \in {"none", "on_stable_cluster"}
            \/ worked[n] # "on_leaving_cluster" /\ view[n] \notin InWork
        BY <3>3, <4>1 DEF Works, Completed
      <4>6. worked'[n] \in {"none", "on_stable_cluster"} \/ Completed(n)'
        BY <4>1, <4>2, <4>3, <4>5 DEF Completed
      <4>7. \A v \in GoesBy(n)' : StillDue(v, view', n)
        BY <4>1, <4>2, <4>3 DEF StillDue
      <4>8. Works(n)'
        BY <4>1, <4>4, <4>6, <4>7 DEF Works
      <4> QED BY <3>7, <4>1, <4>2, <4>8
    <3> QED BY <2>2, <3>3, <3>4, <3>5, <3>6, <3>8, <3>9, <3>10, <3>11
            DEF Main, LeaveCluster, TakeOver
  <2> QED BY <1>2, <2>1, <2>2
<1> QED BY <1>1, <1>2 DEF Next

LEMMA InitWorks ==
  ASSUME Init
  PROVE  Unfailing
<1> SUFFICES ASSUME NEW n \in Nodes PROVE Works(n)
  BY DEF Unfailing
<1>1. pc[n] = "read" /\ worked[n] = "none"
  BY DEF Init
<1>2. GoesBy(n) = {} /\ ~Deletes(n)
  BY <1>1 DEF GoesBy, Deletes
<1> QED BY <1>1, <1>2 DEF Works

------------------------------------------------------------------------------
(* The invariant, and what it means.                                       *)

\* Whatever may overtake what, however often a node is asked to leave and however many
\* failures there are, the invariant of the synchronizers holds, for any set of nodes.
THEOREM Invariance == Safety => []IInv
<1>1. Init => IInv
  BY InitKnows, InitWorks, InitInPhase DEF IInv, Orderly, InOrder
<1>2. IInv /\ [Next]_vars => IInv'
  BY NextPreserves, NextWorks, NextInPhase DEF IInv, Preserved
<1> QED BY <1>1, <1>2, PTL DEF Safety

\* The variables of the synchronizers have the types they are given.
THEOREM TypeCorrect == Safety => []TypeOK
<1>1. IInv => TypeOK
  BY DEF IInv, Knows
<1> QED BY <1>1, Invariance, PTL

\* No interleaving of the threads, not even a leave_cluster that undoes the writes of
\* others, and no failure makes the view one that the FSM cannot classify
\* (calculate_cluster_state, cluster_state.py:54-113).
THEOREM NeverInvalidHolds == Safety => []Abstract!NeverInvalid
<1>1. IInv => Abstract!NeverInvalid
  BY PhaseIsValid DEF IInv
<1> QED BY <1>1, Invariance, PTL

\* Without failures no node is made to repeat a piece of work by contended writes, stale
\* reads and wakeups, or by a leave_cluster that writes an old view back
\* (write_to_etcd's retry, etcd_synchronizer.py:140-168).
THEOREM NoRepeatedWorkHolds == Safety => []NoRepeatedWork
<1>1. IInv => NoRepeatedWork
  <2> SUFFICES ASSUME IInv, faults = 0, glitches = 0, NEW n \in Nodes, pc[n] = "hook",
                      turn[n].hook # "on_stable_cluster", worked[n] = turn[n].hook
               PROVE  FALSE
    BY DEF NoRepeatedWork
  <2>1. Decides(n) /\ Works(n) /\ turn[n].info \in Views \cup {NoView}
    BY Typed DEF IInv, Unfailing, Turns
  <2>2. PICK row \in FsmRows(ClusterState(turn[n].info), turn[n].info[n]) :
          turn[n].hook = row[3] /\ turn[n].new = row[4]
    BY <2>1 DEF Decides
  <2>3. turn[n].hook # "none" /\ turn[n].info # NoView
    BY <2>1, <2>2, EmptyView, NoRows DEF Decides
  <2>4. RowKind(ClusterState(turn[n].info), turn[n].info[n], turn[n].hook, turn[n].new)
    BY <2>2, RowKinds
  <2>5. turn[n].info \in GoesBy(n)
    BY <2>3 DEF GoesBy
  <2>6. turn[n].hook # "on_leaving_cluster" /\ turn[n].info[n] \notin InWork
    BY <2>1, <2>3, <2>5 DEF Works, Completed
  <2> QED BY <2>3, <2>4, <2>6 DEF RowKind, InWork
<1> QED BY <1>1, Invariance, PTL

\* A plugin's hook runs only in the phase of the resize that it is for, for as long as
\* it runs (SyncFSM.next, synchronization_fsm.py:106-231), if main and leave_cluster
\* take turns: even then the view that the hook was given may be old.
THEOREM HooksInPhaseHolds == ~PreemptHandler /\ Safety => []HooksInPhase
<1> SUFFICES ASSUME ~PreemptHandler PROVE Safety => []HooksInPhase
  OBVIOUS
<1>1. IInv => HooksInPhase
  <2> SUFFICES ASSUME IInv, NEW n \in Nodes, pc[n] = "hook"
               PROVE  CASE turn[n].hook \in {"on_cluster_changing", "on_joining_cluster"} ->
                             Live(view) \subseteq Acknowledged \cup ConfigChanged
                        [] turn[n].hook = "on_new_cluster_config_ready" ->
                             Live(view) \subseteq ConfigChanged \cup {NORMAL, FINISHED}
                        [] turn[n].hook = "on_leaving_cluster" ->
                             Live(view) \subseteq {NORMAL, FINISHED}
                        [] turn[n].hook = "on_stable_cluster" ->
                             Live(view) \cap (ConfigChanged \cup {FINISHED}) = {}
    BY DEF HooksInPhase
  <2>1. Acting(view, n, turn[n].hook, turn[n].new)
    BY DEF IInv, Orderly, Acts
  <2>2. CASE turn[n].hook \in {"on_cluster_changing", "on_joining_cluster"}
    BY <2>1, <2>2 DEF Acting
  <2>3. CASE turn[n].hook = "on_new_cluster_config_ready"
    BY <2>1, <2>3 DEF Acting
  <2>4. CASE turn[n].hook = "on_leaving_cluster"
    BY <2>1, <2>4 DEF Acting
  <2>5. CASE turn[n].hook = "on_stable_cluster"
    BY <2>1, <2>5 DEF Acting
  <2>6. turn[n].hook \in {"on_cluster_changing", "on_joining_cluster",
                          "on_new_cluster_config_ready", "on_leaving_cluster",
                          "on_stable_cluster"}
    BY <2>1 DEF Acting
  <2> QED BY <2>2, <2>3, <2>4, <2>5, <2>6
<1> QED BY <1>1, Invariance, PTL

------------------------------------------------------------------------------
(* The refinement.                                                         *)

\* The requests to leave, as ClusterProtocol sees them.
Asking == [n \in Nodes |-> IF ~Pending(n) THEN "no"
                           ELSE IF force[n] THEN "forced" ELSE "graceful"]

Unasked == UNCHANGED <<Asking, requests, faults>>

\* The steps of ClusterProtocol in the words of ClusterSync: those of a node whose FSM
\* runs, or is over ...
LEMMA ProtocolSteps ==
  ASSUME NEW n \in Nodes, Unasked
  PROVE  /\ /\ fsm[n] = "running" /\ view[n] = ABSENT /\ Joinable(ClusterState(view))
            /\ view' = Put(view, n, WAITING_TO_JOIN) /\ UNCHANGED <<fsm, synced>>
            => Abstract!Next
         /\ /\ fsm[n] = "running" /\ ClusterState(view) = JOIN_PENDING
            /\ view[n] = WAITING_TO_JOIN /\ view' = SwitchAll(view, WAITING_TO_JOIN, JOINING)
            /\ synced' = {} /\ UNCHANGED fsm
            => Abstract!Next
         /\ /\ fsm[n] = "running" /\ ClusterState(view) = LEAVE_PENDING
            /\ view[n] = WAITING_TO_LEAVE /\ view' = SwitchAll(view, WAITING_TO_LEAVE, LEAVING)
            /\ synced' = {} /\ UNCHANGED fsm
            => Abstract!Next
         /\ /\ fsm[n] = "running"
            /\ \E row \in FsmRows(ClusterState(view), view[n]) :
                 /\ row[4] \in NodeStates /\ view' = Put(view, n, row[4])
                 /\ synced' = IF row[3] = "on_new_cluster_config_ready"
                              THEN synced \cup {n} ELSE synced
            /\ UNCHANGED fsm
            => Abstract!Next
         /\ /\ fsm[n] = "running" /\ ClusterState(view) = FINISHED_LEAVING
            /\ view[n] = FINISHED /\ fsm' = [fsm EXCEPT ![n] = "departing"]
            /\ UNCHANGED <<view, synced>>
            => Abstract!Next
         /\ /\ fsm[n] = "departing" /\ view' = Put(view, n, ABSENT)
            /\ fsm' = [fsm EXCEPT ![n] = "stopped"] /\ UNCHANGED synced
            => Abstract!Next
<1>1. /\ \/ Abstract!Join(n) \/ Abstract!StartJoining(n) \/ Abstract!StartLeaving(n)
         \/ Abstract!Advance(n) \/ Abstract!Finish(n) \/ Abstract!Depart(n)
      => Abstract!Next
  BY DEF Abstract!Next, Abstract!Synchronize
<1> USE SameWords, SameNodeStates, SameClusterWords, SameClusterState, SameRules
<1>2. /\ fsm[n] = "running" /\ view[n] = ABSENT /\ Joinable(ClusterState(view))
      /\ view' = Put(view, n, WAITING_TO_JOIN) /\ UNCHANGED <<fsm, synced>>
      => Abstract!Join(n)
  BY DEF Abstract!Join, Unasked, Asking, Put
<1>3. /\ fsm[n] = "running" /\ ClusterState(view) = JOIN_PENDING
      /\ view[n] = WAITING_TO_JOIN /\ view' = SwitchAll(view, WAITING_TO_JOIN, JOINING)
      /\ synced' = {} /\ UNCHANGED fsm
      => Abstract!StartJoining(n)
  BY DEF Abstract!StartJoining, Unasked, Asking
<1>4. /\ fsm[n] = "running" /\ ClusterState(view) = LEAVE_PENDING
      /\ view[n] = WAITING_TO_LEAVE /\ view' = SwitchAll(view, WAITING_TO_LEAVE, LEAVING)
      /\ synced' = {} /\ UNCHANGED fsm
      => Abstract!StartLeaving(n)
  BY DEF Abstract!StartLeaving, Unasked, Asking
<1>5. /\ fsm[n] = "running"
      /\ \E row \in FsmRows(ClusterState(view), view[n]) :
           /\ row[4] \in NodeStates /\ view' = Put(view, n, row[4])
           /\ synced' = IF row[3] = "on_new_cluster_config_ready"
                        THEN synced \cup {n} ELSE synced
      /\ UNCHANGED fsm
      => Abstract!Advance(n)
  BY DEF Abstract!Advance, Unasked, Asking, Put
<1>6. /\ fsm[n] = "running" /\ ClusterState(view) = FINISHED_LEAVING
      /\ view[n] = FINISHED /\ fsm' = [fsm EXCEPT ![n] = "departing"]
      /\ UNCHANGED <<view, synced>>
      => Abstract!Finish(n)
  BY DEF Abstract!Finish, Unasked, Asking
<1>7. /\ fsm[n] = "departing" /\ view' = Put(view, n, ABSENT)
      /\ fsm' = [fsm EXCEPT ![n] = "stopped"] /\ UNCHANGED synced
      => Abstract!Depart(n)
  BY DEF Abstract!Depart, Unasked, Asking, Put
<1> QED BY <1>1, <1>2, <1>3, <1>4, <1>5, <1>6, <1>7

\* ... and those that ask a node to leave, or make it.
LEMMA ProtocolLeaves ==
  ASSUME NEW n \in Nodes
  PROVE  /\ /\ fsm[n] = "running" \/ (QuitAgain /\ fsm[n] = "stopped")
            /\ Asking[n] # "no"
            /\ CanLeave(ClusterState(view), Asking[n] = "forced")
            /\ view' = Put(view, n, WAITING_TO_LEAVE)
            /\ Asking' \in {Asking, [Asking EXCEPT ![n] = "no"]}
            /\ UNCHANGED <<fsm, synced, requests, faults>>
            => Abstract!Next
         /\ /\ Asking[n] # "forced" /\ requests < MaxRequests
            /\ QuitAgain \/ (fsm[n] = "running" /\ Asking[n] = "no")
            /\ Asking' = [Asking EXCEPT ![n] = "graceful"] /\ requests' = requests + 1
            /\ UNCHANGED <<view, fsm, synced, faults>>
            => Abstract!Next
         /\ /\ view[n] = ERROR /\ fsm' = [fsm EXCEPT ![n] = "running"]
            /\ Asking' = [Asking EXCEPT ![n] = "forced"]
            /\ UNCHANGED <<view, synced, requests, faults>>
            => Abstract!Next
<1>1. Abstract!Leave(n) \/ Abstract!RequestLeave(n) \/ Abstract!TakeOver(n) => Abstract!Next
  BY DEF Abstract!Next, Abstract!Disturb
<1> USE SameWords, SameNodeStates, SameClusterWords, SameClusterState, SameRules
<1>2. /\ fsm[n] = "running" \/ (QuitAgain /\ fsm[n] = "stopped")
      /\ Asking[n] # "no"
      /\ CanLeave(ClusterState(view), Asking[n] = "forced")
      /\ view' = Put(view, n, WAITING_TO_LEAVE)
      /\ Asking' \in {Asking, [Asking EXCEPT ![n] = "no"]}
      /\ UNCHANGED <<fsm, synced, requests, faults>>
      => Abstract!Leave(n)
  BY DEF Abstract!Leave, Asking, Put
<1>3. /\ Asking[n] # "forced" /\ requests < MaxRequests
      /\ QuitAgain \/ (fsm[n] = "running" /\ Asking[n] = "no")
      /\ Asking' = [Asking EXCEPT ![n] = "graceful"] /\ requests' = requests + 1
      /\ UNCHANGED <<view, fsm, synced, faults>>
      => Abstract!RequestLeave(n)
  BY DEF Abstract!RequestLeave, Asking
<1>4. /\ view[n] = ERROR /\ fsm' = [fsm EXCEPT ![n] = "running"]
      /\ Asking' = [Asking EXCEPT ![n] = "forced"]
      /\ UNCHANGED <<view, synced, requests, faults>>
      => Abstract!TakeOver(n)
  BY DEF Abstract!TakeOver, Asking
<1> QED BY <1>1, <1>2, <1>3, <1>4

\* ... and the faults.
LEMMA ProtocolFaults ==
  ASSUME NEW n \in Nodes, faults < MaxFaults, faults' = faults + 1, UNCHANGED requests
  PROVE  /\ /\ view[n] # ABSENT /\ view' = Put(view, n, ERROR)
            /\ UNCHANGED <<fsm, Asking, synced>>
            => Abstract!Next
         /\ /\ \/ fsm[n] = "departing"
               \/ /\ fsm[n] = "running" /\ ClusterState(view) = FINISHED_LEAVING
                  /\ view[n] = FINISHED
            /\ fsm' = [fsm EXCEPT ![n] = "stopped"] /\ UNCHANGED <<view, Asking, synced>>
            => Abstract!Next
         /\ /\ fsm' = [fsm EXCEPT ![n] = "running"] /\ Asking' = [Asking EXCEPT ![n] = "no"]
            /\ UNCHANGED <<view, synced>>
            => Abstract!Next
<1>1. Abstract!MarkFailed(n) \/ Abstract!StopEarly(n) \/ Abstract!Restart(n) => Abstract!Next
  BY DEF Abstract!Next, Abstract!Disturb
<1> USE SameWords, SameClusterWords, SameClusterState
<1>2. /\ view[n] # ABSENT /\ view' = Put(view, n, ERROR) /\ UNCHANGED <<fsm, Asking, synced>>
      => Abstract!MarkFailed(n)
  BY DEF Abstract!MarkFailed, Asking, Put
<1>3. /\ \/ fsm[n] = "departing"
         \/ fsm[n] = "running" /\ ClusterState(view) = FINISHED_LEAVING /\ view[n] = FINISHED
      /\ fsm' = [fsm EXCEPT ![n] = "stopped"] /\ UNCHANGED <<view, Asking, synced>>
      => Abstract!StopEarly(n)
  BY DEF Abstract!StopEarly, Asking
<1>4. /\ fsm' = [fsm EXCEPT ![n] = "running"] /\ Asking' = [Asking EXCEPT ![n] = "no"]
      /\ UNCHANGED <<view, synced>>
      => Abstract!Restart(n)
  BY DEF Abstract!Restart, Asking
<1> QED BY <1>1, <1>2, <1>3, <1>4

LEMMA ProtocolStutters ==
  UNCHANGED <<view, fsm, Asking, synced, requests, faults>> => UNCHANGED Abstract!vars
  BY DEF Abstract!vars, Asking

\* Where nothing changes of a node's flag and its handler's progress, nothing changes of
\* what it is asked.
LEMMA SameAsked ==
  ASSUME NEW n \in Nodes, \A m \in Nodes \ {n} : /\ leaving'[m] = leaving[m]
                                                 /\ force'[m] = force[m]
                                                 /\ handler'[m].pc = handler[m].pc
  PROVE  /\ (Pending(n)' <=> Pending(n)) /\ force'[n] = force[n] => Asking' = Asking
         /\ ~Pending(n)' => Asking' = [Asking EXCEPT ![n] = "no"]
         /\ Pending(n)' /\ force'[n] => Asking' = [Asking EXCEPT ![n] = "forced"]
         /\ Pending(n)' /\ ~force'[n] => Asking' = [Asking EXCEPT ![n] = "graceful"]
<1>1. \A m \in Nodes \ {n} : (Pending(m)' <=> Pending(m)) /\ force'[m] = force[m]
  BY DEF Pending
<1> QED BY <1>1 DEF Asking

\* The last phase of a resize, for a node that is done.
LEMMA LastPhase ==
  ASSUME Knows, NEW n \in Nodes, view[n] = FINISHED, Live(view) \subseteq {NORMAL, FINISHED}
  PROVE  ClusterState(view) = FINISHED_LEAVING
<1>1. FINISHED \in Live(view)
  BY Typed, LiveMember, Words
<1> QED BY <1>1, Words DEF ClusterState, StateCheck

\* Who reads, watches or gives up does nothing to the cluster.
LEMMA Unnoticed ==
  ASSUME UNCHANGED <<view, fsm, leaveVars, synced, requests, faults>>
  PROVE  UNCHANGED Abstract!vars
  BY ProtocolStutters DEF leaveVars, Asking, Pending

LEMMA ReadingImplements ==
  ASSUME Knows, NEW n \in Nodes,
         \/ Read(n) \/ StartWatch(n) \/ WatchReturns(n) \/ ReadMissing(n) \/ CreateKey(n)
         \/ CreateFails(n) \/ WriteContended(n) \/ Reread(n) \/ ReadRaises(n) \/ WatchRaises(n)
         \/ CreateRaises(n) \/ HookRaises(n) \/ RereadRaises(n) \/ WriteRaises(n, FALSE)
  PROVE  UNCHANGED Abstract!vars
<1>1. UNCHANGED <<fsm, leaveVars, synced, requests, faults>>
  <2>1. CASE Read(n) \/ WatchReturns(n) \/ WatchRaises(n)
    BY <2>1 DEF Read, WatchReturns, WatchRaises, Take, Glitch, budgets
  <2>2. CASE WriteRaises(n, FALSE)
    BY <2>2, Typed DEF WriteRaises, Glitch, leaveVars
  <2>3. CASE StartWatch(n) \/ ReadMissing(n) \/ CreateKey(n) \/ CreateFails(n)
             \/ WriteContended(n) \/ Reread(n)
    BY <2>3 DEF StartWatch, ReadMissing, CreateKey, CreateFails, WriteContended, Reread, budgets
  <2>4. CASE ReadRaises(n) \/ CreateRaises(n) \/ HookRaises(n) \/ RereadRaises(n)
    BY <2>4 DEF ReadRaises, CreateRaises, HookRaises, RereadRaises, Glitch
  <2> QED BY <2>1, <2>2, <2>3, <2>4
<1>2. view' = view
  <2>1. CASE Read(n) \/ WatchReturns(n) \/ WatchRaises(n)
    BY <2>1 DEF Read, WatchReturns, WatchRaises, Take
  <2>2. CASE CreateKey(n)
    BY <2>2, Typed DEF CreateKey, BeforeCreation
  <2>3. CASE StartWatch(n) \/ ReadMissing(n) \/ CreateFails(n) \/ WriteContended(n) \/ Reread(n)
    BY <2>3 DEF StartWatch, ReadMissing, CreateFails, WriteContended, Reread
  <2>4. CASE \/ ReadRaises(n) \/ CreateRaises(n) \/ HookRaises(n) \/ RereadRaises(n)
             \/ WriteRaises(n, FALSE)
    BY <2>4 DEF ReadRaises, CreateRaises, HookRaises, RereadRaises, WriteRaises
  <2> QED BY <2>1, <2>2, <2>3, <2>4
<1> QED BY <1>1, <1>2, Unnoticed

\* on_leaving_cluster returns: the node is finished. Any other hook changes nothing yet.
LEMMA HookImplements ==
  ASSUME Knows, NEW n \in Nodes, InOrder(n), HookReturns(n)
  PROVE  [Abstract!Next]_(Abstract!vars)
<1>1. /\ pc[n] = "hook" /\ UNCHANGED <<view, leaveVars, synced, requests, faults>>
      /\ fsm' = [fsm EXCEPT ![n] = IF turn[n].new = DELETE_ME THEN "departing" ELSE fsm[n]]
  BY DEF HookReturns, Runs, budgets
<1>2. CASE turn[n].new = DELETE_ME
  <2>1. fsm[n] = "running" /\ Acting(view, n, turn[n].hook, DELETE_ME)
    BY <1>1, <1>2 DEF InOrder, Stops, Acts
  <2>2. view[n] = FINISHED /\ Live(view) \subseteq {NORMAL, FINISHED}
    BY <2>1, Words DEF Acting, ConfigChanged
  <2>3. ClusterState(view) = FINISHED_LEAVING
    BY <2>2, LastPhase
  <2>4. Unasked
    BY <1>1 DEF Unasked, Asking, Pending, leaveVars
  <2> QED BY <1>1, <1>2, <2>1, <2>2, <2>3, <2>4, ProtocolSteps
<1>3. CASE turn[n].new # DELETE_ME
  <2>1. fsm' = fsm
    BY <1>1, <1>3, Typed
  <2> QED BY <1>1, <2>1, Unnoticed
<1> QED BY <1>2, <1>3

\* A row of the table that calls for a write, carried out.
LEMMA RowImplements ==
  ASSUME Knows, NEW n \in Nodes, Unasked, UNCHANGED fsm, fsm[n] = "running",
         NEW new, new \notin {NO_CHANGE, DELETE_ME},
         view' = Updated(view, n, new), synced' = SyncedAfter(n, new),
         NEW row \in FsmRows(ClusterState(view), view[n]), row[4] = new
  PROVE  Abstract!Next
<1>1. RowKind(ClusterState(view), view[n], row[3], new)
  BY RowKinds
<1>2. CASE new = ALL_JOINING
  <2>1. ClusterState(view) = JOIN_PENDING /\ view[n] = WAITING_TO_JOIN
    BY <1>1, <1>2, Words DEF RowKind, Acknowledged, ConfigChanged
  <2>2. view' = SwitchAll(view, WAITING_TO_JOIN, JOINING) /\ synced' = {}
    BY <1>2, Words DEF Updated, SyncedAfter
  <2> QED BY <2>1, <2>2, ProtocolSteps
<1>3. CASE new = ALL_LEAVING
  <2>1. ClusterState(view) = LEAVE_PENDING /\ view[n] = WAITING_TO_LEAVE
    BY <1>1, <1>3, Words DEF RowKind, Acknowledged, ConfigChanged
  <2>2. view' = SwitchAll(view, WAITING_TO_LEAVE, LEAVING) /\ synced' = {}
    BY <1>3, Words DEF Updated, SyncedAfter
  <2> QED BY <2>1, <2>2, ProtocolSteps
<1>4. CASE new \notin {ALL_JOINING, ALL_LEAVING}
  <2>1. /\ new \in Acknowledged \cup ConfigChanged \cup {NORMAL, FINISHED}
        /\ new \in {NORMAL, FINISHED} <=> row[3] = "on_new_cluster_config_ready"
    BY <1>1, <1>4, Words DEF RowKind, Acknowledged, ConfigChanged
  <2>2. new \in NodeStates
    BY <2>1, KnownStates
  <2>3. view' = Put(view, n, row[4])
    BY <1>4, Words DEF Updated, Put
  <2>4. synced' = IF row[3] = "on_new_cluster_config_ready" THEN synced \cup {n} ELSE synced
    BY <1>4, <2>1 DEF SyncedAfter
  <2> QED BY <2>2, <2>3, <2>4, ProtocolSteps
<1> QED BY <1>2, <1>3, <1>4

\* What a write changes, whether the writer hears of it or not.
Writes(n) ==
  /\ pc[n] = "write" /\ turn[n].att = "current"
  /\ view' = Updated(turn[n].info, n, turn[n].new)
  /\ synced' = SyncedAfter(n, turn[n].new)
  /\ fsm' = [fsm EXCEPT ![n] = IF @ = "departing" THEN "stopped" ELSE @]
  /\ \/ leaving' = leaving
     \/ leaving' = [leaving EXCEPT ![n] = @ /\ turn[n].new # WAITING_TO_LEAVE]
  /\ \A m \in Nodes : handler'[m].pc = handler[m].pc
  /\ UNCHANGED <<force, requests, faults>>

LEMMA PublishHandlers ==
  ASSUME Knows, NEW w, NEW t, Publish(w, t, handler)
  PROVE  view' = w /\ \A m \in Nodes : handler'[m].pc = handler[m].pc
<1>1. handler' = [m \in Nodes |-> [handler[m] EXCEPT !.att = Aged(handler[m].att)]]
  BY DEF Publish
<1> QED BY <1>1, Typed DEF Publish, Handlers

LEMMA WritesImplement ==
  ASSUME Knows, NEW n \in Nodes, InOrder(n), Writes(n)
  PROVE  Abstract!Next
<1> DEFINE new == turn[n].new
<1>1. /\ turn[n].info = view /\ new # NO_CHANGE
      /\ fsm[n] = IF new = DELETE_ME THEN "departing" ELSE "running"
      /\ new = DELETE_ME \/ Decided(n, view, new)
      /\ new = WAITING_TO_LEAVE => leaving[n]
  BY Writing, WritingInOrder DEF Writes
<1>2. /\ view' = Updated(view, n, new) /\ synced' = SyncedAfter(n, new)
      /\ fsm' = [fsm EXCEPT ![n] = IF fsm[n] = "departing" THEN "stopped" ELSE fsm[n]]
      /\ UNCHANGED <<force, requests, faults>>
  BY <1>1 DEF Writes
<1>3. /\ leaving \in [Nodes -> BOOLEAN] /\ fsm \in [Nodes -> {"running", "departing", "stopped"}]
      /\ force \in [Nodes -> BOOLEAN]
  BY Typed
<1>4. /\ \A m \in Nodes \ {n} : leaving'[m] = leaving[m]
      /\ leaving'[n] # leaving[n] => new = WAITING_TO_LEAVE
      /\ \A m \in Nodes : handler'[m].pc = handler[m].pc
  BY <1>3 DEF Writes
<1> HIDE DEF new
<1>5. CASE new = DELETE_ME
  <2>1. Unasked
    BY <1>2, <1>4, <1>5, SameAsked, Words DEF Unasked, Pending
  <2>2. view' = Put(view, n, ABSENT) /\ synced' = synced
    BY <1>2, <1>5, Words DEF Updated, Put, SyncedAfter
  <2>3. fsm[n] = "departing" /\ fsm' = [fsm EXCEPT ![n] = "stopped"]
    BY <1>1, <1>2, <1>5
  <2> QED BY <2>1, <2>2, <2>3, ProtocolSteps
<1>6. CASE new = WAITING_TO_LEAVE /\ leaving[n] /\ CanLeave(ClusterState(view), force[n])
  <2>1. fsm[n] = "running" /\ fsm' = fsm
    BY <1>1, <1>2, <1>3, <1>6, Words
  <2>2. view' = Put(view, n, WAITING_TO_LEAVE) /\ synced' = synced
    BY <1>2, <1>6, Words DEF Updated, Put, SyncedAfter
  <2>3. Asking[n] # "no" /\ CanLeave(ClusterState(view), Asking[n] = "forced")
    BY <1>3, <1>6 DEF Asking, Pending
  <2>4. Asking' \in {Asking, [Asking EXCEPT ![n] = "no"]}
    <3>1. leaving'[n] \in BOOLEAN
      BY <1>3 DEF Writes
    <3>2. CASE leaving'[n]
      <4>1. Pending(n) /\ Pending(n)' /\ force'[n] = force[n]
        BY <1>2, <1>6, <3>2 DEF Pending
      <4> QED BY <1>2, <1>4, <4>1, SameAsked
    <3>3. CASE ~leaving'[n]
      <4>1. CASE Pending(n)'
        <5>1. Pending(n)' /\ Pending(n) /\ force'[n] = force[n]
          BY <1>2, <1>6, <4>1 DEF Pending
        <5> QED BY <1>2, <1>4, <5>1, SameAsked
      <4>2. CASE ~Pending(n)'
        BY <1>2, <1>4, <4>2, SameAsked
      <4> QED BY <4>1, <4>2
    <3> QED BY <3>1, <3>2, <3>3
  <2> QED BY <1>2, <2>1, <2>2, <2>3, <2>4, ProtocolLeaves
<1>7. CASE new # WAITING_TO_LEAVE /\ new # DELETE_ME /\ Decided(n, view, new)
  <2>1. Unasked
    BY <1>2, <1>4, <1>7, SameAsked DEF Unasked, Pending
  <2>2. fsm[n] = "running" /\ fsm' = fsm
    BY <1>1, <1>2, <1>3, <1>7
  <2>3. CASE new = WAITING_TO_JOIN /\ view[n] = ABSENT /\ Joinable(ClusterState(view))
    <3>1. view' = Put(view, n, WAITING_TO_JOIN) /\ synced' = synced
      BY <1>2, <2>3, Words DEF Updated, Put, SyncedAfter
    <3> QED BY <2>1, <2>2, <2>3, <3>1, ProtocolSteps
  <2>4. ASSUME NEW row \in FsmRows(ClusterState(view), view[n]), row[4] = new
        PROVE  Abstract!Next
    BY <1>1, <1>2, <1>7, <2>1, <2>2, <2>4, RowImplements
  <2> QED BY <1>7, <2>3, <2>4 DEF Decided
<1>8. ASSUME new = WAITING_TO_LEAVE,
             NEW row \in FsmRows(ClusterState(view), view[n]), row[4] = new
      PROVE  FALSE
  BY <1>8, RowWrites
<1> QED BY <1>1, <1>5, <1>6, <1>7, <1>8, Words DEF Decided

LEMMA WriteImplements ==
  ASSUME Knows, NEW n \in Nodes, InOrder(n), Write(n) \/ WriteRaises(n, TRUE)
  PROVE  Abstract!Next
<1>1. CASE Write(n)
  <2>1. Publish(Updated(turn[n].info, n, turn[n].new), [turn EXCEPT ![n] = NoTurn], handler)
    BY <1>1 DEF Write
  <2>2. Writes(n)
    BY <1>1, <2>1, PublishHandlers DEF Write, Writes, Runs, budgets
  <2> QED BY <2>2, WritesImplement
<1>2. CASE WriteRaises(n, TRUE)
  <2>1. Publish(Updated(turn[n].info, n, turn[n].new), [turn EXCEPT ![n] = NoTurn], handler)
    BY <1>2 DEF WriteRaises
  <2>2. Writes(n)
    BY <1>2, <2>1, PublishHandlers DEF WriteRaises, Writes, Runs
  <2> QED BY <2>2, WritesImplement
<1> QED BY <1>1, <1>2

\* leave_cluster writes for the node what the node itself might have written; all that
\* it does besides is to go on asking.
LEMMA LeaveImplements ==
  ASSUME Knows, NEW n \in Nodes, InOrder(n),
         \/ LeaveCluster(n) \/ HandlerReadRaises(n) \/ HandlerRereadRaises(n)
         \/ \E applied \in BOOLEAN : HandlerWriteRaises(n, applied)
  PROVE  [Abstract!Next]_(Abstract!vars)
<1>1. /\ handler \in Handlers /\ leaving \in [Nodes -> BOOLEAN] /\ force \in [Nodes -> BOOLEAN]
      /\ Asks(n)
  BY Typed DEF InOrder
<1>2. CASE HandlerWrite(n) \/ HandlerWriteRaises(n, TRUE)
  <2> HandlerApplies(n)
    BY <1>2, HandlerWrites
  <2>1. /\ fsm[n] = "running" \/ (QuitAgain /\ fsm[n] = "stopped")
        /\ leaving[n] /\ handler[n].info = view
        /\ CanLeave(ClusterState(view), force[n])
        /\ Updated(view, n, WAITING_TO_LEAVE) = Put(view, n, WAITING_TO_LEAVE)
    <3>1. fsm[n] \in {"running", "departing", "stopped"}
      BY Typed
    <3>2. Handles(n, "write") /\ handler[n].att = "current"
      BY DEF HandlerApplies
    <3> QED BY <3>1, <3>2, Requested, RequestedInOrder
  <2>2. /\ view' = Updated(handler[n].info, n, WAITING_TO_LEAVE)
        /\ leaving' = leaving \/ leaving' = [leaving EXCEPT ![n] = FALSE]
        /\ UNCHANGED <<fsm, force, synced, requests, faults>>
    BY DEF HandlerApplies, Publish
  <2>3. \A m \in Nodes : handler'[m].pc = IF m = n THEN "idle" ELSE handler[m].pc
    <3> DEFINE h == [handler EXCEPT ![n] = Idle]
    <3>1. h \in Handlers /\ \A m \in Nodes : h[m].pc = IF m = n THEN "idle" ELSE handler[m].pc
      BY <1>1 DEF Handlers, Idle, Indices
    <3>2. handler' = [m \in Nodes |-> [h[m] EXCEPT !.att = Aged(h[m].att)]]
      BY DEF HandlerApplies, Publish
    <3> HIDE DEF h
    <3> QED BY <3>1, <3>2 DEF Handlers
  <2>4. \A m \in Nodes \ {n} : leaving'[m] = leaving[m]
    BY <1>1, <2>2
  <2>5. Asking' \in {Asking, [Asking EXCEPT ![n] = "no"]}
    <3>1. CASE leaving' = leaving
      <4>1. Pending(n) /\ Pending(n)'
        BY <2>1, <3>1 DEF Pending
      <4> QED BY <2>2, <2>3, <2>4, <4>1, SameAsked
    <3>2. CASE leaving' = [leaving EXCEPT ![n] = FALSE]
      <4>1. ~Pending(n)'
        BY <1>1, <2>3, <3>2 DEF Pending
      <4> QED BY <2>2, <2>3, <2>4, <4>1, SameAsked
    <3> QED BY <2>2, <3>1, <3>2
  <2>6. Asking[n] # "no" /\ CanLeave(ClusterState(view), Asking[n] = "forced")
    BY <1>1, <2>1 DEF Asking, Pending
  <2> QED BY <2>1, <2>2, <2>5, <2>6, ProtocolLeaves
<1>3. CASE \/ HandlerRead(n) \/ HandlerReadMissing(n) \/ HandlerCreate(n) \/ HandlerDecide(n)
           \/ HandlerContended(n) \/ HandlerReread(n) \/ HandlerReadRaises(n)
           \/ HandlerRereadRaises(n) \/ HandlerWriteRaises(n, FALSE)
  <2>1. UNCHANGED <<view, fsm, force, synced, requests, faults>>
    BY <1>3 DEF HandlerRead, HandlerReadMissing, HandlerCreate, HandlerDecide,
                HandlerContended, HandlerReread, HandlerReadRaises, HandlerRereadRaises,
                HandlerWriteRaises, Glitch, syncVars, budgets
  <2>2. /\ Pending(n) /\ Pending(n)'
        /\ \A m \in Nodes \ {n} : leaving'[m] = leaving[m] /\ handler'[m] = handler[m]
    <3>1. CASE HandlerRead(n) \/ HandlerReadMissing(n)
      <4>1. /\ handler[n].pc = "called" /\ leaving' = leaving
            /\ handler'[n].pc \in {"decide", "create"}
            /\ \A m \in Nodes \ {n} : handler'[m] = handler[m]
        BY <1>1, <3>1 DEF HandlerRead, HandlerReadMissing, Handles, Handlers
      <4> QED BY <1>1, <4>1 DEF Pending
    <3>2. CASE HandlerCreate(n) \/ HandlerDecide(n) \/ HandlerReadRaises(n)
      <4>1. /\ handler[n].pc \in {"called", "create", "decide"}
            /\ leaving' = [leaving EXCEPT ![n] = TRUE]
            /\ \A m \in Nodes \ {n} : handler'[m] = handler[m]
        BY <1>1, <3>2 DEF HandlerCreate, HandlerDecide, HandlerReadRaises, Handles, Handlers
      <4> QED BY <1>1, <4>1 DEF Pending
    <3>3. CASE \/ HandlerContended(n) \/ HandlerReread(n) \/ HandlerRereadRaises(n)
               \/ HandlerWriteRaises(n, FALSE)
      <4>1. /\ handler[n].pc \in {"write", "reread"} /\ leaving' = leaving
            /\ \A m \in Nodes \ {n} : handler'[m] = handler[m]
        BY <1>1, <3>3 DEF HandlerContended, HandlerReread, HandlerRereadRaises,
                          HandlerWriteRaises, Handles, Handlers
      <4> QED BY <1>1, <4>1 DEF Pending, Asks
    <3> QED BY <1>3, <3>1, <3>2, <3>3
  <2>3. Asking' = Asking
    BY <2>1, <2>2, SameAsked
  <2> QED BY <2>1, <2>3, ProtocolStutters
<1>4. \/ LeaveCluster(n) \/ HandlerReadRaises(n) \/ HandlerRereadRaises(n)
      \/ HandlerWriteRaises(n, TRUE) \/ HandlerWriteRaises(n, FALSE)
  OBVIOUS
<1> QED BY <1>2, <1>3, <1>4 DEF LeaveCluster

LEMMA QuitImplements ==
  ASSUME Knows, NEW n \in Nodes, Quit(n)
  PROVE  Abstract!Next
<1>1. /\ handler[n].pc = "idle" /\ ~force[n]
      /\ QuitAgain \/ (fsm[n] = "running" /\ ~leaving[n])
      /\ requests < MaxRequests /\ requests' = requests + 1
      /\ handler' = [handler EXCEPT ![n].pc = "called"]
      /\ UNCHANGED <<view, fsm, force, leaving, synced, faults>>
  BY DEF Quit, syncVars
<1>2. handler'[n].pc = "called" /\ \A m \in Nodes \ {n} : handler'[m] = handler[m]
  BY <1>1, Typed DEF Handlers
<1>3. Pending(n)' /\ ~force'[n]
  BY <1>1, <1>2 DEF Pending
<1>4. Asking' = [Asking EXCEPT ![n] = "graceful"]
  BY <1>1, <1>2, <1>3, SameAsked
<1>5. Asking[n] # "forced" /\ (QuitAgain \/ Asking[n] = "no")
  BY <1>1 DEF Asking, Pending
<1> QED BY <1>1, <1>4, <1>5, ProtocolLeaves

LEMMA FaultImplements ==
  ASSUME Knows, ~PreemptHandler, NEW n \in Nodes, InOrder(n), TakeOver(n) \/ Suffers(n)
  PROVE  Abstract!Next
<1>1. /\ handler \in Handlers /\ leaving \in [Nodes -> BOOLEAN] /\ force \in [Nodes -> BOOLEAN]
      /\ Stops(n)
  BY Typed DEF InOrder
<1>2. CASE TakeOver(n)
  <2>1. /\ pc[n] = "dead" /\ fsm' = [fsm EXCEPT ![n] = "running"]
        /\ leaving' = [leaving EXCEPT ![n] = FALSE] /\ force' = [force EXCEPT ![n] = TRUE]
        /\ handler' = [handler EXCEPT ![n] = [Idle EXCEPT !.pc = "called"]]
        /\ UNCHANGED <<view, synced, requests, faults>>
    BY <1>2 DEF TakeOver, Fresh, budgets
  <2>2. /\ view[n] = ERROR /\ handler'[n].pc = "called" /\ force'[n]
        /\ \A m \in Nodes \ {n} : /\ leaving'[m] = leaving[m] /\ force'[m] = force[m]
                                  /\ handler'[m] = handler[m]
    BY <1>1, <2>1 DEF Stops, Handlers, Idle
  <2>3. Asking' = [Asking EXCEPT ![n] = "forced"]
    BY <2>2, SameAsked DEF Pending
  <2> QED BY <2>1, <2>2, <2>3, ProtocolLeaves
<1>3. CASE Restart(n)
  <2>1. /\ Fault /\ fsm' = [fsm EXCEPT ![n] = "running"]
        /\ leaving' = [leaving EXCEPT ![n] = FALSE] /\ force' = [force EXCEPT ![n] = FALSE]
        /\ handler' = [handler EXCEPT ![n] = Idle]
        /\ UNCHANGED <<view, synced, requests>>
    BY <1>3 DEF Restart, Fresh
  <2>2. /\ handler'[n].pc = "idle" /\ ~leaving'[n]
        /\ \A m \in Nodes \ {n} : /\ leaving'[m] = leaving[m] /\ force'[m] = force[m]
                                  /\ handler'[m] = handler[m]
    BY <1>1, <2>1 DEF Handlers, Idle
  <2>3. ~Pending(n)'
    BY <2>2 DEF Pending
  <2>4. Asking' = [Asking EXCEPT ![n] = "no"]
    BY <2>2, <2>3, SameAsked
  <2> QED BY <2>1, <2>4, ProtocolFaults DEF Fault
<1>4. CASE MarkFailed(n)
  <2>1. /\ Fault /\ view[n] # ABSENT /\ UNCHANGED <<fsm, force, leaving, synced, requests>>
        /\ Publish(Put(view, n, ERROR), [turn EXCEPT ![n] = NoTurn], handler)
    BY <1>4 DEF MarkFailed, Put
  <2>2. view' = Put(view, n, ERROR) /\ \A m \in Nodes : handler'[m].pc = handler[m].pc
    BY <2>1, PublishHandlers
  <2>3. Asking' = Asking
    BY <2>1, <2>2, SameAsked DEF Pending
  <2> QED BY <2>1, <2>2, <2>3, ProtocolFaults DEF Fault
<1>5. CASE StopEarly(n)
  <2>1. /\ Fault /\ fsm' = [fsm EXCEPT ![n] = "stopped"]
        /\ UNCHANGED <<view, force, leaving, handler, synced, requests>>
    BY <1>5 DEF StopEarly, leaveVars
  <2>2. \/ fsm[n] = "departing"
        \/ /\ fsm[n] = "running" /\ view[n] = FINISHED
           /\ ClusterState(view) = FINISHED_LEAVING
    BY <1>5, StoppingEarly, LastPhase
  <2>3. Asking' = Asking
    BY <2>1 DEF Asking, Pending
  <2> QED BY <2>1, <2>2, <2>3, ProtocolFaults DEF Fault
<1> QED BY <1>2, <1>3, <1>4, <1>5 DEF Suffers

LEMMA StepImplements ==
  ASSUME IInv, ~PreemptHandler, [Next]_vars
  PROVE  [Abstract!Next]_(Abstract!vars)
<1> Knows /\ \A n \in Nodes : InOrder(n)
  BY DEF IInv, Orderly, InOrder
<1>1. CASE UNCHANGED vars
  BY <1>1, Unnoticed DEF vars, syncVars, leaveVars, budgets
<1>2. ASSUME NEW n \in Nodes,
             Main(n) \/ LeaveCluster(n) \/ Quit(n) \/ TakeOver(n) \/ Raises(n) \/ Suffers(n)
      PROVE  [Abstract!Next]_(Abstract!vars)
  <2>1. CASE Main(n)
    BY <2>1, ReadingImplements, HookImplements, WriteImplements DEF Main
  <2>2. CASE LeaveCluster(n) \/ Quit(n)
    BY <2>2, LeaveImplements, QuitImplements
  <2>3. CASE Raises(n)
    <3>1. PICK applied \in BOOLEAN :
            \/ ReadRaises(n) \/ WatchRaises(n) \/ CreateRaises(n) \/ HookRaises(n)
            \/ RereadRaises(n) \/ HandlerReadRaises(n) \/ HandlerRereadRaises(n)
            \/ WriteRaises(n, applied) \/ HandlerWriteRaises(n, applied)
      BY <2>3 DEF Raises
    <3> QED BY <3>1, ReadingImplements, WriteImplements, LeaveImplements
  <2>4. CASE TakeOver(n) \/ Suffers(n)
    BY <2>4, FaultImplements
  <2> QED BY <1>2, <2>1, <2>2, <2>3, <2>4
<1> QED BY <1>1, <1>2 DEF Next

\* The synchronizers implement ClusterProtocol: whatever they read too late, retry, do
\* not hear of or are stopped in, the view changes only by whole turns, each of them due
\* in the very view that it changes (write_to_etcd, etcd_synchronizer.py:110-182). That
\* main and leave_cluster take turns is needed: cf. LeaveHonoured.
THEOREM ImplementsHolds == ~PreemptHandler /\ Safety => Implements
<1>1. Init => Abstract!Init
  <2> SUFFICES ASSUME Init PROVE Abstract!Init
    OBVIOUS
  <2>1. \A n \in Nodes : ~Pending(n)
    BY DEF Init, Pending, Idle
  <2>2. Asking = [n \in Nodes |-> "no"]
    BY <2>1 DEF Asking
  <2> QED BY <2>2, SameWords DEF Init, Abstract!Init, Asking
<1>2. SUFFICES ASSUME ~PreemptHandler PROVE Safety => Implements
  OBVIOUS
<1>3. IInv /\ [Next]_vars => [Abstract!Next]_(Abstract!vars)
  BY <1>2, StepImplements
<1>4. Safety => []IInv
  BY Invariance
<1> QED BY <1>1, <1>3, <1>4, PTL DEF Safety, Implements, Abstract!Safety

\* A node's turn changes its own entry, unless it starts a resize.
LEMMA TurnOwnEntry ==
  ASSUME Knows, NEW n \in Nodes, Abstract!Synchronize(n) \/ Abstract!Leave(n) \/ Abstract!Disturb(n)
  PROVE  \/ \A m \in Nodes \ {n} : view'[m] = view[m]
         \/ view' = SwitchAll(view, WAITING_TO_JOIN, JOINING)
         \/ view' = SwitchAll(view, WAITING_TO_LEAVE, LEAVING)
<1>1. CASE Abstract!StartJoining(n) \/ Abstract!StartLeaving(n)
  BY <1>1, SameWords, SameRules DEF Abstract!StartJoining, Abstract!StartLeaving
<1>2. CASE Abstract!Join(n) \/ Abstract!Advance(n) \/ Abstract!Finish(n) \/ Abstract!Depart(n)
           \/ Abstract!Leave(n)
  BY <1>2, Typed DEF Views, Abstract!Join, Abstract!Advance, Abstract!Finish, Abstract!Depart, Abstract!Leave
<1>3. CASE Abstract!Disturb(n)
  BY <1>3, Typed DEF Views, Abstract!Disturb, Abstract!RequestLeave, Abstract!MarkFailed, Abstract!TakeOver,
              Abstract!StopEarly, Abstract!Restart
<1> QED BY <1>1, <1>2, <1>3 DEF Abstract!Synchronize

\* What a node writes for itself leaves the entries of the others alone, retried and
\* reread as it may be (write_to_etcd, etcd_synchronizer.py:122-141).
THEOREM OwnEntryOnlyHolds == ~PreemptHandler /\ Safety => OwnEntryOnly
<1> DEFINE Own == \/ \E n \in Nodes : \A m \in Nodes \ {n} : view'[m] = view[m]
                  \/ view' = SwitchAll(view, WAITING_TO_JOIN, JOINING)
                  \/ view' = SwitchAll(view, WAITING_TO_LEAVE, LEAVING)
<1>1. SUFFICES ASSUME ~PreemptHandler PROVE Safety => OwnEntryOnly
  OBVIOUS
<1>2. IInv /\ [Abstract!Next]_(Abstract!vars) => [Own]_view
  <2>1. UNCHANGED Abstract!vars => UNCHANGED view
    BY DEF Abstract!vars
  <2>2. ASSUME IInv, NEW n \in Nodes,
               Abstract!Synchronize(n) \/ Abstract!Leave(n) \/ Abstract!Disturb(n)
        PROVE  Own
    BY <2>2, TurnOwnEntry DEF IInv
  <2> QED BY <2>1, <2>2 DEF Abstract!Next
<1>3. IInv /\ [Next]_vars => [Own]_view
  BY <1>1, <1>2, StepImplements
<1>4. Safety => []IInv
  BY Invariance
<1> QED BY <1>3, <1>4, PTL DEF Safety, OwnEntryOnly

\* Nobody's turn brings back an entry whose node's FSM is over.
LEMMA TurnStaysGone ==
  ASSUME Knows, ~QuitAgain, NEW n \in Nodes,
         Abstract!Synchronize(n) \/ Abstract!Leave(n) \/ Abstract!Disturb(n),
         NEW m \in Nodes, fsm[m] = "stopped", view[m] = ABSENT
  PROVE  view'[m] = ABSENT
<1>1. view \in Views
  BY Typed
<1>2. CASE Abstract!StartJoining(n) \/ Abstract!StartLeaving(n)
  <2>1. \/ view' = SwitchAll(view, WAITING_TO_JOIN, JOINING)
        \/ view' = SwitchAll(view, WAITING_TO_LEAVE, LEAVING)
    BY <1>2, SameWords, SameRules DEF Abstract!StartJoining, Abstract!StartLeaving
  <2> QED BY <1>1, <2>1, Words DEF SwitchAll, Views
<1>3. CASE Abstract!Join(n) \/ Abstract!Advance(n) \/ Abstract!Finish(n) \/ Abstract!Leave(n)
  <2>1. /\ fsm[n] = "running"
        /\ view' = view \/ \E s : view' = [view EXCEPT ![n] = s]
    BY <1>3 DEF Abstract!Join, Abstract!Advance, Abstract!Finish, Abstract!Leave
  <2> QED BY <1>1, <2>1 DEF Views
<1>4. CASE Abstract!Depart(n)
  BY <1>1, <1>4, SameWords DEF Abstract!Depart, Views
<1>5. CASE Abstract!Disturb(n)
  <2>1. view' = view \/ (view[n] # ABSENT /\ \E s : view' = [view EXCEPT ![n] = s])
    BY <1>5, SameWords DEF Abstract!Disturb, Abstract!RequestLeave, Abstract!MarkFailed,
       Abstract!TakeOver, Abstract!StopEarly, Abstract!Restart
  <2> QED BY <1>1, <2>1 DEF Views
<1> QED BY <1>2, <1>3, <1>4, <1>5 DEF Abstract!Synchronize

\* The entry that on_leaving_cluster's node has deleted stays away, until the node is
\* started anew: whoever is not asked to leave twice is gone (plugin_base.py:123-124).
THEOREM GoneForGoodHolds == ~PreemptHandler /\ ~QuitAgain /\ Safety => GoneForGood
<1> DEFINE Gone == \A n \in Nodes :
                     fsm[n] = "stopped" /\ fsm'[n] = "stopped" /\ view[n] = ABSENT
                     => view'[n] = ABSENT
<1>1. SUFFICES ASSUME ~PreemptHandler, ~QuitAgain PROVE Safety => GoneForGood
  OBVIOUS
<1>2. IInv /\ [Abstract!Next]_(Abstract!vars) => Gone
  <2>1. UNCHANGED Abstract!vars => UNCHANGED view
    BY DEF Abstract!vars
  <2>2. ASSUME IInv, NEW n \in Nodes,
               Abstract!Synchronize(n) \/ Abstract!Leave(n) \/ Abstract!Disturb(n)
        PROVE  Gone
    BY <1>1, <2>2, TurnStaysGone DEF IInv
  <2> QED BY <2>1, <2>2 DEF Abstract!Next
<1>3. IInv /\ [Next]_vars => [Gone]_vars
  BY <1>1, <1>2, StepImplements
<1>4. Safety => []IInv
  BY Invariance
<1> QED BY <1>3, <1>4, PTL DEF Safety, GoneForGood
================================================================================
