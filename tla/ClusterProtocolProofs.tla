----------------------- MODULE ClusterProtocolProofs -----------------------
(***************************************************************************)
(* Theorems about ClusterProtocol for any set of nodes and any bounds, and *)
(* their proofs.                                                           *)
(***************************************************************************)
EXTENDS ClusterProtocol, TLAPS

USE BoundsAssumption

Views == [Nodes -> LocalStates]

------------------------------------------------------------------------------
(* Type correctness.                                                       *)

\* The states the actions mention are states of a view.
LEMMA KnownStates ==
  /\ NodeStates \subseteq LocalStates
  /\ ABSENT \in LocalStates
  /\ {WAITING_TO_JOIN, JOINING, WAITING_TO_LEAVE, LEAVING, ERROR} \subseteq NodeStates
  BY DEF NodeStates, LocalStates

\* Switching every node of one state to another gives a view.
LEMMA SwitchIsView ==
  ASSUME NEW v \in Views, NEW s, NEW t \in NodeStates
  PROVE  SwitchAll(v, s, t) \in Views
  BY KnownStates DEF Views, SwitchAll

\* Every step of the specification keeps the variables in their types.
LEMMA TypeStep == TypeOK /\ [Next]_vars => TypeOK'
<1> SUFFICES ASSUME TypeOK, [Next]_vars PROVE TypeOK'
  OBVIOUS
<1> USE DEF TypeOK
<1>1. ASSUME NEW n \in Nodes, Join(n) PROVE TypeOK'
  BY <1>1, KnownStates DEF Join
<1>2. ASSUME NEW n \in Nodes, StartJoining(n) PROVE TypeOK'
  BY <1>2, KnownStates, SwitchIsView DEF StartJoining, Views
<1>3. ASSUME NEW n \in Nodes, StartLeaving(n) PROVE TypeOK'
  BY <1>3, KnownStates, SwitchIsView DEF StartLeaving, Views
<1>4. ASSUME NEW n \in Nodes, Advance(n) PROVE TypeOK'
  BY <1>4, KnownStates DEF Advance
<1>5. ASSUME NEW n \in Nodes, Finish(n) PROVE TypeOK'
  BY <1>5 DEF Finish
<1>6. ASSUME NEW n \in Nodes, Depart(n) PROVE TypeOK'
  BY <1>6, KnownStates DEF Depart
<1>7. ASSUME NEW n \in Nodes, Leave(n) PROVE TypeOK'
  BY <1>7, KnownStates DEF Leave
<1>8. ASSUME NEW n \in Nodes, RequestLeave(n) PROVE TypeOK'
  BY <1>8 DEF RequestLeave
<1>9. ASSUME NEW n \in Nodes, MarkFailed(n) PROVE TypeOK'
  BY <1>9, KnownStates DEF MarkFailed
<1>10. ASSUME NEW n \in Nodes, TakeOver(n) PROVE TypeOK'
  BY <1>10 DEF TakeOver
<1>11. ASSUME NEW n \in Nodes, StopEarly(n) PROVE TypeOK'
  BY <1>11 DEF StopEarly
<1>12. ASSUME NEW n \in Nodes, Restart(n) PROVE TypeOK'
  BY <1>12 DEF Restart
<1>13. CASE UNCHANGED vars
  BY <1>13 DEF vars
<1>14. QED
  BY <1>1, <1>2, <1>3, <1>4, <1>5, <1>6, <1>7, <1>8, <1>9, <1>10, <1>11,
     <1>12, <1>13 DEF Next, Synchronize, Disturb

\* Initially every variable has its type.
LEMMA InitType == Init => TypeOK
  BY KnownStates DEF Init, TypeOK

\* The variables always have their types.
THEOREM TypeCorrect == Safety => []TypeOK
  BY InitType, TypeStep, PTL DEF Safety

------------------------------------------------------------------------------
(* About views and the states of a cluster.                                *)

USE DEF ABSENT, WAITING_TO_JOIN, JOINING, JOINING_ACKNOWLEDGED_CHANGE,
        JOINING_CONFIG_CHANGED, NORMAL, NORMAL_ACKNOWLEDGED_CHANGE,
        NORMAL_CONFIG_CHANGED, WAITING_TO_LEAVE, LEAVING,
        LEAVING_ACKNOWLEDGED_CHANGE, LEAVING_CONFIG_CHANGED, FINISHED, ERROR
USE DEF EMPTY, STABLE, STABLE_WITH_ERRORS, JOIN_PENDING, STARTED_JOINING,
        JOINING_CONFIG_CHANGING, JOINING_RESYNCING, LEAVE_PENDING,
        STARTED_LEAVING, LEAVING_CONFIG_CHANGING, LEAVING_RESYNCING,
        FINISHED_LEAVING, INVALID_CLUSTER_STATE
USE DEF NO_CHANGE, DELETE_ME, ALL_JOINING, ALL_LEAVING

\* The live states of a view in which one node's state was replaced.
LEMMA LiveUpdate ==
  ASSUME NEW v \in Views, NEW n \in Nodes, NEW s \in LocalStates
  PROVE  Live([v EXCEPT ![n] = s]) \subseteq Live(v) \cup ({s} \ {ABSENT, ERROR})
  BY DEF Live, Views

\* The live states of a view in which every node in one state took another.
LEMMA LiveSwitch ==
  ASSUME NEW v \in Views, NEW s \in NodeStates, NEW t \in NodeStates
  PROVE  /\ SwitchAll(v, s, t) \in Views
         /\ Live(SwitchAll(v, s, t)) \subseteq (Live(v) \ {s}) \cup {t}
  BY DEF Live, Views, SwitchAll, LocalStates, NodeStates

\* A member that is not in ERROR contributes its state.
LEMMA LiveMember ==
  ASSUME NEW v \in Views, NEW n \in Nodes, v[n] \notin {ABSENT, ERROR}
  PROVE  v[n] \in Live(v)
  BY DEF Live, Views

\* calculate_cluster_state read backwards: what a cluster state says of the
\* states of the live members.
LEMMA ClusterStateMeans ==
  ASSUME NEW v
  PROVE  LET c == ClusterState(v)
             live == Live(v)
         IN  /\ c = EMPTY => live = {}
             /\ c \in {STABLE, STABLE_WITH_ERRORS} => live \subseteq {NORMAL}
             /\ c = STABLE => ~ \E n \in DOMAIN v : v[n] = ERROR
             /\ c = JOIN_PENDING => live \subseteq {NORMAL, WAITING_TO_JOIN}
             /\ c = STARTED_JOINING =>
                  live \subseteq {NORMAL, JOINING, NORMAL_ACKNOWLEDGED_CHANGE,
                                  JOINING_ACKNOWLEDGED_CHANGE}
             /\ c = JOINING_CONFIG_CHANGING =>
                  live \subseteq {NORMAL_ACKNOWLEDGED_CHANGE,
                                  JOINING_ACKNOWLEDGED_CHANGE,
                                  NORMAL_CONFIG_CHANGED, JOINING_CONFIG_CHANGED}
             /\ c = JOINING_RESYNCING =>
                  live \subseteq {NORMAL_CONFIG_CHANGED, JOINING_CONFIG_CHANGED,
                                  NORMAL}
             /\ c = LEAVE_PENDING => live \subseteq {NORMAL, WAITING_TO_LEAVE}
             /\ c = STARTED_LEAVING =>
                  live \subseteq {NORMAL, LEAVING, NORMAL_ACKNOWLEDGED_CHANGE,
                                  LEAVING_ACKNOWLEDGED_CHANGE}
             /\ c = LEAVING_CONFIG_CHANGING =>
                  live \subseteq {NORMAL_ACKNOWLEDGED_CHANGE,
                                  LEAVING_ACKNOWLEDGED_CHANGE,
                                  NORMAL_CONFIG_CHANGED, LEAVING_CONFIG_CHANGED}
             /\ c = LEAVING_RESYNCING =>
                  live \subseteq {NORMAL_CONFIG_CHANGED, LEAVING_CONFIG_CHANGED,
                                  NORMAL, FINISHED}
             /\ c = FINISHED_LEAVING => live \subseteq {NORMAL, FINISHED}
  BY DEF ClusterState, StateCheck

\* A row is a quadruple that starts with the pair it was looked up for.
LEMMA RowShape ==
  ASSUME NEW c, NEW l, NEW row \in FsmRows(c, l)
  PROVE  \E hook, to : /\ row = <<c, l, hook, to>>
                       /\ <<c, l, hook, to>> \in FsmTable
<1>1. \E d, m, hook, to : row = <<d, m, hook, to>>
  BY DEF FsmRows, FsmTable
<1>2. row \in FsmTable /\ row[1] = c /\ row[2] = l
  BY DEF FsmRows
<1>3. QED
  BY <1>1, <1>2

\* What the table says of the moves a node makes on its own: the states it
\* goes from and to.
LEMMA TableMoves ==
  ASSUME NEW c, NEW l, NEW hook, NEW to \in NodeStates,
         <<c, l, hook, to>> \in FsmTable
  PROVE  /\ c \in {STARTED_JOINING, JOINING_CONFIG_CHANGING, JOINING_RESYNCING,
                   STARTED_LEAVING, LEAVING_CONFIG_CHANGING, LEAVING_RESYNCING}
         /\ c = STARTED_JOINING =>
              /\ l \in {NORMAL, JOINING}
              /\ to \in {NORMAL_ACKNOWLEDGED_CHANGE, JOINING_ACKNOWLEDGED_CHANGE}
         /\ c = JOINING_CONFIG_CHANGING =>
              /\ l \in {NORMAL_ACKNOWLEDGED_CHANGE, JOINING_ACKNOWLEDGED_CHANGE}
              /\ to \in {NORMAL_CONFIG_CHANGED, JOINING_CONFIG_CHANGED}
         /\ c = JOINING_RESYNCING =>
              /\ l \in {NORMAL_CONFIG_CHANGED, JOINING_CONFIG_CHANGED}
              /\ to \in {NORMAL}
         /\ c = STARTED_LEAVING =>
              /\ l \in {NORMAL, LEAVING}
              /\ to \in {NORMAL_ACKNOWLEDGED_CHANGE, LEAVING_ACKNOWLEDGED_CHANGE}
         /\ c = LEAVING_CONFIG_CHANGING =>
              /\ l \in {NORMAL_ACKNOWLEDGED_CHANGE, LEAVING_ACKNOWLEDGED_CHANGE}
              /\ to \in {NORMAL_CONFIG_CHANGED, LEAVING_CONFIG_CHANGED}
         /\ c = LEAVING_RESYNCING =>
              /\ l \in {NORMAL_CONFIG_CHANGED, LEAVING_CONFIG_CHANGED}
              /\ to \in {NORMAL, FINISHED}
<1>1. to \notin {NO_CHANGE, ALL_JOINING, ALL_LEAVING, DELETE_ME}
  BY DEF NodeStates
<1>2. c \in {STARTED_JOINING, JOINING_CONFIG_CHANGING, JOINING_RESYNCING,
            STARTED_LEAVING, LEAVING_CONFIG_CHANGING, LEAVING_RESYNCING}
  BY <1>1 DEF FsmTable
<1>3. c = STARTED_JOINING =>
       /\ l \in {NORMAL, JOINING}
       /\ to \in {NORMAL_ACKNOWLEDGED_CHANGE, JOINING_ACKNOWLEDGED_CHANGE}
  BY DEF FsmTable
<1>4. c = JOINING_CONFIG_CHANGING =>
       /\ l \in {NORMAL_ACKNOWLEDGED_CHANGE, JOINING_ACKNOWLEDGED_CHANGE}
       /\ to \in {NORMAL_CONFIG_CHANGED, JOINING_CONFIG_CHANGED}
  BY DEF FsmTable
<1>5. c = JOINING_RESYNCING =>
       /\ l \in {NORMAL_CONFIG_CHANGED, JOINING_CONFIG_CHANGED}
       /\ to \in {NORMAL}
  BY DEF FsmTable
<1>6. c = STARTED_LEAVING =>
       /\ l \in {NORMAL, LEAVING}
       /\ to \in {NORMAL_ACKNOWLEDGED_CHANGE, LEAVING_ACKNOWLEDGED_CHANGE}
  BY DEF FsmTable
<1>7. c = LEAVING_CONFIG_CHANGING =>
       /\ l \in {NORMAL_ACKNOWLEDGED_CHANGE, LEAVING_ACKNOWLEDGED_CHANGE}
       /\ to \in {NORMAL_CONFIG_CHANGED, LEAVING_CONFIG_CHANGED}
  BY DEF FsmTable
<1>8. c = LEAVING_RESYNCING =>
       /\ l \in {NORMAL_CONFIG_CHANGED, LEAVING_CONFIG_CHANGED}
       /\ to \in {NORMAL, FINISHED}
  BY DEF FsmTable
<1>9. QED
  BY <1>2, <1>3, <1>4, <1>5, <1>6, <1>7, <1>8

\* The hook that goes with the end of a resize.
LEMMA ResyncHook ==
  ASSUME NEW c \in {JOINING_RESYNCING, LEAVING_RESYNCING}, NEW l, NEW hook, NEW to,
         <<c, l, hook, to>> \in FsmTable
  PROVE  hook = "on_new_cluster_config_ready"
  BY DEF FsmTable

\* An Advance step is the move of one row of the table.
LEMMA AdvanceMoves ==
  ASSUME NEW n \in Nodes, Advance(n)
  PROVE  \E hook : \E to \in NodeStates :
           /\ <<Cluster, view[n], hook, to>> \in FsmTable
           /\ view' = [view EXCEPT ![n] = to]
           /\ synced' = IF hook = "on_new_cluster_config_ready"
                        THEN synced \cup {n} ELSE synced
           /\ UNCHANGED fsm
<1>1. PICK row \in FsmRows(Cluster, view[n]) :
        /\ row[4] \in NodeStates
        /\ view' = [view EXCEPT ![n] = row[4]]
        /\ synced' = IF row[3] = "on_new_cluster_config_ready"
                     THEN synced \cup {n} ELSE synced
  BY DEF Advance
<1>2. PICK hook, to : /\ row = <<Cluster, view[n], hook, to>>
                      /\ <<Cluster, view[n], hook, to>> \in FsmTable
  BY RowShape
<1>3. row[3] = hook /\ row[4] = to
  BY <1>2
<1>4. QED
  BY <1>1, <1>2, <1>3 DEF Advance

\* Live states that share a phase are never classified as invalid.
LEMMA PhaseIsValid ==
  ASSUME NEW v, NEW phase \in Phases, Live(v) \subseteq phase
  PROVE  ClusterState(v) # INVALID_CLUSTER_STATE
  BY DEF ClusterState, StateCheck, Phases

------------------------------------------------------------------------------
(* The phase of a resize.                                                  *)

\* A step that takes every live state away or into one phase keeps InPhase.
LEMMA StepInPhase ==
  ASSUME NEW phase \in Phases, Live(view') \subseteq phase
  PROVE  InPhase'
  BY DEF InPhase, Phases, Live

\* Every step leaves the live states within one phase.
LEMMA PhaseStep == TypeOK /\ InPhase /\ [Next]_vars => InPhase'
<1> SUFFICES ASSUME TypeOK, InPhase, [Next]_vars PROVE InPhase'
  OBVIOUS
<1> view \in Views
  BY DEF TypeOK, Views
<1>1. ASSUME NEW n \in Nodes, Join(n) PROVE InPhase'
  <2>1. Live(view) \subseteq {NORMAL, WAITING_TO_JOIN}
    BY <1>1, ClusterStateMeans DEF Join, Joinable, Cluster
  <2>2. Live(view') \subseteq {NORMAL, WAITING_TO_JOIN}
    BY <1>1, <2>1, LiveUpdate DEF Join, LocalStates, NodeStates
  <2>3. QED
    BY <2>2, StepInPhase DEF Phases
<1>2. ASSUME NEW n \in Nodes, StartJoining(n) PROVE InPhase'
  <2>1. Live(view) \subseteq {NORMAL, WAITING_TO_JOIN}
    BY <1>2, ClusterStateMeans DEF StartJoining, Cluster
  <2>2. Live(view') \subseteq {NORMAL, JOINING, NORMAL_ACKNOWLEDGED_CHANGE,
                               JOINING_ACKNOWLEDGED_CHANGE}
    <3>1. Live(SwitchAll(view, WAITING_TO_JOIN, JOINING))
            \subseteq (Live(view) \ {WAITING_TO_JOIN}) \cup {JOINING}
      BY LiveSwitch, KnownStates
    <3>2. QED
      BY <1>2, <2>1, <3>1 DEF StartJoining
  <2>3. QED
    BY <2>2, StepInPhase DEF Phases
<1>3. ASSUME NEW n \in Nodes, StartLeaving(n) PROVE InPhase'
  <2>1. Live(view) \subseteq {NORMAL, WAITING_TO_LEAVE}
    BY <1>3, ClusterStateMeans DEF StartLeaving, Cluster
  <2>2. Live(view') \subseteq {NORMAL, LEAVING, NORMAL_ACKNOWLEDGED_CHANGE,
                               LEAVING_ACKNOWLEDGED_CHANGE}
    <3>1. Live(SwitchAll(view, WAITING_TO_LEAVE, LEAVING))
            \subseteq (Live(view) \ {WAITING_TO_LEAVE}) \cup {LEAVING}
      BY LiveSwitch, KnownStates
    <3>2. QED
      BY <1>3, <2>1, <3>1 DEF StartLeaving
  <2>3. QED
    BY <2>2, StepInPhase DEF Phases
<1>4. ASSUME NEW n \in Nodes, Advance(n) PROVE InPhase'
  <2>1. PICK hook, to :
          /\ to \in NodeStates
          /\ <<Cluster, view[n], hook, to>> \in FsmTable
          /\ view' = [view EXCEPT ![n] = to]
    BY <1>4, AdvanceMoves
  <2>2. to \in LocalStates
    BY <2>1, KnownStates
  <2>3. Live(view') \subseteq Live(view) \cup {to}
    BY <2>1, <2>2, LiveUpdate
  <2>4. \E phase \in Phases : Live(view) \cup {to} \subseteq phase
    <3> DEFINE live == Live(view)
    <3> HIDE DEF live
    <3>1. /\ Cluster = STARTED_JOINING =>
               live \subseteq {NORMAL, JOINING, NORMAL_ACKNOWLEDGED_CHANGE,
                               JOINING_ACKNOWLEDGED_CHANGE}
          /\ Cluster = JOINING_CONFIG_CHANGING =>
               live \subseteq {NORMAL_ACKNOWLEDGED_CHANGE,
                               JOINING_ACKNOWLEDGED_CHANGE,
                               NORMAL_CONFIG_CHANGED, JOINING_CONFIG_CHANGED}
          /\ Cluster = JOINING_RESYNCING =>
               live \subseteq {NORMAL_CONFIG_CHANGED, JOINING_CONFIG_CHANGED,
                               NORMAL}
          /\ Cluster = STARTED_LEAVING =>
               live \subseteq {NORMAL, LEAVING, NORMAL_ACKNOWLEDGED_CHANGE,
                               LEAVING_ACKNOWLEDGED_CHANGE}
          /\ Cluster = LEAVING_CONFIG_CHANGING =>
               live \subseteq {NORMAL_ACKNOWLEDGED_CHANGE,
                               LEAVING_ACKNOWLEDGED_CHANGE,
                               NORMAL_CONFIG_CHANGED, LEAVING_CONFIG_CHANGED}
          /\ Cluster = LEAVING_RESYNCING =>
               live \subseteq {NORMAL_CONFIG_CHANGED, LEAVING_CONFIG_CHANGED,
                               NORMAL, FINISHED}
      BY ClusterStateMeans DEF Cluster, live
    <3>2. \/ /\ Cluster = STARTED_JOINING
             /\ to \in {NORMAL_ACKNOWLEDGED_CHANGE, JOINING_ACKNOWLEDGED_CHANGE}
          \/ /\ Cluster = JOINING_CONFIG_CHANGING
             /\ to \in {NORMAL_CONFIG_CHANGED, JOINING_CONFIG_CHANGED}
          \/ Cluster = JOINING_RESYNCING /\ to = NORMAL
          \/ /\ Cluster = STARTED_LEAVING
             /\ to \in {NORMAL_ACKNOWLEDGED_CHANGE, LEAVING_ACKNOWLEDGED_CHANGE}
          \/ /\ Cluster = LEAVING_CONFIG_CHANGING
             /\ to \in {NORMAL_CONFIG_CHANGED, LEAVING_CONFIG_CHANGED}
          \/ Cluster = LEAVING_RESYNCING /\ to \in {NORMAL, FINISHED}
      BY <2>1, TableMoves
    <3>3. \E phase \in Phases : live \cup {to} \subseteq phase
      BY <3>1, <3>2 DEF Phases
    <3>4. QED
      BY <3>3 DEF live
  <2>5. QED
    BY <2>3, <2>4, StepInPhase
<1>5. ASSUME NEW n \in Nodes, Depart(n) PROVE InPhase'
  BY <1>5, LiveUpdate DEF Depart, InPhase, LocalStates
<1>6. ASSUME NEW n \in Nodes, Leave(n) PROVE InPhase'
  <2>1. Live(view) \subseteq {NORMAL, WAITING_TO_LEAVE}
    BY <1>6, ClusterStateMeans DEF Leave, CanLeave, Cluster
  <2>2. Live(view') \subseteq {NORMAL, WAITING_TO_LEAVE}
    BY <1>6, <2>1, LiveUpdate DEF Leave, LocalStates, NodeStates
  <2>3. QED
    BY <2>2, StepInPhase DEF Phases
<1>7. ASSUME NEW n \in Nodes, MarkFailed(n) PROVE InPhase'
  BY <1>7, LiveUpdate DEF MarkFailed, InPhase, LocalStates, NodeStates
<1>8. CASE UNCHANGED view
  BY <1>8 DEF InPhase
<1>9. QED
  BY <1>1, <1>2, <1>3, <1>4, <1>5, <1>6, <1>7, <1>8
     DEF Next, Synchronize, Disturb, vars, Finish, RequestLeave, TakeOver,
         StopEarly, Restart

------------------------------------------------------------------------------
(* Who has resynchronised.                                                 *)

\* What the states of single members say when the live states are known.
LEMMA MemberStates ==
  ASSUME NEW v \in Views, NEW S, Live(v) \subseteq S
  PROVE  \A n \in Nodes : v[n] \in {ABSENT, ERROR} \cup S
  BY LiveMember

\* An Advance step by what it does to the node and to the history of synced.
LEMMA AdvanceKinds ==
  ASSUME TypeOK, NEW n \in Nodes, Advance(n)
  PROVE  \E to \in NodeStates :
           /\ view' = [view EXCEPT ![n] = to]
           /\ fsm[n] = "running" /\ fsm' = fsm
           /\ synced \subseteq synced' /\ synced' \subseteq synced \cup {n}
           /\ \/ /\ to \in {NORMAL_ACKNOWLEDGED_CHANGE, JOINING_ACKNOWLEDGED_CHANGE,
                            LEAVING_ACKNOWLEDGED_CHANGE}
                 /\ \A m \in Nodes : view[m] # FINISHED
              \/ /\ to \in {NORMAL_CONFIG_CHANGED, JOINING_CONFIG_CHANGED,
                            LEAVING_CONFIG_CHANGED}
                 /\ \A m \in Nodes : view[m] \notin {NORMAL, FINISHED}
              \/ /\ to \in {NORMAL, FINISHED}
                 /\ view[n] \in {NORMAL_CONFIG_CHANGED, JOINING_CONFIG_CHANGED,
                                 LEAVING_CONFIG_CHANGED}
                 /\ n \in synced'
<1>1. PICK hook, to :
        /\ to \in NodeStates
        /\ <<Cluster, view[n], hook, to>> \in FsmTable
        /\ view' = [view EXCEPT ![n] = to]
        /\ synced' = IF hook = "on_new_cluster_config_ready"
                     THEN synced \cup {n} ELSE synced
        /\ UNCHANGED fsm
  BY AdvanceMoves
<1>2. view \in Views
  BY DEF TypeOK, Views
<1>3. CASE Cluster \in {STARTED_JOINING, STARTED_LEAVING}
  <2>1. \A m \in Nodes : view[m] # FINISHED
    BY <1>2, <1>3, ClusterStateMeans, MemberStates DEF Cluster
  <2>2. to \in {NORMAL_ACKNOWLEDGED_CHANGE, JOINING_ACKNOWLEDGED_CHANGE,
                LEAVING_ACKNOWLEDGED_CHANGE}
    BY <1>1, <1>3, TableMoves
  <2>3. QED
    BY <1>1, <2>1, <2>2 DEF Advance
<1>4. CASE Cluster \in {JOINING_CONFIG_CHANGING, LEAVING_CONFIG_CHANGING}
  <2>1. \A m \in Nodes : view[m] \notin {NORMAL, FINISHED}
    BY <1>2, <1>4, ClusterStateMeans, MemberStates DEF Cluster
  <2>2. to \in {NORMAL_CONFIG_CHANGED, JOINING_CONFIG_CHANGED,
                LEAVING_CONFIG_CHANGED}
    BY <1>1, <1>4, TableMoves
  <2>3. QED
    BY <1>1, <2>1, <2>2 DEF Advance
<1>5. CASE Cluster \in {JOINING_RESYNCING, LEAVING_RESYNCING}
  <2>1. hook = "on_new_cluster_config_ready"
    BY <1>1, <1>5, ResyncHook
  <2>2. /\ to \in {NORMAL, FINISHED}
        /\ view[n] \in {NORMAL_CONFIG_CHANGED, JOINING_CONFIG_CHANGED,
                        LEAVING_CONFIG_CHANGED}
    BY <1>1, <1>5, TableMoves
  <2>3. QED
    BY <1>1, <2>1, <2>2 DEF Advance
<1>6. Cluster \in {STARTED_JOINING, JOINING_CONFIG_CHANGING, JOINING_RESYNCING,
                  STARTED_LEAVING, LEAVING_CONFIG_CHANGING, LEAVING_RESYNCING}
  BY <1>1, TableMoves
<1>7. QED
  BY <1>3, <1>4, <1>5, <1>6

\* Switching all waiting nodes on leaves nobody past the configuration change.
LEMMA SwitchStates ==
  ASSUME TypeOK, NEW n \in Nodes, StartJoining(n) \/ StartLeaving(n)
  PROVE  /\ \A m \in Nodes : view'[m] \in {NORMAL, JOINING, LEAVING, ABSENT, ERROR}
         /\ \A m \in Nodes : view[m] \in {ABSENT, ERROR} => view'[m] = view[m]
         /\ \A m \in Nodes : view[m] # FINISHED
         /\ view'[n] \in {JOINING, LEAVING}
         /\ fsm[n] = "running" /\ fsm' = fsm
<1>1. view \in Views
  BY DEF TypeOK, Views
<1>2. CASE StartJoining(n)
  <2>1. \A m \in Nodes : view[m] \in {ABSENT, ERROR, NORMAL, WAITING_TO_JOIN}
    BY <1>1, <1>2, ClusterStateMeans, MemberStates DEF StartJoining, Cluster
  <2>2. QED
    BY <1>1, <1>2, <2>1 DEF StartJoining, SwitchAll, Views
<1>3. CASE StartLeaving(n)
  <2>1. \A m \in Nodes : view[m] \in {ABSENT, ERROR, NORMAL, WAITING_TO_LEAVE}
    BY <1>1, <1>3, ClusterStateMeans, MemberStates DEF StartLeaving, Cluster
  <2>2. QED
    BY <1>1, <1>3, <2>1 DEF StartLeaving, SwitchAll, Views
<1>4. QED
  BY <1>2, <1>3

\* No step lets a node that has not resynchronised be NORMAL beside one that is
\* past the configuration change.
LEMMA ResyncStep == TypeOK /\ ResyncedAfterConfig /\ [Next]_vars => ResyncedAfterConfig'
<1> SUFFICES ASSUME TypeOK, ResyncedAfterConfig, [Next]_vars
             PROVE  ResyncedAfterConfig'
  OBVIOUS
<1> USE DEF TypeOK, ResyncedAfterConfig
<1>1. ASSUME NEW n \in Nodes, Join(n) PROVE ResyncedAfterConfig'
  BY <1>1 DEF Join
<1>2. ASSUME NEW n \in Nodes, StartJoining(n) \/ StartLeaving(n)
      PROVE  ResyncedAfterConfig'
  BY <1>2, SwitchStates
<1>3. ASSUME NEW n \in Nodes, Advance(n) PROVE ResyncedAfterConfig'
  <2>1. PICK to \in NodeStates :
          /\ view' = [view EXCEPT ![n] = to]
          /\ synced \subseteq synced' /\ synced' \subseteq synced \cup {n}
          /\ \/ to \in {NORMAL_ACKNOWLEDGED_CHANGE, JOINING_ACKNOWLEDGED_CHANGE,
                       LEAVING_ACKNOWLEDGED_CHANGE}
             \/ /\ to \in {NORMAL_CONFIG_CHANGED, JOINING_CONFIG_CHANGED,
                          LEAVING_CONFIG_CHANGED}
                /\ \A m \in Nodes : view[m] \notin {NORMAL, FINISHED}
             \/ /\ to \in {NORMAL, FINISHED}
                /\ view[n] \in {NORMAL_CONFIG_CHANGED, JOINING_CONFIG_CHANGED,
                               LEAVING_CONFIG_CHANGED}
                /\ n \in synced'
    BY <1>3, AdvanceKinds
  <2>2. \A m \in Nodes : view'[m] = IF m = n THEN to ELSE view[m]
    BY <2>1
  <2>3. QED
    BY <2>1, <2>2
<1>4. ASSUME NEW n \in Nodes, Depart(n) PROVE ResyncedAfterConfig'
  BY <1>4 DEF Depart
<1>5. ASSUME NEW n \in Nodes, Leave(n) PROVE ResyncedAfterConfig'
  BY <1>5 DEF Leave
<1>6. ASSUME NEW n \in Nodes, MarkFailed(n) PROVE ResyncedAfterConfig'
  BY <1>6 DEF MarkFailed
<1>7. CASE UNCHANGED <<view, synced>>
  BY <1>7
<1>8. QED
  BY <1>1, <1>2, <1>3, <1>4, <1>5, <1>6, <1>7
     DEF Next, Synchronize, Disturb, vars, Finish, RequestLeave, TakeOver,
         StopEarly, Restart

\* A NORMAL member that has not resynchronised always has a member beside it
\* that shows why.
LEMMA UnsettledStep ==
  TypeOK /\ ResyncedAfterConfig /\ UnsyncedWhileUnsettled /\ [Next]_vars
    => UnsyncedWhileUnsettled'
<1> SUFFICES ASSUME TypeOK, ResyncedAfterConfig, UnsyncedWhileUnsettled, [Next]_vars,
                    NEW k \in Nodes, view'[k] = NORMAL, k \notin synced'
             PROVE  \E m \in Nodes : Unsettled(m)'
  BY DEF UnsyncedWhileUnsettled
<1> USE DEF TypeOK, Unsettled
<1>1. ASSUME NEW n \in Nodes, Join(n) PROVE \E m \in Nodes : Unsettled(m)'
  <2>1. PICK m \in Nodes : Unsettled(m)
    BY <1>1 DEF Join, UnsyncedWhileUnsettled
  <2>2. QED
    BY <1>1, <2>1 DEF Join
<1>2. ASSUME NEW n \in Nodes, StartJoining(n) \/ StartLeaving(n)
      PROVE  \E m \in Nodes : Unsettled(m)'
  <2>1. Unsettled(n)'
    BY <1>2, SwitchStates
  <2>2. QED
    BY <2>1
<1>3. ASSUME NEW n \in Nodes, Advance(n) PROVE \E m \in Nodes : Unsettled(m)'
  <2>1. PICK to \in NodeStates :
          /\ view' = [view EXCEPT ![n] = to]
          /\ fsm[n] = "running" /\ fsm' = fsm
          /\ synced \subseteq synced' /\ synced' \subseteq synced \cup {n}
          /\ \/ to \in {NORMAL_ACKNOWLEDGED_CHANGE, JOINING_ACKNOWLEDGED_CHANGE,
                        LEAVING_ACKNOWLEDGED_CHANGE}
             \/ /\ to \in {NORMAL_CONFIG_CHANGED, JOINING_CONFIG_CHANGED,
                           LEAVING_CONFIG_CHANGED}
                /\ \A m \in Nodes : view[m] \notin {NORMAL, FINISHED}
             \/ /\ to \in {NORMAL, FINISHED}
                /\ view[n] \in {NORMAL_CONFIG_CHANGED, JOINING_CONFIG_CHANGED,
                                LEAVING_CONFIG_CHANGED}
                /\ n \in synced'
    BY <1>3, AdvanceKinds
  <2>2. view'[n] = to /\ \A m \in Nodes \ {n} : view'[m] = view[m]
    BY <2>1
  <2>3. CASE to \in {NORMAL_ACKNOWLEDGED_CHANGE, JOINING_ACKNOWLEDGED_CHANGE,
                     LEAVING_ACKNOWLEDGED_CHANGE}
    <3>1. Unsettled(n)'
      BY <2>1, <2>2, <2>3
    <3>2. QED
      BY <3>1
  <2>4. CASE /\ to \in {NORMAL_CONFIG_CHANGED, JOINING_CONFIG_CHANGED,
                        LEAVING_CONFIG_CHANGED}
             /\ \A m \in Nodes : view[m] \notin {NORMAL, FINISHED}
    BY <2>2, <2>4
  <2>5. CASE /\ to \in {NORMAL, FINISHED}
             /\ view[n] \in {NORMAL_CONFIG_CHANGED, JOINING_CONFIG_CHANGED,
                             LEAVING_CONFIG_CHANGED}
             /\ n \in synced'
    <3>1. \A m \in Nodes : view[m] = NORMAL => m \in synced
      BY <2>5 DEF ResyncedAfterConfig
    <3>2. k # n /\ view[k] = NORMAL /\ k \notin synced
      BY <2>1, <2>2, <2>5
    <3>3. QED
      BY <3>1, <3>2
  <2>6. QED
    BY <2>1, <2>3, <2>4, <2>5
<1>4. ASSUME NEW n \in Nodes, Finish(n) PROVE \E m \in Nodes : Unsettled(m)'
  <2>1. PICK m \in Nodes : Unsettled(m)
    BY <1>4 DEF Finish, UnsyncedWhileUnsettled
  <2>2. QED
    BY <1>4, <2>1 DEF Finish
<1>5. ASSUME NEW n \in Nodes, Depart(n) PROVE \E m \in Nodes : Unsettled(m)'
  <2>1. PICK m \in Nodes : Unsettled(m)
    BY <1>5 DEF Depart, UnsyncedWhileUnsettled
  <2>2. QED
    BY <1>5, <2>1 DEF Depart
<1>6. ASSUME NEW n \in Nodes, Leave(n) PROVE \E m \in Nodes : Unsettled(m)'
  BY <1>6 DEF Leave
<1>7. ASSUME NEW n \in Nodes, MarkFailed(n) PROVE \E m \in Nodes : Unsettled(m)'
  <2>1. PICK m \in Nodes : Unsettled(m)
    BY <1>7 DEF MarkFailed, UnsyncedWhileUnsettled
  <2>2. QED
    BY <1>7, <2>1 DEF MarkFailed
<1>8. ASSUME NEW n \in Nodes, TakeOver(n) \/ StopEarly(n) \/ Restart(n)
      PROVE  \E m \in Nodes : Unsettled(m)'
  <2>1. PICK m \in Nodes : Unsettled(m)
    BY <1>8 DEF TakeOver, StopEarly, Restart, UnsyncedWhileUnsettled
  <2>2. QED
    BY <1>8, <2>1 DEF TakeOver, StopEarly, Restart
<1>9. CASE UNCHANGED <<view, fsm, synced>>
  BY <1>9 DEF UnsyncedWhileUnsettled
<1>10. QED
  BY <1>1, <1>2, <1>3, <1>4, <1>5, <1>6, <1>7, <1>8, <1>9
     DEF Next, Synchronize, Disturb, vars, RequestLeave

\* While a node is about to delete its entry, nothing but departures and
\* failures can happen to the view.
LEMMA DepartingStep == TypeOK /\ DepartingIsLast /\ [Next]_vars => DepartingIsLast'
<1> SUFFICES ASSUME TypeOK, DepartingIsLast, [Next]_vars,
                    NEW k \in Nodes, fsm'[k] = "departing"
             PROVE  /\ view'[k] \in {FINISHED, ERROR}
                    /\ view'[k] = FINISHED => Live(view') \subseteq {NORMAL, FINISHED}
  BY DEF DepartingIsLast
<1> DEFINE Goal == /\ view'[k] \in {FINISHED, ERROR}
                   /\ view'[k] = FINISHED => Live(view') \subseteq {NORMAL, FINISHED}
<1>a. view \in Views
  BY DEF TypeOK, Views
<1>b. ASSUME fsm[k] = "departing"
      PROVE  /\ view[k] \in {FINISHED, ERROR}
             /\ view[k] = FINISHED =>
                  /\ Live(view) \subseteq {NORMAL, FINISHED}
                  /\ FINISHED \in Live(view)
  BY <1>a, <1>b, LiveMember DEF DepartingIsLast
<1>1. ASSUME NEW n \in Nodes, Join(n) PROVE Goal
  <2>1. fsm[k] = "departing" /\ k # n /\ view'[k] = view[k]
    BY <1>1 DEF Join, TypeOK
  <2>2. FINISHED \notin Live(view)
    BY <1>1, ClusterStateMeans DEF Join, Joinable, Cluster
  <2>3. QED
    BY <1>b, <2>1, <2>2
<1>2. ASSUME NEW n \in Nodes, StartJoining(n) \/ StartLeaving(n) PROVE Goal
  <2>1. fsm[k] = "departing" /\ view[k] # FINISHED
    BY <1>2, SwitchStates
  <2>2. view'[k] = ERROR
    BY <1>b, <1>2, <2>1, SwitchStates
  <2>3. QED
    BY <2>2
<1>3. ASSUME NEW n \in Nodes, Advance(n) PROVE Goal
  <2>1. PICK to \in NodeStates :
          /\ view' = [view EXCEPT ![n] = to]
          /\ fsm[n] = "running" /\ fsm' = fsm
          /\ \/ \A m \in Nodes : view[m] # FINISHED
             \/ view[n] \in {NORMAL_CONFIG_CHANGED, JOINING_CONFIG_CHANGED,
                             LEAVING_CONFIG_CHANGED}
    BY <1>3, AdvanceKinds
  <2>2. fsm[k] = "departing" /\ k # n
    BY <2>1
  <2>3. view'[k] = view[k]
    BY <2>1, <2>2 DEF TypeOK
  <2>4. view[k] # FINISHED
    <3>1. SUFFICES ASSUME view[k] = FINISHED,
                          view[n] \in {NORMAL_CONFIG_CHANGED, JOINING_CONFIG_CHANGED,
                                       LEAVING_CONFIG_CHANGED}
                   PROVE  FALSE
      BY <2>1
    <3>2. view[n] \in Live(view)
      BY <1>a, <3>1, LiveMember
    <3>3. QED
      BY <1>b, <2>2, <3>1, <3>2
  <2>5. QED
    BY <1>b, <2>2, <2>3, <2>4
<1>4. ASSUME NEW n \in Nodes, Finish(n) PROVE Goal
  <2>1. CASE n = k
    BY <1>4, <2>1, ClusterStateMeans DEF Finish, Cluster
  <2>2. CASE n # k
    BY <1>b, <1>4, <2>2 DEF Finish, TypeOK
  <2>3. QED
    BY <2>1, <2>2
<1>5. ASSUME NEW n \in Nodes, Depart(n) PROVE Goal
  <2>1. fsm[k] = "departing" /\ k # n /\ view'[k] = view[k]
    BY <1>5 DEF Depart, TypeOK
  <2>2. Live(view') \subseteq Live(view)
    BY <1>a, <1>5, LiveUpdate, KnownStates DEF Depart
  <2>3. QED
    BY <1>b, <2>1, <2>2
<1>6. ASSUME NEW n \in Nodes, Leave(n) PROVE Goal
  <2>1. fsm[k] = "departing" /\ k # n /\ view'[k] = view[k]
    BY <1>6 DEF Leave, TypeOK
  <2>2. FINISHED \notin Live(view)
    BY <1>6, ClusterStateMeans DEF Leave, CanLeave, Cluster
  <2>3. QED
    BY <1>b, <2>1, <2>2
<1>7. ASSUME NEW n \in Nodes, MarkFailed(n) PROVE Goal
  <2>1. fsm[k] = "departing"
    BY <1>7 DEF MarkFailed
  <2>2. view'[k] = IF k = n THEN ERROR ELSE view[k]
    BY <1>7 DEF MarkFailed, TypeOK
  <2>3. Live(view') \subseteq Live(view)
    BY <1>a, <1>7, LiveUpdate, KnownStates DEF MarkFailed
  <2>4. QED
    BY <1>b, <2>1, <2>2, <2>3
<1>8. ASSUME NEW n \in Nodes, TakeOver(n) \/ StopEarly(n) \/ Restart(n) PROVE Goal
  <2>1. fsm[k] = "departing" /\ view' = view
    BY <1>8 DEF TakeOver, StopEarly, Restart, TypeOK
  <2>2. QED
    BY <1>b, <2>1
<1>9. CASE UNCHANGED <<view, fsm>>
  BY <1>b, <1>9
<1>10. QED
  BY <1>1, <1>2, <1>3, <1>4, <1>5, <1>6, <1>7, <1>8, <1>9
     DEF Next, Synchronize, Disturb, vars, RequestLeave

------------------------------------------------------------------------------
(* The theorems.                                                           *)

\* The inductive invariant holds in every reachable state.
THEOREM Invariance == Safety => []IInv
<1>1. Init => IInv
  <2> SUFFICES ASSUME Init PROVE IInv
    OBVIOUS
  <2>1. TypeOK
    BY InitType
  <2>2. InPhase
    BY DEF Init, InPhase, Phases, Live
  <2>3. ResyncedAfterConfig /\ UnsyncedWhileUnsettled /\ DepartingIsLast
    BY DEF Init, ResyncedAfterConfig, UnsyncedWhileUnsettled, DepartingIsLast
  <2>4. QED
    BY <2>1, <2>2, <2>3 DEF IInv
<1>2. IInv /\ [Next]_vars => IInv'
  BY TypeStep, PhaseStep, ResyncStep, UnsettledStep, DepartingStep DEF IInv
<1>3. QED
  BY <1>1, <1>2, PTL DEF Safety

\* No interleaving of joins, leaves, failures and restarts, of any number of
\* nodes, takes the cluster to INVALID_CLUSTER_STATE.
THEOREM NeverInvalidHolds == Safety => []NeverInvalid
<1>1. IInv => NeverInvalid
  BY PhaseIsValid DEF IInv, InPhase, NeverInvalid, Cluster
<1>2. QED
  BY <1>1, Invariance, PTL

\* In a STABLE cluster every member has resynchronised since the last resize
\* started: on_stable_cluster never runs on an unfinished resize.
THEOREM StableMeansSyncedHolds == Safety => []StableMeansSynced
<1>1. IInv => StableMeansSynced
  <2> SUFFICES ASSUME IInv, Cluster = STABLE, NEW n \in Members(view), n \notin synced
               PROVE  FALSE
    BY DEF StableMeansSynced
  <2>1. view \in Views /\ n \in Nodes /\ view[n] # ABSENT
    BY DEF IInv, TypeOK, Views, Members
  <2>2. /\ Live(view) \subseteq {NORMAL}
        /\ \A m \in Nodes : view[m] # ERROR
    BY <2>1, ClusterStateMeans DEF Cluster, Views
  <2>3. \A m \in Nodes : view[m] \in {ABSENT, NORMAL}
    BY <2>1, <2>2, MemberStates
  <2>4. PICK m \in Nodes : Unsettled(m)
    BY <2>1, <2>3 DEF IInv, UnsyncedWhileUnsettled
  <2>5. QED
    BY <2>3, <2>4 DEF Unsettled
<1>2. QED
  BY <1>1, Invariance, PTL

\* A node that nobody marked failed disappears from the view only after every
\* live member has resynchronised.
THEOREM RemovalAfterResyncHolds == Safety => RemovalAfterResync
<1>1. ASSUME IInv, [Next]_vars, NEW n \in Nodes,
             view[n] \notin {ABSENT, ERROR}, view'[n] = ABSENT
      PROVE  {m \in Members(view) : view[m] # ERROR} \subseteq synced
  <2> USE DEF IInv
  <2>1. view \in Views /\ TypeOK
    BY <1>1 DEF TypeOK, Views
  <2>2. Depart(n)
    <3>1. ASSUME NEW m \in Nodes, StartJoining(m) \/ StartLeaving(m) PROVE FALSE
      BY <1>1, <2>1, <3>1 DEF StartJoining, StartLeaving, SwitchAll, Views
    <3>2. ASSUME NEW m \in Nodes, Advance(m) PROVE FALSE
      BY <1>1, <2>1, <3>2, AdvanceKinds DEF TypeOK, NodeStates
    <3>3. QED
      BY <1>1, <2>1, <3>1, <3>2
         DEF Next, Synchronize, Disturb, vars, TypeOK, Join, Finish, Depart, Leave,
             RequestLeave, MarkFailed, TakeOver, StopEarly, Restart
  <2>3. view[n] = FINISHED /\ Live(view) \subseteq {NORMAL, FINISHED}
    BY <1>1, <2>2 DEF Depart, DepartingIsLast
  <2>4. \A m \in Nodes : view[m] \in {ABSENT, ERROR, NORMAL, FINISHED}
    BY <2>1, <2>3, MemberStates
  <2>5. \A m \in Nodes : view[m] \in {NORMAL, FINISHED} => m \in synced
    BY <1>1, <2>3 DEF ResyncedAfterConfig
  <2>6. QED
    BY <2>1, <2>4, <2>5 DEF Members, Views
<1>2. IInv /\ [Next]_vars =>
        [\A n \in Nodes :
           view[n] \notin {ABSENT, ERROR} /\ view'[n] = ABSENT =>
             {m \in Members(view) : view[m] # ERROR} \subseteq synced]_vars
  BY <1>1
<1>3. QED
  BY <1>2, Invariance, PTL DEF Safety, RemovalAfterResync
==============================================================================
