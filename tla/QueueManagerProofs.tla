-------------------------- MODULE QueueManagerProofs --------------------------
(***************************************************************************)
(* Proofs about QueueManager, for any finite set of nodes, any set of      *)
(* managers and any bounds: the queue stays well formed whatever happens;  *)
(* and where main is not let in between the reader's last look at the      *)
(* abort flag and its assignment, and a write that raises has been         *)
(* applied, the managers take only steps of QueueProtocol, so that no      *)
(* failure is forgotten and no node loses its place.                       *)
(***************************************************************************)
EXTENDS QueueManager, QueueConfigProofs

------------------------------------------------------------------------------
(* The operators of QueueConfig as QueueProtocol sees them.                *)

LEMMA SameQueue ==
  /\ Protocol!DefaultValue = DefaultValue
  /\ \A c, n : /\ Protocol!AtFront(c, n) <=> AtFront(c, n)
               /\ Protocol!BeingProcessed(c, n) <=> BeingProcessed(c, n)
               /\ Protocol!MoveToProcessing(c, n) = MoveToProcessing(c, n)
               /\ Protocol!MarkUnresponsive(c, n) = MarkUnresponsive(c, n)
<1>1. Protocol!DefaultValue = DefaultValue
  BY DEF Protocol!DefaultValue, DefaultValue
<1>2. \A c, n : /\ Protocol!AtFront(c, n) <=> AtFront(c, n)
                /\ Protocol!BeingProcessed(c, n) <=> BeingProcessed(c, n)
  BY DEF Protocol!AtFront, AtFront, Protocol!BeingProcessed, BeingProcessed,
         Protocol!PROCESSING, PROCESSING
<1>3. \A c, n : Protocol!MoveToProcessing(c, n) = MoveToProcessing(c, n)
  BY <1>2 DEF Protocol!MoveToProcessing, MoveToProcessing, Protocol!PROCESSING, PROCESSING
<1>4. \A c, n : Protocol!MarkUnresponsive(c, n) = MarkUnresponsive(c, n)
  <2>1. \A c : Protocol!RemoveFirst(c) = RemoveFirst(c)
    BY DEF Protocol!RemoveFirst, RemoveFirst
  <2>2. \A c, n : Protocol!NodeFailed(c, n, UNRESPONSIVE) = NodeFailed(c, n, UNRESPONSIVE)
    BY <1>2 DEF Protocol!NodeFailed, NodeFailed, Protocol!Entry, Entry
  <2>3. \A c : Protocol!ClearFront(c) = ClearFront(c)
    BY <1>2 DEF Protocol!ClearFront, ClearFront
  <2> QED BY <2>1, <2>2, <2>3 DEF Protocol!MarkUnresponsive, MarkUnresponsive,
             Protocol!UNRESPONSIVE, UNRESPONSIVE
<1> QED BY <1>1, <1>2, <1>3, <1>4

LEMMA SameOrder ==
  \A c : /\ Protocol!InOrder(c) <=> InOrder(c)
         /\ Protocol!CompletedAgrees(c) <=> CompletedAgrees(c)
         /\ Protocol!ErroredAgrees(c) <=> ErroredAgrees(c)
<1>1. \A c, n : /\ Protocol!InQueue(c, n) <=> InQueue(c, n)
                /\ Protocol!InError(c, n) <=> InError(c, n)
  BY DEF Protocol!InQueue, InQueue, Protocol!InError, InError, Protocol!InList, InList,
         Protocol!Range, Range
<1>2. \A s : Protocol!IsInjective(s) <=> IsInjective(s)
  BY DEF Protocol!IsInjective, IsInjective
<1> QED BY <1>1, <1>2, SameQueue DEF Protocol!InOrder, InOrder, Protocol!CompletedAgrees,
           CompletedAgrees, Protocol!ErroredAgrees, ErroredAgrees, Protocol!QUEUED, QUEUED

\* Requests and reports are steps of QueueProtocol by their definition, and leave
\* a well-formed queue.
LEMMA AddIs ==
  ASSUME NEW n \in Nodes, Protocol!Add(n)
  PROVE  /\ \E retries \in Retries(config) : config' = AddToQueue(config, n, retries)
         /\ working' = working
<1>1. \A c : Protocol!Retries(c) = Retries(c)
  <2>1. \A S : Protocol!Cardinality(S) = Cardinality(S)
    BY DEF Protocol!Cardinality, Cardinality
  <2> QED BY <2>1 DEF Protocol!Retries, Retries, Protocol!Entry, Entry, Protocol!IsInjective,
             IsInjective, Protocol!FAILURE, FAILURE, Protocol!QUEUED, QUEUED
<1>2. \A c, retries : Protocol!Started(c, retries) = Started(c, retries)
  BY DEF Protocol!Started, Started
<1>3. \A c : Protocol!Enqueue(c, n) = Enqueue(c, n)
  BY DEF Protocol!Enqueue, Enqueue, Protocol!Entry, Entry, Protocol!Range, Range,
         Protocol!QUEUED, QUEUED
<1>4. \A c, retries : Protocol!AddToQueue(c, n, retries) = AddToQueue(c, n, retries)
  BY <1>2, <1>3 DEF Protocol!AddToQueue, AddToQueue
<1> QED BY <1>1, <1>4 DEF Protocol!Add

LEMMA AddWellFormed ==
  ASSUME WellFormed(config), NEW n \in Nodes, Protocol!Add(n)
  PROVE  WellFormed(config') /\ working' = working
  BY AddIs, Added

LEMMA ForceWellFormed ==
  ASSUME WellFormed(config), NEW force \in BOOLEAN, Protocol!SetForce(force)
  PROVE  WellFormed(config') /\ working' = working
<1>1. config' = [config EXCEPT !.force = force] /\ working' = working
  BY DEF Protocol!SetForce
<1>2. /\ config'.queued = config.queued /\ config'.errored = config.errored
      /\ config'.completed = config.completed /\ config' \in QueueConfigs
  BY <1>1 DEF WellFormed, QueueConfigs
<1> QED BY <1>1, <1>2 DEF WellFormed, InOrder, CompletedAgrees, ErroredAgrees, InQueue,
           InError, AtFront

LEMMA ReportIs ==
  ASSUME NEW n \in Nodes, NEW successful \in BOOLEAN, Protocol!Report(n, successful)
  PROVE  config' = RemoveFromQueue(config, n, successful) /\ working' \subseteq working
<1>1. \A c : Protocol!RemoveFirst(c) = RemoveFirst(c) /\ Protocol!ClearFront(c) = ClearFront(c)
  BY SameQueue DEF Protocol!RemoveFirst, RemoveFirst, Protocol!ClearFront, ClearFront
<1>2. \A c : /\ Protocol!NodeFailed(c, n, FAILURE) = NodeFailed(c, n, FAILURE)
             /\ Protocol!NodeSucceeded(c, n) = NodeSucceeded(c, n)
  BY SameQueue DEF Protocol!NodeFailed, NodeFailed, Protocol!Entry, Entry,
     Protocol!NodeSucceeded, NodeSucceeded, Protocol!InQueue, InQueue, Protocol!InList, InList,
     Protocol!Range, Range
<1>3. Protocol!RemoveFromQueue(config, n, successful) = RemoveFromQueue(config, n, successful)
  BY <1>1, <1>2, SameQueue DEF Protocol!RemoveFromQueue, RemoveFromQueue, Protocol!FAILURE,
     FAILURE
<1> QED BY <1>3 DEF Protocol!Report

LEMMA ReportWellFormed ==
  ASSUME WellFormed(config), NEW n \in Nodes, NEW successful \in BOOLEAN,
         Protocol!Report(n, successful)
  PROVE  WellFormed(config') /\ working' \subseteq working
  BY ReportIs, TurnEnded

\* What the managers of other nodes do leaves a well-formed queue too.
LEMMA ElsewhereWellFormed ==
  ASSUME WellFormed(config), working \subseteq Nodes, NEW n \in Nodes,
         Protocol!Start(n) \/ Protocol!BeginWork(n) \/ Protocol!Crash(n) \/ Protocol!TimeOut(n)
  PROVE  WellFormed(config') /\ working' \subseteq Nodes
<1>1. CASE Protocol!Start(n)
  BY <1>1, SameQueue, TurnTaken DEF Protocol!Start
<1>2. CASE Protocol!BeginWork(n)
  BY <1>2 DEF Protocol!BeginWork
<1>3. CASE Protocol!Crash(n)
  BY <1>3 DEF Protocol!Crash
<1>4. CASE Protocol!TimeOut(n)
  BY <1>4, SameQueue, TurnEnded DEF Protocol!TimeOut
<1> QED BY <1>1, <1>2, <1>3, <1>4

------------------------------------------------------------------------------
(* What is known of the queue, and what the FSM makes of it.               *)

\* To know nothing is not to know a queue.
LEMMA NothingKnown == \A c \in QueueConfigs : c # NoConfig
<1> SUFFICES ASSUME NEW c \in QueueConfigs, c = NoConfig PROVE FALSE
  OBVIOUS
<1>1. DOMAIN c = {"force", "queued", "errored", "completed"}
  BY DEF QueueConfigs
<1>2. DOMAIN c = {}
  BY DEF NoConfig
<1> QED BY <1>1, <1>2

\* What the FSM makes of a known queue is well formed.
LEMMA DecisionsKnown ==
  ASSUME NEW v, WellFormed(v), NEW n \in Nodes
  PROVE  /\ MoveToProcessing(v, n) \in Values \ {NoConfig}
         /\ \A m \in Nodes : AtFront(v, m) => MarkUnresponsive(v, m) \in Values \ {NoConfig}
         /\ v.queued # <<>> => Head(v.queued).id \in Nodes
<1>1. MoveToProcessing(v, n) \in Values \ {NoConfig}
  <2>1. CASE AtFront(v, n)
    BY <2>1, TurnTaken, NothingKnown DEF Values, WellFormed
  <2>2. CASE ~AtFront(v, n)
    BY <2>2, NothingKnown DEF MoveToProcessing, Values, WellFormed
  <2> QED BY <2>1, <2>2
<1>2. \A m \in Nodes : AtFront(v, m) => MarkUnresponsive(v, m) \in Values \ {NoConfig}
  BY TurnEnded, NothingKnown DEF Values, WellFormed
<1>3. v.queued # <<>> => Head(v.queued) \in QueueEntries
  BY Fields, HeadEntry DEF WellFormed
<1> QED BY <1>1, <1>2, <1>3 DEF QueueEntries

\* The default value is known too.
LEMMA DefaultKnown == WellFormed(DefaultValue)
<1>1. /\ DefaultValue.queued = <<>> /\ DefaultValue.errored = {}
      /\ DefaultValue.completed = {}
  BY DEF DefaultValue
<1>2. DefaultValue \in QueueConfigs
  <2>1. <<>> \in Seq(QueueEntries)
    OBVIOUS
  <2> QED BY <2>1 DEF DefaultValue, QueueConfigs
<1> QED BY <1>1, <1>2 DEF WellFormed, InOrder, IsInjective, CompletedAgrees, ErroredAgrees

\* A value that is not the absence of one is a well-formed queue.
LEMMA KnownWellFormed == \A v \in Values : v # NoConfig => WellFormed(v)
  BY DEF Values

\* The FSM decides for n alone, keeps the types, and makes of the queue that is in
\* etcd what QueueProtocol allows.
FsmTypes ==
  /\ timer \in [Managers -> Nodes \cup {NoTimer}]
  /\ {popped, called} \subseteq [Managers -> BOOLEAN]
  /\ alarm \in [Managers -> Alarms]
  /\ turn \in [Managers -> [value : Values, att : Indices]]

LEMMA Decides ==
  ASSUME TypeOK, NEW n \in Managers, NEW v, WellFormed(v), FsmUpdate(n, v)
  PROVE  /\ FsmTypes'
         /\ \A m \in Managers \ {n} : turn'[m] = turn[m]
         /\ turn'[n].value # NoConfig
         /\ v = config => Outcome(n, turn'[n].value)
         /\ working' = working \/ working' = working \cup {n}
<1>1. n \in Nodes
  BY ConstantsAssumption
<1>2. /\ MoveToProcessing(v, n) \in Values \ {NoConfig}
      /\ \A m \in Nodes : AtFront(v, m) => MarkUnresponsive(v, m) \in Values \ {NoConfig}
      /\ v.queued # <<>> => Head(v.queued).id \in Nodes
  BY <1>1, DecisionsKnown
<1>3. FsmTypes
  BY DEF TypeOK, FsmTypes
<1>4. "none" \in Indices
  BY DEF Indices
<1>5. /\ LocalAlarm(n, v) \in {"clear", "minor", "critical"}
      /\ GlobalAlarm(v) \in {"clear", "minor", "critical"}
  BY DEF LocalAlarm, GlobalAlarm
<1>6. CASE Expires(n, v)
  <2>1. /\ turn' = [turn EXCEPT ![n] = [NoTurn EXCEPT !.value = MarkUnresponsive(v, timer[n])]]
        /\ timer' = [timer EXCEPT ![n] = NoTimer]
        /\ popped' = [popped EXCEPT ![n] = FALSE]
        /\ alarm' = [alarm EXCEPT ![n].local = IF AtFront(v, n) THEN "critical" ELSE @]
        /\ called' = called /\ working' = working
    BY <1>6 DEF FsmUpdate
  <2>2. AtFront(v, timer[n]) /\ timer[n] \in Nodes
    <3>1. AtFront(v, timer[n])
      BY <1>6 DEF Expires
    <3> QED BY <1>2, <3>1 DEF AtFront
  <2>3. MarkUnresponsive(v, timer[n]) \in Values \ {NoConfig}
    BY <1>2, <2>2
  <2>4. [NoTurn EXCEPT !.value = MarkUnresponsive(v, timer[n])]
          = [value |-> MarkUnresponsive(v, timer[n]), att |-> "none"]
    BY DEF NoTurn
  <2>5. /\ turn'[n].value = MarkUnresponsive(v, timer[n])
        /\ turn' \in [Managers -> [value : Values, att : Indices]]
        /\ \A m \in Managers \ {n} : turn'[m] = turn[m]
    BY <1>3, <1>4, <2>1, <2>3, <2>4 DEF FsmTypes
  <2>6. alarm' \in [Managers -> Alarms]
    BY <1>3, <2>1 DEF FsmTypes, Alarms
  <2>7. FsmTypes'
    BY <1>3, <2>1, <2>5, <2>6 DEF FsmTypes
  <2> QED BY <2>1, <2>2, <2>3, <2>5, <2>7 DEF Outcome
<1>7. CASE ~Expires(n, v)
  <2>1. /\ turn' = [turn EXCEPT ![n] = [NoTurn EXCEPT !.value = MoveToProcessing(v, n)]]
        /\ timer' = [timer EXCEPT ![n] = IF TakesTurn(n, v) THEN n
                                         ELSE IF WaitsForOther(n, v) THEN Head(v.queued).id
                                         ELSE IF popped[n] THEN NoTimer ELSE @]
        /\ popped' = [popped EXCEPT ![n] = FALSE]
        /\ called' = [called EXCEPT ![n] = BeingProcessed(v, n)]
        /\ alarm' = [alarm EXCEPT
             ![n].local = IF BeingProcessed(v, n) /\ called[n] THEN @ ELSE LocalAlarm(n, v),
             ![n].global = GlobalAlarm(v)]
        /\ working' = IF TakesTurn(n, v) THEN working \cup {n} ELSE working
    BY <1>7 DEF FsmUpdate
  <2>2. [NoTurn EXCEPT !.value = MoveToProcessing(v, n)]
          = [value |-> MoveToProcessing(v, n), att |-> "none"]
    BY DEF NoTurn
  <2>3. /\ turn'[n].value = MoveToProcessing(v, n)
        /\ turn' \in [Managers -> [value : Values, att : Indices]]
        /\ \A m \in Managers \ {n} : turn'[m] = turn[m]
    BY <1>2, <1>3, <1>4, <2>1, <2>2 DEF FsmTypes
  <2>4. alarm' \in [Managers -> Alarms]
    <3> DEFINE local == IF BeingProcessed(v, n) /\ called[n] THEN alarm[n].local
                        ELSE LocalAlarm(n, v)
               told == [alarm EXCEPT ![n].local = local]
    <3>1. alarm' = [told EXCEPT ![n].global = GlobalAlarm(v)]
      BY <2>1
    <3>2. local \in {"clear", "minor", "critical"}
      BY <1>3, <1>5 DEF FsmTypes, Alarms
    <3> HIDE DEF local
    <3>3. told \in [Managers -> Alarms]
      BY <1>3, <3>2 DEF FsmTypes, Alarms
    <3> HIDE DEF told
    <3> QED BY <1>5, <3>1, <3>3 DEF Alarms
  <2>5. timer' \in [Managers -> Nodes \cup {NoTimer}]
    BY <1>1, <1>2, <1>3, <2>1 DEF FsmTypes, WaitsForOther
  <2>6. BeingProcessed(v, n) \in BOOLEAN
    BY DEF BeingProcessed, AtFront
  <2>7. {popped, called}' \subseteq [Managers -> BOOLEAN]
    BY <1>3, <2>1, <2>6 DEF FsmTypes
  <2>8. v = config => Outcome(n, turn'[n].value)
    <3>1. AtFront(v, n) \/ MoveToProcessing(v, n) = v
      BY DEF MoveToProcessing
    <3>2. BeingProcessed(v, n) => MoveToProcessing(v, n) = v
      <4> SUFFICES ASSUME BeingProcessed(v, n) PROVE MoveToProcessing(v, n) = v
        OBVIOUS
      <4>1. /\ v \in QueueConfigs /\ v.queued \in Seq(QueueEntries) /\ v.queued # <<>>
            /\ v.queued[1].status = PROCESSING /\ 1 \in DOMAIN v.queued
            /\ v.queued[1] \in QueueEntries
        BY Fields, HeadEntry DEF WellFormed, BeingProcessed, AtFront
      <4>2. [v.queued EXCEPT ![1].status = PROCESSING] = v.queued
        BY <4>1 DEF QueueEntries
      <4>3. MoveToProcessing(v, n) = [v EXCEPT !.queued = v.queued]
        BY <4>2 DEF MoveToProcessing, BeingProcessed
      <4> QED BY <4>1, <4>3 DEF QueueConfigs
    <3> QED BY <2>3, <3>1, <3>2 DEF Outcome
  <2> QED BY <1>2, <2>1, <2>3, <2>4, <2>5, <2>7, <2>8 DEF FsmTypes
<1> QED BY <1>6, <1>7

------------------------------------------------------------------------------
(* The invariant: what a step of etcd and a step of one manager leave.     *)

Turns == [Managers -> [value : Values, att : Indices]]
Readers == [Managers -> [pc : {"read", "watch", "assign", "done"},
                         value : Values, index : Indices]]
Events == [Managers -> [value : Values, index : Indices]]

\* What a step keeps: the types always, and where main and reader take turns and no
\* write is lost who holds what.
Kept == TypeOK' /\ (~Preempt /\ ~WritesLost /\ IInv => IInv')

\* When the queue is written every index ages, and who watches is told.
LEMMA AllNotice ==
  ASSUME TypeOK, WellFormed(config'), NEW own \in Turns, Noticed(own)
  PROVE  /\ index' \in [Managers -> Indices] /\ reader' \in Readers
         /\ event' \in Events /\ turn' \in Turns
         /\ \A m \in Managers :
              /\ index'[m] = Aged(index[m])
              /\ reader'[m].pc = reader[m].pc /\ reader'[m].value = reader[m].value
              /\ reader'[m].index = Aged(reader[m].index)
              /\ event'[m].index = "current" => event'[m].value = config'
              /\ reader[m].pc = "watch" => event'[m] # NoEvent
              /\ turn'[m].value = own[m].value /\ turn'[m].att = Aged(own[m].att)
<1>1. index \in [Managers -> Indices] /\ reader \in Readers /\ event \in Events
  BY DEF TypeOK, Readers, Events
<1>2. \A i \in Indices : Aged(i) \in Indices
  BY DEF Aged, Indices
<1>3. config' \in Values /\ NoConfig \in Values
  BY DEF Values, WellFormed
<1>4. index' \in [Managers -> Indices] /\ \A m \in Managers : index'[m] = Aged(index[m])
  BY <1>1, <1>2 DEF Noticed
<1>5. /\ reader' \in Readers
      /\ \A m \in Managers :
           /\ reader'[m].pc = reader[m].pc /\ reader'[m].value = reader[m].value
           /\ reader'[m].index = Aged(reader[m].index)
  <2>1. reader' = [m \in Managers |-> [reader[m] EXCEPT !.index = Aged(reader[m].index)]]
    BY DEF Noticed
  <2> QED BY <1>1, <1>2, <2>1 DEF Readers
<1>6. /\ turn' \in Turns
      /\ \A m \in Managers :
           turn'[m].value = own[m].value /\ turn'[m].att = Aged(own[m].att)
  <2>1. turn' = [m \in Managers |-> [own[m] EXCEPT !.att = Aged(own[m].att)]]
    BY DEF Noticed
  <2> QED BY <1>2, <2>1 DEF Turns
<1>7. event' = [m \in Managers |->
                  IF reader[m].pc # "watch" THEN NoEvent
                  ELSE IF event[m] = NoEvent THEN [value |-> config', index |-> "current"]
                  ELSE [event[m] EXCEPT !.index = "stale"]]
  BY DEF Noticed
<1>8. event' \in Events
  BY <1>1, <1>3, <1>7 DEF NoEvent, Events, Indices
<1>9. \A m \in Managers :
        /\ event'[m].index = "current" => event'[m].value = config'
        /\ reader[m].pc = "watch" => event'[m] # NoEvent
  BY <1>1, <1>7 DEF NoEvent, Events
<1> QED BY <1>4, <1>5, <1>6, <1>8, <1>9

\* No manager is out of step after that. The one whose main wrote has ended its
\* round, and may have forgotten what it knew.
LEMMA EtcdWritten ==
  ASSUME TypeOK, IInv, WellFormed(config'), NEW own \in Turns, Noticed(own),
         abort' = abort,
         \A m \in Managers :
           \/ pc'[m] = pc[m] /\ own[m] = turn[m] /\ last'[m] = last[m]
           \/ /\ pc[m] = "write" /\ pc'[m] = "shutdown"
              /\ reader[m].pc # "assign" \/ last'[m] = last[m]
  PROVE  IInv'
<1> SUFFICES ASSUME NEW m \in Managers PROVE MainHolds(m)' /\ ReaderHolds(m)' /\ InStep(m)'
  BY DEF IInv
<1>1. /\ index'[m] = Aged(index[m])
      /\ reader'[m].pc = reader[m].pc /\ reader'[m].value = reader[m].value
      /\ reader'[m].index = Aged(reader[m].index)
      /\ event'[m].index = "current" => event'[m].value = config'
      /\ reader[m].pc = "watch" => event'[m] # NoEvent
      /\ turn'[m].value = own[m].value /\ turn'[m].att = Aged(own[m].att)
  BY AllNotice
<1>2. \A i : Aged(i) # "current" /\ (Aged(i) = "none" <=> i = "none")
  BY DEF Aged
<1>3. MainHolds(m) /\ ReaderHolds(m) /\ InStep(m)
  BY DEF IInv
<1>4. MainHolds(m)'
  BY <1>1, <1>2, <1>3 DEF MainHolds
<1>5. ReaderHolds(m)'
  BY <1>1, <1>2 DEF ReaderHolds
<1>6. InStep(m)'
  BY <1>1, <1>2, <1>3 DEF InStep
<1> QED BY <1>4, <1>5, <1>6

\* A step of one manager that leaves the queue alone is no concern of the others.
LEMMA OwnStep ==
  ASSUME IInv, NEW n \in Managers, config' = config,
         \A m \in Managers \ {n} :
           /\ pc'[m] = pc[m] /\ last'[m] = last[m] /\ index'[m] = index[m]
           /\ abort'[m] = abort[m] /\ reader'[m] = reader[m] /\ event'[m] = event[m]
           /\ turn'[m] = turn[m],
         MainHolds(n)', ReaderHolds(n)', InStep(n)'
  PROVE  IInv'
<1> SUFFICES ASSUME NEW m \in Managers \ {n}
             PROVE  MainHolds(m)' /\ ReaderHolds(m)' /\ InStep(m)'
  BY DEF IInv
<1>1. MainHolds(m) /\ ReaderHolds(m) /\ InStep(m)
  BY DEF IInv
<1>2. \A v : Outcome(m, v)' <=> Outcome(m, v)
  BY DEF Outcome
<1>3. MainHolds(m)'
  BY <1>1 DEF MainHolds, Outcome
<1>4. ReaderHolds(m)' /\ InStep(m)'
  BY <1>1 DEF ReaderHolds, InStep
<1> QED BY <1>3, <1>4

------------------------------------------------------------------------------
(* The steps of the reader.                                                *)

\* What the reader returns is what etcd holds, or once it is to give up, what main
\* knows.
LEMMA ReturnsInvariant ==
  ASSUME TypeOK, NEW n \in Managers, NEW value \in Values, NEW i \in Indices,
         Returns(n, value, i), reader[n].pc \in {"read", "watch"},
         IInv /\ ~abort[n] /\ i = "current" => value = config,
         UNCHANGED <<config, pc, last, index, abort, stop, fsmVars, turn, requests, faults>>,
         glitches' \in Nat
  PROVE  Kept
<1> DEFINE result == IF abort[n]
                       THEN [pc |-> "assign", value |-> last[n], index |-> index[n]]
                       ELSE [pc |-> "assign", value |-> value, index |-> i]
<1>1. /\ reader \in Readers /\ event \in Events
      /\ last[n] \in Values /\ index[n] \in Indices /\ abort[n] \in BOOLEAN
  BY DEF TypeOK, Readers, Events
<1>2. /\ result \in [pc : {"read", "watch", "assign", "done"}, value : Values, index : Indices]
      /\ result.pc = "assign"
      /\ abort[n] => result.value = last[n] /\ result.index = index[n]
      /\ ~abort[n] => result.value = value /\ result.index = i
  BY <1>1
<1>3. reader' = [reader EXCEPT ![n] = result] /\ event' = [event EXCEPT ![n] = NoEvent]
  BY DEF Returns
<1> HIDE DEF result
<1>4. NoEvent \in [value : Values, index : Indices] /\ NoEvent.index = "none"
  BY DEF NoEvent, Values, Indices
<1>5. /\ reader' \in Readers /\ reader'[n] = result
      /\ event' \in Events /\ event'[n] = NoEvent
      /\ \A m \in Managers \ {n} : reader'[m] = reader[m] /\ event'[m] = event[m]
  BY <1>1, <1>2, <1>3, <1>4 DEF Readers, Events
<1>6. TypeOK'
  BY <1>5 DEF TypeOK, Readers, Events, fsmVars, WellFormed
<1> SUFFICES ASSUME ~Preempt, ~WritesLost, IInv PROVE IInv'
  BY <1>6 DEF Kept
<1>7. MainHolds(n) /\ ReaderHolds(n) /\ InStep(n)
  BY DEF IInv
<1>8. MainHolds(n)'
  BY <1>7 DEF MainHolds, Outcome
<1>9. ReaderHolds(n)'
  BY <1>2, <1>4, <1>5, <1>7 DEF MainHolds, ReaderHolds
<1>10. InStep(n)'
  BY <1>2, <1>5, <1>7 DEF InStep
<1> QED BY <1>5, <1>8, <1>9, <1>10, OwnStep

LEMMA ReaderInvariant ==
  ASSUME TypeOK, NEW n \in Managers, Reader(n)
  PROVE  Kept
<1>1. /\ reader \in Readers /\ event \in Events /\ config \in Values /\ WellFormed(config)
      /\ last \in [Managers -> Values] /\ index \in [Managers -> Indices]
      /\ glitches \in Nat
  BY DEF TypeOK, Readers, Events, Values, WellFormed
<1>2. IInv => MainHolds(n) /\ ReaderHolds(n) /\ InStep(n)
  BY DEF IInv
<1>3. CASE Read(n)
  <2>1. /\ Returns(n, config, "current") /\ reader[n].pc \in {"read", "watch"}
        /\ UNCHANGED <<config, pc, last, index, abort, stop, fsmVars, turn, requests, faults>>
        /\ glitches' \in Nat /\ "current" \in Indices
    BY <1>1, <1>3 DEF Read, budgets, Indices
  <2> QED BY <1>1, <2>1, ReturnsInvariant
<1>4. CASE WatchReturns(n)
  <2>1. /\ Returns(n, event[n].value, event[n].index) /\ reader[n].pc \in {"read", "watch"}
        /\ UNCHANGED <<config, pc, last, index, abort, stop, fsmVars, turn, requests, faults>>
        /\ glitches' \in Nat
    BY <1>1, <1>4 DEF WatchReturns, budgets
  <2>2. event[n].value \in Values /\ event[n].index \in Indices
    BY <1>1 DEF Events
  <2>3. IInv /\ event[n].index = "current" => event[n].value = config
    BY <1>2 DEF ReaderHolds
  <2> QED BY <2>1, <2>2, <2>3, ReturnsInvariant
<1>5. CASE StartWatch(n)
  <2>1. /\ reader[n].pc = "read" /\ ~abort[n] /\ config = last[n]
        /\ reader' = [reader EXCEPT ![n].pc = "watch"]
        /\ UNCHANGED <<config, pc, last, index, abort, stop, event, fsmVars, turn, budgets>>
    BY <1>5 DEF StartWatch
  <2>2. /\ reader' \in Readers /\ reader'[n].pc = "watch"
        /\ \A m \in Managers \ {n} : reader'[m] = reader[m]
    BY <1>1, <2>1 DEF Readers
  <2>3. TypeOK'
    BY <2>1, <2>2 DEF TypeOK, Readers, fsmVars, budgets, WellFormed
  <2> SUFFICES ASSUME ~Preempt, ~WritesLost, IInv PROVE IInv'
    BY <2>3 DEF Kept
  <2>4. MainHolds(n)'
    BY <1>2, <2>1 DEF MainHolds, Outcome
  <2>5. ReaderHolds(n)'
    BY <1>2, <2>1, <2>2 DEF ReaderHolds
  <2>6. InStep(n)'
    BY <1>2, <2>1, <2>2 DEF InStep
  <2> QED BY <2>1, <2>2, <2>4, <2>5, <2>6, OwnStep
<1>6. CASE Assign(n)
  <2> DEFINE done == [Reading EXCEPT !.pc = "done"]
  <2>1. /\ reader[n].pc = "assign"
        /\ last' = [last EXCEPT ![n] = reader[n].value]
        /\ index' = [index EXCEPT ![n] = reader[n].index]
        /\ reader' = [reader EXCEPT ![n] = done]
        /\ UNCHANGED <<config, pc, abort, stop, event, fsmVars, turn, budgets>>
    BY <1>6 DEF Assign
  <2>2. /\ done \in [pc : {"read", "watch", "assign", "done"}, value : Values, index : Indices]
        /\ done.pc = "done"
    BY DEF Reading, Values, Indices
  <2> HIDE DEF done
  <2>3. reader[n].value \in Values /\ reader[n].index \in Indices
    BY <1>1 DEF Readers
  <2>4. /\ reader' \in Readers /\ reader'[n].pc = "done"
        /\ last' \in [Managers -> Values] /\ last'[n] = reader[n].value
        /\ index' \in [Managers -> Indices] /\ index'[n] = reader[n].index
        /\ \A m \in Managers \ {n} :
             reader'[m] = reader[m] /\ last'[m] = last[m] /\ index'[m] = index[m]
    BY <1>1, <2>1, <2>2, <2>3 DEF Readers
  <2>5. TypeOK'
    BY <2>1, <2>4 DEF TypeOK, Readers, fsmVars, budgets, WellFormed
  <2> SUFFICES ASSUME ~Preempt, ~WritesLost, IInv PROVE IInv'
    BY <2>5 DEF Kept
  <2>6. abort' = abort /\ pc' = pc /\ config' = config /\ turn' = turn /\ event' = event
    BY <2>1
  <2>7. MainHolds(n)'
    <3>1. pc[n] # "wait" => abort[n]
      BY <1>2, <2>1 DEF InStep
    <3>2. abort[n] => index'[n] = "none" \/ (index'[n] = index[n] /\ last'[n] = last[n])
      BY <1>2, <2>1, <2>4 DEF InStep
    <3>3. index'[n] = "current" => last'[n] = config
      BY <1>2, <2>1, <2>4 DEF ReaderHolds
    <3> QED BY <1>2, <2>6, <3>1, <3>2, <3>3 DEF MainHolds, Outcome
  <2>8. ReaderHolds(n)'
    BY <1>2, <2>4, <2>6 DEF ReaderHolds
  <2>9. InStep(n)'
    BY <1>2, <2>4, <2>6 DEF InStep
  <2> QED BY <2>4, <2>6, <2>7, <2>8, <2>9, OwnStep
<1> QED BY <1>3, <1>4, <1>5, <1>6 DEF Reader

------------------------------------------------------------------------------
(* The steps of main.                                                      *)

\* A round in which the FSM runs on what is known of the queue.
LEMMA RoundInvariant ==
  ASSUME TypeOK, NEW n \in Managers, NEW v, WellFormed(v), FsmUpdate(n, v),
         last[n] = v \/ last[n] = NoConfig,
         Preempt \/ reader[n].pc # "assign",
         abort' \in [Managers -> BOOLEAN], abort'[n] \/ reader[n].pc = "done",
         \A m \in Managers \ {n} : abort'[m] = abort[m],
         stop' \in [Managers -> BOOLEAN],
         pc' = [pc EXCEPT ![n] = "compare"],
         UNCHANGED <<config, last, index, readerVars, budgets>>
  PROVE  Kept
<1>1. /\ FsmTypes' /\ \A m \in Managers \ {n} : turn'[m] = turn[m]
      /\ v = config => Outcome(n, turn'[n].value)
      /\ turn'[n].value # NoConfig
      /\ working' = working \/ working' = working \cup {n}
  BY Decides
<1>2. /\ pc' \in [Managers -> {"wait", "compare", "write", "shutdown"}]
      /\ pc'[n] = "compare" /\ \A m \in Managers \ {n} : pc'[m] = pc[m]
  BY DEF TypeOK
<1>3. n \in Nodes
  BY ConstantsAssumption
<1>4. TypeOK'
  <2>1. {stop, abort, popped, called}' \subseteq [Managers -> BOOLEAN]
    BY <1>1 DEF FsmTypes
  <2> QED BY <1>1, <1>2, <1>3, <2>1 DEF TypeOK, FsmTypes, readerVars, budgets, WellFormed
<1> SUFFICES ASSUME ~Preempt, ~WritesLost, IInv PROVE IInv'
  BY <1>4 DEF Kept
<1>5. MainHolds(n) /\ ReaderHolds(n)
  BY DEF IInv
<1>6. MainHolds(n)'
  <2>1. index[n] = "current" => v = config
    BY <1>5, NothingKnown DEF MainHolds, TypeOK, WellFormed
  <2> QED BY <1>1, <1>2, <1>5, <2>1 DEF MainHolds, Outcome
<1>7. ReaderHolds(n)' /\ InStep(n)'
  BY <1>2, <1>5 DEF ReaderHolds, InStep, readerVars, TypeOK
<1> QED BY <1>1, <1>2, <1>6, <1>7, OwnStep DEF readerVars

LEMMA RoundsInvariant ==
  ASSUME TypeOK, NEW n \in Managers, MayRun(n), TimerRound(n) \/ EtcdRound(n)
  PROVE  Kept
<1>1. /\ abort \in [Managers -> BOOLEAN] /\ stop \in [Managers -> BOOLEAN]
      /\ pc \in [Managers -> {"wait", "compare", "write", "shutdown"}]
      /\ last \in [Managers -> Values]
  BY DEF TypeOK
<1>2. Preempt \/ reader[n].pc # "assign"
  BY DEF MayRun
<1>3. IInv => MainHolds(n) /\ ReaderHolds(n) /\ InStep(n)
  BY DEF IInv
<1>4. CASE TimerRound(n)
  <2> DEFINE v == IF last[n] = NoConfig THEN DefaultValue ELSE last[n]
  <2>1. /\ abort' = [abort EXCEPT ![n] = TRUE]
        /\ \E late \in BOOLEAN : stop' = [stop EXCEPT ![n] = late]
        /\ FsmUpdate(n, v) /\ pc' = [pc EXCEPT ![n] = "compare"]
        /\ UNCHANGED <<config, last, index, readerVars, budgets>>
    BY <1>4 DEF TimerRound
  <2>2. WellFormed(v) /\ (last[n] = v \/ last[n] = NoConfig)
    BY <1>1, DefaultKnown, KnownWellFormed
  <2>3. /\ abort' \in [Managers -> BOOLEAN] /\ abort'[n]
        /\ \A m \in Managers \ {n} : abort'[m] = abort[m]
        /\ stop' \in [Managers -> BOOLEAN]
    BY <1>1, <2>1
  <2> HIDE DEF v
  <2> QED BY <1>2, <2>1, <2>2, <2>3, RoundInvariant
<1>5. CASE EtcdRound(n) /\ last[n] # NoConfig
  <2>1. /\ reader[n].pc = "done" /\ stop' = [stop EXCEPT ![n] = TRUE] /\ abort' = abort
        /\ FsmUpdate(n, last[n]) /\ pc' = [pc EXCEPT ![n] = "compare"]
        /\ UNCHANGED <<config, last, index, readerVars, budgets>>
    BY <1>5 DEF EtcdRound
  <2>2. WellFormed(last[n])
    BY <1>1, <1>5, KnownWellFormed
  <2>3. stop' \in [Managers -> BOOLEAN]
    BY <1>1, <2>1
  <2> QED BY <1>1, <1>2, <2>1, <2>2, <2>3, RoundInvariant
<1>6. CASE EtcdRound(n) /\ last[n] = NoConfig
  <2>1. /\ reader[n].pc = "done" /\ stop' = [stop EXCEPT ![n] = TRUE]
        /\ pc' = [pc EXCEPT ![n] = "shutdown"]
        /\ UNCHANGED <<config, last, index, abort, readerVars, budgets, turn, fsmVars>>
    BY <1>6 DEF EtcdRound
  <2>2. /\ stop' \in [Managers -> BOOLEAN]
        /\ pc' \in [Managers -> {"wait", "compare", "write", "shutdown"}]
        /\ pc'[n] = "shutdown" /\ \A m \in Managers \ {n} : pc'[m] = pc[m]
    BY <1>1, <2>1
  <2>3. TypeOK'
    BY <2>1, <2>2 DEF TypeOK, readerVars, fsmVars, budgets, WellFormed
  <2> SUFFICES ASSUME ~Preempt, ~WritesLost, IInv PROVE IInv'
    BY <2>3 DEF Kept
  <2>4. MainHolds(n)'
    BY <1>3, <2>1, <2>2 DEF MainHolds
  <2>5. ReaderHolds(n)' /\ InStep(n)'
    BY <1>3, <2>1, <2>2 DEF ReaderHolds, InStep, readerVars
  <2> QED BY <2>1, <2>2, <2>4, <2>5, OwnStep DEF readerVars
<1> QED BY <1>4, <1>5, <1>6

LEMMA CompareInvariant ==
  ASSUME TypeOK, NEW n \in Managers, Compare(n)
  PROVE  Kept
<1>1. /\ pc \in [Managers -> {"wait", "compare", "write", "shutdown"}]
      /\ turn \in Turns /\ index[n] \in Indices
  BY DEF TypeOK, Turns
<1>2. /\ pc[n] = "compare"
      /\ UNCHANGED <<config, last, index, abort, stop, readerVars, fsmVars, budgets>>
  BY DEF Compare
<1>3. /\ turn' \in Turns /\ pc' \in [Managers -> {"wait", "compare", "write", "shutdown"}]
      /\ \A m \in Managers \ {n} : turn'[m] = turn[m] /\ pc'[m] = pc[m]
      /\ \/ pc'[n] = "shutdown"
         \/ pc'[n] = "write" /\ turn'[n].value = turn[n].value /\ turn'[n].att = index[n]
  <2>1. CASE turn[n].value = last[n]
    <3>1. pc' = [pc EXCEPT ![n] = "shutdown"] /\ turn' = [turn EXCEPT ![n] = NoTurn]
      BY <2>1 DEF Compare
    <3>2. NoTurn \in [value : Values, att : Indices]
      BY DEF NoTurn, Values, Indices
    <3> QED BY <1>1, <3>1, <3>2 DEF Turns
  <2>2. CASE turn[n].value # last[n]
    <3>1. pc' = [pc EXCEPT ![n] = "write"] /\ turn' = [turn EXCEPT ![n].att = index[n]]
      BY <2>2 DEF Compare
    <3> QED BY <1>1, <3>1 DEF Turns
  <2> QED BY <2>1, <2>2
<1>4. TypeOK'
  BY <1>2, <1>3 DEF TypeOK, Turns, readerVars, fsmVars, budgets, WellFormed
<1> SUFFICES ASSUME ~Preempt, ~WritesLost, IInv PROVE IInv'
  BY <1>4 DEF Kept
<1>5. MainHolds(n) /\ ReaderHolds(n) /\ InStep(n)
  BY DEF IInv
<1>6. MainHolds(n)'
  BY <1>2, <1>3, <1>5 DEF MainHolds, Outcome
<1>7. ReaderHolds(n)' /\ InStep(n)'
  BY <1>2, <1>3, <1>5 DEF ReaderHolds, InStep, readerVars
<1> QED BY <1>2, <1>3, <1>6, <1>7, OwnStep DEF readerVars

\* The queue in etcd is written by main, whether it hears of it or not.
LEMMA WrittenInvariant ==
  ASSUME TypeOK, NEW n \in Managers, MayRun(n),
         pc[n] = "write", turn[n].att = "current", config' = turn[n].value,
         Noticed([turn EXCEPT ![n] = NoTurn]), pc' = [pc EXCEPT ![n] = "shutdown"],
         last' \in [Managers -> Values], \A m \in Managers \ {n} : last'[m] = last[m],
         called' \in [Managers -> BOOLEAN],
         UNCHANGED <<abort, stop, timer, popped, alarm, working>>,
         {requests', faults', glitches'} \subseteq Nat
  PROVE  Kept
<1>1. /\ turn[n].value \in Values \ {NoConfig}
      /\ \A m \in Managers : pc[m] \in {"compare", "write"} => turn[m].value # NoConfig
  BY DEF TypeOK
<1>2. WellFormed(config')
  BY <1>1, KnownWellFormed
<1> DEFINE own == [turn EXCEPT ![n] = NoTurn]
<1>3. own \in Turns /\ \A m \in Managers \ {n} : own[m] = turn[m]
  <2>1. NoTurn \in [value : Values, att : Indices] /\ turn \in Turns
    BY DEF NoTurn, Values, Indices, TypeOK, Turns
  <2> QED BY <2>1 DEF Turns
<1> HIDE DEF own
<1>4. Noticed(own)
  BY DEF own
<1>5. /\ pc' \in [Managers -> {"wait", "compare", "write", "shutdown"}]
      /\ pc'[n] = "shutdown" /\ \A m \in Managers \ {n} : pc'[m] = pc[m]
  BY DEF TypeOK
<1>6. /\ index' \in [Managers -> Indices] /\ reader' \in Readers
      /\ event' \in Events /\ turn' \in Turns
  BY <1>2, <1>3, <1>4, AllNotice
<1>7. TypeOK'
  <2>1. \A m \in Managers : turn'[m].value = own[m].value
    BY <1>2, <1>3, <1>4, AllNotice
  <2>2. \A m \in Managers : pc'[m] \in {"compare", "write"} => turn'[m].value # NoConfig
    BY <1>1, <1>3, <1>5, <2>1
  <2> QED BY <1>2, <1>5, <1>6, <2>2 DEF TypeOK, Readers, Events, Turns
<1> SUFFICES ASSUME ~Preempt, ~WritesLost, IInv PROVE IInv'
  BY <1>7 DEF Kept
<1>8. reader[n].pc # "assign"
  BY DEF MayRun
<1>9. \A m \in Managers :
        \/ pc'[m] = pc[m] /\ own[m] = turn[m] /\ last'[m] = last[m]
        \/ /\ pc[m] = "write" /\ pc'[m] = "shutdown"
           /\ reader[m].pc # "assign" \/ last'[m] = last[m]
  BY <1>3, <1>5, <1>8
<1> QED BY <1>2, <1>3, <1>4, <1>9, EtcdWritten

LEMMA WriteInvariant ==
  ASSUME TypeOK, NEW n \in Managers, MayRun(n), Write(n)
  PROVE  Kept
<1>1. /\ last \in [Managers -> Values] /\ called \in [Managers -> BOOLEAN]
      /\ {requests, faults, glitches} \subseteq Nat
  BY DEF TypeOK
<1>2. /\ pc[n] = "write" /\ turn[n].att = "current" /\ config' = turn[n].value
      /\ Noticed([turn EXCEPT ![n] = NoTurn]) /\ pc' = [pc EXCEPT ![n] = "shutdown"]
      /\ last' = last /\ called' = called
      /\ UNCHANGED <<abort, stop, timer, popped, alarm, working>>
      /\ requests' = requests /\ faults' = faults /\ glitches' = glitches
  BY DEF Write, fsmVars, budgets
<1>3. /\ last' \in [Managers -> Values] /\ \A m \in Managers \ {n} : last'[m] = last[m]
      /\ called' \in [Managers -> BOOLEAN] /\ {requests', faults', glitches'} \subseteq Nat
  BY <1>1, <1>2
<1> QED BY <1>2, <1>3, WrittenInvariant

\* Main forgets, in the types that TypeOK asks for.
LEMMA Forgotten ==
  ASSUME TypeOK, NEW n \in Managers, Forget(n)
  PROVE  /\ last' \in [Managers -> Values] /\ last'[n] = NoConfig
         /\ \A m \in Managers \ {n} : last'[m] = last[m]
         /\ called' \in [Managers -> BOOLEAN]
<1>1. NoConfig \in Values
  BY DEF Values
<1> QED BY <1>1 DEF TypeOK, Forget

LEMMA WriteRaisesInvariant ==
  ASSUME TypeOK, NEW n \in Managers, MayRun(n),
         NEW applied \in BOOLEAN, WriteRaises(n, applied)
  PROVE  Kept
<1>1. /\ pc[n] = "write" /\ Forget(n) /\ pc' = [pc EXCEPT ![n] = "shutdown"]
      /\ UNCHANGED <<abort, stop, timer, popped, alarm, working>>
      /\ {requests', faults', glitches'} \subseteq Nat
  BY DEF WriteRaises, TypeOK, Glitch
<1>2. CASE applied
  <2>1. /\ turn[n].att = "current" /\ config' = turn[n].value
        /\ Noticed([turn EXCEPT ![n] = NoTurn])
    BY <1>2 DEF WriteRaises
  <2> QED BY <1>1, <2>1, Forgotten, WrittenInvariant
<1>3. CASE ~applied
  <2>1. /\ WritesLost /\ turn' = [turn EXCEPT ![n] = NoTurn]
        /\ UNCHANGED <<config, index, readerVars>>
    BY <1>3 DEF WriteRaises
  <2>2. NoTurn \in [value : Values, att : Indices]
    BY DEF NoTurn, Values, Indices
  <2>3. /\ turn' \in Turns
        /\ \A m \in Managers : pc'[m] \in {"compare", "write"} => turn'[m].value # NoConfig
    BY <1>1, <2>1, <2>2 DEF TypeOK, Turns
  <2>4. TypeOK'
    BY <1>1, <2>1, <2>3, Forgotten DEF TypeOK, Turns, readerVars
  <2> QED BY <2>1, <2>4 DEF Kept
<1> QED BY <1>2, <1>3

LEMMA ContendedInvariant ==
  ASSUME TypeOK, NEW n \in Managers, MayRun(n), WriteContended(n)
  PROVE  Kept
<1>1. /\ pc[n] = "write" /\ turn[n].att # "current" /\ Forget(n)
      /\ turn' = [turn EXCEPT ![n] = NoTurn] /\ pc' = [pc EXCEPT ![n] = "shutdown"]
      /\ UNCHANGED <<config, index, abort, stop, readerVars, timer, popped, alarm, working, budgets>>
  BY DEF WriteContended
<1>2. NoTurn \in [value : Values, att : Indices] /\ NoTurn.att = "none"
  BY DEF NoTurn, Values, Indices
<1>3. /\ pc' \in [Managers -> {"wait", "compare", "write", "shutdown"}]
      /\ pc'[n] = "shutdown" /\ turn' \in Turns
      /\ \A m \in Managers \ {n} : pc'[m] = pc[m] /\ turn'[m] = turn[m]
  BY <1>1, <1>2 DEF TypeOK, Turns
<1>4. /\ last' \in [Managers -> Values] /\ last'[n] = NoConfig
      /\ \A m \in Managers \ {n} : last'[m] = last[m]
      /\ called' \in [Managers -> BOOLEAN]
  BY <1>1, Forgotten
<1>5. TypeOK'
  BY <1>1, <1>3, <1>4 DEF TypeOK, Turns, readerVars, budgets, WellFormed
<1> SUFFICES ASSUME ~Preempt, ~WritesLost, IInv PROVE IInv'
  BY <1>5 DEF Kept
<1>6. MainHolds(n) /\ ReaderHolds(n) /\ InStep(n)
  BY DEF IInv
<1>7. reader[n].pc # "assign"
  BY DEF MayRun
<1>8. index[n] # "current"
  BY <1>1, <1>6 DEF MainHolds, InStep
<1>9. MainHolds(n)'
  BY <1>1, <1>3, <1>8 DEF MainHolds
<1>10. InStep(n)'
  BY <1>1, <1>3, <1>6, <1>7 DEF InStep, readerVars
<1>11. ReaderHolds(n)'
  <2>1. ~(reader[n].pc = "watch" /\ ~abort[n])
    BY <1>1, <1>6 DEF InStep
  <2> QED BY <1>1, <1>6, <2>1 DEF ReaderHolds, readerVars
<1> QED BY <1>1, <1>3, <1>4, <1>9, <1>10, <1>11, OwnStep DEF readerVars

LEMMA NextRoundInvariant ==
  ASSUME TypeOK, NEW n \in Managers, NextRound(n)
  PROVE  Kept
<1>1. /\ reader[n].pc = "done"
      /\ abort' = [abort EXCEPT ![n] = FALSE] /\ reader' = [reader EXCEPT ![n] = Reading]
      /\ pc' = [pc EXCEPT ![n] = "wait"]
      /\ UNCHANGED <<config, last, index, stop, event, fsmVars, turn, budgets>>
  BY DEF NextRound
<1>2. Reading \in [pc : {"read", "watch", "assign", "done"}, value : Values, index : Indices]
      /\ Reading.pc = "read"
  BY DEF Reading, Values, Indices
<1>3. /\ pc' \in [Managers -> {"wait", "compare", "write", "shutdown"}] /\ pc'[n] = "wait"
      /\ reader' \in Readers /\ reader'[n].pc = "read"
      /\ abort' \in [Managers -> BOOLEAN] /\ ~abort'[n]
      /\ \A m \in Managers \ {n} :
           pc'[m] = pc[m] /\ reader'[m] = reader[m] /\ abort'[m] = abort[m]
  BY <1>1, <1>2 DEF TypeOK, Readers
<1>4. TypeOK'
  BY <1>1, <1>3 DEF TypeOK, Readers, fsmVars, budgets, WellFormed
<1> SUFFICES ASSUME ~Preempt, ~WritesLost, IInv PROVE IInv'
  BY <1>4 DEF Kept
<1>5. MainHolds(n) /\ ReaderHolds(n)
  BY DEF IInv
<1>6. MainHolds(n)' /\ ReaderHolds(n)' /\ InStep(n)'
  BY <1>1, <1>3, <1>5 DEF MainHolds, ReaderHolds, InStep
<1> QED BY <1>1, <1>3, <1>6, OwnStep

LEMMA MainInvariant ==
  ASSUME TypeOK, NEW n \in Managers, Main(n)
  PROVE  Kept
  BY RoundsInvariant, CompareInvariant, WriteInvariant, ContendedInvariant,
     NextRoundInvariant DEF Main

------------------------------------------------------------------------------
(* Timers, exceptions, restarts, and what goes on elsewhere.               *)

\* Nothing but the timer's own variables changes.
LEMMA TimerPopsInvariant ==
  ASSUME TypeOK, NEW n \in Managers, TimerPops(n)
  PROVE  Kept
<1>1. /\ popped' = [popped EXCEPT ![n] = TRUE] /\ stop' = [stop EXCEPT ![n] = TRUE]
      /\ UNCHANGED <<config, pc, last, index, abort, readerVars, timer, called, alarm, working,
                     turn, budgets>>
  BY DEF TimerPops
<1>2. TypeOK'
  BY <1>1 DEF TypeOK, readerVars, budgets, WellFormed
<1> SUFFICES ASSUME ~Preempt, ~WritesLost, IInv PROVE IInv'
  BY <1>2 DEF Kept
<1>3. MainHolds(n)' /\ ReaderHolds(n)' /\ InStep(n)'
  BY <1>1 DEF IInv, MainHolds, ReaderHolds, InStep, readerVars, Outcome
<1> QED BY <1>1, <1>3, OwnStep DEF readerVars

LEMMA DisturbedInvariant ==
  ASSUME TypeOK, NEW n \in Managers, Disturbed(n)
  PROVE  Kept
<1>1. /\ reader \in Readers /\ event \in Events /\ last \in [Managers -> Values]
      /\ index \in [Managers -> Indices] /\ {requests, faults, glitches} \subseteq Nat
  BY DEF TypeOK, Readers, Events
<1>2. IInv => MainHolds(n) /\ ReaderHolds(n) /\ InStep(n)
  BY DEF IInv
<1>3. Glitch => glitches' \in Nat
  BY <1>1 DEF Glitch
<1>4. CASE ReadRaises(n)
  <2> DEFINE nothing == [Reading EXCEPT !.pc = "assign"]
  <2>1. /\ reader[n].pc = "read" /\ reader' = [reader EXCEPT ![n] = nothing] /\ glitches' \in Nat
        /\ UNCHANGED <<config, pc, last, index, abort, stop, event, fsmVars, turn, requests, faults>>
    BY <1>3, <1>4 DEF ReadRaises
  <2>2. /\ nothing \in [pc : {"read", "watch", "assign", "done"}, value : Values, index : Indices]
        /\ nothing.pc = "assign" /\ nothing.index = "none"
    BY DEF Reading, Values, Indices
  <2> HIDE DEF nothing
  <2>3. /\ reader' \in Readers /\ reader'[n] = nothing
        /\ \A m \in Managers \ {n} : reader'[m] = reader[m]
    BY <1>1, <2>1, <2>2 DEF Readers
  <2>4. TypeOK'
    BY <2>1, <2>3 DEF TypeOK, Readers, fsmVars, WellFormed
  <2> SUFFICES ASSUME ~Preempt, ~WritesLost, IInv PROVE IInv'
    BY <2>4 DEF Kept
  <2>5. MainHolds(n)'
    BY <1>2, <2>1 DEF MainHolds, Outcome
  <2>6. ReaderHolds(n)' /\ InStep(n)'
    BY <1>2, <2>1, <2>2, <2>3 DEF ReaderHolds, InStep
  <2> QED BY <2>1, <2>3, <2>5, <2>6, OwnStep
<1>5. CASE WatchRaises(n)
  <2> DEFINE i == IF event[n] = NoEvent THEN "current" ELSE "stale"
  <2>1. /\ reader[n].pc = "watch" /\ Returns(n, last[n], i) /\ glitches' \in Nat
        /\ UNCHANGED <<config, pc, last, index, abort, stop, fsmVars, turn, requests, faults>>
    BY <1>3, <1>5 DEF WatchRaises
  <2>2. IInv /\ ~abort[n] /\ i = "current" => last[n] = config
    BY <1>2, <2>1 DEF ReaderHolds
  <2>3. last[n] \in Values /\ i \in Indices
    BY <1>1 DEF Indices
  <2> HIDE DEF i
  <2> QED BY <2>1, <2>2, <2>3, ReturnsInvariant
<1>6. CASE Restart(n)
  <2>1. /\ pc' = [pc EXCEPT ![n] = "wait"] /\ last' = [last EXCEPT ![n] = NoConfig]
        /\ index' = [index EXCEPT ![n] = "none"]
        /\ abort' = [abort EXCEPT ![n] = FALSE] /\ stop' = [stop EXCEPT ![n] = FALSE]
        /\ reader' = [reader EXCEPT ![n] = Reading] /\ event' = [event EXCEPT ![n] = NoEvent]
        /\ timer' = [timer EXCEPT ![n] = NoTimer] /\ popped' = [popped EXCEPT ![n] = FALSE]
        /\ called' = [called EXCEPT ![n] = FALSE] /\ turn' = [turn EXCEPT ![n] = NoTurn]
        /\ working' \in {working, working \ {n}} /\ faults' = faults + 1
        /\ UNCHANGED <<config, alarm, requests, glitches>>
    BY <1>6 DEF Restart
  <2>2. /\ Reading \in [pc : {"read", "watch", "assign", "done"}, value : Values, index : Indices]
        /\ Reading.pc = "read"
        /\ NoEvent \in [value : Values, index : Indices] /\ NoEvent.index = "none"
        /\ NoTurn \in [value : Values, att : Indices]
        /\ NoConfig \in Values /\ "none" \in Indices
    BY DEF Reading, NoEvent, NoTurn, Values, Indices
  <2>3. /\ pc' \in [Managers -> {"wait", "compare", "write", "shutdown"}] /\ pc'[n] = "wait"
        /\ last' \in [Managers -> Values] /\ index' \in [Managers -> Indices]
        /\ index'[n] = "none"
        /\ {abort, stop, popped, called}' \subseteq [Managers -> BOOLEAN] /\ ~abort'[n]
        /\ timer' \in [Managers -> Nodes \cup {NoTimer}]
    BY <2>1, <2>2 DEF TypeOK
  <2>4. /\ reader' \in Readers /\ reader'[n].pc = "read"
        /\ event' \in Events /\ event'[n].index = "none" /\ turn' \in Turns
    BY <2>1, <2>2 DEF TypeOK, Readers, Events, Turns
  <2>5. \A m \in Managers \ {n} :
          /\ pc'[m] = pc[m] /\ last'[m] = last[m] /\ index'[m] = index[m]
          /\ abort'[m] = abort[m] /\ reader'[m] = reader[m] /\ event'[m] = event[m]
          /\ turn'[m] = turn[m]
    BY <2>1 DEF TypeOK
  <2>6. TypeOK'
    BY <2>1, <2>3, <2>4 DEF TypeOK, Readers, Events, Turns, WellFormed
  <2> SUFFICES ASSUME ~Preempt, ~WritesLost, IInv PROVE IInv'
    BY <2>6 DEF Kept
  <2>7. MainHolds(n)' /\ ReaderHolds(n)' /\ InStep(n)'
    BY <2>3, <2>4 DEF MainHolds, ReaderHolds, InStep
  <2> QED BY <2>1, <2>5, <2>7, OwnStep
<1>7. CASE MayRun(n) /\ \E applied \in BOOLEAN : WriteRaises(n, applied)
  BY <1>7, WriteRaisesInvariant
<1> QED BY <1>4, <1>5, <1>6, <1>7 DEF Disturbed

\* Somebody else has edited the queue, or has not changed it.
LEMMA EditInvariant ==
  ASSUME TypeOK, Edit, WellFormed(config'), working' \subseteq Nodes,
         UNCHANGED <<pc, last, abort, stop, timer, popped, called, alarm>>,
         {requests', faults', glitches'} \subseteq Nat
  PROVE  Kept
<1>1. CASE config' = config
  <2>1. UNCHANGED <<index, readerVars, turn>>
    BY <1>1 DEF Edit
  <2>2. TypeOK'
    BY <1>1, <2>1 DEF TypeOK, readerVars
  <2>3. IInv => IInv'
    BY <1>1, <2>1 DEF IInv, MainHolds, ReaderHolds, InStep, Outcome, readerVars
  <2> QED BY <2>2, <2>3 DEF Kept
<1>2. CASE config' # config
  <2>1. Noticed(turn) /\ turn \in Turns
    BY <1>2 DEF Edit, TypeOK, Turns
  <2>2. /\ index' \in [Managers -> Indices] /\ reader' \in Readers
        /\ event' \in Events /\ turn' \in Turns
        /\ \A m \in Managers : turn'[m].value = turn[m].value
    BY <2>1, AllNotice
  <2>3. TypeOK'
    BY <2>2 DEF TypeOK, Readers, Events, Turns
  <2>4. IInv => IInv'
    BY <2>1, EtcdWritten
  <2> QED BY <2>3, <2>4 DEF Kept
<1> QED BY <1>1, <1>2

LEMMA EditorsInvariant ==
  ASSUME TypeOK
  PROVE  /\ \A n \in Nodes :
              Add(n) \/ Elsewhere(n) \/ (\E successful \in BOOLEAN : Report(n, successful))
                => Kept
         /\ \A force \in BOOLEAN : SetForce(force) => Kept
<1>1. /\ WellFormed(config) /\ working \subseteq Nodes
      /\ {requests, faults, glitches} \subseteq Nat
  BY DEF TypeOK
<1>2. Request => /\ Edit /\ {requests', faults', glitches'} \subseteq Nat
                 /\ UNCHANGED <<pc, last, abort, stop, timer, popped, called, alarm>>
  BY <1>1 DEF Request
<1>3. ASSUME NEW n \in Nodes, Add(n) PROVE Kept
  BY <1>1, <1>2, <1>3, AddWellFormed, EditInvariant DEF Add
<1>4. ASSUME NEW force \in BOOLEAN, SetForce(force) PROVE Kept
  BY <1>1, <1>2, <1>4, ForceWellFormed, EditInvariant DEF SetForce
<1>5. ASSUME NEW n \in Nodes, NEW successful \in BOOLEAN, Report(n, successful)
      PROVE  Kept
  BY <1>1, <1>5, ReportWellFormed, EditInvariant DEF Report, budgets
<1>6. ASSUME NEW n \in Nodes, Elsewhere(n) PROVE Kept
  BY <1>1, <1>6, ElsewhereWellFormed, EditInvariant DEF Elsewhere, budgets
<1> QED BY <1>3, <1>4, <1>5, <1>6

------------------------------------------------------------------------------
(* The theorems.                                                           *)

LEMMA InitInvariant == Init => TypeOK /\ IInv
<1> SUFFICES ASSUME Init PROVE TypeOK /\ IInv
  OBVIOUS
<1>1. WellFormed(config)
  BY DefaultKnown DEF Init
<1>2. NoConfig \in Values
  BY DEF Values
<1>3. TypeOK
  BY <1>1, <1>2 DEF Init, TypeOK, Reading, NoEvent, NoTurn, Indices
<1>4. IInv
  BY DEF Init, IInv, MainHolds, ReaderHolds, InStep, Reading, NoEvent
<1> QED BY <1>3, <1>4

LEMMA NextInvariant ==
  ASSUME TypeOK, [Next]_vars
  PROVE  Kept
<1>1. CASE UNCHANGED vars
  BY <1>1 DEF vars, readerVars, fsmVars, budgets, TypeOK, IInv, MainHolds, ReaderHolds, InStep,
              Outcome, Kept
<1>2. ASSUME NEW n \in Managers, Reader(n) \/ Main(n) \/ TimerPops(n) \/ Disturbed(n)
      PROVE  Kept
  BY <1>2, ReaderInvariant, MainInvariant, TimerPopsInvariant, DisturbedInvariant
<1> QED BY <1>1, <1>2, EditorsInvariant DEF Next

\* Whatever main and the reader do to each other (_abort_read comes too late) and
\* whatever is lost, every thread holds values of its type, and all that any of them
\* knows of the queue, or is about to write, is a well-formed queue.
THEOREM TypeCorrect == Safety => []TypeOK
<1>1. TypeOK /\ [Next]_vars => TypeOK'
  BY NextInvariant DEF Kept
<1> QED BY <1>1, InitInvariant, PTL DEF Safety

\* The queue is in order, and its lists agree, even where a manager writes what it
\* should not: on the default value, or with an index it should not have.
THEOREM QueueInOrderHolds == Safety => [](Protocol!QueueInOrder /\ Protocol!ListsAgree)
<1>1. TypeOK => Protocol!QueueInOrder /\ Protocol!ListsAgree
  BY SameOrder DEF TypeOK, WellFormed, Protocol!QueueInOrder, Protocol!ListsAgree
<1> QED BY <1>1, TypeCorrect, PTL

\* Whoever holds the current index holds the current queue: update_from_etcd,
\* tuple_from_result and write_to_etcd never pair an index with another value.
THEOREM Invariance == ~Preempt /\ ~WritesLost /\ Safety => []IInv
<1>1. SUFFICES ASSUME ~Preempt, ~WritesLost PROVE Safety => []IInv
  OBVIOUS
<1>2. TypeOK /\ IInv /\ [Next]_vars => IInv'
  BY <1>1, NextInvariant DEF Kept
<1> QED BY <1>2, InitInvariant, TypeCorrect, PTL DEF Safety

------------------------------------------------------------------------------
(* The refinement.                                                         *)

\* The parts of Protocol!Next, one to a disjunct.
LEMMA ProtocolSteps ==
  /\ \A n \in Nodes :
       \/ Protocol!Add(n) \/ Protocol!Start(n) \/ Protocol!BeginWork(n) \/ Protocol!Crash(n)
       \/ Protocol!TimeOut(n) \/ (\E successful \in BOOLEAN : Protocol!Report(n, successful))
       => Protocol!Next
  /\ \A force \in BOOLEAN : Protocol!SetForce(force) => Protocol!Next
  BY DEF Protocol!Next

\* A round of main is the beginning of a node's work, or nothing to the queue.
LEMMA RoundImplements ==
  ASSUME TypeOK, NEW n \in Managers, TimerRound(n) \/ EtcdRound(n)
  PROVE  [Protocol!Next]_(Protocol!vars)
<1>1. config' = config
  BY DEF TimerRound, EtcdRound
<1>2. working' = working \/ working' = working \cup {n}
  BY DEF TimerRound, EtcdRound, FsmUpdate, fsmVars
<1>3. CASE n \notin working /\ working' = working \cup {n}
  <2>1. Protocol!BeginWork(n)
    BY <1>1, <1>3 DEF Protocol!BeginWork
  <2> QED BY <2>1, ProtocolSteps, ConstantsAssumption
<1>4. CASE working' = working
  BY <1>1, <1>4 DEF Protocol!vars
<1> QED BY <1>2, <1>3, <1>4

\* A write is the start of a node's turn or the end of one that took too long.
LEMMA WriteImplements ==
  ASSUME TypeOK, IInv, NEW n \in Managers, pc[n] = "write", turn[n].att = "current",
         config' = turn[n].value, working' = working
  PROVE  [Protocol!Next]_(Protocol!vars)
<1>1. n \in Nodes /\ Outcome(n, config')
  BY ConstantsAssumption DEF IInv, MainHolds
<1>2. CASE config' = config
  BY <1>2 DEF Protocol!vars
<1>3. CASE AtFront(config, n) /\ ~BeingProcessed(config, n) /\ config' = MoveToProcessing(config, n)
  <2>1. Protocol!Start(n)
    BY <1>3, SameQueue DEF Protocol!Start
  <2> QED BY <1>1, <2>1, ProtocolSteps
<1>4. ASSUME NEW m \in Nodes, AtFront(config, m), config' = MarkUnresponsive(config, m)
      PROVE  Protocol!Next
  <2>1. Protocol!TimeOut(m)
    BY <1>4, SameQueue DEF Protocol!TimeOut
  <2> QED BY <2>1, ProtocolSteps
<1> QED BY <1>1, <1>2, <1>3, <1>4 DEF Outcome

LEMMA StepImplements ==
  ASSUME TypeOK, IInv, ~WritesLost, [Next]_vars
  PROVE  [Protocol!Next]_(Protocol!vars)
<1>1. UNCHANGED <<config, working>> => [Protocol!Next]_(Protocol!vars)
  BY DEF Protocol!vars
<1>2. ASSUME NEW n \in Managers, Reader(n) \/ TimerPops(n)
      PROVE  UNCHANGED <<config, working>>
  BY <1>2 DEF Reader, Read, StartWatch, WatchReturns, Assign, TimerPops, fsmVars
<1>3. ASSUME NEW n \in Managers, Main(n)
      PROVE  [Protocol!Next]_(Protocol!vars)
  <2>1. CASE TimerRound(n) \/ EtcdRound(n)
    BY <2>1, RoundImplements
  <2>2. CASE Write(n)
    BY <2>2, WriteImplements DEF Write, fsmVars
  <2>3. CASE Compare(n) \/ WriteContended(n) \/ NextRound(n)
    BY <1>1, <2>3 DEF Compare, WriteContended, NextRound, fsmVars
  <2> QED BY <1>3, <2>1, <2>2, <2>3 DEF Main
<1>4. ASSUME NEW n \in Managers, Disturbed(n)
      PROVE  [Protocol!Next]_(Protocol!vars)
  <2>1. CASE ReadRaises(n) \/ WatchRaises(n)
    BY <1>1, <2>1 DEF ReadRaises, WatchRaises, fsmVars
  <2>2. CASE Restart(n)
    <3>1. CASE n \in working /\ working' = working \ {n}
      <4>1. Protocol!Crash(n)
        BY <2>2, <3>1 DEF Restart, Protocol!Crash
      <4> QED BY <4>1, ProtocolSteps, ConstantsAssumption
    <3>2. CASE n \notin working \/ working' = working
      BY <1>1, <2>2, <3>2 DEF Restart
    <3> QED BY <2>2, <3>1, <3>2 DEF Restart
  <2>3. ASSUME NEW applied \in BOOLEAN, WriteRaises(n, applied)
        PROVE  [Protocol!Next]_(Protocol!vars)
    BY <2>3, WriteImplements DEF WriteRaises
  <2> QED BY <1>4, <2>1, <2>2, <2>3 DEF Disturbed
<1>5. ASSUME NEW n \in Nodes, Add(n) \/ Elsewhere(n) \/ \E successful \in BOOLEAN : Report(n, successful)
      PROVE  Protocol!Next
  BY <1>5, ProtocolSteps DEF Add, Elsewhere, Report
<1>6. ASSUME NEW force \in BOOLEAN, SetForce(force)
      PROVE  Protocol!Next
  BY <1>6, ProtocolSteps DEF SetForce
<1>7. CASE UNCHANGED vars
  BY <1>1, <1>7 DEF vars, fsmVars
<1> QED BY <1>2, <1>1, <1>3, <1>4, <1>5, <1>6, <1>7 DEF Next

\* The managers implement QueueProtocol: whatever is read too late, aborted or done
\* twice, the queue changes only by atomic steps of a turn, so that nothing stale
\* is written over it. The two assumptions are needed: cf. PlacesKept.
THEOREM ImplementsHolds == ~Preempt /\ ~WritesLost /\ Safety => Implements
<1>1. Init => Protocol!Init
  BY SameQueue DEF Init, Protocol!Init
<1>2. SUFFICES ASSUME ~Preempt, ~WritesLost PROVE Safety => Implements
  OBVIOUS
<1>3. TypeOK /\ IInv /\ [Next]_vars => [Protocol!Next]_(Protocol!vars)
  BY <1>2, StepImplements
<1>4. Safety => []TypeOK /\ []IInv
  BY <1>2, TypeCorrect, Invariance
<1> QED BY <1>1, <1>3, <1>4, PTL DEF Safety, Implements, Protocol!Safety

------------------------------------------------------------------------------
(* What the implementation means for the nodes in the queue.               *)

\* A step of the protocol forgets no failed node, and takes a waiting node off the
\* queue only if FORCE is unset.
LEMMA StepKeepsNodes ==
  ASSUME WellFormed(config), [Protocol!Next]_(Protocol!vars), NEW m \in Nodes
  PROVE  /\ Entry(m, FAILURE) \in config.errored =>
              Entry(m, FAILURE) \in config'.errored \/ InQueue(config', m)
         /\ InQueue(config, m) /\ ~AtFront(config, m) =>
              InQueue(config', m) \/ (~config.force /\ config'.errored # {})
<1> DEFINE Stays == /\ Entry(m, FAILURE) \in config.errored =>
                         Entry(m, FAILURE) \in config'.errored \/ InQueue(config', m)
                    /\ InQueue(config, m) /\ ~AtFront(config, m) =>
                         InQueue(config', m) \/ (~config.force /\ config'.errored # {})
<1>1. ASSUME NEW n \in Nodes, Protocol!Add(n) PROVE Stays
  BY <1>1, AddIs, AddKeeps
<1>2. ASSUME NEW n \in Nodes, Protocol!Start(n) PROVE Stays
  BY <1>2, SameQueue, TurnKeepsNodes DEF Protocol!Start
<1>3. ASSUME NEW n \in Nodes, AtFront(config, n), NEW d, config' = ClearFront(d),
             \/ d = NodeSucceeded(RemoveFirst(config), n)
             \/ \E status \in {FAILURE, UNRESPONSIVE} :
                   d = NodeFailed(RemoveFirst(config), n, status)
      PROVE  Stays
  BY <1>3, TurnEndKeepsNodes
<1>4. ASSUME NEW n \in Nodes, NEW successful \in BOOLEAN, Protocol!Report(n, successful)
      PROVE  Stays
  <2>1. config' = RemoveFromQueue(config, n, successful)
    BY <1>4, ReportIs
  <2>2. CASE ~BeingProcessed(config, n)
    BY <2>1, <2>2 DEF RemoveFromQueue
  <2>3. CASE BeingProcessed(config, n)
    BY <1>3, <2>1, <2>3 DEF RemoveFromQueue, BeingProcessed
  <2> QED BY <2>2, <2>3
<1>5. ASSUME NEW n \in Nodes, Protocol!TimeOut(n) PROVE Stays
  BY <1>3, <1>5, SameQueue DEF Protocol!TimeOut, MarkUnresponsive
<1>6. ASSUME NEW force \in BOOLEAN, Protocol!SetForce(force) PROVE Stays
  <2>1. config'.queued = config.queued /\ config'.errored = config.errored
    BY <1>6 DEF Protocol!SetForce, WellFormed, QueueConfigs
  <2> QED BY <2>1 DEF InQueue
<1>7. CASE UNCHANGED config
  BY <1>7
<1> QED BY <1>1, <1>2, <1>4, <1>5, <1>6, <1>7 DEF Protocol!Next, Protocol!BeginWork,
           Protocol!Crash, Protocol!vars

\* Entries are what QueueProtocol takes them for.
LEMMA SameEntries ==
  /\ \A n : Protocol!Entry(n, Protocol!FAILURE) = Entry(n, FAILURE)
  /\ \A c, n : Protocol!InQueue(c, n) <=> InQueue(c, n)
  BY DEF Protocol!Entry, Entry, Protocol!FAILURE, FAILURE, Protocol!InQueue, InQueue,
         Protocol!InList, InList, Protocol!Range, Range

\* No step of any thread forgets a failed node: it stops being errored by being
\* queued again, however old the value is that fsm_update was run on.
THEOREM FailuresRetriedHolds ==
  ~Preempt /\ ~WritesLost /\ Safety => Protocol!FailuresRetried
<1> DEFINE Retried == \A n \in Nodes :
                        /\ Protocol!Entry(n, Protocol!FAILURE) \in config.errored
                        /\ Protocol!Entry(n, Protocol!FAILURE) \notin config'.errored
                        => Protocol!InQueue(config', n)
<1>1. SUFFICES ASSUME ~Preempt, ~WritesLost PROVE Safety => Protocol!FailuresRetried
  OBVIOUS
<1>2. TypeOK /\ IInv /\ [Next]_vars => [Retried]_(Protocol!vars)
  BY <1>1, StepImplements, StepKeepsNodes, SameEntries DEF TypeOK
<1>3. Safety => []TypeOK /\ []IInv
  BY <1>1, TypeCorrect, Invariance
<1> QED BY <1>2, <1>3, PTL DEF Safety, Protocol!FailuresRetried

\* No node loses its place in the queue to contended writes, rounds of the timer on
\* old values, exceptions or restarts: a node that waits goes off the queue only when a
\* resync ends without FORCE. Without the assumption about writes that raise TLC finds
\* this violated, against the comment at queue_manager/etcd_synchronizer.py:144-146.
THEOREM PlacesKeptHolds == ~Preempt /\ ~WritesLost /\ Safety => PlacesKept
<1> DEFINE Stays == \A n \in Nodes :
                      /\ Protocol!InQueue(config, n) /\ ~Protocol!AtFront(config, n) /\ ~Protocol!InQueue(config', n)
                      => ~config.force /\ config'.errored # {}
<1>1. SUFFICES ASSUME ~Preempt, ~WritesLost PROVE Safety => PlacesKept
  OBVIOUS
<1>2. TypeOK /\ IInv /\ [Next]_vars => [Stays]_(Protocol!vars)
  BY <1>1, StepImplements, StepKeepsNodes, SameEntries, SameQueue DEF TypeOK
<1>3. Safety => []TypeOK /\ []IInv
  BY <1>1, TypeCorrect, Invariance
<1> QED BY <1>2, <1>3, PTL DEF Safety, PlacesKept, Protocol!ForcePushesOn
==============================================================================
