----------------------------- MODULE QueueManager -----------------------------
(***************************************************************************)
(* clearwater-queue-manager's EtcdSynchronizer, thread by thread. In each  *)
(* round of its loop main starts two futures and goes on with the first    *)
(* that is done: one that reads the queue from etcd and, if it knows it    *)
(* already, watches it (the reader here), and one that ends when           *)
(* _stop_timer_thread is set. QueueTimer's thread sets it when the node at *)
(* the front of the queue has had its time. main alone runs the FSM and    *)
(* writes, but the reader assigns _last_value and _index on its own.       *)
(*                                                                         *)
(* Requests and reports are edit_queue_config in a process of its own      *)
(* (modify_nodes_in_queue): a read and a compare-and-swap with the index   *)
(* of that read, repeated until it succeeds, and so a single step here.    *)
(* etcd indices are "current", "stale" or "none", as in ClusterSync. The   *)
(* key exists.                                                             *)
(*                                                                         *)
(* QueueProtocol is what the managers add up to. The managers of the nodes *)
(* in Managers are here in detail; of those of other nodes only the atomic *)
(* steps are seen that QueueProtocol allows them, at any time.             *)
(***************************************************************************)
EXTENDS QueueConfig

CONSTANTS
  Managers,     \* the nodes whose managers are modelled thread by thread
  Preempt,      \* may main run while the reader is about to assign?
  WritesLost,   \* may a write that raises not have been applied?
  ReportsOnce,  \* is the work of a node over with the report of its outcome?
  MaxRequests,  \* bound on the additions and changes of FORCE
  MaxFaults,    \* bound on restarts
  MaxGlitches   \* bound on exceptions of the etcd client

ASSUME ConstantsAssumption ==
  /\ Managers \subseteq Nodes
  /\ {Preempt, WritesLost, ReportsOnce} \subseteq BOOLEAN
  /\ {MaxRequests, MaxFaults, MaxGlitches} \subseteq Nat

VARIABLES
  config,   \* the queue in etcd
  working,  \* the nodes on which at_front_of_queue is applying configuration
  pc,       \* pc[n]: where n's main thread is
  last,     \* last[n]: _last_value
  index,    \* index[n]: _index
  abort,    \* abort[n]: _abort_read
  stop,     \* stop[n]: _stop_timer_thread
  reader,   \* reader[n]: the progress and the result of update_from_etcd
  event,    \* event[n]: while n watches, the first change since its read
  timer,    \* timer[n]: the node that n's timer runs for
  popped,   \* popped[n]: timer_popped
  called,   \* called[n]: _last_local_state is PROCESSING
  alarm,    \* alarm[n]: the severities of n's local and global alarm
  turn,     \* turn[n]: what fsm_loop makes of the queue, the index to write with
  requests, faults, glitches  \* how much of each bound is used

readerVars == <<reader, event>>
fsmVars == <<timer, popped, called, alarm, working>>
budgets == <<requests, faults, glitches>>
vars == <<config, pc, last, index, abort, stop, readerVars, fsmVars, turn, budgets>>

\* A manager cannot know whether the node it waits for is at work, and may forget
\* that it has called its own plugin.
Protocol == INSTANCE QueueProtocol WITH TimersAccurate <- FALSE, OncePerTurn <- FALSE

NoConfig == <<>>
NoTimer == "none"
Indices == {"none", "current", "stale"}
Aged(i) == IF i = "current" THEN "stale" ELSE i
NoEvent == [value |-> NoConfig, index |-> "none"]
Reading == [pc |-> "read", value |-> NoConfig, index |-> "none"]
NoTurn == [value |-> NoConfig, att |-> "none"]
Alarms == LET severities == {"clear", "minor", "critical"}
          IN [local : severities, global : severities]

\* What is known of the queue: nothing, or a value that it has or once had.
Values == {NoConfig} \cup {c \in QueueConfigs : WellFormed(c)}

TypeOK ==
  /\ WellFormed(config) /\ working \subseteq Nodes
  /\ pc \in [Managers -> {"wait", "compare", "write", "shutdown"}]
  /\ last \in [Managers -> Values] /\ index \in [Managers -> Indices]
  /\ {abort, stop, popped, called} \subseteq [Managers -> BOOLEAN]
  /\ reader \in [Managers -> [pc : {"read", "watch", "assign", "done"},
                              value : Values, index : Indices]]
  /\ event \in [Managers -> [value : Values, index : Indices]]
  /\ timer \in [Managers -> Nodes \cup {NoTimer}]
  /\ alarm \in [Managers -> Alarms]
  /\ turn \in [Managers -> [value : Values, att : Indices]]
  /\ \A n \in Managers : pc[n] \in {"compare", "write"} => turn[n].value # NoConfig
  /\ {requests, faults, glitches} \subseteq Nat

Init ==
  /\ config = DefaultValue /\ working = {}
  /\ pc = [n \in Managers |-> "wait"]
  /\ last = [n \in Managers |-> NoConfig]
  /\ index = [n \in Managers |-> "none"]
  /\ abort = [n \in Managers |-> FALSE] /\ stop = [n \in Managers |-> FALSE]
  /\ reader = [n \in Managers |-> Reading]
  /\ event = [n \in Managers |-> NoEvent]
  /\ timer = [n \in Managers |-> NoTimer] /\ popped = [n \in Managers |-> FALSE]
  /\ called = [n \in Managers |-> FALSE]
  /\ alarm \in [Managers -> Alarms]   \* they may be raised from an earlier life
  /\ turn = [n \in Managers |-> NoTurn]
  /\ requests = 0 /\ faults = 0 /\ glitches = 0

\* etcd: the key is written, every index that is held ages, and a watcher gets
\* the first change since its read.
Noticed(ownturn) ==
  /\ index' = [m \in Managers |-> Aged(index[m])]
  /\ reader' = [m \in Managers |-> [reader[m] EXCEPT !.index = Aged(@)]]
  /\ event' = [m \in Managers |->
                 IF reader[m].pc # "watch" THEN NoEvent
                 ELSE IF event[m] = NoEvent THEN [value |-> config', index |-> "current"]
                 ELSE [event[m] EXCEPT !.index = "stale"]]
  /\ turn' = [m \in Managers |-> [ownturn[m] EXCEPT !.att = Aged(@)]]

------------------------------------------------------------------------------
(* The reader: update_from_etcd and read_from_etcd.                        *)

\* What tuple_from_result returns: once main has gone on without the reader,
\* what it finds in _last_value and _index.
Returns(n, value, i) ==
  /\ reader' = [reader EXCEPT ![n] =
       IF abort[n] THEN [pc |-> "assign", value |-> last[n], index |-> index[n]]
                   ELSE [pc |-> "assign", value |-> value, index |-> i]]
  /\ event' = [event EXCEPT ![n] = NoEvent]

Read(n) ==
  /\ reader[n].pc = "read"
  /\ abort[n] \/ config # last[n]
  /\ Returns(n, config, "current")
  /\ UNCHANGED <<config, pc, last, index, abort, stop, fsmVars, turn, budgets>>

StartWatch(n) ==
  /\ reader[n].pc = "read"
  /\ ~abort[n] /\ config = last[n]
  /\ reader' = [reader EXCEPT ![n].pc = "watch"]
  /\ UNCHANGED <<config, pc, last, index, abort, stop, event, fsmVars, turn, budgets>>

\* The watch returns the first change since the read, or times out and is not
\* renewed.
WatchReturns(n) ==
  /\ reader[n].pc = "watch"
  /\ abort[n] \/ event[n] # NoEvent
  /\ Returns(n, event[n].value, event[n].index)
  /\ UNCHANGED <<config, pc, last, index, abort, stop, fsmVars, turn, budgets>>

\* The assignment in update_from_etcd: the future is done.
Assign(n) ==
  /\ reader[n].pc = "assign"
  /\ last' = [last EXCEPT ![n] = reader[n].value]
  /\ index' = [index EXCEPT ![n] = reader[n].index]
  /\ reader' = [reader EXCEPT ![n] = [Reading EXCEPT !.pc = "done"]]
  /\ UNCHANGED <<config, pc, abort, stop, event, fsmVars, turn, budgets>>

------------------------------------------------------------------------------
(* The FSM: fsm_update, with the queue v.                                  *)

\* The timer has popped for the node that is still at the front.
Expires(n, v) == popped[n] /\ AtFront(v, timer[n])

TakesTurn(n, v) == BeingProcessed(v, n) /\ ~called[n]
WaitsForOther(n, v) == v.queued # <<>> /\ ~AtFront(v, n)

\* The alarms that go with the local and with the global state.
LocalAlarm(n, v) ==
  IF AtFront(v, n) THEN "minor" ELSE IF InError(v, n) THEN "critical" ELSE "clear"
GlobalAlarm(v) ==
  IF v.errored # {} THEN "critical" ELSE IF v.queued # <<>> THEN "minor" ELSE "clear"

FsmUpdate(n, v) ==
  IF Expires(n, v)
    THEN /\ turn' = [turn EXCEPT ![n] = [NoTurn EXCEPT !.value = MarkUnresponsive(v, timer[n])]]
         /\ timer' = [timer EXCEPT ![n] = NoTimer]
         /\ popped' = [popped EXCEPT ![n] = FALSE]
         /\ alarm' = [alarm EXCEPT ![n].local = IF AtFront(v, n) THEN "critical" ELSE @]
         /\ UNCHANGED <<called, working>>
    ELSE /\ turn' = [turn EXCEPT ![n] = [NoTurn EXCEPT !.value = MoveToProcessing(v, n)]]
         /\ timer' = [timer EXCEPT ![n] = IF TakesTurn(n, v) THEN n
                                          ELSE IF WaitsForOther(n, v) THEN Head(v.queued).id
                                          ELSE IF popped[n] THEN NoTimer ELSE @]
         /\ popped' = [popped EXCEPT ![n] = FALSE]
         /\ called' = [called EXCEPT ![n] = BeingProcessed(v, n)]
         /\ alarm' = [alarm EXCEPT
              ![n].local = IF BeingProcessed(v, n) /\ called[n] THEN @ ELSE LocalAlarm(n, v),
              ![n].global = GlobalAlarm(v)]
         /\ working' = IF TakesTurn(n, v) THEN working \cup {n} ELSE working

------------------------------------------------------------------------------
(* main and fsm_loop.                                                      *)

\* The reader is not between what it has returned and its assignment, a moment
\* without any I/O in which main is rarely let in.
MayRun(n) == Preempt \/ reader[n].pc # "assign"

\* Mutant of TimerRound: the reader is not told to give up.
TimerRoundUnaborted(n) ==
  /\ pc[n] = "wait" /\ stop[n]
  /\ \E late \in {FALSE, timer[n] # NoTimer /\ ~popped[n]} :
       stop' = [stop EXCEPT ![n] = late]
  /\ FsmUpdate(n, IF last[n] = NoConfig THEN DefaultValue ELSE last[n])
  /\ pc' = [pc EXCEPT ![n] = "compare"]
  /\ UNCHANGED <<config, last, index, abort, readerVars, budgets>>

\* The timer future is done: the reader is told to give up, which it may be too
\* late for, and the FSM runs on _last_value, or on the default value if there is
\* none. A timer that pops while it is being cleared still sets
\* _stop_timer_thread.
TimerRound(n) ==
  /\ pc[n] = "wait" /\ stop[n]
  /\ abort' = [abort EXCEPT ![n] = TRUE]
  /\ \E late \in {FALSE, timer[n] # NoTimer /\ ~popped[n]} :
       stop' = [stop EXCEPT ![n] = late]
  /\ FsmUpdate(n, IF last[n] = NoConfig THEN DefaultValue ELSE last[n])
  /\ pc' = [pc EXCEPT ![n] = "compare"]
  /\ UNCHANGED <<config, last, index, readerVars, budgets>>

\* The reader is done, and what it has read is handled. _stop_timer_thread stays
\* set: the next round is one of the timer.
EtcdRound(n) ==
  /\ pc[n] = "wait" /\ reader[n].pc = "done"
  /\ stop' = [stop EXCEPT ![n] = TRUE]
  /\ IF last[n] = NoConfig
       THEN /\ pc' = [pc EXCEPT ![n] = "shutdown"]
            /\ UNCHANGED <<turn, fsmVars>>
       ELSE /\ pc' = [pc EXCEPT ![n] = "compare"]
            /\ FsmUpdate(n, last[n])
  /\ UNCHANGED <<config, last, index, abort, readerVars, budgets>>

\* Is there anything to write? If so, with which index?
Compare(n) ==
  /\ pc[n] = "compare"
  /\ IF turn[n].value = last[n]
       THEN /\ pc' = [pc EXCEPT ![n] = "shutdown"]
            /\ turn' = [turn EXCEPT ![n] = NoTurn]
       ELSE /\ pc' = [pc EXCEPT ![n] = "write"]
            /\ turn' = [turn EXCEPT ![n].att = index[n]]
  /\ UNCHANGED <<config, last, index, abort, stop, readerVars, fsmVars, budgets>>

\* Mutant of Write: without an index, without a condition.
WriteUnconditional(n) ==
  /\ pc[n] = "write"
  /\ turn[n].att # "stale"
  /\ config' = turn[n].value /\ Noticed([turn EXCEPT ![n] = NoTurn])
  /\ pc' = [pc EXCEPT ![n] = "shutdown"]
  /\ UNCHANGED <<last, abort, stop, fsmVars, budgets>>

Write(n) ==
  /\ pc[n] = "write"
  /\ turn[n].att = "current"
  /\ config' = turn[n].value /\ Noticed([turn EXCEPT ![n] = NoTurn])
  /\ pc' = [pc EXCEPT ![n] = "shutdown"]
  /\ UNCHANGED <<last, abort, stop, fsmVars, budgets>>

\* Mutant of Forget: the local state is remembered.
ForgetValue(n) == last' = [last EXCEPT ![n] = NoConfig] /\ UNCHANGED called

\* Nothing is known any more of the value, nor of the local state.
Forget(n) ==
  /\ last' = [last EXCEPT ![n] = NoConfig]
  /\ called' = [called EXCEPT ![n] = FALSE]

\* Someone else got there first. Without an index the write is one that creates
\* the key, and fails too.
WriteContended(n) ==
  /\ pc[n] = "write"
  /\ turn[n].att # "current"
  /\ Forget(n)
  /\ turn' = [turn EXCEPT ![n] = NoTurn]
  /\ pc' = [pc EXCEPT ![n] = "shutdown"]
  /\ UNCHANGED <<config, index, abort, stop, readerVars, timer, popped, alarm, working, budgets>>

\* executor.shutdown waits for the reader; then the next round begins.
NextRound(n) ==
  /\ pc[n] = "shutdown" /\ reader[n].pc = "done"
  /\ abort' = [abort EXCEPT ![n] = FALSE]
  /\ reader' = [reader EXCEPT ![n] = Reading]
  /\ pc' = [pc EXCEPT ![n] = "wait"]
  /\ UNCHANGED <<config, last, index, stop, event, fsmVars, turn, budgets>>

\* QueueTimer's thread wakes up and has not been cleared.
TimerPops(n) ==
  /\ timer[n] # NoTimer /\ ~popped[n]
  /\ popped' = [popped EXCEPT ![n] = TRUE]
  /\ stop' = [stop EXCEPT ![n] = TRUE]
  /\ UNCHANGED <<config, pc, last, index, abort, readerVars, timer, called, alarm, working,
                 turn, budgets>>

------------------------------------------------------------------------------
(* modify_nodes_in_queue, and the outcome of at_front_of_queue.            *)

Edit ==
  IF config' = config THEN UNCHANGED <<index, readerVars, turn>> ELSE Noticed(turn)

Request ==
  /\ requests < MaxRequests
  /\ requests' = requests + 1
  /\ Edit
  /\ UNCHANGED <<pc, last, abort, stop, timer, popped, called, alarm, faults, glitches>>

Add(n) == Protocol!Add(n) /\ Request
SetForce(force) == Protocol!SetForce(force) /\ Request

\* Unless ReportsOnce, another call of at_front_of_queue may still be under way, or
\* the report is made again because it has raised.
Report(n, successful) ==
  /\ Protocol!Report(n, successful)
  /\ ReportsOnce => n \notin working'
  /\ Edit
  /\ UNCHANGED <<pc, last, abort, stop, timer, popped, called, alarm, budgets>>

\* What the managers of other nodes do.
Elsewhere(n) ==
  /\ \/ n \notin Managers /\ (Protocol!Start(n) \/ Protocol!BeginWork(n) \/ Protocol!Crash(n))
     \/ Managers # Nodes /\ Protocol!TimeOut(n)
  /\ Edit
  /\ UNCHANGED <<pc, last, abort, stop, timer, popped, called, alarm, budgets>>

------------------------------------------------------------------------------
(* Exceptions and restarts.                                                *)

Glitch == glitches < MaxGlitches /\ glitches' = glitches + 1

\* The first read raises: (None, None), whether aborted or not.
ReadRaises(n) ==
  /\ reader[n].pc = "read" /\ Glitch
  /\ reader' = [reader EXCEPT ![n] = [Reading EXCEPT !.pc = "assign"]]
  /\ UNCHANGED <<config, pc, last, index, abort, stop, event, fsmVars, turn, requests, faults>>

\* The watch raises: the result of the read before it is returned again.
WatchRaises(n) ==
  /\ reader[n].pc = "watch" /\ Glitch
  /\ Returns(n, last[n], IF event[n] = NoEvent THEN "current" ELSE "stale")
  /\ UNCHANGED <<config, pc, last, index, abort, stop, fsmVars, turn, requests, faults>>

\* The write raises, after etcd has applied it or before.
WriteRaises(n, applied) ==
  /\ pc[n] = "write" /\ Glitch
  /\ IF applied THEN turn[n].att = "current" ELSE WritesLost
  /\ IF applied
       THEN config' = turn[n].value /\ Noticed([turn EXCEPT ![n] = NoTurn])
       ELSE /\ turn' = [turn EXCEPT ![n] = NoTurn]
            /\ UNCHANGED <<config, index, readerVars>>
  /\ Forget(n)
  /\ pc' = [pc EXCEPT ![n] = "shutdown"]
  /\ UNCHANGED <<abort, stop, timer, popped, alarm, working, requests, faults>>

\* The process dies and is restarted. The work it has begun may go on without it.
Restart(n) ==
  /\ faults < MaxFaults /\ faults' = faults + 1
  /\ pc' = [pc EXCEPT ![n] = "wait"]
  /\ last' = [last EXCEPT ![n] = NoConfig]
  /\ index' = [index EXCEPT ![n] = "none"]
  /\ abort' = [abort EXCEPT ![n] = FALSE] /\ stop' = [stop EXCEPT ![n] = FALSE]
  /\ reader' = [reader EXCEPT ![n] = Reading]
  /\ event' = [event EXCEPT ![n] = NoEvent]
  /\ timer' = [timer EXCEPT ![n] = NoTimer] /\ popped' = [popped EXCEPT ![n] = FALSE]
  /\ called' = [called EXCEPT ![n] = FALSE]
  /\ turn' = [turn EXCEPT ![n] = NoTurn]
  /\ working' \in {working, working \ {n}}
  /\ UNCHANGED <<config, alarm, requests, glitches>>

------------------------------------------------------------------------------
Reader(n) == Read(n) \/ StartWatch(n) \/ WatchReturns(n) \/ Assign(n)

Main(n) ==
  /\ MayRun(n)
  /\ \/ TimerRound(n) \/ EtcdRound(n) \/ Compare(n) \/ Write(n) \/ WriteContended(n)
     \/ NextRound(n)

Disturbed(n) ==
  \/ ReadRaises(n) \/ WatchRaises(n) \/ Restart(n)
  \/ MayRun(n) /\ \E applied \in BOOLEAN : WriteRaises(n, applied)

Next ==
  \/ \E n \in Managers : Reader(n) \/ Main(n) \/ TimerPops(n) \/ Disturbed(n)
  \/ \E n \in Nodes : Add(n) \/ Elsewhere(n) \/ \E successful \in BOOLEAN : Report(n, successful)
  \/ \E force \in BOOLEAN : SetForce(force)

Safety == Init /\ [][Next]_vars

\* Threads keep being scheduled and timers run out; a plugin may never report.
Fairness ==
  \A n \in Managers : WF_vars(Reader(n)) /\ WF_vars(Main(n)) /\ WF_vars(TimerPops(n))

Spec == Safety /\ Fairness

------------------------------------------------------------------------------
(* Correctness.                                                            *)

\* Whatever the managers of several nodes read too late, write in vain, have
\* aborted or do once more, the queue changes only by the steps of
\* QueueProtocol: nothing stale is ever written over it.
Implements == Protocol!Safety

\* Why Implements holds, unless main is let in where it hardly ever is: whoever
\* holds the current index holds the current queue, or has made of it what the
\* FSM makes of it.
Outcome(n, v) ==
  \/ v = config
  \/ AtFront(config, n) /\ ~BeingProcessed(config, n) /\ v = MoveToProcessing(config, n)
  \/ \E m \in Nodes : AtFront(config, m) /\ v = MarkUnresponsive(config, m)

MainHolds(n) ==
  /\ index[n] = "current" => last[n] = config
  /\ pc[n] = "compare" /\ index[n] = "current" => Outcome(n, turn[n].value)
  /\ pc[n] = "write" => turn[n].att = index[n] \/ index[n] = "none"
  /\ pc[n] = "write" /\ turn[n].att = "current" => Outcome(n, turn[n].value)

ReaderHolds(n) ==
  /\ reader[n].pc = "assign" /\ reader[n].index = "current" => reader[n].value = config
  /\ event[n].index = "current" => event[n].value = config
  /\ reader[n].pc = "watch" /\ ~abort[n] /\ event[n] = NoEvent => last[n] = config

\* While main is at work, the reader either is done or gives up, and then it can
\* only tell main what main knows, or less.
InStep(n) ==
  /\ abort[n] /\ reader[n].pc = "assign" /\ reader[n].index # "none" =>
       reader[n].index = index[n] /\ reader[n].value = last[n]
  /\ pc[n] # "wait" /\ ~abort[n] => reader[n].pc = "done"
  /\ pc[n] = "wait" => ~abort[n]

IInv == \A n \in Managers : MainHolds(n) /\ ReaderHolds(n) /\ InStep(n)

\* A write that fails is made up for: "any necessary work/state changes get
\* retried" (queue_manager/etcd_synchronizer.py:144-146), and no node loses the
\* place it has in the queue to it.
PlacesKept == Protocol!ForcePushesOn


\* ABA: the queue has been changed and is back at the value that n has handled,
\* so that n will not look at it again.
Back(n) == last[n] = config /\ index[n] = "stale"

\* Whatever rounds were run on old values, and whatever writes were in vain, the
\* alarms of a node end up telling about the queue that is in etcd, unless the
\* queue is back where it was before the node's own write.
AlarmsTell ==
  \A n \in Managers :
    <>[](\/ alarm[n] = [local |-> LocalAlarm(n, config), global |-> GlobalAlarm(config)]
         \/ Back(n))
==============================================================================
