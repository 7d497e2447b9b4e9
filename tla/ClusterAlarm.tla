----------------------------- MODULE ClusterAlarm -----------------------------
(***************************************************************************)
(* The alarm TOO_LONG_CLUSTERING of a node. The synchronizer of each       *)
(* plugin has a TooLongAlarm of its own: a flag, and a thread that raises  *)
(* the alarm after a delay if the flag is set then. There is one alarm,    *)
(* which they share: it is identified by its issuer and its name alone.    *)
(*                                                                         *)
(* trigger works without the lock of the condition; cancel and the timer   *)
(* thread hold it while they work, quit only while it notifies. There is   *)
(* no clock: a delay may be over at any time. notify wakes any one of the  *)
(* threads that wait (the oldest, in the code).                            *)
(***************************************************************************)
EXTENDS Naturals

CONSTANTS
  Plugins,  \* the plugins of the node
  Timers    \* the timer threads that a TooLongAlarm may have at one time

NoTimer == "none"

ASSUME TimersAssumption == NoTimer \notin Timers
ASSUME PluginsAssumption == Plugins # {}   \* without a plugin nobody has the alarm

VARIABLES
  alarm,   \* is the alarm raised?
  pc,      \* pc[p]: where the synchronizer thread of p is
  found,   \* found[p]: history: what its last turn found the node to be
  should,  \* should[p]: _should_alarm
  current, \* current[p]: _timer_thread
  timer    \* timer[p][t]: where a timer thread is, or that it has ended

vars == <<alarm, pc, found, should, current, timer>>

TypeOK ==
  /\ alarm \in BOOLEAN
  /\ pc \in [Plugins -> {"idle", "trigger", "notify", "join", "done"}]
  /\ found \in [Plugins -> {"nothing", "normal", "resizing"}]
  /\ should \in [Plugins -> BOOLEAN]
  /\ current \in [Plugins -> Timers \cup {NoTimer}]
  /\ timer \in [Plugins -> [Timers -> {"begun", "waiting", "woken", "raising", "ended"}]]

\* The process starts, perhaps again: the alarm may be up from its last life.
Init ==
  /\ alarm \in BOOLEAN
  /\ pc = [p \in Plugins |-> "idle"] /\ found = [p \in Plugins |-> "nothing"]
  /\ should = [p \in Plugins |-> FALSE] /\ current = [p \in Plugins |-> NoTimer]
  /\ timer = [p \in Plugins |-> [t \in Timers |-> "ended"]]

\* Mutant of LockFree: quit joins the timer thread while it holds the lock.
LockFreeOfJoin(p) == pc[p] # "join" /\ \A t \in Timers : timer[p][t] # "raising"

\* All other uses of the lock are over in one step.
LockFree(p) == \A t \in Timers : timer[p][t] # "raising"

Notify(p) ==
  IF \E t \in Timers : timer[p][t] = "waiting"
  THEN \E t \in Timers : /\ timer[p][t] = "waiting"
                         /\ timer' = [timer EXCEPT ![p][t] = "woken"]
  ELSE UNCHANGED timer

------------------------------------------------------------------------------
(* What SyncFSM.next does with the alarm in a turn.                        *)

\* Mutants of Cancel: it does not take the lock; it leaves _timer_thread.
CancelUnlocked(p) ==
  /\ should' = [should EXCEPT ![p] = FALSE]
  /\ Notify(p)
  /\ current' = [current EXCEPT ![p] = NoTimer]
  /\ alarm' = FALSE
CancelKeepsThread(p) ==
  /\ LockFree(p)
  /\ should' = [should EXCEPT ![p] = FALSE]
  /\ Notify(p)
  /\ alarm' = FALSE
  /\ UNCHANGED current

Cancel(p) ==
  /\ LockFree(p)
  /\ should' = [should EXCEPT ![p] = FALSE]
  /\ Notify(p)
  /\ current' = [current EXCEPT ![p] = NoTimer]
  /\ alarm' = FALSE

\* A turn that finds the node NORMAL.
TurnNormal(p) ==
  /\ pc[p] = "idle"
  /\ found' = [found EXCEPT ![p] = "normal"]
  /\ Cancel(p)
  /\ UNCHANGED pc

\* A turn that finds it on its way in or out of the cluster, or in a resize of
\* it: trigger sets the flag ...
TurnResizing(p) ==
  /\ pc[p] = "idle"
  /\ found' = [found EXCEPT ![p] = "resizing"]
  /\ should' = [should EXCEPT ![p] = TRUE]
  /\ pc' = [pc EXCEPT ![p] = "trigger"]
  /\ UNCHANGED <<alarm, current, timer>>

\* ... and starts a thread if there is none.
Trigger(p) ==
  /\ pc[p] = "trigger"
  /\ pc' = [pc EXCEPT ![p] = "idle"]
  /\ IF current[p] # NoTimer THEN UNCHANGED <<current, timer>>
     ELSE \E t \in Timers :
            /\ timer[p][t] = "ended"
            /\ current' = [current EXCEPT ![p] = t]
            /\ timer' = [timer EXCEPT ![p][t] = "begun"]
  /\ UNCHANGED <<alarm, found, should>>

\* The synchronizer's loop has ended: quit.
Quit(p) ==
  /\ pc[p] = "idle"
  /\ IF current[p] = NoTimer
     THEN pc' = [pc EXCEPT ![p] = "done"] /\ UNCHANGED should
     ELSE /\ pc' = [pc EXCEPT ![p] = "notify"]
          /\ should' = [should EXCEPT ![p] = FALSE]
  /\ UNCHANGED <<alarm, found, current, timer>>

QuitNotifies(p) ==
  /\ pc[p] = "notify" /\ LockFree(p)
  /\ pc' = [pc EXCEPT ![p] = "join"]
  /\ Notify(p)
  /\ UNCHANGED <<alarm, found, should, current>>

QuitJoins(p) ==
  /\ pc[p] = "join" /\ timer[p][current[p]] = "ended"
  /\ pc' = [pc EXCEPT ![p] = "done"]
  /\ UNCHANGED <<alarm, found, should, current, timer>>

------------------------------------------------------------------------------
(* A timer thread: TooLongAlarm.alarm.                                     *)

Steps(p, t, from, to) ==
  /\ timer[p][t] = from
  /\ timer' = [timer EXCEPT ![p][t] = to]
  /\ UNCHANGED <<pc, found, should, current>>

TimerWaits(p, t) == LockFree(p) /\ Steps(p, t, "begun", "waiting") /\ UNCHANGED alarm

DelayOver(p, t) == Steps(p, t, "waiting", "woken") /\ UNCHANGED alarm

\* It has the lock again and looks at the flag, whoever has woken it ...
TimerWakes(p, t) ==
  /\ LockFree(p)
  /\ Steps(p, t, "woken", IF should[p] THEN "raising" ELSE "ended")
  /\ UNCHANGED alarm

\* ... and raises the alarm before it gives the lock back.
TimerRaises(p, t) == Steps(p, t, "raising", "ended") /\ alarm' = TRUE

------------------------------------------------------------------------------
Synchronizer(p) == Trigger(p) \/ QuitNotifies(p) \/ QuitJoins(p)

TimerThread(p, t) ==
  \/ TimerWaits(p, t) \/ DelayOver(p, t) \/ TimerWakes(p, t) \/ TimerRaises(p, t)

Next ==
  \E p \in Plugins : \/ TurnNormal(p) \/ TurnResizing(p) \/ Quit(p) \/ Synchronizer(p)
                     \/ \E t \in Timers : TimerThread(p, t)

\* Threads run, and delays come to an end. Nothing makes a turn come.
Fairness ==
  /\ \A p \in Plugins : WF_vars(Synchronizer(p))
  /\ \A p \in Plugins, t \in Timers : WF_vars(TimerThread(p, t))

Safety == Init /\ [][Next]_vars
Spec == Safety /\ Fairness

------------------------------------------------------------------------------
(* Properties.                                                             *)

\* The alarm is up only while there is a cause for it: a plugin whose last turn
\* did not find the node NORMAL. A timer thread that has seen the flag set must
\* not raise the alarm after a cancel has cleared it.
AlarmHasCause == alarm => \E p \in Plugins : found[p] # "normal"

\* Why: a timer about to raise the alarm holds the lock that a cancel needs.
Justified ==
  \A p \in Plugins : should[p] \/ ~LockFree(p) => found[p] = "resizing"

IInv == TypeOK /\ AlarmHasCause /\ Justified

Resizing(p) == found[p] = "resizing" /\ pc[p] \in {"idle", "trigger"}

\* If every plugin of the node is caught in a resize, the alarm is raised for
\* good, whatever cancels and forgotten timer threads came before.
AllStuckIsReported ==
  (\A p \in Plugins : <>[]Resizing(p)) => <>[]alarm

\* quit returns: the thread it joins is woken, or its delay ends, and it gets the
\* lock that it needs.
QuitReturns ==
  \A p \in Plugins : pc[p] = "notify" ~> pc[p] = "done"

\* The comment in SyncFSM.next (synchronization_fsm.py:115): "If we're
\* mid-scale-up, ensure that the "scaling operation taking too long" alarm is
\* running, and cancel it if we're not", for each plugin. It does not hold: a turn
\* of another plugin that finds the node NORMAL clears the alarm they share, and
\* the plugin that is stuck has had its timer.
StuckIsReported ==
  \A p \in Plugins : <>[]Resizing(p) => <>[]alarm

==============================================================================
