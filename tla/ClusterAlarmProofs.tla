-------------------------- MODULE ClusterAlarmProofs --------------------------
(***************************************************************************)
(* Proofs about ClusterAlarm, for any plugins and any number of timer      *)
(* threads: the alarm is up only while there is a cause for it.            *)
(***************************************************************************)
EXTENDS ClusterAlarm, TLAPS

\* A notification wakes threads, and lets none raise the alarm.
LEMMA Notified ==
  ASSUME TypeOK, NEW p \in Plugins, Notify(p)
  PROVE  /\ timer' \in [Plugins -> [Timers -> {"begun", "waiting", "woken", "raising", "ended"}]]
         /\ \A r \in Plugins, t \in Timers : timer'[r][t] = "raising" => timer[r][t] = "raising"
<1>1. CASE \E t \in Timers : timer[p][t] = "waiting"
  <2>1. PICK t \in Timers : timer' = [timer EXCEPT ![p][t] = "woken"]
    BY <1>1 DEF Notify
  <2> QED BY <2>1 DEF TypeOK
<1>2. CASE ~\E t \in Timers : timer[p][t] = "waiting"
  BY <1>2 DEF Notify, TypeOK
<1> QED BY <1>1, <1>2

\* What a step of a timer thread does, but for the state it goes to.
LEMMA Stepped ==
  ASSUME TypeOK, NEW p \in Plugins, NEW t \in Timers,
         NEW from, NEW to \in {"begun", "waiting", "woken", "raising", "ended"},
         Steps(p, t, from, to)
  PROVE  /\ timer' \in [Plugins -> [Timers -> {"begun", "waiting", "woken", "raising", "ended"}]]
         /\ timer[p][t] = from
         /\ \A r \in Plugins, u \in Timers :
              timer'[r][u] = "raising" =>
                timer[r][u] = "raising" \/ (r = p /\ u = t /\ to = "raising")
         /\ UNCHANGED <<pc, found, should, current>>
  BY DEF Steps, TypeOK

LEMMA InitInvariant == Init => IInv
<1> SUFFICES ASSUME Init PROVE IInv
  OBVIOUS
<1>1. TypeOK
  BY DEF Init, TypeOK
<1>2. AlarmHasCause
  BY PluginsAssumption DEF Init, AlarmHasCause
<1>3. Justified
  BY DEF Init, Justified, LockFree
<1> QED BY <1>1, <1>2, <1>3 DEF IInv

------------------------------------------------------------------------------
(* The steps of the synchronizer threads.                                  *)

\* A cancel finds no timer thread of its plugin about to raise the alarm.
LEMMA TurnNormalInvariant ==
  ASSUME IInv, NEW p \in Plugins, TurnNormal(p)
  PROVE  IInv'
<1>1. TypeOK /\ AlarmHasCause /\ Justified
  BY DEF IInv
<1>2. /\ LockFree(p) /\ Notify(p) /\ alarm' = FALSE
      /\ should' = [should EXCEPT ![p] = FALSE]
      /\ current' = [current EXCEPT ![p] = NoTimer]
      /\ found' = [found EXCEPT ![p] = "normal"] /\ pc' = pc
  BY DEF TurnNormal, Cancel
<1>3. /\ timer' \in [Plugins -> [Timers -> {"begun", "waiting", "woken", "raising", "ended"}]]
      /\ \A r \in Plugins, t \in Timers : timer'[r][t] = "raising" => timer[r][t] = "raising"
  BY <1>1, <1>2, Notified
<1>4. TypeOK'
  BY <1>1, <1>2, <1>3 DEF TypeOK
<1>5. AlarmHasCause'
  BY <1>2 DEF AlarmHasCause
<1>6. ASSUME NEW r \in Plugins, should'[r] \/ ~LockFree(r)'
      PROVE  found'[r] = "resizing"
  <2>1. CASE r = p
    BY <1>1, <1>2, <1>3, <1>6, <2>1 DEF TypeOK, LockFree
  <2>2. CASE r # p
    BY <1>1, <1>2, <1>3, <1>6, <2>2 DEF TypeOK, LockFree, Justified
  <2> QED BY <2>1, <2>2
<1> QED BY <1>4, <1>5, <1>6 DEF IInv, Justified

LEMMA TurnResizingInvariant ==
  ASSUME IInv, NEW p \in Plugins, TurnResizing(p)
  PROVE  IInv'
<1>1. TypeOK /\ AlarmHasCause /\ Justified
  BY DEF IInv
<1>2. TypeOK'
  BY <1>1 DEF TurnResizing, TypeOK
<1>3. AlarmHasCause'
  BY <1>1 DEF TurnResizing, TypeOK, AlarmHasCause
<1>4. Justified'
  BY <1>1 DEF TurnResizing, TypeOK, Justified, LockFree
<1> QED BY <1>2, <1>3, <1>4 DEF IInv

\* The rest of trigger, and quit, set no flag and let no thread raise the alarm.
LEMMA SynchronizerInvariant ==
  ASSUME IInv, NEW p \in Plugins, Quit(p) \/ Synchronizer(p)
  PROVE  IInv'
<1>1. TypeOK /\ AlarmHasCause /\ Justified
  BY DEF IInv
<1>2. /\ TypeOK' /\ alarm' = alarm /\ found' = found
      /\ \A r \in Plugins : should'[r] => should[r]
      /\ \A r \in Plugins, t \in Timers : timer'[r][t] = "raising" => timer[r][t] = "raising"
  <2>1. CASE Quit(p)
    BY <1>1, <2>1 DEF Quit, TypeOK
  <2>2. CASE Trigger(p)
    <3>1. CASE current[p] # NoTimer
      BY <1>1, <2>2, <3>1 DEF Trigger, TypeOK
    <3>2. CASE current[p] = NoTimer
      <4>1. PICK t \in Timers : /\ current' = [current EXCEPT ![p] = t]
                                /\ timer' = [timer EXCEPT ![p][t] = "begun"]
        BY <2>2, <3>2 DEF Trigger
      <4> QED BY <1>1, <2>2, <4>1 DEF Trigger, TypeOK
    <3> QED BY <3>1, <3>2
  <2>3. CASE QuitNotifies(p)
    <3>1. Notify(p)
      BY <2>3 DEF QuitNotifies
    <3> QED BY <1>1, <2>3, <3>1, Notified DEF QuitNotifies, TypeOK
  <2>4. CASE QuitJoins(p)
    BY <1>1, <2>4 DEF QuitJoins, TypeOK
  <2> QED BY <2>1, <2>2, <2>3, <2>4 DEF Synchronizer
<1> QED BY <1>1, <1>2 DEF IInv, AlarmHasCause, Justified, LockFree

------------------------------------------------------------------------------
(* The steps of the timer threads.                                         *)

\* A thread gets to raise the alarm by finding the flag set, and the flag is set
\* only while its plugin's last turn found a resize.
LEMMA TimerInvariant ==
  ASSUME IInv, NEW p \in Plugins, NEW t \in Timers, TimerThread(p, t)
  PROVE  IInv'
<1>1. TypeOK /\ AlarmHasCause /\ Justified
  BY DEF IInv
<1>2. CASE TimerWaits(p, t) \/ DelayOver(p, t) \/ TimerWakes(p, t)
  <2>1. PICK from, to \in {"begun", "waiting", "woken", "raising", "ended"} :
          /\ Steps(p, t, from, to) /\ alarm' = alarm
          /\ to = "raising" => should[p]
    <3>1. CASE TimerWaits(p, t)
      BY <3>1 DEF TimerWaits
    <3>2. CASE DelayOver(p, t)
      BY <3>2 DEF DelayOver
    <3>3. CASE TimerWakes(p, t)
      BY <3>3 DEF TimerWakes
    <3> QED BY <1>2, <3>1, <3>2, <3>3
  <2>2. /\ timer' \in [Plugins -> [Timers -> {"begun", "waiting", "woken", "raising", "ended"}]]
        /\ \A r \in Plugins, u \in Timers :
             timer'[r][u] = "raising" => timer[r][u] = "raising" \/ (r = p /\ should[p])
        /\ UNCHANGED <<pc, found, should, current>>
    BY <1>1, <2>1, Stepped
  <2>3. TypeOK'
    BY <1>1, <2>1, <2>2 DEF TypeOK
  <2> QED BY <1>1, <2>1, <2>2, <2>3 DEF IInv, AlarmHasCause, Justified, LockFree
<1>3. CASE TimerRaises(p, t)
  <2>1. /\ timer' \in [Plugins -> [Timers -> {"begun", "waiting", "woken", "raising", "ended"}]]
        /\ timer[p][t] = "raising" /\ alarm' = TRUE
        /\ \A r \in Plugins, u \in Timers : timer'[r][u] = "raising" => timer[r][u] = "raising"
        /\ UNCHANGED <<pc, found, should, current>>
    BY <1>1, <1>3, Stepped DEF TimerRaises
  <2>2. found[p] = "resizing"
    BY <1>1, <2>1 DEF Justified, LockFree
  <2>3. TypeOK'
    BY <1>1, <2>1 DEF TypeOK
  <2> QED BY <1>1, <2>1, <2>2, <2>3 DEF IInv, AlarmHasCause, Justified, LockFree
<1> QED BY <1>2, <1>3 DEF TimerThread

LEMMA NextInvariant == IInv /\ [Next]_vars => IInv'
<1> SUFFICES ASSUME IInv, [Next]_vars PROVE IInv'
  OBVIOUS
<1>1. CASE Next
  BY <1>1, TurnNormalInvariant, TurnResizingInvariant, SynchronizerInvariant, TimerInvariant
  DEF Next
<1>2. CASE UNCHANGED vars
  BY <1>2 DEF vars, IInv, TypeOK, AlarmHasCause, Justified, LockFree
<1> QED BY <1>1, <1>2

------------------------------------------------------------------------------
(* The theorems.                                                           *)

\* The inductive invariant: a flag that is set, and a thread that is about to
\* raise the alarm, belong to a plugin whose last turn found a resize.
THEOREM Invariance == Safety => []IInv
  BY InitInvariant, NextInvariant, PTL DEF Safety

\* The alarm is up only while some plugin's last turn did not find the node
\* NORMAL, whatever timer threads earlier triggers and cancels have left behind.
THEOREM AlarmHasCauseHolds == Safety => []AlarmHasCause
<1>1. IInv => AlarmHasCause
  BY DEF IInv
<1> QED BY <1>1, Invariance, PTL

==============================================================================
