----------------------------- MODULE ClusterSync -----------------------------
(***************************************************************************)
(* clearwater-cluster-manager's EtcdSynchronizer, thread by thread. Each   *)
(* node runs a synchronizer thread (main) that reads the cluster view from *)
(* etcd, waits for it to change, lets the FSM and the plugin decide, and   *)
(* writes the view back with a compare-and-swap; on SIGQUIT the process's  *)
(* main thread runs leave_cluster on the same object.                      *)
(*                                                                         *)
(* Between a thread's read and its write anything may happen: other nodes  *)
(* write, the etcd client raises, the process dies. ClusterProtocol is     *)
(* what all of this is meant to add up to.                                 *)
(*                                                                         *)
(* Of an etcd index the code only ever asks whether it still is the key's  *)
(* modifiedIndex, and etcd never uses one twice. So an index held by a     *)
(* thread is "current" until the key is next written, then "stale" for     *)
(* ever; None is "none".                                                   *)
(***************************************************************************)
EXTENDS ClusterStates, Naturals

CONSTANTS
  Nodes,          \* the nodes that may ever be members of the cluster
  Quitters,       \* the nodes an operator may decommission
  PreemptHandler, \* may main run between the steps of leave_cluster?
  QuitAgain,      \* may SIGQUIT come to a node that is leaving, or has left?
  PluginsFail,    \* may hooks other than on_leaving_cluster raise?
  MaxRequests,    \* bound on the SIGQUITs of a behaviour
  MaxFaults,      \* bound on failed nodes, restarts and abandoned departures
  MaxGlitches     \* bound on exceptions of the etcd client and of plugins

ASSUME ConstantsAssumption ==
  /\ Quitters \subseteq Nodes
  /\ {PreemptHandler, QuitAgain, PluginsFail} \subseteq BOOLEAN
  /\ {MaxRequests, MaxFaults, MaxGlitches} \subseteq Nat

VARIABLES
  view,     \* the value of the key in etcd
  created,  \* whether the key exists in etcd
  pc,       \* pc[n]: where n's synchronizer thread is
  last,     \* last[n]: _last_value
  index,    \* index[n]: _index
  event,    \* event[n]: while n watches, the first change since its read
  turn,     \* turn[n]: what n is doing with the value it read
  worked,   \* worked[n]: the last hook n completed, until a write of n succeeds
  fsm,      \* fsm[n]: "running", "departing" (hook done, entry not deleted yet)
            \* or "stopped"
  force,    \* force[n]: force_leave; n's FSM is run by mark_node_failed
  leaving,  \* leaving[n]: _leaving_requested
  handler,  \* handler[n]: the progress of leave_cluster
  synced,   \* the nodes that resynchronised since the last resize started
  requests, faults, glitches  \* how much of each bound is used

syncVars == <<pc, last, index, event, turn, worked, fsm>>
leaveVars == <<force, leaving, handler>>
budgets == <<requests, faults, glitches>>
vars == <<view, created, syncVars, leaveVars, synced, budgets>>

NoView == <<>>  \* None where a view could be
NoEvent == [view |-> NoView, index |-> "none"]
NoTurn == [info |-> NoView, new |-> NO_CHANGE, att |-> "none", hook |-> "none"]
Idle == [pc |-> "idle", info |-> NoView, att |-> "none"]

Views == [Nodes -> LocalStates]
Indices == {"none", "current", "stale"}
Aged(i) == IF i = "current" THEN "stale" ELSE i

TypeOK ==
  /\ view \in Views /\ created \in BOOLEAN
  /\ pc \in [Nodes -> {"read", "create", "watch", "hook", "write", "reread",
                       "dead", "done"}]
  /\ last \in [Nodes -> Views \cup {NoView}] /\ index \in [Nodes -> Indices]
  /\ event \in [Nodes -> [view : Views \cup {NoView}, index : Indices]]
  /\ turn \in [Nodes -> [info : Views \cup {NoView}, att : Indices, hook : Hooks,
                         new : NodeStates \cup {NO_CHANGE, DELETE_ME, ALL_JOINING,
                                               ALL_LEAVING}]]
  /\ worked \in [Nodes -> Hooks]
  /\ fsm \in [Nodes -> {"running", "departing", "stopped"}]
  /\ force \in [Nodes -> BOOLEAN] /\ leaving \in [Nodes -> BOOLEAN]
  /\ handler \in [Nodes -> [info : Views \cup {NoView}, att : Indices,
                            pc : {"idle", "called", "create", "decide", "write",
                                  "reread"}]]
  /\ synced \subseteq Nodes
  /\ requests \in 0..MaxRequests /\ faults \in 0..MaxFaults
  /\ glitches \in 0..MaxGlitches

Init ==
  /\ view = [n \in Nodes |-> ABSENT] /\ created = FALSE
  /\ pc = [n \in Nodes |-> "read"]
  /\ last = [n \in Nodes |-> NoView]
  /\ index = [n \in Nodes |-> "none"]
  /\ event = [n \in Nodes |-> NoEvent]
  /\ turn = [n \in Nodes |-> NoTurn]
  /\ worked = [n \in Nodes |-> "none"]
  /\ fsm = [n \in Nodes |-> "running"]
  /\ force = [n \in Nodes |-> FALSE]
  /\ leaving = [n \in Nodes |-> FALSE]
  /\ handler = [n \in Nodes |-> Idle]
  /\ synced = {}
  /\ requests = 0 /\ faults = 0 /\ glitches = 0

------------------------------------------------------------------------------
(* etcd.                                                                   *)

\* The key takes a new value: every index held anywhere is out of date, and the
\* first change after its read is what a watch will return. ownturn and
\* ownhandler are turn and handler with the writing thread's own part done.
Publish(newview, ownturn, ownhandler) ==
  /\ view' = newview
  /\ index' = [m \in Nodes |-> Aged(index[m])]
  /\ event' = [m \in Nodes |->
                 IF pc[m] # "watch" THEN NoEvent
                 ELSE IF event[m] = NoEvent
                   THEN [view |-> newview, index |-> "current"]
                 ELSE [event[m] EXCEPT !.index = "stale"]]
  /\ turn' = [m \in Nodes |-> [ownturn[m] EXCEPT !.att = Aged(@)]]
  /\ handler' = [m \in Nodes |-> [ownhandler[m] EXCEPT !.att = Aged(@)]]

\* The view that write_to_etcd writes for a new state of node n.
Updated(v, n, new) ==
  IF new = ALL_JOINING THEN SwitchAll(v, WAITING_TO_JOIN, JOINING)
  ELSE IF new = ALL_LEAVING THEN SwitchAll(v, WAITING_TO_LEAVE, LEAVING)
  ELSE [v EXCEPT ![n] = IF new = DELETE_ME THEN ABSENT ELSE new]

\* What a successful write means for who has resynchronised.
SyncedAfter(n, new) ==
  IF new \in {ALL_JOINING, ALL_LEAVING} THEN {}
  ELSE IF new \in {NORMAL, FINISHED} THEN synced \cup {n}
  ELSE synced

------------------------------------------------------------------------------
(* The synchronizer thread: main, update_from_etcd, SyncFSM.next,          *)
(* write_to_etcd.                                                          *)

\* Mutant of ResetLast: a failed node remembers what it has not dealt with.
KeepLast(n) == UNCHANGED last

\* _last_value is unset: the next read is news, whatever it returns.
ResetLast(n) == last' = [last EXCEPT ![n] = NoView]

\* n's synchronizer thread may take a step.
Runs(n, where) ==
  /\ pc[n] = where
  /\ PreemptHandler \/ handler[n].pc \in {"idle", "called"}

\* What main and SyncFSM.next make of view v: at most one <<hook, new state>>.
Moves(n, v) ==
  LET cluster == ClusterState(v) IN
  IF leaving[n] /\ v[n] # WAITING_TO_LEAVE /\ CanLeave(cluster, force[n])
    THEN {<<"none", WAITING_TO_LEAVE>>}
  ELSE IF v[n] = ABSENT
    THEN IF Joinable(cluster) THEN {<<"none", WAITING_TO_JOIN>>} ELSE {}
  ELSE {<<row[3], row[4]>> : row \in FsmRows(cluster, v[n])}

\* read_from_etcd returned (v, i): remember it, and let the FSM loose on it.
Take(n, v, i) ==
  /\ last' = [last EXCEPT ![n] = v]
  /\ index' = [index EXCEPT ![n] = i]
  /\ event' = [event EXCEPT ![n] = NoEvent]
  /\ \/ /\ Moves(n, v) = {}
        /\ pc' = [pc EXCEPT ![n] = "read"]
        /\ UNCHANGED turn
     \/ \E move \in Moves(n, v) :
          /\ turn' = [turn EXCEPT ![n] = [info |-> v, new |-> move[2],
                                          att |-> i, hook |-> move[1]]]
          /\ pc' = [pc EXCEPT ![n] = IF move[1] = "none" THEN "write" ELSE "hook"]
  /\ UNCHANGED <<view, created, worked, fsm, leaveVars, synced>>

\* The quorum read: a new value is returned at once, a known one is watched.
Read(n) ==
  /\ Runs(n, "read") /\ created
  /\ view # last[n]
  /\ Take(n, view, "current")
  /\ UNCHANGED budgets

StartWatch(n) ==
  /\ Runs(n, "read") /\ created
  /\ view = last[n]
  /\ pc' = [pc EXCEPT ![n] = "watch"]
  /\ UNCHANGED <<view, created, last, index, event, turn, worked, fsm, leaveVars,
                 synced, budgets>>

\* Mutant of WatchReturns: the index that is kept is the key's newest.
WatchReturnsIndex(n) ==
  /\ Runs(n, "watch")
  /\ event[n] # NoEvent
  /\ Take(n, event[n].view, "current")
  /\ UNCHANGED budgets

\* The watch returns the first change since the read, however old it is by now.
WatchReturns(n) ==
  /\ Runs(n, "watch")
  /\ event[n] # NoEvent
  /\ Take(n, event[n].view, event[n].index)
  /\ UNCHANGED budgets

\* There is no key yet: try to create it with the default value. In the empty
\* view it then has, the node decides to join.
ReadMissing(n) ==
  /\ Runs(n, "read") /\ ~created
  /\ pc' = [pc EXCEPT ![n] = "create"]
  /\ UNCHANGED <<view, created, last, index, event, turn, worked, fsm, leaveVars,
                 synced, budgets>>

CreateKey(n) ==
  /\ Runs(n, "create") /\ ~created
  /\ LET empty == [m \in Nodes |-> ABSENT] IN
     /\ view' = empty /\ created' = TRUE
     /\ last' = [last EXCEPT ![n] = empty]
     /\ index' = [index EXCEPT ![n] = "none"]
     /\ turn' = [turn EXCEPT ![n] = [info |-> empty, new |-> WAITING_TO_JOIN,
                                     att |-> "none", hook |-> "none"]]
  /\ pc' = [pc EXCEPT ![n] = "write"]
  /\ UNCHANGED <<event, worked, fsm, leaveVars, synced, budgets>>

CreateFails(n) ==
  /\ Runs(n, "create") /\ created
  /\ ResetLast(n)
  /\ index' = [index EXCEPT ![n] = "none"]
  /\ pc' = [pc EXCEPT ![n] = "read"]
  /\ UNCHANGED <<view, created, event, turn, worked, fsm, leaveVars, synced, budgets>>

\* The plugin's hook returns. After on_leaving_cluster the FSM is over.
HookReturns(n) ==
  /\ Runs(n, "hook")
  /\ worked' = [worked EXCEPT ![n] = turn[n].hook]
  /\ fsm' = [fsm EXCEPT ![n] = IF turn[n].new = DELETE_ME THEN "departing" ELSE @]
  /\ IF turn[n].new = NO_CHANGE
       THEN /\ pc' = [pc EXCEPT ![n] = "read"]
            /\ turn' = [turn EXCEPT ![n] = NoTurn]
       ELSE /\ pc' = [pc EXCEPT ![n] = "write"]
            /\ turn' = [turn EXCEPT ![n].hook = "none"]
  /\ UNCHANGED <<view, created, last, index, event, leaveVars, synced, budgets>>

\* main goes round its loop, or ends if the FSM has stopped.
AfterTurn(n) == IF fsm[n] = "departing" THEN "done" ELSE "read"

\* The compare-and-swap succeeds: only with the key's own modifiedIndex.
Write(n) ==
  /\ Runs(n, "write")
  /\ turn[n].att = "current"
  /\ LET new == turn[n].new IN
     /\ Publish(Updated(turn[n].info, n, new), [turn EXCEPT ![n] = NoTurn], handler)
     /\ synced' = SyncedAfter(n, new)
     /\ leaving' = [leaving EXCEPT ![n] = @ /\ new # WAITING_TO_LEAVE]
  /\ worked' = [worked EXCEPT ![n] = "none"]
  /\ fsm' = [fsm EXCEPT ![n] = IF @ = "departing" THEN "stopped" ELSE @]
  /\ pc' = [pc EXCEPT ![n] = AfterTurn(n)]
  /\ UNCHANGED <<created, last, force, budgets>>

\* Someone else got there first. A new view of the whole cluster is given up, a
\* new state of this node may be worth another try.
WriteContended(n) ==
  /\ Runs(n, "write")
  /\ turn[n].att # "current"
  /\ IF turn[n].new \in {ALL_JOINING, ALL_LEAVING}
       THEN /\ pc' = [pc EXCEPT ![n] = "read"]
            /\ turn' = [turn EXCEPT ![n] = NoTurn]
       ELSE /\ pc' = [pc EXCEPT ![n] = "reread"]
            /\ UNCHANGED turn
  /\ UNCHANGED <<view, created, last, index, event, worked, fsm, leaveVars, synced,
                 budgets>>

\* Mutant of MayRetry: whatever the cluster has become.
RetryInAnyCluster(n, old, v, new) ==
  new \in {ERROR, DELETE_ME} \/ v[n] = old[n]

\* May the state `new`, decided on view old, be written into view v instead?
MayRetry(n, old, v, new) ==
  \/ new \in {ERROR, DELETE_ME}
  \/ /\ v[n] = old[n]
     /\ ClusterState(v) = ClusterState(old)

\* Mutant of Reread: a contended write is never retried.
GiveUpWrite(n) ==
  /\ Runs(n, "reread")
  /\ turn' = [turn EXCEPT ![n] = NoTurn]
  /\ pc' = [pc EXCEPT ![n] = "read"]
  /\ UNCHANGED <<view, created, last, index, event, worked, fsm, leaveVars, synced,
                 budgets>>

\* Mutant of Reread: the retry takes the new index, and the old view.
RereadIndex(n) ==
  /\ Runs(n, "reread")
  /\ IF MayRetry(n, turn[n].info, view, turn[n].new)
       THEN /\ turn' = [turn EXCEPT ![n].att = "current"]
            /\ pc' = [pc EXCEPT ![n] = "write"]
       ELSE /\ turn' = [turn EXCEPT ![n] = NoTurn]
            /\ pc' = [pc EXCEPT ![n] = "read"]
  /\ UNCHANGED <<view, created, last, index, event, worked, fsm, leaveVars, synced,
                 budgets>>

Reread(n) ==
  /\ Runs(n, "reread")
  /\ IF MayRetry(n, turn[n].info, view, turn[n].new)
       THEN /\ turn' = [turn EXCEPT ![n].info = view, ![n].att = "current"]
            /\ pc' = [pc EXCEPT ![n] = "write"]
       ELSE /\ turn' = [turn EXCEPT ![n] = NoTurn]
            /\ pc' = [pc EXCEPT ![n] = "read"]
  /\ UNCHANGED <<view, created, last, index, event, worked, fsm, leaveVars, synced,
                 budgets>>

------------------------------------------------------------------------------
(* leave_cluster, on the process's main thread.                            *)

Leaving == {WAITING_TO_LEAVE, LEAVING, LEAVING_ACKNOWLEDGED_CHANGE,
            LEAVING_CONFIG_CHANGED, FINISHED}

\* SIGQUIT. The process outlives this synchronizer while those of other plugins
\* run.
Quit(n) ==
  /\ n \in Quitters /\ handler[n].pc = "idle"
  /\ pc[n] # "dead" /\ ~force[n]
  /\ QuitAgain \/ (fsm[n] = "running" /\ ~leaving[n] /\ view[n] \notin Leaving)
  /\ requests < MaxRequests
  /\ requests' = requests + 1
  /\ handler' = [handler EXCEPT ![n].pc = "called"]
  /\ UNCHANGED <<view, created, syncVars, force, leaving, synced, faults, glitches>>

Handles(n, where) == handler[n].pc = where /\ pc[n] # "dead"

\* Its own read of the view. The index that comes with it is dropped.
HandlerRead(n) ==
  /\ Handles(n, "called") /\ created
  /\ handler' = [handler EXCEPT ![n].pc = "decide", ![n].info = view]
  /\ UNCHANGED <<view, created, syncVars, force, leaving, synced, budgets>>

\* There is no key yet: leave_cluster, too, tries to create it.
HandlerReadMissing(n) ==
  /\ Handles(n, "called") /\ ~created
  /\ handler' = [handler EXCEPT ![n].pc = "create"]
  /\ UNCHANGED <<view, created, syncVars, force, leaving, synced, budgets>>

\* Whether it succeeds or somebody else did, it goes on with an empty view, which
\* cannot be left: only the flag is set.
HandlerCreate(n) ==
  /\ Handles(n, "create")
  /\ created' = TRUE
  /\ leaving' = [leaving EXCEPT ![n] = TRUE]
  /\ handler' = [handler EXCEPT ![n] = Idle]
  /\ UNCHANGED <<view, syncVars, force, synced, budgets>>

\* Set the flag. If the view that was read allows it, write at once, with the
\* index that the synchronizer thread has by now; else leave it to main.
HandlerDecide(n) ==
  /\ Handles(n, "decide")
  /\ leaving' = [leaving EXCEPT ![n] = TRUE]
  /\ handler' = [handler EXCEPT ![n] =
                   IF CanLeave(ClusterState(handler[n].info), force[n])
                   THEN [pc |-> "write", info |-> handler[n].info, att |-> index[n]]
                   ELSE Idle]
  /\ UNCHANGED <<view, created, syncVars, force, synced, budgets>>

HandlerWrite(n) ==
  /\ Handles(n, "write")
  /\ handler[n].att = "current"
  /\ Publish(Updated(handler[n].info, n, WAITING_TO_LEAVE), turn,
             [handler EXCEPT ![n] = Idle])
  /\ leaving' = [leaving EXCEPT ![n] = FALSE]
  /\ UNCHANGED <<created, pc, last, worked, fsm, force, synced, budgets>>

HandlerContended(n) ==
  /\ Handles(n, "write")
  /\ handler[n].att # "current"
  /\ handler' = [handler EXCEPT ![n].pc = "reread"]
  /\ UNCHANGED <<view, created, syncVars, force, leaving, synced, budgets>>

HandlerReread(n) ==
  /\ Handles(n, "reread")
  /\ handler' = [handler EXCEPT ![n] =
                   IF MayRetry(n, handler[n].info, view, WAITING_TO_LEAVE)
                   THEN [pc |-> "write", info |-> view, att |-> "current"] ELSE Idle]
  /\ UNCHANGED <<view, created, syncVars, force, leaving, synced, budgets>>

------------------------------------------------------------------------------
(* Exceptions.                                                             *)

Glitch == glitches < MaxGlitches /\ glitches' = glitches + 1

\* The first read raises: (None, None).
ReadRaises(n) ==
  /\ Runs(n, "read") /\ Glitch
  /\ ResetLast(n)
  /\ index' = [index EXCEPT ![n] = "none"]
  /\ UNCHANGED <<view, created, pc, event, turn, worked, fsm, leaveVars, synced,
                 requests, faults>>

\* The watch raises: the result of the read before it is returned, and the FSM
\* runs again on the value it knows.
WatchRaises(n) ==
  /\ Runs(n, "watch") /\ Glitch
  /\ Take(n, last[n], IF event[n] = NoEvent THEN "current" ELSE "stale")
  /\ UNCHANGED <<requests, faults>>

\* A hook raises: the node stays as it is until the view changes.
HookRaises(n) ==
  /\ PluginsFail /\ Runs(n, "hook") /\ Glitch
  /\ turn[n].new # DELETE_ME
  /\ turn' = [turn EXCEPT ![n] = NoTurn]
  /\ pc' = [pc EXCEPT ![n] = "read"]
  /\ UNCHANGED <<view, created, last, index, event, worked, fsm, leaveVars, synced,
                 requests, faults>>

\* The write raises, after etcd has applied it or before: _last_value is reset,
\* which makes the next read run the FSM again.
WriteRaises(n, applied) ==
  /\ Runs(n, "write") /\ Glitch
  /\ applied => turn[n].att = "current"
  /\ applied \/ fsm[n] # "departing"
  /\ IF applied
       THEN /\ Publish(Updated(turn[n].info, n, turn[n].new),
                       [turn EXCEPT ![n] = NoTurn], handler)
            /\ synced' = SyncedAfter(n, turn[n].new)
       ELSE /\ turn' = [turn EXCEPT ![n] = NoTurn]
            /\ UNCHANGED <<view, index, event, handler, synced>>
  /\ ResetLast(n)
  /\ worked' = [worked EXCEPT ![n] = IF applied THEN "none" ELSE @]
  /\ fsm' = [fsm EXCEPT ![n] = IF @ = "departing" THEN "stopped" ELSE @]
  /\ pc' = [pc EXCEPT ![n] = AfterTurn(n)]
  /\ UNCHANGED <<created, force, leaving, requests, faults>>

\* The read before a retry raises: compared with an empty view.
RereadRaises(n) ==
  /\ Runs(n, "reread") /\ Glitch
  /\ fsm[n] # "departing"
  /\ IF turn[n].info = [m \in Nodes |-> ABSENT]
       THEN /\ turn' = [turn EXCEPT ![n].att = index[n]]
            /\ pc' = [pc EXCEPT ![n] = "write"]
       ELSE /\ turn' = [turn EXCEPT ![n] = NoTurn]
            /\ pc' = [pc EXCEPT ![n] = "read"]
  /\ UNCHANGED <<view, created, last, index, event, worked, fsm, leaveVars, synced,
                 requests, faults>>

\* The creation raises, after etcd has applied it or before: (None, None) again.
CreateRaises(n) ==
  /\ Runs(n, "create") /\ ~created /\ Glitch
  /\ created' \in BOOLEAN
  /\ ResetLast(n)
  /\ index' = [index EXCEPT ![n] = "none"]
  /\ pc' = [pc EXCEPT ![n] = "read"]
  /\ UNCHANGED <<view, event, turn, worked, fsm, leaveVars, synced, requests, faults>>

\* leave_cluster's read raises, or its creation of the key does (applied or not): an
\* empty view cannot be left, the flag is set.
HandlerReadRaises(n) ==
  /\ Handles(n, "called") \/ Handles(n, "create")
  /\ Glitch
  /\ created' \in IF handler[n].pc = "create" THEN {created, TRUE} ELSE {created}
  /\ leaving' = [leaving EXCEPT ![n] = TRUE]
  /\ handler' = [handler EXCEPT ![n] = Idle]
  /\ UNCHANGED <<view, syncVars, force, synced, requests, faults>>

\* Its write raises, after etcd has applied it or before. The flag stays set, and
\* main's _last_value is reset: too late, if main is watching by now.
HandlerWriteRaises(n, applied) ==
  /\ Handles(n, "write") /\ Glitch
  /\ applied => handler[n].att = "current"
  /\ IF applied
       THEN Publish(Updated(handler[n].info, n, WAITING_TO_LEAVE), turn,
                    [handler EXCEPT ![n] = Idle])
       ELSE /\ handler' = [handler EXCEPT ![n] = Idle]
            /\ UNCHANGED <<view, index, event, turn>>
  /\ IF pc[n] = "watch" THEN UNCHANGED last ELSE ResetLast(n)
  /\ UNCHANGED <<created, pc, worked, fsm, force, leaving, synced, requests, faults>>

\* The read before its retry raises: an empty view cannot be left, it gives up.
HandlerRereadRaises(n) ==
  /\ Handles(n, "reread") /\ Glitch
  /\ handler' = [handler EXCEPT ![n] = Idle]
  /\ UNCHANGED <<view, created, syncVars, force, leaving, synced, requests, faults>>

------------------------------------------------------------------------------
(* Faults: what the process of a node, or the node itself, can suffer.     *)

Fault == faults < MaxFaults /\ faults' = faults + 1

\* A new process (or, for a failed node, the script's synchronizer) starts for
\* node n: nothing in memory survives.
Fresh(n) ==
  /\ pc' = [pc EXCEPT ![n] = "read"]
  /\ fsm' = [fsm EXCEPT ![n] = "running"]
  /\ leaving' = [leaving EXCEPT ![n] = FALSE]
  /\ last' = [last EXCEPT ![n] = NoView]
  /\ index' = [index EXCEPT ![n] = "none"]
  /\ event' = [event EXCEPT ![n] = NoEvent]
  /\ turn' = [turn EXCEPT ![n] = NoTurn]
  /\ worked' = [worked EXCEPT ![n] = "none"]

\* The process dies and is restarted. (So does the process whose read before the
\* retry of a DELETE_ME raises: deleting its entry from an empty view raises too.)
Restart(n) ==
  /\ Fault
  /\ Fresh(n)
  /\ force' = [force EXCEPT ![n] = FALSE]
  /\ handler' = [handler EXCEPT ![n] = Idle]
  /\ UNCHANGED <<view, created, synced, requests, glitches>>

\* The node has died, and an operator has it marked ERROR: the read and the
\* compare-and-swap of mark_node_failed retry whatever the view has become.
MarkFailed(n) ==
  /\ view[n] # ABSENT
  /\ Fault
  /\ Publish([view EXCEPT ![n] = ERROR], [turn EXCEPT ![n] = NoTurn],
             handler)
  /\ pc' = [pc EXCEPT ![n] = "dead"]
  /\ last' = [last EXCEPT ![n] = NoView]
  /\ worked' = [worked EXCEPT ![n] = "none"]
  /\ UNCHANGED <<created, fsm, force, leaving, synced, requests, glitches>>

\* The script goes on: it starts the synchronizer thread and calls leave_cluster
\* on it, with force_leave.
TakeOver(n) ==
  /\ pc[n] = "dead"
  /\ Fresh(n)
  /\ force' = [force EXCEPT ![n] = TRUE]
  /\ handler' = [handler EXCEPT ![n] = [Idle EXCEPT !.pc = "called"]]
  /\ UNCHANGED <<view, created, synced, budgets>>

\* on_leaving_cluster raises, or the DELETE_ME write raises without having been
\* applied: the FSM is not running any more, so main ends, and nothing retries.
StopEarly(n) ==
  /\ \/ Runs(n, "hook") /\ turn[n].new = DELETE_ME
     \/ Runs(n, "write") /\ fsm[n] = "departing"
  /\ Fault
  /\ turn' = [turn EXCEPT ![n] = NoTurn]
  /\ pc' = [pc EXCEPT ![n] = "done"]
  /\ fsm' = [fsm EXCEPT ![n] = "stopped"]
  /\ UNCHANGED <<view, created, last, index, event, worked, leaveVars, synced,
                 requests, glitches>>

------------------------------------------------------------------------------
Main(n) ==
  \/ Read(n) \/ StartWatch(n) \/ WatchReturns(n) \/ ReadMissing(n) \/ CreateKey(n)
  \/ CreateFails(n) \/ HookReturns(n) \/ Write(n) \/ WriteContended(n) \/ Reread(n)

LeaveCluster(n) ==
  \/ HandlerRead(n) \/ HandlerReadMissing(n) \/ HandlerCreate(n) \/ HandlerDecide(n)
  \/ HandlerWrite(n) \/ HandlerContended(n) \/ HandlerReread(n)

Raises(n) ==
  \/ ReadRaises(n) \/ WatchRaises(n) \/ CreateRaises(n) \/ HookRaises(n)
  \/ RereadRaises(n) \/ HandlerReadRaises(n) \/ HandlerRereadRaises(n)
  \/ \E applied \in BOOLEAN : WriteRaises(n, applied) \/ HandlerWriteRaises(n, applied)

Suffers(n) == Restart(n) \/ MarkFailed(n) \/ StopEarly(n)

Next ==
  \E n \in Nodes :
    Main(n) \/ LeaveCluster(n) \/ Quit(n) \/ TakeOver(n) \/ Raises(n) \/ Suffers(n)

Safety == Init /\ [][Next]_vars

\* Threads keep being scheduled and hooks return; the mark_node_failed script
\* carries on. A watch that only times out is no step.
Fairness ==
  \A n \in Nodes : /\ WF_vars(Main(n))
                   /\ WF_vars(LeaveCluster(n) \/ TakeOver(n))

Spec == Safety /\ Fairness

------------------------------------------------------------------------------
(* Correctness.                                                            *)

\* What the synchronizers add up to: a request to leave is pending from the
\* signal on, until the flag is cleared.
Pending(n) == leaving[n] \/ handler[n].pc \in {"called", "create", "decide"}

Abstract == INSTANCE ClusterProtocol WITH
  leaving <- [n \in Nodes |-> IF ~Pending(n) THEN "no"
                              ELSE IF force[n] THEN "forced" ELSE "graceful"]

\* Why. Whatever the threads do, nothing is decided, let alone written, before the key
\* exists.
BeforeCreation ==
  ~created => /\ view = [m \in Nodes |-> ABSENT]
              /\ \A n \in Nodes : /\ pc[n] \in {"read", "create"}
                                  /\ handler[n].pc \in {"idle", "called", "create"}

\* A decision that is to be written is the one for the view it was made on, or is
\* retried in: and with the current index, that is the view in etcd.
Decided(n, v, new) ==
  \/ new = WAITING_TO_LEAVE /\ CanLeave(ClusterState(v), force[n])
  \/ new = WAITING_TO_JOIN /\ v[n] = ABSENT /\ Joinable(ClusterState(v))
  \/ \E row \in FsmRows(ClusterState(v), v[n]) : row[4] = new

Decides(n) ==
  /\ pc[n] = "hook" =>
       /\ turn[n].hook # "none"
       /\ \E row \in FsmRows(ClusterState(turn[n].info), turn[n].info[n]) :
            turn[n].hook = row[3] /\ turn[n].new = row[4]
  /\ pc[n] \in {"write", "reread"} =>
       /\ turn[n].new # NO_CHANGE
       /\ turn[n].new = DELETE_ME \/ Decided(n, turn[n].info, turn[n].new)
  /\ pc[n] \in {"hook", "write", "reread"} =>
       (index[n] = "current" \/ (turn[n].att = "current" /\ pc[n] # "reread")
          => turn[n].info = view)
  /\ event[n].index = "current" => event[n].view = view
  /\ pc[n] \notin {"watch", "dead"} => event[n] = NoEvent
  /\ pc[n] = "watch" /\ event[n] = NoEvent => last[n] = view
  /\ handler[n].pc \in {"write", "reread"} =>
       CanLeave(ClusterState(handler[n].info), force[n])

\* Where main and leave_cluster take turns, the FSM runs until the last hook has
\* returned, and nobody touches the entry of a node that is about to delete it, or
\* has died.
Stops(n) ==
  /\ pc[n] \in {"read", "create", "watch", "hook"} => fsm[n] = "running"
  /\ pc[n] \in {"write", "reread"} =>
       fsm[n] = IF turn[n].new = DELETE_ME THEN "departing" ELSE "running"
  /\ pc[n] = "done" => fsm[n] = "stopped"
  /\ pc[n] = "dead" => view[n] = ERROR
  /\ fsm[n] = "departing" /\ pc[n] # "dead" => view[n] = FINISHED

\* leave_cluster goes on from the view that it has read; main does not write for a
\* request what leave_cluster has written already.
Asks(n) ==
  /\ handler[n].pc \in {"called", "create", "decide"} =>
       QuitAgain \/ (fsm[n] = "running" /\ ~leaving[n] /\ view[n] \notin Leaving)
  /\ handler[n].pc \in {"write", "reread"} =>
       leaving[n] /\ (QuitAgain \/ fsm[n] = "running")
  /\ handler[n].pc = "decide" /\ index[n] = "current" => handler[n].info = view
  /\ handler[n].pc = "write" /\ handler[n].att = "current" => handler[n].info = view
  /\ pc[n] \in {"write", "reread"} /\ turn[n].new = WAITING_TO_LEAVE =>
       /\ turn[n].info[n] \notin Leaving
       /\ leaving[n] \/ view[n] \in Leaving

\* With all their stale reads, contended writes, exceptions, restarts and
\* departures cut short, the synchronizers only ever take the atomic steps of
\* ClusterProtocol (write_to_etcd's retry at etcd_synchronizer.py:150-168 never
\* writes a state that a fresh reading of the view would not have led to).
Implements == Abstract!Safety

Acknowledged == {NORMAL_ACKNOWLEDGED_CHANGE, JOINING_ACKNOWLEDGED_CHANGE,
                 LEAVING_ACKNOWLEDGED_CHANGE}
ConfigChanged == {NORMAL_CONFIG_CHANGED, JOINING_CONFIG_CHANGED,
                  LEAVING_CONFIG_CHANGED}

\* While a plugin works the cluster does not move on under it, though the view
\* the hook was given may be old: nobody resynchronises before every live
\* member's on_cluster_changing has returned, configuration does not change while
\* someone still resynchronises, and what on_stable_cluster writes is never
\* mixed with a changed configuration (plugin_base.py:42-110).
HooksInPhase ==
  \A n \in Nodes : pc[n] = "hook" =>
    CASE turn[n].hook \in {"on_cluster_changing", "on_joining_cluster"} ->
           Live(view) \subseteq Acknowledged \cup ConfigChanged
      [] turn[n].hook = "on_new_cluster_config_ready" ->
           Live(view) \subseteq ConfigChanged \cup {NORMAL, FINISHED}
      [] turn[n].hook = "on_leaving_cluster" ->
           Live(view) \subseteq {NORMAL, FINISHED}
      [] turn[n].hook = "on_stable_cluster" ->
           Live(view) \cap (ConfigChanged \cup {FINISHED}) = {}

\* ... because the node itself, whose entry is as it was, holds it up; and did
\* before the hook was called, while it watched.
Acting(v, n, hook, new) ==
  \/ /\ hook \in {"on_cluster_changing", "on_joining_cluster"} /\ new \in ConfigChanged
     /\ v[n] \in Acknowledged /\ Live(v) \subseteq Acknowledged \cup ConfigChanged
  \/ /\ hook = "on_new_cluster_config_ready" /\ new \in {NORMAL, FINISHED}
     /\ v[n] \in ConfigChanged /\ Live(v) \subseteq ConfigChanged \cup {NORMAL, FINISHED}
  \/ /\ hook = "on_leaving_cluster" /\ new = DELETE_ME
     /\ v[n] = FINISHED /\ Live(v) \subseteq {NORMAL, FINISHED}
  \/ /\ hook = "on_stable_cluster" /\ new = NO_CHANGE
     /\ v[n] \in {NORMAL, WAITING_TO_LEAVE, LEAVING}
     /\ Live(v) \cap (ConfigChanged \cup {FINISHED}) = {}

Acts(n) ==
  /\ pc[n] = "hook" => Acting(view, n, turn[n].hook, turn[n].new)
  /\ pc[n] = "watch" =>
       \A v \in {last[n], event[n].view} \ {NoView} :
         \A row \in FsmRows(ClusterState(v), v[n]) :
           row[3] = "none" \/ Acting(view, n, row[3], row[4])

\* As long as nothing fails: a piece of work that was due to n in a view that n goes by
\* is due still, or the resize has been called off (by a leave_cluster that was
\* overtaken and writes an old view back); and what n has completed is about to be
\* written, or was for a resize that was called off.
InWork == Acknowledged \cup ConfigChanged

AtWork(v, n) ==
  \/ /\ v[n] \in Acknowledged
     /\ ClusterState(v) \in {JOINING_CONFIG_CHANGING, LEAVING_CONFIG_CHANGING}
  \/ /\ v[n] \in ConfigChanged
     /\ ClusterState(v) \in {JOINING_RESYNCING, LEAVING_RESYNCING}

StillDue(v, w, n) ==
  AtWork(v, n) => w[n] \notin InWork \/ (w[n] = v[n] /\ ClusterState(w) = ClusterState(v))

GoesBy(n) ==
  (IF pc[n] = "watch" THEN {event[n].view}
   ELSE IF pc[n] \in {"hook", "write", "reread"} THEN {turn[n].info} ELSE {}) \ {NoView}

\* Nobody changes configuration beside a node that has left, entry or not.
Deletes(n) ==
  \/ pc[n] \in {"hook", "write", "reread"} /\ turn[n].new = DELETE_ME
  \/ pc[n] = "watch" /\ \E v \in GoesBy(n) : \E row \in FsmRows(ClusterState(v), v[n]) :
                             row[4] = DELETE_ME

LeftBehind(v, n) ==
  \/ v[n] \in {ABSENT, ERROR}
  \/ /\ v[n] \in {NORMAL, WAITING_TO_LEAVE, LEAVING, FINISHED}
     /\ Live(v) \cap ConfigChanged = {}

Completed(n) ==
  \/ pc[n] \in {"write", "reread"} /\ turn[n].new = DELETE_ME
  \/ /\ worked[n] # "on_leaving_cluster"
     /\ \/ pc[n] \in {"write", "reread"} /\ AtWork(turn[n].info, n)
        \/ \A v \in GoesBy(n) \cup {view} : v[n] \notin InWork

Works(n) ==
  /\ pc[n] # "dead"
  /\ \A v \in GoesBy(n) : StillDue(v, view, n)
  /\ Deletes(n) => LeftBehind(view, n)
  /\ worked[n] \in {"none", "on_stable_cluster"} \/ Completed(n)

Knows == TypeOK /\ BeforeCreation /\ \A n \in Nodes : Decides(n)
Orderly == PreemptHandler \/ \A n \in Nodes : Stops(n) /\ Asks(n) /\ Acts(n)
Unfailing == faults = 0 /\ glitches = 0 => \A n \in Nodes : Works(n)

\* And the live members are always in one phase of a resize: even a leave_cluster that
\* was overtaken writes an old view in which no resize had begun.
IInv == Knows /\ Orderly /\ Unfailing /\ Abstract!InPhase

\* Contention alone never makes a node repeat a piece of work it has completed
\* (the test plugin contention_detecting_plugin.py:36-58 asserts it): the write
\* is retried without calling the hook again.
NoRepeatedWork ==
  faults = 0 /\ glitches = 0 =>
    \A n \in Nodes : pc[n] = "hook" /\ turn[n].hook # "on_stable_cluster"
                       => worked[n] # turn[n].hook

\* A state that a node writes for itself changes its own entry of the view and
\* no other; only a resize that starts moves several (etcd_synchronizer.py:
\* 122-124: "If new_state is a string then it refers to the new state of the
\* local node.").
OwnEntryOnly ==
  [][\/ \E n \in Nodes : \A m \in Nodes \ {n} : view'[m] = view[m]
     \/ view' = SwitchAll(view, WAITING_TO_JOIN, JOINING)
     \/ view' = SwitchAll(view, WAITING_TO_LEAVE, LEAVING)]_view

\* "This node will be in FINISHED state when the hook is called, and will not have
\* a state after this hook is called (because it will be gone)"
\* (plugin_base.py:123-124, of on_leaving_cluster): an entry that its node has
\* deleted stays away while nobody runs the node's FSM any more. (So it does where
\* no second SIGQUIT comes: leave_cluster does not ask whether the FSM has stopped.)
GoneForGood ==
  [][\A n \in Nodes :
       fsm[n] = "stopped" /\ fsm'[n] = "stopped" /\ view[n] = ABSENT
       => view'[n] = ABSENT]_vars

\* A node asked to leave does so "at the next available opportunity"
\* (etcd_synchronizer.py:79-81).
LeaveHonoured ==
  \A n \in Nodes : Pending(n) ~> view[n] \in {WAITING_TO_LEAVE, ABSENT}

\* What is true of it. main has handled the view before the flag was set, it would
\* leave now, and nothing happens that could make it look again.
Missed(n) ==
  /\ leaving[n] /\ handler[n].pc = "idle"
  /\ pc[n] = "watch" /\ event[n] = NoEvent
  /\ view[n] # WAITING_TO_LEAVE /\ CanLeave(ClusterState(view), force[n])

\* The request has had no effect yet. (A member in ERROR is in its way until it has
\* been removed.)
Awaits(n) ==
  /\ Pending(n) /\ view[n] \notin Leaving \cup {ABSENT}
  /\ \A m \in Nodes \ {n} : view[m] # ERROR

\* However leave_cluster and main interleave, and whichever call of theirs raises, a
\* request to leave is kept until it has been honoured, and is either honoured or
\* missed for good: at the next change of the view by anybody, main does honour it
\* (etcd_synchronizer.py:57-61).
LeaveHonouredUnlessMissed ==
  /\ [][\A n \in Nodes : Pending(n) /\ ~Pending(n)' => view'[n] = WAITING_TO_LEAVE]_vars
  /\ \A n \in Nodes : []<>~Awaits(n) \/ <>[]Missed(n)

Joining == {WAITING_TO_JOIN, JOINING, JOINING_ACKNOWLEDGED_CHANGE,
            JOINING_CONFIG_CHANGED}

\* What ClusterProtocol promises of progress, with threads that wait for each
\* other only through etcd: no wakeup is lost between a read, the comparison
\* with the value already known and the watch (read_from_etcd), contended
\* writers do not keep each other from getting anywhere, and an exception of
\* the etcd client is got over (etcd_synchronizer.py:175-177). So no member is
\* joining for ever, and none is leaving for ever, unless its FSM has stopped.
JoinersSettle == \A n \in Nodes : []<>(view[n] \notin Joining)
LeaversDepart == \A n \in Nodes : []<>(view[n] \notin Leaving \/ fsm[n] = "stopped")
==============================================================================
