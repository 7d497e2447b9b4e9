------------------------------ MODULE ConfigSite ------------------------------
(***************************************************************************)
(* A configuration on its way through a site: from cw-config's upload, by  *)
(* the loop of each node's clearwater-config-manager and the hook of its   *)
(* plugin, to the file on disk, by the queue of QueueProtocol to the       *)
(* services of the node, which read the file when they are restarted.      *)
(*                                                                         *)
(* It is QueueProtocol, in whose steps the config managers, cw-config and  *)
(* the restarts join. There is one plugin, which queues the node for what  *)
(* it has written (shared_config), and so one file per node and one entry  *)
(* in its ConfigAlarm. Values are compared and never looked into. The      *)
(* plugins are in another repository: their hooks are modelled from        *)
(* plugin_base.py and the tests in plugin_tests/.                          *)
(***************************************************************************)
EXTENDS QueueProtocol

CONSTANTS
  Configs,     \* the configurations that may be uploaded
  Earlier,     \* those of them that were uploaded in an earlier life of the site
  MaxUploads,  \* bound on the uploads
  MaxFaults    \* bound on exceptions, and deaths of config and queue managers

ASSUME SiteAssumption ==
  /\ Earlier \subseteq Configs
  /\ {MaxUploads, MaxFaults} \subseteq Nat
  /\ {"none", "default"} \cap Configs = {}

Nothing == "none"     \* no key, no file, no _last_value
Template == "default" \* the plugin's default_value()
Values == Configs \cup {Template}

VARIABLES
  shared,    \* the configuration in etcd
  forcing,   \* the settings of FORCE that uploads have still to make
  pc,        \* pc[n]: where n's config manager is
  last,      \* last[n]: its _last_value
  event,     \* event[n]: while it watches, the first change since its read
  file,      \* file[n]: the plugin's file on n's disk
  alarm,     \* alarm[n]: is GLOBAL_CONFIG_NOT_SYNCHED raised?
  applied,   \* applied[n]: what n's services have read from the file
  restarted, \* the nodes at work whose services have been restarted
  lost,      \* history: nodes that lost a turn they were owed
  uploads, faults  \* how much of each bound is used

managerVars == <<pc, last, event, file, alarm>>
siteVars == <<vars, shared, forcing, managerVars, applied, restarted, lost,
              uploads, faults>>

SiteTypeOK ==
  /\ TypeOK
  /\ shared \in Values \cup {Nothing}
  /\ forcing \subseteq BOOLEAN
  /\ pc \in [Nodes -> {"read", "watch", "create", "changed", "queue", "alarm"}]
  /\ last \in [Nodes -> Values \cup {Nothing}] /\ event \in [Nodes -> Values \cup {Nothing}]
  /\ file \in [Nodes -> Values \cup {Nothing}] /\ applied \in [Nodes -> Values \cup {Nothing}]
  /\ alarm \in [Nodes -> BOOLEAN]
  /\ restarted \subseteq Nodes /\ lost \subseteq Nodes
  /\ uploads \in 0..MaxUploads /\ faults \in 0..MaxFaults

\* ConfigAlarm's first look at a file: is it there?
OutOfSync(contents) == contents = Nothing

\* Files may be left from an earlier life of the site, whose etcd is gone, and
\* a configuration may have been uploaded while the config managers were down.
SiteInit ==
  /\ Init
  /\ shared \in Earlier \cup {Nothing} /\ forcing = {}
  /\ pc = [n \in Nodes |-> "read"]
  /\ last = [n \in Nodes |-> Nothing] /\ event = [n \in Nodes |-> Nothing]
  /\ file \in [Nodes -> Earlier \cup {Nothing}] /\ applied = file
  /\ alarm = [n \in Nodes |-> OutOfSync(file[n])]
  /\ restarted = {} /\ lost = {}
  /\ uploads = 0 /\ faults = 0

\* etcd: the key is set, and a watcher gets the first change since its read.
Set(value) ==
  /\ shared' = value
  /\ event' = [n \in Nodes |->
                 IF pc[n] = "watch" /\ event[n] = Nothing THEN value ELSE event[n]]

------------------------------------------------------------------------------
(* cw-config: the configuration, then FORCE (ConfigAccess has its checks). *)

Upload(value, force) ==
  /\ uploads < MaxUploads
  /\ uploads' = uploads + 1
  /\ Set(value)
  /\ forcing' = forcing \cup {force}
  /\ UNCHANGED <<vars, pc, last, file, alarm, applied, restarted, lost, faults>>

UploadForce(force) ==
  /\ force \in forcing
  /\ forcing' = forcing \ {force}
  /\ SetForce(force)
  /\ UNCHANGED <<shared, managerVars, applied, restarted, lost, uploads, faults>>

------------------------------------------------------------------------------
(* The loop of a config manager.                                           *)

\* update_from_etcd returns: is it a value, and another one than before?
Take(n, value) ==
  /\ last' = [last EXCEPT ![n] = value]
  /\ pc' = [pc EXCEPT ![n] =
              IF value # Nothing /\ value # last[n] THEN "changed" ELSE "read"]

OnlyManager == UNCHANGED <<vars, forcing, applied, restarted, lost, uploads>>

Read(n) ==
  /\ pc[n] = "read" /\ shared # Nothing /\ shared # last[n]
  /\ Take(n, shared)
  /\ UNCHANGED <<shared, event, file, alarm, faults>> /\ OnlyManager

\* Mutant of StartWatch: the value read is not compared with the last one.
StartWatchBlindly(n) ==
  /\ pc[n] = "read" /\ shared # Nothing /\ last[n] # Nothing
  /\ pc' = [pc EXCEPT ![n] = "watch"]
  /\ UNCHANGED <<shared, last, event, file, alarm, faults>> /\ OnlyManager

StartWatch(n) ==
  /\ pc[n] = "read" /\ shared # Nothing /\ shared = last[n]
  /\ pc' = [pc EXCEPT ![n] = "watch"]
  /\ UNCHANGED <<shared, last, event, file, alarm, faults>> /\ OnlyManager

WatchReturns(n) ==
  /\ pc[n] = "watch" /\ event[n] # Nothing
  /\ Take(n, event[n])
  /\ event' = [event EXCEPT ![n] = Nothing]
  /\ UNCHANGED <<shared, file, alarm, faults>> /\ OnlyManager

ReadMissing(n) ==
  /\ pc[n] = "read" /\ shared = Nothing
  /\ pc' = [pc EXCEPT ![n] = "create"]
  /\ UNCHANGED <<shared, last, event, file, alarm, faults>> /\ OnlyManager

OnDisk(n) == IF file[n] # Nothing THEN file[n] ELSE Template

\* Mutant of CreateKey: without prevExist=False.
CreateAnyway(n) ==
  /\ pc[n] = "create"
  /\ Set(OnDisk(n)) /\ Take(n, OnDisk(n))
  /\ UNCHANGED <<file, alarm, faults>> /\ OnlyManager

\* A missing key is created from the file, or else from the default.
CreateKey(n) ==
  /\ pc[n] = "create" /\ shared = Nothing
  /\ Set(OnDisk(n)) /\ Take(n, OnDisk(n))
  /\ UNCHANGED <<file, alarm, faults>> /\ OnlyManager

\* Somebody else has created it: nothing is handed over that is not in etcd.
CreateFails(n) ==
  /\ pc[n] = "create" /\ shared # Nothing
  /\ Take(n, Nothing)
  /\ UNCHANGED <<shared, event, file, alarm, faults>> /\ OnlyManager

\* The creation raises (a timeout, say), whether it was applied or not: nothing is
\* handed over either.
CreateRaises(n) ==
  /\ pc[n] = "create" /\ shared = Nothing
  /\ faults < MaxFaults
  /\ faults' = faults + 1
  /\ Take(n, Nothing)
  /\ Set(OnDisk(n)) \/ UNCHANGED <<shared, event>>
  /\ UNCHANGED <<file, alarm>> /\ OnlyManager

\* The read raises: _last_value is forgotten. (When a watch raises, the value
\* read before it is returned, which is _last_value.)
ReadRaises(n) ==
  /\ faults < MaxFaults
  /\ faults' = faults + 1
  /\ pc[n] \in {"read", "watch"}
  /\ IF pc[n] = "read" THEN Take(n, Nothing)
                       ELSE pc' = [pc EXCEPT ![n] = "read"] /\ UNCHANGED last
  /\ event' = [event EXCEPT ![n] = Nothing]
  /\ UNCHANGED <<shared, file, alarm>> /\ OnlyManager

\* The process dies and is restarted. If it was about to queue its node, nobody
\* does: the file is up to date when it comes back.
ManagerDies(n) ==
  /\ faults < MaxFaults
  /\ faults' = faults + 1
  /\ pc' = [pc EXCEPT ![n] = "read"]
  /\ last' = [last EXCEPT ![n] = Nothing]
  /\ event' = [event EXCEPT ![n] = Nothing]
  /\ alarm' = [alarm EXCEPT ![n] = OutOfSync(file[n])]
  /\ lost' = IF pc[n] = "queue" THEN lost \cup {n} ELSE lost
  /\ UNCHANGED <<vars, shared, forcing, file, applied, restarted, uploads>>

------------------------------------------------------------------------------
(* The plugin's on_config_changed.                                         *)

\* Nothing is done for a file that is up to date: it is not reported either.
FileUnchanged(n) ==
  /\ pc[n] = "changed" /\ file[n] = last[n]
  /\ pc' = [pc EXCEPT ![n] = "read"]
  /\ UNCHANGED <<shared, last, event, file, alarm, faults>> /\ OnlyManager

\* Mutants of WriteFile: the default is not reported to the alarm; a node is not
\* queued for its first file.
WriteFileUnreported(n) ==
  /\ pc[n] = "changed" /\ file[n] # last[n]
  /\ file' = [file EXCEPT ![n] = last[n]]
  /\ pc' = [pc EXCEPT ![n] = IF last[n] = Template THEN "read" ELSE "queue"]
  /\ UNCHANGED <<shared, last, event, alarm, faults>> /\ OnlyManager
WriteFirstFile(n) ==
  /\ pc[n] = "changed" /\ file[n] # last[n]
  /\ file' = [file EXCEPT ![n] = last[n]]
  /\ pc' = [pc EXCEPT ![n] = IF file[n] = Nothing THEN "alarm" ELSE "queue"]
  /\ UNCHANGED <<shared, last, event, alarm, faults>> /\ OnlyManager

\* safely_write. A node is not queued for the default.
WriteFile(n) ==
  /\ pc[n] = "changed" /\ file[n] # last[n]
  /\ file' = [file EXCEPT ![n] = last[n]]
  /\ pc' = [pc EXCEPT ![n] = IF last[n] = Template THEN "alarm" ELSE "queue"]
  /\ UNCHANGED <<shared, last, event, alarm, faults>> /\ OnlyManager

Queued(c) == {n \in Nodes : Entry(n, QUEUED) \in Range(c.queued)}

\* modify_nodes_in_queue add.
QueueNode(n) ==
  /\ pc[n] = "queue"
  /\ pc' = [pc EXCEPT ![n] = "alarm"]
  /\ Add(n)
  /\ lost' = lost \ Queued(config')
  /\ UNCHANGED <<shared, forcing, last, event, file, alarm, applied, restarted,
                 uploads, faults>>

\* ConfigAlarm.update_file.
UpdateFile(n) ==
  /\ pc[n] = "alarm"
  /\ pc' = [pc EXCEPT ![n] = "read"]
  /\ alarm' = [alarm EXCEPT ![n] = FALSE]
  /\ UNCHANGED <<shared, last, event, file, faults>> /\ OnlyManager

------------------------------------------------------------------------------
(* A node's turn in the queue.                                             *)

OutsideQueue == UNCHANGED <<shared, forcing, managerVars, applied, uploads>>

Turn(n) ==
  /\ Start(n) \/ BeginWork(n)
  /\ OutsideQueue /\ UNCHANGED <<restarted, lost, faults>>

\* at_front_of_queue restarts the services, which read the file ...
RestartServices(n) ==
  /\ n \in working \ restarted
  /\ restarted' = restarted \cup {n}
  /\ applied' = [applied EXCEPT ![n] = file[n]]
  /\ UNCHANGED <<vars, shared, forcing, managerVars, lost, uploads, faults>>

\* The nodes that have lost their place in the queue, n included if its turn is
\* not over.
Lost(n, over) ==
  (Queued(config) \cup IF over THEN {} ELSE {n}) \ Queued(config')

\* ... and it reports whether the node is healthy then.
TurnEnds(n) ==
  /\ n \in restarted
  /\ \E healthy \in BOOLEAN : Report(n, healthy)
  /\ restarted' = restarted \ {n}
  /\ lost' = lost \cup Lost(n, TRUE)
  /\ OutsideQueue /\ UNCHANGED faults

TurnTimesOut(n) ==
  /\ TimeOut(n)
  /\ lost' = lost \cup Lost(n, FALSE)
  /\ OutsideQueue /\ UNCHANGED <<restarted, faults>>

QueueManagerDies(n) ==
  /\ faults < MaxFaults
  /\ faults' = faults + 1
  /\ Crash(n)
  /\ restarted' = restarted \ {n}
  /\ OutsideQueue /\ UNCHANGED lost

------------------------------------------------------------------------------
Main(n) ==
  \/ Read(n) \/ StartWatch(n) \/ WatchReturns(n)
  \/ ReadMissing(n) \/ CreateKey(n) \/ CreateFails(n)
  \/ FileUnchanged(n) \/ WriteFile(n) \/ QueueNode(n) \/ UpdateFile(n)

Resync(n) == Turn(n) \/ RestartServices(n) \/ TurnEnds(n)

SiteNext ==
  \/ \E value \in Configs, force \in BOOLEAN : Upload(value, force)
  \/ \E force \in BOOLEAN : UploadForce(force)
  \/ \E n \in Nodes : \/ Main(n) \/ CreateRaises(n) \/ ReadRaises(n) \/ ManagerDies(n)
                      \/ Resync(n) \/ TurnTimesOut(n) \/ QueueManagerDies(n)

SiteSafety == SiteInit /\ [][SiteNext]_siteVars

\* Config managers and queue managers keep running.
Spec ==
  SiteSafety /\ \A n \in Nodes : WF_siteVars(Main(n)) /\ WF_siteVars(Resync(n))

------------------------------------------------------------------------------
(* Properties.                                                             *)

\* A turn of node n is coming that will restart its services, or was lost: with
\* an abandoned resync, because the node did not answer, or because its config
\* manager died between the writing of the file and the queueing.
Due(n) ==
  \/ pc[n] = "queue"
  \/ n \in Queued(config)
  \/ BeingProcessed(config, n) /\ n \notin restarted
  \/ n \in lost

\* A node whose services do not run what is on its disk has a turn coming. A
\* configuration that comes while the node is at work on the one before is not
\* taken for part of it (_add_node_to_json_list compares the status, too). Nodes
\* are not queued for the default. With a timer that pops during the work, or a
\* report that is made twice, the report may end a later turn.
StaleIsDue ==
  TimersAccurate /\ OncePerTurn =>
    \A n \in Nodes : applied[n] # file[n] /\ file[n] # Template => Due(n)

\* The alarm tells whether the file is there, but for the moment between its
\* writing and the report of it. A manager that starts with the file in place
\* has it reported by nobody: ConfigAlarm has to look.
AlarmAgrees ==
  \A n \in Nodes : pc[n] \notin {"queue", "alarm"} => (alarm[n] <=> file[n] = Nothing)

\* Why: what a config manager hands over and writes is a configuration, and a
\* node's services are restarted only while it is at work.
Handling ==
  /\ \A n \in Nodes : /\ pc[n] = "changed" => last[n] # Nothing
                      /\ pc[n] \in {"queue", "alarm"} => file[n] # Nothing
  /\ restarted \subseteq working

SiteIInv == IInv /\ SiteTypeOK /\ Handling /\ AlarmAgrees /\ StaleIsDue

\* A configuration that is in etcd is replaced by uploads and by nothing else: a
\* config manager that found no key may find one when it writes ("This stops us
\* overwriting a manually uploaded file with the default template").
UploadsSurvive ==
  [][shared # Nothing /\ shared' # shared => uploads' = uploads + 1]_siteVars

\* Whatever is uploaded while the config managers read, watch, write files or
\* are restarted, they all end with the last of it on disk and without alarm.
FilesSettle ==
  <>[](\A n \in Nodes : file[n] = shared /\ ~alarm[n])

\* ... and their services with what is on disk, unless their turn was lost.
ServicesSettle ==
  <>[](\A n \in Nodes : applied[n] = file[n] \/ file[n] = Template \/ n \in lost)

==============================================================================
