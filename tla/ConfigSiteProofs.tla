--------------------------- MODULE ConfigSiteProofs ---------------------------
(***************************************************************************)
(* Proofs about ConfigSite, for any finite set of nodes, any               *)
(* configurations and any bounds: the site uses its queue as QueueProtocol *)
(* says, and no configuration that is on a disk is forgotten.              *)
(***************************************************************************)
EXTENDS ConfigSite, QueueProtocolProofs

------------------------------------------------------------------------------
(* The queue: ConfigSite takes only steps of QueueProtocol.                *)

LEMMA SiteStep == [SiteNext]_siteVars => [Next]_vars
<1> SUFFICES ASSUME [SiteNext]_siteVars PROVE [Next]_vars
  OBVIOUS
<1>1. ASSUME NEW value \in Configs, NEW force \in BOOLEAN, Upload(value, force)
      PROVE  UNCHANGED vars
  BY <1>1 DEF Upload
<1>2. ASSUME NEW force \in BOOLEAN, UploadForce(force)
      PROVE  Next
  BY <1>2 DEF UploadForce, Next
<1>3. ASSUME NEW n \in Nodes,
             Main(n) \/ CreateRaises(n) \/ ReadRaises(n) \/ ManagerDies(n)
      PROVE  [Next]_vars
  <2>1. CASE QueueNode(n)
    BY <2>1 DEF QueueNode, Next
  <2>2. CASE Read(n) \/ StartWatch(n) \/ WatchReturns(n) \/ ReadMissing(n) \/ CreateKey(n)
    BY <2>2 DEF Read, StartWatch, WatchReturns, ReadMissing, CreateKey, OnlyManager
  <2>3. CASE CreateFails(n) \/ FileUnchanged(n) \/ WriteFile(n) \/ UpdateFile(n)
    BY <2>3 DEF CreateFails, FileUnchanged, WriteFile, UpdateFile, OnlyManager
  <2>4. CASE CreateRaises(n) \/ ReadRaises(n) \/ ManagerDies(n)
    BY <2>4 DEF CreateRaises, ReadRaises, ManagerDies, OnlyManager
  <2> QED BY <1>3, <2>1, <2>2, <2>3, <2>4 DEF Main
<1>4. ASSUME NEW n \in Nodes, Resync(n) \/ TurnTimesOut(n) \/ QueueManagerDies(n)
      PROVE  [Next]_vars
  <2>1. CASE Turn(n)
    BY <2>1 DEF Turn, Next
  <2>2. CASE RestartServices(n)
    BY <2>2 DEF RestartServices
  <2>3. CASE TurnEnds(n)
    BY <2>3 DEF TurnEnds, Next
  <2>4. CASE TurnTimesOut(n) \/ QueueManagerDies(n)
    BY <2>4 DEF TurnTimesOut, QueueManagerDies, Next
  <2> QED BY <1>4, <2>1, <2>2, <2>3, <2>4 DEF Resync
<1>5. CASE UNCHANGED siteVars
  BY <1>5 DEF siteVars, vars
<1> QED BY <1>1, <1>2, <1>3, <1>4, <1>5 DEF SiteNext

\* The operations keep the entries that wait, but for the front entry when its
\* turn starts.
LEMMA AddKeepsQueued ==
  ASSUME NEW c, WellFormed(c), NEW n \in Nodes, NEW retries \in Retries(c)
  PROVE  Queued(c) \cup {n} \subseteq Queued(AddToQueue(c, n, retries))
<1> DEFINE s == Started(c, retries)
           d == Enqueue(s, n)
<1>1. WellFormed(s) /\ (s.queued = <<>> => s.errored = {})
  BY StartedResync
<1>2. c.queued # <<>> => s = c
  BY StartedResync
<1>3. Queued(c) \subseteq Queued(s)
  <2>1. CASE c.queued = <<>>
    BY <2>1 DEF Queued, Range
  <2>2. CASE c.queued # <<>>
    BY <1>2, <2>2
  <2> QED BY <2>1, <2>2
<1> HIDE DEF s
<1>4. s \in QueueConfigs /\ s.queued \in Seq(QueueEntries)
  BY <1>1, Fields DEF WellFormed
<1>5. Entry(n, QUEUED) \in QueueEntries
  BY DEF Entry, QueueEntries
<1>6. Range(d.queued) = Range(s.queued) \cup {Entry(n, QUEUED)}
  <2>1. CASE Entry(n, QUEUED) \in Range(s.queued)
    BY <2>1 DEF Enqueue
  <2>2. CASE Entry(n, QUEUED) \notin Range(s.queued)
    <3>1. d = [s EXCEPT !.queued = Append(s.queued, Entry(n, QUEUED))]
      BY <2>2 DEF Enqueue
    <3>2. d.queued = Append(s.queued, Entry(n, QUEUED))
      BY <1>4, <3>1 DEF QueueConfigs
    <3> QED BY <1>4, <1>5, <3>2, AppendEntries
  <2> QED BY <2>1, <2>2
<1>7. d \in QueueConfigs
  BY <1>1, Enqueued
<1> HIDE DEF d
<1>8. AddToQueue(c, n, retries).queued = d.queued
  BY <1>7 DEF AddToQueue, QueueConfigs, s, d
<1> QED BY <1>3, <1>6, <1>8 DEF Queued

LEMMA TurnKeepsQueued ==
  ASSUME NEW c, WellFormed(c), NEW n \in Nodes, AtFront(c, n)
  PROVE  Queued(c) \ {n} \subseteq Queued(MoveToProcessing(c, n))
<1> DEFINE q == [c.queued EXCEPT ![1].status = PROCESSING]
<1>1. /\ c \in QueueConfigs /\ c.queued \in Seq(QueueEntries) /\ c.queued # <<>>
      /\ Head(c.queued).id = n /\ Head(c.queued) = c.queued[1]
  BY Fields, HeadEntry DEF WellFormed, AtFront
<1>2. MoveToProcessing(c, n) = [c EXCEPT !.queued = q]
  BY DEF MoveToProcessing
<1>3. DOMAIN q = DOMAIN c.queued /\ \A i \in DOMAIN c.queued : i # 1 => q[i] = c.queued[i]
  BY <1>1
<1> HIDE DEF q
<1>4. MoveToProcessing(c, n).queued = q
  BY <1>1, <1>2 DEF QueueConfigs
<1>5. ASSUME NEW m \in Queued(c), m # n PROVE Entry(m, QUEUED) \in Range(q)
  <2>1. PICK i \in DOMAIN c.queued : c.queued[i] = Entry(m, QUEUED)
    BY <1>5 DEF Queued, Range
  <2>2. i # 1
    BY <1>1, <1>5, <2>1 DEF Entry
  <2> QED BY <1>3, <2>1, <2>2 DEF Range
<1> QED BY <1>4, <1>5 DEF Queued

------------------------------------------------------------------------------
(* The invariant, part by part.                                            *)

\* The initial states satisfy it.
LEMMA SiteInitInvariant == SiteInit => SiteIInv
<1> SUFFICES ASSUME SiteInit PROVE SiteIInv
  OBVIOUS
<1>1. IInv /\ TypeOK
  BY InitInvariant DEF SiteInit, IInv
<1>2. SiteTypeOK
  BY <1>1, SiteAssumption DEF SiteInit, SiteTypeOK, Values, OutOfSync
<1>3. Handling /\ AlarmAgrees
  BY DEF SiteInit, Handling, AlarmAgrees, OutOfSync
<1>4. StaleIsDue
  BY DEF SiteInit, StaleIsDue
<1> QED BY <1>1, <1>2, <1>3, <1>4 DEF SiteIInv

\* A step of a config manager that leaves the queue and the services alone.
LEMMA ManagerKeeps ==
  ASSUME SiteIInv, NEW n \in Nodes,
         Main(n) \/ CreateRaises(n) \/ ReadRaises(n) \/ ManagerDies(n), ~QueueNode(n)
  PROVE  /\ SiteTypeOK' /\ Handling' /\ AlarmAgrees' /\ StaleIsDue'
<1> USE DEF SiteIInv, SiteTypeOK, Handling, AlarmAgrees, StaleIsDue, Due, OnlyManager,
            vars, TypeOK, Take, Values, OutOfSync
<1>1. Nothing # Template /\ Nothing \notin Configs
  BY SiteAssumption DEF Nothing, Template
<1>0. faults < MaxFaults => faults + 1 \in 0..MaxFaults
  BY SiteAssumption
<1>2. CASE Read(n)
  BY <1>1, <1>2 DEF Read
<1>3. CASE StartWatch(n)
  BY <1>1, <1>3 DEF StartWatch
<1>4. CASE WatchReturns(n)
  BY <1>1, <1>4 DEF WatchReturns
<1>5. CASE ReadMissing(n)
  BY <1>1, <1>5 DEF ReadMissing
<1>6. CASE CreateKey(n)
  BY <1>1, <1>6 DEF CreateKey, Set, OnDisk
<1>7. CASE CreateFails(n)
  BY <1>1, <1>7 DEF CreateFails
<1>8. CASE FileUnchanged(n)
  BY <1>1, <1>8 DEF FileUnchanged
<1>9. CASE WriteFile(n)
  BY <1>1, <1>9 DEF WriteFile
<1>10. CASE UpdateFile(n)
  BY <1>1, <1>10 DEF UpdateFile
<1>11. CASE ReadRaises(n)
  BY <1>0, <1>1, <1>11 DEF ReadRaises
<1>12. CASE ManagerDies(n)
  <2>1. SiteTypeOK'
    BY <1>0, <1>12 DEF ManagerDies
  <2>2. Handling' /\ StaleIsDue'
    BY <1>1, <1>12 DEF ManagerDies
  <2>3. AlarmAgrees'
    BY <1>1, <1>12 DEF ManagerDies
  <2> QED BY <2>1, <2>2, <2>3
<1>13. CASE CreateRaises(n)
  BY <1>0, <1>1, <1>13 DEF CreateRaises, Set, OnDisk
<1> QED BY <1>2, <1>3, <1>4, <1>5, <1>6, <1>7, <1>8, <1>9, <1>10, <1>11, <1>12, <1>13
        DEF Main

\* Queueing a node keeps the turns that are due, and gives the node its own.
LEMMA QueueNodeKeeps ==
  ASSUME SiteIInv, IInv', NEW n \in Nodes, QueueNode(n)
  PROVE  SiteTypeOK' /\ Handling' /\ AlarmAgrees' /\ StaleIsDue'
<1>1. WellFormed(config)
  BY InvariantParts DEF SiteIInv
<1>2. PICK retries \in Retries(config) : config' = AddToQueue(config, n, retries)
  BY DEF QueueNode, Add
<1>3. Queued(config) \cup {n} \subseteq Queued(config')
  BY <1>1, <1>2, AddKeepsQueued
<1>4. \A m \in Nodes : BeingProcessed(config, m) => BeingProcessed(config', m)
  BY <1>1, <1>2, Added
<1>5. SiteTypeOK'
  BY DEF QueueNode, SiteIInv, IInv, SiteTypeOK
<1>6. Handling' /\ AlarmAgrees'
  BY DEF QueueNode, Add, SiteIInv, SiteTypeOK, Handling, AlarmAgrees
<1>7. StaleIsDue'
  BY <1>3, <1>4 DEF QueueNode, SiteIInv, SiteTypeOK, StaleIsDue, Due
<1> QED BY <1>5, <1>6, <1>7

\* An upload changes nothing on the nodes, nor does FORCE.
LEMMA UploadKeeps ==
  ASSUME SiteIInv, IInv',
         \/ \E value \in Configs, force \in BOOLEAN : Upload(value, force)
         \/ \E force \in BOOLEAN : UploadForce(force)
  PROVE  SiteTypeOK' /\ Handling' /\ AlarmAgrees' /\ StaleIsDue'
<1>1. CASE \E value \in Configs, force \in BOOLEAN : Upload(value, force)
  <2>1. PICK value \in Configs, force \in BOOLEAN : Upload(value, force)
    BY <1>1
  <2>2. uploads' \in 0..MaxUploads
    BY <2>1, SiteAssumption DEF Upload, SiteIInv, SiteTypeOK
  <2>3. SiteTypeOK'
    BY <2>1, <2>2 DEF Upload, Set, SiteIInv, SiteTypeOK, TypeOK, vars, Values
  <2>4. Handling' /\ AlarmAgrees' /\ StaleIsDue'
    BY <2>1 DEF Upload, Set, SiteIInv, Handling, AlarmAgrees, StaleIsDue, Due, vars
  <2> QED BY <2>3, <2>4
<1>2. CASE \E force \in BOOLEAN : UploadForce(force)
  <2>1. PICK force \in BOOLEAN : UploadForce(force)
    BY <1>2
  <2>2. config'.queued = config.queued
    BY <2>1 DEF UploadForce, SetForce, SiteIInv, SiteTypeOK, TypeOK, QueueConfigs
  <2>3. /\ Queued(config') = Queued(config)
        /\ \A m \in Nodes : BeingProcessed(config', m) <=> BeingProcessed(config, m)
    BY <2>2 DEF Queued, BeingProcessed, AtFront
  <2>4. SiteTypeOK'
    BY <2>1 DEF UploadForce, managerVars, SiteIInv, IInv, SiteTypeOK
  <2>5. Handling' /\ AlarmAgrees' /\ StaleIsDue'
    BY <2>1, <2>3 DEF UploadForce, SetForce, managerVars, SiteIInv, Handling,
                      AlarmAgrees, StaleIsDue, Due
  <2> QED BY <2>4, <2>5
<1> QED BY <1>1, <1>2

\* A turn begins: the node is not at work, so its services are not restarted yet.
LEMMA TurnKeeps ==
  ASSUME SiteIInv, IInv', NEW n \in Nodes, Turn(n)
  PROVE  SiteTypeOK' /\ Handling' /\ AlarmAgrees' /\ StaleIsDue'
<1>1. WellFormed(config) /\ WorkInTurn
  BY InvariantParts DEF SiteIInv
<1>2. SiteTypeOK'
  BY DEF Turn, OutsideQueue, managerVars, SiteIInv, IInv, SiteTypeOK
<1>3. AlarmAgrees'
  BY DEF Turn, OutsideQueue, managerVars, SiteIInv, AlarmAgrees
<1>4. working \subseteq working'
  BY DEF Turn, Start, BeginWork
<1>5. Handling'
  BY <1>4 DEF Turn, OutsideQueue, managerVars, SiteIInv, Handling
<1>6. CASE BeginWork(n)
  <2>1. StaleIsDue'
    BY <1>6 DEF BeginWork, Turn, OutsideQueue, managerVars, SiteIInv, StaleIsDue, Due
  <2> QED BY <1>2, <1>3, <1>5, <2>1
<1>7. CASE Start(n)
  <2>1. /\ AtFront(config, n) /\ ~BeingProcessed(config, n)
        /\ config' = MoveToProcessing(config, n)
    BY <1>7 DEF Start
  <2>2. Queued(config) \ {n} \subseteq Queued(config') /\ BeingProcessed(config', n)
    BY <1>1, <2>1, TurnKeepsQueued, TurnTaken
  <2>3. TimersAccurate /\ OncePerTurn => n \notin restarted
    BY <1>1, <2>1 DEF WorkInTurn, SiteIInv, Handling
  <2>4. \A m \in Nodes : ~BeingProcessed(config, m)
    BY <2>1, OneFront DEF BeingProcessed
  <2>5. StaleIsDue'
    BY <2>2, <2>3, <2>4 DEF Turn, OutsideQueue, managerVars, SiteIInv, StaleIsDue, Due
  <2> QED BY <1>2, <1>3, <1>5, <2>5
<1> QED BY <1>6, <1>7 DEF Turn

\* The restart gives the services of one node what is on its disk.
LEMMA RestartKeeps ==
  ASSUME SiteIInv, IInv', NEW n \in Nodes, RestartServices(n)
  PROVE  SiteTypeOK' /\ Handling' /\ AlarmAgrees' /\ StaleIsDue'
<1> USE DEF RestartServices, vars, managerVars, SiteIInv, SiteTypeOK
<1>1. SiteTypeOK'
  BY DEF IInv
<1>2. Handling' /\ AlarmAgrees'
  BY DEF Handling, AlarmAgrees
<1>3. StaleIsDue'
  BY DEF StaleIsDue, Due
<1> QED BY <1>1, <1>2, <1>3

\* The end of a turn, whoever ends it: the nodes that lose their place are lost,
\* and only the node of the turn is being processed.
LEMMA TurnEndKeeps ==
  ASSUME SiteIInv, IInv', NEW n \in Nodes,
         TurnEnds(n) \/ TurnTimesOut(n) \/ QueueManagerDies(n)
  PROVE  SiteTypeOK' /\ Handling' /\ AlarmAgrees' /\ StaleIsDue'
<1>1. WellFormed(config) /\ WorkInTurn
  BY InvariantParts DEF SiteIInv
<1>2. AlarmAgrees' /\ UNCHANGED <<pc, last, file, applied>>
  BY DEF TurnEnds, TurnTimesOut, QueueManagerDies, OutsideQueue, managerVars, SiteIInv,
         AlarmAgrees
<1>3. Handling'
  BY DEF TurnEnds, TurnTimesOut, QueueManagerDies, Report, TimeOut, Crash, OutsideQueue,
         managerVars, SiteIInv, Handling
<1>4. Queued(config) \subseteq Nodes
  BY DEF Queued
<1>5. CASE TurnEnds(n)
  <2>1. SiteTypeOK'
    BY <1>4, <1>5 DEF TurnEnds, OutsideQueue, managerVars, Lost, SiteIInv, IInv, SiteTypeOK
  <2>2. n \in restarted /\ restarted' = restarted \ {n}
        /\ lost' = lost \cup (Queued(config) \ Queued(config'))
    BY <1>5 DEF TurnEnds, Lost
  <2>3. \A m \in Nodes : TimersAccurate /\ OncePerTurn /\ BeingProcessed(config, m) => m = n
    BY <1>1, <2>2, OneFront DEF WorkInTurn, BeingProcessed, SiteIInv, Handling
  <2>4. StaleIsDue'
    BY <1>2, <2>2, <2>3 DEF SiteIInv, StaleIsDue, Due
  <2> QED BY <1>2, <1>3, <2>1, <2>4
<1>6. CASE TurnTimesOut(n)
  <2>1. SiteTypeOK'
    BY <1>4, <1>6 DEF TurnTimesOut, OutsideQueue, managerVars, Lost, SiteIInv, IInv, SiteTypeOK
  <2>2. AtFront(config, n) /\ UNCHANGED restarted
        /\ lost' = lost \cup ((Queued(config) \cup {n}) \ Queued(config'))
    BY <1>6 DEF TurnTimesOut, TimeOut, Lost
  <2>3. \A m \in Nodes : BeingProcessed(config, m) => m = n
    BY <2>2, OneFront DEF BeingProcessed
  <2>4. StaleIsDue'
    BY <1>2, <2>2, <2>3 DEF SiteIInv, StaleIsDue, Due
  <2> QED BY <1>2, <1>3, <2>1, <2>4
<1>7. CASE QueueManagerDies(n)
  <2>1. faults' \in 0..MaxFaults
    BY <1>7, SiteAssumption DEF QueueManagerDies, SiteIInv, SiteTypeOK
  <2>2. SiteTypeOK'
    BY <1>7, <2>1 DEF QueueManagerDies, OutsideQueue, managerVars, SiteIInv, IInv, SiteTypeOK
  <2>3. StaleIsDue'
    BY <1>2, <1>7 DEF QueueManagerDies, Crash, SiteIInv, StaleIsDue, Due
  <2> QED BY <1>2, <1>3, <2>2, <2>3
<1> QED BY <1>5, <1>6, <1>7

\* Every step preserves the invariant.
LEMMA SiteNextInvariant == SiteIInv /\ [SiteNext]_siteVars => SiteIInv'
<1> SUFFICES ASSUME SiteIInv, [SiteNext]_siteVars PROVE SiteIInv'
  OBVIOUS
<1>1. IInv'
  BY SiteStep, NextInvariant DEF SiteIInv
<1> DEFINE Rest == SiteTypeOK' /\ Handling' /\ AlarmAgrees' /\ StaleIsDue'
<1>2. CASE \/ \E value \in Configs, force \in BOOLEAN : Upload(value, force)
           \/ \E force \in BOOLEAN : UploadForce(force)
  BY <1>1, <1>2, UploadKeeps DEF SiteIInv
<1>3. CASE \E n \in Nodes : Main(n) \/ CreateRaises(n) \/ ReadRaises(n) \/ ManagerDies(n)
  BY <1>1, <1>3, QueueNodeKeeps, ManagerKeeps DEF SiteIInv
<1>4. CASE \E n \in Nodes : Resync(n)
  BY <1>1, <1>4, TurnKeeps, RestartKeeps, TurnEndKeeps DEF Resync, SiteIInv
<1>5. CASE \E n \in Nodes : TurnTimesOut(n) \/ QueueManagerDies(n)
  BY <1>1, <1>5, TurnEndKeeps DEF SiteIInv
<1>6. CASE UNCHANGED siteVars
  BY <1>1, <1>6 DEF siteVars, vars, managerVars, SiteIInv, IInv, SiteTypeOK, Handling,
                    AlarmAgrees, StaleIsDue, Due
<1> QED BY <1>2, <1>3, <1>4, <1>5, <1>6 DEF SiteNext

------------------------------------------------------------------------------
(* Theorems.                                                               *)

\* The site is a QueueProtocol: every theorem about the queue holds of the queue
\* to which config managers add their nodes, in which services are restarted
\* and to which cw-config writes FORCE.
THEOREM ImplementsQueueProtocol == SiteSafety => Safety
<1>1. SiteInit => Init
  BY DEF SiteInit
<1> QED BY <1>1, SiteStep, PTL DEF SiteSafety, Safety

\* The inductive invariant holds: the queue is in order, what is handed over and
\* written is a configuration, and no node that runs an old one is forgotten.
THEOREM SiteInvariance == SiteSafety => []SiteIInv
  BY SiteInitInvariant, SiteNextInvariant, PTL DEF SiteSafety

\* A node whose services do not run what on_config_changed wrote to its disk has
\* a turn coming (modify_nodes_in_queue and at_front_of_queue), or lost it.
THEOREM StaleIsDueHolds == SiteSafety => []StaleIsDue
<1>1. SiteIInv => StaleIsDue
  BY DEF SiteIInv
<1> QED BY <1>1, SiteInvariance, PTL

\* The alarm of a config manager tells whether its file is on disk (ConfigAlarm).
THEOREM AlarmAgreesHolds == SiteSafety => []AlarmAgrees
<1>1. SiteIInv => AlarmAgrees
  BY DEF SiteIInv
<1> QED BY <1>1, SiteInvariance, PTL

\* Services are restarted on one node at a time, however many nodes get a
\* configuration at once: with accurate timers, and plugins that are called and
\* report once in a turn.
THEOREM SiteOneAtATime == SiteSafety => []OneAtATime
  BY ImplementsQueueProtocol, OneAtATimeHolds, PTL

\* A configuration in etcd is replaced by uploads only (_create_key_in_etcd
\* creates and never overwrites).
THEOREM UploadsSurviveHolds == SiteSafety => UploadsSurvive
<1> DEFINE Kept == shared # Nothing /\ shared' # shared => uploads' = uploads + 1
<1>1. [SiteNext]_siteVars => [Kept]_siteVars
  <2> SUFFICES ASSUME SiteNext PROVE Kept
    BY DEF siteVars
  <2>1. ASSUME NEW value \in Configs, NEW force \in BOOLEAN, Upload(value, force) PROVE Kept
    BY <2>1 DEF Upload
  <2>2. ASSUME NEW force \in BOOLEAN, UploadForce(force) PROVE Kept
    BY <2>2 DEF UploadForce
  <2>3. ASSUME NEW n \in Nodes, Main(n) \/ CreateRaises(n) \/ ReadRaises(n) \/ ManagerDies(n)
        PROVE  Kept
    BY <2>3 DEF Main, Read, StartWatch, WatchReturns, ReadMissing, CreateKey, CreateFails,
                CreateRaises, FileUnchanged, WriteFile, QueueNode, UpdateFile, ReadRaises,
                ManagerDies
  <2>4. ASSUME NEW n \in Nodes, Resync(n) \/ TurnTimesOut(n) \/ QueueManagerDies(n) PROVE Kept
    BY <2>4 DEF Resync, Turn, RestartServices, TurnEnds, TurnTimesOut, QueueManagerDies,
                OutsideQueue
  <2> QED BY <2>1, <2>2, <2>3, <2>4 DEF SiteNext
<1> QED BY <1>1, PTL DEF SiteSafety, UploadsSurvive

==============================================================================
