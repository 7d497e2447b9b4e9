-------------------------- MODULE ConfigAccessProofs --------------------------
(***************************************************************************)
(* Theorems about ConfigAccess for any users, any values and any number of *)
(* uploads, and their proofs.                                              *)
(***************************************************************************)
EXTENDS ConfigAccess, TLAPS

USE DEF At, End

------------------------------------------------------------------------------
(* Type correctness.                                                       *)

\* Revision numbers are integers, None the least of them.
LEMMA RevisionNumbers ==
  /\ Revisions \cup {None} \subseteq Int
  /\ \A r \in Revisions \cup {None} : None <= r
  /\ \A r \in Revisions : None # r /\ (r < MaxRevision => r + 1 \in Revisions)
  /\ 0 \in Revisions /\ 1 \in Revisions /\ None # 0
  BY ConstantsAssumption DEF Revisions, None

\* The records that stand for no local copy and no cw-config are of their types.
LEMMA Nothing == NoFile \in Copies /\ NoSession \in Sessions
  BY DEF NoFile, NoSession, Copies, Sessions, Contents

\* Initially every variable has its type.
LEMMA InitType == Init => TypeOK
<1> SUFFICES ASSUME Init PROVE TypeOK
  OBVIOUS
<1>1. etcd \in Seq(Contents) /\ Len(etcd) \in Revisions
  BY RevisionNumbers DEF Init
<1>2. force \in BOOLEAN
  BY DEF Init
<1>3. QED
  BY <1>1, <1>2, Nothing DEF Init, TypeOK

\* What cw-config reads of the key is a revision it has had, and its value; without
\* lag it is the latest.
LEMMA ReadableRevisions ==
  ASSUME TypeOK, NEW r \in Readable
  PROVE  /\ r \in Revisions /\ r <= Latest /\ ValueAt(r) \in Contents
         /\ ~ReadsLag => r = Latest
<1>1. Latest \in Nat /\ Latest \in Revisions
  BY DEF TypeOK, Latest, Revisions
<1>2. r \in 0..Latest /\ (~ReadsLag => r = Latest)
  BY <1>1 DEF Readable
<1>3. r \in Revisions /\ r <= Latest
  BY <1>1, <1>2, ConstantsAssumption DEF Revisions
<1>4. ValueAt(r) \in Contents
  <2>1. CASE r = 0
    BY <2>1 DEF ValueAt, Contents
  <2>2. CASE r # 0
    <3>1. r \in 1..Len(etcd)
      BY <1>2, <2>2 DEF Latest
    <3>2. etcd[r] \in Contents
      BY <3>1 DEF TypeOK
    <3>3. QED
      BY <2>2, <3>2 DEF ValueAt
  <2>3. QED
    BY <2>1, <2>2
<1>5. QED
  BY <1>2, <1>3, <1>4

\* Every step of the specification keeps the variables in their types.
LEMMA TypeStep == TypeOK /\ [Next]_vars => TypeOK'
<1> SUFFICES ASSUME TypeOK, [Next]_vars PROVE TypeOK'
  OBVIOUS
<1> USE DEF TypeOK
<1>1. ASSUME NEW u \in Users, DownloadConfig(u) PROVE TypeOK'
  <2>1. PICK r \in Readable : Download(u, r)
    BY <1>1 DEF DownloadConfig
  <2>2. r \in Revisions /\ ValueAt(r) \in Contents
    BY <2>1, ReadableRevisions
  <2>3. [NoSession EXCEPT !.pc = "save", !.value = ValueAt(r), !.revision = r] \in Sessions
    BY <2>2 DEF Sessions, NoSession
  <2>4. QED
    BY <1>1, <2>1, <2>3 DEF DownloadConfig, Download
<1>2. ASSUME NEW u \in Users, SaveConfig(u) PROVE TypeOK'
  <2>1. [value |-> session[u].value, base |-> session[u].revision] \in Copies
    BY DEF Sessions, Copies
  <2>2. [session[u] EXCEPT !.pc = "number"] \in Sessions
    BY DEF Sessions
  <2>3. QED
    BY <1>2, <2>1, <2>2 DEF SaveConfig
<1>3. ASSUME NEW u \in Users, SaveRevision(u) PROVE TypeOK'
  BY <1>3, Nothing DEF SaveRevision, Sessions
<1>4. ASSUME NEW u \in Users, LoadConfig(u) PROVE TypeOK'
  <2>1. [pc |-> "check", value |-> file[u].value, base |-> file[u].base,
         revision |-> revision[u]] \in Sessions
    BY DEF Sessions, Copies
  <2>2. QED
    BY <1>4, <2>1 DEF LoadConfig
<1>5. ASSUME NEW u \in Users, CheckRevision(u) PROVE TypeOK'
  <2>1. [session[u] EXCEPT !.pc = "confirm"] \in Sessions
    BY DEF Sessions
  <2>2. QED
    BY <1>5, <2>1, Nothing DEF CheckRevision
<1>6. ASSUME NEW u \in Users, Store(u)
      PROVE  etcd' \in Seq(Contents) /\ Len(etcd') \in Revisions
  <2>1. session[u].value \in Contents
    BY DEF Sessions
  <2>2. etcd' \in Seq(Contents) /\ Len(etcd') = Len(etcd) + 1
    BY <1>6, <2>1 DEF Store
  <2>3. QED
    BY <1>6, <2>2, RevisionNumbers DEF Store, Latest
<1>7. ASSUME NEW u \in Users, WriteConfig(u) PROVE TypeOK'
  <2>1. [NoSession EXCEPT !.pc = "force"] \in Sessions
    BY DEF Sessions, NoSession, Contents
  <2>2. QED
    BY <1>6, <1>7, <2>1 DEF WriteConfig
<1>8. ASSUME NEW u \in Users, GiveUp(u) PROVE TypeOK'
  BY <1>8, Nothing DEF GiveUp
<1>9. ASSUME NEW u \in Users, NEW o \in BOOLEAN, SetForce(u, o) PROVE TypeOK'
  <2>1. [NoSession EXCEPT !.pc = "cleanup"] \in Sessions
    BY DEF Sessions, NoSession, Contents
  <2>2. QED
    BY <1>9, <2>1 DEF SetForce
<1>10. ASSUME NEW u \in Users, ConfigCleanup(u) PROVE TypeOK'
  BY <1>10, Nothing DEF ConfigCleanup
<1>11. ASSUME NEW u \in Users, Edit(u) PROVE TypeOK'
  <2>1. ASSUME NEW value \in Values PROVE [file[u] EXCEPT !.value = value] \in Copies
    BY DEF Copies, Contents
  <2>2. QED
    BY <1>11, <2>1 DEF Edit
<1>12. ASSUME NEW u \in Users, DeleteOutdated(u) PROVE TypeOK'
  BY <1>12, Nothing DEF DeleteOutdated
<1>13. ASSUME NEW u \in Users, SaveFails(u) PROVE TypeOK'
  <2>1. [value |-> Blank, base |-> session[u].revision] \in Copies
    BY DEF Sessions, Copies, Contents
  <2>2. QED
    BY <1>13, <2>1, Nothing DEF SaveFails
<1>14. ASSUME NEW u \in Users, EtcdRaises(u) PROVE TypeOK'
  BY <1>14, <1>6, Nothing DEF EtcdRaises
<1>15. ASSUME CreateDefault PROVE TypeOK'
  <2>1. etcd' \in Seq(Contents) /\ Len(etcd') = 1
    BY <1>15 DEF CreateDefault, Contents
  <2>2. QED
    BY <1>15, <2>1, RevisionNumbers DEF CreateDefault
<1>16. CASE UNCHANGED vars
  BY <1>16 DEF vars
<1>17. QED
  BY <1>1, <1>2, <1>3, <1>4, <1>5, <1>7, <1>8, <1>9, <1>10, <1>11, <1>12,
     <1>13, <1>14, <1>15, <1>16 DEF Next, Fault

\* The variables always have their types.
THEOREM TypeCorrect == Spec => []TypeOK
  BY InitType, TypeStep, PTL DEF Spec

------------------------------------------------------------------------------
(* The invariant.                                                          *)

\* Initially nobody has downloaded anything.
LEMMA InitInvariant == Init => IInv
<1> SUFFICES ASSUME Init PROVE IInv
  OBVIOUS
<1>1. TypeOK
  BY InitType
<1>2. \A u \in Users : /\ file[u] = NoFile /\ revision[u] = None
                       /\ session[u] = NoSession
  BY DEF Init
<1>3. Latest \in Revisions /\ None <= Latest /\ wentBack = {}
  BY RevisionNumbers DEF Init, Latest
<1>4. /\ NoFile.base = None /\ NoSession.base = None /\ NoSession.revision = None
      /\ NoSession.pc = "idle"
  BY DEF NoFile, NoSession
<1>5. \A u \in Users : InOrder(u)
  <2> SUFFICES ASSUME NEW u \in Users PROVE InOrder(u)
    OBVIOUS
  <2>1. revision[u] <= Latest /\ file[u].base <= Latest
    BY <1>2, <1>3, <1>4, Zenon
  <2>2. session[u].revision <= Latest /\ session[u].base <= Latest
    BY <1>2, <1>3, <1>4, Zenon
  <2>3. session[u].pc = "idle"
    BY <1>2, <1>4
  <2>4. QED
    BY <2>1, <2>2, <2>3 DEF InOrder
<1>6. RevisionNotAhead /\ SentBackByLag
  BY <1>2, <1>3 DEF RevisionNotAhead, SentBackByLag
<1>7. QED
  BY <1>1, <1>5, <1>6 DEF IInv

\* A write that etcd accepts replaces what its user had downloaded, unless it is
\* the first write of all or the user was sent back.
LEMMA AcceptedWrite ==
  ASSUME IInv, NEW u \in Users \ wentBack, At(u, "confirm"), Accepted(u),
         session[u].revision # 0
  PROVE  session[u].base = Latest
<1>1. session[u].revision <= session[u].base /\ session[u].base <= Latest
  BY DEF IInv, InOrder
<1>2. session[u].revision = Latest
  BY DEF Accepted
<1>3. session[u].base \in Int /\ Latest \in Int
  BY RevisionNumbers DEF IInv, TypeOK, Sessions, Latest
<1>4. QED
  BY <1>1, <1>2, <1>3

\* What IInv says of one user's local copy and cw-config.
Local(u) ==
  InOrder(u) /\ (u \notin wentBack /\ file[u] # NoFile => revision[u] <= file[u].base)

\* The revision numbers in the variables are integers, no less than None.
LEMMA Typed ==
  ASSUME TypeOK
  PROVE  /\ Latest \in Revisions
         /\ \A u \in Users : /\ file[u].base \in Revisions \cup {None}
                            /\ revision[u] \in Revisions \cup {None}
                            /\ session[u].base \in Revisions \cup {None}
                            /\ session[u].revision \in Revisions \cup {None}
  BY DEF TypeOK, Sessions, Copies, Latest

\* A user who does nothing stays in order, whatever is written to etcd.
LEMMA OthersStayInOrder ==
  ASSUME NEW m \in Users, TypeOK, TypeOK', Local(m), Latest <= Latest',
         file'[m] = file[m], revision'[m] = revision[m], session'[m] = session[m],
         m \in wentBack' <=> m \in wentBack
  PROVE  Local(m)'
<1>1. /\ revision[m] \in Int /\ file[m].base \in Int /\ session[m].revision \in Int
      /\ session[m].base \in Int /\ Latest \in Int /\ Latest' \in Int
  <2>1. Latest' \in Revisions
    BY DEF TypeOK, Latest
  <2>2. QED
    BY <2>1, Typed, RevisionNumbers
<1>2. /\ revision[m] <= Latest' /\ file[m].base <= Latest'
      /\ session[m].revision <= Latest' /\ session[m].base <= Latest'
  BY <1>1 DEF Local, InOrder
<1>3. QED
  BY <1>2 DEF Local, InOrder

\* An accepted write counts one revision up.
LEMMA StoreCounts ==
  ASSUME TypeOK, NEW u \in Users, Store(u) PROVE Latest' = Latest + 1
<1>1. session[u].value \in Contents /\ etcd \in Seq(Contents)
  BY DEF TypeOK, Sessions
<1>2. QED
  BY <1>1 DEF Store, Latest

\* The user who takes a step stays in order too.
LEMMA ActorStaysInOrder ==
  ASSUME NEW u \in Users, TypeOK, TypeOK', Local(u),
         \/ DownloadConfig(u) \/ SaveConfig(u) \/ SaveRevision(u)
         \/ LoadConfig(u) \/ CheckRevision(u) \/ WriteConfig(u) \/ GiveUp(u)
         \/ \E overridden \in BOOLEAN : SetForce(u, overridden)
         \/ ConfigCleanup(u) \/ Edit(u) \/ DeleteOutdated(u) \/ Fault(u)
  PROVE  Local(u)' /\ Latest <= Latest'
<1> USE DEF Local, InOrder
<1>1. /\ revision[u] \in Int /\ file[u].base \in Int /\ session[u].revision \in Int
      /\ session[u].base \in Int /\ Latest \in Int /\ None \in Int
      /\ None <= Latest /\ None <= file[u].base /\ Latest <= Latest
      /\ None <= session[u].revision
  BY Typed, RevisionNumbers
<1>0. etcd' = etcd => Latest' = Latest
  BY DEF Latest
<1>2. /\ NoFile.base = None /\ NoSession.base = None /\ NoSession.revision = None
      /\ NoSession.pc = "idle"
  BY DEF NoFile, NoSession
<1>3. /\ file \in [Users -> Copies] /\ revision \in [Users -> Revisions \cup {None}]
      /\ session \in [Users -> Sessions]
  BY DEF TypeOK
<1>4. CASE DownloadConfig(u)
  <2>1. PICK r \in Readable : Download(u, r)
    BY <1>4 DEF DownloadConfig
  <2>2. /\ session'[u].pc = "save" /\ session'[u].revision = r
        /\ session'[u].base = None
    BY <1>3, <2>1 DEF Download, NoSession
  <2>3. r \in Int /\ r <= Latest
    BY <2>1, ReadableRevisions, RevisionNumbers
  <2>4. /\ u \notin wentBack' => u \notin wentBack /\ ~(r < revision[u])
        /\ Latest' = Latest /\ file' = file /\ revision' = revision
    BY <1>4, <2>1 DEF DownloadConfig, Download, Latest
  <2>5. QED
    BY <1>1, <2>2, <2>3, <2>4
<1>5. CASE SaveConfig(u)
  <2>1. /\ session'[u].pc = "number" /\ session'[u].revision = session[u].revision
        /\ session'[u].base = session[u].base
    BY <1>3, <1>5 DEF SaveConfig, Sessions
  <2>2. file'[u].base = session[u].revision
    BY <1>3, <1>5 DEF SaveConfig
  <2>3. QED
    BY <1>0, <1>1, <1>5, <2>1, <2>2 DEF SaveConfig
<1>6. CASE SaveRevision(u)
  <2>1. session'[u] = NoSession /\ revision'[u] = session[u].revision
    BY <1>3, <1>6 DEF SaveRevision
  <2>2. QED
    BY <1>0, <1>1, <1>2, <1>6, <2>1 DEF SaveRevision
<1>7. CASE LoadConfig(u)
  <2>1. /\ session'[u].pc = "check" /\ session'[u].revision = revision[u]
        /\ session'[u].base = file[u].base /\ file[u] # NoFile
    BY <1>3, <1>7 DEF LoadConfig
  <2>2. QED
    BY <1>0, <1>1, <1>7, <2>1 DEF LoadConfig
<1>8. CASE CheckRevision(u)
  <2>1. \/ session'[u] = NoSession
        \/ /\ session'[u].pc = "confirm" /\ session'[u].revision = session[u].revision
           /\ session'[u].base = session[u].base
    BY <1>3, <1>8 DEF CheckRevision, Sessions
  <2>2. QED
    BY <1>0, <1>1, <1>2, <1>8, <2>1 DEF CheckRevision
<1>9. CASE WriteConfig(u)
  <2>1. /\ session'[u].pc = "force" /\ session'[u].revision = None
        /\ session'[u].base = None
    BY <1>3, <1>9 DEF WriteConfig, NoSession
  <2>2. Latest' = Latest + 1
    BY <1>9, StoreCounts DEF WriteConfig
  <2>3. QED
    BY <1>0, <1>1, <1>9, <2>1, <2>2 DEF WriteConfig
<1>10. CASE GiveUp(u)
  <2>1. session'[u] = NoSession
    BY <1>3, <1>10 DEF GiveUp
  <2>2. QED
    BY <1>0, <1>1, <1>2, <1>10, <2>1 DEF GiveUp
<1>11. CASE \E overridden \in BOOLEAN : SetForce(u, overridden)
  <2>1. /\ session'[u].pc = "cleanup" /\ session'[u].revision = None
        /\ session'[u].base = None
    BY <1>3, <1>11 DEF SetForce, NoSession
  <2>2. QED
    BY <1>0, <1>1, <1>11, <2>1 DEF SetForce
<1>12. CASE ConfigCleanup(u)
  <2>1. session'[u] = NoSession /\ file'[u] = NoFile /\ revision'[u] = None
    BY <1>3, <1>12 DEF ConfigCleanup
  <2>2. QED
    BY <1>0, <1>1, <1>2, <1>12, <2>1 DEF ConfigCleanup
<1>13. CASE Edit(u)
  <2>1. file'[u].base = file[u].base /\ file[u] # NoFile
    BY <1>3, <1>13 DEF Edit, Copies
  <2>2. QED
    BY <1>0, <1>1, <1>13, <2>1 DEF Edit
<1>14. CASE DeleteOutdated(u)
  <2>1. file'[u] \in {file[u], NoFile} /\ revision'[u] \in {revision[u], None}
    BY <1>3, <1>14 DEF DeleteOutdated
  <2>2. QED
    BY <1>0, <1>1, <1>2, <1>14, <2>1 DEF DeleteOutdated
<1>15. CASE SaveFails(u)
  <2>1. session'[u] = NoSession
    BY <1>3, <1>15 DEF SaveFails
  <2>2. \/ /\ session[u].pc = "save" /\ file'[u].base = session[u].revision
           /\ revision' = revision /\ wentBack' = wentBack
        \/ revision'[u] = None /\ file' = file
        \/ file' = file /\ revision' = revision /\ wentBack' = wentBack
    BY <1>3, <1>15 DEF SaveFails
  <2>3. Latest' = Latest /\ session'[u].pc = "idle" /\ session'[u].base = None
        /\ session'[u].revision = None
    BY <1>0, <1>2, <1>15, <2>1 DEF SaveFails
  <2>4. CASE /\ session[u].pc = "save" /\ file'[u].base = session[u].revision
             /\ revision' = revision /\ wentBack' = wentBack
    BY <1>1, <2>3, <2>4
  <2>5. CASE revision'[u] = None /\ file' = file
    BY <1>1, <2>3, <2>5
  <2>6. CASE file' = file /\ revision' = revision /\ wentBack' = wentBack
    BY <1>1, <2>3, <2>6
  <2>7. QED
    BY <2>2, <2>4, <2>5, <2>6
<1>16. CASE EtcdRaises(u)
  <2>1. session'[u] = NoSession
    BY <1>3, <1>16 DEF EtcdRaises
  <2>2. Latest' = Latest \/ Latest' = Latest + 1
    BY <1>0, <1>16, StoreCounts DEF EtcdRaises
  <2>3. QED
    BY <1>0, <1>1, <1>2, <1>16, <2>1, <2>2 DEF EtcdRaises
<1>17. QED
  BY <1>4, <1>5, <1>6, <1>7, <1>8, <1>9, <1>10, <1>11, <1>12, <1>13, <1>14,
     <1>15, <1>16 DEF Fault

\* A step of one user, or the creation of the key, leaves the others alone.
LEMMA OneActs ==
  ASSUME TypeOK, [Next]_vars, NEW m \in Users
  PROVE  \/ /\ file'[m] = file[m] /\ revision'[m] = revision[m]
            /\ session'[m] = session[m] /\ (m \in wentBack' <=> m \in wentBack)
         \/ DownloadConfig(m) \/ SaveConfig(m) \/ SaveRevision(m)
         \/ LoadConfig(m) \/ CheckRevision(m) \/ WriteConfig(m) \/ GiveUp(m)
         \/ \E overridden \in BOOLEAN : SetForce(m, overridden)
         \/ ConfigCleanup(m) \/ Edit(m) \/ DeleteOutdated(m) \/ Fault(m)
<1>1. CASE UNCHANGED vars
  BY <1>1 DEF vars
<1>2. CASE CreateDefault
  BY <1>2 DEF CreateDefault
<1>3. ASSUME NEW u \in Users, u # m,
             \/ DownloadConfig(u) \/ SaveConfig(u) \/ SaveRevision(u)
             \/ LoadConfig(u) \/ CheckRevision(u) \/ WriteConfig(u) \/ GiveUp(u)
             \/ \E overridden \in BOOLEAN : SetForce(u, overridden)
             \/ ConfigCleanup(u) \/ Edit(u) \/ DeleteOutdated(u) \/ Fault(u)
      PROVE  /\ file'[m] = file[m] /\ revision'[m] = revision[m]
             /\ session'[m] = session[m] /\ (m \in wentBack' <=> m \in wentBack)
  BY <1>3 DEF TypeOK, Download, DownloadConfig, SaveConfig, SaveRevision, LoadConfig, CheckRevision,
     WriteConfig, GiveUp, SetForce, ConfigCleanup, Edit, DeleteOutdated, Fault, SaveFails,
     EtcdRaises
<1>4. QED
  BY <1>1, <1>2, <1>3 DEF Next

\* Every step keeps the invariant.
LEMMA InvariantStep == IInv /\ [Next]_vars => IInv'
<1> SUFFICES ASSUME IInv, [Next]_vars PROVE IInv'
  OBVIOUS
<1>1. TypeOK /\ TypeOK'
  BY TypeStep DEF IInv
<1>2. \A u \in Users : Local(u)
  BY DEF IInv, RevisionNotAhead, Local
<1>3. Latest <= Latest'
  <2>1. Latest \in Int /\ Latest <= Latest
    BY <1>1, Typed, RevisionNumbers
  <2>2. CASE CreateDefault
    BY <2>1, <2>2 DEF CreateDefault, Latest
  <2>3. CASE UNCHANGED vars
    BY <2>1, <2>3 DEF vars, Latest
  <2>4. QED
    BY <1>1, <1>2, <2>2, <2>3, ActorStaysInOrder DEF Next
<1>4. ASSUME NEW m \in Users PROVE Local(m)'
  BY <1>1, <1>2, <1>3, OneActs, OthersStayInOrder, ActorStaysInOrder
<1>5. SentBackByLag'
  <2>1. ASSUME NEW u \in Users, DownloadConfig(u), ~ReadsLag PROVE wentBack' = wentBack
    <3>1. PICK r \in Readable : Download(u, r)
      BY <2>1 DEF DownloadConfig
    <3>2. r = Latest /\ revision[u] <= Latest /\ revision[u] \in Int /\ Latest \in Int
      BY <1>1, <1>2, <2>1, <3>1, ReadableRevisions, Typed, RevisionNumbers DEF Local, InOrder
    <3>3. QED
      BY <3>1, <3>2 DEF Download
  <2>2. CASE \E u \in Users : DownloadConfig(u)
    BY <2>1, <2>2, <1>1 DEF IInv, SentBackByLag
  <2>3. CASE ~(\E u \in Users : DownloadConfig(u))
    <3>1. wentBack' \subseteq wentBack
      BY <2>3 DEF Next, vars, CreateDefault, SaveConfig, SaveRevision, LoadConfig,
         CheckRevision, WriteConfig, GiveUp, SetForce, ConfigCleanup, Edit, DeleteOutdated,
         Fault, SaveFails, EtcdRaises
    <3>2. QED
      BY <3>1 DEF IInv, SentBackByLag
  <2>4. QED
    BY <2>2, <2>3
<1>6. QED
  BY <1>1, <1>4, <1>5 DEF IInv, RevisionNotAhead, Local

\* The invariant always holds.
THEOREM Invariance == Spec => []IInv
  BY InitInvariant, InvariantStep, PTL DEF Spec

------------------------------------------------------------------------------
(* What follows.                                                           *)

\* No download, complete, cut short or partly deleted, leaves a revision number
\* that vouches for an older copy.
THEOREM RevisionNotAheadHolds == Spec => []RevisionNotAhead
<1>1. IInv => RevisionNotAhead
  BY DEF IInv
<1>2. QED
  BY <1>1, Invariance, PTL

\* No upload of a user who was not sent back replaces what that user had not
\* downloaded, but for those made from a key that was read as missing.
LEMMA UploadsOnTop ==
  ASSUME IInv, [Next]_vars, NEW u \in Users \ wentBack
  PROVE  OnTop(u)
<1> SUFFICES ASSUME Replaces(u), session[u].revision # 0 PROVE session[u].base = Latest
  BY DEF OnTop
<1>1. Accepted(u)
  BY OneActs DEF IInv, DownloadConfig, SaveConfig, SaveRevision, LoadConfig,
     CheckRevision, WriteConfig, GiveUp, SetForce, ConfigCleanup, Edit, DeleteOutdated,
     Fault, SaveFails, EtcdRaises, Replaces
<1>2. QED
  BY <1>1, AcceptedWrite DEF Replaces

\* Uploads replace what their users had downloaded, unless a lagging member of
\* the etcd cluster has sent the user back.
THEOREM NoSilentOverwriteHolds == Spec => NoSilentOverwrite
<1>1. IInv /\ [Next]_vars => [\A u \in Users \ wentBack : OnTop(u)]_vars
  BY UploadsOnTop
<1>2. QED
  BY <1>1, Invariance, PTL DEF Spec, NoSilentOverwrite

\* If reads do not lag, uploads replace what their users had downloaded, without
\* exception.
THEOREM CurrentReadsSuffice ==
  ASSUME ~ReadsLag PROVE Spec => NoUploadInTheMeantime
<1>1. IInv /\ [Next]_vars => [\A u \in Users : OnTop(u)]_vars
  <2> SUFFICES ASSUME IInv, [Next]_vars, NEW u \in Users PROVE OnTop(u)
    OBVIOUS
  <2>1. wentBack = {}
    BY DEF IInv, SentBackByLag
  <2>2. QED
    BY <2>1, UploadsOnTop
<1>2. QED
  BY <1>1, Invariance, PTL DEF Spec, NoUploadInTheMeantime
==============================================================================
