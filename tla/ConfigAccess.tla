----------------------------- MODULE ConfigAccess -----------------------------
(***************************************************************************)
(* cw-config: users download one configuration file from etcd, edit it     *)
(* locally and upload it again. Nothing locks the file in etcd meanwhile:  *)
(* the revision number saved beside the local copy is what should keep a   *)
(* user from undoing the work of another.                                  *)
(*                                                                         *)
(* A revision is the modifiedIndex of the key, counted here by the writes  *)
(* to it; 0 stands for a key that does not exist, as in the code. A member *)
(* of the etcd cluster that lags behind answers a read without quorum with *)
(* an earlier revision, so every value the key has had is kept.            *)
(***************************************************************************)
EXTENDS Integers, Sequences

CONSTANTS
  Users,        \* each with a download directory and one cw-config at a time
  Values,       \* what a user may write into the file
  EtcdFails,    \* may the etcd client raise?
  ReadsLag,     \* may cw-config read an earlier revision than the latest?
  MaxRevision   \* bound on the writes to etcd

ASSUME ConstantsAssumption ==
  /\ EtcdFails \in BOOLEAN /\ ReadsLag \in BOOLEAN
  /\ MaxRevision \in Nat \ {0}

VARIABLES
  etcd,     \* the key: the values it has had, one for every revision
  force,    \* FORCE, as the queue manager will read it
  file,     \* file[u]: the local copy, and the revision it was made from
  revision, \* revision[u]: the number in the file beside it
  session,  \* session[u]: the cw-config that u is running
  wentBack  \* history: the users who were sent an older revision than the number
            \* they had, until cw-config replaces or removes that number

vars == <<etcd, force, file, revision, session, wentBack>>

Blank == "blank"      \* the default value, and what a missing key reads as
Contents == Values \cup {Blank}
Revisions == 0..MaxRevision
None == -1            \* no readable file; no readable revision number
NoFile == [value |-> Blank, base |-> None]
NoSession == [pc |-> "idle", value |-> Blank, base |-> None, revision |-> None]

Copies == [value : Contents, base : Revisions \cup {None}]
Sessions ==
  [pc : {"idle", "save", "number", "check", "confirm", "force", "cleanup"},
   value : Contents, base : Revisions \cup {None}, revision : Revisions \cup {None}]

TypeOK ==
  /\ etcd \in Seq(Contents) /\ Len(etcd) \in Revisions
  /\ force \in BOOLEAN
  /\ file \in [Users -> Copies]
  /\ revision \in [Users -> Revisions \cup {None}]
  /\ session \in [Users -> Sessions]
  /\ wentBack \subseteq Users

Init ==
  /\ etcd = << >>
  /\ force = FALSE
  /\ file = [u \in Users |-> NoFile]
  /\ revision = [u \in Users |-> None]
  /\ session = [u \in Users |-> NoSession]
  /\ wentBack = {}

Latest == Len(etcd)

\* What a read of revision r returns: a missing key reads as a blank value.
ValueAt(r) == IF r = 0 THEN Blank ELSE etcd[r]

\* cw-config reads without asking for a quorum.
Readable == IF ReadsLag THEN 0..Latest ELSE {Latest}

At(u, pc) == session[u].pc = pc
End(u) == session' = [session EXCEPT ![u] = NoSession]

------------------------------------------------------------------------------
(* cw-config download.                                                     *)

\* A download of revision r begins.
Download(u, r) ==
  /\ At(u, "idle")
  /\ session' = [session EXCEPT ![u] =
                   [NoSession EXCEPT !.pc = "save", !.value = ValueAt(r), !.revision = r]]
  /\ wentBack' = IF r < revision[u] THEN wentBack \cup {u} ELSE wentBack

\* Mutant of DownloadConfig: the revision number is saved before the file.
DownloadNumberFirst(u) ==
  /\ \E r \in Readable : Download(u, r) /\ revision' = [revision EXCEPT ![u] = r]
  /\ UNCHANGED <<etcd, force, file>>

\* Confirmed, if there is a local copy already.
DownloadConfig(u) ==
  /\ \E r \in Readable : Download(u, r)
  /\ UNCHANGED <<etcd, force, file, revision>>

\* save_config_and_revision: first the configuration ...
SaveConfig(u) ==
  /\ At(u, "save")
  /\ file' = [file EXCEPT ![u] = [value |-> session[u].value,
                                  base |-> session[u].revision]]
  /\ session' = [session EXCEPT ![u].pc = "number"]
  /\ UNCHANGED <<etcd, force, revision, wentBack>>

\* ... then its revision number.
SaveRevision(u) ==
  /\ At(u, "number")
  /\ revision' = [revision EXCEPT ![u] = session[u].revision]
  /\ End(u)
  /\ wentBack' = wentBack \ {u}
  /\ UNCHANGED <<etcd, force, file>>

------------------------------------------------------------------------------
(* cw-config upload.                                                       *)

\* Validation passed, or its failure is overridden; both local files are read.
LoadConfig(u) ==
  /\ At(u, "idle")
  /\ file[u] # NoFile /\ revision[u] # None
  /\ session' = [session EXCEPT ![u] =
                   [pc |-> "check", value |-> file[u].value, base |-> file[u].base,
                    revision |-> revision[u]]]
  /\ UNCHANGED <<etcd, force, file, revision, wentBack>>

\* The revision and the value that etcd returns are compared with the local ones.
CheckRevision(u) ==
  /\ At(u, "check")
  /\ \E r \in Readable :
       IF session[u].revision = r /\ session[u].value # ValueAt(r)
         THEN session' = [session EXCEPT ![u].pc = "confirm"]
         ELSE End(u)
  /\ UNCHANGED <<etcd, force, file, revision, wentBack>>

\* Mutant of Accepted: an unconditional write.
AcceptedAlways(u) == TRUE

\* Does etcd accept the write? It is a compare-and-swap, but for the first one.
Accepted(u) ==
  \/ session[u].revision = 0
  \/ session[u].revision = Latest

Store(u) ==
  /\ Latest < MaxRevision
  /\ etcd' = Append(etcd, session[u].value)

\* The user has confirmed the difference that was shown.
WriteConfig(u) ==
  /\ At(u, "confirm")
  /\ Accepted(u) /\ Store(u)
  /\ session' = [session EXCEPT ![u] = [NoSession EXCEPT !.pc = "force"]]
  /\ UNCHANGED <<force, file, revision, wentBack>>

\* The user does not confirm, or the compare-and-swap fails.
GiveUp(u) ==
  /\ At(u, "confirm")
  /\ End(u)
  /\ UNCHANGED <<etcd, force, file, revision, wentBack>>

\* modify_nodes_in_queue force_true, if a failed validation was overridden, or
\* force_false. It retries until done.
SetForce(u, overridden) ==
  /\ At(u, "force")
  /\ force' = overridden
  /\ session' = [session EXCEPT ![u] = [NoSession EXCEPT !.pc = "cleanup"]]
  /\ UNCHANGED <<etcd, file, revision, wentBack>>

ConfigCleanup(u) ==
  /\ At(u, "cleanup")
  /\ file' = [file EXCEPT ![u] = NoFile]
  /\ revision' = [revision EXCEPT ![u] = None]
  /\ wentBack' = wentBack \ {u}
  /\ End(u)
  /\ UNCHANGED <<etcd, force>>

------------------------------------------------------------------------------
(* What happens around cw-config.                                          *)

\* The user edits the local copy, whatever cw-config is doing.
Edit(u) ==
  /\ file[u] # NoFile
  /\ \E value \in Values : file' = [file EXCEPT ![u].value = value]
  /\ UNCHANGED <<etcd, force, revision, session, wentBack>>

\* A cw-config of any user deletes what is more than 30 days old: the two files
\* have ages of their own.
DeleteOutdated(u) ==
  /\ \E kept \in {file[u], NoFile} : file' = [file EXCEPT ![u] = kept]
  /\ \E kept \in {revision[u], None} : revision' = [revision EXCEPT ![u] = kept]
  /\ UNCHANGED <<etcd, force, session, wentBack>>

\* A config manager finds no key and creates it with the plugin's default.
CreateDefault ==
  /\ etcd = << >>
  /\ etcd' = <<Blank>>
  /\ UNCHANGED <<force, file, revision, session, wentBack>>

\* Opening a file for writing empties it; then the write may fail. An empty
\* revision file is no number.
SaveFails(u) ==
  /\ \/ /\ At(u, "save")
        /\ file' = [file EXCEPT ![u] = [value |-> Blank, base |-> session[u].revision]]
        /\ UNCHANGED <<revision, wentBack>>
     \/ /\ At(u, "number")
        /\ revision' = [revision EXCEPT ![u] = None]
        /\ wentBack' = wentBack \ {u}
        /\ UNCHANGED file
     \/ /\ session[u].pc \in {"save", "number"}
        /\ UNCHANGED <<file, revision, wentBack>>
  /\ End(u)
  /\ UNCHANGED <<etcd, force>>

\* etcd raises, after it has applied the write or before: cw-config exits.
EtcdRaises(u) ==
  /\ EtcdFails
  /\ \/ At(u, "confirm") /\ Accepted(u) /\ Store(u)
     \/ At(u, "check") /\ UNCHANGED etcd
  /\ End(u)
  /\ UNCHANGED <<force, file, revision, wentBack>>

Fault(u) == SaveFails(u) \/ EtcdRaises(u)

Next ==
  \/ CreateDefault
  \/ \E u \in Users :
       \/ DownloadConfig(u) \/ SaveConfig(u) \/ SaveRevision(u)
       \/ LoadConfig(u) \/ CheckRevision(u) \/ WriteConfig(u) \/ GiveUp(u)
       \/ \E overridden \in BOOLEAN : SetForce(u, overridden)
       \/ ConfigCleanup(u) \/ Edit(u) \/ DeleteOutdated(u) \/ Fault(u)

Spec == Init /\ [][Next]_vars

------------------------------------------------------------------------------
(* Correctness.                                                            *)

\* A revision number never vouches for more than the local copy beside it was
\* made from: whatever part of a download failed, or was deleted for its age,
\* an older copy cannot pass for the latest one (config_access.py:326-343). The
\* exception are the users whom a lagging member of the etcd cluster sent back
\* (config_access.py:205): until a number is saved again, the newer one stays.
RevisionNotAhead ==
  \A u \in Users \ wentBack : file[u] # NoFile => revision[u] <= file[u].base

\* The write with which an upload of u replaces what is in etcd.
Replaces(u) == At(u, "confirm") /\ session'[u] # session[u] /\ etcd' # etcd

\* The upload of u replaces what u had downloaded. One made from a key that was
\* read as missing need not: it is written without a condition
\* (config_access.py:228-231).
OnTop(u) ==
  Replaces(u) /\ session[u].revision # 0 => session[u].base = Latest

\* What an upload replaces is what its user had downloaded, whatever happened to
\* the local copy and its number in between, and however old the revision is that
\* the check before the upload reads; but for the users who were sent back.
NoSilentOverwrite == [][\A u \in Users \ wentBack : OnTop(u)]_vars

\* The same of all users: "Users are not allowed to upload changes if someone else
\* has uploaded config to the etcd cluster in the meantime"
\* (config_access.py:685-686). It takes reads that do not lag.
NoUploadInTheMeantime == [][\A u \in Users : OnTop(u)]_vars

------------------------------------------------------------------------------
(* Why these hold.                                                         *)

\* No revision is newer than the latest, and a number about to be saved is of the
\* copy just saved. A download is about to save a copy that is no older than the
\* number on disk, an upload carries one that is no older than its revision, unless
\* the user was sent back.
InOrder(u) ==
  /\ revision[u] <= Latest /\ file[u].base <= Latest
  /\ session[u].revision <= Latest /\ session[u].base <= Latest
  /\ At(u, "number") /\ file[u] # NoFile => session[u].revision <= file[u].base
  /\ u \notin wentBack =>
       /\ At(u, "save") => revision[u] <= session[u].revision
       /\ session[u].pc \in {"check", "confirm"} => session[u].revision <= session[u].base

\* Reads that do not lag send nobody back.
SentBackByLag == wentBack # {} => ReadsLag

IInv ==
  /\ TypeOK /\ RevisionNotAhead /\ SentBackByLag
  /\ \A u \in Users : InOrder(u)
==============================================================================
