----------------------------- MODULE QueueConfig -----------------------------
(***************************************************************************)
(* The queue of nodes that have to apply a configuration, as the class     *)
(* QueueConfig reads and edits it: the JSON value of one key in etcd, with *)
(* the members FORCE, QUEUED, ERRORED and COMPLETED.                       *)
(*                                                                         *)
(* QUEUED is a sequence of entries. The order of COMPLETED is never read,  *)
(* and that of ERRORED only when failed nodes are queued again: both are   *)
(* sets here, and Retries gives every order.                               *)
(***************************************************************************)
EXTENDS Naturals, Sequences, FiniteSets, Functions

CONSTANT Nodes   \* the nodes that may ever be queued

ASSUME NodesAssumption == IsFiniteSet(Nodes)

QUEUED == "QUEUED"
PROCESSING == "PROCESSING"
FAILURE == "FAILURE"
UNRESPONSIVE == "UNRESPONSIVE"

Entry(n, status) == [id |-> n, status |-> status]

QueueEntries == [id : Nodes, status : {QUEUED, PROCESSING}]
ErrorEntries == [id : Nodes, status : {FAILURE, UNRESPONSIVE}]
QueueConfigs ==
  [force : BOOLEAN, queued : Seq(QueueEntries), errored : SUBSET ErrorEntries,
   completed : SUBSET Nodes]

\* The value a missing key is created with.
DefaultValue ==
  [force |-> FALSE, queued |-> <<>>, errored |-> {}, completed |-> {}]

InList(entries, n) == \E e \in entries : e.id = n
InQueue(c, n) == InList(Range(c.queued), n)
InError(c, n) == InList(c.errored, n)

AtFront(c, n) == c.queued # <<>> /\ Head(c.queued).id = n
BeingProcessed(c, n) == AtFront(c, n) /\ Head(c.queued).status = PROCESSING

------------------------------------------------------------------------------
(* Adding a node, and the start of its turn.                               *)

\* The nodes whose failure is to be retried, in any order. Unresponsive nodes
\* are not retried.
Retries(c) ==
  LET failed == {e.id : e \in {f \in c.errored : f.status = FAILURE}}
  IN {q \in [1..Cardinality(failed) -> {Entry(n, QUEUED) : n \in failed}] :
        IsInjective(q)}

\* Mutants of Enqueue: at the front of the queue; even if it is there already;
\* not if it is being processed.
EnqueueFirst(c, n) ==
  IF Entry(n, QUEUED) \in Range(c.queued) THEN c
  ELSE [c EXCEPT !.queued = <<Entry(n, QUEUED)>> \o @]
EnqueueAgain(c, n) == [c EXCEPT !.queued = Append(@, Entry(n, QUEUED))]

EnqueueOnce(c, n) ==
  IF InQueue(c, n) THEN c ELSE [c EXCEPT !.queued = Append(@, Entry(n, QUEUED))]

Enqueue(c, n) ==
  IF Entry(n, QUEUED) \in Range(c.queued) THEN c
  ELSE [c EXCEPT !.queued = Append(@, Entry(n, QUEUED))]

\* Mutant of Started: ERRORED is emptied before it is copied.
StartedAfresh(c, retries) ==
  IF c.queued # <<>> THEN c ELSE [c EXCEPT !.errored = {}]

\* A first entry starts a resync: it begins with the retries.
Started(c, retries) ==
  IF c.queued # <<>> THEN c
  ELSE [c EXCEPT !.queued = retries, !.errored = {}]

\* Mutant of AddToQueue: the node stays in COMPLETED.
AddCompleted(c, n, retries) == Enqueue(Started(c, retries), n)

AddToQueue(c, n, retries) ==
  [Enqueue(Started(c, retries), n) EXCEPT !.completed = @ \ {n}]

MoveToProcessing(c, n) ==
  IF AtFront(c, n) THEN [c EXCEPT !.queued[1].status = PROCESSING] ELSE c

------------------------------------------------------------------------------
(* The end of a turn.                                                      *)

\* Mutant of RemoveFirst: COMPLETED outlives the resync.
RemoveFirstOnly(c) == [c EXCEPT !.queued = Tail(@)]

\* The COMPLETED list ends with the resync.
RemoveFirst(c) ==
  [c EXCEPT !.queued = Tail(@),
            !.completed = IF Tail(c.queued) = <<>> THEN {} ELSE @]

\* Mutant of NodeFailed: FORCE is not looked at.
NodeFailedUnforced(c, n, status) ==
  [c EXCEPT !.errored = @ \cup {Entry(n, status)}, !.queued = <<>>, !.completed = {}]

\* A failure is the end of the resync, but under FORCE.
NodeFailed(c, n, status) ==
  LET failed == [c EXCEPT !.errored = @ \cup {Entry(n, status)}]
  IN IF ~c.force THEN [failed EXCEPT !.queued = <<>>, !.completed = {}]
     ELSE IF AtFront(c, n) THEN c ELSE failed

NodeSucceeded(c, n) ==
  IF InQueue(c, n) \/ c.queued = <<>> THEN c
  ELSE [c EXCEPT !.completed = @ \cup {n}]

\* A node whose turn comes is not errored any more.
ClearFront(c) == [c EXCEPT !.errored = {e \in @ : ~AtFront(c, e.id)}]

\* Mutant of MarkUnresponsive: the entry moves to ERRORED with the status it had.
MarkMoved(c, n) == ClearFront(NodeFailed(RemoveFirst(c), n, Head(c.queued).status))

MarkUnresponsive(c, n) == ClearFront(NodeFailed(RemoveFirst(c), n, UNRESPONSIVE))

\* The node reports the end of its turn. It may be its turn no longer.
RemoveFromQueue(c, n, successful) ==
  IF ~BeingProcessed(c, n) THEN c
  ELSE ClearFront(IF successful THEN NodeSucceeded(RemoveFirst(c), n)
                                ELSE NodeFailed(RemoveFirst(c), n, FAILURE))

------------------------------------------------------------------------------
(* What every queue satisfies.                                             *)

\* Only the front of QUEUED is being processed, and no entry is there twice
\* (remove_from_queue deletes the front entry, whatever is behind it).
InOrder(c) ==
  /\ \A i \in DOMAIN c.queued : i > 1 => c.queued[i].status = QUEUED
  /\ IsInjective(c.queued)

\* What a resync completed is forgotten when it ends; a node that completed is
\* neither waiting for another turn nor errored.
CompletedAgrees(c) ==
  /\ c.queued = <<>> => c.completed = {}
  /\ \A n \in c.completed : ~InQueue(c, n) /\ ~InError(c, n)

\* A node has failed or been unresponsive, and not both; at the front of the
\* queue it is not errored any more.
ErroredAgrees(c) ==
  /\ \A e, f \in c.errored : e.id = f.id => e = f
  /\ \A e \in c.errored : ~AtFront(c, e.id)

WellFormed(c) ==
  c \in QueueConfigs /\ InOrder(c) /\ CompletedAgrees(c) /\ ErroredAgrees(c)

==============================================================================
