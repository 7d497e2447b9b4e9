--------------------------- MODULE QueueConfigProofs ---------------------------
(***************************************************************************)
(* What each operation of QueueConfig does to a well-formed queue, for any *)
(* finite set of nodes. The proofs about QueueProtocol, QueueManager and   *)
(* ConfigSite rest on these lemmas.                                        *)
(***************************************************************************)
EXTENDS QueueConfig, FiniteSetTheorems, TLAPS

\* A queue whose front entry has just been removed: the new front may still be
\* errored.
HalfFormed(c) ==
  /\ c \in QueueConfigs /\ InOrder(c) /\ CompletedAgrees(c)
  /\ \A e, f \in c.errored : e.id = f.id => e = f

------------------------------------------------------------------------------
(* Fields of queues, and entries of sequences.                             *)

\* What the fields of a queue hold.
LEMMA Fields ==
  ASSUME NEW c \in QueueConfigs
  PROVE  /\ c.force \in BOOLEAN
         /\ c.queued \in Seq(QueueEntries)
         /\ c.errored \in SUBSET ErrorEntries
         /\ c.completed \in SUBSET Nodes
  BY DEF QueueConfigs

\* Removing the first entry shifts the others.
LEMMA TailEntries ==
  ASSUME NEW S, NEW s \in Seq(S), s # <<>>
  PROVE  /\ Tail(s) \in Seq(S)
         /\ DOMAIN Tail(s) = 1..(Len(s) - 1)
         /\ \A i \in DOMAIN Tail(s) : Tail(s)[i] = s[i + 1] /\ i + 1 \in DOMAIN s
         /\ Range(Tail(s)) \subseteq Range(s)
  BY SMT DEF Range

\* The first entry is one of the entries.
LEMMA HeadEntry ==
  ASSUME NEW S, NEW s \in Seq(S), s # <<>>
  PROVE  Head(s) \in S /\ Head(s) = s[1] /\ 1 \in DOMAIN s /\ Head(s) \in Range(s)
  BY SMT DEF Range

\* Appending adds one entry, at the end.
LEMMA AppendEntries ==
  ASSUME NEW S, NEW s \in Seq(S), NEW e \in S
  PROVE  /\ Append(s, e) \in Seq(S)
         /\ Append(s, e) # <<>>
         /\ DOMAIN Append(s, e) = 1..(Len(s) + 1)
         /\ DOMAIN s = 1..Len(s)
         /\ \A i \in DOMAIN s : Append(s, e)[i] = s[i]
         /\ Append(s, e)[Len(s) + 1] = e
         /\ Range(Append(s, e)) = Range(s) \cup {e}
         /\ s # <<>> => Head(Append(s, e)) = Head(s)
         /\ s = <<>> => Head(Append(s, e)) = e
<1> DEFINE t == Append(s, e)
<1>1. /\ t \in Seq(S) /\ t # <<>> /\ DOMAIN t = 1..(Len(s) + 1) /\ DOMAIN s = 1..Len(s)
      /\ \A i \in DOMAIN s : t[i] = s[i]
      /\ t[Len(s) + 1] = e
  OBVIOUS
<1>2. Range(t) = Range(s) \cup {e}
  BY <1>1 DEF Range
<1>3. s # <<>> => Head(t) = Head(s)
  BY <1>1
<1>4. s = <<>> => Head(t) = e
  BY <1>1
<1> QED BY <1>1, <1>2, <1>3, <1>4

------------------------------------------------------------------------------
(* The operations on a well-formed queue.                                  *)

\* Removing the first entry of the queue forgets a node which is errored no
\* more and has not completed.
LEMMA RemovedFirst ==
  ASSUME NEW c, WellFormed(c), NEW n \in Nodes, AtFront(c, n)
  PROVE  /\ HalfFormed(RemoveFirst(c))
         /\ ~InError(RemoveFirst(c), n)
         /\ n \notin RemoveFirst(c).completed
         /\ RemoveFirst(c).force = c.force
<1> DEFINE d == RemoveFirst(c)
<1>1. c \in QueueConfigs /\ c.queued \in Seq(QueueEntries) /\ c.queued # <<>>
  BY Fields DEF WellFormed, AtFront
<1>2. /\ Tail(c.queued) \in Seq(QueueEntries)
      /\ DOMAIN Tail(c.queued) = 1..(Len(c.queued) - 1)
      /\ \A i \in DOMAIN Tail(c.queued) :
            Tail(c.queued)[i] = c.queued[i + 1] /\ i + 1 \in DOMAIN c.queued
      /\ Range(Tail(c.queued)) \subseteq Range(c.queued)
  BY <1>1, TailEntries
<1>3. /\ d.queued = Tail(c.queued) /\ d.errored = c.errored /\ d.force = c.force
      /\ d.completed = IF Tail(c.queued) = <<>> THEN {} ELSE c.completed
      /\ d \in QueueConfigs
  <2> DEFINE done == IF Tail(c.queued) = <<>> THEN {} ELSE c.completed
  <2>1. d = [c EXCEPT !.queued = Tail(c.queued), !.completed = done]
    BY DEF RemoveFirst
  <2>2. done \in SUBSET Nodes
    BY <1>1, Fields
  <2> HIDE DEF done, d
  <2>3. /\ d.queued = Tail(c.queued) /\ d.errored = c.errored /\ d.force = c.force
        /\ d.completed = done /\ d \in QueueConfigs
    BY <1>1, <1>2, <2>1, <2>2 DEF QueueConfigs
  <2> QED BY <2>3 DEF done
<1>4. InOrder(d)
  <2>1. \A i \in DOMAIN d.queued : i > 1 => d.queued[i].status = QUEUED
    BY <1>1, <1>2, <1>3 DEF WellFormed, InOrder
  <2>2. ASSUME NEW i \in DOMAIN d.queued, NEW j \in DOMAIN d.queued,
               d.queued[i] = d.queued[j]
        PROVE  i = j
    <3>1. /\ i + 1 \in DOMAIN c.queued /\ j + 1 \in DOMAIN c.queued
          /\ c.queued[i + 1] = c.queued[j + 1]
      BY <1>2, <1>3, <2>2
    <3>2. \A x, y \in DOMAIN c.queued : c.queued[x] = c.queued[y] => x = y
      BY DEF WellFormed, InOrder, IsInjective
    <3>3. i + 1 = j + 1
      BY ONLY <3>1, <3>2, Zenon
    <3>4. i \in Int /\ j \in Int
      BY <1>1, <1>2, <1>3
    <3> QED BY <3>3, <3>4
  <2> QED BY <2>1, <2>2 DEF InOrder, IsInjective
<1>5. CompletedAgrees(d)
  BY <1>2, <1>3 DEF WellFormed, CompletedAgrees, InQueue, InError, InList
<1>6. ~InError(d, n)
  BY <1>3 DEF WellFormed, ErroredAgrees, InError, InList
<1>7. InQueue(c, n)
  BY <1>1, HeadEntry DEF AtFront, InQueue, InList
<1>8. n \notin d.completed
  BY <1>3, <1>7 DEF WellFormed, CompletedAgrees
<1> QED BY <1>3, <1>4, <1>5, <1>6, <1>8 DEF WellFormed, HalfFormed, ErroredAgrees

\* Clearing the new front makes a half-formed queue well formed.
LEMMA ClearedFront ==
  ASSUME NEW c, HalfFormed(c)
  PROVE  WellFormed(ClearFront(c))
<1> DEFINE d == ClearFront(c)
           left == {e \in c.errored : ~AtFront(c, e.id)}
<1>1. d = [c EXCEPT !.errored = left]
  BY DEF ClearFront
<1>2. c \in QueueConfigs /\ left \in SUBSET ErrorEntries
  BY Fields DEF HalfFormed
<1> HIDE DEF d
<1>3. /\ d.queued = c.queued /\ d.errored = left /\ d.force = c.force
      /\ d.completed = c.completed /\ d \in QueueConfigs
  BY <1>1, <1>2 DEF QueueConfigs
<1>4. InOrder(d)
  BY <1>3 DEF HalfFormed, InOrder
<1>5. CompletedAgrees(d)
  BY <1>3 DEF HalfFormed, CompletedAgrees, InQueue, InError, InList
<1>6. ErroredAgrees(d)
  BY <1>3 DEF HalfFormed, ErroredAgrees, AtFront
<1> QED BY <1>3, <1>4, <1>5, <1>6 DEF WellFormed, d

\* A failure of the node just removed leaves a half-formed queue.
LEMMA FailedNode ==
  ASSUME NEW c, HalfFormed(c), NEW n \in Nodes, NEW status \in {FAILURE, UNRESPONSIVE},
         ~InError(c, n), n \notin c.completed
  PROVE  HalfFormed(NodeFailed(c, n, status))
<1> DEFINE e == Entry(n, status)
           failed == [c EXCEPT !.errored = c.errored \cup {e}]
           stopped == [failed EXCEPT !.queued = <<>>, !.completed = {}]
<1>1. c \in QueueConfigs /\ e \in ErrorEntries /\ e.id = n
  BY DEF HalfFormed, ErrorEntries, Entry
<1> HIDE DEF e
<1>2. /\ failed.queued = c.queued /\ failed.errored = c.errored \cup {e}
      /\ failed.completed = c.completed /\ failed \in QueueConfigs
  BY <1>1 DEF QueueConfigs
<1>3. \A f, g \in failed.errored : f.id = g.id => f = g
  BY <1>1, <1>2 DEF HalfFormed, InError, InList
<1> HIDE DEF failed
<1>4. HalfFormed(failed)
  <2>1. InOrder(failed)
    BY <1>2 DEF HalfFormed, InOrder
  <2>2. CompletedAgrees(failed)
    BY <1>1, <1>2 DEF HalfFormed, CompletedAgrees, InQueue, InError, InList
  <2> QED BY <1>2, <1>3, <2>1, <2>2 DEF HalfFormed
<1>5. /\ stopped.queued = <<>> /\ stopped.errored = failed.errored
      /\ stopped.completed = {} /\ stopped \in QueueConfigs
  <2>1. <<>> \in Seq(QueueEntries) /\ failed \in QueueConfigs
    BY <1>2
  <2> HIDE DEF failed
  <2> QED BY <2>1 DEF QueueConfigs
<1> HIDE DEF stopped
<1>6. HalfFormed(stopped)
  BY <1>3, <1>5 DEF HalfFormed, InOrder, IsInjective, CompletedAgrees
<1>7. NodeFailed(c, n, status) \in {c, failed, stopped}
  BY DEF NodeFailed, e, failed, stopped
<1> QED BY <1>4, <1>6, <1>7

\* A success of the node just removed leaves a half-formed queue.
LEMMA SucceededNode ==
  ASSUME NEW c, HalfFormed(c), NEW n \in Nodes, ~InError(c, n)
  PROVE  HalfFormed(NodeSucceeded(c, n))
<1> DEFINE d == [c EXCEPT !.completed = c.completed \cup {n}]
<1>1. CASE InQueue(c, n) \/ c.queued = <<>>
  BY <1>1 DEF NodeSucceeded
<1>2. CASE ~InQueue(c, n) /\ c.queued # <<>>
  <2>1. NodeSucceeded(c, n) = d
    BY <1>2 DEF NodeSucceeded
  <2>2. /\ d.queued = c.queued /\ d.errored = c.errored
        /\ d.completed = c.completed \cup {n} /\ d \in QueueConfigs
    BY DEF HalfFormed, QueueConfigs
  <2> HIDE DEF d
  <2>3. InOrder(d)
    BY <2>2 DEF HalfFormed, InOrder
  <2>4. CompletedAgrees(d)
    BY <1>2, <2>2 DEF HalfFormed, CompletedAgrees, InQueue, InError, InList
  <2> QED BY <2>1, <2>2, <2>3, <2>4 DEF HalfFormed
<1> QED BY <1>1, <1>2

\* The retries are a queue in order.
LEMMA RetriesInOrder ==
  ASSUME NEW c \in QueueConfigs, NEW retries \in Retries(c)
  PROVE  /\ retries \in Seq(QueueEntries)
         /\ \A i \in DOMAIN retries : retries[i].status = QUEUED
         /\ IsInjective(retries)
<1> DEFINE failed == {e.id : e \in {f \in c.errored : f.status = FAILURE}}
           entries == {Entry(n, QUEUED) : n \in failed}
<1>1. failed \subseteq Nodes
  BY Fields DEF ErrorEntries
<1>2. Cardinality(failed) \in Nat
  BY <1>1, NodesAssumption, FS_Subset, FS_CardinalityType
<1>3. entries \subseteq QueueEntries /\ \A e \in entries : e.status = QUEUED
  BY <1>1 DEF Entry, QueueEntries
<1>4. retries \in [1..Cardinality(failed) -> entries] /\ IsInjective(retries)
  BY DEF Retries
<1> HIDE DEF failed, entries
<1>5. retries \in Seq(entries) /\ \A i \in DOMAIN retries : retries[i] \in entries
  BY <1>2, <1>4
<1> QED BY <1>3, <1>4, <1>5

\* Starting a resync with the retries leaves a well-formed queue, which has
\* errored nodes only if it was not empty.
LEMMA StartedResync ==
  ASSUME NEW c, WellFormed(c), NEW retries \in Retries(c)
  PROVE  /\ WellFormed(Started(c, retries))
         /\ Started(c, retries).queued = <<>> => Started(c, retries).errored = {}
         /\ c.queued # <<>> => Started(c, retries) = c
<1> DEFINE d == [c EXCEPT !.queued = retries, !.errored = {}]
<1>1. CASE c.queued # <<>>
  BY <1>1 DEF Started
<1>2. CASE c.queued = <<>>
  <2>1. Started(c, retries) = d
    BY <1>2 DEF Started
  <2>2. c \in QueueConfigs /\ c.completed = {}
    BY <1>2 DEF WellFormed, CompletedAgrees
  <2>3. /\ retries \in Seq(QueueEntries) /\ IsInjective(retries)
        /\ \A i \in DOMAIN retries : retries[i].status = QUEUED
    BY <2>2, RetriesInOrder
  <2>4. /\ d.queued = retries /\ d.errored = {} /\ d.completed = {}
        /\ d \in QueueConfigs
    BY <2>2, <2>3 DEF QueueConfigs
  <2> HIDE DEF d
  <2>5. InOrder(d) /\ CompletedAgrees(d) /\ ErroredAgrees(d)
    BY <2>3, <2>4 DEF InOrder, CompletedAgrees, ErroredAgrees
  <2> QED BY <1>2, <2>1, <2>4, <2>5 DEF WellFormed
<1> QED BY <1>1, <1>2

\* An entry goes to the end of the queue.
LEMMA Enqueued ==
  ASSUME NEW c, WellFormed(c), NEW n \in Nodes, c.queued = <<>> => c.errored = {}
  PROVE  /\ Enqueue(c, n) \in QueueConfigs
         /\ Enqueue(c, n).completed = c.completed
         /\ Enqueue(c, n).queued # <<>>
         /\ InOrder(Enqueue(c, n)) /\ ErroredAgrees(Enqueue(c, n))
         /\ \A m \in Nodes : InError(Enqueue(c, n), m) => InError(c, m)
         /\ \A m \in Nodes : InQueue(Enqueue(c, n), m) => InQueue(c, m) \/ m = n
         /\ \A m \in Nodes : BeingProcessed(c, m) => BeingProcessed(Enqueue(c, n), m)
<1> DEFINE e == Entry(n, QUEUED)
           d == [c EXCEPT !.queued = Append(c.queued, e)]
<1>1. /\ c \in QueueConfigs /\ c.queued \in Seq(QueueEntries) /\ e \in QueueEntries
      /\ e.id = n /\ e.status = QUEUED
  BY Fields DEF WellFormed, Entry, QueueEntries
<1>2. CASE e \in Range(c.queued)
  <2>1. Enqueue(c, n) = c /\ c.queued # <<>>
    BY <1>2 DEF Enqueue, Range
  <2> QED BY <2>1 DEF WellFormed
<1>3. CASE e \notin Range(c.queued)
  <2>1. Enqueue(c, n) = d
    BY <1>3 DEF Enqueue
  <2> HIDE DEF e
  <2>2. /\ Append(c.queued, e) \in Seq(QueueEntries)
        /\ Append(c.queued, e) # <<>>
        /\ DOMAIN Append(c.queued, e) = 1..(Len(c.queued) + 1)
        /\ DOMAIN c.queued = 1..Len(c.queued)
        /\ \A i \in DOMAIN c.queued : Append(c.queued, e)[i] = c.queued[i]
        /\ Append(c.queued, e)[Len(c.queued) + 1] = e
        /\ Range(Append(c.queued, e)) = Range(c.queued) \cup {e}
        /\ c.queued # <<>> => Head(Append(c.queued, e)) = Head(c.queued)
    BY <1>1, AppendEntries
  <2>3. /\ d.queued = Append(c.queued, e) /\ d.errored = c.errored
        /\ d.completed = c.completed /\ d \in QueueConfigs
    BY <1>1, <2>2 DEF QueueConfigs
  <2> HIDE DEF d
  <2>4. \A i \in DOMAIN d.queued : i > 1 => d.queued[i].status = QUEUED
    BY <1>1, <2>2, <2>3 DEF WellFormed, InOrder
  <2>5. IsInjective(d.queued)
    <3>1. \A i \in DOMAIN c.queued : c.queued[i] # e
      BY <1>3 DEF Range
    <3>2. \A i, j \in DOMAIN c.queued : c.queued[i] = c.queued[j] => i = j
      BY DEF WellFormed, InOrder, IsInjective
    <3>3. Len(c.queued) \in Nat
      BY <1>1
    <3> QED BY <2>2, <2>3, <3>1, <3>2, <3>3 DEF IsInjective
  <2>6. ErroredAgrees(d)
    BY <2>2, <2>3 DEF WellFormed, ErroredAgrees, AtFront
  <2>7. \A m \in Nodes : InQueue(d, m) => InQueue(c, m) \/ m = n
    BY <1>1, <2>2, <2>3 DEF InQueue, InList
  <2>8. \A m \in Nodes : BeingProcessed(c, m) => BeingProcessed(d, m)
    BY <2>2, <2>3 DEF BeingProcessed, AtFront
  <2> QED BY <2>1, <2>2, <2>3, <2>4, <2>5, <2>6, <2>7, <2>8 DEF InOrder, InError
<1> QED BY <1>2, <1>3

\* Adding a node keeps the queue well formed and the turn in progress.
LEMMA Added ==
  ASSUME NEW c, WellFormed(c), NEW n \in Nodes, NEW retries \in Retries(c)
  PROVE  /\ WellFormed(AddToQueue(c, n, retries))
         /\ \A m \in Nodes : BeingProcessed(c, m) =>
                              BeingProcessed(AddToQueue(c, n, retries), m)
<1> DEFINE s == Started(c, retries)
           d == Enqueue(s, n)
           a == AddToQueue(c, n, retries)
<1>1. WellFormed(s) /\ (s.queued = <<>> => s.errored = {}) /\ (c.queued # <<>> => s = c)
  BY StartedResync
<1>2. a = [d EXCEPT !.completed = d.completed \ {n}]
  BY DEF AddToQueue
<1> HIDE DEF s
<1>3. /\ d \in QueueConfigs /\ d.completed = s.completed /\ d.queued # <<>>
      /\ InOrder(d) /\ ErroredAgrees(d)
      /\ \A m \in Nodes : InError(d, m) => InError(s, m)
      /\ \A m \in Nodes : InQueue(d, m) => InQueue(s, m) \/ m = n
      /\ \A m \in Nodes : BeingProcessed(s, m) => BeingProcessed(d, m)
  BY <1>1, Enqueued
<1> HIDE DEF d, a
<1>4. /\ a.queued = d.queued /\ a.errored = d.errored
      /\ a.completed = d.completed \ {n} /\ a \in QueueConfigs
  BY <1>2, <1>3 DEF QueueConfigs
<1>5. InOrder(a) /\ ErroredAgrees(a)
  BY <1>3, <1>4 DEF InOrder, ErroredAgrees, AtFront
<1>6. CompletedAgrees(a)
  <2>1. a.completed \subseteq Nodes
    BY <1>4, Fields
  <2>2. ASSUME NEW m \in a.completed PROVE ~InQueue(a, m) /\ ~InError(a, m)
    <3>1. m \in Nodes /\ m # n /\ m \in s.completed
      BY <1>3, <1>4, <2>1, <2>2
    <3>2. ~InQueue(s, m) /\ ~InError(s, m)
      BY <1>1, <3>1 DEF WellFormed, CompletedAgrees
    <3>3. ~InQueue(d, m) /\ ~InError(d, m)
      BY <1>3, <3>1, <3>2
    <3> QED BY <1>4, <3>3 DEF InQueue, InError
  <2>3. a.queued # <<>>
    BY <1>3, <1>4
  <2> QED BY <2>2, <2>3 DEF CompletedAgrees
<1>7. ASSUME NEW m \in Nodes, BeingProcessed(c, m) PROVE BeingProcessed(a, m)
  <2>1. BeingProcessed(s, m)
    BY <1>1, <1>7 DEF BeingProcessed, AtFront
  <2> QED BY <1>3, <1>4, <2>1 DEF BeingProcessed, AtFront
<1> QED BY <1>4, <1>5, <1>6, <1>7 DEF WellFormed, a

\* Taking a turn changes the front entry and nothing else.
LEMMA TurnTaken ==
  ASSUME NEW c, WellFormed(c), NEW n \in Nodes, AtFront(c, n)
  PROVE  /\ WellFormed(MoveToProcessing(c, n))
         /\ BeingProcessed(MoveToProcessing(c, n), n)
<1> DEFINE d == MoveToProcessing(c, n)
           q == [c.queued EXCEPT ![1].status = PROCESSING]
<1>1. /\ c \in QueueConfigs /\ c.queued \in Seq(QueueEntries) /\ c.queued # <<>>
      /\ Head(c.queued).id = n
  BY Fields DEF WellFormed, AtFront
<1>2. d = [c EXCEPT !.queued = q]
  BY DEF MoveToProcessing
<1>3. Head(c.queued) = c.queued[1] /\ 1 \in DOMAIN c.queued /\ c.queued[1] \in QueueEntries
  BY <1>1, HeadEntry
<1>4. /\ q = [c.queued EXCEPT ![1] = [c.queued[1] EXCEPT !.status = PROCESSING]]
      /\ [c.queued[1] EXCEPT !.status = PROCESSING] = Entry(n, PROCESSING)
      /\ Entry(n, PROCESSING) \in QueueEntries
  BY <1>1, <1>3 DEF QueueEntries, Entry
<1>5. /\ q \in Seq(QueueEntries) /\ DOMAIN q = DOMAIN c.queued /\ q # <<>>
      /\ q[1] = Entry(n, PROCESSING) /\ Head(q) = q[1]
      /\ \A i \in DOMAIN c.queued : i # 1 => q[i] = c.queued[i]
  <2> HIDE DEF q
  <2> QED BY <1>1, <1>3, <1>4
<1> HIDE DEF d, q
<1>6. /\ d.queued = q /\ d.errored = c.errored /\ d.completed = c.completed
      /\ d \in QueueConfigs
  BY <1>1, <1>2, <1>5 DEF QueueConfigs
<1>7. Entry(n, PROCESSING).id = n /\ Entry(n, PROCESSING).status = PROCESSING
  BY DEF Entry
<1>8. DOMAIN c.queued \subseteq Int
  BY <1>1
<1>9. \A i \in DOMAIN q : q[i].id = c.queued[i].id
  BY <1>1, <1>3, <1>5, <1>7
<1>10. InOrder(d)
  <2>1. \A i \in DOMAIN c.queued : i > 1 => c.queued[i].status = QUEUED
    BY DEF WellFormed, InOrder
  <2>2. \A i \in DOMAIN c.queued : i # 1 => i > 1
    BY <1>1
  <2>3. \A i \in DOMAIN d.queued : i > 1 => d.queued[i].status = QUEUED
    BY <1>5, <1>6, <2>1
  <2>4. ASSUME NEW i \in DOMAIN q, NEW j \in DOMAIN q, q[i] = q[j] PROVE i = j
    <3>1. \A x \in DOMAIN q : x # 1 => q[x].status = QUEUED
      BY <1>5, <2>1, <2>2
    <3>2. QUEUED # PROCESSING
      BY DEF QUEUED, PROCESSING
    <3>3. CASE i = 1 \/ j = 1
      BY <1>5, <1>7, <2>4, <3>1, <3>2, <3>3
    <3>4. CASE i # 1 /\ j # 1
      BY <1>5, <2>4, <3>4 DEF WellFormed, InOrder, IsInjective
    <3> QED BY <3>3, <3>4
  <2> QED BY <1>6, <2>3, <2>4 DEF InOrder, IsInjective
<1>11. \A m : InQueue(d, m) => InQueue(c, m)
  BY <1>5, <1>6, <1>9 DEF InQueue, InList, Range
<1>12. CompletedAgrees(d)
  BY <1>5, <1>6, <1>11 DEF WellFormed, CompletedAgrees, InError
<1>13. \A m : AtFront(d, m) <=> m = n
  BY <1>5, <1>6, <1>7 DEF AtFront
<1>14. ErroredAgrees(d)
  BY <1>6, <1>13 DEF WellFormed, ErroredAgrees
<1>15. BeingProcessed(d, n)
  BY <1>5, <1>6, <1>7 DEF BeingProcessed, AtFront
<1> QED BY <1>6, <1>10, <1>12, <1>14, <1>15 DEF WellFormed, d

\* Whatever ends the turn of the node at the front, the queue is well formed.
LEMMA TurnEnded ==
  ASSUME NEW c, WellFormed(c), NEW n \in Nodes
  PROVE  /\ AtFront(c, n) => WellFormed(MarkUnresponsive(c, n))
         /\ \A successful \in BOOLEAN : WellFormed(RemoveFromQueue(c, n, successful))
<1> DEFINE d == RemoveFirst(c)
<1>1. ASSUME AtFront(c, n)
      PROVE  /\ WellFormed(ClearFront(NodeFailed(d, n, UNRESPONSIVE)))
             /\ WellFormed(ClearFront(NodeFailed(d, n, FAILURE)))
             /\ WellFormed(ClearFront(NodeSucceeded(d, n)))
  <2>1. HalfFormed(d) /\ ~InError(d, n) /\ n \notin d.completed
    BY <1>1, RemovedFirst
  <2> HIDE DEF d
  <2>2. /\ HalfFormed(NodeFailed(d, n, UNRESPONSIVE))
        /\ HalfFormed(NodeFailed(d, n, FAILURE))
        /\ HalfFormed(NodeSucceeded(d, n))
    BY <2>1, FailedNode, SucceededNode
  <2> QED BY <2>2, ClearedFront
<1>2. BeingProcessed(c, n) => AtFront(c, n)
  BY DEF BeingProcessed
<1> QED BY <1>1, <1>2 DEF MarkUnresponsive, RemoveFromQueue

\* Only one node is at the front.
LEMMA OneFront ==
  ASSUME NEW c, NEW m, NEW n, AtFront(c, m), AtFront(c, n)
  PROVE  m = n
  BY DEF AtFront

------------------------------------------------------------------------------
(* What the operations do to the failed nodes and to the nodes that wait.  *)

\* The retries are all the failed nodes: an injection between sets of the same
\* size leaves nobody out.
LEMMA AllRetried ==
  ASSUME NEW c \in QueueConfigs, NEW retries \in Retries(c), NEW n \in Nodes,
         Entry(n, FAILURE) \in c.errored
  PROVE  InList(Range(retries), n)
<1> DEFINE failed == {e.id : e \in {f \in c.errored : f.status = FAILURE}}
           entries == {Entry(m, QUEUED) : m \in failed}
           k == Cardinality(failed)
           entry == [m \in failed |-> Entry(m, QUEUED)]
<1>1. n \in failed
  BY DEF Entry
<1>2. failed \subseteq Nodes
  BY Fields DEF ErrorEntries
<1>3. IsFiniteSet(failed) /\ k \in Nat
  BY <1>2, NodesAssumption, FS_Subset, FS_CardinalityType
<1>4. retries \in [1..k -> entries] /\ IsInjective(retries)
  BY DEF Retries
<1> HIDE DEF failed
<1>5. entry \in Bijection(failed, entries)
  BY DEF Entry, Bijection, Injection, Surjection, IsInjective
<1> HIDE DEF entries, k, entry
<1>6. IsFiniteSet(entries) /\ Cardinality(entries) = k
  <2>1. ExistsBijection(failed, entries)
    BY <1>5 DEF ExistsBijection
  <2> QED BY <1>3, <2>1, FS_Bijection DEF k
<1>7. Cardinality(1..k) = k
  BY <1>3, FS_Interval
<1>8. retries \in Injection(1..k, entries)
  BY <1>4 DEF Injection
<1>9. retries \in Surjection(1..k, entries)
  BY <1>6, <1>7, <1>8, FS_Injection
<1>10. Entry(n, QUEUED) \in entries
  BY <1>1 DEF entries
<1>11. PICK i \in 1..k : retries[i] = Entry(n, QUEUED)
  BY <1>9, <1>10 DEF Surjection
<1>12. Entry(n, QUEUED) \in Range(retries)
  BY <1>4, <1>11 DEF Range
<1> QED BY <1>12 DEF InList, Entry

\* Adding a node keeps whoever is in the queue or errored in one of the two, and
\* the failed nodes only in the queue if they are errored no more.
LEMMA AddKeeps ==
  ASSUME NEW c, WellFormed(c), NEW n \in Nodes, NEW retries \in Retries(c), NEW m \in Nodes
  PROVE  /\ InQueue(c, m) => InQueue(AddToQueue(c, n, retries), m)
         /\ Entry(m, FAILURE) \in c.errored =>
              \/ Entry(m, FAILURE) \in AddToQueue(c, n, retries).errored
              \/ InQueue(AddToQueue(c, n, retries), m)
<1> DEFINE s == Started(c, retries)
           d == Enqueue(s, n)
           a == AddToQueue(c, n, retries)
<1>1. WellFormed(s) /\ (s.queued = <<>> => s.errored = {}) /\ (c.queued # <<>> => s = c)
  BY StartedResync
<1>2. c.queued = <<>> => s.queued = retries
  <2>1. retries \in Seq(QueueEntries)
    BY RetriesInOrder DEF WellFormed
  <2> QED BY <2>1 DEF Started, WellFormed, QueueConfigs
<1>3. InQueue(c, m) => InQueue(s, m)
  BY <1>1 DEF InQueue, InList, Range
<1>4. Entry(m, FAILURE) \in c.errored => Entry(m, FAILURE) \in s.errored \/ InQueue(s, m)
  BY <1>1, <1>2, AllRetried DEF InQueue, WellFormed
<1> HIDE DEF s
<1>5. d \in QueueConfigs
  BY <1>1, Enqueued
<1>6. d.errored = s.errored /\ (InQueue(s, m) => InQueue(d, m))
  <2>1. CASE Entry(n, QUEUED) \in Range(s.queued)
    BY <2>1 DEF Enqueue
  <2>2. CASE Entry(n, QUEUED) \notin Range(s.queued)
    <3>1. d = [s EXCEPT !.queued = Append(s.queued, Entry(n, QUEUED))]
      BY <2>2 DEF Enqueue
    <3>2. s \in QueueConfigs /\ s.queued \in Seq(QueueEntries)
      BY <1>1, Fields DEF WellFormed
    <3>3. Entry(n, QUEUED) \in QueueEntries
      BY DEF Entry, QueueEntries
    <3>4. d.queued = Append(s.queued, Entry(n, QUEUED)) /\ d.errored = s.errored
      BY <3>1, <3>2 DEF QueueConfigs
    <3>5. Range(d.queued) = Range(s.queued) \cup {Entry(n, QUEUED)}
      BY <3>2, <3>3, <3>4, AppendEntries
    <3> QED BY <3>4, <3>5 DEF InQueue, InList
  <2> QED BY <2>1, <2>2
<1>7. a = [d EXCEPT !.completed = d.completed \ {n}]
  BY DEF AddToQueue, s
<1> HIDE DEF d, a
<1>8. a.queued = d.queued /\ a.errored = d.errored
  BY <1>5, <1>7 DEF QueueConfigs
<1> QED BY <1>3, <1>4, <1>6, <1>8 DEF InQueue, a

\* Taking a turn takes nobody off the queue, and no errors are cleared by it.
LEMMA TurnKeepsNodes ==
  ASSUME NEW c, WellFormed(c), NEW n \in Nodes, AtFront(c, n), NEW m \in Nodes
  PROVE  /\ InQueue(c, m) => InQueue(MoveToProcessing(c, n), m)
         /\ MoveToProcessing(c, n).errored = c.errored
<1> DEFINE q == [c.queued EXCEPT ![1].status = PROCESSING]
<1>1. /\ c \in QueueConfigs /\ c.queued \in Seq(QueueEntries) /\ c.queued # <<>>
  BY Fields DEF WellFormed, AtFront
<1>2. MoveToProcessing(c, n) = [c EXCEPT !.queued = q]
  BY DEF MoveToProcessing
<1>3. c.queued[1] \in QueueEntries /\ 1 \in DOMAIN c.queued
  BY <1>1, HeadEntry
<1>4. DOMAIN q = DOMAIN c.queued /\ \A i \in DOMAIN c.queued : q[i].id = c.queued[i].id
  BY <1>1, <1>3 DEF QueueEntries
<1> HIDE DEF q
<1>5. MoveToProcessing(c, n).queued = q /\ MoveToProcessing(c, n).errored = c.errored
  BY <1>1, <1>2 DEF QueueConfigs
<1> QED BY <1>4, <1>5 DEF InQueue, InList, Range

\* Removing the front entry keeps the entries of the other nodes.
LEMMA OthersStay ==
  ASSUME NEW c, WellFormed(c), NEW n \in Nodes, AtFront(c, n), NEW m \in Nodes,
         m # n, InQueue(c, m)
  PROVE  InQueue(RemoveFirst(c), m)
<1>1. c \in QueueConfigs /\ c.queued \in Seq(QueueEntries) /\ c.queued # <<>>
  BY Fields DEF WellFormed, AtFront
<1>2. /\ DOMAIN Tail(c.queued) = 1..(Len(c.queued) - 1)
      /\ \A i \in DOMAIN Tail(c.queued) : Tail(c.queued)[i] = c.queued[i + 1]
  BY <1>1, TailEntries
<1>3. RemoveFirst(c).queued = Tail(c.queued)
  <2> DEFINE done == IF Tail(c.queued) = <<>> THEN {} ELSE c.completed
  <2>1. RemoveFirst(c) = [c EXCEPT !.queued = Tail(c.queued), !.completed = done]
    BY DEF RemoveFirst
  <2> HIDE DEF done
  <2> QED BY <1>1, <2>1 DEF QueueConfigs
<1>4. PICK i \in DOMAIN c.queued : c.queued[i].id = m
  BY DEF InQueue, InList, Range
<1>5. i # 1
  BY <1>1, <1>4 DEF AtFront
<1>6. i - 1 \in DOMAIN Tail(c.queued) /\ (i - 1) + 1 = i
  BY <1>1, <1>2, <1>5
<1>7. Tail(c.queued)[i - 1].id = m
  BY <1>2, <1>4, <1>6
<1> QED BY <1>3, <1>6, <1>7 DEF InQueue, InList, Range

\* What the clearing of the front and the end of a turn do to the lists: only the
\* front is cleared, and all the nodes lose their place at once, if not FORCE.
LEMMA Cleared ==
  ASSUME NEW c \in QueueConfigs
  PROVE  /\ ClearFront(c).queued = c.queued
         /\ \A e \in c.errored : e \in ClearFront(c).errored \/ AtFront(c, e.id)
<1> DEFINE left == {e \in c.errored : ~AtFront(c, e.id)}
<1>1. ClearFront(c) = [c EXCEPT !.errored = left]
  BY DEF ClearFront
<1>2. ClearFront(c).queued = c.queued /\ ClearFront(c).errored = left
  BY <1>1 DEF QueueConfigs
<1> QED BY <1>2

LEMMA FailureStops ==
  ASSUME NEW c \in QueueConfigs, NEW n \in Nodes, NEW status \in {FAILURE, UNRESPONSIVE}
  PROVE  /\ NodeFailed(c, n, status) \in QueueConfigs
         /\ c.errored \subseteq NodeFailed(c, n, status).errored
         /\ \/ NodeFailed(c, n, status).queued = c.queued
            \/ /\ ~c.force /\ NodeFailed(c, n, status).queued = <<>>
               /\ NodeFailed(c, n, status).errored # {}
<1> DEFINE e == Entry(n, status)
           failed == [c EXCEPT !.errored = c.errored \cup {e}]
           stopped == [failed EXCEPT !.queued = <<>>, !.completed = {}]
<1>1. e \in ErrorEntries
  BY DEF ErrorEntries, Entry
<1> HIDE DEF e
<1>2. /\ failed.queued = c.queued /\ failed.errored = c.errored \cup {e}
      /\ failed \in QueueConfigs
  BY <1>1 DEF QueueConfigs
<1>3. <<>> \in Seq(QueueEntries)
  OBVIOUS
<1> HIDE DEF failed
<1>4. /\ stopped.queued = <<>> /\ stopped.errored = failed.errored
      /\ stopped \in QueueConfigs
  BY <1>2, <1>3 DEF QueueConfigs
<1> HIDE DEF stopped
<1>5. NodeFailed(c, n, status) =
        IF ~c.force THEN stopped ELSE IF AtFront(c, n) THEN c ELSE failed
  BY DEF NodeFailed, e, failed, stopped
<1> QED BY <1>2, <1>4, <1>5

LEMMA SuccessKeeps ==
  ASSUME NEW c \in QueueConfigs, NEW n \in Nodes
  PROVE  /\ NodeSucceeded(c, n) \in QueueConfigs
         /\ NodeSucceeded(c, n).queued = c.queued
         /\ NodeSucceeded(c, n).errored = c.errored
<1> DEFINE d == [c EXCEPT !.completed = c.completed \cup {n}]
<1>1. d.queued = c.queued /\ d.errored = c.errored /\ d \in QueueConfigs
  BY DEF QueueConfigs
<1>2. NodeSucceeded(c, n) \in {c, d}
  BY DEF NodeSucceeded
<1> QED BY <1>1, <1>2

\* The end of the turn of n, whatever its outcome.
LEMMA TurnEndKeepsNodes ==
  ASSUME NEW c, WellFormed(c), NEW n \in Nodes, AtFront(c, n), NEW d,
         \/ d = NodeSucceeded(RemoveFirst(c), n)
         \/ \E status \in {FAILURE, UNRESPONSIVE} : d = NodeFailed(RemoveFirst(c), n, status),
         NEW m \in Nodes
  PROVE  /\ Entry(m, FAILURE) \in c.errored =>
              Entry(m, FAILURE) \in ClearFront(d).errored \/ InQueue(ClearFront(d), m)
         /\ m # n /\ InQueue(c, m) =>
              \/ InQueue(ClearFront(d), m)
              \/ ~c.force /\ ClearFront(d).errored # {}
<1> DEFINE r == RemoveFirst(c)
<1>1. r \in QueueConfigs /\ r.force = c.force
  BY RemovedFirst DEF HalfFormed
<1>2. m # n /\ InQueue(c, m) => InQueue(r, m)
  BY OthersStay
<1>3. r.errored = c.errored
  <2> DEFINE done == IF Tail(c.queued) = <<>> THEN {} ELSE c.completed
  <2>1. r = [c EXCEPT !.queued = Tail(c.queued), !.completed = done]
    BY DEF RemoveFirst
  <2> HIDE DEF done, r
  <2> QED BY <2>1 DEF WellFormed, QueueConfigs
<1> HIDE DEF r
<1>4. /\ d \in QueueConfigs /\ r.errored \subseteq d.errored
      /\ d.queued = r.queued \/ (~r.force /\ d.queued = <<>> /\ d.errored # {})
  <2>1. CASE d = NodeSucceeded(r, n)
    BY <1>1, <2>1, SuccessKeeps
  <2>2. ASSUME NEW status \in {FAILURE, UNRESPONSIVE}, d = NodeFailed(r, n, status)
        PROVE  /\ d \in QueueConfigs /\ r.errored \subseteq d.errored
               /\ d.queued = r.queued \/ (~r.force /\ d.queued = <<>> /\ d.errored # {})
    BY <1>1, <2>2, FailureStops
  <2> QED BY <2>1, <2>2 DEF r
<1>5. /\ ClearFront(d).queued = d.queued
      /\ \A e \in d.errored : e \in ClearFront(d).errored \/ AtFront(d, e.id)
  BY <1>4, Cleared
<1>6. Entry(m, FAILURE).id = m
  BY DEF Entry
<1>7. AtFront(d, m) => InQueue(d, m)
  <2>1. d.queued \in Seq(QueueEntries)
    BY <1>4, Fields
  <2> QED BY <2>1, HeadEntry DEF AtFront, InQueue, InList
<1>8. d.queued = <<>> => d.errored \subseteq ClearFront(d).errored
  BY <1>5 DEF AtFront
<1>9. InQueue(ClearFront(d), m) <=> InQueue(d, m)
  BY <1>5 DEF InQueue
<1>10. d.queued = r.queued => (InQueue(d, m) <=> InQueue(r, m))
  BY DEF InQueue
<1>11. Entry(m, FAILURE) \in c.errored =>
         Entry(m, FAILURE) \in ClearFront(d).errored \/ InQueue(ClearFront(d), m)
  BY <1>3, <1>4, <1>5, <1>6, <1>7, <1>9
<1>12. m # n /\ InQueue(c, m) =>
         InQueue(ClearFront(d), m) \/ (~c.force /\ ClearFront(d).errored # {})
  BY <1>1, <1>2, <1>4, <1>8, <1>9, <1>10
<1> QED BY <1>11, <1>12

==============================================================================
