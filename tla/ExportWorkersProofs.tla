------------------------ MODULE ExportWorkersProofs ------------------------
(***************************************************************************)
(* What holds for any exports, any number of messages and any number of    *)
(* workers that die: no message is lost, a message fails twice at most and *)
(* twice more for each worker that dies on it, the summary agrees with the *)
(* exports once all is quiet, and the time of an export is saved with the  *)
(* counts that stand.                                                      *)
(*                                                                         *)
(* NothingIsLost is not inductive: a worker that rejects a message, the    *)
(* last step of a failure, must have published it again or seen it fail    *)
(* twice. RejectIsSafe says so, and needs to know of a message that comes  *)
(* with retry_count 1 that its first failure is on record (RetriesFailed), *)
(* wherever the message is.                                                *)
(*                                                                         *)
(* SummaryAgrees needs to know who is still to count (Counting): until     *)
(* then the summary may be behind. FailuresAreBounded needs what the places*)
(* a message is at, and the deaths so far, leave of its failures           *)
(* (FailureInv).                                                           *)
(***************************************************************************)
EXTENDS ExportWorkers, FiniteSetTheorems, TLAPS

Ids == 1 .. MaxMessages
Exported == [status : Statuses, reattempt : BOOLEAN, updated : 0 .. clock]
WorkerState ==
    [pc : Steps, message : Messages \cup {None}, todo : SUBSET Exports,
     last : Exports \cup {None}, start : Nat, own : Summaries \cup {None},
     copy : Summaries \cup {None}, clean : BOOLEAN]

\* What a worker has in hand at each of its steps.
HandOK(w) ==
    /\ w.pc # "idle" => w.message \in Messages
    /\ w.pc \in {"sync", "chain"} => w.todo # {}
    /\ w.pc \in {"save", "counted"} => w.copy \in Summaries
Hands == {w \in WorkerState : HandOK(w)}

\* The types of everything, in the form in which steps preserve them.
QueuesOK == queue \in [Queues -> Seq(Messages)]
WorkersOK == worker \in [Queues -> Hands]
RowsOK ==
    /\ export \in [Exports -> Exported] /\ summary \in Summaries
    /\ polling \in BOOLEAN /\ unsettled \in BOOLEAN /\ clock \in Nat
CountsOK ==
    /\ published \in 0 .. MaxMessages /\ done \subseteq Ids
    /\ failures \in [Ids -> Nat] /\ crashes \in Nat
Types == QueuesOK /\ WorkersOK /\ RowsOK /\ CountsOK
----------------------------------------------------------------------------
(***************************************************************************)
(* Sequences and counts                                                    *)
(***************************************************************************)
Elements(s) == {s[i] : i \in DOMAIN s}

(* The elements of a sequence with one more at its end. *)
LEMMA AppendElements ==
    ASSUME NEW s \in Seq(Messages), NEW m \in Messages
    PROVE  /\ Append(s, m) \in Seq(Messages)
           /\ Elements(Append(s, m)) = Elements(s) \cup {m}
<1>1. Append(s, m) \in Seq(Messages) /\ Len(Append(s, m)) = Len(s) + 1
  OBVIOUS
<1>2. /\ Append(s, m)[Len(s) + 1] = m /\ \A i \in DOMAIN s : Append(s, m)[i] = s[i]
      /\ DOMAIN Append(s, m) = DOMAIN s \cup {Len(s) + 1}
  BY <1>1
<1> QED BY <1>1, <1>2 DEF Elements

(* The elements of a sequence are its head and those of its tail. *)
LEMMA TailElements ==
    ASSUME NEW s \in Seq(Messages), s # <<>>
    PROVE  /\ Head(s) \in Messages /\ Tail(s) \in Seq(Messages)
           /\ Elements(s) = Elements(Tail(s)) \cup {Head(s)}
<1>1. Head(s) \in Messages /\ Tail(s) \in Seq(Messages)
  OBVIOUS
<1>2. Elements(Tail(s)) \cup {Head(s)} \subseteq Elements(s)
  BY DEF Elements
<1>3. ASSUME NEW i \in DOMAIN s
      PROVE  s[i] \in Elements(Tail(s)) \cup {Head(s)}
  <2>1. CASE i = 1
    BY <2>1
  <2>2. CASE i # 1
    <3>1. i - 1 \in DOMAIN Tail(s) /\ Tail(s)[i - 1] = s[i]
      BY <2>2
    <3> QED BY <3>1 DEF Elements
  <2> QED BY <2>1, <2>2
<1>4. Elements(s) \subseteq Elements(Tail(s)) \cup {Head(s)}
  BY <1>3 DEF Elements
<1> QED BY <1>1, <1>2, <1>4

(* The elements of a queue that a message is put back to. *)
LEMMA PushElements ==
    ASSUME NEW s \in Seq(Messages), NEW m \in Messages
    PROVE  /\ <<m>> \o s \in Seq(Messages)
           /\ Elements(<<m>> \o s) = Elements(s) \cup {m}
<1>1. <<m>> \o s \in Seq(Messages) /\ Len(<<m>> \o s) = Len(s) + 1
  OBVIOUS
<1>2. (<<m>> \o s)[1] = m /\ \A i \in DOMAIN s : (<<m>> \o s)[i + 1] = s[i]
  OBVIOUS
<1>3. m \in Elements(<<m>> \o s) /\ Elements(s) \subseteq Elements(<<m>> \o s)
  <2>1. 1 \in DOMAIN (<<m>> \o s) /\ \A i \in DOMAIN s : i + 1 \in DOMAIN (<<m>> \o s)
    BY <1>1
  <2> HIDE DEF Elements
  <2>2. \A i \in DOMAIN s : s[i] \in Elements(<<m>> \o s)
    BY <1>2, <2>1 DEF Elements
  <2> QED BY <1>2, <2>1, <2>2 DEF Elements
<1>4. \A i \in DOMAIN (<<m>> \o s) : i = 1 \/ (i - 1 \in DOMAIN s /\ (<<m>> \o s)[i] = s[i - 1])
  BY <1>1
<1>5. Elements(<<m>> \o s) \subseteq Elements(s) \cup {m}
  BY <1>2, <1>4 DEF Elements
<1> QED BY <1>1, <1>3, <1>5

(* Exports are counted within the bounds of a summary. *)
LEMMA CountedType ==
    ASSUME RowsOK
    PROVE  Counted(summary) \in Summaries
<1>1. \A S \in SUBSET Exports : Cardinality(S) \in 0 .. Cardinality(Exports)
  <2> SUFFICES ASSUME NEW S \in SUBSET Exports
               PROVE  Cardinality(S) \in 0 .. Cardinality(Exports)
    OBVIOUS
  <2>1. IsFiniteSet(S) /\ Cardinality(S) <= Cardinality(Exports)
    BY FS_Subset, WorkersAssumption
  <2>2. Cardinality(S) \in Nat /\ Cardinality(Exports) \in Nat
    BY <2>1, FS_CardinalityType, WorkersAssumption
  <2> QED BY <2>1, <2>2
<1>2. WithStatus("FAILED") \in SUBSET Exports /\ Successful(summary) \in SUBSET Exports
  BY DEF WithStatus, Successful
<1>3. summary.last \in Nat
  BY DEF RowsOK, Summaries
<1> QED BY <1>1, <1>2, <1>3 DEF Counted, Summaries

(* A worker with nothing to do is a worker. *)
LEMMA IdleType == Idle \in Hands
BY DEF Idle, Hands, HandOK, WorkerState, Steps

(* What Writes does to the worker, and that it leaves the others their message. *)
LEMMA WritesType ==
    ASSUME WorkersOK, NEW q \in Queues, NEW w \in Hands, Writes(q, w)
    PROVE  /\ WorkersOK' /\ worker'[q] = w
           /\ \A r \in Queues \ {q} : worker'[r].pc = worker[r].pc
                                      /\ worker'[r].message = worker[r].message
<1>1. ASSUME NEW r \in Queues
      PROVE  LET v == [worker[r] EXCEPT !.clean = worker[r].clean /\ worker[r].copy = None] IN
             v \in Hands /\ v.pc = worker[r].pc /\ v.message = worker[r].message
  <2>1. worker[r] \in WorkerState /\ HandOK(worker[r])
    BY DEF WorkersOK, Hands
  <2> DEFINE b == worker[r].clean /\ worker[r].copy = None
             v == [worker[r] EXCEPT !.clean = b]
  <2>2. b \in BOOLEAN
    BY <2>1 DEF WorkerState
  <2> HIDE DEF b
  <2>3. v \in WorkerState /\ v.pc = worker[r].pc /\ v.message = worker[r].message
        /\ v.todo = worker[r].todo /\ v.copy = worker[r].copy
    BY <2>1, <2>2 DEF WorkerState
  <2> QED BY <2>1, <2>3 DEF Hands, HandOK, b
<1> QED BY <1>1 DEF WorkersOK, Writes
----------------------------------------------------------------------------
(***************************************************************************)
(* Where messages are                                                      *)
(***************************************************************************)
With(q) == IF worker[q].pc = "idle" THEN {} ELSE {worker[q].message}
Here(q) == Elements(queue[q]) \cup With(q)

\* A message that comes the second time has failed once.
RetriesFailed ==
    \A q \in Queues : \A m \in Here(q) : m.retry_count = 1 => failures[m.id] >= 1

\* What is to be published again has failed, and what is to be rejected waits
\* once more, or has failed twice.
RejectIsSafe ==
    \A q \in Queues :
        /\ worker[q].pc = "publish" => failures[worker[q].message.id] >= 1
        /\ worker[q].pc = "reject" =>
              \/ Ended(worker[q].message.id)
              \/ \E m \in Elements(queue[q]) : m.id = worker[q].message.id

\* NothingIsLost, in the terms of this module.
Kept == \A i \in 1 .. published : Ended(i) \/ \E q \in Queues : \E m \in Here(q) : m.id = i

MessageInv == RetriesFailed /\ RejectIsSafe /\ Kept
Inv == Types /\ MessageInv

(* The invariant is as strong as the property. *)
LEMMA KeptIsEnough == Kept => NothingIsLost
BY DEF Kept, NothingIsLost, Here, With, Elements

(* All messages that are somewhere have an id and two attempts. *)
LEMMA HereAreMessages ==
    ASSUME QueuesOK, WorkersOK, NEW q \in Queues
    PROVE  Here(q) \subseteq Messages
<1>1. queue[q] \in Seq(Messages) /\ worker[q] \in Hands
  BY DEF QueuesOK, WorkersOK
<1>2. Elements(queue[q]) \subseteq Messages
  BY <1>1 DEF Elements
<1>3. With(q) \subseteq Messages
  BY <1>1 DEF With, Hands, HandOK
<1> QED BY <1>2, <1>3 DEF Here

\* The others keep what they have.
OthersKeep(q) ==
    \A r \in Queues \ {q} : /\ queue'[r] = queue[r]
                            /\ worker'[r].pc = worker[r].pc
                            /\ worker'[r].message = worker[r].message

EndedNext(i) == i \in done' \/ failures'[i] >= 2

(* A step of one worker keeps the messages if the worker ends none that has
   neither been handled nor failed twice. *)
LEMMA OneWorker ==
    ASSUME Inv, QueuesOK', WorkersOK', NEW q \in Queues, OthersKeep(q),
           published' = published, done \subseteq done',
           failures' \in [Ids -> Nat], \A i \in Ids : failures'[i] >= failures[i],
           \A m \in Here(q) : EndedNext(m.id) \/ \E n \in Here(q)' : n.id = m.id,
           \A m \in Here(q)' : m.retry_count = 1 => failures'[m.id] >= 1,
           worker'[q].pc = "publish" => failures'[worker'[q].message.id] >= 1,
           worker'[q].pc = "reject" =>
              \/ EndedNext(worker'[q].message.id)
              \/ \E m \in Elements(queue[q])' : m.id = worker'[q].message.id
    PROVE  MessageInv'
<1>1. failures \in [Ids -> Nat] /\ published \in Nat /\ 1 .. published \subseteq Ids
  BY WorkersAssumption DEF Inv, Types, CountsOK, Ids
<1>2. \A i \in Ids : Ended(i) => EndedNext(i)
  BY <1>1 DEF Ended, EndedNext
<1>3. \A r \in Queues \ {q} : Here(r)' = Here(r) /\ Elements(queue[r])' = Elements(queue[r])
  BY DEF OthersKeep, Here, With, Elements
<1>4. \A r \in Queues : \A m \in Here(r) : m.id \in Ids
  BY HereAreMessages DEF Inv, Types, Messages, Ids
<1>5. RetriesFailed'
  <2> SUFFICES ASSUME NEW r \in Queues, NEW m \in Here(r)', m.retry_count = 1
               PROVE  failures'[m.id] >= 1
    BY DEF RetriesFailed
  <2>1. CASE r # q
    <3>1. m \in Here(r) /\ failures[m.id] >= 1
      BY <1>3, <2>1 DEF Inv, MessageInv, RetriesFailed
    <3> QED BY <1>1, <1>4, <3>1
  <2> QED BY <2>1
<1>6. RejectIsSafe'
  <2> DEFINE Safe(r) ==
        /\ worker'[r].pc = "publish" => failures'[worker'[r].message.id] >= 1
        /\ worker'[r].pc = "reject" =>
              \/ EndedNext(worker'[r].message.id)
              \/ \E m \in Elements(queue[r])' : m.id = worker'[r].message.id
  <2>1. Safe(q)
    OBVIOUS
  <2>2. ASSUME NEW r \in Queues \ {q}
        PROVE  Safe(r)
    <3>1. worker'[r].pc = worker[r].pc /\ worker'[r].message = worker[r].message
      BY DEF OthersKeep
    <3>2. worker[r].pc # "idle" => worker[r].message.id \in Ids
      BY <1>4 DEF Here, With
    <3>3. CASE worker[r].pc = "publish"
      BY <1>1, <3>1, <3>2, <3>3 DEF Inv, MessageInv, RejectIsSafe
    <3>4. CASE worker[r].pc = "reject"
      <4>1. \/ Ended(worker[r].message.id)
            \/ \E m \in Elements(queue[r]) : m.id = worker[r].message.id
        BY <3>4 DEF Inv, MessageInv, RejectIsSafe
      <4>2. \/ EndedNext(worker[r].message.id)
            \/ \E m \in Elements(queue[r])' : m.id = worker[r].message.id
        BY <1>2, <1>3, <3>2, <3>4, <4>1
      <4> QED BY <3>1, <3>4, <4>2
    <3> QED BY <3>1, <3>3, <3>4
  <2> HIDE DEF Safe
  <2>3. \A r \in Queues : Safe(r)
    BY <2>1, <2>2
  <2> QED BY <2>3 DEF RejectIsSafe, Safe, Ended, EndedNext
<1>7. Kept'
  <2> SUFFICES ASSUME NEW i \in 1 .. published
               PROVE  EndedNext(i) \/ \E r \in Queues : \E m \in Here(r)' : m.id = i
    BY DEF Kept, Ended, EndedNext
  <2>1. CASE Ended(i)
    BY <1>1, <1>2, <2>1
  <2>2. ASSUME NEW r \in Queues, NEW m \in Here(r), m.id = i
        PROVE  EndedNext(i) \/ \E t \in Queues : \E n \in Here(t)' : n.id = i
    <3>1. CASE r = q
      BY <2>2, <3>1
    <3>2. CASE r # q
      BY <1>3, <2>2, <3>2
    <3> QED BY <3>1, <3>2
  <2> QED BY <2>1, <2>2 DEF Inv, MessageInv, Kept
<1> QED BY <1>5, <1>6, <1>7 DEF MessageInv

\* A worker goes on with its message.
GoesOn(q) ==
    /\ OthersKeep(q)
    /\ worker[q].pc # "idle" /\ worker'[q].pc \notin {"idle", "publish", "reject"}
    /\ worker'[q].message = worker[q].message
    /\ UNCHANGED messageVars

(* A worker that goes on with the message it has keeps every message where it was. *)
LEMMA GoingOn ==
    ASSUME Inv, WorkersOK', NEW q \in Queues, GoesOn(q)
    PROVE  QueuesOK' /\ MessageInv'
<1>1. Here(q)' = Here(q) /\ UNCHANGED <<queue, failures, done, published>>
  BY DEF GoesOn, Here, With, Elements, messageVars
<1>2. QueuesOK'
  BY <1>1 DEF Inv, Types, QueuesOK
<1>3. failures \in [Ids -> Nat] /\ \A i \in Ids : failures'[i] >= failures[i]
  BY <1>1 DEF Inv, Types, CountsOK
<1>4. \A m \in Here(q)' : m.retry_count = 1 => failures'[m.id] >= 1
  BY <1>1 DEF Inv, MessageInv, RetriesFailed
<1> HIDE DEF Here
<1> QED BY <1>1, <1>2, <1>3, <1>4, OneWorker DEF GoesOn

TakesOn(q) ==
    /\ OthersKeep(q)
    /\ worker[q].pc = "idle" /\ worker'[q].pc \notin {"idle", "publish", "reject"}
    /\ queue[q] # <<>> /\ worker'[q].message = Head(queue[q])
    /\ queue' = [queue EXCEPT ![q] = Tail(@)]
    /\ UNCHANGED <<failures, done, published>>

(* A worker that takes a message off its queue has it from then on. *)
LEMMA TakingOn ==
    ASSUME Inv, WorkersOK', NEW q \in Queues, TakesOn(q)
    PROVE  QueuesOK' /\ MessageInv'
<1>1. queue[q] \in Seq(Messages) /\ queue \in [Queues -> Seq(Messages)]
  BY DEF Inv, Types, QueuesOK
<1>2. queue'[q] = Tail(queue[q]) /\ QueuesOK'
  BY <1>1, TailElements DEF QueuesOK, TakesOn
<1>3. Here(q)' = Here(q)
  <2>1. Elements(queue[q]) = Elements(queue'[q]) \cup {Head(queue[q])}
    BY <1>1, <1>2, TailElements DEF TakesOn
  <2>2. With(q) = {} /\ With(q)' = {Head(queue[q])}
    BY DEF With, TakesOn
  <2>3. Elements(queue[q])' = Elements(queue'[q])
    BY DEF Elements
  <2> QED BY <2>1, <2>2, <2>3 DEF Here
<1>4. failures \in [Ids -> Nat] /\ \A i \in Ids : failures'[i] >= failures[i]
  BY DEF Inv, Types, CountsOK, TakesOn
<1>5. \A m \in Here(q)' : m.retry_count = 1 => failures'[m.id] >= 1
  BY <1>3 DEF Inv, MessageInv, RetriesFailed, TakesOn
<1> HIDE DEF Here
<1> QED BY <1>2, <1>3, <1>4, <1>5, OneWorker DEF TakesOn
----------------------------------------------------------------------------
(***************************************************************************)
(* Steps of a handler                                                      *)
(***************************************************************************)

\* The two ways in which a step writes the state of a worker.
Becomes(q, w) == Writes(q, w) \/ worker' = [worker EXCEPT ![q] = w]

(* A record of a worker, written field by field. *)
LEMMA BecomesType ==
    ASSUME WorkersOK, NEW q \in Queues, NEW w \in Hands, Becomes(q, w)
    PROVE  /\ WorkersOK' /\ worker'[q] = w
           /\ \A r \in Queues \ {q} : worker'[r].pc = worker[r].pc
                                      /\ worker'[r].message = worker[r].message
<1>1. CASE Writes(q, w)
  BY <1>1, WritesType
<1>2. CASE worker' = [worker EXCEPT ![q] = w]
  BY <1>2 DEF WorkersOK
<1> QED BY <1>1, <1>2 DEF Becomes

(* A worker that goes on with its message, to a state of the right type. *)
LEMMA HandlerGoesOn ==
    ASSUME Inv, NEW q \in Queues, NEW w \in Hands, Becomes(q, w),
           worker[q].pc # "idle", w.pc \notin {"idle", "publish", "reject"},
           w.message = worker[q].message, UNCHANGED messageVars
    PROVE  QueuesOK' /\ WorkersOK' /\ MessageInv'
<1>1. /\ WorkersOK' /\ worker'[q] = w
      /\ \A r \in Queues \ {q} : worker'[r].pc = worker[r].pc
                                 /\ worker'[r].message = worker[r].message
  BY BecomesType DEF Inv, Types
<1>2. GoesOn(q)
  BY <1>1 DEF GoesOn, OthersKeep, messageVars
<1> QED BY <1>1, <1>2, GoingOn

(* The worker of a typed state is a record of its type. *)
LEMMA WorkerType ==
    ASSUME Inv, NEW q \in Queues, worker[q].pc # "idle"
    PROVE  /\ worker[q] \in WorkerState /\ HandOK(worker[q])
           /\ worker[q].message \in Messages
BY DEF Inv, Types, WorkersOK, Hands, HandOK

(* Counting again does not change the type of the summary. *)
LEMMA CountsSame ==
    ASSUME CountsOK, UNCHANGED messageVars, UNCHANGED crashes
    PROVE  CountsOK'
BY DEF CountsOK, messageVars

(* A task of the chain posts its row, or fails. *)
LEMMA ExportNextStep ==
    ASSUME Inv, NEW q \in Queues, ExportNext(q)
    PROVE  Inv'
<1> DEFINE e == Min(worker[q].todo)
<1>1. PICK fails \in BOOLEAN :
        /\ export' = [export EXCEPT ![e].status = IF fails THEN "FAILED" ELSE "EXPORT_QUEUED"]
        /\ Writes(q, [worker[q] EXCEPT !.pc = AfterExport(q, e, fails), !.todo = @ \ {e},
                        !.last = IF AfterExport(q, e, fails) = "chain" THEN @ ELSE None])
  BY DEF ExportNext
<1>2. worker[q].pc \in {"sync", "chain"} /\ UNCHANGED messageVars
      /\ UNCHANGED <<summary, polling, clock, crashes, unsettled>>
  BY DEF ExportNext
<1>3. worker[q] \in WorkerState /\ HandOK(worker[q]) /\ worker[q].message \in Messages
  BY <1>2, WorkerType
<1> HIDE DEF e
<1> DEFINE pc == AfterExport(q, e, fails)
           last == IF pc = "chain" THEN worker[q].last ELSE None
           w == [worker[q] EXCEPT !.pc = pc, !.todo = worker[q].todo \ {e}, !.last = last]
<1>4. pc \in {"chain", "refresh", "count", "schedule"}
      /\ (pc = "chain" => worker[q].todo # {e})
  BY DEF AfterExport
<1>5. last \in Exports \cup {None}
  BY <1>3 DEF WorkerState
<1>6. pc \in Steps
  BY <1>4 DEF Steps
<1>7. Writes(q, w)
  BY <1>1
<1>8. worker[q].todo # {} /\ worker[q].todo \ {e} \in SUBSET Exports
  BY <1>2, <1>3 DEF HandOK, WorkerState
<1> HIDE DEF pc, last
<1>9. w \in WorkerState /\ w.pc = pc /\ w.message = worker[q].message
      /\ w.todo = worker[q].todo \ {e}
  BY <1>3, <1>5, <1>6, <1>8 DEF WorkerState
<1>10. HandOK(w)
  BY <1>3, <1>4, <1>8, <1>9 DEF HandOK
<1> HIDE DEF w
<1>11. w \in Hands
  BY <1>9, <1>10 DEF Hands
<1>12. QueuesOK' /\ WorkersOK' /\ MessageInv'
  BY <1>2, <1>4, <1>7, <1>9, <1>11, HandlerGoesOn DEF Becomes
<1>13. RowsOK'
  <2>1. export \in [Exports -> Exported] /\ Exported' = Exported
    BY <1>2 DEF Inv, Types, RowsOK, Exported
  <2>2. \A x \in Exports : \A st \in Statuses : [export[x] EXCEPT !.status = st] \in Exported
    BY <2>1 DEF Exported
  <2>3. {"FAILED", "EXPORT_QUEUED"} \subseteq Statuses
    BY DEF Statuses
  <2>4. export' \in [Exports -> Exported]
    BY <1>1, <2>1, <2>2, <2>3
  <2> QED BY <1>2, <2>1, <2>4 DEF Inv, Types, RowsOK
<1> QED BY <1>2, <1>12, <1>13, CountsSame DEF Inv, Types

\* Steps of a handler that leave the exports alone.
RowSteps(q) ==
    \/ CreateScheduleForPolling(q) \/ Refresh(q) \/ SaveLastExported(q)
    \/ Count(q) \/ SaveCounts(q) \/ DeleteSchedule(q)

(* The steps that save the summary or the polling schedule, and no export. *)
LEMMA RowStep ==
    ASSUME Inv, NEW q \in Queues, RowSteps(q)
    PROVE  Inv'
<1>0. /\ worker[q].pc # "idle" /\ UNCHANGED messageVars /\ UNCHANGED <<export, clock, crashes>>
      /\ worker[q].pc \in Steps \ {"idle", "sync", "chain"}
  BY DEF RowSteps, CreateScheduleForPolling, Refresh, SaveLastExported, Count, SaveCounts,
         DeleteSchedule, rowVars, Steps
<1>1. worker[q] \in WorkerState /\ HandOK(worker[q]) /\ worker[q].message \in Messages
  BY <1>0, WorkerType
<1>2. summary \in Summaries /\ Counted(summary) \in Summaries /\ RowsOK
  BY CountedType DEF Inv, Types, RowsOK
<1>3. SUFFICES /\ \E w \in Hands : /\ Becomes(q, w) /\ w.message = worker[q].message
                                   /\ w.pc \notin {"idle", "publish", "reject"}
               /\ summary' \in Summaries /\ polling' \in BOOLEAN /\ unsettled' \in BOOLEAN
  <2>1. ASSUME \E w \in Hands : /\ Becomes(q, w) /\ w.message = worker[q].message
                                /\ w.pc \notin {"idle", "publish", "reject"}
        PROVE  QueuesOK' /\ WorkersOK' /\ MessageInv'
    BY <1>0, <2>1, HandlerGoesOn
  <2>2. ASSUME summary' \in Summaries /\ polling' \in BOOLEAN /\ unsettled' \in BOOLEAN
        PROVE  RowsOK'
    BY <1>0, <1>2, <2>2 DEF RowsOK, Exported
  <2> QED BY <1>0, <2>1, <2>2, CountsSame DEF Inv, Types
<1>4. CASE CreateScheduleForPolling(q)
  <2> DEFINE w == [worker[q] EXCEPT !.pc = "refresh"]
  <2>1. w \in Hands /\ w.message = worker[q].message /\ w.pc = "refresh"
    BY <1>1 DEF Hands, HandOK, WorkerState, Steps
  <2>2. Becomes(q, w)
    BY <1>4 DEF CreateScheduleForPolling, Becomes
  <2> HIDE DEF w
  <2> QED BY <1>2, <1>4, <2>1, <2>2 DEF CreateScheduleForPolling, RowsOK
<1>5. CASE Refresh(q)
  <2> DEFINE w == [worker[q] EXCEPT !.pc = "save", !.copy = summary, !.clean = TRUE, !.own = None]
  <2>1. w \in Hands /\ w.message = worker[q].message /\ w.pc = "save"
    BY <1>1, <1>2 DEF Hands, HandOK, WorkerState, Steps
  <2>2. Becomes(q, w)
    BY <1>5 DEF Refresh, Refreshed, Becomes
  <2> HIDE DEF w
  <2> QED BY <1>2, <1>5, <2>1, <2>2 DEF Refresh, rowVars, RowsOK
<1>6. CASE SaveLastExported(q)
  <2> DEFINE w == [Idle EXCEPT !.pc = "ack", !.message = worker[q].message]
  <2>1. w \in Hands /\ w.message = worker[q].message /\ w.pc = "ack"
    BY <1>1, IdleType DEF Idle, Hands, HandOK, WorkerState, Steps
  <2>2. Becomes(q, w)
    BY <1>6 DEF SaveLastExported, Becomes
  <2>3. [worker[q].copy EXCEPT !.last = worker[q].start] \in Summaries
    BY <1>1, <1>6 DEF SaveLastExported, HandOK, WorkerState, Summaries
  <2>4. unsettled' \in BOOLEAN
    BY <1>6 DEF SaveLastExported
  <2> HIDE DEF w
  <2> QED BY <1>2, <1>6, <2>1, <2>2, <2>3, <2>4 DEF SaveLastExported, RowsOK
<1>7. CASE Count(q)
  <2> DEFINE w == [worker[q] EXCEPT !.pc = "counted", !.copy = Counted(summary), !.clean = TRUE]
  <2>1. w \in Hands /\ w.message = worker[q].message /\ w.pc = "counted"
    BY <1>1, <1>2 DEF Hands, HandOK, WorkerState, Steps
  <2>2. Becomes(q, w)
    BY <1>7 DEF Count, Becomes
  <2> HIDE DEF w
  <2> QED BY <1>2, <1>7, <2>1, <2>2 DEF Count, rowVars, RowsOK
<1>8. CASE SaveCounts(q)
  <2> DEFINE w == IF worker[q].message.kind = "POLL"
                  THEN [worker[q] EXCEPT !.pc = "unschedule"]
                  ELSE [worker[q] EXCEPT !.pc = "schedule", !.copy = None, !.clean = TRUE]
  <2>1. w \in Hands /\ w.message = worker[q].message /\ w.pc \in {"unschedule", "schedule"}
    BY <1>1 DEF Hands, HandOK, WorkerState, Steps
  <2>2. Becomes(q, w)
    BY <1>8 DEF SaveCounts, Becomes
  <2>3. summary' \in Summaries
    BY <1>1, <1>8 DEF SaveCounts, HandOK
  <2>4. unsettled' \in BOOLEAN
    BY <1>8 DEF SaveCounts
  <2> HIDE DEF w
  <2> QED BY <1>2, <1>8, <2>1, <2>2, <2>3, <2>4 DEF SaveCounts, RowsOK
<1>9. CASE DeleteSchedule(q)
  <2> DEFINE w == [Idle EXCEPT !.pc = "ack", !.message = worker[q].message]
  <2>1. w \in Hands /\ w.message = worker[q].message /\ w.pc = "ack"
    BY <1>1, IdleType DEF Idle, Hands, HandOK, WorkerState, Steps
  <2>2. Becomes(q, w)
    BY <1>9 DEF DeleteSchedule, Becomes
  <2>3. unsettled' \in BOOLEAN
    BY <1>9 DEF DeleteSchedule
  <2> HIDE DEF w
  <2> QED BY <1>2, <1>9, <2>1, <2>2, <2>3 DEF DeleteSchedule, RowsOK
<1> QED BY <1>4, <1>5, <1>6, <1>7, <1>8, <1>9 DEF RowSteps
----------------------------------------------------------------------------
(***************************************************************************)
(* Steps that take a message, and failures                                 *)
(***************************************************************************)

(* Taking a message on keeps the invariant, whatever else changes. *)
LEMMA HandlerTakesOn ==
    ASSUME Inv, NEW q \in Queues, NEW w \in Hands, Becomes(q, w),
           NEW kinds, Takes(q, kinds), w.message = Head(queue[q]),
           w.pc \notin {"idle", "publish", "reject"}, UNCHANGED <<failures, done, published>>
    PROVE  QueuesOK' /\ WorkersOK' /\ MessageInv'
<1>1. /\ WorkersOK' /\ worker'[q] = w
      /\ \A r \in Queues \ {q} : worker'[r].pc = worker[r].pc
                                 /\ worker'[r].message = worker[r].message
  BY BecomesType DEF Inv, Types
<1>2. worker[q].pc = "idle" /\ queue[q] # <<>> /\ queue' = [queue EXCEPT ![q] = Tail(@)]
  BY DEF Takes, Idle
<1>3. \A r \in Queues \ {q} : queue'[r] = queue[r]
  BY <1>2 DEF Inv, Types, QueuesOK
<1>4. TakesOn(q)
  BY <1>1, <1>2, <1>3 DEF TakesOn, OthersKeep
<1> QED BY <1>1, <1>4, TakingOn

(* The message at the head of a queue is one of those that are somewhere. *)
LEMMA TakenMessage ==
    ASSUME Inv, NEW q \in Queues, NEW kinds, Takes(q, kinds)
    PROVE  Head(queue[q]) \in Messages /\ Head(queue[q]) \in Elements(queue[q])
<1>1. queue[q] \in Seq(Messages) /\ queue[q] # <<>>
  BY DEF Takes, Inv, Types, QueuesOK
<1> QED BY <1>1, TailElements

(* An export takes its message and its first rows. *)
LEMMA StartExportStep ==
    ASSUME Inv, NEW q \in Queues, StartExport(q)
    PROVE  Inv'
<1> DEFINE m == Head(queue[q])
<1>1. /\ Takes(q, {"DASHBOARD_SYNC", "RUN_SYNC_SCHEDULE"}) /\ clock' = Tick
      /\ UNCHANGED <<published, done, failures, summary, polling, crashes>>
  BY DEF StartExport
<1>2. m \in Messages
  BY <1>1, TakenMessage
<1>3. RowsOK /\ Tick \in Nat /\ clock <= Tick
  BY DEF Inv, Types, RowsOK, Tick
<1>4. \E w \in Hands : /\ Becomes(q, w) /\ w.message = m
                       /\ w.pc \notin {"idle", "publish", "reject"}
      /\ export' \in [Exports -> Exported'] /\ unsettled' \in BOOLEAN
  <2> DEFINE ids == Selected(m.kind)
             locked == {e \in ids : export[e].status \notin Busy}
  <2>1. \A e \in Exports : export[e] \in Exported'
    BY <1>1, <1>3 DEF RowsOK, Exported
  <2>2. CASE ids = {}
    <3> DEFINE w == [worker[q] EXCEPT !.pc = "ack", !.message = m]
    <3>1. worker' = [worker EXCEPT ![q] = w] /\ UNCHANGED <<export, unsettled>>
      BY <2>2 DEF StartExport
    <3>2. worker[q] \in WorkerState
      BY DEF Inv, Types, WorkersOK, Hands
    <3>3. w \in Hands /\ w.message = m /\ w.pc = "ack"
      BY <1>2, <3>2 DEF Hands, HandOK, WorkerState, Steps
    <3> HIDE DEF w, m
    <3> QED BY <1>3, <2>1, <3>1, <3>3 DEF Becomes, RowsOK
  <2>3. CASE ids # {}
    <3>1. PICK skipped \in SUBSET {e \in locked : export[e].status = "FAILED"} :
            LET chain == locked \ skipped
                last == IF chain # {} /\ Max(locked) \in chain THEN Max(locked) ELSE None IN
            /\ export' = [e \in Exports |->
                            IF e \in chain
                            THEN [export[e] EXCEPT !.status = "ENQUEUED", !.reattempt = FALSE]
                            ELSE export[e]]
            /\ Writes(q, [Idle EXCEPT !.pc = IF chain = {} THEN "refresh" ELSE "sync", !.message = m,
                                     !.todo = chain, !.last = last, !.start = Tick,
                                     !.own = summary])
            /\ unsettled' = (unsettled \/ last = None)
      BY <2>3 DEF StartExport
    <3> DEFINE chain == locked \ skipped
               last == IF chain # {} /\ Max(locked) \in chain THEN Max(locked) ELSE None
               pc == IF chain = {} THEN "refresh" ELSE "sync"
               w == [Idle EXCEPT !.pc = pc, !.message = m,
                                 !.todo = chain, !.last = last, !.start = Tick, !.own = summary]
    <3>2. chain \in SUBSET Exports
      BY DEF Selected
    <3>3. last \in Exports \cup {None} /\ pc \in {"refresh", "sync"} /\ (pc = "sync" => chain # {})
      BY <3>2
    <3>4. Writes(q, w) /\ unsettled' \in BOOLEAN
      BY <3>1
    <3>5. export' \in [Exports -> Exported']
      <4>1. \A e \in Exports : [export[e] EXCEPT !.status = "ENQUEUED", !.reattempt = FALSE]
                                  \in Exported'
        BY <2>1 DEF Exported, Statuses
      <4> QED BY <2>1, <3>1, <4>1
    <3> HIDE DEF chain, last, pc, m
    <3>6. w \in WorkerState /\ w.message = m /\ w.pc = pc /\ w.todo = chain
      BY <1>2, <1>3, <3>2, <3>3 DEF Idle, WorkerState, Steps, RowsOK
    <3>7. HandOK(w)
      BY <1>2, <3>3, <3>6 DEF HandOK
    <3> HIDE DEF w
    <3> QED BY <3>3, <3>4, <3>5, <3>6, <3>7 DEF Becomes, Hands
  <2> QED BY <2>2, <2>3
<1>5. QueuesOK' /\ WorkersOK' /\ MessageInv'
  BY <1>1, <1>4, HandlerTakesOn
<1>6. RowsOK'
  BY <1>1, <1>3, <1>4 DEF RowsOK
<1>7. CountsOK'
  BY <1>1 DEF Inv, Types, CountsOK
<1> QED BY <1>5, <1>6, <1>7 DEF Inv, Types

(* A failure: the message is with the worker, or has just been taken. *)
LEMMA FailingStep ==
    ASSUME Inv, NEW q \in Queues, NEW m \in Messages, Failing(q, m),
           UNCHANGED <<published, done>>,
           \/ worker[q].pc # "idle" /\ m = worker[q].message /\ queue' = queue
           \/ /\ worker[q].pc = "idle" /\ queue[q] # <<>> /\ m = Head(queue[q])
              /\ queue' = [queue EXCEPT ![q] = Tail(@)]
    PROVE  QueuesOK' /\ WorkersOK' /\ MessageInv' /\ failures' \in [Ids -> Nat]
<1> DEFINE pc == IF MayRetry(m, failures'[m.id]) THEN "publish" ELSE "reject"
           w == [Idle EXCEPT !.message = m, !.pc = pc]
<1>1. failures' = [failures EXCEPT ![m.id] = @ + 1] /\ Writes(q, w)
  BY DEF Failing
<1>2. m.id \in Ids /\ m.retry_count \in {0, 1} /\ failures \in [Ids -> Nat]
  BY DEF Messages, Ids, Inv, Types, CountsOK
<1>3. /\ failures' \in [Ids -> Nat] /\ \A i \in Ids : failures'[i] >= failures[i]
      /\ failures'[m.id] = failures[m.id] + 1
  BY <1>1, <1>2
<1>4. pc \in {"publish", "reject"} /\ (pc = "reject" => m.retry_count = 1)
  BY <1>2 DEF MayRetry
<1> HIDE DEF pc
<1>5. w \in Hands /\ w.message = m /\ w.pc = pc
  BY <1>4, IdleType DEF Idle, Hands, HandOK, WorkerState, Steps
<1> HIDE DEF w
<1>6. /\ WorkersOK' /\ worker'[q] = w
      /\ \A r \in Queues \ {q} : worker'[r].pc = worker[r].pc
                                 /\ worker'[r].message = worker[r].message
  BY <1>1, <1>5, WritesType DEF Inv, Types
<1>7. queue[q] \in Seq(Messages) /\ queue \in [Queues -> Seq(Messages)]
  BY DEF Inv, Types, QueuesOK
<1>8. QueuesOK' /\ \A r \in Queues \ {q} : queue'[r] = queue[r]
  BY <1>7, TailElements DEF QueuesOK
<1>9. m \in Here(q) /\ Here(q)' = Here(q)
  <2>1. With(q)' = {m} /\ Elements(queue[q])' = Elements(queue'[q])
    BY <1>4, <1>5, <1>6 DEF With, Elements
  <2>2. CASE worker[q].pc # "idle" /\ m = worker[q].message /\ queue' = queue
    BY <2>1, <2>2 DEF Here, With
  <2>3. CASE /\ worker[q].pc = "idle" /\ queue[q] # <<>> /\ m = Head(queue[q])
             /\ queue' = [queue EXCEPT ![q] = Tail(@)]
    <3>1. queue'[q] = Tail(queue[q])
      BY <1>7, <2>3
    <3>2. Elements(queue[q]) = Elements(queue'[q]) \cup {m}
      BY <1>7, <2>3, <3>1, TailElements
    <3> QED BY <2>1, <2>3, <3>2 DEF Here, With
  <2> QED BY <2>2, <2>3
<1>10. \A n \in Here(q) : n.id \in Ids
  BY HereAreMessages DEF Inv, Types, Messages, Ids
<1>11. \A n \in Here(q)' : n.retry_count = 1 => failures'[n.id] >= 1
  BY <1>2, <1>3, <1>9, <1>10 DEF Inv, MessageInv, RetriesFailed
<1>12. failures'[m.id] >= 1 /\ (pc = "reject" => EndedNext(m.id))
  BY <1>2, <1>3, <1>4, <1>9 DEF Inv, MessageInv, RetriesFailed, EndedNext
<1> HIDE DEF Here
<1>13. OthersKeep(q)
  BY <1>6, <1>8 DEF OthersKeep
<1> QED BY <1>3, <1>5, <1>6, <1>8, <1>9, <1>11, <1>12, <1>13, OneWorker

(* A handler that raises records the failure and keeps the message. *)
LEMMA RaiseSteps ==
    ASSUME Inv, NEW q \in Queues, RaiseAtStart(q) \/ Raise(q)
    PROVE  Inv'
<1>1. /\ UNCHANGED <<published, done, export, summary, polling, clock, crashes>>
      /\ unsettled' \in BOOLEAN
  BY DEF RaiseAtStart, Raise, rowVars, Inv, Types, RowsOK
<1>2. QueuesOK' /\ WorkersOK' /\ MessageInv' /\ failures' \in [Ids -> Nat]
  <2>1. CASE RaiseAtStart(q)
    <3> DEFINE m == Head(queue[q])
    <3>1. Takes(q, {"BACKGROUND_SCHEDULE_EXPORT"}) /\ Failing(q, m)
      BY <2>1 DEF RaiseAtStart
    <3>2. m \in Messages
      BY <3>1, TakenMessage
    <3>3. worker[q].pc = "idle" /\ queue[q] # <<>> /\ queue' = [queue EXCEPT ![q] = Tail(@)]
      BY <3>1 DEF Takes, Idle
    <3> HIDE DEF m
    <3> QED BY <1>1, <3>1, <3>2, <3>3, FailingStep DEF m
  <2>2. CASE Raise(q)
    <3>1. worker[q].pc # "idle" /\ Failing(q, worker[q].message) /\ queue' = queue
      BY <2>2 DEF Raise
    <3>2. worker[q].message \in Messages
      BY <3>1, WorkerType
    <3> QED BY <1>1, <3>1, <3>2, FailingStep
  <2> QED BY <2>1, <2>2
<1>3. RowsOK' /\ CountsOK'
  BY <1>1, <1>2 DEF Inv, Types, RowsOK, CountsOK, Exported
<1> QED BY <1>2, <1>3 DEF Inv, Types

(* One poll settles some of the queued rows. *)
LEMMA PollStep ==
    ASSUME Inv, NEW q \in Queues, Poll(q)
    PROVE  Inv'
<1> DEFINE m == Head(queue[q])
           queued == WithStatus("EXPORT_QUEUED")
           w == [Idle EXCEPT !.pc = "ack", !.message = m]
<1>1. /\ Takes(q, {"POLL"}) /\ UNCHANGED <<summary, polling, clock, published, done, crashes>>
  BY DEF Poll
<1>2. m \in Messages /\ worker[q].pc = "idle" /\ queue[q] # <<>>
      /\ queue' = [queue EXCEPT ![q] = Tail(@)]
  <2>1. Head(queue[q]) \in Messages
    BY <1>1, TakenMessage
  <2>2. worker[q].pc = "idle" /\ queue[q] # <<>> /\ queue' = [queue EXCEPT ![q] = Tail(@)]
    BY <1>1 DEF Takes, Idle
  <2> QED BY <2>1, <2>2
<1>3. w \in Hands /\ w.message = m /\ w.pc = "ack"
  BY <1>2, IdleType DEF Idle, Hands, HandOK, WorkerState, Steps
<1>4. CASE queued = {}
  <2> DEFINE v == [w EXCEPT !.pc = NothingQueued]
  <2>1. v \in Hands /\ v.message = m /\ v.pc \notin {"idle", "publish", "reject"}
    BY <1>2, <1>3 DEF NothingQueued, Hands, HandOK, WorkerState, Steps
  <2>2. worker' = [worker EXCEPT ![q] = v] /\ UNCHANGED <<export, unsettled, failures>>
    BY <1>4 DEF Poll
  <2>3. Becomes(q, v)
    BY <2>2 DEF Becomes
  <2> HIDE DEF v, w, m
  <2>4. QueuesOK' /\ WorkersOK' /\ MessageInv'
    BY <1>1, <2>1, <2>2, <2>3, HandlerTakesOn DEF m
  <2>5. RowsOK' /\ CountsOK'
    BY <1>1, <2>2 DEF Inv, Types, RowsOK, CountsOK, Exported
  <2> QED BY <2>4, <2>5 DEF Inv, Types
<1>5. CASE queued # {}
  <2>0. PICK accepted \in SUBSET queued : \E refused \in SUBSET (queued \ accepted) :
          /\ export' = [e \in Exports |->
                IF e \in accepted THEN [export[e] EXCEPT !.status = "COMPLETE", !.updated = clock]
                ELSE IF e \in refused THEN [export[e] EXCEPT !.status = "FAILED"]
                ELSE export[e]]
          /\ unsettled' = (unsettled \/ (accepted \cup refused # {} /\ ~polling))
          /\ \/ Writes(q, w) /\ UNCHANGED failures
             \/ Failing(q, m)
    BY <1>5, Zenon DEF Poll
  <2>1. PICK refused \in SUBSET (queued \ accepted) :
          /\ export' = [e \in Exports |->
                IF e \in accepted THEN [export[e] EXCEPT !.status = "COMPLETE", !.updated = clock]
                ELSE IF e \in refused THEN [export[e] EXCEPT !.status = "FAILED"]
                ELSE export[e]]
          /\ unsettled' = (unsettled \/ (accepted \cup refused # {} /\ ~polling))
          /\ \/ Writes(q, w) /\ UNCHANGED failures
             \/ Failing(q, m)
    BY <2>0
  <2>2. RowsOK'
    <3>1. clock \in Nat /\ \A e \in Exports : export[e] \in Exported
      BY DEF Inv, Types, RowsOK
    <3>2. \A e \in Exports :
            /\ [export[e] EXCEPT !.status = "COMPLETE", !.updated = clock] \in Exported
            /\ [export[e] EXCEPT !.status = "FAILED"] \in Exported
      <4>1. clock \in 0 .. clock /\ {"COMPLETE", "FAILED"} \subseteq Statuses
        BY <3>1 DEF Statuses
      <4> SUFFICES ASSUME NEW x \in Exported
                   PROVE  /\ [x EXCEPT !.status = "COMPLETE", !.updated = clock] \in Exported
                          /\ [x EXCEPT !.status = "FAILED"] \in Exported
        BY <3>1
      <4> HIDE DEF queued, w, m
      <4> QED BY <4>1 DEF Exported
    <3> HIDE DEF queued
    <3>3. export' \in [Exports -> Exported]
      BY <2>1, <3>1, <3>2
    <3>4. unsettled' \in BOOLEAN /\ Exported' = Exported
      BY <1>1, <2>1 DEF Exported
    <3> QED BY <1>1, <3>3, <3>4 DEF Inv, Types, RowsOK
  <2> HIDE DEF w, m, queued
  <2>3. CASE Writes(q, w) /\ UNCHANGED failures
    <3>1. QueuesOK' /\ WorkersOK' /\ MessageInv'
      BY <1>1, <1>3, <2>3, HandlerTakesOn DEF Becomes, m
    <3> QED BY <1>1, <2>2, <2>3, <3>1 DEF Inv, Types, CountsOK
  <2>4. CASE Failing(q, m)
    <3>1. QueuesOK' /\ WorkersOK' /\ MessageInv' /\ failures' \in [Ids -> Nat]
      BY <1>1, <1>2, <2>4, FailingStep DEF m
    <3> QED BY <1>1, <2>2, <3>1 DEF Inv, Types, CountsOK
  <2> QED BY <2>1, <2>3, <2>4
<1> QED BY <1>4, <1>5
----------------------------------------------------------------------------
(***************************************************************************)
(* The worker itself                                                       *)
(***************************************************************************)

(* A message that failed once is published again before it is rejected. *)
LEMMA PublishAgainStep ==
    ASSUME Inv, NEW q \in Queues, PublishAgain(q)
    PROVE  Inv'
<1> DEFINE m == worker[q].message
           n == [m EXCEPT !.retry_count = 1]
           w == [worker[q] EXCEPT !.pc = "reject"]
<1>1. /\ worker[q].pc = "publish" /\ worker' = [worker EXCEPT ![q] = w]
      /\ queue' = [queue EXCEPT ![q] = Append(@, n)]
      /\ UNCHANGED <<rowVars, published, done, failures, crashes>>
  BY DEF PublishAgain
<1>2. m \in Messages /\ worker[q] \in WorkerState
  BY <1>1, WorkerType
<1>3. n \in Messages /\ n.id = m.id /\ n.retry_count = 1
  BY <1>2 DEF Messages
<1>4. w \in Hands /\ w.message = m /\ w.pc = "reject"
  BY <1>2 DEF Hands, HandOK, WorkerState, Steps
<1> HIDE DEF w, n
<1>5. /\ WorkersOK' /\ worker'[q] = w
      /\ \A r \in Queues \ {q} : worker'[r].pc = worker[r].pc
                                 /\ worker'[r].message = worker[r].message
  BY <1>1, <1>4, BecomesType DEF Becomes, Inv, Types
<1>6. /\ QueuesOK' /\ Elements(queue[q])' = Elements(queue[q]) \cup {n}
      /\ \A r \in Queues \ {q} : queue'[r] = queue[r]
  <2>1. queue[q] \in Seq(Messages) /\ queue \in [Queues -> Seq(Messages)]
    BY DEF Inv, Types, QueuesOK
  <2>2. queue'[q] = Append(queue[q], n) /\ Elements(queue[q])' = Elements(queue'[q])
    BY <1>1, <2>1 DEF Elements
  <2> QED BY <1>1, <1>3, <2>1, <2>2, AppendElements DEF QueuesOK
<1>7. Here(q)' = Here(q) \cup {n}
  BY <1>1, <1>4, <1>5, <1>6 DEF Here, With
<1>8. failures[m.id] >= 1
  BY <1>1 DEF Inv, MessageInv, RejectIsSafe
<1>9. \A x \in Here(q)' : x.retry_count = 1 => failures'[x.id] >= 1
  BY <1>1, <1>3, <1>7, <1>8 DEF Inv, MessageInv, RetriesFailed
<1>10. failures \in [Ids -> Nat] /\ \A i \in Ids : failures'[i] >= failures[i]
  BY <1>1 DEF Inv, Types, CountsOK
<1>11. \E x \in Elements(queue[q])' : x.id = worker'[q].message.id
  BY <1>3, <1>4, <1>5, <1>6
<1> HIDE DEF Here
<1>12. OthersKeep(q)
  BY <1>5, <1>6 DEF OthersKeep
<1>13. MessageInv'
  BY <1>1, <1>4, <1>5, <1>6, <1>7, <1>9, <1>10, <1>11, <1>12, OneWorker
<1> QED BY <1>1, <1>5, <1>6, <1>13 DEF Inv, Types, RowsOK, CountsOK, Exported, rowVars

(* The end of a message: it is rejected or acknowledged. *)
LEMMA EndSteps ==
    ASSUME Inv, NEW q \in Queues, Reject(q) \/ Acknowledge(q)
    PROVE  Inv'
<1> DEFINE m == worker[q].message
<1>1. /\ worker[q].pc # "idle" /\ worker' = [worker EXCEPT ![q] = Idle]
      /\ UNCHANGED <<rowVars, queue, published, failures, crashes>>
      /\ \/ worker[q].pc = "reject" /\ done' = done
         \/ worker[q].pc = "ack" /\ done' = done \cup {m.id}
  BY DEF Reject, Acknowledge, messageVars
<1>2. m \in Messages /\ m.id \in Ids
  BY <1>1, WorkerType DEF Messages, Ids
<1>3. /\ WorkersOK' /\ worker'[q] = Idle
      /\ \A r \in Queues \ {q} : worker'[r].pc = worker[r].pc
                                 /\ worker'[r].message = worker[r].message
  BY <1>1, IdleType, BecomesType DEF Becomes, Inv, Types
<1>4. Here(q)' = Elements(queue[q]) /\ Here(q) = Elements(queue[q]) \cup {m}
      /\ Elements(queue[q])' = Elements(queue[q])
  BY <1>1, <1>3 DEF Here, With, Idle, Elements
<1>5. EndedNext(m.id) \/ \E n \in Elements(queue[q]) : n.id = m.id
  <2>1. CASE worker[q].pc = "reject" /\ done' = done
    BY <1>1, <2>1 DEF Inv, MessageInv, RejectIsSafe, Ended, EndedNext
  <2>2. CASE done' = done \cup {m.id}
    BY <2>2 DEF EndedNext
  <2> QED BY <1>1, <2>1, <2>2
<1>6. \A n \in Here(q)' : n.retry_count = 1 => failures'[n.id] >= 1
  BY <1>1, <1>4 DEF Inv, MessageInv, RetriesFailed
<1>7. failures \in [Ids -> Nat] /\ \A i \in Ids : failures'[i] >= failures[i]
  BY <1>1 DEF Inv, Types, CountsOK
<1>8. worker'[q].pc = "idle" /\ QueuesOK' /\ done \subseteq done' /\ done' \subseteq Ids
  BY <1>1, <1>2, <1>3 DEF Idle, Inv, Types, QueuesOK, CountsOK
<1> HIDE DEF Here, m
<1>9. OthersKeep(q)
  BY <1>1, <1>3 DEF OthersKeep
<1>10. \A x \in Here(q) : EndedNext(x.id) \/ \E n \in Here(q)' : n.id = x.id
  BY <1>4, <1>5
<1>11. MessageInv'
  BY <1>1, <1>3, <1>6, <1>7, <1>8, <1>9, <1>10, OneWorker
<1> QED BY <1>1, <1>3, <1>8, <1>11 DEF Inv, Types, RowsOK, CountsOK, Exported, rowVars

(* A worker that dies gives its message back. *)
LEMMA CrashStep ==
    ASSUME Inv, NEW q \in Queues, Crash(q)
    PROVE  Inv'
<1> DEFINE m == worker[q].message
<1>1. /\ worker[q].pc # "idle" /\ worker' = [worker EXCEPT ![q] = Idle]
      /\ queue' = [queue EXCEPT ![q] = <<m>> \o @]
      /\ crashes' = crashes + 1 /\ unsettled' = TRUE
      /\ UNCHANGED <<export, summary, polling, clock, published, done, failures>>
  BY DEF Crash, Unacknowledged
<1>2. m \in Messages
  BY <1>1, WorkerType
<1>3. /\ WorkersOK' /\ worker'[q] = Idle
      /\ \A r \in Queues \ {q} : worker'[r].pc = worker[r].pc
                                 /\ worker'[r].message = worker[r].message
  BY <1>1, IdleType, BecomesType DEF Becomes, Inv, Types
<1>4. /\ QueuesOK' /\ Elements(queue[q])' = Elements(queue[q]) \cup {m}
      /\ \A r \in Queues \ {q} : queue'[r] = queue[r]
  <2>1. queue[q] \in Seq(Messages) /\ queue \in [Queues -> Seq(Messages)]
    BY DEF Inv, Types, QueuesOK
  <2>2. queue'[q] = <<m>> \o queue[q] /\ Elements(queue[q])' = Elements(queue'[q])
    BY <1>1, <2>1 DEF Elements
  <2> QED BY <1>1, <1>2, <2>1, <2>2, PushElements DEF QueuesOK
<1>5. Here(q)' = Here(q)
  BY <1>1, <1>3, <1>4 DEF Here, With, Idle
<1>6. \A n \in Here(q)' : n.retry_count = 1 => failures'[n.id] >= 1
  BY <1>1, <1>5 DEF Inv, MessageInv, RetriesFailed
<1>7. failures \in [Ids -> Nat] /\ \A i \in Ids : failures'[i] >= failures[i]
  BY <1>1 DEF Inv, Types, CountsOK
<1> HIDE DEF Here, m
<1>8. OthersKeep(q) /\ worker'[q].pc = "idle"
  BY <1>3, <1>4 DEF OthersKeep, Idle
<1>9. MessageInv'
  BY <1>1, <1>3, <1>4, <1>5, <1>6, <1>7, <1>8, OneWorker
<1>10. crashes' \in Nat
  BY <1>1 DEF Inv, Types, CountsOK
<1> QED BY <1>1, <1>3, <1>4, <1>9, <1>10 DEF Inv, Types, RowsOK, CountsOK, Exported
----------------------------------------------------------------------------
(***************************************************************************)
(* New messages, and every step together                                   *)
(***************************************************************************)

\* A message of this kind is published.
Published(kind) ==
    /\ published < MaxMessages
    /\ queue' = Appended(kind)
    /\ published' = published + 1

(* A new message disturbs none that is there. *)
LEMMA PublishingKeeps ==
    ASSUME Inv, NEW kind \in Kinds, Published(kind), UNCHANGED <<done, failures>>,
           \A q \in Queues : worker'[q].pc = worker[q].pc /\ worker'[q].message = worker[q].message
    PROVE  QueuesOK' /\ MessageInv' /\ published' \in 0 .. MaxMessages
<1> DEFINE new == [id |-> published + 1, kind |-> kind, retry_count |-> 0]
           k == QueueOf(kind)
<1>1. published \in Nat /\ MaxMessages \in Nat /\ published + 1 \in 1 .. MaxMessages
  BY WorkersAssumption DEF Inv, Types, CountsOK, Published
<1>2. new \in Messages /\ new.id = published + 1 /\ new.retry_count = 0
  BY <1>1 DEF Messages
<1>3. k \in Queues /\ queue' = [queue EXCEPT ![k] = Append(@, new)]
  BY DEF Published, Appended, QueueOf, Queues
<1> HIDE DEF new, k
<1>4. queue \in [Queues -> Seq(Messages)]
  BY DEF Inv, Types, QueuesOK
<1>5. queue'[k] = Append(queue[k], new) /\ \A q \in Queues \ {k} : queue'[q] = queue[q]
  BY <1>3, <1>4
<1>6. QueuesOK'
  BY <1>2, <1>3, <1>4, AppendElements DEF QueuesOK
<1>7. /\ Elements(queue[k])' = Elements(queue[k]) \cup {new}
      /\ \A q \in Queues \ {k} : Elements(queue[q])' = Elements(queue[q])
  <2>1. \A q \in Queues : Elements(queue[q])' = Elements(queue'[q])
    BY DEF Elements
  <2>2. Elements(Append(queue[k], new)) = Elements(queue[k]) \cup {new}
    BY <1>2, <1>3, <1>4, AppendElements
  <2> QED BY <1>3, <1>5, <2>1, <2>2
<1>8. \A q \in Queues : With(q)' = With(q)
  BY DEF With
<1>9. \A q \in Queues : Here(q) \subseteq Here(q)' /\ Here(q)' \subseteq Here(q) \cup {new}
  BY <1>7, <1>8 DEF Here
<1>10. new \in Here(k)'
  BY <1>7 DEF Here
<1>11. RetriesFailed'
  BY <1>2, <1>9 DEF Inv, MessageInv, RetriesFailed
<1>12. RejectIsSafe'
  <2>1. \A q \in Queues : Elements(queue[q]) \subseteq Elements(queue[q])'
    BY <1>7
  <2>2. \A i : Ended(i) => EndedNext(i)
    BY DEF Ended, EndedNext
  <2> SUFFICES ASSUME NEW q \in Queues
               PROVE  /\ worker'[q].pc = "publish" => failures'[worker'[q].message.id] >= 1
                      /\ worker'[q].pc = "reject" =>
                            \/ EndedNext(worker'[q].message.id)
                            \/ \E m \in Elements(queue[q])' : m.id = worker'[q].message.id
    BY DEF RejectIsSafe, Ended, EndedNext
  <2>3. CASE worker[q].pc = "publish"
    BY <2>3 DEF Inv, MessageInv, RejectIsSafe
  <2>4. CASE worker[q].pc = "reject"
    BY <2>1, <2>2, <2>4 DEF Inv, MessageInv, RejectIsSafe
  <2> QED BY <2>3, <2>4
<1>13. Kept'
  <2> SUFFICES ASSUME NEW i \in 1 .. published'
               PROVE  EndedNext(i) \/ \E q \in Queues : \E m \in Here(q)' : m.id = i
    BY DEF Kept, Ended, EndedNext
  <2>1. CASE i = published + 1
    BY <1>2, <1>3, <1>10, <2>1
  <2>2. CASE i \in 1 .. published
    <3>1. Ended(i) \/ \E q \in Queues : \E m \in Here(q) : m.id = i
      BY <2>2 DEF Inv, MessageInv, Kept
    <3> HIDE DEF Here
    <3> QED BY <3>1, <1>9 DEF Ended, EndedNext
  <2> QED BY <1>1, <2>1, <2>2 DEF Published
<1> QED BY <1>1, <1>6, <1>11, <1>12, <1>13 DEF MessageInv, Published

(* Schedules, users and webhooks publish an export. *)
LEMMA PublishStep ==
    ASSUME Inv, NEW kind \in Kinds, Publish(kind)
    PROVE  Inv'
<1>1. Published(kind) /\ UNCHANGED <<rowVars, worker, done, failures, crashes>>
  BY WorkersAssumption DEF Publish, Published, Inv, Types, CountsOK
<1>2. QueuesOK' /\ MessageInv' /\ published' \in 0 .. MaxMessages
  BY <1>1, PublishingKeeps
<1> QED BY <1>1, <1>2 DEF Inv, Types, WorkersOK, RowsOK, CountsOK, Exported, rowVars

(* The recovery publishes an export without the argument it needs. *)
LEMMA RecoverStep ==
    ASSUME Inv, RecoverStuck
    PROVE  Inv'
<1>1. /\ worker' = [q \in Queues |-> [worker[q] EXCEPT !.clean = @ /\ worker[q].copy = None]]
      /\ unsettled' = TRUE /\ UNCHANGED <<summary, polling, clock, done, failures, crashes>>
  BY DEF RecoverStuck
<1>2. ASSUME NEW q \in Queues
      PROVE  /\ worker'[q] \in Hands
             /\ worker'[q].pc = worker[q].pc /\ worker'[q].message = worker[q].message
  <2>1. worker[q] \in WorkerState /\ HandOK(worker[q])
    BY DEF Inv, Types, WorkersOK, Hands
  <2> DEFINE b == worker[q].clean /\ worker[q].copy = None
             v == [worker[q] EXCEPT !.clean = b]
  <2>2. b \in BOOLEAN
    BY <2>1 DEF WorkerState
  <2>3. worker'[q] = v
    BY <1>1
  <2> HIDE DEF b
  <2>4. v \in WorkerState /\ v.pc = worker[q].pc /\ v.message = worker[q].message
        /\ v.todo = worker[q].todo /\ v.copy = worker[q].copy
    BY <2>1, <2>2 DEF WorkerState
  <2> HIDE DEF v
  <2> QED BY <2>1, <2>3, <2>4 DEF Hands, HandOK
<1>3. WorkersOK'
  BY <1>1, <1>2 DEF WorkersOK
<1>4. RowsOK'
  <2>1. export \in [Exports -> Exported] /\ Exported' = Exported
    BY <1>1 DEF Inv, Types, RowsOK, Exported
  <2>2. \A e \in Exports : [export[e] EXCEPT !.status = "FAILED", !.reattempt = TRUE] \in Exported
    BY <2>1 DEF Exported, Statuses
  <2>3. export' \in [Exports -> Exported]
    BY <2>1, <2>2 DEF RecoverStuck
  <2> QED BY <1>1, <2>1, <2>3 DEF Inv, Types, RowsOK
<1>5. CASE UNCHANGED <<queue, published>>
  <2>1. \A q \in Queues : Here(q)' = Here(q) /\ Elements(queue[q])' = Elements(queue[q])
    BY <1>2, <1>5 DEF Here, With, Elements
  <2>2. RetriesFailed' /\ Kept'
    BY <1>1, <1>5, <2>1 DEF Inv, MessageInv, RetriesFailed, Kept, Ended
  <2>3. RejectIsSafe'
    BY <1>1, <1>2, <2>1 DEF Inv, MessageInv, RejectIsSafe, Ended
  <2> QED BY <1>1, <1>3, <1>4, <1>5, <2>2, <2>3
          DEF Inv, Types, QueuesOK, CountsOK, MessageInv
<1>6. CASE ~UNCHANGED <<queue, published>>
  <2>1. Published("BACKGROUND_SCHEDULE_EXPORT")
    <3>1. /\ published + crashes < MaxMessages /\ published' = published + 1
          /\ queue' = Appended("BACKGROUND_SCHEDULE_EXPORT")
      BY <1>6 DEF RecoverStuck
    <3>2. published \in Nat /\ crashes \in Nat /\ MaxMessages \in Nat
      BY WorkersAssumption DEF Inv, Types, CountsOK
    <3> QED BY <3>1, <3>2 DEF Published
  <2>2. QueuesOK' /\ MessageInv' /\ published' \in 0 .. MaxMessages
    BY <1>1, <1>2, <2>1, PublishingKeeps DEF Kinds
  <2> QED BY <1>1, <1>3, <1>4, <2>2 DEF Inv, Types, CountsOK
<1> QED BY <1>5, <1>6

(* The invariant holds of the initial states. *)
LEMMA Initially == Init => Inv
<1> SUFFICES ASSUME Init PROVE Inv
  OBVIOUS
<1>1. /\ queue = [q \in Queues |-> <<>>] /\ worker = [q \in Queues |-> Idle]
      /\ published = 0 /\ done = {} /\ failures = [m \in Ids |-> 0]
  BY DEF Init, Ids
<1>2. QueuesOK /\ WorkersOK
  BY <1>1, IdleType DEF QueuesOK, WorkersOK
<1>3. RowsOK
  <2>1. Cardinality(Exports) \in Nat
    BY FS_CardinalityType, WorkersAssumption
  <2>2. /\ export = [e \in Exports |-> [status |-> "EXPORT_READY", reattempt |-> FALSE, updated |-> 0]]
        /\ summary = [last |-> 0, failed |-> 0, successful |-> 0]
        /\ polling = FALSE /\ unsettled = FALSE /\ clock = 0
    BY DEF Init
  <2>3. [status |-> "EXPORT_READY", reattempt |-> FALSE, updated |-> 0] \in Exported
    BY <2>2 DEF Exported, Statuses
  <2>4. summary \in Summaries
    BY <2>1, <2>2 DEF Summaries
  <2> QED BY <2>2, <2>3, <2>4 DEF RowsOK
<1>4. CountsOK
  BY <1>1, WorkersAssumption DEF Init, CountsOK
<1>5. \A q \in Queues : Here(q) = {} /\ worker[q].pc = "idle"
  BY <1>1 DEF Here, With, Elements, Idle
<1>6. MessageInv
  BY <1>1, <1>5 DEF MessageInv, RetriesFailed, RejectIsSafe, Kept
<1> QED BY <1>2, <1>3, <1>4, <1>6 DEF Inv, Types

(* Every step keeps the invariant. *)
LEMMA Step == Inv /\ [Next]_vars => Inv'
<1> SUFFICES ASSUME Inv, [Next]_vars PROVE Inv'
  OBVIOUS
<1>1. CASE \E kind \in Kinds : Publish(kind)
  BY <1>1, PublishStep
<1>2. CASE \E q \in Queues : Crash(q)
  BY <1>2, CrashStep
<1>3. ASSUME NEW q \in Queues, Work(q)
      PROVE  Inv'
  <2>1. CASE Handle(q)
    BY <2>1, StartExportStep, ExportNextStep, RowStep, PollStep DEF Handle, RowSteps
  <2>2. CASE RaiseAtStart(q) \/ Raise(q)
    BY <2>2, RaiseSteps
  <2>3. CASE PublishAgain(q)
    BY <2>3, PublishAgainStep
  <2>4. CASE Reject(q) \/ Acknowledge(q)
    BY <2>4, EndSteps
  <2> QED BY <1>3, <2>1, <2>2, <2>3, <2>4 DEF Work
<1>4. CASE RecoverStuck
  BY <1>4, RecoverStep
<1>5. CASE UNCHANGED vars
  <2>1. UNCHANGED <<queue, worker, export, summary, polling, clock, published, done, failures,
                    crashes, unsettled>>
    BY <1>5 DEF vars
  <2>2. Types'
    BY <2>1 DEF Inv, Types, QueuesOK, WorkersOK, RowsOK, CountsOK, Exported
  <2>3. \A q \in Queues : Here(q)' = Here(q) /\ Elements(queue[q])' = Elements(queue[q])
    BY <2>1 DEF Here, With, Elements
  <2>4. RetriesFailed' /\ Kept' /\ RejectIsSafe'
    BY <2>1, <2>3 DEF Inv, MessageInv, RetriesFailed, Kept, RejectIsSafe, Ended
  <2> QED BY <2>2, <2>4 DEF Inv, MessageInv
<1> QED BY <1>1, <1>2, <1>3, <1>4, <1>5 DEF Next

(* The types of the invariant imply those the run checks. *)
LEMMA TypesSuffice == Types => TypeOK
<1> SUFFICES ASSUME Types PROVE TypeOK
  OBVIOUS
<1>1. ASSUME NEW q \in Queues
      PROVE  /\ \A i \in DOMAIN queue[q] : queue[q][i] \in Messages
             /\ worker[q] \in WorkerState /\ HandOK(worker[q])
  BY DEF Types, QueuesOK, WorkersOK, Hands
<1>2. ASSUME NEW q \in Queues
      PROVE  /\ worker[q].pc \in Steps /\ worker[q].todo \subseteq Exports
             /\ worker[q].copy \in Summaries \cup {None}
             /\ worker[q].pc # "idle" => worker[q].message \in Messages
             /\ worker[q].pc \in {"sync", "chain"} => worker[q].todo # {}
  BY <1>1 DEF WorkerState, HandOK
<1>3. export \in [Exports -> [status : Statuses, reattempt : BOOLEAN, updated : 0 .. clock]]
  BY DEF Types, RowsOK, Exported
<1> QED BY <1>1, <1>2, <1>3 DEF Types, RowsOK, CountsOK, Ids, TypeOK

(* Type correctness: messages, workers, exports and the summary keep their types. *)
THEOREM TypeCorrect == Spec => []TypeOK
<1>1. Inv => TypeOK
  BY TypesSuffice DEF Inv
<1> QED BY Initially, Step, <1>1, PTL DEF Spec

(* No message is lost: it waits, is with a worker, was handled or failed twice. *)
THEOREM NothingIsEverLost == Spec => []NothingIsLost
<1>1. Inv => NothingIsLost
  BY KeptIsEnough DEF Inv, MessageInv
<1> QED BY Initially, Step, <1>1, PTL DEF Spec
----------------------------------------------------------------------------
(***************************************************************************)
(* The summary                                                             *)
(*                                                                         *)
(* SummaryAgrees and CountsAreNotOverwritten follow from what a worker's   *)
(* copy of the row is worth while nobody has written since it was read     *)
(* (FreshInv), and from who is still to count when the row is behind       *)
(* (Settles): a worker in an export or a count, or the polling.            *)
(***************************************************************************)
Held == {"save", "counted", "unschedule"}
Mid == {"sync", "chain", "schedule", "refresh", "save", "count", "counted"}

FreshOne(q) ==
    /\ worker[q].pc \in Held => worker[q].copy \in Summaries
    /\ worker[q].clean =>
          /\ worker[q].pc = "save" => worker[q].copy = summary
          /\ worker[q].pc = "counted" => worker[q].copy = Counted(summary)
          /\ worker[q].pc = "unschedule" => summary = Counted(summary)

FreshInv == \A q \in Queues : FreshOne(q)

Settles ==
    ~unsettled => \/ summary = Counted(summary)
                  \/ polling
                  \/ \E q \in Queues : worker[q].pc \in Mid

Counting == FreshInv /\ Settles

(* What one worker's step leaves the others: their copies, clean only if nothing
   was written. *)
LEMMA OthersFresh ==
    ASSUME Inv, FreshInv, NEW q \in Queues, NEW w,
           \/ Writes(q, w)
           \/ worker' = [worker EXCEPT ![q] = w] /\ UNCHANGED <<export, summary>>
    PROVE  /\ worker'[q] = w
           /\ \A r \in Queues \ {q} : worker'[r].pc = worker[r].pc /\ FreshOne(r)'
<1>1. worker \in [Queues -> WorkerState]
  BY DEF Inv, Types, WorkersOK, Hands
<1>2. CASE Writes(q, w)
  <2>1. worker'[q] = w
    BY <1>2 DEF Writes
  <2>2. ASSUME NEW r \in Queues \ {q} PROVE worker'[r].pc = worker[r].pc /\ FreshOne(r)'
    <3> DEFINE b == worker[r].clean /\ worker[r].copy = None
    <3>1. worker'[r] = [worker[r] EXCEPT !.clean = b]
      BY <1>2 DEF Writes
    <3>2. worker[r].pc \in Held => ~b
      BY NoneAssumption DEF FreshInv, FreshOne
    <3> HIDE DEF b
    <3>3. /\ worker'[r].pc = worker[r].pc /\ worker'[r].copy = worker[r].copy
          /\ worker'[r].clean = b
      BY <1>1, <3>1 DEF WorkerState
    <3>4. worker[r].pc \in Held => worker[r].copy \in Summaries
      BY DEF FreshInv, FreshOne
    <3> QED BY <3>2, <3>3, <3>4 DEF FreshOne, Held, Summaries
  <2> QED BY <2>1, <2>2
<1>3. CASE worker' = [worker EXCEPT ![q] = w] /\ UNCHANGED <<export, summary>>
  <2>1. worker'[q] = w /\ \A r \in Queues \ {q} : worker'[r] = worker[r]
    BY <1>1, <1>3
  <2>2. Counted(summary)' = Counted(summary)
    BY <1>3 DEF Counted, WithStatus, Successful
  <2>3. \A r \in Queues \ {q} : FreshOne(r)'
    BY <1>3, <2>1, <2>2 DEF FreshInv, FreshOne, Summaries
  <2> QED BY <2>1, <2>3
<1> QED BY <1>2, <1>3

(* Who is to count stays, as long as the summary is not touched. *)
LEMMA SettlesSame ==
    ASSUME Settles, ~unsettled' => ~unsettled /\ UNCHANGED <<export, summary, polling>>,
           \A q \in Queues : worker[q].pc \in Mid => worker'[q].pc \in Mid
    PROVE  Settles'
<1> SUFFICES ASSUME ~unsettled'
             PROVE  \/ (summary = Counted(summary))' \/ polling'
                    \/ \E q \in Queues : worker'[q].pc \in Mid
  BY DEF Settles
<1>1. (summary = Counted(summary))' <=> summary = Counted(summary)
  BY DEF Counted, WithStatus, Successful
<1> QED BY <1>1 DEF Settles

(* An export in progress ends with a count, or with polling to come, or leaves the
   summary behind. *)
LEMMA ExportCounts ==
    ASSUME Inv, Counting, NEW q \in Queues,
           StartExport(q) \/ ExportNext(q) \/ CreateScheduleForPolling(q) \/ Refresh(q)
    PROVE  Counting'
<1> USE DEF Counting
<1>t. worker[q] \in WorkerState /\ worker \in [Queues -> WorkerState]
  BY DEF Inv, Types, WorkersOK, Hands
<1>1. ASSUME NEW w, w.pc \in Mid \ Held, Writes(q, w)
      PROVE  Counting'
  <2>1. worker'[q] = w /\ \A r \in Queues \ {q} : FreshOne(r)'
    BY <1>1, OthersFresh
  <2>2. FreshOne(q)'
    BY <1>1, <2>1 DEF FreshOne, Held
  <2>3. Settles'
    BY <1>1, <2>1 DEF Settles
  <2> QED BY <2>1, <2>2, <2>3 DEF FreshInv
<1>2. CASE StartExport(q)
  <2> DEFINE m == Head(queue[q])
             ids == Selected(m.kind)
  <2>1. CASE ids = {}
    <3>1. PICK w : w = [worker[q] EXCEPT !.pc = "ack", !.message = m]
      OBVIOUS
    <3>2. worker' = [worker EXCEPT ![q] = w] /\ UNCHANGED <<export, summary, unsettled, polling>>
      BY <1>2, <2>1, <3>1 DEF StartExport
    <3>a. worker[q] = Idle
      BY <1>2 DEF StartExport, Takes
    <3>3. w.pc = "ack" /\ worker[q].pc = "idle"
      BY <3>1, <3>a DEF Idle
    <3>4. worker'[q] = w /\ \A r \in Queues \ {q} : worker'[r].pc = worker[r].pc /\ FreshOne(r)'
      BY <3>2, OthersFresh
    <3>5. FreshOne(q)'
      BY <3>3, <3>4 DEF FreshOne, Held
    <3>6. Settles'
      BY <3>2, <3>3, <3>4, SettlesSame DEF Mid
    <3> QED BY <3>4, <3>5, <3>6 DEF FreshInv
  <2>2. CASE ids # {}
    <3>1. PICK skipped, chain, last :
            Writes(q, [Idle EXCEPT !.pc = IF chain = {} THEN "refresh" ELSE "sync", !.message = m,
                                   !.todo = chain, !.last = last, !.start = Tick,
                                   !.own = summary])
      BY <1>2, <2>2 DEF StartExport
    <3>2. PICK w : w = [Idle EXCEPT !.pc = IF chain = {} THEN "refresh" ELSE "sync", !.message = m,
                                   !.todo = chain, !.last = last, !.start = Tick,
                                   !.own = summary]
      OBVIOUS
    <3>3. w.pc \in Mid \ Held
      BY <3>2 DEF Idle, Mid, Held
    <3> QED BY <1>1, <3>1, <3>2, <3>3
  <2> QED BY <2>1, <2>2
<1>3. CASE ExportNext(q)
  <2>1. PICK e, fails : Writes(q, [worker[q] EXCEPT !.pc = AfterExport(q, e, fails), !.todo = @ \ {e},
                            !.last = IF AfterExport(q, e, fails) = "chain" THEN @ ELSE None])
    BY <1>3 DEF ExportNext
  <2>2. PICK w : w = [worker[q] EXCEPT !.pc = AfterExport(q, e, fails), !.todo = @ \ {e},
                            !.last = IF AfterExport(q, e, fails) = "chain" THEN @ ELSE None]
    OBVIOUS
  <2>3. w.pc = AfterExport(q, e, fails)
    BY <1>t, <2>2 DEF WorkerState
  <2>4. w.pc \in Mid \ Held
    BY <2>3 DEF AfterExport, Mid, Held
  <2> QED BY <1>1, <2>1, <2>2, <2>4
<1>4. CASE CreateScheduleForPolling(q)
  <2>1. PICK w : w = [worker[q] EXCEPT !.pc = "refresh"]
    OBVIOUS
  <2>2. w.pc = "refresh"
    BY <1>t, <2>1 DEF WorkerState
  <2> QED BY <1>1, <1>4, <2>1, <2>2 DEF CreateScheduleForPolling, Mid, Held
<1>5. CASE Refresh(q)
  <2>1. PICK w : w = [worker[q] EXCEPT !.pc = "save", !.copy = summary, !.clean = TRUE, !.own = None]
    OBVIOUS
  <2>2. w.pc = "save" /\ w.copy = summary
    BY <1>t, <2>1 DEF WorkerState
  <2>3. worker' = [worker EXCEPT ![q] = w] /\ UNCHANGED <<export, summary>>
    BY <1>5, <2>1 DEF Refresh, Refreshed, rowVars
  <2>4. worker'[q] = w /\ \A r \in Queues \ {q} : FreshOne(r)'
    BY <2>3, OthersFresh
  <2>5. FreshOne(q)'
    BY <2>2, <2>3, <2>4 DEF FreshOne, Inv, Types, RowsOK, Summaries
  <2>6. Settles'
    BY <2>2, <2>4 DEF Settles, Mid
  <2> QED BY <2>4, <2>5, <2>6 DEF FreshInv
<1> QED BY <1>2, <1>3, <1>4, <1>5

(* The counts are saved as they are, or the row is known to be behind. *)
LEMMA SavesCount ==
    ASSUME Inv, Counting, NEW q \in Queues,
           SaveLastExported(q) \/ Count(q) \/ SaveCounts(q) \/ DeleteSchedule(q)
    PROVE  Counting'
<1> USE DEF Counting
<1>t. worker[q] \in WorkerState /\ worker \in [Queues -> WorkerState]
  BY DEF Inv, Types, WorkersOK, Hands
<1>1. CASE SaveLastExported(q)
  <2>1. PICK w : w = [Idle EXCEPT !.pc = "ack", !.message = worker[q].message]
    OBVIOUS
  <2>2. w.pc = "ack" /\ Writes(q, w)
    BY <1>1, <2>1 DEF Idle, SaveLastExported
  <2>3. worker'[q] = w /\ \A r \in Queues \ {q} : FreshOne(r)'
    BY <2>2, OthersFresh
  <2>4. FreshOne(q)'
    BY <2>2, <2>3 DEF FreshOne, Held
  <2>5. Settles'
    BY <1>1 DEF SaveLastExported, Settles
  <2> QED BY <2>3, <2>4, <2>5 DEF FreshInv
<1>2. CASE Count(q)
  <2>1. PICK w : w = [worker[q] EXCEPT !.pc = "counted", !.copy = Counted(summary), !.clean = TRUE]
    OBVIOUS
  <2>2. w.pc = "counted" /\ w.copy = Counted(summary)
    BY <1>t, <2>1 DEF WorkerState
  <2>3. worker' = [worker EXCEPT ![q] = w] /\ UNCHANGED <<export, summary>>
    BY <1>2, <2>1 DEF Count, rowVars
  <2>4. worker'[q] = w /\ \A r \in Queues \ {q} : FreshOne(r)'
    BY <2>3, OthersFresh
  <2>5. Counted(summary)' = Counted(summary) /\ Counted(summary) \in Summaries
    BY <2>3, CountedType DEF Inv, Types, Counted, WithStatus, Successful
  <2>6. FreshOne(q)'
    BY <2>2, <2>4, <2>5 DEF FreshOne, Summaries
  <2>7. Settles'
    BY <2>2, <2>4 DEF Settles, Mid
  <2> QED BY <2>4, <2>6, <2>7 DEF FreshInv
<1>3. CASE SaveCounts(q)
  <2>1. PICK w : w = IF worker[q].message.kind = "POLL"
                     THEN [worker[q] EXCEPT !.pc = "unschedule"]
                     ELSE [worker[q] EXCEPT !.pc = "schedule", !.copy = None, !.clean = TRUE]
    OBVIOUS
  <2>2. /\ Writes(q, w) /\ worker[q].pc = "counted" /\ summary' = worker[q].copy
        /\ export' = export /\ unsettled' = ~worker[q].clean
    BY <1>3, <2>1 DEF SaveCounts
  <2>3. /\ w.pc \in {"unschedule", "schedule"}
        /\ w.pc = "unschedule" => w.copy = worker[q].copy /\ w.clean = worker[q].clean
    BY <1>t, <2>1 DEF WorkerState
  <2>4. worker'[q] = w /\ \A r \in Queues \ {q} : FreshOne(r)'
    BY <2>2, OthersFresh
  <2>5. worker[q].clean => (summary = Counted(summary))'
    <3> SUFFICES ASSUME worker[q].clean PROVE (summary = Counted(summary))'
      OBVIOUS
    <3>1. summary' = Counted(summary)
      BY <2>2 DEF FreshInv, FreshOne
    <3>2. summary'.last = summary.last
      BY <3>1 DEF Counted
    <3>3. Counted(summary)' = Counted(summary)
      BY <2>2, <3>2 DEF Counted, WithStatus, Successful
    <3> QED BY <3>1, <3>3
  <2>6. FreshOne(q)'
    BY <2>2, <2>3, <2>4, <2>5 DEF FreshInv, FreshOne, Held, Summaries
  <2>7. Settles'
    BY <2>2, <2>5 DEF Settles
  <2> QED BY <2>4, <2>6, <2>7 DEF FreshInv
<1>4. CASE DeleteSchedule(q)
  <2>1. PICK w : w = [Idle EXCEPT !.pc = "ack", !.message = worker[q].message]
    OBVIOUS
  <2>2. w.pc = "ack" /\ worker' = [worker EXCEPT ![q] = w] /\ UNCHANGED <<export, summary>>
        /\ unsettled' = (unsettled \/ ~worker[q].clean) /\ worker[q].pc = "unschedule"
    BY <1>4, <2>1 DEF Idle, DeleteSchedule
  <2>3. worker'[q] = w /\ \A r \in Queues \ {q} : FreshOne(r)'
    BY <2>2, OthersFresh
  <2>4. FreshOne(q)'
    BY <2>2, <2>3 DEF FreshOne, Held
  <2>5. Counted(summary)' = Counted(summary)
    BY <2>2 DEF Counted, WithStatus, Successful
  <2>6. Settles'
    BY <2>2, <2>5 DEF Settles, FreshInv, FreshOne
  <2> QED BY <2>3, <2>4, <2>6 DEF FreshInv
<1> QED BY <1>1, <1>2, <1>3, <1>4

(* A poll changes exports only with polling to come, or the row is known to be
   behind. *)
LEMMA PollCounts ==
    ASSUME Inv, Counting, NEW q \in Queues, Poll(q)
    PROVE  Counting'
<1> USE DEF Counting
<1> DEFINE m == Head(queue[q])
           queued == WithStatus("EXPORT_QUEUED")
<1>0. worker[q].pc = "idle" /\ UNCHANGED <<summary, polling>>
  <2>1. Takes(q, {"POLL"}) /\ UNCHANGED <<summary, polling>>
    BY DEF Poll
  <2> QED BY <2>1 DEF Takes, Idle
<1>1. PICK w : w = [Idle EXCEPT !.pc = "ack", !.message = m]
  OBVIOUS
<1>2. CASE queued = {}
  <2>1. PICK v : v = [w EXCEPT !.pc = NothingQueued]
    OBVIOUS
  <2>2. v.pc \in {"count", "ack"}
    BY <1>1, <2>1 DEF NothingQueued, Idle
  <2>3. worker' = [worker EXCEPT ![q] = v] /\ UNCHANGED <<export, unsettled>>
    BY <1>1, <1>2, <2>1 DEF Poll
  <2>4. worker'[q] = v /\ \A r \in Queues \ {q} : worker'[r].pc = worker[r].pc /\ FreshOne(r)'
    BY <1>0, <2>3, OthersFresh
  <2>5. FreshOne(q)'
    BY <2>2, <2>4 DEF FreshOne, Held
  <2>6. Settles'
    BY <1>0, <2>3, <2>4, SettlesSame DEF Mid
  <2> QED BY <2>4, <2>5, <2>6 DEF FreshInv
<1>3. CASE queued # {}
  <2>1. PICK accepted \in SUBSET queued : \E refused \in SUBSET (queued \ accepted) :
          /\ export' = [e \in Exports |->
                IF e \in accepted THEN [export[e] EXCEPT !.status = "COMPLETE", !.updated = clock]
                ELSE IF e \in refused THEN [export[e] EXCEPT !.status = "FAILED"]
                ELSE export[e]]
          /\ unsettled' = (unsettled \/ (accepted \cup refused # {} /\ ~polling))
          /\ \/ Writes(q, w) /\ UNCHANGED failures
             \/ Failing(q, m)
    BY <1>1, <1>3, Zenon DEF Poll
  <2>2. PICK refused \in SUBSET (queued \ accepted) :
          /\ export' = [e \in Exports |->
                IF e \in accepted THEN [export[e] EXCEPT !.status = "COMPLETE", !.updated = clock]
                ELSE IF e \in refused THEN [export[e] EXCEPT !.status = "FAILED"]
                ELSE export[e]]
          /\ unsettled' = (unsettled \/ (accepted \cup refused # {} /\ ~polling))
          /\ \/ Writes(q, w) /\ UNCHANGED failures
             \/ Failing(q, m)
    BY <2>1
  <2>3. PICK v : Writes(q, v) /\ v.pc \in {"ack", "publish", "reject"}
    <3>1. w.pc = "ack"
      BY <1>1 DEF Idle
    <3>2. CASE Failing(q, m)
      <4>1. PICK u : u = [Idle EXCEPT !.message = m,
                                      !.pc = IF MayRetry(m, failures'[m.id]) THEN "publish" ELSE "reject"]
        OBVIOUS
      <4>2. Writes(q, u) /\ u.pc \in {"publish", "reject"}
        BY <3>2, <4>1 DEF Failing, Idle
      <4> QED BY <4>2
    <3> QED BY <2>2, <3>1, <3>2
  <2>4. worker'[q] = v /\ \A r \in Queues \ {q} : worker'[r].pc = worker[r].pc /\ FreshOne(r)'
    BY <2>3, OthersFresh
  <2>5. FreshOne(q)'
    BY <2>3, <2>4 DEF FreshOne, Held
  <2>6. Settles'
    <3>1. CASE polling
      BY <1>0, <3>1 DEF Settles
    <3>2. CASE ~polling /\ accepted \cup refused = {}
      <4>1. export' = [e \in Exports |-> export[e]] /\ unsettled' = unsettled
        BY <2>2, <3>2 DEF Inv, Types, RowsOK
      <4>2. export' = export
        BY <4>1 DEF Inv, Types, RowsOK
      <4> QED BY <1>0, <2>3, <2>4, <4>1, <4>2, SettlesSame DEF Mid
    <3>3. CASE ~polling /\ accepted \cup refused # {}
      BY <2>2, <3>3 DEF Settles
    <3> QED BY <3>1, <3>2, <3>3
  <2> QED BY <2>4, <2>5, <2>6 DEF FreshInv
<1> QED BY <1>2, <1>3

(* The end of a message, and a failure, are none of the summary's concern, or leave
   it behind. *)
LEMMA EndCounts ==
    ASSUME Inv, Counting, NEW q \in Queues,
           RaiseAtStart(q) \/ Raise(q) \/ PublishAgain(q) \/ Reject(q) \/ Acknowledge(q) \/ Crash(q)
    PROVE  Counting'
<1> USE DEF Counting
<1>t. worker[q] \in WorkerState /\ worker \in [Queues -> WorkerState]
  BY DEF Inv, Types, WorkersOK, Hands
<1>1. UNCHANGED <<export, summary, polling>> /\ (unsettled' \/ unsettled' = unsettled)
  BY DEF RaiseAtStart, Raise, PublishAgain, Reject, Acknowledge, Crash, rowVars
<1>2. unsettled' \/ worker[q].pc \notin Mid
  BY DEF RaiseAtStart, Raise, PublishAgain, Reject, Acknowledge, Crash, Takes, Idle, Mid
<1>3. PICK w : w.pc \in {"idle", "publish", "reject"} /\ Becomes(q, w)
  <2>1. ASSUME NEW m, Failing(q, m)
        PROVE  \E w : w.pc \in {"publish", "reject"} /\ Writes(q, w)
    <3>1. PICK u : u = [Idle EXCEPT !.message = m,
                                    !.pc = IF MayRetry(m, failures'[m.id]) THEN "publish" ELSE "reject"]
      OBVIOUS
    <3>2. Writes(q, u) /\ u.pc \in {"publish", "reject"}
      BY <2>1, <3>1 DEF Failing, Idle
    <3> QED BY <3>2
  <2>2. CASE RaiseAtStart(q) \/ Raise(q)
    BY <2>1, <2>2 DEF RaiseAtStart, Raise, Becomes
  <2>3. CASE PublishAgain(q)
    <3>1. PICK w : w = [worker[q] EXCEPT !.pc = "reject"]
      OBVIOUS
    <3>2. w.pc \in {"idle", "publish", "reject"}
      BY <1>t, <3>1 DEF WorkerState
    <3>3. Becomes(q, w)
      BY <2>3, <3>1 DEF PublishAgain, Becomes
    <3> QED BY <3>2, <3>3
  <2>4. CASE Reject(q) \/ Acknowledge(q) \/ Crash(q)
    <3>1. Idle.pc \in {"idle", "publish", "reject"}
      BY DEF Idle
    <3>2. Becomes(q, Idle)
      BY <2>4 DEF Reject, Acknowledge, Crash, Becomes
    <3> QED BY <3>1, <3>2
  <2> QED BY <2>2, <2>3, <2>4
<1>4. worker'[q] = w /\ \A r \in Queues \ {q} : worker'[r].pc = worker[r].pc /\ FreshOne(r)'
  BY <1>1, <1>3, OthersFresh DEF Becomes
<1>5. FreshOne(q)'
  BY <1>3, <1>4 DEF FreshOne, Held
<1>6. Settles'
  <2>1. CASE unsettled'
    BY <2>1 DEF Settles
  <2>2. CASE ~unsettled'
    BY <1>1, <1>2, <1>4, <2>2, SettlesSame DEF Inv, Types, RowsOK
  <2> QED BY <2>1, <2>2
<1> QED BY <1>4, <1>5, <1>6 DEF FreshInv

(* Every step keeps what is said of the summary. *)
LEMMA CountingStep == Inv /\ Counting /\ [Next]_vars => Counting'
<1> SUFFICES ASSUME Inv, Counting, [Next]_vars PROVE Counting'
  OBVIOUS
<1>1. ASSUME NEW q \in Queues, Work(q) \/ Crash(q) PROVE Counting'
  BY <1>1, ExportCounts, SavesCount, PollCounts, EndCounts DEF Work, Handle
<1>2. CASE (\E kind \in Kinds : Publish(kind)) \/ UNCHANGED vars
  <2>1. UNCHANGED <<worker, export, summary, polling, unsettled>>
    BY <1>2 DEF Publish, rowVars, vars
  <2>2. Counted(summary)' = Counted(summary)
    BY <2>1 DEF Counted, WithStatus, Successful
  <2>3. FreshInv'
    BY <2>1, <2>2 DEF Counting, FreshInv, FreshOne, Summaries
  <2>4. Settles'
    BY <2>1, <2>2 DEF Counting, Settles
  <2> QED BY <2>3, <2>4 DEF Counting
<1>3. CASE RecoverStuck
  <2>1. worker' = [q \in Queues |-> [worker[q] EXCEPT !.clean = @ /\ worker[q].copy = None]]
        /\ unsettled' = TRUE
    BY <1>3 DEF RecoverStuck
  <2>2. ASSUME NEW q \in Queues PROVE FreshOne(q)'
    <3> DEFINE b == worker[q].clean /\ worker[q].copy = None
    <3>1. worker'[q] = [worker[q] EXCEPT !.clean = b] /\ worker[q] \in WorkerState
      BY <2>1 DEF Inv, Types, WorkersOK, Hands
    <3>2. worker[q].pc \in Held => ~b
      BY NoneAssumption DEF Counting, FreshInv, FreshOne
    <3> HIDE DEF b
    <3>3. /\ worker'[q].pc = worker[q].pc /\ worker'[q].copy = worker[q].copy
          /\ worker'[q].clean = b
      BY <3>1 DEF WorkerState
    <3>4. worker[q].pc \in Held => worker[q].copy \in Summaries
      BY DEF Counting, FreshInv, FreshOne
    <3> QED BY <3>2, <3>3, <3>4 DEF FreshOne, Held, Summaries
  <2>3. Settles'
    BY <2>1 DEF Settles
  <2> QED BY <2>2, <2>3 DEF Counting, FreshInv
<1> QED BY <1>1, <1>2, <1>3 DEF Next

(* At first there is nothing to count. *)
LEMMA CountingInitially == Init => Counting
<1> SUFFICES ASSUME Init PROVE Counting
  OBVIOUS
<1>1. FreshInv
  BY DEF Init, FreshInv, FreshOne, Idle, Held
<1>2. WithStatus("FAILED") = {} /\ Successful(summary) = {}
  BY DEF Init, WithStatus, Successful
<1>3. Cardinality({}) = 0
  BY FS_EmptySet
<1>4. summary = Counted(summary)
  BY <1>2, <1>3 DEF Init, Counted
<1> QED BY <1>1, <1>4 DEF Counting, Settles

(* The exports come to their end with a summary that counts them as they are, or
   with one that is known to be behind. *)
THEOREM SummaryAlwaysAgrees == Spec => []SummaryAgrees
<1>1. Counting => SummaryAgrees
  BY DEF Counting, Settles, SummaryAgrees, Quiet, Mid
<1> QED BY Initially, Step, CountingInitially, CountingStep, <1>1, PTL DEF Spec

(* The time of an export is saved with the counts that stand. *)
THEOREM CountsNeverOverwritten == Spec => CountsAreNotOverwritten
<1> DEFINE Stands == \A q \in Queues :
          worker[q].pc = "save" /\ worker'[q].pc = "ack" /\ worker[q].clean =>
              summary'.failed = summary.failed /\ summary'.successful = summary.successful
<1>1. Inv /\ Counting /\ [Next]_vars => Stands
  <2> SUFFICES ASSUME Inv, Counting, [Next]_vars, NEW q \in Queues,
                      worker[q].pc = "save", worker'[q].pc = "ack", worker[q].clean
               PROVE  summary'.failed = summary.failed /\ summary'.successful = summary.successful
    OBVIOUS
  <2>1. worker[q].copy = summary /\ summary \in Summaries
    BY DEF Counting, FreshInv, FreshOne, Inv, Types, RowsOK
  <2>2. CASE SaveLastExported(q)
    BY <2>1, <2>2 DEF SaveLastExported, Summaries
  <2>3. CASE summary' = summary
    BY <2>3
  <2>4. ASSUME NEW r \in Queues, SaveLastExported(r) \/ SaveCounts(r), r # q PROVE FALSE
    <3>1. worker[q] \in WorkerState
      BY DEF Inv, Types, WorkersOK, Hands
    <3>2. PICK w : Writes(r, w)
      BY <2>4 DEF SaveLastExported, SaveCounts
    <3>3. worker'[q].pc = worker[q].pc
      BY <2>4, <3>2, OthersFresh DEF Counting
    <3> QED BY <3>3
  <2>5. ~SaveCounts(q)
    BY DEF SaveCounts
  <2>6. summary' = summary \/ \E r \in Queues : SaveLastExported(r) \/ SaveCounts(r)
    BY DEF Next, Work, Handle, Publish, Crash, RecoverStuck, StartExport, ExportNext,
           CreateScheduleForPolling, Refresh, Count, Poll, DeleteSchedule, RaiseAtStart, Raise,
           PublishAgain, Reject, Acknowledge, rowVars, vars
  <2> QED BY <2>2, <2>3, <2>4, <2>5, <2>6
<1> QED BY Initially, Step, CountingInitially, CountingStep, <1>1, PTL DEF Spec, CountsAreNotOverwritten
----------------------------------------------------------------------------
(***************************************************************************)
(* How often a message fails                                               *)
(*                                                                         *)
(* FailuresAreBounded follows from what each copy of a message may still   *)
(* fail: twice with retry_count 0, once with 1. A failure spends one, and  *)
(* what is published again is a copy with one left; only a worker that     *)
(* dies gives back more than it holds, at most two.                        *)
(***************************************************************************)
CountIn(s, M) == Cardinality({i \in DOMAIN s : s[i] \in M})
Of(m) == {x \in Messages : x.id = m}
FirstOf(m) == {x \in Messages : x.id = m /\ x.retry_count = 0}

\* What the copies in a queue may still fail, one copy, and the one with a worker.
Owed(s, m) == CountIn(s, Of(m)) + CountIn(s, FirstOf(m))
One(x, M) == IF x \in M THEN 1 ELSE 0
OwedBy(x, m) == One(x, Of(m)) + One(x, FirstOf(m))
Debt(w, m) ==
    IF w.pc \in {"idle", "reject"} THEN 0
    ELSE IF w.pc = "publish" THEN One(w.message, Of(m))
    ELSE OwedBy(w.message, m)

Part(q, m) == Debt(worker[q], m) + Owed(queue[q], m)

\* A message that is not published yet is nowhere.
Bounded ==
    \A m \in Ids :
        IF m <= published
        THEN failures[m] + Part("P0", m) + Part("P1", m) <= 2 + 2 * crashes
        ELSE failures[m] = 0 /\ \A q \in Queues : \A n \in Here(q) : n.id # m

\* Only a message that is to be tried again is published again.
AgainIsFirst == \A q \in Queues : worker[q].pc = "publish" => worker[q].message.retry_count = 0

FailureInv == Bounded /\ AgainIsFirst

(* The counts of a sequence are natural numbers. *)
LEMMA CountType ==
    ASSUME NEW s \in Seq(Messages), NEW M
    PROVE  IsFiniteSet({i \in DOMAIN s : s[i] \in M}) /\ CountIn(s, M) \in Nat
<1>1. IsFiniteSet(DOMAIN s)
  <2>1. DOMAIN s = 1 .. Len(s) /\ Len(s) \in Nat
    OBVIOUS
  <2> QED BY <2>1, FS_Interval
<1>2. IsFiniteSet({i \in DOMAIN s : s[i] \in M})
  BY <1>1, FS_Subset
<1> QED BY <1>2, FS_CardinalityType DEF CountIn

(* A sequence with one more at its end counts one more, if that is counted. *)
LEMMA CountAppend ==
    ASSUME NEW s \in Seq(Messages), NEW x \in Messages, NEW M
    PROVE  CountIn(Append(s, x), M) = CountIn(s, M) + One(x, M)
<1> DEFINE t == Append(s, x)
           A == {i \in DOMAIN s : s[i] \in M}
           B == {i \in DOMAIN t : t[i] \in M}
           n == Len(s) + 1
<1>1. /\ DOMAIN t = DOMAIN s \cup {n} /\ n \notin DOMAIN s
      /\ t[n] = x /\ \A i \in DOMAIN s : t[i] = s[i]
  OBVIOUS
<1>2. B = IF x \in M THEN A \cup {n} ELSE A
  <2> HIDE DEF t, n
  <2>1. CASE x \in M
    BY <1>1, <2>1
  <2>2. CASE x \notin M
    BY <1>1, <2>2
  <2> QED BY <2>1, <2>2
<1>3. IsFiniteSet(A) /\ Cardinality(A) \in Nat /\ n \notin A
  BY <1>1, CountType DEF CountIn
<1> HIDE DEF n, A
<1>4. Cardinality(A \cup {n}) = Cardinality(A) + 1
  BY <1>3, FS_AddElement
<1>5. Cardinality(B) = Cardinality(A) + One(x, M)
  <2> HIDE DEF B
  <2>1. CASE x \in M
    BY <1>2, <1>4, <2>1 DEF One
  <2>2. CASE x \notin M
    BY <1>2, <1>3, <2>2 DEF One
  <2> QED BY <2>1, <2>2
<1> QED BY <1>5 DEF CountIn, A

(* ... and so at its head: the others move by one place. *)
LEMMA CountPush ==
    ASSUME NEW s \in Seq(Messages), NEW x \in Messages, NEW M
    PROVE  CountIn(<<x>> \o s, M) = CountIn(s, M) + One(x, M)
<1> DEFINE t == <<x>> \o s
           A == {i \in DOMAIN s : s[i] \in M}
           C == {i + 1 : i \in A}
           B == {i \in DOMAIN t : t[i] \in M}
           f == [i \in A |-> i + 1]
<1>1. /\ DOMAIN s = 1 .. Len(s) /\ Len(s) \in Nat /\ DOMAIN t = 1 .. (Len(s) + 1)
      /\ t[1] = x /\ \A i \in DOMAIN s : t[i + 1] = s[i]
  OBVIOUS
<1> HIDE DEF t
<1>2. IsFiniteSet(A) /\ A \subseteq Nat
  <2>1. IsFiniteSet(A)
    BY CountType
  <2> QED BY <1>1, <2>1
<1>3. ExistsBijection(A, C)
  <2>1. f \in [A -> C] /\ (\A i, j \in A : f[i] = f[j] => i = j) /\ \A c \in C : \E i \in A : f[i] = c
    BY <1>2
  <2>2. f \in Bijection(A, C)
    BY <2>1 DEF Bijection, Injection, Surjection, IsInjective
  <2> QED BY <2>2 DEF ExistsBijection
<1>4. IsFiniteSet(C) /\ Cardinality(C) = Cardinality(A) /\ Cardinality(C) \in Nat
  <2> HIDE DEF A, C
  <2> QED BY <1>2, <1>3, FS_Bijection, FS_CardinalityType
<1>5. 1 \notin C
  BY <1>1
<1>6. B = IF x \in M THEN C \cup {1} ELSE C
  <2>1. \A j \in DOMAIN t : j = 1 \/ (j - 1 \in DOMAIN s /\ t[j] = s[j - 1])
    BY <1>1
  <2>2. \A j \in DOMAIN t \ {1} : j \in B <=> j \in C
    BY <1>1, <2>1
  <2>3. C \subseteq DOMAIN t /\ (1 \in B <=> x \in M)
    BY <1>1
  <2> HIDE DEF C
  <2> QED BY <1>5, <2>2, <2>3
<1> HIDE DEF A, C, B
<1>7. Cardinality(C \cup {1}) = Cardinality(C) + 1
  BY <1>4, <1>5, FS_AddElement
<1>8. Cardinality(B) = Cardinality(A) + One(x, M)
  BY <1>4, <1>6, <1>7 DEF One
<1> QED BY <1>8 DEF CountIn, A, B, t

(* What is owed of a message, in a queue and of one copy. *)
LEMMA OwedSteps ==
    ASSUME NEW s \in Seq(Messages), NEW m
    PROVE  /\ Owed(s, m) \in Nat
           /\ \A x \in Messages : /\ Owed(Append(s, x), m) = Owed(s, m) + OwedBy(x, m)
                                  /\ Owed(<<x>> \o s, m) = Owed(s, m) + OwedBy(x, m)
           /\ s # <<>> => Owed(s, m) = Owed(Tail(s), m) + OwedBy(Head(s), m)
<1>1. \A M, x : One(x, M) \in Nat
  BY DEF One
<1>2. ASSUME NEW t \in Seq(Messages) PROVE Owed(t, m) \in Nat
  <2>1. \A M : CountIn(t, M) \in Nat
    BY CountType
  <2> QED BY <2>1 DEF Owed
<1>3. ASSUME NEW t \in Seq(Messages), NEW x \in Messages
      PROVE  /\ Owed(Append(t, x), m) = Owed(t, m) + OwedBy(x, m)
             /\ Owed(<<x>> \o t, m) = Owed(t, m) + OwedBy(x, m)
  <2>1. \A M : CountIn(t, M) \in Nat
    BY CountType
  <2>2. \A M : /\ CountIn(Append(t, x), M) = CountIn(t, M) + One(x, M)
               /\ CountIn(<<x>> \o t, M) = CountIn(t, M) + One(x, M)
    BY CountAppend, CountPush
  <2> QED BY <1>1, <2>1, <2>2 DEF Owed, OwedBy
<1>4. ASSUME s # <<>> PROVE Owed(s, m) = Owed(Tail(s), m) + OwedBy(Head(s), m)
  <2>1. Head(s) \in Messages /\ Tail(s) \in Seq(Messages) /\ s = <<Head(s)>> \o Tail(s)
    BY <1>4
  <2> QED BY <1>3, <2>1
<1> QED BY <1>2, <1>3, <1>4

(* What is owed is a natural number. *)
LEMMA PartType ==
    ASSUME NEW s \in Seq(Messages), NEW w, NEW m
    PROVE  Debt(w, m) \in Nat /\ Owed(s, m) \in Nat
<1>1. \A x, M : One(x, M) \in Nat
  BY DEF One
<1> QED BY <1>1, OwedSteps DEF Debt, OwedBy

(* A step of one worker keeps the bound if it spends what it counts. *)
LEMMA OneSpends ==
    ASSUME Inv, Inv', Bounded, NEW q \in Queues, OthersKeep(q),
           published' = published, crashes' >= crashes,
           \A m \in Ids : failures'[m] + Part(q, m)' <=
                            failures[m] + Part(q, m) + 2 * (crashes' - crashes),
           \A n \in Here(q)' : \E o \in Here(q) : o.id = n.id,
           \A m \in Ids : failures'[m] = failures[m] \/ \E o \in Here(q) : o.id = m
    PROVE  Bounded'
<1> SUFFICES ASSUME NEW m \in Ids
             PROVE  IF m <= published
                    THEN failures'[m] + Part("P0", m)' + Part("P1", m)' <= 2 + 2 * crashes'
                    ELSE failures'[m] = 0 /\ \A r \in Queues : \A n \in Here(r)' : n.id # m
  BY DEF Bounded
<1>1. \A r \in Queues \ {q} : Part(r, m)' = Part(r, m) /\ Here(r)' = Here(r)
  <2> SUFFICES ASSUME NEW r \in Queues \ {q}
               PROVE  Part(r, m)' = Part(r, m) /\ Here(r)' = Here(r)
    OBVIOUS
  <2>1. queue'[r] = queue[r] /\ worker'[r].pc = worker[r].pc /\ worker'[r].message = worker[r].message
    BY DEF OthersKeep
  <2>2. Owed(queue[r], m)' = Owed(queue[r], m) /\ Debt(worker[r], m)' = Debt(worker[r], m)
    BY <2>1 DEF Owed, CountIn, Debt
  <2>3. Here(r)' = Here(r)
    BY <2>1 DEF Here, With, Elements
  <2> QED BY <2>2, <2>3 DEF Part
<1>2. Queues = {"P0", "P1"} /\ \A r \in Queues : Part(r, m) \in Nat /\ Part(r, m)' \in Nat
  <2> SUFFICES ASSUME NEW r \in Queues
               PROVE  Part(r, m) \in Nat /\ Part(r, m)' \in Nat
    BY DEF Queues
  <2>1. queue[r] \in Seq(Messages) /\ queue'[r] \in Seq(Messages)
    BY DEF Inv, Types, QueuesOK
  <2>2. PICK s, w : s = queue[r] /\ w = worker[r] /\ s \in Seq(Messages)
    BY <2>1
  <2>3. PICK t, v : t = queue'[r] /\ v = worker'[r] /\ t \in Seq(Messages)
    BY <2>1
  <2>4. Debt(w, m) \in Nat /\ Owed(s, m) \in Nat /\ Debt(v, m) \in Nat /\ Owed(t, m) \in Nat
    BY <2>2, <2>3, PartType
  <2>5. Part(r, m) = Debt(w, m) + Owed(s, m)
    BY <2>2 DEF Part
  <2>6. Part(r, m)' = Debt(v, m) + Owed(t, m)
    BY <2>3 DEF Part, Debt, Owed, CountIn
  <2> QED BY <2>4, <2>5, <2>6
<1>3. crashes \in Nat /\ crashes' \in Nat /\ failures[m] \in Nat /\ failures'[m] \in Nat
  BY DEF Inv, Types, CountsOK
<1>4. CASE m <= published
  <2>1. failures[m] + Part("P0", m) + Part("P1", m) <= 2 + 2 * crashes
    BY <1>4 DEF Bounded
  <2>2. CASE q = "P0"
    <3>1. Part("P1", m)' = Part("P1", m)
      BY <1>1, <1>2, <2>2
    <3> QED BY <1>2, <1>3, <1>4, <2>1, <2>2, <3>1
  <2>3. CASE q = "P1"
    <3>1. Part("P0", m)' = Part("P0", m)
      BY <1>1, <1>2, <2>3
    <3> QED BY <1>2, <1>3, <1>4, <2>1, <2>3, <3>1
  <2> QED BY <1>2, <2>2, <2>3
<1>5. CASE ~(m <= published)
  <2>1. failures[m] = 0 /\ \A r \in Queues : \A n \in Here(r) : n.id # m
    BY <1>5 DEF Bounded
  <2>2. failures'[m] = 0 /\ \A n \in Here(q)' : n.id # m
    BY <2>1
  <2> QED BY <1>1, <1>5, <2>1, <2>2
<1> QED BY <1>4, <1>5

(* The value of one copy, in figures. *)
LEMMA OwedByValue ==
    ASSUME NEW x \in Messages, NEW m
    PROVE  /\ One(x, Of(m)) = IF x.id = m THEN 1 ELSE 0
           /\ OwedBy(x, m) = IF x.id = m THEN 2 - x.retry_count ELSE 0
BY DEF One, Of, FirstOf, OwedBy, Messages

(* The others' messages are to be published again under the same condition. *)
LEMMA AgainKept ==
    ASSUME AgainIsFirst, NEW q \in Queues, OthersKeep(q),
           worker'[q].pc = "publish" => worker'[q].message.retry_count = 0
    PROVE  AgainIsFirst'
BY DEF AgainIsFirst, OthersKeep

Working(q) == worker[q].pc \notin {"idle", "publish", "reject"}

(* A worker that goes on spends nothing. *)
LEMMA GoingOnSpends ==
    ASSUME Inv, Inv', FailureInv, NEW q \in Queues, GoesOn(q), Working(q), crashes' = crashes
    PROVE  FailureInv'
<1>1. /\ OthersKeep(q) /\ worker'[q].pc \notin {"idle", "publish", "reject"}
      /\ worker'[q].message = worker[q].message
      /\ queue' = queue /\ failures' = failures /\ published' = published
  BY DEF GoesOn, messageVars
<1>2. Here(q)' = Here(q)
  BY <1>1 DEF Here, With, Elements, Working
<1>3. ASSUME NEW m \in Ids
      PROVE  failures'[m] + Part(q, m)' <= failures[m] + Part(q, m) + 2 * (crashes' - crashes)
  <2>1. Part(q, m)' = Part(q, m)
    BY <1>1 DEF Part, Debt, Working, Owed, CountIn
  <2>2. PICK w, s : w = worker[q] /\ s = queue[q] /\ s \in Seq(Messages)
    BY DEF Inv, Types, QueuesOK
  <2>3. Part(q, m) \in Nat
    BY <2>2, PartType DEF Part
  <2>4. failures[m] \in Nat /\ crashes \in Nat
    BY DEF Inv, Types, CountsOK
  <2> QED BY <1>1, <2>1, <2>3, <2>4
<1>4. crashes' >= crashes
  BY DEF Inv, Types, CountsOK
<1> HIDE DEF Here
<1>5. Bounded'
  BY <1>1, <1>2, <1>3, <1>4, OneSpends DEF FailureInv
<1> QED BY <1>1, <1>5, AgainKept DEF FailureInv

(* A message that is taken, or in hand, is where it was; the rest of the queue. *)
LEMMA TakenOwes ==
    ASSUME Inv, NEW q \in Queues, NEW x \in Messages,
           \/ Working(q) /\ x = worker[q].message /\ queue' = queue
           \/ /\ worker[q].pc = "idle" /\ queue[q] # <<>> /\ x = Head(queue[q])
              /\ queue' = [queue EXCEPT ![q] = Tail(@)]
    PROVE  /\ x \in Here(q) /\ Elements(queue'[q]) \subseteq Here(q)
           /\ \A m \in Ids : /\ Owed(queue'[q], m) \in Nat
                             /\ Part(q, m) = OwedBy(x, m) + Owed(queue'[q], m)
<1>1. queue[q] \in Seq(Messages) /\ queue \in [Queues -> Seq(Messages)]
  BY DEF Inv, Types, QueuesOK
<1>2. CASE Working(q) /\ x = worker[q].message /\ queue' = queue
  <2>1. x \in Here(q) /\ Elements(queue'[q]) \subseteq Here(q)
    BY <1>2 DEF Here, With, Working
  <2>2. PICK s : s = queue[q] /\ s \in Seq(Messages)
    BY <1>1
  <2>3. ASSUME NEW m \in Ids
        PROVE  /\ Owed(queue'[q], m) \in Nat
               /\ Part(q, m) = OwedBy(x, m) + Owed(queue'[q], m)
    BY <1>2, <2>2, PartType DEF Part, Debt, Working
  <2> QED BY <2>1, <2>3
<1>3. CASE /\ worker[q].pc = "idle" /\ queue[q] # <<>> /\ x = Head(queue[q])
           /\ queue' = [queue EXCEPT ![q] = Tail(@)]
  <2>1. PICK s : s = queue[q] /\ s \in Seq(Messages) /\ s # <<>> /\ x = Head(s)
                 /\ queue'[q] = Tail(s)
    BY <1>1, <1>3
  <2>2. Elements(s) = Elements(Tail(s)) \cup {x} /\ Tail(s) \in Seq(Messages)
    BY <2>1, TailElements
  <2>3. x \in Here(q) /\ Elements(queue'[q]) \subseteq Here(q)
    BY <2>1, <2>2 DEF Here
  <2>4. ASSUME NEW m \in Ids
        PROVE  /\ Owed(queue'[q], m) \in Nat
               /\ Part(q, m) = OwedBy(x, m) + Owed(queue'[q], m)
    <3>1. Owed(Tail(s), m) \in Nat /\ Owed(s, m) = Owed(Tail(s), m) + OwedBy(x, m)
      BY <2>1, <2>2, OwedSteps
    <3>2. Debt(worker[q], m) = 0
      BY <1>3 DEF Debt
    <3>3. OwedBy(x, m) \in Nat
      BY DEF OwedBy, One
    <3> QED BY <2>1, <3>1, <3>2, <3>3 DEF Part
  <2> QED BY <2>3, <2>4
<1> QED BY <1>2, <1>3

(* Taking a message spends nothing. *)
LEMMA TakingOnSpends ==
    ASSUME Inv, Inv', FailureInv, NEW q \in Queues, TakesOn(q), crashes' = crashes
    PROVE  FailureInv'
<1>1. /\ OthersKeep(q) /\ worker[q].pc = "idle" /\ worker'[q].pc \notin {"idle", "publish", "reject"}
      /\ queue[q] # <<>> /\ worker'[q].message = Head(queue[q])
      /\ queue' = [queue EXCEPT ![q] = Tail(@)]
      /\ failures' = failures /\ published' = published
  BY DEF TakesOn
<1>2. PICK x \in Messages : x = Head(queue[q])
  <2>1. queue[q] \in Seq(Messages)
    BY DEF Inv, Types, QueuesOK
  <2> QED BY <1>1, <2>1, TailElements
<1>3. /\ x \in Here(q) /\ Elements(queue'[q]) \subseteq Here(q)
      /\ \A m \in Ids : /\ Owed(queue'[q], m) \in Nat
                        /\ Part(q, m) = OwedBy(x, m) + Owed(queue'[q], m)
  BY <1>1, <1>2, TakenOwes
<1>4. Here(q)' \subseteq Here(q)
  <2>1. Here(q)' = Elements(queue'[q]) \cup {x}
    BY <1>1, <1>2 DEF Here, With, Elements
  <2> QED BY <1>3, <2>1
<1>5. ASSUME NEW m \in Ids
      PROVE  failures'[m] + Part(q, m)' <= failures[m] + Part(q, m) + 2 * (crashes' - crashes)
  <2>1. Part(q, m)' = OwedBy(x, m) + Owed(queue'[q], m)
    BY <1>1, <1>2 DEF Part, Debt, Owed, CountIn
  <2>2. failures[m] \in Nat /\ crashes \in Nat
    BY DEF Inv, Types, CountsOK
  <2>3. OwedBy(x, m) \in Nat
    BY DEF OwedBy, One
  <2>4. Part(q, m)' = Part(q, m) /\ Part(q, m) \in Nat
    BY <1>3, <2>1, <2>3
  <2> QED BY <1>1, <2>2, <2>4
<1>6. crashes' >= crashes
  BY DEF Inv, Types, CountsOK
<1> HIDE DEF Here
<1>7. Bounded'
  BY <1>1, <1>4, <1>5, <1>6, OneSpends DEF FailureInv
<1> QED BY <1>1, <1>7, AgainKept DEF FailureInv

(* A failure is one of those that were left. *)
LEMMA FailingSpends ==
    ASSUME Inv, Inv', FailureInv, NEW q \in Queues, NEW x \in Messages, Failing(q, x),
           published' = published, crashes' = crashes,
           \/ Working(q) /\ x = worker[q].message /\ queue' = queue
           \/ /\ worker[q].pc = "idle" /\ queue[q] # <<>> /\ x = Head(queue[q])
              /\ queue' = [queue EXCEPT ![q] = Tail(@)]
    PROVE  FailureInv'
<1>1. PICK w : /\ w = [Idle EXCEPT !.message = x,
                         !.pc = IF MayRetry(x, failures'[x.id]) THEN "publish" ELSE "reject"]
               /\ Writes(q, w) /\ failures' = [failures EXCEPT ![x.id] = @ + 1]
  BY DEF Failing
<1>2. /\ w.message = x /\ w.pc \in {"publish", "reject"}
      /\ w.pc = "publish" <=> x.retry_count = 0
      /\ x.retry_count \in {0, 1} /\ x.id \in Ids
  BY <1>1 DEF Idle, MayRetry, Messages, Ids
<1>3. worker'[q] = w /\ OthersKeep(q)
  <2>1. worker'[q] = w /\ \A r \in Queues \ {q} :
          worker'[r].pc = worker[r].pc /\ worker'[r].message = worker[r].message
    BY <1>1 DEF Writes, Inv, Types, WorkersOK, Hands, WorkerState
  <2>2. \A r \in Queues \ {q} : queue'[r] = queue[r]
    BY DEF Inv, Types, QueuesOK
  <2> QED BY <2>1, <2>2 DEF OthersKeep
<1>4. /\ x \in Here(q) /\ Elements(queue'[q]) \subseteq Here(q)
      /\ \A m \in Ids : /\ Owed(queue'[q], m) \in Nat
                        /\ Part(q, m) = OwedBy(x, m) + Owed(queue'[q], m)
  BY TakenOwes
<1>5. Here(q)' \subseteq Here(q)
  <2>1. Here(q)' = Elements(queue'[q]) \cup {x}
    BY <1>2, <1>3 DEF Here, With, Elements
  <2> QED BY <1>4, <2>1
<1>6. \A m \in Ids : failures[m] \in Nat /\ failures'[m] = IF m = x.id THEN failures[m] + 1 ELSE failures[m]
  BY <1>1 DEF Inv, Types, CountsOK
<1>7. crashes \in Nat /\ crashes' >= crashes
  BY DEF Inv, Types, CountsOK
<1>8. ASSUME NEW m \in Ids
      PROVE  failures'[m] + Part(q, m)' <= failures[m] + Part(q, m) + 2 * (crashes' - crashes)
  <2>1. Part(q, m)' = Debt(w, m) + Owed(queue'[q], m)
    BY <1>3 DEF Part, Debt, Owed, CountIn
  <2>2. Debt(w, m) = IF w.pc = "publish" THEN One(x, Of(m)) ELSE 0
    BY <1>2 DEF Debt
  <2>3. /\ One(x, Of(m)) = IF x.id = m THEN 1 ELSE 0
        /\ OwedBy(x, m) = IF x.id = m THEN 2 - x.retry_count ELSE 0
    BY OwedByValue
  <2>4. failures'[m] + Debt(w, m) <= failures[m] + OwedBy(x, m)
    BY <1>2, <1>6, <2>2, <2>3
  <2>5. Debt(w, m) \in Nat /\ OwedBy(x, m) \in Nat
    BY <1>2, <2>2, <2>3
  <2> QED BY <1>4, <1>6, <1>7, <2>1, <2>4, <2>5
<1> HIDE DEF Here
<1>9. \A m \in Ids : failures'[m] = failures[m] \/ \E o \in Here(q) : o.id = m
  BY <1>4, <1>6
<1>10. Bounded'
  BY <1>3, <1>5, <1>7, <1>8, <1>9, OneSpends DEF FailureInv
<1>11. worker'[q].pc = "publish" => worker'[q].message.retry_count = 0
  BY <1>2, <1>3
<1> QED BY <1>3, <1>10, <1>11, AgainKept DEF FailureInv

(* What is published again may fail once more. *)
LEMMA PublishAgainSpends ==
    ASSUME Inv, Inv', FailureInv, NEW q \in Queues, PublishAgain(q)
    PROVE  FailureInv'
<1>1. /\ worker[q].pc = "publish" /\ worker' = [worker EXCEPT ![q].pc = "reject"]
      /\ UNCHANGED <<published, failures, crashes>>
  BY DEF PublishAgain
<1>2. PICK x \in Messages : x = worker[q].message
  BY <1>1, WorkerType
<1>3. PICK n \in Messages : n = [x EXCEPT !.retry_count = 1]
  BY DEF Messages
<1>4. n.id = x.id /\ n.retry_count = 1
  BY <1>3 DEF Messages
<1>5. PICK s \in Seq(Messages) : s = queue[q] /\ queue'[q] = Append(s, n)
  BY <1>2, <1>3 DEF PublishAgain, Inv, Types, QueuesOK
<1>6. worker'[q].pc = "reject" /\ worker'[q].message = x /\ OthersKeep(q)
  BY <1>1, <1>2 DEF PublishAgain, OthersKeep, Inv, Types, QueuesOK, WorkersOK, Hands, WorkerState
<1>7. \A o \in Here(q)' : \E p \in Here(q) : p.id = o.id
  <2>1. Here(q)' = Elements(Append(s, n)) \cup {x} /\ Here(q) = Elements(s) \cup {x}
    BY <1>1, <1>2, <1>5, <1>6 DEF Here, With, Elements
  <2>2. Elements(Append(s, n)) = Elements(s) \cup {n}
    BY AppendElements
  <2> QED BY <1>4, <2>1, <2>2
<1>8. ASSUME NEW m \in Ids
      PROVE  failures'[m] + Part(q, m)' <= failures[m] + Part(q, m) + 2 * (crashes' - crashes)
  <2>1. Part(q, m)' = Owed(Append(s, n), m)
    <3>1. Debt(worker[q], m)' = 0 /\ Owed(queue[q], m)' = Owed(Append(s, n), m)
      BY <1>5, <1>6 DEF Debt, Owed, CountIn
    <3>2. Owed(Append(s, n), m) \in Nat
      BY AppendElements, OwedSteps
    <3> QED BY <3>1, <3>2 DEF Part
  <2>2. Part(q, m) = One(x, Of(m)) + Owed(s, m)
    BY <1>1, <1>2, <1>5 DEF Part, Debt
  <2>3. Owed(Append(s, n), m) = Owed(s, m) + OwedBy(n, m) /\ Owed(s, m) \in Nat
    BY OwedSteps
  <2>4. One(x, Of(m)) = OwedBy(n, m) /\ OwedBy(n, m) \in Nat
    BY <1>4, OwedByValue
  <2>5. failures[m] \in Nat /\ crashes \in Nat
    BY DEF Inv, Types, CountsOK
  <2> QED BY <1>1, <2>1, <2>2, <2>3, <2>4, <2>5
<1>9. crashes' >= crashes
  BY <1>1 DEF Inv, Types, CountsOK
<1> HIDE DEF Here
<1>10. Bounded'
  BY <1>1, <1>6, <1>7, <1>8, <1>9, OneSpends DEF FailureInv
<1> QED BY <1>6, <1>10, AgainKept DEF FailureInv

(* The end of a message gives up what it had left; a worker that dies gives it all
   back, and no more than two. *)
LEMMA EndSpends ==
    ASSUME Inv, Inv', FailureInv, NEW q \in Queues, Reject(q) \/ Acknowledge(q) \/ Crash(q)
    PROVE  FailureInv'
<1>1. /\ worker[q].pc # "idle" /\ worker' = [worker EXCEPT ![q] = Idle]
      /\ UNCHANGED <<published, failures>>
      /\ \/ queue' = queue /\ crashes' = crashes
         \/ queue' = [queue EXCEPT ![q] = <<worker[q].message>> \o @] /\ crashes' = crashes + 1
  BY DEF Reject, Acknowledge, Crash, Unacknowledged, messageVars
<1>2. PICK x \in Messages : x = worker[q].message
  BY <1>1, WorkerType
<1>3. PICK s \in Seq(Messages) : s = queue[q]
  BY DEF Inv, Types, QueuesOK
<1>4. worker'[q].pc = "idle" /\ OthersKeep(q)
  BY <1>1 DEF Idle, OthersKeep, Inv, Types, QueuesOK, WorkersOK
<1>5. \/ queue'[q] = s /\ crashes' = crashes
      \/ queue'[q] = <<x>> \o s /\ crashes' = crashes + 1
  BY <1>1, <1>2, <1>3 DEF Inv, Types, QueuesOK
<1>6. Here(q)' \subseteq Here(q)
  <2>1. Here(q)' = Elements(queue'[q]) /\ Here(q) = Elements(s) \cup {x}
    BY <1>1, <1>2, <1>3, <1>4 DEF Here, With, Elements
  <2>2. Elements(<<x>> \o s) = Elements(s) \cup {x}
    BY PushElements
  <2> QED BY <1>5, <2>1, <2>2
<1>7. crashes \in Nat /\ crashes' >= crashes
  BY <1>5 DEF Inv, Types, CountsOK
<1>8. ASSUME NEW m \in Ids
      PROVE  failures'[m] + Part(q, m)' <= failures[m] + Part(q, m) + 2 * (crashes' - crashes)
  <2>1. Owed(s, m) \in Nat /\ Owed(<<x>> \o s, m) = Owed(s, m) + OwedBy(x, m)
    BY OwedSteps
  <2>2. OwedBy(x, m) \in {0, 1, 2}
    BY DEF OwedBy, One
  <2>3. Debt(worker[q], m) \in Nat /\ Part(q, m) = Debt(worker[q], m) + Owed(s, m)
    <3>1. PICK w : w = worker[q]
      OBVIOUS
    <3> QED BY <1>3, <3>1, PartType DEF Part
  <2>4. Part(q, m)' = Owed(queue'[q], m)
    <3>1. Debt(worker[q], m)' = 0 /\ Owed(queue[q], m)' = Owed(queue'[q], m)
      BY <1>4 DEF Debt, Owed, CountIn
    <3>2. Owed(queue'[q], m) \in Nat
      <4>1. Owed(<<x>> \o s, m) \in Nat
        BY <2>1, <2>2
      <4> QED BY <1>5, <2>1, <4>1
    <3> QED BY <3>1, <3>2 DEF Part
  <2>5. failures[m] \in Nat /\ failures'[m] = failures[m]
    BY <1>1 DEF Inv, Types, CountsOK
  <2>6. CASE queue'[q] = s /\ crashes' = crashes
    BY <1>7, <2>1, <2>3, <2>4, <2>5, <2>6
  <2>7. CASE queue'[q] = <<x>> \o s /\ crashes' = crashes + 1
    BY <1>7, <2>1, <2>2, <2>3, <2>4, <2>5, <2>7
  <2> QED BY <1>5, <2>6, <2>7
<1> HIDE DEF Here
<1>9. Bounded'
  BY <1>1, <1>4, <1>6, <1>7, <1>8, OneSpends DEF FailureInv
<1> QED BY <1>4, <1>9, AgainKept DEF FailureInv

(* A message that is nowhere owes nothing. *)
LEMMA NoneOwed ==
    ASSUME NEW s \in Seq(Messages), NEW m, \A n \in Elements(s) : n.id # m
    PROVE  Owed(s, m) = 0
<1>1. \A M \in {Of(m), FirstOf(m)} : {i \in DOMAIN s : s[i] \in M} = {}
  BY DEF Elements, Of, FirstOf
<1>2. \A M \in {Of(m), FirstOf(m)} : CountIn(s, M) = 0
  BY <1>1, FS_EmptySet DEF CountIn
<1> QED BY <1>2 DEF Owed

(* A new message may fail twice. *)
LEMMA PublishedSpends ==
    ASSUME Inv, Inv', FailureInv, NEW kind \in Kinds, Published(kind),
           UNCHANGED <<failures, crashes>>,
           \A q \in Queues : worker'[q].pc = worker[q].pc /\ worker'[q].message = worker[q].message
    PROVE  FailureInv'
<1>1. published \in Nat /\ published' = published + 1 /\ published + 1 \in Ids
  BY WorkersAssumption DEF Inv, Types, CountsOK, Published, Ids
<1>2. PICK new \in Messages : new = [id |-> published + 1, kind |-> kind, retry_count |-> 0]
  BY <1>1 DEF Messages, Ids
<1>3. PICK k \in Queues : k = QueueOf(kind)
  BY DEF QueueOf, Queues
<1>4. queue \in [Queues -> Seq(Messages)] /\ queue' = [queue EXCEPT ![k] = Append(queue[k], new)]
  BY <1>2, <1>3 DEF Published, Appended, Inv, Types, QueuesOK
<1>5. \A q \in Queues : Elements(queue[q])' \subseteq Elements(queue[q]) \cup {new}
  <2> SUFFICES ASSUME NEW q \in Queues
               PROVE  Elements(queue[q])' \subseteq Elements(queue[q]) \cup {new}
    OBVIOUS
  <2>1. PICK s \in Seq(Messages) : s = queue[q]
    BY <1>4
  <2>2. queue'[q] = s \/ queue'[q] = Append(s, new)
    BY <1>4, <2>1
  <2>3. Elements(Append(s, new)) = Elements(s) \cup {new}
    BY AppendElements
  <2> QED BY <2>1, <2>2, <2>3 DEF Elements
<1>6. \A q \in Queues : Here(q)' \subseteq Here(q) \cup {new}
  BY <1>5 DEF Here, With
<1>7. ASSUME NEW q \in Queues, NEW m \in Ids
      PROVE  /\ Part(q, m) \in Nat
             /\ Part(q, m)' = Part(q, m) + (IF q = k THEN OwedBy(new, m) ELSE 0)
  <2>1. PICK s, w : s = queue[q] /\ s \in Seq(Messages) /\ w = worker[q]
    BY <1>4
  <2>2. queue'[q] = IF q = k THEN Append(s, new) ELSE s
    BY <1>4, <2>1
  <2>3. Owed(s, m) \in Nat /\ Debt(w, m) \in Nat /\ OwedBy(new, m) \in Nat
        /\ Owed(Append(s, new), m) = Owed(s, m) + OwedBy(new, m)
    <3>1. OwedBy(new, m) \in Nat
      BY DEF OwedBy, One
    <3> QED BY <2>1, <3>1, OwedSteps, PartType
  <2>4. Part(q, m) = Debt(w, m) + Owed(s, m)
    BY <2>1 DEF Part
  <2>5. Part(q, m)' = Debt(w, m) + Owed(queue'[q], m)
    BY <2>1 DEF Part, Debt, Owed, CountIn
  <2> QED BY <2>2, <2>3, <2>4, <2>5
<1>8. \A m \in Ids : OwedBy(new, m) = IF m = published + 1 THEN 2 ELSE 0
  BY <1>2, OwedByValue
<1>9. crashes \in Nat /\ crashes' = crashes /\ \A m \in Ids : failures'[m] = failures[m] /\ failures[m] \in Nat
  BY DEF Inv, Types, CountsOK
<1>10. Queues = {"P0", "P1"}
  BY DEF Queues
<1>11. Bounded'
  <2> SUFFICES ASSUME NEW m \in Ids
               PROVE  IF m <= published'
                      THEN failures'[m] + Part("P0", m)' + Part("P1", m)' <= 2 + 2 * crashes'
                      ELSE failures'[m] = 0 /\ \A r \in Queues : \A n \in Here(r)' : n.id # m
    BY DEF Bounded
  <2>1. CASE m <= published
    <3>1. failures[m] + Part("P0", m) + Part("P1", m) <= 2 + 2 * crashes
      BY <2>1 DEF FailureInv, Bounded
    <3>2. OwedBy(new, m) = 0
      BY <1>1, <1>8, <2>1 DEF Ids
    <3>3. Part("P0", m)' = Part("P0", m) /\ Part("P1", m)' = Part("P1", m)
      BY <1>7, <1>10, <3>2
    <3> QED BY <1>1, <1>9, <2>1, <3>1, <3>3 DEF Ids
  <2>2. CASE ~(m <= published)
    <3>1. failures[m] = 0 /\ \A q \in Queues : \A n \in Here(q) : n.id # m
      BY <2>2 DEF FailureInv, Bounded
    <3>2. CASE m = published + 1
      <4>1. ASSUME NEW q \in Queues PROVE Part(q, m) = 0
        <5>1. PICK s \in Seq(Messages) : s = queue[q]
          BY <1>4
        <5>2. Owed(s, m) = 0
          BY <3>1, <5>1, NoneOwed DEF Here
        <5>3. Debt(worker[q], m) = 0
          BY <3>1 DEF Debt, Here, With, OwedBy, One, Of, FirstOf
        <5> QED BY <5>1, <5>2, <5>3 DEF Part
      <4>2. Part("P0", m) = 0 /\ Part("P1", m) = 0 /\ OwedBy(new, m) = 2
        BY <1>8, <1>10, <3>2, <4>1
      <4>3. Part("P0", m)' + Part("P1", m)' = 2
        BY <1>3, <1>7, <1>10, <4>2
      <4>4. Part("P0", m)' \in Nat /\ Part("P1", m)' \in Nat
        BY <1>7, <1>10, <4>2
      <4> QED BY <1>1, <1>9, <3>1, <3>2, <4>3, <4>4
    <3>3. CASE m # published + 1
      <4>1. ~(m <= published')
        BY <1>1, <2>2, <3>3 DEF Ids
      <4>2. new.id # m
        BY <1>2, <3>3
      <4> QED BY <1>6, <1>9, <3>1, <4>1, <4>2
    <3> QED BY <3>2, <3>3
  <2> QED BY <2>1, <2>2
<1>12. AgainIsFirst'
  BY DEF FailureInv, AgainIsFirst
<1> QED BY <1>11, <1>12 DEF FailureInv

(* A worker's own record, and that the others keep their message. *)
LEMMA BecomesKeeps ==
    ASSUME Inv, NEW q \in Queues, NEW w, Becomes(q, w)
    PROVE  worker'[q] = w /\ \A r \in Queues \ {q} : /\ worker'[r].pc = worker[r].pc
                                                  /\ worker'[r].message = worker[r].message
<1>1. \A r \in Queues : worker[r] \in WorkerState
  BY DEF Inv, Types, WorkersOK, Hands
<1>2. ASSUME NEW r \in Queues, NEW b
      PROVE  LET v == [worker[r] EXCEPT !.clean = b] IN
             v.pc = worker[r].pc /\ v.message = worker[r].message
  BY <1>1 DEF WorkerState
<1>3. CASE Writes(q, w)
  BY <1>2, <1>3 DEF Writes
<1>4. CASE worker' = [worker EXCEPT ![q] = w]
  BY <1>4 DEF Inv, Types, WorkersOK
<1> QED BY <1>3, <1>4 DEF Becomes

FailsOn(q) ==
    \E x \in Messages :
        /\ Failing(q, x)
        /\ \/ Working(q) /\ x = worker[q].message /\ queue' = queue
           \/ /\ worker[q].pc = "idle" /\ queue[q] # <<>> /\ x = Head(queue[q])
              /\ queue' = [queue EXCEPT ![q] = Tail(@)]

(* What a handler does with its message: takes it, goes on with it, or fails. *)
LEMMA HandleKinds ==
    ASSUME Inv, NEW q \in Queues, Handle(q) \/ RaiseAtStart(q) \/ Raise(q)
    PROVE  /\ published' = published /\ crashes' = crashes
           /\ (Working(q) /\ GoesOn(q)) \/ TakesOn(q) \/ FailsOn(q)
<1>t. worker[q] \in WorkerState
  BY DEF Inv, Types, WorkersOK, Hands
<1>q. queue \in [Queues -> Seq(Messages)]
  BY DEF Inv, Types, QueuesOK
<1>u. published' = published /\ crashes' = crashes
  BY DEF Handle, StartExport, ExportNext, CreateScheduleForPolling, Refresh, SaveLastExported,
         Count, SaveCounts, Poll, DeleteSchedule, RaiseAtStart, Raise, messageVars
<1> SUFFICES (Working(q) /\ GoesOn(q)) \/ TakesOn(q) \/ FailsOn(q)
  BY <1>u
<1>1. ASSUME NEW w, Becomes(q, w), Working(q), w.pc \notin {"idle", "publish", "reject"},
             w.message = worker[q].message, UNCHANGED messageVars
      PROVE  Working(q) /\ GoesOn(q)
  BY <1>1, BecomesKeeps DEF GoesOn, OthersKeep, Working, messageVars
<1>2. ASSUME NEW w, Becomes(q, w), NEW kinds, Takes(q, kinds), w.message = Head(queue[q]),
             w.pc \notin {"idle", "publish", "reject"}, UNCHANGED <<failures, done, published>>
      PROVE  TakesOn(q)
  <2>1. worker[q].pc = "idle" /\ queue[q] # <<>> /\ queue' = [queue EXCEPT ![q] = Tail(@)]
    BY <1>2 DEF Takes, Idle
  <2> QED BY <1>2, <1>q, <2>1, BecomesKeeps DEF TakesOn, OthersKeep
<1>3. ASSUME NEW kinds, Takes(q, kinds), Failing(q, Head(queue[q])) PROVE FailsOn(q)
  <2>1. worker[q].pc = "idle" /\ queue[q] # <<>> /\ queue' = [queue EXCEPT ![q] = Tail(@)]
    BY <1>3 DEF Takes, Idle
  <2>2. Head(queue[q]) \in Messages
    BY <1>3, TakenMessage
  <2> QED BY <1>3, <2>1, <2>2 DEF FailsOn
<1>4. CASE StartExport(q)
  <2> DEFINE m == Head(queue[q])
             ids == Selected(m.kind)
  <2>0. /\ Takes(q, {"DASHBOARD_SYNC", "RUN_SYNC_SCHEDULE"})
        /\ UNCHANGED <<failures, done, published>>
    BY <1>4 DEF StartExport
  <2>1. CASE ids = {}
    <3>1. PICK w : w = [worker[q] EXCEPT !.pc = "ack", !.message = m]
      OBVIOUS
    <3>2. worker' = [worker EXCEPT ![q] = w]
      BY <1>4, <2>1, <3>1 DEF StartExport
    <3>3. w.pc = "ack" /\ w.message = m
      BY <1>t, <3>1 DEF WorkerState
    <3> QED BY <1>2, <2>0, <3>2, <3>3 DEF Becomes
  <2>2. CASE ids # {}
    <3>1. PICK skipped, chain, last :
            Writes(q, [Idle EXCEPT !.pc = IF chain = {} THEN "refresh" ELSE "sync", !.message = m,
                                   !.todo = chain, !.last = last, !.start = Tick,
                                   !.own = summary])
      BY <1>4, <2>2 DEF StartExport
    <3>2. PICK w : w = [Idle EXCEPT !.pc = IF chain = {} THEN "refresh" ELSE "sync", !.message = m,
                                   !.todo = chain, !.last = last, !.start = Tick,
                                   !.own = summary]
      OBVIOUS
    <3>3. w.pc \in {"refresh", "sync"} /\ w.message = m
      BY <3>2 DEF Idle
    <3> QED BY <1>2, <2>0, <3>1, <3>2, <3>3 DEF Becomes
  <2> QED BY <2>1, <2>2
<1>5. CASE ExportNext(q)
  <2>1. PICK e, fails : Writes(q, [worker[q] EXCEPT !.pc = AfterExport(q, e, fails), !.todo = @ \ {e},
                            !.last = IF AfterExport(q, e, fails) = "chain" THEN @ ELSE None])
    BY <1>5 DEF ExportNext
  <2>2. PICK w : w = [worker[q] EXCEPT !.pc = AfterExport(q, e, fails), !.todo = @ \ {e},
                            !.last = IF AfterExport(q, e, fails) = "chain" THEN @ ELSE None]
    OBVIOUS
  <2>3. w.pc = AfterExport(q, e, fails) /\ w.message = worker[q].message
    BY <1>t, <2>2 DEF WorkerState
  <2>4. w.pc \notin {"idle", "publish", "reject"}
    BY <2>3 DEF AfterExport
  <2>5. Working(q) /\ UNCHANGED messageVars
    BY <1>5 DEF ExportNext, Working
  <2> QED BY <1>1, <2>1, <2>2, <2>3, <2>4, <2>5 DEF Becomes
<1>6. CASE CreateScheduleForPolling(q)
  <2>1. PICK w : w = [worker[q] EXCEPT !.pc = "refresh"]
    OBVIOUS
  <2>2. w.pc = "refresh" /\ w.message = worker[q].message
    BY <1>t, <2>1 DEF WorkerState
  <2> QED BY <1>1, <1>6, <2>1, <2>2 DEF CreateScheduleForPolling, Becomes, Working
<1>7. CASE Refresh(q)
  <2>1. PICK w : w = [worker[q] EXCEPT !.pc = "save", !.copy = Refreshed(q), !.clean = TRUE, !.own = None]
    OBVIOUS
  <2>2. w.pc = "save" /\ w.message = worker[q].message
    BY <1>t, <2>1 DEF WorkerState
  <2>3. worker' = [worker EXCEPT ![q] = w] /\ UNCHANGED messageVars /\ Working(q)
    BY <1>7, <2>1 DEF Refresh, Working
  <2> QED BY <1>1, <2>2, <2>3 DEF Becomes
<1>8. CASE SaveLastExported(q) \/ DeleteSchedule(q)
  <2>1. PICK w : w = [Idle EXCEPT !.pc = "ack", !.message = worker[q].message]
    OBVIOUS
  <2>2. w.pc = "ack" /\ w.message = worker[q].message
    BY <2>1 DEF Idle
  <2>3. Becomes(q, w) /\ UNCHANGED messageVars /\ Working(q)
    BY <1>8, <2>1 DEF SaveLastExported, DeleteSchedule, Becomes, Working
  <2> QED BY <1>1, <2>2, <2>3
<1>9. CASE Count(q)
  <2>1. PICK w : w = [worker[q] EXCEPT !.pc = "counted", !.copy = Counted(summary), !.clean = TRUE]
    OBVIOUS
  <2>2. w.pc = "counted" /\ w.message = worker[q].message
    BY <1>t, <2>1 DEF WorkerState
  <2>3. worker' = [worker EXCEPT ![q] = w] /\ UNCHANGED messageVars /\ Working(q)
    BY <1>9, <2>1 DEF Count, Working
  <2> QED BY <1>1, <2>2, <2>3 DEF Becomes
<1>10. CASE SaveCounts(q)
  <2>1. PICK w : w = IF worker[q].message.kind = "POLL"
                     THEN [worker[q] EXCEPT !.pc = "unschedule"]
                     ELSE [worker[q] EXCEPT !.pc = "schedule", !.copy = None, !.clean = TRUE]
    OBVIOUS
  <2>2. w.pc \in {"unschedule", "schedule"} /\ w.message = worker[q].message
    BY <1>t, <2>1 DEF WorkerState
  <2>3. Writes(q, w) /\ UNCHANGED messageVars /\ Working(q)
    BY <1>10, <2>1 DEF SaveCounts, Working
  <2> QED BY <1>1, <2>2, <2>3 DEF Becomes
<1>11. CASE Poll(q)
  <2>1. Takes(q, {"POLL"}) /\ UNCHANGED <<published, done>>
    BY <1>11 DEF Poll
  <2>2. PICK w : w = [Idle EXCEPT !.pc = "ack", !.message = Head(queue[q])]
    OBVIOUS
  <2>3. PICK v : v = [w EXCEPT !.pc = NothingQueued]
    OBVIOUS
  <2>4. /\ w.pc = "ack" /\ w.message = Head(queue[q])
        /\ v.pc \in {"ack", "count"} /\ v.message = Head(queue[q])
    BY <2>2, <2>3 DEF Idle, NothingQueued
  <2>5. \/ worker' = [worker EXCEPT ![q] = v] /\ UNCHANGED failures
        \/ Writes(q, w) /\ UNCHANGED failures
        \/ Failing(q, Head(queue[q]))
    BY <1>11, <2>2, <2>3, Zenon DEF Poll
  <2> QED BY <1>2, <1>3, <2>1, <2>4, <2>5 DEF Becomes
<1>12. CASE RaiseAtStart(q)
  BY <1>3, <1>12 DEF RaiseAtStart
<1>13. CASE Raise(q)
  <2>1. Working(q) /\ Failing(q, worker[q].message) /\ queue' = queue
    BY <1>13 DEF Raise, Working
  <2>2. worker[q].message \in Messages
    BY <2>1, WorkerType DEF Working
  <2> QED BY <2>1, <2>2 DEF FailsOn
<1> QED BY <1>4, <1>5, <1>6, <1>7, <1>8, <1>9, <1>10, <1>11, <1>12, <1>13 DEF Handle

(* Every step keeps the bound. *)
LEMMA FailureStep == Inv /\ Inv' /\ FailureInv /\ [Next]_vars => FailureInv'
<1> SUFFICES ASSUME Inv, Inv', FailureInv, [Next]_vars PROVE FailureInv'
  OBVIOUS
<1>1. ASSUME NEW q \in Queues, Work(q) \/ Crash(q) PROVE FailureInv'
  <2>1. CASE Handle(q) \/ RaiseAtStart(q) \/ Raise(q)
    BY <2>1, HandleKinds, GoingOnSpends, TakingOnSpends, FailingSpends DEF FailsOn
  <2>2. CASE PublishAgain(q)
    BY <2>2, PublishAgainSpends
  <2>3. CASE Reject(q) \/ Acknowledge(q) \/ Crash(q)
    BY <2>3, EndSpends
  <2> QED BY <1>1, <2>1, <2>2, <2>3 DEF Work
<1>2. CASE \E kind \in Kinds : Publish(kind)
  <2>1. PICK kind \in Kinds : Published(kind) /\ UNCHANGED <<failures, crashes, worker>>
    BY <1>2, WorkersAssumption DEF Publish, Published, Inv, Types, CountsOK
  <2> QED BY <2>1, PublishedSpends
<1>3. ASSUME \A q \in Queues : worker'[q].pc = worker[q].pc /\ worker'[q].message = worker[q].message,
             UNCHANGED <<queue, published, failures, crashes>>
      PROVE  FailureInv'
  <2>1. \A q \in Queues : Here(q)' = Here(q)
    BY <1>3 DEF Here, With, Elements
  <2>2. \A q \in Queues : \A m \in Ids : Part(q, m)' = Part(q, m)
    BY <1>3 DEF Part, Debt, Owed, CountIn
  <2>3. {"P0", "P1"} \subseteq Queues
    BY DEF Queues
  <2>4. Bounded'
    BY <1>3, <2>1, <2>2, <2>3 DEF FailureInv, Bounded
  <2> QED BY <1>3, <2>4 DEF FailureInv, AgainIsFirst
<1>4. CASE RecoverStuck
  <2>1. \A q \in Queues : worker'[q].pc = worker[q].pc /\ worker'[q].message = worker[q].message
    <3> SUFFICES ASSUME NEW q \in Queues
                 PROVE  worker'[q].pc = worker[q].pc /\ worker'[q].message = worker[q].message
      OBVIOUS
    <3>1. PICK b : worker'[q] = [worker[q] EXCEPT !.clean = b]
      BY <1>4 DEF RecoverStuck
    <3>2. worker[q] \in WorkerState
      BY DEF Inv, Types, WorkersOK, Hands
    <3> QED BY <3>1, <3>2 DEF WorkerState
  <2>2. UNCHANGED <<failures, crashes>>
    BY <1>4 DEF RecoverStuck
  <2>3. CASE UNCHANGED <<queue, published>>
    BY <1>3, <2>1, <2>2, <2>3
  <2>4. CASE ~UNCHANGED <<queue, published>>
    <3>1. /\ published + crashes < MaxMessages /\ published' = published + 1
          /\ queue' = Appended("BACKGROUND_SCHEDULE_EXPORT")
      BY <1>4, <2>4 DEF RecoverStuck
    <3>2. published \in Nat /\ crashes \in Nat /\ MaxMessages \in Nat
      BY WorkersAssumption DEF Inv, Types, CountsOK
    <3>3. Published("BACKGROUND_SCHEDULE_EXPORT") /\ "BACKGROUND_SCHEDULE_EXPORT" \in Kinds
      BY <3>1, <3>2 DEF Published, Kinds
    <3> QED BY <2>1, <2>2, <3>3, PublishedSpends
  <2> QED BY <2>3, <2>4
<1>5. CASE UNCHANGED vars
  BY <1>3, <1>5 DEF vars
<1> QED BY <1>1, <1>2, <1>4, <1>5 DEF Next

(* At first nothing is published. *)
LEMMA FailureInitially == Init => FailureInv
<1> SUFFICES ASSUME Init PROVE FailureInv
  OBVIOUS
<1>1. published = 0 /\ \A m \in Ids : failures[m] = 0 /\ ~(m <= 0)
  BY WorkersAssumption DEF Init, Ids
<1>2. \A q \in Queues : Here(q) = {} /\ worker[q].pc = "idle"
  BY DEF Init, Here, With, Elements, Idle
<1>3. Bounded
  BY <1>1, <1>2 DEF Bounded
<1> QED BY <1>2, <1>3 DEF FailureInv, AgainIsFirst

(* A message fails twice at most, and twice more for each worker that died on it. *)
THEOREM FailuresAlwaysBounded == Spec => []FailuresAreBounded
<1>1. Inv /\ FailureInv => FailuresAreBounded
  <2> SUFFICES ASSUME Inv, FailureInv, NEW m \in 1 .. published
               PROVE  failures[m] <= 2 + 2 * crashes
    BY DEF FailuresAreBounded
  <2>1. m \in Ids /\ m <= published /\ failures[m] \in Nat /\ crashes \in Nat
    BY WorkersAssumption DEF Inv, Types, CountsOK, Ids
  <2>2. failures[m] + Part("P0", m) + Part("P1", m) <= 2 + 2 * crashes
    BY <2>1 DEF FailureInv, Bounded
  <2>3. ASSUME NEW q \in Queues PROVE Part(q, m) \in Nat
    <3>1. PICK s, w : s = queue[q] /\ s \in Seq(Messages) /\ w = worker[q]
      BY DEF Inv, Types, QueuesOK
    <3> QED BY <3>1, PartType DEF Part
  <2> QED BY <2>1, <2>2, <2>3 DEF Queues
<1> QED BY Initially, Step, FailureInitially, FailureStep, <1>1, PTL DEF Spec
=============================================================================
