--------------------------- MODULE ExportWorkers ---------------------------
(***************************************************************************)
(* The RabbitMQ workers that run the exports of one workspace, and the     *)
(* summary of the exports that they keep:                                  *)
(*                                                                         *)
(*   - a message is acknowledged when its handler is done; one that raises *)
(*     is recorded, published once more and rejected; one whose worker     *)
(*     dies is delivered again;                                            *)
(*   - the worker of the P0 queue runs what the user asked for, the one of *)
(*     the P1 queue scheduled exports and the polling of posted exports;   *)
(*   - each of them counts the exports, and saves the row of the summary   *)
(*     whole, from a copy it read before.                                  *)
(*                                                                         *)
(* ExportLifecycle has the export of one row in detail.                    *)
(***************************************************************************)
EXTENDS Naturals, Sequences, FiniteSets, FiniteSetsExt

CONSTANTS
    Exports,       \* ids, exported in their order
    None,
    MaxMessages,   \* bound on messages published, retries aside, and workers dying
    MaxWaiting     \* bound on messages that wait when another is published

ASSUME WorkersAssumption ==
    /\ Exports \subseteq Nat /\ IsFiniteSet(Exports) /\ None \notin Exports
    /\ MaxMessages \in Nat /\ MaxWaiting \in Nat

VARIABLES
    queue,       \* queue[q]: messages waiting
    worker,      \* worker[q]: what the worker of q is doing
    export,      \* export[e]: its status, and when it was completed
    summary,     \* the row AccountingExportSummary
    polling,     \* is there a schedule for polling?
    clock,       \* time: passes when an export begins after others were completed
    published,   \* messages published, retries aside
    done,        \* messages acknowledged
    failures,    \* failures[m]: FailedEvent rows of message m
    crashes,     \* workers that died
    unsettled    \* the summary was left behind, in one of the ways named below

vars == <<queue, worker, export, summary, polling, clock, published, done, failures,
          crashes, unsettled>>
rowVars == <<export, summary, polling, clock, unsettled>>
messageVars == <<queue, published, done, failures>>
----------------------------------------------------------------------------
Queues == {"P0", "P1"}
Kinds == {"DASHBOARD_SYNC", "RUN_SYNC_SCHEDULE", "BACKGROUND_SCHEDULE_EXPORT", "POLL"}

\* The routing key each kind is published with.
QueueOf(kind) == IF kind = "DASHBOARD_SYNC" THEN "P0" ELSE "P1"

Messages == [id : 1 .. MaxMessages, kind : Kinds, retry_count : {0, 1}]

Statuses == {"EXPORT_READY", "ENQUEUED", "EXPORT_QUEUED", "FAILED", "COMPLETE"}
Busy == {"ENQUEUED", "EXPORT_QUEUED", "COMPLETE"}
WithStatus(s) == {e \in Exports : export[e].status = s}

Summaries == [last : Nat, failed : 0 .. Cardinality(Exports),
              successful : 0 .. Cardinality(Exports)]

ASSUME NoneAssumption == None \notin Summaries

\* The steps of export_to_sage300, of trigger_poll_operation_status, and of the
\* worker itself.
Steps == {"idle", "sync", "chain", "schedule", "refresh", "save", "count",
          "counted", "unschedule", "publish", "reject", "ack"}

\* `own` is the summary as the export read it first, `copy` as it will be saved;
\* `clean` says that nobody wrote since `copy` was read; `last` is the last of
\* the chain.
Idle == [pc |-> "idle", message |-> None, todo |-> {}, last |-> None, start |-> 0,
         own |-> None, copy |-> None, clean |-> TRUE]

Init ==
    /\ queue = [q \in Queues |-> <<>>]
    /\ worker = [q \in Queues |-> Idle]
    /\ export = [e \in Exports |-> [status |-> "EXPORT_READY", reattempt |-> FALSE, updated |-> 0]]
    /\ summary = [last |-> 0, failed |-> 0, successful |-> 0]
    /\ polling = FALSE
    /\ clock = 0
    /\ published = 0
    /\ done = {}
    /\ failures = [m \in 1 .. MaxMessages |-> 0]
    /\ crashes = 0
    /\ unsettled = FALSE

\* The worker of q goes on; what the others read before is not what there is now.
Writes(q, w) ==
    worker' = [r \in Queues |-> IF r = q THEN w
                                ELSE [worker[r] EXCEPT !.clean = @ /\ worker[r].copy = None]]
----------------------------------------------------------------------------
(***************************************************************************)
(* Messages                                                                *)
(***************************************************************************)

Appended(kind) ==
    [queue EXCEPT ![QueueOf(kind)] =
        Append(@, [id |-> published + 1, kind |-> kind, retry_count |-> 0])]

\* The user, the schedule of the export, and the schedule of the polling.
Publish(kind) ==
    /\ published + crashes < MaxMessages
    /\ Len(queue[QueueOf(kind)]) < MaxWaiting
    /\ kind # "BACKGROUND_SCHEDULE_EXPORT"
    /\ kind = "POLL" => polling
    /\ queue' = Appended(kind)
    /\ published' = published + 1
    /\ UNCHANGED <<rowVars, worker, done, failures, crashes>>

\* The worker of q takes the next message, of one of these kinds.
Takes(q, kinds) ==
    /\ worker[q] = Idle
    /\ queue[q] # <<>> /\ Head(queue[q]).kind \in kinds
    /\ queue' = [queue EXCEPT ![q] = Tail(@)]

Acknowledge(q) ==
    /\ worker[q].pc = "ack"
    /\ done' = done \cup {worker[q].message.id}
    /\ worker' = [worker EXCEPT ![q] = Idle]
    /\ UNCHANGED <<rowVars, queue, published, failures, crashes>>

\* Fault: a message may be published twice more.
MayRetry_Twice(m, f) == f < 3

\* retry_count is counted up first.
MayRetry(m, f) == m.retry_count + 1 < 2

\* handle_exception: a FailedEvent, then the message once more, then the rejection.
Failing(q, m) ==
    /\ failures' = [failures EXCEPT ![m.id] = @ + 1]
    /\ Writes(q, [Idle EXCEPT !.message = m,
                              !.pc = IF MayRetry(m, failures'[m.id]) THEN "publish" ELSE "reject"])

\* The handler does not take the arguments.
RaiseAtStart(q) ==
    /\ Takes(q, {"BACKGROUND_SCHEDULE_EXPORT"})
    /\ Failing(q, Head(queue[q]))
    /\ UNCHANGED <<rowVars, published, done, crashes>>

\* The sync of dimensions before the chain raises.
Raise(q) ==
    /\ worker[q].pc = "sync"
    /\ Failing(q, worker[q].message)
    /\ unsettled' = TRUE
    /\ UNCHANGED <<queue, published, done, export, summary, polling, clock, crashes>>

PublishAgain(q) ==
    /\ worker[q].pc = "publish"
    /\ queue' = [queue EXCEPT ![q] = Append(@, [worker[q].message EXCEPT !.retry_count = 1])]
    /\ worker' = [worker EXCEPT ![q].pc = "reject"]
    /\ UNCHANGED <<rowVars, published, done, failures, crashes>>

Reject(q) ==
    /\ worker[q].pc = "reject"
    /\ worker' = [worker EXCEPT ![q] = Idle]
    /\ UNCHANGED <<rowVars, messageVars, crashes>>

\* Fault: the message is rejected before it is published once more.
Unacknowledged_Early(q) == worker[q].pc \notin {"idle", "publish"}

Unacknowledged(q) == worker[q].pc # "idle"

\* The worker dies: what it has not acknowledged is delivered again.
Crash(q) ==
    /\ worker[q].pc # "idle"
    /\ published + crashes < MaxMessages
    /\ crashes' = crashes + 1
    /\ worker' = [worker EXCEPT ![q] = Idle]
    /\ queue' = IF Unacknowledged(q) THEN [queue EXCEPT ![q] = <<worker[q].message>> \o @] ELSE queue
    /\ unsettled' = TRUE
    /\ UNCHANGED <<export, summary, polling, clock, published, done, failures>>
----------------------------------------------------------------------------
(***************************************************************************)
(* An export: export_to_sage300, trigger_run_import_export                 *)
(***************************************************************************)

\* The scheduled export leaves out failures that are not to be tried again.
Selected(kind) ==
    {e \in Exports :
        /\ export[e].status # "COMPLETE"
        /\ kind = "RUN_SYNC_SCHEDULE" /\ export[e].status = "FAILED" => export[e].reattempt}

Tick == IF \E e \in WithStatus("COMPLETE") : export[e].updated = clock THEN clock + 1 ELSE clock

\* The rows not busy are enqueued, unless an error lists them; only a row that
\* is not skipped can be the last of the chain.
StartExport(q) ==
    /\ Takes(q, {"DASHBOARD_SYNC", "RUN_SYNC_SCHEDULE"})
    /\ clock' = Tick
    /\ LET m == Head(queue[q])
           ids == Selected(m.kind)
           locked == {e \in ids : export[e].status \notin Busy} IN
       IF ids = {}
       THEN /\ worker' = [worker EXCEPT ![q] = [@ EXCEPT !.pc = "ack", !.message = m]]
            /\ UNCHANGED <<export, unsettled>>
       ELSE \E skipped \in SUBSET {e \in locked : export[e].status = "FAILED"} :
              LET chain == locked \ skipped
                  last == IF chain # {} /\ Max(locked) \in chain THEN Max(locked) ELSE None IN
              /\ export' = [e \in Exports |->
                              IF e \in chain
                              THEN [export[e] EXCEPT !.status = "ENQUEUED", !.reattempt = FALSE]
                              ELSE export[e]]
              /\ Writes(q, [Idle EXCEPT !.pc = IF chain = {} THEN "refresh" ELSE "sync", !.message = m,
                                       !.todo = chain, !.last = last, !.start = Tick,
                                       !.own = summary])
              /\ unsettled' = (unsettled \/ last = None)
    /\ UNCHANGED <<published, done, failures, summary, polling, crashes>>

\* Where the chain goes after e, which failed or not: when the last fails the
\* exports are counted, unless the polling that is scheduled will do it.
AfterExport(q, e, fails) ==
    IF worker[q].todo # {e} THEN "chain"
    ELSE IF e # worker[q].last THEN "refresh"
    ELSE IF fails /\ ~polling THEN "count"
    ELSE "schedule"

\* The next of the chain is posted, or fails: handle_sage300_exceptions.
ExportNext(q) ==
    /\ worker[q].pc \in {"sync", "chain"}
    /\ LET e == Min(worker[q].todo) IN
       \E fails \in BOOLEAN :
          /\ export' = [export EXCEPT ![e].status = IF fails THEN "FAILED" ELSE "EXPORT_QUEUED"]
          /\ Writes(q, [worker[q] EXCEPT !.pc = AfterExport(q, e, fails), !.todo = @ \ {e},
                                         !.last = IF AfterExport(q, e, fails) = "chain" THEN @ ELSE None])
    /\ UNCHANGED <<messageVars, summary, polling, clock, crashes, unsettled>>

CreateScheduleForPolling(q) ==
    /\ worker[q].pc = "schedule"
    /\ polling' = TRUE
    /\ Writes(q, [worker[q] EXCEPT !.pc = "refresh"])
    /\ UNCHANGED <<messageVars, export, summary, clock, crashes, unsettled>>

\* Fault: the row is saved as it was read before the chain.
Refreshed_None(q) == worker[q].own

\* "Refresh from DB to avoid overwriting counts".
Refreshed(q) == summary

Refresh(q) ==
    /\ worker[q].pc = "refresh"
    /\ worker' = [worker EXCEPT ![q].pc = "save", ![q].copy = Refreshed(q), ![q].clean = TRUE,
                                ![q].own = None]
    /\ UNCHANGED <<rowVars, messageVars, crashes>>

\* What was counted since an earlier export is not counted again, unless there
\* is polling to come.
SaveLastExported(q) ==
    /\ worker[q].pc = "save"
    /\ summary' = [worker[q].copy EXCEPT !.last = worker[q].start]
    /\ unsettled' = (unsettled \/ ~worker[q].clean \/ ~polling)
    /\ Writes(q, [Idle EXCEPT !.pc = "ack", !.message = worker[q].message])
    /\ UNCHANGED <<messageVars, export, polling, clock, crashes>>
----------------------------------------------------------------------------
(***************************************************************************)
(* update_accounting_export_summary, and the polling that ends with it     *)
(***************************************************************************)

\* Those that were completed since the last export began.
Successful(s) == {e \in WithStatus("COMPLETE") : export[e].updated >= s.last}

Counted(s) ==
    [last |-> s.last, failed |-> Cardinality(WithStatus("FAILED")),
     successful |-> Cardinality(Successful(s))]

\* The row is read and the exports are counted.
Count(q) ==
    /\ worker[q].pc = "count"
    /\ worker' = [worker EXCEPT ![q].pc = "counted", ![q].copy = Counted(summary), ![q].clean = TRUE]
    /\ UNCHANGED <<rowVars, messageVars, crashes>>

SaveCounts(q) ==
    /\ worker[q].pc = "counted"
    /\ summary' = worker[q].copy
    /\ unsettled' = ~worker[q].clean
    /\ Writes(q, IF worker[q].message.kind = "POLL"
                 THEN [worker[q] EXCEPT !.pc = "unschedule"]
                 ELSE [worker[q] EXCEPT !.pc = "schedule", !.copy = None, !.clean = TRUE])
    /\ UNCHANGED <<messageVars, export, polling, clock, crashes>>

\* Fault: the schedule goes without a count.
NothingQueued_NoCount == IF polling THEN "unschedule" ELSE "ack"

NothingQueued == IF polling THEN "count" ELSE "ack"

\* Sage has accepted some documents, refused others, and is not done with the
\* rest; a call to Sage may raise on the way. ExportLifecycle has the verdicts
\* one by one. Without polling to come nobody counts them.
Poll(q) ==
    /\ Takes(q, {"POLL"})
    /\ LET queued == WithStatus("EXPORT_QUEUED")
           w == [Idle EXCEPT !.pc = "ack", !.message = Head(queue[q])] IN
       IF queued = {}
       THEN /\ worker' = [worker EXCEPT ![q] = [w EXCEPT !.pc = NothingQueued]]
            /\ UNCHANGED <<export, unsettled, failures>>
       ELSE \E accepted \in SUBSET queued : \E refused \in SUBSET (queued \ accepted) :
              /\ export' = [e \in Exports |->
                    IF e \in accepted THEN [export[e] EXCEPT !.status = "COMPLETE", !.updated = clock]
                    ELSE IF e \in refused THEN [export[e] EXCEPT !.status = "FAILED"]
                    ELSE export[e]]
              /\ unsettled' = (unsettled \/ (accepted \cup refused # {} /\ ~polling))
              /\ \/ Writes(q, w) /\ UNCHANGED failures
                 \/ Failing(q, Head(queue[q]))
    /\ UNCHANGED <<summary, polling, clock, published, done, crashes>>

DeleteSchedule(q) ==
    /\ worker[q].pc = "unschedule"
    /\ polling' = FALSE
    /\ unsettled' = (unsettled \/ ~worker[q].clean)
    /\ worker' = [worker EXCEPT ![q] = [Idle EXCEPT !.pc = "ack", !.message = worker[q].message]]
    /\ UNCHANGED <<messageVars, export, summary, clock, crashes>>

\* re_export_stuck_exports, an hour later: its message lacks the argument
\* triggered_by, and is not published when the schedule will run soon.
RecoverStuck ==
    /\ LET stuck == WithStatus("ENQUEUED") \ (worker["P0"].todo \cup worker["P1"].todo) IN
       /\ stuck # {}
       /\ export' = [e \in Exports |-> IF e \in stuck THEN [export[e] EXCEPT !.status = "FAILED", !.reattempt = TRUE]
                                       ELSE export[e]]
    /\ \/ UNCHANGED <<queue, published>>
       \/ /\ published + crashes < MaxMessages
          /\ queue' = Appended("BACKGROUND_SCHEDULE_EXPORT")
          /\ published' = published + 1
    /\ worker' = [q \in Queues |-> [worker[q] EXCEPT !.clean = @ /\ worker[q].copy = None]]
    /\ unsettled' = TRUE
    /\ UNCHANGED <<summary, polling, clock, done, failures, crashes>>
----------------------------------------------------------------------------
Handle(q) ==
    \/ StartExport(q)
    \/ ExportNext(q)
    \/ CreateScheduleForPolling(q)
    \/ Refresh(q)
    \/ SaveLastExported(q)
    \/ Count(q)
    \/ SaveCounts(q)
    \/ Poll(q)
    \/ DeleteSchedule(q)

Work(q) ==
    \/ Handle(q)
    \/ RaiseAtStart(q)
    \/ Raise(q)
    \/ PublishAgain(q)
    \/ Reject(q)
    \/ Acknowledge(q)

Next ==
    \/ \E kind \in Kinds : Publish(kind)
    \/ \E q \in Queues : Work(q) \/ Crash(q)
    \/ RecoverStuck

Spec == Init /\ [][Next]_vars
----------------------------------------------------------------------------
(***************************************************************************)
(* Properties                                                              *)
(***************************************************************************)

\* The types of the variables.
TypeOK ==
    /\ \A q \in Queues :
          /\ \A i \in DOMAIN queue[q] : queue[q][i] \in Messages
          /\ worker[q].pc \in Steps
          /\ worker[q].pc # "idle" => worker[q].message \in Messages
          /\ worker[q].todo \subseteq Exports
          /\ worker[q].copy \in Summaries \cup {None}
          /\ worker[q].pc \in {"sync", "chain"} => worker[q].todo # {}
    /\ export \in [Exports -> [status : Statuses, reattempt : BOOLEAN, updated : 0 .. clock]]
    /\ summary \in Summaries
    /\ polling \in BOOLEAN /\ unsettled \in BOOLEAN
    /\ clock \in Nat
    /\ done \subseteq 1 .. MaxMessages
    /\ failures \in [1 .. MaxMessages -> Nat]

\* A message that its handler has come to the end of, or that failed twice.
Ended(m) == m \in done \/ failures[m] >= 2

\* worker.py, handle_exception: whatever raises and whenever a worker dies, a
\* message waits in its queue, or is with a worker, or was handled to its end, or
\* is on record as having failed twice.
NothingIsLost ==
    \A m \in 1 .. published :
        \/ Ended(m)
        \/ \E q \in Queues :
              \/ worker[q].pc # "idle" /\ worker[q].message.id = m
              \/ \E i \in DOMAIN queue[q] : queue[q][i].id = m

\* worker.py, retry_count: a message fails twice at most, and twice more for each
\* worker that died on it after it recorded the failure: what comes back has
\* its old retry_count, and may have been published once more already.
FailuresAreBounded == \A m \in 1 .. published : failures[m] <= 2 + 2 * crashes

\* No worker handles a message and no polling is to come.
Quiet == ~polling /\ \A q \in Queues : worker[q].pc = "idle"

\* actions.py, queues.py: when the exports and the polling have come to their
\* end, the summary counts the exports as they are and since the last export began,
\* unless it was left behind: a worker died or raised before its chain was
\* done, the last of a chain was skipped, exports were recovered, two workers
\* saved the row at a time, or the polling ended before the export did.
SummaryAgrees == Quiet /\ ~unsettled => summary = Counted(summary)

\* workspaces/tasks.py, "Refresh from DB to avoid overwriting counts that were
\* updated by the synchronous TaskChainRunner during export processing": the
\* time of the export is saved with the counts that stand, unless another worker
\* saved between the refresh and the save.
CountsAreNotOverwritten ==
    [][\A q \in Queues :
          worker[q].pc = "save" /\ worker'[q].pc = "ack" /\ worker[q].clean =>
              summary'.failed = summary.failed /\ summary'.successful = summary.successful]_vars
=============================================================================
