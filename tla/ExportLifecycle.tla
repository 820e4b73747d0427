-------------------------- MODULE ExportLifecycle --------------------------
(***************************************************************************)
(* The life of the AccountingExport rows of one workspace and one fund     *)
(* source, from EXPORT_READY to a document in Sage 300 and back.           *)
(*                                                                         *)
(*   - a CHAIN is one call of check_accounting_export_and_start_import:    *)
(*     it selects ids, enqueues the rows under a row lock and then runs    *)
(*     one create_purchase_invoice / create_direct_cost task per row, and  *)
(*     create_schedule_for_polling last;                                   *)
(*   - a POLLER is one call of trigger_poll_operation_status;              *)
(*   - re_export_stuck_exports, a change of the export settings, the       *)
(*     user who adds a mapping and Sage itself run beside them.            *)
(*                                                                         *)
(* Every Django .save() writes the WHOLE row, so a process that saves      *)
(* writes back the copy it read earlier: chains and pollers carry their    *)
(* copies in `copy' and `copies'.                                          *)
(***************************************************************************)
EXTENDS Naturals, FiniteSets

CONSTANTS
    Exports,            \* ids of AccountingExport rows
    Docs,               \* ids Sage may give to documents (bounds the posts)
    Chains,             \* concurrent runs of the export task chain
    Pollers,            \* concurrent runs of the poll task
    None,               \* null
    MaxSettingChanges,  \* bound on changes of the export type
    SlowChains,         \* may a chain still run after 60 minutes?
    TornPosts           \* may a chain die after Sage took the document and
                        \* before its transaction commits?

ASSUME NoneAssumption == None \notin Exports \cup Docs
ASSUME BoundsAssumption == MaxSettingChanges \in Nat
ASSUME FlagsAssumption == SlowChains \in BOOLEAN /\ TornPosts \in BOOLEAN

VARIABLES
    row,        \* row[e]: the accounting_exports row
    bodies,     \* bodies[e]: kinds for which a PurchaseInvoice/DirectCost row exists
    sageErr,    \* sageErr[e]: an unresolved SAGE300_ERROR refers to e
    mapErr,     \* mapErr[e]: an unresolved mapping error lists e
    mapped,     \* mapped[e]: the mappings e needs exist
    sched,      \* kinds that have a poll_operation_status Schedule
    pollMsg,    \* kinds with a POLL_*_STATUS message in the P1 queue
    setting,    \* the export type configured for the fund source
    changes,    \* number of changes of setting so far
    chain,      \* chain[c]: local state of a chain
    poller,     \* poller[p]: local state of a poller
    stuck,      \* ids re_export_stuck_exports has read and not yet updated
    docState,   \* docState[d]: Sage's state of document d
    docOwner    \* docOwner[d]: the export d was posted for

dbVars == <<row, bodies, sageErr, mapErr, mapped, sched, pollMsg>>
docVars == <<docState, docOwner>>
settingVars == <<setting, changes>>
vars == <<dbVars, docVars, settingVars, chain, poller, stuck>>
----------------------------------------------------------------------------
Kinds == {"PURCHASE_INVOICE", "DIRECT_COST"}

Statuses == {"EXPORT_READY", "ENQUEUED", "IN_PROGRESS", "EXPORT_QUEUED",
             "COMPLETE", "FAILED", "FATAL"}

\* exportId is the column export_id, opId the key export_id of the JSON
\* column detail (None when detail is null or holds an error message).
Row == [status : Statuses, type : Kinds, exportId : Docs \cup {None},
        opId : Docs \cup {None}, exportedAt : BOOLEAN, reAttempt : BOOLEAN]

NewRow == [status |-> "EXPORT_READY", type |-> "PURCHASE_INVOICE",
           exportId |-> None, opId |-> None, exportedAt |-> FALSE,
           reAttempt |-> FALSE]

ChainPCs == {"idle", "configured", "selected", "running", "read", "started", "posted", "schedule"}

ChainState == [pc : ChainPCs, kind : Kinds, auto : BOOLEAN,
               todo : SUBSET Exports, last : Exports \cup {None},
               cur : Exports \cup {None}, copy : Row, doc : Docs \cup {None}]

IdleChain == [pc |-> "idle", kind |-> "PURCHASE_INVOICE", auto |-> FALSE,
              todo |-> {}, last |-> None, cur |-> None, copy |-> NewRow,
              doc |-> None]

PollerPCs == {"idle", "polling", "rejected", "accepted", "unschedule"}

PollerState == [pc : PollerPCs, kind : Kinds, todo : SUBSET Exports,
                cur : Exports \cup {None}, copies : [Exports -> Row]]

IdlePoller == [pc |-> "idle", kind |-> "PURCHASE_INVOICE", todo |-> {},
               cur |-> None, copies |-> [e \in Exports |-> NewRow]]

Init ==
    /\ row = [e \in Exports |-> NewRow]
    /\ bodies = [e \in Exports |-> {}]
    /\ sageErr = [e \in Exports |-> FALSE]
    /\ mapErr = [e \in Exports |-> FALSE]
    /\ mapped \in [Exports -> BOOLEAN]
    /\ sched = {}
    /\ pollMsg = {}
    /\ setting \in Kinds
    /\ changes = 0
    /\ chain = [c \in Chains |-> IdleChain]
    /\ poller = [p \in Pollers |-> IdlePoller]
    /\ stuck = {}
    /\ docState = [d \in Docs |-> "absent"]
    /\ docOwner = [d \in Docs |-> None]
----------------------------------------------------------------------------
(***************************************************************************)
(* Enqueueing                                                              *)
(***************************************************************************)

\* The status filter of ids_to_lock.
Busy == {"ENQUEUED", "IN_PROGRESS", "COMPLETE", "EXPORT_QUEUED"}

\* What the callers of trigger_export ask for: the scheduled run leaves out
\* failed exports that are not to be re-attempted.
Requested(auto) ==
    {e \in Exports :
        /\ ~row[e].exportedAt
        /\ auto => ~(row[e].status = "FAILED" /\ ~row[e].reAttempt)}

IdsToLock(kind, auto) ==
    {e \in Requested(auto) : row[e].status \notin Busy /\ kind \notin bodies[e]}

\* trigger_run_import_export or export_to_sage300 reads the settings;
\* the import of expenses may take long before the ids are selected.
TriggerExport(c) ==
    /\ chain[c].pc = "idle"
    /\ chain' = [chain EXCEPT ![c] = [IdleChain EXCEPT !.pc = "configured", !.kind = setting]]
    /\ UNCHANGED <<dbVars, docVars, settingVars, poller, stuck>>

\* The ids are read before any lock is taken. The scheduled run (auto) and the
\* user's export ask for all of them, a real-time export only for some.
SelectIds(c) ==
    /\ chain[c].pc = "configured"
    /\ \E auto \in BOOLEAN :
         LET ids == IdsToLock(chain[c].kind, auto) IN
         \/ /\ ids = {}
            /\ chain' = [chain EXCEPT ![c] = IdleChain]
         \/ \E some \in SUBSET ids \ {{}} :
              /\ auto => some = ids
              /\ chain' = [chain EXCEPT ![c] = [@ EXCEPT !.pc = "selected", !.auto = auto, !.todo = some]]
    /\ UNCHANGED <<dbVars, docVars, settingVars, poller, stuck>>

\* Purchase invoices go through get_or_create and leave a row that is already
\* ENQUEUED or IN_PROGRESS alone, and never change its type; direct costs go
\* through update_or_create.
Enqueued(kind, r) ==
    IF kind = "DIRECT_COST"
    THEN [r EXCEPT !.status = "ENQUEUED", !.type = "DIRECT_COST"]
    ELSE IF r.status \in {"IN_PROGRESS", "ENQUEUED"} THEN r
    ELSE [r EXCEPT !.status = "ENQUEUED"]

\* Whether the automatic export leaves out an export with a repeated Sage error
\* depends on a count of 100 and a window of 24 hours: either may happen.
SkippedSets(c) ==
    LET unmapped == {e \in chain[c].todo : mapErr[e]}
        repeated == {e \in chain[c].todo : chain[c].auto /\ sageErr[e]}
    IN  {unmapped \cup rep : rep \in SUBSET repeated}

\* The rows are locked and written, but their status is not checked again.
\* Only a row that is not skipped can become the last one: last is None when
\* the iteration ends on a skipped row.
LockAndEnqueue(c) ==
    /\ chain[c].pc = "selected"
    /\ \E skipped \in SkippedSets(c) :
         LET kept == chain[c].todo \ skipped IN
         /\ row' = [e \in Exports |-> IF e \in kept THEN Enqueued(chain[c].kind, row[e])
                                      ELSE row[e]]
         /\ IF kept = {}
            THEN chain' = [chain EXCEPT ![c] = IdleChain]
            ELSE \E last \in (IF skipped = {} THEN kept ELSE kept \cup {None}) :
                    chain' = [chain EXCEPT ![c] = [@ EXCEPT !.pc = "running", !.auto = FALSE,
                                                            !.todo = kept, !.last = last]]
    /\ UNCHANGED <<bodies, sageErr, mapErr, mapped, sched, pollMsg,
                   docVars, settingVars, poller, stuck>>
----------------------------------------------------------------------------
(***************************************************************************)
(* The tasks of a chain                                                    *)
(***************************************************************************)

AfterTask(c, e) ==
    IF e = chain[c].last
    THEN [IdleChain EXCEPT !.pc = "schedule", !.kind = chain[c].kind]
    ELSE IF chain[c].todo = {e} THEN IdleChain
    ELSE [chain[c] EXCEPT !.pc = "running", !.todo = @ \ {e}, !.cur = None,
                          !.copy = NewRow, !.doc = None]

NextTask(c, e) ==
    /\ chain[c].pc = "running"
    /\ e \in chain[c].todo
    /\ e = chain[c].last => chain[c].todo = {e}

\* The decorator and the task read the row; no lock is held.
ReadExport(c) ==
    /\ \E e \in Exports :
         /\ NextTask(c, e)
         /\ row[e].status \notin {"IN_PROGRESS", "COMPLETE"}
         /\ chain' = [chain EXCEPT ![c] = [@ EXCEPT !.pc = "read", !.cur = e, !.copy = row[e]]]
    /\ UNCHANGED <<dbVars, docVars, settingVars, poller, stuck>>

SkipStarted(c) ==
    /\ \E e \in Exports :
         /\ NextTask(c, e)
         /\ row[e].status \in {"IN_PROGRESS", "COMPLETE"}
         /\ chain' = [chain EXCEPT ![c] = AfterTask(c, e)]
    /\ UNCHANGED <<dbVars, docVars, settingVars, poller, stuck>>

MarkInProgress(c) ==
    /\ chain[c].pc = "read"
    /\ row' = [row EXCEPT ![chain[c].cur] = [chain[c].copy EXCEPT !.status = "IN_PROGRESS"]]
    /\ chain' = [chain EXCEPT ![c] = [@ EXCEPT !.pc = "started"]]
    /\ UNCHANGED <<bodies, sageErr, mapErr, mapped, sched, pollMsg,
                   docVars, settingVars, poller, stuck>>

\* A task that fails saves the copy the decorator read before it began.
SaveFailure(c, r) ==
    /\ row' = [row EXCEPT ![chain[c].cur] = r]
    /\ chain' = [chain EXCEPT ![c] = AfterTask(c, chain[c].cur)]
    /\ UNCHANGED <<bodies, mapped, sched, pollMsg, docVars, settingVars, poller, stuck>>

\* validate_accounting_export raises BulkError; the row is FAILED.
MappingMissing(c) ==
    /\ chain[c].pc = "started"
    /\ ~mapped[chain[c].cur]
    /\ mapErr' = [mapErr EXCEPT ![chain[c].cur] = TRUE]
    /\ UNCHANGED sageErr
    /\ SaveFailure(c, [chain[c].copy EXCEPT !.status = "FAILED", !.opId = None,
                                            !.reAttempt = FALSE])

\* Sage refuses the document (WrongParamsError).
SageRefuses(c) ==
    /\ chain[c].pc = "started"
    /\ mapped[chain[c].cur]
    /\ sageErr' = [sageErr EXCEPT ![chain[c].cur] = TRUE]
    /\ UNCHANGED mapErr
    /\ SaveFailure(c, [chain[c].copy EXCEPT !.status = "FAILED", !.opId = None,
                                            !.reAttempt = FALSE])

\* Sage300Credential.DoesNotExist or FyleCredential.DoesNotExist.
CredentialsMissing(c) ==
    /\ chain[c].pc = "started"
    /\ mapped[chain[c].cur]
    /\ UNCHANGED <<mapErr, sageErr>>
    /\ SaveFailure(c, [chain[c].copy EXCEPT !.status = "FAILED", !.opId = None,
                                            !.reAttempt = FALSE])

\* Any other exception. Raised inside the transaction, it rolls back the body
\* row and export_id, but not the document Sage already has.
UnexpectedError(c) ==
    /\ \/ chain[c].pc = "started"
       \/ chain[c].pc = "posted" /\ TornPosts
    /\ UNCHANGED <<mapErr, sageErr>>
    /\ SaveFailure(c, [chain[c].copy EXCEPT !.status = "FATAL", !.opId = None])

\* The body row is written (not yet visible: the transaction is open) and the
\* document is posted and handed to Sage. A second chain of the same kind waits
\* for the first one on the unique accounting_export of the body row.
PostDocument(c) ==
    /\ chain[c].pc = "started"
    /\ mapped[chain[c].cur]
    /\ \A c2 \in Chains : ~(/\ chain[c2].pc = "posted"
                            /\ chain[c2].cur = chain[c].cur
                            /\ chain[c2].kind = chain[c].kind)
    /\ \E d \in Docs :
         /\ docState[d] = "absent"
         /\ docState' = [docState EXCEPT ![d] = "queued"]
         /\ docOwner' = [docOwner EXCEPT ![d] = chain[c].cur]
         /\ chain' = [chain EXCEPT ![c] = [@ EXCEPT !.pc = "posted", !.doc = d]]
    /\ UNCHANGED <<dbVars, settingVars, poller, stuck>>

\* Fault: detail is written, the column export_id is not.
CommitExport_NoExportId(c) ==
    /\ chain[c].pc = "posted"
    /\ row' = [row EXCEPT ![chain[c].cur] =
                 [chain[c].copy EXCEPT !.status = "EXPORT_QUEUED", !.opId = chain[c].doc]]
    /\ bodies' = [bodies EXCEPT ![chain[c].cur] = @ \cup {chain[c].kind}]
    /\ chain' = [chain EXCEPT ![c] = AfterTask(c, chain[c].cur)]
    /\ UNCHANGED <<sageErr, mapErr, mapped, sched, pollMsg,
                   docVars, settingVars, poller, stuck>>

CommitExport(c) ==
    /\ chain[c].pc = "posted"
    /\ row' = [row EXCEPT ![chain[c].cur] =
                 [chain[c].copy EXCEPT !.status = "EXPORT_QUEUED",
                                       !.exportId = chain[c].doc,
                                       !.opId = chain[c].doc]]
    /\ bodies' = [bodies EXCEPT ![chain[c].cur] = @ \cup {chain[c].kind}]
    /\ chain' = [chain EXCEPT ![c] = AfterTask(c, chain[c].cur)]
    /\ UNCHANGED <<sageErr, mapErr, mapped, sched, pollMsg,
                   docVars, settingVars, poller, stuck>>

\* The task create_schedule_for_polling, which follows the last export.
CreateScheduleForPolling(c) ==
    /\ chain[c].pc = "schedule"
    /\ sched' = sched \cup {chain[c].kind}
    /\ chain' = [chain EXCEPT ![c] = IdleChain]
    /\ UNCHANGED <<row, bodies, sageErr, mapErr, mapped, pollMsg,
                   docVars, settingVars, poller, stuck>>

\* The worker process that runs the chain dies: an open transaction rolls back,
\* the remaining tasks are gone.
ChainCrash(c) ==
    /\ chain[c].pc # "idle"
    /\ chain[c].pc = "posted" => TornPosts
    /\ chain' = [chain EXCEPT ![c] = IdleChain]
    /\ UNCHANGED <<dbVars, docVars, settingVars, poller, stuck>>
----------------------------------------------------------------------------
(***************************************************************************)
(* Polling                                                                 *)
(***************************************************************************)

\* The schedule fires and publishes a message for the P1 worker.
PollOperationStatus(k) ==
    /\ k \in sched
    /\ pollMsg' = pollMsg \cup {k}
    /\ UNCHANGED <<row, bodies, sageErr, mapErr, mapped, sched,
                   docVars, settingVars, chain, poller, stuck>>

QueuedOf(k) == {e \in Exports : row[e].status = "EXPORT_QUEUED" /\ row[e].type = k}

\* The poller reads all queued rows at once and works on these copies.
PollStart(p) ==
    /\ poller[p].pc = "idle"
    /\ \E k \in pollMsg :
         /\ pollMsg' = pollMsg \ {k}
         /\ \/ /\ QueuedOf(k) # {}
               /\ poller' = [poller EXCEPT ![p] =
                    [IdlePoller EXCEPT !.pc = "polling", !.kind = k, !.todo = QueuedOf(k),
                        !.copies = [e \in Exports |-> IF e \in QueuedOf(k) THEN row[e] ELSE NewRow]]]
            \/ /\ QueuedOf(k) = {}
               /\ k \in sched
               /\ poller' = [poller EXCEPT ![p] = [IdlePoller EXCEPT !.pc = "unschedule", !.kind = k]]
            \/ /\ QueuedOf(k) = {}
               /\ k \notin sched
               /\ UNCHANGED poller
    /\ UNCHANGED <<row, bodies, sageErr, mapErr, mapped, sched,
                   docVars, settingVars, chain, stuck>>

\* Nothing was queued when the poller looked, so it deletes the schedule.
DeleteSchedule(p) ==
    /\ poller[p].pc = "unschedule"
    /\ sched' = sched \ {poller[p].kind}
    /\ poller' = [poller EXCEPT ![p] = IdlePoller]
    /\ UNCHANGED <<row, bodies, sageErr, mapErr, mapped, pollMsg,
                   docVars, settingVars, chain, stuck>>

AfterPoll(p, e) ==
    IF poller[p].todo = {e} THEN IdlePoller
    ELSE [poller[p] EXCEPT !.pc = "polling", !.cur = None, !.todo = @ \ {e},
                           !.copies[e] = NewRow]

PollPending(p, e) ==
    /\ poller[p].pc = "polling"
    /\ e \in poller[p].todo
    /\ docState[poller[p].copies[e].opId] = "queued"
    /\ poller' = [poller EXCEPT ![p] = AfterPoll(p, e)]
    /\ UNCHANGED <<dbVars, docVars, settingVars, chain, stuck>>

\* Fault: a rejected operation is never seen as completed.
Completed_AcceptedOnly(p, e) == docState[poller[p].copies[e].opId] = "accepted"

\* operation_status is asked for the operation in detail, the document is
\* fetched by export_id.
Completed(p, e) == docState[poller[p].copies[e].opId] \in {"accepted", "rejected"}

\* Fault: a completed operation is taken for a failure, whatever the document says.
PollRejected_NoDocument(p, e) ==
    /\ poller[p].pc = "polling"
    /\ e \in poller[p].todo
    /\ Completed(p, e)
    /\ row' = [row EXCEPT ![e] = [poller[p].copies[e] EXCEPT !.status = "FAILED",
                                                             !.reAttempt = FALSE]]
    /\ poller' = [poller EXCEPT ![p] = [@ EXCEPT !.pc = "rejected", !.cur = e]]
    /\ UNCHANGED <<bodies, sageErr, mapErr, mapped, sched, pollMsg,
                   docVars, settingVars, chain, stuck>>

PollRejected(p, e) ==
    /\ poller[p].pc = "polling"
    /\ e \in poller[p].todo
    /\ Completed(p, e)
    /\ docState[poller[p].copies[e].exportId] # "accepted"
    /\ row' = [row EXCEPT ![e] = [poller[p].copies[e] EXCEPT !.status = "FAILED",
                                                             !.reAttempt = FALSE]]
    /\ poller' = [poller EXCEPT ![p] = [@ EXCEPT !.pc = "rejected", !.cur = e]]
    /\ UNCHANGED <<bodies, sageErr, mapErr, mapped, sched, pollMsg,
                   docVars, settingVars, chain, stuck>>

\* The Error row and the removal of the body are separate statements after
\* the save, with no transaction around them.
CleanRejected(p) ==
    /\ poller[p].pc = "rejected"
    /\ sageErr' = [sageErr EXCEPT ![poller[p].cur] = TRUE]
    /\ bodies' = [bodies EXCEPT ![poller[p].cur] = @ \ {poller[p].kind}]
    /\ poller' = [poller EXCEPT ![p] = AfterPoll(p, poller[p].cur)]
    /\ UNCHANGED <<row, mapErr, mapped, sched, pollMsg,
                   docVars, settingVars, chain, stuck>>

\* Fault: a completed operation is taken for a success, whatever the document says.
PollAccepted_NoDocument(p, e) ==
    /\ poller[p].pc = "polling"
    /\ e \in poller[p].todo
    /\ Completed(p, e)
    /\ row' = [row EXCEPT ![e] = [poller[p].copies[e] EXCEPT !.status = "COMPLETE",
                                                             !.exportedAt = TRUE]]
    /\ poller' = [poller EXCEPT ![p] = [@ EXCEPT !.pc = "accepted", !.cur = e]]
    /\ UNCHANGED <<bodies, sageErr, mapErr, mapped, sched, pollMsg,
                   docVars, settingVars, chain, stuck>>

PollAccepted(p, e) ==
    /\ poller[p].pc = "polling"
    /\ e \in poller[p].todo
    /\ Completed(p, e)
    /\ docState[poller[p].copies[e].exportId] = "accepted"
    /\ row' = [row EXCEPT ![e] = [poller[p].copies[e] EXCEPT !.status = "COMPLETE",
                                                             !.exportedAt = TRUE]]
    /\ poller' = [poller EXCEPT ![p] = [@ EXCEPT !.pc = "accepted", !.cur = e]]
    /\ UNCHANGED <<bodies, sageErr, mapErr, mapped, sched, pollMsg,
                   docVars, settingVars, chain, stuck>>

ResolveErrors(p) ==
    /\ poller[p].pc = "accepted"
    /\ sageErr' = [sageErr EXCEPT ![poller[p].cur] = FALSE]
    /\ poller' = [poller EXCEPT ![p] = AfterPoll(p, poller[p].cur)]
    /\ UNCHANGED <<row, bodies, mapErr, mapped, sched, pollMsg,
                   docVars, settingVars, chain, stuck>>

\* The poll task ends early: no credentials, an exception from Sage, or the
\* worker dies. A message that was not acknowledged comes back.
PollAbort(p) ==
    /\ poller[p].pc # "idle"
    /\ poller' = [poller EXCEPT ![p] = IdlePoller]
    /\ pollMsg' \in {pollMsg, pollMsg \cup {poller[p].kind}}
    /\ UNCHANGED <<row, bodies, sageErr, mapErr, mapped, sched,
                   docVars, settingVars, chain, stuck>>
----------------------------------------------------------------------------
(***************************************************************************)
(* Beside the chains: recovery, settings, mappings, Sage                   *)
(***************************************************************************)

HeldByChain(e) == \E c \in Chains : chain[c].pc # "idle" /\ (e \in chain[c].todo \/ e = chain[c].cur)

\* Fault: only rows that never started are recovered.
StuckRows_EnqueuedOnly == {e \in Exports : row[e].status = "ENQUEUED"}

StuckRows == {e \in Exports : row[e].status \in {"ENQUEUED", "IN_PROGRESS"}}

\* re_export_stuck_exports reads the ids of rows that have not been updated for
\* 60 minutes. The tasks run inside the RabbitMQ worker, so the django-q queue
\* the function searches never holds them and removes nothing from the ids.
\* Without SlowChains a chain never holds a row for that long.
FindStuck ==
    /\ stuck = {}
    /\ stuck' \in SUBSET {e \in StuckRows : SlowChains \/ ~HeldByChain(e)} \ {{}}
    /\ UNCHANGED <<dbVars, docVars, settingVars, chain, poller>>

\* The update does not look at the status again.
ResetStuck ==
    /\ stuck # {}
    /\ row' = [e \in Exports |-> IF e \in stuck
                  THEN [row[e] EXCEPT !.status = "FAILED", !.reAttempt = TRUE]
                  ELSE row[e]]
    /\ stuck' = {}
    /\ UNCHANGED <<bodies, sageErr, mapErr, mapped, sched, pollMsg,
                   docVars, settingVars, chain, poller>>

Affected == {e \in Exports : /\ ~row[e].exportedAt
                             /\ row[e].status \in {"FAILED", "FATAL", "EXPORT_QUEUED"}}

\* clear_workspace_errors_on_export_type_change, in one transaction.
ChangeExportType ==
    /\ changes < MaxSettingChanges
    /\ changes' = changes + 1
    /\ setting' \in Kinds \ {setting}
    /\ sageErr' = [e \in Exports |-> sageErr[e] /\ e \notin Affected]
    /\ mapErr' = [e \in Exports |-> mapErr[e] /\ Affected = {}]
    /\ row' = [e \in Exports |-> IF e \in Affected
                  THEN [row[e] EXCEPT !.status = "EXPORT_READY", !.opId = None]
                  ELSE row[e]]
    /\ UNCHANGED <<bodies, mapped, sched, pollMsg, docVars, chain, poller, stuck>>

\* A CategoryMapping or EmployeeMapping is saved; its post_save signal resolves
\* the errors of the attribute.
AddMapping(e) ==
    /\ ~mapped[e]
    /\ mapped' = [mapped EXCEPT ![e] = TRUE]
    /\ mapErr' = [mapErr EXCEPT ![e] = FALSE]
    /\ UNCHANGED <<row, bodies, sageErr, sched, pollMsg,
                   docVars, settingVars, chain, poller, stuck>>

\* Sage finishes the operation of a document, one way or the other.
SageDecides(d) ==
    /\ docState[d] = "queued"
    /\ \E verdict \in {"accepted", "rejected"} :
         docState' = [docState EXCEPT ![d] = verdict]
    /\ UNCHANGED <<dbVars, docOwner, settingVars, chain, poller, stuck>>
----------------------------------------------------------------------------
ChainTask(c) ==
    \/ SelectIds(c) \/ LockAndEnqueue(c)
    \/ ReadExport(c) \/ SkipStarted(c) \/ MarkInProgress(c)
    \/ MappingMissing(c) \/ SageRefuses(c) \/ CredentialsMissing(c)
    \/ UnexpectedError(c) \/ PostDocument(c) \/ CommitExport(c)
    \/ CreateScheduleForPolling(c)

PollStep(p) ==
    \/ PollStart(p) \/ DeleteSchedule(p) \/ CleanRejected(p) \/ ResolveErrors(p)
    \/ \E e \in Exports : PollPending(p, e) \/ PollRejected(p, e) \/ PollAccepted(p, e)

SteadyNext ==
    \/ \E c \in Chains : TriggerExport(c) \/ ChainTask(c)
    \/ \E k \in Kinds : PollOperationStatus(k)
    \/ \E p \in Pollers : PollStep(p) \/ PollAbort(p)
    \/ FindStuck \/ ResetStuck \/ ChangeExportType
    \/ \E e \in Exports : AddMapping(e)
    \/ \E d \in Docs : SageDecides(d)

Next == SteadyNext \/ \E c \in Chains : ChainCrash(c)

Spec == Init /\ [][Next]_vars
----------------------------------------------------------------------------
(***************************************************************************)
(* Properties                                                              *)
(***************************************************************************)

TypeOK ==
    /\ row \in [Exports -> Row]
    /\ bodies \in [Exports -> SUBSET Kinds]
    /\ sageErr \in [Exports -> BOOLEAN]
    /\ mapErr \in [Exports -> BOOLEAN]
    /\ mapped \in [Exports -> BOOLEAN]
    /\ sched \in SUBSET Kinds
    /\ pollMsg \in SUBSET Kinds
    /\ setting \in Kinds
    /\ changes \in 0..MaxSettingChanges
    /\ chain \in [Chains -> ChainState]
    /\ poller \in [Pollers -> PollerState]
    /\ stuck \in SUBSET Exports
    /\ docState \in [Docs -> {"absent", "queued", "accepted", "rejected"}]
    /\ docOwner \in [Docs -> Exports \cup {None}]

\* Sage has document d, and d was posted for export e.
Sent(e, d) == d \in Docs /\ docOwner[d] = e /\ docState[d] # "absent"
Accepted(e, d) == d \in Docs /\ docOwner[d] = e /\ docState[d] = "accepted"

(* An export that waits in EXPORT_QUEUED names, in detail and in export_id,
   one document that Sage really has for it: the poller asks for detail's
   export_id and would fail on an empty detail. Whatever chains, pollers,
   recovery and settings changes overwrite each other's rows with. *)
QueuedHasDocument ==
    \A e \in Exports : row[e].status = "EXPORT_QUEUED" =>
        row[e].opId = row[e].exportId /\ Sent(e, row[e].exportId)

(* An export is COMPLETE only with exported_at set and only if the document
   its export_id names was accepted by Sage: no stale copy written by a chain
   or a poller makes a rejected or lost document look exported. *)
CompleteWasAccepted ==
    \A e \in Exports : row[e].status = "COMPLETE" =>
        row[e].exportedAt /\ Accepted(e, row[e].exportId)

(* exported_at, once set, is backed by some accepted document of the export:
   the row is excluded from every later export because of it. *)
ExportedAtIsBacked ==
    \A e \in Exports : row[e].exportedAt => \E d \in Docs : Accepted(e, d)

\* What makes a row, or a copy of it, sound for export e.
RowSound(e, r) ==
    /\ r.status = "EXPORT_QUEUED" => r.opId = r.exportId /\ Sent(e, r.exportId)
    /\ r.status = "COMPLETE" => r.exportedAt /\ Accepted(e, r.exportId)
    /\ r.exportedAt => \E d \in Docs : Accepted(e, d)

ChainSound(s) ==
    s.pc \in {"read", "started", "posted"} =>
        /\ s.cur \in Exports
        /\ RowSound(s.cur, s.copy)
        /\ s.pc = "posted" => Sent(s.cur, s.doc)

PollerSound(s) ==
    s.pc \in {"polling", "rejected", "accepted"} =>
        \A e \in s.todo : s.copies[e].status = "EXPORT_QUEUED" /\ RowSound(e, s.copies[e])

(* The inductive invariant behind the three: the copies that chains and pollers
   will write back are as sound as the rows, and stay so however long they are
   kept, because documents are only ever posted and decided. *)
Soundness ==
    /\ \A e \in Exports : RowSound(e, row[e])
    /\ \A c \in Chains : ChainSound(chain[c])
    /\ \A p \in Pollers : PollerSound(poller[p])

LiveDocs(e) == {d \in Docs : docOwner[d] = e /\ docState[d] \in {"queued", "accepted"}}

(* One document per export: posted only while no other is live, reported only
   while it is live, never reported back. Holds when one chain and one poller
   run at a time, no chain outlives the recovery timeout, none dies between
   Sage's answer and its commit, and the export type does not change. *)
Once == INSTANCE ExportOnce
            WITH live <- [e \in Exports |-> Cardinality(LiveDocs(e))],
                 reported <- {e \in Exports : row[e].status = "COMPLETE"}
ImplementsExportOnce == Once!Spec

(* A row that is to be exported again has no live document left in Sage. *)
RetryHasNoLiveDocument ==
    \A e \in Exports :
        row[e].status \in {"EXPORT_READY", "FAILED", "FATAL"} => LiveDocs(e) = {}

(* "If the status is already 'IN_PROGRESS' or 'COMPLETE', return without further
   processing": a COMPLETE export is not taken up again. *)
CompleteIsNotReprocessed ==
    [][\A e \in Exports : row[e].status = "COMPLETE" => row'[e].status # "IN_PROGRESS"]_vars

Settle(p, e) == PollRejected(p, e) \/ PollAccepted(p, e)

(* The workers keep running, a message is eventually handled, a poll does not
   fail every time, Sage finishes every operation and the recovery job looks
   at every row often enough. *)
Fairness ==
    /\ \A c \in Chains : WF_vars(ChainTask(c))
    /\ \A k \in Kinds : WF_vars(PollOperationStatus(k))
    /\ \A p \in Pollers : WF_vars(PollStep(p))
    /\ \A p \in Pollers, e \in Exports : SF_vars(Settle(p, e))
    /\ \A e \in Exports : WF_vars(FindStuck /\ e \in stuck')
    /\ WF_vars(ResetStuck)
    /\ \A d \in Docs : WF_vars(SageDecides(d))

FairSpec == Spec /\ Fairness

(* No export stays ENQUEUED or IN_PROGRESS for ever, wherever the worker that
   held it died. *)
StuckIsRecovered ==
    \A e \in Exports :
        row[e].status \in {"ENQUEUED", "IN_PROGRESS"} ~> row[e].status \notin {"ENQUEUED", "IN_PROGRESS"}

(* Every export that waits for Sage is settled in the end: "Polls the operation
   status for queued accounting exports and updates their status
   accordingly". *)
QueuedIsSettled ==
    \A e \in Exports : row[e].status = "EXPORT_QUEUED" ~> row[e].status # "EXPORT_QUEUED"

(* As long as no worker dies. *)
SteadySpec == Init /\ [][SteadyNext]_vars /\ Fairness

(* re_export_stuck_exports "Skips exports that are already in the queue": it
   never takes an export whose task a running chain still has before it. *)
RecoverySkipsQueuedExports ==
    \A e \in stuck, c \in Chains : e \notin chain[c].todo

(* clear_workspace_errors_on_export_type_change resets exports so that they "can
   be re-attempted with the new configuration": an export that is ready has no
   body row of the configured kind, which would hide it from ids_to_lock. *)
ReadyIsExportable ==
    \A e \in Exports : row[e].status = "EXPORT_READY" => setting \notin bodies[e]

(* An export that waits for Sage is settled as long as the polling schedule
   of its type exists. *)
PolledWhileScheduled ==
    \A e \in Exports :
        (row[e].status = "EXPORT_QUEUED" /\ row[e].type \in sched)
            ~> (row[e].status # "EXPORT_QUEUED" \/ row[e].type \notin sched)
=============================================================================
