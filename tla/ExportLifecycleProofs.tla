----------------------- MODULE ExportLifecycleProofs -----------------------
(***************************************************************************)
(* Machine-checked proofs about ExportLifecycle, for any number of exports *)
(* and documents: types and what rows claim of documents, for any number of*)
(* chains, pollers and settings changes; one live document per export, and *)
(* the refinement of ExportOnce, under the schedule the code intends       *)
(* (Serial).                                                               *)
(***************************************************************************)
EXTENDS ExportLifecycle, FiniteSetTheorems, TLAPS

(* The initial values of rows and local states are well typed. *)
LEMMA Defaults == NewRow \in Row /\ IdleChain \in ChainState /\ IdlePoller \in PollerState
<1>1. NewRow \in Row
  BY DEF NewRow, Row, Statuses, Kinds
<1>2. IdleChain \in ChainState
  BY <1>1 DEF IdleChain, ChainState, ChainPCs, Kinds
<1>3. IdlePoller \in PollerState
  BY <1>1 DEF IdlePoller, PollerState, PollerPCs, Kinds
<1>4. QED
  BY <1>1, <1>2, <1>3

(* AfterTask gives a well-typed local state. *)
LEMMA AfterTaskType ==
    ASSUME TypeOK, NEW c \in Chains, NEW e
    PROVE  AfterTask(c, e) \in ChainState
<1>1. chain[c] \in ChainState
  BY DEF TypeOK
<1>2. CASE e = chain[c].last
  <2>1. [IdleChain EXCEPT !.pc = "schedule", !.kind = chain[c].kind] \in ChainState
    BY <1>1, Defaults DEF ChainState, ChainPCs
  <2>2. QED
    BY <1>2, <2>1 DEF AfterTask
<1>3. CASE e # chain[c].last /\ chain[c].todo = {e}
  BY <1>3, Defaults DEF AfterTask
<1>4. CASE e # chain[c].last /\ chain[c].todo # {e}
  <2>1. [chain[c] EXCEPT !.pc = "running", !.todo = chain[c].todo \ {e}, !.cur = None,
                         !.copy = NewRow, !.doc = None] \in ChainState
    BY <1>1, Defaults DEF ChainState, ChainPCs
  <2>2. QED
    BY <1>4, <2>1 DEF AfterTask
<1>5. QED
  BY <1>2, <1>3, <1>4

(* AfterPoll gives a well-typed local state. *)
LEMMA AfterPollType ==
    ASSUME TypeOK, NEW p \in Pollers, NEW e
    PROVE  AfterPoll(p, e) \in PollerState
<1>1. poller[p] \in PollerState
  BY DEF TypeOK
<1>2. [poller[p].copies EXCEPT ![e] = NewRow] \in [Exports -> Row]
  BY <1>1, Defaults DEF PollerState
<1>3. [poller[p] EXCEPT !.pc = "polling", !.cur = None, !.todo = poller[p].todo \ {e},
                        !.copies = [poller[p].copies EXCEPT ![e] = NewRow]] \in PollerState
  BY <1>1, <1>2 DEF PollerState, PollerPCs
<1>4. QED
  BY <1>3, Defaults DEF AfterPoll

(* Rows, bodies, errors, schedules, settings and local states keep their types. *)
THEOREM TypeCorrect == Spec => []TypeOK
<1>1. Init => TypeOK
  BY BoundsAssumption, Defaults DEF Init, TypeOK
<1>2. TypeOK /\ [Next]_vars => TypeOK'
  <2> SUFFICES ASSUME TypeOK, [Next]_vars PROVE TypeOK'
    OBVIOUS
  <2>a. \A c \in Chains : chain[c] \in ChainState
    BY DEF TypeOK
  <2>b. \A p \in Pollers : poller[p] \in PollerState
    BY DEF TypeOK
  <2> USE DEF dbVars, docVars, settingVars
  <2>1. ASSUME NEW c \in Chains, TriggerExport(c) PROVE TypeOK'
    <3>1. [IdleChain EXCEPT !.pc = "configured", !.kind = setting] \in ChainState
      BY Defaults DEF TypeOK, ChainState, ChainPCs
    <3>2. QED
      BY <2>1, <3>1 DEF TriggerExport, TypeOK
  <2>2. ASSUME NEW c \in Chains, SelectIds(c) PROVE TypeOK'
    <3>1. ASSUME NEW auto \in BOOLEAN, NEW some \in SUBSET Exports
          PROVE  [chain[c] EXCEPT !.pc = "selected", !.auto = auto, !.todo = some] \in ChainState
      BY <2>a DEF ChainState, ChainPCs
    <3>2. \A auto \in BOOLEAN : IdsToLock(chain[c].kind, auto) \subseteq Exports
      BY DEF IdsToLock, Requested
    <3>3. PICK auto \in BOOLEAN :
            \/ chain' = [chain EXCEPT ![c] = IdleChain]
            \/ \E some \in SUBSET IdsToLock(chain[c].kind, auto) :
                 chain' = [chain EXCEPT ![c] = [chain[c] EXCEPT !.pc = "selected", !.auto = auto,
                                                               !.todo = some]]
      BY <2>2 DEF SelectIds
    <3>4. chain' \in [Chains -> ChainState]
      <4>1. CASE chain' = [chain EXCEPT ![c] = IdleChain]
        BY <4>1, Defaults DEF TypeOK
      <4>2. ASSUME NEW some \in SUBSET IdsToLock(chain[c].kind, auto),
                   chain' = [chain EXCEPT ![c] = [chain[c] EXCEPT !.pc = "selected", !.auto = auto,
                                                                 !.todo = some]]
            PROVE  chain' \in [Chains -> ChainState]
        <5>1. some \in SUBSET Exports
          BY <3>2
        <5>2. QED
          BY <4>2, <5>1, <3>1 DEF TypeOK
      <4>3. QED
        BY <3>3, <4>1, <4>2
    <3>5. UNCHANGED <<dbVars, docVars, settingVars, poller, stuck>>
      BY <2>2 DEF SelectIds
    <3>6. QED
      BY <3>4, <3>5 DEF TypeOK
  <2>3. ASSUME NEW c \in Chains, LockAndEnqueue(c) PROVE TypeOK'
    <3>1. ASSUME NEW r \in Row PROVE Enqueued(chain[c].kind, r) \in Row
      BY DEF Enqueued, Row, Statuses, Kinds
    <3>2. row' \in [Exports -> Row]
      <4>1. PICK kept : row' = [e \in Exports |-> IF e \in kept THEN Enqueued(chain[c].kind, row[e])
                                               ELSE row[e]]
        BY <2>3 DEF LockAndEnqueue
      <4>2. \A e \in Exports : row[e] \in Row
        BY DEF TypeOK
      <4>3. QED
        BY <4>1, <4>2, <3>1
    <3>3. ASSUME NEW kept \in SUBSET Exports, NEW last \in Exports \cup {None}
          PROVE  [chain[c] EXCEPT !.pc = "running", !.auto = FALSE, !.todo = kept, !.last = last]
                    \in ChainState
      BY <2>a DEF ChainState, ChainPCs
    <3>4. chain[c].todo \subseteq Exports
      BY <2>a DEF ChainState
    <3>5. \/ chain' = [chain EXCEPT ![c] = IdleChain]
          \/ \E kept \in SUBSET Exports, last \in Exports \cup {None} :
               chain' = [chain EXCEPT ![c] = [chain[c] EXCEPT !.pc = "running", !.auto = FALSE,
                                                             !.todo = kept, !.last = last]]
      <4>1. PICK skipped \in SkippedSets(c) :
              IF chain[c].todo \ skipped = {}
              THEN chain' = [chain EXCEPT ![c] = IdleChain]
              ELSE \E last \in (IF skipped = {} THEN chain[c].todo \ skipped
                                ELSE (chain[c].todo \ skipped) \cup {None}) :
                     chain' = [chain EXCEPT ![c] =
                        [chain[c] EXCEPT !.pc = "running", !.auto = FALSE,
                                         !.todo = chain[c].todo \ skipped, !.last = last]]
        BY <2>3, Zenon DEF LockAndEnqueue
      <4>2. chain[c].todo \ skipped \in SUBSET Exports
        BY <3>4
      <4>3. QED
        BY <4>1, <4>2
    <3>6. chain' \in [Chains -> ChainState]
      <4>1. chain \in [Chains -> ChainState]
        BY DEF TypeOK
      <4>2. ASSUME NEW kept \in SUBSET Exports, NEW last \in Exports \cup {None},
                   chain' = [chain EXCEPT ![c] = [chain[c] EXCEPT !.pc = "running", !.auto = FALSE,
                                                                 !.todo = kept, !.last = last]]
            PROVE  chain' \in [Chains -> ChainState]
        BY <4>1, <4>2, <3>3
      <4>3. CASE chain' = [chain EXCEPT ![c] = IdleChain]
        BY <4>1, <4>3, Defaults
      <4>4. QED
        BY <3>5, <4>2, <4>3
    <3>7. UNCHANGED <<bodies, sageErr, mapErr, mapped, sched, pollMsg,
                      docVars, settingVars, poller, stuck>>
      BY <2>3 DEF LockAndEnqueue
    <3>8. QED
      BY <3>2, <3>6, <3>7 DEF TypeOK
  <2>4. ASSUME NEW c \in Chains, ReadExport(c) PROVE TypeOK'
    <3>1. ASSUME NEW e \in Exports
          PROVE  [chain[c] EXCEPT !.pc = "read", !.cur = e, !.copy = row[e]] \in ChainState
      BY <2>a DEF ChainState, ChainPCs, TypeOK
    <3>2. QED
      BY <2>4, <3>1 DEF ReadExport, TypeOK
  <2>5. ASSUME NEW c \in Chains, SkipStarted(c) PROVE TypeOK'
    BY <2>5, AfterTaskType DEF SkipStarted, TypeOK
  <2>6. ASSUME NEW c \in Chains, MarkInProgress(c) PROVE TypeOK'
    <3>1. [chain[c] EXCEPT !.pc = "started"] \in ChainState
      BY <2>a DEF ChainState, ChainPCs
    <3>2. [chain[c].copy EXCEPT !.status = "IN_PROGRESS"] \in Row
      BY <2>a DEF ChainState, Row, Statuses
    <3>3. QED
      BY <2>6, <3>1, <3>2 DEF MarkInProgress, TypeOK
  <2>7. ASSUME NEW c \in Chains,
               MappingMissing(c) \/ SageRefuses(c) \/ CredentialsMissing(c) \/ UnexpectedError(c)
        PROVE  TypeOK'
    <3>1. AfterTask(c, chain[c].cur) \in ChainState
      BY AfterTaskType
    <3>2. [chain[c].copy EXCEPT !.status = "FAILED", !.opId = None, !.reAttempt = FALSE] \in Row
      BY <2>a DEF ChainState, Row, Statuses
    <3>3. [chain[c].copy EXCEPT !.status = "FATAL", !.opId = None] \in Row
      BY <2>a DEF ChainState, Row, Statuses
    <3>4. /\ row' \in [Exports -> Row]
          /\ chain' \in [Chains -> ChainState]
      BY <2>7, <3>1, <3>2, <3>3
         DEF MappingMissing, SageRefuses, CredentialsMissing, UnexpectedError, SaveFailure, TypeOK
    <3>5. /\ sageErr' \in [Exports -> BOOLEAN]
          /\ mapErr' \in [Exports -> BOOLEAN]
      BY <2>7 DEF MappingMissing, SageRefuses, CredentialsMissing, UnexpectedError, TypeOK
    <3>6. UNCHANGED <<bodies, mapped, sched, pollMsg, docVars, settingVars, poller, stuck>>
      BY <2>7 DEF MappingMissing, SageRefuses, CredentialsMissing, UnexpectedError, SaveFailure
    <3>7. QED
      BY <3>4, <3>5, <3>6 DEF TypeOK
  <2>8. ASSUME NEW c \in Chains, PostDocument(c) PROVE TypeOK'
    <3>1. ASSUME NEW d \in Docs
          PROVE  [chain[c] EXCEPT !.pc = "posted", !.doc = d] \in ChainState
      BY <2>a DEF ChainState, ChainPCs
    <3>2. chain[c].cur \in Exports \cup {None}
      BY <2>a DEF ChainState
    <3>3. QED
      BY <2>8, <3>1, <3>2 DEF PostDocument, TypeOK
  <2>9. ASSUME NEW c \in Chains, CommitExport(c) PROVE TypeOK'
    <3>1. AfterTask(c, chain[c].cur) \in ChainState
      BY AfterTaskType
    <3>2. [chain[c].copy EXCEPT !.status = "EXPORT_QUEUED", !.exportId = chain[c].doc,
                                !.opId = chain[c].doc] \in Row
      BY <2>a DEF ChainState, Row, Statuses
    <3>3. chain[c].kind \in Kinds
      BY <2>a DEF ChainState
    <3>4. QED
      BY <2>9, <3>1, <3>2, <3>3 DEF CommitExport, TypeOK
  <2>10. ASSUME NEW c \in Chains, CreateScheduleForPolling(c) \/ ChainCrash(c) PROVE TypeOK'
    <3>1. chain[c].kind \in Kinds
      BY <2>a DEF ChainState
    <3>2. QED
      BY <2>10, <3>1, Defaults DEF CreateScheduleForPolling, ChainCrash, TypeOK
  <2>11. ASSUME NEW k \in Kinds, PollOperationStatus(k) PROVE TypeOK'
    BY <2>11 DEF PollOperationStatus, TypeOK
  <2>12. ASSUME NEW p \in Pollers, PollStart(p) PROVE TypeOK'
    <3>1. ASSUME NEW k \in Kinds, NEW cs \in [Exports -> Row]
          PROVE  [IdlePoller EXCEPT !.pc = "polling", !.kind = k, !.todo = QueuedOf(k), !.copies = cs]
                    \in PollerState
      <4>1. QueuedOf(k) \in SUBSET Exports
        BY DEF QueuedOf
      <4>2. QED
        BY <4>1, Defaults DEF PollerState, PollerPCs
    <3>2. ASSUME NEW k \in Kinds
          PROVE  [IdlePoller EXCEPT !.pc = "unschedule", !.kind = k] \in PollerState
      BY Defaults DEF PollerState, PollerPCs
    <3>3. \A k : [e \in Exports |-> IF e \in QueuedOf(k) THEN row[e] ELSE NewRow] \in [Exports -> Row]
      BY Defaults DEF TypeOK
    <3>4. pollMsg \subseteq Kinds
      BY DEF TypeOK
    <3>5. PICK k \in Kinds :
            /\ pollMsg' = pollMsg \ {k}
            /\ \/ poller' = [poller EXCEPT ![p] =
                    [IdlePoller EXCEPT !.pc = "polling", !.kind = k, !.todo = QueuedOf(k),
                        !.copies = [e \in Exports |-> IF e \in QueuedOf(k) THEN row[e] ELSE NewRow]]]
               \/ poller' = [poller EXCEPT ![p] = [IdlePoller EXCEPT !.pc = "unschedule", !.kind = k]]
               \/ UNCHANGED poller
      BY <2>12, <3>4 DEF PollStart
    <3>6. poller' \in [Pollers -> PollerState]
      <4>1. poller \in [Pollers -> PollerState]
        BY DEF TypeOK
      <4>2. CASE poller' = [poller EXCEPT ![p] =
                    [IdlePoller EXCEPT !.pc = "polling", !.kind = k, !.todo = QueuedOf(k),
                        !.copies = [e \in Exports |-> IF e \in QueuedOf(k) THEN row[e] ELSE NewRow]]]
        <5>1. [IdlePoller EXCEPT !.pc = "polling", !.kind = k, !.todo = QueuedOf(k),
                  !.copies = [e \in Exports |-> IF e \in QueuedOf(k) THEN row[e] ELSE NewRow]]
                \in PollerState
          BY <3>1, <3>3
        <5>2. QED
          BY <4>1, <4>2, <5>1
      <4>3. QED
        BY <3>5, <3>2, <4>1, <4>2
    <3>7. UNCHANGED <<row, bodies, sageErr, mapErr, mapped, sched,
                      docVars, settingVars, chain, stuck>>
      BY <2>12 DEF PollStart
    <3>8. QED
      BY <3>4, <3>5, <3>6, <3>7 DEF TypeOK
  <2>13. ASSUME NEW p \in Pollers, DeleteSchedule(p) \/ PollAbort(p) PROVE TypeOK'
    <3>1. poller[p].kind \in Kinds
      BY <2>b DEF PollerState
    <3>2. QED
      BY <2>13, <3>1, Defaults DEF DeleteSchedule, PollAbort, TypeOK
  <2>14. ASSUME NEW p \in Pollers, NEW e \in Exports, PollPending(p, e) PROVE TypeOK'
    BY <2>14, AfterPollType DEF PollPending, TypeOK
  <2>15. ASSUME NEW p \in Pollers, NEW e \in Exports, PollRejected(p, e) \/ PollAccepted(p, e)
         PROVE  TypeOK'
    <3>1. /\ [poller[p].copies[e] EXCEPT !.status = "FAILED", !.reAttempt = FALSE] \in Row
          /\ [poller[p].copies[e] EXCEPT !.status = "COMPLETE", !.exportedAt = TRUE] \in Row
      <4>1. poller[p].copies[e] \in Row
        BY <2>b DEF PollerState
      <4>2. QED
        BY <4>1 DEF Row, Statuses
    <3>2. /\ [poller[p] EXCEPT !.pc = "rejected", !.cur = e] \in PollerState
          /\ [poller[p] EXCEPT !.pc = "accepted", !.cur = e] \in PollerState
      BY <2>b DEF PollerState, PollerPCs
    <3>3. QED
      BY <2>15, <3>1, <3>2 DEF PollRejected, PollAccepted, TypeOK
  <2>16. ASSUME NEW p \in Pollers, CleanRejected(p) \/ ResolveErrors(p) PROVE TypeOK'
    <3>1. AfterPoll(p, poller[p].cur) \in PollerState
      BY AfterPollType
    <3>2. QED
      <4>1. CASE CleanRejected(p)
        BY <4>1, <3>1 DEF CleanRejected, TypeOK
      <4>2. CASE ResolveErrors(p)
        BY <4>2, <3>1 DEF ResolveErrors, TypeOK
      <4>3. QED
        BY <2>16, <4>1, <4>2
  <2>17. ASSUME FindStuck \/ ResetStuck PROVE TypeOK'
    <3>1. ASSUME NEW r \in Row
          PROVE  [r EXCEPT !.status = "FAILED", !.reAttempt = TRUE] \in Row
      BY DEF Row, Statuses
    <3>2. CASE FindStuck
      <4>1. stuck' \in SUBSET Exports
        BY <3>2 DEF FindStuck, StuckRows
      <4>2. UNCHANGED <<dbVars, docVars, settingVars, chain, poller>>
        BY <3>2 DEF FindStuck
      <4>3. QED
        BY <4>1, <4>2 DEF TypeOK
    <3>3. CASE ResetStuck
      <4>1. row' = [e \in Exports |-> IF e \in stuck
                       THEN [row[e] EXCEPT !.status = "FAILED", !.reAttempt = TRUE] ELSE row[e]]
        BY <3>3 DEF ResetStuck
      <4>2. \A e \in Exports : row[e] \in Row
        BY DEF TypeOK
      <4>3. row' \in [Exports -> Row]
        BY <4>1, <4>2, <3>1
      <4>4. QED
        BY <3>3, <4>3 DEF ResetStuck, TypeOK
    <3>4. QED
      BY <2>17, <3>2, <3>3
  <2>18. ASSUME ChangeExportType PROVE TypeOK'
    <3>1. ASSUME NEW r \in Row
          PROVE  [r EXCEPT !.status = "EXPORT_READY", !.opId = None] \in Row
      BY DEF Row, Statuses
    <3>2. changes' \in 0..MaxSettingChanges
      <4>1. changes \in 0..MaxSettingChanges /\ changes < MaxSettingChanges /\ changes' = changes + 1
        BY <2>18 DEF ChangeExportType, TypeOK
      <4>2. QED
        BY <4>1, BoundsAssumption
    <3>3. row' \in [Exports -> Row]
      <4>1. row' = [e \in Exports |-> IF e \in Affected
                       THEN [row[e] EXCEPT !.status = "EXPORT_READY", !.opId = None] ELSE row[e]]
        BY <2>18 DEF ChangeExportType
      <4>2. \A e \in Exports : row[e] \in Row
        BY DEF TypeOK
      <4>3. QED
        BY <4>1, <4>2, <3>1
    <3>4. /\ sageErr' \in [Exports -> BOOLEAN]
          /\ mapErr' \in [Exports -> BOOLEAN]
          /\ setting' \in Kinds
      <4>1. sageErr' \in [Exports -> BOOLEAN]
        BY <2>18, Zenon DEF ChangeExportType
      <4>2. mapErr' \in [Exports -> BOOLEAN]
        BY <2>18, Zenon DEF ChangeExportType
      <4>3. QED
        BY <4>1, <4>2, <2>18 DEF ChangeExportType
    <3>5. UNCHANGED <<bodies, mapped, sched, pollMsg, docVars, chain, poller, stuck>>
      BY <2>18 DEF ChangeExportType
    <3>6. QED
      BY <3>2, <3>3, <3>4, <3>5 DEF TypeOK
  <2>19. ASSUME NEW e \in Exports, AddMapping(e) PROVE TypeOK'
    BY <2>19 DEF AddMapping, TypeOK
  <2>20. ASSUME NEW d \in Docs, SageDecides(d) PROVE TypeOK'
    BY <2>20 DEF SageDecides, TypeOK
  <2>21. CASE UNCHANGED vars
    BY <2>21 DEF vars, TypeOK
  <2>22. QED
    BY <2>1, <2>2, <2>3, <2>4, <2>5, <2>6, <2>7, <2>8, <2>9, <2>10, <2>11, <2>12, <2>13, <2>14,
       <2>15, <2>16, <2>17, <2>18, <2>19, <2>20, <2>21
       DEF Next, SteadyNext, ChainTask, PollStep
<1>3. QED
  BY <1>1, <1>2, PTL DEF Spec
----------------------------------------------------------------------------
(* Documents change in two actions only. *)
LEMMA DocSteps ==
    [Next]_vars =>
        \/ \E c \in Chains : PostDocument(c)
        \/ \E d \in Docs : SageDecides(d)
        \/ UNCHANGED docVars
BY DEF Next, SteadyNext, ChainTask, PollStep, vars, docVars, TriggerExport, SelectIds,
       LockAndEnqueue, ReadExport, SkipStarted, MarkInProgress, MappingMissing, SageRefuses,
       CredentialsMissing, UnexpectedError, SaveFailure, CommitExport,
       CreateScheduleForPolling, ChainCrash, PollOperationStatus, PollStart, DeleteSchedule,
       PollPending, PollRejected, CleanRejected, PollAccepted, ResolveErrors, PollAbort,
       FindStuck, ResetStuck, ChangeExportType, AddMapping

(* Documents are only posted and decided: what was sent stays sent, what was
   accepted stays accepted. *)
LEMMA DocsPersist ==
    TypeOK /\ [Next]_vars =>
        \A e, d : (Sent(e, d) => Sent(e, d)') /\ (Accepted(e, d) => Accepted(e, d)')
<1> USE DEF Sent, Accepted
<1> SUFFICES ASSUME TypeOK, [Next]_vars
             PROVE  \A e, d : (Sent(e, d) => Sent(e, d)') /\ (Accepted(e, d) => Accepted(e, d)')
  OBVIOUS
<1>1. ASSUME NEW c \in Chains, PostDocument(c)
      PROVE  \A e, d : (Sent(e, d) => Sent(e, d)') /\ (Accepted(e, d) => Accepted(e, d)')
  BY <1>1 DEF PostDocument, TypeOK
<1>2. ASSUME NEW d0 \in Docs, SageDecides(d0)
      PROVE  \A e, d : (Sent(e, d) => Sent(e, d)') /\ (Accepted(e, d) => Accepted(e, d)')
  BY <1>2 DEF SageDecides, TypeOK
<1>3. CASE UNCHANGED docVars
  BY <1>3 DEF docVars
<1>4. QED
  BY <1>1, <1>2, <1>3, DocSteps

(* So rows, chains and pollers that are sound stay so while documents move on. *)
LEMMA SoundPersists ==
    TypeOK /\ [Next]_vars =>
        /\ \A e, r : RowSound(e, r) => RowSound(e, r)'
        /\ \A s : ChainSound(s) => ChainSound(s)'
        /\ \A s : PollerSound(s) => PollerSound(s)'
<1> SUFFICES ASSUME TypeOK, [Next]_vars
             PROVE  /\ \A e, r : RowSound(e, r) => RowSound(e, r)'
                    /\ \A s : ChainSound(s) => ChainSound(s)'
                    /\ \A s : PollerSound(s) => PollerSound(s)'
  OBVIOUS
<1>1. \A e, d : (Sent(e, d) => Sent(e, d)') /\ (Accepted(e, d) => Accepted(e, d)')
  BY DocsPersist
<1>2. \A e, r : RowSound(e, r) => RowSound(e, r)'
  BY <1>1 DEF RowSound
<1>3. \A s : ChainSound(s) => ChainSound(s)'
  BY <1>1, <1>2 DEF ChainSound
<1>4. \A s : PollerSound(s) => PollerSound(s)'
  BY <1>2 DEF PollerSound
<1>5. QED
  BY <1>2, <1>3, <1>4

(* A chain that finished a task holds no copy. *)
LEMMA AfterTaskHoldsNothing ==
    ASSUME TypeOK, NEW c \in Chains, NEW e
    PROVE  AfterTask(c, e).pc \notin {"read", "started", "posted"}
<1>1. chain[c] \in ChainState
  BY DEF TypeOK
<1>2. QED
  BY <1>1 DEF AfterTask, IdleChain, ChainState

(* A poller that goes on to the next row keeps the copies of the rows left. *)
LEMMA AfterPollSound ==
    ASSUME TypeOK, NEW p \in Pollers, NEW e,
           poller[p].pc \in {"polling", "rejected", "accepted"}, PollerSound(poller[p])
    PROVE  PollerSound(AfterPoll(p, e))
<1>1. poller[p] \in PollerState
  BY DEF TypeOK
<1>2. CASE poller[p].todo = {e}
  BY <1>2 DEF AfterPoll, IdlePoller, PollerSound
<1>3. CASE poller[p].todo # {e}
  <2> DEFINE s == AfterPoll(p, e)
  <2>1. s.todo = poller[p].todo \ {e}
    BY <1>1, <1>3 DEF AfterPoll, PollerState
  <2>2. \A x \in s.todo : s.copies[x] = poller[p].copies[x]
    BY <1>1, <1>3, <2>1 DEF AfterPoll, PollerState
  <2>3. QED
    BY <2>1, <2>2 DEF PollerSound
<1>4. QED
  BY <1>2, <1>3

(* Rows and the copies that chains and pollers hold stay sound in every step. *)
THEOREM SoundnessInvariant == Spec => []Soundness
<1>1. Init => Soundness
  BY DEF Init, Soundness, RowSound, ChainSound, PollerSound, NewRow, IdleChain, IdlePoller
<1>2. TypeOK /\ Soundness /\ [Next]_vars => Soundness'
  <2> SUFFICES ASSUME TypeOK, Soundness, [Next]_vars PROVE Soundness'
    OBVIOUS
  <2>a. /\ \A e, r : RowSound(e, r) => RowSound(e, r)'
        /\ \A s : ChainSound(s) => ChainSound(s)'
        /\ \A s : PollerSound(s) => PollerSound(s)'
    BY SoundPersists
  <2>b. ASSUME NEW e0 \in Exports, NEW r, RowSound(e0, r)', row' = [row EXCEPT ![e0] = r]
        PROVE  \A e \in Exports : RowSound(e, row[e])'
    BY <2>a, <2>b DEF Soundness, TypeOK
  <2>c. ASSUME NEW c0 \in Chains, NEW s, ChainSound(s)', chain' = [chain EXCEPT ![c0] = s]
        PROVE  \A c \in Chains : ChainSound(chain[c])'
    BY <2>a, <2>c DEF Soundness, TypeOK
  <2>h. chain \in [Chains -> ChainState]
    BY DEF TypeOK
  <2>c0. ASSUME NEW c0 \in Chains, chain'[c0].pc \notin {"read", "started", "posted"},
                \A c \in Chains \ {c0} : chain'[c] = chain[c]
         PROVE  \A c \in Chains : ChainSound(chain[c])'
    <3>1. ChainSound(chain[c0])'
      BY <2>c0 DEF ChainSound
    <3>2. \A c \in Chains \ {c0} : ChainSound(chain[c])'
      BY <2>a, <2>c0 DEF Soundness
    <3>3. QED
      BY <3>1, <3>2
  <2>d. ASSUME NEW p0 \in Pollers, NEW s, PollerSound(s)', poller' = [poller EXCEPT ![p0] = s]
        PROVE  \A p \in Pollers : PollerSound(poller[p])'
    BY <2>a, <2>d DEF Soundness, TypeOK
  <2>e. row' = row => \A e \in Exports : RowSound(e, row[e])'
    BY <2>a DEF Soundness
  <2>f. chain' = chain => \A c \in Chains : ChainSound(chain[c])'
    BY <2>a DEF Soundness
  <2>g. poller' = poller => \A p \in Pollers : PollerSound(poller[p])'
    BY <2>a DEF Soundness
  <2>1. CASE UNCHANGED vars
    BY <2>1, <2>e, <2>f, <2>g DEF vars, dbVars, Soundness
  <2> USE DEF dbVars
  <2>2. ASSUME NEW c \in Chains, TriggerExport(c) \/ SkipStarted(c) \/ ChainCrash(c)
        PROVE  Soundness'
    <3>1. /\ chain'[c].pc \notin {"read", "started", "posted"}
          /\ \A c1 \in Chains \ {c} : chain'[c1] = chain[c1]
      <4>1. PICK s : \/ s.pc \in {"configured", "idle"} /\ chain' = [chain EXCEPT ![c] = s]
                     \/ \E e \in Exports : chain' = [chain EXCEPT ![c] = AfterTask(c, e)]
        BY <2>2 DEF TriggerExport, SkipStarted, ChainCrash, IdleChain
      <4>2. QED
        BY <4>1, <2>h, AfterTaskHoldsNothing
    <3>2. \A c1 \in Chains : ChainSound(chain[c1])'
      BY <3>1, <2>c0
    <3>3. row' = row /\ poller' = poller
      BY <2>2 DEF TriggerExport, SkipStarted, ChainCrash
    <3>4. QED
      BY <3>2, <3>3, <2>e, <2>g DEF Soundness
  <2>3. ASSUME NEW c \in Chains, SelectIds(c) PROVE Soundness'
    <3>1. chain[c] \in ChainState
      BY DEF TypeOK
    <3>2. /\ chain'[c].pc \in {"idle", "selected"}
          /\ \A c1 \in Chains \ {c} : chain'[c1] = chain[c1]
      <4>1. CASE chain' = [chain EXCEPT ![c] = IdleChain]
        BY <4>1, <2>h DEF IdleChain
      <4>2. ASSUME NEW auto, NEW some,
                   chain' = [chain EXCEPT ![c] = [chain[c] EXCEPT !.pc = "selected", !.auto = auto, !.todo = some]]
            PROVE  /\ chain'[c].pc = "selected"
                   /\ \A c1 \in Chains \ {c} : chain'[c1] = chain[c1]
        <5>1. [chain[c] EXCEPT !.pc = "selected", !.auto = auto, !.todo = some].pc = "selected"
          BY <3>1 DEF ChainState
        <5>2. QED
          BY <4>2, <5>1, <2>h
      <4>3. \/ chain' = [chain EXCEPT ![c] = IdleChain]
            \/ \E auto, some : chain' = [chain EXCEPT ![c] = [chain[c] EXCEPT !.pc = "selected", !.auto = auto, !.todo = some]]
        BY <2>3 DEF SelectIds
      <4>4. QED
        BY <4>1, <4>2, <4>3
    <3>3. \A c1 \in Chains : ChainSound(chain[c1])'
      BY <3>2, <2>c0
    <3>4. QED
      BY <2>3, <3>3, <2>e, <2>g DEF SelectIds, Soundness
  <2>4. ASSUME NEW c \in Chains, LockAndEnqueue(c) PROVE Soundness'
    <3>1. chain[c] \in ChainState
      BY DEF TypeOK
    <3>2. /\ chain'[c].pc \in {"idle", "running"}
          /\ \A c1 \in Chains \ {c} : chain'[c1] = chain[c1]
      <4>1. CASE chain' = [chain EXCEPT ![c] = IdleChain]
        BY <4>1, <2>h DEF IdleChain
      <4>2. ASSUME NEW todo, NEW last,
                   chain' = [chain EXCEPT ![c] = [chain[c] EXCEPT !.pc = "running", !.auto = FALSE, !.todo = todo, !.last = last]]
            PROVE  /\ chain'[c].pc = "running"
                   /\ \A c1 \in Chains \ {c} : chain'[c1] = chain[c1]
        <5>1. [chain[c] EXCEPT !.pc = "running", !.auto = FALSE, !.todo = todo, !.last = last].pc = "running"
          BY <3>1 DEF ChainState
        <5>2. QED
          BY <4>2, <5>1, <2>h
      <4>3. \/ chain' = [chain EXCEPT ![c] = IdleChain]
            \/ \E todo, last : chain' = [chain EXCEPT ![c] = [chain[c] EXCEPT !.pc = "running", !.auto = FALSE, !.todo = todo, !.last = last]]
        BY <2>4 DEF LockAndEnqueue
      <4>4. QED
        BY <4>1, <4>2, <4>3
    <3>3. \A c1 \in Chains : ChainSound(chain[c1])'
      BY <3>2, <2>c0
    <3>4. ASSUME NEW e \in Exports PROVE RowSound(e, row[e])'
      <4>1. row[e] \in Row /\ RowSound(e, row[e])
        BY DEF TypeOK, Soundness
      <4>2. row'[e] = row[e] \/ row'[e] = Enqueued(chain[c].kind, row[e])
        BY <2>4 DEF LockAndEnqueue
      <4>3. RowSound(e, Enqueued(chain[c].kind, row[e]))
        BY <4>1 DEF Enqueued, RowSound, Row
      <4>4. QED
        BY <2>a, <4>1, <4>2, <4>3
    <3>5. QED
      BY <2>4, <3>3, <3>4, <2>g DEF LockAndEnqueue, Soundness
  <2>5. ASSUME NEW c \in Chains, ReadExport(c) PROVE Soundness'
    <3>1. chain[c] \in ChainState
      BY DEF TypeOK
    <3>2. PICK e \in Exports :
            chain' = [chain EXCEPT ![c] = [chain[c] EXCEPT !.pc = "read", !.cur = e, !.copy = row[e]]]
      BY <2>5 DEF ReadExport
    <3>3. ChainSound([chain[c] EXCEPT !.pc = "read", !.cur = e, !.copy = row[e]])
      BY <3>1 DEF ChainSound, ChainState, Soundness
    <3>4. \A c1 \in Chains : ChainSound(chain[c1])'
      BY <3>2, <3>3, <2>a, <2>c
    <3>5. QED
      BY <2>5, <3>4, <2>e, <2>g DEF ReadExport, Soundness
  <2>6. ASSUME NEW c \in Chains, MarkInProgress(c) PROVE Soundness'
    <3>1. /\ chain[c] \in ChainState
          /\ chain[c].pc = "read"
          /\ ChainSound(chain[c])
      BY <2>6 DEF MarkInProgress, TypeOK, Soundness
    <3>2. ChainSound([chain[c] EXCEPT !.pc = "started"])
      BY <3>1 DEF ChainSound, ChainState
    <3>3. \A c1 \in Chains : ChainSound(chain[c1])'
      BY <2>6, <3>2, <2>a, <2>c DEF MarkInProgress
    <3>4. /\ chain[c].cur \in Exports
          /\ RowSound(chain[c].cur, [chain[c].copy EXCEPT !.status = "IN_PROGRESS"])
      BY <3>1 DEF ChainSound, RowSound, ChainState, Row
    <3>5. \A e \in Exports : RowSound(e, row[e])'
      BY <2>6, <3>4, <2>a, <2>b DEF MarkInProgress
    <3>6. QED
      BY <2>6, <3>3, <3>5, <2>g DEF MarkInProgress, Soundness
  <2>7. ASSUME NEW c \in Chains,
               MappingMissing(c) \/ SageRefuses(c) \/ CredentialsMissing(c) \/ UnexpectedError(c)
        PROVE  Soundness'
    <3>1. /\ chain[c] \in ChainState
          /\ chain[c].pc \in {"started", "posted"}
          /\ ChainSound(chain[c])
      BY <2>7 DEF MappingMissing, SageRefuses, CredentialsMissing, UnexpectedError, TypeOK, Soundness
    <3>2. PICK r \in {[chain[c].copy EXCEPT !.status = "FAILED", !.opId = None, !.reAttempt = FALSE],
                      [chain[c].copy EXCEPT !.status = "FATAL", !.opId = None]} :
            SaveFailure(c, r)
      BY <2>7 DEF MappingMissing, SageRefuses, CredentialsMissing, UnexpectedError
    <3>3. chain[c].cur \in Exports /\ RowSound(chain[c].cur, r)
      BY <3>1 DEF ChainSound, RowSound, ChainState, Row
    <3>4. \A e \in Exports : RowSound(e, row[e])'
      BY <3>2, <3>3, <2>a, <2>b DEF SaveFailure
    <3>5. /\ chain'[c].pc \notin {"read", "started", "posted"}
          /\ \A c1 \in Chains \ {c} : chain'[c1] = chain[c1]
      BY <3>2, AfterTaskHoldsNothing DEF SaveFailure, TypeOK
    <3>6. \A c1 \in Chains : ChainSound(chain[c1])'
      BY <3>5, <2>c0
    <3>7. QED
      BY <3>2, <3>4, <3>6, <2>g DEF SaveFailure, Soundness
  <2>8. ASSUME NEW c \in Chains, PostDocument(c) PROVE Soundness'
    <3>1. /\ chain[c] \in ChainState
          /\ chain[c].pc = "started"
          /\ ChainSound(chain[c])
      BY <2>8 DEF PostDocument, TypeOK, Soundness
    <3>2. PICK d \in Docs :
            /\ chain' = [chain EXCEPT ![c] = [chain[c] EXCEPT !.pc = "posted", !.doc = d]]
            /\ docState' = [docState EXCEPT ![d] = "queued"]
            /\ docOwner' = [docOwner EXCEPT ![d] = chain[c].cur]
      BY <2>8 DEF PostDocument
    <3>3. \A e \in Exports : e = chain[c].cur => Sent(e, d)'
      BY <3>2 DEF Sent, TypeOK
    <3>4. PICK e \in Exports, r \in Row :
            /\ e = chain[c].cur
            /\ r = chain[c].copy
            /\ RowSound(e, r)
      BY <3>1 DEF ChainSound, ChainState
    <3>5. ASSUME NEW s, s = [chain[c] EXCEPT !.pc = "posted", !.doc = d]
          PROVE  ChainSound(s)'
      <4>1. s.cur = e /\ s.copy = r /\ s.doc = d
        BY <3>5, <3>1, <3>4 DEF ChainState
      <4>2. RowSound(e, r)' /\ Sent(e, d)'
        BY <3>3, <3>4, <2>a
      <4>3. QED
        BY <4>1, <4>2 DEF ChainSound
    <3>6. \A c1 \in Chains : ChainSound(chain[c1])'
      BY <3>2, <3>5, <2>c
    <3>7. QED
      BY <2>8, <3>6, <2>e, <2>g DEF PostDocument, Soundness
  <2>9. ASSUME NEW c \in Chains, CommitExport(c) PROVE Soundness'
    <3>1. /\ chain[c] \in ChainState
          /\ chain[c].pc = "posted"
          /\ ChainSound(chain[c])
      BY <2>9 DEF CommitExport, TypeOK, Soundness
    <3>2. /\ chain[c].cur \in Exports
          /\ RowSound(chain[c].cur, [chain[c].copy EXCEPT !.status = "EXPORT_QUEUED",
                                                         !.exportId = chain[c].doc,
                                                         !.opId = chain[c].doc])
      BY <3>1 DEF ChainSound, RowSound, ChainState, Row
    <3>3. \A e \in Exports : RowSound(e, row[e])'
      BY <2>9, <3>2, <2>a, <2>b DEF CommitExport
    <3>4. /\ chain'[c].pc \notin {"read", "started", "posted"}
          /\ \A c1 \in Chains \ {c} : chain'[c1] = chain[c1]
      BY <2>9, <2>h, AfterTaskHoldsNothing DEF CommitExport
    <3>5. \A c1 \in Chains : ChainSound(chain[c1])'
      BY <3>4, <2>c0
    <3>6. QED
      BY <2>9, <3>3, <3>5, <2>g DEF CommitExport, Soundness
  <2>10. ASSUME NEW c \in Chains, CreateScheduleForPolling(c) PROVE Soundness'
    <3>1. /\ chain'[c].pc = "idle"
          /\ \A c1 \in Chains \ {c} : chain'[c1] = chain[c1]
      BY <2>10, <2>h DEF CreateScheduleForPolling, IdleChain
    <3>2. QED
      BY <2>10, <3>1, <2>c0, <2>e, <2>g DEF CreateScheduleForPolling, Soundness
  <2>11. ASSUME NEW p \in Pollers, PollStart(p) PROVE Soundness'
    <3>1. ASSUME NEW k, NEW s,
                 s = [IdlePoller EXCEPT !.pc = "polling", !.kind = k, !.todo = QueuedOf(k),
                        !.copies = [e \in Exports |-> IF e \in QueuedOf(k) THEN row[e] ELSE NewRow]]
          PROVE  PollerSound(s)
      <4>1. /\ s.todo = QueuedOf(k)
            /\ s.copies = [e \in Exports |-> IF e \in QueuedOf(k) THEN row[e] ELSE NewRow]
        BY <3>1 DEF IdlePoller
      <4>2. \A e \in QueuedOf(k) : e \in Exports /\ row[e].status = "EXPORT_QUEUED"
        BY DEF QueuedOf
      <4>3. QED
        BY <4>1, <4>2 DEF PollerSound, Soundness
    <3>2. ASSUME NEW k PROVE PollerSound([IdlePoller EXCEPT !.pc = "unschedule", !.kind = k])
      BY DEF PollerSound, IdlePoller
    <3>3. PICK k : \/ poller' = [poller EXCEPT ![p] =
                          [IdlePoller EXCEPT !.pc = "polling", !.kind = k, !.todo = QueuedOf(k),
                             !.copies = [e \in Exports |-> IF e \in QueuedOf(k) THEN row[e] ELSE NewRow]]]
                   \/ poller' = [poller EXCEPT ![p] = [IdlePoller EXCEPT !.pc = "unschedule", !.kind = k]]
                   \/ poller' = poller
      BY <2>11 DEF PollStart
    <3>4. PICK s : PollerSound(s) /\ (poller' = [poller EXCEPT ![p] = s] \/ poller' = poller)
      BY <3>1, <3>2, <3>3
    <3>5. \A q \in Pollers : PollerSound(poller[q])'
      BY <3>4, <2>a, <2>d, <2>g
    <3>6. QED
      BY <2>11, <3>5, <2>e, <2>f DEF PollStart, Soundness
  <2>12. ASSUME NEW p \in Pollers, DeleteSchedule(p) \/ PollAbort(p) PROVE Soundness'
    <3>1. PollerSound(IdlePoller)
      BY DEF PollerSound, IdlePoller
    <3>2. \A q \in Pollers : PollerSound(poller[q])'
      BY <2>12, <3>1, <2>a, <2>d DEF DeleteSchedule, PollAbort
    <3>3. QED
      BY <2>12, <3>2, <2>e, <2>f DEF DeleteSchedule, PollAbort, Soundness
  <2>13. ASSUME NEW p \in Pollers, NEW e,
                PollPending(p, e) \/ (CleanRejected(p) /\ e = poller[p].cur)
                                  \/ (ResolveErrors(p) /\ e = poller[p].cur)
         PROVE  Soundness'
    <3>1. PollerSound(poller[p]) /\ poller[p].pc \in {"polling", "rejected", "accepted"}
      BY <2>13 DEF Soundness, PollPending, CleanRejected, ResolveErrors
    <3>2. PollerSound(AfterPoll(p, e))
      BY <3>1, AfterPollSound
    <3>3. \A q \in Pollers : PollerSound(poller[q])'
      BY <2>13, <3>2, <2>a, <2>d DEF PollPending, CleanRejected, ResolveErrors
    <3>4. row' = row /\ chain' = chain
      BY <2>13 DEF PollPending, CleanRejected, ResolveErrors
    <3>5. QED
      BY <3>3, <3>4, <2>e, <2>f DEF Soundness
  <2>14. ASSUME NEW p \in Pollers, NEW e \in Exports, PollRejected(p, e) \/ PollAccepted(p, e)
         PROVE  Soundness'
    <3>1. /\ poller[p] \in PollerState
          /\ poller[p].pc = "polling"
          /\ e \in poller[p].todo
          /\ PollerSound(poller[p])
      BY <2>14 DEF PollRejected, PollAccepted, TypeOK, Soundness
    <3>2. PICK pc \in {"rejected", "accepted"} :
            poller' = [poller EXCEPT ![p] = [poller[p] EXCEPT !.pc = pc, !.cur = e]]
      BY <2>14 DEF PollRejected, PollAccepted
    <3>3. PollerSound([poller[p] EXCEPT !.pc = pc, !.cur = e])
      BY <3>1 DEF PollerSound, PollerState
    <3>4. \A q \in Pollers : PollerSound(poller[q])'
      BY <3>2, <3>3, <2>a, <2>d
    <3>5. PICK r : /\ r = poller[p].copies[e]
                   /\ r \in Row
                   /\ r.status = "EXPORT_QUEUED"
                   /\ RowSound(e, r)
      BY <3>1 DEF PollerSound, PollerState
    <3>6. PICK r1 : row' = [row EXCEPT ![e] = r1] /\ RowSound(e, r1)
      <4>1. CASE PollRejected(p, e)
        <5>1. RowSound(e, [r EXCEPT !.status = "FAILED", !.reAttempt = FALSE])
          BY <3>5 DEF RowSound, Row
        <5>2. QED
          BY <4>1, <5>1, <3>5 DEF PollRejected
      <4>2. CASE PollAccepted(p, e)
        <5>1. Accepted(e, r.exportId)
          BY <4>2, <3>5 DEF PollAccepted, RowSound, Sent, Accepted
        <5>2. r.exportId \in Docs
          BY <5>1 DEF Accepted
        <5>3. RowSound(e, [r EXCEPT !.status = "COMPLETE", !.exportedAt = TRUE])
          BY <3>5, <5>1, <5>2 DEF RowSound, Row
        <5>4. QED
          BY <4>2, <5>3, <3>5 DEF PollAccepted
      <4>3. QED
        BY <2>14, <4>1, <4>2
    <3>7. \A x \in Exports : RowSound(x, row[x])'
      BY <3>6, <2>a, <2>b
    <3>8. QED
      BY <2>14, <3>4, <3>7, <2>f DEF PollRejected, PollAccepted, Soundness
  <2>15. ASSUME ResetStuck \/ ChangeExportType PROVE Soundness'
    <3>1. ASSUME NEW e \in Exports PROVE RowSound(e, row[e])'
      <4>1. row[e] \in Row /\ RowSound(e, row[e])
        BY DEF TypeOK, Soundness
      <4>2. \/ row'[e] = row[e]
            \/ row'[e] = [row[e] EXCEPT !.status = "FAILED", !.reAttempt = TRUE]
            \/ row'[e] = [row[e] EXCEPT !.status = "EXPORT_READY", !.opId = None]
        BY <2>15 DEF ResetStuck, ChangeExportType
      <4>3. /\ RowSound(e, [row[e] EXCEPT !.status = "FAILED", !.reAttempt = TRUE])
            /\ RowSound(e, [row[e] EXCEPT !.status = "EXPORT_READY", !.opId = None])
        BY <4>1 DEF RowSound, Row
      <4>4. QED
        BY <4>1, <4>2, <4>3, <2>a
    <3>2. chain' = chain /\ poller' = poller
      BY <2>15 DEF ResetStuck, ChangeExportType
    <3>3. QED
      BY <3>1, <3>2, <2>f, <2>g DEF Soundness
  <2>16. ASSUME \/ \E k \in Kinds : PollOperationStatus(k)
                \/ FindStuck
                \/ \E e \in Exports : AddMapping(e)
                \/ \E d \in Docs : SageDecides(d)
         PROVE  Soundness'
    <3>1. row' = row /\ chain' = chain /\ poller' = poller
      BY <2>16 DEF PollOperationStatus, FindStuck, AddMapping, SageDecides
    <3>2. QED
      BY <3>1, <2>e, <2>f, <2>g DEF Soundness
  <2>17. QED
    BY <2>1, <2>2, <2>3, <2>4, <2>5, <2>6, <2>7, <2>8, <2>9, <2>10, <2>11, <2>12, <2>13, <2>14,
       <2>15, <2>16
       DEF Next, SteadyNext, ChainTask, PollStep
<1>3. QED
  BY <1>1, <1>2, TypeCorrect, PTL DEF Spec

(* An export in EXPORT_QUEUED always names one document that Sage has for it. *)
COROLLARY QueuedAlwaysHasDocument == Spec => []QueuedHasDocument
<1>1. Soundness => QueuedHasDocument
  BY DEF Soundness, RowSound, QueuedHasDocument
<1>2. QED
  BY <1>1, SoundnessInvariant, PTL

(* An export is COMPLETE only when its document was accepted. *)
COROLLARY CompleteAlwaysAccepted == Spec => []CompleteWasAccepted
<1>1. Soundness => CompleteWasAccepted
  BY DEF Soundness, RowSound, CompleteWasAccepted
<1>2. QED
  BY <1>1, SoundnessInvariant, PTL

(* exported_at is set only for an export with an accepted document. *)
COROLLARY ExportedAtAlwaysBacked == Spec => []ExportedAtIsBacked
<1>1. Soundness => ExportedAtIsBacked
  BY DEF Soundness, RowSound, ExportedAtIsBacked
<1>2. QED
  BY <1>1, SoundnessInvariant, PTL
----------------------------------------------------------------------------
(***************************************************************************)
(* One document per export, under the schedule the code intends: one chain *)
(* and one poller at a time, no chain that outlives the recovery timeout,  *)
(* none that dies between Sage's answer and its commit, and no change of   *)
(* the export type.                                                        *)
(***************************************************************************)
Serial ==
    /\ \A a, b \in Chains : a = b
    /\ \A a, b \in Pollers : a = b
    /\ MaxSettingChanges = 0
    /\ ~SlowChains
    /\ ~TornPosts

ToExport == {"EXPORT_READY", "FAILED", "FATAL"}
Working == {"read", "started", "posted"}

(* A chain alone decides the status of the rows it has before it. *)
ChainHolds(s) ==
    /\ s.pc \in {"idle", "configured", "schedule"} => s.todo = {}
    /\ s.pc = "selected" => \A e \in s.todo : row[e].status \in ToExport
    /\ s.pc = "running" => \A e \in s.todo : row[e].status = "ENQUEUED"
    /\ s.pc \in Working =>
         /\ s.cur \in s.todo
         /\ row[s.cur].status = IF s.pc = "read" THEN "ENQUEUED" ELSE "IN_PROGRESS"
         /\ \A e \in s.todo \ {s.cur} : row[e].status = "ENQUEUED"
    /\ s.pc \notin Working => s.cur = None

(* The copies of a poller that are still to be looked at equal the rows. *)
PollerHolds(s) ==
    /\ s.pc \in {"idle", "unschedule"} => s.todo = {}
    /\ \A e \in s.todo : (s.pc = "polling" \/ e # s.cur) => s.copies[e] = row[e]

(* What the recovery has read as stuck is in no chain and stays stuck. *)
StuckUntouched ==
    \A e \in stuck :
        /\ row[e].status \in {"ENQUEUED", "IN_PROGRESS"}
        /\ \A c \in Chains : e \notin chain[c].todo

(* A live document is the one its row names, or a chain is about to write its
   name. *)
LiveIsNamed(e) ==
    \A d \in LiveDocs(e) :
        \/ row[e].status \in {"EXPORT_QUEUED", "COMPLETE"} /\ d = row[e].exportId
        \/ /\ row[e].status = "IN_PROGRESS"
           /\ \E c \in Chains : chain[c].pc = "posted" /\ chain[c].cur = e /\ chain[c].doc = d

SerialInv ==
    /\ \A c \in Chains : ChainHolds(chain[c])
    /\ \A p \in Pollers : PollerHolds(poller[p])
    /\ StuckUntouched
    /\ \A e \in Exports : LiveIsNamed(e)

(* While no process looks at documents, their live ones stay the same. *)
LEMMA LiveDocsUnchanged ==
    UNCHANGED docVars => \A e : LiveDocs(e)' = LiveDocs(e)
BY DEF docVars, LiveDocs

(* A row that a poller has still to look at waits for Sage. *)
LEMMA PolledIsQueued ==
    ASSUME TypeOK, Soundness, SerialInv, NEW p \in Pollers, NEW e \in poller[p].todo,
           poller[p].pc = "polling" \/ e # poller[p].cur
    PROVE  /\ e \in Exports
           /\ row[e].status = "EXPORT_QUEUED"
           /\ poller[p].copies[e] = row[e]
<1>1. poller[p] \in PollerState /\ PollerSound(poller[p]) /\ PollerHolds(poller[p])
  BY DEF TypeOK, Soundness, SerialInv
<1>2. poller[p].pc \in {"polling", "rejected", "accepted"}
  BY <1>1 DEF PollerHolds, PollerState, PollerPCs
<1>3. QED
  BY <1>1, <1>2 DEF PollerSound, PollerHolds, PollerState

(* What a chain has before it does not wait for Sage, and is not done. *)
LEMMA ChainRows ==
    ASSUME TypeOK, SerialInv, NEW c \in Chains, NEW e \in chain[c].todo
    PROVE  /\ e \in Exports
           /\ row[e].status \notin {"EXPORT_QUEUED", "COMPLETE"}
           /\ e \notin stuck
<1>1. chain[c] \in ChainState /\ ChainHolds(chain[c])
  BY DEF TypeOK, SerialInv
<1>2. e \in Exports /\ e \notin stuck
  BY <1>1 DEF ChainState, SerialInv, StuckUntouched
<1>3. row[e].status \notin {"EXPORT_QUEUED", "COMPLETE"}
  BY <1>1 DEF ChainHolds, ChainState, ChainPCs, ToExport, Working
<1>4. QED
  BY <1>2, <1>3

(* Pollers are not disturbed by a step that leaves the rows that wait for Sage. *)
LEMMA PollersUndisturbed ==
    ASSUME TypeOK, Soundness, SerialInv, poller' = poller,
           \A e \in Exports : row[e].status = "EXPORT_QUEUED" => row'[e] = row[e]
    PROVE  \A p \in Pollers : PollerHolds(poller[p])'
<1> SUFFICES ASSUME NEW p \in Pollers PROVE PollerHolds(poller[p])'
  OBVIOUS
<1>1. PollerHolds(poller[p])
  BY DEF SerialInv
<1>2. ASSUME NEW e \in poller[p].todo, poller[p].pc = "polling" \/ e # poller[p].cur
      PROVE  poller[p].copies[e] = row'[e]
  BY <1>2, PolledIsQueued
<1>3. QED
  BY <1>1, <1>2 DEF PollerHolds

(* The recovery is not disturbed by a chain that takes up nothing new and writes
   only rows it has before it. *)
LEMMA StuckUndisturbed ==
    ASSUME TypeOK, SerialInv, stuck' = stuck, NEW c \in Chains,
           \A a, b \in Chains : a = b,
           chain'[c].todo \cap stuck = {},
           \A e \in Exports : row'[e].status = row[e].status \/ e \in chain[c].todo
    PROVE  StuckUntouched'
<1> SUFFICES ASSUME NEW e \in stuck
             PROVE  /\ row'[e].status \in {"ENQUEUED", "IN_PROGRESS"}
                    /\ \A b \in Chains : e \notin chain'[b].todo
  BY DEF StuckUntouched
<1>1. e \in Exports /\ row[e].status \in {"ENQUEUED", "IN_PROGRESS"} /\ e \notin chain[c].todo
  BY DEF TypeOK, SerialInv, StuckUntouched
<1>2. \A b \in Chains : e \notin chain'[b].todo
  OBVIOUS
<1>3. QED
  BY <1>1, <1>2

(* Live documents keep their names when no document changes, and the rows keep
   theirs, or leave no live document behind. *)
LEMMA LiveUndisturbed ==
    ASSUME TypeOK, SerialInv, UNCHANGED docVars,
           \A c \in Chains : chain[c].pc = "posted" => chain'[c] = chain[c],
           \A e \in Exports : \/ row'[e].status = row[e].status /\ row'[e].exportId = row[e].exportId
                              \/ LiveDocs(e) = {}
    PROVE  \A e \in Exports : LiveIsNamed(e)'
<1> SUFFICES ASSUME NEW e \in Exports PROVE LiveIsNamed(e)'
  OBVIOUS
<1>1. LiveIsNamed(e) /\ LiveDocs(e)' = LiveDocs(e)
  BY LiveDocsUnchanged DEF SerialInv
<1>2. CASE LiveDocs(e) = {}
  BY <1>1, <1>2 DEF LiveIsNamed
<1>3. CASE row'[e].status = row[e].status /\ row'[e].exportId = row[e].exportId
  BY <1>1, <1>3 DEF LiveIsNamed
<1>4. QED
  BY <1>2, <1>3

(* A row no chain is posting, which does not wait for Sage and is not done, has
   no live document. *)
LEMMA NoLiveDocument ==
    ASSUME SerialInv, NEW e \in Exports,
           row[e].status \notin {"EXPORT_QUEUED", "COMPLETE"},
           \/ row[e].status # "IN_PROGRESS"
           \/ \A c \in Chains : chain[c].pc # "posted" \/ chain[c].cur # e
    PROVE  LiveDocs(e) = {}
BY DEF SerialInv, LiveIsNamed

(* A chain that has finished with the row e keeps the others it has before it. *)
LEMMA AfterTaskHolds ==
    ASSUME TypeOK, NEW c \in Chains, NEW e, NEW s, s = AfterTask(c, e),
           \A x \in chain[c].todo \ {e} : row'[x].status = "ENQUEUED"
    PROVE  /\ ChainHolds(s)'
           /\ s.pc \notin Working
           /\ s.todo \subseteq chain[c].todo
<1>1. chain[c] \in ChainState
  BY DEF TypeOK
<1>2. CASE e = chain[c].last \/ chain[c].todo = {e}
  <2>1. s.pc \in {"idle", "schedule"} /\ s.todo = {} /\ s.cur = None
    BY <1>2 DEF AfterTask, IdleChain
  <2>2. QED
    BY <2>1 DEF ChainHolds, Working
<1>3. CASE e # chain[c].last /\ chain[c].todo # {e}
  <2>1. s = [chain[c] EXCEPT !.pc = "running", !.todo = chain[c].todo \ {e}, !.cur = None,
                             !.copy = NewRow, !.doc = None]
    BY <1>3 DEF AfterTask
  <2>2. s.pc = "running" /\ s.cur = None /\ s.todo = chain[c].todo \ {e}
    BY <1>1, <2>1 DEF ChainState
  <2>3. QED
    BY <2>2 DEF ChainHolds, Working
<1>4. QED
  BY <1>2, <1>3

(* What remains of SerialInv in a step of the only chain, once what it holds
   afterwards is known. *)
LEMMA ChainStep ==
    ASSUME TypeOK, Soundness, SerialInv, Serial, NEW c \in Chains, NEW s, ChainHolds(s)',
           chain' = [chain EXCEPT ![c] = s],
           s.todo \cap stuck = {},
           \A e \in Exports : row'[e] = row[e] \/ e \in chain[c].todo,
           poller' = poller, stuck' = stuck,
           \A e \in Exports : LiveIsNamed(e)'
    PROVE  SerialInv'
<1>1. \A b \in Chains : b = c /\ chain'[b] = s
  BY DEF TypeOK, Serial
<1>2. \A b \in Chains : ChainHolds(chain[b])'
  BY <1>1
<1>3. \A p \in Pollers : PollerHolds(poller[p])'
  <2>1. \A e \in Exports : row[e].status = "EXPORT_QUEUED" => row'[e] = row[e]
    BY ChainRows
  <2>2. QED
    BY <2>1, PollersUndisturbed
<1>4. StuckUntouched'
  <2>1. \A a, b \in Chains : a = b
    BY DEF Serial
  <2>2. chain'[c].todo \cap stuck = {}
    BY <1>1
  <2>3. \A e \in Exports : row'[e].status = row[e].status \/ e \in chain[c].todo
    OBVIOUS
  <2>4. QED
    BY <2>1, <2>2, <2>3, StuckUndisturbed
<1>5. QED
  BY <1>2, <1>3, <1>4 DEF SerialInv

(* The actions of a chain. *)
LEMMA SerialChainStep ==
    ASSUME TypeOK, Soundness, SerialInv, Serial, NEW c \in Chains,
           TriggerExport(c) \/ ChainTask(c) \/ ChainCrash(c)
    PROVE  SerialInv'
<1>h. /\ chain \in [Chains -> ChainState]
      /\ chain[c] \in ChainState
      /\ ChainHolds(chain[c])
      /\ \A b \in Chains : b = c
  BY DEF TypeOK, SerialInv, Serial
<1>r. row \in [Exports -> Row] /\ stuck \subseteq Exports
  BY DEF TypeOK
<1>n. chain[c].todo \cap stuck = {}
  BY ChainRows
<1>l. ASSUME UNCHANGED docVars, row' = row, chain[c].pc # "posted"
      PROVE  \A e \in Exports : LiveIsNamed(e)'
  <2>1. \A b \in Chains : chain[b].pc = "posted" => chain'[b] = chain[b]
    BY <1>l, <1>h
  <2>2. QED
    BY <1>l, <2>1, LiveUndisturbed
<1>1. CASE TriggerExport(c)
  <2> PICK s : s = [IdleChain EXCEPT !.pc = "configured", !.kind = setting]
    OBVIOUS
  <2>1. s.pc = "configured" /\ s.todo = {} /\ s.cur = None
    BY DEF IdleChain
  <2>2. /\ chain[c].pc = "idle"
        /\ chain' = [chain EXCEPT ![c] = s]
        /\ row' = row /\ poller' = poller /\ stuck' = stuck /\ UNCHANGED docVars
    BY <1>1 DEF TriggerExport, dbVars
  <2>3. ChainHolds(s)'
    BY <2>1 DEF ChainHolds, Working
  <2>4. QED
    BY <2>1, <2>2, <2>3, <1>l, ChainStep
<1>2. CASE SelectIds(c)
  <2>1. /\ chain[c].pc = "configured"
        /\ row' = row /\ poller' = poller /\ stuck' = stuck /\ UNCHANGED docVars
    BY <1>2 DEF SelectIds, dbVars
  <2>2. CASE chain' = [chain EXCEPT ![c] = IdleChain]
    <3>1. PICK s : s = IdleChain
      OBVIOUS
    <3>a. s.pc = "idle" /\ s.todo = {} /\ s.cur = None
      BY <3>1 DEF IdleChain
    <3>b. ChainHolds(s)'
      BY <3>a DEF ChainHolds, Working
    <3>2. QED
      BY <2>1, <2>2, <3>1, <3>a, <3>b, <1>l, ChainStep
  <2>3. ASSUME NEW auto \in BOOLEAN, NEW some \in SUBSET IdsToLock(chain[c].kind, auto),
               chain' = [chain EXCEPT ![c] = [chain[c] EXCEPT !.pc = "selected", !.auto = auto,
                                                              !.todo = some]]
        PROVE  SerialInv'
    <3> PICK s : s = [chain[c] EXCEPT !.pc = "selected", !.auto = auto, !.todo = some]
      OBVIOUS
    <3>1. s.pc = "selected" /\ s.todo = some /\ s.cur = None
      BY <1>h, <2>1 DEF ChainState, ChainHolds, Working
    <3>2. \A e \in some : e \in Exports /\ row[e].status \notin Busy
      BY DEF IdsToLock, Requested
    <3>3. \A e \in some : row[e].status \in ToExport
      BY <3>2, <1>r DEF Row, Statuses, Busy, ToExport
    <3>4. some \cap stuck = {}
      BY <3>2 DEF SerialInv, StuckUntouched, Busy
    <3>5. chain' = [chain EXCEPT ![c] = s]
      BY <2>3
    <3>6. ChainHolds(s)'
      BY <3>1, <3>3, <2>1 DEF ChainHolds, Working
    <3>7. QED
      BY <2>1, <3>1, <3>4, <3>5, <3>6, <1>l, ChainStep
  <2>4. \/ chain' = [chain EXCEPT ![c] = IdleChain]
        \/ \E auto \in BOOLEAN : \E some \in SUBSET IdsToLock(chain[c].kind, auto) :
             chain' = [chain EXCEPT ![c] = [chain[c] EXCEPT !.pc = "selected", !.auto = auto,
                                                            !.todo = some]]
    BY <1>2 DEF SelectIds
  <2>5. QED
    BY <2>2, <2>3, <2>4
<1>3. CASE LockAndEnqueue(c)
  <2>1. /\ chain[c].pc = "selected"
        /\ poller' = poller /\ stuck' = stuck /\ UNCHANGED docVars
        /\ \A e \in chain[c].todo : e \in Exports /\ row[e].status \in ToExport
    BY <1>3, <1>h DEF LockAndEnqueue, ChainHolds, ChainState
  <2>2. PICK skipped \in SkippedSets(c) :
          /\ row' = [e \in Exports |-> IF e \in chain[c].todo \ skipped
                                       THEN Enqueued(chain[c].kind, row[e]) ELSE row[e]]
          /\ \/ chain[c].todo \ skipped = {} /\ chain' = [chain EXCEPT ![c] = IdleChain]
             \/ \E last : chain' = [chain EXCEPT ![c] =
                    [chain[c] EXCEPT !.pc = "running", !.auto = FALSE,
                                     !.todo = chain[c].todo \ skipped, !.last = last]]
    BY <1>3 DEF LockAndEnqueue
  <2> DEFINE kept == chain[c].todo \ skipped
  <2>3. \A e \in Exports : row'[e] = row[e] \/ e \in chain[c].todo
    BY <2>2
  <2>4. \A e \in kept : row'[e].status = "ENQUEUED"
    <3>1. ASSUME NEW k, NEW r \in Row, r.status \in ToExport
          PROVE  Enqueued(k, r).status = "ENQUEUED"
      BY <3>1 DEF Enqueued, Row, ToExport
    <3>2. QED
      BY <2>1, <2>2, <3>1, <1>r
  <2>5. \A e \in Exports : LiveIsNamed(e)'
    <3>1. \A e \in chain[c].todo : LiveDocs(e) = {}
      BY <2>1, NoLiveDocument DEF ToExport
    <3>2. \A b \in Chains : chain[b].pc = "posted" => chain'[b] = chain[b]
      BY <2>1, <1>h
    <3>3. \A e \in Exports : \/ row'[e].status = row[e].status /\ row'[e].exportId = row[e].exportId
                             \/ LiveDocs(e) = {}
      BY <2>3, <3>1
    <3>4. QED
      BY <2>1, <3>2, <3>3, LiveUndisturbed
  <2>6. CASE chain' = [chain EXCEPT ![c] = IdleChain]
    <3>1. PICK s : s = IdleChain
      OBVIOUS
    <3>a. s.pc = "idle" /\ s.todo = {} /\ s.cur = None
      BY <3>1 DEF IdleChain
    <3>b. ChainHolds(s)'
      BY <3>a DEF ChainHolds, Working
    <3>2. QED
      BY <2>1, <2>3, <2>5, <2>6, <3>1, <3>a, <3>b, ChainStep
  <2>7. ASSUME NEW last,
               chain' = [chain EXCEPT ![c] = [chain[c] EXCEPT !.pc = "running", !.auto = FALSE,
                                                              !.todo = kept, !.last = last]]
        PROVE  SerialInv'
    <3> PICK s : s = [chain[c] EXCEPT !.pc = "running", !.auto = FALSE, !.todo = kept, !.last = last]
      OBVIOUS
    <3>1. s.pc = "running" /\ s.todo = kept /\ s.cur = None
      BY <1>h, <2>1 DEF ChainState, ChainHolds, Working
    <3>2. chain' = [chain EXCEPT ![c] = s]
      BY <2>7
    <3>3. ChainHolds(s)'
      BY <3>1, <2>4 DEF ChainHolds, Working
    <3>4. QED
      BY <2>1, <2>3, <2>5, <3>1, <3>2, <3>3, <1>n, ChainStep
  <2>8. QED
    BY <2>2, <2>6, <2>7
<1>4. CASE ReadExport(c)
  <2>1. /\ chain[c].pc = "running"
        /\ row' = row /\ poller' = poller /\ stuck' = stuck /\ UNCHANGED docVars
    BY <1>4 DEF ReadExport, NextTask, dbVars
  <2>2. PICK e \in chain[c].todo :
          chain' = [chain EXCEPT ![c] = [chain[c] EXCEPT !.pc = "read", !.cur = e, !.copy = row[e]]]
    BY <1>4 DEF ReadExport, NextTask
  <2> PICK s : s = [chain[c] EXCEPT !.pc = "read", !.cur = e, !.copy = row[e]]
    OBVIOUS
  <2>3. s.pc = "read" /\ s.cur = e /\ s.todo = chain[c].todo
    BY <1>h DEF ChainState
  <2>4. chain' = [chain EXCEPT ![c] = s]
    BY <2>2
  <2>5. ChainHolds(s)'
    BY <2>1, <2>3, <1>h DEF ChainHolds, Working
  <2>6. QED
    BY <2>1, <2>3, <2>4, <2>5, <1>l, <1>n, ChainStep
<1>5. CASE SkipStarted(c)
  <2>1. /\ chain[c].pc = "running"
        /\ row' = row /\ poller' = poller /\ stuck' = stuck /\ UNCHANGED docVars
    BY <1>5 DEF SkipStarted, NextTask, dbVars
  <2>2. PICK e \in Exports :
          /\ NextTask(c, e)
          /\ row[e].status \in {"IN_PROGRESS", "COMPLETE"}
    BY <1>5 DEF SkipStarted
  <2>3. row[e].status = "ENQUEUED"
    BY <2>2, <1>h DEF NextTask, ChainHolds
  <2>4. QED
    BY <2>2, <2>3
<1>6. CASE MarkInProgress(c)
  <2> DEFINE e == chain[c].cur
  <2> PICK s : s = [chain[c] EXCEPT !.pc = "started"]
    OBVIOUS
  <2>1. /\ chain[c].pc = "read"
        /\ e \in chain[c].todo /\ e \in Exports
        /\ row[e].status = "ENQUEUED"
        /\ chain[c].copy \in Row
    BY <1>6, <1>h, ChainRows DEF MarkInProgress, ChainHolds, Working, ChainState
  <2>2. /\ row' = [row EXCEPT ![e] = [chain[c].copy EXCEPT !.status = "IN_PROGRESS"]]
        /\ chain' = [chain EXCEPT ![c] = s]
        /\ poller' = poller /\ stuck' = stuck /\ UNCHANGED docVars
    BY <1>6 DEF MarkInProgress
  <2>3. row'[e].status = "IN_PROGRESS" /\ \A x \in Exports \ {e} : row'[x] = row[x]
    BY <2>1, <2>2, <1>r DEF Row
  <2>4. s.pc = "started" /\ s.cur = e /\ s.todo = chain[c].todo
    BY <1>h DEF ChainState
  <2>5. \A x \in Exports : LiveIsNamed(x)'
    <3>1. LiveDocs(e) = {}
      BY <2>1, NoLiveDocument
    <3>2. \A b \in Chains : chain[b].pc = "posted" => chain'[b] = chain[b]
      BY <2>1, <1>h
    <3>3. QED
      BY <2>2, <2>3, <3>1, <3>2, LiveUndisturbed
  <2>6. ChainHolds(s)'
    <3>1. \A x \in s.todo \ {e} : row'[x].status = "ENQUEUED"
      BY <2>1, <2>3, <2>4, <1>h DEF ChainHolds, Working, ChainState
    <3>2. QED
      BY <2>1, <2>3, <2>4, <3>1 DEF ChainHolds, Working
  <2>7. QED
    BY <2>1, <2>2, <2>3, <2>4, <2>5, <2>6, <1>n, ChainStep
<1>7. CASE MappingMissing(c) \/ SageRefuses(c) \/ CredentialsMissing(c) \/ UnexpectedError(c)
  <2> DEFINE e == chain[c].cur
  <2>1. /\ chain[c].pc = "started"
        /\ e \in chain[c].todo /\ e \in Exports
        /\ row[e].status = "IN_PROGRESS"
        /\ chain[c].copy \in Row
    <3>1. chain[c].pc = "started"
      BY <1>7 DEF MappingMissing, SageRefuses, CredentialsMissing, UnexpectedError, Serial
    <3>2. QED
      BY <3>1, <1>h, ChainRows DEF ChainHolds, Working, ChainState
  <2>2. PICK r : r.status \in ToExport /\ SaveFailure(c, r)
    <3>1. PICK r \in {[chain[c].copy EXCEPT !.status = "FAILED", !.opId = None, !.reAttempt = FALSE],
                      [chain[c].copy EXCEPT !.status = "FATAL", !.opId = None]} :
            SaveFailure(c, r)
      BY <1>7 DEF MappingMissing, SageRefuses, CredentialsMissing, UnexpectedError
    <3>2. r.status \in ToExport
      BY <2>1 DEF ToExport, Row
    <3>3. QED
      BY <3>1, <3>2
  <2>3. /\ row' = [row EXCEPT ![e] = r]
        /\ chain' = [chain EXCEPT ![c] = AfterTask(c, e)]
        /\ poller' = poller /\ stuck' = stuck /\ UNCHANGED docVars
    BY <2>2 DEF SaveFailure
  <2>4. \A x \in Exports \ {e} : row'[x] = row[x]
    BY <2>3, <1>r
  <2>5. \A x \in Exports : LiveIsNamed(x)'
    <3>1. LiveDocs(e) = {}
      BY <2>1, <1>h, NoLiveDocument
    <3>2. \A b \in Chains : chain[b].pc = "posted" => chain'[b] = chain[b]
      BY <2>1, <1>h
    <3>3. QED
      BY <2>3, <2>4, <3>1, <3>2, LiveUndisturbed
  <2>6. PICK s : s = AfterTask(c, e)
    OBVIOUS
  <2>7. ChainHolds(s)' /\ s.todo \subseteq chain[c].todo
    <3>1. \A x \in chain[c].todo \ {e} : row'[x].status = "ENQUEUED"
      BY <2>1, <2>4, <1>h DEF ChainHolds, Working, ChainState
    <3>2. QED
      BY <2>6, <3>1, AfterTaskHolds
  <2>8. QED
    BY <2>1, <2>3, <2>4, <2>5, <2>6, <2>7, <1>n, ChainStep
<1>8. CASE PostDocument(c)
  <2> DEFINE e == chain[c].cur
  <2>1. /\ chain[c].pc = "started"
        /\ e \in chain[c].todo /\ e \in Exports
        /\ row[e].status = "IN_PROGRESS"
        /\ row' = row /\ poller' = poller /\ stuck' = stuck
    BY <1>8, <1>h, ChainRows DEF PostDocument, ChainHolds, Working, ChainState, dbVars
  <2>2. PICK d \in Docs :
          /\ docState[d] = "absent"
          /\ docState' = [docState EXCEPT ![d] = "queued"]
          /\ docOwner' = [docOwner EXCEPT ![d] = e]
          /\ chain' = [chain EXCEPT ![c] = [chain[c] EXCEPT !.pc = "posted", !.doc = d]]
    BY <1>8 DEF PostDocument
  <2> PICK s : s = [chain[c] EXCEPT !.pc = "posted", !.doc = d]
    OBVIOUS
  <2>3. s.pc = "posted" /\ s.cur = e /\ s.doc = d /\ s.todo = chain[c].todo
    BY <1>h DEF ChainState
  <2>4. chain' = [chain EXCEPT ![c] = s]
    BY <2>2
  <2>5. ChainHolds(s)'
    BY <2>1, <2>3, <1>h DEF ChainHolds, Working
  <2>6. ASSUME NEW x \in Exports PROVE LiveIsNamed(x)'
    <3>1. LiveIsNamed(x) /\ LiveDocs(e) = {}
      BY <2>1, <1>h, NoLiveDocument DEF SerialInv
    <3>2. LiveDocs(x)' \subseteq LiveDocs(x) \cup (IF x = e THEN {d} ELSE {})
      BY <2>2 DEF LiveDocs, TypeOK
    <3>3. \A b \in Chains : chain[b].pc # "posted"
      BY <2>1, <1>h
    <3>4. \A y \in LiveDocs(x) :
            row'[x].status \in {"EXPORT_QUEUED", "COMPLETE"} /\ y = row'[x].exportId
      BY <2>1, <3>1, <3>3 DEF LiveIsNamed
    <3>5. chain'[c] = s
      BY <2>4, <1>h
    <3>6. QED
      BY <2>1, <2>3, <3>1, <3>2, <3>4, <3>5 DEF LiveIsNamed
  <2>7. QED
    BY <2>1, <2>3, <2>4, <2>5, <2>6, <1>n, ChainStep
<1>9. CASE CommitExport(c)
  <2> DEFINE e == chain[c].cur
             r == [chain[c].copy EXCEPT !.status = "EXPORT_QUEUED", !.exportId = chain[c].doc,
                                        !.opId = chain[c].doc]
  <2>1. /\ chain[c].pc = "posted"
        /\ e \in chain[c].todo /\ e \in Exports
        /\ row[e].status = "IN_PROGRESS"
        /\ chain[c].copy \in Row
    BY <1>9, <1>h, ChainRows DEF CommitExport, ChainHolds, Working, ChainState
  <2>2. /\ row' = [row EXCEPT ![e] = r]
        /\ chain' = [chain EXCEPT ![c] = AfterTask(c, e)]
        /\ poller' = poller /\ stuck' = stuck /\ UNCHANGED docVars
    BY <1>9 DEF CommitExport
  <2>3. r.status = "EXPORT_QUEUED" /\ r.exportId = chain[c].doc
    BY <2>1 DEF Row
  <2> HIDE DEF r
  <2>4. row'[e] = r /\ \A x \in Exports \ {e} : row'[x] = row[x]
    BY <2>1, <2>2, <1>r
  <2>5. ASSUME NEW x \in Exports PROVE LiveIsNamed(x)'
    <3>1. LiveIsNamed(x) /\ LiveDocs(x)' = LiveDocs(x)
      BY <2>2, LiveDocsUnchanged DEF SerialInv
    <3>2. CASE x = e
      BY <2>1, <2>3, <2>4, <3>1, <3>2, <1>h DEF LiveIsNamed
    <3>3. CASE x # e
      BY <2>4, <3>1, <3>3, <1>h DEF LiveIsNamed
    <3>4. QED
      BY <3>2, <3>3
  <2>6. PICK s : s = AfterTask(c, e)
    OBVIOUS
  <2>7. ChainHolds(s)' /\ s.todo \subseteq chain[c].todo
    <3>1. \A x \in chain[c].todo \ {e} : row'[x].status = "ENQUEUED"
      BY <2>1, <2>4, <1>h DEF ChainHolds, Working, ChainState
    <3>2. QED
      BY <2>6, <3>1, AfterTaskHolds
  <2>8. QED
    BY <2>1, <2>2, <2>4, <2>5, <2>6, <2>7, <1>n, ChainStep
<1>10. CASE CreateScheduleForPolling(c) \/ ChainCrash(c)
  <2>1. /\ chain[c].pc # "posted"
        /\ chain' = [chain EXCEPT ![c] = IdleChain]
        /\ row' = row /\ poller' = poller /\ stuck' = stuck /\ UNCHANGED docVars
    BY <1>10 DEF CreateScheduleForPolling, ChainCrash, dbVars, Serial
  <2>2. PICK s : s = IdleChain
    OBVIOUS
  <2>a. s.pc = "idle" /\ s.todo = {} /\ s.cur = None
    BY <2>2 DEF IdleChain
  <2>b. ChainHolds(s)'
    BY <2>a DEF ChainHolds, Working
  <2>3. QED
    BY <2>1, <2>2, <2>a, <2>b, <1>l, ChainStep
<1>11. QED
  BY <1>1, <1>2, <1>3, <1>4, <1>5, <1>6, <1>7, <1>8, <1>9, <1>10 DEF ChainTask

(* A poller that goes on to the next row keeps the copies of the rows left. *)
LEMMA AfterPollHolds ==
    ASSUME TypeOK, NEW p \in Pollers, NEW e, NEW s, s = AfterPoll(p, e), row' = row,
           PollerHolds(poller[p]), poller[p].pc = "polling" \/ e = poller[p].cur
    PROVE  PollerHolds(s)'
<1>1. poller[p] \in PollerState
  BY DEF TypeOK
<1>2. CASE poller[p].todo = {e}
  <2>1. s.todo = {}
    BY <1>2 DEF AfterPoll, IdlePoller
  <2>2. QED
    BY <2>1 DEF PollerHolds
<1>3. CASE poller[p].todo # {e}
  <2>1. /\ s.pc = "polling"
        /\ s.todo = poller[p].todo \ {e}
        /\ \A x \in s.todo : s.copies[x] = poller[p].copies[x]
    BY <1>1, <1>3 DEF AfterPoll, PollerState
  <2>2. QED
    BY <2>1 DEF PollerHolds
<1>4. QED
  BY <1>2, <1>3

(* What remains of SerialInv in a step of the only poller, once what it holds
   afterwards is known. *)
LEMMA PollerStep ==
    ASSUME TypeOK, Soundness, SerialInv, Serial, NEW p \in Pollers, NEW s, PollerHolds(s)',
           poller' = [poller EXCEPT ![p] = s], chain' = chain, stuck' = stuck,
           \A e \in Exports : row'[e] = row[e] \/ row[e].status = "EXPORT_QUEUED",
           \A e \in Exports : LiveIsNamed(e)'
    PROVE  SerialInv'
<1>1. \A q \in Pollers : q = p /\ poller'[q] = s
  BY DEF TypeOK, Serial
<1>2. \A q \in Pollers : PollerHolds(poller[q])'
  BY <1>1
<1>3. ASSUME NEW c \in Chains PROVE ChainHolds(chain[c])'
  <2>1. \A e \in chain[c].todo : row'[e] = row[e]
    BY ChainRows
  <2>2. ChainHolds(chain[c]) /\ chain[c] \in ChainState
    BY DEF SerialInv, TypeOK
  <2>3. QED
    BY <2>1, <2>2 DEF ChainHolds, Working
<1>4. StuckUntouched'
  BY DEF StuckUntouched, SerialInv, TypeOK
<1>5. QED
  BY <1>2, <1>3, <1>4 DEF SerialInv

(* The actions of a poller. *)
LEMMA SerialPollStep ==
    ASSUME TypeOK, Soundness, SerialInv, Serial, NEW p \in Pollers,
           PollStep(p) \/ PollAbort(p)
    PROVE  SerialInv'
<1>h. /\ poller \in [Pollers -> PollerState]
      /\ poller[p] \in PollerState
      /\ PollerHolds(poller[p])
      /\ PollerSound(poller[p])
      /\ row \in [Exports -> Row]
  BY DEF TypeOK, SerialInv, Soundness
<1>l. ASSUME UNCHANGED docVars, chain' = chain, row' = row
      PROVE  \A e \in Exports : LiveIsNamed(e)'
  BY <1>l, LiveUndisturbed
<1>i. ASSUME UNCHANGED docVars, row' = row, chain' = chain, stuck' = stuck,
             poller' = [poller EXCEPT ![p] = IdlePoller]
      PROVE  SerialInv'
  <2>1. PICK s : s = IdlePoller
    OBVIOUS
  <2>2. PollerHolds(s)'
    BY <2>1 DEF IdlePoller, PollerHolds
  <2>3. QED
    BY <1>i, <1>l, <2>1, <2>2, PollerStep
<1>1. CASE PollStart(p)
  <2>1. row' = row /\ chain' = chain /\ stuck' = stuck /\ UNCHANGED docVars
    BY <1>1 DEF PollStart
  <2>2. PICK k : \/ poller' = [poller EXCEPT ![p] =
                        [IdlePoller EXCEPT !.pc = "polling", !.kind = k, !.todo = QueuedOf(k),
                           !.copies = [e \in Exports |-> IF e \in QueuedOf(k) THEN row[e] ELSE NewRow]]]
                 \/ poller' = [poller EXCEPT ![p] = [IdlePoller EXCEPT !.pc = "unschedule", !.kind = k]]
                 \/ poller' = poller
    BY <1>1 DEF PollStart
  <2>3. PICK s1 : s1 = [IdlePoller EXCEPT !.pc = "polling", !.kind = k, !.todo = QueuedOf(k),
                           !.copies = [e \in Exports |-> IF e \in QueuedOf(k) THEN row[e] ELSE NewRow]]
    OBVIOUS
  <2>4. PollerHolds(s1)'
    <3>1. /\ s1.pc = "polling"
          /\ s1.todo = QueuedOf(k)
          /\ s1.copies = [e \in Exports |-> IF e \in QueuedOf(k) THEN row[e] ELSE NewRow]
      BY <2>3 DEF IdlePoller
    <3>2. QueuedOf(k) \subseteq Exports
      BY DEF QueuedOf
    <3>3. QED
      BY <2>1, <3>1, <3>2 DEF PollerHolds
  <2>5. PICK s2 : s2 = [IdlePoller EXCEPT !.pc = "unschedule", !.kind = k]
    OBVIOUS
  <2>6. PollerHolds(s2)'
    BY <2>5 DEF PollerHolds, IdlePoller
  <2>7. PICK s3 : s3 = poller[p]
    OBVIOUS
  <2>8. PollerHolds(s3)'
    BY <2>1, <2>7, <1>h DEF PollerHolds
  <2>9. poller' = poller => poller' = [poller EXCEPT ![p] = s3]
    BY <2>7, <1>h
  <2>10. QED
    BY <2>1, <2>2, <2>3, <2>4, <2>5, <2>6, <2>8, <2>9, <1>l, PollerStep
<1>2. CASE DeleteSchedule(p) \/ PollAbort(p)
  BY <1>2, <1>i DEF DeleteSchedule, PollAbort
<1>3. CASE \/ CleanRejected(p)
           \/ ResolveErrors(p)
           \/ \E e \in Exports : PollPending(p, e)
  <2>1. /\ row' = row /\ chain' = chain /\ stuck' = stuck /\ UNCHANGED docVars
        /\ \E e : /\ poller[p].pc = "polling" \/ e = poller[p].cur
                  /\ poller' = [poller EXCEPT ![p] = AfterPoll(p, e)]
    BY <1>3 DEF CleanRejected, ResolveErrors, PollPending, dbVars
  <2>2. PICK e : /\ poller[p].pc = "polling" \/ e = poller[p].cur
                 /\ poller' = [poller EXCEPT ![p] = AfterPoll(p, e)]
    BY <2>1
  <2>3. PICK s : s = AfterPoll(p, e)
    OBVIOUS
  <2>4. PollerHolds(s)'
    BY <2>1, <2>2, <2>3, <1>h, AfterPollHolds
  <2>5. QED
    BY <2>1, <2>2, <2>3, <2>4, <1>l, PollerStep
<1>4. ASSUME NEW e \in Exports, PollRejected(p, e) \/ PollAccepted(p, e)
      PROVE  SerialInv'
  <2> DEFINE copy == poller[p].copies[e]
  <2>1. /\ poller[p].pc = "polling"
        /\ e \in poller[p].todo
        /\ Completed(p, e)
        /\ chain' = chain /\ stuck' = stuck /\ UNCHANGED docVars
    BY <1>4 DEF PollRejected, PollAccepted
  <2>2. /\ copy = row[e] /\ copy.status = "EXPORT_QUEUED" /\ copy \in Row
        /\ copy.opId = copy.exportId /\ Sent(e, copy.exportId)
    BY <2>1, <1>h, PolledIsQueued DEF Soundness, RowSound
  <2>3. PICK pc \in {"rejected", "accepted"} :
          poller' = [poller EXCEPT ![p] = [poller[p] EXCEPT !.pc = pc, !.cur = e]]
    BY <1>4 DEF PollRejected, PollAccepted
  <2>4. PICK s : s = [poller[p] EXCEPT !.pc = pc, !.cur = e]
    OBVIOUS
  <2>5. PICK r : /\ row' = [row EXCEPT ![e] = r]
                 /\ r.exportId = copy.exportId
                 /\ \/ r.status = "COMPLETE"
                    \/ /\ r.status = "FAILED"
                       /\ docState[copy.exportId] # "accepted"
    <3>1. CASE PollRejected(p, e)
      <4>1. PICK r : r = [copy EXCEPT !.status = "FAILED", !.reAttempt = FALSE]
        OBVIOUS
      <4>2. r.exportId = copy.exportId /\ r.status = "FAILED"
        BY <2>2, <4>1 DEF Row
      <4>3. row' = [row EXCEPT ![e] = r] /\ docState[copy.exportId] # "accepted"
        BY <3>1, <4>1 DEF PollRejected
      <4>4. QED
        BY <4>2, <4>3
    <3>2. CASE PollAccepted(p, e)
      <4>1. PICK r : r = [copy EXCEPT !.status = "COMPLETE", !.exportedAt = TRUE]
        OBVIOUS
      <4>2. r.exportId = copy.exportId /\ r.status = "COMPLETE"
        BY <2>2, <4>1 DEF Row
      <4>3. row' = [row EXCEPT ![e] = r]
        BY <3>2, <4>1 DEF PollAccepted
      <4>4. QED
        BY <4>2, <4>3
    <3>3. QED
      BY <1>4, <3>1, <3>2
  <2>6. row'[e] = r /\ \A x \in Exports \ {e} : row'[x] = row[x]
    BY <2>5, <1>h
  <2>7. PollerHolds(s)'
    <3>1. s.cur = e /\ s.pc = pc /\ s.todo = poller[p].todo /\ s.copies = poller[p].copies
      BY <2>4, <1>h DEF PollerState
    <3>2. \A x \in s.todo \ {e} : s.copies[x] = row'[x]
      BY <2>1, <2>6, <3>1, <1>h DEF PollerHolds, PollerState
    <3>3. QED
      BY <2>3, <3>1, <3>2 DEF PollerHolds
  <2>8. ASSUME NEW x \in Exports PROVE LiveIsNamed(x)'
    <3>1. LiveIsNamed(x) /\ LiveDocs(x)' = LiveDocs(x)
      BY <2>1, LiveDocsUnchanged DEF SerialInv
    <3>2. CASE x # e
      BY <2>1, <2>6, <3>1, <3>2 DEF LiveIsNamed
    <3>3. CASE x = e /\ r.status = "COMPLETE"
      BY <2>2, <2>5, <2>6, <3>1, <3>3 DEF LiveIsNamed
    <3>4. CASE x = e /\ r.status = "FAILED"
      <4>1. docState[copy.exportId] = "rejected"
        BY <2>1, <2>2, <2>5, <3>4 DEF Completed
      <4>2. LiveDocs(e) = {}
        BY <2>2, <3>1, <3>4, <4>1 DEF LiveIsNamed, LiveDocs
      <4>3. QED
        BY <3>1, <3>4, <4>2 DEF LiveIsNamed
    <3>5. QED
      BY <2>5, <3>2, <3>3, <3>4
  <2>9. QED
    BY <2>1, <2>2, <2>3, <2>4, <2>6, <2>7, <2>8, PollerStep
<1>5. QED
  BY <1>1, <1>2, <1>3, <1>4 DEF PollStep

(* The recovery, the settings, the mappings and Sage. *)
LEMMA SerialOtherStep ==
    ASSUME TypeOK, Soundness, SerialInv, Serial,
           \/ \E k \in Kinds : PollOperationStatus(k)
           \/ FindStuck \/ ResetStuck \/ ChangeExportType
           \/ \E e \in Exports : AddMapping(e)
           \/ \E d \in Docs : SageDecides(d)
           \/ UNCHANGED vars
    PROVE  SerialInv'
<1>r. row \in [Exports -> Row] /\ stuck \subseteq Exports
  BY DEF TypeOK
<1>s. ASSUME row' = row, chain' = chain, poller' = poller
      PROVE  /\ \A c \in Chains : ChainHolds(chain[c])'
             /\ \A p \in Pollers : PollerHolds(poller[p])'
             /\ stuck' = stuck => StuckUntouched'
             /\ UNCHANGED docVars => \A e \in Exports : LiveIsNamed(e)'
  <2>1. \A c \in Chains : ChainHolds(chain[c])'
    BY <1>s DEF SerialInv, ChainHolds
  <2>2. \A p \in Pollers : PollerHolds(poller[p])'
    BY <1>s DEF SerialInv, PollerHolds
  <2>3. stuck' = stuck => StuckUntouched'
    BY <1>s DEF SerialInv, StuckUntouched
  <2>4. UNCHANGED docVars => \A e \in Exports : LiveIsNamed(e)'
    BY <1>s, LiveUndisturbed
  <2>5. QED
    BY <2>1, <2>2, <2>3, <2>4
<1>1. CASE \/ \E k \in Kinds : PollOperationStatus(k)
           \/ \E e \in Exports : AddMapping(e)
           \/ UNCHANGED vars
  BY <1>1, <1>s DEF PollOperationStatus, AddMapping, vars, dbVars, SerialInv
<1>2. CASE FindStuck
  <2>1. /\ row' = row /\ chain' = chain /\ poller' = poller /\ UNCHANGED docVars
        /\ stuck' \subseteq {e \in StuckRows : ~HeldByChain(e)}
    BY <1>2 DEF FindStuck, dbVars, Serial
  <2>2. ASSUME NEW c \in Chains, chain[c].pc = "idle" PROVE chain[c].todo = {}
    BY <2>2 DEF SerialInv, ChainHolds
  <2>3. StuckUntouched'
    BY <2>1, <2>2 DEF StuckUntouched, StuckRows, HeldByChain
  <2>4. QED
    BY <2>1, <2>3, <1>s DEF SerialInv
<1>3. CASE ResetStuck
  <2>1. /\ row' = [e \in Exports |-> IF e \in stuck
                      THEN [row[e] EXCEPT !.status = "FAILED", !.reAttempt = TRUE] ELSE row[e]]
        /\ stuck' = {} /\ chain' = chain /\ poller' = poller /\ UNCHANGED docVars
    BY <1>3 DEF ResetStuck
  <2>2. \A e \in stuck : /\ row[e].status \in {"ENQUEUED", "IN_PROGRESS"}
                         /\ \A c \in Chains : e \notin chain[c].todo
    BY DEF SerialInv, StuckUntouched
  <2>3. \A e \in Exports : row'[e] = row[e] \/ e \in stuck
    BY <2>1
  <2>4. ASSUME NEW c \in Chains PROVE ChainHolds(chain[c])'
    <3>1. chain[c] \in ChainState /\ ChainHolds(chain[c])
      BY DEF TypeOK, SerialInv
    <3>2. \A e \in chain[c].todo : row'[e] = row[e]
      BY <2>2, <2>3, <3>1 DEF ChainState
    <3>3. QED
      BY <2>1, <3>1, <3>2 DEF ChainHolds, Working
  <2>5. \A p \in Pollers : PollerHolds(poller[p])'
    <3>1. \A e \in Exports : row[e].status = "EXPORT_QUEUED" => row'[e] = row[e]
      BY <2>2, <2>3
    <3>2. QED
      BY <2>1, <3>1, PollersUndisturbed
  <2>6. \A e \in Exports : LiveIsNamed(e)'
    <3>1. ASSUME NEW e \in stuck PROVE LiveDocs(e) = {}
      <4>1. ASSUME NEW c \in Chains, chain[c].pc = "posted" PROVE chain[c].cur # e
        BY <2>2, <4>1 DEF SerialInv, ChainHolds, Working
      <4>2. QED
        BY <2>2, <4>1, <1>r, NoLiveDocument
    <3>2. \A e \in Exports : \/ row'[e].status = row[e].status /\ row'[e].exportId = row[e].exportId
                             \/ LiveDocs(e) = {}
      BY <2>3, <3>1
    <3>3. QED
      BY <2>1, <3>2, LiveUndisturbed
  <2>7. QED
    BY <2>1, <2>4, <2>5, <2>6 DEF SerialInv, StuckUntouched
<1>4. ASSUME NEW d \in Docs, SageDecides(d) PROVE SerialInv'
  <2>1. /\ row' = row /\ chain' = chain /\ poller' = poller /\ stuck' = stuck
        /\ docOwner' = docOwner
        /\ docState[d] = "queued"
        /\ \E v \in {"accepted", "rejected"} : docState' = [docState EXCEPT ![d] = v]
    BY <1>4 DEF SageDecides, dbVars
  <2>2. \A e : LiveDocs(e)' \subseteq LiveDocs(e)
    BY <2>1 DEF LiveDocs, TypeOK
  <2>3. \A e \in Exports : LiveIsNamed(e)'
    BY <2>1, <2>2 DEF SerialInv, LiveIsNamed
  <2>4. QED
    BY <2>1, <2>3, <1>s DEF SerialInv
<1>5. CASE ChangeExportType
  <2>1. changes < MaxSettingChanges /\ MaxSettingChanges = 0
    BY <1>5 DEF ChangeExportType, Serial
  <2>2. changes \in 0..MaxSettingChanges
    BY DEF TypeOK
  <2>3. QED
    BY <2>1, <2>2
<1>6. QED
  BY <1>1, <1>2, <1>3, <1>4, <1>5

(* The invariant of the serial schedule. *)
LEMMA SerialInvariant ==
    ASSUME Serial PROVE Spec => []SerialInv
<1>1. Init => SerialInv
  BY DEF Init, SerialInv, ChainHolds, PollerHolds, StuckUntouched, LiveIsNamed, LiveDocs,
         IdleChain, IdlePoller, Working
<1>2. TypeOK /\ Soundness /\ SerialInv /\ [Next]_vars => SerialInv'
  BY SerialChainStep, SerialPollStep, SerialOtherStep DEF Next, SteadyNext, PollStep
<1>3. QED
  BY <1>1, <1>2, TypeCorrect, SoundnessInvariant, PTL DEF Spec

(* An export that is to be exported again has no live document in Sage, however
   often chains, pollers and the recovery have taken it up before. *)
THEOREM RetryNeverHasLiveDocument ==
    ASSUME Serial PROVE Spec => []RetryHasNoLiveDocument
<1>1. SerialInv => RetryHasNoLiveDocument
  BY DEF SerialInv, LiveIsNamed, RetryHasNoLiveDocument
<1>2. QED
  BY <1>1, SerialInvariant, PTL

(* Only a poller that sees the document accepted makes an export COMPLETE, and
   nothing undoes it. *)
LEMMA CompleteByPollOnly ==
    ASSUME TypeOK, Soundness, SerialInv, Serial, [Next]_vars, NEW e \in Exports
    PROVE  \/ row'[e].status = "COMPLETE" <=> row[e].status = "COMPLETE"
           \/ \E p \in Pollers : PollAccepted(p, e)
<1>r. row \in [Exports -> Row]
  BY DEF TypeOK
<1>1. ASSUME NEW c \in Chains, TriggerExport(c) \/ ChainTask(c) \/ ChainCrash(c)
      PROVE  row'[e].status = "COMPLETE" <=> row[e].status = "COMPLETE"
  <2>h. chain[c] \in ChainState /\ ChainHolds(chain[c])
    BY DEF TypeOK, SerialInv
  <2>1. CASE \/ MarkInProgress(c) \/ MappingMissing(c) \/ SageRefuses(c)
             \/ CredentialsMissing(c) \/ UnexpectedError(c) \/ CommitExport(c)
    <3>1. chain[c].pc \in Working /\ chain[c].copy \in Row
      BY <2>1, <2>h DEF MarkInProgress, MappingMissing, SageRefuses, CredentialsMissing,
                        UnexpectedError, CommitExport, Working, ChainState
    <3>2. /\ chain[c].cur \in Exports
          /\ row[chain[c].cur].status # "COMPLETE"
      BY <3>1, <2>h, ChainRows DEF ChainHolds
    <3>3. PICK r \in {[chain[c].copy EXCEPT !.status = "IN_PROGRESS"],
                      [chain[c].copy EXCEPT !.status = "FAILED", !.opId = None, !.reAttempt = FALSE],
                      [chain[c].copy EXCEPT !.status = "FATAL", !.opId = None],
                      [chain[c].copy EXCEPT !.status = "EXPORT_QUEUED", !.exportId = chain[c].doc,
                                            !.opId = chain[c].doc]} :
            row' = [row EXCEPT ![chain[c].cur] = r]
      BY <2>1 DEF MarkInProgress, MappingMissing, SageRefuses, CredentialsMissing,
                  UnexpectedError, SaveFailure, CommitExport
    <3>4. r.status # "COMPLETE"
      BY <3>1, <3>3 DEF Row
    <3>5. QED
      BY <3>2, <3>3, <3>4, <1>r
  <2>2. CASE LockAndEnqueue(c)
    <3>1. \A x \in chain[c].todo : row[x].status # "COMPLETE"
      BY ChainRows
    <3>2. ASSUME NEW k, NEW r \in Row, r.status # "COMPLETE"
          PROVE  Enqueued(k, r).status # "COMPLETE"
      BY <3>2 DEF Enqueued, Row
    <3>3. \/ row'[e] = row[e]
          \/ e \in chain[c].todo /\ row'[e] = Enqueued(chain[c].kind, row[e])
      BY <2>2 DEF LockAndEnqueue
    <3>4. QED
      BY <3>1, <3>2, <3>3, <1>r
  <2>3. CASE \/ TriggerExport(c) \/ SelectIds(c) \/ ReadExport(c) \/ SkipStarted(c)
             \/ PostDocument(c) \/ CreateScheduleForPolling(c) \/ ChainCrash(c)
    BY <2>3 DEF TriggerExport, SelectIds, ReadExport, SkipStarted, PostDocument,
                CreateScheduleForPolling, ChainCrash, dbVars
  <2>4. QED
    BY <1>1, <2>1, <2>2, <2>3 DEF ChainTask
<1>2. ASSUME NEW p \in Pollers, NEW x \in Exports, PollRejected(p, x)
      PROVE  row'[e].status = "COMPLETE" <=> row[e].status = "COMPLETE"
  <2>1. /\ row[x].status = "EXPORT_QUEUED"
        /\ row' = [row EXCEPT ![x] = [row[x] EXCEPT !.status = "FAILED", !.reAttempt = FALSE]]
    BY <1>2, PolledIsQueued DEF PollRejected
  <2>2. QED
    BY <2>1, <1>r DEF Row
<1>3. ASSUME NEW p \in Pollers, NEW x \in Exports, PollAccepted(p, x)
      PROVE  \/ row'[e].status = "COMPLETE" <=> row[e].status = "COMPLETE"
             \/ PollAccepted(p, e)
  BY <1>3, <1>r DEF PollAccepted
<1>4. CASE ResetStuck
  <2>1. \A x \in stuck : row[x].status # "COMPLETE"
    BY DEF SerialInv, StuckUntouched
  <2>2. \/ row'[e] = row[e]
        \/ e \in stuck /\ row'[e] = [row[e] EXCEPT !.status = "FAILED", !.reAttempt = TRUE]
    BY <1>4 DEF ResetStuck
  <2>3. QED
    BY <2>1, <2>2, <1>r DEF Row
<1>5. CASE ChangeExportType
  <2>1. changes < MaxSettingChanges /\ MaxSettingChanges = 0
    BY <1>5 DEF ChangeExportType, Serial
  <2>2. changes \in 0..MaxSettingChanges
    BY DEF TypeOK
  <2>3. QED
    BY <2>1, <2>2
<1>6. CASE \/ \E k \in Kinds : PollOperationStatus(k)
           \/ \E p \in Pollers : \/ PollStart(p) \/ DeleteSchedule(p) \/ PollAbort(p)
                                 \/ CleanRejected(p) \/ ResolveErrors(p)
                                 \/ \E x \in Exports : PollPending(p, x)
           \/ FindStuck
           \/ \E x \in Exports : AddMapping(x)
           \/ \E d \in Docs : SageDecides(d)
           \/ UNCHANGED vars
  BY <1>6 DEF PollOperationStatus, PollStart, DeleteSchedule, PollAbort, CleanRejected,
              ResolveErrors, PollPending, FindStuck, AddMapping, SageDecides, vars, dbVars
<1>7. QED
  BY <1>1, <1>2, <1>3, <1>4, <1>5, <1>6 DEF Next, SteadyNext, PollStep

(* An export has at most one live document. *)
LEMMA OneLiveDocument ==
    ASSUME SerialInv, Serial, NEW e \in Exports, NEW d \in LiveDocs(e)
    PROVE  LiveDocs(e) = {d}
BY DEF SerialInv, LiveIsNamed, Serial

(* The state ExportOnce speaks of. *)
LiveCount == [e \in Exports |-> Cardinality(LiveDocs(e))]
Reported == {e \in Exports : row[e].status = "COMPLETE"}

(* An export without a live document counts none, one with a single one counts it. *)
LEMMA CountOne ==
    ASSUME NEW e \in Exports, NEW d
    PROVE  /\ LiveDocs(e) = {} => LiveCount[e] = 0
           /\ LiveDocs(e) = {d} => LiveCount[e] = 1
           /\ LiveDocs(e)' = {} => LiveCount'[e] = 0
           /\ LiveDocs(e)' = {d} => LiveCount'[e] = 1
BY FS_EmptySet, FS_Singleton DEF LiveCount

(* The count changes for no other export. *)
LEMMA CountElsewhere ==
    ASSUME NEW e \in Exports, NEW n, LiveCount'[e] = n,
           \A x \in Exports \ {e} : LiveDocs(x)' = LiveDocs(x)
    PROVE  LiveCount' = [LiveCount EXCEPT ![e] = n]
BY DEF LiveCount

(* Every step of the lifecycle posts, turns down or reports as ExportOnce allows,
   or changes nothing that ExportOnce sees. *)
LEMMA OnceStep ==
    ASSUME TypeOK, Soundness, SerialInv, Serial, [Next]_vars
    PROVE  [Once!Next]_<<LiveCount, Reported>>
<1>1. ASSUME NEW c \in Chains, PostDocument(c) PROVE Once!Next
  <2>1. PICK e \in Exports :
          /\ e = chain[c].cur
          /\ chain[c].pc = "started"
          /\ row[e].status = "IN_PROGRESS"
          /\ row' = row
    <3>1. chain[c].pc = "started" /\ row' = row
      BY <1>1 DEF PostDocument, dbVars
    <3>2. ChainHolds(chain[c]) /\ chain[c] \in ChainState
      BY DEF SerialInv, TypeOK
    <3>3. QED
      BY <3>1, <3>2 DEF ChainHolds, Working, ChainState
  <2>2. PICK d \in Docs :
          /\ docState[d] = "absent"
          /\ docState' = [docState EXCEPT ![d] = "queued"]
          /\ docOwner' = [docOwner EXCEPT ![d] = e]
    BY <1>1, <2>1 DEF PostDocument
  <2>3. LiveDocs(e) = {}
    BY <2>1, NoLiveDocument DEF Serial
  <2>4. /\ LiveDocs(e)' = {d}
        /\ \A x \in Exports \ {e} : LiveDocs(x)' = LiveDocs(x)
    <3>1. docState \in [Docs -> {"absent", "queued", "accepted", "rejected"}]
          /\ docOwner \in [Docs -> Exports \cup {None}]
      BY DEF TypeOK
    <3>2. \A y \in Docs \ {d} : docState'[y] = docState[y] /\ docOwner'[y] = docOwner[y]
      BY <2>2, <3>1
    <3>3. docState'[d] = "queued" /\ docOwner'[d] = e
      BY <2>2, <3>1
    <3>4. LiveDocs(e)' = {d}
      BY <2>3, <3>2, <3>3 DEF LiveDocs
    <3>5. ASSUME NEW x \in Exports \ {e} PROVE LiveDocs(x)' = LiveDocs(x)
      BY <2>2, <3>2, <3>3 DEF LiveDocs
    <3>6. QED
      BY <3>4, <3>5
  <2>5. LiveCount[e] = 0 /\ LiveCount' = [LiveCount EXCEPT ![e] = 1]
    BY <2>1, <2>3, <2>4, CountOne, CountElsewhere
  <2>6. e \notin Reported /\ Reported' = Reported
    BY <2>1 DEF Reported
  <2>7. Once!Post(e)
    BY <2>5, <2>6 DEF Once!Post, LiveCount, Reported
  <2>8. QED
    BY <2>1, <2>7 DEF Once!Next
<1>2. ASSUME NEW d \in Docs, SageDecides(d) PROVE [Once!Next]_<<LiveCount, Reported>>
  <2>1. /\ row' = row /\ docOwner' = docOwner
        /\ docState[d] = "queued"
    BY <1>2 DEF SageDecides, dbVars
  <2>2. PICK v \in {"accepted", "rejected"} : docState' = [docState EXCEPT ![d] = v]
    BY <1>2 DEF SageDecides
  <2>3. Reported' = Reported
    BY <2>1 DEF Reported
  <2>4. CASE v = "accepted" \/ docOwner[d] \notin Exports
    <3>1. \A x \in Exports : LiveDocs(x)' = LiveDocs(x)
      BY <2>1, <2>2, <2>4 DEF LiveDocs, TypeOK
    <3>2. LiveCount' = LiveCount
      BY <3>1 DEF LiveCount
    <3>3. QED
      BY <2>3, <3>2
  <2>5. CASE v = "rejected" /\ docOwner[d] \in Exports
    <3>0. PICK e \in Exports : e = docOwner[d]
      BY <2>5
    <3>1. LiveDocs(e) = {d}
      BY <2>1, <3>0, OneLiveDocument DEF LiveDocs
    <3>2. LiveDocs(e)' = {} /\ \A x \in Exports \ {e} : LiveDocs(x)' = LiveDocs(x)
      BY <2>1, <2>2, <2>5, <3>0, <3>1 DEF LiveDocs, TypeOK
    <3>3. LiveCount[e] = 1 /\ LiveCount' = [LiveCount EXCEPT ![e] = 0]
      BY <2>5, <3>1, <3>2, CountOne, CountElsewhere
    <3>4. e \notin Reported
      <4>1. SUFFICES ASSUME row[e].status = "COMPLETE" PROVE FALSE
        BY DEF Reported
      <4>2. d = row[e].exportId
        BY <2>5, <3>1, <4>1 DEF SerialInv, LiveIsNamed
      <4>3. docState[d] = "accepted"
        BY <2>5, <4>1, <4>2 DEF Soundness, RowSound, Accepted
      <4>4. QED
        BY <2>1, <4>3
    <3>5. Once!TurnDown(e)
      BY <2>3, <3>3, <3>4 DEF Once!TurnDown, LiveCount, Reported
    <3>6. QED
      BY <2>5, <3>5 DEF Once!Next
  <2>6. QED
    BY <2>4, <2>5
<1>3. CASE UNCHANGED docVars
  <2>1. LiveCount' = LiveCount
    BY <1>3, LiveDocsUnchanged DEF LiveCount
  <2>2. CASE \A e \in Exports : row'[e].status = "COMPLETE" <=> row[e].status = "COMPLETE"
    BY <2>1, <2>2 DEF Reported
  <2>3. ASSUME NEW p \in Pollers, NEW e \in Exports, PollAccepted(p, e) PROVE Once!Next
    <3>1. /\ poller[p].pc = "polling" /\ e \in poller[p].todo
          /\ row' = [row EXCEPT ![e] = [poller[p].copies[e] EXCEPT !.status = "COMPLETE",
                                                                   !.exportedAt = TRUE]]
          /\ docState[poller[p].copies[e].exportId] = "accepted"
      BY <2>3 DEF PollAccepted
    <3>2. row[e].status = "EXPORT_QUEUED" /\ poller[p].copies[e] = row[e]
      BY <3>1, PolledIsQueued
    <3>3. row[e].exportId \in LiveDocs(e)
      BY <3>1, <3>2 DEF Soundness, RowSound, Sent, LiveDocs
    <3>4. LiveCount[e] = 1
      BY <3>3, OneLiveDocument, CountOne
    <3>5. Reported' = Reported \cup {e}
      BY <3>1, <3>2 DEF Reported, TypeOK, Row
    <3>6. Once!Report(e)
      BY <2>1, <3>4, <3>5 DEF Once!Report, LiveCount, Reported
    <3>7. QED
      BY <3>6 DEF Once!Next
  <2>4. QED
    BY <2>2, <2>3, CompleteByPollOnly
<1>4. QED
  BY <1>1, <1>2, <1>3, DocSteps

(* The lifecycle implements ExportOnce: a document is posted for an export only
   while Sage holds no live one, an export is reported only while its document is
   live, and for good. *)
THEOREM ExportedOnce ==
    ASSUME Serial PROVE Spec => ImplementsExportOnce
<1>1. Init => Once!Init
  <2> SUFFICES ASSUME Init PROVE Once!Init
    OBVIOUS
  <2>1. \A e \in Exports : LiveDocs(e) = {} /\ row[e].status # "COMPLETE"
    BY DEF Init, LiveDocs, NewRow
  <2>2. \A e \in Exports : Cardinality(LiveDocs(e)) = 0
    BY <2>1, FS_EmptySet
  <2>3. QED
    BY <2>1, <2>2 DEF Once!Init
<1>2. TypeOK /\ Soundness /\ SerialInv /\ [Next]_vars => [Once!Next]_<<LiveCount, Reported>>
  BY OnceStep
<1>3. QED
  BY <1>1, <1>2, TypeCorrect, SoundnessInvariant, SerialInvariant, PTL
     DEF Spec, ImplementsExportOnce, Once!Spec, LiveCount, Reported
=============================================================================
