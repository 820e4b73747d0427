----------------------------- MODULE WorkspaceRow -----------------------------
(***************************************************************************)
(* The row of a workspace, which many hands save whole from copies they    *)
(* read before, and the settings of its onboarding:                        *)
(*                                                                         *)
(*   - REQUESTS of the settings API store a setting, configure the export  *)
(*     schedule and move the onboarding state, each statement on its own;  *)
(*   - WORKERS import the expenses approved since the workspace's mark, or *)
(*     export a line, for which they save the row as well.                 *)
(*                                                                         *)
(* A mark (reimbursable_last_synced_at, credit_card_last_synced_at) is a   *)
(* time; it is represented by the expenses approved before it.             *)
(***************************************************************************)
EXTENDS Naturals, FiniteSets

CONSTANTS
    Requests,        \* requests of the settings API that run at a time
    Workers,         \* imports and exports that run at a time
    Expenses,
    Funds, FundOf,   \* the fund source of an expense
    Schedules,       \* ids of schedule rows, enough for one never to be wanting
    MaxActive,       \* bound: requests and workers that run side by side
    None

ASSUME WorkspaceAssumption ==
    /\ FundOf \in [Expenses -> Funds] /\ Funds # {}
    /\ None \notin Schedules
    /\ IsFiniteSet(Requests) /\ IsFiniteSet(Workers) /\ IsFiniteSet(Schedules)
    /\ MaxActive \in Nat \ {0}

VARIABLES
    workspace,   \* the row: onboarding state and one mark for each fund source
    saved,       \* settings that have been stored
    advanced,    \* the advanced_settings row
    schedules,   \* schedule rows that run the export of this workspace
    request,     \* local state of each request
    worker,      \* local state of each worker
    approved,    \* expenses approved in Fyle
    stored,      \* expenses imported
    missed,      \* expenses approved while an import was fetching
    failed       \* a request for advanced settings did not come to its end

vars == <<workspace, saved, advanced, schedules, request, worker, approved,
          stored, missed, failed>>
settingVars == <<saved, advanced, schedules, request, failed>>
expenseVars == <<worker, approved, stored, missed>>
----------------------------------------------------------------------------
States == {"CONNECTION", "EXPORT_SETTINGS", "IMPORT_SETTINGS", "ADVANCED_SETTINGS", "COMPLETE"}
Settings == {"credentials", "export", "import", "advanced"}

Row == [onboarding : States, mark : [Funds -> SUBSET Expenses]]
NewRow == [onboarding |-> "CONNECTION", mark |-> [f \in Funds |-> {}]]

AdvancedRow == [enabled : BOOLEAN, realtime : BOOLEAN, schedule : Schedules \cup {None}]
NoAdvanced == [enabled |-> FALSE, realtime |-> FALSE, schedule |-> None]

\* `step` is the next statement, `copy` the workspace as the request read it,
\* `enabled` what the request asks for, `own` its copy of the advanced row.
RequestState == [kind : Settings, copy : Row, enabled : BOOLEAN, own : AdvancedRow,
    step : {"idle", "store", "read", "find", "insert", "link", "unlink", "delete", "state"}]
NoRequest == [kind |-> "credentials", copy |-> NewRow, enabled |-> FALSE, own |-> NoAdvanced,
              step |-> "idle"]

WorkerState == [pc : {"idle", "importing", "fetched", "exporting"}, copy : Row,
                fund : Funds, fetched : SUBSET Expenses]
Idle(w) == [worker[w] EXCEPT !.pc = "idle", !.copy = NewRow, !.fetched = {}]

ApprovedOf(f) == {e \in approved : FundOf[e] = f}

Init ==
    /\ workspace = NewRow
    /\ saved = {}
    /\ advanced = NoAdvanced
    /\ schedules = {}
    /\ request = [r \in Requests |-> NoRequest]
    /\ worker = [w \in Workers |-> [pc |-> "idle", copy |-> NewRow, fetched |-> {},
                                    fund |-> CHOOSE f \in Funds : TRUE]]
    /\ approved = {}
    /\ stored = {}
    /\ missed = {}
    /\ failed = FALSE

Active == {r \in Requests : request[r].step # "idle"} \cup {w \in Workers : worker[w].pc # "idle"}
Starts(r) == request[r].step = "idle" /\ Cardinality(Active) < MaxActive

At(r, kind, step) == request[r].kind = kind /\ request[r].step = step
Ended(r) == request' = [request EXCEPT ![r] = NoRequest]
Goto(r, step) == request' = [request EXCEPT ![r].step = step]
\* On to the onboarding state; the copy of the advanced row is done with.
ToState(r) ==
    request' = [request EXCEPT ![r].step = "state", ![r].own = NoAdvanced, ![r].enabled = FALSE]
----------------------------------------------------------------------------
(***************************************************************************)
(* Requests: storing a setting                                             *)
(***************************************************************************)

NextState(state) ==
    CASE state = "EXPORT_SETTINGS" -> "IMPORT_SETTINGS"
      [] state = "IMPORT_SETTINGS" -> "ADVANCED_SETTINGS"
      [] state = "ADVANCED_SETTINGS" -> "COMPLETE"

\* Fault: export settings saved again move the workspace on again.
MovesOn_Again(kind, state) ==
    \/ kind = "export" /\ state \in {"EXPORT_SETTINGS", "IMPORT_SETTINGS"}
    \/ kind = "import" /\ state = "IMPORT_SETTINGS"
    \/ kind = "advanced" /\ state = "ADVANCED_SETTINGS"

\* The state at which storing a setting moves the workspace on.
MovesOn(kind, state) ==
    \/ kind = "export" /\ state = "EXPORT_SETTINGS"
    \/ kind = "import" /\ state = "IMPORT_SETTINGS"
    \/ kind = "advanced" /\ state = "ADVANCED_SETTINGS"

\* What a request keeps of the row: a copy that it will not save is left out.
CopyFor(kind) ==
    IF kind = "credentials" \/ MovesOn(kind, workspace.onboarding) THEN workspace ELSE NewRow

\* The request reads the workspace, and then talks to Sage or validates.
StartRequest(r, kind) ==
    /\ Starts(r)
    /\ kind \in {"credentials", "import"}
    /\ request' = [request EXCEPT ![r].kind = kind, ![r].copy = CopyFor(kind), ![r].step = "store"]
    /\ UNCHANGED <<workspace, saved, advanced, schedules, failed>>
    /\ UNCHANGED expenseVars

\* A workspace has one credentials row: a second one is refused.
StoreCredentials(r) ==
    /\ At(r, "credentials", "store")
    /\ saved' = saved \cup {"credentials"}
    /\ IF "credentials" \in saved THEN Ended(r) ELSE Goto(r, "state")
    /\ UNCHANGED <<workspace, advanced, schedules, failed>>
    /\ UNCHANGED expenseVars

StoreImport(r) ==
    /\ At(r, "import", "store")
    /\ saved' = saved \cup {"import"}
    /\ Goto(r, "state")
    /\ UNCHANGED <<workspace, advanced, schedules, failed>>
    /\ UNCHANGED expenseVars

\* The workspace is read once the setting is stored.
StoreExport(r) ==
    /\ Starts(r)
    /\ saved' = saved \cup {"export"}
    /\ request' = [request EXCEPT ![r].kind = "export", ![r].copy = CopyFor("export"),
                                  ![r].step = "state"]
    /\ UNCHANGED <<workspace, advanced, schedules, failed>>
    /\ UNCHANGED expenseVars

StoreAdvanced(r, enabled, realtime) ==
    /\ Starts(r)
    /\ saved' = saved \cup {"advanced"}
    /\ advanced' = [advanced EXCEPT !.enabled = enabled, !.realtime = realtime]
    /\ request' = [request EXCEPT ![r].kind = "advanced", ![r].enabled = enabled,
                                  ![r].step = "read"]
    /\ UNCHANGED <<workspace, schedules, failed>>
    /\ UNCHANGED expenseVars

\* The onboarding state, with all else that the copy holds.
SetState(r) ==
    /\ request[r].step = "state"
    /\ LET kind == request[r].kind
           copy == request[r].copy
       IN CASE kind = "credentials" ->
                 /\ workspace' = [copy EXCEPT !.onboarding = "EXPORT_SETTINGS"]
                 /\ Ended(r)
            [] MovesOn(kind, copy.onboarding) ->
                 /\ workspace' = [copy EXCEPT !.onboarding = NextState(copy.onboarding)]
                 /\ Ended(r)
            [] OTHER -> Ended(r) /\ UNCHANGED workspace
    /\ UNCHANGED <<saved, advanced, schedules, failed>>
    /\ UNCHANGED expenseVars
----------------------------------------------------------------------------
(***************************************************************************)
(* Requests: the schedule of the exports                                   *)
(***************************************************************************)

\* schedule_sync reads the row again, and goes by its realtime flag.
ReadAdvanced(r) ==
    /\ At(r, "advanced", "read")
    /\ LET Read(step) == [request[r] EXCEPT !.copy = CopyFor("advanced"),
                                     !.own = advanced, !.step = step]
           next == IF request[r].enabled /\ ~advanced.realtime THEN Read("find")
                   ELSE IF advanced.schedule # None THEN Read("unlink")
                   ELSE [Read("state") EXCEPT !.own = NoAdvanced, !.enabled = FALSE]
       IN request' = [request EXCEPT ![r] = next]
    /\ UNCHANGED <<workspace, saved, advanced, schedules, failed>>
    /\ UNCHANGED expenseVars

\* update_or_create of the schedule: with two of them it raises.
FindSchedule(r) ==
    /\ At(r, "advanced", "find")
    /\ IF Cardinality(schedules) > 1
       THEN failed' = TRUE /\ Ended(r)
       ELSE /\ request' = IF schedules = {} THEN [request EXCEPT ![r].step = "insert"]
                          ELSE [request EXCEPT ![r].step = "link",
                                               ![r].own.schedule = CHOOSE s \in schedules : TRUE]
            /\ UNCHANGED failed
    /\ UNCHANGED <<workspace, saved, advanced, schedules>>
    /\ UNCHANGED expenseVars

\* Ids are never given twice; what the request itself still names is overwritten.
Unused(r) ==
    Schedules \ (schedules \cup {advanced.schedule}
                 \cup {request[q].own.schedule : q \in Requests \ {r}})

InsertSchedule(r) ==
    /\ At(r, "advanced", "insert") /\ Unused(r) # {}
    /\ LET new == CHOOSE s \in Unused(r) : TRUE IN
       /\ schedules' = schedules \cup {new}
       /\ request' = [request EXCEPT ![r].own.schedule = new, ![r].step = "link"]
    /\ UNCHANGED <<workspace, saved, advanced, failed>>
    /\ UNCHANGED expenseVars

\* The whole row, from the request's copy; the foreign key fails if the schedule
\* is gone.
LinkSchedule(r) ==
    /\ At(r, "advanced", "link")
    /\ IF request[r].own.schedule \in schedules
       THEN advanced' = [request[r].own EXCEPT !.enabled = request[r].enabled] /\ ToState(r) /\ UNCHANGED failed
       ELSE failed' = TRUE /\ Ended(r) /\ UNCHANGED advanced
    /\ UNCHANGED <<workspace, saved, schedules>>
    /\ UNCHANGED expenseVars

\* Fault: only the link is saved, and not the flag the request came with.
Unlinked_Alone(r) == [advanced EXCEPT !.schedule = None]

\* The whole row, from the request's copy.
Unlinked(r) == [request[r].own EXCEPT !.enabled = request[r].enabled, !.schedule = None]

UnlinkSchedule(r) ==
    /\ At(r, "advanced", "unlink")
    /\ advanced' = Unlinked(r)
    /\ Goto(r, "delete")
    /\ UNCHANGED <<workspace, saved, schedules, failed>>
    /\ UNCHANGED expenseVars

\* A schedule that was linked again is protected.
DeleteSchedule(r) ==
    /\ At(r, "advanced", "delete")
    /\ IF advanced.schedule = request[r].own.schedule
       THEN failed' = TRUE /\ Ended(r) /\ UNCHANGED schedules
       ELSE schedules' = schedules \ {request[r].own.schedule} /\ ToState(r) /\ UNCHANGED failed
    /\ UNCHANGED <<workspace, saved, advanced>>
    /\ UNCHANGED expenseVars

\* The server stops in the middle of a request, or an exception ends it.
RequestDies(r) ==
    /\ request[r].step # "idle"
    /\ failed' = (failed \/ request[r].kind = "advanced")
    /\ Ended(r)
    /\ UNCHANGED <<workspace, saved, advanced, schedules>>
    /\ UNCHANGED expenseVars
----------------------------------------------------------------------------
(***************************************************************************)
(* Workers                                                                 *)
(***************************************************************************)

Approve(e) ==
    /\ e \notin approved
    /\ approved' = approved \cup {e}
    /\ UNCHANGED <<workspace, worker, stored, missed>>
    /\ UNCHANGED settingVars

StartImport(w, f) ==
    /\ worker[w].pc = "idle" /\ Cardinality(Active) < MaxActive
    /\ "export" \in saved
    /\ worker' = [worker EXCEPT ![w].pc = "importing", ![w].copy = workspace, ![w].fund = f]
    /\ UNCHANGED <<workspace, approved, stored, missed>>
    /\ UNCHANGED settingVars

\* The expenses that were approved since the mark of the copy.
FetchedBy(w) == ApprovedOf(worker[w].fund) \ worker[w].copy.mark[worker[w].fund]

\* Fault: the mark is saved before the expenses are.
Fetch_MarksFirst(w) ==
    /\ worker[w].pc = "importing"
    /\ workspace' = [worker[w].copy EXCEPT !.mark[worker[w].fund] = ApprovedOf(worker[w].fund)]
    /\ worker' = [worker EXCEPT ![w].pc = "fetched", ![w].fetched = FetchedBy(w)]
    /\ UNCHANGED <<approved, stored, missed>>
    /\ UNCHANGED settingVars

\* With nothing new the import ends, and the row is not saved.
Fetch(w) ==
    /\ worker[w].pc = "importing"
    /\ worker' = [worker EXCEPT ![w] = IF FetchedBy(w) = {} THEN Idle(w)
                                       ELSE [@ EXCEPT !.pc = "fetched", !.fetched = FetchedBy(w)]]
    /\ UNCHANGED <<workspace, approved, stored, missed>>
    /\ UNCHANGED settingVars

\* The mark is the time at which the fetched expenses are stored; it is saved
\* with them, and with the rest of the copy.
CommitImport(w, f) ==
    /\ worker[w].pc = "fetched"
    /\ worker[w].fund = f
    /\ workspace' = [worker[w].copy EXCEPT !.mark[f] = ApprovedOf(f)]
    /\ stored' = stored \cup worker[w].fetched
    /\ missed' = missed \cup (FetchedBy(w) \ worker[w].fetched)
    /\ worker' = [worker EXCEPT ![w] = Idle(w)]
    /\ UNCHANGED approved
    /\ UNCHANGED settingVars

ImportFails(w) ==
    /\ worker[w].pc \in {"importing", "fetched"}
    /\ worker' = [worker EXCEPT ![w] = Idle(w)]
    /\ UNCHANGED <<workspace, approved, stored, missed>>
    /\ UNCHANGED settingVars

\* get_expense_purpose, once for each line of an export.
StartLine(w) ==
    /\ worker[w].pc = "idle" /\ Cardinality(Active) < MaxActive
    /\ "advanced" \in saved
    /\ worker' = [worker EXCEPT ![w].pc = "exporting", ![w].copy = workspace]
    /\ UNCHANGED <<workspace, approved, stored, missed>>
    /\ UNCHANGED settingVars

SaveLine(w) ==
    /\ worker[w].pc = "exporting"
    /\ workspace' = worker[w].copy
    /\ worker' = [worker EXCEPT ![w] = Idle(w)]
    /\ UNCHANGED <<approved, stored, missed>>
    /\ UNCHANGED settingVars
----------------------------------------------------------------------------
RequestStep(r) ==
    \/ \E kind \in Settings : StartRequest(r, kind)
    \/ StoreCredentials(r) \/ StoreImport(r) \/ StoreExport(r)
    \/ \E enabled, realtime \in BOOLEAN : StoreAdvanced(r, enabled, realtime)
    \/ ReadAdvanced(r) \/ FindSchedule(r) \/ InsertSchedule(r) \/ LinkSchedule(r)
    \/ UnlinkSchedule(r) \/ DeleteSchedule(r)
    \/ SetState(r) \/ RequestDies(r)

WorkerStep(w) ==
    \/ \E f \in Funds : StartImport(w, f) \/ CommitImport(w, f)
    \/ Fetch(w) \/ ImportFails(w) \/ StartLine(w) \/ SaveLine(w)

Next ==
    \/ \E r \in Requests : RequestStep(r)
    \/ \E w \in Workers : WorkerStep(w)
    \/ \E e \in Expenses : Approve(e)

Spec == Init /\ [][Next]_vars
----------------------------------------------------------------------------
(***************************************************************************)
(* Properties                                                              *)
(***************************************************************************)

TypeOK ==
    /\ workspace \in Row
    /\ saved \subseteq Settings
    /\ advanced \in AdvancedRow
    /\ schedules \subseteq Schedules
    /\ request \in [Requests -> RequestState]
    /\ worker \in [Workers -> WorkerState]
    /\ approved \subseteq Expenses
    /\ stored \subseteq Expenses
    /\ missed \subseteq Expenses
    /\ failed \in BOOLEAN

Required(state) ==
    CASE state = "CONNECTION" -> {}
      [] state = "EXPORT_SETTINGS" -> {"credentials"}
      [] state = "IMPORT_SETTINGS" -> {"credentials", "export"}
      [] state = "ADVANCED_SETTINGS" -> {"credentials", "export", "import"}
      [] state = "COMPLETE" -> Settings

(* In whatever order the settings are posted, however often, and whoever saves
   an old copy of the row in between, the onboarding state never says that a
   setting is there which is not. *)
OnboardedIsConfigured == Required(workspace.onboarding) \subseteq saved

(* What a mark hides from every later import has been imported, whatever copies
   of the row are saved and wherever an import breaks off -- but for expenses
   approved while an import was fetching. *)
MarkedIsStored ==
    \A f \in Funds : workspace.mark[f] \subseteq stored \cup missed

Quiet == \A r \in Requests : request[r].step = "idle"

(* Once the requests are done, a workspace whose settings say that its exports
   run on a schedule has it, whatever requests ran side by side, provided that
   none of them failed. *)
EnabledIsScheduled ==
    Quiet /\ ~failed /\ advanced.enabled /\ ~advanced.realtime => advanced.schedule \in schedules

(* The onboarding does not go back. *)
OnboardingForward ==
    [][Required(workspace.onboarding) \subseteq Required(workspace'.onboarding)]_vars

(* A workspace whose schedule was disabled has none, whoever enabled it before. *)
DisabledIsUnscheduled ==
    Quiet /\ ~failed /\ ~advanced.enabled => schedules = {}
=============================================================================
