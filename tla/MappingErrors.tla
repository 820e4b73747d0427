--------------------------- MODULE MappingErrors ---------------------------
(***************************************************************************)
(* The mapping errors of one workspace: one Error row per expense          *)
(* attribute (a category or an employee) that lists the exports which      *)
(* failed for want of its mapping, and which every later export leaves     *)
(* alone while the row is unresolved.                                      *)
(*                                                                         *)
(*   - a TASK is an export task inside validate_accounting_export: it      *)
(*     holds, between two statements, the Error object it read;            *)
(*   - the UPDATER is update_non_exported_expenses, which moves an export  *)
(*     whose expense has changed category from one Error row to another;   *)
(*   - users save mappings, whose post_save signal resolves the Error row. *)
(***************************************************************************)
EXTENDS Naturals

CONSTANTS
    Exports,             \* ids of AccountingExport rows
    Attrs,               \* expense attributes that need a mapping
    Tasks,               \* export tasks that may run at the same time
    None,
    MaxMoves,            \* bound on changes of category
    MapWhileBusy         \* may a mapping be saved while errors are worked out?

ASSUME NoneAssumption == None \notin Exports \cup Attrs
ASSUME MovesAssumption == MaxMoves \in Nat
ASSUME FlagAssumption == MapWhileBusy \in BOOLEAN

VARIABLES
    needs,      \* needs[e]: the attributes of the expenses of e
    status,     \* status[e]: the accounting_exports row
    mapped,     \* attributes that have a mapping
    signalled,  \* attributes whose mapping is saved, the signal still to run
    error,      \* error[a]: the Error row of a, if any
    made,       \* made[a]: Error rows created for a so far (the last one's id)
    task,       \* task[t]: local state of an export task
    updater,    \* local state of update_non_exported_expenses
    moves       \* changes of category so far

vars == <<needs, status, mapped, signalled, error, made, task, updater, moves>>
----------------------------------------------------------------------------
Statuses == {"EXPORT_READY", "IN_PROGRESS", "FAILED", "FATAL", "EXPORTED"}

\* id 0 stands for no row.
ErrorRow == [id : Nat, ids : SUBSET Exports, resolved : BOOLEAN]
NoError == [id |-> 0, ids |-> {}, resolved |-> FALSE]

TaskState == [pc : {"idle", "validate", "missing", "fetched", "count"},
              e : Exports \cup {None}, a : Attrs \cup {None},
              todo : SUBSET Attrs, failed : BOOLEAN, copy : ErrorRow]
IdleTask == [pc |-> "idle", e |-> None, a |-> None, todo |-> {}, failed |-> FALSE,
             copy |-> NoError]

UpdaterState == [pc : {"idle", "seen", "saved", "read"}, e : Exports \cup {None},
                 old : Attrs \cup {None}, new : Attrs \cup {None},
                 oldRow : ErrorRow, newRow : ErrorRow, unmapped : BOOLEAN]
IdleUpdater == [pc |-> "idle", e |-> None, old |-> None, new |-> None,
                oldRow |-> NoError, newRow |-> NoError, unmapped |-> FALSE]

Init ==
    /\ needs \in [Exports -> (SUBSET Attrs) \ {{}}]
    /\ status = [e \in Exports |-> "EXPORT_READY"]
    /\ mapped \in SUBSET Attrs
    /\ signalled = {}
    /\ error = [a \in Attrs |-> NoError]
    /\ made = [a \in Attrs |-> 0]
    /\ task = [t \in Tasks |-> IdleTask]
    /\ updater = IdleUpdater
    /\ moves = 0

Unresolved(row) == row.id # 0 /\ ~row.resolved
Open(a) == Unresolved(error[a])
Blocked(e) == \E a \in Attrs : Open(a) /\ e \in error[a].ids
Validating == \E t \in Tasks : task[t].pc # "idle"
Busy == Validating \/ updater.pc = "read"
----------------------------------------------------------------------------
(***************************************************************************)
(* An export task                                                          *)
(***************************************************************************)

\* validate_failing_export lets the export through and the task starts.
StartTask(t) ==
    /\ task[t].pc = "idle"
    /\ \E e \in Exports :
         /\ status[e] \in {"EXPORT_READY", "FAILED", "FATAL"}
         /\ ~Blocked(e)
         /\ status' = [status EXCEPT ![e] = "IN_PROGRESS"]
         /\ task' = [task EXCEPT ![t] = [IdleTask EXCEPT !.pc = "validate", !.e = e,
                                                         !.todo = needs[e]]]
    /\ UNCHANGED <<needs, mapped, signalled, error, made, updater, moves>>

\* One attribute after another: its mapping is found, or it is missing.
LookUp(t, a) ==
    /\ task[t].pc = "validate"
    /\ a \in task[t].todo
    /\ task' = [task EXCEPT ![t] =
          IF a \in mapped THEN [task[t] EXCEPT !.todo = @ \ {a}]
          ELSE [task[t] EXCEPT !.pc = "missing", !.a = a, !.todo = @ \ {a}, !.failed = TRUE]]
    /\ UNCHANGED <<needs, status, mapped, signalled, error, made, updater, moves>>

\* get_or_create: the row is created for this export alone, and there is
\* nothing to count, or it is read.
GetOrCreateError(t) ==
    /\ task[t].pc = "missing"
    /\ LET a == task[t].a IN
       IF error[a].id = 0
       THEN /\ made' = [made EXCEPT ![a] = @ + 1]
            /\ error' = [error EXCEPT ![a] = [id |-> made'[a], ids |-> {task[t].e},
                                              resolved |-> FALSE]]
            /\ task' = [task EXCEPT ![t] = [@ EXCEPT !.pc = "validate", !.a = None]]
       ELSE /\ task' = [task EXCEPT ![t] = [@ EXCEPT !.pc = "fetched", !.copy = error[a]]]
            /\ UNCHANGED <<error, made>>
    /\ UNCHANGED <<needs, status, mapped, signalled, updater, moves>>

\* An exception in validation is caught by handle_sage300_exceptions.
Fatal(t) ==
    /\ status' = [status EXCEPT ![task[t].e] = "FATAL"]
    /\ task' = [task EXCEPT ![t] = IdleTask]

\* Fault: the row is saved only when it was resolved, its list never.
Listed_Reopened(copy, e) == [copy EXCEPT !.resolved = FALSE]

\* The object as get_or_create_error_with_accounting_export leaves it.
Listed(copy, e) == [copy EXCEPT !.ids = @ \cup {e}, !.resolved = FALSE]

\* save(update_fields) writes only the fields the task changed, from its copy;
\* it raises when the row is gone.
SaveListedExport(t) ==
    /\ task[t].pc = "fetched"
    /\ LET a == task[t].a
           copy == task[t].copy
           listed == Listed(copy, task[t].e)
           gone == error[a].id # copy.id
       IN
       \/ /\ listed # copy
          /\ gone
          /\ Fatal(t)
          /\ UNCHANGED error
       \/ /\ listed = copy \/ ~gone
          /\ error' = IF listed = copy THEN error
                      ELSE [error EXCEPT ![a] =
                        [error[a] EXCEPT !.ids = IF listed.ids = copy.ids THEN @ ELSE listed.ids,
                                         !.resolved = IF copy.resolved THEN FALSE ELSE @]]
          /\ task' = [task EXCEPT ![t] = [@ EXCEPT !.pc = "count", !.copy = listed]]
          /\ UNCHANGED status
    /\ UNCHANGED <<needs, mapped, signalled, made, updater, moves>>

\* increase_repetition_count_by_one saves the whole object: a row that is gone
\* is inserted again, unless another row took its attribute.
IncreaseRepetitionCount(t) ==
    /\ task[t].pc = "count"
    /\ LET a == task[t].a IN
       \/ /\ error[a].id \in {0, task[t].copy.id}
          /\ error' = [error EXCEPT ![a] = task[t].copy]
          /\ task' = [task EXCEPT ![t] = [@ EXCEPT !.pc = "validate", !.a = None,
                                                   !.copy = NoError]]
          /\ UNCHANGED status
       \/ /\ error[a].id \notin {0, task[t].copy.id}
          /\ Fatal(t)
          /\ UNCHANGED error
    /\ UNCHANGED <<needs, mapped, signalled, made, updater, moves>>

\* All attributes are looked up: BulkError, or the export goes on to Sage.
FinishValidation(t) ==
    /\ task[t].pc = "validate"
    /\ task[t].todo = {}
    /\ status' = [status EXCEPT ![task[t].e] = IF task[t].failed THEN "FAILED" ELSE "EXPORTED"]
    /\ task' = [task EXCEPT ![t] = IdleTask]
    /\ UNCHANGED <<needs, mapped, signalled, error, made, updater, moves>>
----------------------------------------------------------------------------
(***************************************************************************)
(* Mappings                                                                *)
(***************************************************************************)

SaveMapping(a) ==
    /\ a \notin mapped
    /\ MapWhileBusy \/ ~Busy
    /\ mapped' = mapped \cup {a}
    /\ signalled' = signalled \cup {a}
    /\ UNCHANGED <<needs, status, error, made, task, updater, moves>>

\* Fault: the signal resolves nothing.
ResolveMappingErrors_None(a) ==
    /\ a \in signalled
    /\ signalled' = signalled \ {a}
    /\ UNCHANGED <<needs, status, mapped, error, made, task, updater, moves>>

\* The post_save signal of CategoryMapping and EmployeeMapping, a statement of
\* its own after the insert.
ResolveMappingErrors(a) ==
    /\ a \in signalled
    /\ signalled' = signalled \ {a}
    /\ error' = [error EXCEPT ![a] = IF @.id = 0 THEN @ ELSE [@ EXCEPT !.resolved = TRUE]]
    /\ UNCHANGED <<needs, status, mapped, made, task, updater, moves>>
----------------------------------------------------------------------------
(***************************************************************************)
(* A category changes in Fyle                                              *)
(***************************************************************************)

\* The update is taken up while the export is not being exported.
SeeUpdate(e, old, new) ==
    /\ updater.pc = "idle"
    /\ moves < MaxMoves
    /\ moves' = moves + 1
    /\ status[e] \in {"EXPORT_READY", "FAILED", "FATAL"}
    /\ old \in needs[e]
    /\ new # old
    /\ updater' = [IdleUpdater EXCEPT !.pc = "seen", !.e = e, !.old = old, !.new = new]
    /\ UNCHANGED <<needs, status, mapped, signalled, error, made, task>>

\* The expense is saved, whatever became of the export since. Another expense of
\* the export may still have the old category.
SaveExpense ==
    /\ updater.pc = "seen"
    /\ \E kept \in SUBSET {updater.old} :
         needs' = [needs EXCEPT ![updater.e] = (@ \ {updater.old}) \cup kept \cup {updater.new}]
    /\ updater' = [updater EXCEPT !.pc = "saved"]
    /\ UNCHANGED <<status, mapped, signalled, error, made, task, moves>>

\* handle_category_changes_for_expense is one transaction at READ COMMITTED:
\* the rows it reads may change before what it writes is committed.
ReadErrors ==
    /\ updater.pc = "saved"
    /\ updater' = IF status[updater.e] = "EXPORTED" THEN IdleUpdater
                  ELSE [updater EXCEPT !.pc = "read", !.oldRow = error[updater.old],
                                       !.newRow = error[updater.new],
                                       !.unmapped = updater.new \notin mapped]
    /\ UNCHANGED <<needs, status, mapped, signalled, error, made, task, moves>>

\* remove_accounting_export_from_category_error, on the row it has read.
Removed(e, a, row) ==
    IF ~Unresolved(row) \/ e \notin row.ids THEN error[a]
    ELSE IF row.ids = {e} THEN NoError
    ELSE [error[a] EXCEPT !.ids = row.ids \ {e}]

\* add_accounting_export_to_category_error looks for an unresolved row alone; a
\* second row for an attribute is an IntegrityError, which undoes the removal.
MoveError ==
    /\ updater.pc = "read"
    /\ updater' = IdleUpdater
    /\ LET e == updater.e
           old == updater.old
           new == updater.new
           row == updater.newRow
           removed == [error EXCEPT ![old] = Removed(e, old, updater.oldRow)]
       IN
       \/ /\ Unresolved(row)
          /\ error' = IF e \in row.ids THEN removed
                      ELSE [removed EXCEPT ![new].ids = row.ids \cup {e}]
          /\ UNCHANGED made
       \/ /\ ~Unresolved(row)
          /\ ~updater.unmapped
          /\ error' = removed
          /\ UNCHANGED made
       \/ /\ ~Unresolved(row)
          /\ updater.unmapped
          /\ error[new].id # 0
          /\ UNCHANGED <<error, made>>
       \/ /\ ~Unresolved(row)
          /\ updater.unmapped
          /\ error[new].id = 0
          /\ made' = [made EXCEPT ![new] = @ + 1]
          /\ error' = [removed EXCEPT ![new] = [id |-> made'[new], ids |-> {e},
                                                resolved |-> FALSE]]
    /\ UNCHANGED <<needs, status, mapped, signalled, task, moves>>
----------------------------------------------------------------------------
TaskStep(t) ==
    \/ GetOrCreateError(t) \/ SaveListedExport(t) \/ IncreaseRepetitionCount(t)
    \/ FinishValidation(t) \/ \E a \in Attrs : LookUp(t, a)

Next ==
    \/ \E t \in Tasks : StartTask(t) \/ TaskStep(t)
    \/ \E a \in Attrs : SaveMapping(a) \/ ResolveMappingErrors(a)
    \/ \E e \in Exports, old, new \in Attrs : SeeUpdate(e, old, new)
    \/ SaveExpense \/ ReadErrors \/ MoveError

Spec == Init /\ [][Next]_vars
----------------------------------------------------------------------------
(***************************************************************************)
(* Properties                                                              *)
(***************************************************************************)

TypeOK ==
    /\ needs \in [Exports -> SUBSET Attrs]
    /\ status \in [Exports -> Statuses]
    /\ mapped \in SUBSET Attrs
    /\ signalled \in SUBSET Attrs
    /\ error \in [Attrs -> ErrorRow]
    /\ made \in [Attrs -> Nat]
    /\ task \in [Tasks -> TaskState]
    /\ updater \in UpdaterState
    /\ moves \in 0..MaxMoves
    /\ \A a \in Attrs : error[a].id # 0 => error[a].ids # {}

(* An unresolved row stands for a missing mapping: once the mapping is saved and
   its signal has run, nothing that the tasks or the updater still write from
   what they read earlier brings the error back (when no mapping is saved while
   they work errors out). *)
OpenErrorIsUnmapped ==
    \A a \in Attrs : Open(a) => a \notin mapped \/ a \in signalled

(* get_or_create_error_with_accounting_export is to "ensure that the
   accounting_export.id is present" on the list: until a category changes, an
   export that failed for want of mappings that are still missing is on the list
   of each of their rows. *)
FailedIsListed ==
    \A e \in Exports :
        (moves = 0 /\ status[e] = "FAILED" /\ needs[e] \cap mapped = {}) =>
            \A a \in needs[e] : Open(a) /\ e \in error[a].ids

(* "Resolve errors after mapping is created": when no task is validating and no
   signal is pending, an attribute that has a mapping has no unresolved error. *)
MappedIsResolved ==
    \A a \in Attrs : (a \in mapped /\ a \notin signalled /\ ~Busy) => ~Open(a)

(* "Remove accounting export from old category's mapping error": an export is
   listed only by the errors of its own attributes, once its update is through. *)
ListedForOwnAttribute ==
    \A a \in Attrs : (Open(a) /\ ~Validating /\ updater.pc = "idle") =>
        \A e \in error[a].ids : a \in needs[e]

(* The tasks and signals run, and exports are triggered again and again. *)
Fairness ==
    /\ \A t \in Tasks : WF_vars(TaskStep(t))
    /\ \A t \in Tasks, e \in Exports : SF_vars(StartTask(t) /\ status'[e] # status[e])
    /\ \A a \in Attrs : WF_vars(ResolveMappingErrors(a))
    /\ WF_vars(SaveExpense) /\ WF_vars(ReadErrors) /\ WF_vars(MoveError)

FairSpec == Spec /\ Fairness

(* An export whose mappings are all there, and that is on the list of no error of
   an attribute it has lost (ListedForOwnAttribute can fail), is exported in the
   end: an error row that lists it is resolved, and keeps it back no longer. *)
MappedIsExported ==
    \A e \in Exports :
        [](/\ needs[e] \subseteq mapped
           /\ \A a \in Attrs \ mapped : ~(Open(a) /\ e \in error[a].ids))
            ~> (status[e] = "EXPORTED")
=============================================================================
