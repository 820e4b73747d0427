--------------------------- MODULE ExpenseImport ---------------------------
(***************************************************************************)
(* The expenses of one Fyle report and fund source, and the accounting     *)
(* exports they are grouped into.                                          *)
(*                                                                         *)
(*   - FYLE changes the report and sends webhooks, which become messages   *)
(*     of two queues: state changes (export worker), expenses added to or  *)
(*     ejected from the report (utility worker);                           *)
(*   - IMPORTERS are import_expenses transactions of the export workers;   *)
(*   - the REMOVER is the utility worker in handle_expense_report_change;  *)
(*   - exports are taken up, sent to Sage and settled (see                 *)
(*     ExportLifecycle for that part in detail);                           *)
(*   - a user saves an expense filter, which re-runs the skip rule.        *)
(***************************************************************************)
EXTENDS Naturals, Sequences

CONSTANTS
    Expenses,       \* expenses of the report, now or later
    Importers,      \* imports that may run at the same time
    None,
    MaxRows,        \* accounting exports at the same time
    MaxEvents,      \* bound on changes of the report in Fyle
    MaxAborts,      \* bound on imports that fail
    MaxFilters,     \* bound on saved expense filters
    GroupByReport,  \* is one export made of the report, or of each expense?
    InOrder         \* do state changes wait for earlier report changes?

ASSUME NoneAssumption == None \notin Expenses \cup Importers
ASSUME BoundsAssumption == {MaxRows, MaxEvents, MaxAborts, MaxFilters} \subseteq Nat
ASSUME FlagsAssumption == {GroupByReport, InOrder} \subseteq BOOLEAN

VARIABLES
    inReport,  \* Fyle: the expenses in the report
    approved,  \* Fyle: is the report in an importable state?
    stateQ,    \* messages of the export queue: the attempts each has behind it
    utilityQ,  \* messages of the utility queue, in order
    known,     \* our expenses
    skipped,   \* those with is_skipped
    filter,    \* expenses that the saved expense filters match
    row,       \* accounting_exports
    lock,      \* lock[x]: the import that holds the row of expense x
    imp,       \* local state of each import
    remover,   \* local state of the utility worker
    events, aborts, filters

fyleVars == <<inReport, approved, events>>
ourVars == <<known, skipped, row>>
vars == <<inReport, approved, stateQ, utilityQ, known, skipped, filter, row, lock, imp,
          remover, events, aborts, filters>>
----------------------------------------------------------------------------
Rows == 1..MaxRows
NoRow == [status |-> "NONE", of |-> {}]

Idle == [pc |-> "idle", tries |-> 0, todo |-> {}, fresh |-> {}]
IdleRemover == [pc |-> "idle", x |-> None, rows |-> {}]

Init ==
    /\ inReport \in SUBSET Expenses
    /\ approved = FALSE
    /\ stateQ = <<>>
    /\ utilityQ = <<>>
    /\ known = {}
    /\ skipped = {}
    /\ filter = {}
    /\ row = [r \in Rows |-> NoRow]
    /\ lock = [x \in Expenses |-> None]
    /\ imp = [i \in Importers |-> Idle]
    /\ remover = IdleRemover
    /\ events = 0
    /\ aborts = 0
    /\ filters = 0

\* With a body row in the purchase invoice table, which protects the row.
Posted == {"EXPORT_QUEUED", "COMPLETE"}
Active == {"ENQUEUED", "EXPORT_QUEUED"}
Containing(x) == {r \in Rows : x \in row[r].of}

\* An id is used again only when nothing refers to it any more.
FreeRows == {r \in Rows : row[r] = NoRow /\ \A c \in remover.rows : c.r # r}
----------------------------------------------------------------------------
(***************************************************************************)
(* Fyle, and the webhook that turns its events into messages               *)
(***************************************************************************)

\* The report goes back to a state that is not imported.
AddToReport(x) ==
    /\ events < MaxEvents
    /\ x \notin inReport
    /\ inReport' = inReport \cup {x}
    /\ approved' = FALSE
    /\ utilityQ' = Append(utilityQ, [action |-> "ADDED_TO_REPORT", x |-> x, tries |-> 0])
    /\ events' = events + 1
    /\ UNCHANGED <<stateQ, filter, lock, imp, remover, aborts, filters, ourVars>>

EjectFromReport(x) ==
    /\ events < MaxEvents
    /\ x \in inReport
    /\ inReport' = inReport \ {x}
    /\ utilityQ' = Append(utilityQ, [action |-> "EJECTED_FROM_REPORT", x |-> x, tries |-> 0])
    /\ events' = events + 1
    /\ UNCHANGED <<approved, stateQ, filter, lock, imp, remover, aborts, filters, ourVars>>

Approve ==
    /\ ~approved
    /\ approved' = TRUE
    /\ stateQ' = Append(stateQ, 0)
    /\ UNCHANGED <<inReport, utilityQ, filter, lock, imp, remover, events, aborts, filters,
                   ourVars>>
----------------------------------------------------------------------------
(***************************************************************************)
(* import_expenses                                                         *)
(***************************************************************************)

\* The expenses are fetched from Fyle before the transaction begins.
Fetch(i, tries) ==
    imp' = [imp EXCEPT ![i] =
              IF approved /\ inReport # {}
              THEN [pc |-> "upsert", tries |-> tries, todo |-> inReport, fresh |-> {}]
              ELSE Idle]

StartStateChange(i) ==
    /\ imp[i].pc = "idle"
    /\ stateQ # <<>>
    /\ InOrder => utilityQ = <<>> /\ remover.pc = "idle"
    /\ Fetch(i, Head(stateQ))
    /\ stateQ' = Tail(stateQ)
    /\ UNCHANGED <<utilityQ, filter, lock, remover, aborts, filters, fyleVars, ourVars>>

\* The import a schedule or a user asks for; its failure is not retried.
StartImport(i) ==
    /\ imp[i].pc = "idle"
    /\ Fetch(i, 1)
    /\ UNCHANGED <<stateQ, utilityQ, filter, lock, remover, aborts, filters, fyleVars, ourVars>>

\* Fault: the expense is read without the lock.
MayUpdate_Unlocked(i, x) == lock[x] \in Importers \cup {None}

\* update_or_create locks the row of the expense until the transaction ends.
MayUpdate(i, x) == lock[x] \in {None, i}

\* "Check if an AccountingExport related to the expense object already exists"
IsFresh(x) == Containing(x) = {} /\ x \notin skipped

Upsert(i, x) ==
    /\ imp[i].pc = "upsert"
    /\ x \in imp[i].todo
    /\ MayUpdate(i, x)
    /\ lock' = [lock EXCEPT ![x] = i]
    /\ imp' = [imp EXCEPT ![i] =
                 [imp[i] EXCEPT !.todo = @ \ {x},
                                !.fresh = IF IsFresh(x) THEN @ \cup {x} ELSE @]]
    /\ UNCHANGED <<stateQ, utilityQ, filter, remover, aborts, filters, fyleVars, ourVars>>

Groups(S) == IF GroupByReport THEN {S} \ {{}} ELSE {{x} : x \in S}

Released(i) == [x \in Expenses |-> IF lock[x] = i THEN None ELSE lock[x]]

\* get_filtered_expenses, then create_accounting_export: id gives each group a
\* row, the first that are free.
CommitImport(i) ==
    /\ imp[i].pc = "upsert"
    /\ imp[i].todo = {}
    /\ LET groups == Groups(imp[i].fresh \ filter) IN
       \E id \in [groups -> FreeRows] :
         /\ \A g, h \in groups : id[g] = id[h] => g = h
         /\ \A g \in groups, r \in FreeRows : r < id[g] => \E h \in groups : id[h] = r
         /\ row' = [r \in Rows |->
                      IF \E g \in groups : id[g] = r
                      THEN [status |-> "EXPORT_READY", of |-> CHOOSE g \in groups : id[g] = r]
                      ELSE row[r]]
    /\ skipped' = skipped \cup (imp[i].fresh \cap filter)
    /\ known' = known \cup {x \in Expenses : lock[x] = i}
    /\ lock' = Released(i)
    /\ imp' = [imp EXCEPT ![i] = Idle]
    /\ UNCHANGED <<stateQ, utilityQ, filter, remover, aborts, filters, fyleVars>>

\* Fault: a message whose import failed is not published again.
AbortImport_Dropped(i) ==
    /\ imp[i].pc = "upsert"
    /\ aborts < MaxAborts
    /\ aborts' = aborts + 1
    /\ lock' = Released(i)
    /\ imp' = [imp EXCEPT ![i] = Idle]
    /\ UNCHANGED <<stateQ, utilityQ, filter, remover, filters, fyleVars, ourVars>>

\* An exception, a deadlock of two imports among them, rolls the transaction
\* back; the worker publishes a message again once.
AbortImport(i) ==
    /\ imp[i].pc = "upsert"
    /\ aborts < MaxAborts
    /\ aborts' = aborts + 1
    /\ stateQ' = IF imp[i].tries = 0 THEN Append(stateQ, 1) ELSE stateQ
    /\ lock' = Released(i)
    /\ imp' = [imp EXCEPT ![i] = Idle]
    /\ UNCHANGED <<utilityQ, filter, remover, filters, fyleVars, ourVars>>

\* The database ends one of two imports that wait for each other.
BreakDeadlock(i) ==
    /\ imp[i].pc = "upsert"
    /\ \E j \in Importers \ {i} :
         /\ imp[j].pc = "upsert"
         /\ imp[i].todo # {} /\ \A x \in imp[i].todo : lock[x] = j
         /\ imp[j].todo # {} /\ \A x \in imp[j].todo : lock[x] = i
    /\ stateQ' = IF imp[i].tries = 0 THEN Append(stateQ, 1) ELSE stateQ
    /\ lock' = Released(i)
    /\ imp' = [imp EXCEPT ![i] = Idle]
    /\ UNCHANGED <<utilityQ, filter, remover, aborts, filters, fyleVars, ourVars>>
----------------------------------------------------------------------------
(***************************************************************************)
(* handle_expense_report_change                                            *)
(***************************************************************************)

Copies(R) == {[r |-> r, status |-> row[r].status] : r \in R}

ExportsOfReport == {r \in Rows : row[r].status # "COMPLETE" /\ row[r].of \cap known # {}}

StartDeletion ==
    /\ remover.pc = "idle"
    /\ utilityQ # <<>>
    /\ Head(utilityQ).action = "ADDED_TO_REPORT"
    /\ remover' = [IdleRemover EXCEPT !.pc = "delete", !.rows = Copies(ExportsOfReport)]
    /\ UNCHANGED <<stateQ, utilityQ, filter, lock, imp, aborts, filters, fyleVars, ourVars>>

\* The handler ends; when it raised, the message is published again once.
Done(raised) ==
    /\ remover' = IdleRemover
    /\ utilityQ' = LET m == Head(utilityQ) IN
                     IF raised /\ m.tries = 0
                     THEN Append(Tail(utilityQ), [m EXCEPT !.tries = 1])
                     ELSE Tail(utilityQ)

\* Fault: nothing but the status that was read protects an export.
DeleteExport_Unprotected(c) ==
    /\ remover.pc = "delete"
    /\ c \in remover.rows
    /\ row' = IF c.status \in Active THEN row ELSE [row EXCEPT ![c.r] = NoRow]
    /\ remover' = [remover EXCEPT !.rows = @ \ {c}]
    /\ UNCHANGED utilityQ
    /\ UNCHANGED <<known, skipped, stateQ, filter, lock, imp, aborts, filters, fyleVars>>

\* The status is the one that was read with the list; a body row protects.
DeleteExport(c) ==
    /\ remover.pc = "delete"
    /\ c \in remover.rows
    /\ \/ /\ c.status \notin Active
          /\ row[c.r].status \in Posted
          /\ Done(TRUE)
          /\ UNCHANGED row
       \/ /\ c.status \in Active \/ row[c.r].status \notin Posted
          /\ row' = IF c.status \in Active THEN row ELSE [row EXCEPT ![c.r] = NoRow]
          /\ remover' = [remover EXCEPT !.rows = @ \ {c}]
          /\ UNCHANGED utilityQ
    /\ UNCHANGED <<known, skipped, stateQ, filter, lock, imp, aborts, filters, fyleVars>>

EndDeletion ==
    /\ remover.pc = "delete"
    /\ remover.rows = {}
    /\ Done(FALSE)
    /\ UNCHANGED <<stateQ, filter, lock, imp, aborts, filters, fyleVars, ourVars>>

\* An exported expense stays where it is, one of an active export as well.
StartEjection ==
    /\ remover.pc = "idle"
    /\ utilityQ # <<>>
    /\ LET m == Head(utilityQ)
           complete == {r \in Containing(m.x) : row[r].status = "COMPLETE"}
           others == Containing(m.x) \ complete
       IN
       /\ m.action = "EJECTED_FROM_REPORT"
       /\ \/ /\ complete # {} \/ others = {}
             /\ Done(FALSE)
          \/ /\ complete = {}
             /\ \E r \in others :
                  IF row[r].status \in Active THEN Done(FALSE)
                  ELSE /\ remover' = [pc |-> "eject", x |-> m.x, rows |-> Copies({r})]
                       /\ UNCHANGED utilityQ
    /\ UNCHANGED <<stateQ, filter, lock, imp, aborts, filters, fyleVars, ourVars>>

\* Fault: an export whose expenses change is made ready again.
Without_Reset(r, S) ==
    IF row[r].of \subseteq S THEN NoRow ELSE [status |-> "EXPORT_READY", of |-> row[r].of \ S]

Without(r, S) == IF row[r].of \subseteq S THEN NoRow ELSE [row[r] EXCEPT !.of = @ \ S]

EjectExpense ==
    /\ remover.pc = "eject"
    /\ \E c \in remover.rows :
         LET after == Without(c.r, {remover.x}) IN
         IF row[c.r].status \in Posted /\ after.of = {}
         THEN Done(TRUE) /\ UNCHANGED row
         ELSE Done(FALSE) /\ row' = [row EXCEPT ![c.r] = after]
    /\ UNCHANGED <<known, skipped, stateQ, filter, lock, imp, aborts, filters, fyleVars>>
----------------------------------------------------------------------------
(***************************************************************************)
(* The export of a row, and the skip rule                                  *)
(***************************************************************************)

SetStatus(r, from, to) ==
    /\ row[r].status \in from
    /\ \E s \in to : row' = [row EXCEPT ![r].status = s]
    /\ UNCHANGED <<known, skipped, stateQ, utilityQ, filter, lock, imp, remover, aborts,
                   filters, fyleVars>>

Enqueue(r) == SetStatus(r, {"EXPORT_READY", "FAILED"}, {"ENQUEUED"})
Post(r) == SetStatus(r, {"ENQUEUED"}, {"EXPORT_QUEUED", "FAILED"})
Settle(r) == SetStatus(r, {"EXPORT_QUEUED"}, {"COMPLETE", "FAILED"})

\* Saving a filter re-runs the skip rule in the same transaction: a protected
\* row that it empties undoes it all.
SaveFilter(S) ==
    LET matched == {x \in (S \cap known) \ skipped :
                      \/ Containing(x) = {}
                      \/ \E r \in Containing(x) : row[r].status # "COMPLETE"}
        affected == {r \in Rows : row[r].status # "COMPLETE" /\ row[r].of \cap matched # {}}
    IN
    /\ filters < MaxFilters
    /\ filters' = filters + 1
    /\ \A x \in matched : lock[x] = None
    /\ IF \E r \in affected : row[r].status \in Posted /\ row[r].of \subseteq matched
       THEN UNCHANGED <<filter, skipped, row>>
       ELSE /\ filter' = S
            /\ skipped' = skipped \cup matched
            /\ row' = [r \in Rows |-> IF r \in affected THEN Without(r, matched) ELSE row[r]]
    /\ UNCHANGED <<known, stateQ, utilityQ, lock, imp, remover, aborts, fyleVars>>
----------------------------------------------------------------------------
Import(i) ==
    \/ CommitImport(i) \/ BreakDeadlock(i)
    \/ \E x \in Expenses : Upsert(i, x)

RemoverStep ==
    \/ StartDeletion \/ EndDeletion \/ StartEjection \/ EjectExpense
    \/ \E c \in remover.rows : DeleteExport(c)

Next ==
    \/ \E x \in Expenses : AddToReport(x) \/ EjectFromReport(x)
    \/ Approve
    \/ \E i \in Importers :
         StartStateChange(i) \/ StartImport(i) \/ Import(i) \/ AbortImport(i)
    \/ RemoverStep
    \/ \E r \in Rows : Enqueue(r) \/ Post(r) \/ Settle(r)
    \/ \E S \in SUBSET Expenses : SaveFilter(S)

Spec == Init /\ [][Next]_vars

\* The workers keep running.
Fairness ==
    /\ \A i \in Importers : WF_vars(Import(i)) /\ SF_vars(StartStateChange(i))
    /\ WF_vars(RemoverStep)

FairSpec == Spec /\ Fairness
----------------------------------------------------------------------------
(***************************************************************************)
(* Properties                                                              *)
(***************************************************************************)

Exports == [status : {"EXPORT_READY", "ENQUEUED", "EXPORT_QUEUED", "COMPLETE", "FAILED"},
            of : (SUBSET known) \ {{}}]

Messages == [action : {"ADDED_TO_REPORT", "EJECTED_FROM_REPORT"}, x : Expenses, tries : {0, 1}]
ImportState == [pc : {"idle", "upsert"}, tries : {0, 1}, todo : SUBSET Expenses,
                fresh : SUBSET Expenses]
RowCopies == [r : Rows, status : {"EXPORT_READY", "ENQUEUED", "EXPORT_QUEUED", "FAILED"}]
RemoverState == [pc : {"idle", "delete", "eject"}, x : Expenses \cup {None},
                 rows : SUBSET RowCopies]

\* An accounting export that exists has expenses, all of them known.
TypeOK ==
    /\ inReport \subseteq Expenses
    /\ approved \in BOOLEAN
    /\ stateQ \in Seq({0, 1})
    /\ utilityQ \in Seq(Messages)
    /\ skipped \subseteq known /\ known \subseteq Expenses /\ filter \subseteq Expenses
    /\ row \in [Rows -> {NoRow} \cup Exports]
    /\ lock \in [Expenses -> Importers \cup {None}]
    /\ imp \in [Importers -> ImportState]
    /\ remover \in RemoverState
    /\ remover.pc # "idle" => utilityQ # <<>>

(* No expense is exported twice: however many imports of the report run at the
   same time, with messages that are delivered again and exports deleted under
   them, every expense is in one accounting export at most. *)
InOneExport == \A x \in Expenses : \A r, q \in Containing(x) : r = q

(* An expense of an export is not taken up again by any import as long as the
   export is there: an import that has an expense for grouping holds its lock,
   and no export has it. *)
FreshIsLocked ==
    \A i \in Importers : \A x \in imp[i].fresh : lock[x] = i /\ Containing(x) = {}

(* "Delete all non-exported accounting exports for a report ... so they can be
   recreated when the report changes to an importable state": an expense of an
   approved report is in an accounting export in the end, or skipped. *)
ApprovedIsGrouped ==
    \A x \in Expenses :
        (approved /\ x \in inReport) ~>
            (Containing(x) # {} \/ x \in skipped \/ x \notin inReport \/ ~approved)

(* Sage has a document for an export that is queued or complete: whatever the
   remover decides by a status it read earlier, and whatever an ejection or a
   skip rule takes out, the export stays and keeps an expense. The body row, which
   protects it, is all that ensures this. *)
PostedIsKept ==
    [][\A r \in Rows : row[r].status \in Posted =>
          row'[r].status # "NONE" /\ row'[r].of # {}]_vars

(* "_delete_accounting_exports_for_report skips exports with active status": an
   export that a chain has enqueued is not deleted. *)
EnqueuedIsKept ==
    [][\A r \in Rows : row[r].status = "ENQUEUED" => row'[r].status # "NONE"]_vars

(* "Skip expenses before export": an expense of a document that Sage is working
   on is not skipped. *)
QueuedIsNotSkipped ==
    [][\A r \in Rows : row[r].status = "EXPORT_QUEUED" => row[r].of \cap skipped' = {}]_vars

Contents == [r \in Rows |-> row[r].of]
WithDocument == {r \in Rows : row[r].status \in Posted}
Accepted == {r \in Rows : row[r].status = "COMPLETE"}

Once == INSTANCE GroupOnce
            WITH Exports <- Rows, of <- Contents, sent <- WithDocument, done <- Accepted

(* Imports, deletions, ejections and skip rules, with copies and statuses read
   long before, regroup expenses as GroupOnce allows: whatever they do, an expense
   is in one export, and one that Sage has a document for keeps its status and an
   expense, and gets no expense that its document does not have. *)
ImplementsGroupOnce == Once!Spec
=============================================================================
