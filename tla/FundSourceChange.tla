-------------------------- MODULE FundSourceChange --------------------------
(***************************************************************************)
(* Expenses of one report change their fund source after they have been    *)
(* grouped into accounting exports: the exports they touch are deleted and *)
(* made anew, at once or, when one of them is being exported, by a task    *)
(* that a schedule runs again later.                                       *)
(*                                                                         *)
(* A HANDLER is a worker in handle_fund_source_changes_for_expense_ids: it *)
(* reads the affected exports, and deletes and creates rows afterwards, in *)
(* one transaction at READ COMMITTED. ExpenseImport has the other ways in  *)
(* which exports come and go.                                              *)
(***************************************************************************)
EXTENDS Naturals

CONSTANTS
    Expenses,    \* expenses of the report
    Rows,        \* ids of accounting exports
    Handlers,    \* handlers that may run at the same time
    MaxChanges,  \* bound on changes of fund source
    Repeats,     \* how often the schedule runs the task
    Groupings    \* how the export settings may group the two fund sources

ASSUME BoundsAssumption == MaxChanges \in Nat /\ Repeats \in Nat \ {0}
ASSUME GroupingsAssumption == Groupings \subseteq [{"PERSONAL", "CCC"} -> {"report", "expense"}]

VARIABLES
    grouping,  \* the export settings: how each fund source is grouped
    exported,  \* the export settings: fund sources with an export type
    fund,      \* fund[x]: fund_source of the expense
    skipped,   \* expenses with is_skipped
    row,       \* accounting_exports
    schedule,  \* the retry tasks: the change each is for, and its runs left
    handler,   \* local state of each handler
    refused,   \* history: expenses whose regrouping a posted export refused
    changes

vars == <<grouping, exported, fund, skipped, row, schedule, handler, refused, changes>>
----------------------------------------------------------------------------
Funds == {"PERSONAL", "CCC"}
NoRow == [status |-> "NONE", fund |-> "PERSONAL", of |-> {}]
Statuses == {"EXPORT_READY", "ENQUEUED", "EXPORT_QUEUED", "COMPLETE", "FAILED"}
Busy == {"ENQUEUED", "EXPORT_QUEUED"}

\* changed: the expenses whose fund source changed. of: affected_fund_source_
\* expense_ids, for the fund sources in keys. flip: changes not committed yet.
Change == [changed : SUBSET Expenses, keys : SUBSET Funds, of : [Funds -> SUBSET Expenses],
           flip : SUBSET Expenses, retry : BOOLEAN]
Copies == [r : Rows, status : Statuses, of : SUBSET Expenses]
NoChange == [changed |-> {}, keys |-> {}, of |-> [f \in Funds |-> {}],
             flip |-> {}, retry |-> FALSE]
IdleHandler == [pc |-> "idle", change |-> NoChange, copies |-> {}]

Other(f) == IF f = "PERSONAL" THEN "CCC" ELSE "PERSONAL"
Flipped(S) == [x \in Expenses |-> IF x \in S THEN Other(fund[x]) ELSE fund[x]]
Containing(x) == {r \in Rows : x \in row[r].of}

\* _group_expenses, for the expenses of one report.
Groups(S, f) == IF grouping[f] = "report" THEN {S} \ {{}} ELSE {{x} : x \in S}

Init ==
    /\ grouping \in Groupings
    /\ exported \in (SUBSET Funds) \ {{}}
    /\ fund \in [Expenses -> exported]
    /\ skipped = {}
    /\ row \in [Rows -> {NoRow} \cup [status : {"EXPORT_READY"}, fund : exported,
                                      of : (SUBSET Expenses) \ {{}}]]
    /\ {<<row[r].fund, row[r].of>> : r \in {q \in Rows : row[q] # NoRow}} =
          UNION {{f} \X Groups({x \in Expenses : fund[x] = f}, f) : f \in Funds}
    /\ \A x \in Expenses : \E r \in Rows : Containing(x) = {r}
    /\ schedule = {}
    /\ handler = [h \in Handlers |-> IdleHandler]
    /\ refused = {}
    /\ changes = 0
----------------------------------------------------------------------------
\* Fault: the filter asks for the changed expenses, whatever the grouping.
Matching_Changed(r, change) == row[r].of \cap change.changed

\* construct_filter_for_affected_accounting_exports, on the join of a row and
\* its expenses: the expenses of r that match. For two groupings that differ,
\* a fund source brings in one kind of the report's rows, and its own expenses.
Matching(r, change) ==
    LET whole(f) == row[r].fund = IF grouping["PERSONAL"] = "report" THEN f ELSE Other(f)
    IN
    IF grouping["PERSONAL"] # grouping["CCC"]
    THEN UNION {IF whole(f) THEN row[r].of ELSE row[r].of \cap change.of[f] : f \in change.keys}
    ELSE IF grouping["CCC"] = "report" THEN row[r].of
    ELSE row[r].of \cap change.changed

Affected(change) ==
    {r \in Rows : row[r].status \notin {"NONE", "COMPLETE"} /\ Matching(r, change) # {}}

\* The transaction reads the rows, and affected_expense_ids from the same join.
ReadAffected(h, change) ==
    handler' = [handler EXCEPT ![h] =
        IF Affected(change) = {} THEN IdleHandler
        ELSE [pc |-> "read", change |-> change,
              copies |-> {[r |-> r, status |-> row[r].status, of |-> Matching(r, change)] :
                            r \in Affected(change)}]]

\* update_non_exported_expenses saves the expense, and calls the handler then.
SaveFundSource(h, x) ==
    /\ handler[h].pc = "idle"
    /\ changes < MaxChanges
    /\ changes' = changes + 1
    /\ \E r \in Containing(x) : row[r].status \in {"EXPORT_READY", "FAILED"}
    /\ fund' = Flipped({x})
    /\ handler' = [handler EXCEPT ![h] = [pc |-> "saved", copies |-> {}, change |->
          [changed |-> {x}, keys |-> {fund[x]},
           of |-> [f \in Funds |-> IF f = fund[x] THEN {x} ELSE {}],
           flip |-> {}, retry |-> FALSE]]]
    /\ UNCHANGED <<grouping, exported, skipped, row, schedule, refused>>

HandleSaved(h) ==
    /\ handler[h].pc = "saved"
    /\ ReadAffected(h, handler[h].change)
    /\ UNCHANGED <<grouping, exported, fund, skipped, row, schedule, refused, changes>>

\* handle_expense_fund_source_change, in the transaction of an import, saves the
\* new fund sources of the expenses S, and passes on both old ones.
ImportFundSources(h, S) ==
    /\ handler[h].pc = "idle"
    /\ changes < MaxChanges
    /\ changes' = changes + 1
    /\ S # {}
    /\ LET change == [changed |-> S, keys |-> Funds,
                      of |-> [f \in Funds |-> {x \in S : fund[x] = f}],
                      flip |-> S, retry |-> FALSE]
       IN
       /\ ReadAffected(h, change)
       /\ fund' = IF Affected(change) = {} THEN Flipped(S) ELSE fund
    /\ UNCHANGED <<grouping, exported, skipped, row, schedule, refused>>

\* The schedule runs the task; with no runs left its row stays, and is never
\* run again.
RunRetry(h, entry) ==
    /\ handler[h].pc = "idle"
    /\ entry.left > 0
    /\ schedule' = (schedule \ {entry}) \cup {[entry EXCEPT !.left = @ - 1]}
    /\ ReadAffected(h, entry.change)
    /\ UNCHANGED <<grouping, exported, fund, skipped, row, refused, changes>>
----------------------------------------------------------------------------
Processable(copy) == copy.status \notin Busy
Processed(h) == {copy.r : copy \in {c \in handler[h].copies : Processable(c)}}
\* Fault: one is enough.
AllProcessed_Any(h) == \E copy \in handler[h].copies : Processable(copy)

AllProcessed(h) == \A copy \in handler[h].copies : Processable(copy)

\* Fault: they are deleted with the export.
Protected_Never(r) == row[r].status = "COMPLETE"

\* What Purchase Invoices and the like refer to cannot be deleted.
Protected(r) == row[r].status \in {"EXPORT_QUEUED", "COMPLETE"}

\* recreate_accounting_exports takes what no completed export alone holds.
Recreated(h) ==
    LET deleted(r) == r \in Processed(h)
    IN {x \in UNION {copy.of : copy \in handler[h].copies} :
          \/ \A r \in Containing(x) : deleted(r)
          \/ \E r \in Containing(x) : ~deleted(r) /\ row[r].status # "COMPLETE"}

NewGroups(h) ==
    LET now == Flipped(handler[h].change.flip)
    IN UNION {{f} \X Groups({x \in Recreated(h) : now[x] = f}, f) : f \in exported}

\* ids that nothing refers to
Free(h) ==
    {r \in Rows : /\ row[r] = NoRow \/ r \in Processed(h)
                  /\ \A g \in Handlers \ {h} : \A copy \in handler[g].copies : copy.r # r}

\* The rows are deleted and the expenses grouped anew.
Recreate(h) ==
    /\ AllProcessed(h)
    /\ \E new \in [NewGroups(h) -> Free(h)] :
         /\ \A a, b \in NewGroups(h) : new[a] = new[b] => a = b
         /\ row' = [r \in Rows |->
               IF \E g \in NewGroups(h) : new[g] = r
               THEN LET g == CHOOSE g \in NewGroups(h) : new[g] = r
                    IN [status |-> "EXPORT_READY", fund |-> g[1], of |-> g[2]]
               ELSE IF r \in Processed(h) THEN NoRow ELSE row[r]]
    /\ skipped' = skipped \cup {x \in Recreated(h) :
                                  Flipped(handler[h].change.flip)[x] \notin exported}
    /\ schedule' = IF handler[h].change.retry
                   THEN {entry \in schedule : entry.change.changed # handler[h].change.changed}
                   ELSE schedule

\* Fault: a task that is run again is not scheduled again.
Postpone_Once(h) ==
    /\ ~AllProcessed(h)
    /\ row' = [r \in Rows |-> IF r \in Processed(h) THEN NoRow ELSE row[r]]
    /\ UNCHANGED <<schedule, skipped>>

\* Some are being exported: the others are deleted, and the task is scheduled.
Postpone(h) ==
    LET change == [handler[h].change EXCEPT !.flip = {}, !.retry = TRUE]
    IN
    /\ ~AllProcessed(h)
    /\ row' = [r \in Rows |-> IF r \in Processed(h) THEN NoRow ELSE row[r]]
    /\ schedule' = IF \E entry \in schedule : entry.change.changed = change.changed
                   THEN schedule
                   ELSE schedule \cup {[change |-> change, left |-> Repeats]}
    /\ UNCHANGED skipped

\* handle_fund_source_changes_for_expense_ids, after its reads.
Commit(h) ==
    /\ handler[h].pc = "read"
    /\ ~\E r \in Processed(h) : Protected(r)
    /\ Recreate(h) \/ Postpone(h)
    /\ fund' = Flipped(handler[h].change.flip)
    /\ handler' = [handler EXCEPT ![h] = IdleHandler]
    /\ UNCHANGED <<grouping, exported, refused, changes>>

\* ProtectedError: the transaction of the handler is rolled back, and the import
\* goes on. The fund source saved before stays, and no message will bring the
\* change again: neither the worker's retry of an update nor the next import
\* finds a difference.
RollBack(h) ==
    /\ handler[h].pc = "read"
    /\ \E r \in Processed(h) : Protected(r)
    /\ fund' = Flipped(handler[h].change.flip)
    /\ refused' = refused \cup handler[h].change.changed
    /\ handler' = [handler EXCEPT ![h] = IdleHandler]
    /\ UNCHANGED <<grouping, exported, skipped, row, schedule, changes>>
----------------------------------------------------------------------------
SetStatus(r, from, status) ==
    /\ row[r].status \in from
    /\ row' = [row EXCEPT ![r].status = status]
    /\ UNCHANGED <<grouping, exported, fund, skipped, schedule, handler, refused, changes>>

\* ExportLifecycle has the export in full.
Enqueue(r) == SetStatus(r, {"EXPORT_READY", "FAILED"}, "ENQUEUED")
Post(r) == SetStatus(r, {"ENQUEUED"}, "EXPORT_QUEUED")
Complete(r) == SetStatus(r, {"EXPORT_QUEUED"}, "COMPLETE")
Fail(r) == SetStatus(r, Busy, "FAILED")

Next ==
    \/ \E h \in Handlers :
         \/ \E x \in Expenses : SaveFundSource(h, x)
         \/ HandleSaved(h)
         \/ \E S \in SUBSET Expenses : ImportFundSources(h, S)
         \/ \E entry \in schedule : RunRetry(h, entry)
         \/ Commit(h)
         \/ RollBack(h)
    \/ \E r \in Rows : Enqueue(r) \/ Post(r) \/ Complete(r) \/ Fail(r)

Spec == Init /\ [][Next]_vars
----------------------------------------------------------------------------
TypeOK ==
    /\ grouping \in Groupings
    /\ exported \in SUBSET Funds
    /\ fund \in [Expenses -> Funds]
    /\ skipped \in SUBSET Expenses
    /\ row \in [Rows -> [status : Statuses \cup {"NONE"}, fund : Funds, of : SUBSET Expenses]]
    /\ schedule \subseteq [change : Change, left : 0..Repeats]
    /\ handler \in [Handlers -> [pc : {"idle", "saved", "read"}, change : Change,
                                 copies : SUBSET Copies]]
    /\ refused \subseteq Expenses
    /\ changes \in 0..MaxChanges

\* What leaves one export enters at most one other: an expense that two rows
\* hold would be posted to Sage twice (recreate_accounting_exports asks only
\* that no export of it was completed).
InOneExport ==
    \A x \in Expenses : \A r, s \in Containing(x) : r = s

\* The rows a Sage document was made from are never deleted or changed, though
\* a handler acts on a status it read before the document was there.
PostedIsKept ==
    [][\A r \in Rows : row[r].status \in {"EXPORT_QUEUED", "COMPLETE"} =>
                          row'[r].of = row[r].of]_vars

\* After an expense has changed its fund source, no export waits with it under
\* the old one, unless a handler or the schedule (which may be spent) is still
\* to regroup it, or a posted export has refused to be deleted for it.
FundsAgree ==
    \A r \in Rows : row[r].status \in {"EXPORT_READY", "FAILED"} =>
        \A x \in row[r].of :
            \/ fund[x] = row[r].fund
            \/ x \in refused
            \/ \E entry \in schedule : x \in entry.change.changed
            \/ \E h \in Handlers : x \in handler[h].change.changed

\* Where both fund sources are grouped by report, the handlers leave at most one
\* open export of the report for each; where they are grouped by expense, every
\* export has one expense ("Recreate accounting exports using standard grouping
\* logic").
GroupedAsSet ==
    /\ \A r \in Rows : grouping = [f \in Funds |-> "expense"] => \A x, y \in row[r].of : x = y
    /\ \A r, s \in Rows :
         (/\ grouping = [f \in Funds |-> "report"]
          /\ {row[r].status, row[s].status} \cap {"NONE", "COMPLETE"} = {}
          /\ row[r].fund = row[s].fund) => r = s

\* When nothing is being exported, an expense that was in an export is still in
\* one afterwards, or skipped, whatever its fund sources are grouped by.
NoneLost ==
    [][(\A r \in Rows : row[r].status \notin Busy) =>
         \A x \in Expenses : Containing(x) # {} =>
             Containing(x)' # {} \/ x \in skipped']_vars

Contents == [r \in Rows |-> row[r].of]
WithDocument == {r \in Rows : row[r].status \in {"EXPORT_QUEUED", "COMPLETE"}}
Accepted == {r \in Rows : row[r].status = "COMPLETE"}

Once == INSTANCE GroupOnce
            WITH Exports <- Rows, of <- Contents, sent <- WithDocument, done <- Accepted

\* A handler that deletes and makes exports anew, while they are being exported,
\* regroups expenses as GroupOnce allows: an expense is in one export, and one
\* that Sage has a document for is not regrouped.
ImplementsGroupOnce == Once!Spec
============================================================================
