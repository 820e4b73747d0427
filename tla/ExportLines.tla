----------------------------- MODULE ExportLines -----------------------------
(***************************************************************************)
(* What an export says to Sage 300: the body and the lines that the export *)
(* task works out from the expenses, the mappings and the settings, writes *)
(* in one transaction, and posts before it commits.                        *)
(*                                                                         *)
(*   - the IMPORT offers cost codes and cost categories in Fyle under      *)
(*     names that carry a code or not; users pick by these names;          *)
(*   - the TASK looks the picked names up again, one line after another;   *)
(*     between its statements settings, mappings and expenses may change;  *)
(*   - the POLLER learns what became of the document, and deletes body and *)
(*     lines of a refused one.                                             *)
(*                                                                         *)
(* An export is the set of its expenses.  Amounts are in tenths of a cent. *)
(***************************************************************************)
EXTENDS Naturals, FiniteSets, FiniteSetsExt, Sequences

CONSTANTS
    Expenses, Cards,
    CodeFields,             \* fields whose names may be set to carry codes
    Categories,             \* [category, sub_category] of expenses
    Amounts,
    First,                  \* First[x]: category, amount and value of the custom
                            \* field at the import
    Table,                  \* rows of cost_categories
    Items,                  \* COMMITMENT_ITEM attributes, with the vendor of
                            \* their commitment
    Vendors, Accounts, None,
    Settings,               \* export settings, with the cards of the expenses
    Mappings,               \* mappings and defaults the workspace may start with
    MaxDocs, MaxEdits       \* bounds on documents and on edits

ASSUME ExpensesAssumption == IsFiniteSet(Expenses)
ASSUME TieAssumption == \A a \in Amounts : a \in Nat /\ a % 10 # 5
ASSUME FirstAssumption ==
    \A x \in Expenses : First[x].category \in Categories /\ First[x].amount \in Amounts
ASSUME BoundsAssumption == MaxDocs \in Nat /\ MaxEdits \in Nat
ASSUME CodeFieldsAssumption == CodeFields \subseteq {"COST_CODE", "COST_CATEGORY"}
ASSUME SettingsAssumption ==
    Settings \subseteq [kind : {"PURCHASE_INVOICE", "DIRECT_COST"}, fund : {"PERSONAL", "CCC"},
                        grouping : {"REPORT", "EXPENSE"}, card : [Expenses -> Cards]]
ASSUME TableAssumption ==
    \A r \in Table, s \in Table :
        r.code = s.code => r.job = s.job /\ r.codeNo = s.codeNo /\ r.codeName = s.codeName

VARIABLES
    kind, fund, grouping,   \* export settings: the type of document, the fund
                            \* source, one export per report or per expense
    card,                   \* card[x]: corporate_card_id
    codeFields,             \* import_settings.import_code_fields
    offered,                \* cost codes and categories offered in Fyle
    expense,                \* expense[x], None before it is imported
    update,                 \* the expense a webhook is about to update, or None
    maps,                   \* mappings of categories, of the employee, of cards and
                            \* of the source fields of jobs and standard codes, with
                            \* the default vendor and accounts payable account
    row,                    \* row[g]: the export, its body and its lines
    task,                   \* the export task under way
    docs,                   \* documents in Sage 300
    edits                   \* edits so far

vars == <<kind, fund, grouping, card, codeFields, offered, expense, update, maps, row,
          task, docs, edits>>
settings == <<kind, fund, grouping, card>>
fyle == <<codeFields, offered, expense>>
----------------------------------------------------------------------------
Jobs == {r.job : r \in Table}
Destinations == {"JOB", "STANDARD_CATEGORY", "STANDARD_COST_CODE"}

\* What the expenses of a report are grouped by; the report and the employee
\* are the same for all.
GroupKey(x) == <<fund, card[x]>>

Groups ==
    IF grouping = "REPORT"
    THEN {{y \in Expenses : GroupKey(y) = GroupKey(x)} : x \in Expenses}
    ELSE {{x} : x \in Expenses}

\* The name a category is mapped by.
FullName(c) ==
    IF c.sub_category \in {None, c.category} THEN <<c.category>>
    ELSE <<c.category, c.sub_category>>
CategoryNames == {FullName(c) : c \in Categories} \cup {<<c.category>> : c \in Categories}

\* Fault: the amount is taken as it comes.
Stored_Raw(a) == a

\* round(amount, 2) of the imported expense.
Stored(a) == 10 * ((a + 5) \div 10)

\* round(amount, 2) of the body and of the line.
Round(a) == 10 * ((a + 5) \div 10)

\* prepend_code_to_name: a name without a code stays bare.
Label(prepend, no, name) == [no |-> IF prepend THEN no ELSE None, name |-> name]
CodeLabel(r) == Label("COST_CODE" \in codeFields, r.codeNo, r.codeName)
TypeLabel(r) == Label("COST_CATEGORY" \in codeFields, r.catNo, r.catName)

\* What is mapped to is a vendor, an account, a job or a standard code of Sage
\* 300, or None.
ASSUME MappingsAssumption ==
    \A m \in Mappings :
        /\ m = [account |-> m.account, vendor |-> m.vendor, source |-> m.source, id |-> m.id,
                payable |-> m.payable]
        /\ m.account \in [CategoryNames -> Accounts \cup {None}]
        /\ m.vendor \in [Cards \cup {"EMPLOYEE", "DEFAULT"} -> Vendors \cup {None}]
        /\ m.payable \in [{"PERSONAL", "CCC"} -> Accounts \cup {None}]
        /\ m.id = [d \in Destinations |-> m.id[d]]
        /\ m.id["JOB"] \in [DOMAIN m.id["JOB"] -> Jobs \cup {None}]
        /\ \A d \in Destinations \ {"JOB"} :
              m.id[d] \in [DOMAIN m.id[d] -> {"standard", None}]

NoHeader == [vendor |-> None, amount |-> 0]
NoBody == [header |-> NoHeader, lines |-> <<>>]
NewRow == [status |-> "EXPORT_READY", export_id |-> 0, body |-> NoBody]
IdleTask == [pc |-> "idle", g |-> {}, todo |-> {}, header |-> NoHeader, vendor |-> None,
             lines |-> <<>>, carried |-> None, doc |-> 0, touched |-> FALSE]

Init ==
    /\ \E s \in Settings :
         kind = s.kind /\ fund = s.fund /\ grouping = s.grouping /\ card = s.card
    /\ codeFields = {}
    /\ offered = [codes |-> {}, types |-> {}]
    /\ expense = [x \in Expenses |-> None]
    /\ update = None
    /\ maps \in Mappings
    /\ row = [g \in Groups |-> NewRow]
    /\ task = IdleTask
    /\ docs = <<>>
    /\ edits = 0
----------------------------------------------------------------------------
(***************************************************************************)
(* Names in Fyle, and expenses                                             *)
(***************************************************************************)

\* Fault: the setting may change after the import.
CodeFieldsAreFree_Always == TRUE

\* ImportSettingsSerializer.validate: no import has begun.
CodeFieldsAreFree == offered.codes = {}

ChangeCodeFields ==
    /\ CodeFieldsAreFree
    /\ \E f \in CodeFields : codeFields' = codeFields \cup {f}
    /\ codeFields' # codeFields
    /\ UNCHANGED <<settings, offered, expense, update, maps, row, task, docs, edits>>

\* A cost code is offered under its project, a cost category under the name
\* of its cost code, whatever the project.
OfferNames ==
    /\ offered.codes = {}
    /\ offered' = [codes |-> {[job |-> r.job, label |-> CodeLabel(r)] : r \in Table},
                   types |-> {[code |-> CodeLabel(r), label |-> TypeLabel(r)] : r \in Table}]
    /\ UNCHANGED <<settings, codeFields, expense, update, maps, row, task, docs, edits>>

\* What a user can fill in: nothing, or a job, one of its cost codes, and one of
\* the categories under that name.
Picks ==
    {[job |-> None, code |-> None, type |-> None]} \cup
    UNION {{[job |-> c.job, code |-> c.label, type |-> t.label] :
               t \in {u \in offered.types : u.code = c.label}} : c \in offered.codes}

\* create_expense_objects.
ExpenseOf(c, a, p, v) ==
    [category |-> c, amount |-> Stored(a), pick |-> p, custom |-> v]

\* A name in Fyle with its number, what a user picks, and an expense.
LabelType == [no : {r.codeNo : r \in Table} \cup {r.catNo : r \in Table} \cup {None},
              name : {r.codeName : r \in Table} \cup {r.catName : r \in Table}]
PickType == [job : Jobs \cup {None}, code : LabelType \cup {None}, type : LabelType \cup {None}]
ExpenseType == [category : Categories, amount : {Stored(a) : a \in Amounts}, pick : PickType,
                custom : {First[x].custom : x \in Expenses}]
ASSUME NoneAssumption == None \notin ExpenseType /\ None \notin {r.cat : r \in Table}

ImportExpenses ==
    /\ offered.codes # {}
    /\ \A x \in Expenses : expense[x] = None
    /\ \E p \in [Expenses -> Picks] :
          expense' = [x \in Expenses |-> 
                          ExpenseOf(First[x].category, First[x].amount, p[x], First[x].custom)]
    /\ UNCHANGED <<settings, codeFields, offered, update, maps, row, task, docs, edits>>

\* The task under way, if any, has been overtaken by an edit.
Touched == IF task.pc = "idle" THEN task ELSE [task EXCEPT !.touched = TRUE]

\* update_non_exported_expenses looks at the status of the export ...
SeeUpdate(x) ==
    /\ update = None
    /\ edits < MaxEdits
    /\ expense[x] # None
    /\ \E g \in Groups : x \in g /\ row[g].status \in {"EXPORT_READY", "FAILED", "FATAL"}
    /\ update' = x
    /\ edits' = edits + 1
    /\ UNCHANGED <<settings, fyle, maps, row, task, docs>>

\* ... and saves the expense as Fyle has it.
SaveUpdate ==
    /\ update # None
    /\ \E c \in Categories, a \in Amounts :
          expense' = [expense EXCEPT ![update] = ExpenseOf(c, a, @.pick, @.custom)]
    /\ update' = None
    /\ task' = Touched
    /\ UNCHANGED <<settings, codeFields, offered, maps, row, docs, edits>>

\* A user maps, unmaps, or changes a default; what was so before the import is
\* one of Mappings.
EditMappings ==
    /\ edits < MaxEdits
    /\ \A x \in Expenses : expense[x] # None
    /\ edits' = edits + 1
    /\ \/ \E n \in DOMAIN maps.account, a \in Accounts \cup {None} :
             maps' = [maps EXCEPT !.account[n] = a]
       \/ \E v \in Vendors \cup {None}, k \in DOMAIN maps.vendor :
             maps' = [maps EXCEPT !.vendor[k] = v]
       \/ \E j \in Jobs \cup {None}, p \in Jobs : maps' = [maps EXCEPT !.id["JOB"][p] = j]
    /\ maps' # maps
    /\ task' = Touched
    /\ UNCHANGED <<settings, fyle, update, row, docs>>
----------------------------------------------------------------------------
(***************************************************************************)
(* What the task looks up                                                  *)
(***************************************************************************)

\* get_vendor_id: of a card export, the first expense decides.
VendorId(x) ==
    IF fund = "PERSONAL" THEN maps.vendor["EMPLOYEE"]
    ELSE IF maps.vendor[card[x]] # None THEN maps.vendor[card[x]] ELSE maps.vendor["DEFAULT"]

TotalAmount(g) == MapThenSumSet(LAMBDA x : expense[x].amount, g)

\* Fault: every line looks its account up as the direct cost does.
LineCategory_Alone(x) == <<expense[x].category.category>>

\* The category a line looks its account up by.
LineCategory(x) ==
    IF kind = "PURCHASE_INVOICE" THEN FullName(expense[x].category)
    ELSE <<expense[x].category.category>>

\* Fault: a line without an account is written as well.
AccountFound_Any(x) == TRUE

\* account.destination_account of no mapping raises AttributeError.
AccountFound(x) == maps.account[LineCategory(x)] # None

\* get_account_payable_id: the account of the fund source, if it is set.
PayableId(a) == IF maps.payable[fund] # None THEN maps.payable[fund] ELSE a

OneOf(ids) == IF ids = {} THEN None ELSE CHOOSE i \in ids : TRUE

\* The value of the source field. Projects and cost centers are columns of the
\* expense for jobs; all other look-ups read the custom properties.
SourceValue(destination, x) ==
    LET field == maps.source[destination]
    IN CASE field = "PROJECT" /\ destination = "JOB" -> expense[x].pick.job
         [] field = "CUSTOM" -> expense[x].custom
         [] OTHER -> None

\* get_job_id, get_standard_category_id, get_standard_cost_code_id
MappedId(destination, x) ==
    LET value == SourceValue(destination, x)
    IN IF value \in DOMAIN maps.id[destination] THEN maps.id[destination][value] ELSE None

\* get_cost_code_id: with codes in the names, a row without a code is no match.
CostCodeId(x) ==
    OneOf({r.code : r \in {t \in Table :
        /\ t.job = MappedId("JOB", x) /\ CodeLabel(t) = expense[x].pick.code
        /\ "COST_CODE" \in codeFields => t.codeNo # None}})

CostCategoryId(x) ==
    OneOf({r.cat : r \in {t \in Table :
        /\ t.job = MappedId("JOB", x) /\ t.code = CostCodeId(x)
        /\ TypeLabel(t) = expense[x].pick.type
        /\ "COST_CATEGORY" \in codeFields => t.catNo # None}})

\* The first commitment item for a cost code and category counts when its
\* commitment is the vendor's.
Commitment(x) ==
    LET item == OneOf({i \in Items : i.code = CostCodeId(x) /\ i.type = CostCategoryId(x)})
    IN IF item # None /\ task.vendor # None /\ item.vendor = task.vendor THEN item ELSE None

LineOf(x, item) ==
    LET a == maps.account[LineCategory(x)]
    IN [account |-> a, payable |-> IF kind = "DIRECT_COST" THEN None ELSE PayableId(a),
        amount |-> Round(expense[x].amount), job |-> MappedId("JOB", x),
        code |-> CostCodeId(x), type |-> CostCategoryId(x), item |-> item,
        standard |-> <<MappedId("STANDARD_CATEGORY", x), MappedId("STANDARD_COST_CODE", x)>>]
----------------------------------------------------------------------------
(***************************************************************************)
(* The export task                                                         *)
(***************************************************************************)

\* validate_accounting_export
Validated(g) ==
    /\ \A x \in g : maps.account[FullName(expense[x].category)] # None
    /\ fund = "PERSONAL" => maps.vendor["EMPLOYEE"] # None

\* The selection leaves out an export that has a body, unless another chain
\* made the body after this one had selected the export.
StartTask(g) ==
    /\ task.pc = "idle"
    /\ Len(docs) < MaxDocs
    /\ \A x \in g : expense[x] # None
    /\ row[g].status \notin {"IN_PROGRESS", "COMPLETE"}
    /\ row[g].body = NoBody \/ row[g].status = "EXPORT_QUEUED"
    /\ IF Validated(g)
       THEN /\ row' = [row EXCEPT ![g].status = "IN_PROGRESS"]
            /\ task' = [IdleTask EXCEPT !.pc = "body", !.g = g]
       ELSE /\ row' = [row EXCEPT ![g].status = "FAILED"]
            /\ UNCHANGED task
    /\ UNCHANGED <<settings, fyle, update, maps, docs, edits>>

\* PurchaseInvoice.create_or_update_object; a direct cost has no body of its own.
CreateBody ==
    /\ task.pc = "body"
    /\ kind = "PURCHASE_INVOICE"
    /\ \E x \in task.g :
          task' = [task EXCEPT !.pc = "vendor",
                     !.header = [vendor |-> VendorId(x), amount |-> Round(TotalAmount(task.g))]]
    /\ UNCHANGED <<settings, fyle, update, maps, row, docs, edits>>

\* The lines look the vendor up again.
ReadVendor ==
    /\ task.pc = "vendor"
    /\ \E x \in task.g :
          task' = [task EXCEPT !.pc = "lines", !.todo = task.g, !.vendor = VendorId(x)]
    /\ UNCHANGED <<settings, fyle, update, maps, row, docs, edits>>

\* A rollback; handle_sage300_exceptions then saves the status.
Fails(status) ==
    /\ row' = [row EXCEPT ![task.g].status = status]
    /\ task' = IdleTask

WithLine(x, line) ==
    [y \in (DOMAIN task.lines) \cup {x} |-> IF y = x THEN line ELSE task.lines[y]]

\* Fault: the vendor of the commitment is not looked at.
LineItem_AnyVendor(x) ==
    LET items == {i \in Items : i.code = CostCodeId(x) /\ i.type = CostCategoryId(x)}
    IN IF items # {} THEN OneOf(items) ELSE task.carried

\* A line that finds no commitment has that of an earlier line.
LineItem(x) == IF Commitment(x) # None THEN Commitment(x) ELSE task.carried

\* One line of PurchaseInvoiceLineitems.create_or_update_object.
CreateLine(x) ==
    /\ task.pc = "lines"
    /\ x \in task.todo
    /\ IF ~AccountFound(x)
       THEN Fails("FATAL")
       ELSE /\ task' = [task EXCEPT !.todo = @ \ {x}, !.carried = LineItem(x),
                          !.lines = WithLine(x, LineOf(x, LineItem(x)))]
            /\ UNCHANGED row
    /\ UNCHANGED <<settings, fyle, update, maps, docs, edits>>

\* DirectCost.create_or_update_object: of one expense only.
CreateDirectCost ==
    /\ task.pc = "body"
    /\ kind = "DIRECT_COST"
    /\ \E x \in task.g :
          IF ~AccountFound(x)
          THEN Fails("FATAL")
          ELSE /\ task' = [task EXCEPT !.pc = "lines",
                             !.header = [vendor |-> None, amount |-> expense[x].amount],
                             !.lines = [y \in {x} |-> LineOf(x, None)]]
               /\ UNCHANGED row
    /\ UNCHANGED <<settings, fyle, update, maps, docs, edits>>

Body == [header |-> task.header, lines |-> task.lines]

\* Sage 300 takes the document. What it says is remembered with what the task
\* worked out from.
PostDocument ==
    /\ task.pc = "lines" /\ task.todo = {}
    /\ docs' = Append(docs, [body |-> Body, touched |-> task.touched])
    /\ task' = [task EXCEPT !.pc = "posted", !.doc = Len(docs) + 1]
    /\ UNCHANGED <<settings, fyle, update, maps, row, edits>>

SageRefuses ==
    /\ task.pc = "lines" /\ task.todo = {}
    /\ Fails("FAILED")
    /\ UNCHANGED <<settings, fyle, update, maps, docs, edits>>

\* Fault: the rows of an earlier attempt are kept.
Written_Kept(old, new) == IF old = NoBody THEN new ELSE old

\* update_or_create writes every field of body and lines.
Written(old, new) == new

Commit ==
    /\ task.pc = "posted"
    /\ row' = [row EXCEPT ![task.g] = [status |-> "EXPORT_QUEUED", export_id |-> task.doc,
                                       body |-> Written(@.body, Body)]]
    /\ task' = IdleTask
    /\ UNCHANGED <<settings, fyle, update, maps, docs, edits>>

\* The worker dies: nothing of the transaction stays. The recovery of stuck
\* exports, or the exception handler, leaves the row to be tried again.
Die ==
    /\ task.pc # "idle"
    /\ Fails("FAILED")
    /\ UNCHANGED <<settings, fyle, update, maps, docs, edits>>
----------------------------------------------------------------------------
(***************************************************************************)
(* The poller: Sage 300 accepted the document, or refused it               *)
(***************************************************************************)

\* A body that another transaction is writing is locked.
Polls(g) == row[g].status = "EXPORT_QUEUED" /\ task.g # g

PollAccepted(g) ==
    /\ Polls(g)
    /\ row' = [row EXCEPT ![g].status = "COMPLETE"]
    /\ UNCHANGED <<settings, fyle, update, maps, task, docs, edits>>

\* Status and error, then the lines, then the body.
PollRejected(g) ==
    /\ Polls(g)
    /\ row' = [row EXCEPT ![g].status = "FAILED", ![g].body = NoBody]
    /\ UNCHANGED <<settings, fyle, update, maps, task, docs, edits>>

Next ==
    \/ ChangeCodeFields \/ OfferNames \/ ImportExpenses
    \/ \E x \in Expenses : SeeUpdate(x) \/ CreateLine(x)
    \/ SaveUpdate \/ EditMappings
    \/ \E g \in Groups : StartTask(g) \/ PollAccepted(g) \/ PollRejected(g)
    \/ CreateBody \/ ReadVendor \/ CreateDirectCost
    \/ PostDocument \/ SageRefuses \/ Commit \/ Die

Spec == Init /\ [][Next]_vars
----------------------------------------------------------------------------
(***************************************************************************)
(* Properties                                                              *)
(***************************************************************************)

LineType == [account : Accounts, payable : Accounts \cup {None}, amount : Nat,
             job : Jobs \cup {None}, code : {r.code : r \in Table} \cup {None},
             type : {r.cat : r \in Table} \cup {None}, item : Items \cup {None},
             standard : {"standard", None} \X {"standard", None}]
HeaderType == [vendor : Vendors \cup {None}, amount : Nat]
BodyTypeOK(body) ==
    /\ body.header \in HeaderType
    /\ DOMAIN body.lines \subseteq Expenses
    /\ \A x \in DOMAIN body.lines : body.lines[x] \in LineType

\* Rows, the task, the documents and the expenses have their types: a line always
\* has an account, and names jobs, cost codes and categories of Sage 300.
TypeOK ==
    /\ \A g \in Groups :
         /\ row[g].status \in {"EXPORT_READY", "IN_PROGRESS", "FAILED", "FATAL",
                               "EXPORT_QUEUED", "COMPLETE"}
         /\ row[g].export_id \in 0..Len(docs)
         /\ BodyTypeOK(row[g].body)
    /\ task.pc \in {"idle", "body", "vendor", "lines", "posted"}
    /\ task.todo \subseteq task.g
    /\ BodyTypeOK(Body)
    /\ \A d \in DOMAIN docs : BodyTypeOK(docs[d].body)
    /\ expense \in [Expenses -> ExpenseType \cup {None}]

\* The amount in the header of a document is the sum of its lines, although
\* sums and lines are rounded apart (base_model.py:116, models.py:52 and :158),
\* unless an expense was updated while the task worked it out.
HeaderIsSum ==
    \A d \in DOMAIN docs : ~docs[d].touched =>
        docs[d].body.header.amount =
            MapThenSumSet(LAMBDA x : docs[d].body.lines[x].amount, DOMAIN docs[d].body.lines)

\* Body and lines in the database are those of the document that export_id
\* names: after rollbacks, refused documents, deaths after Sage's answer, and a
\* second chain that writes over the rows of the first.
StoredIsPosted ==
    \A g \in Groups : row[g].status \in {"EXPORT_QUEUED", "COMPLETE"} =>
        row[g].body = docs[row[g].export_id].body

\* A label stands for a number or for any; WithCode says that codes are not in
\* use, or that the row has one.
Stands(label, no, name) == label # None /\ label.name = name /\ label.no \in {None, no}
WithCode(f, no) == f \in codeFields => no # None
RowsPicked(x) ==
    {r \in Table : /\ r.job = expense[x].pick.job
                   /\ Stands(expense[x].pick.code, r.codeNo, r.codeName)
                   /\ WithCode("COST_CODE", r.codeNo)}

\* What a user picked by the names offered in Fyle is found again by the look-up
\* of the task: the cost code, and the category when the cost code has it in
\* that job. Rows without a code are lost when names carry codes: they are
\* offered under their bare name (mappings/helpers.py:11), and not looked up
\* (base_model.py:204); so are all when the project is mapped to another job.
PickedIsFound ==
    \A x \in Expenses : expense[x] # None /\ MappedId("JOB", x) = expense[x].pick.job =>
        /\ RowsPicked(x) # {} => \E r \in RowsPicked(x) : r.code = CostCodeId(x)
        /\ (\E r \in RowsPicked(x) :
              /\ r.code = CostCodeId(x)
              /\ Stands(expense[x].pick.type, r.catNo, r.catName)
              /\ WithCode("COST_CATEGORY", r.catNo)) => CostCategoryId(x) # None

\* A commitment on a document is for the cost code and category of one of its
\* lines, and is a commitment with the document's vendor: none comes from
\* another export, an earlier attempt or another vendor, unless mappings
\* changed while the task worked.
CommitmentOfDocument ==
    \A d \in DOMAIN docs : ~docs[d].touched =>
        \A x \in DOMAIN docs[d].body.lines :
            LET i == docs[d].body.lines[x].item IN
            i # None => /\ i.vendor = docs[d].body.header.vendor
                        /\ \E y \in DOMAIN docs[d].body.lines :
                              docs[d].body.lines[y].code = i.code
                              /\ docs[d].body.lines[y].type = i.type

\* An export that passed the validation fails for want of an account only when
\* a mapping was taken away since, or the direct cost looks up another name
\* than the validation did (direct_cost/models.py:55).
FatalIsARace ==
    [][\A g \in Groups : row[g].status # "FATAL" /\ row'[g].status = "FATAL" =>
          \/ task.touched
          \/ kind = "DIRECT_COST" /\ \E x \in g :
                FullName(expense[x].category) # <<expense[x].category.category>>]_vars

\* Every line has a commitment of its own cost code and category, or none. TLC
\* refutes it: commitment_id is initialised before the loop over the expenses
\* (purchase_invoice/models.py:102).
CommitmentIsForLine ==
    \A d \in DOMAIN docs : \A x \in DOMAIN docs[d].body.lines :
        LET line == docs[d].body.lines[x] IN
        line.item # None => line.item.code = line.code /\ line.item.type = line.type
=============================================================================
