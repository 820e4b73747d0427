------------------------ MODULE ExpenseImportProofs ------------------------
(***************************************************************************)
(* No expense is in two accounting exports (InOneExport), for any number   *)
(* of expenses, concurrent imports and events.                             *)
(*                                                                         *)
(* InOneExport is not inductive: a commit puts the expenses of an import's *)
(* fresh set into new exports, and nothing in InOneExport says that they   *)
(* are in none. FreshIsLocked does: an expense in the fresh set of an      *)
(* import is locked by it, hence in no other fresh set, and is in no       *)
(* export. It is kept because an expense enters an export only through the *)
(* commit of the import that holds its lock. With PostedIsKept it gives    *)
(* that the module implements GroupOnce.                                   *)
(***************************************************************************)
EXTENDS ExpenseImport, TLAPS

Inv == TypeOK /\ FreshIsLocked /\ InOneExport

(* The invariant holds of the initial states. *)
LEMMA Initially == Init => Inv
<1> SUFFICES ASSUME Init PROVE Inv
  OBVIOUS
<1>1. TypeOK
  <2>1. stateQ \in Seq({0, 1})
    BY DEF Init
  <2>2. utilityQ \in Seq(Messages)
    BY DEF Init
  <2> QED BY <2>1, <2>2 DEF Init, TypeOK, Idle, IdleRemover, ImportState, RemoverState
<1>2. FreshIsLocked /\ InOneExport
  BY DEF Init, FreshIsLocked, InOneExport, Containing, Idle, NoRow
<1> QED BY <1>1, <1>2 DEF Inv

(* What Without leaves is an export with expenses, or no export. *)
LEMMA WithoutType ==
    ASSUME TypeOK, NEW r \in Rows, NEW S
    PROVE  /\ Without(r, S).of \subseteq row[r].of
           /\ row[r] # NoRow =>
                Without(r, S) \in {NoRow} \cup Exports
           /\ row[r] = NoRow => Without(r, S) = NoRow
<1>1. row[r] \in {NoRow} \cup Exports
  BY DEF TypeOK
<1>2. CASE row[r] = NoRow
  BY <1>2 DEF Without, NoRow
<1>3. CASE row[r] \in Exports /\ row[r].of \subseteq S
  BY <1>3 DEF Without, NoRow, Exports
<1>4. CASE row[r] \in Exports /\ ~(row[r].of \subseteq S)
  BY <1>4 DEF Without, NoRow, Exports
<1> QED BY <1>1, <1>2, <1>3, <1>4

(* Exports that only lose expenses, while the imports and their locks stay,
   keep FreshIsLocked and InOneExport. *)
LEMMA Shrinking ==
    ASSUME Inv, UNCHANGED <<imp, lock>>,
           \A r \in Rows : row'[r].of \subseteq row[r].of
    PROVE  FreshIsLocked' /\ InOneExport'
BY DEF Inv, FreshIsLocked, InOneExport, Containing

(* An import that gives up its locks and its fresh set disturbs no other. *)
LEMMA Releasing ==
    ASSUME Inv, NEW i \in Importers, lock' = Released(i), row' = row,
           imp' = [imp EXCEPT ![i] = Idle]
    PROVE  /\ FreshIsLocked' /\ InOneExport'
           /\ lock' \in [Expenses -> Importers \cup {None}]
BY DEF Inv, TypeOK, FreshIsLocked, InOneExport, Containing, Released, Idle, ImportState

(* The heart of it: the groups of a commit are disjoint, and so are they from
   the exports that are there. *)
LEMMA Committing ==
    ASSUME Inv, NEW i \in Importers, CommitImport(i)
    PROVE  FreshIsLocked' /\ InOneExport'
<1> DEFINE kept == imp[i].fresh \ filter
           groups == Groups(kept)
<1>1. PICK id \in [groups -> FreeRows] :
        /\ \A g, h \in groups : id[g] = id[h] => g = h
        /\ row' = [r \in Rows |->
                     IF \E g \in groups : id[g] = r
                     THEN [status |-> "EXPORT_READY", of |-> CHOOSE g \in groups : id[g] = r]
                     ELSE row[r]]
  BY DEF CommitImport
<1>2. \A g \in groups : g \subseteq kept
  BY DEF Groups
<1>3. \A g, h \in groups, x \in Expenses : x \in g /\ x \in h => g = h
  BY DEF Groups
<1> HIDE DEF groups
<1>4. ASSUME NEW r \in Rows, NEW g \in groups, id[g] = r
      PROVE  row'[r].of = g
  <2>1. (CHOOSE h \in groups : id[h] = r) = g
    BY <1>1, <1>4
  <2> QED BY <1>1, <1>4, <2>1
<1>5. ASSUME NEW r \in Rows, ~\E g \in groups : id[g] = r
      PROVE  row'[r].of = row[r].of
  BY <1>1, <1>5
<1>6. ASSUME NEW x \in Expenses, x \in kept
      PROVE  Containing(x) = {}
  BY <1>6 DEF Inv, FreshIsLocked
<1>7. ASSUME NEW x \in Expenses, x \notin kept
      PROVE  Containing(x)' \subseteq Containing(x)
  BY <1>2, <1>4, <1>5, <1>7 DEF Containing
<1>8. InOneExport'
  <2> SUFFICES ASSUME NEW x \in Expenses, NEW r \in Containing(x)', NEW q \in Containing(x)'
               PROVE  r = q
    BY DEF InOneExport
  <2>1. CASE x \notin kept
    BY <2>1, <1>7 DEF Inv, InOneExport
  <2>2. CASE x \in kept
    <3>1. r \in Rows /\ q \in Rows /\ x \in row'[r].of /\ x \in row'[q].of
      BY DEF Containing
    <3>2. x \notin row[r].of /\ x \notin row[q].of
      BY <2>2, <1>6, <3>1 DEF Containing
    <3>3. PICK g \in groups : id[g] = r
      BY <1>5, <3>1, <3>2
    <3>4. PICK h \in groups : id[h] = q
      BY <1>5, <3>1, <3>2
    <3>5. x \in g /\ x \in h
      BY <1>4, <3>1, <3>3, <3>4
    <3> QED BY <1>3, <3>3, <3>4, <3>5
  <2> QED BY <2>1, <2>2
<1>9. FreshIsLocked'
  <2>1. imp' = [imp EXCEPT ![i] = Idle] /\ lock' = Released(i)
    BY DEF CommitImport
  <2> SUFFICES ASSUME NEW j \in Importers, NEW x \in imp'[j].fresh
               PROVE  lock'[x] = j /\ Containing(x)' = {}
    BY DEF FreshIsLocked
  <2>2. j # i /\ imp'[j] = imp[j]
    BY <2>1 DEF Inv, TypeOK, Idle, ImportState
  <2>3. x \in Expenses /\ lock[x] = j /\ Containing(x) = {}
    BY <2>2 DEF Inv, TypeOK, FreshIsLocked, ImportState
  <2>4. x \notin kept
    BY <2>2, <2>3 DEF Inv, FreshIsLocked
  <2> QED BY <2>1, <2>2, <2>3, <2>4, <1>7 DEF Released
<1> QED BY <1>8, <1>9

(* An upsert takes the lock before it looks for an export of the expense. *)
LEMMA Upserting ==
    ASSUME Inv, NEW i \in Importers, NEW x \in Expenses, Upsert(i, x)
    PROVE  TypeOK' /\ FreshIsLocked' /\ InOneExport'
<1> DEFINE fresh == IF IsFresh(x) THEN imp[i].fresh \cup {x} ELSE imp[i].fresh
           todo == imp[i].todo \ {x}
<1>0. /\ fresh \subseteq Expenses /\ todo \subseteq Expenses
      /\ \A y \in fresh : y \in imp[i].fresh \/ (y = x /\ IsFresh(x))
  BY DEF Inv, TypeOK, ImportState
<1>1. /\ lock' = [lock EXCEPT ![x] = i]
      /\ lock[x] \in {None, i}
      /\ imp' = [imp EXCEPT ![i] = [@ EXCEPT !.todo = todo, !.fresh = fresh]]
      /\ row' = row
  <2>1. imp' = [imp EXCEPT ![i] = [@ EXCEPT !.todo = todo, !.fresh = fresh]]
    BY Zenon DEF Upsert
  <2> QED BY <2>1 DEF Upsert, MayUpdate, ourVars
<1> HIDE DEF fresh, todo
<1>2. TypeOK'
  <2>1. imp' \in [Importers -> ImportState]
    <3>1. imp \in [Importers -> ImportState]
      BY DEF Inv, TypeOK
    <3>2. [imp[i] EXCEPT !.todo = todo, !.fresh = fresh] \in ImportState
      BY <1>0, <3>1 DEF ImportState
    <3> QED BY <1>1, <3>1, <3>2
  <2>2. UNCHANGED <<inReport, approved, stateQ, utilityQ, known, skipped, filter, remover>>
    BY DEF Upsert, ourVars, fyleVars
  <2>3. Exports' = Exports
    BY <2>2 DEF Exports
  <2> QED BY <1>1, <2>1, <2>2, <2>3 DEF Inv, TypeOK
<1>3. FreshIsLocked'
  <2> SUFFICES ASSUME NEW j \in Importers, NEW y \in imp'[j].fresh
               PROVE  lock'[y] = j /\ Containing(y)' = {}
    BY DEF FreshIsLocked
  <2>1. Containing(y)' = Containing(y)
    BY <1>1 DEF Containing
  <2>2. CASE y \in imp[j].fresh
    BY <1>1, <2>1, <2>2, NoneAssumption DEF Inv, TypeOK, FreshIsLocked, ImportState
  <2>3. CASE y \notin imp[j].fresh
    <3>1. j = i /\ y = x /\ IsFresh(x)
      <4>1. imp'[i].fresh = fresh
        BY <1>1 DEF Inv, TypeOK, ImportState
      <4>2. j # i => imp'[j] = imp[j]
        BY <1>1 DEF Inv, TypeOK, ImportState
      <4> QED BY <1>0, <2>3, <4>1, <4>2
    <3> QED BY <1>1, <2>1, <3>1 DEF Inv, TypeOK, IsFresh
  <2> QED BY <2>2, <2>3
<1>4. InOneExport'
  BY <1>1 DEF Inv, InOneExport, Containing
<1> QED BY <1>2, <1>3, <1>4

(* The utility worker takes its message from the queue, and puts it back once. *)
LEMMA DoneType ==
    ASSUME TypeOK, utilityQ # <<>>, NEW raised \in BOOLEAN, Done(raised)
    PROVE  utilityQ' \in Seq(Messages) /\ remover' \in RemoverState
<1>1. Head(utilityQ) \in Messages /\ Tail(utilityQ) \in Seq(Messages)
  BY DEF TypeOK
<1>2. [Head(utilityQ) EXCEPT !.tries = 1] \in Messages
  BY <1>1 DEF Messages
<1>3. utilityQ' \in Seq(Messages)
  BY <1>1, <1>2 DEF Done
<1>4. remover' \in RemoverState
  BY DEF Done, IdleRemover, RemoverState
<1> QED BY <1>3, <1>4

(* The copies of rows the utility worker holds are of exports that are there. *)
LEMMA CopiesType ==
    ASSUME TypeOK, NEW R \in SUBSET Rows,
           \A r \in R : row[r] # NoRow /\ row[r].status # "COMPLETE"
    PROVE  Copies(R) \in SUBSET RowCopies
BY DEF TypeOK, Copies, RowCopies, Exports

(* A step of Fyle, or of the start of an import, leaves our rows alone. *)
LEMMA FyleSteps ==
    ASSUME Inv,
           \/ \E x \in Expenses : AddToReport(x) \/ EjectFromReport(x)
           \/ Approve
    PROVE  Inv'
<1>1. UNCHANGED <<known, skipped, row, filter, lock, imp, remover>>
  BY DEF AddToReport, EjectFromReport, Approve, ourVars
<1>2. FreshIsLocked' /\ InOneExport'
  BY <1>1, Shrinking
<1>3. /\ stateQ' \in Seq({0, 1}) /\ utilityQ' \in Seq(Messages)
      /\ utilityQ # <<>> => utilityQ' # <<>>
  <2>1. stateQ \in Seq({0, 1}) /\ utilityQ \in Seq(Messages)
    BY DEF Inv, TypeOK
  <2>2. ASSUME NEW x \in Expenses, AddToReport(x) \/ EjectFromReport(x)
        PROVE  stateQ' = stateQ /\ \E m \in Messages : utilityQ' = Append(utilityQ, m)
    BY <2>2 DEF AddToReport, EjectFromReport, Messages
  <2>3. ASSUME Approve
        PROVE  utilityQ' = utilityQ /\ stateQ' = Append(stateQ, 0)
    BY <2>3 DEF Approve
  <2>4. \A m \in Messages : Append(utilityQ, m) \in Seq(Messages) /\ Append(utilityQ, m) # <<>>
    BY <2>1
  <2>5. Append(stateQ, 0) \in Seq({0, 1})
    BY <2>1
  <2> QED BY <2>1, <2>2, <2>3, <2>4, <2>5
<1>4. inReport' \subseteq Expenses /\ approved' \in BOOLEAN
  BY DEF AddToReport, EjectFromReport, Approve, Inv, TypeOK
<1>5. TypeOK'
  BY <1>1, <1>3, <1>4 DEF Inv, TypeOK, Exports
<1> QED BY <1>2, <1>5 DEF Inv

(* An import begins with an empty fresh set. *)
LEMMA Starting ==
    ASSUME Inv, NEW i \in Importers, StartStateChange(i) \/ StartImport(i)
    PROVE  Inv'
<1>1. UNCHANGED <<known, skipped, row, filter, lock, remover, utilityQ, inReport, approved>>
  BY DEF StartStateChange, StartImport, ourVars, fyleVars
<1>2. PICK tries \in {0, 1} : Fetch(i, tries) /\ stateQ' \in Seq({0, 1})
  <2>1. stateQ \in Seq({0, 1})
    BY DEF Inv, TypeOK
  <2>2. stateQ # <<>> => Head(stateQ) \in {0, 1} /\ Tail(stateQ) \in Seq({0, 1})
    BY <2>1
  <2>3. CASE StartStateChange(i)
    BY <2>2, <2>3 DEF StartStateChange
  <2>4. CASE StartImport(i)
    BY <2>1, <2>4 DEF StartImport
  <2> QED BY <2>3, <2>4
<1>3. PICK s \in ImportState : imp' = [imp EXCEPT ![i] = s] /\ s.fresh = {}
  <2>1. Idle \in ImportState /\ Idle.fresh = {}
    BY DEF Idle, ImportState
  <2> DEFINE begun == [pc |-> "upsert", tries |-> tries, todo |-> inReport, fresh |-> {}]
  <2>2. begun \in ImportState /\ begun.fresh = {}
    BY DEF Inv, TypeOK, ImportState
  <2>3. CASE approved /\ inReport # {}
    BY <1>2, <2>2, <2>3 DEF Fetch
  <2>4. CASE ~(approved /\ inReport # {})
    BY <1>2, <2>1, <2>4 DEF Fetch
  <2> QED BY <2>3, <2>4
<1>4. TypeOK'
  BY <1>1, <1>2, <1>3 DEF Inv, TypeOK, Exports
<1>5. \A j \in Importers : imp'[j].fresh \subseteq imp[j].fresh
  BY <1>3 DEF Inv, TypeOK
<1>6. FreshIsLocked' /\ InOneExport'
  BY <1>1, <1>5 DEF Inv, FreshIsLocked, InOneExport, Containing
<1> QED BY <1>4, <1>6 DEF Inv

(* A new export is made of expenses that the import has locked, and so of
   expenses that are known once it commits. *)
LEMMA CommitType ==
    ASSUME Inv, NEW i \in Importers, CommitImport(i)
    PROVE  TypeOK'
<1> DEFINE groups == Groups(imp[i].fresh \ filter)
<1>1. PICK id \in [groups -> FreeRows] :
        row' = [r \in Rows |->
                  IF \E g \in groups : id[g] = r
                  THEN [status |-> "EXPORT_READY", of |-> CHOOSE g \in groups : id[g] = r]
                  ELSE row[r]]
  BY DEF CommitImport
<1>2. known' = known \cup {x \in Expenses : lock[x] = i} /\ known' \subseteq Expenses
  BY DEF CommitImport, Inv, TypeOK
<1>3. imp[i].fresh \subseteq known'
  BY <1>2 DEF Inv, TypeOK, FreshIsLocked, ImportState
<1>4. \A g \in groups : g \in (SUBSET known') \ {{}}
  BY <1>3 DEF Groups
<1> HIDE DEF groups
<1>5. \A r \in Rows : row[r] \in {NoRow} \cup Exports'
  BY <1>2 DEF Inv, TypeOK, Exports
<1>6. ASSUME NEW r \in Rows, NEW g \in groups, id[g] = r
      PROVE  row'[r] \in Exports'
  <2> DEFINE h == CHOOSE h \in groups : id[h] = r
  <2>1. h \in groups
    BY <1>6
  <2>2. row'[r] = [status |-> "EXPORT_READY", of |-> h]
    BY <1>1, <1>6
  <2> HIDE DEF h
  <2>3. h \in (SUBSET known') \ {{}}
    BY <1>4, <2>1
  <2> QED BY <2>2, <2>3 DEF Exports
<1>7. ASSUME NEW r \in Rows, ~\E g \in groups : id[g] = r
      PROVE  row'[r] = row[r]
  BY <1>1, <1>7
<1>8. row' \in [Rows -> {NoRow} \cup Exports']
  <2>1. \A r \in Rows : row'[r] \in {NoRow} \cup Exports'
    BY <1>5, <1>6, <1>7
  <2> QED BY <1>1, <2>1
<1>9. lock' \in [Expenses -> Importers \cup {None}] /\ imp' \in [Importers -> ImportState]
  BY DEF CommitImport, Released, Idle, ImportState, Inv, TypeOK
<1>10. skipped' \subseteq known'
  BY <1>2, <1>3 DEF CommitImport, Inv, TypeOK
<1>11. UNCHANGED <<inReport, approved, stateQ, utilityQ, filter, remover>>
  BY DEF CommitImport, fyleVars
<1> QED BY <1>2, <1>8, <1>9, <1>10, <1>11 DEF Inv, TypeOK

(* A rolled-back import changes nothing but its message. *)
LEMMA Aborting ==
    ASSUME Inv, NEW i \in Importers, AbortImport(i) \/ BreakDeadlock(i)
    PROVE  Inv'
<1>1. /\ lock' = Released(i) /\ imp' = [imp EXCEPT ![i] = Idle]
      /\ UNCHANGED <<inReport, approved, known, skipped, row, filter, remover, utilityQ>>
      /\ stateQ' = stateQ \/ stateQ' = Append(stateQ, 1)
  BY DEF AbortImport, BreakDeadlock, fyleVars, ourVars
<1>2. stateQ' \in Seq({0, 1})
  <2>1. stateQ \in Seq({0, 1})
    BY DEF Inv, TypeOK
  <2> QED BY <1>1, <2>1
<1>3. imp' \in [Importers -> ImportState]
  BY <1>1 DEF Inv, TypeOK, Idle, ImportState
<1> QED BY <1>1, <1>2, <1>3, Releasing DEF Inv, TypeOK, Exports

(* The utility worker only deletes exports, or takes expenses out of them. *)
LEMMA Removing ==
    ASSUME Inv, RemoverStep
    PROVE  Inv'
<1>1. UNCHANGED <<known, skipped, filter, lock, imp, stateQ, inReport, approved>>
  BY DEF RemoverStep, StartDeletion, EndDeletion, StartEjection, EjectExpense, DeleteExport,
         ourVars, fyleVars
<1>2. SUFFICES /\ utilityQ' \in Seq(Messages)
               /\ remover' \in RemoverState
               /\ remover'.pc # "idle" => utilityQ' # <<>>
               /\ row' \in [Rows -> {NoRow} \cup Exports]
               /\ \A r \in Rows : row'[r].of \subseteq row[r].of
  <2>1. ASSUME utilityQ' \in Seq(Messages), remover' \in RemoverState,
               remover'.pc # "idle" => utilityQ' # <<>>,
               row' \in [Rows -> {NoRow} \cup Exports]
        PROVE  TypeOK'
    BY <1>1, <2>1 DEF Inv, TypeOK, Exports
  <2>2. ASSUME \A r \in Rows : row'[r].of \subseteq row[r].of
        PROVE  FreshIsLocked' /\ InOneExport'
    BY <1>1, <2>2, Shrinking
  <2> QED BY <2>1, <2>2 DEF Inv
<1>3. /\ utilityQ \in Seq(Messages) /\ remover \in RemoverState
      /\ row \in [Rows -> {NoRow} \cup Exports] /\ TypeOK
      /\ remover.pc # "idle" => utilityQ # <<>>
  BY DEF Inv, TypeOK
<1>4. ASSUME NEW raised \in BOOLEAN, Done(raised), utilityQ # <<>>
      PROVE  /\ utilityQ' \in Seq(Messages) /\ remover' \in RemoverState
             /\ remover'.pc = "idle"
  BY <1>3, <1>4, DoneType DEF Done, IdleRemover
<1>5. CASE StartDeletion
  <2>1. \A r \in ExportsOfReport : row[r] # NoRow /\ row[r].status # "COMPLETE"
    BY DEF ExportsOfReport, NoRow
  <2>2. Copies(ExportsOfReport) \in SUBSET RowCopies
    BY <1>3, <2>1, CopiesType DEF ExportsOfReport
  <2>3. remover' = [pc |-> "delete", x |-> None, rows |-> Copies(ExportsOfReport)]
    BY <1>5 DEF StartDeletion, IdleRemover
  <2>4. remover' \in RemoverState
    BY <2>2, <2>3 DEF RemoverState
  <2>5. UNCHANGED <<utilityQ, row>> /\ utilityQ # <<>>
    BY <1>5 DEF StartDeletion, ourVars
  <2> QED BY <1>3, <2>4, <2>5
<1>6. CASE EndDeletion
  <2>1. UNCHANGED row /\ Done(FALSE) /\ utilityQ # <<>>
    BY <1>3, <1>6 DEF EndDeletion, ourVars
  <2> QED BY <1>3, <1>4, <2>1
<1>7. CASE StartEjection
  <2> DEFINE m == Head(utilityQ)
             complete == {r \in Containing(m.x) : row[r].status = "COMPLETE"}
             others == Containing(m.x) \ complete
  <2>1. UNCHANGED row /\ utilityQ # <<>>
    BY <1>7 DEF StartEjection, ourVars
  <2>2. CASE Done(FALSE)
    BY <1>3, <1>4, <2>1, <2>2
  <2>3. CASE ~Done(FALSE)
    <3>1. PICK r \in others :
            remover' = [pc |-> "eject", x |-> m.x, rows |-> Copies({r})] /\ utilityQ' = utilityQ
      BY <1>7, <2>3 DEF StartEjection
    <3>2. r \in Rows /\ row[r] # NoRow /\ row[r].status # "COMPLETE"
      BY DEF Containing, NoRow
    <3>3. Copies({r}) \in SUBSET RowCopies
      BY <1>3, <3>2, CopiesType
    <3>4. m \in Messages /\ m.x \in Expenses
      <4>1. Head(utilityQ) \in Messages
        BY <1>3, <2>1
      <4> QED BY <4>1 DEF Messages
    <3>5. remover' \in RemoverState
      BY <3>1, <3>3, <3>4 DEF RemoverState
    <3> QED BY <1>3, <2>1, <3>1, <3>5
  <2> QED BY <2>2, <2>3
<1>8. CASE EjectExpense
  <2>1. PICK c \in remover.rows :
          LET after == Without(c.r, {remover.x}) IN
          IF row[c.r].status \in Posted /\ after.of = {}
          THEN Done(TRUE) /\ UNCHANGED row
          ELSE Done(FALSE) /\ row' = [row EXCEPT ![c.r] = after]
    BY <1>8 DEF EjectExpense
  <2>2. c.r \in Rows /\ utilityQ # <<>>
    BY <1>3, <1>8 DEF EjectExpense, RemoverState, RowCopies
  <2>3. /\ Without(c.r, {remover.x}).of \subseteq row[c.r].of
        /\ Without(c.r, {remover.x}) \in {NoRow} \cup Exports
    BY <1>3, <2>2, WithoutType
  <2>4. CASE Done(TRUE) /\ UNCHANGED row
    BY <1>3, <1>4, <2>2, <2>4
  <2>5. CASE Done(FALSE) /\ row' = [row EXCEPT ![c.r] = Without(c.r, {remover.x})]
    <3>1. row' \in [Rows -> {NoRow} \cup Exports]
      BY <1>3, <2>2, <2>3, <2>5
    <3>2. \A r \in Rows : row'[r].of \subseteq row[r].of
      BY <1>3, <2>2, <2>3, <2>5
    <3> QED BY <1>4, <2>2, <2>5, <3>1, <3>2
  <2> QED BY <2>1, <2>4, <2>5
<1>9. CASE \E c \in remover.rows : DeleteExport(c)
  <2>1. PICK c \in remover.rows : DeleteExport(c)
    BY <1>9
  <2>2. c.r \in Rows /\ utilityQ # <<>>
    BY <1>3, <2>1 DEF DeleteExport, RemoverState, RowCopies
  <2>3. CASE Done(TRUE) /\ UNCHANGED row
    BY <1>3, <1>4, <2>2, <2>3
  <2>4. CASE ~(Done(TRUE) /\ UNCHANGED row)
    <3>1. /\ row' = row \/ row' = [row EXCEPT ![c.r] = NoRow]
          /\ remover' = [remover EXCEPT !.rows = @ \ {c}] /\ utilityQ' = utilityQ
      BY <2>1, <2>4 DEF DeleteExport
    <3>2. remover' \in RemoverState
      BY <1>3, <3>1 DEF RemoverState
    <3>3. row' \in [Rows -> {NoRow} \cup Exports]
      BY <1>3, <3>1
    <3>4. \A r \in Rows : row'[r].of \subseteq row[r].of
      BY <1>3, <3>1 DEF NoRow
    <3> QED BY <1>3, <2>2, <3>1, <3>2, <3>3, <3>4
  <2> QED BY <2>3, <2>4
<1> QED BY <1>5, <1>6, <1>7, <1>8, <1>9 DEF RemoverStep

(* The life of an export changes its status, and only while it is there. *)
LEMMA Exporting ==
    ASSUME Inv, NEW r \in Rows, Enqueue(r) \/ Post(r) \/ Settle(r)
    PROVE  Inv'
<1>1. /\ row[r] # NoRow
      /\ \E s \in {"ENQUEUED", "EXPORT_QUEUED", "FAILED", "COMPLETE"} :
           row' = [row EXCEPT ![r].status = s]
      /\ UNCHANGED <<inReport, approved, stateQ, utilityQ, known, skipped, filter, lock, imp,
                     remover>>
  BY DEF Enqueue, Post, Settle, SetStatus, NoRow, fyleVars
<1>2. row' \in [Rows -> {NoRow} \cup Exports] /\ \A q \in Rows : row'[q].of = row[q].of
  BY <1>1 DEF Inv, TypeOK, Exports
<1>3. TypeOK'
  BY <1>1, <1>2 DEF Inv, TypeOK, Exports
<1>4. FreshIsLocked' /\ InOneExport'
  BY <1>1, <1>2, Shrinking
<1> QED BY <1>3, <1>4 DEF Inv

(* The skip rule takes expenses out of exports. *)
LEMMA Filtering ==
    ASSUME Inv, NEW S \in SUBSET Expenses, SaveFilter(S)
    PROVE  Inv'
<1> DEFINE matched == {x \in (S \cap known) \ skipped :
                         \/ Containing(x) = {}
                         \/ \E r \in Containing(x) : row[r].status # "COMPLETE"}
           affected == {r \in Rows : row[r].status # "COMPLETE" /\ row[r].of \cap matched # {}}
<1>1. /\ UNCHANGED <<inReport, approved, stateQ, utilityQ, known, lock, imp, remover>>
      /\ \/ UNCHANGED <<filter, skipped, row>>
         \/ /\ filter' = S
            /\ skipped' = skipped \cup matched
            /\ row' = [r \in Rows |-> IF r \in affected THEN Without(r, matched) ELSE row[r]]
  BY DEF SaveFilter, fyleVars
<1>2. matched \subseteq known
  OBVIOUS
<1> HIDE DEF matched
<1>3. \A r \in Rows : /\ Without(r, matched).of \subseteq row[r].of
                     /\ Without(r, matched) \in {NoRow} \cup Exports
  BY WithoutType DEF Inv
<1> HIDE DEF affected
<1>4. /\ row' \in [Rows -> {NoRow} \cup Exports]
      /\ \A r \in Rows : row'[r].of \subseteq row[r].of
  <2>1. row \in [Rows -> {NoRow} \cup Exports]
    BY DEF Inv, TypeOK
  <2> QED BY <1>1, <1>3, <2>1
<1>5. TypeOK'
  BY <1>1, <1>2, <1>4 DEF Inv, TypeOK, Exports
<1>6. FreshIsLocked' /\ InOneExport'
  BY <1>1, <1>4, Shrinking
<1> QED BY <1>5, <1>6 DEF Inv

(* Every step keeps the invariant. *)
LEMMA Step == Inv /\ [Next]_vars => Inv'
<1> SUFFICES ASSUME Inv, [Next]_vars PROVE Inv'
  OBVIOUS
<1>1. CASE \/ \E x \in Expenses : AddToReport(x) \/ EjectFromReport(x)
           \/ Approve
  BY <1>1, FyleSteps
<1>2. ASSUME NEW i \in Importers,
             StartStateChange(i) \/ StartImport(i) \/ Import(i) \/ AbortImport(i)
      PROVE  Inv'
  <2>1. CASE StartStateChange(i) \/ StartImport(i)
    BY <2>1, Starting
  <2>2. CASE AbortImport(i) \/ BreakDeadlock(i)
    BY <2>2, Aborting
  <2>3. CASE CommitImport(i)
    BY <2>3, Committing, CommitType DEF Inv
  <2>4. CASE \E x \in Expenses : Upsert(i, x)
    BY <2>4, Upserting DEF Inv
  <2> QED BY <1>2, <2>1, <2>2, <2>3, <2>4 DEF Import
<1>3. CASE RemoverStep
  BY <1>3, Removing
<1>4. CASE \E r \in Rows : Enqueue(r) \/ Post(r) \/ Settle(r)
  BY <1>4, Exporting
<1>5. CASE \E S \in SUBSET Expenses : SaveFilter(S)
  BY <1>5, Filtering
<1>6. CASE UNCHANGED vars
  BY <1>6 DEF vars, Inv, TypeOK, Exports, FreshIsLocked, InOneExport, Containing
<1> QED BY <1>1, <1>2, <1>3, <1>4, <1>5, <1>6 DEF Next

(* Type correctness: accounting exports that exist have expenses, all known. *)
THEOREM TypeCorrect == Spec => []TypeOK
<1>1. Inv => TypeOK
  BY DEF Inv
<1> QED BY Initially, Step, <1>1, PTL DEF Spec

(* An expense that an import is about to group is locked by it and exported by
   nobody. *)
THEOREM FreshAlwaysLocked == Spec => []FreshIsLocked
<1>1. Inv => FreshIsLocked
  BY DEF Inv
<1> QED BY Initially, Step, <1>1, PTL DEF Spec

(* No expense is in two accounting exports. *)
THEOREM AlwaysInOneExport == Spec => []InOneExport
<1>1. Inv => InOneExport
  BY DEF Inv
<1> QED BY Initially, Step, <1>1, PTL DEF Spec

Kept == \A r \in Rows : row[r].status \in Posted =>
            row'[r].status # "NONE" /\ row'[r].of # {}

(* An export that has a document is there, and has expenses. *)
LEMMA PostedIsExport ==
    ASSUME TypeOK, NEW r \in Rows, row[r].status \in Posted
    PROVE  row[r] \in Exports /\ row[r].status # "NONE" /\ row[r].of # {}
BY DEF TypeOK, Posted, NoRow, Exports

(* A commit puts its groups into rows that are free, which a row with a
   document is not. *)
LEMMA CommitKeeps ==
    ASSUME TypeOK, NEW i \in Importers, CommitImport(i)
    PROVE  Kept
<1> SUFFICES ASSUME NEW r \in Rows, row[r].status \in Posted
             PROVE  row'[r].status # "NONE" /\ row'[r].of # {}
  BY DEF Kept
<1> DEFINE groups == Groups(imp[i].fresh \ filter)
<1>1. PICK id \in [groups -> FreeRows] :
        row' = [q \in Rows |->
                  IF \E g \in groups : id[g] = q
                  THEN [status |-> "EXPORT_READY", of |-> CHOOSE g \in groups : id[g] = q]
                  ELSE row[q]]
  BY DEF CommitImport
<1> HIDE DEF groups
<1>2. r \notin FreeRows
  BY DEF FreeRows, NoRow, Posted
<1>3. row'[r] = row[r]
  BY <1>1, <1>2
<1> QED BY <1>3, PostedIsExport

(* The remover empties no row with a document: the deletion and the ejection
   look at the status of the moment, not at the one of the list. *)
LEMMA RemoverKeeps ==
    ASSUME TypeOK, RemoverStep
    PROVE  Kept
<1> SUFFICES ASSUME NEW r \in Rows, row[r].status \in Posted
             PROVE  row'[r].status # "NONE" /\ row'[r].of # {}
  BY DEF Kept
<1>0. /\ row[r].status # "NONE" /\ row[r].of # {} /\ row[r] # NoRow
      /\ row \in [Rows -> {NoRow} \cup Exports]
  BY PostedIsExport DEF TypeOK, NoRow
<1>1. CASE StartDeletion \/ EndDeletion \/ StartEjection
  BY <1>0, <1>1 DEF StartDeletion, EndDeletion, StartEjection, ourVars
<1>2. CASE EjectExpense
  <2>1. PICK c \in remover.rows :
          \/ UNCHANGED row
          \/ /\ ~(row[c.r].status \in Posted /\ Without(c.r, {remover.x}).of = {})
             /\ row' = [row EXCEPT ![c.r] = Without(c.r, {remover.x})]
    BY <1>2 DEF EjectExpense
  <2>2. CASE UNCHANGED row
    BY <1>0, <2>2
  <2>3. CASE row' = [row EXCEPT ![c.r] = Without(c.r, {remover.x})] /\ c.r # r
    BY <1>0, <2>3
  <2>4. CASE row' = [row EXCEPT ![c.r] = Without(c.r, {remover.x})] /\ c.r = r
                /\ Without(r, {remover.x}).of # {}
    <3>1. row'[r] = Without(r, {remover.x})
      BY <1>0, <2>4
    <3>2. row'[r].status = row[r].status
      BY <2>4, <3>1, <1>0, PostedIsExport DEF Without, NoRow, Exports
    <3> QED BY <1>0, <2>4, <3>1, <3>2
  <2> QED BY <2>1, <2>2, <2>3, <2>4
<1>3. ASSUME NEW c \in remover.rows, DeleteExport(c)
      PROVE  row'[r].status # "NONE" /\ row'[r].of # {}
  <2>1. row' = row \/ (c.r # r /\ row' = [row EXCEPT ![c.r] = NoRow])
    BY <1>3 DEF DeleteExport
  <2> QED BY <1>0, <2>1
<1> QED BY <1>1, <1>2, <1>3 DEF RemoverStep

(* The life of an export gives it no status that stands for no export. *)
LEMMA ExportingKeeps ==
    ASSUME TypeOK, NEW q \in Rows, Enqueue(q) \/ Post(q) \/ Settle(q)
    PROVE  Kept
<1> SUFFICES ASSUME NEW r \in Rows, row[r].status \in Posted
             PROVE  row'[r].status # "NONE" /\ row'[r].of # {}
  BY DEF Kept
<1>1. PICK s \in {"ENQUEUED", "EXPORT_QUEUED", "FAILED", "COMPLETE"} :
        row' = [row EXCEPT ![q].status = s]
  BY DEF Enqueue, Post, Settle, SetStatus
<1>2. row'[r].of = row[r].of /\ row'[r].status \in {row[r].status, s}
  BY <1>1, PostedIsExport DEF TypeOK, Exports
<1> QED BY <1>2, PostedIsExport

(* A filter that empties a row with a document is not saved. *)
LEMMA FilteringKeeps ==
    ASSUME TypeOK, NEW S \in SUBSET Expenses, SaveFilter(S)
    PROVE  Kept
<1> SUFFICES ASSUME NEW r \in Rows, row[r].status \in Posted
             PROVE  row'[r].status # "NONE" /\ row'[r].of # {}
  BY DEF Kept
<1> DEFINE matched == {x \in (S \cap known) \ skipped :
                         \/ Containing(x) = {}
                         \/ \E p \in Containing(x) : row[p].status # "COMPLETE"}
           affected == {p \in Rows : row[p].status # "COMPLETE" /\ row[p].of \cap matched # {}}
<1>1. \/ UNCHANGED row
      \/ /\ ~\E p \in affected : row[p].status \in Posted /\ row[p].of \subseteq matched
         /\ row' = [p \in Rows |-> IF p \in affected THEN Without(p, matched) ELSE row[p]]
  BY DEF SaveFilter
<1> HIDE DEF matched, affected
<1>2. CASE row'[r] = row[r]
  BY <1>2, PostedIsExport
<1>3. CASE row'[r] = Without(r, matched) /\ ~(row[r].of \subseteq matched)
  BY <1>3, PostedIsExport DEF Without, Exports
<1> QED BY <1>1, <1>2, <1>3

(* An export that Sage has a document for is never taken away from it, nor
   emptied, by whatever the remover decides with a status of earlier. *)
THEOREM PostedAlwaysKept == Spec => PostedIsKept
<1>1. TypeOK /\ [Next]_vars => [Kept]_vars
  <2> SUFFICES ASSUME TypeOK, Next PROVE Kept
    OBVIOUS
  <2>1. CASE \/ \E x \in Expenses : AddToReport(x) \/ EjectFromReport(x)
             \/ Approve
    <3>1. row' = row
      BY <2>1 DEF AddToReport, EjectFromReport, Approve, ourVars
    <3> QED BY <3>1, PostedIsExport DEF Kept
  <2>2. ASSUME NEW i \in Importers,
               \/ StartStateChange(i) \/ StartImport(i) \/ AbortImport(i) \/ BreakDeadlock(i)
               \/ \E x \in Expenses : Upsert(i, x)
        PROVE  Kept
    <3>1. row' = row
      BY <2>2 DEF StartStateChange, StartImport, AbortImport, BreakDeadlock, Upsert, ourVars
    <3> QED BY <3>1, PostedIsExport DEF Kept
  <2>3. ASSUME NEW i \in Importers, CommitImport(i)
        PROVE  Kept
    BY <2>3, CommitKeeps
  <2>4. CASE RemoverStep
    BY <2>4, RemoverKeeps
  <2>5. CASE \E r \in Rows : Enqueue(r) \/ Post(r) \/ Settle(r)
    BY <2>5, ExportingKeeps
  <2>6. CASE \E S \in SUBSET Expenses : SaveFilter(S)
    BY <2>6, FilteringKeeps
  <2> QED BY <2>1, <2>2, <2>3, <2>4, <2>5, <2>6 DEF Next, Import
<1> QED BY TypeCorrect, <1>1, PTL DEF Spec, PostedIsKept, Kept

\* What a step that is none of Sage's answers may do to the exports.
Regrouped ==
    \A r \in Rows :
        IF row[r].status \in Posted
        THEN row'[r].status = row[r].status /\ row'[r].of \subseteq row[r].of
        ELSE row'[r].status \notin Posted

(* Such a step is a Regroup of the abstract specification: Kept gives that an
   export with a document keeps an expense. *)
LEMMA RegroupedRefines ==
    ASSUME Inv', Kept, Regrouped
    PROVE  [Once!Regroup]_<<Contents, WithDocument, Accepted>>
<1>1. [r \in Rows |-> row'[r].of] \in [Rows -> SUBSET Expenses]
  <2>1. \A r \in Rows : row'[r].of \subseteq Expenses
    BY DEF Inv, TypeOK, NoRow, Exports
  <2> QED BY <2>1
<1>2. \A r, q \in Rows : row'[r].of \cap row'[q].of # {} => r = q
  <2> SUFFICES ASSUME NEW r \in Rows, NEW q \in Rows, NEW x \in row'[r].of \cap row'[q].of
               PROVE  r = q
    OBVIOUS
  <2>1. x \in Expenses
    BY <1>1
  <2>2. r \in Containing(x)' /\ q \in Containing(x)'
    BY DEF Containing
  <2> QED BY <2>1, <2>2 DEF Inv, InOneExport
<1>3. \A r \in Rows : row[r].status \in Posted =>
        row'[r].of \subseteq row[r].of /\ row'[r].of # {}
  BY DEF Kept, Regrouped
<1>4. /\ \A r \in Rows : row'[r].status \in Posted <=> row[r].status \in Posted
      /\ \A r \in Rows : row'[r].status = "COMPLETE" <=> row[r].status = "COMPLETE"
  BY DEF Regrouped, Posted
<1> QED BY <1>1, <1>2, <1>3, <1>4 DEF Once!Regroup, Once!InOne, Contents, WithDocument, Accepted

(* A commit fills rows that are free, and leaves the others alone. *)
LEMMA CommitRegroups ==
    ASSUME Inv, NEW i \in Importers, CommitImport(i)
    PROVE  Regrouped
<1> SUFFICES ASSUME NEW r \in Rows
             PROVE  IF row[r].status \in Posted
                    THEN row'[r].status = row[r].status /\ row'[r].of \subseteq row[r].of
                    ELSE row'[r].status \notin Posted
  BY DEF Regrouped
<1> DEFINE groups == Groups(imp[i].fresh \ filter)
<1>1. PICK id \in [groups -> FreeRows] :
        row' = [q \in Rows |->
                  IF \E g \in groups : id[g] = q
                  THEN [status |-> "EXPORT_READY", of |-> CHOOSE g \in groups : id[g] = q]
                  ELSE row[q]]
  BY DEF CommitImport
<1> HIDE DEF groups
<1>2. CASE \E g \in groups : id[g] = r
  <2>1. row[r] = NoRow
    BY <1>1, <1>2 DEF FreeRows
  <2>2. row'[r].status = "EXPORT_READY"
    BY <1>1, <1>2
  <2> QED BY <2>1, <2>2 DEF NoRow, Posted
<1>3. CASE ~\E g \in groups : id[g] = r
  <2>1. row'[r] = row[r]
    BY <1>1, <1>3
  <2> QED BY <2>1
<1> QED BY <1>2, <1>3

(* What Without leaves of an export has its status, or is no export. *)
LEMMA WithoutStatus ==
    ASSUME TypeOK, NEW r \in Rows, NEW S
    PROVE  /\ Without(r, S).of \subseteq row[r].of
           /\ Without(r, S).status \in {row[r].status, "NONE"}
           /\ Without(r, S).of # {} => Without(r, S).status = row[r].status
<1>1. row[r] \in {NoRow} \cup Exports
  BY DEF TypeOK
<1>2. CASE row[r].of \subseteq S
  BY <1>2 DEF Without, NoRow
<1>3. CASE row[r] \in Exports /\ ~(row[r].of \subseteq S)
  BY <1>3 DEF Without, Exports
<1> QED BY <1>1, <1>2, <1>3 DEF NoRow

(* The utility worker takes expenses out of exports and deletes exports; one
   with a document it leaves, or takes some of its expenses. *)
LEMMA RemoverRegroups ==
    ASSUME Inv, RemoverStep
    PROVE  Regrouped
<1>0. TypeOK /\ row \in [Rows -> {NoRow} \cup Exports] /\ Kept
  BY RemoverKeeps DEF Inv, TypeOK
<1>1. CASE row' = row
  BY <1>1 DEF Regrouped
<1>2. ASSUME NEW c \in remover.rows, c.r \in Rows,
             row' = [row EXCEPT ![c.r] = Without(c.r, {remover.x})]
      PROVE  Regrouped
  <2>1. \A r \in Rows : r # c.r => row'[r] = row[r]
    BY <1>0, <1>2
  <2>2. row'[c.r] = Without(c.r, {remover.x})
    BY <1>0, <1>2
  <2>3. row[c.r].status \in Posted =>
          row'[c.r].status = row[c.r].status /\ row'[c.r].of \subseteq row[c.r].of
    BY <1>0, <1>2, <2>2, WithoutStatus DEF Kept
  <2>4. row[c.r].status \notin Posted => row'[c.r].status \notin Posted
    BY <1>0, <1>2, <2>2, WithoutStatus DEF Posted
  <2> QED BY <2>1, <2>3, <2>4 DEF Regrouped
<1>3. ASSUME NEW c \in remover.rows, c.r \in Rows, row[c.r].status \notin Posted,
             row' = [row EXCEPT ![c.r] = NoRow]
      PROVE  Regrouped
  BY <1>0, <1>3 DEF Regrouped, NoRow, Posted
<1>4. \A c \in remover.rows : c.r \in Rows
  BY <1>0 DEF TypeOK, RemoverState, RowCopies
<1>5. CASE StartDeletion \/ EndDeletion \/ StartEjection
  BY <1>1, <1>5 DEF StartDeletion, EndDeletion, StartEjection, ourVars
<1>6. CASE EjectExpense
  BY <1>1, <1>2, <1>4, <1>6 DEF EjectExpense
<1>7. ASSUME NEW c \in remover.rows, DeleteExport(c)
      PROVE  Regrouped
  <2>1. \/ row' = row
        \/ row[c.r].status \notin Posted /\ row' = [row EXCEPT ![c.r] = NoRow]
    BY <1>7 DEF DeleteExport
  <2> QED BY <1>1, <1>3, <1>4, <2>1
<1> QED BY <1>5, <1>6, <1>7 DEF RemoverStep

(* The skip rule takes expenses out of exports. *)
LEMMA FilteringRegroups ==
    ASSUME Inv, NEW S \in SUBSET Expenses, SaveFilter(S)
    PROVE  Regrouped
<1> DEFINE matched == {x \in (S \cap known) \ skipped :
                         \/ Containing(x) = {}
                         \/ \E p \in Containing(x) : row[p].status # "COMPLETE"}
           affected == {p \in Rows : row[p].status # "COMPLETE" /\ row[p].of \cap matched # {}}
<1>1. \/ UNCHANGED row
      \/ row' = [p \in Rows |-> IF p \in affected THEN Without(p, matched) ELSE row[p]]
  BY DEF SaveFilter
<1>2. TypeOK /\ Kept
  BY FilteringKeeps DEF Inv
<1> HIDE DEF matched, affected
<1> SUFFICES ASSUME NEW r \in Rows
             PROVE  IF row[r].status \in Posted
                    THEN row'[r].status = row[r].status /\ row'[r].of \subseteq row[r].of
                    ELSE row'[r].status \notin Posted
  BY DEF Regrouped
<1>3. CASE row'[r] = row[r]
  BY <1>3
<1>4. CASE row'[r] = Without(r, matched)
  <2>1. row[r].status \in Posted =>
          row'[r].status = row[r].status /\ row'[r].of \subseteq row[r].of
    BY <1>2, <1>4, WithoutStatus DEF Kept
  <2>2. row[r].status \notin Posted => row'[r].status \notin Posted
    BY <1>2, <1>4, WithoutStatus DEF Posted
  <2> QED BY <2>1, <2>2
<1> QED BY <1>1, <1>3, <1>4

(* The steps of one export's life are those of the abstract document: sent once
   while there is none, turned down, or accepted for good. *)
LEMMA ExportingRefines ==
    ASSUME Inv, NEW r \in Rows, Enqueue(r) \/ Post(r) \/ Settle(r)
    PROVE  [Once!Next]_<<Contents, WithDocument, Accepted>>
<1>0. row \in [Rows -> {NoRow} \cup Exports]
  BY DEF Inv, TypeOK
<1>1. PICK s \in {"ENQUEUED", "EXPORT_QUEUED", "FAILED", "COMPLETE"} :
        /\ row' = [row EXCEPT ![r].status = s]
        /\ \/ row[r].status \in {"EXPORT_READY", "FAILED"} /\ s = "ENQUEUED"
           \/ row[r].status = "ENQUEUED" /\ s \in {"EXPORT_QUEUED", "FAILED"}
           \/ row[r].status = "EXPORT_QUEUED" /\ s \in {"COMPLETE", "FAILED"}
  BY DEF Enqueue, Post, Settle, SetStatus
<1>2. row[r] \in Exports
  BY <1>0, <1>1 DEF NoRow
<1>3. /\ \A q \in Rows : row'[q].of = row[q].of
      /\ \A q \in Rows : row'[q].status = IF q = r THEN s ELSE row[q].status
  BY <1>0, <1>1, <1>2 DEF Exports, NoRow
<1>4. Contents' = Contents
  BY <1>3 DEF Contents
<1>5. CASE s = "ENQUEUED" \/ (row[r].status = "ENQUEUED" /\ s = "FAILED")
  <2>1. WithDocument' = WithDocument /\ Accepted' = Accepted
    BY <1>1, <1>3, <1>5 DEF WithDocument, Accepted, Posted
  <2> QED BY <1>4, <2>1
<1>6. CASE s = "EXPORT_QUEUED"
  <2>1. Once!Send(r)
    BY <1>1, <1>2, <1>3, <1>4, <1>6 DEF Once!Send, Contents, WithDocument, Accepted, Posted, Exports
  <2> QED BY <2>1 DEF Once!Next
<1>7. CASE s = "COMPLETE"
  <2>1. Once!Accept(r)
    BY <1>1, <1>3, <1>4, <1>7 DEF Once!Accept, WithDocument, Accepted, Posted
  <2> QED BY <2>1 DEF Once!Next
<1>8. CASE row[r].status = "EXPORT_QUEUED" /\ s = "FAILED"
  <2>1. Once!TurnDown(r)
    BY <1>1, <1>3, <1>4, <1>8 DEF Once!TurnDown, WithDocument, Accepted, Posted
  <2> QED BY <2>1 DEF Once!Next
<1> QED BY <1>1, <1>5, <1>6, <1>7, <1>8

(* Imports, deletions, ejections and skip rules regroup expenses as the abstract
   specification allows: no interleaving of theirs puts an expense into two
   exports, or changes what Sage has a document for other than by taking some,
   never all, of its expenses out. *)
THEOREM AlwaysGroupedOnce == Spec => ImplementsGroupOnce
<1>1. Init => Once!Init
  <2> SUFFICES ASSUME Init PROVE Once!Init
    OBVIOUS
  <2>1. \A r \in Rows : row[r].of = {} /\ row[r].status = "NONE"
    BY DEF Init, NoRow
  <2> QED BY <2>1 DEF Once!Init, Once!InOne, Contents, WithDocument, Accepted, Posted
<1>2. Inv /\ Inv' /\ [Next]_vars =>
        [Once!Next]_<<Contents, WithDocument, Accepted>>
  <2> SUFFICES ASSUME Inv, Inv', [Next]_vars
               PROVE  [Once!Next]_<<Contents, WithDocument, Accepted>>
    OBVIOUS
  <2>0. TypeOK
    BY DEF Inv
  <2>1. CASE row' = row
    BY <2>1 DEF Contents, WithDocument, Accepted
  <2>2. CASE Kept /\ Regrouped
    BY <2>2, RegroupedRefines DEF Once!Next
  <2>3. CASE \/ \E x \in Expenses : AddToReport(x) \/ EjectFromReport(x)
             \/ Approve
    BY <2>1, <2>3 DEF AddToReport, EjectFromReport, Approve, ourVars
  <2>4. ASSUME NEW i \in Importers,
               \/ StartStateChange(i) \/ StartImport(i) \/ AbortImport(i) \/ BreakDeadlock(i)
               \/ \E x \in Expenses : Upsert(i, x)
        PROVE  row' = row
    BY <2>4 DEF StartStateChange, StartImport, AbortImport, BreakDeadlock, Upsert, ourVars
  <2>5. ASSUME NEW i \in Importers, CommitImport(i)
        PROVE  Kept /\ Regrouped
    BY <2>0, <2>5, CommitKeeps, CommitRegroups
  <2>6. CASE RemoverStep
    BY <2>0, <2>2, <2>6, RemoverKeeps, RemoverRegroups
  <2>7. CASE \E r \in Rows : Enqueue(r) \/ Post(r) \/ Settle(r)
    BY <2>7, ExportingRefines
  <2>8. CASE \E S \in SUBSET Expenses : SaveFilter(S)
    BY <2>0, <2>2, <2>8, FilteringKeeps, FilteringRegroups
  <2>9. CASE UNCHANGED vars
    BY <2>1, <2>9 DEF vars
  <2> QED BY <2>1, <2>2, <2>3, <2>4, <2>5, <2>6, <2>7, <2>8, <2>9 DEF Next, Import
<1> QED BY Initially, Step, <1>1, <1>2, PTL DEF Spec, ImplementsGroupOnce, Once!Spec
=============================================================================
