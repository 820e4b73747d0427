-------------------------- MODULE ExportLinesProofs --------------------------
(***************************************************************************)
(* What an export says to Sage 300, for any expenses, tables of cost codes, *)
(* mappings, vendors and numbers of documents.                              *)
(*                                                                         *)
(*   - TypeInv: the rows, the task and the documents have their types;      *)
(*   - StoredInv: what a committed row has is what its document says;       *)
(*   - WorkInv: what a task has worked out that no edit has overtaken, and  *)
(*     what a document says that such a task posted;                        *)
(*   - PickInv: what expenses name is what was offered, by code fields that *)
(*     have not changed since.                                              *)
(***************************************************************************)
EXTENDS ExportLines, FiniteSetTheorems, WellFoundedInduction, TLAPS

----------------------------------------------------------------------------
(***************************************************************************)
(* Sums over finite sets.  MapThenSumSet chooses the elements one after     *)
(* another; that the function it is defined by exists, and what it sums up  *)
(* to, is shown by a smallest counterexample.                               *)
(***************************************************************************)

Pick(s) == CHOOSE x \in s : TRUE
SumBody(f, h, S) == [s \in SUBSET S |-> IF s = {} THEN 0 ELSE h[Pick(s)] + f[s \ {Pick(s)}]]

\* f is the function that sums h up over the subsets of S.
Sums(f, h, S) == f = SumBody(f, h, S)

(* A smallest of some finite sets. *)
LEMMA Smallest ==
    ASSUME NEW S, IsFiniteSet(S), NEW B, B \subseteq SUBSET S, B # {}
    PROVE  \E T \in B : \A U \in SUBSET T : U # T => U \notin B
<1>1. IsWellFoundedOn(StrictSubsetOrdering(S), SUBSET S)
  BY FS_StrictSubsetOrderingWellFounded, FS_FiniteSubsetsOfFinite
<1>2. PICK T \in B : \A U \in B : <<U, T>> \notin StrictSubsetOrdering(S)
  BY <1>1, WFMin
<1>3. ASSUME NEW U \in SUBSET T, U # T, U \in B
      PROVE  FALSE
  <2>1. <<U, T>> \in StrictSubsetOrdering(S)
    BY <1>3 DEF StrictSubsetOrdering
  <2> QED BY <1>2, <1>3, <2>1
<1> QED BY <1>3

(* An element that is picked is one. *)
LEMMA Picked == ASSUME NEW s, s # {} PROVE Pick(s) \in s
BY DEF Pick

(* Such a function is the only one. *)
LEMMA SumsUnique ==
    ASSUME NEW S, IsFiniteSet(S), NEW h, NEW f, NEW g, Sums(f, h, S), Sums(g, h, S)
    PROVE  f = g
<1> DEFINE B == {s \in SUBSET S : f[s] # g[s]}
<1>1. ASSUME B # {}
      PROVE  FALSE
  <2>1. PICK T \in B : \A U \in SUBSET T : U # T => U \notin B
    <3> HIDE DEF B
    <3>1. B \subseteq SUBSET S
      BY DEF B
    <3> QED BY <1>1, <3>1, Smallest
  <2>2. CASE T = {}
    BY <2>1, <2>2 DEF Sums, SumBody
  <2>3. CASE T # {}
    <3>1. Pick(T) \in T
      BY <2>3, Picked
    <3>2. f[T \ {Pick(T)}] = g[T \ {Pick(T)}]
      BY <2>1, <3>1
    <3>3. f[T] = h[Pick(T)] + f[T \ {Pick(T)}] /\ g[T] = h[Pick(T)] + g[T \ {Pick(T)}]
      BY <2>1, <2>3 DEF Sums, SumBody
    <3> QED BY <2>1, <3>2, <3>3
  <2> QED BY <2>2, <2>3
<1>2. f = [s \in SUBSET S |-> f[s]] /\ g = [s \in SUBSET S |-> g[s]]
  BY DEF Sums, SumBody
<1> QED BY <1>1, <1>2

(* What sums up over the subsets of S sums up over those of a subset. *)
LEMMA SumsBelow ==
    ASSUME NEW S, NEW h, NEW f, Sums(f, h, S), NEW T \in SUBSET S
    PROVE  Sums([s \in SUBSET T |-> f[s]], h, T)
<1> DEFINE g == [s \in SUBSET T |-> f[s]]
<1>1. ASSUME NEW s \in SUBSET T
      PROVE  g[s] = IF s = {} THEN 0 ELSE h[Pick(s)] + g[s \ {Pick(s)}]
  <2>1. f[s] = IF s = {} THEN 0 ELSE h[Pick(s)] + f[s \ {Pick(s)}]
    BY DEF Sums, SumBody
  <2>2. s \ {Pick(s)} \in SUBSET T
    OBVIOUS
  <2> QED BY <2>1, <2>2
<1> HIDE DEF g
<1>2. g = [s \in SUBSET T |-> g[s]]
  BY DEF g
<1>3. g = SumBody(g, h, T)
  BY <1>1, <1>2 DEF SumBody
<1> QED BY <1>3 DEF Sums, g

(* There is one for every finite set. *)
LEMMA SumsExist ==
    ASSUME NEW S, IsFiniteSet(S), NEW h
    PROVE  \E f : Sums(f, h, S)
<1> DEFINE B == {T \in SUBSET S : ~ \E f : Sums(f, h, T)}
<1> SUFFICES ASSUME B # {} PROVE FALSE
  OBVIOUS
<1>1. PICK T \in B : \A U \in SUBSET T : U # T => U \notin B
  <2> HIDE DEF B
  <2>1. B \subseteq SUBSET S
    BY DEF B
  <2> QED BY <2>1, Smallest
<1> DEFINE F(U) == CHOOSE f : Sums(f, h, U)
<1>2. ASSUME NEW U \in SUBSET T, U # T
      PROVE  Sums(F(U), h, U)
  BY <1>1, <1>2
<1> DEFINE g == [s \in SUBSET T |->
                   IF s # T THEN F(s)[s]
                   ELSE IF s = {} THEN 0 ELSE h[Pick(s)] + F(s \ {Pick(s)})[s \ {Pick(s)}]]
<1>3. ASSUME NEW s \in SUBSET T
      PROVE  g[s] = IF s = {} THEN 0 ELSE h[Pick(s)] + g[s \ {Pick(s)}]
  <2>1. CASE s = {}
    <3>1. CASE T = {}
      BY <2>1, <3>1
    <3>2. CASE T # {}
      <4>1. Sums(F({}), h, {})
        BY <1>2, <3>2
      <4>2. F({})[{}] = 0
        BY <4>1 DEF Sums, SumBody
      <4> QED BY <2>1, <3>2, <4>2
    <3> QED BY <3>1, <3>2
  <2>2. CASE s # {}
    <3> DEFINE r == s \ {Pick(s)}
    <3>1. Pick(s) \in s
      BY <2>2, Picked
    <3>2. r \in SUBSET T /\ r # T /\ r \in SUBSET s /\ r # s
      BY <3>1
    <3>3. g[r] = F(r)[r]
      BY <3>2
    <3>4. CASE s = T
      BY <2>2, <3>3, <3>4
    <3>5. CASE s # T
      <4>1. Sums(F(s), h, s) /\ Sums(F(r), h, r)
        BY <1>2, <3>2, <3>5
      <4>2. F(s)[s] = h[Pick(s)] + F(s)[r]
        <5> HIDE DEF F
        <5> QED BY <2>2, <4>1 DEF Sums, SumBody
      <4>3. IsFiniteSet(r)
        BY <3>2, FS_Subset
      <4>4. [u \in SUBSET r |-> F(s)[u]] = F(r)
        <5> HIDE DEF F, r
        <5>1. Sums([u \in SUBSET r |-> F(s)[u]], h, r)
          BY <3>2, <4>1, SumsBelow
        <5> QED BY <4>1, <4>3, <5>1, SumsUnique
      <4>5. F(s)[r] = F(r)[r]
        <5> HIDE DEF F, r
        <5>1. [u \in SUBSET r |-> F(s)[u]][r] = F(s)[r]
          OBVIOUS
        <5> QED BY <4>4, <5>1
      <4>6. g[s] = F(s)[s]
        BY <3>5
      <4> QED BY <2>2, <3>3, <4>2, <4>5, <4>6
    <3> QED BY <3>4, <3>5
  <2> QED BY <2>1, <2>2
<1>4. g = [s \in SUBSET T |-> g[s]]
  OBVIOUS
<1> HIDE DEF g
<1>5. Sums(g, h, T)
  BY <1>3, <1>4 DEF Sums, SumBody
<1> QED BY <1>1, <1>5

Total(h, S) == (CHOOSE f : Sums(f, h, S))[S]

(* The equations of a sum. *)
LEMMA TotalIs ==
    ASSUME NEW S, IsFiniteSet(S), NEW h
    PROVE  /\ S = {} => Total(h, S) = 0
           /\ S # {} => Pick(S) \in S /\ Total(h, S) = h[Pick(S)] + Total(h, S \ {Pick(S)})
<1> DEFINE f == CHOOSE e : Sums(e, h, S)
<1>1. Sums(f, h, S)
  BY SumsExist
<1>2. Total(h, S) = f[S]
  BY DEF Total
<1> HIDE DEF f
<1>3. CASE S = {}
  BY <1>1, <1>2, <1>3 DEF Sums, SumBody
<1>4. CASE S # {}
  <2> DEFINE r == S \ {Pick(S)}
             g == CHOOSE e : Sums(e, h, r)
  <2>1. Pick(S) \in S /\ r \in SUBSET S /\ IsFiniteSet(r)
    BY <1>4, Picked, FS_Subset
  <2>2. f[S] = h[Pick(S)] + f[r]
    BY <1>1, <1>4 DEF Sums, SumBody
  <2>3. Sums(g, h, r) /\ Total(h, r) = g[r]
    BY <2>1, SumsExist DEF Total
  <2> HIDE DEF g, r
  <2>4. [s \in SUBSET r |-> f[s]] = g
    <3>1. Sums([s \in SUBSET r |-> f[s]], h, r)
      BY <1>1, <2>1, SumsBelow
    <3> QED BY <2>1, <2>3, <3>1, SumsUnique
  <2>5. g[r] = f[r]
    <3>1. [s \in SUBSET r |-> f[s]][r] = f[r]
      OBVIOUS
    <3> QED BY <2>4, <3>1
  <2> QED BY <1>2, <1>4, <2>1, <2>2, <2>3, <2>5 DEF r
<1> QED BY <1>3, <1>4

(* Sums of what agrees on S are the same. *)
LEMMA TotalSame ==
    ASSUME NEW S, IsFiniteSet(S), NEW h, NEW k, \A x \in S : h[x] = k[x]
    PROVE  Total(h, S) = Total(k, S)
<1> DEFINE B == {T \in SUBSET S : Total(h, T) # Total(k, T)}
<1> SUFFICES ASSUME B # {} PROVE FALSE
  OBVIOUS
<1>1. PICK T \in B : \A U \in SUBSET T : U # T => U \notin B
  <2> HIDE DEF B
  <2>1. B \subseteq SUBSET S
    BY DEF B
  <2> QED BY <2>1, Smallest
<1>2. IsFiniteSet(T) /\ T \subseteq S
  BY <1>1, FS_Subset
<1>3. T # {}
  BY <1>1, <1>2, TotalIs
<1>4. /\ Pick(T) \in T /\ Total(h, T) = h[Pick(T)] + Total(h, T \ {Pick(T)})
      /\ Total(k, T) = k[Pick(T)] + Total(k, T \ {Pick(T)})
  BY <1>2, <1>3, TotalIs
<1>5. Total(h, T \ {Pick(T)}) = Total(k, T \ {Pick(T)})
  BY <1>1, <1>2, <1>4
<1> QED BY <1>1, <1>2, <1>4, <1>5

\* Amounts without tenths of a cent.
Cents == {10 * k : k \in Nat}

(* Rounding leaves cents alone, and makes cents; cents add up to cents. *)
LEMMA CentsAre ==
    /\ Cents \subseteq Nat /\ 0 \in Cents
    /\ \A a, b \in Cents : a + b \in Cents
    /\ \A a \in Cents : Round(a) = a
    /\ \A a \in Nat : Stored(a) \in Cents /\ Round(a) \in Cents
<1>1. ASSUME NEW a \in Nat
      PROVE  (a + 5) \div 10 \in Nat
  OBVIOUS
<1>2. \A a \in Nat : Stored(a) \in Cents /\ Round(a) \in Cents
  BY <1>1 DEF Stored, Round, Cents
<1>3. \A k \in Nat : (10 * k + 5) \div 10 = k
  OBVIOUS
<1>4. \A a \in Cents : Round(a) = a
  BY <1>3 DEF Cents, Round
<1>5. \A j, k \in Nat : 10 * j + 10 * k = 10 * (j + k) /\ j + k \in Nat
  OBVIOUS
<1>6. ASSUME NEW a \in Cents, NEW b \in Cents
      PROVE  a + b \in Cents
  <2>1. PICK j \in Nat, k \in Nat : a = 10 * j /\ b = 10 * k
    BY DEF Cents
  <2>2. a + b = 10 * (j + k) /\ j + k \in Nat
    BY <1>5, <2>1
  <2> QED BY <2>2 DEF Cents
<1>7. Cents \subseteq Nat /\ 0 \in Cents
  BY DEF Cents
<1> QED BY <1>2, <1>4, <1>6, <1>7

(* A sum of cents is in cents. *)
LEMMA TotalInCents ==
    ASSUME NEW S, IsFiniteSet(S), NEW h, \A x \in S : h[x] \in Cents
    PROVE  Total(h, S) \in Cents
<1> DEFINE B == {T \in SUBSET S : Total(h, T) \notin Cents}
<1> SUFFICES ASSUME B # {} PROVE FALSE
  OBVIOUS
<1>1. PICK T \in B : \A U \in SUBSET T : U # T => U \notin B
  <2> HIDE DEF B
  <2>1. B \subseteq SUBSET S
    BY DEF B
  <2> QED BY <2>1, Smallest
<1>2. IsFiniteSet(T) /\ T \subseteq S
  BY <1>1, FS_Subset
<1>3. T # {}
  BY <1>1, <1>2, TotalIs, CentsAre
<1>4. Pick(T) \in T /\ Total(h, T) = h[Pick(T)] + Total(h, T \ {Pick(T)})
  BY <1>2, <1>3, TotalIs
<1>5. Total(h, T \ {Pick(T)}) \in Cents
  BY <1>1, <1>2, <1>4
<1> QED BY <1>1, <1>2, <1>4, <1>5, CentsAre

(* The sum that the model takes is this one. *)
LEMMA MapThenSumIs ==
    ASSUME NEW S, NEW h
    PROVE  MapThenSumSet(LAMBDA x : h[x].amount, S) = Total([x \in S |-> h[x].amount], S)
BY DEF MapThenSumSet, MapThenFoldSet, Total, Sums, SumBody, Pick
----------------------------------------------------------------------------
(***************************************************************************)
(* Types                                                                   *)
(***************************************************************************)

Statuses == {"EXPORT_READY", "IN_PROGRESS", "FAILED", "FATAL", "EXPORT_QUEUED", "COMPLETE"}
LinesType == UNION {[D -> LineType] : D \in SUBSET Expenses}
BodyType == [header : HeaderType, lines : LinesType]
RowType == [status : Statuses, export_id : Nat, body : BodyType]
DocType == [body : BodyType, touched : BOOLEAN]
TaskType == [pc : {"idle", "body", "vendor", "lines", "posted"},
             g : SUBSET Expenses, todo : SUBSET Expenses, header : HeaderType,
             vendor : Vendors \cup {None}, lines : LinesType, carried : Items \cup {None},
             doc : Nat, touched : BOOLEAN]

SettingsOK ==
    /\ kind \in {"PURCHASE_INVOICE", "DIRECT_COST"} /\ fund \in {"PERSONAL", "CCC"}
    /\ card \in [Expenses -> Cards]

MapsOK(m) ==
    /\ m = [account |-> m.account, vendor |-> m.vendor, source |-> m.source, id |-> m.id,
            payable |-> m.payable]
    /\ m.account \in [CategoryNames -> Accounts \cup {None}]
    /\ m.vendor \in [Cards \cup {"EMPLOYEE", "DEFAULT"} -> Vendors \cup {None}]
    /\ m.payable \in [{"PERSONAL", "CCC"} -> Accounts \cup {None}]
    /\ m.id = [d \in Destinations |-> m.id[d]]
    /\ m.id["JOB"] \in [DOMAIN m.id["JOB"] -> Jobs \cup {None}]
    /\ \A d \in Destinations \ {"JOB"} : m.id[d] \in [DOMAIN m.id[d] -> {"standard", None}]

OfferedOK ==
    /\ offered = [codes |-> offered.codes, types |-> offered.types]
    /\ offered.codes \subseteq [job : Jobs, label : LabelType]
    /\ offered.types \subseteq [code : LabelType, label : LabelType]
ExpensesOK ==
    /\ expense \in [Expenses -> ExpenseType \cup {None}]
    /\ update # None => update \in Expenses /\ expense[update] # None

RowsOK == row \in [Groups -> RowType] /\ \A g \in Groups : row[g].export_id <= Len(docs)
TaskOK ==
    /\ task \in TaskType /\ task.todo \subseteq task.g /\ task.doc <= Len(docs)
    /\ task.pc # "idle" => task.g \in Groups /\ \A x \in task.g : expense[x] # None
DocsOK == docs \in Seq(DocType)

TypeInv == SettingsOK /\ MapsOK(maps) /\ OfferedOK /\ ExpensesOK /\ RowsOK /\ TaskOK /\ DocsOK

(* An export is a set of expenses, and not empty. *)
LEMMA GroupsAre == \A g \in Groups : g \subseteq Expenses /\ g # {} /\ IsFiniteSet(g)
<1> SUFFICES ASSUME NEW g \in Groups PROVE g \subseteq Expenses /\ g # {}
  BY ExpensesAssumption, FS_Subset
<1> QED BY DEF Groups

(* Nothing is written without a body; the task starts with none. *)
LEMMA EmptyTypes ==
    /\ <<>> \in LinesType /\ DOMAIN <<>> = {}
    /\ NoHeader \in HeaderType /\ NoBody \in BodyType
    /\ NewRow \in RowType /\ IdleTask \in TaskType
<1>1. <<>> \in [{} -> LineType] /\ DOMAIN <<>> = {}
  OBVIOUS
<1>2. <<>> \in LinesType
  BY <1>1 DEF LinesType
<1>3. NoHeader \in HeaderType
  BY DEF NoHeader, HeaderType
<1>4. NoBody \in BodyType
  BY <1>2, <1>3 DEF NoBody, BodyType
<1>5. NewRow \in RowType
  BY <1>4 DEF NewRow, RowType, Statuses
<1>6. IdleTask \in TaskType
  BY <1>2, <1>3 DEF IdleTask, TaskType
<1> QED BY <1>1, <1>2, <1>3, <1>4, <1>5, <1>6

(* The amount of an expense is in cents. *)
LEMMA ExpenseInCents == \A e \in ExpenseType : e.amount \in Cents /\ e.category \in Categories
BY TieAssumption, CentsAre DEF ExpenseType

(* The vendor that is looked up is one, or none. *)
LEMMA VendorTyped ==
    ASSUME TypeInv, NEW x \in Expenses
    PROVE  VendorId(x) \in Vendors \cup {None}
BY DEF TypeInv, SettingsOK, MapsOK, VendorId

(* The names of categories that are looked up can be mapped. *)
LEMMA NamesAreMapped ==
    ASSUME TypeInv, NEW x \in Expenses, expense[x] # None
    PROVE  /\ FullName(expense[x].category) \in CategoryNames
           /\ LineCategory(x) \in CategoryNames
BY DEF TypeInv, ExpensesOK, ExpenseType, CategoryNames, LineCategory

(* What jobs and standard codes are mapped to is of Sage 300. *)
LEMMA MappedTyped ==
    ASSUME TypeInv, NEW x \in Expenses
    PROVE  /\ MappedId("JOB", x) \in Jobs \cup {None}
           /\ MappedId("STANDARD_CATEGORY", x) \in {"standard", None}
           /\ MappedId("STANDARD_COST_CODE", x) \in {"standard", None}
<1>1. PICK j : j = SourceValue("JOB", x)
  OBVIOUS
<1>2. PICK c : c = SourceValue("STANDARD_CATEGORY", x)
  OBVIOUS
<1>3. PICK t : t = SourceValue("STANDARD_COST_CODE", x)
  OBVIOUS
<1> QED BY <1>1, <1>2, <1>3 DEF MappedId, TypeInv, MapsOK, Destinations

(* One of some things is one of them, or none of none. *)
LEMMA OneOfIs == \A ids : (ids = {} => OneOf(ids) = None) /\ (ids # {} => OneOf(ids) \in ids)
BY DEF OneOf

(* A line has the type of a line. *)
LEMMA LineTyped ==
    ASSUME TypeInv, NEW x \in Expenses, expense[x] # None, AccountFound(x),
           NEW item \in Items \cup {None}
    PROVE  LineOf(x, item) \in LineType
<1>1. maps.account[LineCategory(x)] \in Accounts
  BY NamesAreMapped DEF AccountFound, TypeInv, MapsOK
<1>2. \A a \in Accounts : PayableId(a) \in Accounts \cup {None}
  BY DEF PayableId, TypeInv, MapsOK, SettingsOK
<1>3. Round(expense[x].amount) \in Nat
  BY ExpenseInCents, CentsAre DEF TypeInv, ExpensesOK
<1>4. CostCodeId(x) \in {r.code : r \in Table} \cup {None}
  BY OneOfIs DEF CostCodeId
<1>5. CostCategoryId(x) \in {r.cat : r \in Table} \cup {None}
  BY OneOfIs DEF CostCategoryId
<1> DEFINE p == IF kind = "DIRECT_COST" THEN None ELSE PayableId(maps.account[LineCategory(x)])
           s == <<MappedId("STANDARD_CATEGORY", x), MappedId("STANDARD_COST_CODE", x)>>
<1>6. p \in Accounts \cup {None}
  BY <1>1, <1>2
<1>7. s \in {"standard", None} \X {"standard", None}
  BY MappedTyped
<1> HIDE DEF p, s
<1>8. LineOf(x, item) = [account |-> maps.account[LineCategory(x)], payable |-> p,
                         amount |-> Round(expense[x].amount), job |-> MappedId("JOB", x),
                         code |-> CostCodeId(x), type |-> CostCategoryId(x), item |-> item,
                         standard |-> s]
  BY DEF LineOf, p, s
<1> QED BY <1>1, <1>3, <1>4, <1>5, <1>6, <1>7, <1>8, MappedTyped DEF LineType

(* No step changes the export settings, hence none the exports. *)
LEMMA SettingsStay ==
    ASSUME [Next]_vars
    PROVE  UNCHANGED settings /\ Groups' = Groups
<1>1. UNCHANGED settings
  <2>1. CASE ChangeCodeFields \/ OfferNames \/ ImportExpenses \/ SaveUpdate \/ EditMappings
    BY <2>1 DEF ChangeCodeFields, OfferNames, ImportExpenses, SaveUpdate, EditMappings
  <2>2. CASE \E x \in Expenses : SeeUpdate(x) \/ CreateLine(x)
    BY <2>2 DEF SeeUpdate, CreateLine
  <2>3. CASE \E g \in Groups : StartTask(g) \/ PollAccepted(g) \/ PollRejected(g)
    BY <2>3 DEF StartTask, PollAccepted, PollRejected
  <2>4. CASE CreateBody \/ ReadVendor \/ CreateDirectCost \/ PostDocument \/ SageRefuses
             \/ Commit \/ Die
    BY <2>4 DEF CreateBody, ReadVendor, CreateDirectCost, PostDocument, SageRefuses, Commit, Die
  <2>5. CASE UNCHANGED vars
    BY <2>5 DEF vars, settings
  <2> QED BY <2>1, <2>2, <2>3, <2>4, <2>5 DEF Next
<1>2. Groups' = Groups
  BY <1>1 DEF settings, Groups, GroupKey
<1> QED BY <1>1, <1>2

(* A task that is overtaken is still a task. *)
LEMMA TouchedIs ==
    ASSUME TypeInv
    PROVE  /\ Touched \in TaskType
           /\ \A f \in {"pc", "g", "todo", "header", "vendor", "lines", "carried", "doc"} :
                 Touched[f] = task[f]
           /\ task.pc # "idle" => Touched.touched
           /\ task.pc = "idle" => Touched = task
<1>1. task \in TaskType
  BY DEF TypeInv, TaskOK
<1> QED BY <1>1 DEF Touched, TaskType

(* Names, expenses and mappings keep their types. *)
LEMMA EditsType ==
    ASSUME TypeInv, Groups' = Groups, UNCHANGED settings,
           ChangeCodeFields \/ OfferNames \/ ImportExpenses \/ SaveUpdate \/ EditMappings
             \/ \E x \in Expenses : SeeUpdate(x)
    PROVE  TypeInv'
<1>1. UNCHANGED <<row, docs>>
  BY DEF ChangeCodeFields, OfferNames, ImportExpenses, SaveUpdate, EditMappings, SeeUpdate
<1>2. SettingsOK' /\ RowsOK' /\ DocsOK'
  BY <1>1 DEF TypeInv, SettingsOK, RowsOK, DocsOK, settings
<1>3. CASE ChangeCodeFields
  BY <1>2, <1>3 DEF ChangeCodeFields, TypeInv, MapsOK, OfferedOK, ExpensesOK, TaskOK
<1>4. CASE OfferNames
  <2>1. \A r \in Table : CodeLabel(r) \in LabelType /\ TypeLabel(r) \in LabelType
    BY DEF CodeLabel, TypeLabel, Label, LabelType
  <2>2. OfferedOK'
    BY <1>4, <2>1 DEF OfferNames, OfferedOK, Jobs
  <2> QED BY <1>2, <1>4, <2>2 DEF OfferNames, TypeInv, MapsOK, ExpensesOK, TaskOK
<1>5. CASE ImportExpenses
  <2>1. PICK p \in [Expenses -> Picks] :
          expense' = [x \in Expenses |->
                         ExpenseOf(First[x].category, First[x].amount, p[x], First[x].custom)]
    BY <1>5 DEF ImportExpenses
  <2>2. Picks \subseteq PickType
    BY DEF Picks, PickType, TypeInv, OfferedOK
  <2>3. ASSUME NEW x \in Expenses
        PROVE  expense'[x] \in ExpenseType
    BY <2>1, <2>2, FirstAssumption DEF ExpenseOf, ExpenseType
  <2>4. task.pc = "idle"
    <3>1. task.pc # "idle" => task.g \in Groups /\ \A x \in task.g : expense[x] # None
      BY DEF TypeInv, TaskOK
    <3> QED BY <1>5, <3>1, GroupsAre DEF ImportExpenses
  <2>5. UNCHANGED <<update, maps, task, offered>> /\ update = None
    BY <1>5 DEF ImportExpenses, TypeInv, ExpensesOK
  <2>6. ExpensesOK'
    BY <2>1, <2>3, <2>5 DEF ExpensesOK
  <2>7. TaskOK' /\ MapsOK(maps') /\ OfferedOK'
    BY <1>1, <2>4, <2>5 DEF TypeInv, TaskOK, OfferedOK
  <2> QED BY <1>2, <2>6, <2>7 DEF TypeInv
<1>6. CASE \E x \in Expenses : SeeUpdate(x)
  BY <1>2, <1>6 DEF SeeUpdate, fyle, TypeInv, MapsOK, OfferedOK, ExpensesOK, TaskOK
<1>7. CASE SaveUpdate
  <2>1. PICK c \in Categories, a \in Amounts :
          expense' = [expense EXCEPT ![update] = ExpenseOf(c, a, @.pick, @.custom)]
    BY <1>7 DEF SaveUpdate
  <2>2. update \in Expenses /\ expense[update] \in ExpenseType /\ update' = None
        /\ UNCHANGED <<maps, offered>>
    BY <1>7 DEF SaveUpdate, TypeInv, ExpensesOK
  <2>3. PICK e : e = ExpenseOf(c, a, expense[update].pick, expense[update].custom)
    OBVIOUS
  <2>4. e \in ExpenseType /\ e # None
    BY <2>2, <2>3, NoneAssumption DEF ExpenseOf, ExpenseType
  <2>5. expense' = [expense EXCEPT ![update] = e]
    BY <2>1, <2>3
  <2>6. ExpensesOK' /\ \A x \in Expenses : expense[x] # None => expense'[x] # None
    BY <2>2, <2>4, <2>5 DEF TypeInv, ExpensesOK
  <2>7. TaskOK'
    <3>1. task' = Touched
      BY <1>7 DEF SaveUpdate
    <3>2. /\ task' \in TaskType /\ task'.pc = task.pc /\ task'.g = task.g /\ task'.todo = task.todo
          /\ task'.doc = task.doc
      BY <3>1, TouchedIs
    <3> QED BY <1>1, <2>6, <3>2, GroupsAre DEF TypeInv, TaskOK
  <2> QED BY <1>2, <2>2, <2>6, <2>7 DEF TypeInv, OfferedOK
<1>8. CASE EditMappings
  <2>1. TaskOK'
    <3>1. task' = Touched /\ expense' = expense
      BY <1>8 DEF EditMappings, fyle
    <3>2. /\ task' \in TaskType /\ task'.pc = task.pc /\ task'.g = task.g /\ task'.todo = task.todo
          /\ task'.doc = task.doc
      BY <3>1, TouchedIs
    <3> QED BY <1>1, <3>1, <3>2 DEF TypeInv, TaskOK
  <2>2. MapsOK(maps')
    <3>1. MapsOK(maps)
      BY DEF TypeInv
    <3>2. CASE \E n \in DOMAIN maps.account, a \in Accounts \cup {None} :
                 maps' = [maps EXCEPT !.account[n] = a]
      BY <3>1, <3>2 DEF MapsOK
    <3>3. CASE \E v \in Vendors \cup {None}, k \in DOMAIN maps.vendor :
                 maps' = [maps EXCEPT !.vendor[k] = v]
      BY <3>1, <3>3 DEF MapsOK
    <3>4. CASE \E j \in Jobs \cup {None}, p \in Jobs : maps' = [maps EXCEPT !.id["JOB"][p] = j]
      <4>1. PICK j \in Jobs \cup {None}, p \in Jobs : maps' = [maps EXCEPT !.id["JOB"][p] = j]
        BY <3>4
      <4>2. PICK k : k = [maps.id["JOB"] EXCEPT ![p] = j]
        OBVIOUS
      <4>3. PICK i : i = [maps.id EXCEPT !["JOB"] = k]
        OBVIOUS
      <4>4. maps' = [maps EXCEPT !.id = i]
        BY <4>1, <4>2, <4>3
      <4>5. k \in [DOMAIN k -> Jobs \cup {None}]
        BY <3>1, <4>2 DEF MapsOK
      <4>6. /\ i = [d \in Destinations |-> i[d]] /\ i["JOB"] = k
            /\ \A d \in Destinations \ {"JOB"} : i[d] = maps.id[d]
        BY <3>1, <4>3 DEF MapsOK, Destinations
      <4> QED BY <3>1, <4>4, <4>5, <4>6 DEF MapsOK
    <3> QED BY <1>8, <3>2, <3>3, <3>4 DEF EditMappings
  <2> QED BY <1>2, <1>8, <2>1, <2>2 DEF EditMappings, fyle, TypeInv, OfferedOK, ExpensesOK
<1> QED BY <1>3, <1>4, <1>5, <1>6, <1>7, <1>8

(* The amount of a body is the sum of the amounts of its expenses, in cents. *)
LEMMA TotalAmountIs ==
    ASSUME TypeInv, NEW g \in Groups, \A x \in g : expense[x] # None
    PROVE  /\ TotalAmount(g) = Total([x \in g |-> expense[x].amount], g)
           /\ TotalAmount(g) \in Cents
<1>1. PICK e : e = expense
  OBVIOUS
<1>2. TotalAmount(g) = Total([x \in g |-> e[x].amount], g)
  BY <1>1, MapThenSumIs DEF TotalAmount
<1>3. IsFiniteSet(g) /\ g \subseteq Expenses
  BY GroupsAre
<1>4. \A x \in g : [y \in g |-> e[y].amount][x] \in Cents
  BY <1>1, <1>3, ExpenseInCents DEF TypeInv, ExpensesOK
<1>5. Total([x \in g |-> e[x].amount], g) \in Cents
  BY <1>3, <1>4, TotalInCents
<1> QED BY <1>1, <1>2, <1>5

(* A row that gets another status, and perhaps loses its body, is a row. *)
LEMMA RowsType ==
    ASSUME TypeInv, NEW g \in Groups, NEW s \in Statuses
    PROVE  /\ [row EXCEPT ![g].status = s] \in [Groups -> RowType]
           /\ \A h \in Groups :
                 /\ [row EXCEPT ![g].status = s][h].export_id = row[h].export_id
                 /\ [row EXCEPT ![g].status = s][h].body = row[h].body
                 /\ [row EXCEPT ![g].status = s][h].status = IF h = g THEN s ELSE row[h].status
<1>1. row \in [Groups -> RowType] /\ row[g] \in RowType
  BY DEF TypeInv, RowsOK
<1>2. PICK r : r = [row[g] EXCEPT !.status = s]
  OBVIOUS
<1>3. r \in RowType /\ r.export_id = row[g].export_id /\ r.body = row[g].body /\ r.status = s
  BY <1>1, <1>2 DEF RowType
<1>4. [row EXCEPT ![g].status = s] = [row EXCEPT ![g] = r]
  BY <1>2
<1>5. \A h \in Groups : [row EXCEPT ![g] = r][h] = IF h = g THEN r ELSE row[h]
  BY <1>1
<1>6. [row EXCEPT ![g] = r] \in [Groups -> RowType]
  BY <1>1, <1>3
<1> QED BY <1>3, <1>4, <1>5, <1>6

(* A line more, and the item it has, are of their types. *)
LEMMA LinesTyped ==
    ASSUME TypeInv, NEW x \in Expenses, NEW l \in LineType
    PROVE  /\ WithLine(x, l) \in LinesType /\ LineItem(x) \in Items \cup {None}
           /\ DOMAIN WithLine(x, l) = DOMAIN task.lines \cup {x}
           /\ \A y \in DOMAIN task.lines \cup {x} :
                 WithLine(x, l)[y] = IF y = x THEN l ELSE task.lines[y]
<1>1. task.lines \in LinesType /\ task.carried \in Items \cup {None}
  BY DEF TypeInv, TaskOK, TaskType
<1>2. PICK D \in SUBSET Expenses : task.lines \in [D -> LineType]
  BY <1>1 DEF LinesType
<1>3. WithLine(x, l) \in [D \cup {x} -> LineType]
  BY <1>2 DEF WithLine
<1>4. D \cup {x} \in SUBSET Expenses
  OBVIOUS
<1>5. WithLine(x, l) \in LinesType
  BY <1>3, <1>4 DEF LinesType
<1>6. LineItem(x) \in Items \cup {None}
  BY <1>1, OneOfIs DEF LineItem, Commitment
<1> QED BY <1>2, <1>5, <1>6 DEF WithLine

(* A task that fails leaves a row of its type, and is done. *)
LEMMA FailsTypes ==
    ASSUME TypeInv, NEW status \in Statuses, task.pc # "idle", Fails(status), docs' = docs,
           Groups' = Groups
    PROVE  RowsOK' /\ task' = IdleTask
<1>1. PICK g \in Groups : g = task.g
  BY DEF TypeInv, TaskOK
<1>2. row' = [row EXCEPT ![g].status = status]
  BY <1>1 DEF Fails
<1>3. row' \in [Groups -> RowType] /\ \A h \in Groups : row'[h].export_id = row[h].export_id
  BY <1>2, RowsType
<1> QED BY <1>3 DEF Fails, RowsOK, TypeInv

(* The task keeps its types, and so does what it writes and posts. *)
LEMMA TaskStepsType ==
    ASSUME TypeInv, Groups' = Groups, UNCHANGED settings,
           (\E g \in Groups : StartTask(g)) \/ CreateBody \/ ReadVendor \/ CreateDirectCost
             \/ (\E x \in Expenses : CreateLine(x)) \/ PostDocument \/ SageRefuses \/ Commit \/ Die
    PROVE  TypeInv'
<1>1. UNCHANGED <<codeFields, offered, expense, update, maps>>
  BY DEF StartTask, CreateBody, ReadVendor, CreateDirectCost, CreateLine, PostDocument,
         SageRefuses, Commit, Die, fyle
<1>2. SettingsOK' /\ MapsOK(maps') /\ OfferedOK' /\ ExpensesOK'
  BY <1>1 DEF TypeInv, SettingsOK, OfferedOK, ExpensesOK, settings
<1>3. task \in TaskType /\ task.doc <= Len(docs) /\ task.todo \subseteq task.g
      /\ row \in [Groups -> RowType] /\ docs \in Seq(DocType) /\ Len(docs) \in Nat
      /\ (task.pc # "idle" => task.g \in Groups /\ \A x \in task.g : expense[x] # None)
      /\ \A g \in Groups : row[g].export_id <= Len(docs)
  BY DEF TypeInv, TaskOK, RowsOK, DocsOK
<1>4. ASSUME task' = IdleTask, RowsOK', docs' = docs
      PROVE  TypeInv'
  <2>1. IdleTask.todo = {} /\ IdleTask.pc = "idle" /\ IdleTask.doc = 0
    BY DEF IdleTask
  <2>2. TaskOK'
    BY <1>3, <1>4, <2>1, EmptyTypes DEF TaskOK
  <2> QED BY <1>2, <1>4, <2>2 DEF TypeInv, DocsOK
<1>5. ASSUME UNCHANGED <<row, docs>>, task' \in TaskType, task'.todo \subseteq task'.g,
             task'.doc = task.doc, task'.g = task.g, task.pc # "idle"
      PROVE  TypeInv'
  BY <1>1, <1>2, <1>3, <1>5 DEF TypeInv, TaskOK, RowsOK, DocsOK
<1>6. CASE \E g \in Groups : StartTask(g)
  <2>1. PICK g \in Groups : StartTask(g)
    BY <1>6
  <2>2. UNCHANGED docs /\ \A x \in g : expense[x] # None
    BY <2>1 DEF StartTask
  <2>3. PICK s \in {"IN_PROGRESS", "FAILED"} : row' = [row EXCEPT ![g].status = s]
    BY <2>1 DEF StartTask
  <2>4. RowsOK'
    <3>1. s \in Statuses
      BY DEF Statuses
    <3>2. row' \in [Groups -> RowType] /\ \A h \in Groups : row'[h].export_id = row[h].export_id
      BY <2>3, <3>1, RowsType
    <3> QED BY <1>3, <2>2, <3>2 DEF RowsOK
  <2>5. TaskOK'
    <3>1. CASE task' = task
      BY <1>1, <1>3, <2>2, <3>1 DEF TaskOK
    <3>2. CASE task' = [IdleTask EXCEPT !.pc = "body", !.g = g]
      <4>1. g \subseteq Expenses
        BY GroupsAre
      <4>2. task' \in TaskType /\ task'.todo = {} /\ task'.g = g /\ task'.doc = 0
        BY <3>2, <4>1, EmptyTypes DEF IdleTask, TaskType
      <4> QED BY <1>1, <1>3, <2>2, <4>2 DEF TaskOK
    <3> QED BY <2>1, <3>1, <3>2 DEF StartTask
  <2> QED BY <1>2, <1>3, <2>2, <2>4, <2>5 DEF TypeInv, DocsOK
<1>7. CASE CreateBody
  <2>1. PICK x \in task.g :
          task' = [task EXCEPT !.pc = "vendor",
                     !.header = [vendor |-> VendorId(x), amount |-> Round(TotalAmount(task.g))]]
    BY <1>7 DEF CreateBody
  <2>2. x \in Expenses
    BY <1>3, <2>1 DEF TaskType
  <2>3. TotalAmount(task.g) \in Cents
    BY <1>3, <1>7, TotalAmountIs DEF CreateBody
  <2>4. PICK h : h = [vendor |-> VendorId(x), amount |-> Round(TotalAmount(task.g))]
    OBVIOUS
  <2>5. h \in HeaderType
    BY <2>2, <2>3, <2>4, VendorTyped, CentsAre DEF HeaderType
  <2>6. task' = [task EXCEPT !.pc = "vendor", !.header = h]
    BY <2>1, <2>4
  <2> QED BY <1>3, <1>5, <1>7, <2>5, <2>6 DEF CreateBody, TaskType
<1>8. CASE ReadVendor
  <2>1. PICK x \in task.g :
          task' = [task EXCEPT !.pc = "lines", !.todo = task.g, !.vendor = VendorId(x)]
    BY <1>8 DEF ReadVendor
  <2>2. VendorId(x) \in Vendors \cup {None}
    BY <1>3, <2>1, VendorTyped DEF TaskType
  <2> QED BY <1>3, <1>5, <1>8, <2>1, <2>2 DEF ReadVendor, TaskType
<1>9. CASE CreateDirectCost
  <2>1. task.pc # "idle" /\ UNCHANGED docs
    BY <1>9 DEF CreateDirectCost
  <2>2. PICK x \in task.g :
          IF ~AccountFound(x)
          THEN Fails("FATAL")
          ELSE /\ task' = [task EXCEPT !.pc = "lines",
                             !.header = [vendor |-> None, amount |-> expense[x].amount],
                             !.lines = [y \in {x} |-> LineOf(x, None)]]
               /\ UNCHANGED row
    BY <1>9 DEF CreateDirectCost
  <2>3. CASE ~AccountFound(x)
    BY <1>4, <2>1, <2>2, <2>3, FailsTypes DEF Statuses
  <2>4. CASE AccountFound(x)
    <3>1. x \in Expenses /\ expense[x] # None
      BY <1>3, <2>1, <2>2 DEF TaskType
    <3>2. PICK l : l = LineOf(x, None)
      OBVIOUS
    <3>3. l \in LineType
      BY <2>4, <3>1, <3>2, LineTyped
    <3>4. PICK ls : ls = [y \in {x} |-> l]
      OBVIOUS
    <3>5. ls \in LinesType
      <4>1. ls \in [{x} -> LineType] /\ {x} \in SUBSET Expenses
        BY <3>1, <3>3, <3>4
      <4> QED BY <4>1 DEF LinesType
    <3>6. PICK h : h = [vendor |-> None, amount |-> expense[x].amount]
      OBVIOUS
    <3>7. expense[x].amount \in Cents
      BY <3>1, ExpenseInCents DEF TypeInv, ExpensesOK
    <3>8. h \in HeaderType
      BY <3>6, <3>7, CentsAre DEF HeaderType
    <3>9. task' = [task EXCEPT !.pc = "lines", !.header = h, !.lines = ls] /\ UNCHANGED row
      BY <2>2, <2>4, <3>2, <3>4, <3>6
    <3> QED BY <1>3, <1>5, <2>1, <3>5, <3>8, <3>9 DEF TaskType
  <2> QED BY <2>3, <2>4
<1>10. CASE \E x \in Expenses : CreateLine(x)
  <2>1. PICK x \in Expenses : CreateLine(x)
    BY <1>10
  <2>2. task.pc # "idle" /\ UNCHANGED docs /\ x \in task.todo /\ expense[x] # None
    BY <1>3, <2>1 DEF CreateLine
  <2>3. CASE ~AccountFound(x)
    BY <1>4, <2>1, <2>2, <2>3, FailsTypes DEF CreateLine, Statuses
  <2>4. CASE AccountFound(x)
    <3>1. PICK i : i = LineItem(x)
      OBVIOUS
    <3>2. PICK l : l = LineOf(x, i)
      OBVIOUS
    <3>3. PICK ls : ls = WithLine(x, l)
      OBVIOUS
    <3>4. i \in Items \cup {None} /\ l \in LineType
      <4>1. i \in Items \cup {None}
        BY <3>1, OneOfIs, <1>3 DEF LineItem, Commitment, TaskType
      <4> QED BY <2>2, <2>4, <3>2, <4>1, LineTyped
    <3>5. ls \in LinesType
      BY <3>3, <3>4, LinesTyped
    <3>6. task' = [task EXCEPT !.todo = @ \ {x}, !.carried = i, !.lines = ls] /\ UNCHANGED row
      BY <2>1, <2>4, <3>1, <3>2, <3>3 DEF CreateLine
    <3> QED BY <1>3, <1>5, <2>2, <3>4, <3>5, <3>6 DEF TaskType
  <2> QED BY <2>3, <2>4
<1>11. CASE PostDocument
  <2>1. PICK d : d = [body |-> Body, touched |-> task.touched]
    OBVIOUS
  <2>2. d \in DocType
    BY <1>3, <2>1 DEF DocType, Body, BodyType, TaskType
  <2>3. docs' = Append(docs, d) /\ UNCHANGED row
        /\ task' = [task EXCEPT !.pc = "posted", !.doc = Len(docs) + 1]
    BY <1>11, <2>1 DEF PostDocument
  <2>4. docs' \in Seq(DocType) /\ Len(docs') = Len(docs) + 1
    BY <1>3, <2>2, <2>3
  <2>5. \A g \in Groups : row[g].export_id \in Nat
    BY <1>3 DEF RowType
  <2>6. RowsOK' /\ DocsOK'
    BY <1>3, <2>3, <2>4, <2>5 DEF RowsOK, DocsOK
  <2>7. TaskOK'
    <3>1. task.pc # "idle"
      BY <1>11 DEF PostDocument
    <3>2. task' \in TaskType /\ task'.todo = task.todo /\ task'.g = task.g /\ task'.doc = Len(docs')
      <4>1. PICK n \in Nat : n = Len(docs')
        BY <1>3, <2>4
      <4>2. task \in TaskType /\ task' = [task EXCEPT !.pc = "posted", !.doc = n]
        BY <1>3, <2>3, <2>4, <4>1
      <4>3. task' \in TaskType /\ task'.todo = task.todo /\ task'.g = task.g /\ task'.doc = n
        BY <4>2 DEF TaskType
      <4> QED BY <4>1, <4>3
    <3> QED BY <1>1, <1>3, <2>4, <3>1, <3>2 DEF TaskOK
  <2> QED BY <1>2, <2>6, <2>7 DEF TypeInv
<1>12. CASE SageRefuses \/ Die
  <2>1. Fails("FAILED") /\ docs' = docs /\ task.pc # "idle"
    BY <1>12 DEF SageRefuses, Die
  <2> QED BY <1>4, <2>1, FailsTypes DEF Statuses
<1>13. CASE Commit
  <2>1. task.g \in Groups /\ docs' = docs /\ task' = IdleTask
    BY <1>3, <1>13 DEF Commit
  <2>2. PICK r : r = [status |-> "EXPORT_QUEUED", export_id |-> task.doc, body |-> Body]
    OBVIOUS
  <2>3. r \in RowType /\ r.export_id <= Len(docs)
    BY <1>3, <2>2 DEF RowType, Statuses, Body, BodyType, TaskType
  <2>4. row' = [row EXCEPT ![task.g] = r]
    BY <1>13, <2>2 DEF Commit, Written
  <2> DEFINE g == task.g
  <2>5. row' = [row EXCEPT ![g] = r] /\ g \in Groups
    BY <2>1, <2>4
  <2> HIDE DEF g
  <2>6. RowsOK'
    BY <1>3, <2>1, <2>3, <2>5 DEF RowsOK
  <2> QED BY <1>4, <2>1, <2>6
<1> QED BY <1>6, <1>7, <1>8, <1>9, <1>10, <1>11, <1>12, <1>13

(* The poller writes statuses, and takes bodies away. *)
LEMMA PollerTypes ==
    ASSUME TypeInv, Groups' = Groups, UNCHANGED settings,
           NEW g \in Groups, PollAccepted(g) \/ PollRejected(g)
    PROVE  TypeInv'
<1>1. UNCHANGED <<codeFields, offered, expense, update, maps, task, docs>>
  BY DEF PollAccepted, PollRejected, fyle
<1>2. SettingsOK' /\ MapsOK(maps') /\ OfferedOK' /\ ExpensesOK' /\ TaskOK' /\ DocsOK'
  BY <1>1 DEF TypeInv, SettingsOK, OfferedOK, ExpensesOK, TaskOK, DocsOK, settings
<1>3. RowsOK'
  <2>1. CASE PollAccepted(g)
    BY <1>1, <2>1, RowsType DEF PollAccepted, RowsOK, TypeInv, Statuses
  <2>2. CASE PollRejected(g)
    <3>1. row \in [Groups -> RowType] /\ row[g] \in RowType
      BY DEF TypeInv, RowsOK
    <3>2. PICK r : r = [[row[g] EXCEPT !.status = "FAILED"] EXCEPT !.body = NoBody]
      OBVIOUS
    <3>3. r \in RowType /\ r.export_id = row[g].export_id
      BY <3>1, <3>2, EmptyTypes DEF RowType, Statuses
    <3>4. row' = [row EXCEPT ![g] = r]
      BY <2>2, <3>1, <3>2 DEF PollRejected
    <3> QED BY <1>1, <3>1, <3>3, <3>4 DEF RowsOK, TypeInv
  <2> QED BY <2>1, <2>2
<1> QED BY <1>2, <1>3 DEF TypeInv

(* The initial states have their types. *)
LEMMA TypeInitially == Init => TypeInv
<1> SUFFICES ASSUME Init PROVE TypeInv
  OBVIOUS
<1>1. SettingsOK
  BY SettingsAssumption DEF Init, SettingsOK
<1>2. MapsOK(maps)
  BY MappingsAssumption DEF Init, MapsOK
<1>3. OfferedOK /\ ExpensesOK
  BY DEF Init, OfferedOK, ExpensesOK
<1>4. DocsOK /\ Len(docs) = 0
  BY DEF Init, DocsOK
<1>5. RowsOK
  <2>1. NewRow.export_id = 0
    BY DEF NewRow
  <2> QED BY <1>4, <2>1, EmptyTypes DEF Init, RowsOK
<1>6. TaskOK
  <2>1. IdleTask.todo = {} /\ IdleTask.pc = "idle" /\ IdleTask.doc = 0
    BY DEF IdleTask
  <2> QED BY <1>4, <2>1, EmptyTypes DEF Init, TaskOK
<1> QED BY <1>1, <1>2, <1>3, <1>4, <1>5, <1>6 DEF TypeInv

(* Every step keeps them. *)
LEMMA TypeStep == TypeInv /\ [Next]_vars => TypeInv'
<1> SUFFICES ASSUME TypeInv, [Next]_vars PROVE TypeInv'
  OBVIOUS
<1>1. UNCHANGED settings /\ Groups' = Groups
  BY SettingsStay
<1>2. CASE UNCHANGED vars
  BY <1>1, <1>2 DEF vars, settings, TypeInv, SettingsOK, OfferedOK, ExpensesOK, RowsOK, TaskOK, DocsOK
<1>3. CASE Next
  <2>1. CASE \E g \in Groups : PollAccepted(g) \/ PollRejected(g)
    BY <1>1, <2>1, PollerTypes
  <2>2. CASE ChangeCodeFields \/ OfferNames \/ ImportExpenses \/ SaveUpdate \/ EditMappings
             \/ \E x \in Expenses : SeeUpdate(x)
    BY <1>1, <2>2, EditsType
  <2>3. CASE (\E g \in Groups : StartTask(g)) \/ CreateBody \/ ReadVendor \/ CreateDirectCost
             \/ (\E x \in Expenses : CreateLine(x)) \/ PostDocument \/ SageRefuses \/ Commit \/ Die
    BY <1>1, <2>3, TaskStepsType
  <2> QED BY <1>3, <2>1, <2>2, <2>3 DEF Next
<1> QED BY <1>2, <1>3

(* A body has the type of a body. *)
LEMMA BodyIs == \A b \in BodyType : BodyTypeOK(b)
<1> SUFFICES ASSUME NEW b \in BodyType PROVE BodyTypeOK(b)
  OBVIOUS
<1>1. PICK D \in SUBSET Expenses : b.lines \in [D -> LineType]
  BY DEF BodyType, LinesType
<1> QED BY <1>1 DEF BodyTypeOK, BodyType

(* Type correctness: lines have accounts, and name jobs, cost codes, categories
   and commitments of Sage 300; amounts, the sums among them, are numbers. *)
THEOREM TypeCorrect == Spec => []TypeOK
<1>1. TypeInv => TypeOK
  <2> SUFFICES ASSUME TypeInv PROVE TypeOK
    OBVIOUS
  <2>1. ASSUME NEW g \in Groups
        PROVE  /\ row[g].status \in {"EXPORT_READY", "IN_PROGRESS", "FAILED", "FATAL",
                                     "EXPORT_QUEUED", "COMPLETE"}
               /\ row[g].export_id \in 0..Len(docs)
               /\ BodyTypeOK(row[g].body)
    <3>1. row[g] \in RowType /\ row[g].export_id <= Len(docs) /\ Len(docs) \in Nat
      BY DEF TypeInv, RowsOK, DocsOK
    <3>2. row[g].body \in BodyType /\ row[g].export_id \in Nat /\ row[g].status \in Statuses
      BY <3>1 DEF RowType
    <3> QED BY <3>1, <3>2, BodyIs DEF Statuses
  <2>2. task \in TaskType /\ task.todo \subseteq task.g
    BY DEF TypeInv, TaskOK
  <2>3. Body \in BodyType
    BY <2>2 DEF Body, BodyType, TaskType
  <2>4. ASSUME NEW d \in DOMAIN docs
        PROVE  BodyTypeOK(docs[d].body)
    <3>1. docs[d] \in DocType
      BY DEF TypeInv, DocsOK
    <3> QED BY <3>1, BodyIs DEF DocType
  <2>5. expense \in [Expenses -> ExpenseType \cup {None}]
    BY DEF TypeInv, ExpensesOK
  <2>6. task.pc \in {"idle", "body", "vendor", "lines", "posted"}
    BY <2>2 DEF TaskType
  <2>7. BodyTypeOK(Body)
    BY <2>3, BodyIs
  <2> QED BY <2>1, <2>2, <2>4, <2>5, <2>6, <2>7 DEF TypeOK
<1> QED BY TypeInitially, TypeStep, <1>1, PTL DEF Spec
----------------------------------------------------------------------------
(***************************************************************************)
(* What is stored is what was posted                                       *)
(***************************************************************************)

\* The document that was posted and is not committed yet is the task's body.
PostedHolds == task.pc = "posted" => task.doc \in DOMAIN docs /\ docs[task.doc].body = Body

StoredHolds ==
    \A g \in Groups : row[g].status \in {"EXPORT_QUEUED", "COMPLETE"} =>
        row[g].export_id \in DOMAIN docs /\ row[g].body = docs[row[g].export_id].body

StoredInv == TypeInv /\ PostedHolds /\ StoredHolds

(* Documents are never changed: those that are there stay. *)
LEMMA DocsGrow ==
    ASSUME TypeInv, [Next]_vars
    PROVE  DOMAIN docs \subseteq DOMAIN docs' /\ \A d \in DOMAIN docs : docs'[d] = docs[d]
<1>1. CASE PostDocument
  <2>1. PICK d : docs' = Append(docs, d)
    BY <1>1 DEF PostDocument
  <2> QED BY <2>1 DEF TypeInv, DocsOK
<1>2. CASE UNCHANGED docs
  BY <1>2
<1>3. PostDocument \/ UNCHANGED docs
  BY DEF Next, vars, ChangeCodeFields, OfferNames, ImportExpenses, SaveUpdate, EditMappings, SeeUpdate,
         CreateLine, StartTask, PollAccepted, PollRejected, CreateBody, ReadVendor,
         CreateDirectCost, SageRefuses, Commit, Die
<1> QED BY <1>1, <1>2, <1>3

(* The task's body does not change once it is posted. *)
LEMMA PostedStep ==
    ASSUME StoredInv, [Next]_vars
    PROVE  PostedHolds'
<1>1. DOMAIN docs \subseteq DOMAIN docs' /\ \A d \in DOMAIN docs : docs'[d] = docs[d]
  BY DocsGrow DEF StoredInv
<1>2. task \in TaskType /\ docs \in Seq(DocType)
  BY DEF StoredInv, TypeInv, TaskOK, DocsOK
<1>3. CASE task' = Touched
  <2>1. /\ task'.pc = task.pc /\ task'.header = task.header /\ task'.lines = task.lines
        /\ task'.doc = task.doc
    BY <1>3, TouchedIs DEF StoredInv
  <2> QED BY <1>1, <2>1 DEF StoredInv, PostedHolds, Body
<1>4. CASE task' = task
  BY <1>1, <1>4 DEF StoredInv, PostedHolds, Body
<1>5. CASE PostDocument
  <2>1. /\ docs' = Append(docs, [body |-> Body, touched |-> task.touched])
        /\ task' = [task EXCEPT !.pc = "posted", !.doc = Len(docs) + 1]
    BY <1>5 DEF PostDocument
  <2>2. task'.doc = Len(docs) + 1 /\ task'.header = task.header /\ task'.lines = task.lines
    BY <1>2, <2>1 DEF TaskType
  <2>3. PICK d : d = [body |-> Body, touched |-> task.touched]
    OBVIOUS
  <2>4. d \in DocType /\ d.body = Body
    BY <1>2, <2>3 DEF DocType, Body, BodyType, TaskType
  <2>5. docs' = Append(docs, d)
    BY <2>1, <2>3
  <2>6. Len(docs) + 1 \in DOMAIN docs' /\ docs'[Len(docs) + 1] = d
    BY <1>2, <2>4, <2>5
  <2> QED BY <2>2, <2>4, <2>6 DEF PostedHolds, Body
<1>6. CASE task'.pc # "posted"
  BY <1>6 DEF PostedHolds
<1>7. \/ task' = task \/ task' = Touched \/ PostDocument \/ task'.pc # "posted"
  <2>1. IdleTask.pc = "idle"
    BY DEF IdleTask
  <2>2. CASE ChangeCodeFields \/ OfferNames \/ ImportExpenses \/ SaveUpdate \/ EditMappings
             \/ (\E x \in Expenses : SeeUpdate(x))
             \/ (\E g \in Groups : PollAccepted(g) \/ PollRejected(g)) \/ UNCHANGED vars
    BY <2>2 DEF ChangeCodeFields, OfferNames, ImportExpenses, SaveUpdate, EditMappings, SeeUpdate,
                PollAccepted, PollRejected, vars
  <2>3. CASE \E g \in Groups : StartTask(g)
    BY <2>3 DEF StartTask, IdleTask
  <2>4. CASE CreateBody \/ ReadVendor
    BY <1>2, <2>4 DEF CreateBody, ReadVendor, TaskType
  <2>5. CASE CreateDirectCost \/ \E x \in Expenses : CreateLine(x)
    <3>1. task.pc # "posted"
      BY <2>5 DEF CreateDirectCost, CreateLine
    <3> QED BY <1>2, <2>1, <2>5, <3>1 DEF CreateDirectCost, CreateLine, Fails, TaskType
  <2>6. CASE SageRefuses \/ Commit \/ Die
    BY <2>1, <2>6 DEF SageRefuses, Commit, Die, Fails
  <2> QED BY <2>2, <2>3, <2>4, <2>5, <2>6 DEF Next
<1> QED BY <1>3, <1>4, <1>5, <1>6, <1>7

(* A row that is queued or complete gets its body with its export_id. *)
LEMMA StoredStep ==
    ASSUME StoredInv, [Next]_vars
    PROVE  StoredHolds'
<1>1. DOMAIN docs \subseteq DOMAIN docs' /\ \A d \in DOMAIN docs : docs'[d] = docs[d]
  BY DocsGrow DEF StoredInv
<1>2. Groups' = Groups /\ row \in [Groups -> RowType]
  BY SettingsStay DEF StoredInv, TypeInv, RowsOK
<1>3. SUFFICES ASSUME NEW g \in Groups, row'[g].status \in {"EXPORT_QUEUED", "COMPLETE"}
               PROVE  /\ row'[g].export_id \in DOMAIN docs'
                      /\ row'[g].body = docs'[row'[g].export_id].body
  BY <1>2 DEF StoredHolds
<1>4. ASSUME row[g].status \in {"EXPORT_QUEUED", "COMPLETE"}, row'[g].export_id = row[g].export_id,
             row'[g].body = row[g].body
      PROVE  row'[g].export_id \in DOMAIN docs' /\ row'[g].body = docs'[row'[g].export_id].body
  BY <1>1, <1>4 DEF StoredInv, StoredHolds
<1>5. CASE \E s \in {"IN_PROGRESS", "FAILED", "FATAL"}, h \in Groups : row' = [row EXCEPT ![h].status = s]
  <2>1. PICK s \in {"IN_PROGRESS", "FAILED", "FATAL"}, h \in Groups : row' = [row EXCEPT ![h].status = s]
    BY <1>5
  <2>2. /\ row'[g].export_id = row[g].export_id /\ row'[g].body = row[g].body
        /\ row'[g].status = IF g = h THEN s ELSE row[g].status
    <3>1. row[h] \in RowType
      BY <1>2
    <3>2. PICK r : r = [row[h] EXCEPT !.status = s]
      OBVIOUS
    <3>3. r.export_id = row[h].export_id /\ r.body = row[h].body /\ r.status = s
      BY <3>1, <3>2 DEF RowType
    <3>4. row' = [row EXCEPT ![h] = r]
      BY <2>1, <3>2
    <3> QED BY <1>2, <3>3, <3>4
  <2>3. g # h
    BY <1>3, <2>1, <2>2
  <2> QED BY <1>3, <1>4, <2>2, <2>3
<1>6. CASE UNCHANGED row
  BY <1>3, <1>4, <1>6
<1>7. CASE \E h \in Groups : PollAccepted(h)
  <2>1. PICK h \in Groups : PollAccepted(h)
    BY <1>7
  <2>2. /\ row'[g].export_id = row[g].export_id /\ row'[g].body = row[g].body
        /\ row'[g].status = IF g = h THEN "COMPLETE" ELSE row[g].status
    BY <2>1, RowsType DEF PollAccepted, StoredInv, Statuses
  <2> QED BY <1>3, <1>4, <2>1, <2>2 DEF PollAccepted, Polls
<1>8. CASE \E h \in Groups : PollRejected(h)
  <2>1. PICK h \in Groups : PollRejected(h)
    BY <1>8
  <2>2. row' = [row EXCEPT ![h].status = "FAILED", ![h].body = NoBody]
    BY <2>1 DEF PollRejected
  <2>3. row[h] \in RowType
    BY <1>2
  <2>4. g # h
    <3>1. row'[h].status = "FAILED"
      BY <1>2, <2>2, <2>3 DEF RowType
    <3> QED BY <1>3, <3>1
  <2>5. row'[g] = row[g]
    BY <1>2, <2>2, <2>4
  <2> QED BY <1>3, <1>4, <2>5
<1>9. CASE Commit
  <2>1. PICK h \in Groups : h = task.g
    BY <1>9 DEF Commit, StoredInv, TypeInv, TaskOK
  <2>2. PICK r : r = [status |-> "EXPORT_QUEUED", export_id |-> task.doc, body |-> Body]
    OBVIOUS
  <2>3. row' = [row EXCEPT ![h] = r]
    BY <1>9, <2>1, <2>2 DEF Commit, Written
  <2>4. row'[g] = IF g = h THEN r ELSE row[g]
    BY <1>2, <2>3
  <2>5. task.doc \in DOMAIN docs /\ docs[task.doc].body = Body
    BY <1>9 DEF Commit, StoredInv, PostedHolds
  <2> QED BY <1>1, <1>3, <1>4, <2>2, <2>4, <2>5
<1>10. \/ \E s \in {"IN_PROGRESS", "FAILED", "FATAL"}, h \in Groups : row' = [row EXCEPT ![h].status = s]
       \/ UNCHANGED row \/ Commit
       \/ \E h \in Groups : PollAccepted(h) \/ PollRejected(h)
  <2>1. CASE ChangeCodeFields \/ OfferNames \/ ImportExpenses \/ SaveUpdate \/ EditMappings
             \/ (\E x \in Expenses : SeeUpdate(x)) \/ CreateBody \/ ReadVendor \/ PostDocument
             \/ UNCHANGED vars
    BY <2>1 DEF ChangeCodeFields, OfferNames, ImportExpenses, SaveUpdate, EditMappings, SeeUpdate,
                CreateBody, ReadVendor, PostDocument, vars
  <2>2. CASE \E h \in Groups : StartTask(h)
    BY <2>2 DEF StartTask
  <2>3. CASE CreateDirectCost \/ (\E x \in Expenses : CreateLine(x)) \/ SageRefuses \/ Die
    <3>1. task.pc # "idle" => task.g \in Groups
      BY DEF StoredInv, TypeInv, TaskOK
    <3> QED BY <2>3, <3>1 DEF CreateDirectCost, CreateLine, SageRefuses, Die, Fails
  <2> QED BY <2>1, <2>2, <2>3 DEF Next
<1> QED BY <1>5, <1>6, <1>7, <1>8, <1>9, <1>10

(* Body and lines in the database are those of the document that export_id names,
   for any number of attempts, refusals, deaths and documents. *)
THEOREM StoredIsAlwaysPosted == Spec => []StoredIsPosted
<1>1. Init => StoredInv
  <2> SUFFICES ASSUME Init PROVE StoredInv
    OBVIOUS
  <2>1. PostedHolds
    BY DEF Init, IdleTask, PostedHolds
  <2>2. StoredHolds
    BY DEF Init, NewRow, StoredHolds
  <2> QED BY <2>1, <2>2, TypeInitially DEF StoredInv
<1>2. StoredInv /\ [Next]_vars => StoredInv'
  BY TypeStep, PostedStep, StoredStep DEF StoredInv
<1>3. StoredInv => StoredIsPosted
  BY DEF StoredInv, StoredHolds, StoredIsPosted
<1> QED BY <1>1, <1>2, <1>3, PTL DEF Spec
----------------------------------------------------------------------------
(***************************************************************************)
(* What a task has worked out that no edit has overtaken                   *)
(***************************************************************************)

SumOf(f, S) == Total([x \in S |-> f[x].amount], S)

\* An item of the vendor in the header, for the cost code and category of a line.
Belongs(i, header, lines) ==
    i # None => /\ i.vendor = header.vendor
                /\ \E y \in DOMAIN lines : lines[y].code = i.code /\ lines[y].type = i.type

DocHolds(b) ==
    /\ b.header.amount = SumOf(b.lines, DOMAIN b.lines)
    /\ \A x \in DOMAIN b.lines : Belongs(b.lines[x].item, b.header, b.lines)
DocsHold == \A d \in DOMAIN docs : ~docs[d].touched => DocHolds(docs[d].body)

Quiet == task.pc # "idle" /\ ~task.touched

AccountsHold == \A x \in task.g : maps.account[FullName(expense[x].category)] # None

HeaderHolds ==
    task.pc # "body" =>
        /\ task.header.amount = SumOf(expense, task.g)
        /\ \A x \in task.g : task.header.vendor = VendorId(x)

LinesHold ==
    IF task.pc \in {"body", "vendor"}
    THEN DOMAIN task.lines = {} /\ task.carried = None
    ELSE /\ task.vendor = task.header.vendor
         /\ DOMAIN task.lines = task.g \ task.todo
         /\ \A x \in DOMAIN task.lines : task.lines[x].amount = expense[x].amount
         /\ \A x \in DOMAIN task.lines : Belongs(task.lines[x].item, task.header, task.lines)
         /\ Belongs(task.carried, task.header, task.lines)

DirectHolds ==
    /\ task.pc # "vendor" /\ task.todo = {}
    /\ task.pc # "body" =>
          \E x \in task.g : /\ DOMAIN task.lines = {x} /\ task.lines[x].item = None
                            /\ task.lines[x].amount = task.header.amount

WorkHolds ==
    Quiet => /\ AccountsHold
             /\ kind = "PURCHASE_INVOICE" => HeaderHolds /\ LinesHold
             /\ kind = "DIRECT_COST" => DirectHolds

WorkInv == TypeInv /\ WorkHolds /\ DocsHold

(* The expenses of an export have one vendor: those of a report are together
   when they are of one card. *)
LEMMA VendorsAlike == \A g \in Groups : \A x, y \in g : VendorId(x) = VendorId(y)
<1> SUFFICES ASSUME NEW g \in Groups, NEW x \in g, NEW y \in g
             PROVE  card[x] = card[y]
  BY DEF VendorId
<1>1. CASE grouping = "REPORT"
  <2>1. PICK z \in Expenses : g = {w \in Expenses : GroupKey(w) = GroupKey(z)}
    BY <1>1 DEF Groups
  <2>2. GroupKey(x) = GroupKey(z) /\ GroupKey(y) = GroupKey(z)
    BY <2>1
  <2> QED BY <2>2 DEF GroupKey
<1>2. CASE grouping # "REPORT"
  BY <1>2 DEF Groups
<1> QED BY <1>1, <1>2

(* The amounts of an export sum up to cents, which rounding leaves alone. *)
LEMMA HeaderAmountIs ==
    ASSUME TypeInv, NEW g \in Groups, \A x \in g : expense[x] # None
    PROVE  Round(TotalAmount(g)) = SumOf(expense, g)
BY TotalAmountIs, CentsAre DEF SumOf

(* A sum of one amount is that amount. *)
LEMMA SumOfOne ==
    ASSUME NEW f, NEW x, f[x].amount \in Nat
    PROVE  SumOf(f, {x}) = f[x].amount
<1> DEFINE h == [y \in {x} |-> f[y].amount]
<1>1. h[x] = f[x].amount
  OBVIOUS
<1> HIDE DEF h
<1>2. IsFiniteSet({x}) /\ IsFiniteSet({}) /\ {x} # {}
  BY FS_EmptySet, FS_Singleton
<1>3. Pick({x}) \in {x} /\ Total(h, {x}) = h[Pick({x})] + Total(h, {x} \ {Pick({x})})
  BY <1>2, TotalIs
<1>4. Pick({x}) = x /\ {x} \ {Pick({x})} = {}
  BY <1>3
<1>5. Total(h, {}) = 0
  BY <1>2, TotalIs
<1>6. Total(h, {x}) = f[x].amount
  BY <1>1, <1>3, <1>4, <1>5
<1> QED BY <1>6 DEF SumOf, h

(* Sums of what has the same amounts are the same. *)
LEMMA SumOfSame ==
    ASSUME NEW S, IsFiniteSet(S), NEW f, NEW g, \A x \in S : f[x].amount = g[x].amount
    PROVE  SumOf(f, S) = SumOf(g, S)
<1>1. \A x \in S : [y \in S |-> f[y].amount][x] = [y \in S |-> g[y].amount][x]
  OBVIOUS
<1> QED BY <1>1, TotalSame DEF SumOf

(* What is looked up of expenses, settings and mappings does not change while
   those do not. *)
LEMMA LookUpsStay ==
    ASSUME UNCHANGED <<settings, expense, maps>>
    PROVE  /\ \A x \in Expenses : VendorId(x)' = VendorId(x)
           /\ kind' = kind /\ expense' = expense /\ maps' = maps
BY DEF settings, VendorId

(* So that a task that stays as it was still holds. *)
LEMMA WorkStays ==
    ASSUME TypeInv, WorkHolds, UNCHANGED <<settings, expense, maps, task>>
    PROVE  WorkHolds'
<1>1. task.g \subseteq Expenses
  BY DEF TypeInv, TaskOK, TaskType
<1> QED BY <1>1, LookUpsStay
        DEF WorkHolds, Quiet, AccountsHold, HeaderHolds, LinesHold, DirectHolds

(* A task that starts has a mapped account for each of its expenses. *)
LEMMA StartWork ==
    ASSUME TypeInv, WorkHolds, UNCHANGED settings, NEW g \in Groups, StartTask(g)
    PROVE  WorkHolds'
<1>1. UNCHANGED <<expense, maps>>
  BY DEF StartTask, fyle
<1>2. CASE task' = task
  BY <1>1, <1>2, WorkStays
<1>3. CASE task' # task
  <2>1. Validated(g) /\ task' = [IdleTask EXCEPT !.pc = "body", !.g = g]
    BY <1>3 DEF StartTask
  <2>2. /\ task'.pc = "body" /\ task'.g = g /\ task'.todo = {} /\ task'.lines = <<>>
        /\ task'.carried = None
    BY <2>1 DEF IdleTask
  <2>3. AccountsHold'
    BY <1>1, <2>1, <2>2 DEF Validated, AccountsHold
  <2>4. HeaderHolds' /\ LinesHold' /\ DirectHolds'
    BY <2>2, EmptyTypes DEF HeaderHolds, LinesHold, DirectHolds
  <2> QED BY <2>3, <2>4 DEF WorkHolds
<1> QED BY <1>2, <1>3

(* The header has the sum of the amounts, and the vendor of every expense. *)
LEMMA BodyWork ==
    ASSUME TypeInv, WorkHolds, UNCHANGED settings, CreateBody
    PROVE  WorkHolds'
<1>1. UNCHANGED <<expense, maps>> /\ kind = "PURCHASE_INVOICE" /\ kind' = kind /\ task.pc = "body"
  BY DEF CreateBody, fyle, settings
<1>2. PICK x \in task.g :
        task' = [task EXCEPT !.pc = "vendor",
                   !.header = [vendor |-> VendorId(x), amount |-> Round(TotalAmount(task.g))]]
  BY DEF CreateBody
<1>3. task \in TaskType /\ task.g \in Groups /\ \A y \in task.g : expense[y] # None
  BY <1>1 DEF TypeInv, TaskOK
<1>4. PICK g \in Groups : g = task.g
  BY <1>3
<1>5. Round(TotalAmount(g)) = SumOf(expense, g)
  BY <1>3, <1>4, HeaderAmountIs
<1>6. \A y \in g : VendorId(x) = VendorId(y)
  BY <1>2, <1>4, VendorsAlike
<1>7. PICK h : h = [vendor |-> VendorId(x), amount |-> Round(TotalAmount(g))]
  OBVIOUS
<1>8. /\ task'.pc = "vendor" /\ task'.g = g /\ task'.header = h /\ task'.lines = task.lines
      /\ task'.carried = task.carried /\ task'.touched = task.touched
  BY <1>2, <1>3, <1>4, <1>7 DEF TaskType
<1>9. h.amount = SumOf(expense, g) /\ \A y \in g : h.vendor = VendorId(y)
  BY <1>5, <1>6, <1>7
<1>10. \A y \in g : VendorId(y)' = VendorId(y)
  BY <1>1, <1>3, <1>4, LookUpsStay DEF TaskType
<1>11. HeaderHolds'
  BY <1>1, <1>8, <1>9, <1>10 DEF HeaderHolds
<1>12. ASSUME Quiet'
       PROVE  AccountsHold' /\ LinesHold'
  <2>1. Quiet
    BY <1>1, <1>8, <1>12 DEF Quiet
  <2> QED BY <1>1, <1>4, <1>8, <2>1 DEF WorkHolds, AccountsHold, LinesHold
<1> QED BY <1>1, <1>11, <1>12 DEF WorkHolds

(* The lines find the vendor of the header again. *)
LEMMA VendorWork ==
    ASSUME TypeInv, WorkHolds, UNCHANGED settings, ReadVendor
    PROVE  WorkHolds'
<1>1. UNCHANGED <<expense, maps>> /\ kind' = kind /\ task.pc = "vendor"
  BY DEF ReadVendor, fyle, settings
<1>2. PICK x \in task.g :
        task' = [task EXCEPT !.pc = "lines", !.todo = task.g, !.vendor = VendorId(x)]
  BY DEF ReadVendor
<1>3. task \in TaskType
  BY DEF TypeInv, TaskOK
<1>4. /\ task'.pc = "lines" /\ task'.g = task.g /\ task'.header = task.header
      /\ task'.lines = task.lines /\ task'.carried = task.carried
      /\ task'.touched = task.touched /\ task'.vendor = VendorId(x) /\ task'.todo = task.g
  BY <1>2, <1>3 DEF TaskType
<1>5. \A y \in task.g : VendorId(y)' = VendorId(y)
  BY <1>1, <1>3, LookUpsStay DEF TaskType
<1>6. SUFFICES ASSUME Quiet'
               PROVE  /\ AccountsHold' /\ kind = "PURCHASE_INVOICE"
                      /\ HeaderHolds' /\ LinesHold'
  BY <1>1 DEF WorkHolds
<1>7. /\ Quiet /\ AccountsHold /\ kind = "PURCHASE_INVOICE" /\ HeaderHolds /\ LinesHold
  BY <1>1, <1>4, <1>6 DEF Quiet, WorkHolds, DirectHolds, TypeInv, SettingsOK
<1>8. AccountsHold' /\ HeaderHolds'
  BY <1>1, <1>4, <1>5, <1>7 DEF AccountsHold, HeaderHolds
<1>9. LinesHold'
  <2>1. DOMAIN task.lines = {} /\ task.carried = None
    BY <1>1, <1>7 DEF LinesHold
  <2>2. task'.vendor = task'.header.vendor
    BY <1>1, <1>2, <1>4, <1>7 DEF HeaderHolds
  <2> QED BY <1>4, <2>1, <2>2 DEF LinesHold, Belongs
<1> QED BY <1>7, <1>8, <1>9

(* A commitment that a line finds is the vendor's, and for what the line says. *)
LEMMA CommitmentIs ==
    ASSUME NEW x, Commitment(x) # None
    PROVE  /\ Commitment(x).vendor = task.vendor
           /\ Commitment(x).code = CostCodeId(x) /\ Commitment(x).type = CostCategoryId(x)
<1> DEFINE ids == {i \in Items : i.code = CostCodeId(x) /\ i.type = CostCategoryId(x)}
<1>1. Commitment(x) = OneOf(ids) /\ OneOf(ids) # None /\ OneOf(ids).vendor = task.vendor
  BY DEF Commitment
<1>2. OneOf(ids) \in ids
  <2> HIDE DEF ids
  <2> QED BY <1>1, OneOfIs
<1> QED BY <1>1, <1>2

(* A line has the amount of its expense, and no item but the vendor's. *)
LEMMA LineWork ==
    ASSUME TypeInv, WorkHolds, UNCHANGED settings, NEW x \in Expenses, CreateLine(x)
    PROVE  WorkHolds'
<1>1. UNCHANGED <<expense, maps>> /\ kind' = kind /\ task.pc = "lines" /\ x \in task.todo
  BY DEF CreateLine, fyle, settings
<1>2. CASE ~AccountFound(x)
  BY <1>2 DEF CreateLine, Fails, IdleTask, WorkHolds, Quiet
<1>3. CASE AccountFound(x)
  <2>1. PICK i : i = LineItem(x)
    OBVIOUS
  <2>2. PICK l : l = LineOf(x, i)
    OBVIOUS
  <2>3. PICK ls : ls = WithLine(x, l)
    OBVIOUS
  <2>4. task \in TaskType /\ task.todo \subseteq task.g /\ task.g \in Groups
        /\ \A y \in task.g : expense[y] # None
    BY <1>1 DEF TypeInv, TaskOK
  <2>5. /\ task'.pc = "lines" /\ task'.g = task.g /\ task'.header = task.header
        /\ task'.vendor = task.vendor /\ task'.touched = task.touched
        /\ task'.todo = task.todo \ {x} /\ task'.lines = ls /\ task'.carried = i
    <3>1. task' = [task EXCEPT !.todo = @ \ {x}, !.carried = i, !.lines = ls]
      BY <1>3, <2>1, <2>2, <2>3 DEF CreateLine
    <3> QED BY <1>1, <2>4, <3>1 DEF TaskType
  <2>6. SUFFICES ASSUME Quiet'
                 PROVE  AccountsHold' /\ kind = "PURCHASE_INVOICE" /\ HeaderHolds' /\ LinesHold'
    BY <1>1 DEF WorkHolds
  <2>7. Quiet /\ AccountsHold /\ kind = "PURCHASE_INVOICE" /\ HeaderHolds /\ LinesHold
    BY <1>1, <2>5, <2>6 DEF Quiet, WorkHolds, DirectHolds, TypeInv, SettingsOK
  <2>8. \A y \in task.g : VendorId(y)' = VendorId(y)
    BY <1>1, <2>4, LookUpsStay DEF TaskType
  <2>9. AccountsHold' /\ HeaderHolds'
    BY <1>1, <2>5, <2>7, <2>8 DEF AccountsHold, HeaderHolds
  <2>10. /\ task.vendor = task.header.vendor
         /\ DOMAIN task.lines = task.g \ task.todo
         /\ \A y \in DOMAIN task.lines : task.lines[y].amount = expense[y].amount
         /\ \A y \in DOMAIN task.lines : Belongs(task.lines[y].item, task.header, task.lines)
         /\ Belongs(task.carried, task.header, task.lines)
    BY <1>1, <2>7 DEF LinesHold
  <2>11. DOMAIN ls = DOMAIN task.lines \cup {x} /\ x \notin DOMAIN task.lines
         /\ ls[x] = l /\ \A y \in DOMAIN task.lines : ls[y] = task.lines[y]
    BY <1>1, <2>3, <2>10 DEF WithLine
  <2>12. l.amount = expense[x].amount /\ l.item = i /\ l.code = CostCodeId(x)
         /\ l.type = CostCategoryId(x)
    <3>1. expense[x].amount \in Cents
      BY <1>1, <2>4, ExpenseInCents DEF TypeInv, ExpensesOK
    <3>2. l.amount = Round(expense[x].amount) /\ l.item = i /\ l.code = CostCodeId(x)
          /\ l.type = CostCategoryId(x)
      BY <2>2 DEF LineOf
    <3> QED BY <3>1, <3>2, CentsAre
  <2>13. \A j : Belongs(j, task.header, task.lines) => Belongs(j, task.header, ls)
    BY <2>11 DEF Belongs
  <2>14. Belongs(i, task.header, ls)
    <3>1. CASE Commitment(x) # None
      <4>1. i = Commitment(x)
        BY <2>1, <3>1 DEF LineItem
      <4>2. i.vendor = task.header.vendor /\ ls[x].code = i.code /\ ls[x].type = i.type
        BY <2>10, <2>11, <2>12, <3>1, <4>1, CommitmentIs
      <4> QED BY <2>11, <4>2 DEF Belongs
    <3>2. CASE Commitment(x) = None
      <4>1. i = task.carried
        BY <2>1, <3>2 DEF LineItem
      <4> QED BY <2>10, <2>13, <4>1
    <3> QED BY <3>1, <3>2
  <2>15. LinesHold'
    <3>1. DOMAIN ls = task.g \ (task.todo \ {x})
      BY <1>1, <2>4, <2>10, <2>11
    <3>2. \A y \in DOMAIN ls : ls[y].amount = expense[y].amount
      BY <2>10, <2>11, <2>12
    <3>3. \A y \in DOMAIN ls : Belongs(ls[y].item, task.header, ls)
      BY <2>10, <2>11, <2>12, <2>13, <2>14
    <3> QED BY <1>1, <2>5, <2>10, <2>14, <3>1, <3>2, <3>3 DEF LinesHold
  <2> QED BY <2>7, <2>9, <2>15
<1> QED BY <1>2, <1>3

(* A direct cost is one line, of the amount of its expense. *)
LEMMA DirectWork ==
    ASSUME TypeInv, WorkHolds, UNCHANGED settings, CreateDirectCost
    PROVE  WorkHolds'
<1>1. UNCHANGED <<expense, maps>> /\ kind' = kind /\ task.pc = "body" /\ kind = "DIRECT_COST"
  BY DEF CreateDirectCost, fyle, settings
<1>2. PICK x \in task.g :
        IF ~AccountFound(x)
        THEN Fails("FATAL")
        ELSE /\ task' = [task EXCEPT !.pc = "lines",
                           !.header = [vendor |-> None, amount |-> expense[x].amount],
                           !.lines = [y \in {x} |-> LineOf(x, None)]]
             /\ UNCHANGED row
  BY DEF CreateDirectCost
<1>3. CASE ~AccountFound(x)
  BY <1>2, <1>3 DEF Fails, IdleTask, WorkHolds, Quiet
<1>4. CASE AccountFound(x)
  <2>1. PICK l : l = LineOf(x, None)
    OBVIOUS
  <2>2. PICK ls : ls = [y \in {x} |-> l]
    OBVIOUS
  <2>3. PICK h : h = [vendor |-> None, amount |-> expense[x].amount]
    OBVIOUS
  <2>4. task \in TaskType /\ \A y \in task.g : expense[y] # None
    BY <1>1 DEF TypeInv, TaskOK
  <2>5. /\ task'.pc = "lines" /\ task'.g = task.g /\ task'.header = h /\ task'.todo = task.todo
        /\ task'.touched = task.touched /\ task'.lines = ls
    <3>1. task' = [task EXCEPT !.pc = "lines", !.header = h, !.lines = ls]
      BY <1>2, <1>4, <2>1, <2>2, <2>3
    <3> QED BY <2>4, <3>1 DEF TaskType
  <2>6. l.amount = expense[x].amount /\ l.item = None
    <3>1. expense[x].amount \in Cents
      BY <1>2, <2>4, ExpenseInCents DEF TypeInv, ExpensesOK, TaskType
    <3>2. l.amount = Round(expense[x].amount) /\ l.item = None
      BY <2>1 DEF LineOf
    <3> QED BY <3>1, <3>2, CentsAre
  <2>7. DOMAIN ls = {x} /\ ls[x].item = None /\ ls[x].amount = h.amount
    BY <2>2, <2>3, <2>6
  <2>8. SUFFICES ASSUME Quiet'
                 PROVE  AccountsHold' /\ DirectHolds'
    BY <1>1 DEF WorkHolds
  <2>9. Quiet /\ AccountsHold /\ DirectHolds
    BY <1>1, <2>5, <2>8 DEF Quiet, WorkHolds
  <2> QED BY <1>1, <1>2, <2>5, <2>7, <2>9 DEF AccountsHold, DirectHolds
<1> QED BY <1>3, <1>4

(* An edit overtakes the task. *)
LEMMA EditWork ==
    ASSUME TypeInv, WorkHolds, UNCHANGED settings,
           ChangeCodeFields \/ OfferNames \/ ImportExpenses \/ SaveUpdate \/ EditMappings
             \/ \E x \in Expenses : SeeUpdate(x)
    PROVE  WorkHolds'
<1>1. CASE SaveUpdate \/ EditMappings
  <2>1. task' = Touched
    BY <1>1 DEF SaveUpdate, EditMappings
  <2>2. ~Quiet'
    BY <2>1, TouchedIs DEF Quiet
  <2> QED BY <2>2 DEF WorkHolds
<1>2. CASE ChangeCodeFields \/ OfferNames \/ \E x \in Expenses : SeeUpdate(x)
  <2>1. UNCHANGED <<settings, expense, maps, task>>
    BY <1>2 DEF ChangeCodeFields, OfferNames, SeeUpdate, fyle
  <2> QED BY <2>1, WorkStays
<1>3. CASE ImportExpenses
  <2>1. task.pc = "idle"
    BY <1>3, GroupsAre DEF ImportExpenses, TypeInv, TaskOK
  <2>2. task' = task
    BY <1>3 DEF ImportExpenses
  <2> QED BY <2>1, <2>2 DEF WorkHolds, Quiet
<1> QED BY <1>1, <1>2, <1>3

(* A task that no edit has overtaken has worked out what holds. *)
LEMMA WorkStep ==
    ASSUME TypeInv, WorkHolds, [Next]_vars
    PROVE  WorkHolds'
<1>1. UNCHANGED settings
  BY SettingsStay
<1>2. CASE UNCHANGED vars
  <2>1. UNCHANGED <<settings, expense, maps, task>>
    BY <1>1, <1>2 DEF vars
  <2> QED BY <2>1, WorkStays
<1>3. CASE SageRefuses \/ Commit \/ Die
  BY <1>3 DEF SageRefuses, Commit, Die, Fails, IdleTask, WorkHolds, Quiet
<1>4. CASE PostDocument
  <2>1. UNCHANGED <<expense, maps>> /\ kind' = kind /\ task.pc = "lines"
    BY <1>1, <1>4 DEF PostDocument, fyle, settings
  <2>2. task \in TaskType /\ task' = [task EXCEPT !.pc = "posted", !.doc = Len(docs) + 1]
    BY <1>4 DEF PostDocument, TypeInv, TaskOK
  <2>3. /\ task'.pc = "posted" /\ task'.g = task.g /\ task'.header = task.header
        /\ task'.todo = task.todo /\ task'.touched = task.touched /\ task'.lines = task.lines
        /\ task'.vendor = task.vendor /\ task'.carried = task.carried
    BY <2>2 DEF TaskType
  <2>4. \A y \in task.g : VendorId(y)' = VendorId(y)
    BY <1>1, <2>1, <2>2, LookUpsStay DEF TaskType
  <2> QED BY <2>1, <2>3, <2>4 DEF WorkHolds, Quiet, AccountsHold, HeaderHolds, LinesHold, DirectHolds
<1>5. CASE \E g \in Groups : PollAccepted(g) \/ PollRejected(g)
  <2>1. UNCHANGED <<settings, expense, maps, task>>
    BY <1>5 DEF PollAccepted, PollRejected, fyle
  <2> QED BY <2>1, WorkStays
<1>6. CASE \E g \in Groups : StartTask(g)
  BY <1>1, <1>6, StartWork
<1>7. CASE \E x \in Expenses : CreateLine(x)
  BY <1>1, <1>7, LineWork
<1>8. CASE CreateBody \/ ReadVendor \/ CreateDirectCost
  BY <1>1, <1>8, BodyWork, VendorWork, DirectWork
<1>9. CASE ChangeCodeFields \/ OfferNames \/ ImportExpenses \/ SaveUpdate \/ EditMappings
             \/ \E x \in Expenses : SeeUpdate(x)
  BY <1>1, <1>9, EditWork
<1> QED BY <1>2, <1>3, <1>4, <1>5, <1>6, <1>7, <1>8, <1>9 DEF Next

(* The document that is posted sums up, and its items belong to it. *)
LEMMA PostedDocument ==
    ASSUME TypeInv, WorkHolds, PostDocument, ~task.touched
    PROVE  DocHolds(Body)
<1>1. Quiet /\ task.pc = "lines" /\ task.todo = {}
  BY DEF PostDocument, Quiet
<1>2. task \in TaskType /\ task.g \in Groups /\ \A x \in task.g : expense[x] # None
  BY <1>1 DEF Quiet, TypeInv, TaskOK
<1>3. PICK b : b = Body
  OBVIOUS
<1>4. b.header = task.header /\ b.lines = task.lines
  BY <1>3 DEF Body
<1>5. CASE kind = "PURCHASE_INVOICE"
  <2>1. HeaderHolds /\ LinesHold
    BY <1>1, <1>5 DEF WorkHolds
  <2>2. PICK e, ls : e = expense /\ ls = task.lines
    OBVIOUS
  <2>3. DOMAIN ls = task.g /\ \A x \in task.g : ls[x].amount = e[x].amount
    BY <1>1, <2>1, <2>2 DEF LinesHold
  <2>4. IsFiniteSet(DOMAIN ls)
    BY <1>2, <2>3, GroupsAre
  <2>5. SumOf(ls, DOMAIN ls) = SumOf(e, DOMAIN ls)
    BY <2>3, <2>4, SumOfSame
  <2>6. b.header.amount = SumOf(b.lines, DOMAIN b.lines)
    BY <1>1, <1>4, <2>1, <2>2, <2>3, <2>5 DEF HeaderHolds
  <2>7. \A x \in DOMAIN b.lines : Belongs(b.lines[x].item, b.header, b.lines)
    BY <1>1, <1>4, <2>1 DEF LinesHold
  <2> QED BY <1>3, <2>6, <2>7 DEF DocHolds
<1>6. CASE kind = "DIRECT_COST"
  <2>1. DirectHolds
    BY <1>1, <1>6 DEF WorkHolds
  <2>2. PICK x \in task.g : /\ DOMAIN b.lines = {x} /\ b.lines[x].item = None
                            /\ b.lines[x].amount = b.header.amount
    BY <1>1, <1>4, <2>1 DEF DirectHolds
  <2>3. b.header.amount \in Nat
    BY <1>2, <1>4 DEF TaskType, HeaderType
  <2>4. SumOf(b.lines, {x}) = b.lines[x].amount
    BY <2>2, <2>3, SumOfOne
  <2> QED BY <1>3, <2>2, <2>4 DEF DocHolds, Belongs
<1> QED BY <1>5, <1>6 DEF TypeInv, SettingsOK

(* Every document does. *)
LEMMA DocsStep ==
    ASSUME WorkInv, [Next]_vars
    PROVE  DocsHold'
<1>1. DOMAIN docs \subseteq DOMAIN docs' /\ \A d \in DOMAIN docs : docs'[d] = docs[d]
  BY DocsGrow DEF WorkInv
<1>2. CASE PostDocument
  <2>1. PICK n : n = [body |-> Body, touched |-> task.touched]
    OBVIOUS
  <2>2. docs' = Append(docs, n) /\ docs \in Seq(DocType)
    BY <1>2, <2>1 DEF PostDocument, WorkInv, TypeInv, DocsOK
  <2>3. \A d \in DOMAIN docs' : d \in DOMAIN docs \/ docs'[d] = n
    BY <2>2
  <2>4. ~n.touched => DocHolds(n.body)
    BY <1>2, <2>1, PostedDocument DEF WorkInv
  <2> QED BY <1>1, <2>3, <2>4 DEF DocsHold, WorkInv
<1>3. CASE DOMAIN docs' = DOMAIN docs
  BY <1>1, <1>3 DEF DocsHold, WorkInv
<1>4. PostDocument \/ UNCHANGED docs
  BY DEF Next, vars, ChangeCodeFields, OfferNames, ImportExpenses, SaveUpdate, EditMappings, SeeUpdate,
         CreateLine, StartTask, PollAccepted, PollRejected, CreateBody, ReadVendor,
         CreateDirectCost, SageRefuses, Commit, Die
<1> QED BY <1>2, <1>3, <1>4

(* The invariant of the documents and the task that makes them. *)
LEMMA WorkInvariant == Spec => []WorkInv
<1>1. Init => WorkInv
  <2> SUFFICES ASSUME Init PROVE WorkInv
    OBVIOUS
  <2>1. WorkHolds
    BY DEF Init, IdleTask, WorkHolds, Quiet
  <2>2. DocsHold
    BY DEF Init, DocsHold
  <2> QED BY <2>1, <2>2, TypeInitially DEF WorkInv
<1>2. WorkInv /\ [Next]_vars => WorkInv'
  BY TypeStep, WorkStep, DocsStep DEF WorkInv
<1> QED BY <1>1, <1>2, PTL DEF Spec

(* The amount in the header of a document is the sum of its lines, however many
   they are, unless an edit has overtaken the task. *)
THEOREM HeaderIsAlwaysSum == Spec => []HeaderIsSum
<1>1. WorkInv => HeaderIsSum
  <2> SUFFICES ASSUME WorkInv, NEW d \in DOMAIN docs, ~docs[d].touched
               PROVE  docs[d].body.header.amount =
                        MapThenSumSet(LAMBDA x : docs[d].body.lines[x].amount,
                                      DOMAIN docs[d].body.lines)
    BY DEF HeaderIsSum
  <2>1. DocHolds(docs[d].body)
    BY DEF WorkInv, DocsHold
  <2>2. PICK ls : ls = docs[d].body.lines
    OBVIOUS
  <2>3. MapThenSumSet(LAMBDA x : docs[d].body.lines[x].amount, DOMAIN docs[d].body.lines)
          = MapThenSumSet(LAMBDA x : ls[x].amount, DOMAIN ls)
    BY <2>2
  <2>4. MapThenSumSet(LAMBDA x : ls[x].amount, DOMAIN ls) = SumOf(ls, DOMAIN ls)
    BY MapThenSumIs DEF SumOf
  <2> QED BY <2>1, <2>2, <2>3, <2>4 DEF DocHolds
<1> QED BY WorkInvariant, <1>1, PTL

(* A commitment on a document is the vendor's, and for one of its lines, unless an
   edit has overtaken the task. *)
THEOREM CommitmentsAlwaysOfDocument == Spec => []CommitmentOfDocument
<1>1. WorkInv => CommitmentOfDocument
  <2> SUFFICES ASSUME WorkInv, NEW d \in DOMAIN docs, ~docs[d].touched,
                      NEW x \in DOMAIN docs[d].body.lines, docs[d].body.lines[x].item # None
               PROVE  /\ docs[d].body.lines[x].item.vendor = docs[d].body.header.vendor
                      /\ \E y \in DOMAIN docs[d].body.lines :
                            docs[d].body.lines[y].code = docs[d].body.lines[x].item.code
                            /\ docs[d].body.lines[y].type = docs[d].body.lines[x].item.type
    BY DEF CommitmentOfDocument
  <2>1. Belongs(docs[d].body.lines[x].item, docs[d].body.header, docs[d].body.lines)
    BY DEF WorkInv, DocsHold, DocHolds
  <2> QED BY <2>1 DEF Belongs
<1> QED BY WorkInvariant, <1>1, PTL

(* An export fails for want of an account only when an edit has overtaken its
   task, or the direct cost looks up another name than the validation did. *)
THEOREM FatalAlwaysARace == Spec => FatalIsARace
<1> DEFINE R == \A g \in Groups : row[g].status # "FATAL" /\ row'[g].status = "FATAL" =>
                  \/ task.touched
                  \/ kind = "DIRECT_COST" /\ \E x \in g :
                        FullName(expense[x].category) # <<expense[x].category.category>>
<1>1. WorkInv /\ [Next]_vars => R
  <2> SUFFICES ASSUME WorkInv, [Next]_vars, NEW g \in Groups, row[g].status # "FATAL",
                      row'[g].status = "FATAL", ~task.touched
               PROVE  kind = "DIRECT_COST" /\ \E x \in g :
                        FullName(expense[x].category) # <<expense[x].category.category>>
    OBVIOUS
  <2>1. row \in [Groups -> RowType] /\ row[g] \in RowType /\ TypeInv
    BY DEF WorkInv, TypeInv, RowsOK
  <2>2. ASSUME NEW s \in Statuses, NEW h \in Groups, row' = [row EXCEPT ![h].status = s]
        PROVE  h = g /\ s = "FATAL"
    <3>1. row[h] \in RowType
      BY <2>1
    <3>2. PICK r : r = [row[h] EXCEPT !.status = s]
      OBVIOUS
    <3>3. r.status = s
      BY <3>1, <3>2 DEF RowType
    <3>4. row' = [row EXCEPT ![h] = r]
      BY <2>2, <3>2
    <3> QED BY <2>1, <3>3, <3>4
  <2>3. row' # row
    OBVIOUS
  <2>4. CASE \E h \in Groups : StartTask(h)
    <3>1. PICK h \in Groups, s \in {"IN_PROGRESS", "FAILED"} : row' = [row EXCEPT ![h].status = s]
      BY <2>4 DEF StartTask
    <3>2. s \in Statuses /\ s # "FATAL"
      BY DEF Statuses
    <3> QED BY <2>2, <3>1, <3>2
  <2>5. CASE \E h \in Groups : PollAccepted(h)
    <3>1. PICK h \in Groups : row' = [row EXCEPT ![h].status = "COMPLETE"]
      BY <2>5 DEF PollAccepted
    <3>2. "COMPLETE" \in Statuses
      BY DEF Statuses
    <3> QED BY <2>2, <3>1, <3>2
  <2>6. CASE \E h \in Groups : PollRejected(h)
    <3>1. PICK h \in Groups : row' = [row EXCEPT ![h].status = "FAILED", ![h].body = NoBody]
      BY <2>6 DEF PollRejected
    <3>2. PICK r : r = [[row[h] EXCEPT !.status = "FAILED"] EXCEPT !.body = NoBody]
      OBVIOUS
    <3>3. row[h] \in RowType
      BY <2>1
    <3>4. r.status = "FAILED"
      BY <3>2, <3>3 DEF RowType
    <3>5. row' = [row EXCEPT ![h] = r]
      BY <3>1, <3>2
    <3> QED BY <2>1, <3>4, <3>5
  <2>7. CASE Commit
    <3>1. PICK r : r = [status |-> "EXPORT_QUEUED", export_id |-> task.doc, body |-> Body]
      OBVIOUS
    <3>2. PICK h : h = task.g
      OBVIOUS
    <3>3. row' = [row EXCEPT ![h] = r] /\ r.status = "EXPORT_QUEUED"
      BY <2>7, <3>1, <3>2 DEF Commit, Written
    <3> QED BY <2>1, <3>3
  <2>8. CASE task.pc # "idle" /\ Fails("FAILED")
    <3>1. PICK h \in Groups : h = task.g
      BY <2>1, <2>8 DEF TypeInv, TaskOK
    <3>2. row' = [row EXCEPT ![h].status = "FAILED"] /\ "FAILED" \in Statuses
      BY <2>8, <3>1 DEF Fails, Statuses
    <3> QED BY <2>2, <3>2
  <2>9. ASSUME task.pc # "idle", Fails("FATAL")
        PROVE  task.g = g /\ Quiet
    <3>1. PICK h \in Groups : h = task.g
      BY <2>1, <2>9 DEF TypeInv, TaskOK
    <3>2. row' = [row EXCEPT ![h].status = "FATAL"] /\ "FATAL" \in Statuses
      BY <2>9, <3>1 DEF Fails, Statuses
    <3> QED BY <2>2, <2>9, <3>1, <3>2 DEF Quiet
  <2>10. CASE \E x \in Expenses : CreateLine(x)
    <3>1. PICK x \in Expenses : CreateLine(x)
      BY <2>10
    <3>2. ~AccountFound(x) /\ task.pc = "lines" /\ Fails("FATAL") /\ x \in task.todo
      BY <2>3, <3>1 DEF CreateLine
    <3>3. Quiet /\ WorkHolds
      BY <2>9, <3>2 DEF WorkInv
    <3>4. x \in task.g /\ AccountsHold
      BY <2>1, <3>2, <3>3 DEF TypeInv, TaskOK, WorkHolds
    <3>5. kind # "PURCHASE_INVOICE"
      BY <3>2, <3>4 DEF AccountFound, AccountsHold, LineCategory
    <3>6. kind # "DIRECT_COST"
      BY <3>2, <3>3 DEF WorkHolds, DirectHolds
    <3> QED BY <2>1, <3>5, <3>6 DEF TypeInv, SettingsOK
  <2>11. CASE CreateDirectCost
    <3>1. PICK x \in task.g : ~AccountFound(x) /\ Fails("FATAL")
      BY <2>3, <2>11 DEF CreateDirectCost
    <3>2. task.g = g /\ Quiet /\ WorkHolds /\ kind = "DIRECT_COST"
      BY <2>9, <2>11, <3>1 DEF CreateDirectCost, WorkInv
    <3>3. maps.account[FullName(expense[x].category)] # None
      BY <3>1, <3>2 DEF WorkHolds, AccountsHold
    <3>4. maps.account[<<expense[x].category.category>>] = None
      BY <3>1, <3>2 DEF AccountFound, LineCategory
    <3> QED BY <3>1, <3>2, <3>3, <3>4
  <2>12. CASE SageRefuses \/ Die
    BY <2>8, <2>12 DEF SageRefuses, Die
  <2>13. CASE UNCHANGED row
    BY <2>3, <2>13
  <2>14. \/ ChangeCodeFields \/ OfferNames \/ ImportExpenses \/ SaveUpdate \/ EditMappings
         \/ CreateBody \/ ReadVendor \/ PostDocument \/ (\E x \in Expenses : SeeUpdate(x))
         \/ UNCHANGED vars
         => UNCHANGED row
    BY DEF ChangeCodeFields, OfferNames, ImportExpenses, SaveUpdate, EditMappings, SeeUpdate,
           CreateBody, ReadVendor, PostDocument, vars
  <2> QED BY <2>4, <2>5, <2>6, <2>7, <2>10, <2>11, <2>12, <2>13, <2>14 DEF Next
<1>2. WorkInv /\ [Next]_vars => [R]_vars
  BY <1>1
<1>3. FatalIsARace <=> [][R]_vars
  BY DEF FatalIsARace
<1> QED BY WorkInvariant, <1>2, <1>3, PTL DEF Spec
----------------------------------------------------------------------------
(***************************************************************************)
(* What was picked is found                                                *)
(***************************************************************************)

\* Rows that a name cannot tell apart have numbers, or have none: the cost codes
\* of a job, and the categories of cost codes of one name.
UniformNames ==
    /\ \A r, s \in Table : r.job = s.job /\ r.codeName = s.codeName =>
          (r.codeNo = None <=> s.codeNo = None)
    /\ \A r, s \in Table : r.codeName = s.codeName /\ r.catName = s.catName =>
          (r.catNo = None <=> s.catNo = None)

\* What is offered was named by the code fields that still hold.
OfferedHolds ==
    offered.codes # {} =>
        /\ offered.codes = {[job |-> r.job, label |-> CodeLabel(r)] : r \in Table}
        /\ offered.types = {[code |-> CodeLabel(r), label |-> TypeLabel(r)] : r \in Table}

PicksHold == \A x \in Expenses : expense[x] # None => offered.codes # {} /\ expense[x].pick \in Picks

PickInv == TypeInv /\ OfferedHolds /\ PicksHold

(* Code fields change only before anything is offered, and expenses come after. *)
LEMMA PickStep ==
    ASSUME PickInv, [Next]_vars
    PROVE  OfferedHolds' /\ PicksHold'
<1>1. ASSUME UNCHANGED fyle
      PROVE  OfferedHolds' /\ PicksHold'
  BY <1>1 DEF fyle, PickInv, OfferedHolds, PicksHold, Picks, CodeLabel, TypeLabel
<1>2. CASE ChangeCodeFields
  <2>1. offered.codes = {} /\ UNCHANGED <<offered, expense>>
    BY <1>2 DEF ChangeCodeFields, CodeFieldsAreFree
  <2> QED BY <2>1 DEF PickInv, OfferedHolds, PicksHold
<1>3. CASE OfferNames
  <2>1. /\ offered.codes = {} /\ UNCHANGED <<codeFields, expense>>
        /\ offered'.codes = {[job |-> r.job, label |-> CodeLabel(r)] : r \in Table}
        /\ offered'.types = {[code |-> CodeLabel(r), label |-> TypeLabel(r)] : r \in Table}
    BY <1>3 DEF OfferNames
  <2> QED BY <2>1 DEF PickInv, OfferedHolds, PicksHold, CodeLabel, TypeLabel
<1>4. CASE ImportExpenses
  <2>1. PICK p \in [Expenses -> Picks] :
          expense' = [x \in Expenses |->
                         ExpenseOf(First[x].category, First[x].amount, p[x], First[x].custom)]
    BY <1>4 DEF ImportExpenses
  <2>2. offered.codes # {} /\ UNCHANGED <<codeFields, offered>>
    BY <1>4 DEF ImportExpenses
  <2>3. \A x \in Expenses : expense'[x].pick \in Picks
    BY <2>1 DEF ExpenseOf
  <2>4. Picks' = Picks
    BY <2>2 DEF Picks
  <2> QED BY <2>2, <2>3, <2>4 DEF PickInv, OfferedHolds, PicksHold, CodeLabel, TypeLabel
<1>5. CASE SaveUpdate
  <2>1. PICK c \in Categories, a \in Amounts :
          expense' = [expense EXCEPT ![update] = ExpenseOf(c, a, @.pick, @.custom)]
    BY <1>5 DEF SaveUpdate
  <2>2. UNCHANGED <<codeFields, offered>> /\ update \in Expenses /\ expense[update] # None
        /\ expense \in [Expenses -> ExpenseType \cup {None}]
    BY <1>5 DEF SaveUpdate, PickInv, TypeInv, ExpensesOK
  <2>3. PICK e : e = ExpenseOf(c, a, expense[update].pick, expense[update].custom)
    OBVIOUS
  <2>4. e.pick = expense[update].pick /\ expense' = [expense EXCEPT ![update] = e]
    BY <2>1, <2>3 DEF ExpenseOf
  <2>5. \A x \in Expenses : expense'[x] # None => expense[x] # None /\ expense'[x].pick = expense[x].pick
    BY <2>2, <2>4
  <2>6. Picks' = Picks
    BY <2>2 DEF Picks
  <2> QED BY <2>2, <2>5, <2>6 DEF PickInv, OfferedHolds, PicksHold, CodeLabel, TypeLabel
<1>6. \/ ChangeCodeFields \/ OfferNames \/ ImportExpenses \/ SaveUpdate \/ UNCHANGED fyle
  BY DEF Next, vars, fyle, EditMappings, SeeUpdate, CreateLine, StartTask, PollAccepted,
         PollRejected, CreateBody, ReadVendor, CreateDirectCost, PostDocument, SageRefuses, Commit, Die
<1> QED BY <1>1, <1>2, <1>3, <1>4, <1>5, <1>6

(* A row that has the name that was picked, and a number if there are numbers, has
   the very label that was picked. *)
LEMMA LabelPicked ==
    ASSUME UniformNames, PickInv, NEW x \in Expenses, expense[x] # None
    PROVE  /\ \A r \in RowsPicked(x) : CodeLabel(r) = expense[x].pick.code
           /\ \A r \in RowsPicked(x) :
                 /\ Stands(expense[x].pick.type, r.catNo, r.catName)
                 /\ WithCode("COST_CATEGORY", r.catNo)
                 => TypeLabel(r) = expense[x].pick.type
<1>1. PICK p : p = expense[x].pick
  OBVIOUS
<1> SUFFICES ASSUME NEW r \in RowsPicked(x)
             PROVE  /\ CodeLabel(r) = p.code
                    /\ Stands(p.type, r.catNo, r.catName) /\ WithCode("COST_CATEGORY", r.catNo)
                       => TypeLabel(r) = p.type
  BY <1>1
<1>2. r \in Table /\ r.job = p.job /\ p.code # None /\ p.code.name = r.codeName
      /\ p.code.no \in {None, r.codeNo} /\ WithCode("COST_CODE", r.codeNo)
  BY <1>1 DEF RowsPicked, Stands
<1>3. p \in Picks /\ offered.codes # {}
  BY <1>1 DEF PickInv, PicksHold
<1>4. PICK c \in offered.codes, t \in offered.types :
        t.code = c.label /\ p = [job |-> c.job, code |-> c.label, type |-> t.label]
  BY <1>2, <1>3 DEF Picks
<1>5. PICK s \in Table : c = [job |-> s.job, label |-> CodeLabel(s)]
  BY <1>3, <1>4 DEF PickInv, OfferedHolds
<1>6. PICK u \in Table : t = [code |-> CodeLabel(u), label |-> TypeLabel(u)]
  BY <1>3, <1>4 DEF PickInv, OfferedHolds
<1>7. p.job = s.job /\ p.code = CodeLabel(s) /\ p.code = CodeLabel(u) /\ p.type = TypeLabel(u)
  BY <1>4, <1>5, <1>6
<1>8. s.job = r.job /\ s.codeName = r.codeName /\ u.codeName = r.codeName
  BY <1>2, <1>7 DEF CodeLabel, Label
<1>9. CodeLabel(r) = p.code
  <2>1. CASE "COST_CODE" \in codeFields
    <3>1. r.codeNo # None
      BY <1>2, <2>1 DEF WithCode
    <3>2. s.codeNo # None
      BY <1>2, <1>8, <3>1 DEF UniformNames
    <3>3. p.code.no = s.codeNo
      BY <1>7, <2>1 DEF CodeLabel, Label
    <3> QED BY <1>2, <1>7, <1>8, <2>1, <3>2, <3>3 DEF CodeLabel, Label
  <2>2. CASE "COST_CODE" \notin codeFields
    BY <1>7, <1>8, <2>2 DEF CodeLabel, Label
  <2> QED BY <2>1, <2>2
<1>10. ASSUME Stands(p.type, r.catNo, r.catName), WithCode("COST_CATEGORY", r.catNo)
       PROVE  TypeLabel(r) = p.type
  <2>1. u.catName = r.catName /\ p.type.no \in {None, r.catNo}
    BY <1>7, <1>10 DEF Stands, TypeLabel, Label
  <2>2. CASE "COST_CATEGORY" \in codeFields
    <3>1. r.catNo # None
      BY <1>10, <2>2 DEF WithCode
    <3>2. u.catNo # None
      BY <1>2, <1>8, <2>1, <3>1 DEF UniformNames
    <3>3. p.type.no = u.catNo
      BY <1>7, <2>2 DEF TypeLabel, Label
    <3> QED BY <1>7, <2>1, <2>2, <3>2, <3>3 DEF TypeLabel, Label
  <2>3. CASE "COST_CATEGORY" \notin codeFields
    BY <1>7, <2>1, <2>3 DEF TypeLabel, Label
  <2> QED BY <2>2, <2>3
<1> QED BY <1>9, <1>10

(* What a user picked is found again by the look-ups of the task, for any table in
   which names tell rows with and without a number apart. *)
THEOREM PickedIsAlwaysFound == ASSUME UniformNames PROVE Spec => []PickedIsFound
<1>1. Init => PickInv
  <2> SUFFICES ASSUME Init PROVE PickInv
    OBVIOUS
  <2>1. OfferedHolds /\ PicksHold
    BY DEF Init, OfferedHolds, PicksHold
  <2> QED BY <2>1, TypeInitially DEF PickInv
<1>2. PickInv /\ [Next]_vars => PickInv'
  BY TypeStep, PickStep DEF PickInv
<1>3. PickInv => PickedIsFound
  <2> SUFFICES ASSUME PickInv, NEW x \in Expenses, expense[x] # None,
                      MappedId("JOB", x) = expense[x].pick.job
               PROVE  /\ RowsPicked(x) # {} => \E r \in RowsPicked(x) : r.code = CostCodeId(x)
                      /\ (\E r \in RowsPicked(x) :
                            /\ r.code = CostCodeId(x)
                            /\ Stands(expense[x].pick.type, r.catNo, r.catName)
                            /\ WithCode("COST_CATEGORY", r.catNo)) => CostCategoryId(x) # None
    BY DEF PickedIsFound
  <2> DEFINE codes == {t \in Table :
                /\ t.job = MappedId("JOB", x) /\ CodeLabel(t) = expense[x].pick.code
                /\ "COST_CODE" \in codeFields => t.codeNo # None}
             types == {t \in Table :
                /\ t.job = MappedId("JOB", x) /\ t.code = CostCodeId(x)
                /\ TypeLabel(t) = expense[x].pick.type
                /\ "COST_CATEGORY" \in codeFields => t.catNo # None}
  <2>1. CostCodeId(x) = OneOf({r.code : r \in codes})
    BY DEF CostCodeId
  <2>2. CostCategoryId(x) = OneOf({r.cat : r \in types})
    BY DEF CostCategoryId
  <2>3. ASSUME NEW q \in RowsPicked(x)
        PROVE  \E r \in RowsPicked(x) : r.code = CostCodeId(x)
    <3>1. q \in codes
      BY LabelPicked DEF RowsPicked, WithCode
    <3>2. OneOf({r.code : r \in codes}) \in {r.code : r \in codes}
      <4> HIDE DEF codes
      <4>1. {r.code : r \in codes} # {}
        BY <3>1
      <4> QED BY <4>1, OneOfIs
    <3>3. PICK r \in codes : r.code = CostCodeId(x)
      <4> HIDE DEF codes
      <4> QED BY <2>1, <3>2
    <3>4. expense[x].pick.code # None
      BY DEF RowsPicked, Stands
    <3>5. r \in RowsPicked(x)
      BY <3>3, <3>4 DEF RowsPicked, Stands, WithCode, CodeLabel, Label
    <3> QED BY <3>3, <3>5
  <2>4. ASSUME NEW r \in RowsPicked(x), r.code = CostCodeId(x),
               Stands(expense[x].pick.type, r.catNo, r.catName), WithCode("COST_CATEGORY", r.catNo)
        PROVE  CostCategoryId(x) # None
    <3>1. r \in types
      BY <2>4, LabelPicked DEF RowsPicked, WithCode
    <3>2. OneOf({t.cat : t \in types}) \in {t.cat : t \in types}
      <4> HIDE DEF types
      <4>1. {t.cat : t \in types} # {}
        BY <3>1
      <4> QED BY <4>1, OneOfIs
    <3>3. {t.cat : t \in types} \subseteq {t.cat : t \in Table}
      OBVIOUS
    <3> HIDE DEF types
    <3> QED BY <2>2, <3>2, <3>3, NoneAssumption
  <2> QED BY <2>3, <2>4
<1> QED BY <1>1, <1>2, <1>3, PTL DEF Spec
=============================================================================
