------------------------ MODULE MappingErrorsProofs ------------------------
(***************************************************************************)
(* What holds of the mapping errors for any exports, attributes and tasks: *)
(*                                                                         *)
(*   - the types, and no Error row with an empty list;                     *)
(*   - an unresolved row stands for a missing mapping, when no mapping is  *)
(*     saved while errors are worked out;                                  *)
(*   - an export that failed is listed by the errors of all its attributes,*)
(*     when one task runs after the other.                                 *)
(*                                                                         *)
(* A task that is about to write an Error row found its attribute without  *)
(* a mapping, and the updater remembers whether the new category had one:  *)
(* both are still true when they write, because mappings wait (Looked).    *)
(*                                                                         *)
(* What a single task has looked up in vain lists its export already, but  *)
(* for the attribute it is at (TaskLists); so it has listed it for all of  *)
(* them when it fails it.                                                  *)
(***************************************************************************)
EXTENDS MappingErrors, TLAPS

\* A task past its look-up has an attribute, and a copy that lists something
\* once its export was put on the list.
TaskOK(w) ==
    /\ w.pc # "idle" => w.e \in Exports
    /\ w.pc \in {"missing", "fetched", "count"} => w.a \in Attrs
    /\ w.pc = "count" => w.copy.ids # {}
UpdaterOK ==
    updater.pc # "idle" => updater.e \in Exports /\ updater.old \in Attrs /\ updater.new \in Attrs

TypeInv == TypeOK /\ UpdaterOK /\ \A t \in Tasks : TaskOK(task[t])

\* What the tasks and the updater have seen of the mappings.
Looked ==
    /\ \A t \in Tasks :
         task[t].pc \in {"missing", "fetched", "count"} => task[t].a \notin mapped
    /\ updater.pc = "read" /\ updater.unmapped => updater.new \notin mapped
Inv == TypeInv /\ Looked /\ OpenErrorIsUnmapped
----------------------------------------------------------------------------
(* One error row is changed, to a row that lists something. *)
LEMMA OneError ==
    ASSUME TypeInv, NEW a \in Attrs, NEW r \in ErrorRow, r.id # 0 => r.ids # {},
           error' = [error EXCEPT ![a] = r]
    PROVE  /\ error' \in [Attrs -> ErrorRow]
           /\ \A b \in Attrs : error'[b].id # 0 => error'[b].ids # {}
BY DEF TypeInv, TypeOK

(* The fields of a task, when its step writes them. *)
LEMMA TaskType ==
    ASSUME TypeInv, NEW t \in Tasks, NEW w \in TaskState, TaskOK(w),
           task' = [task EXCEPT ![t] = w]
    PROVE  task' \in [Tasks -> TaskState] /\ \A u \in Tasks : TaskOK(task'[u])
BY DEF TypeInv, TypeOK

(* The record of a task is a record of its type. *)
LEMMA TaskOfType ==
    ASSUME TypeInv, NEW t \in Tasks
    PROVE  task[t] \in TaskState /\ TaskOK(task[t])
BY DEF TypeInv, TypeOK

(* A task with nothing to do is a task. *)
LEMMA IdleTaskType == IdleTask \in TaskState /\ TaskOK(IdleTask)
BY DEF IdleTask, TaskState, NoError, ErrorRow, TaskOK

(* A step of the tasks changes exports, errors and its own task; what it makes of
   these is all there is to show. *)
LEMMA OnlyTasks ==
    ASSUME TypeInv, UNCHANGED <<needs, mapped, signalled, updater, moves>>,
           status' \in [Exports -> Statuses], made' \in [Attrs -> Nat],
           error' \in [Attrs -> ErrorRow],
           \A b \in Attrs : error'[b].id # 0 => error'[b].ids # {},
           task' \in [Tasks -> TaskState], \A u \in Tasks : TaskOK(task'[u])
    PROVE  TypeInv'
BY DEF TypeInv, TypeOK, UpdaterOK, UpdaterState, TaskOK

(* What the types say of exports and errors. *)
LEMMA OldTypes ==
    ASSUME TypeInv
    PROVE  /\ status \in [Exports -> Statuses] /\ made \in [Attrs -> Nat]
           /\ error \in [Attrs -> ErrorRow]
           /\ \A b \in Attrs : error[b].id # 0 => error[b].ids # {}
BY DEF TypeInv, TypeOK

(* A task starts with the attributes its export needs. *)
LEMMA StartTaskTypes ==
    ASSUME TypeInv, NEW t \in Tasks, StartTask(t)
    PROVE  TypeInv'
<1>1. PICK e \in Exports :
        /\ status' = [status EXCEPT ![e] = "IN_PROGRESS"]
        /\ task' = [task EXCEPT ![t] = [IdleTask EXCEPT !.pc = "validate", !.e = e, !.todo = needs[e]]]
  BY DEF StartTask
<1> DEFINE w == [IdleTask EXCEPT !.pc = "validate", !.e = e, !.todo = needs[e]]
<1>2. w \in TaskState /\ TaskOK(w)
  BY IdleTaskType DEF TypeInv, TypeOK, IdleTask, TaskState, TaskOK
<1>3. status' \in [Exports -> Statuses]
  BY <1>1, OldTypes DEF Statuses
<1>4. UNCHANGED <<needs, mapped, signalled, error, made, updater, moves>>
  BY DEF StartTask
<1> HIDE DEF w
<1>5. task' \in [Tasks -> TaskState] /\ \A u \in Tasks : TaskOK(task'[u])
  BY <1>1, <1>2, TaskType DEF w
<1> QED BY <1>3, <1>4, <1>5, OldTypes, OnlyTasks

(* An attribute is looked up. *)
LEMMA LookUpTypes ==
    ASSUME TypeInv, NEW t \in Tasks, NEW a \in Attrs, LookUp(t, a)
    PROVE  TypeInv'
<1> DEFINE w == IF a \in mapped THEN [task[t] EXCEPT !.todo = @ \ {a}]
                ELSE [task[t] EXCEPT !.pc = "missing", !.a = a, !.todo = @ \ {a}, !.failed = TRUE]
<1>1. task' = [task EXCEPT ![t] = w] /\ task[t].pc = "validate"
      /\ UNCHANGED <<needs, status, mapped, signalled, error, made, updater, moves>>
  <2>1. CASE a \in mapped
    BY <2>1 DEF LookUp
  <2>2. CASE a \notin mapped
    BY <2>2 DEF LookUp
  <2> QED BY <2>1, <2>2
<1>2. w \in TaskState /\ TaskOK(w)
  BY <1>1, TaskOfType DEF TaskState, TaskOK
<1> HIDE DEF w
<1>3. task' \in [Tasks -> TaskState] /\ \A u \in Tasks : TaskOK(task'[u])
  BY <1>1, <1>2, TaskType
<1> QED BY <1>1, <1>3, OldTypes, OnlyTasks

(* An Error row is made for the export, or read. *)
LEMMA GetOrCreateTypes ==
    ASSUME TypeInv, NEW t \in Tasks, GetOrCreateError(t)
    PROVE  TypeInv'
<1> DEFINE a == task[t].a
           w == IF error[a].id = 0 THEN [task[t] EXCEPT !.pc = "validate", !.a = None]
                ELSE [task[t] EXCEPT !.pc = "fetched", !.copy = error[a]]
           r == [id |-> made[a] + 1, ids |-> {task[t].e}, resolved |-> FALSE]
<1>1. /\ task[t].pc = "missing" /\ task' = [task EXCEPT ![t] = w]
      /\ UNCHANGED <<needs, status, mapped, signalled, updater, moves>>
  BY DEF GetOrCreateError
<1>2. a \in Attrs /\ task[t].e \in Exports /\ task[t] \in TaskState
  BY <1>1, TaskOfType DEF TaskOK
<1>3. w \in TaskState /\ TaskOK(w)
  <2>1. error[a] \in ErrorRow
    BY <1>2, OldTypes
  <2> QED BY <1>1, <1>2, <2>1 DEF TaskState, TaskOK
<1>4. \/ UNCHANGED <<error, made>>
      \/ /\ made' = [made EXCEPT ![a] = @ + 1]
         /\ error' = [error EXCEPT ![a] = r]
  <2>1. CASE error[a].id = 0
    <3>1. made' = [made EXCEPT ![a] = @ + 1] /\ error' = [error EXCEPT ![a] =
            [id |-> made'[a], ids |-> {task[t].e}, resolved |-> FALSE]]
      BY <2>1 DEF GetOrCreateError
    <3>2. made'[a] = made[a] + 1
      BY <1>2, <3>1, OldTypes
    <3> QED BY <3>1, <3>2
  <2>2. CASE error[a].id # 0
    BY <2>2 DEF GetOrCreateError
  <2> QED BY <2>1, <2>2
<1>5. r \in ErrorRow /\ (r.id # 0 => r.ids # {})
  <2>1. made[a] + 1 \in Nat
    BY <1>2, OldTypes
  <2> QED BY <1>2, <2>1 DEF ErrorRow
<1> HIDE DEF w, r, a
<1>6. /\ error' \in [Attrs -> ErrorRow] /\ made' \in [Attrs -> Nat]
      /\ \A b \in Attrs : error'[b].id # 0 => error'[b].ids # {}
  <2>1. CASE UNCHANGED <<error, made>>
    BY <2>1, OldTypes
  <2>2. CASE made' = [made EXCEPT ![a] = @ + 1] /\ error' = [error EXCEPT ![a] = r]
    <3>1. made' \in [Attrs -> Nat]
      BY <1>2, <2>2, OldTypes
    <3> QED BY <1>2, <1>5, <2>2, <3>1, OneError
  <2> QED BY <1>4, <2>1, <2>2
<1>7. task' \in [Tasks -> TaskState] /\ \A u \in Tasks : TaskOK(task'[u])
  BY <1>1, <1>3, TaskType
<1> QED BY <1>1, <1>6, <1>7, OldTypes, OnlyTasks

(* The task gives up: its export is FATAL. *)
LEMMA FatalTypes ==
    ASSUME TypeInv, NEW t \in Tasks, task[t].pc # "idle", Fatal(t)
    PROVE  /\ status' \in [Exports -> Statuses]
           /\ task' \in [Tasks -> TaskState] /\ \A u \in Tasks : TaskOK(task'[u])
<1>1. status' \in [Exports -> Statuses]
  BY OldTypes, TaskOfType DEF Fatal, Statuses, TaskOK
<1>2. task' = [task EXCEPT ![t] = IdleTask]
  BY DEF Fatal
<1> QED BY <1>1, <1>2, IdleTaskType, TaskType

(* The export is put on the list of the row that was read. *)
LEMMA SaveListedTypes ==
    ASSUME TypeInv, NEW t \in Tasks, SaveListedExport(t)
    PROVE  TypeInv'
<1> DEFINE a == task[t].a
           copy == task[t].copy
           listed == Listed(copy, task[t].e)
           w == [task[t] EXCEPT !.pc = "count", !.copy = listed]
           r == [error[a] EXCEPT !.ids = IF listed.ids = copy.ids THEN @ ELSE listed.ids,
                                 !.resolved = IF copy.resolved THEN FALSE ELSE @]
<1>1. /\ task[t].pc = "fetched" /\ UNCHANGED <<needs, mapped, signalled, made, updater, moves>>
      /\ \/ Fatal(t) /\ UNCHANGED error
         \/ /\ error' = error \/ error' = [error EXCEPT ![a] = r]
            /\ task' = [task EXCEPT ![t] = w] /\ UNCHANGED status
  <2>1. /\ task[t].pc = "fetched" /\ UNCHANGED <<needs, mapped, signalled, made, updater, moves>>
    BY DEF SaveListedExport
  <2>2. \/ Fatal(t) /\ UNCHANGED error
        \/ /\ error' = IF listed = copy THEN error ELSE [error EXCEPT ![a] = r]
           /\ task' = [task EXCEPT ![t] = w] /\ UNCHANGED status
    BY DEF SaveListedExport
  <2> QED BY <2>1, <2>2
<1>2. a \in Attrs /\ task[t].e \in Exports /\ task[t] \in TaskState /\ copy \in ErrorRow
  BY <1>1, TaskOfType DEF TaskOK, TaskState
<1>3. listed \in ErrorRow /\ listed.ids # {}
  BY <1>2 DEF Listed, ErrorRow
<1>4. w \in TaskState /\ TaskOK(w)
  <2> HIDE DEF listed
  <2> QED BY <1>2, <1>3 DEF TaskState, TaskOK
<1>5. r \in ErrorRow /\ (r.id # 0 => r.ids # {})
  <2>1. error[a] \in ErrorRow /\ (error[a].id # 0 => error[a].ids # {})
    BY <1>2, OldTypes
  <2> HIDE DEF listed
  <2> QED BY <1>2, <1>3, <2>1 DEF ErrorRow
<1> HIDE DEF w, r, a
<1>6. CASE Fatal(t) /\ UNCHANGED error
  BY <1>1, <1>6, FatalTypes, OldTypes, OnlyTasks
<1>7. CASE /\ error' = error \/ error' = [error EXCEPT ![a] = r]
           /\ task' = [task EXCEPT ![t] = w] /\ UNCHANGED status
  <2>1. /\ error' \in [Attrs -> ErrorRow]
        /\ \A b \in Attrs : error'[b].id # 0 => error'[b].ids # {}
    <3>1. CASE error' = error
      BY <3>1, OldTypes
    <3>2. CASE error' = [error EXCEPT ![a] = r]
      BY <1>2, <1>5, <3>2, OneError
    <3> QED BY <1>7, <3>1, <3>2
  <2>2. task' \in [Tasks -> TaskState] /\ \A u \in Tasks : TaskOK(task'[u])
    BY <1>4, <1>7, TaskType
  <2> QED BY <1>1, <1>7, <2>1, <2>2, OldTypes, OnlyTasks
<1> QED BY <1>1, <1>6, <1>7

(* The copy, which lists the export, is saved whole. *)
LEMMA IncreaseTypes ==
    ASSUME TypeInv, NEW t \in Tasks, IncreaseRepetitionCount(t)
    PROVE  TypeInv'
<1> DEFINE a == task[t].a
           copy == task[t].copy
           w == [task[t] EXCEPT !.pc = "validate", !.a = None, !.copy = NoError]
<1>1. /\ task[t].pc = "count" /\ UNCHANGED <<needs, mapped, signalled, made, updater, moves>>
      /\ \/ Fatal(t) /\ UNCHANGED error
         \/ error' = [error EXCEPT ![a] = copy] /\ task' = [task EXCEPT ![t] = w] /\ UNCHANGED status
  BY DEF IncreaseRepetitionCount
<1>2. a \in Attrs /\ task[t].e \in Exports /\ task[t] \in TaskState
      /\ copy \in ErrorRow /\ copy.ids # {}
  BY <1>1, TaskOfType DEF TaskOK, TaskState
<1>3. w \in TaskState /\ TaskOK(w)
  BY <1>2 DEF TaskState, TaskOK, NoError, ErrorRow
<1> HIDE DEF w, a, copy
<1>4. CASE Fatal(t) /\ UNCHANGED error
  BY <1>1, <1>4, FatalTypes, OldTypes, OnlyTasks
<1>5. CASE error' = [error EXCEPT ![a] = copy] /\ task' = [task EXCEPT ![t] = w] /\ UNCHANGED status
  <2>1. /\ error' \in [Attrs -> ErrorRow]
        /\ \A b \in Attrs : error'[b].id # 0 => error'[b].ids # {}
    BY <1>2, <1>5, OneError
  <2>2. task' \in [Tasks -> TaskState] /\ \A u \in Tasks : TaskOK(task'[u])
    BY <1>3, <1>5, TaskType
  <2> QED BY <1>1, <1>5, <2>1, <2>2, OldTypes, OnlyTasks
<1> QED BY <1>1, <1>4, <1>5

(* The export goes on to Sage, or is FAILED. *)
LEMMA FinishTypes ==
    ASSUME TypeInv, NEW t \in Tasks, FinishValidation(t)
    PROVE  TypeInv'
<1>1. /\ task[t].pc = "validate" /\ task' = [task EXCEPT ![t] = IdleTask]
      /\ UNCHANGED <<needs, mapped, signalled, error, made, updater, moves>>
  BY DEF FinishValidation
<1>2. status' \in [Exports -> Statuses]
  BY <1>1, OldTypes, TaskOfType DEF FinishValidation, Statuses, TaskOK
<1>3. task' \in [Tasks -> TaskState] /\ \A u \in Tasks : TaskOK(task'[u])
  BY <1>1, IdleTaskType, TaskType
<1> QED BY <1>1, <1>2, <1>3, OldTypes, OnlyTasks
----------------------------------------------------------------------------
(* A step of the updater that writes no error. *)
LEMMA UpdaterReads ==
    ASSUME TypeInv, (\E e \in Exports, old, new \in Attrs : SeeUpdate(e, old, new))
                    \/ SaveExpense \/ ReadErrors
    PROVE  TypeInv'
<1>1. updater \in UpdaterState /\ needs \in [Exports -> SUBSET Attrs] /\ moves \in 0 .. MaxMoves
  BY DEF TypeInv, TypeOK
<1>2. IdleUpdater \in UpdaterState
  BY DEF IdleUpdater, UpdaterState, NoError, ErrorRow
<1>3. UNCHANGED <<status, mapped, signalled, error, made, task>>
  BY DEF SeeUpdate, SaveExpense, ReadErrors
<1>4. /\ updater' \in UpdaterState /\ needs' \in [Exports -> SUBSET Attrs]
      /\ moves' \in 0 .. MaxMoves /\ UpdaterOK'
  <2>1. CASE \E e \in Exports, old, new \in Attrs : SeeUpdate(e, old, new)
    <3>1. PICK e \in Exports, old \in Attrs, new \in Attrs : SeeUpdate(e, old, new)
      BY <2>1
    <3>2. updater' = [IdleUpdater EXCEPT !.pc = "seen", !.e = e, !.old = old, !.new = new]
      BY <3>1 DEF SeeUpdate
    <3>3. updater' \in UpdaterState /\ UpdaterOK'
      BY <1>2, <3>2 DEF UpdaterState, UpdaterOK, IdleUpdater
    <3>4. moves' \in 0 .. MaxMoves /\ needs' = needs
      <4>1. moves < MaxMoves /\ moves' = moves + 1 /\ needs' = needs
        BY <3>1 DEF SeeUpdate
      <4> QED BY <1>1, <4>1, MovesAssumption
    <3> QED BY <1>1, <3>3, <3>4
  <2>2. CASE SaveExpense
    <3>1. updater.e \in Exports /\ updater.old \in Attrs /\ updater.new \in Attrs
      BY <2>2 DEF SaveExpense, TypeInv, UpdaterOK
    <3>2. needs' \in [Exports -> SUBSET Attrs]
      BY <1>1, <2>2, <3>1 DEF SaveExpense
    <3> QED BY <1>1, <2>2, <3>1, <3>2 DEF SaveExpense, UpdaterState, UpdaterOK
  <2>3. CASE ReadErrors
    <3>1. /\ updater.e \in Exports /\ updater.old \in Attrs /\ updater.new \in Attrs
          /\ UNCHANGED <<needs, moves>>
      BY <2>3 DEF ReadErrors, TypeInv, UpdaterOK
    <3>2. CASE updater' = IdleUpdater
      BY <1>1, <1>2, <3>1, <3>2 DEF UpdaterOK, IdleUpdater
    <3>3. CASE updater' = [updater EXCEPT !.pc = "read", !.oldRow = error[updater.old],
                              !.newRow = error[updater.new], !.unmapped = updater.new \notin mapped]
      <4>1. error[updater.old] \in ErrorRow /\ error[updater.new] \in ErrorRow
        BY <3>1, OldTypes
      <4> DEFINE o == error[updater.old]
                 n == error[updater.new]
                 b == updater.new \notin mapped
      <4>2. b \in BOOLEAN
        OBVIOUS
      <4>3. updater' = [updater EXCEPT !.pc = "read", !.oldRow = o, !.newRow = n, !.unmapped = b]
        BY <3>3
      <4> HIDE DEF o, n, b
      <4>4. o \in ErrorRow /\ n \in ErrorRow
        BY <4>1 DEF o, n
      <4>5. updater' \in UpdaterState /\ UpdaterOK'
        BY <1>1, <3>1, <4>2, <4>3, <4>4 DEF UpdaterState, UpdaterOK
      <4> QED BY <1>1, <3>1, <4>5
    <3> QED BY <2>3, <3>2, <3>3 DEF ReadErrors
  <2> QED BY <2>1, <2>2, <2>3
<1> HIDE DEF UpdaterState
<1> QED BY <1>3, <1>4 DEF TypeInv, TypeOK, TaskOK

(* What is left of a row the updater takes an export out of. *)
LEMMA RemovedType ==
    ASSUME TypeInv, NEW e \in Exports, NEW a \in Attrs, NEW row \in ErrorRow
    PROVE  /\ Removed(e, a, row) \in ErrorRow
           /\ Removed(e, a, row).id # 0 => Removed(e, a, row).ids # {}
           /\ Unresolved(Removed(e, a, row)) => Open(a)
<1>1. error[a] \in ErrorRow /\ (error[a].id # 0 => error[a].ids # {})
  BY OldTypes
<1>2. CASE Removed(e, a, row) \in {error[a], NoError}
  <2>1. NoError \in ErrorRow /\ NoError.id = 0
    BY DEF NoError, ErrorRow
  <2> QED BY <1>1, <1>2, <2>1 DEF Open, Unresolved
<1>3. CASE /\ Removed(e, a, row) = [error[a] EXCEPT !.ids = row.ids \ {e}]
           /\ e \in row.ids /\ row.ids # {e}
  <2>1. row.ids \ {e} # {} /\ row.ids \ {e} \subseteq Exports
    BY <1>3 DEF ErrorRow
  <2> QED BY <1>1, <1>3, <2>1 DEF Open, Unresolved, ErrorRow
<1> QED BY <1>2, <1>3 DEF Removed

(* What the updater leaves of the errors: of the old category, what Removed leaves;
   of the new one, the row with a longer list, or a new row if it was unmapped. *)
LEMMA MovedErrors ==
    ASSUME TypeInv, MoveError
    PROVE  /\ error' \in [Attrs -> ErrorRow] /\ made' \in [Attrs -> Nat]
           /\ \A b \in Attrs : error'[b].id # 0 => error'[b].ids # {}
           /\ \A b \in Attrs : Unresolved(error'[b]) =>
                 Open(b) \/ (b = updater.new /\ updater.unmapped)
<1> DEFINE e == updater.e
           old == updater.old
           new == updater.new
           left == Removed(e, old, updater.oldRow)
           removed == [error EXCEPT ![old] = left]
<1>1. e \in Exports /\ old \in Attrs /\ new \in Attrs
      /\ updater.oldRow \in ErrorRow /\ updater.newRow \in ErrorRow
  BY DEF MoveError, TypeInv, TypeOK, UpdaterOK, UpdaterState
<1>2. /\ left \in ErrorRow /\ (left.id # 0 => left.ids # {}) /\ (Unresolved(left) => Open(old))
  BY <1>1, RemovedType
<1> DEFINE longer == [removed[new] EXCEPT !.ids = updater.newRow.ids \cup {e}]
           fresh == [id |-> made[new] + 1, ids |-> {e}, resolved |-> FALSE]
<1>3. /\ error \in [Attrs -> ErrorRow] /\ made \in [Attrs -> Nat]
      /\ \A b \in Attrs : error[b].id # 0 => error[b].ids # {}
  BY OldTypes
<1>4. \/ error' \in {error, removed, [removed EXCEPT ![new] = longer]} /\ made' = made
      \/ /\ updater.unmapped /\ made' = [made EXCEPT ![new] = @ + 1]
         /\ error' = [removed EXCEPT ![new] = fresh]
  <2> DEFINE row == updater.newRow
  <2>1. CASE Unresolved(row)
    <3>1. made' = made /\ error' = IF e \in row.ids THEN removed
                                   ELSE [removed EXCEPT ![new].ids = row.ids \cup {e}]
      BY <2>1 DEF MoveError
    <3>2. [removed EXCEPT ![new].ids = row.ids \cup {e}] = [removed EXCEPT ![new] = longer]
      OBVIOUS
    <3> QED BY <3>1, <3>2
  <2>2. CASE ~Unresolved(row) /\ ~(updater.unmapped /\ error[new].id = 0)
    <3>1. error' \in {error, removed} /\ made' = made
      BY <2>2 DEF MoveError
    <3> QED BY <3>1
  <2>3. CASE ~Unresolved(row) /\ updater.unmapped /\ error[new].id = 0
    <3>1. made' = [made EXCEPT ![new] = @ + 1]
          /\ error' = [removed EXCEPT ![new] = [id |-> made'[new], ids |-> {e}, resolved |-> FALSE]]
      BY <2>3 DEF MoveError
    <3>2. made'[new] = made[new] + 1
      BY <1>1, <1>3, <3>1
    <3> QED BY <2>3, <3>1, <3>2
  <2> QED BY <2>1, <2>2, <2>3
<1> HIDE DEF left
<1>5. /\ removed \in [Attrs -> ErrorRow]
      /\ \A b \in Attrs : removed[b].id # 0 => removed[b].ids # {}
      /\ \A b \in Attrs : Unresolved(removed[b]) => Open(b)
  BY <1>1, <1>2, <1>3 DEF Open
<1>6. /\ longer \in ErrorRow /\ longer.ids # {}
      /\ longer.id = removed[new].id /\ longer.resolved = removed[new].resolved
  <2>1. removed[new] \in ErrorRow
    BY <1>1, <1>5
  <2> HIDE DEF removed
  <2> QED BY <1>1, <2>1 DEF ErrorRow
<1>7. fresh \in ErrorRow /\ fresh.ids # {} /\ made[new] + 1 \in Nat
  BY <1>1, <1>3 DEF ErrorRow
<1> HIDE DEF removed, longer, fresh, e, old, new
<1>8. CASE error' \in {error, removed} /\ made' = made
  BY <1>3, <1>5, <1>8 DEF Open
<1>9. CASE error' = [removed EXCEPT ![new] = longer] /\ made' = made
  <2>1. /\ error'[new] = longer /\ \A b \in Attrs \ {new} : error'[b] = removed[b]
        /\ error' \in [Attrs -> ErrorRow]
    BY <1>1, <1>5, <1>6, <1>9
  <2>2. Unresolved(longer) => Open(new)
    BY <1>1, <1>5, <1>6 DEF Unresolved
  <2> QED BY <1>3, <1>5, <1>6, <1>9, <2>1, <2>2
<1>10. CASE /\ updater.unmapped /\ made' = [made EXCEPT ![new] = @ + 1]
            /\ error' = [removed EXCEPT ![new] = fresh]
  <2>1. /\ error'[new] = fresh /\ \A b \in Attrs \ {new} : error'[b] = removed[b]
        /\ error' \in [Attrs -> ErrorRow]
    BY <1>1, <1>5, <1>7, <1>10
  <2>2. made' \in [Attrs -> Nat]
    BY <1>1, <1>3, <1>10
  <2> QED BY <1>5, <1>7, <1>10, <2>1, <2>2 DEF new
<1> QED BY <1>4, <1>8, <1>9, <1>10

(* Users and signals change mappings and resolve errors. *)
LEMMA MappingTypes ==
    ASSUME TypeInv, NEW a \in Attrs, SaveMapping(a) \/ ResolveMappingErrors(a)
    PROVE  TypeInv'
<1>1. UNCHANGED <<needs, status, made, task, updater, moves>>
      /\ mapped' \in SUBSET Attrs /\ signalled' \in SUBSET Attrs
  BY DEF SaveMapping, ResolveMappingErrors, TypeInv, TypeOK
<1>2. /\ error' \in [Attrs -> ErrorRow]
      /\ \A b \in Attrs : error'[b].id # 0 => error'[b].ids # {}
  <2>1. CASE SaveMapping(a)
    BY <2>1, OldTypes DEF SaveMapping
  <2>2. CASE ResolveMappingErrors(a)
    <3> DEFINE r == IF error[a].id = 0 THEN error[a] ELSE [error[a] EXCEPT !.resolved = TRUE]
    <3>1. error' = [error EXCEPT ![a] = r]
      BY <2>2 DEF ResolveMappingErrors
    <3>2. r \in ErrorRow /\ (r.id # 0 => r.ids # {})
      <4>1. error[a] \in ErrorRow /\ (error[a].id # 0 => error[a].ids # {})
        BY OldTypes
      <4> QED BY <4>1 DEF ErrorRow
    <3> HIDE DEF r
    <3> QED BY <3>1, <3>2, OneError
  <2> QED BY <2>1, <2>2
<1> QED BY <1>1, <1>2 DEF TypeInv, TypeOK, UpdaterOK, TaskOK

(* Every step keeps the types. *)
LEMMA TypesStep == TypeInv /\ [Next]_vars => TypeInv'
<1> SUFFICES ASSUME TypeInv, [Next]_vars PROVE TypeInv'
  OBVIOUS
<1>1. CASE \E t \in Tasks : StartTask(t) \/ TaskStep(t)
  BY <1>1, StartTaskTypes, LookUpTypes, GetOrCreateTypes, SaveListedTypes, IncreaseTypes,
     FinishTypes DEF TaskStep
<1>2. CASE \E a \in Attrs : SaveMapping(a) \/ ResolveMappingErrors(a)
  BY <1>2, MappingTypes
<1>3. CASE (\E e \in Exports, old, new \in Attrs : SeeUpdate(e, old, new)) \/ SaveExpense \/ ReadErrors
  BY <1>3, UpdaterReads
<1>4. CASE MoveError
  <2>1. UNCHANGED <<needs, status, mapped, signalled, task, moves>> /\ updater' = IdleUpdater
    BY <1>4 DEF MoveError
  <2>2. IdleUpdater \in UpdaterState /\ IdleUpdater.pc = "idle"
    BY DEF IdleUpdater, UpdaterState, NoError, ErrorRow
  <2> QED BY <1>4, <2>1, <2>2, MovedErrors DEF TypeInv, TypeOK, UpdaterOK, TaskOK
<1>5. CASE UNCHANGED vars
  BY <1>5 DEF TypeInv, TypeOK, UpdaterOK, TaskOK, vars
<1> QED BY <1>1, <1>2, <1>3, <1>4, <1>5 DEF Next

(* The initial states have the types. *)
LEMMA InitialTypes == Init => TypeInv
<1> SUFFICES ASSUME Init PROVE TypeInv
  OBVIOUS
<1>1. NoError \in ErrorRow /\ NoError.id = 0
  BY DEF NoError, ErrorRow
<1>2. IdleUpdater \in UpdaterState /\ IdleUpdater.pc = "idle"
  BY DEF IdleUpdater, UpdaterState, NoError, ErrorRow
<1>3. needs \in [Exports -> SUBSET Attrs] /\ status \in [Exports -> Statuses]
  BY DEF Init, Statuses
<1>4. made \in [Attrs -> Nat] /\ moves \in 0 .. MaxMoves
  BY MovesAssumption DEF Init
<1> QED BY <1>1, <1>2, <1>3, <1>4, IdleTaskType DEF Init, TypeInv, TypeOK, UpdaterOK

(* Type correctness: exports, errors and processes have their types, and an Error row
   that is there lists an export: one whose list is emptied is deleted. *)
THEOREM TypeCorrect == Spec => []TypeOK
<1>1. TypeInv => TypeOK
  BY DEF TypeInv
<1> QED BY InitialTypes, TypesStep, <1>1, PTL DEF Spec
----------------------------------------------------------------------------
(* While errors are worked out, what was seen of the mappings stays true. *)
LEMMA LookedStep ==
    ASSUME ~MapWhileBusy, Inv, Next
    PROVE  Looked'
<1>1. CASE \E t \in Tasks : StartTask(t) \/ TaskStep(t)
  <2>1. UNCHANGED <<mapped, updater>>
    BY <1>1 DEF StartTask, TaskStep, LookUp, GetOrCreateError, SaveListedExport,
                IncreaseRepetitionCount, FinishValidation
  <2>2. PICK t \in Tasks : StartTask(t) \/ TaskStep(t)
    BY <1>1
  <2>3. \A u \in Tasks \ {t} : task'[u] = task[u]
    BY <2>2 DEF StartTask, TaskStep, LookUp, GetOrCreateError, SaveListedExport,
                IncreaseRepetitionCount, FinishValidation, Fatal, Inv, TypeInv, TypeOK
  <2>4. task'[t].pc \in {"missing", "fetched", "count"} => task'[t].a \notin mapped
    <3>0. task \in [Tasks -> TaskState] /\ task[t] \in TaskState
      BY DEF Inv, TypeInv, TypeOK
    <3>1. CASE StartTask(t) \/ FinishValidation(t)
      <4>1. IdleTask.pc = "idle" /\ \A e \in Exports :
              [IdleTask EXCEPT !.pc = "validate", !.e = e, !.todo = needs[e]].pc = "validate"
        BY DEF IdleTask
      <4>2. \/ task'[t] = IdleTask
            \/ \E e \in Exports : task'[t] =
                  [IdleTask EXCEPT !.pc = "validate", !.e = e, !.todo = needs[e]]
        BY <3>0, <3>1 DEF StartTask, FinishValidation
      <4> QED BY <4>1, <4>2
    <3>2. CASE \E a \in Attrs : LookUp(t, a)
      <4>1. PICK a \in Attrs : LookUp(t, a)
        BY <3>2
      <4>2. task[t].pc = "validate"
        BY <4>1 DEF LookUp
      <4>3. CASE a \in mapped
        BY <3>0, <4>1, <4>2, <4>3 DEF LookUp, TaskState
      <4>4. CASE a \notin mapped
        BY <3>0, <4>1, <4>4 DEF LookUp, TaskState
      <4> QED BY <4>3, <4>4
    <3>3. CASE GetOrCreateError(t)
      <4>1. task[t].pc = "missing" /\ task[t].a \notin mapped
        BY <3>3 DEF GetOrCreateError, Inv, Looked
      <4>2. task'[t].pc = "validate" \/ task'[t].a = task[t].a
        BY <3>0, <3>3 DEF GetOrCreateError, TaskState
      <4> QED BY <4>1, <4>2
    <3>4. CASE SaveListedExport(t)
      <4>1. task[t].pc = "fetched" /\ task[t].a \notin mapped
        BY <3>4 DEF SaveListedExport, Inv, Looked
      <4>2. task'[t].pc = "idle" \/ task'[t].a = task[t].a
        <5>1. \/ task' = [task EXCEPT ![t] = IdleTask]
              \/ \E c : task' = [task EXCEPT ![t] = [task[t] EXCEPT !.pc = "count", !.copy = c]]
          BY <3>4 DEF SaveListedExport, Fatal
        <5>2. IdleTask.pc = "idle"
          BY DEF IdleTask
        <5>3. ASSUME NEW c, task' = [task EXCEPT ![t] = [task[t] EXCEPT !.pc = "count", !.copy = c]]
              PROVE  task'[t].a = task[t].a
          BY <3>0, <5>3 DEF TaskState
        <5> QED BY <3>0, <5>1, <5>2, <5>3
      <4> QED BY <4>1, <4>2
    <3>5. CASE IncreaseRepetitionCount(t)
      <4>1. \/ task' = [task EXCEPT ![t] = IdleTask]
            \/ task' = [task EXCEPT ![t] = [task[t] EXCEPT !.pc = "validate", !.a = None, !.copy = NoError]]
        BY <3>5 DEF IncreaseRepetitionCount, Fatal
      <4>2. IdleTask.pc = "idle"
        BY DEF IdleTask
      <4>3. [task[t] EXCEPT !.pc = "validate", !.a = None, !.copy = NoError].pc = "validate"
        BY <3>0 DEF TaskState
      <4> QED BY <3>0, <4>1, <4>2, <4>3
    <3> QED BY <2>2, <3>1, <3>2, <3>3, <3>4, <3>5 DEF TaskStep
  <2> QED BY <2>1, <2>3, <2>4 DEF Inv, Looked
<1>2. CASE \E a \in Attrs : SaveMapping(a)
  <2>1. ~Busy /\ UNCHANGED <<task, updater>>
    BY <1>2 DEF SaveMapping
  <2> QED BY <2>1 DEF Busy, Validating, Looked
<1>3. CASE \E a \in Attrs : ResolveMappingErrors(a)
  BY <1>3 DEF ResolveMappingErrors, Inv, Looked
<1>4. CASE (\E e \in Exports, old, new \in Attrs : SeeUpdate(e, old, new)) \/ SaveExpense
             \/ ReadErrors \/ MoveError
  <2>1. UNCHANGED <<mapped, task>>
    BY <1>4 DEF SeeUpdate, SaveExpense, ReadErrors, MoveError
  <2>2. updater'.pc = "read" /\ updater'.unmapped => updater'.new \notin mapped
    <3>0. updater \in UpdaterState
      BY DEF Inv, TypeInv, TypeOK
    <3>1. CASE \E e \in Exports, old, new \in Attrs : SeeUpdate(e, old, new)
      BY <3>1 DEF SeeUpdate, IdleUpdater
    <3>2. CASE SaveExpense
      BY <3>0, <3>2 DEF SaveExpense, UpdaterState
    <3>3. CASE ReadErrors
      <4>1. CASE updater' = IdleUpdater
        BY <4>1 DEF IdleUpdater
      <4>2. CASE updater' # IdleUpdater
        <5>1. updater' = [updater EXCEPT !.pc = "read", !.oldRow = error[updater.old],
                              !.newRow = error[updater.new], !.unmapped = updater.new \notin mapped]
          BY <3>3, <4>2 DEF ReadErrors
        <5> QED BY <3>0, <5>1 DEF UpdaterState
      <4> QED BY <4>1, <4>2
    <3>4. CASE MoveError
      BY <3>4 DEF MoveError, IdleUpdater
    <3> QED BY <1>4, <3>1, <3>2, <3>3, <3>4
  <2> QED BY <2>1, <2>2 DEF Inv, Looked
<1> QED BY <1>1, <1>2, <1>3, <1>4 DEF Next

(* An error that a step opens is of an attribute without a mapping. *)
LEMMA OpenStep ==
    ASSUME Inv, Next
    PROVE  OpenErrorIsUnmapped'
<1>0. error \in [Attrs -> ErrorRow]
  BY DEF Inv, TypeInv, TypeOK
<1>1. CASE \E t \in Tasks : StartTask(t) \/ TaskStep(t)
  <2>1. PICK t \in Tasks : StartTask(t) \/ TaskStep(t)
    BY <1>1
  <2>2. UNCHANGED <<mapped, signalled>>
    BY <2>1 DEF StartTask, TaskStep, LookUp, GetOrCreateError, SaveListedExport,
                IncreaseRepetitionCount, FinishValidation
  <2>3. \/ error' = error
        \/ /\ task[t].pc \in {"missing", "fetched", "count"}
           /\ \A b \in Attrs : b # task[t].a => error'[b] = error[b]
    BY <1>0, <2>1 DEF StartTask, TaskStep, LookUp, GetOrCreateError, SaveListedExport,
                IncreaseRepetitionCount, FinishValidation
  <2>4. task[t].pc \in {"missing", "fetched", "count"} => task[t].a \notin mapped
    BY DEF Inv, Looked
  <2> QED BY <2>2, <2>3, <2>4 DEF Inv, OpenErrorIsUnmapped, Open
<1>2. CASE \E a \in Attrs : SaveMapping(a)
  BY <1>2 DEF SaveMapping, Inv, OpenErrorIsUnmapped, Open
<1>3. CASE \E a \in Attrs : ResolveMappingErrors(a)
  <2>1. PICK a \in Attrs : ResolveMappingErrors(a)
    BY <1>3
  <2>2. /\ mapped' = mapped /\ signalled' = signalled \ {a}
        /\ \A b \in Attrs : b # a => error'[b] = error[b]
    BY <1>0, <2>1 DEF ResolveMappingErrors
  <2>3. error'[a] = IF error[a].id = 0 THEN error[a] ELSE [error[a] EXCEPT !.resolved = TRUE]
    BY <1>0, <2>1 DEF ResolveMappingErrors
  <2>4. error[a] \in ErrorRow
    BY <1>0
  <2>5. ~Open(a)'
    BY <2>3, <2>4 DEF Open, Unresolved, ErrorRow
  <2> QED BY <2>2, <2>5 DEF Inv, OpenErrorIsUnmapped, Open
<1>4. CASE (\E e \in Exports, old, new \in Attrs : SeeUpdate(e, old, new)) \/ SaveExpense
             \/ ReadErrors
  BY <1>4 DEF SeeUpdate, SaveExpense, ReadErrors, Inv, OpenErrorIsUnmapped, Open
<1>5. CASE MoveError
  <2>1. UNCHANGED <<mapped, signalled>> /\ updater.pc = "read"
    BY <1>5 DEF MoveError
  <2>2. \A b \in Attrs : Unresolved(error'[b]) => Open(b) \/ (b = updater.new /\ updater.unmapped)
    BY <1>5, MovedErrors DEF Inv
  <2>3. updater.unmapped => updater.new \notin mapped
    BY <2>1 DEF Inv, Looked
  <2> QED BY <2>1, <2>2, <2>3 DEF Inv, OpenErrorIsUnmapped, Open
<1> QED BY <1>1, <1>2, <1>3, <1>4, <1>5 DEF Next

(* An unresolved error stands for a missing mapping, whatever tasks and category
   updates write from what they read before, if mappings wait until they are done. *)
THEOREM OpenErrorAlwaysUnmapped ==
    ASSUME ~MapWhileBusy
    PROVE  Spec => []OpenErrorIsUnmapped
<1>1. Init => Inv
  <2> SUFFICES ASSUME Init PROVE Inv
    OBVIOUS
  <2>1. TypeInv
    BY InitialTypes
  <2>2. Looked /\ OpenErrorIsUnmapped
    BY DEF Init, Looked, IdleTask, IdleUpdater, OpenErrorIsUnmapped, Open, Unresolved, NoError
  <2> QED BY <2>1, <2>2 DEF Inv
<1>2. Inv /\ [Next]_vars => Inv'
  <2> SUFFICES ASSUME Inv, [Next]_vars PROVE Inv'
    OBVIOUS
  <2>1. TypeInv'
    BY TypesStep DEF Inv
  <2>2. CASE Next
    BY <2>1, <2>2, LookedStep, OpenStep DEF Inv
  <2>3. CASE UNCHANGED vars
    BY <2>1, <2>3 DEF Inv, Looked, OpenErrorIsUnmapped, Open, vars
  <2> QED BY <2>2, <2>3
<1>3. Inv => OpenErrorIsUnmapped
  BY DEF Inv
<1> QED BY <1>1, <1>2, <1>3, PTL DEF Spec
----------------------------------------------------------------------------
(***************************************************************************)
(* Failed exports are listed                                               *)
(***************************************************************************)

\* Export tasks run one after the other. Two that extend one list overwrite each
\* other's export.
OneTask == \A t, u \in Tasks : t = u

Listing(e, a) == Open(a) /\ e \in error[a].ids

\* What a task has read of an unmapped attribute, nobody else has written since;
\* what it has looked up and not found lists its export, but for the attribute it
\* is about to list it for.
TaskLists(t) ==
    LET w == task[t] IN
    /\ w.pc = "fetched" /\ w.a \notin mapped => w.copy = error[w.a] /\ w.copy.id # 0
    /\ w.pc = "count" /\ w.a \notin mapped => w.copy = error[w.a] /\ Listing(w.e, w.a)
    /\ w.pc # "idle" =>
          \A a \in (needs[w.e] \ w.todo) \ mapped :
              Listing(w.e, a) \/ (w.pc \in {"missing", "fetched"} /\ w.a = a)

\* An error is not resolved before its mapping is there.
UnmappedStays ==
    /\ signalled \subseteq mapped
    /\ \A a \in Attrs \ mapped : ~error[a].resolved

FailedHolds ==
    \A e \in Exports : status[e] = "FAILED" /\ needs[e] \cap mapped = {} =>
        \A a \in needs[e] : Listing(e, a)

\* All this until a category changes.
ListInv ==
    moves = 0 => /\ updater.pc = "idle"
                 /\ UnmappedStays /\ FailedHolds
                 /\ \A t \in Tasks : TaskLists(t)

(* A row of an unmapped attribute that stays, or gets a longer list, lists what it
   did. *)
LEMMA ListGrows ==
    ASSUME NEW a \in Attrs, NEW e, Listing(e, a),
           error'[a] = error[a] \/ (/\ Unresolved(error'[a])
                                    /\ error[a].ids \subseteq error'[a].ids)
    PROVE  Listing(e, a)'
BY DEF Listing, Open, Unresolved

(* A step of the only task that keeps or extends the rows of unmapped attributes,
   and fails no export but its own, whose attributes it has listed. *)
LEMMA OneTaskLists ==
    ASSUME TypeInv, OneTask, ListInv, moves = 0, NEW t \in Tasks,
           UNCHANGED <<needs, mapped, signalled, updater, moves>>,
           \A a \in Attrs \ mapped :
              \/ error'[a] = error[a]
              \/ Unresolved(error'[a]) /\ error[a].ids \subseteq error'[a].ids,
           \A e \in Exports : status'[e] = "FAILED" =>
              \/ status[e] = "FAILED"
              \/ \A a \in needs[e] \ mapped : Listing(e, a),
           TaskLists(t)'
    PROVE  ListInv'
<1>1. needs \in [Exports -> SUBSET Attrs] /\ needs' = needs /\ mapped' = mapped
      /\ signalled' = signalled
  BY DEF TypeInv, TypeOK
<1>2. UnmappedStays'
  BY <1>1 DEF ListInv, UnmappedStays, Unresolved
<1>3. FailedHolds'
  <2> SUFFICES ASSUME NEW e \in Exports, status'[e] = "FAILED", needs[e] \cap mapped = {},
                      NEW a \in needs[e]
               PROVE  Listing(e, a)'
    BY <1>1 DEF FailedHolds
  <2>1. a \in Attrs \ mapped
    BY <1>1
  <2>2. Listing(e, a)
    BY <2>1 DEF ListInv, FailedHolds
  <2> QED BY <2>1, <2>2, ListGrows
<1>4. \A u \in Tasks : TaskLists(u)'
  BY DEF OneTask
<1> QED BY <1>2, <1>3, <1>4 DEF ListInv

(* Starting, and looking an attribute up. *)
LEMMA LookingLists ==
    ASSUME TypeInv, OneTask, ListInv, moves = 0, NEW t \in Tasks,
           StartTask(t) \/ \E a \in Attrs : LookUp(t, a)
    PROVE  ListInv'
<1>1. UNCHANGED <<needs, mapped, signalled, error, updater, moves>>
  BY DEF StartTask, LookUp
<1>2. task[t] \in TaskState /\ task \in [Tasks -> TaskState] /\ status \in [Exports -> Statuses]
      /\ needs \in [Exports -> SUBSET Attrs]
  BY DEF TypeInv, TypeOK
<1>3. CASE StartTask(t)
  <2>1. PICK e \in Exports :
          /\ status' = [status EXCEPT ![e] = "IN_PROGRESS"]
          /\ task' = [task EXCEPT ![t] = [IdleTask EXCEPT !.pc = "validate", !.e = e, !.todo = needs[e]]]
    BY <1>3 DEF StartTask
  <2>2. task'[t].pc = "validate" /\ task'[t].e = e /\ task'[t].todo = needs[e]
    BY <1>2, <2>1 DEF IdleTask
  <2>3. TaskLists(t)'
    BY <1>1, <2>2 DEF TaskLists
  <2>4. \A x \in Exports : status'[x] = "FAILED" => status[x] = "FAILED"
    BY <1>2, <2>1
  <2> QED BY <1>1, <2>3, <2>4, OneTaskLists
<1>4. CASE \E a \in Attrs : LookUp(t, a)
  <2>1. PICK a \in Attrs : LookUp(t, a)
    BY <1>4
  <2>2. task[t].pc = "validate" /\ UNCHANGED status
    BY <2>1 DEF LookUp
  <2>3. \A b \in (needs[task[t].e] \ task[t].todo) \ mapped : Listing(task[t].e, b)
    BY <2>2 DEF ListInv, TaskLists
  <2>4. \A e, b : Listing(e, b)' <=> Listing(e, b)
    BY <1>1 DEF Listing, Open
  <2>5. TaskLists(t)'
    <3>1. CASE a \in mapped
      <4>1. task'[t].pc = "validate" /\ task'[t].e = task[t].e /\ task'[t].todo = task[t].todo \ {a}
        BY <1>2, <2>1, <2>2, <3>1 DEF LookUp, TaskState
      <4> QED BY <1>1, <2>3, <2>4, <3>1, <4>1 DEF TaskLists
    <3>2. CASE a \notin mapped
      <4>1. task'[t].pc = "missing" /\ task'[t].e = task[t].e /\ task'[t].todo = task[t].todo \ {a}
            /\ task'[t].a = a
        BY <1>2, <2>1, <3>2 DEF LookUp, TaskState
      <4> QED BY <1>1, <2>3, <2>4, <3>2, <4>1 DEF TaskLists
    <3> QED BY <3>1, <3>2
  <2> QED BY <1>1, <2>2, <2>5, OneTaskLists
<1> QED BY <1>3, <1>4

(* An error row is created for the export, or is read as it is. *)
LEMMA CreatingLists ==
    ASSUME TypeInv, OneTask, ListInv, moves = 0, NEW t \in Tasks, GetOrCreateError(t)
    PROVE  ListInv'
<1>1. UNCHANGED <<needs, mapped, signalled, status, updater, moves>> /\ task[t].pc = "missing"
  BY DEF GetOrCreateError
<1>2. task[t] \in TaskState /\ task \in [Tasks -> TaskState] /\ TaskOK(task[t])
      /\ error \in [Attrs -> ErrorRow] /\ made \in [Attrs -> Nat]
      /\ needs \in [Exports -> SUBSET Attrs]
  BY DEF TypeInv, TypeOK
<1>3. PICK a \in Attrs, e \in Exports : a = task[t].a /\ e = task[t].e
  BY <1>1, <1>2 DEF TaskOK
<1>4. \A b \in (needs[e] \ task[t].todo) \ mapped : Listing(e, b) \/ a = b
  BY <1>1, <1>3 DEF ListInv, TaskLists
<1>5. CASE error[a].id = 0
  <2>1. PICK r : r = [id |-> made[a] + 1, ids |-> {e}, resolved |-> FALSE]
    OBVIOUS
  <2>2. error' = [error EXCEPT ![a] = r]
    <3>1. made' = [made EXCEPT ![a] = @ + 1]
          /\ error' = [error EXCEPT ![a] = [id |-> made'[a], ids |-> {e}, resolved |-> FALSE]]
      BY <1>3, <1>5 DEF GetOrCreateError
    <3>2. made'[a] = made[a] + 1
      BY <1>2, <3>1
    <3> QED BY <2>1, <3>1, <3>2
  <2>3. Unresolved(r) /\ e \in r.ids /\ r.ids = {e}
    <3>1. made[a] \in Nat
      BY <1>2
    <3> QED BY <2>1, <3>1 DEF Unresolved
  <2>4. task' = [task EXCEPT ![t] = [task[t] EXCEPT !.pc = "validate", !.a = None]]
    BY <1>3, <1>5 DEF GetOrCreateError
  <2>5. task'[t].pc = "validate" /\ task'[t].e = e /\ task'[t].todo = task[t].todo
    BY <1>2, <1>3, <2>4 DEF TaskState
  <2>6. error'[a] = r /\ \A b \in Attrs : b # a => error'[b] = error[b]
    BY <1>2, <2>2
  <2>7. Listing(e, a)' /\ \A x, b : b \in Attrs /\ b # a /\ Listing(x, b) => Listing(x, b)'
    BY <2>3, <2>6 DEF Listing, Open
  <2>8. TaskLists(t)'
    BY <1>1, <1>2, <1>4, <2>5, <2>7 DEF TaskLists
  <2>9. FailedHolds'
    <3> SUFFICES ASSUME NEW x \in Exports, status[x] = "FAILED", needs[x] \cap mapped = {},
                        NEW b \in needs[x]
                 PROVE  Listing(x, b)'
      BY <1>1 DEF FailedHolds
    <3>1. Listing(x, b) /\ b \in Attrs
      BY <1>2 DEF ListInv, FailedHolds
    <3>2. b # a
      BY <1>5, <3>1 DEF Listing, Open, Unresolved
    <3> QED BY <2>7, <3>1, <3>2
  <2>10. UnmappedStays'
    BY <1>1, <2>3, <2>6 DEF ListInv, UnmappedStays, Unresolved
  <2> QED BY <1>1, <2>8, <2>9, <2>10 DEF ListInv, OneTask
<1>6. CASE error[a].id # 0
  <2>1. PICK r : r = error[a]
    OBVIOUS
  <2>2. task' = [task EXCEPT ![t] = [task[t] EXCEPT !.pc = "fetched", !.copy = r]] /\ error' = error
    BY <1>3, <1>6, <2>1 DEF GetOrCreateError
  <2>3. task'[t].pc = "fetched" /\ task'[t].e = e /\ task'[t].todo = task[t].todo
        /\ task'[t].a = a /\ task'[t].copy = r
    BY <1>2, <1>3, <2>2 DEF TaskState
  <2>4. \A x, b : Listing(x, b)' <=> Listing(x, b)
    BY <2>2 DEF Listing, Open
  <2>5. TaskLists(t)'
    BY <1>1, <1>4, <1>6, <2>1, <2>2, <2>3, <2>4 DEF TaskLists
  <2> QED BY <1>1, <2>2, <2>5, OneTaskLists
<1> QED BY <1>5, <1>6

(* The export is put on the list of the row as it still is. *)
LEMMA SavingLists ==
    ASSUME TypeInv, OneTask, ListInv, moves = 0, NEW t \in Tasks, SaveListedExport(t)
    PROVE  ListInv'
<1>1. UNCHANGED <<needs, mapped, signalled, updater, moves>> /\ task[t].pc = "fetched"
  BY DEF SaveListedExport
<1>2. task[t] \in TaskState /\ task \in [Tasks -> TaskState] /\ TaskOK(task[t])
      /\ error \in [Attrs -> ErrorRow] /\ needs \in [Exports -> SUBSET Attrs]
      /\ status \in [Exports -> Statuses]
  BY DEF TypeInv, TypeOK
<1>3. PICK a \in Attrs, e \in Exports, copy \in ErrorRow :
        a = task[t].a /\ e = task[t].e /\ copy = task[t].copy
  BY <1>1, <1>2 DEF TaskOK, TaskState
<1>4. PICK listed : listed = Listed(copy, e)
  OBVIOUS
<1>5. listed.ids = copy.ids \cup {e} /\ ~listed.resolved /\ listed.id = copy.id
      /\ listed \in ErrorRow
  BY <1>3, <1>4 DEF Listed, ErrorRow
<1>6. PICK r : r = [error[a] EXCEPT !.ids = IF listed.ids = copy.ids THEN @ ELSE listed.ids,
                                    !.resolved = IF copy.resolved THEN FALSE ELSE @]
  OBVIOUS
<1>7. \/ Fatal(t) /\ UNCHANGED error
      \/ /\ error' = IF listed = copy THEN error ELSE [error EXCEPT ![a] = r]
         /\ task' = [task EXCEPT ![t] = [task[t] EXCEPT !.pc = "count", !.copy = listed]]
         /\ (listed = copy \/ error[a].id = copy.id) /\ UNCHANGED status
  BY <1>3, <1>4, <1>6 DEF SaveListedExport
<1>8. CASE Fatal(t) /\ UNCHANGED error
  <2>1. TaskLists(t)'
    BY <1>2, <1>8 DEF Fatal, IdleTask, TaskLists
  <2>2. \A x \in Exports : status'[x] = "FAILED" => status[x] = "FAILED"
    BY <1>2, <1>8 DEF Fatal
  <2> QED BY <1>1, <1>8, <2>1, <2>2, OneTaskLists
<1>9. CASE /\ error' = IF listed = copy THEN error ELSE [error EXCEPT ![a] = r]
           /\ task' = [task EXCEPT ![t] = [task[t] EXCEPT !.pc = "count", !.copy = listed]]
           /\ (listed = copy \/ error[a].id = copy.id) /\ UNCHANGED status
  <2>1. task'[t].pc = "count" /\ task'[t].e = e /\ task'[t].todo = task[t].todo
        /\ task'[t].a = a /\ task'[t].copy = listed
    BY <1>2, <1>3, <1>9 DEF TaskState
  <2>2. \A b \in Attrs : b # a => error'[b] = error[b]
    BY <1>2, <1>9
  <2>3. ASSUME a \notin mapped
        PROVE  /\ error'[a] = listed /\ e \in listed.ids /\ error[a].ids \subseteq listed.ids
               /\ Unresolved(listed)
    <3>1. copy = error[a] /\ ~copy.resolved
      BY <1>1, <1>3, <2>3 DEF ListInv, TaskLists, UnmappedStays
    <3>2. r = listed
      <4>1. error[a] \in ErrorRow
        BY <1>2
      <4>2. r.id = copy.id /\ r.resolved = copy.resolved
            /\ r.ids = IF listed.ids = copy.ids THEN copy.ids ELSE listed.ids
        BY <1>6, <3>1, <4>1 DEF ErrorRow
      <4>3. r \in [id : Nat, ids : SUBSET Exports, resolved : BOOLEAN]
        BY <1>5, <1>6, <3>1, <4>1 DEF ErrorRow
      <4>4. r.resolved = listed.resolved
        <5>1. copy.resolved \in BOOLEAN /\ listed.resolved \in BOOLEAN
          BY <1>5 DEF ErrorRow
        <5> QED BY <1>5, <3>1, <4>2, <5>1
      <4> QED BY <1>5, <4>2, <4>3, <4>4 DEF ErrorRow
    <3>3. error'[a] = IF listed = copy THEN copy ELSE r
      BY <1>2, <1>9, <3>1
    <3>4. error'[a] = listed
      BY <3>2, <3>3
    <3>5. copy.id # 0
      BY <1>1, <1>3, <2>3, <3>1 DEF ListInv, TaskLists
    <3> QED BY <1>5, <3>1, <3>4, <3>5 DEF Unresolved
  <2>4. \A b \in Attrs \ mapped :
           \/ error'[b] = error[b]
           \/ Unresolved(error'[b]) /\ error[b].ids \subseteq error'[b].ids
    BY <2>2, <2>3
  <2>5. \A x, b : b \in Attrs \ mapped /\ Listing(x, b) => Listing(x, b)'
    BY <2>4, ListGrows
  <2>6. a \notin mapped => Listing(e, a)'
    BY <2>3 DEF Listing, Open
  <2>7. \A b \in (needs[e] \ task[t].todo) \ mapped : Listing(e, b) \/ a = b
    BY <1>1, <1>3 DEF ListInv, TaskLists
  <2>8. TaskLists(t)'
    BY <1>1, <1>2, <2>1, <2>3, <2>5, <2>6, <2>7 DEF TaskLists
  <2> QED BY <1>1, <1>9, <2>4, <2>8, OneTaskLists
<1> QED BY <1>7, <1>8, <1>9

(* The row is saved as the task has it, which is as it is. *)
LEMMA CountingLists ==
    ASSUME TypeInv, OneTask, ListInv, moves = 0, NEW t \in Tasks, IncreaseRepetitionCount(t)
    PROVE  ListInv'
<1>1. UNCHANGED <<needs, mapped, signalled, updater, moves>> /\ task[t].pc = "count"
  BY DEF IncreaseRepetitionCount
<1>2. task[t] \in TaskState /\ task \in [Tasks -> TaskState] /\ TaskOK(task[t])
      /\ error \in [Attrs -> ErrorRow] /\ needs \in [Exports -> SUBSET Attrs]
      /\ status \in [Exports -> Statuses]
  BY DEF TypeInv, TypeOK
<1>3. PICK a \in Attrs, e \in Exports, copy \in ErrorRow :
        a = task[t].a /\ e = task[t].e /\ copy = task[t].copy
  BY <1>1, <1>2 DEF TaskOK, TaskState
<1>4. \/ Fatal(t) /\ UNCHANGED error
      \/ /\ error' = [error EXCEPT ![a] = copy] /\ UNCHANGED status
         /\ task' = [task EXCEPT ![t] = [task[t] EXCEPT !.pc = "validate", !.a = None, !.copy = NoError]]
  BY <1>3 DEF IncreaseRepetitionCount
<1>5. CASE Fatal(t) /\ UNCHANGED error
  <2>1. TaskLists(t)'
    BY <1>2, <1>5 DEF Fatal, IdleTask, TaskLists
  <2>2. \A x \in Exports : status'[x] = "FAILED" => status[x] = "FAILED"
    BY <1>2, <1>5 DEF Fatal
  <2> QED BY <1>1, <1>5, <2>1, <2>2, OneTaskLists
<1>6. CASE /\ error' = [error EXCEPT ![a] = copy] /\ UNCHANGED status
           /\ task' = [task EXCEPT ![t] = [task[t] EXCEPT !.pc = "validate", !.a = None, !.copy = NoError]]
  <2>1. task'[t].pc = "validate" /\ task'[t].e = e /\ task'[t].todo = task[t].todo
    BY <1>2, <1>3, <1>6 DEF TaskState
  <2>2. a \notin mapped => copy = error[a]
    BY <1>1, <1>3 DEF ListInv, TaskLists
  <2>3. \A b \in Attrs \ mapped : error'[b] = error[b]
    BY <1>2, <1>6, <2>2
  <2>4. \A x, b : b \in Attrs \ mapped /\ Listing(x, b) => Listing(x, b)'
    BY <2>3, ListGrows
  <2>5. \A b \in (needs[e] \ task[t].todo) \ mapped : Listing(e, b)
    BY <1>1, <1>3 DEF ListInv, TaskLists
  <2>6. TaskLists(t)'
    BY <1>1, <1>2, <2>1, <2>4, <2>5 DEF TaskLists
  <2> QED BY <1>1, <1>6, <2>3, <2>6, OneTaskLists
<1> QED BY <1>4, <1>5, <1>6

(* A task that fails its export has listed it for every attribute it looked up. *)
LEMMA FinishingLists ==
    ASSUME TypeInv, OneTask, ListInv, moves = 0, NEW t \in Tasks, FinishValidation(t)
    PROVE  ListInv'
<1>1. UNCHANGED <<needs, mapped, signalled, error, updater, moves>> /\ task[t].pc = "validate"
      /\ task[t].todo = {} /\ task' = [task EXCEPT ![t] = IdleTask]
  BY DEF FinishValidation
<1>2. task \in [Tasks -> TaskState] /\ TaskOK(task[t]) /\ status \in [Exports -> Statuses]
  BY DEF TypeInv, TypeOK
<1>3. \A a \in needs[task[t].e] \ mapped : Listing(task[t].e, a)
  BY <1>1 DEF ListInv, TaskLists
<1>4. \A x \in Exports : status'[x] = status[x] \/ x = task[t].e
  BY <1>2 DEF FinishValidation
<1>5. TaskLists(t)'
  BY <1>1, <1>2 DEF IdleTask, TaskLists
<1> QED BY <1>1, <1>3, <1>4, <1>5, OneTaskLists

(* Mappings come, and resolve errors of what is mapped. *)
LEMMA MappingLists ==
    ASSUME TypeInv, ListInv, moves = 0, NEW a \in Attrs,
           SaveMapping(a) \/ ResolveMappingErrors(a)
    PROVE  ListInv'
<1>1. UNCHANGED <<needs, status, task, updater, moves>> /\ mapped \subseteq mapped'
      /\ signalled' \subseteq mapped'
  BY DEF SaveMapping, ResolveMappingErrors, ListInv, UnmappedStays
<1>2. \A b \in Attrs \ mapped' : error'[b] = error[b]
  BY DEF SaveMapping, ResolveMappingErrors, ListInv, UnmappedStays, TypeInv, TypeOK
<1>3. \A x, b : b \in Attrs \ mapped' /\ Listing(x, b) => Listing(x, b)'
  BY <1>2, ListGrows
<1>4. UnmappedStays'
  BY <1>1, <1>2 DEF ListInv, UnmappedStays
<1>5. needs \in [Exports -> SUBSET Attrs] /\ \A t \in Tasks : task[t] \in TaskState /\ TaskOK(task[t])
  BY DEF TypeInv, TypeOK
<1>6. FailedHolds'
  BY <1>1, <1>3, <1>5 DEF ListInv, FailedHolds
<1>7. ASSUME NEW t \in Tasks
      PROVE  TaskLists(t)'
  <2>1. TaskLists(t) /\ TaskOK(task[t])
    BY <1>5 DEF ListInv
  <2> QED BY <1>1, <1>2, <1>3, <1>5, <2>1 DEF TaskLists, TaskOK
<1> QED BY <1>1, <1>4, <1>6, <1>7 DEF ListInv

(* When export tasks run one after the other: until a category changes, an export
   that failed for want of mappings is listed by the unresolved error of each, for
   any exports and attributes, and whether or not mappings are saved meanwhile. *)
THEOREM FailedAlwaysListed ==
    ASSUME OneTask
    PROVE  Spec => []FailedIsListed
<1>1. Init => ListInv
  BY DEF Init, ListInv, UnmappedStays, FailedHolds, TaskLists, IdleTask, IdleUpdater, NoError
<1>2. TypeInv /\ ListInv /\ [Next]_vars => ListInv'
  <2> SUFFICES ASSUME TypeInv, ListInv, [Next]_vars, moves' = 0 PROVE ListInv'
    BY DEF ListInv
  <2>1. CASE UNCHANGED vars
    BY <2>1 DEF vars, ListInv, UnmappedStays, FailedHolds, TaskLists, Listing, Open
  <2>2. ASSUME NEW e \in Exports, NEW old \in Attrs, NEW new \in Attrs, SeeUpdate(e, old, new)
        PROVE  FALSE
    <3>1. moves' = moves + 1 /\ moves \in Nat
      BY <2>2, MovesAssumption DEF SeeUpdate, TypeInv, TypeOK
    <3> QED BY <3>1
  <2>3. moves = 0
    <3>1. CASE UNCHANGED vars
      BY <3>1 DEF vars
    <3>2. CASE \E t \in Tasks : StartTask(t) \/ TaskStep(t)
      BY <3>2 DEF StartTask, TaskStep, GetOrCreateError, SaveListedExport,
         IncreaseRepetitionCount, FinishValidation, LookUp
    <3>3. CASE \E a \in Attrs : SaveMapping(a) \/ ResolveMappingErrors(a)
      BY <3>3 DEF SaveMapping, ResolveMappingErrors
    <3>4. CASE SaveExpense \/ ReadErrors \/ MoveError
      BY <3>4 DEF SaveExpense, ReadErrors, MoveError
    <3> QED BY <2>2, <3>1, <3>2, <3>3, <3>4 DEF Next
  <2>4. CASE SaveExpense \/ ReadErrors \/ MoveError
    BY <2>3, <2>4 DEF ListInv, SaveExpense, ReadErrors, MoveError
  <2>5. CASE \E t \in Tasks : StartTask(t) \/ TaskStep(t)
    BY <2>3, <2>5, LookingLists, CreatingLists, SavingLists, CountingLists, FinishingLists DEF TaskStep
  <2>6. CASE \E a \in Attrs : SaveMapping(a) \/ ResolveMappingErrors(a)
    BY <2>3, <2>6, MappingLists
  <2> QED BY <2>1, <2>2, <2>4, <2>5, <2>6 DEF Next
<1>3. TypeInv /\ ListInv => FailedIsListed
  BY DEF ListInv, FailedHolds, Listing, FailedIsListed
<1> QED BY <1>1, <1>2, <1>3, InitialTypes, TypesStep, PTL DEF Spec
=============================================================================
