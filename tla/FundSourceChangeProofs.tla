----------------------- MODULE FundSourceChangeProofs -----------------------
(***************************************************************************)
(* Machine-checked proofs about FundSourceChange, for any report, any      *)
(* number of exports, changes and repetitions, and every grouping.         *)
(*                                                                         *)
(* Types hold, and posted exports are kept, whatever handlers do beside    *)
(* each other. The rest is proved for handlers that run one after the      *)
(* other, and needs more than itself: what a handler has read is still so  *)
(* (HandlerHolds), and an expense whose fund source is ahead of its export *)
(* is in a change that somebody is still to handle (Remembered). From both *)
(* follows that the module implements GroupOnce.                           *)
(***************************************************************************)
EXTENDS FundSourceChange, TLAPS

(* Handlers run one after the other: the worker of the queue is alone. *)
OneHandler == \A g, h \in Handlers : g = h

Open(r) == row[r].status \notin {"NONE", "COMPLETE"}

(* An id is free, or names expenses. *)
RowsHold ==
    \A r \in Rows : IF row[r].status = "NONE" THEN row[r] = NoRow ELSE row[r].of # {}

(* What a change says of its expenses: each is listed under a fund source the
   filter asks for. *)
Covers(change) ==
    /\ change.flip \subseteq change.changed
    /\ \A x \in change.changed : \E f \in change.keys : x \in change.of[f]

(* A handler that has read the affected exports has read every one that is still
   open, and of each the expenses that still match: statuses move on under it,
   expenses do not. *)
HandlerHolds(s) ==
    /\ s.pc = "idle" => s = IdleHandler
    /\ s.pc # "read" => s.copies = {} /\ s.change.flip = {}
    /\ Covers(s.change)
    /\ s.pc = "read" =>
         /\ Affected(s.change) \subseteq {copy.r : copy \in s.copies}
         /\ \A copy \in s.copies : copy.of = Matching(copy.r, s.change)

ScheduleHolds ==
    \A entry \in schedule : Covers(entry.change) /\ entry.change.flip = {}

(* Somebody is still to regroup x, or never will. *)
Remembered(x) ==
    \/ x \in refused
    \/ \E entry \in schedule : x \in entry.change.changed
    \/ \E h \in Handlers : x \in handler[h].change.changed

(* FundsAgree for the exports in Sage's hands, too: they may fail. *)
OpenAgree ==
    \A r \in Rows : Open(r) => \A x \in row[r].of : fund[x] = row[r].fund \/ Remembered(x)

Inv ==
    /\ RowsHold
    /\ \A h \in Handlers : HandlerHolds(handler[h])
    /\ ScheduleHolds
    /\ InOneExport
    /\ OpenAgree
    /\ GroupedAsSet
----------------------------------------------------------------------------
(* Types *)

HandlerState == [pc : {"idle", "saved", "read"}, change : Change, copies : SUBSET Copies]
RowState == [status : Statuses \cup {"NONE"}, fund : Funds, of : SUBSET Expenses]

(* The initial values are of their types. *)
LEMMA Defaults == NoRow \in RowState /\ NoChange \in Change /\ IdleHandler \in HandlerState
<1>1. NoRow \in RowState
  BY DEF NoRow, RowState, Funds
<1>2. NoChange \in Change
  BY DEF NoChange, Change
<1>3. QED
  BY <1>1, <1>2 DEF IdleHandler, HandlerState

(* A change of fund source goes to the other one. *)
LEMMA FlippedType ==
    ASSUME TypeOK, NEW S PROVE Flipped(S) \in [Expenses -> Funds]
BY DEF TypeOK, Flipped, Other, Funds

(* What matches of an export are expenses of it. *)
LEMMA MatchingInRow ==
    ASSUME NEW r \in Rows, NEW change PROVE Matching(r, change) \subseteq row[r].of
BY DEF Matching

(* The read of the affected exports gives a well-typed handler. *)
LEMMA ReadAffectedType ==
    ASSUME TypeOK, NEW h \in Handlers, NEW change \in Change, ReadAffected(h, change)
    PROVE  handler' \in [Handlers -> HandlerState]
<1>1. handler \in [Handlers -> HandlerState]
  BY DEF TypeOK, HandlerState
<1>2. CASE Affected(change) = {}
  BY <1>1, <1>2, Defaults DEF ReadAffected
<1>3. CASE Affected(change) # {}
  <2> DEFINE copies == {[r |-> r, status |-> row[r].status, of |-> Matching(r, change)] :
                          r \in Affected(change)}
  <2>1. ASSUME NEW r \in Affected(change)
        PROVE  [r |-> r, status |-> row[r].status, of |-> Matching(r, change)] \in Copies
    <3>1. r \in Rows /\ row[r].status \in Statuses /\ row[r].of \subseteq Expenses
      BY DEF Affected, TypeOK
    <3>2. QED
      BY <3>1, MatchingInRow DEF Copies
  <2>2. copies \subseteq Copies
    BY <2>1
  <2>3. [pc |-> "read", change |-> change, copies |-> copies] \in HandlerState
    BY <2>2 DEF HandlerState
  <2>4. handler' = [handler EXCEPT ![h] = [pc |-> "read", change |-> change, copies |-> copies]]
    BY <1>3 DEF ReadAffected
  <2>5. QED
    BY <1>1, <2>3, <2>4
<1>4. QED
  BY <1>2, <1>3

(* The groups made anew: expenses to recreate, under the fund source they have
   now, all of them or one by one. *)
LEMMA NewGroup ==
    ASSUME NEW h \in Handlers, NEW g \in NewGroups(h)
    PROVE  LET now == Flipped(handler[h].change.flip)
               T == {x \in Recreated(h) : now[x] = g[1]}
           IN /\ g = <<g[1], g[2]>>
              /\ g[1] \in exported
              /\ g[2] \subseteq T /\ g[2] # {}
              /\ grouping[g[1]] = "report" => g[2] = T
              /\ grouping[g[1]] # "report" => \E x \in T : g[2] = {x}
<1> DEFINE now == Flipped(handler[h].change.flip)
           T(f) == {x \in Recreated(h) : now[x] = f}
<1>1. PICK f \in exported : g \in {f} \X Groups(T(f), f)
  BY DEF NewGroups
<1>2. g[1] = f /\ g[2] \in Groups(T(f), f) /\ g = <<g[1], g[2]>>
  BY <1>1
<1>3. QED
  BY <1>2 DEF Groups

(* Two groups of one fund source are the same group if that is grouped by report,
   or an expense is in both. *)
LEMMA SameGroup ==
    ASSUME NEW h \in Handlers, NEW g \in NewGroups(h), NEW k \in NewGroups(h), g[1] = k[1],
           grouping[g[1]] = "report" \/ g[2] \cap k[2] # {}
    PROVE  g = k
<1> DEFINE now == Flipped(handler[h].change.flip)
           T(f) == {x \in Recreated(h) : now[x] = f}
<1>1. /\ g = <<g[1], g[2]>>
      /\ grouping[g[1]] = "report" => g[2] = T(g[1])
      /\ grouping[g[1]] # "report" => \E x : g[2] = {x}
  BY NewGroup
<1>2. /\ k = <<k[1], k[2]>>
      /\ grouping[k[1]] = "report" => k[2] = T(k[1])
      /\ grouping[k[1]] # "report" => \E x : k[2] = {x}
  BY NewGroup
<1> HIDE DEF T
<1>3. CASE grouping[g[1]] = "report"
  <2>1. g[2] = T(g[1]) /\ k[2] = T(k[1])
    BY <1>1, <1>2, <1>3
  <2>2. g[2] = k[2]
    BY <2>1
  <2>3. QED
    BY <1>1, <1>2, <2>2
<1>4. CASE grouping[g[1]] # "report"
  <2>1. g[2] = k[2]
    BY <1>1, <1>2, <1>4
  <2>2. QED
    BY <1>1, <1>2, <2>1
<1>5. QED
  BY <1>3, <1>4

(* After the rows are made anew each is one of the new groups, deleted, or as it
   was; a group has one row. *)
LEMMA RecreatedRows ==
    ASSUME NEW h \in Handlers, Recreate(h)
    PROVE  \E new \in [NewGroups(h) -> Free(h)] : \A r \in Rows :
              \/ \E g \in NewGroups(h) :
                   /\ new[g] = r
                   /\ r \in Free(h)
                   /\ row'[r] = [status |-> "EXPORT_READY", fund |-> g[1], of |-> g[2]]
              \/ r \in Processed(h) /\ row'[r] = NoRow
              \/ r \notin Processed(h) /\ row'[r] = row[r]
<1>1. PICK new \in [NewGroups(h) -> Free(h)] :
        row' = [r \in Rows |->
               IF \E g \in NewGroups(h) : new[g] = r
               THEN LET g == CHOOSE g \in NewGroups(h) : new[g] = r
                    IN [status |-> "EXPORT_READY", fund |-> g[1], of |-> g[2]]
               ELSE IF r \in Processed(h) THEN NoRow ELSE row[r]]
  BY DEF Recreate
<1>2. ASSUME NEW r \in Rows, NEW g0 \in NewGroups(h), new[g0] = r
      PROVE  \E g \in NewGroups(h) :
                   /\ new[g] = r
                   /\ r \in Free(h)
                   /\ row'[r] = [status |-> "EXPORT_READY", fund |-> g[1], of |-> g[2]]
  <2>1. PICK g : g = CHOOSE k \in NewGroups(h) : new[k] = r
    OBVIOUS
  <2>2. g \in NewGroups(h) /\ new[g] = r
    BY <1>2, <2>1
  <2>3. row'[r] = [status |-> "EXPORT_READY", fund |-> g[1], of |-> g[2]]
    BY <1>1, <1>2, <2>1
  <2>4. QED
    BY <2>2, <2>3
<1>3. ASSUME NEW r \in Rows, ~ \E g \in NewGroups(h) : new[g] = r
      PROVE  row'[r] = IF r \in Processed(h) THEN NoRow ELSE row[r]
  BY <1>1, <1>3
<1>4. QED
  BY <1>2, <1>3

(* Exports, changes, the schedule and the handlers keep their types, for any number
   of each. *)
THEOREM TypeCorrect == Spec => []TypeOK
<1>1. Init => TypeOK
  <2> SUFFICES ASSUME Init PROVE TypeOK
    OBVIOUS
  <2>1. grouping \in Groupings /\ exported \in SUBSET Funds /\ fund \in [Expenses -> Funds]
    BY DEF Init
  <2>2. row \in [Rows -> RowState]
    <3>1. [status : {"EXPORT_READY"}, fund : exported, of : (SUBSET Expenses) \ {{}}] \subseteq RowState
      BY <2>1 DEF RowState, Statuses
    <3>2. QED
      BY <3>1, Defaults DEF Init
  <2>3. handler \in [Handlers -> HandlerState]
    BY Defaults DEF Init
  <2>4. changes \in 0..MaxChanges
    <3>1. changes = 0
      BY DEF Init
    <3>2. QED
      BY <3>1, BoundsAssumption
  <2>5. QED
    BY <2>1, <2>2, <2>3, <2>4 DEF Init, TypeOK, RowState, HandlerState
<1>2. TypeOK /\ [Next]_vars => TypeOK'
  <2> SUFFICES ASSUME TypeOK, [Next]_vars PROVE TypeOK'
    OBVIOUS
  <2>h. handler \in [Handlers -> HandlerState] /\ \A h \in Handlers : handler[h] \in HandlerState
    BY DEF TypeOK, HandlerState
  <2>r. row \in [Rows -> RowState]
    BY DEF TypeOK, RowState
  <2>t. /\ handler' \in [Handlers -> HandlerState] => handler' \in [Handlers -> [pc : {"idle", "saved", "read"}, change : Change, copies : SUBSET Copies]]
        /\ row' \in [Rows -> RowState] => row' \in [Rows -> [status : Statuses \cup {"NONE"}, fund : Funds, of : SUBSET Expenses]]
    BY DEF HandlerState, RowState
  <2>c. ASSUME changes < MaxChanges PROVE changes + 1 \in 0..MaxChanges
    <3>1. changes \in 0..MaxChanges
      BY DEF TypeOK
    <3>2. QED
      BY <2>c, <3>1, BoundsAssumption
  <2>1. ASSUME NEW h \in Handlers, NEW x \in Expenses, SaveFundSource(h, x) PROVE TypeOK'
    <3> DEFINE change == [changed |-> {x}, keys |-> {fund[x]},
                          of |-> [f \in Funds |-> IF f = fund[x] THEN {x} ELSE {}],
                          flip |-> {}, retry |-> FALSE]
    <3>1. change \in Change
      BY DEF Change, TypeOK
    <3>2. [pc |-> "saved", copies |-> {}, change |-> change] \in HandlerState
      BY <3>1 DEF HandlerState
    <3>3. handler' \in [Handlers -> HandlerState]
      BY <2>1, <2>h, <3>2 DEF SaveFundSource
    <3>4. QED
      BY <2>1, <2>t, <2>c, <3>3, FlippedType DEF SaveFundSource, TypeOK
  <2>2. ASSUME NEW h \in Handlers, HandleSaved(h) PROVE TypeOK'
    <3>1. handler[h].change \in Change
      BY <2>h DEF HandlerState
    <3>2. QED
      BY <2>2, <2>t, <3>1, ReadAffectedType DEF HandleSaved, TypeOK
  <2>3. ASSUME NEW h \in Handlers, NEW S \in SUBSET Expenses, ImportFundSources(h, S) PROVE TypeOK'
    <3> DEFINE change == [changed |-> S, keys |-> Funds,
                          of |-> [f \in Funds |-> {x \in S : fund[x] = f}],
                          flip |-> S, retry |-> FALSE]
    <3>1. change \in Change
      BY DEF Change
    <3>2. ReadAffected(h, change) /\ fund' \in {Flipped(S), fund}
      BY <2>3 DEF ImportFundSources
    <3>3. handler' \in [Handlers -> HandlerState]
      BY <3>1, <3>2, ReadAffectedType
    <3>4. fund' \in [Expenses -> Funds]
      BY <3>2, FlippedType DEF TypeOK
    <3>5. QED
      BY <2>3, <2>t, <2>c, <3>3, <3>4 DEF ImportFundSources, TypeOK
  <2>4. ASSUME NEW h \in Handlers, NEW entry \in schedule, RunRetry(h, entry) PROVE TypeOK'
    <3>1. entry \in [change : Change, left : 0..Repeats]
      BY DEF TypeOK
    <3>2. [entry EXCEPT !.left = entry.left - 1] \in [change : Change, left : 0..Repeats]
      <4>1. entry.left - 1 \in 0..Repeats
        BY <2>4, <3>1, BoundsAssumption DEF RunRetry
      <4>2. QED
        BY <3>1, <4>1
    <3>3. schedule' \subseteq [change : Change, left : 0..Repeats]
      BY <2>4, <3>2 DEF RunRetry, TypeOK
    <3>4. QED
      BY <2>4, <2>t, <3>1, <3>3, ReadAffectedType DEF RunRetry, TypeOK
  <2>5. ASSUME NEW h \in Handlers, Commit(h) PROVE TypeOK'
    <3>1. handler' \in [Handlers -> HandlerState] /\ fund' \in [Expenses -> Funds]
      BY <2>5, <2>h, Defaults, FlippedType DEF Commit
    <3>2. CASE Recreate(h)
      <4>1. ASSUME NEW g \in NewGroups(h)
            PROVE  [status |-> "EXPORT_READY", fund |-> g[1], of |-> g[2]] \in RowState
        <5>1. g[1] \in Funds
          BY NewGroup DEF TypeOK
        <5>2. g[2] \subseteq Expenses
          <6>1. \A copy \in handler[h].copies : copy.of \subseteq Expenses
            BY <2>h DEF HandlerState, Copies
          <6>2. Recreated(h) \subseteq Expenses
            BY <6>1 DEF Recreated
          <6>3. QED
            BY <6>2, NewGroup
        <5>3. QED
          BY <5>1, <5>2 DEF RowState, Statuses
      <4>2. \A r \in Rows : row'[r] \in RowState
        BY <3>2, <4>1, <2>r, Defaults, RecreatedRows
      <4>3. row' = [r \in Rows |-> row'[r]]
        BY <3>2 DEF Recreate
      <4>4. row' \in [Rows -> RowState]
        BY <4>2, <4>3
      <4>5. Recreated(h) \subseteq Expenses
        BY <2>h DEF Recreated, HandlerState, Copies
      <4>6. skipped' \subseteq Expenses /\ schedule' \subseteq schedule
        BY <3>2, <4>5 DEF Recreate, TypeOK
      <4>7. QED
        BY <2>5, <2>t, <3>1, <4>4, <4>6 DEF Commit, TypeOK
    <3>3. CASE Postpone(h)
      <4>1. row' \in [Rows -> RowState]
        BY <3>3, <2>r, Defaults DEF Postpone
      <4>2. [handler[h].change EXCEPT !.flip = {}, !.retry = TRUE] \in Change
        BY <2>h DEF HandlerState, Change
      <4>3. [change |-> [handler[h].change EXCEPT !.flip = {}, !.retry = TRUE], left |-> Repeats]
               \in [change : Change, left : 0..Repeats]
        BY <4>2, BoundsAssumption
      <4>4. schedule' \subseteq [change : Change, left : 0..Repeats]
        BY <3>3, <4>3 DEF Postpone, TypeOK
      <4>5. QED
        BY <2>5, <2>t, <3>1, <3>3, <4>1, <4>4 DEF Commit, Postpone, TypeOK
    <3>4. QED
      BY <2>5, <3>2, <3>3 DEF Commit
  <2>6. ASSUME NEW h \in Handlers, RollBack(h) PROVE TypeOK'
    <3>1. handler' \in [Handlers -> HandlerState] /\ fund' \in [Expenses -> Funds]
      BY <2>6, <2>h, Defaults, FlippedType DEF RollBack
    <3>2. handler[h].change.changed \subseteq Expenses
      BY <2>h DEF HandlerState, Change
    <3>3. QED
      BY <2>6, <2>t, <3>1, <3>2 DEF RollBack, TypeOK
  <2>7. ASSUME NEW r \in Rows, NEW from, NEW status \in Statuses, SetStatus(r, from, status)
        PROVE  TypeOK'
    <3>1. [row[r] EXCEPT !.status = status] \in RowState
      BY <2>r DEF RowState
    <3>2. row' \in [Rows -> RowState]
      BY <2>7, <2>r, <3>1 DEF SetStatus
    <3>3. QED
      BY <2>7, <2>t, <3>2 DEF SetStatus, TypeOK
  <2>8. CASE UNCHANGED vars
    BY <2>8 DEF vars, TypeOK
  <2>9. ASSUME NEW r \in Rows, Enqueue(r) \/ Post(r) \/ Complete(r) \/ Fail(r)
        PROVE  \E from : \E status \in Statuses : SetStatus(r, from, status)
    BY <2>9 DEF Enqueue, Post, Complete, Fail, Statuses
  <2>10. QED
    BY <2>1, <2>2, <2>3, <2>4, <2>5, <2>6, <2>7, <2>8, <2>9 DEF Next
<1>3. QED
  BY <1>1, <1>2, PTL DEF Spec
----------------------------------------------------------------------------
(* The rows a Sage document was made from are never deleted or changed, however
   many handlers act on statuses they read before the document was there. *)
THEOREM PostedAlwaysKept == Spec => PostedIsKept
<1> DEFINE Kept == \A r \in Rows : row[r].status \in {"EXPORT_QUEUED", "COMPLETE"} =>
                                     row'[r].of = row[r].of
<1>1. TypeOK /\ [Next]_vars => Kept
  <2> SUFFICES ASSUME TypeOK, [Next]_vars, NEW r \in Rows,
                      row[r].status \in {"EXPORT_QUEUED", "COMPLETE"}
               PROVE  row'[r].of = row[r].of
    OBVIOUS
  <2>1. ASSUME NEW h \in Handlers, Commit(h) PROVE row'[r].of = row[r].of
    <3>1. r \notin Processed(h)
      BY <2>1 DEF Commit, Protected
    <3>2. r \notin Free(h)
      BY <3>1 DEF Free, NoRow
    <3>3. CASE Recreate(h)
      BY <3>1, <3>2, <3>3, RecreatedRows
    <3>4. CASE Postpone(h)
      BY <3>1, <3>4 DEF Postpone
    <3>5. QED
      BY <2>1, <3>3, <3>4 DEF Commit
  <2>2. ASSUME NEW s \in Rows, NEW from, NEW status, SetStatus(s, from, status)
        PROVE  row'[r].of = row[r].of
    <3>1. row \in [Rows -> RowState]
      BY DEF TypeOK, RowState
    <3>2. row'[r] = row[r] \/ row'[r] = [row[r] EXCEPT !.status = status]
      BY <2>2, <3>1 DEF SetStatus
    <3>3. [row[r] EXCEPT !.status = status].of = row[r].of
      BY <3>1 DEF RowState
    <3>4. QED
      BY <3>2, <3>3
  <2>3. \/ row' = row
        \/ \E h \in Handlers : Commit(h)
        \/ \E s \in Rows : \E from : \E status : SetStatus(s, from, status)
    BY DEF Next, SaveFundSource, HandleSaved, ImportFundSources, RunRetry, RollBack, vars,
           Enqueue, Post, Complete, Fail
  <2>4. QED
    BY <2>1, <2>2, <2>3
<1>2. QED
  BY <1>1, TypeCorrect, PTL DEF Spec, PostedIsKept
----------------------------------------------------------------------------
(* An export that holds an expense of the change matches it, whatever the export
   settings group by. *)
LEMMA CoveredMatches ==
    ASSUME TypeOK, NEW change \in Change, Covers(change), NEW r \in Rows,
           NEW x \in row[r].of, x \in change.changed
    PROVE  Matching(r, change) # {}
<1>1. PICK f \in change.keys : x \in change.of[f]
  BY DEF Covers
<1> DEFINE whole(k) == row[r].fund = IF grouping["PERSONAL"] = "report" THEN k ELSE Other(k)
           part(k) == IF whole(k) THEN row[r].of ELSE row[r].of \cap change.of[k]
<1>2. x \in UNION {part(k) : k \in change.keys}
  BY <1>1
<1>3. QED
  BY <1>2 DEF Matching

(* What a handler holds survives every step of the exports: their expenses and
   fund sources stay, and no closed one opens. *)
LEMMA HandlerUndisturbed ==
    ASSUME NEW s \in HandlerState, HandlerHolds(s), grouping' = grouping,
           \A r \in Rows : /\ row'[r].of = row[r].of
                           /\ row'[r].fund = row[r].fund
                           /\ row[r].status \in {"NONE", "COMPLETE"} =>
                                row'[r].status \in {"NONE", "COMPLETE"}
    PROVE  HandlerHolds(s)'
<1>1. ASSUME NEW r \in Rows PROVE Matching(r, s.change)' = Matching(r, s.change)
  BY DEF Matching
<1>2. Affected(s.change)' \subseteq Affected(s.change)
  BY <1>1 DEF Affected
<1>3. \A copy \in s.copies : copy.r \in Rows
  BY DEF HandlerState, Copies
<1>4. s.pc = "read" => /\ Affected(s.change)' \subseteq {copy.r : copy \in s.copies}
                       /\ \A copy \in s.copies : copy.of = Matching(copy.r, s.change)'
  BY <1>1, <1>2, <1>3 DEF HandlerHolds
<1>5. QED
  BY <1>4 DEF HandlerHolds, Covers

(* The read of the affected exports: the handler knows them all, or there is none
   and it is done. *)
LEMMA ReadAffectedHolds ==
    ASSUME TypeOK, NEW h \in Handlers, NEW change \in Change, Covers(change),
           ReadAffected(h, change), row' = row, grouping' = grouping,
           NEW s, s = handler'[h]
    PROVE  /\ HandlerHolds(s)'
           /\ \A g \in Handlers \ {h} : handler'[g] = handler[g]
           /\ \/ Affected(change) = {} /\ s = IdleHandler
              \/ s.change = change
<1>h. handler \in [Handlers -> HandlerState]
  BY DEF TypeOK, HandlerState
<1>1. CASE Affected(change) = {}
  <2>1. s = IdleHandler /\ \A g \in Handlers \ {h} : handler'[g] = handler[g]
    BY <1>1, <1>h DEF ReadAffected
  <2>2. QED
    BY <1>1, <2>1 DEF HandlerHolds, IdleHandler, NoChange, Covers
<1>2. CASE Affected(change) # {}
  <2> DEFINE copies == {[r |-> r, status |-> row[r].status, of |-> Matching(r, change)] :
                          r \in Affected(change)}
  <2>1. s = [pc |-> "read", change |-> change, copies |-> copies]
        /\ \A g \in Handlers \ {h} : handler'[g] = handler[g]
    BY <1>2, <1>h DEF ReadAffected
  <2>2. s.pc = "read" /\ s.change = change /\ s.copies = copies
    BY <2>1
  <2>3. \A r \in Rows : Matching(r, change)' = Matching(r, change)
    BY DEF Matching
  <2>4. Affected(change)' = Affected(change) /\ Affected(change) \subseteq Rows
    BY <2>3 DEF Affected
  <2>5. Affected(change)' \subseteq {copy.r : copy \in s.copies}
    <3>1. ASSUME NEW r \in Affected(change) PROVE r \in {copy.r : copy \in s.copies}
      <4>1. PICK copy \in s.copies : copy = [r |-> r, status |-> row[r].status, of |-> Matching(r, change)]
        BY <2>2
      <4>2. copy.r = r
        BY <4>1
      <4>3. QED
        BY <4>2
    <3>2. QED
      BY <2>4, <3>1
  <2>6. \A copy \in s.copies : copy.of = Matching(copy.r, change)'
    BY <2>2, <2>3, <2>4
  <2>7. QED
    BY <2>1, <2>2, <2>5, <2>6 DEF HandlerHolds, Covers
<1>3. QED
  BY <1>1, <1>2

(* A step that leaves the exports alone keeps what is said of them. *)
LEMMA RowsUndisturbed ==
    ASSUME Inv, row' = row, grouping' = grouping
    PROVE  RowsHold' /\ InOneExport' /\ GroupedAsSet'
BY DEF Inv, RowsHold, InOneExport, Containing, GroupedAsSet

(* Every expense that is to be regrouped leaves one export, which is deleted. *)
LEMMA RecreatedWasDeleted ==
    ASSUME TypeOK, Inv, NEW h \in Handlers, handler[h].pc = "read", AllProcessed(h),
           NEW x \in Recreated(h), NEW r \in Rows, x \in row[r].of
    PROVE  r \in Processed(h)
<1>1. HandlerHolds(handler[h]) /\ handler[h] \in HandlerState
  BY DEF Inv, TypeOK, HandlerState
<1>2. PICK copy \in handler[h].copies : x \in copy.of
  BY DEF Recreated
<1>3. copy.r \in Rows /\ copy.of = Matching(copy.r, handler[h].change)
  BY <1>1 DEF HandlerHolds, HandlerState, Copies
<1>4. x \in row[copy.r].of
  BY <1>2, <1>3, MatchingInRow
<1>5. x \in Expenses
  BY DEF TypeOK
<1>6. r = copy.r
  BY <1>3, <1>4, <1>5 DEF Inv, InOneExport, Containing
<1>7. copy.r \in Processed(h)
  BY DEF Processed, AllProcessed
<1>8. QED
  BY <1>6, <1>7

(* An open export that a handler with only free exports has not read does not hold
   an expense of its change. *)
LEMMA UnreadIsUntouched ==
    ASSUME TypeOK, Inv, NEW h \in Handlers, handler[h].pc = "read", AllProcessed(h),
           NEW r \in Rows, Open(r), r \notin Processed(h)
    PROVE  Matching(r, handler[h].change) = {} /\ row[r].of \cap handler[h].change.changed = {}
<1>1. HandlerHolds(handler[h]) /\ handler[h] \in HandlerState
  BY DEF Inv, TypeOK, HandlerState
<1>2. r \notin {copy.r : copy \in handler[h].copies}
  BY DEF Processed, AllProcessed
<1>3. r \notin Affected(handler[h].change)
  BY <1>1, <1>2 DEF HandlerHolds
<1>4. Matching(r, handler[h].change) = {}
  BY <1>3 DEF Affected, Open
<1>5. handler[h].change \in Change /\ Covers(handler[h].change)
  BY <1>1 DEF HandlerState, HandlerHolds
<1>6. QED
  BY <1>4, <1>5, CoveredMatches

(* When a handler makes the rows anew: an expense enters no second export. *)
LEMMA RecreateInOneExport ==
    ASSUME TypeOK, Inv, NEW h \in Handlers, handler[h].pc = "read", Recreate(h)
    PROVE  InOneExport'
<1> DEFINE now == Flipped(handler[h].change.flip)
           New(r, g) == row'[r] = [status |-> "EXPORT_READY", fund |-> g[1], of |-> g[2]]
<1>a. AllProcessed(h)
  BY DEF Recreate
<1>1. PICK new \in [NewGroups(h) -> Free(h)] : \A r \in Rows :
              \/ \E g \in NewGroups(h) : new[g] = r /\ r \in Free(h) /\ New(r, g)
              \/ r \in Processed(h) /\ row'[r] = NoRow
              \/ r \notin Processed(h) /\ row'[r] = row[r]
  BY RecreatedRows
<1> SUFFICES ASSUME NEW x \in Expenses, NEW r \in Rows, NEW s \in Rows,
                    x \in row'[r].of, x \in row'[s].of
             PROVE  r = s
  BY DEF InOneExport, Containing
<1>2. \A q \in Rows : row'[q] = NoRow => x \notin row'[q].of
  BY DEF NoRow
<1>3. ASSUME NEW q \in Rows, NEW g \in NewGroups(h), New(q, g), x \in row'[q].of
      PROVE  x \in Recreated(h) /\ now[x] = g[1] /\ x \in g[2]
  <2>1. x \in g[2]
    BY <1>3
  <2>2. QED
    BY <2>1, NewGroup
<1>4. ASSUME NEW g \in NewGroups(h), NEW k \in NewGroups(h), x \in g[2], x \in k[2],
             now[x] = g[1], now[x] = k[1]
      PROVE  g = k
  BY <1>4, SameGroup
<1>5. ASSUME NEW p \in Rows, NEW q \in Rows, NEW g \in NewGroups(h), New(p, g), x \in row'[p].of,
             q \notin Processed(h), row'[q] = row[q], x \in row'[q].of
      PROVE  FALSE
  <2>1. x \in Recreated(h)
    BY <1>5, <1>3
  <2>2. QED
    BY <1>5, <1>a, <2>1, RecreatedWasDeleted
<1>6. CASE \E g \in NewGroups(h) : new[g] = r /\ New(r, g)
  <2>1. PICK g \in NewGroups(h) : new[g] = r /\ New(r, g)
    BY <1>6
  <2>2. ASSUME NEW k \in NewGroups(h), new[k] = s, New(s, k) PROVE r = s
    BY <1>3, <1>4, <2>1, <2>2
  <2>3. QED
    BY <1>1, <1>2, <1>5, <2>1, <2>2
<1>7. CASE r \notin Processed(h) /\ row'[r] = row[r]
  <2>1. ASSUME s \notin Processed(h), row'[s] = row[s] PROVE r = s
    BY <1>7, <2>1 DEF Inv, InOneExport, Containing
  <2>2. QED
    BY <1>1, <1>2, <1>5, <1>7, <2>1
<1>8. QED
  BY <1>1, <1>2, <1>6, <1>7

(* ... the groups are those of the export settings. *)
LEMMA RecreateGroupedAsSet ==
    ASSUME TypeOK, Inv, NEW h \in Handlers, handler[h].pc = "read", Recreate(h), grouping' = grouping
    PROVE  GroupedAsSet'
<1> DEFINE New(r, g) == row'[r] = [status |-> "EXPORT_READY", fund |-> g[1], of |-> g[2]]
<1>a. AllProcessed(h)
  BY DEF Recreate
<1>1. PICK new \in [NewGroups(h) -> Free(h)] : \A r \in Rows :
              \/ \E g \in NewGroups(h) : new[g] = r /\ r \in Free(h) /\ New(r, g)
              \/ r \in Processed(h) /\ row'[r] = NoRow
              \/ r \notin Processed(h) /\ row'[r] = row[r]
  BY RecreatedRows
<1>f. exported \subseteq Funds
  BY DEF TypeOK
<1>2. ASSUME NEW r \in Rows, grouping = [f \in Funds |-> "expense"],
             NEW x \in row'[r].of, NEW y \in row'[r].of
      PROVE  x = y
  <2>1. ASSUME NEW g \in NewGroups(h), New(r, g) PROVE x = y
    <3>1. grouping[g[1]] # "report"
      BY <1>2, <1>f, NewGroup
    <3>2. \E z : g[2] = {z}
      BY <3>1, NewGroup
    <3>3. QED
      BY <2>1, <3>2
  <2>2. CASE row'[r] = row[r]
    BY <1>2, <2>2 DEF Inv, GroupedAsSet
  <2>3. CASE row'[r] = NoRow
    BY <2>3 DEF NoRow
  <2>4. QED
    BY <1>1, <2>1, <2>2, <2>3
<1>3. ASSUME NEW r \in Rows, NEW s \in Rows, grouping = [f \in Funds |-> "report"],
             {row'[r].status, row'[s].status} \cap {"NONE", "COMPLETE"} = {},
             row'[r].fund = row'[s].fund
      PROVE  r = s
  <2>1. ASSUME NEW q \in Rows, row'[q].status \notin {"NONE", "COMPLETE"}
        PROVE  \E g \in NewGroups(h) : new[g] = q /\ New(q, g)
    <3>1. row'[q] # NoRow
      BY <2>1 DEF NoRow
    <3>2. ASSUME q \notin Processed(h), row'[q] = row[q] PROVE FALSE
      <4>1. Open(q) /\ row[q].of # {}
        BY <2>1, <3>2 DEF Open, Inv, RowsHold
      <4>2. Matching(q, handler[h].change) = row[q].of
        BY <1>3 DEF Matching, Funds
      <4>3. QED
        BY <1>a, <3>2, <4>1, <4>2, UnreadIsUntouched
    <3>3. QED
      BY <1>1, <3>1, <3>2
  <2>2. PICK g \in NewGroups(h) : new[g] = r /\ New(r, g)
    BY <1>3, <2>1
  <2>3. PICK k \in NewGroups(h) : new[k] = s /\ New(s, k)
    BY <1>3, <2>1
  <2>4. g[1] = k[1]
    BY <1>3, <2>2, <2>3
  <2>5. grouping[g[1]] = "report"
    BY <1>3, <1>f, NewGroup
  <2>6. g = k
    BY <2>4, <2>5, SameGroup
  <2>7. QED
    BY <2>2, <2>3, <2>6
<1>4. QED
  BY <1>2, <1>3 DEF GroupedAsSet

(* ... and the new exports, and the open ones that stay, agree with the fund
   sources that are saved with them. *)
LEMMA RecreateAgrees ==
    ASSUME TypeOK, Inv, OneHandler, NEW h \in Handlers, handler[h].pc = "read",
           Recreate(h), fund' = Flipped(handler[h].change.flip), refused' = refused
    PROVE  OpenAgree'
<1> DEFINE New(r, g) == row'[r] = [status |-> "EXPORT_READY", fund |-> g[1], of |-> g[2]]
<1>a. AllProcessed(h)
  BY DEF Recreate
<1>h. handler[h] \in HandlerState /\ HandlerHolds(handler[h])
  BY DEF TypeOK, Inv, HandlerState
<1> SUFFICES ASSUME NEW r \in Rows, Open(r)', NEW x \in row'[r].of
             PROVE  fund'[x] = row'[r].fund \/ Remembered(x)'
  BY DEF OpenAgree
<1>1. ASSUME NEW g \in NewGroups(h), New(r, g) PROVE fund'[x] = row'[r].fund
  <2>1. x \in g[2] /\ row'[r].fund = g[1]
    BY <1>1
  <2>2. QED
    BY <2>1, NewGroup
<1>2. ASSUME r \notin Processed(h), row'[r] = row[r]
      PROVE  fund'[x] = row'[r].fund \/ Remembered(x)'
  <2>1. Open(r) /\ x \in row[r].of /\ x \in Expenses
    BY <1>2 DEF Open, TypeOK
  <2>2. x \notin handler[h].change.changed
    BY <1>2, <1>a, <2>1, UnreadIsUntouched
  <2>3. fund'[x] = fund[x]
    BY <2>1, <2>2, <1>h DEF Flipped, HandlerHolds, Covers
  <2>4. fund[x] = row[r].fund \/ Remembered(x)
    BY <2>1 DEF Inv, OpenAgree
  <2>5. Remembered(x) => Remembered(x)'
    <3>1. ASSUME NEW entry \in schedule, x \in entry.change.changed
          PROVE  entry \in schedule'
      BY <2>2, <3>1 DEF Recreate
    <3>2. ~ \E g \in Handlers : x \in handler[g].change.changed
      BY <2>2 DEF OneHandler
    <3>3. QED
      BY <3>1, <3>2 DEF Remembered
  <2>6. QED
    BY <1>2, <2>3, <2>4, <2>5
<1>3. row'[r] # NoRow
  BY DEF Open, NoRow
<1>4. QED
  BY <1>1, <1>2, <1>3, RecreatedRows

(* When a handler makes the rows anew an id is free again or names expenses. *)
LEMMA RecreateRowsHold ==
    ASSUME Inv, NEW h \in Handlers, Recreate(h) PROVE RowsHold'
<1> SUFFICES ASSUME NEW r \in Rows
             PROVE  IF row'[r].status = "NONE" THEN row'[r] = NoRow ELSE row'[r].of # {}
  BY DEF RowsHold
<1>1. ASSUME NEW g \in NewGroups(h),
             row'[r] = [status |-> "EXPORT_READY", fund |-> g[1], of |-> g[2]]
      PROVE  row'[r].status # "NONE" /\ row'[r].of # {}
  BY <1>1, NewGroup
<1>2. row'[r] = row[r] => IF row'[r].status = "NONE" THEN row'[r] = NoRow ELSE row'[r].of # {}
  BY DEF Inv, RowsHold
<1>3. row'[r] = NoRow => row'[r].status = "NONE"
  BY DEF NoRow
<1>4. QED
  BY <1>1, <1>2, <1>3, RecreatedRows

(* A handler reads the affected exports, for expenses it or the schedule already
   remembered or that change in no export. *)
LEMMA ReadStep ==
    ASSUME TypeOK, Inv, NEW h \in Handlers, NEW change \in Change, Covers(change),
           ReadAffected(h, change), UNCHANGED <<row, grouping, refused>>,
           handler[h].change.changed \subseteq change.changed,
           \A entry \in schedule : \E e \in schedule' : e.change = entry.change,
           \A x \in Expenses : fund'[x] # fund[x] => Affected(change) = {} /\ x \in change.changed
    PROVE  OpenAgree' /\ \A g \in Handlers : HandlerHolds(handler[g])'
<1>h. \A g \in Handlers : handler[g] \in HandlerState /\ HandlerHolds(handler[g])
  BY DEF TypeOK, HandlerState, Inv
<1>1. PICK s : s = handler'[h]
  OBVIOUS
<1>2. /\ HandlerHolds(s)'
      /\ \A g \in Handlers \ {h} : handler'[g] = handler[g]
      /\ \/ Affected(change) = {} /\ s = IdleHandler
         \/ s.change = change
  BY <1>1, ReadAffectedHolds
<1>3. ASSUME NEW g \in Handlers PROVE HandlerHolds(handler[g])'
  <2>1. CASE g = h
    BY <1>1, <1>2, <2>1 DEF HandlerHolds
  <2>2. CASE g # h
    <3>1. PICK t \in HandlerState : t = handler[g] /\ HandlerHolds(t)
      BY <1>h
    <3>2. HandlerHolds(t)'
      BY <3>1, HandlerUndisturbed
    <3>3. t = handler'[g]
      BY <1>2, <2>2, <3>1
    <3>4. QED
      BY <3>2, <3>3 DEF HandlerHolds
  <2>3. QED
    BY <2>1, <2>2
<1>4. ASSUME NEW r \in Rows, Open(r), NEW x \in row[r].of
      PROVE  fund'[x] = row[r].fund \/ Remembered(x)'
  <2>1. x \in Expenses
    BY DEF TypeOK
  <2>2. x \in change.changed => Affected(change) # {}
    <3>1. x \in change.changed => Matching(r, change) # {}
      BY CoveredMatches
    <3>2. QED
      BY <1>4, <3>1 DEF Affected, Open
  <2>3. fund'[x] = fund[x]
    BY <2>1, <2>2
  <2>4. x \in change.changed => x \in handler'[h].change.changed
    BY <1>1, <1>2, <2>2
  <2>5. ASSUME NEW g \in Handlers, x \in handler[g].change.changed
        PROVE  \E k \in Handlers : x \in handler'[k].change.changed
    <3>1. CASE g = h
      BY <2>4, <2>5, <3>1
    <3>2. CASE g # h
      BY <1>2, <2>5, <3>2
    <3>3. QED
      BY <3>1, <3>2
  <2>6. (\E entry \in schedule : x \in entry.change.changed) =>
           \E entry \in schedule' : x \in entry.change.changed
    OBVIOUS
  <2>7. Remembered(x) => Remembered(x)'
    BY <2>5, <2>6 DEF Remembered
  <2>8. fund[x] = row[r].fund \/ Remembered(x)
    BY <1>4 DEF Inv, OpenAgree
  <2>9. QED
    BY <2>3, <2>7, <2>8
<1>5. OpenAgree'
  BY <1>4 DEF OpenAgree, Open
<1>6. QED
  BY <1>3, <1>5

(* A fund source is saved: the handler remembers the expense. *)
LEMMA SaveStep ==
    ASSUME TypeOK, Inv, NEW h \in Handlers, NEW x \in Expenses, SaveFundSource(h, x)
    PROVE  Inv'
<1>h. \A g \in Handlers : handler[g] \in HandlerState /\ HandlerHolds(handler[g])
  BY DEF TypeOK, HandlerState, Inv
<1> DEFINE change == [changed |-> {x}, keys |-> {fund[x]},
                      of |-> [f \in Funds |-> IF f = fund[x] THEN {x} ELSE {}],
                      flip |-> {}, retry |-> FALSE]
<1>1. handler[h] = IdleHandler
  BY <1>h DEF SaveFundSource, HandlerHolds
<1>s. PICK s : s = [pc |-> "saved", copies |-> {}, change |-> change]
  OBVIOUS
<1>2. handler'[h] = s /\ \A g \in Handlers \ {h} : handler'[g] = handler[g]
  BY <1>s DEF SaveFundSource, TypeOK
<1>3. HandlerHolds(s)'
  <2>1. fund[x] \in Funds
    BY DEF TypeOK
  <2>2. x \in change.of[fund[x]]
    BY <2>1
  <2>3. Covers(change)
    BY <2>2 DEF Covers
  <2>4. s.pc = "saved" /\ s.copies = {} /\ s.change.flip = {} /\ Covers(s.change)
    BY <1>s, <2>3
  <2>5. QED
    BY <2>4 DEF HandlerHolds, Covers
<1>4. ASSUME NEW g \in Handlers PROVE HandlerHolds(handler[g])'
  <2>1. CASE g = h
    BY <1>2, <1>3, <2>1 DEF HandlerHolds
  <2>2. CASE g # h
    <3>1. PICK t \in HandlerState : t = handler[g] /\ HandlerHolds(t)
      BY <1>h
    <3>2. HandlerHolds(t)'
      BY <3>1, HandlerUndisturbed DEF SaveFundSource
    <3>3. t = handler'[g]
      BY <1>2, <2>2, <3>1
    <3>4. QED
      BY <3>2, <3>3 DEF HandlerHolds
  <2>3. QED
    BY <2>1, <2>2
<1>5. OpenAgree'
  <2> SUFFICES ASSUME NEW r \in Rows, Open(r), NEW y \in row[r].of
               PROVE  fund'[y] = row[r].fund \/ Remembered(y)'
    BY DEF OpenAgree, Open, SaveFundSource
  <2>1. y \in Expenses
    BY DEF TypeOK
  <2>2. CASE y = x
    <3>1. x \in handler'[h].change.changed
      BY <1>s, <1>2
    <3>2. QED
      BY <2>2, <3>1 DEF Remembered
  <2>3. CASE y # x
    <3>1. fund'[y] = fund[y]
      BY <2>1, <2>3 DEF SaveFundSource, Flipped
    <3>2. fund[y] = row[r].fund \/ Remembered(y)
      BY DEF Inv, OpenAgree
    <3>3. y \notin handler[h].change.changed
      BY <1>1 DEF IdleHandler, NoChange
    <3>4. refused' = refused /\ schedule' = schedule
      BY DEF SaveFundSource
    <3>5. Remembered(y) => Remembered(y)'
      BY <1>2, <3>3, <3>4 DEF Remembered
    <3>6. QED
      BY <3>1, <3>2, <3>5
  <2>4. QED
    BY <2>2, <2>3
<1>6. RowsHold' /\ InOneExport' /\ GroupedAsSet'
  BY RowsUndisturbed DEF SaveFundSource
<1>7. ScheduleHolds'
  BY DEF SaveFundSource, Inv, ScheduleHolds, Covers
<1>8. QED
  BY <1>4, <1>5, <1>6, <1>7 DEF Inv

(* ... the worker handles the saved change. *)
LEMMA HandleSavedStep ==
    ASSUME TypeOK, Inv, NEW h \in Handlers, HandleSaved(h) PROVE Inv'
<1>1. PICK change : change = handler[h].change
  OBVIOUS
<1>2. change \in Change /\ Covers(change) /\ ReadAffected(h, change)
  <2>1. handler[h] \in HandlerState /\ HandlerHolds(handler[h])
    BY DEF TypeOK, HandlerState, Inv
  <2>2. QED
    BY <1>1, <2>1 DEF HandleSaved, HandlerState, HandlerHolds
<1>3. UNCHANGED <<row, grouping, refused, schedule, fund>>
  BY DEF HandleSaved
<1>4. OpenAgree' /\ \A g \in Handlers : HandlerHolds(handler[g])'
  BY <1>1, <1>2, <1>3, ReadStep
<1>5. ScheduleHolds'
  BY <1>3 DEF Inv, ScheduleHolds, Covers
<1>6. QED
  BY <1>3, <1>4, <1>5, RowsUndisturbed DEF Inv

(* ... an import saves changes, if no export is affected. *)
LEMMA ImportStep ==
    ASSUME TypeOK, Inv, NEW h \in Handlers, NEW S \in SUBSET Expenses, ImportFundSources(h, S)
    PROVE  Inv'
<1>1. PICK change : change = [changed |-> S, keys |-> Funds,
                              of |-> [f \in Funds |-> {x \in S : fund[x] = f}],
                              flip |-> S, retry |-> FALSE]
  OBVIOUS
<1>2. change \in Change /\ change.changed = S /\ change.flip = S
  BY <1>1 DEF Change
<1>3. Covers(change)
  <2>1. ASSUME NEW x \in S PROVE fund[x] \in change.keys /\ x \in change.of[fund[x]]
    BY <1>1 DEF TypeOK
  <2>2. QED
    BY <1>2, <2>1 DEF Covers
<1>4. /\ ReadAffected(h, change) /\ UNCHANGED <<row, grouping, refused, schedule>>
      /\ fund' = IF Affected(change) = {} THEN Flipped(S) ELSE fund
  BY <1>1 DEF ImportFundSources
<1>5. handler[h].change.changed = {}
  <2>1. handler[h].pc = "idle" /\ HandlerHolds(handler[h])
    BY DEF ImportFundSources, Inv
  <2>2. QED
    BY <2>1 DEF HandlerHolds, IdleHandler, NoChange
<1>6. \A x \in Expenses : fund'[x] # fund[x] => Affected(change) = {} /\ x \in change.changed
  BY <1>2, <1>4 DEF Flipped
<1>7. OpenAgree' /\ \A g \in Handlers : HandlerHolds(handler[g])'
  BY <1>2, <1>3, <1>4, <1>5, <1>6, ReadStep
<1>8. ScheduleHolds'
  BY <1>4 DEF Inv, ScheduleHolds, Covers
<1>9. QED
  BY <1>4, <1>7, <1>8, RowsUndisturbed DEF Inv

(* ... the schedule runs the task again. *)
LEMMA RetryStep ==
    ASSUME TypeOK, Inv, NEW h \in Handlers, NEW entry \in schedule, RunRetry(h, entry)
    PROVE  Inv'
<1>1. PICK change : change = entry.change
  OBVIOUS
<1>2. change \in Change /\ Covers(change) /\ change.flip = {} /\ ReadAffected(h, change)
  BY <1>1 DEF TypeOK, Inv, ScheduleHolds, RunRetry
<1>3. UNCHANGED <<row, grouping, refused, fund>>
  BY DEF RunRetry
<1>4. handler[h].change.changed = {}
  <2>1. handler[h].pc = "idle" /\ HandlerHolds(handler[h])
    BY DEF RunRetry, Inv
  <2>2. QED
    BY <2>1 DEF HandlerHolds, IdleHandler, NoChange
<1>5. PICK later : later = [entry EXCEPT !.left = entry.left - 1]
  OBVIOUS
<1>6. later.change = entry.change /\ schedule' = (schedule \ {entry}) \cup {later}
  BY <1>5 DEF RunRetry, TypeOK
<1>7. \A old \in schedule : \E e \in schedule' : e.change = old.change
  BY <1>6
<1>8. OpenAgree' /\ \A g \in Handlers : HandlerHolds(handler[g])'
  BY <1>2, <1>3, <1>4, <1>7, ReadStep
<1>9. ScheduleHolds'
  BY <1>6 DEF Inv, ScheduleHolds, Covers
<1>10. QED
  BY <1>3, <1>8, <1>9, RowsUndisturbed DEF Inv

(* A handler that is done, and is alone, holds nothing. *)
LEMMA DoneHolds ==
    ASSUME TypeOK, OneHandler, NEW h \in Handlers,
           handler' = [handler EXCEPT ![h] = IdleHandler], NEW g \in Handlers
    PROVE  HandlerHolds(handler[g])'
<1>1. handler'[g] = IdleHandler
  BY DEF OneHandler, TypeOK
<1>2. HandlerHolds(IdleHandler)'
  BY DEF HandlerHolds, IdleHandler, NoChange, Covers
<1>3. QED
  BY <1>1, <1>2 DEF HandlerHolds

(* The handler makes the rows anew. *)
LEMMA RecreateStep ==
    ASSUME TypeOK, Inv, OneHandler, NEW h \in Handlers, Commit(h), Recreate(h)
    PROVE  Inv'
<1>1. /\ handler[h].pc = "read"
      /\ fund' = Flipped(handler[h].change.flip)
      /\ handler' = [handler EXCEPT ![h] = IdleHandler]
      /\ refused' = refused /\ grouping' = grouping
  BY DEF Commit
<1>2. ScheduleHolds'
  <2>1. schedule' \subseteq schedule
    BY DEF Recreate
  <2>2. QED
    BY <2>1 DEF Inv, ScheduleHolds, Covers
<1>3. InOneExport' /\ GroupedAsSet' /\ OpenAgree' /\ RowsHold'
  BY <1>1, RecreateInOneExport, RecreateGroupedAsSet, RecreateAgrees, RecreateRowsHold
<1>4. \A g \in Handlers : HandlerHolds(handler[g])'
  BY <1>1, DoneHolds
<1>5. QED
  BY <1>2, <1>3, <1>4 DEF Inv

(* ... or it deletes those it may, and leaves the change to the schedule. *)
LEMMA PostponeStep ==
    ASSUME TypeOK, Inv, OneHandler, NEW h \in Handlers, Commit(h), Postpone(h)
    PROVE  Inv'
<1>1. /\ fund' = Flipped(handler[h].change.flip)
      /\ handler' = [handler EXCEPT ![h] = IdleHandler]
      /\ refused' = refused /\ grouping' = grouping
  BY DEF Commit
<1>h. handler[h] \in HandlerState /\ HandlerHolds(handler[h])
  BY DEF TypeOK, HandlerState, Inv
<1>2. \A r \in Rows : row'[r] = NoRow \/ row'[r] = row[r]
  BY DEF Postpone
<1>3. PICK change : change = [handler[h].change EXCEPT !.flip = {}, !.retry = TRUE]
  OBVIOUS
<1>4. /\ change.changed = handler[h].change.changed
      /\ Covers(change) /\ change.flip = {}
  BY <1>3, <1>h DEF HandlerState, Change, HandlerHolds, Covers
<1>5. schedule' = IF \E entry \in schedule : entry.change.changed = change.changed
                  THEN schedule
                  ELSE schedule \cup {[change |-> change, left |-> Repeats]}
  BY <1>3 DEF Postpone
<1>6. ScheduleHolds'
  BY <1>4, <1>5 DEF Inv, ScheduleHolds, Covers
<1>7. schedule \subseteq schedule' /\ \E entry \in schedule' : entry.change.changed = change.changed
  <2> DEFINE entry0 == [change |-> change, left |-> Repeats]
  <2>1. CASE \E entry \in schedule : entry.change.changed = change.changed
    BY <1>5, <2>1
  <2>2. CASE ~ \E entry \in schedule : entry.change.changed = change.changed
    <3>1. entry0 \in schedule' /\ entry0.change = change
      BY <1>5, <2>2
    <3>2. QED
      BY <1>5, <2>2, <3>1
  <2>3. QED
    BY <2>1, <2>2
<1>8. OpenAgree'
  <2> SUFFICES ASSUME NEW r \in Rows, Open(r)', NEW x \in row'[r].of
               PROVE  fund'[x] = row'[r].fund \/ Remembered(x)'
    BY DEF OpenAgree
  <2>1. row'[r] = row[r] /\ Open(r) /\ x \in row[r].of
    BY <1>2 DEF Open, NoRow
  <2>2. x \in Expenses
    BY <2>1 DEF TypeOK
  <2>3. CASE x \in handler[h].change.changed
    BY <1>4, <1>7, <2>3 DEF Remembered
  <2>4. CASE x \notin handler[h].change.changed
    <3>1. fund'[x] = fund[x]
      BY <1>1, <1>h, <2>2, <2>4 DEF Flipped, HandlerHolds, Covers
    <3>2. fund[x] = row[r].fund \/ Remembered(x)
      BY <2>1 DEF Inv, OpenAgree
    <3>3. ~ \E g \in Handlers : x \in handler[g].change.changed
      BY <2>4 DEF OneHandler
    <3>4. Remembered(x) => Remembered(x)'
      BY <1>1, <1>7, <3>3 DEF Remembered
    <3>5. QED
      BY <2>1, <3>1, <3>2, <3>4
  <2>5. QED
    BY <2>3, <2>4
<1>9. RowsHold'
  BY <1>2 DEF Inv, RowsHold, NoRow
<1>10. InOneExport'
  BY <1>2 DEF Inv, InOneExport, Containing, NoRow
<1>11. GroupedAsSet'
  <2>1. \A r \in Rows : row'[r].status # "NONE" => row'[r] = row[r]
    BY <1>2 DEF NoRow
  <2>2. ASSUME NEW p \in Rows, NEW q \in Rows, grouping = [f \in Funds |-> "report"],
               {row'[p].status, row'[q].status} \cap {"NONE", "COMPLETE"} = {},
               row'[p].fund = row'[q].fund
        PROVE  p = q
    <3>1. row'[p] = row[p] /\ row'[q] = row[q]
      BY <2>1, <2>2
    <3>2. QED
      BY <2>2, <3>1 DEF Inv, GroupedAsSet
  <2>3. \A r \in Rows : row'[r].of \subseteq row[r].of
    BY <1>2 DEF NoRow
  <2>4. \A r \in Rows : grouping = [f \in Funds |-> "expense"] => \A x, y \in row'[r].of : x = y
    BY <2>3 DEF Inv, GroupedAsSet
  <2>5. QED
    BY <1>1, <2>2, <2>4 DEF GroupedAsSet
<1>12. \A g \in Handlers : HandlerHolds(handler[g])'
  BY <1>1, DoneHolds
<1>13. QED
  BY <1>6, <1>8, <1>9, <1>10, <1>11, <1>12 DEF Inv

(* ... or a posted export refuses. *)
LEMMA RollBackStep ==
    ASSUME TypeOK, Inv, OneHandler, NEW h \in Handlers, RollBack(h)
    PROVE  Inv'
<1>1. /\ fund' = Flipped(handler[h].change.flip)
      /\ handler' = [handler EXCEPT ![h] = IdleHandler]
      /\ refused' = refused \cup handler[h].change.changed
      /\ UNCHANGED <<row, grouping, schedule>>
  BY DEF RollBack
<1>h. HandlerHolds(handler[h])
  BY DEF Inv
<1>2. OpenAgree'
  <2> SUFFICES ASSUME NEW r \in Rows, Open(r), NEW x \in row[r].of
               PROVE  fund'[x] = row[r].fund \/ Remembered(x)'
    BY <1>1 DEF OpenAgree, Open
  <2>1. x \in Expenses
    BY DEF TypeOK
  <2>2. CASE x \in handler[h].change.changed
    BY <1>1, <2>2 DEF Remembered
  <2>3. CASE x \notin handler[h].change.changed
    <3>1. fund'[x] = fund[x]
      BY <1>1, <1>h, <2>1, <2>3 DEF Flipped, HandlerHolds, Covers
    <3>2. fund[x] = row[r].fund \/ Remembered(x)
      BY DEF Inv, OpenAgree
    <3>3. ~ \E g \in Handlers : x \in handler[g].change.changed
      BY <2>3 DEF OneHandler
    <3>4. Remembered(x) => Remembered(x)'
      BY <1>1, <3>3 DEF Remembered
    <3>5. QED
      BY <3>1, <3>2, <3>4
  <2>4. QED
    BY <2>2, <2>3
<1>3. ScheduleHolds'
  BY <1>1 DEF Inv, ScheduleHolds, Covers
<1>4. \A g \in Handlers : HandlerHolds(handler[g])'
  BY <1>1, DoneHolds
<1>5. QED
  BY <1>1, <1>2, <1>3, <1>4, RowsUndisturbed DEF Inv

(* The exports go on: what is closed stays closed. *)
LEMMA StatusStep ==
    ASSUME TypeOK, Inv, NEW r \in Rows, NEW from, NEW status \in Statuses,
           from \cap {"NONE", "COMPLETE"} = {}, SetStatus(r, from, status)
    PROVE  Inv'
<1>1. /\ row[r].status \notin {"NONE", "COMPLETE"} /\ row' = [row EXCEPT ![r].status = status]
      /\ UNCHANGED <<grouping, fund, schedule, handler, refused>>
  BY DEF SetStatus
<1>2. \A q \in Rows : /\ row'[q].of = row[q].of /\ row'[q].fund = row[q].fund
                      /\ Open(q)' => Open(q)
                      /\ q # r => row'[q] = row[q]
  BY <1>1 DEF TypeOK, Open
<1>3. row'[r].status # "NONE"
  BY <1>1 DEF TypeOK, Statuses
<1>4. RowsHold'
  BY <1>1, <1>2, <1>3 DEF Inv, RowsHold
<1>5. ASSUME NEW h \in Handlers PROVE HandlerHolds(handler[h])'
  <2>1. PICK s \in HandlerState : s = handler[h] /\ HandlerHolds(s)
    BY DEF TypeOK, HandlerState, Inv
  <2>2. \A q \in Rows : row[q].status \in {"NONE", "COMPLETE"} => row'[q].status \in {"NONE", "COMPLETE"}
    BY <1>2 DEF Open
  <2>3. HandlerHolds(s)'
    BY <1>1, <1>2, <2>1, <2>2, HandlerUndisturbed
  <2>4. QED
    BY <1>1, <2>1, <2>3 DEF HandlerHolds
<1>6. InOneExport'
  BY <1>2 DEF Inv, InOneExport, Containing
<1>7. OpenAgree'
  BY <1>1, <1>2 DEF Inv, OpenAgree, Remembered
<1>8. GroupedAsSet'
  <2>1. \A q \in Rows : row'[q].status \notin {"NONE", "COMPLETE"} => row[q].status \notin {"NONE", "COMPLETE"}
    BY <1>2 DEF Open
  <2>2. ASSUME NEW p \in Rows, NEW q \in Rows, grouping = [f \in Funds |-> "report"],
               {row'[p].status, row'[q].status} \cap {"NONE", "COMPLETE"} = {},
               row'[p].fund = row'[q].fund
        PROVE  p = q
    <3>1. {row[p].status, row[q].status} \cap {"NONE", "COMPLETE"} = {} /\ row[p].fund = row[q].fund
      BY <1>2, <2>1, <2>2
    <3>2. QED
      BY <2>2, <3>1 DEF Inv, GroupedAsSet
  <2>3. \A q \in Rows : grouping = [f \in Funds |-> "expense"] => \A x, y \in row'[q].of : x = y
    BY <1>2 DEF Inv, GroupedAsSet
  <2>4. QED
    BY <1>1, <2>2, <2>3 DEF GroupedAsSet
<1>9. ScheduleHolds'
  BY <1>1 DEF Inv, ScheduleHolds, Covers
<1>10. QED
  BY <1>4, <1>5, <1>6, <1>7, <1>8, <1>9 DEF Inv

(* The invariant holds of the exports that the import made of the report. *)
LEMMA InitHolds ==
    ASSUME Init, TypeOK PROVE Inv
<1>1. RowsHold
  <2>1. ASSUME NEW r \in Rows, row[r] # NoRow PROVE row[r].status = "EXPORT_READY" /\ row[r].of # {}
    BY <2>1 DEF Init
  <2>2. NoRow.status = "NONE"
    BY DEF NoRow
  <2>3. QED
    BY <2>1, <2>2 DEF RowsHold
<1>2. ASSUME NEW h \in Handlers PROVE HandlerHolds(handler[h])
  <2>1. handler[h] = IdleHandler
    BY DEF Init
  <2>2. HandlerHolds(IdleHandler)
    BY DEF HandlerHolds, IdleHandler, NoChange, Covers
  <2>3. QED
    BY <2>1, <2>2
<1>3. ScheduleHolds
  BY DEF Init, ScheduleHolds
<1>4. InOneExport
  BY DEF Init, InOneExport
<1>5. ASSUME NEW r \in Rows, row[r] # NoRow
      PROVE  row[r].of \in Groups({x \in Expenses : fund[x] = row[r].fund}, row[r].fund)
  <2>1. <<row[r].fund, row[r].of>> \in
           UNION {{f} \X Groups({x \in Expenses : fund[x] = f}, f) : f \in Funds}
    BY <1>5 DEF Init
  <2>2. PICK f \in Funds : <<row[r].fund, row[r].of>> \in
                              {f} \X Groups({x \in Expenses : fund[x] = f}, f)
    BY <2>1
  <2>3. row[r].fund = f /\ row[r].of \in Groups({x \in Expenses : fund[x] = f}, f)
    BY <2>2
  <2>4. QED
    BY <2>3
<1>6. OpenAgree
  <2>1. ASSUME NEW r \in Rows, Open(r), NEW x \in row[r].of PROVE fund[x] = row[r].fund
    <3>1. row[r] # NoRow
      BY <2>1 DEF Open, NoRow
    <3>2. QED
      BY <2>1, <3>1, <1>5 DEF Groups
  <2>2. QED
    BY <2>1 DEF OpenAgree
<1>7. GroupedAsSet
  <2>1. ASSUME NEW r \in Rows, grouping = [f \in Funds |-> "expense"],
               NEW x \in row[r].of, NEW y \in row[r].of
        PROVE  x = y
    <3>1. row[r] # NoRow /\ row[r].fund \in Funds
      BY <2>1 DEF NoRow, TypeOK
    <3>2. grouping[row[r].fund] # "report"
      BY <2>1, <3>1
    <3>3. PICK z : row[r].of = {z}
      BY <3>1, <3>2, <1>5 DEF Groups
    <3>4. QED
      BY <2>1, <3>3
  <2>2. ASSUME NEW r \in Rows, NEW s \in Rows, grouping = [f \in Funds |-> "report"],
               {row[r].status, row[s].status} \cap {"NONE", "COMPLETE"} = {},
               row[r].fund = row[s].fund
        PROVE  r = s
    <3>1. row[r] # NoRow /\ row[s] # NoRow /\ row[r].fund \in Funds
      <4>1. row[r].status # "NONE" /\ row[s].status # "NONE"
        BY <2>2
      <4>2. QED
        BY <4>1 DEF NoRow, TypeOK
    <3>2. grouping[row[r].fund] = "report"
      BY <2>2, <3>1
    <3>3. row[r].of = row[s].of /\ row[r].of # {}
      BY <2>2, <3>1, <3>2, <1>5 DEF Groups
    <3>4. PICK x \in row[r].of : x \in row[s].of /\ x \in Expenses
      BY <3>3 DEF TypeOK
    <3>5. QED
      BY <3>4, <1>4 DEF InOneExport, Containing
  <2>3. QED
    BY <2>1, <2>2 DEF GroupedAsSet
<1>8. QED
  BY <1>1, <1>2, <1>3, <1>4, <1>6, <1>7 DEF Inv

(* With one handler the invariant is inductive. *)
THEOREM InvHolds ==
    ASSUME OneHandler PROVE Spec => []Inv
<1>1. TypeOK /\ Inv /\ [Next]_vars => Inv'
  <2> SUFFICES ASSUME TypeOK, Inv, [Next]_vars PROVE Inv'
    OBVIOUS
  <2>1. ASSUME NEW h \in Handlers, NEW x \in Expenses, SaveFundSource(h, x) PROVE Inv'
    BY <2>1, SaveStep
  <2>2. ASSUME NEW h \in Handlers, HandleSaved(h) PROVE Inv'
    BY <2>2, HandleSavedStep
  <2>3. ASSUME NEW h \in Handlers, NEW S \in SUBSET Expenses, ImportFundSources(h, S) PROVE Inv'
    BY <2>3, ImportStep
  <2>4. ASSUME NEW h \in Handlers, NEW entry \in schedule, RunRetry(h, entry) PROVE Inv'
    BY <2>4, RetryStep
  <2>5. ASSUME NEW h \in Handlers, Commit(h) PROVE Inv'
    BY <2>5, RecreateStep, PostponeStep DEF Commit
  <2>6. ASSUME NEW h \in Handlers, RollBack(h) PROVE Inv'
    BY <2>6, RollBackStep
  <2>7. ASSUME NEW r \in Rows, Enqueue(r) \/ Post(r) \/ Complete(r) \/ Fail(r)
        PROVE  Inv'
    <3>1. PICK from, status : /\ status \in Statuses /\ from \cap {"NONE", "COMPLETE"} = {}
                              /\ SetStatus(r, from, status)
      BY <2>7 DEF Enqueue, Post, Complete, Fail, Statuses, Busy
    <3>2. QED
      BY <3>1, StatusStep
  <2>8. CASE UNCHANGED vars
    <3>1. UNCHANGED <<row, grouping, fund, schedule, handler, refused>>
      BY <2>8 DEF vars
    <3>2. RowsHold' /\ InOneExport' /\ GroupedAsSet'
      BY <3>1, RowsUndisturbed
    <3>3. OpenAgree' /\ ScheduleHolds'
      BY <3>1 DEF Inv, OpenAgree, Open, Remembered, ScheduleHolds, Covers
    <3>4. \A h \in Handlers : HandlerHolds(handler[h])'
      <4> SUFFICES ASSUME NEW h \in Handlers PROVE HandlerHolds(handler[h])'
        OBVIOUS
      <4>1. PICK s \in HandlerState : s = handler[h] /\ HandlerHolds(s)
        BY DEF TypeOK, HandlerState, Inv
      <4>2. HandlerHolds(s)'
        BY <3>1, <4>1, HandlerUndisturbed
      <4>3. QED
        BY <3>1, <4>1, <4>2 DEF HandlerHolds
    <3>5. QED
      BY <3>2, <3>3, <3>4 DEF Inv
  <2>9. QED
    BY <2>1, <2>2, <2>3, <2>4, <2>5, <2>6, <2>7, <2>8 DEF Next
<1>2. Init /\ TypeOK => Inv
  BY InitHolds
<1>3. QED
  BY <1>1, <1>2, TypeCorrect, PTL DEF Spec

(* An expense that leaves an export enters at most one other, however often its
   fund source and those of its report change. *)
THEOREM AlwaysInOneExport ==
    ASSUME OneHandler PROVE Spec => []InOneExport
<1>1. Inv => InOneExport
  BY DEF Inv
<1>2. QED
  BY <1>1, InvHolds, PTL

(* No export waits with an expense under its old fund source unless somebody is
   to regroup it or a posted export has refused. *)
THEOREM FundsAlwaysAgree ==
    ASSUME OneHandler PROVE Spec => []FundsAgree
<1>1. Inv => FundsAgree
  BY DEF Inv, OpenAgree, Open, Remembered, FundsAgree
<1>2. QED
  BY <1>1, InvHolds, PTL

(* The exports made anew are grouped as the export settings say. *)
THEOREM AlwaysGroupedAsSet ==
    ASSUME OneHandler PROVE Spec => []GroupedAsSet
<1>1. Inv => GroupedAsSet
  BY DEF Inv
<1>2. QED
  BY <1>1, InvHolds, PTL
----------------------------------------------------------------------------
Posted == {"EXPORT_QUEUED", "COMPLETE"}

(* A handler that commits leaves every export with a document as it is, and makes
   none that has one. *)
LEMMA CommitLeavesPosted ==
    ASSUME NEW h \in Handlers, Commit(h), NEW r \in Rows
    PROVE  IF row[r].status \in Posted THEN row'[r] = row[r] ELSE row'[r].status \notin Posted
<1>1. row[r].status \in Posted => r \notin Processed(h)
  BY DEF Commit, Protected, Posted
<1>2. row[r].status \in Posted => r \notin Free(h)
  BY <1>1 DEF Free, NoRow, Posted
<1>3. CASE Recreate(h)
  <2>1. \/ r \in Free(h) /\ row'[r].status = "EXPORT_READY"
        \/ r \in Processed(h) /\ row'[r] = NoRow
        \/ row'[r] = row[r]
    <3>1. PICK new \in [NewGroups(h) -> Free(h)] : \A q \in Rows :
              \/ \E g \in NewGroups(h) :
                   /\ new[g] = q
                   /\ q \in Free(h)
                   /\ row'[q] = [status |-> "EXPORT_READY", fund |-> g[1], of |-> g[2]]
              \/ q \in Processed(h) /\ row'[q] = NoRow
              \/ q \notin Processed(h) /\ row'[q] = row[q]
      BY <1>3, RecreatedRows
    <3>2. ASSUME NEW g,
                 row'[r] = [status |-> "EXPORT_READY", fund |-> g[1], of |-> g[2]]
          PROVE  row'[r].status = "EXPORT_READY"
      BY <3>2
    <3>3. QED
      BY <3>1, <3>2
  <2>2. QED
    BY <1>1, <1>2, <2>1 DEF NoRow, Posted
<1>4. CASE Postpone(h)
  <2>1. row'[r] = IF r \in Processed(h) THEN NoRow ELSE row[r]
    BY <1>4 DEF Postpone
  <2>2. QED
    BY <1>1, <2>1 DEF NoRow, Posted
<1>5. QED
  BY <1>3, <1>4 DEF Commit

(* Such a commit is a Regroup of the abstract specification. *)
LEMMA CommitRefines ==
    ASSUME TypeOK, TypeOK', Inv, Inv', NEW h \in Handlers, Commit(h)
    PROVE  [Once!Regroup]_<<Contents, WithDocument, Accepted>>
<1>1. Contents' \in [Rows -> SUBSET Expenses]
  <2>1. \A r \in Rows : row'[r].of \subseteq Expenses
    BY DEF TypeOK
  <2>2. QED
    BY <2>1 DEF Contents
<1>2. \A r, q \in Rows : row'[r].of \cap row'[q].of # {} => r = q
  <2> SUFFICES ASSUME NEW r \in Rows, NEW q \in Rows, NEW x \in row'[r].of \cap row'[q].of
               PROVE  r = q
    OBVIOUS
  <2>1. x \in Expenses /\ r \in Containing(x)' /\ q \in Containing(x)'
    BY DEF TypeOK, Containing
  <2>2. QED
    BY <2>1 DEF Inv, InOneExport
<1>3. \A r \in Rows : row[r].status \in Posted => row'[r].of = row[r].of /\ row[r].of # {}
  BY CommitLeavesPosted DEF Inv, RowsHold, Posted
<1>4. /\ \A r \in Rows : row'[r].status \in Posted <=> row[r].status \in Posted
      /\ \A r \in Rows : row'[r].status = "COMPLETE" <=> row[r].status = "COMPLETE"
  BY CommitLeavesPosted DEF Posted
<1>5. WithDocument' = WithDocument /\ Accepted' = Accepted
  BY <1>4 DEF WithDocument, Accepted, Posted
<1>6. Once!InOne(Contents')
  BY <1>2 DEF Once!InOne, Contents
<1>7. \A r \in WithDocument : Contents'[r] \subseteq Contents[r] /\ Contents'[r] # {}
  BY <1>3 DEF Contents, WithDocument, Posted
<1>8. QED
  BY <1>1, <1>5, <1>6, <1>7 DEF Once!Regroup

(* The life of an export is that of the abstract document. *)
LEMMA StatusRefines ==
    ASSUME TypeOK, Inv, NEW r \in Rows, Enqueue(r) \/ Post(r) \/ Complete(r) \/ Fail(r)
    PROVE  [Once!Next]_<<Contents, WithDocument, Accepted>>
<1>1. PICK s \in Statuses :
        /\ row' = [row EXCEPT ![r].status = s]
        /\ \/ row[r].status \in {"EXPORT_READY", "FAILED"} /\ s = "ENQUEUED"
           \/ row[r].status = "ENQUEUED" /\ s \in {"EXPORT_QUEUED", "FAILED"}
           \/ row[r].status = "EXPORT_QUEUED" /\ s \in {"COMPLETE", "FAILED"}
  BY DEF Enqueue, Post, Complete, Fail, SetStatus, Statuses, Busy
<1>2. /\ \A q \in Rows : row'[q].of = row[q].of
      /\ \A q \in Rows : row'[q].status = IF q = r THEN s ELSE row[q].status
  BY <1>1 DEF TypeOK
<1>3. Contents' = Contents
  BY <1>2 DEF Contents
<1>4. CASE s = "ENQUEUED" \/ (row[r].status = "ENQUEUED" /\ s = "FAILED")
  <2>1. WithDocument' = WithDocument /\ Accepted' = Accepted
    BY <1>1, <1>2, <1>4 DEF WithDocument, Accepted
  <2>2. QED
    BY <1>3, <2>1
<1>5. CASE s = "EXPORT_QUEUED"
  <2>1. row[r].of # {}
    BY <1>1, <1>5 DEF Inv, RowsHold
  <2>2. Once!Send(r)
    BY <1>1, <1>2, <1>3, <1>5, <2>1 DEF Once!Send, Contents, WithDocument, Accepted
  <2>3. QED
    BY <2>2 DEF Once!Next
<1>6. CASE s = "COMPLETE"
  <2>1. Once!Accept(r)
    BY <1>1, <1>2, <1>3, <1>6 DEF Once!Accept, WithDocument, Accepted
  <2>2. QED
    BY <2>1 DEF Once!Next
<1>7. CASE row[r].status = "EXPORT_QUEUED" /\ s = "FAILED"
  <2>1. Once!TurnDown(r)
    BY <1>1, <1>2, <1>3, <1>7 DEF Once!TurnDown, WithDocument, Accepted
  <2>2. QED
    BY <2>1 DEF Once!Next
<1>8. QED
  BY <1>1, <1>4, <1>5, <1>6, <1>7

(* Handlers that run one after the other regroup expenses as the abstract
   specification allows, though what they read of an export is out of date by the
   time they delete it. *)
THEOREM AlwaysGroupedOnce ==
    ASSUME OneHandler PROVE Spec => ImplementsGroupOnce
<1>1. Init /\ TypeOK /\ Inv => Once!Init
  <2> SUFFICES ASSUME Init, TypeOK, Inv PROVE Once!Init
    OBVIOUS
  <2>1. \A r \in Rows : row[r].status \in {"NONE", "EXPORT_READY"}
    <3>1. ASSUME NEW r \in Rows, row[r] # NoRow PROVE row[r].status = "EXPORT_READY"
      BY <3>1 DEF Init
    <3>2. NoRow.status = "NONE"
      BY DEF NoRow
    <3>3. QED
      BY <3>1, <3>2
  <2>2. WithDocument = {} /\ Accepted = {}
    BY <2>1 DEF WithDocument, Accepted
  <2>3. Contents \in [Rows -> SUBSET Expenses]
    BY DEF TypeOK, Contents
  <2>4. Once!InOne(Contents)
    <3> SUFFICES ASSUME NEW r \in Rows, NEW q \in Rows, NEW x \in row[r].of \cap row[q].of
                 PROVE  r = q
      BY DEF Once!InOne, Contents
    <3>1. x \in Expenses /\ r \in Containing(x) /\ q \in Containing(x)
      BY DEF TypeOK, Containing
    <3>2. QED
      BY <3>1 DEF Inv, InOneExport
  <2>5. QED
    BY <2>2, <2>3, <2>4 DEF Once!Init
<1>2. TypeOK /\ TypeOK' /\ Inv /\ Inv' /\ [Next]_vars =>
        [Once!Next]_<<Contents, WithDocument, Accepted>>
  <2> SUFFICES ASSUME TypeOK, TypeOK', Inv, Inv', [Next]_vars
               PROVE  [Once!Next]_<<Contents, WithDocument, Accepted>>
    OBVIOUS
  <2>1. CASE row' = row
    BY <2>1 DEF Contents, WithDocument, Accepted
  <2>2. ASSUME NEW h \in Handlers, Commit(h)
        PROVE  [Once!Next]_<<Contents, WithDocument, Accepted>>
    BY <2>2, CommitRefines DEF Once!Next
  <2>3. ASSUME NEW r \in Rows, Enqueue(r) \/ Post(r) \/ Complete(r) \/ Fail(r)
        PROVE  [Once!Next]_<<Contents, WithDocument, Accepted>>
    BY <2>3, StatusRefines
  <2>4. \/ row' = row
        \/ \E h \in Handlers : Commit(h)
        \/ \E r \in Rows : Enqueue(r) \/ Post(r) \/ Complete(r) \/ Fail(r)
    BY DEF Next, SaveFundSource, HandleSaved, ImportFundSources, RunRetry, RollBack, vars
  <2>5. QED
    BY <2>1, <2>2, <2>3, <2>4
<1>3. QED
  BY <1>1, <1>2, TypeCorrect, InvHolds, PTL DEF Spec, ImplementsGroupOnce, Once!Spec
=============================================================================
