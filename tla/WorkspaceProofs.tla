-------------------------- MODULE WorkspaceProofs --------------------------
(***************************************************************************)
(* Theorems about the two modules of what a workspace keeps: its row       *)
(* (WorkspaceRow), and the jobs, cost codes and cost categories it copies  *)
(* from Sage 300 to Fyle (DependentFields, the second half).               *)
(*                                                                         *)
(* What holds of the workspace row holds of every copy of it that may be   *)
(* saved back, however old: settings are never taken away, and an expense  *)
(* that was stored or missed stays so.                                     *)
(*                                                                         *)
(* A workspace whose exports are enabled has a schedule, or some request is*)
(* on its way to link one, or a statement has failed; two requests that    *)
(* find, insert, link and unlink beside each other do not change that      *)
(* (ScheduleInv).                                                          *)
(***************************************************************************)
EXTENDS WorkspaceRow, DependentFields, FiniteSetTheorems, WellFoundedInduction, TLAPS

(* The initial rows are of their types. *)
LEMMA Defaults ==
    NewRow \in Row /\ NoAdvanced \in AdvancedRow /\ NoRequest \in RequestState
BY DEF NewRow, Row, States, NoAdvanced, AdvancedRow, NoRequest, RequestState, Settings

(* A worker that has nothing to do. *)
LEMMA IdleType ==
    ASSUME TypeOK, NEW w \in Workers
    PROVE  Idle(w) \in WorkerState
BY Defaults DEF TypeOK, Idle, WorkerState

(* A copy of the row is a row. *)
LEMMA CopyForType ==
    ASSUME TypeOK, NEW kind \in Settings
    PROVE  CopyFor(kind) \in Row
BY Defaults DEF TypeOK, CopyFor

(* The state that a stored setting moves the workspace on to. *)
LEMMA NextStateType ==
    ASSUME NEW kind \in Settings, NEW state \in States, MovesOn(kind, state)
    PROVE  NextState(state) \in States
BY DEF MovesOn, NextState, States, Settings

(* The approved expenses of a fund source. *)
LEMMA ApprovedOfType ==
    ASSUME TypeOK, NEW f \in Funds
    PROVE  ApprovedOf(f) \in SUBSET Expenses
BY DEF TypeOK, ApprovedOf

(* No statement of a request breaks a type. *)
LEMMA RequestType ==
    ASSUME TypeOK, NEW r \in Requests, RequestStep(r)
    PROVE  TypeOK'
<1> USE DEF TypeOK
<1>c. request[r] \in RequestState
  OBVIOUS
<1>1. CASE \E kind \in Settings : StartRequest(r, kind)
  <2>1. PICK kind \in Settings : StartRequest(r, kind)
    BY <1>1
  <2>2. [request[r] EXCEPT !.kind = kind, !.copy = CopyFor(kind), !.step = "store"] \in RequestState
    BY CopyForType DEF RequestState
  <2> QED
    BY <2>1, <2>2 DEF StartRequest, expenseVars
<1>2. CASE StoreCredentials(r)
  <2>1. [request[r] EXCEPT !.step = "state"] \in RequestState
    BY DEF RequestState
  <2> QED
    BY <1>2, <2>1, Defaults DEF StoreCredentials, Ended, Goto, expenseVars, Settings
<1>3. CASE StoreImport(r)
  <2>1. [request[r] EXCEPT !.step = "state"] \in RequestState
    BY DEF RequestState
  <2> QED
    BY <1>3, <2>1 DEF StoreImport, Goto, expenseVars, Settings
<1>4. CASE StoreExport(r)
  <2>1. [request[r] EXCEPT !.kind = "export", !.copy = CopyFor("export"), !.step = "state"] \in RequestState
    BY CopyForType DEF RequestState, Settings
  <2> QED
    BY <1>4, <2>1 DEF StoreExport, expenseVars, Settings
<1>5. CASE \E enabled, realtime \in BOOLEAN : StoreAdvanced(r, enabled, realtime)
  <2>1. PICK enabled \in BOOLEAN, realtime \in BOOLEAN : StoreAdvanced(r, enabled, realtime)
    BY <1>5
  <2>2. [request[r] EXCEPT !.kind = "advanced", !.enabled = enabled, !.step = "read"] \in RequestState
    BY DEF RequestState, Settings
  <2>3. [advanced EXCEPT !.enabled = enabled, !.realtime = realtime] \in AdvancedRow
    BY DEF AdvancedRow
  <2> QED
    BY <2>1, <2>2, <2>3 DEF StoreAdvanced, expenseVars, Settings
<1>6. CASE ReadAdvanced(r)
  <2> DEFINE Read(step) == [request[r] EXCEPT !.copy = CopyFor("advanced"), !.own = advanced, !.step = step]
  <2>0. CopyFor("advanced") \in Row
    BY CopyForType DEF Settings
  <2>1. Read("find") \in RequestState /\ Read("unlink") \in RequestState
    BY <2>0 DEF RequestState
  <2>2. [Read("state") EXCEPT !.own = NoAdvanced, !.enabled = FALSE] \in RequestState
    BY <2>0, Defaults DEF RequestState
  <2> HIDE DEF Read
  <2>3. PICK next \in RequestState : request' = [request EXCEPT ![r] = next]
    BY <1>6, <2>1, <2>2 DEF ReadAdvanced, Read
  <2> QED
    BY <1>6, <2>3 DEF ReadAdvanced, expenseVars
<1>7. CASE FindSchedule(r)
  <2>1. [request[r] EXCEPT !.step = "insert"] \in RequestState
    BY DEF RequestState
  <2>2. ASSUME schedules # {}
        PROVE  [request[r] EXCEPT !.step = "link",
                    !.own.schedule = CHOOSE s \in schedules : TRUE] \in RequestState
    <3>1. PICK s \in Schedules : s = CHOOSE t \in schedules : TRUE
      BY <2>2
    <3>2. [request[r].own EXCEPT !.schedule = s] \in AdvancedRow
      BY DEF RequestState, AdvancedRow
    <3> QED
      BY <3>1, <3>2 DEF RequestState
  <2> QED
    BY <1>7, <2>1, <2>2, Defaults DEF FindSchedule, Ended, expenseVars
<1>8. CASE InsertSchedule(r)
  <2>1. PICK new \in Schedules :
          /\ schedules' = schedules \cup {new}
          /\ request' = [request EXCEPT ![r].own.schedule = new, ![r].step = "link"]
    BY <1>8 DEF InsertSchedule, Unused
  <2>2. [request[r].own EXCEPT !.schedule = new] \in AdvancedRow
    BY DEF RequestState, AdvancedRow
  <2>3. [request[r] EXCEPT !.own.schedule = new, !.step = "link"] \in RequestState
    BY <2>2 DEF RequestState
  <2> QED
    BY <1>8, <2>1, <2>3 DEF InsertSchedule, expenseVars
<1>s. [request[r] EXCEPT !.step = "state", !.own = NoAdvanced, !.enabled = FALSE] \in RequestState
  BY Defaults DEF RequestState
<1>9. CASE LinkSchedule(r)
  <2>1. [request[r].own EXCEPT !.enabled = request[r].enabled] \in AdvancedRow
    BY DEF RequestState, AdvancedRow
  <2> QED
    BY <1>9, <1>s, <2>1, Defaults DEF LinkSchedule, ToState, Ended, expenseVars
<1>10. CASE UnlinkSchedule(r)
  <2>1. Unlinked(r) \in AdvancedRow
    BY DEF RequestState, AdvancedRow, Unlinked
  <2>2. [request[r] EXCEPT !.step = "delete"] \in RequestState
    BY DEF RequestState
  <2> QED
    BY <1>10, <2>1, <2>2 DEF UnlinkSchedule, Goto, expenseVars
<1>11. CASE DeleteSchedule(r)
  BY <1>11, <1>s, Defaults DEF DeleteSchedule, ToState, Ended, expenseVars
<1>12. CASE SetState(r)
  <2>1. request[r].kind \in Settings /\ request[r].copy \in Row
    BY DEF RequestState
  <2>2. [request[r].copy EXCEPT !.onboarding = "EXPORT_SETTINGS"] \in Row
    BY <2>1 DEF Row, States
  <2>3. ASSUME MovesOn(request[r].kind, request[r].copy.onboarding)
        PROVE  [request[r].copy EXCEPT !.onboarding = NextState(request[r].copy.onboarding)] \in Row
    BY <2>1, <2>3, NextStateType DEF Row
  <2>4. workspace' \in Row /\ request' = [request EXCEPT ![r] = NoRequest]
    BY <1>12, <2>2, <2>3 DEF SetState, Ended
  <2> QED
    BY <1>12, <2>4, Defaults DEF SetState, expenseVars
<1>13. CASE RequestDies(r)
  BY <1>13, Defaults DEF RequestDies, Ended, expenseVars
<1> QED
  BY <1>1, <1>2, <1>3, <1>4, <1>5, <1>6, <1>7, <1>8, <1>9, <1>10, <1>11, <1>12, <1>13 DEF RequestStep

(* No step of a worker breaks a type. *)
LEMMA WorkerType ==
    ASSUME TypeOK, NEW w \in Workers, WorkerStep(w)
    PROVE  TypeOK'
<1> USE DEF TypeOK
<1>c. worker[w] \in WorkerState /\ worker[w].copy \in Row /\ worker[w].fund \in Funds
  BY DEF WorkerState
<1>i. Idle(w) \in WorkerState
  BY IdleType
<1>f. FetchedBy(w) \in SUBSET Expenses
  BY <1>c, ApprovedOfType DEF FetchedBy
<1>1. CASE \E f \in Funds : StartImport(w, f)
  <2>1. PICK f \in Funds : StartImport(w, f)
    BY <1>1
  <2>2. [worker[w] EXCEPT !.pc = "importing", !.copy = workspace, !.fund = f] \in WorkerState
    BY <1>c DEF WorkerState
  <2> QED
    BY <2>1, <2>2 DEF StartImport, settingVars
<1>2. CASE Fetch(w)
  <2>1. [worker[w] EXCEPT !.pc = "fetched", !.fetched = FetchedBy(w)] \in WorkerState
    BY <1>c, <1>f DEF WorkerState
  <2> QED
    BY <1>2, <1>i, <2>1 DEF Fetch, settingVars
<1>3. CASE \E f \in Funds : CommitImport(w, f)
  <2>1. PICK f \in Funds : CommitImport(w, f)
    BY <1>3
  <2>2. [worker[w].copy EXCEPT !.mark[f] = ApprovedOf(f)] \in Row
    BY <1>c, ApprovedOfType DEF Row
  <2>3. worker[w].fetched \in SUBSET Expenses
    BY <1>c DEF WorkerState
  <2> QED
    BY <2>1, <2>2, <2>3, <1>i, <1>f DEF CommitImport, settingVars
<1>4. CASE ImportFails(w)
  BY <1>4, <1>i DEF ImportFails, settingVars
<1>5. CASE StartLine(w)
  <2>1. [worker[w] EXCEPT !.pc = "exporting", !.copy = workspace] \in WorkerState
    BY <1>c DEF WorkerState
  <2> QED
    BY <1>5, <2>1 DEF StartLine, settingVars
<1>6. CASE SaveLine(w)
  BY <1>6, <1>c, <1>i DEF SaveLine, settingVars
<1> QED
  BY <1>1, <1>2, <1>3, <1>4, <1>5, <1>6 DEF WorkerStep

(* The workspace row, the advanced settings, schedules, and the copies that requests
   and workers keep are of their types. *)
THEOREM TypeCorrect == Spec => []TypeOK
<1>1. Init => TypeOK
  <2>1. PICK fund \in Funds : fund = CHOOSE f \in Funds : TRUE
    BY WorkspaceAssumption
  <2>2. [pc |-> "idle", copy |-> NewRow, fetched |-> {}, fund |-> fund] \in WorkerState
    BY Defaults DEF WorkerState
  <2> QED
    BY <2>1, <2>2, Defaults DEF Init, TypeOK
<1>2. TypeOK /\ [Next]_vars => TypeOK'
  <2> SUFFICES ASSUME TypeOK, [Next]_vars PROVE TypeOK'
    OBVIOUS
  <2>1. CASE \E e \in Expenses : Approve(e)
    BY <2>1 DEF TypeOK, Approve, settingVars
  <2>2. CASE UNCHANGED vars
    BY <2>2 DEF TypeOK, vars
  <2> QED
    BY <2>1, <2>2, RequestType, WorkerType DEF Next
<1> QED
  BY <1>1, <1>2, PTL DEF Spec
-----------------------------------------------------------------------------
(* A copy of the row claims no setting that is not stored, and marks no expense
   that is neither stored nor missed. *)
CopySound(copy) ==
    /\ Required(copy.onboarding) \subseteq saved
    /\ \A f \in Funds : copy.mark[f] \subseteq stored \cup missed

(* The row, every copy of it, and a request that comes to the onboarding state has
   stored its setting. *)
CopiesSound ==
    /\ CopySound(workspace)
    /\ \A r \in Requests :
         /\ CopySound(request[r].copy)
         /\ request[r].step \notin {"idle", "store"} => request[r].kind \in saved
    /\ \A w \in Workers : CopySound(worker[w].copy)

(* A new row claims nothing. *)
LEMMA NewRowSound == CopySound(NewRow)
BY DEF CopySound, NewRow, Required

(* A request that moves the workspace on from a sound copy, its own setting stored. *)
LEMMA MovedOn ==
    ASSUME NEW copy \in Row, CopySound(copy), NEW kind \in saved,
           MovesOn(kind, copy.onboarding)
    PROVE  CopySound([copy EXCEPT !.onboarding = NextState(copy.onboarding)])
<1> DEFINE new == [copy EXCEPT !.onboarding = NextState(copy.onboarding)]
<1>1. new.mark = copy.mark /\ new.onboarding = NextState(copy.onboarding)
  BY DEF Row
<1>2. Required(NextState(copy.onboarding)) \subseteq Required(copy.onboarding) \cup {kind}
  BY DEF MovesOn, NextState, Required, Settings
<1> QED
  BY <1>1, <1>2 DEF CopySound

(* What a request reads of the row is as sound as the row. *)
LEMMA CopyForSound ==
    ASSUME CopySound(workspace), NEW kind
    PROVE  CopySound(CopyFor(kind))
BY NewRowSound DEF CopyFor

(* A request saves and keeps sound copies only. *)
LEMMA RequestSound ==
    ASSUME TypeOK, CopiesSound, NEW r \in Requests, RequestStep(r)
    PROVE  CopiesSound'
<1> USE DEF TypeOK
<1>c. request[r] \in RequestState /\ request[r].copy \in Row /\ request[r].kind \in Settings
  BY DEF RequestState
<1>e. stored' = stored /\ missed' = missed /\ worker' = worker /\ saved \subseteq saved'
  BY DEF RequestStep, StartRequest, StoreCredentials, StoreImport, StoreExport, StoreAdvanced,
         ReadAdvanced, FindSchedule, InsertSchedule, LinkSchedule, UnlinkSchedule,
         DeleteSchedule, SetState, RequestDies, expenseVars
<1>s. ASSUME NEW copy, CopySound(copy)
      PROVE  Required(copy.onboarding) \subseteq saved'
             /\ \A f \in Funds : copy.mark[f] \subseteq stored' \cup missed'
  BY <1>s, <1>e DEF CopySound
<1>1. \A q \in Requests : q # r => request'[q] = request[q]
  BY DEF RequestStep, StartRequest, StoreCredentials, StoreImport, StoreExport, StoreAdvanced,
         ReadAdvanced, FindSchedule, InsertSchedule, LinkSchedule, UnlinkSchedule,
         DeleteSchedule, SetState, RequestDies, Ended, Goto, ToState
<1> DEFINE Copied == (\E kind : request'[r].copy = CopyFor(kind)) \/ request'[r].copy \in {request[r].copy, NewRow}
           Stored == request'[r].step \notin {"idle", "store"} => request'[r].kind \in saved'
<1>2. Copied /\ Stored
  <2>1. CASE \E kind \in Settings : StartRequest(r, kind)
    BY <2>1, <1>c DEF StartRequest, CopiesSound, RequestState
  <2>2. CASE StoreCredentials(r)
    BY <2>2, <1>c DEF StoreCredentials, At, Ended, Goto, NoRequest, CopiesSound, RequestState
  <2>3. CASE StoreImport(r)
    BY <2>3, <1>c DEF StoreImport, At, Goto, CopiesSound, RequestState
  <2>4. CASE StoreExport(r)
    BY <2>4, <1>c DEF StoreExport, CopiesSound, RequestState
  <2>5. CASE \E enabled, realtime \in BOOLEAN : StoreAdvanced(r, enabled, realtime)
    BY <2>5, <1>c DEF StoreAdvanced, CopiesSound, RequestState
  <2>6. CASE ReadAdvanced(r)
    BY <2>6, <1>c DEF ReadAdvanced, At, CopiesSound, RequestState
  <2>7. CASE FindSchedule(r)
    BY <2>7, <1>c DEF FindSchedule, At, Ended, NoRequest, CopiesSound, RequestState
  <2>8. CASE InsertSchedule(r)
    BY <2>8, <1>c DEF InsertSchedule, At, CopiesSound, RequestState
  <2>9. CASE LinkSchedule(r)
    BY <2>9, <1>c DEF LinkSchedule, At, Ended, NoRequest, ToState, CopiesSound, RequestState
  <2>10. CASE UnlinkSchedule(r)
    BY <2>10, <1>c DEF UnlinkSchedule, At, Goto, CopiesSound, RequestState
  <2>11. CASE DeleteSchedule(r)
    BY <2>11, <1>c DEF DeleteSchedule, At, Ended, NoRequest, ToState, CopiesSound, RequestState
  <2>12. CASE SetState(r)
    BY <2>12, <1>c DEF SetState, Ended, NoRequest, CopiesSound, RequestState
  <2>13. CASE RequestDies(r)
    BY <2>13, <1>c DEF RequestDies, Ended, NoRequest, CopiesSound, RequestState
  <2> QED
    BY <2>1, <2>2, <2>3, <2>4, <2>5, <2>6, <2>7, <2>8, <2>9, <2>10, <2>11, <2>12, <2>13 DEF RequestStep
<1>3. CopySound(request'[r].copy)
  BY <1>2, CopyForSound, NewRowSound DEF CopiesSound
<1>4. request'[r].step \notin {"idle", "store"} => request'[r].kind \in saved'
  BY <1>2
<1>5. CopySound(workspace')
  <2>1. CASE SetState(r)
    <3>1. request[r].kind \in saved
      BY <2>1 DEF SetState, CopiesSound
    <3>2. CASE request[r].kind = "credentials"
      <4>1. workspace' = [request[r].copy EXCEPT !.onboarding = "EXPORT_SETTINGS"]
        BY <2>1, <3>2 DEF SetState, MovesOn
      <4>2. workspace'.mark = request[r].copy.mark /\ workspace'.onboarding = "EXPORT_SETTINGS"
        BY <4>1, <1>c DEF Row
      <4> QED
        BY <4>2, <3>1, <3>2 DEF CopiesSound, CopySound, Required
    <3>3. CASE request[r].kind # "credentials" /\ MovesOn(request[r].kind, request[r].copy.onboarding)
      <4>1. workspace' = [request[r].copy EXCEPT !.onboarding = NextState(request[r].copy.onboarding)]
        BY <2>1, <3>3 DEF SetState
      <4> QED
        BY <4>1, <3>1, <3>3, <1>c, MovedOn DEF CopiesSound
    <3>4. CASE request[r].kind # "credentials" /\ ~MovesOn(request[r].kind, request[r].copy.onboarding)
      BY <2>1, <3>4 DEF SetState, CopiesSound
    <3> QED
      BY <3>2, <3>3, <3>4
  <2>2. CASE ~SetState(r)
    BY <2>2 DEF CopiesSound, RequestStep, StartRequest, StoreCredentials, StoreImport, StoreExport,
         StoreAdvanced, ReadAdvanced, FindSchedule, InsertSchedule, LinkSchedule, UnlinkSchedule,
         DeleteSchedule, RequestDies
  <2> QED
    BY <2>1, <2>2
<1>6. \A q \in Requests : CopySound(request'[q].copy)
  BY <1>1, <1>3 DEF CopiesSound
<1>7. \A q \in Requests : request'[q].step \notin {"idle", "store"} => request'[q].kind \in saved'
  BY <1>1, <1>4, <1>e DEF CopiesSound
<1>8. \A w \in Workers : CopySound(worker'[w].copy)
  BY <1>e DEF CopiesSound
<1> HIDE DEF TypeOK
<1>9. CopySound(workspace)'
  BY <1>5, <1>s DEF CopySound
<1>10. ASSUME NEW q \in Requests PROVE CopySound(request[q].copy)'
  BY <1>6, <1>s DEF CopySound
<1>11. ASSUME NEW w \in Workers PROVE CopySound(worker[w].copy)'
  BY <1>8, <1>s DEF CopySound
<1> QED
  BY <1>7, <1>9, <1>10, <1>11 DEF CopiesSound

(* So does a worker; a new mark covers what it fetched, and what it missed. *)
LEMMA WorkerSound ==
    ASSUME TypeOK, CopiesSound, NEW w \in Workers, WorkerStep(w)
    PROVE  CopiesSound'
<1> USE DEF TypeOK
<1>c. worker[w] \in WorkerState /\ worker[w].copy \in Row /\ worker[w].fund \in Funds
  BY DEF WorkerState
<1>e. saved' = saved /\ request' = request /\ stored \subseteq stored' /\ missed \subseteq missed'
  BY DEF WorkerStep, StartImport, Fetch, CommitImport, ImportFails, StartLine, SaveLine, settingVars
<1>s. ASSUME NEW copy, CopySound(copy)
      PROVE  Required(copy.onboarding) \subseteq saved'
             /\ \A f \in Funds : copy.mark[f] \subseteq stored' \cup missed'
  BY <1>s, <1>e DEF CopySound
<1>1. \A v \in Workers : v # w => worker'[v] = worker[v]
  BY DEF WorkerStep, StartImport, Fetch, CommitImport, ImportFails, StartLine, SaveLine
<1>2. worker'[w].copy \in {worker[w].copy, workspace, NewRow}
  <2>1. Idle(w).copy = NewRow
    BY <1>c DEF Idle, WorkerState
  <2>2. CASE \E f \in Funds : StartImport(w, f)
    BY <2>2, <1>c DEF StartImport, WorkerState
  <2>3. CASE Fetch(w)
    BY <2>1, <2>3, <1>c DEF Fetch, WorkerState
  <2>4. CASE \E f \in Funds : CommitImport(w, f)
    BY <2>1, <2>4 DEF CommitImport
  <2>5. CASE ImportFails(w)
    BY <2>1, <2>5 DEF ImportFails
  <2>6. CASE StartLine(w)
    BY <2>6, <1>c DEF StartLine, WorkerState
  <2>7. CASE SaveLine(w)
    BY <2>1, <2>7 DEF SaveLine
  <2> QED
    BY <2>2, <2>3, <2>4, <2>5, <2>6, <2>7 DEF WorkerStep
<1>3. \A v \in Workers : CopySound(worker'[v].copy)
  BY <1>1, <1>2, NewRowSound DEF CopiesSound
<1>4. /\ Required(workspace'.onboarding) \subseteq saved'
      /\ \A f \in Funds : workspace'.mark[f] \subseteq stored' \cup missed'
  <2>1. CASE \E f \in Funds : CommitImport(w, f)
    <3>1. PICK f \in Funds : CommitImport(w, f)
      BY <2>1
    <3>2. workspace' = [worker[w].copy EXCEPT !.mark[f] = ApprovedOf(f)] /\ f = worker[w].fund
      BY <3>1 DEF CommitImport
    <3>3. workspace'.onboarding = worker[w].copy.onboarding
      BY <3>2, <1>c DEF Row
    <3>4. workspace'.mark = [worker[w].copy.mark EXCEPT ![f] = ApprovedOf(f)]
      BY <3>2, <1>c DEF Row
    <3>5. ApprovedOf(f) \subseteq stored' \cup missed'
      <4>1. ApprovedOf(f) \subseteq worker[w].copy.mark[f] \cup FetchedBy(w)
        BY <3>2 DEF FetchedBy
      <4>2. worker[w].copy.mark[f] \subseteq stored \cup missed
        BY DEF CopiesSound, CopySound
      <4> QED
        BY <3>1, <4>1, <4>2 DEF CommitImport
    <3>6. worker[w].copy.mark \in [Funds -> SUBSET Expenses]
      BY <1>c DEF Row
    <3>7. /\ Required(worker[w].copy.onboarding) \subseteq saved'
          /\ \A g \in Funds : worker[w].copy.mark[g] \subseteq stored' \cup missed'
      BY <1>s DEF CopiesSound
    <3> QED
      BY <3>3, <3>4, <3>5, <3>6, <3>7
  <2>2. CASE ~\E f \in Funds : CommitImport(w, f)
    <3>1. workspace' \in {workspace, worker[w].copy}
      BY <2>2 DEF WorkerStep, StartImport, Fetch, ImportFails, StartLine, SaveLine
    <3> QED
      BY <3>1, <1>s DEF CopiesSound
  <2> QED
    BY <2>1, <2>2
<1> HIDE DEF TypeOK
<1>5. CopySound(workspace)'
  BY <1>4 DEF CopySound
<1>6. ASSUME NEW q \in Requests PROVE CopySound(request[q].copy)'
  BY <1>e, <1>s DEF CopySound, CopiesSound
<1>7. ASSUME NEW v \in Workers PROVE CopySound(worker[v].copy)'
  BY <1>3, <1>s DEF CopySound
<1> QED
  BY <1>e, <1>5, <1>6, <1>7 DEF CopiesSound

(* The inductive invariant behind the two theorems. *)
LEMMA CopiesInvariant == Spec => []CopiesSound
<1>1. Init => CopiesSound
  BY NewRowSound DEF Init, CopiesSound, NoRequest
<1>2. TypeOK /\ CopiesSound /\ [Next]_vars => CopiesSound'
  <2> SUFFICES ASSUME TypeOK, CopiesSound, [Next]_vars PROVE CopiesSound'
    OBVIOUS
  <2>1. CASE (\E e \in Expenses : Approve(e)) \/ UNCHANGED vars
    BY <2>1 DEF CopiesSound, CopySound, Approve, settingVars, vars
  <2> QED
    BY <2>1, RequestSound, WorkerSound DEF Next
<1> QED
  BY <1>1, <1>2, TypeCorrect, PTL DEF Spec

(* In whatever order settings are posted and old copies are saved, the onboarding
   state is never ahead of the settings. *)
THEOREM OnboardedAlwaysConfigured == Spec => []OnboardedIsConfigured
<1>1. CopiesSound => OnboardedIsConfigured
  BY DEF CopiesSound, CopySound, OnboardedIsConfigured
<1> QED
  BY <1>1, CopiesInvariant, PTL

(* Whatever imports, lines and requests run side by side, a mark hides only what
   was imported, or approved while an import was fetching. *)
THEOREM MarkedAlwaysStored == Spec => []MarkedIsStored
<1>1. CopiesSound => MarkedIsStored
  BY DEF CopiesSound, CopySound, MarkedIsStored
<1> QED
  BY <1>1, CopiesInvariant, PTL
-----------------------------------------------------------------------------
(* The settings say that exports run on a schedule, and there is none. *)
Unscheduled == advanced.enabled /\ ~advanced.realtime /\ advanced.schedule \notin schedules

(* A request that links a schedule, unless it fails. *)
WillLink(r) ==
    /\ request[r].kind = "advanced"
    /\ \/ request[r].step = "read" /\ request[r].enabled
       \/ request[r].step \in {"find", "insert", "link"}

(* A request that unlinks the schedule does not save that exports run on one. *)
UnlinkHolds ==
    \A r \in Requests : At(r, "advanced", "unlink") =>
        ~request[r].enabled \/ request[r].own.realtime

ScheduleInv ==
    /\ Unscheduled /\ ~failed => \E r \in Requests : WillLink(r)
    /\ UnlinkHolds

(* What the statements of a request for advanced settings leave of it. *)
LEMMA AdvancedStepIs ==
    ASSUME TypeOK, NEW r \in Requests
    PROVE  /\ ReadAdvanced(r) =>
                IF request[r].enabled /\ ~advanced.realtime
                THEN request'[r].step = "find" /\ request'[r].kind = "advanced"
                ELSE request'[r].step = "unlink" =>
                        request'[r].enabled = request[r].enabled
                        /\ request'[r].own.realtime = advanced.realtime
           /\ FindSchedule(r) => failed' \/ (request'[r].step \in {"insert", "link"}
                                             /\ request'[r].kind = "advanced")
           /\ InsertSchedule(r) => request'[r].step = "link" /\ request'[r].kind = "advanced"
           /\ LinkSchedule(r) => /\ failed' \/ (advanced'.schedule \in schedules')
                                 /\ request'[r].step # "unlink"
           /\ UnlinkSchedule(r) => /\ advanced'.enabled = request[r].enabled
                                   /\ advanced'.realtime = request[r].own.realtime
                                   /\ request'[r].step # "unlink"
<1>1. request \in [Requests -> RequestState] /\ request[r] \in RequestState
      /\ request[r].own \in AdvancedRow /\ advanced \in AdvancedRow
  BY DEF TypeOK, RequestState
<1>2. ASSUME ReadAdvanced(r)
      PROVE  IF request[r].enabled /\ ~advanced.realtime
             THEN request'[r].step = "find" /\ request'[r].kind = "advanced"
             ELSE request'[r].step = "unlink" =>
                     request'[r].enabled = request[r].enabled
                     /\ request'[r].own.realtime = advanced.realtime
  <2>1. PICK q : q = CopyFor("advanced")
    OBVIOUS
  <2>2. PICK a : a = advanced
    OBVIOUS
  <2>3. CASE request[r].enabled /\ ~advanced.realtime
    <3>1. request'[r] = [request[r] EXCEPT !.copy = q, !.own = a, !.step = "find"]
      BY <1>1, <1>2, <2>1, <2>2, <2>3 DEF ReadAdvanced
    <3> QED
      BY <1>1, <1>2, <2>3, <3>1 DEF ReadAdvanced, At, RequestState
  <2>4. CASE ~(request[r].enabled /\ ~advanced.realtime) /\ advanced.schedule # None
    <3>1. request'[r] = [request[r] EXCEPT !.copy = q, !.own = a, !.step = "unlink"]
      BY <1>1, <1>2, <2>1, <2>2, <2>4 DEF ReadAdvanced
    <3> QED
      BY <1>1, <2>2, <2>4, <3>1 DEF RequestState
  <2>5. CASE ~(request[r].enabled /\ ~advanced.realtime) /\ advanced.schedule = None
    <3>1. PICK n : n = [[request[r] EXCEPT !.copy = q, !.own = a, !.step = "state"]
                           EXCEPT !.own = NoAdvanced, !.enabled = FALSE]
      OBVIOUS
    <3>2. request'[r] = n
      BY <1>1, <1>2, <2>1, <2>2, <2>5, <3>1 DEF ReadAdvanced
    <3>3. n.step = "state"
      BY <1>1, <3>1 DEF RequestState
    <3> QED
      BY <2>5, <3>2, <3>3
  <2> QED
    BY <2>3, <2>4, <2>5
<1>3. ASSUME FindSchedule(r)
      PROVE  failed' \/ (request'[r].step \in {"insert", "link"} /\ request'[r].kind = "advanced")
  <2>1. CASE Cardinality(schedules) > 1
    BY <1>3, <2>1 DEF FindSchedule
  <2>2. CASE ~(Cardinality(schedules) > 1) /\ schedules = {}
    BY <1>1, <1>3, <2>2 DEF FindSchedule, At, RequestState
  <2>3. CASE ~(Cardinality(schedules) > 1) /\ schedules # {}
    <3>1. PICK o : o = [request[r].own EXCEPT !.schedule = CHOOSE s \in schedules : TRUE]
      OBVIOUS
    <3>2. request'[r] = [request[r] EXCEPT !.step = "link", !.own = o]
      BY <1>1, <1>3, <2>3, <3>1 DEF FindSchedule, RequestState
    <3> QED
      BY <1>1, <1>3, <3>2 DEF FindSchedule, At, RequestState
  <2> QED
    BY <2>1, <2>2, <2>3
<1>4. ASSUME InsertSchedule(r)
      PROVE  request'[r].step = "link" /\ request'[r].kind = "advanced"
  <2>1. PICK o : o = [request[r].own EXCEPT !.schedule = CHOOSE s \in Unused(r) : TRUE]
    OBVIOUS
  <2>2. request'[r] = [request[r] EXCEPT !.own = o, !.step = "link"]
    BY <1>1, <1>4, <2>1 DEF InsertSchedule, RequestState
  <2> QED
    BY <1>1, <1>4, <2>2 DEF InsertSchedule, At, RequestState
<1>5. ASSUME LinkSchedule(r)
      PROVE  failed' \/ advanced'.schedule \in schedules'
  <2>1. CASE request[r].own.schedule \in schedules
    BY <1>1, <1>5, <2>1 DEF LinkSchedule, AdvancedRow
  <2>2. CASE request[r].own.schedule \notin schedules
    BY <1>5, <2>2 DEF LinkSchedule
  <2> QED
    BY <2>1, <2>2
<1>6. LinkSchedule(r) => request'[r].step # "unlink"
  BY <1>1 DEF LinkSchedule, ToState, Ended, NoRequest, RequestState
<1>7. ASSUME UnlinkSchedule(r)
      PROVE  /\ advanced'.enabled = request[r].enabled
             /\ advanced'.realtime = request[r].own.realtime
             /\ request'[r].step # "unlink"
  <2>1. PICK b : b = request[r].enabled
    OBVIOUS
  <2>2. advanced' = [request[r].own EXCEPT !.enabled = b, !.schedule = None]
    BY <1>7, <2>1 DEF UnlinkSchedule, Unlinked
  <2>3. advanced'.enabled = b /\ advanced'.realtime = request[r].own.realtime
    BY <1>1, <2>2 DEF AdvancedRow
  <2> QED
    BY <1>1, <1>7, <2>1, <2>3 DEF UnlinkSchedule, Goto, RequestState
<1> QED
  BY <1>2, <1>3, <1>4, <1>5, <1>6, <1>7

(* Every statement of a request leaves one that will link, where it is needed. *)
LEMMA RequestSchedules ==
    ASSUME TypeOK, ScheduleInv, NEW r \in Requests, RequestStep(r)
    PROVE  ScheduleInv'
<1>1. request \in [Requests -> RequestState] /\ request[r] \in RequestState
      /\ advanced \in AdvancedRow
  BY DEF TypeOK
<1>2. \A q \in Requests : q # r => request'[q] = request[q]
  BY <1>1 DEF RequestStep, StartRequest, StoreCredentials, StoreImport, StoreExport, StoreAdvanced,
         ReadAdvanced, FindSchedule, InsertSchedule, LinkSchedule, UnlinkSchedule,
         DeleteSchedule, SetState, RequestDies, Ended, Goto, ToState
<1>3. ASSUME request'[r].step # "unlink" \/ ~request'[r].enabled \/ request'[r].own.realtime
      PROVE  UnlinkHolds'
  BY <1>2, <1>3 DEF ScheduleInv, UnlinkHolds, At
<1>4. ASSUME Unscheduled, failed' => failed, ~WillLink(r) \/ WillLink(r)'
      PROVE  ~failed' => \E q \in Requests : WillLink(q)'
  <2> SUFFICES ASSUME ~failed' PROVE \E q \in Requests : WillLink(q)'
    OBVIOUS
  <2>1. CASE failed
    BY <2>1 DEF RequestStep, StartRequest, StoreCredentials, StoreImport, StoreExport, StoreAdvanced,
         ReadAdvanced, FindSchedule, InsertSchedule, LinkSchedule, UnlinkSchedule,
         DeleteSchedule, SetState, RequestDies
  <2>2. CASE ~failed
    <3>1. PICK q \in Requests : WillLink(q)
      BY <1>4, <2>2 DEF ScheduleInv
    <3>2. q # r => WillLink(q)'
      BY <1>2, <3>1 DEF WillLink
    <3> QED
      BY <1>4, <3>1, <3>2
  <2> QED
    BY <2>1, <2>2
<1>5. CASE StoreCredentials(r) \/ StoreImport(r) \/ StoreExport(r) \/ SetState(r)
           \/ \E kind \in Settings : StartRequest(r, kind)
  <2>1. UNCHANGED <<advanced, schedules, failed>>
    BY <1>5 DEF StoreCredentials, StoreImport, StoreExport, SetState, StartRequest, MovesOn
  <2>2. ~WillLink(r)
    BY <1>5 DEF StoreCredentials, StoreImport, StoreExport, SetState, StartRequest, Starts, At, WillLink
  <2>3. request'[r].step # "unlink"
    <3>1. CASE \E kind \in Settings : StartRequest(r, kind)
      BY <1>1, <3>1 DEF StartRequest, RequestState
    <3>2. CASE StoreCredentials(r) \/ StoreImport(r)
      BY <1>1, <3>2 DEF StoreCredentials, StoreImport, Ended, Goto, NoRequest, RequestState
    <3>3. CASE StoreExport(r)
      BY <1>1, <3>3 DEF StoreExport, RequestState
    <3>4. CASE SetState(r)
      <4>1. Ended(r)
        BY <3>4 DEF SetState
      <4> QED
        BY <1>1, <4>1 DEF Ended, NoRequest
    <3> QED
      BY <1>5, <3>1, <3>2, <3>3, <3>4
  <2>4. Unscheduled' => Unscheduled
    BY <2>1 DEF Unscheduled
  <2> QED
    BY <1>3, <1>4, <2>1, <2>2, <2>3, <2>4 DEF ScheduleInv
<1>6. CASE \E enabled, realtime \in BOOLEAN : StoreAdvanced(r, enabled, realtime)
  <2>1. PICK enabled \in BOOLEAN, realtime \in BOOLEAN : StoreAdvanced(r, enabled, realtime)
    BY <1>6
  <2>2. /\ request'[r].kind = "advanced" /\ request'[r].step = "read"
        /\ request'[r].enabled = enabled /\ advanced'.enabled = enabled
    BY <1>1, <2>1 DEF StoreAdvanced, RequestState, AdvancedRow
  <2> QED
    BY <1>3, <2>2 DEF ScheduleInv, Unscheduled, WillLink
<1>7. CASE ReadAdvanced(r)
  <2>1. UNCHANGED <<advanced, schedules, failed>>
    BY <1>7 DEF ReadAdvanced
  <2>2. UnlinkHolds'
    BY <1>3, <1>7, AdvancedStepIs
  <2>3. Unscheduled => ~WillLink(r) \/ WillLink(r)'
    BY <1>7, AdvancedStepIs DEF Unscheduled, WillLink, ReadAdvanced, At
  <2> QED
    BY <1>4, <2>1, <2>2, <2>3 DEF ScheduleInv, Unscheduled
<1>8. CASE FindSchedule(r)
  <2>1. UNCHANGED <<advanced, schedules>>
    BY <1>8 DEF FindSchedule
  <2>2. UnlinkHolds'
    <3>1. request'[r].step # "unlink"
      BY <1>1, <1>8 DEF FindSchedule, Ended, NoRequest, RequestState
    <3> QED
      BY <1>3, <3>1
  <2>3. failed' \/ WillLink(r)'
    BY <1>8, AdvancedStepIs DEF WillLink
  <2> QED
    BY <2>2, <2>3 DEF ScheduleInv
<1>9. CASE InsertSchedule(r)
  <2>1. request'[r].step = "link" /\ request'[r].kind = "advanced"
    BY <1>9, AdvancedStepIs
  <2> QED
    BY <1>3, <2>1 DEF ScheduleInv, WillLink
<1>10. CASE LinkSchedule(r)
  <2>1. (failed' \/ advanced'.schedule \in schedules') /\ request'[r].step # "unlink"
    BY <1>10, AdvancedStepIs
  <2> QED
    BY <1>3, <2>1 DEF ScheduleInv, Unscheduled
<1>11. CASE UnlinkSchedule(r)
  <2>1. /\ advanced'.enabled = request[r].enabled
        /\ advanced'.realtime = request[r].own.realtime
        /\ request'[r].step # "unlink"
    BY <1>11, AdvancedStepIs
  <2>2. ~request[r].enabled \/ request[r].own.realtime
    BY <1>11 DEF UnlinkSchedule, ScheduleInv, UnlinkHolds
  <2> QED
    BY <1>3, <2>1, <2>2 DEF ScheduleInv, Unscheduled
<1>12. CASE DeleteSchedule(r)
  <2>1. request'[r].step # "unlink" /\ ~WillLink(r)
    BY <1>1, <1>12 DEF DeleteSchedule, At, Ended, ToState, NoRequest, RequestState, WillLink
  <2>2. CASE advanced.schedule = request[r].own.schedule
    BY <1>3, <1>12, <2>1, <2>2 DEF DeleteSchedule, ScheduleInv
  <2>3. CASE advanced.schedule # request[r].own.schedule
    <3>1. schedules' = schedules \ {request[r].own.schedule} /\ UNCHANGED <<advanced, failed>>
      BY <1>12, <2>3 DEF DeleteSchedule
    <3>2. Unscheduled' => Unscheduled
      BY <2>3, <3>1 DEF Unscheduled
    <3> QED
      BY <1>3, <1>4, <2>1, <3>1, <3>2 DEF ScheduleInv
  <2> QED
    BY <2>2, <2>3
<1>13. CASE RequestDies(r)
  <2>1. UNCHANGED <<advanced, schedules>> /\ request'[r].step # "unlink"
        /\ failed' = (failed \/ request[r].kind = "advanced")
    BY <1>1, <1>13 DEF RequestDies, Ended, NoRequest
  <2>2. Unscheduled' = Unscheduled
    BY <2>1 DEF Unscheduled
  <2>3. CASE request[r].kind = "advanced"
    BY <1>3, <2>1, <2>3 DEF ScheduleInv
  <2>4. CASE request[r].kind # "advanced"
    BY <1>3, <1>4, <2>1, <2>2, <2>4 DEF ScheduleInv, WillLink
  <2> QED
    BY <2>3, <2>4
<1> QED
  BY <1>5, <1>6, <1>7, <1>8, <1>9, <1>10, <1>11, <1>12, <1>13 DEF RequestStep

(* Once the requests are done and none has failed, exports that are to run on a
   schedule have it, whatever number of requests ran side by side. *)
THEOREM EnabledAlwaysScheduled == Spec => []EnabledIsScheduled
<1>1. Init => ScheduleInv
  BY DEF Init, NoAdvanced, NoRequest, ScheduleInv, Unscheduled, UnlinkHolds, At
<1>2. TypeOK /\ ScheduleInv /\ [Next]_vars => ScheduleInv'
  <2> SUFFICES ASSUME TypeOK, ScheduleInv, [Next]_vars PROVE ScheduleInv'
    OBVIOUS
  <2>1. CASE UNCHANGED <<advanced, schedules, request, failed>>
    BY <2>1 DEF ScheduleInv, Unscheduled, WillLink, UnlinkHolds, At
  <2>2. (\E e \in Expenses : Approve(e)) \/ (\E w \in Workers : WorkerStep(w)) \/ UNCHANGED vars
        => UNCHANGED <<advanced, schedules, request, failed>>
    BY DEF Approve, WorkerStep, StartImport, Fetch, CommitImport, ImportFails, StartLine,
           SaveLine, settingVars, vars
  <2> QED
    BY <2>1, <2>2, RequestSchedules DEF Next
<1>3. ScheduleInv => EnabledIsScheduled
  BY DEF ScheduleInv, Unscheduled, WillLink, EnabledIsScheduled, Quiet
<1> QED
  BY <1>1, <1>2, <1>3, TypeCorrect, PTL DEF Spec
----------------------------------------------------------------------------
(***************************************************************************)
(* Dependent fields                                                        *)
(*                                                                         *)
(*   - FieldTypes: types, and names of rows are versions;                  *)
(*   - MarkInv: no version is above the clock, none fetched is lost;       *)
(*   - ImportInv: what an import has read and not yet sent is in a batch   *)
(*     to come, unless a batch has failed; what is marked is in Fyle.      *)
(***************************************************************************)

(* A version is newest among finitely many. *)
LEMMA NewestIs ==
    ASSUME NEW M \in Nat, NEW x \in 0 .. M, NEW V \in SUBSET (0 .. M)
    PROVE  /\ Newest(x, V) \in V \cup {x}
           /\ \A w \in V \cup {x} : w <= Newest(x, V)
<1> DEFINE S == V \cup {x}
           Above(v) == {w \in S : v <= w}
           B == {Above(v) : v \in S}
<1>1. IsFiniteSet(S) /\ S \subseteq Nat
  <2>1. IsFiniteSet(0 .. M)
    BY FS_Interval
  <2>2. S \subseteq 0 .. M /\ 0 .. M \subseteq Nat
    OBVIOUS
  <2> QED BY <2>1, <2>2, FS_Subset
<1>2. IsWellFoundedOn(StrictSubsetOrdering(S), SUBSET S)
  BY <1>1, FS_StrictSubsetOrderingWellFounded, FS_FiniteSubsetsOfFinite
<1>3. B \subseteq SUBSET S /\ B # {}
  OBVIOUS
<1>4. PICK T \in B : \A U \in B : <<U, T>> \notin StrictSubsetOrdering(S)
  <2> HIDE DEF B
  <2> QED BY <1>2, <1>3, WFMin
<1>5. PICK v \in S : T = Above(v)
  OBVIOUS
<1>6. ASSUME NEW w \in S, ~(w <= v)
      PROVE  FALSE
  <2>1. v \in Nat /\ w \in Nat /\ \A u \in S : u \in Nat
    BY <1>1
  <2>2. Above(w) \subseteq T /\ v \in T /\ v \notin Above(w)
    <3>1. \A u \in S : w <= u => v <= u
      BY <1>6, <2>1
    <3>2. \A u \in Above(w) : u \in Above(v)
      BY <3>1
    <3>3. v \in Above(v) /\ v \notin Above(w)
      BY <1>6, <2>1
    <3> HIDE DEF Above
    <3> QED BY <1>5, <3>2, <3>3
  <2>3. <<Above(w), T>> \in StrictSubsetOrdering(S)
    BY <1>5, <2>2 DEF StrictSubsetOrdering
  <2> QED BY <1>4, <2>3
<1>7. v \in V \cup {x} /\ \A w \in V \cup {x} : w <= v
  BY <1>6
<1> QED BY <1>7 DEF Newest

(* The newest version of some records is a version, no older than theirs. *)
LEMMA NewestOfType ==
    ASSUME NEW M \in Nat, NEW x \in 0 .. M, NEW V \in SUBSET (0 .. M)
    PROVE  Newest(x, V) \in 0 .. M
BY NewestIs
----------------------------------------------------------------------------
(***************************************************************************)
(* Types                                                                   *)
(***************************************************************************)

\* Names of rows, and what an import has read of them, are versions.
Versioned ==
    \A c \in Cats : row[c].name \in 0 .. MaxVersion /\ importer.snap[c] \in 0 .. MaxVersion
FieldTypes == FieldsTypeOK /\ Versioned

(* A category has a job and the name of a cost code. *)
LEMMA Belongs ==
    ASSUME NEW c \in Cats
    PROVE  CodeOf[c] \in Codes /\ JobOfCat(c) \in Jobs /\ NameOfCat(c) \in Names
BY RecordsAssumption DEF JobOfCat, NameOfCat

(* The rows of a cost code, once they are marked. *)
LEMMA MarkedIs ==
    ASSUME FieldTypes, NEW n
    PROVE  /\ Marked(n) \in [Cats -> CategoryRow]
           /\ \A c \in Cats :
                /\ Marked(n)[c].name = row[c].name
                /\ IF c \in Rows /\ NameOfCat(c) = n
                   THEN Marked(n)[c].imported /\ Marked(n)[c].fresh
                   ELSE Marked(n)[c] = row[c]
BY DEF FieldTypes, FieldsTypeOK, Marked, CategoryRow

(* The rows of renamed jobs, once they are touched. *)
LEMMA TouchedIs ==
    ASSUME FieldTypes, NEW J
    PROVE  /\ Touched(J) \in [Cats -> CategoryRow]
           /\ \A c \in Cats :
                /\ Touched(J)[c].name = row[c].name
                /\ Touched(J)[c].imported = row[c].imported
                /\ IF c \in Rows /\ JobOfCat(c) \in J
                   THEN Touched(J)[c].fresh ELSE Touched(J)[c] = row[c]
BY DEF FieldTypes, FieldsTypeOK, Touched, CategoryRow

(* A row that is synced has the name Sage has. *)
LEMMA SyncedIs ==
    ASSUME FieldTypes, NEW c \in Cats
    PROVE  /\ Synced(c) \in CategoryRow /\ Synced(c).name = sage[c] /\ sage[c] \in 0 .. MaxVersion
           /\ Synced(c).imported = row[c].imported /\ Synced(c).fresh
<1>1. row[c] \in CategoryRow /\ sage[c] \in 0 .. MaxVersion /\ sage[c] \in Nat
  BY BoundsAssumption DEF FieldTypes, FieldsTypeOK, Records
<1> QED BY <1>1 DEF Synced, CategoryRow

(* A step that leaves the importer what it is, or ends it, and rows with versions
   for names. *)
LEMMA VersionedStays ==
    ASSUME FieldTypes, importer' \in {importer, IdleImporter},
           \A c \in Cats : row'[c].name \in 0 .. MaxVersion
    PROVE  Versioned' /\ importer' \in ImporterState
<1>1. IdleImporter \in ImporterState /\ \A c \in Cats : IdleImporter.snap[c] \in 0 .. MaxVersion
  BY BoundsAssumption DEF IdleImporter, ImporterState, NothingRead
<1> QED BY <1>1 DEF FieldTypes, FieldsTypeOK, Versioned

(* Records entered or renamed in Sage. *)
LEMMA SageType ==
    ASSUME FieldTypes, NEW x \in Records, SageWrites(x), active' \subseteq Jobs
    PROVE  FieldTypes'
<1>1. sage' \in [Records -> 0 .. MaxVersion] /\ clock' \in 0 .. MaxVersion
  BY BoundsAssumption DEF SageWrites, FieldTypes, FieldsTypeOK
<1> QED BY <1>1 DEF SageWrites, syncVars, FieldTypes, FieldsTypeOK, Versioned

(* The jobs of a sync. *)
LEMMA SyncJobsType ==
    ASSUME FieldTypes, SyncJobs
    PROVE  FieldTypes'
<1> DEFINE seen == {j \in Jobs : sage[j] > mark.job /\ j \in active}
           renamed == {j \in seen : known[j] # 0}
           versions == {known'[j] : j \in Jobs}
<1>1. known' = [x \in Jobs \cup Codes |-> IF x \in seen THEN sage[x] ELSE known[x]]
  BY DEF SyncJobs
<1>2. known' \in [Jobs \cup Codes -> 0 .. MaxVersion]
  BY <1>1 DEF FieldTypes, FieldsTypeOK, Records
<1>3. versions \in SUBSET (0 .. MaxVersion)
  BY <1>2
<1>4. Newest(0, versions) \in 0 .. MaxVersion
  BY <1>3, NewestOfType, BoundsAssumption
<1>5. mark' = [mark EXCEPT !.job = Newest(0, versions)]
  BY DEF SyncJobs
<1>6. mark' \in [job : 0 .. MaxVersion, code : 0 .. MaxVersion, cat : 0 .. MaxVersion]
  BY <1>4, <1>5 DEF FieldTypes, FieldsTypeOK
<1>7. row' = Touched(renamed)
  BY DEF SyncJobs
<1>8. row' \in [Cats -> CategoryRow] /\ \A c \in Cats : row'[c].name = row[c].name
  BY <1>7, TouchedIs
<1>9. Versioned'
  BY <1>8, VersionedStays DEF SyncJobs, FieldTypes, Versioned
<1>10. projects' \subseteq Jobs /\ codes' \subseteq Codes /\ gaps' \subseteq Cats
  BY DEF SyncJobs, FieldTypes, FieldsTypeOK, Rows
<1> QED BY <1>2, <1>6, <1>8, <1>9, <1>10 DEF SyncJobs, sageVars, FieldTypes, FieldsTypeOK

(* Its cost codes. *)
LEMMA SyncCostCodesType ==
    ASSUME FieldTypes, SyncCostCodes
    PROVE  FieldTypes'
<1> DEFINE seen == {k \in Codes : sage[k] > mark.code /\ known[JobOf[k]] # 0}
           versions == {known'[k] : k \in Codes}
<1>1. known' = [x \in Jobs \cup Codes |-> IF x \in seen THEN sage[x] ELSE known[x]]
  BY DEF SyncCostCodes
<1>2. known' \in [Jobs \cup Codes -> 0 .. MaxVersion]
  BY <1>1 DEF FieldTypes, FieldsTypeOK, Records
<1>3. versions \in SUBSET (0 .. MaxVersion)
  BY <1>2
<1>4. Newest(0, versions) \in 0 .. MaxVersion
  BY <1>3, NewestOfType, BoundsAssumption
<1>5. mark' = [mark EXCEPT !.code = Newest(0, versions)]
  BY DEF SyncCostCodes
<1>6. mark' \in [job : 0 .. MaxVersion, code : 0 .. MaxVersion, cat : 0 .. MaxVersion]
  BY <1>4, <1>5 DEF FieldTypes, FieldsTypeOK
<1> QED BY <1>2, <1>6 DEF SyncCostCodes, sageVars, fyleVars, FieldTypes, FieldsTypeOK, Versioned

(* What the sync of cost categories fetches and stores. *)
Fetched == {c \in Cats : sage[c] > mark.cat}
Stored == {c \in Fetched : known[CodeOf[c]] # 0}

(* The rows and the mark after a sync of cost categories. *)
LEMMA CategoriesSynced ==
    ASSUME FieldTypes, SyncCostCategories
    PROVE  /\ row' \in [Cats -> CategoryRow]
           /\ \A c \in Cats : row'[c] = IF c \in Stored THEN Synced(c) ELSE row[c]
           /\ mark' = [mark EXCEPT !.cat = Newest(mark.cat, {sage[c] : c \in Fetched})]
           /\ mark'.cat \in 0 .. MaxVersion
           /\ mark'.cat \in {sage[c] : c \in Fetched} \cup {mark.cat}
           /\ \A c \in Cats : sage[c] <= mark'.cat
           /\ mark.cat <= mark'.cat
<1>1. row' = [c \in Cats |-> IF c \in Stored THEN Synced(c) ELSE row[c]]
  BY DEF SyncCostCategories, Fetched, Stored
<1>2. row' \in [Cats -> CategoryRow]
  BY <1>1, SyncedIs DEF FieldTypes, FieldsTypeOK, Stored, Fetched
<1>3. mark' = [mark EXCEPT !.cat = Newest(mark.cat, {sage[c] : c \in Fetched})]
  BY DEF SyncCostCategories, Fetched
<1> DEFINE versions == {sage[c] : c \in Fetched}
<1>4. versions \in SUBSET (0 .. MaxVersion) /\ mark.cat \in 0 .. MaxVersion
      /\ mark'.cat = Newest(mark.cat, versions)
  BY <1>3 DEF FieldTypes, FieldsTypeOK, Records, Fetched
<1> HIDE DEF versions
<1>5. /\ mark'.cat \in versions \cup {mark.cat}
      /\ \A w \in versions \cup {mark.cat} : w <= mark'.cat
  BY <1>4, NewestIs, BoundsAssumption
<1>6. mark'.cat \in 0 .. MaxVersion
  BY <1>4, <1>5
<1>7. \A c \in Cats : sage[c] <= mark'.cat
  <2> SUFFICES ASSUME NEW c \in Cats PROVE sage[c] <= mark'.cat
    OBVIOUS
  <2>1. sage[c] \in Nat /\ mark.cat \in Nat /\ mark'.cat \in Nat
    BY <1>4, <1>6 DEF FieldTypes, FieldsTypeOK, Records
  <2>2. CASE sage[c] > mark.cat
    BY <1>5, <2>2 DEF versions, Fetched
  <2> QED BY <1>5, <2>1, <2>2
<1> QED BY <1>1, <1>2, <1>3, <1>5, <1>6, <1>7 DEF versions

(* Its cost categories. *)
LEMMA SyncCostCategoriesType ==
    ASSUME FieldTypes, SyncCostCategories
    PROVE  FieldTypes'
<1>1. row' \in [Cats -> CategoryRow] /\ mark'.cat \in 0 .. MaxVersion
  BY CategoriesSynced
<1>2. mark' \in [job : 0 .. MaxVersion, code : 0 .. MaxVersion, cat : 0 .. MaxVersion]
  BY <1>1, CategoriesSynced DEF FieldTypes, FieldsTypeOK
<1>3. \A c \in Cats : row'[c].name \in 0 .. MaxVersion
  BY CategoriesSynced, SyncedIs DEF FieldTypes, Versioned
<1>4. Versioned'
  BY <1>3, VersionedStays DEF SyncCostCategories
<1>5. dropped' \subseteq Cats /\ gaps' \subseteq Cats
  BY DEF SyncCostCategories, FieldTypes, FieldsTypeOK
<1> QED BY <1>1, <1>2, <1>4, <1>5
           DEF SyncCostCategories, sageVars, fyleVars, FieldTypes, FieldsTypeOK

(* A step of the sync that fails. *)
LEMMA SyncStepFailsType ==
    ASSUME FieldTypes, SyncStepFails
    PROVE  FieldTypes'
BY DEF SyncStepFails, sageVars, fyleVars, FieldTypes, FieldsTypeOK, Versioned

(* A project imported to Fyle. *)
LEMMA ImportProjectType ==
    ASSUME FieldTypes, NEW j \in Jobs, ImportProject(j)
    PROVE  FieldTypes'
BY DEF ImportProject, sageVars, syncVars, FieldTypes, FieldsTypeOK, Versioned

(* The first query of an import, of cost codes. *)
LEMMA QueryCostCodesType ==
    ASSUME FieldTypes, QueryCostCodes
    PROVE  FieldTypes'
<1> DEFINE read == [c \in Cats |-> IF c \in FreshRows THEN row[c].name ELSE 0]
           found == {JobOfCat(c) : c \in FreshRows} \cap projects
<1>1. importer' = [IdleImporter EXCEPT !.pc = "codes", !.snap = read, !.jobs = found]
  BY DEF QueryCostCodes
<1>2. read \in [Cats -> Nat] /\ \A c \in Cats : read[c] \in 0 .. MaxVersion
  BY BoundsAssumption DEF FieldTypes, FieldsTypeOK, Versioned, CategoryRow
<1>3. found \subseteq Jobs
  BY DEF FieldTypes, FieldsTypeOK
<1> HIDE DEF read, found
<1>4. importer' = [pc |-> "codes", snap |-> read, jobs |-> found, names |-> {},
                   errored |-> FALSE]
  BY <1>1 DEF IdleImporter
<1>5. importer' \in ImporterState /\ importer'.snap = read
  BY <1>2, <1>3, <1>4 DEF ImporterState
<1>6. gaps' \subseteq Cats
  BY DEF QueryCostCodes, FieldTypes, FieldsTypeOK, FreshRows, Rows
<1>7. Versioned'
  BY <1>2, <1>5 DEF QueryCostCodes, FieldTypes, Versioned
<1> QED BY <1>5, <1>6, <1>7
        DEF QueryCostCodes, sageVars, syncVars, fyleVars, FieldTypes, FieldsTypeOK

(* The second, of cost categories. *)
LEMMA QueryCostTypesType ==
    ASSUME FieldTypes, QueryCostTypes
    PROVE  FieldTypes'
<1> DEFINE chosen == {c \in FreshRows : /\ ~row[c].imported
                                        /\ \/ importer.names = {}
                                           \/ NameOfCat(c) \in importer.names}
           read == [c \in Cats |-> IF c \in chosen THEN row[c].name ELSE 0]
           called == {NameOfCat(c) : c \in chosen}
<1>1. importer' = [importer EXCEPT !.pc = "types", !.snap = read, !.names = called]
  BY DEF QueryCostTypes
<1>2. read \in [Cats -> Nat] /\ \A c \in Cats : read[c] \in 0 .. MaxVersion
  BY BoundsAssumption DEF FieldTypes, FieldsTypeOK, Versioned, CategoryRow
<1>3. called \subseteq Names
  BY Belongs DEF FreshRows, Rows
<1> HIDE DEF read, called
<1>4. importer' \in ImporterState /\ importer'.snap = read
  BY <1>1, <1>2, <1>3 DEF ImporterState, FieldTypes, FieldsTypeOK
<1>5. Versioned'
  BY <1>2, <1>4 DEF QueryCostTypes, FieldTypes, Versioned
<1> QED BY <1>4, <1>5 DEF QueryCostTypes, sageVars, syncVars, fyleVars, FieldTypes, FieldsTypeOK

(* A batch of cost codes, taken or refused. *)
LEMMA CostCodesType ==
    ASSUME FieldTypes, NEW j \in Jobs, PostCostCodes(j) \/ CostCodesFail(j)
    PROVE  FieldTypes'
<1> DEFINE batch == {CodeOf[c] : c \in {d \in Cats : importer.snap[d] # 0 /\ JobOfCat(d) = j}}
<1>1. batch \subseteq Codes /\ {NameOf[k] : k \in batch} \subseteq Names
  BY RecordsAssumption
<1>2. CASE PostCostCodes(j)
  <2>1. codes' = codes \cup batch
        /\ importer' = [importer EXCEPT !.jobs = @ \ {j},
                                        !.names = @ \cup {NameOf[k] : k \in batch}]
    BY <1>2 DEF PostCostCodes
  <2> HIDE DEF batch
  <2>2. codes' \subseteq Codes /\ importer' \in ImporterState /\ importer'.snap = importer.snap
    BY <1>1, <2>1 DEF ImporterState, FieldTypes, FieldsTypeOK
  <2> QED BY <1>2, <2>2 DEF PostCostCodes, sageVars, syncVars, FieldTypes, FieldsTypeOK, Versioned
<1>3. CASE CostCodesFail(j)
  <2>1. importer' \in ImporterState /\ importer'.snap = importer.snap
    BY <1>3 DEF CostCodesFail, ImporterState, FieldTypes, FieldsTypeOK
  <2> QED BY <1>3, <2>1
             DEF CostCodesFail, sageVars, syncVars, fyleVars, FieldTypes, FieldsTypeOK, Versioned
<1> QED BY <1>2, <1>3

(* A batch of cost categories, taken or refused, here or of another workspace. *)
LEMMA CostTypesType ==
    ASSUME FieldTypes, NEW n, PostCostTypes(n) \/ CostTypesFail(n) \/ OtherWorkspacePosts(n)
    PROVE  FieldTypes'
<1>1. Marked(n) \in [Cats -> CategoryRow] /\ \A c \in Cats : Marked(n)[c].name = row[c].name
  BY MarkedIs
<1>2. CASE PostCostTypes(n)
  <2>1. importer' \in ImporterState /\ importer'.snap = importer.snap
    BY <1>2 DEF PostCostTypes, ImporterState, FieldTypes, FieldsTypeOK
  <2>2. posted' \in [Cats -> 0 .. MaxVersion]
    BY <1>2 DEF PostCostTypes, FieldTypes, FieldsTypeOK, Versioned
  <2> QED BY <1>1, <1>2, <2>1, <2>2
          DEF PostCostTypes, sageVars, syncVars, FieldTypes, FieldsTypeOK, Versioned
<1>3. CASE CostTypesFail(n)
  <2>1. importer' \in ImporterState /\ importer'.snap = importer.snap
    BY <1>3 DEF CostTypesFail, ImporterState, FieldTypes, FieldsTypeOK
  <2> QED BY <1>3, <2>1
             DEF CostTypesFail, sageVars, syncVars, fyleVars, FieldTypes, FieldsTypeOK, Versioned
<1>4. CASE OtherWorkspacePosts(n)
  <2>1. gaps' \subseteq Cats
    BY <1>4 DEF OtherWorkspacePosts, FieldTypes, FieldsTypeOK, Rows
  <2> QED BY <1>1, <1>4, <2>1
          DEF OtherWorkspacePosts, sageVars, syncVars, fyleVars, FieldTypes, FieldsTypeOK, Versioned
<1> QED BY <1>2, <1>3, <1>4

(* An import that ends, or breaks off. *)
LEMMA ImportEndsType ==
    ASSUME FieldTypes, FinishImport \/ ImportAborts
    PROVE  FieldTypes'
<1> DEFINE settled == [c \in Cats |-> [row[c] EXCEPT !.fresh = FALSE]]
<1>1. row \in [Cats -> CategoryRow]
  BY DEF FieldTypes, FieldsTypeOK
<1>2. \A c \in Cats : /\ [row[c] EXCEPT !.fresh = FALSE] \in CategoryRow
                       /\ settled[c].name = row[c].name
  BY <1>1 DEF CategoryRow
<1>3. row' \in {row, settled}
  BY DEF FinishImport, ImportAborts
<1>4. row' \in [Cats -> CategoryRow] /\ \A c \in Cats : row'[c].name = row[c].name
  BY <1>1, <1>2, <1>3
<1>5. Versioned' /\ importer' \in ImporterState
  BY <1>4, VersionedStays DEF FinishImport, ImportAborts, FieldTypes, Versioned
<1>6. aborts' \in 0 .. MaxAborts
  BY BoundsAssumption DEF FinishImport, ImportAborts, FieldTypes, FieldsTypeOK
<1> QED BY <1>4, <1>5, <1>6
        DEF FinishImport, ImportAborts, sageVars, syncVars, fyleVars, FieldTypes, FieldsTypeOK

(* The start: nothing is stored here, and Sage has the records it has. *)
LEMMA InitType ==
    ASSUME FieldsInit
    PROVE  FieldTypes
<1>1. sage \in [Records -> 0 .. MaxVersion]
  BY RecordsAssumption DEF FieldsInit, Records
<1>2. {sage[x] : x \in Records} \in SUBSET (0 .. MaxVersion)
  BY <1>1
<1>3. clock \in 0 .. MaxVersion
  BY <1>2, NewestOfType, BoundsAssumption DEF FieldsInit
<1>4. importer \in ImporterState /\ \A c \in Cats : importer.snap[c] = 0
  BY DEF FieldsInit, IdleImporter, ImporterState, NothingRead
<1>5. row \in [Cats -> CategoryRow] /\ \A c \in Cats : row[c].name = 0
  BY DEF FieldsInit, NoRow, CategoryRow
<1>6. Versioned
  BY <1>4, <1>5, BoundsAssumption DEF Versioned
<1>7. active \subseteq Jobs /\ syncer = "idle" /\ projects = {} /\ codes = {}
      /\ dropped = {} /\ gaps = {}
  BY DEF FieldsInit
<1>8. 0 \in 0 .. MaxVersion /\ aborts \in 0 .. MaxAborts
  BY BoundsAssumption DEF FieldsInit
<1>9. mark \in [job : 0 .. MaxVersion, code : 0 .. MaxVersion, cat : 0 .. MaxVersion]
      /\ known \in [Jobs \cup Codes -> 0 .. MaxVersion] /\ posted \in [Cats -> 0 .. MaxVersion]
  BY <1>8 DEF FieldsInit
<1> QED BY <1>1, <1>3, <1>4, <1>5, <1>6, <1>7, <1>8, <1>9 DEF FieldTypes, FieldsTypeOK

(* No step breaks a type. *)
LEMMA FieldsTypeStep ==
    ASSUME FieldTypes, [FieldsNext]_fieldsVars
    PROVE  FieldTypes'
<1>1. ASSUME NEW j \in Jobs, SageWritesJob(j)
      PROVE  FieldTypes'
  <2>1. j \in Records /\ active' \subseteq Jobs
    BY <1>1 DEF SageWritesJob, Records, FieldTypes, FieldsTypeOK
  <2> QED BY <1>1, <2>1, SageType DEF SageWritesJob
<1>2. ASSUME NEW k \in Codes, SageEntersCode(k)
      PROVE  FieldTypes'
  <2>1. k \in Records /\ active' \subseteq Jobs
    BY <1>2 DEF SageEntersCode, Records, FieldTypes, FieldsTypeOK
  <2> QED BY <1>2, <2>1, SageType DEF SageEntersCode
<1>3. ASSUME NEW c \in Cats, SageWritesCategory(c)
      PROVE  FieldTypes'
  <2>1. c \in Records /\ active' \subseteq Jobs
    BY <1>3 DEF SageWritesCategory, Records, FieldTypes, FieldsTypeOK
  <2> QED BY <1>3, <2>1, SageType DEF SageWritesCategory
<1>4. CASE SyncStep
  BY <1>4, SyncJobsType, SyncCostCodesType, SyncCostCategoriesType, SyncStepFailsType DEF SyncStep
<1>5. CASE UNCHANGED fieldsVars
  BY <1>5 DEF fieldsVars, FieldTypes, FieldsTypeOK, Versioned
<1> QED BY <1>1, <1>2, <1>3, <1>4, <1>5, ImportProjectType, QueryCostCodesType,
           QueryCostTypesType, CostCodesType, CostTypesType, ImportEndsType DEF FieldsNext

(* The types, in every state. *)
LEMMA TypesKept == FieldsSpec => []FieldTypes
<1>1. FieldsInit => FieldTypes
  BY InitType
<1>2. FieldTypes /\ [FieldsNext]_fieldsVars => FieldTypes'
  BY FieldsTypeStep
<1> QED BY <1>1, <1>2, PTL DEF FieldsSpec

(* Jobs, cost codes, categories, their marks and the importer's state have their
   types, whatever syncs, imports, renamings and other workspaces do. *)
THEOREM FieldsTypeCorrect == FieldsSpec => []FieldsTypeOK
<1>1. FieldTypes => FieldsTypeOK
  BY DEF FieldTypes
<1> QED BY <1>1, TypesKept, PTL
----------------------------------------------------------------------------
(***************************************************************************)
(* The mark of cost categories                                             *)
(***************************************************************************)

\* Sage has given out no version after the clock, and none is fetched before
\* that: the next one is above the mark.
MarkInv ==
    /\ \A x \in Records : sage[x] <= clock
    /\ mark.cat <= clock
    /\ PassedIsStored

(* A step that neither writes a category in Sage nor renames a row here. *)
LEMMA MarkStays ==
    ASSUME MarkInv, UNCHANGED <<sage, clock, dropped>>, mark'.cat = mark.cat,
           \A c \in Cats : row'[c].name = row[c].name
    PROVE  MarkInv'
BY DEF MarkInv, PassedIsStored

(* A record entered or renamed in Sage is above every mark. *)
LEMMA SageMark ==
    ASSUME FieldTypes, MarkInv, NEW x \in Records, SageWrites(x)
    PROVE  MarkInv'
<1>1. /\ clock' = clock + 1 /\ clock \in Nat /\ mark.cat \in Nat /\ mark' = mark
      /\ \A y \in Records : sage[y] \in Nat /\ sage'[y] = IF y = x THEN clock + 1 ELSE sage[y]
  BY BoundsAssumption DEF SageWrites, syncVars, FieldTypes, FieldsTypeOK
<1>2. (\A y \in Records : sage'[y] <= clock') /\ mark'.cat <= clock'
  BY <1>1 DEF MarkInv
<1>3. ASSUME NEW c \in Cats, sage'[c] \in 1 .. mark'.cat
      PROVE  c \in dropped' \/ row'[c].name = sage'[c]
  <2>1. c \in Records
    BY DEF Records
  <2>2. sage'[c] = sage[c] /\ sage[c] \in 1 .. mark.cat
    BY <1>1, <1>3, <2>1 DEF MarkInv
  <2> QED BY <2>2 DEF SageWrites, syncVars, MarkInv, PassedIsStored
<1> QED BY <1>2, <1>3 DEF MarkInv, PassedIsStored

(* The sync of cost categories stores what it fetches, or drops it. *)
LEMMA SyncMark ==
    ASSUME FieldTypes, MarkInv, SyncCostCategories
    PROVE  MarkInv'
<1>1. sage' = sage /\ clock' = clock /\ dropped' = (dropped \cup Fetched) \ Stored
  BY DEF SyncCostCategories, sageVars, Fetched, Stored
<1>2. mark'.cat \in {sage[c] : c \in Fetched} \cup {mark.cat}
  BY CategoriesSynced
<1>3. mark'.cat <= clock
  BY <1>2 DEF MarkInv, Records, Fetched
<1>4. ASSUME NEW c \in Cats, sage[c] \in 1 .. mark'.cat
      PROVE  c \in dropped' \/ row'[c].name = sage[c]
  <2>1. CASE c \in Stored
    BY <2>1, CategoriesSynced, SyncedIs
  <2>2. CASE c \in Fetched \ Stored
    BY <1>1, <2>2
  <2>3. CASE c \notin Fetched
    <3>1. sage[c] \in Nat /\ mark.cat \in Nat /\ ~(sage[c] > mark.cat)
      BY <2>3 DEF Fetched, FieldTypes, FieldsTypeOK, Records
    <3>2. sage[c] \in 1 .. mark.cat /\ c \notin Stored
      BY <1>4, <2>3, <3>1 DEF Stored
    <3>3. row'[c] = row[c]
      BY <3>2, CategoriesSynced
    <3> QED BY <1>1, <3>2, <3>3 DEF MarkInv, PassedIsStored
  <2> QED BY <2>1, <2>2, <2>3
<1> QED BY <1>1, <1>3, <1>4 DEF MarkInv, PassedIsStored

(* Which steps rename no row: all but the sync of cost categories. *)
LEMMA NamesStay ==
    ASSUME FieldTypes, NEW c \in Cats,
           \/ SyncJobs \/ SyncCostCodes \/ SyncStepFails
           \/ \E j \in Jobs : ImportProject(j) \/ PostCostCodes(j) \/ CostCodesFail(j)
           \/ QueryCostCodes \/ QueryCostTypes \/ FinishImport \/ ImportAborts
           \/ \E n \in Names : PostCostTypes(n) \/ CostTypesFail(n)
           \/ \E n \in Shared : OtherWorkspacePosts(n)
    PROVE  row'[c].name = row[c].name
<1>1. CASE row' = row
  BY <1>1
<1>2. CASE \E J : row' = Touched(J)
  BY <1>2, TouchedIs
<1>3. CASE \E n : row' = Marked(n)
  BY <1>3, MarkedIs
<1>4. CASE row' = [d \in Cats |-> [row[d] EXCEPT !.fresh = FALSE]]
  BY <1>4 DEF FieldTypes, FieldsTypeOK, CategoryRow
<1>5. row' = row \/ (\E J : row' = Touched(J)) \/ (\E n : row' = Marked(n))
      \/ row' = [d \in Cats |-> [row[d] EXCEPT !.fresh = FALSE]]
  BY DEF SyncJobs, SyncCostCodes, SyncStepFails, ImportProject, PostCostCodes, CostCodesFail,
         QueryCostCodes, QueryCostTypes, FinishImport, ImportAborts, PostCostTypes,
         CostTypesFail, OtherWorkspacePosts
<1> QED BY <1>1, <1>2, <1>3, <1>4, <1>5

(* No step leaves a category behind the mark. *)
LEMMA MarkStep ==
    ASSUME FieldTypes, MarkInv, [FieldsNext]_fieldsVars
    PROVE  MarkInv'
<1>1. CASE (\E j \in Jobs : SageWritesJob(j)) \/ (\E k \in Codes : SageEntersCode(k))
           \/ (\E c \in Cats : SageWritesCategory(c))
  BY <1>1, SageMark DEF SageWritesJob, SageEntersCode, SageWritesCategory, Records
<1>2. CASE SyncCostCategories
  BY <1>2, SyncMark
<1>3. CASE SyncJobs \/ SyncCostCodes \/ SyncStepFails
  <2>1. UNCHANGED <<sage, clock, dropped>> /\ mark'.cat = mark.cat
    BY <1>3 DEF SyncJobs, SyncCostCodes, SyncStepFails, sageVars, FieldTypes, FieldsTypeOK
  <2> QED BY <1>3, <2>1, NamesStay, MarkStays
<1>4. CASE \/ \E j \in Jobs : ImportProject(j) \/ PostCostCodes(j) \/ CostCodesFail(j)
           \/ QueryCostCodes \/ QueryCostTypes \/ FinishImport \/ ImportAborts
           \/ \E n \in Names : PostCostTypes(n) \/ CostTypesFail(n)
           \/ \E n \in Shared : OtherWorkspacePosts(n)
  <2>1. UNCHANGED <<sage, clock, dropped, mark>>
    BY <1>4 DEF ImportProject, PostCostCodes, CostCodesFail, QueryCostCodes, QueryCostTypes,
                FinishImport, ImportAborts, PostCostTypes, CostTypesFail, OtherWorkspacePosts,
                sageVars, syncVars
  <2> QED BY <1>4, <2>1, NamesStay, MarkStays
<1>5. CASE UNCHANGED fieldsVars
  BY <1>5, MarkStays DEF fieldsVars
<1> QED BY <1>1, <1>2, <1>3, <1>4, <1>5 DEF FieldsNext, SyncStep

(* Before the first sync. *)
LEMMA InitMark ==
    ASSUME FieldsInit
    PROVE  MarkInv
<1> DEFINE versions == {sage[x] : x \in Records}
<1>1. versions \in SUBSET (0 .. MaxVersion)
  BY RecordsAssumption DEF FieldsInit, Records
<1>2. /\ \A w \in versions \cup {0} : w <= Newest(0, versions)
      /\ clock = Newest(0, versions) /\ mark.cat = 0
  BY <1>1, NewestIs, BoundsAssumption DEF FieldsInit
<1>3. \A x \in Records : sage[x] <= clock
  BY <1>2
<1>4. mark.cat <= clock /\ \A v \in Nat : v \notin 1 .. mark.cat
  BY <1>2
<1>5. \A c \in Cats : sage[c] \in Nat
  BY <1>1 DEF Records
<1> QED BY <1>3, <1>4, <1>5 DEF MarkInv, PassedIsStored

(* The mark of cost categories passes no category that could have been stored: it
   is stored under the name Sage has, or its cost code was not known. *)
THEOREM MarkLeavesNoneBehind == FieldsSpec => []PassedIsStored
<1>1. FieldsInit => MarkInv
  BY InitMark
<1>2. FieldTypes /\ MarkInv /\ [FieldsNext]_fieldsVars => MarkInv'
  BY MarkStep
<1>3. MarkInv => PassedIsStored
  BY DEF MarkInv
<1> QED BY <1>1, <1>2, <1>3, TypesKept, PTL DEF FieldsSpec
----------------------------------------------------------------------------
(***************************************************************************)
(* What an import has read, posted and marked                              *)
(***************************************************************************)

InFyle(c) == c \in gaps \/ posted[c] = row[c].name
Sent(c) == c \in gaps \/ (posted[c] = row[c].name /\ CodeOf[c] \in codes)
Read(c) == importer.snap[c] = row[c].name

\* While no batch of cost codes has failed, the rows that are not sent were read
\* by this import, and their cost code is to be posted or just was.
CodeDue(c) ==
    /\ row[c].fresh /\ Read(c)
    /\ JobOfCat(c) \in importer.jobs \/ (CodeOf[c] \in codes /\ NameOfCat(c) \in importer.names)
CodesHold ==
    importer.pc = "codes" /\ ~importer.errored => \A c \in Rows : Sent(c) \/ CodeDue(c)

\* The second query leaves no row out: what it read has the name the row has, a
\* batch of a name covers every row of that name, and while no batch has failed,
\* the rows that are not sent are in a batch to come.
TypeDue(c) == Read(c) /\ CodeOf[c] \in codes /\ NameOfCat(c) \in importer.names
TypesHold ==
    importer.pc = "types" =>
        /\ \A c \in Rows : importer.snap[c] # 0 => c \in gaps \/ Read(c)
        /\ \A c \in Rows : NameOfCat(c) \in importer.names => InFyle(c) \/ Read(c)
        /\ ~importer.errored => \A c \in Rows : Sent(c) \/ TypeDue(c)

\* A row that is imported is in Fyle under its name, one that is hidden is sent.
RowsHold == \A c \in Rows : (row[c].imported => InFyle(c)) /\ (row[c].fresh \/ Sent(c))

ImportInv == CodesHold /\ TypesHold /\ RowsHold

(* A step that posts nothing, and whose rows keep their names and are at most
   written again. *)
LEMMA ImportUntouched ==
    ASSUME ImportInv, UNCHANGED <<importer, codes, posted>>, gaps \subseteq gaps',
           \A c \in Cats : /\ row'[c].name = row[c].name
                           /\ row'[c].imported => row[c].imported \/ c \in gaps'
                           /\ row[c].fresh => row'[c].fresh
    PROVE  ImportInv'
<1>1. \A c \in Rows' : /\ c \in Rows /\ (Sent(c) => Sent(c)') /\ (InFyle(c) => InFyle(c)')
                       /\ (Read(c) => Read(c)') /\ (CodeDue(c) => CodeDue(c)')
                       /\ (TypeDue(c) => TypeDue(c)')
  BY DEF Rows, Sent, InFyle, Read, CodeDue, TypeDue
<1>2. CodesHold'
  BY <1>1 DEF ImportInv, CodesHold
<1>3. TypesHold'
  BY <1>1 DEF ImportInv, TypesHold
<1>4. RowsHold'
  <2> SUFFICES ASSUME NEW c \in Rows'
               PROVE  (row'[c].imported => InFyle(c)') /\ (row'[c].fresh \/ Sent(c)')
    BY DEF RowsHold
  <2>1. c \in Rows /\ c \in Cats
    BY <1>1 DEF Rows
  <2> QED BY <1>1, <2>1 DEF ImportInv, RowsHold, InFyle
<1> QED BY <1>2, <1>3, <1>4 DEF ImportInv

(* Cost codes of renamed jobs leave Fyle; their rows are fresh again, or the import
   under way has a gap. *)
LEMMA SyncJobsImport ==
    ASSUME FieldTypes, ImportInv, SyncJobs
    PROVE  ImportInv'
<1> DEFINE seen == {j \in Jobs : sage[j] > mark.job /\ j \in active}
           renamed == {j \in seen : known[j] # 0}
<1>1. /\ row' = Touched(renamed) /\ UNCHANGED <<importer, posted>>
      /\ codes' = {k \in codes : JobOf[k] \notin renamed}
      /\ gaps' = gaps \cup {c \in Rows : JobOfCat(c) \in renamed /\ importer.pc # "idle"}
  BY DEF SyncJobs
<1> HIDE DEF renamed
<1>2. \A c \in Cats : /\ row'[c].name = row[c].name /\ row'[c].imported = row[c].imported
                      /\ IF c \in Rows /\ JobOfCat(c) \in renamed
                         THEN row'[c].fresh ELSE row'[c] = row[c]
  BY <1>1, TouchedIs
<1>3. \A c \in Rows' : c \in Rows /\ c \in Cats
  BY <1>2 DEF Rows
<1>4. \A c \in Rows : JobOfCat(c) \notin renamed =>
          /\ row'[c] = row[c] /\ (Sent(c) => Sent(c)') /\ (InFyle(c) => InFyle(c)')
          /\ (Read(c) => Read(c)') /\ (CodeDue(c) => CodeDue(c)') /\ (TypeDue(c) => TypeDue(c)')
  BY <1>1, <1>2 DEF Rows, Sent, InFyle, Read, CodeDue, TypeDue, JobOfCat
<1>5. \A c \in Rows : JobOfCat(c) \in renamed =>
          /\ row'[c].fresh /\ (InFyle(c) => InFyle(c)') /\ (Read(c) => Read(c)')
          /\ importer.pc # "idle" => Sent(c)'
  BY <1>1, <1>2 DEF Rows, Sent, InFyle, Read
<1>6. CodesHold'
  BY <1>1, <1>3, <1>4, <1>5 DEF ImportInv, CodesHold
<1>7. TypesHold'
  <2> SUFFICES ASSUME importer.pc = "types"
               PROVE  TypesHold'
    BY <1>1 DEF TypesHold
  <2>1. \A c \in Rows' : importer'.snap[c] # 0 => c \in gaps' \/ Read(c)'
    BY <1>1, <1>3, <1>4, <1>5 DEF ImportInv, TypesHold
  <2>2. \A c \in Rows' : NameOfCat(c) \in importer'.names => InFyle(c)' \/ Read(c)'
    BY <1>1, <1>3, <1>4, <1>5 DEF ImportInv, TypesHold
  <2>3. ~importer'.errored => \A c \in Rows' : Sent(c)' \/ TypeDue(c)'
    BY <1>1, <1>3, <1>4, <1>5 DEF ImportInv, TypesHold
  <2> QED BY <2>1, <2>2, <2>3 DEF TypesHold
<1>8. RowsHold'
  <2> SUFFICES ASSUME NEW c \in Rows'
               PROVE  (row'[c].imported => InFyle(c)') /\ (row'[c].fresh \/ Sent(c)')
    BY DEF RowsHold
  <2>1. c \in Rows /\ row'[c].imported = row[c].imported
    BY <1>2, <1>3
  <2>2. InFyle(c) => InFyle(c)'
    BY <2>1, <1>4, <1>5
  <2>3. row[c].fresh \/ Sent(c) => row'[c].fresh \/ Sent(c)'
    BY <2>1, <1>4, <1>5
  <2> QED BY <2>1, <2>2, <2>3 DEF ImportInv, RowsHold
<1> QED BY <1>6, <1>7, <1>8 DEF ImportInv

(* Categories that are stored are fresh, unless they meet a gap. *)
LEMMA SyncCategoriesImport ==
    ASSUME FieldTypes, ImportInv, SyncCostCategories
    PROVE  ImportInv'
<1>1. /\ UNCHANGED <<importer, posted, codes>> /\ gaps \subseteq gaps'
      /\ \A c \in Stored : row[c].imported \/ importer.pc # "idle" => c \in gaps'
  BY DEF SyncCostCategories, fyleVars, Fetched, Stored
<1>2. \A c \in Stored : /\ row'[c].imported = row[c].imported /\ row'[c].fresh
                        /\ importer.pc # "idle" => Sent(c)' /\ InFyle(c)' /\ c \in gaps'
                        /\ row[c].imported => InFyle(c)'
  BY <1>1, CategoriesSynced, SyncedIs DEF Stored, Fetched, Sent, InFyle
<1>3. \A c \in Rows' : c \notin Stored =>
          /\ c \in Rows /\ row'[c] = row[c] /\ (Sent(c) => Sent(c)') /\ (InFyle(c) => InFyle(c)')
          /\ (Read(c) => Read(c)') /\ (CodeDue(c) => CodeDue(c)') /\ (TypeDue(c) => TypeDue(c)')
          /\ (c \in gaps => c \in gaps')
  BY <1>1, CategoriesSynced DEF Rows, Sent, InFyle, Read, CodeDue, TypeDue
<1>4. CodesHold'
  BY <1>1, <1>2, <1>3 DEF ImportInv, CodesHold
<1>5. TypesHold'
  <2> SUFFICES ASSUME importer.pc = "types"
               PROVE  TypesHold'
    BY <1>1 DEF TypesHold
  <2>1. \A c \in Rows' : importer'.snap[c] # 0 => c \in gaps' \/ Read(c)'
    BY <1>1, <1>2, <1>3 DEF ImportInv, TypesHold
  <2>2. \A c \in Rows' : NameOfCat(c) \in importer'.names => InFyle(c)' \/ Read(c)'
    BY <1>1, <1>2, <1>3 DEF ImportInv, TypesHold
  <2>3. ~importer'.errored => \A c \in Rows' : Sent(c)' \/ TypeDue(c)'
    BY <1>1, <1>2, <1>3 DEF ImportInv, TypesHold
  <2> QED BY <2>1, <2>2, <2>3 DEF TypesHold
<1>6. RowsHold'
  <2> SUFFICES ASSUME NEW c \in Rows'
               PROVE  (row'[c].imported => InFyle(c)') /\ (row'[c].fresh \/ Sent(c)')
    BY DEF RowsHold
  <2>1. CASE c \in Stored
    BY <1>2, <2>1
  <2>2. CASE c \notin Stored
    BY <1>3, <2>2 DEF ImportInv, RowsHold
  <2> QED BY <2>1, <2>2
<1> QED BY <1>4, <1>5, <1>6 DEF ImportInv

(* The first query reads every fresh row, and the rows that are not fresh are
   sent. *)
LEMMA QueryCostCodesImport ==
    ASSUME FieldTypes, ImportInv, QueryCostCodes
    PROVE  ImportInv'
<1> DEFINE read == [c \in Cats |-> IF c \in FreshRows THEN row[c].name ELSE 0]
           found == {JobOfCat(c) : c \in FreshRows} \cap projects
<1>1. /\ importer' = [IdleImporter EXCEPT !.pc = "codes", !.snap = read, !.jobs = found]
      /\ UNCHANGED <<row, codes, posted>>
      /\ gaps' = gaps \cup {c \in FreshRows : JobOfCat(c) \notin projects}
  BY DEF QueryCostCodes, fyleVars
<1>2. importer'.pc = "codes" /\ importer'.snap = read /\ importer'.jobs = found
  BY <1>1 DEF IdleImporter
<1>3. \A c \in Rows' : c \in Rows /\ c \in Cats
  BY <1>1 DEF Rows
<1>4. \A c \in Rows : (Sent(c) => Sent(c)') /\ (InFyle(c) => InFyle(c)')
  BY <1>1 DEF Sent, InFyle
<1>5. ASSUME NEW c \in Rows
      PROVE  Sent(c)' \/ CodeDue(c)'
  <2>1. CASE ~row[c].fresh
    BY <1>4, <2>1 DEF ImportInv, RowsHold
  <2>2. CASE row[c].fresh
    <3>1. c \in FreshRows /\ c \in Cats
      BY <2>2 DEF FreshRows, Rows
    <3>2. Read(c)' /\ row'[c].fresh
      BY <1>1, <1>2, <2>2, <3>1 DEF Read
    <3>3. JobOfCat(c) \in importer'.jobs \/ c \in gaps'
      BY <1>1, <1>2, <3>1
    <3> QED BY <3>2, <3>3 DEF Sent, CodeDue
  <2> QED BY <2>1, <2>2
<1>6. RowsHold'
  BY <1>1, <1>3, <1>4 DEF ImportInv, RowsHold
<1> QED BY <1>2, <1>3, <1>5, <1>6 DEF ImportInv, CodesHold, TypesHold

(* A batch of cost codes that Fyle takes: what was due at its job is due by its
   cost code. *)
LEMMA PostCostCodesImport ==
    ASSUME FieldTypes, ImportInv, NEW j \in Jobs, PostCostCodes(j)
    PROVE  ImportInv'
<1> DEFINE batch == {CodeOf[c] : c \in {d \in Cats : importer.snap[d] # 0 /\ JobOfCat(d) = j}}
<1>1. /\ codes' = codes \cup batch /\ UNCHANGED <<row, posted, gaps>>
      /\ importer' = [importer EXCEPT !.jobs = @ \ {j},
                                      !.names = @ \cup {NameOf[k] : k \in batch}]
  BY DEF PostCostCodes
<1> HIDE DEF batch
<1>2. /\ importer'.pc = "codes" /\ importer.pc = "codes" /\ importer'.snap = importer.snap
      /\ importer'.errored = importer.errored /\ importer'.jobs = importer.jobs \ {j}
      /\ importer'.names = importer.names \cup {NameOf[k] : k \in batch}
  BY <1>1 DEF PostCostCodes, FieldTypes, FieldsTypeOK, ImporterState
<1>3. Rows' = Rows /\ \A c \in Rows : /\ Sent(c) => Sent(c)'
                                      /\ InFyle(c) => InFyle(c)'
  BY <1>1 DEF Rows, Sent, InFyle
<1>4. ASSUME NEW c \in Rows, CodeDue(c)
      PROVE  CodeDue(c)'
  <2>1. c \in Cats /\ importer.snap[c] # 0 /\ row[c].fresh /\ Read(c)
    BY <1>4 DEF CodeDue, Read, Rows
  <2>2. row'[c].fresh /\ Read(c)'
    BY <1>1, <1>2, <2>1 DEF Read
  <2>3. JobOfCat(c) = j => CodeOf[c] \in batch
    BY <2>1 DEF batch
  <2>4. JobOfCat(c) \in importer'.jobs
        \/ (CodeOf[c] \in codes' /\ NameOfCat(c) \in importer'.names)
    BY <1>1, <1>2, <1>4, <2>3 DEF CodeDue, NameOfCat
  <2> QED BY <2>2, <2>4 DEF CodeDue
<1>5. RowsHold'
  BY <1>1, <1>3 DEF ImportInv, RowsHold
<1>6. CodesHold'
  BY <1>2, <1>3, <1>4 DEF ImportInv, CodesHold
<1> QED BY <1>2, <1>5, <1>6 DEF ImportInv, TypesHold

(* A batch that Fyle refuses, an import that breaks off: nothing is promised of
   the rows that are not sent, which stay fresh. *)
LEMMA BatchFailsImport ==
    ASSUME FieldTypes, ImportInv, \/ \E j \in Jobs : CostCodesFail(j)
                                  \/ \E n \in Names : CostTypesFail(n)
                                  \/ ImportAborts
    PROVE  ImportInv'
<1>1. UNCHANGED <<row, codes, posted, gaps>>
  BY DEF CostCodesFail, CostTypesFail, ImportAborts, fyleVars
<1>2. Rows' = Rows /\ \A c \in Rows : (Sent(c) <=> Sent(c)') /\ (InFyle(c) <=> InFyle(c)')
  BY <1>1 DEF Rows, Sent, InFyle
<1>3. RowsHold'
  BY <1>1, <1>2 DEF ImportInv, RowsHold
<1>4. CASE \E j \in Jobs : CostCodesFail(j)
  <2>1. importer'.pc = "codes" /\ importer'.errored
    BY <1>4 DEF CostCodesFail, FieldTypes, FieldsTypeOK, ImporterState
  <2> QED BY <1>3, <2>1 DEF ImportInv, CodesHold, TypesHold
<1>5. CASE \E n \in Names : CostTypesFail(n)
  <2>1. /\ importer'.pc = "types" /\ importer.pc = "types" /\ importer'.errored
        /\ importer'.snap = importer.snap /\ importer'.names \subseteq importer.names
    BY <1>5 DEF CostTypesFail, FieldTypes, FieldsTypeOK, ImporterState
  <2>2. \A c \in Rows : Read(c) <=> Read(c)'
    BY <1>1, <2>1 DEF Read
  <2>3. TypesHold'
    BY <1>1, <1>2, <2>1, <2>2 DEF ImportInv, TypesHold
  <2> QED BY <1>3, <2>1, <2>3 DEF ImportInv, CodesHold
<1>6. CASE ImportAborts
  <2>1. importer'.pc = "idle"
    BY <1>6 DEF ImportAborts, IdleImporter
  <2> QED BY <1>3, <2>1 DEF ImportInv, CodesHold, TypesHold
<1> QED BY <1>4, <1>5, <1>6

(* The second query reads what is due but imported already; that is in Fyle, and
   its cost code too. *)
LEMMA QueryCostTypesImport ==
    ASSUME FieldTypes, ImportInv, QueryCostTypes
    PROVE  ImportInv'
<1> DEFINE chosen == {c \in FreshRows : /\ ~row[c].imported
                                        /\ \/ importer.names = {}
                                           \/ NameOfCat(c) \in importer.names}
           read == [c \in Cats |-> IF c \in chosen THEN row[c].name ELSE 0]
           called == {NameOfCat(c) : c \in chosen}
<1>1. /\ importer' = [importer EXCEPT !.pc = "types", !.snap = read, !.names = called]
      /\ UNCHANGED <<row, codes, posted, gaps>>
      /\ importer.pc = "codes" /\ importer.jobs = {}
  BY DEF QueryCostTypes, fyleVars
<1>2. /\ importer'.pc = "types" /\ importer'.snap = read /\ importer'.names = called
      /\ importer'.errored = importer.errored
  BY <1>1 DEF FieldTypes, FieldsTypeOK, ImporterState
<1>3. Rows' = Rows /\ \A c \in Rows : /\ c \in Cats /\ (Sent(c) <=> Sent(c)')
                                      /\ (InFyle(c) <=> InFyle(c)') /\ (Sent(c) => InFyle(c))
  BY <1>1 DEF Rows, Sent, InFyle
<1>4. \A c \in Rows : c \in chosen => Read(c)' /\ NameOfCat(c) \in importer'.names
  BY <1>1, <1>2, <1>3 DEF Read
<1>5. \A c \in Rows : importer'.snap[c] # 0 => Read(c)'
  BY <1>2, <1>3, <1>4
<1>6. ASSUME NEW c \in Rows, NameOfCat(c) \in importer'.names
      PROVE  InFyle(c)' \/ Read(c)'
  <2>1. PICK d \in chosen : NameOfCat(c) = NameOfCat(d)
    BY <1>2, <1>6
  <2>2. c \in chosen \/ row[c].imported \/ ~row[c].fresh
    BY <2>1 DEF FreshRows
  <2> QED BY <1>3, <1>4, <2>2 DEF ImportInv, RowsHold
<1>7. ASSUME NEW c \in Rows, ~importer'.errored
      PROVE  Sent(c)' \/ TypeDue(c)'
  <2>1. CASE Sent(c)
    BY <1>3, <2>1
  <2>2. CASE CodeDue(c) /\ row[c].imported
    <3>1. InFyle(c) /\ CodeOf[c] \in codes
      BY <1>1, <2>2 DEF CodeDue, ImportInv, RowsHold
    <3> QED BY <1>3, <3>1 DEF Sent, InFyle
  <2>3. CASE CodeDue(c) /\ ~row[c].imported
    <3>1. c \in chosen /\ CodeOf[c] \in codes
      BY <1>1, <2>3 DEF CodeDue, FreshRows
    <3> QED BY <1>1, <1>4, <3>1 DEF TypeDue
  <2>4. Sent(c) \/ CodeDue(c)
    BY <1>1, <1>2, <1>7 DEF ImportInv, CodesHold
  <2> QED BY <2>1, <2>2, <2>3, <2>4
<1>8. RowsHold'
  BY <1>1, <1>3 DEF ImportInv, RowsHold
<1>9. TypesHold'
  BY <1>3, <1>5, <1>6, <1>7 DEF TypesHold
<1> QED BY <1>2, <1>8, <1>9 DEF ImportInv, CodesHold

(* A batch of cost categories that Fyle takes. Every row of its name is marked,
   and every one is in Fyle: the batch had it, or it was there before. *)
LEMMA PostCostTypesImport ==
    ASSUME FieldTypes, ImportInv, NEW n \in Names, PostCostTypes(n)
    PROVE  ImportInv'
<1>1. /\ row' = Marked(n) /\ UNCHANGED <<codes, gaps>>
      /\ importer.pc = "types" /\ n \in importer.names
      /\ posted' = [c \in Cats |-> IF importer.snap[c] # 0 /\ NameOfCat(c) = n
                                   THEN importer.snap[c] ELSE posted[c]]
  BY DEF PostCostTypes
<1>2. /\ importer'.pc = "types" /\ importer'.snap = importer.snap
      /\ importer'.errored = importer.errored /\ importer'.names = importer.names \ {n}
  BY DEF PostCostTypes, FieldTypes, FieldsTypeOK, ImporterState
<1>3. \A c \in Cats : /\ row'[c].name = row[c].name
                      /\ IF c \in Rows /\ NameOfCat(c) = n
                         THEN row'[c].imported /\ row'[c].fresh ELSE row'[c] = row[c]
  BY <1>1, MarkedIs
<1>4. Rows' = Rows /\ \A c \in Rows : c \in Cats
  BY <1>3 DEF Rows
<1>5. ASSUME NEW c \in Rows
      PROVE  /\ InFyle(c) => InFyle(c)'
             /\ Sent(c) => Sent(c)'
             /\ Read(c) <=> Read(c)'
             /\ NameOfCat(c) = n => InFyle(c)'
  <2>1. row[c].name # 0 /\ row'[c].name = row[c].name /\ c \in Cats
    BY <1>3 DEF Rows
  <2>2. Read(c) <=> Read(c)'
    BY <1>2, <2>1 DEF Read
  <2>3. importer.snap[c] # 0 => c \in gaps \/ Read(c)
    BY <1>1 DEF ImportInv, TypesHold
  <2>4. posted[c] = row[c].name => c \in gaps' \/ posted'[c] = row'[c].name
    BY <1>1, <2>1, <2>3 DEF Read
  <2>5. Read(c) /\ NameOfCat(c) = n => posted'[c] = row'[c].name
    BY <1>1, <2>1 DEF Read
  <2>6. NameOfCat(c) = n => InFyle(c) \/ Read(c)
    BY <1>1 DEF ImportInv, TypesHold
  <2> QED BY <1>1, <2>2, <2>4, <2>5, <2>6 DEF InFyle, Sent
<1>6. TypesHold'
  <2>1. \A c \in Rows : importer'.snap[c] # 0 => c \in gaps' \/ Read(c)'
    BY <1>1, <1>2, <1>5 DEF ImportInv, TypesHold
  <2>2. \A c \in Rows : NameOfCat(c) \in importer'.names => InFyle(c)' \/ Read(c)'
    BY <1>1, <1>2, <1>5 DEF ImportInv, TypesHold
  <2>3. ASSUME NEW c \in Rows, ~importer'.errored
        PROVE  Sent(c)' \/ TypeDue(c)'
    <3>1. Sent(c) \/ TypeDue(c)
      BY <1>1, <1>2, <2>3 DEF ImportInv, TypesHold
    <3>2. CASE TypeDue(c) /\ NameOfCat(c) = n
      BY <1>1, <1>5, <3>2 DEF TypeDue, Sent, InFyle
    <3>3. CASE TypeDue(c) /\ NameOfCat(c) # n
      BY <1>1, <1>2, <1>5, <3>3 DEF TypeDue
    <3> QED BY <1>5, <3>1, <3>2, <3>3
  <2> QED BY <1>4, <2>1, <2>2, <2>3 DEF TypesHold
<1>7. RowsHold'
  <2> SUFFICES ASSUME NEW c \in Rows
               PROVE  (row'[c].imported => InFyle(c)') /\ (row'[c].fresh \/ Sent(c)')
    BY <1>4 DEF RowsHold
  <2>1. CASE NameOfCat(c) = n
    BY <1>3, <1>4, <1>5, <2>1
  <2>2. CASE NameOfCat(c) # n
    BY <1>3, <1>4, <1>5, <2>2 DEF ImportInv, RowsHold
  <2> QED BY <2>1, <2>2
<1> QED BY <1>2, <1>6, <1>7 DEF ImportInv, CodesHold

(* The end of an import: without an error every row is sent. *)
LEMMA FinishImportImport ==
    ASSUME FieldTypes, ImportInv, FinishImport
    PROVE  ImportInv'
<1>1. /\ importer.pc = "types" /\ importer.names = {} /\ importer'.pc = "idle"
      /\ UNCHANGED <<codes, posted, gaps>>
  BY DEF FinishImport, fyleVars, IdleImporter
<1>2. \A c \in Cats : row'[c].name = row[c].name /\ row'[c].imported = row[c].imported
  BY DEF FinishImport, FieldTypes, FieldsTypeOK, CategoryRow
<1>3. Rows' = Rows /\ \A c \in Rows : (Sent(c) => Sent(c)') /\ (InFyle(c) => InFyle(c)')
  BY <1>1, <1>2 DEF Rows, Sent, InFyle
<1>4. CASE importer.errored
  <2>1. row' = row
    BY <1>4 DEF FinishImport
  <2> QED BY <1>1, <1>3, <2>1 DEF ImportInv, CodesHold, TypesHold, RowsHold
<1>5. CASE ~importer.errored
  <2>1. \A c \in Rows : Sent(c)
    BY <1>1, <1>5 DEF ImportInv, TypesHold, TypeDue
  <2>2. \A c \in Rows : row[c].imported => InFyle(c)
    BY DEF ImportInv, RowsHold
  <2>3. RowsHold'
    BY <1>2, <1>3, <2>1, <2>2 DEF RowsHold, Rows
  <2> QED BY <1>1, <2>3 DEF ImportInv, CodesHold, TypesHold
<1> QED BY <1>4, <1>5

(* Another workspace marks the rows of a name: those it marks first are a gap. *)
LEMMA OtherWorkspaceImport ==
    ASSUME FieldTypes, ImportInv, NEW n \in Shared, OtherWorkspacePosts(n)
    PROVE  ImportInv'
<1>1. /\ row' = Marked(n) /\ UNCHANGED <<importer, codes, posted>>
      /\ gaps' = gaps \cup {c \in Rows : NameOfCat(c) = n /\ ~row[c].imported}
  BY DEF OtherWorkspacePosts, fyleVars
<1>2. \A c \in Cats : /\ row'[c].name = row[c].name
                      /\ row'[c].imported => row[c].imported \/ c \in gaps'
                      /\ row[c].fresh => row'[c].fresh
  BY <1>1, MarkedIs
<1> QED BY <1>1, <1>2, ImportUntouched

(* No step loses a row that is due. *)
LEMMA ImportStep ==
    ASSUME FieldTypes, ImportInv, [FieldsNext]_fieldsVars
    PROVE  ImportInv'
<1>1. CASE \/ \E j \in Jobs : SageWritesJob(j) \/ ImportProject(j)
           \/ \E k \in Codes : SageEntersCode(k)
           \/ \E c \in Cats : SageWritesCategory(c)
           \/ SyncCostCodes \/ SyncStepFails
           \/ UNCHANGED fieldsVars
  <2>1. UNCHANGED <<importer, codes, posted, gaps, row>>
    BY <1>1 DEF SageWritesJob, SageEntersCode, SageWritesCategory, SageWrites, ImportProject,
                SyncCostCodes, SyncStepFails, fyleVars, fieldsVars
  <2> QED BY <2>1, ImportUntouched
<1>2. CASE SyncJobs \/ SyncCostCategories
  BY <1>2, SyncJobsImport, SyncCategoriesImport
<1>3. CASE QueryCostCodes \/ QueryCostTypes \/ FinishImport
  BY <1>3, QueryCostCodesImport, QueryCostTypesImport, FinishImportImport
<1>4. CASE \E j \in Jobs : PostCostCodes(j)
  BY <1>4, PostCostCodesImport
<1>5. CASE \E n \in Names : PostCostTypes(n)
  BY <1>5, PostCostTypesImport
<1>6. CASE \E n \in Shared : OtherWorkspacePosts(n)
  BY <1>6, OtherWorkspaceImport
<1>7. CASE \/ \E j \in Jobs : CostCodesFail(j)
           \/ \E n \in Names : CostTypesFail(n)
           \/ ImportAborts
  BY <1>7, BatchFailsImport
<1> QED BY <1>1, <1>2, <1>3, <1>4, <1>5, <1>6, <1>7 DEF FieldsNext, SyncStep

(* What an import has read, posted and marked, in every state. *)
LEMMA ImportKept == FieldsSpec => []ImportInv
<1>1. FieldsInit => ImportInv
  BY DEF FieldsInit, ImportInv, CodesHold, TypesHold, RowsHold, Rows, NoRow, IdleImporter
<1>2. FieldTypes /\ ImportInv /\ [FieldsNext]_fieldsVars => ImportInv'
  BY ImportStep
<1> QED BY <1>1, <1>2, TypesKept, PTL DEF FieldsSpec

(* What last_successful_import_at hides from later imports is in Fyle, its name
   and its cost code, however batches and imports fail, outside the gaps. *)
THEOREM HiddenAlwaysInFyle == FieldsSpec => []HiddenIsInFyle
<1>1. ImportInv => HiddenIsInFyle
  BY DEF ImportInv, RowsHold, Sent, HiddenIsInFyle
<1> QED BY <1>1, ImportKept, PTL

(* No category is marked imported that Fyle was never sent, though the update goes
   by the name of a cost code, outside the gaps. *)
THEOREM ImportedAlwaysPosted == FieldsSpec => []ImportedWasPosted
<1>1. ImportInv => ImportedWasPosted
  BY DEF ImportInv, RowsHold, InFyle, ImportedWasPosted, Rows
<1> QED BY <1>1, ImportKept, PTL
=============================================================================
