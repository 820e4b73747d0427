------------------------ MODULE ImportSettingsProofs ------------------------
(***************************************************************************)
(* What a save of the import settings leaves behind, for any requests,     *)
(* imports and numbers of both:                                            *)
(*                                                                         *)
(*   - the import is scheduled just when something is imported;            *)
(*   - the mapping of cards to vendors, and the ids of the dependent       *)
(*     fields, outlive every save;                                         *)
(*   - settings, logs, marks and the import keep their types;              *)
(*   - the fields that users are shown as fixed are enforced;              *)
(*   - as long as no request is saved across a part of an import, names in *)
(*     Fyle are as the settings say, and what was imported before a source *)
(*     moved is imported from the start.                                   *)
(*                                                                         *)
(* ScheduledIffImported is inductive once the types of the request and of  *)
(* the mapping are known: a mapping that the request does not name and     *)
(* that stays was imported before, hence scheduled before, and the last    *)
(* disjunct of ScheduleSaved keeps what was scheduled.                     *)
(*                                                                         *)
(* For the last two Orderly says what a request, an import and each of its *)
(* tasks have read: it is what the settings still are.                     *)
(***************************************************************************)
EXTENDS ImportSettings, TLAPS

RequestFields == {"JOB", "STANDARD_CATEGORY"}
RequestMapping == [RequestFields -> [source : Sources, import : BOOLEAN] \cup {None}]
Requests == [categories : BOOLEAN, vendors : BOOLEAN, codes : SUBSET CodeFields,
             dependent : BOOLEAN, mapping : RequestMapping]

RequestOK == request # None => request \in Requests
MappingOK == mapping \in [Destinations -> MappingSettings]
Inv == RequestOK /\ MappingOK /\ ScheduledIffImported

(* Steps other than saves and the export settings leave what is saved alone. *)
Elsewhere ==
    \/ \E p \in Payloads : Validate(p)
    \/ SaveFails \/ Initiate \/ StartTask \/ FinishTask \/ TaskFails
    \/ RunDependents \/ EndImport

(* The other parts of the invariant do not read what such a step changes. *)
LEMMA ElsewhereKeeps ==
    ASSUME Elsewhere
    PROVE  UNCHANGED <<settings, mapping, scheduled, dependent>>
BY DEF Elsewhere, Validate, SaveFails, Initiate, StartTask, FinishTask, TaskFails,
       RunDependents, EndImport, saved

(* The validation makes a request of a payload. *)
LEMMA ValidatedIsRequest ==
    ASSUME NEW p \in Payloads, Validate(p)
    PROVE  request' \in Requests
<1>1. p \in Requests
  BY PayloadsAssumption DEF Requests, RequestMapping, RequestFields
<1>2. NewCodes(p) \in SUBSET CodeFields
  BY <1>1 DEF NewCodes, Requests, Dependents, CodeFields
<1>3. [p EXCEPT !.codes = NewCodes(p)] \in Requests
  BY <1>1, <1>2 DEF Requests
<1> QED BY <1>3 DEF Validate

(* Every step keeps the requests well formed. *)
LEMMA RequestsStep == RequestOK /\ [Next]_vars => RequestOK'
<1> SUFFICES ASSUME RequestOK, [Next]_vars PROVE RequestOK'
  OBVIOUS
<1>1. CASE \E p \in Payloads : Validate(p)
  BY <1>1, ValidatedIsRequest DEF RequestOK
<1>2. CASE (\E success \in BOOLEAN : Save(success)) \/ SaveFails
  BY <1>2 DEF Save, SaveFails, RequestOK
<1>3. CASE MapCards \/ Initiate \/ StartTask \/ FinishTask \/ TaskFails \/ RunDependents
           \/ EndImport \/ UNCHANGED vars
  BY <1>3 DEF MapCards, Initiate, StartTask, FinishTask, TaskFails, RunDependents, EndImport,
              vars, RequestOK
<1> QED BY <1>1, <1>2, <1>3 DEF Next

(* The mapping that a request saves is a mapping, and has what it names. *)
LEMMA MappingSavedType ==
    ASSUME MappingOK, NEW p \in Requests
    PROVE  /\ MappingSaved(p) \in [Destinations -> MappingSettings]
           /\ MappingSaved(p)["VENDOR"] = mapping["VENDOR"]
           /\ \A d \in RequestFields : MappingSaved(p)[d] = p.mapping[d]
<1>1. DOMAIN p.mapping = RequestFields /\ p.mapping \in RequestMapping
  BY DEF Requests, RequestMapping
<1>2. "VENDOR" \notin RequestFields /\ "VENDOR" \in Destinations /\ RequestFields \subseteq Destinations
  BY DEF RequestFields, Destinations
<1>3. MappingSaved(p)["VENDOR"] = mapping["VENDOR"]
  BY <1>1, <1>2 DEF MappingSaved, Kept
<1>4. ASSUME NEW d \in RequestFields
      PROVE  MappingSaved(p)[d] = p.mapping[d]
  <2>1. d \notin Kept
    BY DEF RequestFields, Kept
  <2> QED BY <1>1, <1>2, <2>1 DEF MappingSaved
<1>5. ASSUME NEW d \in Destinations
      PROVE  MappingSaved(p)[d] \in MappingSettings
  <2>1. d \in RequestFields \/ d = "VENDOR"
    BY DEF Destinations, RequestFields
  <2>2. mapping["VENDOR"] \in MappingSettings
    BY <1>2 DEF MappingOK
  <2>3. \A e \in RequestFields : p.mapping[e] \in MappingSettings
    BY <1>1 DEF RequestMapping, MappingSettings
  <2> QED BY <1>3, <1>4, <2>1, <2>2, <2>3
<1>6. MappingSaved(p) = [d \in Destinations |-> MappingSaved(p)[d]]
  BY DEF MappingSaved
<1>7. MappingSaved(p) \in [Destinations -> MappingSettings]
  BY <1>5, <1>6
<1> QED BY <1>3, <1>4, <1>7

IsImported(d) == mapping[d] # None /\ mapping[d].import

(* A save schedules the import if it leaves something to import, and only then. *)
LEMMA SaveSchedules ==
    ASSUME Inv, NEW success \in BOOLEAN, Save(success)
    PROVE  MappingOK' /\ ScheduledIffImported'
<1>1. request \in Requests
  BY DEF Save, Inv, RequestOK
<1>2. /\ mapping' = MappingSaved(request) /\ scheduled' = ScheduleSaved(request)
      /\ settings'.categories = request.categories /\ settings'.vendors = request.vendors
  BY DEF Save
<1>3. /\ MappingSaved(request) \in [Destinations -> MappingSettings]
      /\ MappingSaved(request)["VENDOR"] = mapping["VENDOR"]
      /\ \A d \in RequestFields : MappingSaved(request)[d] = request.mapping[d]
      /\ DOMAIN request.mapping = RequestFields
  BY <1>1, MappingSavedType DEF Inv, Requests, RequestMapping
<1>4. Destinations = RequestFields \cup {"VENDOR"}
  BY DEF Destinations, RequestFields
<1> DEFINE sent == \E d \in RequestFields : request.mapping[d] # None /\ request.mapping[d].import
           left == \E d \in Destinations :
                      MappingSaved(request)[d] # None /\ MappingSaved(request)[d].import
<1>5. ScheduleSaved(request) <=>
        request.categories \/ request.vendors \/ sent \/ (scheduled /\ left)
  BY <1>3 DEF ScheduleSaved
<1>6. sent => left
  BY <1>3, <1>4
<1>7. left => sent \/ IsImported("VENDOR")
  BY <1>3, <1>4 DEF IsImported
<1>8. IsImported("VENDOR") => scheduled
  BY <1>4 DEF Inv, ScheduledIffImported, IsImported
<1>9. left <=> \E d \in Destinations : mapping'[d] # None /\ mapping'[d].import
  BY <1>2
<1> HIDE DEF sent, left
<1>10. ScheduledIffImported'
  BY <1>2, <1>5, <1>6, <1>7, <1>8, <1>9 DEF ScheduledIffImported
<1> QED BY <1>2, <1>3, <1>10 DEF MappingOK

(* The mapping of cards is not imported, and takes no place of another. *)
LEMMA CardsKeep ==
    ASSUME Inv, MapCards
    PROVE  MappingOK' /\ ScheduledIffImported'
<1>1. /\ mapping["VENDOR"] = None /\ mapping' = [mapping EXCEPT !["VENDOR"] = CardMapping]
      /\ UNCHANGED <<settings, scheduled>>
  BY DEF MapCards
<1>2. CardMapping \in MappingSettings /\ CardMapping.import = FALSE
  BY DEF CardMapping, MappingSettings
<1>3. MappingOK' /\ mapping'["VENDOR"] = CardMapping
      /\ \A d \in Destinations \ {"VENDOR"} : mapping'[d] = mapping[d]
  BY <1>1, <1>2 DEF Inv, MappingOK, Destinations
<1>4. \A d \in Destinations :
        (mapping'[d] # None /\ mapping'[d].import) <=> (mapping[d] # None /\ mapping[d].import)
  BY <1>1, <1>2, <1>3
<1> QED BY <1>1, <1>3, <1>4 DEF Inv, ScheduledIffImported

(* The invariant holds of the initial states. *)
LEMMA Initially == Init => Inv
BY DEF Init, Inv, RequestOK, MappingOK, ScheduledIffImported, MappingSettings

(* Every step keeps the invariant. *)
LEMMA Step == Inv /\ [Next]_vars => Inv'
<1> SUFFICES ASSUME Inv, [Next]_vars PROVE Inv'
  OBVIOUS
<1>1. RequestOK'
  BY RequestsStep DEF Inv
<1>2. CASE \E success \in BOOLEAN : Save(success)
  BY <1>1, <1>2, SaveSchedules DEF Inv
<1>3. CASE MapCards
  BY <1>1, <1>3, CardsKeep DEF Inv
<1>4. CASE Elsewhere \/ UNCHANGED vars
  <2>1. UNCHANGED <<settings, mapping, scheduled>>
    BY <1>4, ElsewhereKeeps DEF vars
  <2> QED BY <1>1, <2>1 DEF Inv, MappingOK, ScheduledIffImported
<1> QED BY <1>2, <1>3, <1>4 DEF Next, Elsewhere

(* The import is scheduled just when there is something it would import. *)
THEOREM AlwaysScheduledIffImported == Spec => []ScheduledIffImported
<1>1. Inv => ScheduledIffImported
  BY DEF Inv
<1> QED BY Initially, Step, <1>1, PTL DEF Spec

(* The mapping of cards to vendors outlives every save of the import settings. *)
THEOREM NecessaryMappingAlwaysKept == Spec => NecessaryMappingIsKept
<1> DEFINE Stays == mapping["VENDOR"] # None => mapping'["VENDOR"] = mapping["VENDOR"]
<1>1. Inv /\ [Next]_vars => [Stays]_vars
  <2> SUFFICES ASSUME Inv, Next PROVE Stays
    OBVIOUS
  <2>1. CASE \E success \in BOOLEAN : Save(success)
    <3>1. request \in Requests /\ mapping' = MappingSaved(request)
      BY <2>1 DEF Save, Inv, RequestOK
    <3> QED BY <3>1, MappingSavedType DEF Inv
  <2>2. CASE MapCards
    BY <2>2 DEF MapCards
  <2>3. CASE Elsewhere
    BY <2>3, ElsewhereKeeps
  <2> QED BY <2>1, <2>2, <2>3 DEF Next, Elsewhere
<1> QED BY Initially, Step, <1>1, PTL DEF Spec, NecessaryMappingIsKept

(* Once saved, the ids of the dependent fields stay what they are. *)
THEOREM FieldIdsAlwaysKept == Spec => FieldIdsAreKept
<1> DEFINE Stays == dependent # None => dependent' = dependent
<1>1. [Next]_vars => [Stays]_vars
  <2> SUFFICES ASSUME Next PROVE Stays
    OBVIOUS
  <2>1. CASE \E success \in BOOLEAN : Save(success)
    BY <2>1 DEF Save, CreatesFields
  <2>2. CASE MapCards
    BY <2>2 DEF MapCards
  <2>3. CASE Elsewhere
    BY <2>3, ElsewhereKeeps
  <2> QED BY <2>1, <2>2, <2>3 DEF Next, Elsewhere
<1> QED BY <1>1, PTL DEF Spec, FieldIdsAreKept
----------------------------------------------------------------------------
(***************************************************************************)
(* Type correctness: what an import runs are tasks, as long as what is     *)
(* imported has a source field.                                            *)
(***************************************************************************)

ImportTasks == [source : Imports, destination : Destinations \cup {"ACCOUNT"}, coded : BOOLEAN]
ImportState == [pc : {"idle", "running"}, todo : SUBSET ImportTasks, dependents : BOOLEAN,
                task : ImportTasks \cup {None}, again : BOOLEAN]
Logged == [exists : BOOLEAN, run : BOOLEAN]

Sourced == \A d \in Destinations : IsImported(d) => mapping[d].source \in Sources
TypeInv == Inv /\ Sourced /\ import \in ImportState /\ TypeOK

(* What Initiate lists are tasks. *)
LEMMA TasksType ==
    ASSUME TypeInv
    PROVE  Tasks \subseteq ImportTasks
<1>1. \A s \in Imports, d \in Destinations \cup {"ACCOUNT"} : Task(s, d) \in ImportTasks
  BY DEF Task, ImportTasks
<1>2. DestinationOf("CATEGORY") = "ACCOUNT" /\ DestinationOf("MERCHANT") = "VENDOR"
  BY DEF DestinationOf
<1>3. {"CATEGORY", "MERCHANT"} \cup Sources \subseteq Imports /\ "VENDOR" \in Destinations
  BY DEF Imports, Destinations
<1>4. \A d \in Destinations : mapping[d] # None /\ mapping[d].import => mapping[d].source \in Imports
  BY <1>3 DEF TypeInv, Sourced, IsImported
<1> HIDE DEF Task, ImportTasks
<1> QED BY <1>1, <1>2, <1>3, <1>4 DEF Tasks

(* A save leaves what is imported with a source field. *)
LEMMA SavedIsSourced ==
    ASSUME TypeInv, NEW success \in BOOLEAN, Save(success)
    PROVE  Sourced'
<1>1. request \in Requests /\ mapping' = MappingSaved(request)
  BY DEF Save, TypeInv, Inv, RequestOK
<1>2. /\ mapping'["VENDOR"] = mapping["VENDOR"]
      /\ \A d \in RequestFields : mapping'[d] = request.mapping[d]
  BY <1>1, MappingSavedType DEF TypeInv, Inv
<1>3. \A d \in RequestFields : request.mapping[d] # None => request.mapping[d].source \in Sources
  BY <1>1 DEF Requests, RequestMapping
<1>4. "VENDOR" \in Destinations /\ Destinations = RequestFields \cup {"VENDOR"}
  BY DEF Destinations, RequestFields
<1> QED BY <1>2, <1>3, <1>4 DEF TypeInv, Sourced, IsImported

(* A save that succeeds leaves logs, marks and fields of their types. *)
LEMMA SaveTypes ==
    ASSUME TypeInv, NEW success \in BOOLEAN, Save(success)
    PROVE  TypeOK'
<1>1. request \in Requests
  BY DEF Save, TypeInv, Inv, RequestOK
<1>2. mapping' \in [Destinations -> MappingSettings]
  BY SaveSchedules DEF TypeInv, MappingOK
<1>3. settings' \in [categories : BOOLEAN, vendors : BOOLEAN, codes : SUBSET CodeFields]
  BY <1>1 DEF Save, Requests
<1>4. log' \in [Imports -> Logged]
  BY DEF Save, LogSaved, Logged, TypeInv, TypeOK
<1>5. complete' \in [Imports -> SUBSET (Destinations \cup {"ACCOUNT"})]
  <2>1. CustomImports(request) \subseteq Destinations
    BY <1>1 DEF CustomImports, Requests, RequestMapping, RequestFields, Destinations
  <2>2. complete \in [Imports -> SUBSET (Destinations \cup {"ACCOUNT"})]
    BY DEF TypeInv, TypeOK
  <2> DEFINE more == CustomImports(request)
  <2> HIDE DEF more
  <2>3. complete' \in {complete, [complete EXCEPT !["CUSTOM"] = @ \cup more]}
    BY DEF Save, CompleteSaved, more
  <2> QED BY <2>1, <2>2, <2>3 DEF more
<1>6. fields' \in 0 .. MaxFields /\ dependent' \in (1 .. MaxFields) \cup {None}
  <2>1. fields \in 0 .. MaxFields /\ dependent \in (1 .. MaxFields) \cup {None} /\ MaxFields \in Nat
    BY BoundsAssumption DEF TypeInv, TypeOK
  <2>2. CASE CreatesFields(request)
    BY <2>1, <2>2 DEF Save
  <2>3. CASE ~CreatesFields(request)
    BY <2>1, <2>3 DEF Save
  <2> QED BY <2>2, <2>3
<1>7. names' \subseteq CodeFields \X BOOLEAN
  BY DEF Save, TypeInv, TypeOK
<1>8. scheduled' \in BOOLEAN
  BY DEF Save, ScheduleSaved
<1>9. overlapped' \in BOOLEAN /\ requests' = requests /\ import' = import
  BY DEF Save
<1> QED BY <1>2, <1>3, <1>4, <1>5, <1>6, <1>7, <1>8, <1>9 DEF TypeInv, TypeOK, Logged

(* Requests, and settings of cards, leave the import alone. *)
LEMMA RequestTypes ==
    ASSUME TypeInv, (\E p \in Payloads : Validate(p)) \/ SaveFails \/ MapCards
    PROVE  Sourced' /\ import' \in ImportState /\ TypeOK'
<1>1. CASE \E p \in Payloads : Validate(p)
  <2>1. requests' \in 0 .. MaxRequests /\ overlapped' \in BOOLEAN
    BY <1>1, BoundsAssumption DEF Validate, TypeInv, TypeOK
  <2> QED BY <1>1, <2>1 DEF Validate, saved, TypeInv, TypeOK, Sourced, IsImported
<1>2. CASE SaveFails
  <2>1. fields' \in 0 .. MaxFields
    BY <1>2, BoundsAssumption DEF SaveFails, TypeInv, TypeOK
  <2> QED BY <1>2, <2>1 DEF SaveFails, TypeInv, TypeOK, Sourced, IsImported
<1>3. CASE MapCards
  <2>1. mapping' \in [Destinations -> MappingSettings]
    BY <1>3, CardsKeep DEF TypeInv, MappingOK
  <2>2. \A d \in Destinations : mapping'[d] = mapping[d] \/ mapping'[d] = CardMapping
    BY <1>3 DEF MapCards, TypeInv, TypeOK
  <2>3. ~CardMapping.import
    BY DEF CardMapping
  <2>4. Sourced'
    BY <2>2, <2>3 DEF TypeInv, Sourced, IsImported
  <2> QED BY <1>3, <2>1, <2>4 DEF MapCards, TypeInv, TypeOK
<1> QED BY <1>1, <1>2, <1>3

(* An import, to its end: it takes on tasks, and runs what it took on. *)
LEMMA ImportTypes ==
    ASSUME TypeInv,
           Initiate \/ StartTask \/ FinishTask \/ TaskFails \/ RunDependents \/ EndImport
    PROVE  Sourced' /\ import' \in ImportState /\ TypeOK'
<1>1. UNCHANGED <<settings, mapping, scheduled, dependent, fields, request, requests>>
  BY DEF Initiate, StartTask, FinishTask, TaskFails, RunDependents, EndImport, saved
<1>2. Sourced' /\ overlapped' \in BOOLEAN
  BY <1>1 DEF Initiate, StartTask, FinishTask, TaskFails, RunDependents, EndImport,
              TypeInv, TypeOK, Sourced, IsImported
<1>3. /\ import \in ImportState /\ log \in [Imports -> Logged]
      /\ complete \in [Imports -> SUBSET (Destinations \cup {"ACCOUNT"})]
      /\ names \subseteq CodeFields \X BOOLEAN
  BY DEF TypeInv, TypeOK, Logged
<1>4. /\ import' \in ImportState /\ log' \in [Imports -> Logged]
      /\ complete' \in [Imports -> SUBSET (Destinations \cup {"ACCOUNT"})]
      /\ names' \subseteq CodeFields \X BOOLEAN
  <2>1. CASE Initiate
    <3>1. PICK b \in BOOLEAN :
            import' = [import EXCEPT !.pc = "running", !.todo = Tasks, !.dependents = b]
      BY <2>1 DEF Initiate, WithDependents
    <3>2. import' \in ImportState
      BY <1>3, <3>1, TasksType DEF ImportState
    <3> QED BY <1>3, <2>1, <3>2 DEF Initiate
  <2>2. CASE StartTask
    <3>1. PICK t \in import.todo :
            /\ import' = [import EXCEPT !.todo = @ \ {t}, !.task = t, !.again = log[t.source].run]
            /\ log' = [log EXCEPT ![t.source].exists = TRUE]
      BY <2>2 DEF StartTask
    <3>2. t \in ImportTasks /\ t.source \in Imports
      BY <1>3 DEF ImportState, ImportTasks
    <3>3. log[t.source] \in Logged
      BY <1>3, <3>2
    <3>4. log' \in [Imports -> Logged]
      BY <1>3, <3>1, <3>2, <3>3 DEF Logged
    <3>5. log[t.source].run \in BOOLEAN
      BY <3>3 DEF Logged
    <3>6. import' \in ImportState
      BY <1>3, <3>1, <3>2, <3>5 DEF ImportState
    <3> QED BY <1>3, <2>2, <3>4, <3>6 DEF StartTask
  <2>3. CASE FinishTask \/ TaskFails
    <3>1. import.task \in ImportTasks
      BY <1>3, <2>3 DEF FinishTask, TaskFails, ImportState
    <3> DEFINE t == import.task
    <3>2. t.source \in Imports /\ t.destination \in Destinations \cup {"ACCOUNT"} /\ t.coded \in BOOLEAN
      BY <3>1 DEF ImportTasks
    <3>3. names' \subseteq CodeFields \X BOOLEAN
      <4>1. names' = Named(t)
        BY <2>3 DEF FinishTask, TaskFails
      <4> QED BY <1>3, <3>2, <4>1 DEF Named
    <3>4. import' \in ImportState
      <4>1. import' = [import EXCEPT !.task = None, !.again = FALSE]
        BY <2>3 DEF FinishTask, TaskFails
      <4> QED BY <1>3, <4>1 DEF ImportState
    <3>5. complete' \in [Imports -> SUBSET (Destinations \cup {"ACCOUNT"})]
      <4>1. complete' \in {complete, [complete EXCEPT ![t.source] = @ \cup {t.destination}]}
        BY <2>3 DEF FinishTask, TaskFails
      <4> HIDE DEF t
      <4> QED BY <1>3, <3>2, <4>1
    <3>6. log' \in [Imports -> Logged]
      <4>1. log' = log \/ log' = [log EXCEPT ![t.source].run = TRUE]
        BY <2>3 DEF FinishTask, TaskFails
      <4>2. log[t.source] \in Logged
        BY <1>3, <3>2
      <4>3. [log[t.source] EXCEPT !.run = TRUE] \in Logged
        BY <4>2 DEF Logged
      <4> DEFINE l == [log[t.source] EXCEPT !.run = TRUE]
      <4>4. log' = log \/ log' = [log EXCEPT ![t.source] = l]
        BY <4>1
      <4> HIDE DEF t, l, Logged
      <4>5. l \in Logged
        BY <4>3 DEF l
      <4> QED BY <1>3, <3>2, <4>4, <4>5
    <3> QED BY <3>3, <3>4, <3>5, <3>6
  <2>4. CASE RunDependents
    <3>1. log' \in [Imports -> Logged]
      BY <1>3, <2>4 DEF RunDependents, Logged
    <3>2. names' \subseteq CodeFields \X BOOLEAN
      <4>1. ASSUME NEW f \in Dependents
            PROVE  <<f, f \in settings.codes>> \in CodeFields \X BOOLEAN
        <5>1. f \in CodeFields /\ (f \in settings.codes) \in BOOLEAN
          BY DEF Dependents, CodeFields
        <5> QED BY <5>1, Zenon
      <4>2. names' = names \cup {<<f, f \in settings.codes>> : f \in Dependents}
        BY <2>4 DEF RunDependents
      <4> QED BY <1>3, <4>1, <4>2, Zenon
    <3>3. import' \in ImportState
      BY <1>3, <2>4 DEF RunDependents, ImportState
    <3> QED BY <1>3, <2>4, <3>1, <3>2, <3>3 DEF RunDependents
  <2>5. CASE EndImport
    BY <1>3, <2>5 DEF EndImport, IdleImport, ImportState
  <2> QED BY <2>1, <2>2, <2>3, <2>4, <2>5
<1> HIDE DEF ImportState
<1> QED BY <1>1, <1>2, <1>4 DEF TypeInv, TypeOK, ImportState, Logged

(* The initial states have their types. *)
LEMMA TypeInitially == Init => TypeInv
<1> SUFFICES ASSUME Init PROVE TypeInv
  OBVIOUS
<1>1. Inv
  BY Initially
<1>2. Sourced /\ import \in ImportState
  BY DEF Init, Sourced, IsImported, IdleImport, ImportState
<1>3. TypeOK
  <2>1. /\ MaxFields \in Nat /\ MaxRequests \in Nat
        /\ fields = 0 /\ requests = 0 /\ dependent = None
    BY BoundsAssumption DEF Init
  <2>2. /\ settings \in [categories : BOOLEAN, vendors : BOOLEAN, codes : SUBSET CodeFields]
        /\ mapping \in [Destinations -> MappingSettings]
        /\ scheduled \in BOOLEAN /\ overlapped \in BOOLEAN /\ names \subseteq CodeFields \X BOOLEAN
    BY DEF Init, MappingSettings
  <2>3. log \in [Imports -> [exists : BOOLEAN, run : BOOLEAN]]
    BY DEF Init
  <2>4. complete \in [Imports -> SUBSET (Destinations \cup {"ACCOUNT"})]
    BY DEF Init
  <2>5. import.pc \in {"idle", "running"} /\ import.dependents \in BOOLEAN /\ import.again \in BOOLEAN
    BY DEF Init, IdleImport
  <2> QED BY <2>1, <2>2, <2>3, <2>4, <2>5 DEF TypeOK
<1> QED BY <1>1, <1>2, <1>3 DEF TypeInv

(* Every step keeps them. *)
LEMMA TypeStep == TypeInv /\ [Next]_vars => TypeInv'
<1> SUFFICES ASSUME TypeInv, [Next]_vars PROVE TypeInv'
  OBVIOUS
<1>1. Inv'
  BY Step DEF TypeInv
<1>2. CASE \E success \in BOOLEAN : Save(success)
  <2>1. import' = import
    BY <1>2 DEF Save
  <2> QED BY <1>1, <1>2, <2>1, SavedIsSourced, SaveTypes DEF TypeInv
<1>3. CASE (\E p \in Payloads : Validate(p)) \/ SaveFails \/ MapCards
  BY <1>1, <1>3, RequestTypes DEF TypeInv
<1>4. CASE Initiate \/ StartTask \/ FinishTask \/ TaskFails \/ RunDependents \/ EndImport
  BY <1>1, <1>4, ImportTypes DEF TypeInv
<1>5. CASE UNCHANGED vars
  BY <1>1, <1>5 DEF TypeInv, TypeOK, Sourced, IsImported, vars
<1> QED BY <1>2, <1>3, <1>4, <1>5 DEF Next

(* Type correctness: settings, logs, marks and the import keep their types, and
   what an import runs has a source field and a destination. *)
THEOREM TypeCorrect == Spec => []TypeOK
<1>1. TypeInv => TypeOK
  BY DEF TypeInv
<1> QED BY TypeInitially, TypeStep, <1>1, PTL DEF Spec
----------------------------------------------------------------------------
(***************************************************************************)
(* Names and runs, as long as no request is saved across an import         *)
(***************************************************************************)

Maps(d, s) == mapping[d] # None /\ mapping[d].source = s
Asked(p) == request = [p EXCEPT !.codes = NewCodes(p)]

\* The mapping of vendors is that of the export settings, if any; a source field
\* goes to one destination; with JOB from projects, dependents carry codes, too.
Shaped ==
    /\ mapping["VENDOR"] \in {None, CardMapping}
    /\ \A d, e \in RequestFields, s \in Sources : Maps(d, s) /\ Maps(e, s) => d = e
    /\ "JOB" \in settings.codes /\ Maps("JOB", "PROJECT") => Dependents \subseteq settings.codes
    /\ request # None => \E p \in Payloads : Asked(p)

\* What is named has a log, by which the validation knows it.
NamesLogged ==
    \A n \in names :
        /\ n[1] = "ACCOUNT" => "CATEGORY" \in Logs
        /\ n[1] = "VENDOR" => "MERCHANT" \in Logs
        /\ n[1] = "JOB" => \E s \in Logs \cap Sources : Maps("JOB", s)
        /\ n[1] \in Dependents => "PROJECT" \in Logs /\ Maps("JOB", "PROJECT")

\* What waits to be saved would be accepted again.
RequestHolds ==
    request # None => import = IdleImport /\ \E p \in Payloads : Asked(p) /\ ~Refused(p)

\* The import runs what the settings say, and dependents only after projects.
ImportHolds ==
    /\ import.todo \subseteq Tasks
    /\ import.task # None =>
          /\ import.task \in Tasks /\ import.task.source \in Logs
          /\ import.again => log[import.task.source].run
    /\ import.dependents =>
          /\ Maps("JOB", "PROJECT")
          /\ "PROJECT" \in Logs \/ \E t \in import.todo : t.source = "PROJECT"

\* A source field with a run is mapped, and all its values are in Fyle.
RunsHold ==
    \A s \in Sources : log[s].run => \E d \in RequestFields : Maps(d, s) /\ d \in complete[s]

NamesAgree == \A n \in names : n[2] <=> n[1] \in settings.codes

Orderly == NamesLogged /\ RequestHolds /\ ImportHolds /\ RunsHold /\ NamesAgree
OrderlyInv == TypeInv /\ Shaped /\ (~overlapped => Orderly)

\* The form offers codes of JOB, which bring those of its dependents; the
\* serializer would take the codes of a dependent alone.
DependentsGoWithJob == \A p \in Payloads : p.codes \cap Dependents # {} => "JOB" \in p.codes

(* A request that is asked for is a payload, but for its codes. *)
LEMMA AskedIs ==
    ASSUME NEW p \in Payloads, Asked(p)
    PROVE  /\ request.categories = p.categories /\ request.vendors = p.vendors
           /\ request.mapping = p.mapping /\ request.codes = NewCodes(p)
           /\ p \in Requests /\ p.mapping \in RequestMapping /\ DOMAIN p.mapping = RequestFields
           /\ p.codes \subseteq CodeFields
           /\ \A d, e \in RequestFields :
                 p.mapping[d] # None /\ p.mapping[e] # None /\ p.mapping[d].source = p.mapping[e].source
                     => d = e
<1>1. p \in Requests
  BY PayloadsAssumption DEF Requests, RequestMapping, RequestFields
<1>2. \A d, e \in RequestFields :
         p.mapping[d] # None /\ p.mapping[e] # None /\ p.mapping[d].source = p.mapping[e].source
             => d = e
  BY PayloadsAssumption DEF RequestFields
<1> QED BY <1>1, <1>2 DEF Asked, Requests, RequestMapping

(* A payload's own codes say whether JOB carries one. *)
LEMMA NewCodesOf ==
    ASSUME NEW p \in Requests
    PROVE  /\ p.codes \subseteq NewCodes(p)
           /\ \A f \in CodeFields \ Dependents : f \in NewCodes(p) <=> f \in p.codes
           /\ "JOB" \in p.codes /\ JobSource(p) = "PROJECT" => Dependents \subseteq NewCodes(p)
           /\ "JOB" \notin p.codes => NewCodes(p) = p.codes
BY DEF NewCodes

(* A task of the import is one of accounts, of vendors, or of a mapping. *)
LEMMA TasksAre ==
    ASSUME TypeInv, Shaped
    PROVE  \A t \in Tasks :
              /\ t.coded <=> t.destination \in settings.codes
              /\ \/ t.source = "CATEGORY" /\ t.destination = "ACCOUNT"
                 \/ t.source = "MERCHANT" /\ t.destination = "VENDOR"
                 \/ /\ t.destination \in RequestFields /\ t.source \in Sources
                    /\ Maps(t.destination, t.source)
<1> SUFFICES ASSUME NEW t \in Tasks
             PROVE  /\ t.coded <=> t.destination \in settings.codes
                    /\ \/ t.source = "CATEGORY" /\ t.destination = "ACCOUNT"
                       \/ t.source = "MERCHANT" /\ t.destination = "VENDOR"
                       \/ /\ t.destination \in RequestFields /\ t.source \in Sources
                          /\ Maps(t.destination, t.source)
  OBVIOUS
<1>1. CASE \E s \in {"CATEGORY", "MERCHANT"} : t = Task(s, DestinationOf(s))
  <2>1. PICK s \in {"CATEGORY", "MERCHANT"} : t = Task(s, DestinationOf(s))
    BY <1>1
  <2>2. /\ t.source = s /\ t.destination = DestinationOf(s)
        /\ t.coded = (DestinationOf(s) \in settings.codes)
    BY <2>1 DEF Task
  <2>3. t.coded <=> t.destination \in settings.codes
    BY <2>2
  <2>4. CASE s = "CATEGORY"
    BY <2>2, <2>3, <2>4 DEF DestinationOf
  <2>5. CASE s = "MERCHANT"
    BY <2>2, <2>3, <2>5 DEF DestinationOf
  <2> QED BY <2>4, <2>5
<1>2. CASE \E d \in Destinations : IsImported(d) /\ t = Task(mapping[d].source, d)
  <2>1. PICK d \in Destinations : IsImported(d) /\ t = Task(mapping[d].source, d)
    BY <1>2
  <2>2. d # "VENDOR"
    BY <2>1 DEF Shaped, CardMapping, IsImported
  <2>3. d \in RequestFields /\ mapping[d].source \in Sources
    BY <2>1, <2>2 DEF RequestFields, Destinations, TypeInv, Sourced
  <2> QED BY <2>1, <2>3 DEF Task, Maps, IsImported
<1> QED BY <1>1, <1>2 DEF Tasks, IsImported

(* Steps that leave settings, mapping and requests alone leave their shape alone. *)
LEMMA ShapedKeeps ==
    ASSUME Shaped, UNCHANGED <<settings, mapping>>, request' = request \/ request' = None
    PROVE  Shaped'
<1>1. request' # None => \E p \in Payloads : Asked(p)'
  <2>1. CASE request' = request
    BY <2>1 DEF Shaped, Asked, NewCodes, JobSource
  <2> QED BY <2>1
<1> QED BY <1>1 DEF Shaped, Maps

(* A save has the shape of its payload. *)
LEMMA SaveShapes ==
    ASSUME TypeInv, Shaped, NEW success \in BOOLEAN, Save(success)
    PROVE  Shaped'
<1>1. PICK p \in Payloads : Asked(p)
  BY DEF Shaped, Save
<1>2. /\ request.mapping = p.mapping /\ request.codes = NewCodes(p)
      /\ p \in Requests /\ p.mapping \in RequestMapping
      /\ \A d, e \in RequestFields :
            p.mapping[d] # None /\ p.mapping[e] # None /\ p.mapping[d].source = p.mapping[e].source
                => d = e
  BY <1>1, AskedIs
<1>3. request \in Requests /\ mapping' = MappingSaved(request) /\ settings'.codes = request.codes
      /\ request' = None
  BY DEF Save, TypeInv, Inv, RequestOK
<1>4. /\ mapping'["VENDOR"] = mapping["VENDOR"]
      /\ \A d \in RequestFields : mapping'[d] = p.mapping[d]
  BY <1>2, <1>3, MappingSavedType DEF TypeInv, Inv
<1>5. \A d, e \in RequestFields, s \in Sources : Maps(d, s)' /\ Maps(e, s)' => d = e
  BY <1>2, <1>4 DEF Maps
<1>6. ASSUME "JOB" \in settings'.codes, Maps("JOB", "PROJECT")'
      PROVE  Dependents \subseteq settings'.codes
  <2>1. JobSource(p) = "PROJECT"
    BY <1>4, <1>6 DEF Maps, JobSource, RequestFields
  <2>2. "JOB" \in p.codes
    BY <1>2, <1>3, <1>6, NewCodesOf DEF CodeFields, Dependents
  <2> QED BY <1>2, <1>3, <2>1, <2>2, NewCodesOf
<1> QED BY <1>3, <1>4, <1>5, <1>6 DEF Shaped

(* Every step keeps the shape. *)
LEMMA ShapedStep ==
    ASSUME TypeInv, Shaped, [Next]_vars
    PROVE  Shaped'
<1>1. ASSUME NEW p \in Payloads, Validate(p)
      PROVE  Shaped'
  <2>1. UNCHANGED <<settings, mapping>> /\ request' = [p EXCEPT !.codes = NewCodes(p)]
    BY <1>1 DEF Validate, saved
  <2>2. Asked(p)'
    BY <2>1 DEF Asked, NewCodes, JobSource
  <2> QED BY <2>1, <2>2 DEF Shaped, Maps
<1>2. CASE \E success \in BOOLEAN : Save(success)
  BY <1>2, SaveShapes
<1>3. CASE MapCards
  <2>1. /\ mapping' = [mapping EXCEPT !["VENDOR"] = CardMapping]
        /\ UNCHANGED <<settings, request>> /\ mapping \in [Destinations -> MappingSettings]
    BY <1>3 DEF MapCards, TypeInv, TypeOK
  <2>2. mapping'["VENDOR"] = CardMapping /\ \A d \in RequestFields : mapping'[d] = mapping[d]
    BY <2>1 DEF RequestFields, Destinations
  <2>3. request' # None => \E p \in Payloads : Asked(p)'
    BY <2>1 DEF Shaped, Asked, NewCodes, JobSource
  <2>4. \A d \in RequestFields, s \in Sources : Maps(d, s)' <=> Maps(d, s)
    BY <2>2 DEF Maps
  <2>5. "JOB" \in RequestFields /\ "PROJECT" \in Sources
    BY DEF RequestFields, Sources
  <2> QED BY <2>1, <2>2, <2>3, <2>4, <2>5 DEF Shaped
<1>4. CASE SaveFails \/ Initiate \/ StartTask \/ FinishTask \/ TaskFails \/ RunDependents
           \/ EndImport \/ UNCHANGED vars
  <2>1. UNCHANGED <<settings, mapping>> /\ (request' = request \/ request' = None)
    BY <1>4 DEF SaveFails, Initiate, StartTask, FinishTask, TaskFails, RunDependents, EndImport,
                saved, vars
  <2> QED BY <2>1, ShapedKeeps
<1> QED BY <1>1, <1>2, <1>3, <1>4 DEF Next

(* A source that is mapped is no None: what JOB follows can be read off. *)
LEMMA JobFollows ==
    ASSUME TypeInv, NEW p \in Requests, JobSource(p) = SourceOf("JOB")
    PROVE  /\ p.mapping["JOB"] # None => Maps("JOB", p.mapping["JOB"].source)
           /\ \A s \in Sources : Maps("JOB", s) => p.mapping["JOB"] # None /\ p.mapping["JOB"].source = s
<1>1. "JOB" \in RequestFields /\ "JOB" \in Destinations
  BY DEF RequestFields, Destinations
<1>2. p.mapping["JOB"] # None => p.mapping["JOB"].source \in Sources
  BY <1>1 DEF Requests, RequestMapping
<1> QED BY <1>2, NoneAssumption DEF JobSource, SourceOf, Maps

(* After a save, what is named still has its log, and is named as the settings
   say: the validation refuses to change the codes of a field whose source has a
   log, and names that follow JOB go when JOB gets another source. *)
LEMMA SaveNames ==
    ASSUME DependentsGoWithJob, TypeInv, Shaped, Orderly, NEW success \in BOOLEAN, Save(success),
           NEW p \in Payloads, Asked(p), ~Refused(p)
    PROVE  NamesLogged' /\ NamesAgree'
<1>1. /\ request.mapping = p.mapping /\ request.codes = NewCodes(p)
      /\ p \in Requests /\ p.mapping \in RequestMapping /\ DOMAIN p.mapping = RequestFields
      /\ p.codes \subseteq CodeFields
  BY AskedIs
<1>2. /\ request \in Requests /\ mapping' = MappingSaved(request)
      /\ settings'.codes = NewCodes(p) /\ JobSource(request) = JobSource(p)
      /\ settings.codes \subseteq CodeFields
  BY <1>1 DEF Save, TypeInv, TypeOK, Inv, RequestOK, JobSource
<1>3. \A d \in RequestFields : mapping'[d] = p.mapping[d]
  BY <1>1, <1>2, MappingSavedType DEF TypeInv, Inv
<1>4. Logs \subseteq Logs'
  BY DEF Save, LogSaved, Logs
<1>5. \A f \in CodeFields \ Dependents : f \in NewCodes(p) <=> f \in p.codes
  BY <1>1, NewCodesOf
<1>6. \A n \in names' : /\ n \in names /\ n[1] \in CodeFields
                        /\ n[1] \in {"JOB"} \cup Dependents => JobSource(p) = SourceOf("JOB")
  BY <1>2 DEF Save, TypeInv, TypeOK
<1> SUFFICES ASSUME NEW n \in names'
             PROVE  /\ n[1] = "ACCOUNT" => "CATEGORY" \in Logs'
                    /\ n[1] = "VENDOR" => "MERCHANT" \in Logs'
                    /\ n[1] = "JOB" => \E s \in Logs' \cap Sources : Maps("JOB", s)'
                    /\ n[1] \in Dependents => "PROJECT" \in Logs' /\ Maps("JOB", "PROJECT")'
                    /\ n[2] <=> n[1] \in settings'.codes
  BY DEF NamesLogged, NamesAgree
<1>7. n[2] <=> n[1] \in settings.codes
  BY <1>6 DEF Orderly, NamesAgree
<1>8. CASE n[1] = "ACCOUNT"
  <2>1. "CATEGORY" \in Logs
    BY <1>6, <1>8 DEF Orderly, NamesLogged
  <2>2. "ACCOUNT" \in p.codes <=> "ACCOUNT" \in settings.codes
    BY <2>1 DEF Refused, Differ
  <2> QED BY <1>2, <1>4, <1>5, <1>7, <1>8, <2>1, <2>2 DEF CodeFields, Dependents
<1>9. CASE n[1] = "VENDOR"
  <2>1. "MERCHANT" \in Logs
    BY <1>6, <1>9 DEF Orderly, NamesLogged
  <2>2. "VENDOR" \in p.codes <=> "VENDOR" \in settings.codes
    BY <2>1 DEF Refused, Differ
  <2> QED BY <1>2, <1>4, <1>5, <1>7, <1>9, <2>1, <2>2 DEF CodeFields, Dependents
<1>10. ASSUME NEW s \in Logs \cap Sources, Maps("JOB", s), JobSource(p) = SourceOf("JOB")
       PROVE  Maps("JOB", s)' /\ ("JOB" \in p.codes <=> "JOB" \in settings.codes) /\ JobSource(p) = s
  <2>1. "JOB" \in RequestFields
    BY DEF RequestFields
  <2>2. p.mapping["JOB"] # None /\ p.mapping["JOB"].source = s
    BY <1>1, <1>10, JobFollows
  <2>3. "JOB" \in p.codes <=> "JOB" \in settings.codes
    BY <1>1, <2>1, <2>2 DEF Refused, Differ
  <2> QED BY <1>3, <2>1, <2>2, <2>3 DEF Maps, JobSource
<1>11. CASE n[1] = "JOB"
  <2>1. PICK s \in Logs \cap Sources : Maps("JOB", s)
    BY <1>6, <1>11 DEF Orderly, NamesLogged
  <2>2. JobSource(p) = SourceOf("JOB")
    BY <1>6, <1>11
  <2>3. Maps("JOB", s)' /\ ("JOB" \in p.codes <=> "JOB" \in settings.codes)
    BY <1>10, <2>1, <2>2
  <2>4. \E r \in Logs' \cap Sources : Maps("JOB", r)'
    BY <1>4, <2>3
  <2> QED BY <1>2, <1>5, <1>7, <1>11, <2>3, <2>4 DEF CodeFields, Dependents
<1>12. CASE n[1] \in Dependents
  <2>1. "PROJECT" \in Logs /\ Maps("JOB", "PROJECT") /\ "PROJECT" \in Sources
    BY <1>6, <1>12 DEF Orderly, NamesLogged, Sources
  <2>2. /\ Maps("JOB", "PROJECT")' /\ JobSource(p) = "PROJECT"
        /\ "JOB" \in p.codes <=> "JOB" \in settings.codes
    BY <1>6, <1>10, <1>12, <2>1
  <2>3. n[1] \in settings.codes => n[1] \in NewCodes(p)
    <3>1. OldCodes(p) = settings.codes
      BY <2>2 DEF OldCodes
    <3> QED BY <3>1 DEF Refused
  <2>4. ASSUME n[1] \in NewCodes(p), n[1] \notin settings.codes
        PROVE  FALSE
    <3>1. "JOB" \notin settings.codes
      BY <1>12, <2>1, <2>4 DEF Shaped
    <3>2. "JOB" \notin p.codes
      BY <2>2, <3>1
    <3>3. n[1] \in p.codes
      BY <1>1, <2>4, <3>2, NewCodesOf
    <3> QED BY <1>12, <3>2, <3>3 DEF DependentsGoWithJob
  <2> QED BY <1>2, <1>4, <1>7, <1>12, <2>1, <2>2, <2>3, <2>4 DEF Dependents
<1> QED BY <1>6, <1>8, <1>9, <1>11, <1>12 DEF CodeFields, Dependents

(* After a save, a source with a run goes where it went, or is a custom field
   that was imported while it was saved. *)
LEMMA SaveRuns ==
    ASSUME TypeInv, Shaped, RunsHold, NEW success \in BOOLEAN, Save(success),
           NEW p \in Payloads, Asked(p)
    PROVE  RunsHold'
<1>1. /\ request.mapping = p.mapping /\ p \in Requests /\ p.mapping \in RequestMapping
      /\ DOMAIN p.mapping = RequestFields
      /\ \A d, e \in RequestFields :
            p.mapping[d] # None /\ p.mapping[e] # None /\ p.mapping[d].source = p.mapping[e].source
                => d = e
  BY AskedIs
<1>2. /\ request \in Requests /\ mapping' = MappingSaved(request)
      /\ log' = LogSaved(request, success) /\ complete' = CompleteSaved(request, success)
      /\ complete \in [Imports -> SUBSET (Destinations \cup {"ACCOUNT"})]
  BY DEF Save, TypeInv, TypeOK, Inv, RequestOK
<1>3. \A d \in RequestFields : mapping'[d] = p.mapping[d]
  BY <1>1, <1>2, MappingSavedType DEF TypeInv, Inv
<1>4. Sources \subseteq Imports /\ "CUSTOM" \in Imports /\ RequestFields \subseteq Destinations
  BY DEF Imports, Sources, RequestFields, Destinations
<1>5. \A s \in Sources : complete[s] \subseteq complete'[s]
  BY <1>2, <1>4 DEF CompleteSaved
<1> SUFFICES ASSUME NEW s \in Sources, log'[s].run
             PROVE  \E d \in RequestFields : Maps(d, s)' /\ d \in complete'[s]
  BY DEF RunsHold
<1>6. \/ log[s].run /\ s \notin Reset(request)
      \/ s = "CUSTOM" /\ CustomImports(request) # {} /\ success
  BY <1>2, <1>4 DEF LogSaved
<1>7. CASE log[s].run /\ s \notin Reset(request)
  <2>1. PICK d \in RequestFields : Maps(d, s) /\ d \in complete[s]
    BY <1>7 DEF RunsHold
  <2>2. \E e \in DOMAIN p.mapping : p.mapping[e] # None /\ p.mapping[e].source = s /\ e = d
    BY <1>1, <1>4, <1>7, <2>1 DEF Reset, Maps
  <2>3. p.mapping[d] # None /\ p.mapping[d].source = s
    BY <2>2
  <2> QED BY <1>3, <1>5, <2>1, <2>3 DEF Maps
<1>8. CASE s = "CUSTOM" /\ CustomImports(request) # {} /\ success /\ ~(log[s].run /\ s \notin Reset(request))
  <2>1. PICK d \in CustomImports(request) : TRUE
    BY <1>8
  <2>2. d \in RequestFields /\ p.mapping[d] # None /\ p.mapping[d].source = "CUSTOM"
    BY <1>1, <2>1 DEF CustomImports
  <2>3. complete' = [complete EXCEPT !["CUSTOM"] = @ \cup CustomImports(request)]
    BY <1>2, <1>8 DEF CompleteSaved
  <2>4. d \in complete'["CUSTOM"]
    BY <1>2, <1>4, <2>1, <2>3
  <2> QED BY <1>3, <1>8, <2>2, <2>4 DEF Maps
<1> QED BY <1>6, <1>7, <1>8

(* What a step does not read of does not disturb the order. *)
LEMMA OrderlyKeeps ==
    ASSUME TypeInv, Shaped, Orderly, UNCHANGED <<settings, log, names, complete, import>>,
           mapping' = mapping \/ MapCards
    PROVE  /\ NamesLogged' /\ ImportHolds' /\ RunsHold' /\ NamesAgree'
           /\ \A p \in Payloads : (Asked(p) /\ ~Refused(p)) /\ request' = request => (Asked(p) /\ ~Refused(p))'
<1>1. \A d \in RequestFields, s \in Sources : Maps(d, s)' <=> Maps(d, s)
  <2>1. CASE mapping' = mapping
    BY <2>1 DEF Maps
  <2>2. CASE MapCards
    <3>1. \A d \in RequestFields : mapping'[d] = mapping[d]
      BY <2>2 DEF MapCards, RequestFields, Destinations, TypeInv, TypeOK
    <3> QED BY <3>1 DEF Maps
  <2> QED BY <2>1, <2>2
<1>2. "JOB" \in RequestFields /\ "PROJECT" \in Sources
  BY DEF RequestFields, Sources
<1>3. Tasks' = Tasks
  <2>1. \A s, d : Task(s, d)' = Task(s, d)
    BY DEF Task
  <2>2. \A d \in Destinations : IsImported(d)' <=> IsImported(d)
    <3>1. CASE mapping' = mapping
      BY <3>1 DEF IsImported
    <3>2. CASE MapCards
      <4>1. mapping["VENDOR"] = None /\ ~CardMapping.import
            /\ mapping' = [mapping EXCEPT !["VENDOR"] = CardMapping]
        BY <3>2 DEF MapCards, CardMapping
      <4> QED BY <4>1 DEF IsImported, TypeInv, TypeOK
    <3> QED BY <3>1, <3>2
  <2>3. \A d \in Destinations : IsImported(d) => mapping'[d] = mapping[d]
    <3>1. CASE MapCards
      BY <3>1 DEF MapCards, IsImported, TypeInv, TypeOK
    <3> QED BY <3>1
  <2>4. \A d \in Destinations : IsImported(d) => Task(mapping[d].source, d)' = Task(mapping[d].source, d)
    BY <2>3 DEF Task
  <2> DEFINE D == {e \in Destinations : mapping[e] # None /\ mapping[e].import}
             S == {t \in {"CATEGORY"} : settings.categories} \cup {t \in {"MERCHANT"} : settings.vendors}
  <2>5. D' = D /\ S' = S /\ \A d \in D : Task(mapping[d].source, d)' = Task(mapping[d].source, d)
    BY <2>2, <2>4 DEF IsImported
  <2>6. Tasks = {Task(s, DestinationOf(s)) : s \in S} \cup {Task(mapping[d].source, d) : d \in D}
    BY DEF Tasks
  <2>7. Tasks' = {Task(s, DestinationOf(s))' : s \in S'} \cup {Task(mapping[d].source, d)' : d \in D'}
    BY DEF Tasks
  <2> HIDE DEF D, S
  <2>8. {Task(s, DestinationOf(s))' : s \in S'} = {Task(s, DestinationOf(s)) : s \in S}
    BY <2>1, <2>5
  <2>9. {Task(mapping[d].source, d)' : d \in D'} = {Task(mapping[d].source, d) : d \in D}
    BY <2>5
  <2> QED BY <2>6, <2>7, <2>8, <2>9
<1>4. NamesLogged'
  BY <1>1, <1>2 DEF Orderly, NamesLogged, Logs
<1>5. ImportHolds'
  BY <1>1, <1>2, <1>3 DEF Orderly, ImportHolds, Logs
<1>6. RunsHold' /\ NamesAgree'
  BY <1>1 DEF Orderly, RunsHold, NamesAgree
<1>7. \A p \in Payloads : (Asked(p) /\ ~Refused(p)) /\ request' = request => (Asked(p) /\ ~Refused(p))'
  BY DEF Asked, Refused, NewCodes, OldCodes, JobSource, Differ, Logs
<1> QED BY <1>4, <1>5, <1>6, <1>7

(* A request that is validated while no import runs is one the settings accept,
   and stays so until it is saved or fails to be. *)
LEMMA RequestsOrderly ==
    ASSUME OrderlyInv, ~overlapped', (\E p \in Payloads : Validate(p)) \/ SaveFails \/ MapCards
    PROVE  Orderly'
<1>1. ~overlapped /\ Orderly /\ UNCHANGED <<settings, log, names, complete, import>>
      /\ (mapping' = mapping \/ MapCards)
  <2>1. ~overlapped
    BY DEF Validate, SaveFails, MapCards
  <2>2. Orderly
    BY <2>1 DEF OrderlyInv
  <2>3. UNCHANGED <<settings, log, names, complete, import>>
    BY DEF Validate, SaveFails, MapCards, saved
  <2>4. mapping' = mapping \/ MapCards
    BY DEF Validate, SaveFails, saved
  <2> QED BY <2>1, <2>2, <2>3, <2>4
<1>2. /\ NamesLogged' /\ ImportHolds' /\ RunsHold' /\ NamesAgree'
      /\ \A p \in Payloads : (Asked(p) /\ ~Refused(p)) /\ request' = request => (Asked(p) /\ ~Refused(p))'
  BY <1>1, OrderlyKeeps DEF OrderlyInv
<1>3. CASE \E p \in Payloads : Validate(p)
  <2>1. PICK p \in Payloads : Validate(p)
    BY <1>3
  <2>2. import' = IdleImport
    BY <1>1, <2>1 DEF Validate
  <2>3. ~Refused(p)' /\ Asked(p)'
    BY <2>1 DEF Validate, saved, Asked, Refused, NewCodes, OldCodes, JobSource, Differ, Logs
  <2> QED BY <1>2, <2>2, <2>3 DEF Orderly, RequestHolds
<1>4. CASE SaveFails
  BY <1>2, <1>4 DEF SaveFails, Orderly, RequestHolds
<1>5. CASE MapCards
  <2>1. request' = request
    BY <1>5 DEF MapCards
  <2>2. RequestHolds'
    BY <1>1, <1>2, <2>1 DEF Orderly, RequestHolds
  <2> QED BY <1>2, <2>2 DEF Orderly
<1> QED BY <1>3, <1>4, <1>5

(* A save, while no import runs, of what would be accepted again. *)
LEMMA SaveOrderly ==
    ASSUME DependentsGoWithJob, OrderlyInv, NEW success \in BOOLEAN, Save(success), ~overlapped'
    PROVE  Orderly'
<1>1. ~overlapped /\ Orderly /\ import' = IdleImport /\ request' = None /\ request # None
  BY DEF OrderlyInv, Save
<1>2. PICK p \in Payloads : Asked(p) /\ ~Refused(p)
  BY <1>1 DEF Orderly, RequestHolds
<1>3. NamesLogged' /\ NamesAgree'
  BY <1>1, <1>2, SaveNames DEF OrderlyInv
<1>4. RunsHold'
  BY <1>1, <1>2, SaveRuns DEF OrderlyInv, Orderly
<1>5. ImportHolds' /\ RequestHolds'
  BY <1>1 DEF ImportHolds, RequestHolds, IdleImport
<1> QED BY <1>3, <1>4, <1>5 DEF Orderly

(* An import begins with what the settings list; when it is to run dependents,
   projects are among it. *)
LEMMA InitiateOrderly ==
    ASSUME OrderlyInv, Initiate, ~overlapped'
    PROVE  Orderly'
<1>1. ~overlapped /\ request' = None
  BY DEF Initiate
<1>2. Orderly /\ UNCHANGED <<settings, mapping, log, names, complete>>
  BY <1>1 DEF OrderlyInv, Initiate, saved
<1>3. PICK b \in WithDependents :
        import' = [IdleImport EXCEPT !.pc = "running", !.todo = Tasks, !.dependents = b]
  BY DEF Initiate
<1>4. import'.todo = Tasks /\ import'.task = None /\ import'.dependents = b
  BY <1>3 DEF IdleImport
<1>5. Tasks' = Tasks
  BY <1>2 DEF Tasks, Task
<1>6. ASSUME b
      PROVE  Maps("JOB", "PROJECT") /\ \E t \in Tasks : t.source = "PROJECT"
  <2>1. SourceOf("JOB") = "PROJECT" /\ mapping["JOB"].import
    BY <1>6 DEF WithDependents
  <2>2. mapping["JOB"] # None /\ mapping["JOB"].source = "PROJECT" /\ "JOB" \in Destinations
    BY <2>1, NoneAssumption DEF SourceOf, Sources, Destinations
  <2>3. Task("PROJECT", "JOB") \in Tasks
    BY <2>1, <2>2 DEF Tasks
  <2>4. Task("PROJECT", "JOB").source = "PROJECT"
    BY DEF Task
  <2> QED BY <2>2, <2>3, <2>4 DEF Maps
<1>7. import'.dependents => Maps("JOB", "PROJECT")' /\ \E t \in import'.todo : t.source = "PROJECT"
  BY <1>2, <1>4, <1>6 DEF Maps
<1>8. ImportHolds'
  BY <1>4, <1>5, <1>7 DEF ImportHolds
<1>9. NamesLogged' /\ RunsHold' /\ NamesAgree'
  BY <1>2 DEF Orderly, NamesLogged, RunsHold, NamesAgree, Maps, Logs
<1>10. RequestHolds'
  BY <1>1 DEF RequestHolds
<1> QED BY <1>8, <1>9, <1>10 DEF Orderly

(* A task that starts is one of the list, and has its log from now on. *)
LEMMA StartTaskOrderly ==
    ASSUME OrderlyInv, StartTask, ~overlapped'
    PROVE  Orderly'
<1>1. ~overlapped /\ request' = None
  BY DEF StartTask
<1>2. Orderly /\ UNCHANGED <<settings, mapping, names, complete>>
  BY <1>1 DEF OrderlyInv, StartTask, saved
<1>3. PICK t \in import.todo :
        /\ import' = [import EXCEPT !.todo = @ \ {t}, !.task = t, !.again = log[t.source].run]
        /\ log' = [log EXCEPT ![t.source].exists = TRUE]
  BY DEF StartTask
<1>4. /\ import \in ImportState /\ log \in [Imports -> Logged]
      /\ t \in ImportTasks /\ t.source \in Imports /\ t \in Tasks
  BY <1>2, <1>3 DEF OrderlyInv, TypeInv, TypeOK, Logged, ImportState, ImportTasks, Orderly, ImportHolds
<1>5. /\ import'.todo = import.todo \ {t} /\ import'.task = t
      /\ import'.again = log[t.source].run /\ import'.dependents = import.dependents
  BY <1>3, <1>4 DEF ImportState
<1>6. /\ \A s \in Imports : log'[s].run = log[s].run
      /\ log'[t.source].exists /\ \A s \in Imports : log[s].exists => log'[s].exists
  BY <1>3, <1>4 DEF Logged
<1>7. Logs \subseteq Logs' /\ t.source \in Logs'
  BY <1>4, <1>6 DEF Logs
<1>8. Tasks' = Tasks
  BY <1>2 DEF Tasks, Task
<1>9. import'.dependents => /\ Maps("JOB", "PROJECT")'
                            /\ "PROJECT" \in Logs' \/ \E u \in import'.todo : u.source = "PROJECT"
  BY <1>2, <1>5, <1>7 DEF Orderly, ImportHolds, Maps
<1>10. import'.again => log'[t.source].run
  BY <1>4, <1>5, <1>6
<1>11. ImportHolds'
  BY <1>2, <1>4, <1>5, <1>7, <1>8, <1>9, <1>10 DEF Orderly, ImportHolds
<1>12. NamesLogged'
  BY <1>2, <1>7 DEF Orderly, NamesLogged, Maps
<1>13. RunsHold' /\ NamesAgree'
  <2>1. Sources \subseteq Imports
    BY DEF Imports
  <2> QED BY <1>2, <1>6, <2>1 DEF Orderly, RunsHold, NamesAgree, Maps
<1>14. RequestHolds'
  BY <1>1 DEF RequestHolds
<1> QED BY <1>11, <1>12, <1>13, <1>14 DEF Orderly

(* A task that ends, done or failed, has named what it was to name: as the
   settings say, and of a source that has a log. *)
LEMMA TaskEndsNaming ==
    ASSUME TypeInv, Shaped, Orderly, UNCHANGED <<settings, mapping>>,
           import.task # None, names' = Named(import.task), Logs' = Logs
    PROVE  NamesLogged' /\ NamesAgree'
<1>1. PICK t \in Tasks : t = import.task /\ t.source \in Logs
  BY DEF Orderly, ImportHolds
<1>2. /\ t.coded <=> t.destination \in settings.codes
      /\ \/ t.source = "CATEGORY" /\ t.destination = "ACCOUNT"
         \/ t.source = "MERCHANT" /\ t.destination = "VENDOR"
         \/ t.destination \in RequestFields /\ t.source \in Sources /\ Maps(t.destination, t.source)
  BY TasksAre
<1>3. \A n \in names' : n \in names \/ (n = <<t.destination, t.coded>> /\ t.destination \in CodeFields)
  BY <1>1 DEF Named
<1>4. RequestFields \cap CodeFields = {"JOB"} /\ RequestFields \cap Dependents = {}
  BY DEF RequestFields, CodeFields, Dependents
<1>5. \A s \in Sources : Maps("JOB", s)' <=> Maps("JOB", s)
  BY DEF Maps
<1> SUFFICES ASSUME NEW n \in names'
             PROVE  /\ n[1] = "ACCOUNT" => "CATEGORY" \in Logs
                    /\ n[1] = "VENDOR" => "MERCHANT" \in Logs
                    /\ n[1] = "JOB" => \E s \in Logs \cap Sources : Maps("JOB", s)
                    /\ n[1] \in Dependents => "PROJECT" \in Logs /\ Maps("JOB", "PROJECT")
                    /\ n[2] <=> n[1] \in settings.codes
  BY <1>5 DEF NamesLogged, NamesAgree, Sources
<1>6. CASE n \in names
  BY <1>6 DEF Orderly, NamesLogged, NamesAgree
<1>7. CASE n = <<t.destination, t.coded>> /\ t.destination \in CodeFields
  <2>1. n[1] = t.destination /\ n[2] = t.coded
    BY <1>7
  <2>2. n[2] <=> n[1] \in settings.codes
    BY <1>2, <2>1
  <2>3. CASE t.source = "CATEGORY" /\ t.destination = "ACCOUNT"
    BY <1>1, <2>1, <2>2, <2>3 DEF Dependents
  <2>4. CASE t.source = "MERCHANT" /\ t.destination = "VENDOR"
    BY <1>1, <2>1, <2>2, <2>4 DEF Dependents
  <2>5. CASE t.destination \in RequestFields /\ t.source \in Sources /\ Maps(t.destination, t.source)
    <3>1. n[1] = "JOB" /\ Maps("JOB", t.source)
      BY <1>4, <1>7, <2>1, <2>5
    <3> QED BY <1>1, <2>2, <2>5, <3>1 DEF Dependents
  <2> QED BY <1>2, <2>3, <2>4, <2>5
<1> QED BY <1>3, <1>6, <1>7

(* After a run the values of the source are all there: from this task, or, when
   it looked only at what is new, from an earlier one. *)
LEMMA TaskEndsRuns ==
    ASSUME TypeInv, Shaped, Orderly, FinishTask
    PROVE  RunsHold'
<1>1. PICK t \in Tasks : t = import.task /\ t.source \in Logs /\ (import.again => log[t.source].run)
  BY DEF Orderly, ImportHolds, FinishTask
<1>2. /\ \/ t.source = "CATEGORY" /\ t.destination = "ACCOUNT"
         \/ t.source = "MERCHANT" /\ t.destination = "VENDOR"
         \/ t.destination \in RequestFields /\ t.source \in Sources /\ Maps(t.destination, t.source)
  BY TasksAre
<1>3. /\ mapping' = mapping
      /\ complete' = IF import.again THEN complete
                     ELSE [complete EXCEPT ![t.source] = @ \cup {t.destination}]
      /\ log' = [log EXCEPT ![t.source].run = TRUE]
      /\ log \in [Imports -> Logged]
      /\ complete \in [Imports -> SUBSET (Destinations \cup {"ACCOUNT"})]
  BY <1>1 DEF FinishTask, saved, TypeInv, TypeOK, Logged
<1>4. t.source \in Imports /\ Sources \subseteq Imports
  BY <1>1 DEF Logs, Imports
<1>5. \A s \in Sources : complete[s] \subseteq complete'[s]
  <2>1. CASE import.again
    BY <1>3, <2>1
  <2>2. CASE ~import.again
    BY <1>3, <1>4, <2>2
  <2> QED BY <2>1, <2>2
<1>6. \A s \in Sources : log'[s].run => log[s].run \/ s = t.source
  BY <1>3, <1>4 DEF Logged
<1> SUFFICES ASSUME NEW s \in Sources, log'[s].run
             PROVE  \E d \in RequestFields : Maps(d, s) /\ d \in complete'[s]
  BY <1>3 DEF RunsHold, Maps
<1>7. CASE log[s].run
  BY <1>5, <1>7 DEF Orderly, RunsHold
<1>8. CASE ~log[s].run
  <2>1. s = t.source /\ ~import.again
    BY <1>1, <1>6, <1>8
  <2>2. t.destination \in RequestFields /\ Maps(t.destination, s)
    BY <1>2, <2>1 DEF Sources
  <2>3. complete' = [complete EXCEPT ![s] = @ \cup {t.destination}]
    BY <1>3, <2>1
  <2>4. t.destination \in complete'[s]
    BY <1>3, <1>4, <2>3
  <2> QED BY <2>2, <2>4
<1> QED BY <1>7, <1>8

(* The import after one of its tasks has ended. *)
LEMMA TaskEndsOrderly ==
    ASSUME OrderlyInv, FinishTask \/ TaskFails, ~overlapped'
    PROVE  Orderly'
<1>1. ~overlapped /\ request' = None
  BY DEF FinishTask, TaskFails
<1>2. Orderly /\ UNCHANGED <<settings, mapping>> /\ import.task # None /\ names' = Named(import.task)
  BY <1>1 DEF OrderlyInv, FinishTask, TaskFails, saved
<1>3. /\ import' = [import EXCEPT !.task = None, !.again = FALSE] /\ import \in ImportState
      /\ log \in [Imports -> Logged]
  BY DEF FinishTask, TaskFails, OrderlyInv, TypeInv, TypeOK, Logged
<1>4. import'.todo = import.todo /\ import'.task = None /\ import'.dependents = import.dependents
  BY <1>3 DEF ImportState
<1>5. Logs' = Logs
  BY <1>3 DEF FinishTask, TaskFails, Logs, Logged
<1>6. Tasks' = Tasks
  BY <1>2 DEF Tasks, Task
<1>7. ImportHolds'
  BY <1>2, <1>4, <1>5, <1>6 DEF Orderly, ImportHolds, Maps
<1>8. RunsHold'
  <2>1. CASE FinishTask
    BY <1>2, <2>1, TaskEndsRuns DEF OrderlyInv
  <2>2. CASE TaskFails
    BY <1>2, <2>2 DEF TaskFails, Orderly, RunsHold, Maps
  <2> QED BY <2>1, <2>2
<1>9. NamesLogged' /\ NamesAgree'
  BY <1>2, <1>5, TaskEndsNaming DEF OrderlyInv
<1>10. RequestHolds'
  BY <1>1 DEF RequestHolds
<1> QED BY <1>7, <1>8, <1>9, <1>10 DEF Orderly

(* Dependents come last, when projects have their log. *)
LEMMA DependentsOrderly ==
    ASSUME OrderlyInv, RunDependents, ~overlapped'
    PROVE  Orderly'
<1>1. ~overlapped /\ request' = None
  BY DEF RunDependents
<1>2. Orderly /\ UNCHANGED <<settings, mapping, complete>>
  BY <1>1 DEF OrderlyInv, RunDependents, saved
<1>3. "PROJECT" \in Logs /\ Maps("JOB", "PROJECT")
  BY <1>2 DEF RunDependents, Orderly, ImportHolds
<1>4. /\ import' = [import EXCEPT !.dependents = FALSE] /\ import \in ImportState
      /\ import.task = None
  BY DEF RunDependents, OrderlyInv, TypeInv
<1>5. import'.todo = import.todo /\ import'.task = None /\ import'.dependents = FALSE
  BY <1>4 DEF ImportState
<1>6. Logs \subseteq Logs' /\ \A s \in Imports : log'[s].run = log[s].run
  BY DEF RunDependents, Logs, OrderlyInv, TypeInv, TypeOK
<1>7. Tasks' = Tasks
  BY <1>2 DEF Tasks, Task
<1>8. ImportHolds'
  BY <1>2, <1>5, <1>7 DEF Orderly, ImportHolds
<1>9. RunsHold'
  <2>1. Sources \subseteq Imports
    BY DEF Imports
  <2> QED BY <1>2, <1>6, <2>1 DEF Orderly, RunsHold, Maps
<1>10. \A n \in names' : n \in names \/ (n[1] \in Dependents /\ (n[2] <=> n[1] \in settings.codes))
  <2>1. \A n \in names' : n \in names \/ \E f \in Dependents : n = <<f, f \in settings.codes>>
    BY DEF RunDependents
  <2> SUFFICES ASSUME NEW f \in Dependents, NEW n, n = <<f, f \in settings.codes>>
               PROVE  n[1] \in Dependents /\ (n[2] <=> n[1] \in settings.codes)
    BY <2>1
  <2>2. n[1] = f /\ n[2] = (f \in settings.codes)
    OBVIOUS
  <2> QED BY <2>2
<1>11. NamesAgree'
  BY <1>2, <1>10 DEF Orderly, NamesAgree
<1>12. NamesLogged'
  <2> SUFFICES ASSUME NEW n \in names'
               PROVE  /\ n[1] = "ACCOUNT" => "CATEGORY" \in Logs'
                      /\ n[1] = "VENDOR" => "MERCHANT" \in Logs'
                      /\ n[1] = "JOB" => \E s \in Logs' \cap Sources : Maps("JOB", s)
                      /\ n[1] \in Dependents => "PROJECT" \in Logs' /\ Maps("JOB", "PROJECT")
    BY <1>2 DEF NamesLogged, Maps
  <2>1. CASE n \in names
    BY <1>2, <1>6, <2>1 DEF Orderly, NamesLogged
  <2>2. CASE n[1] \in Dependents
    BY <1>3, <1>6, <2>2 DEF Dependents
  <2> QED BY <1>10, <2>1, <2>2
<1>13. RequestHolds'
  BY <1>1 DEF RequestHolds
<1> QED BY <1>8, <1>9, <1>11, <1>12, <1>13 DEF Orderly

(* The end of an import: a request that is waiting would have overlapped it. *)
LEMMA EndOrderly ==
    ASSUME OrderlyInv, EndImport, ~overlapped'
    PROVE  Orderly'
<1>1. ~overlapped /\ Orderly /\ UNCHANGED <<settings, mapping, log, names, complete, request>>
  BY DEF OrderlyInv, EndImport, saved
<1>2. request = None
  BY <1>1 DEF Orderly, RequestHolds, EndImport, IdleImport
<1>3. ImportHolds' /\ RequestHolds'
  BY <1>1, <1>2 DEF EndImport, ImportHolds, RequestHolds, IdleImport
<1>4. NamesLogged' /\ RunsHold' /\ NamesAgree'
  BY <1>1 DEF Orderly, NamesLogged, RunsHold, NamesAgree, Maps, Logs
<1> QED BY <1>3, <1>4 DEF Orderly

(* Nothing is named and no request waits at first. *)
LEMMA OrderlyInitially == Init => OrderlyInv
<1> SUFFICES ASSUME Init PROVE OrderlyInv
  OBVIOUS
<1>1. TypeInv
  BY TypeInitially
<1>2. Shaped
  BY DEF Init, Shaped, Maps, CodeFields, RequestFields, Destinations
<1>3. NamesLogged /\ RequestHolds /\ NamesAgree
  BY DEF Init, NamesLogged, RequestHolds, NamesAgree
<1>4. ImportHolds
  BY DEF Init, ImportHolds, IdleImport
<1>5. RunsHold
  BY DEF Init, RunsHold, Imports
<1> QED BY <1>1, <1>2, <1>3, <1>4, <1>5 DEF OrderlyInv, Orderly

(* Every step keeps the order, if the codes of dependents come with that of JOB. *)
LEMMA OrderlyStep ==
    ASSUME DependentsGoWithJob
    PROVE  OrderlyInv /\ [Next]_vars => OrderlyInv'
<1> SUFFICES ASSUME OrderlyInv, [Next]_vars PROVE OrderlyInv'
  OBVIOUS
<1>1. TypeInv' /\ Shaped'
  BY TypeStep, ShapedStep DEF OrderlyInv
<1>2. ASSUME ~overlapped'
      PROVE  Orderly'
  <2>1. CASE (\E p \in Payloads : Validate(p)) \/ SaveFails \/ MapCards
    BY <1>2, <2>1, RequestsOrderly
  <2>2. CASE \E success \in BOOLEAN : Save(success)
    BY <1>2, <2>2, SaveOrderly
  <2>3. CASE Initiate \/ StartTask
    BY <1>2, <2>3, InitiateOrderly, StartTaskOrderly
  <2>4. CASE FinishTask \/ TaskFails
    BY <1>2, <2>4, TaskEndsOrderly
  <2>5. CASE RunDependents \/ EndImport
    BY <1>2, <2>5, DependentsOrderly, EndOrderly
  <2>6. CASE UNCHANGED vars
    <3>1. ~overlapped /\ UNCHANGED <<settings, mapping, log, names, complete, import, request>>
      BY <1>2, <2>6 DEF vars
    <3>2. Orderly
      BY <3>1 DEF OrderlyInv
    <3>3. /\ NamesLogged' /\ ImportHolds' /\ RunsHold' /\ NamesAgree'
          /\ \A p \in Payloads : (Asked(p) /\ ~Refused(p)) => (Asked(p) /\ ~Refused(p))'
      BY <3>1, <3>2, OrderlyKeeps DEF OrderlyInv
    <3>4. RequestHolds'
      BY <3>1, <3>2, <3>3 DEF Orderly, RequestHolds
    <3> QED BY <3>3, <3>4 DEF Orderly
  <2> QED BY <2>1, <2>2, <2>3, <2>4, <2>5, <2>6 DEF Next
<1> QED BY <1>1, <1>2 DEF OrderlyInv

(* "Cannot change the code fields once they are imported": what is in Fyle is
   named as the settings say, for any number of requests and imports that do not
   overlap, provided no request asks for the codes of a dependent without JOB. *)
THEOREM NamingAlwaysKept ==
    ASSUME DependentsGoWithJob
    PROVE  Spec => []NamingIsKept
<1>1. OrderlyInv => NamingIsKept
  BY DEF OrderlyInv, Orderly, NamesAgree, NamingIsKept
<1> QED BY OrderlyInitially, OrderlyStep, <1>1, PTL DEF Spec

(* A source field that imports only what is new has had all the values of the
   destination it is mapped to, under the same two conditions. *)
THEOREM LastRunAlwaysCoversMapping ==
    ASSUME DependentsGoWithJob
    PROVE  Spec => []LastRunCoversMapping
<1>1. OrderlyInv => LastRunCoversMapping
  <2> SUFFICES ASSUME OrderlyInv, ~overlapped, NEW d \in Destinations,
                      mapping[d] # None, mapping[d].import, log[mapping[d].source].run
               PROVE  d \in complete[mapping[d].source]
    BY DEF LastRunCoversMapping
  <2>1. d # "VENDOR"
    BY DEF OrderlyInv, Shaped, CardMapping
  <2>2. d \in RequestFields /\ mapping[d].source \in Sources
    BY <2>1 DEF RequestFields, Destinations, OrderlyInv, TypeInv, Sourced, IsImported
  <2>3. PICK e \in RequestFields : Maps(e, mapping[d].source) /\ e \in complete[mapping[d].source]
    BY <2>2 DEF OrderlyInv, Orderly, RunsHold
  <2>4. e = d
    BY <2>2, <2>3 DEF OrderlyInv, Shaped, Maps
  <2> QED BY <2>3, <2>4
<1> QED BY OrderlyInitially, OrderlyStep, <1>1, PTL DEF Spec

(* What ImportCodeFieldView shows as fixed is refused by the validation, and what
   it shows as free is accepted, for any payloads whatsoever. *)
THEOREM ShownAlwaysEnforced == Spec => []ShownIsEnforced
<1>1. TypeInv => ShownIsEnforced
  <2> SUFFICES ASSUME TypeInv, NEW p \in Payloads, JobSource(p) = SourceOf("JOB")
               PROVE  /\ (\E f \in Differ(p) \ Dependents : ~MayChange(f)) => Refused(p)
                      /\ settings.codes \subseteq p.codes
                           /\ (\A f \in Differ(p) \ Dependents : MayChange(f)) => ~Refused(p)
    BY DEF ShownIsEnforced
  <2>1. /\ p \in Requests /\ DOMAIN p.mapping = RequestFields /\ p.mapping \in RequestMapping
        /\ p.codes \subseteq CodeFields /\ settings.codes \subseteq CodeFields
    BY PayloadsAssumption DEF Requests, RequestMapping, RequestFields, TypeInv, TypeOK
  <2>2. Differ(p) \ Dependents \subseteq {"JOB", "VENDOR", "ACCOUNT"}
    BY <2>1 DEF Differ, Dependents, CodeFields
  <2>3. "JOB" \in RequestFields /\ RequestFields \cap CodeFields = {"JOB"}
    BY DEF RequestFields, CodeFields
  <2>4. Logs \subseteq Imports /\ "JOB" \in Destinations
    BY DEF Logs, Destinations
  <2>5. ASSUME NEW f \in Differ(p) \ Dependents, ~MayChange(f)
        PROVE  Refused(p)
    <3>1. CASE f = "JOB"
      <4>1. mapping["JOB"] # None /\ mapping["JOB"].source \in Logs
        BY <2>5, <3>1 DEF MayChange
      <4>2. mapping["JOB"].source \in Sources
        BY <2>4, <4>1 DEF TypeInv, TypeOK, MappingSettings, Imports, Sources, Dependents
      <4>3. p.mapping["JOB"] # None /\ p.mapping["JOB"].source = mapping["JOB"].source
        BY <2>1, <4>1, <4>2, JobFollows DEF Maps
      <4> QED BY <2>1, <2>3, <2>5, <3>1, <4>1, <4>3 DEF Refused
    <3>2. CASE f = "VENDOR"
      BY <2>5, <3>2 DEF MayChange, Refused
    <3>3. CASE f = "ACCOUNT"
      BY <2>5, <3>3 DEF MayChange, Refused
    <3> QED BY <2>2, <3>1, <3>2, <3>3
  <2>6. ASSUME settings.codes \subseteq p.codes, \A f \in Differ(p) \ Dependents : MayChange(f)
        PROVE  ~Refused(p)
    <3>1. ASSUME NEW d \in RequestFields, p.mapping[d] # None, d \in Differ(p),
                 p.mapping[d].source \in Logs
          PROVE  FALSE
      <4>1. d = "JOB" /\ "JOB" \notin Dependents
        BY <2>1, <2>3, <3>1 DEF Differ, Dependents
      <4>2. Maps("JOB", p.mapping["JOB"].source)
        BY <2>1, <3>1, <4>1, JobFollows
      <4>3. MayChange("JOB")
        BY <2>6, <3>1, <4>1
      <4> QED BY <3>1, <4>1, <4>2, <4>3 DEF MayChange, Maps
    <3>2. "ACCOUNT" \in Differ(p) => "CATEGORY" \notin Logs
      BY <2>6 DEF MayChange, Dependents
    <3>3. "VENDOR" \in Differ(p) => "MERCHANT" \notin Logs
      BY <2>6 DEF MayChange, Dependents
    <3>4. OldCodes(p) \subseteq NewCodes(p)
      BY <2>1, <2>6, NewCodesOf DEF OldCodes
    <3> QED BY <2>1, <3>1, <3>2, <3>3, <3>4 DEF Refused
  <2> QED BY <2>5, <2>6
<1> QED BY TypeInitially, TypeStep, <1>1, PTL DEF Spec
=============================================================================
