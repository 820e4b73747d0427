--------------------------- MODULE ImportSettings ---------------------------
(***************************************************************************)
(* The import settings of one workspace and the imports of dimensions to   *)
(* Fyle that they configure:                                               *)
(*                                                                         *)
(*   - a REQUEST is validated against the import logs, and saved later, in *)
(*     a transaction, with all that its triggers and signals do;           *)
(*   - the IMPORT, while it is scheduled, reads the settings once, then    *)
(*     runs a task for each source field: it creates the import log, posts *)
(*     names to Fyle, with codes or without, and notes a successful run,   *)
(*     after which only what is new is looked at.                          *)
(***************************************************************************)
EXTENDS Naturals, FiniteSets

CONSTANTS
    Payloads,      \* requests that may be made
    None,
    MaxRequests,   \* bound on requests
    MaxFields      \* bound on cost code fields created in Fyle

ASSUME BoundsAssumption == MaxRequests \in Nat /\ MaxFields \in Nat

VARIABLES
    settings,      \* import_settings: categories, vendors, codes (import_code_fields)
    mapping,       \* mapping[d]: the mapping setting of destination d, or None
    scheduled,     \* is there a schedule for the import?
    log,           \* log[s]: the import log of s, and has it a successful run?
    dependent,     \* the dependent field setting, or None
    fields,        \* cost code fields created in Fyle so far
    names,         \* namings in Fyle: of an attribute, with codes or without
    complete,      \* complete[s]: destinations whose values are all in Fyle
    request,       \* the request that is validated and not saved, or None
    import,        \* the import under way
    overlapped,    \* has a request been saved across a part of an import?
    requests       \* requests so far

vars == <<settings, mapping, scheduled, log, dependent, fields, names, complete, request,
          import, overlapped, requests>>
saved == <<settings, mapping, scheduled, dependent, fields>>
----------------------------------------------------------------------------
CodeFields == {"JOB", "ACCOUNT", "VENDOR", "COST_CODE", "COST_CATEGORY"}
Dependents == {"COST_CODE", "COST_CATEGORY"}
Destinations == {"JOB", "STANDARD_CATEGORY", "VENDOR"}
Sources == {"PROJECT", "COST_CENTER", "CUSTOM"}
ASSUME NoneAssumption == None \notin Sources

\* Source fields that have an import log.
Imports == Sources \cup {"CATEGORY", "MERCHANT"} \cup Dependents
Logs == {s \in Imports : log[s].exists}
SourceOf(d) == IF mapping[d] = None THEN None ELSE mapping[d].source
DestinationOf(s) == IF s = "CATEGORY" THEN "ACCOUNT" ELSE "VENDOR"

\* A source field is mapped once.
ASSUME PayloadsAssumption ==
    /\ Payloads \subseteq
         [categories : BOOLEAN, vendors : BOOLEAN, codes : SUBSET CodeFields, dependent : BOOLEAN,
          mapping : [{"JOB", "STANDARD_CATEGORY"} ->
                        [source : Sources, import : BOOLEAN] \cup {None}]]
    /\ \A p \in Payloads : p.mapping["JOB"] # None /\ p.mapping["STANDARD_CATEGORY"] # None =>
           p.mapping["JOB"].source # p.mapping["STANDARD_CATEGORY"].source

\* CORPORATE_CARD is mapped to vendors by the export settings.
CardMapping == [source |-> "CORPORATE_CARD", import |-> FALSE]
IdleImport == [pc |-> "idle", todo |-> {}, dependents |-> FALSE, task |-> None, again |-> FALSE]

Init ==
    /\ settings = [categories |-> FALSE, vendors |-> FALSE, codes |-> {}]
    /\ mapping = [d \in Destinations |-> None]
    /\ scheduled = FALSE
    /\ log = [s \in Imports |-> [exists |-> FALSE, run |-> FALSE]]
    /\ dependent = None
    /\ fields = 0
    /\ names = {}
    /\ complete = [s \in Imports |-> {}]
    /\ request = None
    /\ import = IdleImport
    /\ overlapped = FALSE
    /\ requests = 0
----------------------------------------------------------------------------
(***************************************************************************)
(* A request: ImportSettingsSerializer                                     *)
(***************************************************************************)

Differ(p) == (settings.codes \ p.codes) \cup (p.codes \ settings.codes)
JobSource(p) == IF p.mapping["JOB"] = None THEN None ELSE p.mapping["JOB"].source

\* With JOB, the dependent fields carry codes, too.
NewCodes(p) ==
    IF "JOB" \in p.codes /\ JobSource(p) = "PROJECT" THEN p.codes \cup Dependents ELSE p.codes
OldCodes(p) ==
    IF "JOB" \in p.codes /\ JobSource(p) \notin {"PROJECT", None}
    THEN settings.codes \ Dependents ELSE settings.codes

\* Fault: categories are not asked about.
Refused_NoCategories(p) ==
    \/ \E d \in DOMAIN p.mapping : p.mapping[d] # None /\ d \in Differ(p) /\ p.mapping[d].source \in Logs
    \/ "VENDOR" \in Differ(p) /\ "MERCHANT" \in Logs
    \/ ~(OldCodes(p) \subseteq NewCodes(p))

\* Fault: fields that differ are refused whether they were imported or not.
Refused_Always(p) ==
    \/ \E d \in DOMAIN p.mapping : p.mapping[d] # None /\ d \in Differ(p)
    \/ "ACCOUNT" \in Differ(p) /\ "CATEGORY" \in Logs
    \/ "VENDOR" \in Differ(p) /\ "MERCHANT" \in Logs
    \/ ~(OldCodes(p) \subseteq NewCodes(p))

\* Cannot change the code fields once they are imported.
Refused(p) ==
    \/ \E d \in DOMAIN p.mapping : p.mapping[d] # None /\ d \in Differ(p) /\ p.mapping[d].source \in Logs
    \/ "ACCOUNT" \in Differ(p) /\ "CATEGORY" \in Logs
    \/ "VENDOR" \in Differ(p) /\ "MERCHANT" \in Logs
    \/ ~(OldCodes(p) \subseteq NewCodes(p))

\* ImportCodeFieldView: may the user change the codes of a field?
MayChange(f) ==
    CASE f = "JOB" -> mapping["JOB"] # None => mapping["JOB"].source \notin Logs
      [] f = "VENDOR" -> "MERCHANT" \notin Logs
      [] f = "ACCOUNT" -> "CATEGORY" \notin Logs

Validate(p) ==
    /\ request = None
    /\ requests < MaxRequests
    /\ ~Refused(p)
    /\ request' = [p EXCEPT !.codes = NewCodes(p)]
    /\ requests' = requests + 1
    /\ overlapped' = (overlapped \/ import # IdleImport)
    /\ UNCHANGED <<saved, log, names, complete, import>>

\* Mapping settings a request never deletes.
Kept == {"VENDOR"}

MappingSaved(p) ==
    [d \in Destinations |->
        IF d \in DOMAIN p.mapping /\ p.mapping[d] # None THEN p.mapping[d]
        ELSE IF d \in Kept THEN mapping[d] ELSE None]

\* Fault: the logs keep their last run.
Reset_None(p) == {}

\* Source fields that now go elsewhere, or are not mapped any more: their next
\* import looks at everything again.
Reset(p) ==
    {s \in Sources : \E d \in Destinations :
        /\ mapping[d] # None /\ mapping[d].source = s
        /\ \A e \in DOMAIN p.mapping :
              p.mapping[e] # None /\ p.mapping[e].source = s => e # d}

\* A custom field that is imported is imported at once, while it is saved.
CustomImports(p) ==
    {d \in DOMAIN p.mapping :
        p.mapping[d] # None /\ p.mapping[d].source = "CUSTOM" /\ p.mapping[d].import}

\* Without credentials of Sage only the log is left behind.
LogSaved(p, success) ==
    [s \in Imports |->
        [exists |-> log[s].exists \/ (s = "CUSTOM" /\ CustomImports(p) # {}),
         run |-> \/ log[s].run /\ s \notin Reset(p)
                 \/ s = "CUSTOM" /\ CustomImports(p) # {} /\ success]]

CompleteSaved(p, success) ==
    IF success /\ ~(log["CUSTOM"].run /\ "CUSTOM" \notin Reset(p))
    THEN [complete EXCEPT !["CUSTOM"] = @ \cup CustomImports(p)]
    ELSE complete

\* Fault: the schedule goes when neither categories nor vendors are imported.
ScheduleSaved_Delete(p) == p.categories \/ p.vendors

\* schedule_or_delete_fyle_import_tasks, for each mapping setting that is saved
\* and once more at the end: created when there is something to import, deleted
\* when nothing of what is left is imported.
ScheduleSaved(p) ==
    \/ p.categories
    \/ p.vendors
    \/ \E d \in DOMAIN p.mapping : p.mapping[d] # None /\ p.mapping[d].import
    \/ scheduled /\ \E d \in Destinations : MappingSaved(p)[d] # None /\ MappingSaved(p)[d].import

\* Fault: the fields are created with every save.
CreatesFields_Always(p) ==
    p.dependent /\ p.mapping["JOB"] # None /\ p.mapping["JOB"].import

\* Dependent fields are saved when what is mapped to JOB is imported, and
\* created in Fyle unless they were: fyle/signals.py.
CreatesFields(p) ==
    p.dependent /\ p.mapping["JOB"] # None /\ p.mapping["JOB"].import /\ dependent = None

Save(success) ==
    /\ request # None
    /\ CreatesFields(request) => fields < MaxFields
    /\ ~success => CustomImports(request) # {}
    /\ settings' = [categories |-> request.categories, vendors |-> request.vendors,
                    codes |-> request.codes]
    /\ mapping' = MappingSaved(request)
    /\ log' = LogSaved(request, success)
    /\ complete' = CompleteSaved(request, success)
    /\ scheduled' = ScheduleSaved(request)
    /\ IF CreatesFields(request)
       THEN fields' = fields + 1 /\ dependent' = fields + 1
       ELSE UNCHANGED <<fields, dependent>>
    \* Names of JOB and of its dependent fields are followed while its mapping stays.
    /\ names' = IF JobSource(request) = SourceOf("JOB") THEN names
                ELSE {n \in names : n[1] \notin {"JOB"} \cup Dependents}
    /\ overlapped' = (overlapped \/ import # IdleImport)
    /\ request' = None
    /\ UNCHANGED <<import, requests>>

\* Fyle refuses the second of the fields, or the values of a custom field: all
\* is rolled back, and a field that was created stays in Fyle.
SaveFails ==
    /\ request # None
    /\ CreatesFields(request) \/ CustomImports(request) # {}
    /\ IF CreatesFields(request)
       THEN fields < MaxFields /\ fields' = fields + 1
       ELSE UNCHANGED fields
    /\ request' = None
    /\ UNCHANGED <<settings, mapping, scheduled, log, dependent, names, complete, import,
                   overlapped, requests>>

\* ExportSettingsSerializer: card expenses become purchase invoices.
MapCards ==
    /\ mapping["VENDOR"] = None
    /\ mapping' = [mapping EXCEPT !["VENDOR"] = CardMapping]
    /\ UNCHANGED <<settings, scheduled, log, dependent, fields, names, complete, request,
                   import, overlapped, requests>>
----------------------------------------------------------------------------
(***************************************************************************)
(* The import: initiate_import_to_fyle and the tasks it chains             *)
(***************************************************************************)

Task(s, d) == [source |-> s, destination |-> d, coded |-> d \in settings.codes]

Tasks ==
    {Task(s, DestinationOf(s)) : s \in {t \in {"CATEGORY"} : settings.categories}
                                       \cup {t \in {"MERCHANT"} : settings.vendors}}
    \cup {Task(mapping[d].source, d) :
             d \in {e \in Destinations : mapping[e] # None /\ mapping[e].import}}

\* Dependent fields are imported with the projects they depend on, unless those
\* were imported within the last half hour: is_job_sync_allowed.
WithDependents ==
    {b \in BOOLEAN :
        /\ b => dependent # None /\ SourceOf("JOB") = "PROJECT" /\ mapping["JOB"].import
        /\ ~b => \/ dependent = None
                 \/ SourceOf("JOB") # "PROJECT"
                 \/ ~mapping["JOB"].import
                 \/ log["PROJECT"].run}

Initiate ==
    /\ scheduled
    /\ import = IdleImport
    /\ \E b \in WithDependents :
          import' = [import EXCEPT !.pc = "running", !.todo = Tasks, !.dependents = b]
    /\ overlapped' = (overlapped \/ request # None)
    /\ UNCHANGED <<saved, log, names, complete, request, requests>>

\* The log is there from the start of its first task.
StartTask ==
    /\ import.task = None
    /\ \E t \in import.todo :
          /\ import' = [import EXCEPT !.todo = @ \ {t}, !.task = t, !.again = log[t.source].run]
          /\ log' = [log EXCEPT ![t.source].exists = TRUE]
    /\ overlapped' = (overlapped \/ request # None)
    /\ UNCHANGED <<saved, names, complete, request, requests>>

Named(t) == names \cup {n \in {<<t.destination, t.coded>>} : t.destination \in CodeFields}

\* After a run only what is new is looked at.
FinishTask ==
    /\ import.task # None
    /\ names' = Named(import.task)
    /\ complete' = IF import.again THEN complete
                   ELSE [complete EXCEPT ![import.task.source] = @ \cup {import.task.destination}]
    /\ log' = [log EXCEPT ![import.task.source].run = TRUE]
    /\ import' = [import EXCEPT !.task = None, !.again = FALSE]
    /\ overlapped' = (overlapped \/ request # None)
    /\ UNCHANGED <<saved, request, requests>>

\* handle_import_exceptions_v2: the log is failed, part of the names are there.
TaskFails ==
    /\ import.task # None
    /\ names' = Named(import.task)
    /\ import' = [import EXCEPT !.task = None, !.again = FALSE]
    /\ overlapped' = (overlapped \/ request # None)
    /\ UNCHANGED <<saved, log, complete, request, requests>>

\* sync_dependent_fields makes the logs; the values are then posted with the
\* codes the settings have at that time.
RunDependents ==
    /\ import.pc = "running" /\ import.dependents
    /\ import.todo = {} /\ import.task = None
    /\ log' = [s \in Imports |-> [log[s] EXCEPT !.exists = @ \/ s \in Dependents]]
    /\ names' = names \cup {<<f, f \in settings.codes>> : f \in Dependents}
    /\ import' = [import EXCEPT !.dependents = FALSE]
    /\ overlapped' = (overlapped \/ request # None)
    /\ UNCHANGED <<saved, complete, request, requests>>

EndImport ==
    /\ import.pc = "running" /\ ~import.dependents
    /\ import.todo = {} /\ import.task = None
    /\ import' = IdleImport
    /\ UNCHANGED <<saved, log, names, complete, request, overlapped, requests>>
----------------------------------------------------------------------------
Next ==
    \/ \E p \in Payloads : Validate(p)
    \/ \E success \in BOOLEAN : Save(success)
    \/ SaveFails
    \/ MapCards
    \/ Initiate
    \/ StartTask
    \/ FinishTask
    \/ TaskFails
    \/ RunDependents
    \/ EndImport

Spec == Init /\ [][Next]_vars
----------------------------------------------------------------------------
(***************************************************************************)
(* Properties                                                              *)
(***************************************************************************)

MappingSettings == [source : Sources \cup {"CORPORATE_CARD"}, import : BOOLEAN] \cup {None}

\* The types of the variables.
TypeOK ==
    /\ settings \in [categories : BOOLEAN, vendors : BOOLEAN, codes : SUBSET CodeFields]
    /\ mapping \in [Destinations -> MappingSettings]
    /\ scheduled \in BOOLEAN
    /\ log \in [Imports -> [exists : BOOLEAN, run : BOOLEAN]]
    /\ dependent \in (1 .. MaxFields) \cup {None}
    /\ fields \in 0 .. MaxFields
    /\ names \subseteq CodeFields \X BOOLEAN
    /\ complete \in [Imports -> SUBSET (Destinations \cup {"ACCOUNT"})]
    /\ import.pc \in {"idle", "running"}
    /\ import.dependents \in BOOLEAN /\ import.again \in BOOLEAN
    /\ overlapped \in BOOLEAN
    /\ requests \in 0 .. MaxRequests

\* schedules.py: the import is scheduled just when there is something it would
\* import, whichever of the mapping settings, the categories or the vendors it is
\* and in whatever order they were turned on and off.
ScheduledIffImported ==
    scheduled <=> \/ settings.categories
                  \/ settings.vendors
                  \/ \E d \in Destinations : mapping[d] # None /\ mapping[d].import

\* serializers.py, "Cannot change the code fields once they are imported": what is in
\* Fyle was named as the settings say, with codes or without, for as long as
\* JOB keeps its source, and unless a request was saved across an import. It
\* takes that requests ask for the codes of a dependent field only with JOB's, as
\* the form does: TLC refutes it for one that asks for COST_CODE alone.
NamingIsKept ==
    ~overlapped => \A n \in names : n[2] <=> n[1] \in settings.codes

\* triggers.py, __reset_import_log_timestamp: a source field that has a successful
\* run, and so imports only what is new, has had all the values of the
\* destination it is mapped to now imported, unless a request was saved across an import.
LastRunCoversMapping ==
    ~overlapped =>
        \A d \in Destinations :
            mapping[d] # None /\ mapping[d].import /\ log[mapping[d].source].run =>
                d \in complete[mapping[d].source]

\* views.py, ImportCodeFieldView and the validation: a field that is shown as
\* fixed cannot be changed by a request that keeps the source of JOB, and a
\* request that adds only codes of fields shown as free is accepted.
ShownIsEnforced ==
    \A p \in Payloads :
        JobSource(p) = SourceOf("JOB") =>
            /\ (\E f \in Differ(p) \ Dependents : ~MayChange(f)) => Refused(p)
            /\ settings.codes \subseteq p.codes /\ (\A f \in Differ(p) \ Dependents : MayChange(f))
                   => ~Refused(p)

\* fyle/signals.py: the dependent fields of a workspace are created in Fyle once;
\* whatever is saved later, what is saved goes on to name them.
FieldIdsAreKept == [][dependent # None => dependent' = dependent]_vars

\* triggers.py, post_save_mapping_settings: the mapping of cards to vendors that
\* the export settings made outlives every save of the import settings.
NecessaryMappingIsKept == [][mapping["VENDOR"] # None => mapping'["VENDOR"] = mapping["VENDOR"]]_vars
=============================================================================
