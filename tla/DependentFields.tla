--------------------------- MODULE DependentFields ---------------------------
(***************************************************************************)
(* Jobs, cost codes and cost categories of one workspace, from Sage 300    *)
(* to the dependent fields of Fyle:                                        *)
(*                                                                         *)
(*   - the SYNCER copies what Sage numbered above a version mark, jobs     *)
(*     first, then cost codes, then cost categories;                       *)
(*   - the IMPORTER posts to Fyle the cost codes of the rows written since *)
(*     its last success, then their cost categories that are not imported; *)
(*   - another workspace whose cost codes have the same names imports      *)
(*     its own.                                                            *)
(*                                                                         *)
(* A record is its version: an edit in Sage gives it a new one, and        *)
(* row[c].name is the version whose name the row has.  A row is FRESH when *)
(* its updated_at is not before last_successful_import_at.                 *)
(***************************************************************************)
EXTENDS Naturals, FiniteSets

CONSTANTS
    Jobs, Codes, Cats,   \* records that may exist in Sage
    JobOf, CodeOf,       \* the job of a cost code, the cost code of a category
    Names, NameOf,       \* names of cost codes: two jobs may have the same
    Shared,              \* names that another workspace imports too
    SageAtStart,         \* versions in Sage when the workspace is connected
    MaxVersion,          \* bound on the versions Sage gives out
    MaxAborts            \* bound on imports that break off

\* What the constants say of records: each kind has its own, and belongs to one
\* of the kind above.
ASSUME RecordsAssumption ==
    /\ Jobs \cap Codes = {} /\ Jobs \cap Cats = {} /\ Codes \cap Cats = {}
    /\ JobOf \in [Codes -> Jobs] /\ CodeOf \in [Cats -> Codes]
    /\ NameOf \in [Codes -> Names] /\ Shared \subseteq Names
    /\ SageAtStart \in [Jobs \cup Codes \cup Cats -> 0..MaxVersion]
ASSUME BoundsAssumption == MaxVersion \in Nat /\ MaxAborts \in Nat

VARIABLES
    sage,       \* sage[x]: version of x in Sage, 0 if it does not exist
    active,     \* jobs that are active in Sage
    clock,      \* the last version Sage gave out
    mark,       \* the versions row: one mark for each kind of record
    known,      \* known[x]: version of a job or cost code stored here, or 0
    row,        \* row[c]: the cost_category row of c
    syncer,     \* the sync under way, by its next step
    projects,   \* jobs that are active projects in Fyle
    importer,   \* local state of the import under way
    codes,      \* cost codes posted to Fyle
    posted,     \* posted[c]: version of c last posted to Fyle, or 0
    dropped,    \* categories left out by a sync that did not know their code
    gaps,       \* categories that met a gap in the import (see Gap... below)
    aborts      \* imports broken off so far

fieldsVars == <<sage, active, clock, mark, known, row, syncer, projects, importer,
                codes, posted, dropped, gaps, aborts>>
sageVars == <<sage, active, clock>>
syncVars == <<mark, known, syncer, dropped>>
fyleVars == <<projects, codes, posted>>
----------------------------------------------------------------------------
Records == Jobs \cup Codes \cup Cats
JobOfCat(c) == JobOf[CodeOf[c]]
NameOfCat(c) == NameOf[CodeOf[c]]

CategoryRow == [name : Nat, imported : BOOLEAN, fresh : BOOLEAN]
NoRow == [name |-> 0, imported |-> FALSE, fresh |-> FALSE]

\* snap[c] is the name the import has read for c, 0 if it has not read c.
ImporterState == [pc : {"idle", "codes", "types"}, snap : [Cats -> Nat],
                  jobs : SUBSET Jobs, names : SUBSET Names, errored : BOOLEAN]
NothingRead == [c \in Cats |-> 0]
IdleImporter == [pc |-> "idle", snap |-> NothingRead, jobs |-> {}, names |-> {},
                 errored |-> FALSE]

Rows == {c \in Cats : row[c].name # 0}
FreshRows == {c \in Rows : row[c].fresh}
\* Fault: the next sync starts after the version that follows.
Newest_Next(x, versions) ==
    1 + CHOOSE v \in versions \cup {x} : \A w \in versions \cup {x} : w <= v

Newest(x, versions) ==
    CHOOSE v \in versions \cup {x} : \A w \in versions \cup {x} : w <= v

FieldsInit ==
    /\ sage = SageAtStart
    /\ active \in SUBSET {j \in Jobs : sage[j] # 0}
    /\ clock = Newest(0, {sage[x] : x \in Records})
    /\ mark = [job |-> 0, code |-> 0, cat |-> 0]
    /\ known = [x \in Jobs \cup Codes |-> 0]
    /\ row = [c \in Cats |-> NoRow]
    /\ syncer = "idle"
    /\ projects = {}
    /\ importer = IdleImporter
    /\ codes = {}
    /\ posted = [c \in Cats |-> 0]
    /\ dropped = {}
    /\ gaps = {}
    /\ aborts = 0
----------------------------------------------------------------------------
(***************************************************************************)
(* Sage 300                                                                *)
(***************************************************************************)

SageWrites(x) ==
    /\ clock < MaxVersion
    /\ clock' = clock + 1
    /\ sage' = [sage EXCEPT ![x] = clock + 1]
    /\ UNCHANGED <<row, projects, importer, codes, posted, gaps, aborts>>
    /\ UNCHANGED syncVars

\* A job is entered, active or not yet, becomes active, or is renamed.
SageWritesJob(j) ==
    /\ active' \in {active, active \cup {j}}
    /\ sage[j] = 0 \/ j \in active'
    /\ SageWrites(j)

SageEntersCode(k) ==
    /\ sage[k] = 0
    /\ sage[JobOf[k]] # 0
    /\ SageWrites(k)
    /\ UNCHANGED active

\* A category is entered or renamed.
SageWritesCategory(c) ==
    /\ sage[CodeOf[c]] # 0
    /\ SageWrites(c)
    /\ UNCHANGED active
----------------------------------------------------------------------------
(***************************************************************************)
(* The sync of dimensions                                                  *)
(***************************************************************************)

\* Fault: the rows of a renamed job keep their updated_at.
Touched_Not(changed) == row

\* update_and_disable_cost_code writes the new name of a job into its rows.
Touched(changed) ==
    [c \in Cats |-> IF c \in Rows /\ JobOfCat(c) \in changed
                    THEN [row[c] EXCEPT !.fresh = TRUE] ELSE row[c]]

\* _sync_data, and then the mark from the newest record that is stored. Of a
\* renamed job the old project is disabled in Fyle, with its cost codes.
SyncJobs ==
    /\ syncer = "idle"
    /\ syncer' = "codes"
    /\ LET seen == {j \in Jobs : sage[j] > mark.job /\ j \in active}
           renamed == {j \in seen : known[j] # 0}
           GapDuringImport == {c \in Rows : JobOfCat(c) \in renamed /\ importer.pc # "idle"}
       IN
       /\ known' = [x \in Jobs \cup Codes |-> IF x \in seen THEN sage[x] ELSE known[x]]
       /\ mark' = [mark EXCEPT !.job = Newest(0, {known'[j] : j \in Jobs})]
       /\ row' = Touched(renamed)
       /\ projects' = projects \ renamed
       /\ codes' = {k \in codes : JobOf[k] \notin renamed}
       /\ gaps' = gaps \cup GapDuringImport
    /\ UNCHANGED sageVars
    /\ UNCHANGED <<importer, posted, dropped, aborts>>

\* The cost codes of jobs that are not stored are passed over.
SyncCostCodes ==
    /\ syncer = "codes"
    /\ syncer' = "cats"
    /\ LET seen == {k \in Codes : sage[k] > mark.code /\ known[JobOf[k]] # 0} IN
       /\ known' = [x \in Jobs \cup Codes |-> IF x \in seen THEN sage[x] ELSE known[x]]
       /\ mark' = [mark EXCEPT !.code = Newest(0, {known'[k] : k \in Codes})]
    /\ UNCHANGED sageVars /\ UNCHANGED fyleVars
    /\ UNCHANGED <<row, importer, dropped, gaps, aborts>>

\* Fault: rows that exist are left as they are.
Synced_CreatesOnly(c) == IF row[c].name # 0 THEN row[c]
                         ELSE [row[c] EXCEPT !.name = sage[c], !.fresh = TRUE]

\* bulk_create_or_update leaves is_imported alone.
Synced(c) == [row[c] EXCEPT !.name = sage[c], !.fresh = TRUE]

\* sync_cost_categories: a category is stored only when its job and cost code
\* are, and the mark moves past those that are not.
SyncCostCategories ==
    /\ syncer = "cats"
    /\ syncer' = "idle"
    /\ LET fetched == {c \in Cats : sage[c] > mark.cat}
           stored == {c \in fetched : known[CodeOf[c]] # 0}
           GapRenamed == {c \in stored : row[c].imported}
           GapDuringImport == {c \in stored : importer.pc # "idle"}
       IN
       /\ row' = [c \in Cats |-> IF c \in stored THEN Synced(c) ELSE row[c]]
       /\ mark' = [mark EXCEPT !.cat = Newest(mark.cat, {sage[c] : c \in fetched})]
       /\ dropped' = (dropped \cup fetched) \ stored
       /\ gaps' = gaps \cup GapRenamed \cup GapDuringImport
    /\ UNCHANGED sageVars /\ UNCHANGED fyleVars
    /\ UNCHANGED <<known, importer, aborts>>

\* An exception in a step is logged, and the next dimension is synced.
SyncStepFails ==
    /\ syncer \in {"codes", "cats"}
    /\ syncer' = IF syncer = "codes" THEN "cats" ELSE "idle"
    /\ UNCHANGED sageVars /\ UNCHANGED fyleVars
    /\ UNCHANGED <<mark, known, row, importer, dropped, gaps, aborts>>
----------------------------------------------------------------------------
(***************************************************************************)
(* The import to Fyle                                                      *)
(***************************************************************************)

\* The project import, which may fail for a job or come later.
ImportProject(j) ==
    /\ j \notin projects
    /\ known[j] # 0
    /\ projects' = projects \cup {j}
    /\ UNCHANGED sageVars /\ UNCHANGED syncVars
    /\ UNCHANGED <<row, importer, codes, posted, gaps, aborts>>

\* The queries of post_dependent_cost_code: fresh rows, by job. A job that is no
\* active project in Fyle is passed over, and counts neither as a batch nor as
\* an error.
QueryCostCodes ==
    /\ importer.pc = "idle"
    /\ FreshRows # {}
    /\ LET GapNoProject == {c \in FreshRows : JobOfCat(c) \notin projects} IN
       /\ importer' = [IdleImporter EXCEPT
            !.pc = "codes",
            !.snap = [c \in Cats |-> IF c \in FreshRows THEN row[c].name ELSE 0],
            !.jobs = {JobOfCat(c) : c \in FreshRows} \cap projects]
       /\ gaps' = gaps \cup GapNoProject
    /\ UNCHANGED sageVars /\ UNCHANGED syncVars /\ UNCHANGED fyleVars
    /\ UNCHANGED <<row, aborts>>

\* One batch: the cost codes of a job.
PostCostCodes(j) ==
    /\ importer.pc = "codes"
    /\ j \in importer.jobs
    /\ LET batch == {CodeOf[c] : c \in {d \in Cats : importer.snap[d] # 0 /\ JobOfCat(d) = j}} IN
       /\ codes' = codes \cup batch
       /\ importer' = [importer EXCEPT !.jobs = @ \ {j},
                                       !.names = @ \cup {NameOf[k] : k \in batch}]
    /\ UNCHANGED sageVars /\ UNCHANGED syncVars
    /\ UNCHANGED <<row, projects, posted, gaps, aborts>>

\* Fault: a batch that fails is not remembered.
CostCodesFail_Silent(j) ==
    /\ importer.pc = "codes"
    /\ j \in importer.jobs
    /\ importer' = [importer EXCEPT !.jobs = @ \ {j}]
    /\ UNCHANGED sageVars /\ UNCHANGED syncVars /\ UNCHANGED fyleVars
    /\ UNCHANGED <<row, gaps, aborts>>

\* Fyle refuses the batch: the import goes on with the next.
CostCodesFail(j) ==
    /\ importer.pc = "codes"
    /\ j \in importer.jobs
    /\ importer' = [importer EXCEPT !.jobs = @ \ {j}, !.errored = TRUE]
    /\ UNCHANGED sageVars /\ UNCHANGED syncVars /\ UNCHANGED fyleVars
    /\ UNCHANGED <<row, gaps, aborts>>

\* The query of post_dependent_cost_type: the cost codes just posted, or all of
\* them when none was.
QueryCostTypes ==
    /\ importer.pc = "codes"
    /\ importer.jobs = {}
    /\ LET chosen == {c \in FreshRows :
                        /\ ~row[c].imported
                        /\ importer.names = {} \/ NameOfCat(c) \in importer.names}
       IN importer' = [importer EXCEPT
            !.pc = "types",
            !.snap = [c \in Cats |-> IF c \in chosen THEN row[c].name ELSE 0],
            !.names = {NameOfCat(c) : c \in chosen}]
    /\ UNCHANGED sageVars /\ UNCHANGED syncVars /\ UNCHANGED fyleVars
    /\ UNCHANGED <<row, gaps, aborts>>

\* The rows of cost code n, by its name alone, after they are marked imported.
Marked(n) ==
    [c \in Cats |-> IF c \in Rows /\ NameOfCat(c) = n
                    THEN [row[c] EXCEPT !.imported = TRUE, !.fresh = TRUE] ELSE row[c]]

\* One batch: the categories of a cost code. The update that follows takes every
\* row of that name, read or not.
PostCostTypes(n) ==
    /\ importer.pc = "types"
    /\ n \in importer.names
    /\ posted' = [c \in Cats |-> IF importer.snap[c] # 0 /\ NameOfCat(c) = n
                                 THEN importer.snap[c] ELSE posted[c]]
    /\ row' = Marked(n)
    /\ importer' = [importer EXCEPT !.names = @ \ {n}]
    /\ UNCHANGED sageVars /\ UNCHANGED syncVars
    /\ UNCHANGED <<projects, codes, gaps, aborts>>

\* Fault: the rows are marked though Fyle refused them.
CostTypesFail_Marks(n) ==
    /\ importer.pc = "types"
    /\ n \in importer.names
    /\ row' = Marked(n)
    /\ importer' = [importer EXCEPT !.names = @ \ {n}, !.errored = TRUE]
    /\ UNCHANGED sageVars /\ UNCHANGED syncVars /\ UNCHANGED fyleVars
    /\ UNCHANGED <<gaps, aborts>>

CostTypesFail(n) ==
    /\ importer.pc = "types"
    /\ n \in importer.names
    /\ importer' = [importer EXCEPT !.names = @ \ {n}, !.errored = TRUE]
    /\ UNCHANGED sageVars /\ UNCHANGED syncVars /\ UNCHANGED fyleVars
    /\ UNCHANGED <<row, gaps, aborts>>

\* Without an error, last_successful_import_at is now: no row is fresh any more.
FinishImport ==
    /\ importer.pc = "types"
    /\ importer.names = {}
    /\ row' = IF importer.errored THEN row
              ELSE [c \in Cats |-> [row[c] EXCEPT !.fresh = FALSE]]
    /\ importer' = IdleImporter
    /\ UNCHANGED sageVars /\ UNCHANGED syncVars /\ UNCHANGED fyleVars
    /\ UNCHANGED <<gaps, aborts>>

\* An exception outside the posts, or the end of the worker.
ImportAborts ==
    /\ importer.pc # "idle"
    /\ aborts < MaxAborts
    /\ aborts' = aborts + 1
    /\ importer' = IdleImporter
    /\ UNCHANGED sageVars /\ UNCHANGED syncVars /\ UNCHANGED fyleVars
    /\ UNCHANGED <<row, gaps>>

\* Another workspace posts its categories of a cost code called n, and marks
\* the rows of that name, whosever they are.
OtherWorkspacePosts(n) ==
    /\ row # Marked(n)
    /\ row' = Marked(n)
    /\ gaps' = gaps \cup {c \in Rows : NameOfCat(c) = n /\ ~row[c].imported}
    /\ UNCHANGED sageVars /\ UNCHANGED syncVars /\ UNCHANGED fyleVars
    /\ UNCHANGED <<importer, aborts>>
----------------------------------------------------------------------------
SyncStep == SyncJobs \/ SyncCostCodes \/ SyncCostCategories \/ SyncStepFails

FieldsNext ==
    \/ \E j \in Jobs : SageWritesJob(j) \/ ImportProject(j) \/ PostCostCodes(j) \/ CostCodesFail(j)
    \/ \E k \in Codes : SageEntersCode(k)
    \/ \E c \in Cats : SageWritesCategory(c)
    \/ SyncStep
    \/ QueryCostCodes \/ QueryCostTypes \/ FinishImport \/ ImportAborts
    \/ \E n \in Names : PostCostTypes(n) \/ CostTypesFail(n)
    \/ \E n \in Shared : OtherWorkspacePosts(n)

FieldsSpec == FieldsInit /\ [][FieldsNext]_fieldsVars
----------------------------------------------------------------------------
(***************************************************************************)
(* Properties                                                              *)
(***************************************************************************)

FieldsTypeOK ==
    /\ sage \in [Records -> 0..MaxVersion]
    /\ active \subseteq Jobs
    /\ clock \in 0..MaxVersion
    /\ mark \in [job : 0..MaxVersion, code : 0..MaxVersion, cat : 0..MaxVersion]
    /\ known \in [Jobs \cup Codes -> 0..MaxVersion]
    /\ row \in [Cats -> CategoryRow]
    /\ syncer \in {"idle", "codes", "cats"}
    /\ projects \subseteq Jobs
    /\ importer \in ImporterState
    /\ codes \subseteq Codes
    /\ posted \in [Cats -> 0..MaxVersion]
    /\ dropped \subseteq Cats
    /\ gaps \subseteq Cats
    /\ aborts \in 0..MaxAborts

(* last_successful_import_at hides from every later import the rows that are not
   written again. Whatever batches fail and wherever an import breaks off, a row
   is hidden only when Fyle has its category under its present name and its cost
   code -- or it met one of the four gaps in `gaps`. *)
HiddenIsInFyle ==
    \A c \in Rows : ~row[c].fresh =>
        c \in gaps \/ (posted[c] = row[c].name /\ CodeOf[c] \in codes)

(* is_imported, which no later step clears, is set for no category that Fyle was
   never sent: the update goes by the name of a cost code, whichever rows of that
   name the batch had. *)
ImportedWasPosted ==
    \A c \in Rows : row[c].imported => c \in gaps \/ posted[c] # 0

(* The mark leaves nothing behind that could have been stored: a category whose
   version it has passed is stored under its present name, or its cost code was
   not known when it was fetched. *)
PassedIsStored ==
    \A c \in Cats : sage[c] \in 1..mark.cat => c \in dropped \/ row[c].name = sage[c]

(* The syncs and the imports run again and again, and a batch that is sent again
   and again is taken in the end. *)
Fairness ==
    /\ WF_fieldsVars(QueryCostCodes)
    /\ WF_fieldsVars(QueryCostTypes)
    /\ WF_fieldsVars(FinishImport)
    /\ \A j \in Jobs : /\ WF_fieldsVars(PostCostCodes(j) \/ CostCodesFail(j))
                      /\ SF_fieldsVars(PostCostCodes(j))
    /\ \A n \in Names : /\ WF_fieldsVars(PostCostTypes(n) \/ CostTypesFail(n))
                       /\ SF_fieldsVars(PostCostTypes(n))

FairSpec == FieldsSpec /\ Fairness

(* Every stored category gets to Fyle, however often its batches are refused,
   unless it met a gap. *)
StoredGetsToFyle ==
    \A c \in Cats : c \in Rows ~> (posted[c] = row[c].name \/ c \in gaps)

(* A cost category is sent only once Fyle has a cost code of that name. *)
TypeHasCode ==
    \A c \in Cats : posted[c] # 0 => \E k \in codes : NameOf[k] = NameOfCat(c)

(* A category that was left out is stored once its cost code is known here. *)
DroppedIsUnknown ==
    \A c \in dropped : syncer = "idle" => known[CodeOf[c]] = 0
=============================================================================
