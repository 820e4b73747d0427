------------------------- MODULE MCImportSettings -------------------------
(* Requests that map projects, cost centers or a custom field, each with     *)
(* the codes that tell the branches of the validation apart; as the form      *)
(* does, they ask for the codes of dependent fields only with that of JOB.   *)
EXTENDS ImportSettings

From(s, b) == [source |-> s, import |-> b]
Job(s) == [d \in {"JOB", "STANDARD_CATEGORY"} |-> IF d = "JOB" THEN s ELSE None]
Category(s) == [d \in {"JOB", "STANDARD_CATEGORY"} |-> IF d = "JOB" THEN None ELSE s]
JobCodes == {"JOB", "COST_CODE", "COST_CATEGORY"}

\* With every way to map JOB, or none.
Jobs == {Job(s) : s \in {None, From("PROJECT", TRUE), From("COST_CENTER", TRUE)}}

MCPayloads ==
    [categories : {FALSE}, vendors : {FALSE}, codes : {{}, {"JOB"}, JobCodes}, dependent : {TRUE},
     mapping : Jobs]
    \cup
    [categories : {TRUE}, vendors : {FALSE}, codes : {{}, {"ACCOUNT"}}, dependent : {TRUE},
     mapping : {Job(None), Job(From("PROJECT", TRUE))}]
    \cup
    [categories : {FALSE}, vendors : {TRUE}, codes : {{}, {"VENDOR"}}, dependent : {FALSE},
     mapping : {Category(From("PROJECT", TRUE))}]
    \cup
    [categories : {FALSE}, vendors : {FALSE}, codes : {{}}, dependent : {FALSE},
     mapping : {Category(From("CUSTOM", TRUE)), Job(From("PROJECT", FALSE))}]

\* What the serializer takes, too: the code of a dependent field without that of JOB.
MCCodesAlone ==
    [categories : {FALSE}, vendors : {FALSE}, codes : {{}, {"COST_CODE"}}, dependent : {TRUE},
     mapping : {Job(From("PROJECT", TRUE))}]
=============================================================================
