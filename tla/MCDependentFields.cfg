SPECIFICATION FairSpec
CONSTANTS
    j1 = j1
    j2 = j2
    k1 = k1
    k2 = k2
    c1 = c1
    c2 = c2
    n1 = n1
    Jobs = {j1, j2}
    Codes = {k1, k2}
    Cats = {c1, c2}
    Names = {n1}
    Shared = {n1}
    JobOf <- MCJobOf
    CodeOf <- MCCodeOf
    NameOf <- MCNameOf
    SageAtStart <- MCSageAtStart
    MaxVersion = 6
    MaxAborts = 1
PROPERTIES
    StoredGetsToFyle
INVARIANTS
    FieldsTypeOK
    HiddenIsInFyle
    ImportedWasPosted
    PassedIsStored
CHECK_DEADLOCK FALSE
