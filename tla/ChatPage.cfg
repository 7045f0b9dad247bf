SPECIFICATION Spec
CONSTANTS
    Ids = {old, new1, new2}
    Old = {old}
    Nil = null
    Temp = temp
    MaxActions = 4
INVARIANTS
    TypeOK
    ShownBelongs
    PatientPageAgrees
PROPERTIES
    SyncHeals
