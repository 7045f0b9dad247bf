SPECIFICATION Spec
CONSTANTS
    Ids = {old, new1, new2}
    Old = {old}
    Nil = null
    Temp = temp
    MaxActions = 3
INVARIANTS
    ShownIsSent
    StayingIsEnough
    AlwaysItsOwn
