SPECIFICATION Spec
CONSTANTS
    Loops = {l1, l2}
    Ids = {i1}
    MaxChats = 2
INVARIANTS
    ChosenModelIsCalled
