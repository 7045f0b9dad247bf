SPECIFICATION Spec
CONSTANTS
    Loops = {l1}
    Ids = {i1}
    MaxChats = 3
INVARIANTS
    HistoryAlternates
