SPECIFICATION Spec
CONSTANTS
    Loops = {l1, l2}
    Ids = {i1, i2}
    MaxChats = 3
SYMMETRY Symmetry
INVARIANTS
    TypeOK
    QuietConversationAlternates
    QuietChatCallsItsModel
    AnsweredIsPublished
