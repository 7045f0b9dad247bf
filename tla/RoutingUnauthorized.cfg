SPECIFICATION RoutingSpec
CONSTANTS
    Methods = {"GET", "OPTIONS"}
    Options = "OPTIONS"
    Paths = {"/chat", "/user/1"}
    Patterns = {"/user/:id", "/user/:any"}
    Match <- MCMatch
    Targets = {t1, t2}
    NoTarget = NoTarget
    Origins = {"here", "there"}
    AllowedOrigins = {"here"}
    MaxCalls = 1
    MaxMiddlewares = 1
INVARIANTS
    UnauthorizedIsSaid
    AnswersPassAfter
