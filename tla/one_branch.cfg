SPECIFICATION RunnerSpec
CONSTANTS
    Name = {x}
    AnyName = x
    LlastDebug = FALSE
    Half = 2
    Programs <- MCPrograms
INVARIANTS
    OneBranch
CHECK_DEADLOCK FALSE
