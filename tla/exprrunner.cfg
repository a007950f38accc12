SPECIFICATION RunnerSpec
CONSTANTS
    Name = {x}
    AnyName = x
    LlastDebug = FALSE
    Half = 4
    Programs <- MCPrograms
INVARIANTS
    RunnerTypeOK
    CalledAsDeclared
    DefinedRun
    ComputesMeaning
    ResultIsMeaning
PROPERTIES
    EvaluationSpec
    CallShrinks
    CallEnds
CHECK_DEADLOCK FALSE
