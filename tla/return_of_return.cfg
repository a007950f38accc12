SPECIFICATION Spec
CONSTANTS
    Name = {x}
    AnyName = x
    LlastDebug = FALSE
    Programs <- OperandPrograms
INVARIANTS
    ReturnOfReturn
CHECK_DEADLOCK FALSE
