SPECIFICATION Spec
CONSTANTS
    Name = {x}
    AnyName = x
    LlastDebug = FALSE
    Programs <- OperandPrograms
INVARIANTS
    BlockHasValue
CHECK_DEADLOCK FALSE
