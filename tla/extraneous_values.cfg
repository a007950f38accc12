SPECIFICATION Spec
CONSTANTS
    Name = {x}
    AnyName = x
    LlastDebug = FALSE
    Programs <- OperandPrograms
INVARIANTS
    ExtraneousValuesRemoved
CHECK_DEADLOCK FALSE
