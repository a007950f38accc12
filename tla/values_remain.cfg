SPECIFICATION Spec
CONSTANTS
    Name = {x}
    AnyName = x
    LlastDebug = FALSE
    Programs <- OperandPrograms
INVARIANTS
    NoValuesRemain
CHECK_DEADLOCK FALSE
