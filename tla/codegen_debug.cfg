SPECIFICATION Spec
CONSTANTS
    Name = {x}
    AnyName = x
    LlastDebug = TRUE
    Programs <- OperandPrograms
INVARIANTS
    NoUndefinedBehaviour
    RemainsIfUnbalanced
CHECK_DEADLOCK FALSE
