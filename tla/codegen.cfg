SPECIFICATION Spec
CONSTANTS
    Name = {x}
    AnyName = x
    LlastDebug = FALSE
    Programs <- MCPrograms
INVARIANTS
    TypeOK
    StacksFollowWalk
    LexicalScoping
    OperandsInPlace
    NoUndefinedBehaviour
    RemainsIfUnbalanced
    WellTypedCode
    NoErrorMissed
    NoFalseError
    SsaCode
PROPERTIES
    TranslationSpec
    Terminates
CHECK_DEADLOCK FALSE
