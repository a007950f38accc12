SPECIFICATION Spec
CONSTANTS
    Name = {x}
    AnyName = x
    MaxWalks = 3
    Programs <- MCPrograms
INVARIANTS
    TypeOK
    OutlineReadsBack
    IndentRestored
    PrintsOrThrows
PROPERTY WalksEnd
CHECK_DEADLOCK FALSE
