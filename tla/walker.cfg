SPECIFICATION WalkSpec
CONSTANTS
    Name = {x}
    AnyName = x
    Programs <- MCPrograms
INVARIANTS
    WalkTypeOK
    InDocument
    LeftBehind
    WalkedComplete
PROPERTY DocumentOrderSpec
PROPERTY WalkShrinks
PROPERTY WalkTerminates
CHECK_DEADLOCK FALSE
