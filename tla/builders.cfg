SPECIFICATION Spec
CONSTANTS
    Name = {x}
    Address = {a1, a2, a3}
    VariableType = {"Int32"}
    MaxHeld = 2
INVARIANTS
    TypeOK
    OneOwner
    NothingLeaks
    ModulesAreTrees
PROPERTIES
    DestroysDescendants
SYMMETRY Symmetry
CHECK_DEADLOCK FALSE
