SPECIFICATION Spec
CONSTANTS
    Name = {x}
    Address = {a1, a2}
    VariableType = {"Int32", "Float"}
    MaxHeld = 2
INVARIANTS
    DuplicatesKept
SYMMETRY Symmetry
CHECK_DEADLOCK FALSE
