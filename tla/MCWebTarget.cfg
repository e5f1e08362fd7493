SPECIFICATION Spec
CONSTANTS
    Vessel = {1, 2}
    Pass = {p, q}
    Policy = {"duress"}
    MaxOpened = 1
    MaxConsole = 1
    MaxOps = 1
SYMMETRY Interchangeable
INVARIANTS SameContainer ClearedForgotten ClearsOnlyPresented StoreKept
CHECK_DEADLOCK FALSE
