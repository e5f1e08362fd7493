SPECIFICATION Spec
CONSTANTS
    Command = {c1, c2}
    Web = web
    Writer <- MCWriter
    MaxFailures = 2
    Lockout = 1
    MaxClock = 2
    MaxEvents = 2
SYMMETRY Interchangeable
INVARIANTS LockoutEarned ChainHeals
PROPERTIES LockoutStands
CHECK_DEADLOCK FALSE
