SPECIFICATION ClearingSpec
CONSTANTS
    clear_path = clear_path
    init_container = init_container
    other = other
    n1 = n1
    n2 = n2
    Action = {clear_path, init_container, other}
    DUAL_APPROVAL_ACTIONS = {clear_path, init_container}
    Nonce = {n1, n2}
    RequestTTL = 3
    GrantTTL = 1
    ReadGap = 1
    MaxTime = 6
    Command = {c1, c2}
    Vessel = {v1}
    Faces <- MCFaces
    Used = {"face_a"}
    MaxStarts = 2
    MaxTriggers = 2
    KeyFaults = {FALSE, TRUE}
SYMMETRY Interchangeable
CHECK_DEADLOCK FALSE
INVARIANTS SingleUse ClearedOrRetried
PROPERTIES ConsumeCovered TriggerKept
