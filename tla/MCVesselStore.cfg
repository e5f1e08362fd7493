SPECIFICATION Spec
CONSTANTS
    v1 = v1
    p1 = p1
    p2 = p2
    x1 = x1
    x2 = x2
    NoPass = NoPass
    Vessel = {v1}
    Pass = {p1, p2}
    File = {x1, x2}
    MaxFiles = 2
    Overwrite = TRUE
    Faults = {"crash", "torn_slot", "torn_key", "torn_seal", "torn_index"}
SYMMETRY DataSymmetry
VIEW StoreView
INVARIANTS AckedReadable DestroyArmed WipeEndsCredentials GoneStaysGone BrickLeavesNothing
