SPECIFICATION Spec
CONSTANTS
    v1 = v1
    p1 = p1
    p2 = p2
    x1 = x1
    NoPass = NoPass
    Vessel = {v1}
    Pass = {p1, p2}
    File = {x1}
    MaxFiles = 2
    Overwrite = FALSE
    Faults = {"crash", "torn_index"}
PROPERTIES RegisterRestores
