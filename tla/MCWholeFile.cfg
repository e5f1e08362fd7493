SPECIFICATION WholeFileSpec
CONSTANTS
    o1 = o1
    o2 = o2
    o3 = o3
    NoObject = NoObject
    Torn = Torn
    Surface = {"console", "web"}
    MODES = {"dummy", "secret"}
    Object = {o1, o2, o3}
    Process = {console, web}
    Name = {1, 50}
    Size = {300, 2772}
    Target = {2200}
    Capacity = 4000
    Metadata = 150
    MaxClock = 1
    MaxOps = 3
SYMMETRY Interchangeable
INVARIANTS DistinctObjects WriterAgrees ClearedWhenAlone StoredSurvives HandsBackLast FillerReaches
PROPERTIES FailsWhole
CHECK_DEADLOCK FALSE
