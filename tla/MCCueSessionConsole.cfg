SPECIFICATION SessionSpec
CONSTANTS
    o1 = o1
    o2 = o2
    NoObject = NoObject
    NoFrame = NoFrame
    Object = {o1, o2}
    Surface = {"console"}
    Entry = {"secret"}
    Workers = 2
    Earlier <- MCEarlierSecret
PROPERTIES OpEnds
CHECK_DEADLOCK FALSE
