SPECIFICATION ErasureSpec
CONSTANTS
    short = short
    long = long
    Noise = Noise
    Size = 9
    RECORD_OVERHEAD = 1
    MIN_PLAINTEXT = 0
    Record = {short, long}
    Length <- MCLength
    c1 = c1
    v1 = v1
    Command = {c1}
    Vessel = {v1}
    Faces <- MCFaces
    Used = {"face_a"}
    MaxStarts = 2
    MaxTriggers = 3
    KeyFaults = {FALSE, TRUE}
CHECK_DEADLOCK FALSE
PROPERTIES StoreSpec TriggerEndsCommand
