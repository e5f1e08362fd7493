SPECIFICATION Spec
CONSTANTS
    o1 = o1
    NoObject = NoObject
    matcher = matcher
    viewer = viewer
    MODES = {"secret"}
    Object = {o1}
    Matcher = matcher
    Feed = {viewer}
    FRAMES = 2
    REQUIRED = 2
INVARIANTS MatchEarned CameraReleased
PROPERTIES Presented Withdrawn
