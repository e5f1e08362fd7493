SPECIFICATION SessionSpec
CONSTANTS
    o1 = o1
    o2 = o2
    NoObject = NoObject
    NoFrame = NoFrame
    Object = {o1, o2}
    Surface = {"cli", "web"}
    Entry = {"secret"}
    Workers = 2
    Earlier <- MCEarlier
PROPERTIES SecretEarned BindingChecked CameraComes
CHECK_DEADLOCK FALSE
