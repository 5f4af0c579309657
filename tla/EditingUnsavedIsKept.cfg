CONSTANTS
    Jamo = {"g", "s", "o", "a"}
    Plain = {"x"}
    Files = {f, g}
    NewFile = n
    MaxWindows = 2
    UiCap = 1
    MaxEvents = 6
    None = None
SPECIFICATION Spec
PROPERTY UnsavedIsKept
CHECK_DEADLOCK FALSE
