SPECIFICATION Spec
CONSTANTS
    Streams = {s}
    Runs = {r}
    Loop = Loop
    None = None
    Kinds = {stdout}
    MaxLines = 2
    MaxOut = 2
    PipeCap = 1
    RingMax = 2
    ConsoleCap = 1
    ResultCap = 1
    MaxFaults = 1
INVARIANTS NoGap Killable
PROPERTIES LoopReturns ConsoleEnds RunAnswered
CHECK_DEADLOCK FALSE
