CONSTANTS
    None = None
    a = a
    b = b
    Ids = {a, b}
    JobCapacity = 1
    OutputCapacity = 1
    MaxOutstanding = 2
    Statements = 1
    MaxFrames = 4
SPECIFICATION Spec
PROPERTIES StopsTakeEffect EveryCallSettles
CHECK_DEADLOCK FALSE
