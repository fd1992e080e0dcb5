CONSTANTS
    None = None
    a = a
    b = b
    c = c
    Ids = {a, b, c}
    JobCapacity = 1
    OutputCapacity = 1
    MaxOutstanding = 2
    Statements = 2
    MaxFrames = 5
SYMMETRY Symmetry
SPECIFICATION Spec
INVARIANTS CallsAreHeldOnce InterruptHitsItsTarget
PROPERTY AnsweredOnceUnlessWithdrawn
CHECK_DEADLOCK FALSE
