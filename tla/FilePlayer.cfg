SPECIFICATION Spec
CONSTANTS
    Keyboard = caller
    Network = caller
    Output = output
    Modes = {"repeat", "next"}
    MaxJobs = 3
    Enough = 2
    MaxReps = 2
INVARIANTS
    NoStaleFrames
    BufferBounded
    StopEmpties
PROPERTIES
    CancelledQuits
