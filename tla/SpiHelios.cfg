SPECIFICATION Spec
CONSTANTS
    Writers = {w1, w2}
    Worker = worker
    Resetter = resetter
    MaxChunks = 2
    None = None
INVARIANTS
    TransferFresh
    OwnChunkKept
PROPERTIES
    FramesLeave
    RemovalEnds
