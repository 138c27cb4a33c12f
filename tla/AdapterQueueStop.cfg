SPECIFICATION ShutdownSpec
CONSTANTS
    Buffers = {b1, b2}
    Decoders = {d1}
    None = None
    Link = Link
    LastBlock = 1
    Size <- QueueSizes
INVARIANTS
    StoppedNotReading
