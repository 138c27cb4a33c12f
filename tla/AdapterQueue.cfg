SPECIFICATION Spec
CONSTANTS
    Buffers = {b1, b2, b3}
    Decoders = {d1}
    None = None
    Link = Link
    LastBlock = 2
    Size <- QueueSizes
INVARIANTS
    TypeOK
    BuffersConserved
    SafeUntilRead
    RefCountExact
    QueuesLinked
    StoppedEmpty
PROPERTIES
    ConveyorSpec
    FlushEnds
    BuffersComeBack
