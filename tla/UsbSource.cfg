SPECIFICATION Spec
CONSTANTS
    MaxParts = 1
    Enough = 2
INVARIANTS
    QueueBounded
PROPERTIES
    AnswerIntact
    SilentHostReleases
    RivalUndisturbed
