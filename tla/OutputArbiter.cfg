SPECIFICATION Spec
CONSTANTS
    Drivers = {d1, d2}
    Sources = {"usb"}
    Management = management
    Keyboard = keyboard
    Priority <- DefaultPriority
    MaxSlices = 1
INVARIANTS
    ClaimRemembered
PROPERTIES
    LockSticks
    IdleReleases
