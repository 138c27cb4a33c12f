SPECIFICATION Spec
CONSTANTS
    Drivers = {d1}
    Sources = {"usb"}
    Management = management
    Keyboard = keyboard
    Priority <- DefaultPriority
    MaxSlices = 1
INVARIANTS
    EmergencyStop
