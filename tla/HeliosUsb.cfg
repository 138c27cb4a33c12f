SPECIFICATION Spec
CONSTANTS
    Dacs = {d1, d2}
    Deep = {}
    Players = {1, 2}
    MaxPlugs = 2
    ErrorLimit = 1
    None = None
INVARIANTS
    RefsApart
PROPERTIES
    NumbersKept
    
