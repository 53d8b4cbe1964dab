CONSTANTS
    Sessions = {s1, s2}
    Devices = {d1, d2}
    Permitted = {d1}
    NoDevice = NoDevice
    Main = Main
    NoOwner = NoOwner
    IsRoot = TRUE
    MaxPending = 1
    Faults <- NoFaults
SPECIFICATION Spec
SYMMETRY SessionSymmetry
INVARIANTS
    CapturedWhileHeld
