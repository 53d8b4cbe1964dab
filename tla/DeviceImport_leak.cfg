CONSTANTS
    Sessions = {s1, s2}
    Devices = {d1, d2}
    Permitted = {d1}
    NoDevice = NoDevice
    Main = Main
    NoOwner = NoOwner
    IsRoot = TRUE
    MaxPending = 0
    Faults <- CallFaults
SPECIFICATION Spec
SYMMETRY SessionSymmetry
INVARIANTS
    CaptureReturned
