CONSTANTS
    Sessions = {s1, s2}
    Devices = {d1, d2}
    Permitted = {d1}
    NoDevice = NoDevice
    Main = Main
    NoOwner = NoOwner
    IsRoot = TRUE
    MaxPending = 1
    Faults <- AllFaults
SPECIFICATION FairSpec
INVARIANTS
    GuardExclusive
    LostOnlyByFailure
    ImportFailsOnlyIfDisturbed
    IInv
PROPERTIES
    ReleaseHitsOwn
    LockSpec
    ImportSettles
    ShutdownEnds
