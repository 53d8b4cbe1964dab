CONSTANTS
    BusidWidth = 6
    MaxCount = 2
    Instances = {a, b}
    Sites <- MCSites
    Addresses = {1, 2}
    Products <- MCProducts
    MaxPlugged = 2
    AllowAll = FALSE
    Allow = {1}
    IsRoot = TRUE
    Lengths <- MCLengths
    PacketSizes = {0, 1, 2}
    None = None
SPECIFICATION Spec
SYMMETRY InstanceSymmetry
INVARIANTS
    IInv
    ListReadsBack
    ListedIsImportable
    DevidAccepted
    AsksWholePackets
    ReplyFits
    PathCleanedUp
PROPERTIES
    FileOutlivesStarts
