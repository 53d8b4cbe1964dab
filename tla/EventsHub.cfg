CONSTANTS
    i1 = i1
    i2 = i2
    i3 = i3
    b1 = b1
    b2 = b2
    Ids <- MCIds
    Busids <- MCBusids
    BusidOf <- MCBusidOf
    NoId = NoId
    NoEvent = NoEvent
    Subs = {c1}
    Capacity = 2
SPECIFICATION FairSpec
INVARIANTS
    IInv
    HubConverges
    NoEventMissed
    RemovedWasAdded
PROPERTIES
    DeviceAnnounced
