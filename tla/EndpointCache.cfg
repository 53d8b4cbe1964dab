CONSTANTS
    i1 = i1
    i2 = i2
    e1 = e1
    e2 = e2
    Threads = {t1, t2}
    Ifaces <- MCIfaces
    Alts <- MCAlts
    Eps <- MCEps
    IfaceOf <- MCIfaceOf
    KindOf <- MCKindOf
    None = None
    MaxEpoch = 2
    Faults <- AllFaults
SPECIFICATION Spec
SYMMETRY ThreadSymmetry
INVARIANTS
    SyncUnlessDisturbed
    TransferFits
    IInv
