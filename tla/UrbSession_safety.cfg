CONSTANTS
    Urbs = {u1, u2}
    DataEps = {bulk}
    Ep0 = ep0
    NoUrb = none
    Loop = loop
    MAX_INFLIGHT_URBS = 2
SPECIFICATION Spec
SYMMETRY UrbSymmetry
INVARIANTS
    PermitsConserved
    UnlinkFinds
    DrainStopsAll
    NothingLost
    UnlinkTruthful
    FramesIntact
    ReplyMatchesTransfer
    UnlinkSparesOthers
    IInv
