CONSTANTS
    Urbs = {u1, u2}
    DataEps = {bulk}
    Ep0 = ep0
    NoUrb = none
    Loop = loop
    MAX_INFLIGHT_URBS = 1
SPECIFICATION FairSpec
PROPERTIES
    CancelUnblocks
