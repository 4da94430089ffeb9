SPECIFICATION DhcpSpec
CONSTANTS
    Clients = {x, y}
    NoClient = NoClient
    None = None
    Outside = Outside
    MaxLeases = 3
    FirstAddr = 2
    OctetMod = 4
    LeaseTime = 1
    MaxTime = 2
    MboxSize = 2
    MaxChurn = 3
    AllowRestart = TRUE
SYMMETRY Symmetry
INVARIANTS DhcpTypeOK NoTwoOwners ServerKnowsHolder
