CONSTANTS
    Node = {n1, n2}
    Opener = {"open", "added"}
    MCTargets = "named"
    Target <- MCTarget
    ByName <- MCByName
    Resolve <- MCResolve
    OneShot = {"one"}
    NoGrant = {"con"}
    InAddr = {"b"}
    MaxOutbound = 2
    MaxInbound = 1
    PendingCheckpoints = TRUE
    None = "none"
SPECIFICATION Spec
SYMMETRY MCSymmetry
INVARIANTS TypeOK  RefCountExact GrantsConserved OutboundBounded
