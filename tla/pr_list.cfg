CONSTANTS
    a1 = a1
    a2 = a2
    a3 = a3
    Address = {a1, a2, a3}
    Requesters = {a1}
    MaxPeers = 3
    ArraySize = 1
SPECIFICATION Spec
INVARIANT TypeOK
INVARIANT ListMatchesMap
INVARIANT IdsAreUnique
INVARIANT ScanMissesNobody
CHECK_DEADLOCK FALSE
SYMMETRY Symmetry
