CONSTANTS
    f1 = f1
    f2 = f2
    k1 = k1
    k2 = k2
    k3 = k3
    Keys = {k1, k2, k3}
    Fingerprints = {f1, f2}
    Writers = {w1}
    ObservedOn <- MCObservedOn
    Position <- MCPosition
    PageSize = 1
    Unknown = Unknown
    NoTransaction = NoTransaction
    NoListing = NoListing
    MaxInstant = 2
SYMMETRY Symmetric
SPECIFICATION QuerySpec
INVARIANTS
    SettledListingIsSnapshot
    PagesNeitherRepeatNorDrop
PROPERTY
    LatestNeverRegresses
