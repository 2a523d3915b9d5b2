\* One rdesktop process, HOME set, no crash: trust on first use and the
\* store's agreement with the operator's decisions.
CONSTANTS
    Clients = {c1}
    Identities = {i1, i2}
    i1 = i1
    i2 = i2
    f1 = f1
    f2 = f2
    Keys = {k1, k2, k3}
    Files = {f1, f2}
    CacheFile <- DistinctHashes
    NoFile = NoFile
    Empty = Empty
    Garbage = Garbage
    None = None
    InitContents = {NoFile, Empty, Garbage, k1}
    InitDirs = {"dir", "missing", "notdir"}
SPECIFICATION Spec
INVARIANT TypeOK
INVARIANT TrustOnFirstUse
INVARIANT StoreHoldsPin
