\* A process started without HOME goes on with a changed key without asking.
CONSTANTS
    Clients = {c1}
    Identities = {i1, i2}
    i1 = i1
    i2 = i2
    f1 = f1
    f2 = f2
    Keys = {k1, k2, k3}
    Files = {f1, f2}
    CacheFile <- DistinctHashes
    NoFile = NoFile
    Empty = Empty
    Garbage = Garbage
    None = None
    InitContents = {NoFile, k1}
    InitDirs = {"dir", "missing", "notdir"}
SPECIFICATION SpecNoHome
INVARIANT TrustOnFirstUse
