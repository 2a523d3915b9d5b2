\* A known_hosts file holding unparsable text: the check reads it as no key.
CONSTANTS
    Clients = {c1}
    Identities = {i1, i2}
    i1 = i1
    i2 = i2
    f1 = f1
    f2 = f2
    Keys = {k1, k2, k3}
    Files = {f1, f2}
    CacheFile <- DistinctHashes
    NoFile = NoFile
    Empty = Empty
    Garbage = Garbage
    None = None
    InitContents = {NoFile, Garbage, k1}
    InitDirs = {"dir", "missing", "notdir"}
SPECIFICATION Spec
INVARIANT PromptOnlyOnMismatch
