SPECIFICATION Spec
CONSTANTS
    Client = {c1, c2}
    Secret = {s1, s2}
    Auth = {a1, a2}
    NoSecret = NoSecret
    MaxVersion = 3
    Creates = 2
    Removes = TRUE
INVARIANTS
    VersionsDense
    OneProviderRecovers
    RemovedStaysRemoved
CHECK_DEADLOCK FALSE
