SPECIFICATION FairSpec
CONSTANTS
    f1 = f1  f2 = f2  f3 = f3  ours = ours  theirs = theirs
    h1 = h1  h2 = h2  inside = inside  outside = outside  None = None
    Fetches = {f1, f2}
    Staged = {f1}
    Clients = {ours}
    ClientOf <- TransferClientOf
    Pinned = {ours}
    HeaderTimed = {ours}
    Hosts = {h1}
    Refused = {}
    Addrs = {outside}
    Public = {outside}
    Limit <- TransferLimit
    MaxInt = 7
    MaxRedirects = 1
    MaxBody = 2
    Stall = 2
INVARIANTS ArtifactIntegrity
PROPERTIES ExpiresOnlyWhenSilent EveryCallEnds ImplementsContract
CHECK_DEADLOCK FALSE
