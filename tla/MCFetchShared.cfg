SPECIFICATION Spec
CONSTANTS
    f1 = f1  f2 = f2  f3 = f3  ours = ours  theirs = theirs
    h1 = h1  h2 = h2  inside = inside  outside = outside  None = None
    Fetches = {f1, f2, f3}
    Staged = {}
    Clients = {ours, theirs}
    ClientOf <- SharedClientOf
    Pinned = {ours}
    HeaderTimed = {ours}
    Hosts = {h1, h2}
    Refused = {h2}
    Addrs = {inside, outside}
    Public = {outside}
    Limit <- SharedLimit
    MaxInt = 7
    MaxRedirects = 2
    MaxBody = 0
    Stall = 1
INVARIANTS PublicPeers OneWrapper
CHECK_DEADLOCK FALSE
