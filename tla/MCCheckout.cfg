SPECIFICATION FairSpec
CONSTANTS
    Requests <- SomeRequests
    AuthHosts = {"github.com"}
    Permanent = {"not found"}
    Transient = {"could not resolve"}
    Banner = {"remote", "not found"}
    MaxStderr = 2
    MaxLines = 3
INVARIANTS DirectoryIsKept GoneIffMissing CommandSees
PROPERTIES CancelledEnds ImplementsContract
CHECK_DEADLOCK FALSE
