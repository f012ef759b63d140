SPECIFICATION Spec
CONSTANTS
    VendorSegments = {"vendor"}
    BuildSegments = {"melange-out"}
    TestSegments = {"testdata"}
    Trees <- SomeTrees
    Skippable <- SomeSkippable
    Rank <- SomeRanks
    JarNames = {"uber.jar", "app.jar"}
    Normalized <- SomeNames
    Own = "medusa"
    Unusable <- SpacedNames
INVARIANTS NoBorrowedDigest NothingMissed OncePerIdentity AnchoredInOwnTree
CHECK_DEADLOCK FALSE
