SPECIFICATION CopySpec
CONSTANTS
    Segments <- AnySegment
    LicenseNames = {"LICENSE", "COPYING", "PATENTS"}
    SupplementaryNames = {"PATENTS"}
    VendorSegments = {"vendor"}
    BuildSegments = {"melange-out"}
    TestSegments = {"testdata"}
    Named <- NamedIs
    Blank = {"empty"}
    GrantFamilies = {"GPL-2.0", "LGPL-2.1"}
    None = None
    Text <- TextIs
    Grant <- GrantIs
    Names <- NamesAre
    Malformed <- MalformedNames
    Files <- VendoredFiles
    Breakable <- VendoredBreakable
    Links <- VendoredLinks
    Declared = {}
    Heads = {}
    Statements = {}
    ModDir <- Root
    Lock <- LockIs
    Installed <- VendoredInstalled
    Bytes <- BytesAre
    Content <- ContentIs
    Published <- PublishedAre
    Places = {1, 2, 3}
INVARIANTS OwnershipAgrees KeyIsContent ClosureOrGap RootLicenseSpeaks VerdictIsTrue
CHECK_DEADLOCK FALSE
