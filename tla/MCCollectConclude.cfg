SPECIFICATION Spec
CONSTANTS
    Segments <- AnySegment
    LicenseNames = {"LICENSE", "COPYING", "PATENTS"}
    SupplementaryNames = {"PATENTS"}
    VendorSegments = {"vendor"}
    BuildSegments = {"melange-out"}
    TestSegments = {"testdata"}
    Named <- NamedIs
    Blank = {"empty"}
    GrantFamilies = {"GPL-2.0", "LGPL-2.1"}
    None = None
    Text <- TextIs
    Grant <- GrantIs
    Names <- NamesAre
    Malformed <- MalformedNames
    Files <- ConcludeFiles
    Breakable <- ConcludeBreakable
    Links <- ConcludeLinks
    Declared <- DeclaredTexts
    Heads <- SourceHeads
    Statements <- Readmes
    ModDir <- Root
    Lock <- LockIs
    Installed <- NothingInstalled
INVARIANTS NothingLostSilently CompleteAnswerIsTrue ConclusionIsKeyed LaterNeedsNotice UnreadIsUnknown
CHECK_DEADLOCK FALSE
