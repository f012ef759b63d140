SPECIFICATION ExpandSpec
CONSTANTS
    Archives <- UpToFour
    Prefix <- TopDirectory
    EvidenceNames = {"LICENSE", "COPYING"}
    SizeOf <- SomeSizes
    MaxEntries = 3
    MaxExpanded = 4
    MaxDecompressed = 9
    Header = 1
INVARIANTS OneRoot OneText BoundsDecide
CHECK_DEADLOCK FALSE
