SPECIFICATION WriteSpec
CONSTANTS
    Words <- SomeWords
    Shaped <- SomeShaped
    Listed <- SomeListed
    Synonym <- SomeNames
    Slashed <- SomeSlashes
    Leaves <- SomeLeaves
    MaxWritten = 7
    MaxTyped = 5
INVARIANTS ReadingIsRight RewritingIsRight
CHECK_DEADLOCK FALSE
