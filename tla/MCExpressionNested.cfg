SPECIFICATION WriteSpec
CONSTANTS
    Words <- SomeWords
    Shaped <- SomeShaped
    Listed <- SomeListed
    Synonym <- SomeNames
    Slashed <- SomeSlashes
    Leaves <- SomeLeaves
    MaxWritten = 7
    MaxTyped = 1
INVARIANT RewritesKeepMeaning
CHECK_DEADLOCK FALSE
