SPECIFICATION Spec
CONSTANTS
    MaxDeclared = 3
    Shaped <- SomeShaped
    Listed <- SomeListed
    Synonym <- SomeNames
    Slashed <- SomeSlashes
    Resolves <- SomeResolutions
    Threshold = 90
    SomeFiles <- FilesThere
    SomeDocuments <- DocumentsThere
    SomeProse <- Mentions
    SomeReasons <- Reasons
    SomeDeclared <- Declarations
    MaxPieces = 3
INVARIANTS ScoreIsExplained ManifestsAreHeard ChoiceIsAnyOf
PROPERTY OnlyEvidenceMoves
CHECK_DEADLOCK FALSE
