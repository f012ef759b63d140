SPECIFICATION Spec
CONSTANTS
    plain = plain  changed = changed  junk = junk  None = None
    Ecosystems = {"golang", "cargo", "npm", "pypi", "gem"}
    ByEcosystem = {"golang", "cargo", "npm", "pypi"}
    Contents = {plain, changed, junk}
    Expandable = {plain, changed}
    Algorithms = {"sha512", "sha256", "sha1"}
    Recorded <- Lockfiles
    Releases <- UpToThree
    Records <- SomeRecords
INVARIANTS MatchIsContent EndsForCause ChoiceIsStable WitnessSawIt
CHECK_DEADLOCK FALSE
