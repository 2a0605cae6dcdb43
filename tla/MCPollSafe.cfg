SPECIFICATION Spec
CONSTANTS
    NFds = 2
    Remotes = {{2}}
    Timeouts = {"zero", "finite", "never"}
    Closable = {1, 2}
    Mortal = TRUE
    Notable = TRUE
    Stoppable = FALSE
INVARIANTS
    NothingOutlives
    NoLostAnswer
    NoMissedReady
PROPERTIES
    ZeroIsTrue
