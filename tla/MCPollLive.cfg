SPECIFICATION FairSpec
CONSTANTS
    NFds = 1
    Remotes = {{}, {1}}
    Timeouts = {"zero", "finite", "never"}
    Closable = {}
    Mortal = TRUE
    Notable = TRUE
    Stoppable = TRUE
PROPERTIES
    CallEnds
    ReadyEnds
