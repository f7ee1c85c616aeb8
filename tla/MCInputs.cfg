SPECIFICATION MCSpec
CONSTANTS
    Cmds = {"a", "b"}
    Requests <- MCRequests
    Deps = {"h", "g"}
    Versions = {1, 2}
    Rebuilt = {"a"}
    NumSlots = 1
    Unlisted <- MCUnlisted
    DownloadRegex = FALSE
    MaxBuilds = 2
    MaxElsewhere = 1
INVARIANTS
    CachedResultsMatchTree
    RemoteInputsComplete
PROPERTIES
    ProcessingEnds
