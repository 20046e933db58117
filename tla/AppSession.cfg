SPECIFICATION FairSpec
CONSTANTS
    Profiles = {"host"}
    MaxLayers = 1
    MaxJobs = 4
    Commands = {"move", "mkdir", "delete", "sync", "connect", "archive"}
    ConfirmDelete = FALSE
    EnableQuic = TRUE
    InputFails = TRUE
INVARIANTS
    CommandMatchesPanels
    ProgressIsLive
    PlanReady
    PanelsResolve
    FreshAfterJobs
    GlyphsSettle
PROPERTIES
    ApprovedFirst
    ImplementsSession
