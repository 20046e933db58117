SPECIFICATION FairSpec
CONSTANTS
    PollTicks = 10
    NapTicks = 5
    GraceTicks = 8
    MaxKeys = 3
INVARIANTS
    EditorHasTerminal
    SavedOrTold
PROPERTIES
    KeysComeThrough
    WritesOnlyWhatIsSaved
