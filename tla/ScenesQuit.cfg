SPECIFICATION FairSpec
CONSTANTS
    MaxHandles = 3
    StartModes = {"game"}
    LevelModes = {"game"}
    MayQuit = TRUE
PROPERTIES QuitAlwaysReturns
CHECK_DEADLOCK FALSE
