SPECIFICATION FairSpec
CONSTANTS
    MaxHandles = 6
    StartModes = {"game", "editor"}
    LevelModes = {"game"}
    MayQuit = TRUE
INVARIANTS SceneTypeOK LoaderOwnsScene MainIsPresent HandlesAreKnown
PROPERTIES LevelChangeHappens OpenedGetsEdited QuitReturns
CHECK_DEADLOCK FALSE
