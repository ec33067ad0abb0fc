SPECIFICATION Spec
CONSTANTS
    MaxHandles = 6
    StartModes = {"editor"}
    LevelModes = {"editor"}
    MayQuit = FALSE
INVARIANTS EditorIsShown
CHECK_DEADLOCK FALSE
