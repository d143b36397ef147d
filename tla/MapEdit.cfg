SPECIFICATION Spec
CONSTANTS
    MoveKeys = {"LEFT"}
    FirstInterval = 120
    Interval = 50
    Unit = 1
    Cols = 7
    Rows = 3
    Home <- HomeAt
    Born <- BornAt
    EditPlace <- EditAt
    ConfigMap <- StageMap
    LastStage = 2
    FrameTime = 66
    Leftover = {}
    Prompt = TRUE
    MaxPress = 4
    MaxHeld = 1
    MaxFrames = 6
    Lag = 1
INVARIANT PlacesFree SameMap KeysCanBeReleased
CHECK_DEADLOCK FALSE
