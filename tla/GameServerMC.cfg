CONSTANTS
    Workers = {w1, w2}
    Sessions = {s1, s2}
    NoSession = NoSession
    MaxRoom = 1
    MaxUser = 2
    MaxFrame = 1
    MaxClose = 1
    Requests = {"LeaveRoom", "RoomReady", "RoomUnReady", "RoomStart", "MenuSwitch", "MenuChoose", "MenuBack", "GameMapEditFinished", "GameFrame", "GameEnd"}
SPECIFICATION Spec
SYMMETRY Symmetry
INVARIANT
    TypeOK
    StartedRoomFull
    RegisteredIsHosted
    SeatNumbers
    ClockRuns
    ModeOfStatus
PROPERTY
    FrameNumbersRunOn
    GameSeatingFixed
CHECK_DEADLOCK FALSE
