CONSTANTS
    Workers = {w1}
    Sessions = {s1, s2, s3}
    NoSession = NoSession
    MaxRoom = 2
    MaxUser = 2
    MaxFrame = 1
    MaxClose = 2
    Requests = {"LeaveRoom", "RoomReady", "RoomUnReady", "RoomStart", "MenuSwitch", "MenuChoose", "MenuBack", "GameMapEditFinished", "GameFrame", "GameEnd"}
SPECIFICATION Spec
SYMMETRY Symmetry
INVARIANT
    PauseTracksPresence
    SeatedAreOnline
    OneSessionPerUser
    ClosedIsUnbound
    NeverCrashed
CHECK_DEADLOCK FALSE
