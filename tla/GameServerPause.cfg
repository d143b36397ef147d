CONSTANTS
    Workers = {w1, w2}
    Sessions = {s1, s2}
    NoSession = NoSession
    MaxRoom = 1
    MaxUser = 2
    MaxFrame = 1
    MaxClose = 1
    Requests = {"LeaveRoom", "RoomReady", "RoomStart", "MenuChoose", "GameEnd"}
SPECIFICATION Spec
SYMMETRY Symmetry
INVARIANT PauseTracksPresence
CHECK_DEADLOCK FALSE
