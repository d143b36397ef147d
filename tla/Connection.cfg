CONSTANTS
    MaxFrame = 3
    MaxOut = 2
    MissedAtLeast = 1
    PatientUser = TRUE
    StartTimeout = FALSE
SPECIFICATION Spec
INVARIANT
    FlagsFollowSocket
    WaitIsTimed
    FramesOnTheWay
PROPERTY
    TipGoesAway
CHECK_DEADLOCK FALSE
