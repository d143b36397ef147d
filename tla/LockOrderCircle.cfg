CONSTANTS
    Workers = {w1, w2}
    FrameThreads = {f1}
    Rooms = {r1}
    NoThread = NoThread
    NoRoom = NoRoom
SPECIFICATION Spec
SYMMETRY Symmetry
INVARIANT NoCircularWait
CHECK_DEADLOCK FALSE
