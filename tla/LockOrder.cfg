CONSTANTS
    Workers = {w1}
    FrameThreads = {f1}
    Rooms = {r1, r2}
    NoThread = NoThread
    NoRoom = NoRoom
SPECIFICATION Spec
INVARIANT
    NoCircularWait
    FreeRoomsHosted
PROPERTY
    HandlersEnd
