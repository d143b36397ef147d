CONSTANTS
    Start = 1
    End = 6
SPECIFICATION Spec
INVARIANT
    NowIsFree
PROPERTY
    PoolSpec
