SPECIFICATION Spec
CONSTANTS
    Unit = 2
    Cols = 2
    Rows = 7
    Map <- WallAndSteel
    HomePos <- Foot
    BornPos <- Places
    PlayerLevel = 4
    EnemyLevel = 1
    EnemyBullets = 1
    Reds = {TRUE}
    TankSpeed = 1
    IceSpeed = 1
    Clock = TRUE
    BulletSpeed = 4
    PhysicsFrames = 2
    MaxBullets = 3
INVARIANT ShotsOnGrid OneBulletOneTarget AmmoComesBack
PROPERTY BulletsEnd
