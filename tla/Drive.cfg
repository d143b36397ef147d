SPECIFICATION DriveSpec
CONSTANTS
    Unit = 2
    Cols = 6
    Rows = 3
    Map <- Corner
    HomePos <- Foot
    BornPos <- Places
    PlayerLevel = 1
    EnemyLevel = 1
    EnemyBullets = 1
    TankSpeed = 1
    BulletSpeed = 8
    IceSpeed = 1
    PhysicsFrames = 2
    MaxBullets = 1
    Times = {1, 3}
PROPERTY NeverSeenAhead SeenWhereItIs PropOnFreeGround
