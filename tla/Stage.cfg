CONSTANTS
    Modes = {"single", "online"}
    LastStage = 2
    Lives = 0
    TopLevel = 2
    EnemyTotal = 2
    EnemyMaxAlive = 2
    EnemyFirst = 1
    Props = {"BOMB", "TANK"}
    MaxProps = 1
    MaxPress = 1
    MaxHits = 2
    Lag = 1
SPECIFICATION Spec
INVARIANT
    NobodyLeftEndsGame
    EnemyBudget
    
PROPERTY
    StageStartsClean
    StageEnds
