SPECIFICATION Spec
CONSTANTS
    Users = {"a", "b"}
    Creator = "a"
    MaxPending = 2
    MaxDown = 2
    Patient = FALSE
INVARIANT ViewMatchesRoom GameTogether
PROPERTY HostKnows
