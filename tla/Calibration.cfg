SPECIFICATION Spec
CONSTANTS
    Worlds <- MCWorlds
    LoadSteps = {2, 6, 10}
    MinClasses = 2
    TableTries = 2
    MinStablePolls = 3
    MaxPolls = 5
INVARIANTS
    StableMeansQuiet
    HonestWorldIsRight
    WrongNeedsDecoy
    OnlyConfirmed
PROPERTY
    StartupDecides
CHECK_DEADLOCK FALSE
