SPECIFICATION Spec
CONSTANTS
    Packages <- MCPackages
    Foundations <- MCFoundations
    Worlds <- MCWorlds
    MaxDepth = 5
    Verifiers <- MCVerifiers
    Configs <- MCConfigs
    MaxSessions = 2
INVARIANTS
    ClosureResolved
    PlanSound
    SuccessIsFresh
    MapFitsArtifact
PROPERTIES
    Terminates
CHECK_DEADLOCK FALSE
