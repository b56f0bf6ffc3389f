SPECIFICATION FairSpec
CONSTANTS
    N = 5
    LocalNames <- MCLocalNames
    Suffixed <- MCSuffixed
    Names <- MCNames
INVARIANTS
    Injective
    SuffixBound
PROPERTIES
    Terminates
CHECK_DEADLOCK FALSE
