SPECIFICATION FairSpec
CONSTANTS
    Vars <- MCVars
    Consts <- MCConsts
    Labels <- MCLabels
    Catalogue <- MCCatalogue
    MaxUnits = 4
    Level = 1
INVARIANTS
    ProvidersFirst
    ContractIsFrame
    NothingLost
    FramesBelong
    CyclesRejected
    LinksIfLinkable
    ContractsAreLocal
PROPERTIES
    Terminates
CHECK_DEADLOCK FALSE
