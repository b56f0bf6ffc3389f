SPECIFICATION Spec
CONSTANTS
    Vars <- MCVars
    Consts <- MCConsts
    Labels <- MCLabels
    Texts <- MCTexts
    MaxTokens = 10
INVARIANTS
    FramesAgree
    WellFormed
    Sound
CHECK_DEADLOCK FALSE
