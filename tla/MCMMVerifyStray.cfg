SPECIFICATION Spec
CONSTANTS
    Vars <- MCVars
    Consts <- MCConsts
    Labels <- MCLabels
    Texts <- MCStrayTexts
    MaxTokens = 10
INVARIANTS
    TrueWhateverCited
CHECK_DEADLOCK FALSE
