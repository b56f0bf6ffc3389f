SPECIFICATION Spec
CONSTANTS
    Scripts <- MCScripts
    NameOrder <- MCNameOrder
    IdOrder <- MCIdOrder
    Vars <- MCVars
    Binops <- MCBinops
    Ternaries <- MCTernaries
    Bare <- MCBare
    Prefix2 <- MCPrefix2
    Prefix3 <- MCPrefix3
    Delims <- MCDelims
    MaxTokens = 1000
INVARIANTS
    LoweredProofsVerify
CHECK_DEADLOCK FALSE
