SPECIFICATION AuthoredSpec
CONSTANTS
    Variables <- MCVariables
    SortOf <- MCSortOf
    Inputs <- MCInputs
    Output <- MCOutput
    BinderArgs <- MCBinderArgs
    Signature <- MCSignature
    NameOf <- MCNameOf
    KeyOrder <- MCKeyOrder
    Typecode <- MCTypecode
    Provable = "|-"
    Template <- MCTemplate
    Formation <- MCFormation
    RuleFloating <- MCRuleFloating
    Vars <- MCNames
    Sequences <- MCSequences
    ProofDistinct <- MCProofDistinct
    TermsFor <- MCTermsFor
    MaxSteps = 4
    MaxTokens = 100
    None = None
INVARIANTS
    Accepted
    FrameIsSignature
    AuthorTrue
CHECK_DEADLOCK FALSE
