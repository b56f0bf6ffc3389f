SPECIFICATION FairSpec
CONSTANTS
    Theories <- MCTheories
    Upstreams <- MCUpstreams
    Merge <- MCMerge
    Chain <- MCChain
    DeclOrder <- MCDeclOrder
    Sequence <- MCSequence
    Decls <- MCDecls
    Home <- MCHome
    LabelOf <- MCLabelOf
    IdOf <- MCIdOf
    KindOf <- MCKindOf
    Premises <- MCPremises
    Conclusion <- MCConclusion
    Shards = {"U", "U2", "L", "M", "T", "X", "C", "O1", "O2", "R", "A", "N", "B", "W", "V", "XX"}
    Programs <- MCPrograms
    Text <- MCText
    Body <- MCBody
    Judgments <- MCJudgments
    Substs <- MCSubsts
    Ground = "ground"
    Allowed <- MCAllowed
    NoProof = NoProof
    MaxFrames = 4
INVARIANTS
    ProofsStand
    Sound
PROPERTIES
    ReportCovers
    ImplementsDerivation
    Returns
CHECK_DEADLOCK FALSE
