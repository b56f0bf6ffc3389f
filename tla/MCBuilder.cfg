SPECIFICATION Spec
CONSTANTS
    x = x  q = q  l1 = l1  wx = wx  wx0 = wx0
    raw = raw  hashed = hashed  fwx = fwx  turnstile = turnstile
    Wff = Wff  None = None
    Vars = {x, q}
    Consts = {Wff}
    LocalLabels = {wx, wx0, hashed}
    ForeignLabels = {fwx}
    Spellings = {wx, wx0, hashed, raw}
    CanonLabel <- MCCanonLabel
    AutoName <- MCAutoName
    Rank <- MCRank
    AutoF = TRUE
    Exprs <- MCExprs
    Proofs <- MCProofs
    Exportable = {fwx}
    MaxSuffix = 1
    MaxStmts = 4
    MaxDepth = 2
INVARIANTS
    LabelsUnique
    ActiveFIsTextual
    AutoFloatsComplete
    BlocksAgree
    NoOrphanLabel
PROPERTIES
CHECK_DEADLOCK FALSE
