SPECIFICATION Spec
CONSTANTS
    u1 = u1  u2 = u2  u3 = u3
    m1 = m1  m2 = m2
    ph = ph  phAlias = phAlias  bad = bad  dollar = dollar
    o1 = o1  o2 = o2
    Units = {u1, u2, u3}
    ModuleIds = {m1, m2}
    Names = {ph, phAlias, bad, dollar}
    LocalNames = {ph, phAlias, dollar}
    ReservedNames = {dollar}
    Origins = {o1, o2}
    Unmapped = Unmapped
    MaxSymbols = 3
    ModuleOf <- MCModuleOf
    Canon <- MCCanon
INVARIANTS
    Bijective
    UnitsIsolated
CHECK_DEADLOCK FALSE
