\* Filter and Completer: copy() copies the spec object.
CONSTANTS
    n1 = n1  n2 = n2  v0 = v0  v1 = v1  undef = undef  c1 = c1
    b0 = b0  b1 = b1  bad = bad  none = none
    Kinds = {"Filter", "Completer"}
    Names <- MCNames
    Vals <- MCVals
    Conds <- MCConds
    Bodies <- MCBodies
    DefaultVal <- v0
    UndefCond <- undef
    EmptyBody <- b0
    BadJson <- bad
    MaxRefs = 8
    None <- none
SPECIFICATION Spec
INVARIANT SentinelKeptByCopy
PROPERTY DraftIsolation
