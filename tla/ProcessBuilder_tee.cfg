\* Tee alone: copy() shares the TeeSpec; the additionalBody textarea.
CONSTANTS
    n1 = n1  n2 = n2  v0 = v0  v1 = v1  undef = undef  c1 = c1
    b0 = b0  b1 = b1  bad = bad  none = none
    Kinds = {"Tee"}
    Names <- MCNames
    Vals <- MCValsDefault
    Conds <- MCCondsUndef
    Bodies <- MCBodies
    DefaultVal <- v0
    UndefCond <- undef
    EmptyBody <- b0
    BadJson <- bad
    MaxRefs = 8
    None <- none
SPECIFICATION Spec
INVARIANT BodySaved
