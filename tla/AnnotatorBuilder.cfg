\* Two annotations, one annotator name, a key and a value besides "", a
\* typed and a typeless condition.
CONSTANTS
    n0 = n0  n1 = n1  undef = undef  undefclone = undefclone  novalue = novalue
    Names = {n0}
    Keys = {"", "k"}
    Values = {"", "v"}
    Conds <- MCConds
    UndefCond <- undef
    UndefClone <- undefclone
    NoValue <- novalue
    MaxAnns = 2
SPECIFICATION Spec
INVARIANT DecodeKeepsAnnotations ConditionGroupMeansCondition
PROPERTY DraftIsolation
