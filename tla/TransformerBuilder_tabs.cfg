CONSTANTS
    undef = undef
    notype = notype
    UndefCond <- undef
    NoTT <- notype
    TTypes = {"Unknown", "Copy"}
    Fields = {""}
    ArgVals = {"x"}
    Conds <- MCCondsOne
    MaxTrs = 2
SPECIFICATION Spec
PROPERTY UneditedSaveKeepsCondition
