CONSTANTS
    undef = undef
    notype = notype
    UndefCond <- undef
    NoTT <- notype
    TTypes = {"Unknown", "Copy", "MapRegex"}
    Fields = {"", "f"}
    ArgVals = {"x"}
    Conds <- MCCondsExists
    MaxTrs = 1
SPECIFICATION Spec
INVARIANT DecodeKeepsVisible
PROPERTY DraftIsolation
