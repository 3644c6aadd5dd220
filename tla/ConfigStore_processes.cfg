CONSTANTS
    n1 = n1
    n2 = n2
    empty = empty
    v0 = v0
    v1 = v1
    none = none
    Collections = {"processes"}
    Names <- MCNames
    EmptyName <- empty
    Vals <- MCVals
    DefaultVal <- v0
    MaxIds = 4
    Builders <- MCBuildersProcesses
    NoDraft <- none
SPECIFICATION Spec
PROPERTY KeyedSpec
