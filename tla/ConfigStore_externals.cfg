CONSTANTS
    n1 = n1
    n2 = n2
    empty = empty
    v0 = v0
    v1 = v1
    none = none
    Collections = {"externals"}
    Names <- MCNames
    EmptyName <- empty
    Vals <- MCVals
    DefaultVal <- v0
    MaxIds = 4
    Builders <- MCBuildersExternals
    NoDraft <- none
SPECIFICATION Spec
INVARIANT TypeOK UniqueIdentity
PROPERTY KeyedSpec
