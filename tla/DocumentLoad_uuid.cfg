CONSTANTS
    a = a  b = b  u1 = u1  u2 = u2  gen = gen  absent = absent
    undefcond = undefcond  nan = nan  null = null  undef = undef
    Collections <- MCCollections
    Names <- MCNames
    Vals <- MCVals
    Uuids = {u1, u2}
    Generated <- gen
    Absent <- absent
    UndefCond <- undefcond
    NaN <- nan
    Null <- null
    Undef <- undef
    Docs <- MCDocs
SPECIFICATION Spec
INVARIANT UuidFieldShowsMetadata
