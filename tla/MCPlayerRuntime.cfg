SPECIFICATION Spec
CONSTANTS
    Conn = {c1, c2}
    Uid = {u1, u2}
    Change = {m1, m2}
    NoUid = NoUid
    NoChange = NoChange
    Unsent = Unsent
    Absent = Absent
    Garbled = Garbled
    NotLoaded = NotLoaded
SYMMETRY Symmetry
INVARIANTS
    TypeOK
    LoadedWhenHandled
    CacheIsAhead
    ChangesStayInTheirAccount
    RepliedIsDurable
PROPERTIES
    BanFreezesRow
    ImplementsDurableStore
