SPECIFICATION Spec
CONSTANTS
    Conn = {c1, c2}
    Uid = {u1}
    Change = {m1, m2, m3}
    NoUid = NoUid
    NoChange = NoChange
    Unsent = Unsent
    Absent = Absent
    Garbled = Garbled
    NotLoaded = NotLoaded
PROPERTIES
    CacheNeverRegresses
    RequestFinishes
