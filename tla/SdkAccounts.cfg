SPECIFICATION Spec
CONSTANTS
    Client = {c1, c2}
    Name = {n1, n2}
    Nick = {k1}
    UserName = UserName
    MaxFail = 2
INVARIANTS
    ToldUidIsKept
    NicknameIsKept
    NewnessEnds
PROPERTIES
    LoginSucceeds
