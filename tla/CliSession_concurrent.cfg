SPECIFICATION Spec
CONSTANTS
    Proc = {p1, p2}
    SessionKey = {s1, s2}
    AccessKey = {a1}
    BogusKey = {b1}
    MaxCalls = 2
    NoLogin = NoLogin
    NoKey = NoKey
    NoFile = NoFile
    EmptyFile = EmptyFile
    GarbledFile = GarbledFile
SYMMETRY Symmetry
INVARIANTS TypeOK StoredKeyWasAccepted LogoutEndsSession
CHECK_DEADLOCK FALSE
