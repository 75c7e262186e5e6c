SPECIFICATION Spec
CONSTANTS
    Proc = {p1, p2}
    SessionKey = {s1}
    AccessKey = {a1}
    BogusKey = {b1}
    MaxCalls = 1
    NoLogin = NoLogin
    NoKey = NoKey
    NoFile = NoFile
    EmptyFile = EmptyFile
    GarbledFile = GarbledFile
PROPERTIES UnauthorizedDeletesRejected
CHECK_DEADLOCK FALSE
