SPECIFICATION FairSpec
CONSTANTS
    Proc = {p1}
    SessionKey = {s1, s2}
    AccessKey = {a1}
    BogusKey = {b1}
    MaxCalls = 2
    NoLogin = NoLogin
    NoKey = NoKey
    NoFile = NoFile
    EmptyFile = EmptyFile
    GarbledFile = GarbledFile
INVARIANTS SuccessfulLoginIsStored
PROPERTIES NoLoginOverwritten DeletesOwnLogin LiveSessionKeepsLogin ActsAtOnce CommandsEnd
CHECK_DEADLOCK FALSE
