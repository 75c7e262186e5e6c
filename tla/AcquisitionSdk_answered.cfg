SPECIFICATION FairSpec
CONSTANTS
    package = package
    label = label
    key = key
    Call = {c1, c2}
    CallArgs <- Calls
    Package = {package}
    BadPackage = BadPackage
    Text <- Texts
    Callback = Callback
    Nothing = Nothing
    NoCall = NoCall
    NoReport = NoReport
INVARIANTS TypeOK DeploysAreWellFormed
PROPERTIES AnsweredOnce
CHECK_DEADLOCK FALSE
