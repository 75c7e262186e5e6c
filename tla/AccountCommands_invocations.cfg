SPECIFICATION FairSpec
CONSTANTS
    i1 = i1
    i2 = i2
    app = app
    newName = newName
    account = account
    stg = stg
    prod = prod
    key = key
    mate = mate
    other = other
    c1 = c1
    c2 = c2
    Proc = {i1, i2}
    App = app
    NewName = newName
    Account = account
    Staging = stg
    Production = prod
    Deployment = {stg, prod}
    AccessKey = {key}
    Collaborator = {mate}
    Machine = {other}
    Content = {c1, c2}
    Command <- Everything
    InitialReleases <- SomeReleases
    MaxReleases = 3
    NoCommand = NoCommand
INVARIANTS TypeOK DoneInOrder SuccessMeansDone OnlyConfirmedDone WarnedChangedNothing ListsAreComplete
PROPERTIES ChangesOneByOne CommandsEnd
CONSTRAINT MeetOnSharedApp
CHECK_DEADLOCK FALSE
