SPECIFICATION Spec
CONSTANTS
    p1 = p1
    p2 = p2
    tmp = tmp
    out = out
    Proc = {p1, p2}
    Folder = {tmp, out}
    TempFolder = tmp
    outputFolder <- Shared
    Part = {f1, f2}
    Command = {"releaseReact"}
    NoFile = NoFile
    NoFolder = NoFolder
    Stale = Stale
INVARIANTS ReleasesOwnFiles
CHECK_DEADLOCK FALSE
