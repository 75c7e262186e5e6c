SPECIFICATION FairSpec
CONSTANTS
    p1 = p1
    p2 = p2
    tmp = tmp
    out = out
    Proc = {p1, p2}
    Folder = {tmp, out}
    TempFolder = tmp
    outputFolder <- Distinct
    Part = {f1, f2}
    Command = {"release", "releaseCordova", "releaseReact"}
    NoFile = NoFile
    NoFolder = NoFolder
    Stale = Stale
INVARIANTS TypeOK ReleasesOwnFiles ReleasesWholeOrNothing ZipDeleted OutputDirKept
PROPERTIES ReleasesAtOnce CommandsEnd
CHECK_DEADLOCK FALSE
