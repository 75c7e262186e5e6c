SPECIFICATION FairSpec
CONSTANTS
    c1 = c1
    c2 = c2
    Name <- Names
    Content = {c1, c2}
    Trees <- SmallTrees
    Zips <- OtherZips
INVARIANTS TypeOK ManifestIsWhole SameHash
PROPERTIES SettledOnce ClosedInTheEnd
CHECK_DEADLOCK FALSE
