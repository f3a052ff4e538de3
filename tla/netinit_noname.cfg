CONSTANTS
    MaxInt = 2
    MaxList = 4
    Builds <- AllBuilds
    IfLists <- SmallLists
    Failing = {"getnameinfo"}
SPECIFICATION FairSpec
PROPERTY InitEnds
CHECK_DEADLOCK FALSE
