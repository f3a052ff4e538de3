CONSTANTS
    MaxInt = 2
    MaxList = 4
    Builds <- AllBuilds
    IfLists <- SmallLists
    Failing <- AllCalls
SPECIFICATION TransientSpec
INVARIANTS InterfacesComplete WarnsIfDropped
PROPERTY InitEnds
CHECK_DEADLOCK FALSE
