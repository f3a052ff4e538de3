CONSTANTS
    a = a
    b = b
    c = c
    d = d
    Ids = {a, b, c, d}
    Local = a
    Hosts = {"wire", "little"}
    Incoming <- ShortLists
    TableSize = 3
    PktEntries = 3
SPECIFICATION FairSpec
INVARIANTS NativeAtRest SentInWireOrder NoWildPointer
PROPERTIES HandlerEnds ImplementsGossipList
CHECK_DEADLOCK FALSE
