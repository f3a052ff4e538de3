CONSTANTS
    a = a
    b = b
    c = c
    w1 = w1
    w2 = w2
    NoUuid = NoUuid
    Nodes = {a, b}
    Networks = {w1, w2}
    Uuids = {a, b}
    Ifaces <- DoubleIfaces
    Uuid <- OwnUuid
    SendPeriod = 1
    CounterMod = 1
    QueueCap = 2
    MaxLaunch <- BTwice
    Faults = {"loss", "sendto", "recv", "junk", "reorder", "duplicate"}
SPECIFICATION Spec
INVARIANT IInv
PROPERTY DrainRunsDown
