CONSTANTS
    a = a
    b = b
    c = c
    w1 = w1
    w2 = w2
    NoUuid = NoUuid
    Nodes = {a, b}
    Networks = {w1, w2}
    Uuids = {a, b}
    Ifaces <- DoubleIfaces
    Uuid <- OwnUuid
    SendPeriod = 3
    CounterMod = 4
    QueueCap = 4
    MaxLaunch <- BTwice
    Faults = {}
SPECIFICATION FairSpec
INVARIANT OwnBacklog
PROPERTY Convergence
