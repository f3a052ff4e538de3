CONSTANTS
    a = a
    b = b
    c = c
    w1 = w1
    w2 = w2
    NoUuid = NoUuid
    Nodes = {a, b, c}
    Networks = {w1, w2}
    Uuids = {a, b, c}
    Ifaces <- LineIfaces
    Uuid <- OwnUuid
    SendPeriod = 1
    CounterMod = 1
    QueueCap = 1
    MaxLaunch <- Once
    Faults = {}
SPECIFICATION FairHSpec
INVARIANTS NoDuplicates OnlyRealNodes CreditIsTrue
PROPERTIES ImplementsDirectory Convergence
