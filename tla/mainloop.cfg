CONSTANTS
    Loop = 3
    Wrap = 16
    LongIsWide = TRUE
    WorkTimes = {0, 2, 4}
    Jumps = {1, 13}
    SendPeriod = 15
    CounterMod = 16
SPECIFICATION FairSpec
INVARIANTS SleepBounded NeverLate
PROPERTIES KeepsPace KeepsAnnouncing
