CONSTANTS
    NPaths = 3
    CpuLines <- SmallLines
    MaxLines = 4
    Compats <- SmallCompats
    Macs <- SmallMacs
    NameSize = 3
SPECIFICATION HFairSpec
INVARIANTS FirstUseful NamesTrue
PROPERTIES FindsModel GatherEnds
