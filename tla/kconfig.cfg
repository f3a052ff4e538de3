CONSTANTS
    SymType <- MCSymType
    Arch = "x86"
    Files <- MCFiles
    Later <- MCLater
    HashOrder <- MCHashOrder
    MaxNumber = 9
    Modes <- MCModes
    Typed = {"5"}
    Edits <- MCEdits
    MaxRuns = 2
    Menued = {"menus"}
    Buildable = {"small", "grown"}
    Objects = {"net", "snd"}
    Sources <- MCSources
    FlagSym = "NINTENDO_PPC_COMMON"
    MaxStops = 1
SPECIFICATION BFairSpec
INVARIANTS CacheTrue SettledIsStable OneOfEachChoice DependenciesHold UpToDate LoadForgets
PROPERTIES ImplementsMake Ends
