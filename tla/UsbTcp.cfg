SPECIFICATION FairSpec
CONSTANTS
    InBudget = 3
    Writes <- MCWrites
    Reads <- MCReads
    MaxIn = 2
    TcpCap = 2
    FaultSets <- MCFaultSets
INVARIANTS NothingLeftBehind
PROPERTIES  NobodyWaits
