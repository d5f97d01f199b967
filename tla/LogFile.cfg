SPECIFICATION FairSpec
CONSTANTS
    Procs = {"p", "q"}
    ThreadsOf <- MCThreadsOf
    Crews <- MCCrews
    MaxSize = 1
    Inodes = {1, 2, 3, 4}
    FaultSets <- MCFaultSets
INVARIANTS PrintsToLog
PROPERTIES NoOverwrite 
