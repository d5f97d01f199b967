SPECIFICATION FairSpec
CONSTANTS
    Blocks = 3
    Reads = 2
    Retries = 3
    LogBudget = 2
    FaultSets <- MCFaultSets
INVARIANTS TrueMeansWritten FlagWhileUnsafe
 
