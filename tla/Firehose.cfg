SPECIFICATION FairSpec
CONSTANTS
    Last = 2
    Tokens <- MCTokens
    Packages <- MCPackages
    FileSize <- MCFileSize
    Tables <- MCTables
    RxCap = 2
    QCap = 2
    LogBudget = 2
    FaultSets <- MCFaultSets
INVARIANTS SblGuard  AnswerMatches CompleteWhenReset AsListed
PROPERTIES Concludes Implements
