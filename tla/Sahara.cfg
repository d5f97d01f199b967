SPECIFICATION FairSpec
CONSTANTS
    FileLen = 3
    Buf = 2
    Ranges <- MCRanges
    MaxReads = 2
    MaxRestarts = 2
    FaultSets <- MCFaultSets
INVARIANTS StartsExactImage DoneMeansStarted DataOnDemand
PROPERTIES Concludes
