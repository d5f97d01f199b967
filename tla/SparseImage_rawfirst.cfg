SPECIFICATION FairSpec
CONSTANTS
    Files <- MCRawFirst
    SectorWords = 2
    BlockSectors = 2
    Literal8 = 2
    Payload = 6
INVARIANTS PlacedWhereTold
PROPERTIES Succeeds
