SPECIFICATION ProgramsSpec
CONSTANTS
    Items <- MCItems
    Heaps = {9, 1000}
    Sizes = {3, 20}
    MaxItems = 3
    MaxMessages = 2
    MaxFailures = 1
    Starts <- MCStarts
    Contents <- MCContents
    Messages <- MCMessages
    Numerals <- MCNumerals
    MaxChanges = 1
    Clients = {"c1", "c2"}
    Replies <- MCReplies
    PortFaults = {"open_read", "open_write"}
    Word = 8
    Second = 3
    LastTime = 1
    Zone = 1
    Times = {2, 7}
    MaxCalls = 2
    Lines <- MCLines
    Numbers <- MCNumbers
    PduDigits = 4
    MaxLines = 3
    MaxNews = 1
    Packet = 2
    Lengths = {1, 2, 3, 4, 5}
    MaxWrites = 3
    Drain = 4
    Tries = 3
    Backlog = 4
    Chatter = 2
    ConfLines <- MCConfLines
    Thresholds <- MCThresholds
    MaxConf = 5
INVARIANTS InBounds  AsConfigured OwnAnswer  Understood OnlyItsThresholds
PROPERTIES Truthful
CHECK_DEADLOCK FALSE
