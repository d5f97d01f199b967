SPECIFICATION FairSpec
CONSTANTS
    Attempts = 6
    Packages <- MCPackages
    Directories <- MCDirectories
    BlockLen = 4
    LengthLen = 1
    ReadLen = 8
    Payload = 4
    Modules = {"normal", "dump", "loader", "edl"}
INVARIANTS FlashesDownloadMode NothingLeftOpen ChecksPackage TruthShown
PROPERTIES Ends
