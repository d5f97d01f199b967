SPECIFICATION Spec
CONSTANTS
    Attempts = 1
    Packages <- MCPackages
    Directories <- MCDirectories
    BlockLen = 4
    LengthLen = 1
    ReadLen = 8
    Payload = 20
    Modules = {"edl"}
INVARIANTS FailureShown
