SPECIFICATION FairSearchSpec
CONSTANTS
    Attempts = 6
    Delay = 3
    Neighbours = {"none", "app", "edl", "asr", "foreign"}
    BusFaultSets = {{}, {"busy", "deaf"}, {"gone"}, {"switch"}}
INVARIANT RightModule
PROPERTY Succeeds
