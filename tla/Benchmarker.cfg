SPECIFICATION FairSpec
CONSTANTS
    NumTests = 2
    Types = {plaintext}
    Modes = {"verify", "benchmark", "debug"}
    MaxSignals = 1
INVARIANTS
    ServicesStopped
    CodeMeansVerified
    AllRecorded
PROPERTY EventuallyDone
CHECK_DEADLOCK FALSE
