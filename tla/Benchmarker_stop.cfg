SPECIFICATION Spec
CONSTANTS
    NumTests = 2
    Types = {plaintext}
    Modes = {"verify", "benchmark"}
    MaxSignals = 1
INVARIANT StopIsFinal
CHECK_DEADLOCK FALSE
