SPECIFICATION MCSpec
CONSTANTS
    CHAR_W = 2
    SHORT_W = 3
    INT_W = 5
    LONG_W = 8
    Calls <- PrintCalls
    BITS = 6
    Directives <- ScanFormats
    Inputs <- ScanInputs
INVARIANTS
    PrintsWhatCSays
    ScansWhatWasTyped
CHECK_DEADLOCK FALSE
