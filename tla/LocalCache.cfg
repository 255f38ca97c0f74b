CONSTANTS
    Key = {"k1", "k2"}
    Process = {"p1", "p2"}
    Writer <- Writers
    KeyOf <- WriterKey
    ProcessOf <- WriterProcess
    NoEntry = "none"
    Length = 2
    StatFails = {"other"}
SPECIFICATION Spec
INVARIANT TypeOK
INVARIANT WholeEntries
PROPERTY Refinement
CHECK_DEADLOCK FALSE
