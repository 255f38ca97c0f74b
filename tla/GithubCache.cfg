CONSTANTS
    Key = {"k"}
    Process = {"p1", "p2"}
    Writer <- Writers
    KeyOf <- WriterKey
    ProcessOf <- WriterProcess
    NoEntry = "none"
    Length <- WriterLength
    BLOCK_SIZE = 3
    MINIMUM_BLOCK_SIZE = 2
    CONCURRENT_UPLOADS = 2
    MaxCounter = 5
    AzureLimit = 4
SPECIFICATION FairSpec
INVARIANT TypeOK
INVARIANT UploadsBounded
INVARIANT EntryIsWhole
PROPERTY Refinement
PROPERTY WriterEnds
CHECK_DEADLOCK FALSE
