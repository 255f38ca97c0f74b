CONSTANTS
    Literals <- Words
    Timeouts = {1}
    ImageNames <- Image
    Destinations <- Here
    Nodes <- AllNodes
    MaxNodes = 4
SPECIFICATION NodesSpec
INVARIANT TypesAreTrue
INVARIANT SnapshotsTrue
CHECK_DEADLOCK FALSE
