CONSTANTS
    Literals <- Words
    Timeouts = {1}
    ImageNames <- Image
    Destinations <- Words
    Nodes <- AllNodes
    MaxNodes = 4
SPECIFICATION NodesSpec
INVARIANT SnapshotsTrue
