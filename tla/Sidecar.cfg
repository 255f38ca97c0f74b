CONSTANTS
    Request <- Requests
    Wanted <- Topologies
    Users <- Containers
    Subnets = 10
    Faulty = {"wide"}
    Listing <- Paths
    Ignored <- Logs
    Files <- Lengths
    Specials <- Pipes
    PIPE_BUFFER = 1
    SOCKET_BUFFER = 1
    Longest = 2
    Path <- LayerPaths
SPECIFICATION Spec
INVARIANT AddressesUnique
INVARIANT ServicesReachable
INVARIANT DeletedIsGone
INVARIANT CopiedIsSource
INVARIANT ErrorsSurface
INVARIANT ContentsSurvive
PROPERTY EveryCopyEnds
CHECK_DEADLOCK FALSE
