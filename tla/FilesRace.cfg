CONSTANTS
    Request <- Requests
    Wanted <- Topologies
    Users <- Containers
    Subnets = 10
    Faulty = {"wide"}
    Listing <- Paths
    Ignored <- Logs
    Files <- Lengths
    Specials <- Pipes
    PIPE_BUFFER = 1
    SOCKET_BUFFER = 1
    Longest = 2
    Path <- LayerPaths
SPECIFICATION Spec
INVARIANT CommittedIsComplete
