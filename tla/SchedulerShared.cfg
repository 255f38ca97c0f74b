CONSTANTS
    Fallible = {"f"}
    Root = "root"
    Node <- Nodes
    Inputs <- NodeInputs
    PhantomInputs <- NodePhantoms
    Gather <- Gathering
    Task <- Chain
    NodeOf <- ChainNode
    CallerOf <- ChainCaller
    Main <- Run
    NoOne <- Nobody
SPECIFICATION Spec
INVARIANT SingleExecution
