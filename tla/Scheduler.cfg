CONSTANTS
    Fallible = {"f","x"}
    Root = "root"
    Node <- Nodes
    Inputs <- NodeInputs
    PhantomInputs <- NodePhantoms
    Gather <- Gathering
    Task <- Chain
    NodeOf <- ChainNode
    CallerOf <- ChainCaller
    Main <- Run
    NoOne <- Nobody
SPECIFICATION HangingSpec
INVARIANT TypeOK
INVARIANT OneRunner
INVARIANT CleanFinish
INVARIANT WorkOnSuccess
INVARIANT ErrorsAreReal
PROPERTY TasksDrain
PROPERTY Refinement
PROPERTY RunEnds
