CONSTANTS
    Sources <- MCSources
    RootFile = "main"
    EntryPoint = "DEFAULT"
    Canonical <- MCCanonical
SPECIFICATION Spec
INVARIANTS
    CompiledMeansSource
    NeverPanics
    GraphIsShared
    CyclesAreReported
CHECK_DEADLOCK FALSE
