CONSTANTS
    Sources <- MCSources
    RootFile = "main"
    EntryPoint = "DEFAULT"
    Canonical <- MCCanonical
SPECIFICATION Spec
INVARIANT PhantomsGateTheCall
CHECK_DEADLOCK FALSE
