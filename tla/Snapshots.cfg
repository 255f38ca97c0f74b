CONSTANTS
    Process = {"p1", "p2"}
    Kinds = {"image", "serve"}
    Failing = {"p1"}
    Aborting = {"p1"}
    Lockless = {"p2"}
    Standalone = {"p1", "p2"}
    NoParent = "none"
    Earlier = "earlier"
    Image = {"image"}
    Snapshot <- Layers
    Parent <- ParentOf
    Node <- Kinds
    Value <- NodeValue
    Task <- Tasks
    NodeOf <- TaskNode
    ProcessOf <- TaskProcess
    After <- TaskInputs
    Unlockable <- UnlockableTasks
    Faulty <- FaultyTasks
    Abortable <- AbortableTasks
SPECIFICATION FairSpec
INVARIANT TypeOK
INVARIANT ParentFirst
INVARIANT ExportedWhenRun
INVARIANT ValuesAreThere
PROPERTY TasksEnd
CHECK_DEADLOCK FALSE
