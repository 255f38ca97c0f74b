CONSTANTS
    Exec <- Execs
    Container <- Containers
    ExecOf <- Owner
    User <- Users
    NoContainer = "none"
    Shape <- Shapes
    Jobs = 1
    Tries = 2
    Faulty = {"e1"}
    Abortable = {"e2"}
SPECIFICATION FairSpec
INVARIANT TypeOK
INVARIANT NetworkExclusive
INVARIANT ServicesOutlive
INVARIANT DoneIsClean
INVARIANT ShutdownIsClean
PROPERTY ShutdownReached
