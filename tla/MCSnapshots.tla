---------------------------- MODULE MCSnapshots ----------------------------
(***************************************************************************)
(* An image of two layers and a command run on it with a service whose     *)
(* image is the lower of the two.  A task is a process and the node it     *)
(* executes there.                                                         *)
(***************************************************************************)
EXTENDS Snapshots

CONSTANTS
    Kinds,      \* which nodes there are: the image, "serve"
    Failing,    \* processes whose calls may fail
    Aborting,   \* processes whose tasks may be aborted
    Lockless    \* processes without lock files

LayerParent ==
    [base |-> "none", layer |-> "base", served |-> "layer", service |-> "base"]

KindValue ==
    [image |-> <<"layer">>, serve |-> <<"served", "service">>]

NodeValue == [k \in Kinds |-> KindValue[k]]
Layers == {"base", "layer"} \cup UNION {Members(NodeValue[k]) : k \in Kinds}
ParentOf == [s \in Layers |-> LayerParent[s]]

Tasks == Process \X Kinds
TaskNode == [t \in Tasks |-> t[2]]
TaskProcess == [t \in Tasks |-> t[1]]

(* A process resolves the image before it executes on it.                   *)
TaskInputs == [t \in Tasks |-> IF t[2] # "image" THEN {<<t[1], "image">>} ELSE {}]

TasksOf(P) == {t \in Tasks : t[1] \in P}
FaultyTasks == {t \in TasksOf(Failing) : t[2] # "image"}
AbortableTasks == TasksOf(Aborting)
UnlockableTasks == TasksOf(Lockless)
=============================================================================
