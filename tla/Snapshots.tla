----------------------------- MODULE Snapshots -----------------------------
(***************************************************************************)
(* Cached execution of nodes whose values name containerd snapshots:       *)
(* execute_raw (engine/nodes.rs) over the health check, import, export and *)
(* pull of snapshots (engine/containerd/layers.rs) and the commit of an    *)
(* exec (engine/containerd/exec.rs).                                       *)
(*                                                                         *)
(* Tasks of several processes share containerd's snapshots, the cache      *)
(* backend and the advisory file locks; a process keeps to itself which    *)
(* keys it tried to write.  Checking a snapshot may import it from the     *)
(* cache, and for that its parent is checked first, with the locks of the  *)
(* snapshots above it held.                                                *)
(***************************************************************************)
EXTENDS Naturals, Sequences

CONSTANTS
    Snapshot,   \* snapshot names
    Parent,     \* the snapshot a snapshot is a layer on, NoParent for none
    NoParent,
    Node,       \* cached nodes of the graph
    Value,      \* the snapshots a node's value names, its own first, then its services'
    Image,      \* nodes that pull an image, the others execute a command
    Task,       \* executions of nodes
    NodeOf,     \* the node a task executes
    ProcessOf,  \* the process the task runs in
    After,      \* the tasks whose values are the inputs of a task
    Process,
    Earlier,    \* stands for the processes of earlier runs
    Standalone, \* processes running with --standalone-cache
    Unlockable, \* tasks that cannot get at the lock files
    Faulty,     \* tasks that meet failing calls of containerd, registry or sidecar
    Abortable   \* tasks that may be aborted

(* The layers of an image, or below an exec's result, from the bottom up.   *)
Line[s \in Snapshot] ==
    IF Parent[s] = NoParent THEN <<s>> ELSE Append(Line[Parent[s]], s)

Members(q) == {q[i] : i \in DOMAIN q}

Pulled == UNION {Members(Line[Value[n][1]]) : n \in Image}

ASSUME SnapshotsAssumption ==
    /\ Parent \in [Snapshot -> Snapshot \cup {NoParent}]
    /\ NoParent \notin Snapshot
    /\ Value \in [Node -> Seq(Snapshot)]
    /\ \A n \in Node : Value[n] # <<>>
    /\ Image \subseteq Node /\ \A n \in Image : Len(Value[n]) = 1
    /\ NodeOf \in [Task -> Node]
    /\ ProcessOf \in [Task -> Process]
    /\ After \in [Task -> SUBSET Task]
    /\ Standalone \subseteq Process
    /\ Unlockable \subseteq Task /\ Faulty \subseteq Task /\ Abortable \subseteq Task
    /\ Snapshot \cap Node = {} /\ Earlier \notin Process

Closed(S) == \A s \in S : Parent[s] \in S \cup {NoParent}

(* A snapshot is a layer on one that was there before, so that no set of    *)
(* snapshots holds all of its parents.                                      *)
ASSUME ParentsAssumption ==
    \A S \in (SUBSET Snapshot) \ {{}} : \E s \in S : Parent[s] \notin S

VARIABLES
    snapshots, \* the snapshots committed in containerd
    archive,   \* the snapshot entries of the cache backend
    data,      \* the nodes whose value is in the cache backend
    attempted, \* keys each process already got or was refused a writer for
    broken,    \* history: the entries whose writing broke off, by whose process
    phase,     \* what a task is at
    step,      \* where it stands in that
    stack,     \* health check: the snapshots being ensured, innermost last;
               \* export: the layers of the current snapshot still to write
    todo       \* snapshots of the value, or layers, still to be dealt with

vars == <<snapshots, archive, data, attempted, broken, phase, step, stack, todo>>
stores == <<snapshots, archive, data, attempted, broken>>

Final == {"cached", "ran", "failed", "aborted"}
Phase == {"idle", "check", "pull", "exec", "export", "store"} \cup Final
Step == {"none", "manifest", "lock", "stat", "read", "apply", "commit", "yes", "no",
         "key", "writing"}

(* Whatever earlier runs, here or on another machine, have left behind.     *)
Init ==
    /\ snapshots \in {S \in SUBSET Snapshot : Closed(S)}
    /\ archive \in [Snapshot -> {"none", "whole", "torn"}]
    /\ \A s \in Pulled : archive[s] # "torn"
    /\ data \in SUBSET Node
    /\ attempted = [p \in Process |-> {}]
    /\ broken = [p \in Process \cup {Earlier} |->
                   {s \in Snapshot : p = Earlier /\ archive[s] = "torn"}]
    /\ phase = [t \in Task |-> "idle"]
    /\ step = [t \in Task |-> "none"]
    /\ stack = [t \in Task |-> <<>>]
    /\ todo = [t \in Task |-> <<>>]

Top(t) == stack[t][Len(stack[t])]
Below(t) == SubSeq(stack[t], 1, Len(stack[t]) - 1)

(* The task moves on: its phase, its step, its stack and what is left.      *)
Go(t, p, s, k, d) ==
    /\ phase' = [phase EXCEPT ![t] = p]
    /\ step' = [step EXCEPT ![t] = s]
    /\ stack' = [stack EXCEPT ![t] = k]
    /\ todo' = [todo EXCEPT ![t] = d]

Stepping(t, s) == Go(t, phase[t], s, stack[t], todo[t])

(* The health check was negative, or there was nothing to check.            *)
Reversed(q) == [i \in DOMAIN q |-> q[Len(q) + 1 - i]]
Execute(t) ==
    LET n == NodeOf[t] IN
    IF n \in Image THEN Go(t, "pull", "manifest", <<>>, Line[Value[n][1]])
                   ELSE Go(t, "exec", "commit", <<>>, Reversed(Value[n]))

Export(t) ==
    IF ProcessOf[t] \in Standalone THEN Go(t, "export", "none", <<>>, Value[NodeOf[t]])
                                   ELSE Go(t, "store", "key", <<>>, <<>>)

-----------------------------------------------------------------------------
(* execute_raw: the inputs are there and the cache is asked.                *)

CacheMiss(t) ==
    /\ phase[t] = "idle"
    /\ \A u \in After[t] : phase[u] \in {"cached", "ran"}
    /\ NodeOf[t] \notin data
    /\ Execute(t)
    /\ UNCHANGED stores

CacheHit(t) ==
    /\ phase[t] = "idle"
    /\ \A u \in After[t] : phase[u] \in {"cached", "ran"}
    /\ NodeOf[t] \in data
    /\ Go(t, "check", "none", <<>>, Value[NodeOf[t]])
    /\ UNCHANGED stores

(* Mutant: the services are left out.                                       *)
CheckOwnOnly(t) ==
    /\ phase[t] = "check" /\ step[t] = "none" /\ todo[t] # <<>>
    /\ Go(t, "check", "lock", <<Head(todo[t])>>, <<>>)
    /\ UNCHANGED stores

(* healthcheck_value: the snapshot, then those of the services, one after   *)
(* the other.                                                               *)
CheckNext(t) ==
    /\ phase[t] = "check" /\ step[t] = "none" /\ todo[t] # <<>>
    /\ Go(t, "check", "lock", <<Head(todo[t])>>, Tail(todo[t]))
    /\ UNCHANGED stores

Healthy(t) ==
    /\ phase[t] = "check" /\ step[t] = "none" /\ todo[t] = <<>>
    /\ Go(t, "cached", "none", <<>>, <<>>)
    /\ UNCHANGED stores

-----------------------------------------------------------------------------
(* ensure_snapshot and import_snapshot.                                     *)

(* Mutant: the names of two locks clash.                                    *)
LockFileClash(s) == "import"

(* The name of the lock file of "import/{snapshot}".                        *)
LockFile(s) == s

Holds(t, file) ==
    /\ phase[t] = "check" /\ t \notin Unlockable
    /\ \E i \in DOMAIN stack[t] :
          LockFile(stack[t][i]) = file /\ (i < Len(stack[t]) \/ step[t] # "lock")

(* acquire_file_lock; without the lock file the check goes on unlocked.     *)
ImportLock(t) ==
    /\ phase[t] = "check" /\ step[t] = "lock"
    /\ t \in Unlockable \/ \A u \in Task : ~Holds(u, LockFile(Top(t)))
    /\ Stepping(t, "stat")
    /\ UNCHANGED stores

StatFound(t) ==
    /\ phase[t] = "check" /\ step[t] = "stat"
    /\ Top(t) \in snapshots
    /\ Stepping(t, "yes")
    /\ UNCHANGED stores

(* A failing stat reads as "does not exist".                                *)
StatMissing(t) ==
    /\ phase[t] = "check" /\ step[t] = "stat"
    /\ t \in Faulty \/ Top(t) \notin snapshots
    /\ Stepping(t, "read")
    /\ UNCHANGED stores

ReadMissing(t) ==
    /\ phase[t] = "check" /\ step[t] = "read"
    /\ archive[Top(t)] = "none"
    /\ Stepping(t, "no")
    /\ UNCHANGED stores

(* Mutant: the layer is applied without its parent being looked for.        *)
ReadEntryOnly(t) ==
    /\ phase[t] = "check" /\ step[t] = "read"
    /\ archive[Top(t)] # "none"
    /\ Stepping(t, "apply")
    /\ UNCHANGED stores

(* Mutant: a header without a parent is not told from one with a parent.    *)
ReadEntryRootless(t) ==
    /\ phase[t] = "check" /\ step[t] = "read"
    /\ archive[Top(t)] # "none"
    /\ Go(t, "check", "lock", Append(stack[t], Parent[Top(t)]), todo[t])
    /\ UNCHANGED stores

(* The header names the parent, which is ensured first.                     *)
ReadEntry(t) ==
    LET parent == Parent[Top(t)] IN
    /\ phase[t] = "check" /\ step[t] = "read"
    /\ archive[Top(t)] # "none"
    /\ IF parent = NoParent
         THEN Stepping(t, "apply")
         ELSE Go(t, "check", "lock", Append(stack[t], parent), todo[t])
    /\ UNCHANGED stores

(* The layer, fetched or read from the entry, is applied to a copy of the   *)
(* parent.                                                                  *)
Apply(t) ==
    /\ phase[t] = "check" /\ step[t] = "apply"
    /\ Parent[Top(t)] \in snapshots \cup {NoParent}
    /\ archive[Top(t)] # "torn"
    /\ Stepping(t, "commit")
    /\ UNCHANGED stores

(* The copy becomes the snapshot.                                           *)
ImportCommit(t) ==
    /\ phase[t] = "check" /\ step[t] = "commit"
    /\ Top(t) \in Pulled \/ Top(t) \notin snapshots
    /\ snapshots' = snapshots \cup {Top(t)}
    /\ Stepping(t, "yes")
    /\ UNCHANGED <<archive, data, attempted, broken>>

(* An exec or an unlocked import was first: a pulled layer's commit takes   *)
(* "already exists" for success, that of a local entry's does not.          *)
ImportRaced(t) ==
    /\ phase[t] = "check" /\ step[t] = "commit"
    /\ Top(t) \notin Pulled /\ Top(t) \in snapshots
    /\ Stepping(t, "no")
    /\ UNCHANGED stores

(* An incomplete layer, a missing parent or a failing call.                 *)
ImportFails(t) ==
    /\ phase[t] = "check"
    /\ \/ step[t] \in {"read", "apply", "commit"} /\ t \in Faulty
       \/ step[t] = "apply" /\ archive[Top(t)] = "torn"
       \/ step[t] = "apply" /\ Parent[Top(t)] \notin snapshots \cup {NoParent}
    /\ Stepping(t, "no")
    /\ UNCHANGED stores

(* Mutant: what was found of the snapshot itself is not looked at.          *)
EnsuredAnyhow(t) ==
    /\ phase[t] = "check" /\ step[t] \in {"yes", "no"}
    /\ IF Len(stack[t]) > 1
         THEN Go(t, "check", IF step[t] = "yes" THEN "apply" ELSE "no", Below(t), todo[t])
         ELSE Go(t, "check", "none", <<>>, todo[t])
    /\ UNCHANGED stores

(* ensure_snapshot returns and drops its lock: to the import of the         *)
(* snapshot above, or to the health check.                                  *)
Ensured(t) ==
    /\ phase[t] = "check" /\ step[t] \in {"yes", "no"}
    /\ IF Len(stack[t]) > 1
         THEN Go(t, "check", IF step[t] = "yes" THEN "apply" ELSE "no", Below(t), todo[t])
         ELSE IF step[t] = "yes" THEN Go(t, "check", "none", <<>>, todo[t]) ELSE Execute(t)
    /\ UNCHANGED stores

-----------------------------------------------------------------------------
(* fetch_image and pull_all_snapshots_from_image: one lock on the image's   *)
(* manifest for the whole pull, one on each layer in turn.                  *)

PullsImage(t, n) == phase[t] = "pull" /\ step[t] # "manifest" /\ NodeOf[t] = n
PullsLayer(t, s) ==
    phase[t] = "pull" /\ step[t] \in {"stat", "commit"} /\ Head(todo[t]) = s

ManifestLock(t) ==
    /\ phase[t] = "pull" /\ step[t] = "manifest"
    /\ \A u \in Task : ~PullsImage(u, NodeOf[t])
    /\ Stepping(t, "lock")
    /\ UNCHANGED stores

LayerLock(t) ==
    /\ phase[t] = "pull" /\ step[t] = "lock" /\ todo[t] # <<>>
    /\ \A u \in Task : ~PullsLayer(u, Head(todo[t]))
    /\ Stepping(t, "stat")
    /\ UNCHANGED stores

LayerExists(t) ==
    /\ phase[t] = "pull" /\ step[t] = "stat"
    /\ Head(todo[t]) \in snapshots
    /\ Go(t, "pull", "lock", <<>>, Tail(todo[t]))
    /\ UNCHANGED stores

LayerMissing(t) ==
    /\ phase[t] = "pull" /\ step[t] = "stat"
    /\ t \in Faulty \/ Head(todo[t]) \notin snapshots
    /\ Stepping(t, "commit")
    /\ UNCHANGED stores

(* pull_layer: "already exists" is success.                                 *)
PullLayer(t) ==
    /\ phase[t] = "pull" /\ step[t] = "commit"
    /\ Parent[Head(todo[t])] \in snapshots \cup {NoParent}
    /\ snapshots' = snapshots \cup {Head(todo[t])}
    /\ Go(t, "pull", "lock", <<>>, Tail(todo[t]))
    /\ UNCHANGED <<archive, data, attempted, broken>>

PulledImage(t) ==
    /\ phase[t] = "pull" /\ step[t] = "lock" /\ todo[t] = <<>>
    /\ Export(t)
    /\ UNCHANGED stores

-----------------------------------------------------------------------------
(* spindown_topology: the snapshots of the services, then the command's     *)
(* own.  What it was prepared from is what its inputs named.                *)

ExecCommit(t) ==
    /\ phase[t] = "exec" /\ todo[t] # <<>>
    /\ Parent[Head(todo[t])] \in snapshots \cup {NoParent}
    /\ snapshots' = snapshots \cup {Head(todo[t])}
    /\ Go(t, "exec", "commit", <<>>, Tail(todo[t]))
    /\ UNCHANGED <<archive, data, attempted, broken>>

Executed(t) ==
    /\ phase[t] = "exec" /\ todo[t] = <<>>
    /\ Export(t)
    /\ UNCHANGED stores

(* A pull or a command fails: so does the node.                             *)
ExecutionFails(t) ==
    /\ t \in Faulty
    /\ phase[t] \in {"pull", "exec"}
    /\ Go(t, "failed", "none", <<>>, <<>>)
    /\ UNCHANGED stores

-----------------------------------------------------------------------------
(* export_snapshots_from and export_snapshot: the parents first.            *)

(* Mutant: the layer alone is exported.                                     *)
ExportLayerOnly(t) ==
    /\ phase[t] = "export" /\ stack[t] = <<>> /\ todo[t] # <<>>
    /\ Go(t, "export", "key", <<Head(todo[t])>>, Tail(todo[t]))
    /\ UNCHANGED stores

ExportNext(t) ==
    /\ phase[t] = "export" /\ stack[t] = <<>> /\ todo[t] # <<>>
    /\ Go(t, "export", "key", Line[Head(todo[t])], Tail(todo[t]))
    /\ UNCHANGED stores

Exported(t) ==
    /\ phase[t] = "export" /\ stack[t] = <<>> /\ todo[t] = <<>>
    /\ Go(t, "store", "key", <<>>, <<>>)
    /\ UNCHANGED stores

Attempt(t, key) ==
    attempted' = [attempted EXCEPT ![ProcessOf[t]] = @ \cup {key}]

BreaksOff(t, keys) ==
    broken' = [broken EXCEPT ![ProcessOf[t]] = @ \cup keys]

(* write_key has no writer for us: the entry exists, or another task of the *)
(* process asked for it before.                                             *)
ExportSkips(t) ==
    /\ phase[t] = "export" /\ stack[t] # <<>> /\ step[t] = "key"
    /\ \/ archive[Head(stack[t])] # "none"
       \/ Head(stack[t]) \in attempted[ProcessOf[t]]
    /\ Attempt(t, Head(stack[t]))
    /\ Go(t, "export", "key", Tail(stack[t]), todo[t])
    /\ UNCHANGED <<snapshots, archive, data, broken>>

ExportStarts(t) ==
    /\ phase[t] = "export" /\ stack[t] # <<>> /\ step[t] = "key"
    /\ archive[Head(stack[t])] = "none"
    /\ Head(stack[t]) \notin attempted[ProcessOf[t]]
    /\ Attempt(t, Head(stack[t]))
    /\ Stepping(t, "writing")
    /\ UNCHANGED <<snapshots, archive, data, broken>>

(* A pulled layer is written as a reference, any other as a tar stream,     *)
(* which looks complete wherever the sidecar's connection ends.             *)
ExportWrites(t) ==
    LET s == Head(stack[t]) IN
    /\ phase[t] = "export" /\ stack[t] # <<>> /\ step[t] = "writing"
    /\ \/ archive' = [archive EXCEPT ![s] = "whole"] /\ UNCHANGED broken
       \/ /\ t \in Faulty /\ s \notin Pulled
          /\ archive' = [archive EXCEPT ![s] = "torn"]
          /\ BreaksOff(t, {s})
    /\ Go(t, "export", "key", Tail(stack[t]), todo[t])
    /\ UNCHANGED <<snapshots, data, attempted>>

(* An error is logged and ends the export of this snapshot: what is left of *)
(* its line is not written.                                                 *)
ExportFails(t) ==
    /\ phase[t] = "export" /\ stack[t] # <<>> /\ t \in Faulty
    /\ BreaksOff(t, Members(stack[t]))
    /\ Go(t, "export", "none", <<>>, todo[t])
    /\ UNCHANGED <<snapshots, archive, data, attempted>>

(* execute_raw: the value itself is written, if a writer can be had and the *)
(* write succeeds.                                                          *)
Store(t) ==
    LET n == NodeOf[t] IN
    /\ phase[t] = "store"
    /\ Attempt(t, n)
    /\ \/ n \notin attempted[ProcessOf[t]] /\ data' = data \cup {n} /\ UNCHANGED broken
       \/ n \in attempted[ProcessOf[t]] /\ UNCHANGED <<data, broken>>
       \/ t \in Faulty /\ BreaksOff(t, {n}) /\ UNCHANGED data
    /\ Go(t, "ran", "none", <<>>, <<>>)
    /\ UNCHANGED <<snapshots, archive>>

WrittenBy(t, s) == phase[t] = "export" /\ step[t] = "writing" /\ Head(stack[t]) = s

(* The scheduler aborts the task, or its process dies: locks and writers    *)
(* are dropped, attempted keys stay.                                        *)
Abort(t) ==
    /\ t \in Abortable
    /\ phase[t] \notin Final \cup {"idle"}
    /\ BreaksOff(t, {s \in Snapshot : WrittenBy(t, s)})
    /\ Go(t, "aborted", "none", <<>>, <<>>)
    /\ UNCHANGED <<snapshots, archive, data, attempted>>

-----------------------------------------------------------------------------
CheckStep(t) ==
    \/ CheckNext(t) \/ Healthy(t) \/ ImportLock(t) \/ StatFound(t) \/ StatMissing(t)
    \/ ReadMissing(t) \/ ReadEntry(t) \/ Apply(t) \/ ImportCommit(t) \/ ImportRaced(t)
    \/ ImportFails(t) \/ Ensured(t)

ExecuteStep(t) ==
    \/ ManifestLock(t) \/ LayerLock(t) \/ LayerExists(t) \/ LayerMissing(t)
    \/ PullLayer(t) \/ PulledImage(t) \/ ExecCommit(t) \/ Executed(t)

ExportStep(t) ==
    \/ ExportNext(t) \/ Exported(t) \/ ExportSkips(t) \/ ExportStarts(t)
    \/ ExportWrites(t) \/ Store(t)

Progress(t) ==
    CacheMiss(t) \/ CacheHit(t) \/ CheckStep(t) \/ ExecuteStep(t) \/ ExportStep(t)

(* All tasks are over, or wait for one that has no value for them.          *)
Over == \A t \in Task :
    \/ phase[t] \in Final
    \/ phase[t] = "idle" /\ \E u \in After[t] : phase[u] \notin {"cached", "ran"}

Next ==
    \/ \E t \in Task :
          Progress(t) \/ ExecutionFails(t) \/ ExportFails(t) \/ Abort(t)
    \/ Over /\ UNCHANGED vars

Spec == Init /\ [][Next]_vars

(* Calls are answered, locks that are free are taken, commands end.         *)
FairSpec == Spec /\ \A t \in Task : WF_vars(Progress(t))

-----------------------------------------------------------------------------
TypeOK ==
    /\ snapshots \subseteq Snapshot
    /\ archive \in [Snapshot -> {"none", "whole", "torn"}]
    /\ data \subseteq Node
    /\ attempted \in [Process -> SUBSET (Snapshot \cup Node)]
    /\ broken \in [Process \cup {Earlier} -> SUBSET (Snapshot \cup Node)]
    /\ phase \in [Task -> Phase]
    /\ step \in [Task -> Step]
    /\ stack \in [Task -> Seq(Snapshot)]
    /\ todo \in [Task -> Seq(Snapshot)]

(* A value that is handed out, from the cache or after an execution, names  *)
(* snapshots that exist with everything below them (execute_raw: "a value   *)
(* naming containerd state that has since been dropped falls through to a   *)
(* real execution instead of being trusted").                               *)
ValuesAreThere ==
    \A t \in Task : phase[t] \in {"cached", "ran"} =>
        \A s \in Members(Value[NodeOf[t]]) : Members(Line[s]) \subseteq snapshots

(* A layer is never applied to nothing: whenever an import or a pull comes  *)
(* to it, its parent is in containerd.                                      *)
ParentFirst ==
    \A t \in Task :
        /\ phase[t] = "check" /\ step[t] \in {"apply", "commit"} =>
              Parent[Top(t)] \in snapshots \cup {NoParent}
        /\ phase[t] = "pull" /\ step[t] = "commit" =>
              Parent[Head(todo[t])] \in snapshots \cup {NoParent}

(* The nested locks of imports, pulls and manifests never leave everybody   *)
(* waiting: every task that can start ends.                                 *)
TasksEnd == <>Over

(* What a standalone process executed is in the cache with all its layers,  *)
(* and what is missing is accounted for, whatever befalls the other tasks   *)
(* and processes: a value or a layer that is not there is one this process  *)
(* itself failed to write or was aborted at, or one that another task of it *)
(* is still writing; and an entry that is cut off is one that a failing     *)
(* writer of some other process left, which write_key takes for done        *)
(* (ExportSkips) and nobody repairs.                                        *)
Accounted(p, a) ==
    \/ archive[a] = "whole" \/ a \in broken[p]
    \/ \E u \in Task : ProcessOf[u] = p /\ WrittenBy(u, a)
    \/ archive[a] = "torn" /\ \E q \in (Process \cup {Earlier}) \ {p} : a \in broken[q]
ExportedWhenRun ==
    \A t \in Task : phase[t] = "ran" /\ ProcessOf[t] \in Standalone =>
        /\ NodeOf[t] \in data \cup broken[ProcessOf[t]]
        /\ \A s \in Members(Value[NodeOf[t]]) : \A a \in Members(Line[s]) :
              Accounted(ProcessOf[t], a)
=============================================================================
