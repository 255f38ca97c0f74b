# Verification of Serpentine

TLA+ models of Serpentine: its language from tokens to the node graph, the
scheduler that evaluates the graph, what the nodes make of their inputs, the two
caches, the snapshots that containerd and the cache share, the execution of
containers, and the sidecar with its networks, files and layers. TLC checks them
on small instances; TLAPS proves the main results for every instance of the
scheduler, the nodes, both caches, the snapshots, the execution, the networks, the
copying of files and the export of layers. Paths below are relative to
`src/serpentine/src/` unless they say otherwise.

- [1 The system](#1-the-system): inventory, interaction, what is hard
- [2 The modules](#2-the-modules): state and actions against the code
- [3 The runs](#3-the-runs): what each asks, its bounds, fairness
- [4 The proofs](#4-the-proofs): inductive invariants and arguments
- [5 What was found](#5-what-was-found)
- [6 Limits and plan](#6-limits-and-plan)

`tlc -config X.cfg M` checks a run, `tlapm M.tla` the proofs. `PROJECT.json`
has the runs, the lines each definition stands for, a broken variant of the
code for every property (the definitions commented *Mutant* in the modules), and
the hazards the properties are aimed at.

## 1 The system

Serpentine compiles a program in its language, *snek*, to a graph of nodes and
evaluates it lazily. Most nodes work on container states: pull an image, run a
command, copy files. Work is done by a containerd that lives in a docker
container which all Serpentine processes of a host share, together with a
*sidecar* in the same container that makes network namespaces and moves data.
Values of nodes are cached by a hash of their inputs.

| Component | Code | State it keeps | Operations | Hard because |
|---|---|---|---|---|
| Snek | `snek/` | module cache, scopes, node cache | tokenize, parse, resolve, compile | cycles against diamonds, sharing, phantom inputs, literals used far from where they were resolved |
| Scheduler | `engine/scheduler.rs`, `run` in `engine/mod.rs` | a `OnceCell` per node, a task per execution | `get_output`, `resolve_all`, `execute_node`, reclaim and shutdown | many callers of one node, callers dropped at any await, aborts that take effect later, Ctrl-C |
| Nodes | `engine/nodes.rs` | none | `execute_raw`: hash, look up, execute, export, store; `All`; each node's own function | values trusted that are stale, errors of shared inputs, types computed twice |
| Data model | `engine/data_model.rs` | interned values, the graph | `healthcheck`, `export` of values | names of things in another system |
| Cache core | `engine/cache/mod.rs` | none | `read_key`, `write_key`, hashing | a contract shared by back ends; what goes into a hash |
| Local back end | `engine/cache/filesystem_backend.rs` | keys tried by this process; files | the same | processes share the directory, detached renames, death |
| GitHub back end | `engine/cache/github_backend.rs` | buffer, uploads in flight, stage of the shutdown | the same over HTTP | bounded concurrency, wakers, retries, two commits |
| Layers | `engine/containerd/layers.rs` | containerd's snapshots, contents | pull, ensure, import, export | races on names, nested locks, parents |
| Exec | `engine/containerd/exec.rs` | semaphore, pool of networks, running containers | `exec_internal`, spin-up, spin-down | failures half-way, aborts, timeouts |
| Client | `engine/containerd/mod.rs` | the list of dangling resources | leases, `shutdown` | the only one to clean up |
| Files | `engine/containerd/files.rs`, `engine/filesystem.rs`, `src/serpentine_internal/src/lib.rs` | a pipe and its producer | streams between host and containers | files that change meanwhile, a reader that runs its writer, a commit that does not wait |
| Container configuration | `engine/containerd/container_config.rs`, `engine/userdb.rs` | none | services as a tree, users | - |
| Docker | `engine/docker.rs` | the shared container and volume | create, start, find the port | several processes at once |
| Sidecar | `src/sidecar/src/main.rs`, `engine/sidecar_client.rs` | namespaces, a counter of subnets | networks, FIFOs, layers, files | outlives its clients, partial failure, wrap |
| Topologies | `src/serpentine_internal/src/network.rs` | none | order of siblings, `zip`, iteration | pairs trees by position |
| Reporters, CLI | `events.rs`, `tui.rs`, `plain.rs`, `github_reporter.rs`, `main.rs` | display | one-way output | - |

How they interact. `main` compiles the program and hands the graph to the
scheduler, which calls a node's `execute_raw` in a task; that asks the cache for
the value, asks the data model whether the value is still there, which asks the
layers to *ensure* its snapshots (importing them from the cache if need be), and
otherwise executes, which for a command goes through exec, the client, the
sidecar and containerd, and for files through the streams and the sidecar.
Dropping a caller is how everything is cancelled: it aborts tasks, and every
future below is dropped at its await. Processes meet in containerd (names of
snapshots), in lock files under the temporary directory, in the sidecar and in
the cache.

What makes each part correct:

- *Snek*: what compiles is the graph the text means; one node per distinct call;
  cycles are errors and diamonds are not; no input panics.
- *Scheduler*: a node's outcome is decided once, after and according to its
  inputs; at most one execution of a node is meant to go on; phantom inputs
  come first; errors are those of nodes that failed; no task is left behind.
- *Nodes*: data has the type the compiler computed; a snapshot holds what the
  chain of nodes asked for.
- *Cache*: entries are whole, stay, and are written once per process. On GitHub:
  blocks are committed in order and all, never over the cap.
- *Layers*: values that are handed out exist with everything below; a layer is
  applied on its parent only; a standalone run exports what it executed; locks
  never leave everybody waiting; a layer makes the tree its container saw.
- *Exec*: a network is used by one exec at a time; services live as long as
  what uses them; permits and networks come back; the shutdown leaves nothing.
- *Files*: what arrives is what the source held; errors come through; nobody
  waits for ever.
- *Sidecar*: addresses in use are distinct, services are where their users look,
  what is deleted is gone.
- *Docker*: one container, started, whoever creates it.

## 2 The modules

```
SnekSyntax <- Snek <- SnekMeaning <- MCSnek       from tokens to the graph
NodeGraph <- Evaluation                           what the scheduler promises
    ^            ^ refined by
    +------- Scheduler <- MCScheduler, SchedulerProofs
PreludeNodes <- MCNodes, PreludeNodesProofs       what nodes make of their inputs
EntryStore                                        what a cache promises
    ^ refined by
    +-- LocalCache  <- MCLocalCache,  LocalCacheProofs
    +-- GithubCache <- MCGithubCache, GithubCacheProofs
Snapshots  <- MCSnapshots, SnapshotsProofs        execute_raw over containerd and the cache
Exec       <- MCExec, ExecProofs                  running containers, cleaning up
Topology <- SidecarNetworks --+
FileCopy ---------------------+<- MCSidecar       what the sidecar serves
LayerExport ------------------+
FileCopy <- FileCopyProofs
SidecarNetworks, LayerExport <- SidecarProofs
```

**SnekSyntax** is the parser: a function per `parse_*`, from token sequences to
the syntax tree, with `?` as `Then`. Characters and spans are left out; the
`Written...` operators turn a tree back into tokens, so that runs can state
programs as trees and take tokens out of them.

**Snek** is the resolver and the compiler as a state machine: a step of the
resolver is one statement of the module or function that is innermost on its
`stack`, a step of the compiler one top-level node. `resolver` holds the module
cache (`marks`, 0 for a module being resolved), scopes and symbols, `compiler`
the values of symbols, the node cache and the graph. Calls of functions are
inlined as in the code, with a table of values per body. **SnekMeaning** says
what a program means over the syntax alone, with environments and terms, without
symbols, tables or caches; the properties compare the two.

**NodeGraph** is the compiled graph and what makes an outcome right. A value is
abstracted to success, an error to the set of nodes that failed: a fail-fast
node has the errors of one input, an `All` those of all. Nodes are those the
start node needs.

**Evaluation** is the abstract specification: one action decides one node by
the rules of NodeGraph.

**Scheduler**. `data` is the vector of cells; `permit` is who initializes a
cell, since `get_or_init` lets one caller in and the next when that one is
dropped; a task is named by its caller and its node, and goes through its
phantom inputs, its inputs and its work. `GetOrInit` is `get_output` up to the
spawn, `Memoize` the return of `get_or_init`. An abort (`aborted`) is the drop
of an `AbortOnDropHandle`: the task goes on until it next suspends
(`Cancelled`), and only then drops its own callers. `run` follows `engine::run`
from the start node over Ctrl-C to the reclaim of the context, its retries and
its timeout.

**PreludeNodes** is the table of nodes with their types, and what each makes of
data: a container is a snapshot's name and a config, a service a container with
an entrypoint and a health check, files a source. `values` are the executed
nodes with the type the compiler computed, the data, and what was asked for as a
term (`made`); `holds` is what is committed under each name. A step executes any
node on any inputs its types let through. Commands are taken to be
deterministic, and hashes to be free of collisions: a name is what is hashed. What
a command sees (`Seen`) is its container, the services of that, their services and
so on: whatever is in every set of containers that is closed under services.

**EntryStore** is the contract of `CacheBackend`; **LocalCache** implements it.
`WriteKey` locks the key before anything is awaited; `stage` follows
`try_exists`, `create_new`, `poll_write`, `poll_shutdown`. Writes and the rename
happen on blocking threads, so `accepted` and `file` differ until a flush, and a
dropped writer may still be renamed (`detached`). A process may die at any
step. Chunks stand for bytes, a writer for the value it writes. Callers shut a
writer down only after they wrote everything (all callers in `layers.rs` and
`nodes.rs` leave with `?` otherwise).

**GithubCache** implements EntryStore too. `stage` follows `write_key` (lock,
look up, create), then the writer (`open`, `shutdown`, the commit requests to
Azure and GitHub). The writer is a state machine of polls: an action is one call
of `poll_write`, `poll_flush` or `poll_shutdown` by tokio's copy, which writes
when its source has data and flushes when it is pending (`unflushed`). `uploads`
is the `JoinSet`: an ended upload stays in it until a poll takes it out, and
`asleep` is a caller whose poll returned Pending. The end of an upload wakes it, and
so does its source (`SourceWakes`): the copy polls its source again whenever it is
woken, and may write and flush again with all its uploads still running.
Azure (`staged`, `blob`) and GitHub (`entry`) are external: staged blocks are
named by identifier, a list of unknown blocks or one that is too long is refused.
Data is counted in units; a block is the interval of units it carries. A commit
to GitHub may take effect after its caller is gone (`lost`).

**Snapshots** composes `execute_raw`, the health check, import, pull, the commit
of an exec, export and the store of the value. `snapshots` is containerd,
`archive` and `data` the two kinds of cache entries, `attempted` the keys of
the back end's locks as its callers see them. A health check is a stack of
snapshots being ensured, each under its lock file (unless the lock cannot be
had, which the code accepts); an export walks to the lowest layer and writes
upwards. The initial states are all contents that earlier runs may have left,
layers cut off in transit included; `Earlier` stands for the processes that left
them. `broken` is a history variable: the entries whose writing broke off, by the
process that wrote. It tells an entry that is missing because its own writer failed
from one that was forgotten. Nodes stand for distinct cache keys.

**Exec**. `phase` is where `exec` and `exec_internal` are, `permits` the
semaphore, `pool` the free networks, `dangling` the register of the client. The
tree of containers is the constant `User`. Container by container, `proc` is the
process, `ready` says that `spinup_topology` returned, `down` how far
`spindown_topology` is. `GiveUp` is every early return and abort: the guard of
the permit is dropped and nothing else happens. `Shutdown` is
`Client::shutdown`, which the clean-up of a run reaches when no task is left. A
call of containerd is one step. Processes may end by themselves at any time,
services included.

**Topology** is the tree type both sides share. A tree is a function from its
places to the data there; a place is the sequence of the positions of children that
lead to it, so that the domain of a tree is its shape. `AddChild` and
`WithChildren` sort siblings by shape, `ZipTrees` pairs by position, `Popped` is a
step of the iterator's stack. `Cmp` looks for the first place, in the order of a
walk, that only one of two trees has: that this is what the recursive comparison of
children does is a theorem (`CmpIsLexicographic`), and TLC compares it with the
recursive definition on small trees (`CmpAssumption` in MCSidecar).
**SidecarNetworks** is `create_network` and `delete_network`: each request realizes
its topology depth first, a step per subnet picked (`PickBridge`) and per namespace
made (`CreateNamespace`), concurrently with the others, on one `counter`. `realized`
are the trees that the nested calls returned, by the place of their root: a call
adds those of its children one by one (`Concrete`), which sorts them again each
time. `doomed` is the stack of the iterator of a `delete_network`. An address is a
subnet with the last bit.

**FileCopy** is `copy_fs_into_container`: the producer that walks the source
(`plan`, in whatever order `read_dir` lists a directory), the bounded pipe, the
copying task that polls both, the socket, and the sidecar's nested reader (`frames`)
that writes `disk`. A header carries the name of its entry, as of a path only the last
part, and the length there was when it was written, contents are numbered units; the
reader puts an entry into the directory its innermost call is at (`Placed`). The
sockets, pipes and devices of the source (`specials`) are counted by their directory's
header and have none of their own (`Ends`). What is ignored is of a directory of the
host, as an export filters nothing. The host may change once, between or under the
steps. **LayerExport** is `append_upperdir`
over every upper directory overlayfs can leave (files, directories, opaque
directories, whiteouts), against what containerd makes of the archive
(external, by the rules of OCI layers). **MCSidecar** serves requests of one of
the three kinds; they share no state.

## 3 The runs

| Run | Instance | Shows |
|---|---|---|
| `scheduler` | an `All` over two branches: one fails fast and shares a node with the other, which only needs it as a phantom input; both leaves may fail, work may never end, Ctrl-C at any time | `OneRunner`, `CleanFinish`, `WorkOnSuccess`, `ErrorsAreReal`, `TasksDrain`, `RunEnds`, `Refinement` of Evaluation |
| `scheduler_shared` | the same graph | violation: `SingleExecution` |
| `nodes` | every program of up to four nodes of the prelude over two words, copying to one destination | `TypesAreTrue`, `SnapshotsTrue` |
| `nodes_copies` | the same with two destinations | violation: `SnapshotsTrue` |
| `snek` | 2880 programs of up to three files, and one with each of the 55 tokens of a file left out | `CompiledMeansSource`, `NeverPanics`, `GraphIsShared`, `CyclesAreReported` |
| `snek_phantoms` | the same | violation: `PhantomsGateTheCall` |
| `local_cache` | two processes, four writers, two keys, two chunks, one failing `try_exists` | `WholeEntries`, `Refinement` of EntryStore |
| `github_cache` | two jobs, three writers of one key, eleven units and twice two in blocks of two or three, two uploads at once, a counter that ends at five | `UploadsBounded`, `EntryIsWhole`, `WriterEnds`, `Refinement` of EntryStore |
| `snapshots` | two standalone processes with an image and a command with a service each; one fails and is aborted, one has no lock files | `ParentFirst`, `ValuesAreThere`, `ExportedWhenRun`, `TasksEnd` |
| `exec` | three execs over one permit: two of one shape with a service each, one with a service of a service; one fails, one is aborted | `NetworkExclusive`, `ServicesOutlive`, `DoneIsClean`, `ShutdownIsClean`, `ShutdownReached` |
| `sidecar` | two requests for networks, one with a failing step, from every value of the counter; a copy of eight paths, two of them ignored, each of its two directories with a pipe or without; every upper directory over every tree of four paths | `AddressesUnique`, `ServicesReachable`, `DeletedIsGone`, `CopiedIsSource`, `ErrorsSurface`, `EveryCopyEnds`, `ContentsSurvive` |
| `files_race` | the same | violation: `CommittedIsComplete` |

One run per module with a type invariant also checks its `TypeOK`.

**Bounds.**

- *Scheduler*: five nodes and every task a chain of callers can spawn. Sharing, a
  failing sibling, a drop below a drop and a second take-over all occur, and one
  more branch only repeats them.
- *Snek*: the root file is an import, a second statement, a function and the entry
  point, each from a pool that has every form of statement and expression,
  closures, defaults that use other parameters, functions of modules, phantom
  inputs, aliases of one file, calls with wrong arguments; the library is plain,
  shares a third file with the root or closes a cycle with it. A cycle or a
  diamond of more files repeats the same marks.
- *Nodes*: four nodes are an image, two things done to it and one done to the
  results, which is what two chains need to meet in a name. Environment, working
  directory, user and services can each be the difference between the chains.
- *Local cache*: two processes with two writers of one key in one of them give all
  pairs: same process, other process, other key.
- *GitHub cache*: eleven units make up to five blocks, one more than Azure takes
  here and as many as the counter tells apart, so that the counter saturates; two
  units are less than a block, so that a writer that only flushes occurs. A cap
  of two uploads is reached and left in every order. 65535 blocks and 50000 are
  `MaxCounter` in the code and `AzureLimit` on the other side: what matters is
  that the second is below the first.
- *Snapshots*: images have two layers, so that an import recurses, a pull loops and
  an export walks; a service on the lower layer shares its chain with the other
  values. Nothing fails in the process without lock files, and in the other one
  only the command's calls, as pulls fail alike.
- *Exec*: two execs of a shape make a network reusable, the third must not get it,
  and its chain of three containers makes spin-up and spin-down nested. `Tries` is
  2, one lost request and its repetition; the code's default is one attempt and
  three repetitions.
- *Sidecar*: the counter has ten values instead of 65536, enough for all that the
  two requests pick together, from any start: it wraps within a request and
  between two, and does not come around. `AddressesUnique` claims nothing once
  65536 subnets were picked while an old network lives; namespaces of execs that
  failed do live on, and nothing in the code looks at that.
  The tree of files is a directory in a directory, with files before and behind it,
  an ignored file, an ignored pipe and a pipe that is not ignored (each pipe there or
  not), files of one and two units and buffers of one item, so that everybody waits
  for everybody. The paths of layers are a directory with two entries beside a fourth
  path; deeper trees nest the same rules.

**Fairness.** The runtime polls what is woken, an aborted task reaches an await,
timers fire (`HangingSpec`, and the fairness of `Snapshots` and `Exec`). That a
node's own work ends is a premise of `RunEnds` only (`WorkFairness`), not of
`TasksDrain`. In Exec a command ends, as without that no run ends, but a service
need not: it is killed after ten seconds. In GithubCache a caller that is awake is
polled, and requests and uploads end one way or another, since they have timeouts
and a last attempt; that a caller is awake is what `WriterEnds` is about, for which
its source need not wake it. In
MCSidecar the copying task and the sidecar's thread go on while they can.
Networks need no fairness. Nobody has to press Ctrl-C, fail, flush early or die.
Weak fairness is enough throughout, and it is per task, so that no task's progress
is owed to another's; for a semaphore or lock that is contended for ever weak
fairness would promise too little, but every holder is here once.

**Deadlock** is checked where the end is a self-loop (`Terminated`, `Over`,
`gone`): `scheduler` and `exec`. In `snapshots` it is off, so that tasks that wait
for each other are a violation of `TasksEnd`. The other systems really stop, with
their last writer, statement, node or request; there `WriterEnds` and
`EveryCopyEnds` say that nobody stops before.

## 4 The proofs

For any graph, number of tasks, processes, keys, writers, containers, permits,
attempts, uploads, sizes of blocks, words, trees of files, sizes of buffers and
paths of layers that satisfy the `ASSUME` of the module (all of which the runs
evaluate).

**SchedulerProofs**: `TypeCorrect`, `OneRunnerHolds`, `CleanFinishHolds`,
`WorkOnSuccessHolds`, `ErrorsAreRealHolds`, `RefinementHolds`. None of these is
inductive: that two tasks of a node are not both meant to go on depends on who
holds the permit (`RunnerOwnsPermit`), a set cell has no holder
(`SetCellsAreFree`), what a task returned and what a cell holds follows the rules
(`OutcomesJustified`, `CellsJustified`), and, for the clean finish, nothing is
aborted without an error or an interruption (`AbortsHaveCause`), so that a task
that is alive after success would have to be awaited by a caller on a chain up to
the start node. The assumption that every node is needed by the start node
stands in for an induction on that chain.

**LocalCacheProofs**: `TypeCorrect`, `WholeEntriesHolds`, `RefinementHolds`. A
writer past the lock keeps its key locked (`LocksKept`), so it is the only one
of its process (`OnePerProcess`); from the rename on its file is complete
(`Flushed`); names belong to writers that are done (`NamedWhenDone`). A step of
the directory is one publication or a stutter.

**GithubCacheProofs**: `TypeCorrect`, `UploadsBoundedHolds`, `EntryIsWholeHolds`,
`RefinementHolds`. Only `poll_write` looks at the cap, so the bound by itself is
not inductive; what is, is that a writer with data in its buffer has room for one
upload more (`Bounded`): a write leaves that room, and a flush, which uploads the
buffer whatever the cap, empties it. For whole entries `BlocksInOrder` says where
every block lies that is being uploaded, has ended, or is staged at Azure: while
the counter has not come to its end, identifiers follow the order of the data,
neighbours meet, and a block below the minimum is the last one, uploaded in
shutdown when no data can follow. This says nothing of a counter at its end, where
blocks do share identifiers; it need not, as Azure takes no list of that length
(`AzureLimit < MaxCounter`). At the commit everything is taken and the buffer is
empty (`Emptied`), hence the blob is whole (`BlobsWhole`), and nothing changes it
before GitHub publishes it (`EntriesDone`).

**SnapshotsProofs**: `TypeCorrect`, `ParentFirstHolds`, `ValuesAreThereHolds`,
`ExportedWhenRunHolds`, for every tree of snapshots and every number of tasks and
processes. The invariant `IInv` says that the snapshots are closed under parents
and, per phase, why a task is in order (`GoodAt`): in a check the stack goes down
parent by parent, what is applied has its parent and what is done with exists; a
pull stands right above a layer that exists; and what a value names is there or
still on the task's list. Snapshots are only added, so what other tasks do keeps
all of this (`GoodGrows`). The export needs a second invariant, `ExportInv`. In a
standalone process every layer dealt with is in the cache, was asked for or broke off
(`Exporting`); a layer that was asked for and is neither in the cache nor broken off
has its writer still at work (`Kept`), a value that was asked for is stored or its
writing failed (`Stored`), and an entry that is cut off was cut off by somebody
(`Blamed`). So `ExportedWhenRun` holds whatever befalls the process and all others:
it does not say that the cache of a standalone run is complete, but who is to blame
for everything it lacks. The lines of layers (`Line`)
are a recursive function. All that is assumed is that no set of snapshots holds all
of its parents (`ParentsAssumption`: a snapshot is committed on one that exists);
from that every snapshot has exactly one line (`OneLine`), the function of these
lines satisfies the recursive equation, so that `Line` does (`LineStep`), and `Line`
leads from parent to child up to its snapshot (`LineIs`, `LineClosed`).

**ExecProofs**: `TypeCorrect`, `NetworkExclusiveHolds`, `ServicesOutliveHolds`,
`DoneIsCleanHolds`, `ShutdownIsCleanHolds`. An exec *owns* its network from the
moment it gets it until all its containers are committed, which for one that
failed is never. Owned networks are not free and have one owner (`Ownership`);
this is kept because a network that is answered is one nobody could know
(`RequestsFresh`) and the pool gives away what nobody owns. What is committed has
exited and comes down from the command (`ComingDown`), what was created has
healthy services and is registered (`Created`, `Healthy`). Hence where a process
runs its network is owned, and what the shutdown finds in the register is all
there is. Permits are counted as the cardinality of their holders
(`PermitsHeld`), which needs the execs to be finitely many.

**PreludeNodesProofs**: `Invariant`, `TypesAreTrueHolds`, `SnapshotsTrueHolds`, for
every choice of images, words and nodes. The invariant says that a name stands for
one tree of files (`Unique`), and of every value that its data has the type the
compiler computed, with a snapshot that is committed and holds what was asked for
(`Good`). A step keeps it node by node: those declared to return the type of their
first input return a value of its kind, the others one of the declared type
(`PlainNodes`, `LikeFirst`, and a lemma per action). That
the snapshot is the one asked for needs the converse of a name: what is committed
is what its name is made of (`Shaped`), so that a name that is committed already is
not taken with other contents. For copies this holds only if there is one
destination, which is therefore a hypothesis of `SnapshotsTrueHolds`
(`OneDestination`); with two, `nodes_copies` refutes it, and what is left without
the hypothesis is that each snapshot is committed. That a command sees the same
later needs that containers only come to be, and what is within one was there when
it was made (`SeenStays`).

**FileCopyProofs**: `Invariant`, `CopiedIsSourceHolds`, `ErrorsSurfaceHolds`, for
every finite tree, whatever of it is ignored. The first two are about sources in
which the filter lets no socket, pipe or device through (`Plain`, a hypothesis of
`CopiedIsSourceHolds`), as headers and nested calls do not agree otherwise (see 5);
with one, that an import never comes to its end is model-checked only. Neither the
plan, the pipe nor the socket has a simple description by itself. What is sent, what
is piped and what is planned are therefore taken together as one `Flow` towards the
sidecar, in which a header is behind the headers of the directories it is in.
`FlowOK` says what such a flow looks like: what is planned comes last (`Shape`), the
contents of a file follow its header to the end (`Unbroken`), a path comes once, a
directory's header counts what follows of it (`Counts`), and a path follows as long
as its directory is open (`Preorder`). The sidecar's nested calls mirror it: they go
down a path, each expects exactly its entries that are on their way (`Calls`), so
that the path a header is put at is the one it has in the source (`PlacedThere`),
and whatever is on its way is in a directory that is open or opened before
(`Reached`). No file is forgotten (`Covered`), and the innermost call's file and
what it expects make up the whole (`Top`). Each kind of step keeps this by a lemma
about flows: `EndsFile`, `WritesFile`, `WritesFolder` for the producer,
`ReadsHeader`, `ReadsContents`, `Returns` for the sidecar. When all calls returned
nothing is on its way, since the first thing on its way would have to be in a
directory opened before it (`NothingLeft`). This holds as long as the source does
not change and the sidecar has not failed; after a failure, too, files are
beginnings of their sources (`Beginnings`).

**SidecarProofs**, on trees: `WithChildrenSorts`, `OrderIrrelevant`,
`CmpIsLexicographic`. The order of a walk is total (`BeforeTotal`,
`BeforeTransitive`), hence so is the order of shapes (`LessTotal`,
`LessTransitive`). A stable sort puts a child at the number of those that go before
it, so that the sorted list ascends (`SortedAscends`), stays as it is when sorted
again (`SortedStays`) and has the same shapes however it was permuted
(`SortedPermuted`); containers with the same services in another order thus ask for
one shape, which is how free networks are found. `WithChildrenSorts` says that trees
made with `with_children` satisfy what `TopologyAssumption` asks of the trees that
are requested.

On networks: `ServicesAreReachable`, `DeletedNetworksAreGone`,
`AddressesAreUnique`, for any requests, topologies and failures. The first
invariant, `NetInv`, has a closed form for a network: its tree of names (`Names`), of
the shape that was asked for, with the request, the place and the subnet of the
bridge at each place. What a call returned is that tree below its place
(`RealizedAsNamed`), since adding children that are in order already moves none of
them (`Grown`, `ConcreteIs`); what was returned stays built, with its ends of
bridges attached, until its deletion (`RealizedStays`); and during a deletion every
namespace that is left is in a tree on the stack (`LeftOnStack`), as what a step
pops is the root's namespace and the children stay (`PoppedHolds`). Zipping the
container's tree with this one then pairs every edge with a bridge.

Addresses need a second invariant, `AddressInv`, and that the counter does not come
around: `EnoughSubnets`, a hypothesis of `AddressesAreUnique`, says that there are as
many subnets as picks by all requests together, at most one per bridge and one per
namespace. A subnet in use lies at most as many picks behind the counter as picks
were made (`Recent`), so that one that is still to be made finds a subnet nobody
uses (`CounterFresh`); hence bridges have subnets of their own (`LinksDiffer`), and
an address is an end of a bridge of its namespace or on the namespace's own uplink
(`Owned`), half made namespaces of failed requests included. The
instance of `sidecar` satisfies the hypothesis with nothing to spare, ten picks of
ten subnets.

On layers: `ContentsSurviveHolds`, for every tree of paths. The layer makes of every
path what the mount showed there (`PathSurvives`): the archive says of a path what
the upper directory had there (`ArchiveSays`), and the rules of the two sides for
whiteouts and opaque directories are compared case by case. An entry below a path
implies a directory there; that overlayfs then has one there too follows from path
to path (`AboveAreDirs`).

The prover cannot do induction over data, as the library's induction theorems take an
operator. The proofs use instead that what fails somewhere fails somewhere first:
the least number with a property (`Least`, from the library's theorem on
well-founded relations), or a snapshot whose parent is not a counterexample
(`ParentsAssumption`). A recursive function is a `CHOOSE` of a function that
satisfies its equation: the proof gives one that does (`GrowExists`, `LineStep`).

**Only model-checked**: liveness (`RunEnds`, `TasksDrain`, `TasksEnd`,
`ShutdownReached`, `WriterEnds`, `EveryCopyEnds`), as the prover has no rules for
fairness and `ENABLED`; and the language (`CompiledMeansSource`, `NeverPanics`,
`GraphIsShared`, `CyclesAreReported`), whose parser and meaning are recursive over
syntax: `RECURSIVE` operators take the prover's SMT backend away.

## 5 What was found

Four runs violate what the repository says; `findings` in `PROJECT.json` has the
quotes.

- `scheduler_shared`: concurrent callers do not always share one execution. When
  the caller that started a shared node is dropped, because a sibling of it
  failed under an `All`, its task is aborted and another caller starts the node
  again. An exec that was under way is run a second time. Harmless to results:
  `Refinement` holds.
- `snek_phantoms`: the phantom inputs of a call of a function gate its result, not
  what its body runs.
- `files_race`: `copy_fs_into_container` commits the snapshot when everything is in
  the socket. The sidecar may still be writing, or may have failed, and an export
  from a container that broke off looks like its end; the snapshot is then kept
  under a name that stands for the whole contents.
- `nodes_copies`: the name of a copy's snapshot leaves the destination out, so that
  copies of the same files to two places of one container get one snapshot. The
  book's example of `With` is such a program.

Also seen while modelling, at places where the models follow the code and no run
claims otherwise:

- A cache hit returns before the export of a standalone run (`engine/nodes.rs:104`):
  values whose snapshots only containerd has stay unexported. `ExportedWhenRun`
  claims the export of executions only.
- An export whose stream from the sidecar breaks off leaves an entry that looks whole
  (`engine/containerd/layers.rs:451`), and no later export repairs it, as `write_key`
  has no writer for an entry that exists (line 387). A standalone run that executes
  the node again, since the import fails, therefore still leaves a cache that another
  machine cannot import this layer from. `ExportedWhenRun` lists such entries as the
  fault of another process's writer, or of this one's.
- A socket, pipe or device that is not ignored is counted in its directory's header
  and has none of its own (`src/serpentine_internal/src/lib.rs:171-212` has no `else`).
  The next entry of the directory above then lands in this one, and the sidecar still
  waits for a header when the stream ends; the copy commits all the same
  (`files_race`). `CopiedIsSource` claims of such a source that the import does not
  end well, and nothing of where its files land.
- A key stays locked after its writer failed or was dropped
  (`engine/cache/filesystem_backend.rs:86`), so that `write_key` refuses a key that
  nobody is writing for the rest of the process. The same holds of the GitHub
  back end. The entry is lost to this run only.
- An import that loses the race for the name of its snapshot fails with
  AlreadyExists (`engine/containerd/layers.rs:578`), which the other commits treat
  as success. The node is executed again (`ImportRaced`).
- A network whose answer the exec did not live to see, or that was asked for twice
  because the first answer was lost, is never deleted
  (`engine/containerd/exec.rs:105`). `ShutdownIsClean` claims what was answered.
- An aborted exec frees its permit while its command runs on, until the shutdown
  kills it (`engine/containerd/exec.rs:122`): more than `--jobs` commands can run.
- An opaque directory is exported as its marker alone (`src/sidecar/src/main.rs:645`):
  its mode and owner are lost, and where it replaces a file the layer cannot be
  applied. `ContentsSurvive` compares what is there, not its attributes, and leaves
  such a replacement out (`ReplacesFile`).
- `network.rs` says of `Ord` for `Topology` that it "is not a total order" (line 22).
  On shapes, which is all that is compared, it is (`LessTotal`, `LessTransitive`,
  `CmpIsLexicographic`); trees of one shape with different data are equal in it.

## 6 Limits and plan

Not modelled, and why:

- *Texts*: the tokenizer and spans, `passwd` and `group` files, gitignore patterns,
  the OCI specification made from a config, the display. They are pure and
  sequential, and no state depends on more than their result.
- *Hashing* is taken as free of collisions, commands as deterministic.
- *Pulling*: `fetch_layer`, `pull_layer` and `resolve_image` appear as one step per
  layer that may fail. Their hard question, whether content that exists can be
  collected before it is applied, is about the rules of containerd's collector,
  which are not in this repository; with invented rules a run would show nothing.
- *Docker*: the one interleaving of interest (see the hazards) is with the state of
  the docker daemon, which is external throughout.
- *The proxy and the FIFOs* of the sidecar copy bytes.
- *Layers' contents* are in LayerExport; in Snapshots a layer is there, torn or not
  there, and one that was cut off in transit is assumed to be refused by containerd
  when it is applied.
- *Failing calls within the shutdown* of the client, the thread that a wait for a
  lock file leaves behind when it is aborted, lock files shared by names that
  differ in unportable characters only, and `--jobs 0`, with which no exec starts.

Next, in this order:

1. *Pull* with leases, if containerd's rules of collection are written down.
2. *Docker*: creation, start and port of the shared container by several
   processes, with the daemon as an external module.
3. *Snek*: the parser and the meaning of programs without `RECURSIVE` operators, so
   that `GraphIsShared` and `CyclesAreReported` can be proved.
