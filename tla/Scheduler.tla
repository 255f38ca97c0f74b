----------------------------- MODULE Scheduler -----------------------------
(***************************************************************************)
(* The lazy scheduler (engine/scheduler.rs), the default and the `All`     *)
(* input resolution of engine/nodes.rs, and the end of a run               *)
(* (engine/mod.rs).                                                        *)
(*                                                                         *)
(* Every node instance has a `OnceCell`.  A caller that finds the cell     *)
(* empty takes the cell's only permit and spawns a task for the node,      *)
(* which it aborts if it is dropped before the task ended.  A caller is    *)
(* either the run itself (Main) or a task waiting for the nodes it needs.  *)
(* A task is aborted asynchronously: it goes on until it next suspends,    *)
(* and only then are its own callers dropped.                              *)
(***************************************************************************)
EXTENDS NodeGraph, Naturals

CONSTANTS
    Task,     \* the tasks a run can spawn: one per caller and node
    NodeOf,   \* the node a task executes
    CallerOf, \* the caller whose get_output spawned the task
    Main,     \* the caller that awaits the start node (engine/mod.rs, run)
    NoOne     \* holder of a free permit

Caller == Task \cup {Main}

ASSUME TaskAssumption ==
    /\ NodeOf \in [Task -> Node]
    /\ CallerOf \in [Task -> Caller]
    /\ Main \notin Task
    /\ NoOne \notin Caller
    /\ \A s, t \in Task :
          CallerOf[s] = CallerOf[t] /\ NodeOf[s] = NodeOf[t] => s = t

VARIABLES
    data,     \* Scheduler.data: the memoized outcome of every node
    permit,   \* the caller initialising a node's cell, NoOne if there is none
    stage,    \* what each task is doing
    outcome,  \* what a finished task returned
    aborted,  \* has the task's AbortOnDropHandle been dropped?
    ran,      \* how often a node's own work was started (history)
    run,      \* where engine::run stands
    exit      \* the result of the run

vars == <<data, permit, stage, outcome, aborted, ran, run, exit>>

Stage == {"unspawned", "phantoms", "inputs", "work", "done", "dropped"}

(* A live task still owns its Arc<Scheduler>.                               *)
Live(t) == stage[t] \in {"phantoms", "inputs", "work"}

(* The nodes whose get_output future the caller holds.                      *)
Awaited(c) ==
    IF c = Main
      THEN IF run = "resolving" THEN {Root} ELSE {}
      ELSE CASE stage[c] = "phantoms" -> PhantomInputs[NodeOf[c]]
             [] stage[c] = "inputs"   -> Inputs[NodeOf[c]]
             [] OTHER                 -> {}

Init ==
    /\ data = [n \in Node |-> Pending]
    /\ permit = [n \in Node |-> NoOne]
    /\ stage = [t \in Task |-> "unspawned"]
    /\ outcome = [t \in Task |-> Pending]
    /\ aborted = [t \in Task |-> FALSE]
    /\ ran = [n \in Node |-> 0]
    /\ run = "resolving"
    /\ exit = Pending

(* Mutant: a plain JoinHandle, whose drop lets the task go on.              *)
DropFuturesDetached(c) ==
    /\ permit' = [n \in Node |-> IF permit[n] = c THEN NoOne ELSE permit[n]]
    /\ UNCHANGED aborted

(* Mutant: a dropped initialiser keeps the permit of the cell.              *)
DropFuturesKeepPermits(c) ==
    /\ aborted' = [t \in Task |-> aborted[t] \/ (CallerOf[t] = c /\ Live(t))]
    /\ UNCHANGED permit

-----------------------------------------------------------------------------
(* Dropping the futures a caller holds frees the permits they held and      *)
(* aborts the tasks they spawned; a task that already returned is past      *)
(* aborting, and what it returned is lost.                                  *)
DropFutures(c) ==
    /\ permit' = [n \in Node |-> IF permit[n] = c THEN NoOne ELSE permit[n]]
    /\ aborted' = [t \in Task |-> aborted[t] \/ (CallerOf[t] = c /\ Live(t))]

(* get_output, the cell being empty: the caller gets the permit and spawns  *)
(* execute_node, whose first step is to resolve the phantom inputs.         *)
GetOrInit(t) ==
    LET n == NodeOf[t] IN
    /\ stage[t] = "unspawned"
    /\ n \in Awaited(CallerOf[t])
    /\ data[n] = Pending
    /\ permit[n] = NoOne
    /\ permit' = [permit EXCEPT ![n] = CallerOf[t]]
    /\ stage' = [stage EXCEPT ![t] = "phantoms"]
    /\ UNCHANGED <<data, outcome, aborted, ran, run, exit>>

(* Mutant: the task sets the cell itself, whether or not its caller is left. *)
MemoizeUnowned(t) ==
    LET n == NodeOf[t] IN
    /\ stage[t] = "done"
    /\ data' = [data EXCEPT ![n] = outcome[t]]
    /\ permit' = [permit EXCEPT ![n] = NoOne]
    /\ UNCHANGED <<stage, outcome, aborted, ran, run, exit>>

(* get_output, the spawned task having returned: the cell is set, which     *)
(* answers every caller that waits for the node.                            *)
Memoize(t) ==
    LET n == NodeOf[t] IN
    /\ stage[t] = "done"
    /\ permit[n] = CallerOf[t]
    /\ data' = [data EXCEPT ![n] = outcome[t]]
    /\ permit' = [permit EXCEPT ![n] = NoOne]
    /\ UNCHANGED <<stage, outcome, aborted, ran, run, exit>>

(* Mutant: phantom inputs are started but not awaited.                      *)
PhantomsSkipped(t) ==
    /\ stage[t] = "phantoms"
    /\ stage' = [stage EXCEPT ![t] = "inputs"]
    /\ UNCHANGED <<data, permit, outcome, aborted, ran, run, exit>>

(* execute_node, all phantom inputs resolved: on to execute_raw.            *)
PhantomsResolved(t) ==
    /\ stage[t] = "phantoms"
    /\ \A d \in PhantomInputs[NodeOf[t]] : data[d] = Success
    /\ stage' = [stage EXCEPT ![t] = "inputs"]
    /\ UNCHANGED <<data, permit, outcome, aborted, ran, run, exit>>

(* Mutant: the node starts with the first input that is there.              *)
FirstInputResolved(t) ==
    LET inputs == Inputs[NodeOf[t]] IN
    /\ stage[t] = "inputs"
    /\ inputs # {} => \E d \in inputs : data[d] = Success
    /\ stage' = [stage EXCEPT ![t] = "work"]
    /\ ran' = [ran EXCEPT ![NodeOf[t]] = @ + 1]
    /\ UNCHANGED <<data, permit, outcome, aborted, run, exit>>

(* execute_raw, all inputs resolved: the node's own work starts.            *)
InputsResolved(t) ==
    /\ stage[t] = "inputs"
    /\ \A d \in Inputs[NodeOf[t]] : data[d] = Success
    /\ stage' = [stage EXCEPT ![t] = "work"]
    /\ ran' = [ran EXCEPT ![NodeOf[t]] = @ + 1]
    /\ UNCHANGED <<data, permit, outcome, aborted, run, exit>>

(* Mutant: a node reports the failure of an input as its own.               *)
FailFastBlamesSelf(t) ==
    /\ \/ stage[t] = "phantoms"
       \/ stage[t] = "inputs" /\ NodeOf[t] \notin Gather
    /\ \E d \in Awaited(t) : IsErr(data[d])
    /\ outcome' = [outcome EXCEPT ![t] = Failure({NodeOf[t]})]
    /\ stage' = [stage EXCEPT ![t] = "done"]
    /\ DropFutures(t)
    /\ UNCHANGED <<data, ran, run, exit>>

(* resolve_all: the first error ends the task and drops the other futures.  *)
(* `All` resolves only its phantom inputs this way.                         *)
FailFast(t) ==
    /\ \/ stage[t] = "phantoms"
       \/ stage[t] = "inputs" /\ NodeOf[t] \notin Gather
    /\ \E d \in Awaited(t) :
          /\ IsErr(data[d])
          /\ outcome' = [outcome EXCEPT ![t] = Failure(data[d].errors)]
    /\ stage' = [stage EXCEPT ![t] = "done"]
    /\ DropFutures(t)
    /\ UNCHANGED <<data, ran, run, exit>>

(* All::resolve_inputs: every input is waited for, and every error kept.    *)
GatherErrors(t) ==
    LET inputs == Inputs[NodeOf[t]] IN
    /\ stage[t] = "inputs"
    /\ NodeOf[t] \in Gather
    /\ \A d \in inputs : data[d] # Pending
    /\ \E d \in inputs : IsErr(data[d])
    /\ outcome' = [outcome EXCEPT
                     ![t] = Failure(UNION {data[d].errors : d \in inputs})]
    /\ stage' = [stage EXCEPT ![t] = "done"]
    /\ UNCHANGED <<data, permit, aborted, ran, run, exit>>

(* The node's own work ends: with a value (computed or read from the data   *)
(* cache) or with an error or a panic, which the cell keeps alike.          *)
WorkEnds(t) ==
    /\ stage[t] = "work"
    /\ \/ outcome' = [outcome EXCEPT ![t] = Success]
       \/ /\ NodeOf[t] \in Fallible
          /\ outcome' = [outcome EXCEPT ![t] = Failure({NodeOf[t]})]
    /\ stage' = [stage EXCEPT ![t] = "done"]
    /\ UNCHANGED <<data, permit, aborted, ran, run, exit>>

(* Mutant: the end of an aborted task is taken for an answer.               *)
CancelledAsDone(t) ==
    /\ aborted[t]
    /\ Live(t)
    /\ stage' = [stage EXCEPT ![t] = "done"]
    /\ DropFutures(t)
    /\ UNCHANGED <<data, outcome, ran, run, exit>>

(* An aborted task suspends: its future is dropped, with all it holds.      *)
Cancelled(t) ==
    /\ aborted[t]
    /\ Live(t)
    /\ stage' = [stage EXCEPT ![t] = "dropped"]
    /\ DropFutures(t)
    /\ UNCHANGED <<data, outcome, ran, run, exit>>

-----------------------------------------------------------------------------
(* engine::run.                                                             *)

(* The start node has its outcome.                                          *)
RunResolved ==
    /\ run = "resolving"
    /\ data[Root] # Pending
    /\ exit' = data[Root]
    /\ run' = "reclaiming"
    /\ UNCHANGED <<data, permit, stage, outcome, aborted, ran>>

(* Ctrl-C wins the select: the future of the start node is dropped.         *)
CtrlC ==
    /\ run = "resolving"
    /\ run' = "reclaiming"
    /\ DropFutures(Main)
    /\ UNCHANGED <<data, stage, outcome, ran, exit>>

(* Arc::try_unwrap: the context is shut down once no task refers to it.     *)
Reclaim ==
    /\ run \in {"reclaiming", "retrying"}
    /\ \A t \in Task : ~Live(t)
    /\ run' = "shutdown"
    /\ UNCHANGED <<data, permit, stage, outcome, aborted, ran, exit>>

(* The first attempt finds other owners: sleep and retry.                   *)
Retry ==
    /\ run = "reclaiming"
    /\ \E t \in Task : Live(t)
    /\ run' = "retrying"
    /\ UNCHANGED <<data, permit, stage, outcome, aborted, ran, exit>>

(* The five seconds pass between two attempts: the shutdown is skipped.     *)
GiveUp ==
    /\ run = "retrying"
    /\ run' = "skipped"
    /\ UNCHANGED <<data, permit, stage, outcome, aborted, ran, exit>>

Over == run \in {"shutdown", "skipped"} /\ \A t \in Task : ~Live(t)

(* Nothing left to do: any other state without a step is a deadlock.        *)
Terminated == Over /\ UNCHANGED vars

-----------------------------------------------------------------------------
TaskStep(t) ==
    \/ GetOrInit(t)
    \/ Memoize(t)
    \/ PhantomsResolved(t)
    \/ InputsResolved(t)
    \/ FailFast(t)
    \/ GatherErrors(t)
    \/ WorkEnds(t)
    \/ Cancelled(t)

RunStep == RunResolved \/ CtrlC \/ Reclaim \/ Retry \/ GiveUp

Next == (\E t \in Task : TaskStep(t)) \/ RunStep \/ Terminated

(* The runtime polls every woken task, an aborted task reaches an await,    *)
(* and timers fire.  Nobody has to press Ctrl-C.                            *)
RuntimeFairness ==
    /\ \A t \in Task :
          /\ WF_vars(GetOrInit(t))
          /\ WF_vars(Memoize(t))
          /\ WF_vars(PhantomsResolved(t) \/ InputsResolved(t)
                       \/ FailFast(t) \/ GatherErrors(t))
          /\ WF_vars(Cancelled(t))
    /\ WF_vars(RunResolved)
    /\ WF_vars(Reclaim)
    /\ WF_vars(Retry)
    /\ WF_vars(GiveUp)

(* Every node's own work ends, by itself or by an error.                    *)
WorkFairness == \A t \in Task : WF_vars(WorkEnds(t))

Spec == Init /\ [][Next]_vars

(* A node's own work may take for ever: a container that never exits.       *)
HangingSpec == Spec /\ RuntimeFairness

-----------------------------------------------------------------------------
(* The type invariant; a task has an outcome once it returned, and only     *)
(* then.                                                                    *)
TypeOK ==
    /\ data \in [Node -> Result]
    /\ permit \in [Node -> Caller \cup {NoOne}]
    /\ stage \in [Task -> Stage]
    /\ outcome \in [Task -> Result]
    /\ aborted \in [Task -> BOOLEAN]
    /\ ran \in [Node -> Nat]
    /\ run \in {"resolving", "reclaiming", "retrying", "shutdown", "skipped"}
    /\ exit \in Result
    /\ \A t \in Task : outcome[t] # Pending <=> stage[t] = "done"

(* Taking over a dropped caller's cell never gives a node two executions    *)
(* that are both meant to go on: of the live tasks of a node, all but one   *)
(* have been told to stop (AbortOnDropHandle, scheduler.rs).                *)
OneRunner ==
    \A s, t \in Task :
        /\ Live(s) /\ ~aborted[s]
        /\ Live(t) /\ ~aborted[t]
        /\ NodeOf[s] = NodeOf[t]
        => s = t

(* "On a clean finish every spawned node task was awaited to completion, so *)
(* dropping our handle leaves us the sole owner and the first attempt       *)
(* succeeds" (engine/mod.rs, run).                                          *)
CleanFinish ==
    exit = Success =>
        /\ \A t \in Task : ~Live(t)
        /\ run \in {"reclaiming", "shutdown"}

(* A task does its node's own work only on outcomes that stand: even one    *)
(* that was aborted and overtaken works on memoized successes.              *)
WorkOnSuccess ==
    \A t \in Task : stage[t] = "work" =>
        \A d \in Deps(NodeOf[t]) : data[d] = Success

(* A run that fails names a node that itself failed, and not a node that    *)
(* only was cancelled: no error is the by-product of an abort.              *)
ErrorsAreReal ==
    \A n \in exit.errors : n \in Fallible /\ ran[n] > 0

(* The outcomes are decided as the abstract evaluation decides them: once,  *)
(* after their dependencies, fail-fast or gathered, whoever ran the node.   *)
Contract == INSTANCE Evaluation WITH value <- data
Refinement == Contract!Spec

(* If every node's own work ends then so does the run, whatever fails and   *)
(* whenever it is interrupted.                                              *)
RunEnds == WorkFairness => <>Over

(* No task is left behind: once the run failed or was interrupted, every    *)
(* task started under it stops, however deep it is, and even if the work of *)
(* some node would never end by itself.                                     *)
TasksDrain == run # "resolving" ~> \A t \in Task : ~Live(t)

(* "The result is memoized, so concurrent callers share a single            *)
(* execution" (scheduler.rs, get_output).                                   *)
SingleExecution == run = "resolving" => \A n \in Node : ran[n] <= 1
=============================================================================
