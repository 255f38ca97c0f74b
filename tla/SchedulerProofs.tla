-------------------------- MODULE SchedulerProofs --------------------------
(***************************************************************************)
(* Theorems about the scheduler, for every graph and every set of tasks    *)
(* that satisfies GraphAssumption and TaskAssumption.                      *)
(***************************************************************************)
EXTENDS Scheduler, TLAPS

(* A live task that was not aborted runs for the holder of its node's       *)
(* permit.                                                                  *)
RunnerOwnsPermit ==
    \A t \in Task : Live(t) /\ ~aborted[t] => permit[NodeOf[t]] = CallerOf[t]

(* A cell that is set has no holder.                                        *)
SetCellsAreFree == \A n \in Node : permit[n] # NoOne => data[n] = Pending

(* What a task's stage says about the nodes it depends on.                  *)
StageJustified ==
    \A t \in Task :
        /\ stage[t] \in {"inputs", "work"} =>
             \A d \in PhantomInputs[NodeOf[t]] : data[d] = Success
        /\ stage[t] = "work" =>
             \A d \in Inputs[NodeOf[t]] : data[d] = Success

(* What a task returned, and what a cell holds, is what the node's contract *)
(* asks for.                                                                *)
OutcomesJustified ==
    \A t \in Task : stage[t] = "done" => Justified(data, NodeOf[t], outcome[t])

CellsJustified ==
    \A n \in Node : data[n] # Pending => Justified(data, n, data[n])

(* Tasks are only aborted after an error or an interruption.                *)
Interrupted == run # "resolving" /\ exit = Pending

AbortsHaveCause ==
    \A t \in Task : aborted[t] => Interrupted \/ \E n \in Node : IsErr(data[n])

(* The exit is the outcome of the start node.                               *)
ExitIsRoot ==
    /\ run = "resolving" => exit = Pending
    /\ exit # Pending => exit = data[Root]

(* A run that succeeded never has to retry.                                 *)
SuccessIsClean == exit = Success => run \in {"reclaiming", "shutdown"}

(* Every error goes back to a node whose own work was started.              *)
Blamed(starts, S) == \A n \in S : n \in Fallible /\ starts[n] > 0

ErrorsBlamed ==
    /\ \A n \in Node : Blamed(ran, data[n].errors)
    /\ \A t \in Task : Blamed(ran, outcome[t].errors)
    /\ Blamed(ran, exit.errors)
    /\ \A t \in Task : stage[t] = "work" => ran[NodeOf[t]] > 0

IInv ==
    /\ TypeOK
    /\ RunnerOwnsPermit
    /\ SetCellsAreFree
    /\ StageJustified
    /\ OutcomesJustified
    /\ CellsJustified
    /\ AbortsHaveCause
    /\ ExitIsRoot
    /\ SuccessIsClean
    /\ ErrorsBlamed

-----------------------------------------------------------------------------
(* The assumptions in the form the provers use them.                        *)
LEMMA Graph ==
    /\ Root \in Node
    /\ \A n \in Node : Inputs[n] \subseteq Node /\ PhantomInputs[n] \subseteq Node
    /\ \A t \in Task : NodeOf[t] \in Node /\ CallerOf[t] \in Caller
    /\ \A t \in Task : CallerOf[t] # NoOne
    /\ \A s, t \in Task :
          CallerOf[s] = CallerOf[t] /\ NodeOf[s] = NodeOf[t] => s = t
BY GraphAssumption, TaskAssumption

LEMMA ResultFacts ==
    /\ Pending \in Result /\ Success \in Result
    /\ \A S \in SUBSET Node : Failure(S) \in Result
    /\ Success # Pending
    /\ \A S : Failure(S) # Success /\ Failure(S).errors = S
    /\ \A r \in Result : IsErr(r) => r # Pending /\ r # Success
    /\ Success.errors = {} /\ Pending.errors = {}
BY DEF Result, Pending, Success, Failure, IsErr

LEMMA AwaitedNodes ==
    ASSUME NEW c \in Caller
    PROVE  Awaited(c) \subseteq Node
BY Graph, TaskAssumption DEF Awaited, Caller

(* A justified outcome stays justified when further cells are set.          *)
LEMMA JustifiedStable ==
    ASSUME NEW v, NEW w, NEW n \in Node, NEW r,
           \A m \in Node : v[m] # Pending => w[m] = v[m],
           Justified(v, n, r)
    PROVE  Justified(w, n, r)
<1>1. \A d \in Deps(n) : v[d] # Pending => w[d] = v[d]
  BY Graph DEF Deps
<1>2. \A m : v[m] = Success \/ IsErr(v[m]) => v[m] # Pending
  BY DEF Success, Pending, IsErr
<1>3. PhantomsOk(v, n) => PhantomsOk(w, n)
  BY <1>1, <1>2 DEF PhantomsOk, Deps
<1>4. CASE Worked(v, n, r)
  BY <1>1, <1>2, <1>3, <1>4 DEF Justified, Worked, InputsOk, Deps
<1>5. CASE PhantomFailed(v, n, r)
  BY <1>1, <1>2, <1>5 DEF Justified, PhantomFailed, FailedWith, Deps
<1>6. CASE InputFailed(v, n, r)
  BY <1>1, <1>2, <1>3, <1>6 DEF Justified, InputFailed, FailedWith, Deps
<1>7. CASE Gathered(v, n, r)
  <2>1. \A d \in Inputs[n] : w[d] = v[d]
    BY <1>1, <1>7 DEF Gathered, Deps
  <2>2. {v[d].errors : d \in Inputs[n]} = {w[d].errors : d \in Inputs[n]}
    BY <2>1
  <2>3. Gathered(w, n, r)
    BY <1>3, <1>7, <2>1, <2>2 DEF Gathered
  <2>4. QED BY <2>3 DEF Justified
<1>8. QED BY <1>4, <1>5, <1>6, <1>7 DEF Justified

-----------------------------------------------------------------------------
(* What dropping the futures of a caller does to permits and tasks.         *)
LEMMA Dropped ==
    ASSUME TypeOK, NEW c, DropFutures(c)
    PROVE  /\ permit' \in [Node -> Caller \cup {NoOne}]
           /\ aborted' \in [Task -> BOOLEAN]
           /\ \A n \in Node : permit'[n] \in {permit[n], NoOne}
           /\ \A n \in Node : permit[n] # c => permit'[n] = permit[n]
           /\ \A t \in Task : aborted[t] \/ (CallerOf[t] = c /\ Live(t)) <=> aborted'[t]
<1>1. \A t \in Task : (aborted[t] \/ (CallerOf[t] = c /\ Live(t))) \in BOOLEAN
  BY DEF TypeOK, Live
<1>2. QED BY <1>1 DEF DropFutures, TypeOK

LEMMA TypeInit == Init => TypeOK
BY ResultFacts DEF Init, TypeOK, Stage, Caller

LEMMA TypeStep ==
    ASSUME TypeOK, [Next]_vars
    PROVE  TypeOK'
<1> USE DEF TypeOK, Stage
<1>1. ASSUME NEW t \in Task, GetOrInit(t) PROVE TypeOK'
  BY <1>1, Graph DEF GetOrInit
<1>2. ASSUME NEW t \in Task, Memoize(t) PROVE TypeOK'
  BY <1>2, Graph DEF Memoize
<1>3. ASSUME NEW t \in Task, PhantomsResolved(t) PROVE TypeOK'
  BY <1>3 DEF PhantomsResolved
<1>4. ASSUME NEW t \in Task, InputsResolved(t) PROVE TypeOK'
  BY <1>4, Graph DEF InputsResolved
<1>5. ASSUME NEW t \in Task, FailFast(t) PROVE TypeOK'
  <2>1. PICK d \in Awaited(t) :
            IsErr(data[d]) /\ outcome' = [outcome EXCEPT ![t] = Failure(data[d].errors)]
    BY <1>5 DEF FailFast
  <2>2. d \in Node
    BY AwaitedNodes DEF Caller
  <2>3. data[d].errors \in SUBSET Node /\ data[d].errors # {}
    BY <2>1, <2>2 DEF Result, IsErr
  <2>4. Failure(data[d].errors) \in Result /\ Failure(data[d].errors) # Pending
    BY <2>3, ResultFacts DEF Pending
  <2>5. QED BY <1>5, <2>1, <2>4 DEF FailFast, DropFutures
<1>6. ASSUME NEW t \in Task, GatherErrors(t) PROVE TypeOK'
  <2> DEFINE E == UNION {data[d].errors : d \in Inputs[NodeOf[t]]}
  <2>1. Inputs[NodeOf[t]] \subseteq Node
    BY Graph
  <2>2. E \in SUBSET Node
    BY <2>1 DEF Result
  <2>3. E # {}
    BY <1>6, <2>1 DEF GatherErrors, IsErr
  <2>4. Failure(E) \in Result /\ Failure(E) # Pending
    BY <2>2, <2>3, ResultFacts DEF Pending
  <2>5. outcome' = [outcome EXCEPT ![t] = Failure(E)]
    BY <1>6 DEF GatherErrors
  <2> HIDE DEF E
  <2>6. QED BY <1>6, <2>4, <2>5 DEF GatherErrors
<1>7. ASSUME NEW t \in Task, WorkEnds(t) PROVE TypeOK'
  <2>1. Failure({NodeOf[t]}) \in Result /\ Failure({NodeOf[t]}) # Pending
    BY Graph, ResultFacts DEF Pending
  <2>2. QED BY <1>7, <2>1, ResultFacts DEF WorkEnds
<1>8. ASSUME NEW t \in Task, Cancelled(t) PROVE TypeOK'
  BY <1>8, Dropped DEF Cancelled, Live
<1>9. CASE RunStep
  <2>1. CASE CtrlC
    BY <2>1, Dropped DEF CtrlC
  <2>2. CASE ~CtrlC
    BY <1>9, <2>2, Graph DEF RunStep, RunResolved, Reclaim, Retry, GiveUp
  <2>3. QED BY <2>1, <2>2
<1>10. CASE UNCHANGED vars
  BY <1>10 DEF vars
<1>11. QED
  BY <1>1, <1>2, <1>3, <1>4, <1>5, <1>6, <1>7, <1>8, <1>9, <1>10
     DEF Next, TaskStep, Terminated

(* Every reachable state is well-typed, whatever the graph.                 *)
THEOREM TypeCorrect == Spec => []TypeOK
<1>1. TypeOK /\ [Next]_vars => TypeOK'
  BY TypeStep
<1>2. QED BY TypeInit, <1>1, PTL DEF Spec

-----------------------------------------------------------------------------
(* Set cells stay as they are: only the holder of a permit fills a cell.    *)
LEMMA DataStable ==
    ASSUME TypeOK, SetCellsAreFree, [Next]_vars
    PROVE  \A n \in Node : data[n] # Pending => data'[n] = data[n]
<1>1. ASSUME NEW t \in Task, Memoize(t)
      PROVE  \A n \in Node : data[n] # Pending => data'[n] = data[n]
  BY <1>1, Graph DEF Memoize, SetCellsAreFree, TypeOK
<1>2. CASE ~ \E t \in Task : Memoize(t)
  BY <1>2 DEF Next, TaskStep, RunStep, Terminated, vars, GetOrInit, PhantomsResolved,
     InputsResolved, FailFast, GatherErrors, WorkEnds, Cancelled, RunResolved,
     CtrlC, Reclaim, Retry, GiveUp
<1>3. QED BY <1>1, <1>2

LEMMA RunnerStep ==
    ASSUME TypeOK, RunnerOwnsPermit, [Next]_vars
    PROVE  RunnerOwnsPermit'
<1> SUFFICES ASSUME NEW s \in Task, Live(s)', ~aborted'[s]
             PROVE  permit'[NodeOf[s]] = CallerOf[s]
  BY DEF RunnerOwnsPermit
<1> USE DEF RunnerOwnsPermit, TypeOK, Live
<1>1. ASSUME NEW t \in Task, GetOrInit(t) PROVE permit'[NodeOf[s]] = CallerOf[s]
  BY <1>1, Graph DEF GetOrInit
<1>2. ASSUME NEW t \in Task, Memoize(t) PROVE permit'[NodeOf[s]] = CallerOf[s]
  BY <1>2, Graph DEF Memoize
<1>3. ASSUME NEW t \in Task,
             PhantomsResolved(t) \/ InputsResolved(t) \/ GatherErrors(t) \/ WorkEnds(t)
      PROVE  permit'[NodeOf[s]] = CallerOf[s]
  BY <1>3 DEF PhantomsResolved, InputsResolved, GatherErrors, WorkEnds
<1>4. ASSUME NEW t \in Task, FailFast(t) PROVE permit'[NodeOf[s]] = CallerOf[s]
  <2>1. Live(s) /\ ~aborted[s] /\ CallerOf[s] # t
    BY <1>4, Dropped DEF FailFast
  <2>2. QED BY <1>4, <2>1, Dropped, Graph DEF FailFast
<1>5. ASSUME NEW t \in Task, Cancelled(t) PROVE permit'[NodeOf[s]] = CallerOf[s]
  <2>1. Live(s) /\ ~aborted[s] /\ CallerOf[s] # t
    BY <1>5, Dropped DEF Cancelled
  <2>2. QED BY <1>5, <2>1, Dropped, Graph DEF Cancelled
<1>6. CASE CtrlC
  <2>1. Live(s) /\ ~aborted[s] /\ CallerOf[s] # Main
    BY <1>6, Dropped DEF CtrlC
  <2>2. QED BY <1>6, <2>1, Dropped, Graph DEF CtrlC
<1>7. CASE RunResolved \/ Reclaim \/ Retry \/ GiveUp
  BY <1>7 DEF RunResolved, Reclaim, Retry, GiveUp
<1>8. CASE UNCHANGED vars
  BY <1>8 DEF vars
<1>9. QED
  BY <1>1, <1>2, <1>3, <1>4, <1>5, <1>6, <1>7, <1>8
     DEF Next, TaskStep, RunStep, Terminated

LEMMA FreeStep ==
    ASSUME TypeOK, SetCellsAreFree, [Next]_vars
    PROVE  SetCellsAreFree'
<1> USE DEF SetCellsAreFree, TypeOK
<1>1. ASSUME NEW t \in Task, GetOrInit(t) PROVE SetCellsAreFree'
  BY <1>1, Graph DEF GetOrInit
<1>2. ASSUME NEW t \in Task, Memoize(t) PROVE SetCellsAreFree'
  BY <1>2, Graph DEF Memoize
<1>3. ASSUME NEW t \in Task,
             PhantomsResolved(t) \/ InputsResolved(t) \/ GatherErrors(t) \/ WorkEnds(t)
      PROVE  SetCellsAreFree'
  BY <1>3 DEF PhantomsResolved, InputsResolved, GatherErrors, WorkEnds
<1>4. ASSUME NEW c, DropFutures(c), data' = data PROVE SetCellsAreFree'
  BY <1>4, Dropped
<1>5. CASE RunResolved \/ Reclaim \/ Retry \/ GiveUp \/ UNCHANGED vars
  BY <1>5 DEF RunResolved, Reclaim, Retry, GiveUp, vars
<1>6. QED
  BY <1>1, <1>2, <1>3, <1>4, <1>5
     DEF Next, TaskStep, RunStep, Terminated, FailFast, Cancelled, CtrlC

LEMMA StageStep ==
    ASSUME TypeOK, SetCellsAreFree, StageJustified, [Next]_vars
    PROVE  StageJustified'
<1>1. \A n \in Node : data[n] = Success => data'[n] = Success
  BY DataStable, ResultFacts
<1>2. \A t \in Task : stage'[t] = stage[t] \/ stage'[t] \notin {"inputs", "work"}
                     \/ PhantomsResolved(t) \/ InputsResolved(t)
  BY DEF Next, TaskStep, RunStep, Terminated, vars, TypeOK, GetOrInit, Memoize,
     PhantomsResolved, InputsResolved, FailFast, GatherErrors, WorkEnds, Cancelled,
     RunResolved, CtrlC, Reclaim, Retry, GiveUp
<1>3. ASSUME NEW t \in Task
      PROVE  /\ stage'[t] \in {"inputs", "work"} =>
                  \A d \in PhantomInputs[NodeOf[t]] : data'[d] = Success
             /\ stage'[t] = "work" =>
                  \A d \in Inputs[NodeOf[t]] : data'[d] = Success
  <2>1. CASE PhantomsResolved(t)
    BY <1>1, <2>1, Graph DEF PhantomsResolved, TypeOK
  <2>2. CASE InputsResolved(t)
    BY <1>1, <2>2, Graph DEF InputsResolved, StageJustified
  <2>3. CASE stage'[t] = stage[t] \/ stage'[t] \notin {"inputs", "work"}
    BY <1>1, <2>3, Graph DEF StageJustified
  <2>4. QED BY <1>2, <2>1, <2>2, <2>3
<1>4. QED BY <1>3 DEF StageJustified

(* What a task returns is justified by the cells at that moment, and stays  *)
(* so.                                                                      *)
LEMMA OutcomeStep ==
    ASSUME TypeOK, SetCellsAreFree, StageJustified, OutcomesJustified, [Next]_vars
    PROVE  OutcomesJustified'
<1>1. \A n \in Node : data[n] # Pending => data'[n] = data[n]
  BY DataStable
<1>2. ASSUME NEW t \in Task
      PROVE  \/ stage'[t] = stage[t] /\ outcome'[t] = outcome[t]
             \/ stage'[t] # "done"
             \/ FailFast(t) \/ GatherErrors(t) \/ WorkEnds(t)
  <2>1. ASSUME NEW s \in Task, FailFast(s) \/ GatherErrors(s) \/ WorkEnds(s), s # t
        PROVE  stage'[t] = stage[t] /\ outcome'[t] = outcome[t]
    BY <2>1 DEF FailFast, GatherErrors, WorkEnds, TypeOK
  <2>2. ASSUME NEW s \in Task,
               GetOrInit(s) \/ PhantomsResolved(s) \/ InputsResolved(s) \/ Cancelled(s)
        PROVE  outcome' = outcome /\ (stage'[t] = stage[t] \/ stage'[t] # "done")
    BY <2>2 DEF GetOrInit, PhantomsResolved, InputsResolved, Cancelled, TypeOK
  <2>3. ASSUME NEW s \in Task, Memoize(s)
        PROVE  outcome' = outcome /\ stage' = stage
    BY <2>3 DEF Memoize
  <2>4. CASE RunStep \/ UNCHANGED vars
    BY <2>4 DEF RunStep, RunResolved, CtrlC, Reclaim, Retry, GiveUp, vars
  <2>5. QED BY <2>1, <2>2, <2>3, <2>4 DEF Next, TaskStep, Terminated
<1>3. ASSUME NEW t \in Task, stage'[t] = "done"
      PROVE  Justified(data', NodeOf[t], outcome'[t])
  <2> DEFINE n == NodeOf[t]
  <2>1. n \in Node /\ Inputs[n] \subseteq Node /\ PhantomInputs[n] \subseteq Node
    BY Graph
  <2>2. CASE FailFast(t)
    <3>1. PICK d \in Awaited(t) :
              IsErr(data[d]) /\ outcome' = [outcome EXCEPT ![t] = Failure(data[d].errors)]
      BY <2>2 DEF FailFast
    <3>2. FailedWith(data, d, outcome'[t]) /\ data' = data
      BY <2>2, <3>1 DEF FailFast, FailedWith, TypeOK
    <3>3. CASE stage[t] = "phantoms"
      <4>1. d \in PhantomInputs[n]
        BY <3>3, TaskAssumption DEF Awaited
      <4>2. QED BY <3>2, <4>1 DEF Justified, PhantomFailed
    <3>4. CASE stage[t] = "inputs" /\ n \notin Gather
      <4>1. d \in Inputs[n]
        BY <3>4, TaskAssumption DEF Awaited
      <4>2. QED BY <3>2, <3>4, <4>1 DEF Justified, InputFailed, PhantomsOk, StageJustified
    <3>5. QED BY <2>2, <3>3, <3>4 DEF FailFast
  <2>3. CASE GatherErrors(t)
    <3> DEFINE E == UNION {data[d].errors : d \in Inputs[n]}
    <3>1. outcome'[t] = Failure(E) /\ data' = data
      BY <2>3 DEF GatherErrors, TypeOK
    <3>2. E # {}
      BY <2>3, <2>1 DEF GatherErrors, IsErr
    <3>3. IsErr(Failure(E))
      BY <3>2, ResultFacts DEF IsErr
    <3>4. Gathered(data, n, outcome'[t])
      BY <2>3, <3>1, <3>3 DEF GatherErrors, Gathered, PhantomsOk, StageJustified
    <3>5. QED BY <3>1, <3>4 DEF Justified
  <2>4. CASE WorkEnds(t)
    <3>1. PhantomsOk(data, n) /\ InputsOk(data, n) /\ data' = data
      BY <2>4 DEF WorkEnds, StageJustified, PhantomsOk, InputsOk
    <3>2. outcome'[t] = Success \/ (n \in Fallible /\ outcome'[t] = Failure({n}))
      BY <2>4 DEF WorkEnds, TypeOK
    <3>3. QED BY <3>1, <3>2 DEF Justified, Worked
  <2>5. CASE stage'[t] = stage[t] /\ outcome'[t] = outcome[t]
    <3>1. Justified(data, n, outcome[t])
      BY <1>3, <2>5 DEF OutcomesJustified
    <3>2. QED BY <1>1, <2>1, <2>5, <3>1, JustifiedStable
  <2>6. QED BY <1>2, <1>3, <2>2, <2>3, <2>4, <2>5
<1>4. QED BY <1>3 DEF OutcomesJustified

(* A cell is only set to what its task returned.                            *)
LEMMA CellStep ==
    ASSUME TypeOK, SetCellsAreFree, OutcomesJustified, CellsJustified, [Next]_vars
    PROVE  CellsJustified'
<1>1. \A n \in Node : data[n] # Pending => data'[n] = data[n]
  BY DataStable
<1>2. ASSUME NEW n \in Node, data'[n] # Pending
      PROVE  Justified(data, n, data'[n])
  <2>1. CASE data'[n] = data[n]
    BY <1>2, <2>1 DEF CellsJustified
  <2>2. CASE \E t \in Task : Memoize(t) /\ NodeOf[t] = n
    BY <2>2 DEF Memoize, OutcomesJustified, TypeOK
  <2>3. data'[n] = data[n] \/ \E t \in Task : Memoize(t) /\ NodeOf[t] = n
    BY DEF Next, TaskStep, RunStep, Terminated, vars, TypeOK, GetOrInit, Memoize,
       PhantomsResolved, InputsResolved, FailFast, GatherErrors, WorkEnds, Cancelled,
       RunResolved, CtrlC, Reclaim, Retry, GiveUp
  <2>4. QED BY <2>1, <2>2, <2>3
<1>3. QED BY <1>1, <1>2, JustifiedStable DEF CellsJustified

LEMMA ExitStep ==
    ASSUME TypeOK, SetCellsAreFree, ExitIsRoot, [Next]_vars
    PROVE  ExitIsRoot'
<1>1. data[Root] # Pending => data'[Root] = data[Root]
  BY DataStable, Graph
<1>2. CASE RunResolved
  BY <1>2 DEF RunResolved, ExitIsRoot
<1>3. CASE exit' = exit /\ (run' = "resolving" => run = "resolving")
  BY <1>1, <1>3 DEF ExitIsRoot
<1>4. QED
  BY <1>2, <1>3 DEF Next, TaskStep, RunStep, Terminated, vars, GetOrInit, Memoize,
     PhantomsResolved, InputsResolved, FailFast, GatherErrors, WorkEnds, Cancelled,
     CtrlC, Reclaim, Retry, GiveUp

LEMMA AbortStep ==
    ASSUME TypeOK, SetCellsAreFree, ExitIsRoot, AbortsHaveCause, [Next]_vars
    PROVE  AbortsHaveCause'
<1>1. \A n \in Node : data[n] # Pending => data'[n] = data[n]
  BY DataStable
<1>2. (\E n \in Node : IsErr(data[n])) => \E n \in Node : IsErr(data'[n])
  BY <1>1 DEF IsErr, Pending
<1>3. Interrupted => Interrupted'
  BY DEF Interrupted, Next, TaskStep, RunStep, Terminated, vars, GetOrInit, Memoize,
     PhantomsResolved, InputsResolved, FailFast, GatherErrors, WorkEnds, Cancelled,
     RunResolved, CtrlC, Reclaim, Retry, GiveUp
<1>4. ASSUME NEW s \in Task, aborted'[s]
      PROVE  Interrupted' \/ \E n \in Node : IsErr(data'[n])
  <2>1. CASE aborted' = aborted
    BY <1>2, <1>3, <1>4, <2>1 DEF AbortsHaveCause
  <2>2. ASSUME NEW t \in Task, FailFast(t)
        PROVE  \E n \in Node : IsErr(data'[n])
    BY <2>2, AwaitedNodes DEF FailFast, Caller
  <2>3. ASSUME NEW t \in Task, Cancelled(t)
        PROVE  Interrupted' \/ \E n \in Node : IsErr(data'[n])
    BY <1>2, <1>3, <2>3 DEF Cancelled, AbortsHaveCause
  <2>4. CASE CtrlC
    BY <2>4 DEF CtrlC, Interrupted, ExitIsRoot
  <2>5. QED
    BY <2>1, <2>2, <2>3, <2>4 DEF Next, TaskStep, RunStep, Terminated, vars,
       GetOrInit, Memoize, PhantomsResolved, InputsResolved, GatherErrors,
       WorkEnds, RunResolved, Reclaim, Retry, GiveUp
<1>5. QED BY <1>4 DEF AbortsHaveCause

(* If the start node succeeded then so did every node it needs.             *)
LEMMA AllSucceeded ==
    ASSUME CellsJustified, data[Root] = Success
    PROVE  \A n \in Node : data[n] = Success
<1> DEFINE S == {n \in Node : data[n] # Success}
<1>1. ASSUME NEW n \in Node, data[n] = Success, NEW d \in Deps(n)
      PROVE  data[d] = Success
  <2>1. Justified(data, n, Success)
    BY <1>1, ResultFacts DEF CellsJustified
  <2>2. Worked(data, n, Success)
    BY <2>1, ResultFacts DEF Justified, PhantomFailed, InputFailed, Gathered, FailedWith
  <2>3. QED BY <1>1, <2>2 DEF Worked, PhantomsOk, InputsOk, Deps
<1>2. S \in SUBSET (Node \ {Root})
  BY Graph
<1>3. CASE S # {}
  <2>1. PICK p \in Node \ S : Deps(p) \cap S # {}
    BY <1>2, <1>3, GraphAssumption
  <2>2. QED BY <1>1, <2>1
<1>4. QED BY <1>3

(* The clean finish, from the parts of the invariant.                       *)
LEMMA NobodyLeft ==
    ASSUME TypeOK, RunnerOwnsPermit, SetCellsAreFree, CellsJustified,
           AbortsHaveCause, ExitIsRoot, exit = Success
    PROVE  \A t \in Task : ~Live(t)
<1>1. \A n \in Node : data[n] = Success
  BY AllSucceeded, ResultFacts DEF ExitIsRoot
<1>2. ~Interrupted /\ ~ \E n \in Node : IsErr(data[n])
  BY <1>1, ResultFacts DEF Interrupted, IsErr
<1>3. \A n \in Node : permit[n] = NoOne
  BY <1>1, ResultFacts DEF SetCellsAreFree
<1>4. QED BY <1>2, <1>3, Graph DEF AbortsHaveCause, RunnerOwnsPermit

LEMMA CleanStep ==
    ASSUME IInv, [Next]_vars
    PROVE  SuccessIsClean'
<1>1. exit = Success => ~Retry
  BY NobodyLeft DEF IInv, Retry
<1>2. CASE RunResolved
  BY <1>2 DEF RunResolved, SuccessIsClean
<1>3. CASE Reclaim \/ CtrlC
  BY <1>3 DEF Reclaim, CtrlC, SuccessIsClean
<1>4. CASE GiveUp \/ Retry
  BY <1>1, <1>4 DEF GiveUp, Retry, SuccessIsClean, IInv
<1>5. CASE exit' = exit /\ run' = run
  BY <1>5 DEF IInv, SuccessIsClean
<1>6. QED
  BY <1>2, <1>3, <1>4, <1>5 DEF Next, TaskStep, RunStep, Terminated, vars, GetOrInit,
     Memoize, PhantomsResolved, InputsResolved, FailFast, GatherErrors, WorkEnds,
     Cancelled

LEMMA BlamedStep ==
    ASSUME TypeOK, ErrorsBlamed, [Next]_vars
    PROVE  ErrorsBlamed'
<1>1. \A n \in Node : ran[n] > 0 => ran'[n] > 0
  <2>1. ASSUME NEW t \in Task, InputsResolved(t)
        PROVE  \A n \in Node : ran[n] > 0 => ran'[n] > 0
    BY <2>1, Graph DEF InputsResolved, TypeOK
  <2>2. CASE ran' = ran
    BY <2>2
  <2>3. QED
    BY <2>1, <2>2 DEF Next, TaskStep, RunStep, Terminated, vars, GetOrInit, Memoize,
       PhantomsResolved, FailFast, GatherErrors, WorkEnds, Cancelled,
       RunResolved, CtrlC, Reclaim, Retry, GiveUp
<1>2. ASSUME NEW S \in SUBSET Node, Blamed(ran, S) PROVE Blamed(ran', S)
  BY <1>1, <1>2 DEF Blamed
<1>3. /\ \A n \in Node : data[n].errors \in SUBSET Node
      /\ \A t \in Task : outcome[t].errors \in SUBSET Node
      /\ exit.errors \in SUBSET Node
  BY DEF TypeOK, Result
<1>4. /\ \A n \in Node : Blamed(ran', data[n].errors)
      /\ \A t \in Task : Blamed(ran', outcome[t].errors)
      /\ Blamed(ran', exit.errors)
  BY <1>2, <1>3 DEF ErrorsBlamed
<1>5. \A n \in Node : Blamed(ran', data'[n].errors)
  <2>1. ASSUME NEW t \in Task, Memoize(t)
        PROVE  \A n \in Node : Blamed(ran', data'[n].errors)
    BY <1>4, <2>1, Graph DEF Memoize, TypeOK
  <2>2. CASE data' = data
    BY <1>4, <2>2
  <2>3. QED
    BY <2>1, <2>2 DEF Next, TaskStep, RunStep, Terminated, vars, GetOrInit,
       PhantomsResolved, InputsResolved, FailFast, GatherErrors, WorkEnds, Cancelled,
       RunResolved, CtrlC, Reclaim, Retry, GiveUp
<1>6. \A s \in Task : Blamed(ran', outcome'[s].errors)
  <2>1. ASSUME NEW t \in Task, FailFast(t), NEW s \in Task
        PROVE  Blamed(ran', outcome'[s].errors)
    <3>1. PICK d \in Awaited(t) : outcome' = [outcome EXCEPT ![t] = Failure(data[d].errors)]
      BY <2>1 DEF FailFast
    <3>2. d \in Node
      BY AwaitedNodes DEF Caller
    <3>3. CASE s = t
      <4>1. outcome'[s].errors = data[d].errors
        BY <3>1, <3>3, ResultFacts DEF TypeOK
      <4>2. QED BY <1>4, <3>2, <4>1
    <3>4. CASE s # t
      BY <1>4, <3>1, <3>4 DEF TypeOK
    <3>5. QED BY <3>3, <3>4
  <2>2. ASSUME NEW t \in Task, GatherErrors(t), NEW s \in Task
        PROVE  Blamed(ran', outcome'[s].errors)
    <3> DEFINE E == UNION {data[d].errors : d \in Inputs[NodeOf[t]]}
    <3>1. outcome' = [outcome EXCEPT ![t] = Failure(E)]
      BY <2>2 DEF GatherErrors
    <3>2. CASE s = t
      <4>1. outcome'[s].errors = E
        BY <3>1, <3>2, ResultFacts DEF TypeOK
      <4>2. Inputs[NodeOf[t]] \subseteq Node
        BY Graph
      <4>3. Blamed(ran', E)
        BY <1>4, <4>2 DEF Blamed
      <4>4. QED BY <4>1, <4>3
    <3>3. CASE s # t
      BY <1>4, <3>1, <3>3 DEF TypeOK
    <3>4. QED BY <3>2, <3>3
  <2>3. ASSUME NEW t \in Task, WorkEnds(t), NEW s \in Task
        PROVE  Blamed(ran', outcome'[s].errors)
    <3>1. CASE s = t
      <4>1. ran'[NodeOf[t]] > 0
        BY <1>1, <2>3, Graph DEF WorkEnds, ErrorsBlamed
      <4>2. \/ outcome'[s].errors = {}
            \/ NodeOf[t] \in Fallible /\ outcome'[s].errors = {NodeOf[t]}
        BY <2>3, <3>1, ResultFacts DEF WorkEnds, TypeOK
      <4>3. QED BY <4>1, <4>2 DEF Blamed
    <3>2. CASE s # t
      BY <1>4, <2>3, <3>2 DEF WorkEnds, TypeOK
    <3>3. QED BY <3>1, <3>2
  <2>4. CASE outcome' = outcome
    BY <1>4, <2>4
  <2>5. QED
    BY <2>1, <2>2, <2>3, <2>4 DEF Next, TaskStep, RunStep, Terminated, vars,
       GetOrInit, Memoize, PhantomsResolved, InputsResolved, Cancelled,
       RunResolved, CtrlC, Reclaim, Retry, GiveUp
<1>7. Blamed(ran', exit'.errors)
  <2>1. exit' = exit \/ exit' = data[Root]
    BY DEF Next, TaskStep, RunStep, Terminated, vars, GetOrInit, Memoize,
       PhantomsResolved, InputsResolved, FailFast, GatherErrors, WorkEnds, Cancelled,
       RunResolved, CtrlC, Reclaim, Retry, GiveUp
  <2>2. QED BY <1>4, <2>1, Graph
<1>8. ASSUME NEW s \in Task, stage'[s] = "work" PROVE ran'[NodeOf[s]] > 0
  <2>1. CASE InputsResolved(s)
    BY <2>1, Graph DEF InputsResolved, TypeOK
  <2>2. CASE stage[s] = "work"
    BY <1>1, <2>2, Graph DEF ErrorsBlamed
  <2>3. InputsResolved(s) \/ stage[s] = "work"
    BY <1>8 DEF Next, TaskStep, RunStep, Terminated, vars, TypeOK, GetOrInit, Memoize,
       PhantomsResolved, InputsResolved, FailFast, GatherErrors, WorkEnds, Cancelled,
       RunResolved, CtrlC, Reclaim, Retry, GiveUp
  <2>4. QED BY <2>1, <2>2, <2>3
<1>9. QED BY <1>5, <1>6, <1>7, <1>8 DEF ErrorsBlamed

-----------------------------------------------------------------------------
LEMMA InvariantInit == Init => IInv
<1> SUFFICES ASSUME Init PROVE IInv
  OBVIOUS
<1>1. TypeOK
  BY TypeInit
<1>2. /\ RunnerOwnsPermit /\ SetCellsAreFree /\ StageJustified /\ OutcomesJustified
      /\ CellsJustified /\ AbortsHaveCause /\ ExitIsRoot /\ SuccessIsClean
  BY ResultFacts DEF Init, RunnerOwnsPermit, SetCellsAreFree, StageJustified,
     OutcomesJustified, CellsJustified, AbortsHaveCause, ExitIsRoot, SuccessIsClean, Live
<1>3. ErrorsBlamed
  BY ResultFacts DEF Init, ErrorsBlamed, Blamed
<1>4. QED BY <1>1, <1>2, <1>3 DEF IInv

(* The inductive invariant: who owns a cell, why a task may be aborted, and *)
(* that every outcome is the one the node's contract asks for.              *)
THEOREM Invariant == Spec => []IInv
<1>1. IInv /\ [Next]_vars => IInv'
  BY TypeStep, RunnerStep, FreeStep, StageStep, OutcomeStep, CellStep, ExitStep,
     AbortStep, CleanStep, BlamedStep DEF IInv
<1>2. QED BY InvariantInit, <1>1, PTL DEF Spec

(* Of all live tasks of a node at most one was not told to stop, although   *)
(* cells are taken over from dropped callers (scheduler.rs, get_output).    *)
THEOREM OneRunnerHolds == Spec => []OneRunner
<1>1. IInv => OneRunner
  BY Graph DEF IInv, RunnerOwnsPermit, OneRunner
<1>2. QED BY Invariant, <1>1, PTL

(* After a successful run no task is left, so that the context is reclaimed *)
(* at the first attempt (engine/mod.rs, run).                               *)
THEOREM CleanFinishHolds == Spec => []CleanFinish
<1>1. IInv => CleanFinish
  BY NobodyLeft DEF IInv, CleanFinish, SuccessIsClean
<1>2. QED BY Invariant, <1>1, PTL

(* Node work is only ever done on memoized successes.                       *)
THEOREM WorkOnSuccessHolds == Spec => []WorkOnSuccess
<1>1. IInv => WorkOnSuccess
  BY DEF IInv, StageJustified, WorkOnSuccess, Deps
<1>2. QED BY Invariant, <1>1, PTL

(* A failed run blames nodes whose own work was started and may fail.       *)
THEOREM ErrorsAreRealHolds == Spec => []ErrorsAreReal
<1>1. IInv => ErrorsAreReal
  BY DEF IInv, ErrorsBlamed, Blamed, ErrorsAreReal
<1>2. QED BY Invariant, <1>1, PTL

(* The contract's operators are those of the graph.                         *)
LEMMA SameGraph ==
    /\ Contract!Pending = Pending
    /\ Contract!Result = Result
    /\ \A v, n, r : Justified(v, n, r) => Contract!Justified(v, n, r)
BY DEF Pending, Success, Failure, Result, IsErr, PhantomsOk, InputsOk, Worked,
   FailedWith, PhantomFailed, InputFailed, Gathered, Justified,
   Contract!Pending, Contract!Success, Contract!Failure, Contract!Result,
   Contract!IsErr, Contract!PhantomsOk, Contract!InputsOk, Contract!Worked,
   Contract!FailedWith, Contract!PhantomFailed, Contract!InputFailed,
   Contract!Gathered, Contract!Justified

(* The scheduler implements the abstract evaluation.                        *)
THEOREM RefinementHolds == Spec => Refinement
<1>1. Init => Contract!Init
  BY SameGraph DEF Init, Contract!Init
<1>2. IInv /\ [Next]_vars => [Contract!Next]_data
  <2> SUFFICES ASSUME IInv, [Next]_vars, data' # data PROVE Contract!Next
    OBVIOUS
  <2>1. PICK t \in Task : Memoize(t)
    BY DEF Next, TaskStep, RunStep, Terminated, vars, GetOrInit, PhantomsResolved,
       InputsResolved, FailFast, GatherErrors, WorkEnds, Cancelled, RunResolved,
       CtrlC, Reclaim, Retry, GiveUp
  <2> DEFINE n == NodeOf[t]
  <2>2. n \in Node /\ outcome[t] \in Result /\ outcome[t] # Pending
    BY <2>1, Graph DEF IInv, TypeOK, Memoize
  <2>3. data[n] = Pending
    BY <2>1, <2>2, Graph DEF IInv, SetCellsAreFree, Memoize
  <2>4. Justified(data, n, outcome[t])
    BY <2>1 DEF IInv, OutcomesJustified, Memoize
  <2>5. Contract!Decide(n, outcome[t])
    BY <2>1, <2>2, <2>3, <2>4, SameGraph DEF Contract!Decide, Memoize
  <2>6. QED BY <2>2, <2>5, SameGraph DEF Contract!Next
<1>3. QED BY Invariant, <1>1, <1>2, PTL DEF Spec, Refinement, Contract!Spec
=============================================================================
