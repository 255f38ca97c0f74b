----------------------------- MODULE NodeGraph -----------------------------
(***************************************************************************)
(* The compiled graph the scheduler runs (engine/data_model.rs, `Graph`),  *)
(* restricted to the nodes the start node needs, and what it means for a   *)
(* node's outcome to be the right one given the outcomes it depends on.    *)
(***************************************************************************)

CONSTANTS
    Node,          \* node instances of the graph
    Root,          \* the start node
    Inputs,        \* Node.inputs, as a set: position and repetition do not matter here
    PhantomInputs, \* Node.phantom_inputs: nodes that only have to succeed first
    Gather,        \* instances of the `All` node, which waits for every input
    Fallible       \* nodes whose own work may return an error (or panic)

Deps(n) == Inputs[n] \cup PhantomInputs[n]

(* Every node is needed by the start node: a set of nodes without the start *)
(* node has a member some node outside the set depends on.                  *)
ASSUME GraphAssumption ==
    /\ Root \in Node
    /\ Inputs \in [Node -> SUBSET Node]
    /\ PhantomInputs \in [Node -> SUBSET Node]
    /\ Gather \subseteq Node
    /\ Fallible \subseteq Node
    /\ \A S \in SUBSET (Node \ {Root}) :
          S # {} => \E p \in Node \ S : Deps(p) \cap S # {}

-----------------------------------------------------------------------------

(* A `Result<Data, SharedReport>`: the data is abstracted away, an error is *)
(* the set of nodes whose own failure the report names (`NodeError`,        *)
(* `AllErrors`).  Pending is the empty `OnceCell`.                          *)
Result  == [ok : BOOLEAN, errors : SUBSET Node]
Pending == [ok |-> FALSE, errors |-> {}]
Success == [ok |-> TRUE, errors |-> {}]
Failure(S) == [ok |-> FALSE, errors |-> S]

IsErr(r) == r.errors # {}

(* How the outcome r of node n can come about, v being the outcomes of all  *)
(* nodes: its own work succeeds or fails, a phantom input failed, an input  *)
(* failed, or an `All` gathered the errors of its inputs.                   *)
PhantomsOk(v, n) == \A d \in PhantomInputs[n] : v[d] = Success
InputsOk(v, n) == \A d \in Inputs[n] : v[d] = Success

Worked(v, n, r) ==
    /\ PhantomsOk(v, n) /\ InputsOk(v, n)
    /\ r = Success \/ (n \in Fallible /\ r = Failure({n}))

FailedWith(v, d, r) == IsErr(v[d]) /\ r = Failure(v[d].errors)

PhantomFailed(v, n, r) == \E d \in PhantomInputs[n] : FailedWith(v, d, r)

InputFailed(v, n, r) ==
    /\ n \notin Gather
    /\ PhantomsOk(v, n)
    /\ \E d \in Inputs[n] : FailedWith(v, d, r)

Gathered(v, n, r) ==
    /\ n \in Gather
    /\ PhantomsOk(v, n)
    /\ \A d \in Inputs[n] : v[d] # Pending
    /\ r = Failure(UNION {v[d].errors : d \in Inputs[n]})
    /\ IsErr(r)

Justified(v, n, r) ==
    Worked(v, n, r) \/ PhantomFailed(v, n, r)
      \/ InputFailed(v, n, r) \/ Gathered(v, n, r)
=============================================================================
