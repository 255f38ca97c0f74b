---------------------------- MODULE Evaluation ----------------------------
(***************************************************************************)
(* What the scheduler promises, without tasks, cells or cancellation: each *)
(* node's outcome is decided once, after the outcomes it depends on, and   *)
(* it is the outcome the node's contract asks for.                         *)
(***************************************************************************)
EXTENDS NodeGraph

VARIABLE value  \* the outcome of every node, Pending while undecided

Init == value = [n \in Node |-> Pending]

Decide(n, r) ==
    /\ value[n] = Pending
    /\ r # Pending
    /\ Justified(value, n, r)
    /\ value' = [value EXCEPT ![n] = r]

Next == \E n \in Node, r \in Result : Decide(n, r)

Spec == Init /\ [][Next]_value
=============================================================================
