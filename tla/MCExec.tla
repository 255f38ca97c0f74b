------------------------------- MODULE MCExec -------------------------------
(***************************************************************************)
(* Two execs of the same shape, a command and its service, and one whose   *)
(* command has a service that has a service itself.                        *)
(***************************************************************************)
EXTENDS Exec

Execs == {"e1", "e2", "e3"}
Containers == {"c1", "s1", "c2", "s2", "c3", "s3", "t3"}
Owner ==
    [c1 |-> "e1", s1 |-> "e1", c2 |-> "e2", s2 |-> "e2",
     c3 |-> "e3", s3 |-> "e3", t3 |-> "e3"]
Users ==
    [c1 |-> "none", s1 |-> "c1", c2 |-> "none", s2 |-> "c2",
     c3 |-> "none", s3 |-> "c3", t3 |-> "s3"]
Shapes == [e1 |-> "pair", e2 |-> "pair", e3 |-> "chain"]
=============================================================================
