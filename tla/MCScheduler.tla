---------------------------- MODULE MCScheduler ----------------------------
(***************************************************************************)
(* Small graphs for the scheduler.  A task is named by the chain of nodes  *)
(* that asked for it: <<"root", "a", "x">> runs "x" for "a" for "root".    *)
(***************************************************************************)
EXTENDS Scheduler, Sequences, FiniteSets

Nodes == {"root", "a", "b", "f", "x"}

(* A gathering root over two branches that share x: a needs its value and   *)
(* fails fast when f fails, b only needs its side effect to have happened.  *)
NodeInputs == [root |-> {"a", "b"}, a |-> {"f", "x"}, b |-> {}, f |-> {}, x |-> {}]

NodePhantoms == [n \in Nodes |-> IF n = "b" THEN {"x"} ELSE {}]

Gathering == {"root"}

Callees(n) == NodeInputs[n] \cup NodePhantoms[n]

Chains[len \in 1..Cardinality(Nodes)] ==
    IF len = 1
      THEN {<<"root">>}
      ELSE Chains[len - 1] \cup
           UNION {{Append(c, n) : n \in Callees(c[Len(c)])} : c \in Chains[len - 1]}

Chain == Chains[Cardinality(Nodes)]
ChainNode == [c \in Chain |-> c[Len(c)]]
ChainCaller == [c \in Chain |-> SubSeq(c, 1, Len(c) - 1)]

Run == <<>>
Nobody == <<"nobody">>
=============================================================================
