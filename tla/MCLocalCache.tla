--------------------------- MODULE MCLocalCache ---------------------------
(* Two processes write the same entry, one of them from two tasks, and one  *)
(* of them writes another entry too.                                        *)
EXTENDS LocalCache

Writers == {"first", "again", "other", "aside"}
WriterKey == [w \in Writers |-> IF w = "aside" THEN "k2" ELSE "k1"]
WriterProcess == [w \in Writers |-> IF w \in {"first", "again"} THEN "p1" ELSE "p2"]
=============================================================================
