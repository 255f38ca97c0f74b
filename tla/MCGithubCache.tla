--------------------------- MODULE MCGithubCache ---------------------------
(* Two jobs write the same entry, one of them from two tasks.               *)
EXTENDS GithubCache

Writers == {"first", "again", "other"}
WriterKey == [w \in Writers |-> "k"]
WriterProcess == [w \in Writers |-> IF w = "other" THEN "p2" ELSE "p1"]
WriterLength == [w \in Writers |-> IF w = "first" THEN 11 ELSE 2]
=============================================================================
