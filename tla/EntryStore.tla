---------------------------- MODULE EntryStore ----------------------------
(***************************************************************************)
(* What a cache backend promises its callers (`CacheBackend`,              *)
(* engine/cache/mod.rs): an entry appears whole or not at all, it is one   *)
(* of the values written to its key, it never goes away, and one process   *)
(* writes a key at most once.                                              *)
(***************************************************************************)
CONSTANTS
    Key,       \* cache hashes
    Process,   \* invocations of serpentine sharing the cache directory
    Writer,    \* calls of write_key; also the value the call is to write
    KeyOf,     \* the key a writer writes
    ProcessOf, \* the process it belongs to
    NoEntry

VARIABLES
    entry,   \* the value read_key finds under a key
    authors  \* the processes that wrote it

Init ==
    /\ entry = [k \in Key |-> NoEntry]
    /\ authors = [k \in Key |-> {}]

Publish(w) ==
    LET k == KeyOf[w] IN
    /\ ProcessOf[w] \notin authors[k]
    /\ entry' = [entry EXCEPT ![k] = w]
    /\ authors' = [authors EXCEPT ![k] = @ \cup {ProcessOf[w]}]

vars == <<entry, authors>>

Next == \E w \in Writer : Publish(w)

Spec == Init /\ [][Next]_vars
=============================================================================
