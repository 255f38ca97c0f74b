---------------------------- MODULE LocalCache ----------------------------
(***************************************************************************)
(* LocalCacheBackend (engine/cache/filesystem_backend.rs): the cache       *)
(* directory several serpentine processes write to.                        *)
(*                                                                         *)
(* A call of write_key takes the process's lock on the key, which nothing  *)
(* ever releases, looks for the entry, and hands out a scratch file that   *)
(* poll_shutdown renames to the entry.  The caller's task may be aborted   *)
(* at any await and its process may die at any step.  Writes and the       *)
(* rename are done by background threads, which an abort does not stop.    *)
(***************************************************************************)
EXTENDS Naturals

CONSTANTS
    Key, Process, Writer, KeyOf, ProcessOf, NoEntry, \* as in EntryStore
    Length,      \* chunks of data every writer has to write
    StatFails    \* writers whose try_exists fails, which reads as "absent"

ASSUME LocalCacheAssumption ==
    /\ KeyOf \in [Writer -> Key]
    /\ ProcessOf \in [Writer -> Process]
    /\ NoEntry \notin Writer
    /\ Length \in Nat
    /\ StatFails \subseteq Writer

VARIABLES
    locks,    \* LocalCacheBackend.locks of every process
    up,       \* the processes that are running
    stage,    \* where every call of write_key stands
    accepted, \* chunks poll_write took from the caller
    file,     \* chunks that are in the writer's file
    dir       \* the writer whose file has the name of the key's entry

vars == <<locks, up, stage, accepted, file, dir>>

Stage == {"idle", "checking", "creating", "writing", "renaming", "done",
          "refused", "exists", "failed", "detached", "dropped"}

(* The call holds the scratch file, or is about to.                         *)
Attempting(w) == stage[w] \in {"checking", "creating", "writing", "renaming"}

Running(w) == ProcessOf[w] \in up

Init ==
    /\ locks = [p \in Process |-> {}]
    /\ up = Process
    /\ stage = [w \in Writer |-> "idle"]
    /\ accepted = [w \in Writer |-> 0]
    /\ file = [w \in Writer |-> 0]
    /\ dir = [k \in Key |-> NoEntry]

-----------------------------------------------------------------------------
(* write_key up to the returned future: the lock is taken before anything   *)
(* is polled.                                                               *)
WriteKey(w) ==
    LET p == ProcessOf[w] IN
    /\ stage[w] = "idle" /\ Running(w)
    /\ KeyOf[w] \notin locks[p]
    /\ locks' = [locks EXCEPT ![p] = @ \cup {KeyOf[w]}]
    /\ stage' = [stage EXCEPT ![w] = "checking"]
    /\ UNCHANGED <<up, accepted, file, dir>>

(* The lock is taken: None.                                                 *)
Refused(w) ==
    /\ stage[w] = "idle" /\ Running(w)
    /\ KeyOf[w] \in locks[ProcessOf[w]]
    /\ stage' = [stage EXCEPT ![w] = "refused"]
    /\ UNCHANGED <<locks, up, accepted, file, dir>>

(* try_exists finds the entry: None.                                        *)
EntryExists(w) ==
    /\ stage[w] = "checking" /\ Running(w)
    /\ w \notin StatFails
    /\ dir[KeyOf[w]] # NoEntry
    /\ stage' = [stage EXCEPT ![w] = "exists"]
    /\ UNCHANGED <<locks, up, accepted, file, dir>>

EntryAbsent(w) ==
    /\ stage[w] = "checking" /\ Running(w)
    /\ w \in StatFails \/ dir[KeyOf[w]] = NoEntry
    /\ stage' = [stage EXCEPT ![w] = "creating"]
    /\ UNCHANGED <<locks, up, accepted, file, dir>>

(* ScratchFile::create: the file has a name of its own (a uuid).            *)
Create(w) ==
    /\ stage[w] = "creating" /\ Running(w)
    /\ stage' = [stage EXCEPT ![w] = "writing"]
    /\ UNCHANGED <<locks, up, accepted, file, dir>>

(* Mutant: nobody stops the writer at the end of the data.                  *)
PollWritePastEnd(w) ==
    /\ stage[w] = "writing" /\ Running(w)
    /\ file[w] = accepted[w]
    /\ accepted' = [accepted EXCEPT ![w] = @ + 1]
    /\ UNCHANGED <<locks, up, stage, file, dir>>

(* poll_write: the chunk is taken once the one before is in the file.       *)
PollWrite(w) ==
    /\ stage[w] = "writing" /\ Running(w)
    /\ accepted[w] < Length
    /\ file[w] = accepted[w]
    /\ accepted' = [accepted EXCEPT ![w] = @ + 1]
    /\ UNCHANGED <<locks, up, stage, file, dir>>

(* The background thread writes the chunk, whatever became of the caller.   *)
ChunkLands(w) ==
    /\ Running(w)
    /\ file[w] < accepted[w]
    /\ file' = [file EXCEPT ![w] = accepted[w]]
    /\ UNCHANGED <<locks, up, stage, accepted, dir>>

(* Mutant: the rename does not wait for the last chunk.                     *)
ShutdownUnflushed(w) ==
    /\ stage[w] = "writing" /\ Running(w)
    /\ accepted[w] = Length
    /\ stage' = [stage EXCEPT ![w] = "renaming"]
    /\ UNCHANGED <<locks, up, accepted, file, dir>>

(* poll_shutdown: the file is flushed, then the rename starts.  Callers     *)
(* shut the writer down only after they wrote everything.                   *)
Shutdown(w) ==
    /\ stage[w] = "writing" /\ Running(w)
    /\ accepted[w] = Length
    /\ file[w] = accepted[w]
    /\ stage' = [stage EXCEPT ![w] = "renaming"]
    /\ UNCHANGED <<locks, up, accepted, file, dir>>

(* The rename happens, even if the task that asked for it was aborted.      *)
Rename(w) ==
    /\ stage[w] \in {"renaming", "detached"} /\ Running(w)
    /\ dir' = [dir EXCEPT ![KeyOf[w]] = w]
    /\ stage' = [stage EXCEPT ![w] = "done"]
    /\ UNCHANGED <<locks, up, accepted, file>>

(* Creating, writing or renaming the file fails, and the caller drops the   *)
(* writer.                                                                  *)
IoError(w) ==
    /\ Running(w)
    /\ \/ stage[w] \in {"creating", "renaming", "detached"}
       \/ stage[w] = "writing" /\ file[w] < accepted[w]
    /\ accepted' = [accepted EXCEPT ![w] = file[w]]
    /\ stage' = [stage EXCEPT ![w] = "failed"]
    /\ UNCHANGED <<locks, up, file, dir>>

(* Mutant: a dropped writer releases its key.                               *)
DropUnlocks(w) ==
    /\ Attempting(w) /\ Running(w)
    /\ stage' = [stage EXCEPT
                   ![w] = IF stage[w] = "renaming" THEN "detached" ELSE "dropped"]
    /\ locks' = [locks EXCEPT ![ProcessOf[w]] = @ \ {KeyOf[w]}]
    /\ UNCHANGED <<up, accepted, file, dir>>

(* The caller's task is aborted, or its export fails: the writer is         *)
(* dropped, its lock stays, and a rename that was asked for goes on.        *)
Drop(w) ==
    /\ Attempting(w) /\ Running(w)
    /\ stage' = [stage EXCEPT
                   ![w] = IF stage[w] = "renaming" THEN "detached" ELSE "dropped"]
    /\ UNCHANGED <<locks, up, accepted, file, dir>>

(* The process ends, cleanly or not, and its locks with it.  A rename that  *)
(* was not done is not done any more.                                       *)
Exit(p) ==
    /\ p \in up
    /\ up' = up \ {p}
    /\ stage' = [w \in Writer |->
                   IF ProcessOf[w] = p /\ (Attempting(w) \/ stage[w] = "detached")
                     THEN "dropped" ELSE stage[w]]
    /\ UNCHANGED <<locks, accepted, file, dir>>

WriterStep(w) ==
    \/ WriteKey(w) \/ Refused(w) \/ EntryExists(w) \/ EntryAbsent(w)
    \/ Create(w) \/ PollWrite(w) \/ ChunkLands(w) \/ Shutdown(w)
    \/ Rename(w) \/ IoError(w) \/ Drop(w)

Next == (\E w \in Writer : WriterStep(w)) \/ (\E p \in Process : Exit(p))

Spec == Init /\ [][Next]_vars

-----------------------------------------------------------------------------
TypeOK ==
    /\ locks \in [Process -> SUBSET Key]
    /\ up \subseteq Process
    /\ stage \in [Writer -> Stage]
    /\ accepted \in [Writer -> 0..Length]
    /\ file \in [Writer -> 0..Length]
    /\ dir \in [Key -> Writer \cup {NoEntry}]
    /\ \A w \in Writer : file[w] <= accepted[w]

(* read_key: what a reader of the key opens.                                *)
ReadKey(k) == dir[k]

(* "An interrupted run leaves nothing for the next one to find": whatever   *)
(* is aborted, fails or dies, a reader that opens an entry finds a file     *)
(* with all of one writer's data (ScratchFile, filesystem_backend.rs).      *)
WholeEntries ==
    \A k \in Key : ReadKey(k) # NoEntry =>
        KeyOf[ReadKey(k)] = k /\ file[ReadKey(k)] = Length

(* The directory is the store callers are promised: entries appear whole,   *)
(* stay, and a process writes none of them twice, although a rename may     *)
(* happen long after the task that asked for it is gone.                    *)
Whole(k) == dir[k] # NoEntry /\ file[dir[k]] = Length
Store == INSTANCE EntryStore WITH
    entry   <- [k \in Key |-> IF Whole(k) THEN dir[k] ELSE NoEntry],
    authors <- [k \in Key |->
                  {ProcessOf[w] : w \in {v \in Writer : KeyOf[v] = k /\ stage[v] = "done"}}]
Refinement == Store!Spec
=============================================================================
