---------------------------- MODULE GithubCache ----------------------------
(***************************************************************************)
(* GithubActionsBackend and AzureBlobWriter                                *)
(* (engine/cache/github_backend.rs): cache entries on the service of       *)
(* GitHub Actions, written by several jobs.                                *)
(*                                                                         *)
(* write_key looks the key up, creates it at GitHub and hands out a        *)
(* writer that cuts what it is given into blocks and uploads them to Azure *)
(* from background tasks (a JoinSet), a bounded number at a time.          *)
(* Shutdown uploads the rest, waits for every upload, commits the list of  *)
(* blocks to Azure and then the entry to GitHub.  The caller is            *)
(* tokio::io::copy, followed by shutdown: it also flushes whenever its     *)
(* source has nothing to give, and goes on with a write when the source    *)
(* has, also in the middle of a flush.  Data is counted in units.          *)
(***************************************************************************)
EXTENDS Naturals, Sequences, FiniteSets

CONSTANTS
    Key, Process, Writer, KeyOf, ProcessOf, NoEntry, \* as in EntryStore
    Length,             \* units every caller has to write, by writer
    BLOCK_SIZE, MINIMUM_BLOCK_SIZE, CONCURRENT_UPLOADS,
    MaxCounter,         \* u16::MAX
    AzureLimit          \* blocks Azure takes in one list

ASSUME GithubCacheAssumption ==
    /\ KeyOf \in [Writer -> Key]
    /\ ProcessOf \in [Writer -> Process]
    /\ NoEntry \notin Writer
    /\ Length \in [Writer -> Nat]
    /\ {MaxCounter, AzureLimit} \subseteq Nat
    /\ {BLOCK_SIZE, MINIMUM_BLOCK_SIZE, CONCURRENT_UPLOADS} \subseteq Nat \ {0}
    /\ MINIMUM_BLOCK_SIZE <= BLOCK_SIZE
    /\ AzureLimit < MaxCounter

VARIABLES
    locks,         \* GithubActionsBackend.locks of every process
    stage,         \* where every call of write_key stands
    taken,         \* units poll_write took from the caller
    buffer,        \* AzureBlobWriter.buffer
    bytes_written,
    block_id_counter,
    uploads,       \* upload_futures: the tasks the JoinSet still holds
    unflushed,     \* the copy has written since its last flush
    asleep,        \* the caller got Pending and nothing has woken it since
    staged,        \* the uncommitted blocks Azure has of every writer's blob
    blob,          \* the block list Azure committed
    entry          \* the writer whose blob GitHub serves under a key

writerVars == <<taken, buffer, bytes_written, block_id_counter, uploads,
                unflushed, asleep>>
serviceVars == <<staged, blob, entry>>
vars == <<locks, stage, writerVars, serviceVars>>

Stage == {"idle", "checking", "creating", "open", "shutdown", "azure", "github",
          "done", "refused", "exists", "dropped", "lost"}

Attempting(w) ==
    stage[w] \in {"checking", "creating", "open", "shutdown", "azure", "github"}

Id == 0..MaxCounter
Upload == [id : Id, extent : Nat \X Nat, state : {"running", "ok", "failed"}]

Init ==
    /\ locks = [p \in Process |-> {}]
    /\ stage = [w \in Writer |-> "idle"]
    /\ taken = [w \in Writer |-> 0]
    /\ buffer = [w \in Writer |-> 0]
    /\ bytes_written = [w \in Writer |-> 0]
    /\ block_id_counter = [w \in Writer |-> 0]
    /\ uploads = [w \in Writer |-> {}]
    /\ unflushed = [w \in Writer |-> FALSE]
    /\ asleep = [w \in Writer |-> FALSE]
    /\ staged = [w \in Writer |-> [i \in {} |-> <<>>]]
    /\ blob = [w \in Writer |-> <<>>]
    /\ entry = [k \in Key |-> NoEntry]

Goto(w, s) == stage' = [stage EXCEPT ![w] = s]

-----------------------------------------------------------------------------
(* Mutant: only one of two writers at the very same time is refused.        *)
WriteKeyUnlocked(w) ==
    /\ stage[w] = "idle"
    /\ \A v \in Writer : ~Attempting(v) \/ KeyOf[v] # KeyOf[w]
    /\ Goto(w, "checking")
    /\ UNCHANGED <<locks, writerVars, serviceVars>>

(* write_key: the lock is taken before anything is polled, and nothing      *)
(* releases it.                                                             *)
WriteKey(w) ==
    LET p == ProcessOf[w] IN
    /\ stage[w] = "idle"
    /\ KeyOf[w] \notin locks[p]
    /\ locks' = [locks EXCEPT ![p] = @ \cup {KeyOf[w]}]
    /\ Goto(w, "checking")
    /\ UNCHANGED <<writerVars, serviceVars>>

Refused(w) ==
    /\ stage[w] = "idle"
    /\ KeyOf[w] \in locks[ProcessOf[w]]
    /\ Goto(w, "refused")
    /\ UNCHANGED <<locks, writerVars, serviceVars>>

(* GetCacheEntryDownloadURL finds an entry: "Key already exists".           *)
KeyExists(w) ==
    /\ stage[w] = "checking"
    /\ entry[KeyOf[w]] # NoEntry
    /\ Goto(w, "exists")
    /\ UNCHANGED <<locks, writerVars, serviceVars>>

(* It finds none, or the request fails, which reads as a miss.              *)
KeyMissing(w) ==
    /\ stage[w] = "checking"
    /\ Goto(w, "creating")
    /\ UNCHANGED <<locks, writerVars, serviceVars>>

(* CreateCacheEntry hands out the url of a new blob.  Nothing is assumed of *)
(* when GitHub refuses to.                                                  *)
CreateEntry(w) ==
    /\ stage[w] = "creating"
    /\ Goto(w, "open")
    /\ UNCHANGED <<locks, writerVars, serviceVars>>

-----------------------------------------------------------------------------
Ended(w) == {u \in uploads[w] : u.state # "running"}
Failed(w) == {u \in uploads[w] : u.state = "failed"}

(* Mutant: the counter does not saturate.                                   *)
NextIdWide(c) == c + 1

(* get_next_block_id: saturating_add.                                       *)
NextId(c) == IF c < MaxCounter THEN c + 1 ELSE c

(* upload_buffer of n units, in a JoinSet that holds the uploads up.        *)
UploadBuffer(w, up, n) ==
    /\ uploads' = [uploads EXCEPT ![w] = up \cup
         {[id |-> block_id_counter[w],
           extent |-> <<bytes_written[w], bytes_written[w] + n>>,
           state |-> "running"]}]
    /\ buffer' = [buffer EXCEPT ![w] = 0]
    /\ bytes_written' = [bytes_written EXCEPT ![w] = @ + n]
    /\ block_id_counter' = [block_id_counter EXCEPT ![w] = NextId(@)]

(* poll_join_next of an empty set, of a set with nothing ended, and of one  *)
(* with an ended upload, which it takes out.                                *)
Joined(w) ==
    IF Ended(w) = {} THEN {uploads[w]} ELSE {uploads[w] \ {u} : u \in Ended(w)}

(* Mutant: the cap counts only the uploads beyond it.                       *)
AtCapLate(w) == Ended(w) = {} /\ Cardinality(uploads[w]) > CONCURRENT_UPLOADS

AtCap(w) == Ended(w) = {} /\ Cardinality(uploads[w]) >= CONCURRENT_UPLOADS

Writing(w) == stage[w] = "open" /\ ~asleep[w] /\ taken[w] < Length[w]

(* poll_write takes n units: what the caller has and the block still holds. *)
PollWrite(w) ==
    /\ Writing(w) /\ ~AtCap(w)
    /\ \E up \in Joined(w), n \in 1..(Length[w] - taken[w]) :
         LET filled == buffer[w] + n IN
         /\ Failed(w) \subseteq up
         /\ filled <= BLOCK_SIZE
         /\ taken' = [taken EXCEPT ![w] = @ + n]
         /\ unflushed' = [unflushed EXCEPT ![w] = TRUE]
         /\ IF filled = BLOCK_SIZE
              THEN UploadBuffer(w, up, filled)
              ELSE /\ uploads' = [uploads EXCEPT ![w] = up]
                   /\ buffer' = [buffer EXCEPT ![w] = filled]
                   /\ UNCHANGED <<bytes_written, block_id_counter>>
    /\ UNCHANGED <<locks, stage, asleep, serviceVars>>

(* poll_write at the cap: Pending, with the JoinSet holding the waker.      *)
PollWriteWaits(w) ==
    /\ Writing(w) /\ AtCap(w)
    /\ asleep' = [asleep EXCEPT ![w] = TRUE]
    /\ UNCHANGED <<locks, stage, taken, buffer, bytes_written, block_id_counter,
                   uploads, unflushed, serviceVars>>

(* poll_write takes a failed upload out of the set; the caller gives up.    *)
PollWriteFails(w) ==
    /\ Writing(w) /\ Failed(w) # {}
    /\ Goto(w, "dropped")
    /\ UNCHANGED <<locks, writerVars, serviceVars>>

(* What poll_flush uploads first: the buffer, if it is a block by itself.   *)
(* In shutdown the last block may be smaller.                               *)
Least(w) == IF stage[w] = "shutdown" THEN 1 ELSE MINIMUM_BLOCK_SIZE

(* The copy flushes when its source is pending, and at the end of it.       *)
Flushing(w) ==
    /\ ~asleep[w]
    /\ \/ stage[w] = "shutdown"
       \/ stage[w] = "open" /\ (unflushed[w] \/ taken[w] = Length[w])

Running(w) == uploads[w] \ Ended(w)

(* Mutant: the loop of poll_flush is an `if`: one upload that has ended is  *)
(* taken out, and Pending is returned for the others.                       *)
PollFlushOnce(w) ==
    /\ Flushing(w) /\ Failed(w) = {}
    /\ \E up \in Joined(w) :
         /\ up # {}
         /\ IF buffer[w] >= Least(w)
              THEN UploadBuffer(w, up, buffer[w])
              ELSE /\ uploads' = [uploads EXCEPT ![w] = up]
                   /\ UNCHANGED <<buffer, bytes_written, block_id_counter>>
    /\ asleep' = [asleep EXCEPT ![w] = TRUE]
    /\ UNCHANGED <<locks, stage, taken, unflushed, serviceVars>>

(* poll_flush, of the copy or of poll_shutdown, that ends at an upload      *)
(* still running.                                                           *)
PollFlushWaits(w) ==
    /\ Flushing(w) /\ Failed(w) = {}
    /\ IF buffer[w] >= Least(w)
         THEN UploadBuffer(w, Running(w), buffer[w])
         ELSE /\ Running(w) # {}
              /\ uploads' = [uploads EXCEPT ![w] = Running(w)]
              /\ UNCHANGED <<buffer, bytes_written, block_id_counter>>
    /\ asleep' = [asleep EXCEPT ![w] = TRUE]
    /\ UNCHANGED <<locks, stage, taken, unflushed, serviceVars>>

(* poll_flush that is done: back to the copy, on to shutdown at the end of  *)
(* the source, or, in poll_shutdown, the commit request is sent.            *)
PollFlushDone(w) ==
    /\ Flushing(w) /\ Failed(w) = {}
    /\ buffer[w] < Least(w) /\ Running(w) = {}
    /\ uploads' = [uploads EXCEPT ![w] = {}]
    /\ unflushed' = [unflushed EXCEPT ![w] = FALSE]
    /\ stage' = [stage EXCEPT ![w] = IF @ = "shutdown" THEN "azure"
                                     ELSE IF taken[w] = Length[w] THEN "shutdown" ELSE @]
    /\ UNCHANGED <<locks, taken, buffer, bytes_written, block_id_counter, asleep,
                   serviceVars>>

PollFlushFails(w) ==
    /\ Flushing(w) /\ Failed(w) # {}
    /\ Goto(w, "dropped")
    /\ UNCHANGED <<locks, writerVars, serviceVars>>

(* The source of the copy, whose waker a Pending copy holds as well, has    *)
(* data, or only seems to: the copy polls everything again, and may write   *)
(* and flush with all its uploads still running.                            *)
SourceWakes(w) ==
    /\ stage[w] = "open" /\ asleep[w]
    /\ asleep' = [asleep EXCEPT ![w] = FALSE]
    /\ UNCHANGED <<locks, stage, taken, buffer, bytes_written, block_id_counter,
                   uploads, unflushed, serviceVars>>

-----------------------------------------------------------------------------
Alive(w) == stage[w] \in {"open", "shutdown"}

SetState(w, u, s) ==
    /\ u \in uploads[w] /\ u.state = "running" /\ Alive(w)
    /\ uploads' = [uploads EXCEPT ![w] = (@ \ {u}) \cup {[u EXCEPT !.state = s]}]
    /\ asleep' = [asleep EXCEPT ![w] = FALSE]
    /\ UNCHANGED <<locks, stage, taken, buffer, bytes_written, block_id_counter,
                   unflushed, blob, entry>>

(* An upload succeeds, at whichever of its attempts.  A block with the same *)
(* id is replaced.                                                          *)
UploadEnds(w, u) ==
    /\ SetState(w, u, "ok")
    /\ staged' = [staged EXCEPT ![w] =
                    [i \in DOMAIN @ \cup {u.id} |-> IF i = u.id THEN u.extent ELSE @[i]]]

(* All its attempts fail.                                                   *)
UploadFails(w, u) == SetState(w, u, "failed") /\ UNCHANGED staged

-----------------------------------------------------------------------------
(* Mutant: the last index is taken for the number of ids.                   *)
BlockIdsShort(w) == IF block_id_counter[w] > 0 THEN block_id_counter[w] - 1 ELSE 0

(* get_block_ids: how many ids the list names, from 0 on.                   *)
BlockIds(w) == block_id_counter[w]

(* Azure takes a list of staged blocks, and poll_shutdown sends the         *)
(* FinalizeCacheEntryUpload.                                                *)
CommitAzure(w) ==
    /\ stage[w] = "azure"
    /\ BlockIds(w) <= AzureLimit
    /\ \A i \in 1..BlockIds(w) : i - 1 \in DOMAIN staged[w]
    /\ blob' = [blob EXCEPT ![w] = [i \in 1..BlockIds(w) |-> staged[w][i - 1]]]
    /\ Goto(w, "github")
    /\ UNCHANGED <<locks, writerVars, staged, entry>>

(* A list it does not take.                                                 *)
AzureRefuses(w) ==
    /\ stage[w] = "azure"
    /\ \/ BlockIds(w) > AzureLimit
       \/ \E i \in 1..BlockIds(w) : i - 1 \notin DOMAIN staged[w]
    /\ Goto(w, "dropped")
    /\ UNCHANGED <<locks, writerVars, serviceVars>>

(* GitHub finalizes the entry, whether or not the writer is still there to  *)
(* hear of it.                                                              *)
CommitGithub(w) ==
    /\ stage[w] \in {"github", "lost"}
    /\ entry' = [entry EXCEPT ![KeyOf[w]] = w]
    /\ Goto(w, "done")
    /\ UNCHANGED <<locks, writerVars, staged, blob>>

(* A request fails, or the caller's task is aborted: the writer is dropped, *)
(* and the JoinSet aborts its uploads.                                      *)
Drop(w) ==
    /\ Attempting(w)
    /\ Goto(w, IF stage[w] = "github" THEN "lost" ELSE "dropped")
    /\ UNCHANGED <<locks, writerVars, serviceVars>>

Poll(w) ==
    \/ PollWrite(w) \/ PollWriteWaits(w) \/ PollWriteFails(w)
    \/ PollFlushWaits(w) \/ PollFlushDone(w) \/ PollFlushFails(w)

Request(w) ==
    \/ KeyExists(w) \/ KeyMissing(w) \/ CreateEntry(w)
    \/ CommitAzure(w) \/ AzureRefuses(w) \/ CommitGithub(w)

UploadStep(w) == \E u \in uploads[w] : UploadEnds(w, u) \/ UploadFails(w, u)

WriterStep(w) ==
    \/ WriteKey(w) \/ Refused(w) \/ Request(w) \/ Poll(w) \/ SourceWakes(w)
    \/ UploadStep(w) \/ Drop(w)

Next == \E w \in Writer : WriterStep(w)

Spec == Init /\ [][Next]_vars

(* The runtime polls a caller that is awake, and requests and uploads end   *)
(* one way or another, by their timeouts and the last of the retries.  A    *)
(* source need not wake anybody.                                            *)
FairSpec ==
    /\ Spec
    /\ \A w \in Writer :
         WF_vars(Poll(w)) /\ WF_vars(Request(w)) /\ WF_vars(UploadStep(w))

-----------------------------------------------------------------------------
TypeOK ==
    /\ locks \in [Process -> SUBSET Key]
    /\ stage \in [Writer -> Stage]
    /\ taken \in [Writer -> Nat]
    /\ buffer \in [Writer -> 0..(BLOCK_SIZE - 1)]
    /\ bytes_written \in [Writer -> Nat]
    /\ \A w \in Writer : taken[w] = bytes_written[w] + buffer[w] /\ taken[w] <= Length[w]
    /\ block_id_counter \in [Writer -> Id]
    /\ uploads \in [Writer -> SUBSET Upload]
    /\ unflushed \in [Writer -> BOOLEAN]
    /\ asleep \in [Writer -> BOOLEAN]
    /\ \A w \in Writer : DOMAIN staged[w] \subseteq Id /\ DOMAIN blob[w] \subseteq Nat
    /\ entry \in [Key -> Writer \cup {NoEntry}]

(* A writer never holds more than CONCURRENT_UPLOADS uploads and less than  *)
(* a block besides, however writes, flushes (of which the next may come     *)
(* before an upload of the last one ended) and the last block of shutdown   *)
(* alternate: only poll_write looks at the cap, yet "it is always safe" to  *)
(* go on (poll_write), and "up to CONCURRENT_UPLOADS * BLOCK_SIZE bytes     *)
(* might still be in flight" (bytes_written).                               *)
UploadsBounded == \A w \in Writer : Cardinality(uploads[w]) <= CONCURRENT_UPLOADS

(* read_key: whose data a reader of the key is given.                       *)
ReadKey(k) == entry[k]

(* A finalized entry's blob is all of its writer's data, in order and       *)
(* without gaps, and its size is the size GitHub was told, whatever order   *)
(* the uploads ended in and whatever was flushed on the way; and of its     *)
(* blocks all but the last have "the minimum size for a block".             *)
EntryIsWhole ==
    \A k \in Key : ReadKey(k) # NoEntry =>
        LET w == ReadKey(k) b == blob[w] IN
        /\ KeyOf[w] = k
        /\ bytes_written[w] = Length[w]
        /\ IF b = <<>> THEN Length[w] = 0
           ELSE b[1][1] = 0 /\ b[Len(b)][2] = Length[w]
        /\ \A i \in 2..Len(b) : b[i][1] = b[i - 1][2]
        /\ \A i \in 1..(Len(b) - 1) : b[i][2] - b[i][1] >= MINIMUM_BLOCK_SIZE

(* With its blocks and two commits the service is the store callers are     *)
(* promised: entries appear whole, stay, and a process writes one once.     *)
Store == INSTANCE EntryStore WITH
    authors <- [k \in Key |->
        {ProcessOf[w] : w \in {v \in Writer : KeyOf[v] = k /\ stage[v] = "done"}}]
Refinement == Store!Spec

(* A caller is never left waiting: poll_write at the cap and poll_flush     *)
(* return Pending only if an upload will wake them.                         *)
WriterEnds == \A w \in Writer : Attempting(w) ~> ~Attempting(w)
=============================================================================
