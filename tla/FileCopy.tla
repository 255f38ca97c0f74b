------------------------------ MODULE FileCopy ------------------------------
(***************************************************************************)
(* Copying a tree of files into a container: copy_fs_into_container        *)
(* (engine/containerd/files.rs), the stream of headers and contents        *)
(* (serpentine_internal/src/lib.rs), the reader that runs its own producer *)
(* (engine/filesystem.rs) and import_files and export_files of the sidecar *)
(* (sidecar/src/main.rs).                                                  *)
(*                                                                         *)
(* A producer walks the source and writes its stream into a bounded pipe;  *)
(* the copy drains the pipe into the socket of the sidecar, which writes   *)
(* the files to the mount of a new snapshot.  Once everything is sent the  *)
(* snapshot is committed under the hash of the source.  The source is a    *)
(* directory of the host, which others may change meanwhile, or one of     *)
(* another container, read by the sidecar from a snapshot.                 *)
(***************************************************************************)
EXTENDS Naturals, Sequences, FiniteSets, SequencesExt

CONSTANTS
    Listing,     \* every path of the source, the empty one its root
    Ignored,     \* those the gitignore filter drops, with all below them
    Files,       \* the length of every file among them
    Specials,    \* the sockets, pipes and devices it may have
    PIPE_BUFFER,
    SOCKET_BUFFER, \* what the connection to the sidecar holds
    Longest      \* how long a file may grow

VARIABLES
    source,   \* "local" or "container"
    host,     \* the lengths of the source's files
    specials, \* the sockets, pipes and devices it has
    changed,  \* somebody changed the source since it was hashed
    plan,     \* what read_disk_to_filesystem_stream has still to write
    pipe,     \* the DuplexStream of InlineReader
    producer, \* whether the producer runs, and how it ended
    copy,     \* the task that copies
    socket,   \* what was sent and the sidecar has not read
    frames,   \* read_filesystem_stream_to_disk: its nested calls, innermost last
    importer, \* the sidecar's end
    disk      \* the files of the new snapshot

fileVars == <<source, host, specials, changed, plan, pipe, producer, copy, socket,
              frames, importer, disk>>

FileName == UNION {{p[i] : i \in DOMAIN p} : p \in Listing}

(* A tree: what holds a path is listed and a directory, and is ignored only  *)
(* with all it holds.  The root is a file or a directory, and the filter is *)
(* not asked about it.  What is ignored is of a directory of the host: an   *)
(* export filters nothing, so that of a container it is just not there.     *)
ASSUME ListingAssumption ==
    /\ IsFiniteSet(Listing) /\ <<>> \in Listing \ (Ignored \cup Specials)
    /\ \A p \in Listing :
         /\ p \in Seq(FileName)
         /\ p # <<>> => Front(p) \notin DOMAIN Files
         /\ \A n \in 0..Len(p) :
              /\ SubSeq(p, 1, n) \in Listing
              /\ SubSeq(p, 1, n) \in Ignored => p \in Ignored
              /\ SubSeq(p, 1, n) \in Specials => p = SubSeq(p, 1, n)
    /\ Files \in [DOMAIN Files -> Nat]
    /\ DOMAIN Files \subseteq Listing \ Specials /\ Specials \subseteq Listing

IsFile(p) == p \in DOMAIN Files
Exists(p) == (IsFile(p) => p \in DOMAIN host) /\ (p \in Specials => p \in specials)

(* Mutant: the filter is not applied.                                       *)
EntriesAll(d) == SetToSeq({p \in Listing : p # <<>> /\ Front(p) = d /\ Exists(p)})

(* The entries of a directory the filter lets through, in an order that      *)
(* read_dir leaves open.                                                    *)
Entries(d) == SetToSeq({p \in Listing \ Ignored : p # <<>> /\ Front(p) = d /\ Exists(p)})

FileInit ==
    /\ source \in {"local", "container"}
    /\ host = Files
    /\ specials \in SUBSET Specials
    /\ changed = FALSE
    /\ plan = <<[path |-> <<>>, at |-> 0]>>
    /\ pipe = <<>>
    /\ producer = "running"
    /\ copy = "copying"
    /\ socket = <<>>
    /\ frames = <<[path |-> <<>>, kind |-> "entry", left |-> 1]>>
    /\ importer = "reading"
    /\ disk = [p \in {} |-> <<>>]

-----------------------------------------------------------------------------
(* read_disk_to_filesystem_stream, polled by the reader until the pipe is   *)
(* full: the next header, with the length or the entries there are at that  *)
(* moment, or the next piece of contents.                                   *)

FileHeader(p) == [kind |-> "file", path |-> p, left |-> host[p]]
FolderHeader(p) == [kind |-> "folder", path |-> p, left |-> Len(Entries(p))]

Content(p, i) == [kind |-> "content", path |-> p, left |-> i]

(* Mutant: the producer is polled only to refill the pipe.                  *)
PolledToRefill == copy = "copying" /\ producer = "running" /\ pipe # <<>>

Polled == copy = "copying" /\ producer = "running"

(* What an item of the plan writes, and what is left of it.                 *)
Written(i) ==
    IF i.at > 0 THEN <<Content(i.path, i.at)>>
    ELSE IF IsFile(i.path) THEN <<FileHeader(i.path)>> ELSE <<FolderHeader(i.path)>>
Remaining(i) ==
    IF i.at > 0 THEN <<[i EXCEPT !.at = @ + 1]>>
    ELSE IF IsFile(i.path) THEN <<[i EXCEPT !.at = 1]>>
    ELSE [k \in DOMAIN Entries(i.path) |-> [path |-> Entries(i.path)[k], at |-> 0]]

(* The contents are written, or it is neither a file nor a directory: of     *)
(* such an entry nothing is written, although its directory's header        *)
(* counted it.                                                              *)
Ends(i) == (i.at > 0 /\ i.at > host[i.path]) \/ i.path \in Specials

Produce ==
    /\ Polled /\ plan # <<>>
    /\ Exists(Head(plan).path)
    /\ IF Ends(Head(plan))
         THEN plan' = Tail(plan) /\ UNCHANGED pipe
         ELSE /\ Len(pipe) < PIPE_BUFFER
              /\ plan' = Remaining(Head(plan)) \o Tail(plan)
              /\ pipe' = pipe \o Written(Head(plan))
    /\ UNCHANGED <<source, host, specials, changed, producer, copy, socket, frames, importer,
                   disk>>

(* Everything is written, or the next path cannot be read.                  *)
ProducerEnds ==
    /\ Polled
    /\ \/ plan = <<>> /\ producer' = "done"
       \/ /\ plan # <<>> /\ producer' = "failed"
          /\ source = "container" \/ ~Exists(Head(plan).path)
    /\ UNCHANGED <<source, host, specials, changed, plan, pipe, copy, socket, frames, importer,
                   disk>>

(* Somebody changes the host's files.  One that is being read stays open.   *)
HostChanges ==
    /\ source = "local" /\ copy = "copying" /\ ~changed
    /\ \E p \in DOMAIN Files :
         \/ \E n \in (0..Longest) \ {Files[p]} : host' = [host EXCEPT ![p] = n]
         \/ /\ \A k \in DOMAIN plan : plan[k].path = p => plan[k].at = 0
            /\ host' = [q \in DOMAIN Files \ {p} |-> host[q]]
    /\ changed' = TRUE
    /\ UNCHANGED <<source, specials, plan, pipe, producer, copy, socket, frames, importer, disk>>

-----------------------------------------------------------------------------
(* tokio::io::copy from the reader to the socket.  What is sent to a        *)
(* sidecar that hung up may still seem to be sent.                          *)
Send ==
    /\ copy = "copying" /\ pipe # <<>>
    /\ importer = "reading" => Len(socket) < SOCKET_BUFFER
    /\ socket' = Append(socket, Head(pipe))
    /\ pipe' = Tail(pipe)
    /\ UNCHANGED <<source, host, specials, changed, plan, producer, copy, frames, importer, disk>>

(* Mutant: the end of the pipe is the end of the data.                      *)
AtEndAnyway == pipe = <<>> /\ producer # "running"

(* poll_read at the end of the pipe: the producer's error comes first.  The *)
(* socket of a sidecar that failed to export just ends.                     *)
AtEnd == pipe = <<>> /\ (producer = "done" \/ (producer = "failed" /\ source = "container"))
ReadFails == pipe = <<>> /\ producer = "failed" /\ source = "local"

(* copy_fs_into_container commits as soon as the copy returns.              *)
Commit ==
    /\ copy = "copying" /\ AtEnd
    /\ copy' = "committed"
    /\ UNCHANGED <<source, host, specials, changed, plan, pipe, producer, socket, frames,
                   importer, disk>>

(* The reader fails, or a write to a sidecar that is gone does.             *)
CopyFails ==
    /\ copy = "copying"
    /\ ReadFails \/ (importer # "reading" /\ pipe # <<>>)
    /\ copy' = "failed"
    /\ UNCHANGED <<source, host, specials, changed, plan, pipe, producer, socket, frames,
                   importer, disk>>

-----------------------------------------------------------------------------
(* The sidecar's read_filesystem_stream_to_disk.                            *)

Call == Last(frames)
Awaits == importer = "reading" /\ frames # <<>> /\ Call.left > 0
Inner == Front(frames) \o <<[Call EXCEPT !.left = @ - 1]>>
Emptied(p) == [q \in DOMAIN disk \cup {p} |-> IF q = p THEN <<>> ELSE disk[q]]

(* A header has the name of its entry and no path: the call that reads it    *)
(* puts it into its own directory.  The root, the first to come, is where   *)
(* the copy goes.                                                           *)
Placed(h) == IF h.path = <<>> THEN <<>> ELSE Append(Call.path, Last(h.path))

Take(h) == [path |-> Placed(h), kind |-> "contents", left |-> h.left]

ReadHeader ==
    /\ Awaits /\ Call.kind = "entry" /\ socket # <<>>
    /\ LET h == Head(socket) IN
       \/ /\ h.kind = "file"
          /\ disk' = Emptied(Placed(h))
          /\ frames' = Append(Inner, Take(h))
          /\ UNCHANGED importer
       \/ /\ h.kind = "folder" /\ Placed(h) \notin DOMAIN disk
          /\ frames' = Append(Inner, [path |-> Placed(h), kind |-> "entry", left |-> h.left])
          /\ UNCHANGED <<disk, importer>>
       \/ /\ h.kind = "content" \/ (h.kind = "folder" /\ Placed(h) \in DOMAIN disk)
          /\ importer' = "failed"
          /\ UNCHANGED <<disk, frames>>
    /\ socket' = Tail(socket)
    /\ UNCHANGED <<source, host, specials, changed, plan, pipe, producer, copy>>

(* Contents are whatever comes next in the stream.                          *)
ReadContents ==
    /\ Awaits /\ Call.kind = "contents" /\ socket # <<>>
    /\ disk' = [disk EXCEPT ![Call.path] = Append(@, Head(socket))]
    /\ frames' = Inner
    /\ socket' = Tail(socket)
    /\ UNCHANGED <<source, host, specials, changed, plan, pipe, producer, copy, importer>>

Return ==
    /\ importer = "reading"
    /\ \/ frames # <<>> /\ Call.left = 0 /\ frames' = Front(frames) /\ UNCHANGED importer
       \/ frames = <<>> /\ importer' = "done" /\ UNCHANGED frames
    /\ UNCHANGED <<source, host, specials, changed, plan, pipe, producer, copy, socket, disk>>

(* The client is gone: a header that does not come is an error, contents    *)
(* that do not come are the end of the file.                                *)
ClientGone ==
    /\ Awaits /\ socket = <<>> /\ copy # "copying"
    /\ \/ Call.kind = "entry" /\ importer' = "failed" /\ UNCHANGED frames
       \/ Call.kind = "contents" /\ frames' = Front(frames) /\ UNCHANGED importer
    /\ UNCHANGED <<source, host, specials, changed, plan, pipe, producer, copy, socket, disk>>

(* Mounting or writing fails in the sidecar, which logs it and hangs up.    *)
(* So does a file whose name a directory already has.                       *)
ImportFails ==
    /\ importer = "reading"
    /\ importer' = "failed"
    /\ UNCHANGED <<source, host, specials, changed, plan, pipe, producer, copy, socket, frames,
                   disk>>

Read == Produce \/ ProducerEnds \/ Send \/ Commit \/ CopyFails
Import == ReadHeader \/ ReadContents \/ Return \/ ClientGone \/ ImportFails
FileNext == Read \/ Import \/ HostChanges

FileSpec == FileInit /\ [][FileNext]_fileVars

-----------------------------------------------------------------------------
Whole(p) == [i \in 1..Files[p] |-> Content(p, i)]

(* The source has no socket, pipe or device that the filter lets through.    *)
Plain == specials \subseteq Ignored

(* Of a source nobody touched, and without visible sockets, pipes or        *)
(* devices, a file of the snapshot holds a beginning of the source's file   *)
(* of that name and nothing else, whatever fails or is cut off on the way.  *)
(* Of any source nobody touched an import that ends well of a stream that   *)
(* was not cut has exactly the files that are not ignored, whole: the       *)
(* counts and lengths of the headers, the filter and the nesting agree, or  *)
(* the sidecar never comes to the end (read_disk_to_filesystem_stream       *)
(* counts an entry that is no file and no directory, and writes nothing).   *)
CopiedIsSource ==
    ~changed =>
        /\ Plain => \A p \in DOMAIN disk : IsPrefix(disk[p], Whole(p))
        /\ importer = "done" /\ producer = "done" =>
             /\ DOMAIN disk = DOMAIN Files \ Ignored
             /\ \A p \in DOMAIN disk : disk[p] = Whole(p)

(* A host directory that could not be read to its end is not committed, as  *)
(* the reader surfaces the error behind the data (InlineReader).            *)
ErrorsSurface == source = "local" /\ copy = "committed" => producer = "done"

(* The reader and the producer it polls itself never wait for each other.   *)
CopyEnds == <>(copy # "copying")

(* A container made from the committed snapshot sees the files that were    *)
(* copied (the tests of files.rs).                                          *)
CommittedIsComplete ==
    copy = "committed" /\ ~changed =>
        \A p \in DOMAIN Files \ Ignored : p \in DOMAIN disk /\ disk[p] = Whole(p)
=============================================================================
