------------------------- MODULE LocalCacheProofs -------------------------
(***************************************************************************)
(* Proofs about LocalCache, for every number of processes, keys, writers   *)
(* and chunks.                                                             *)
(***************************************************************************)
EXTENDS LocalCache, TLAPS

(* A writer that got past the lock keeps it for the life of its process, so *)
(* it is the only one of its process for its key.                           *)
Admitted(w) == stage[w] \notin {"idle", "refused"}

LocksKept == \A w \in Writer : Admitted(w) => KeyOf[w] \in locks[ProcessOf[w]]

OnePerProcess ==
    \A v, w \in Writer :
        Admitted(v) /\ Admitted(w) /\ KeyOf[v] = KeyOf[w] /\ ProcessOf[v] = ProcessOf[w]
          => v = w

(* From the rename on the file has all the data and no chunk is under way.  *)
Flushed ==
    \A w \in Writer : stage[w] \in {"renaming", "detached", "done"} =>
        accepted[w] = Length /\ file[w] = Length

(* Entries are the files of writers that are done.                          *)
NamedWhenDone ==
    \A k \in Key : dir[k] # NoEntry => KeyOf[dir[k]] = k /\ stage[dir[k]] = "done"

IInv == TypeOK /\ LocksKept /\ OnePerProcess /\ Flushed /\ NamedWhenDone

-----------------------------------------------------------------------------
LEMMA InitType == Init => TypeOK
BY LocalCacheAssumption DEF Init, TypeOK, LocalCacheAssumption, Stage

LEMMA NextType == TypeOK /\ [Next]_vars => TypeOK'
<1> SUFFICES ASSUME TypeOK, [Next]_vars PROVE TypeOK'
  OBVIOUS
<1> USE LocalCacheAssumption DEF TypeOK, LocalCacheAssumption, Stage
<1>1. ASSUME NEW w \in Writer, WriteKey(w) PROVE TypeOK'
  BY <1>1 DEF WriteKey
<1>2. ASSUME NEW w \in Writer, Refused(w) PROVE TypeOK'
  BY <1>2 DEF Refused
<1>3. ASSUME NEW w \in Writer, EntryExists(w) PROVE TypeOK'
  BY <1>3 DEF EntryExists
<1>4. ASSUME NEW w \in Writer, EntryAbsent(w) PROVE TypeOK'
  BY <1>4 DEF EntryAbsent
<1>5. ASSUME NEW w \in Writer, Create(w) PROVE TypeOK'
  BY <1>5 DEF Create
<1>6. ASSUME NEW w \in Writer, PollWrite(w) PROVE TypeOK'
  BY <1>6 DEF PollWrite
<1>7. ASSUME NEW w \in Writer, ChunkLands(w) PROVE TypeOK'
  BY <1>7 DEF ChunkLands
<1>8. ASSUME NEW w \in Writer, Shutdown(w) PROVE TypeOK'
  BY <1>8 DEF Shutdown
<1>9. ASSUME NEW w \in Writer, Rename(w) PROVE TypeOK'
  BY <1>9 DEF Rename
<1>10. ASSUME NEW w \in Writer, IoError(w) PROVE TypeOK'
  BY <1>10 DEF IoError
<1>11. ASSUME NEW w \in Writer, Drop(w) PROVE TypeOK'
  BY <1>11 DEF Drop
<1>12. ASSUME NEW p \in Process, Exit(p) PROVE TypeOK'
  BY <1>12 DEF Exit
<1>13. CASE UNCHANGED vars
  BY <1>13 DEF vars
<1> QED
  BY <1>1, <1>2, <1>3, <1>4, <1>5, <1>6, <1>7, <1>8, <1>9, <1>10, <1>11,
     <1>12, <1>13 DEF Next, WriterStep

-----------------------------------------------------------------------------
(* Only write_key gives or admits; a process's locks only grow.             *)
LEMMA NextLocks ==
  TypeOK /\ LocksKept /\ OnePerProcess /\ [Next]_vars => LocksKept' /\ OnePerProcess'
<1> SUFFICES ASSUME TypeOK, LocksKept, OnePerProcess, [Next]_vars
             PROVE  LocksKept' /\ OnePerProcess'
  OBVIOUS
<1> USE LocalCacheAssumption DEF LocalCacheAssumption, LocksKept, OnePerProcess, Admitted
<1>1. ASSUME NEW w \in Writer, WriteKey(w) PROVE LocksKept' /\ OnePerProcess'
  BY <1>1 DEF WriteKey, TypeOK
<1>2. ASSUME locks' = locks, \A w \in Writer : Admitted(w)' => Admitted(w)
      PROVE  LocksKept' /\ OnePerProcess'
  BY <1>2
<1>3. ASSUME NEW w \in Writer, WriterStep(w), ~WriteKey(w)
      PROVE  locks' = locks /\ \A v \in Writer : Admitted(v)' => Admitted(v)
  BY <1>3 DEF WriterStep, Refused, EntryExists, EntryAbsent, Create, PollWrite,
     ChunkLands, Shutdown, Rename, IoError, Drop, Attempting, TypeOK
<1>4. ASSUME NEW p \in Process, Exit(p)
      PROVE  locks' = locks /\ \A v \in Writer : Admitted(v)' => Admitted(v)
  BY <1>4 DEF Exit, Attempting, TypeOK
<1>5. CASE UNCHANGED vars
  BY <1>5 DEF vars
<1> QED
  BY <1>1, <1>2, <1>3, <1>4, <1>5 DEF Next

(* A writer starts the rename with its file complete, and nothing moves     *)
(* after that.                                                              *)
LEMMA NextFlushed == TypeOK /\ Flushed /\ [Next]_vars => Flushed'
<1> SUFFICES ASSUME TypeOK, Flushed, [Next]_vars,
                    NEW v \in Writer, (stage[v] \in {"renaming", "detached", "done"})'
             PROVE  accepted'[v] = Length /\ file'[v] = Length
  BY DEF Flushed
<1> USE DEF TypeOK, Flushed, Attempting
<1>1. ASSUME NEW w \in Writer, PollWrite(w) \/ ChunkLands(w) \/ IoError(w)
      PROVE  accepted'[v] = Length /\ file'[v] = Length
  BY <1>1 DEF PollWrite, ChunkLands, IoError
<1>2. ASSUME NEW w \in Writer,
             WriteKey(w) \/ Refused(w) \/ EntryExists(w) \/ EntryAbsent(w) \/ Create(w)
      PROVE  accepted'[v] = Length /\ file'[v] = Length
  BY <1>2 DEF WriteKey, Refused, EntryExists, EntryAbsent, Create
<1>3. ASSUME NEW w \in Writer, Shutdown(w) \/ Rename(w) \/ Drop(w)
      PROVE  accepted'[v] = Length /\ file'[v] = Length
  BY <1>3 DEF Shutdown, Rename, Drop
<1>4. ASSUME NEW p \in Process, Exit(p)
      PROVE  accepted'[v] = Length /\ file'[v] = Length
  BY <1>4 DEF Exit
<1>5. CASE UNCHANGED vars
  BY <1>5 DEF vars
<1> QED
  BY <1>1, <1>2, <1>3, <1>4, <1>5 DEF Next, WriterStep

(* Only the rename names a file, and a writer that is done stays done.      *)
LEMMA DoneStays ==
  TypeOK /\ [Next]_vars => \A v \in Writer : stage[v] = "done" => stage'[v] = "done"
<1> SUFFICES ASSUME TypeOK, [Next]_vars, NEW v \in Writer, stage[v] = "done"
             PROVE  stage'[v] = "done"
  OBVIOUS
<1>1. ASSUME NEW w \in Writer, WriterStep(w) PROVE stage'[v] = "done"
  BY <1>1 DEF WriterStep, WriteKey, Refused, EntryExists, EntryAbsent, Create, PollWrite,
     ChunkLands, Shutdown, Rename, IoError, Drop, Attempting, TypeOK
<1>2. ASSUME NEW p \in Process, Exit(p) PROVE stage'[v] = "done"
  BY <1>2 DEF Exit, Attempting, TypeOK
<1>3. CASE UNCHANGED vars
  BY <1>3 DEF vars
<1> QED
  BY <1>1, <1>2, <1>3 DEF Next

LEMMA OnlyRenameNames ==
  [Next]_vars => dir' = dir \/ \E w \in Writer : Rename(w)
BY DEF Next, WriterStep, vars, WriteKey, Refused, EntryExists, EntryAbsent, Create,
   PollWrite, ChunkLands, Shutdown, IoError, Drop, Exit

LEMMA NextNamed == TypeOK /\ NamedWhenDone /\ [Next]_vars => NamedWhenDone'
<1> SUFFICES ASSUME TypeOK, NamedWhenDone, [Next]_vars PROVE NamedWhenDone'
  OBVIOUS
<1>1. CASE dir' = dir
  BY <1>1, DoneStays DEF NamedWhenDone, TypeOK
<1>2. ASSUME NEW w \in Writer, Rename(w) PROVE NamedWhenDone'
  BY <1>2, DoneStays, LocalCacheAssumption
     DEF NamedWhenDone, TypeOK, Rename, LocalCacheAssumption
<1> QED
  BY <1>1, <1>2, OnlyRenameNames

LEMMA InitIInv == Init => IInv
BY InitType DEF Init, IInv, LocksKept, OnePerProcess, Flushed, NamedWhenDone, Admitted

LEMMA NextIInv == IInv /\ [Next]_vars => IInv'
BY NextType, NextLocks, NextFlushed, NextNamed DEF IInv

-----------------------------------------------------------------------------
(* Type correctness of the cache directory and its writers.                 *)
THEOREM TypeCorrect == Spec => []TypeOK
BY InitType, NextType, PTL DEF Spec

(* The inductive invariant: locks, admitted writers, flushed files and      *)
(* named entries belong together.                                           *)
THEOREM Invariant == Spec => []IInv
BY InitIInv, NextIInv, PTL DEF Spec

(* A reader only ever opens complete entries.                               *)
THEOREM WholeEntriesHolds == Spec => []WholeEntries
<1>1. IInv => WholeEntries
  BY DEF IInv, TypeOK, NamedWhenDone, Flushed, WholeEntries, ReadKey
<1> QED
  BY <1>1, Invariant, PTL

-----------------------------------------------------------------------------
(* The refinement of EntryStore.                                            *)

Entry == [k \in Key |-> IF Whole(k) THEN dir[k] ELSE NoEntry]
Finished(k) == {v \in Writer : KeyOf[v] = k /\ stage[v] = "done"}
Authors == [k \in Key |-> {ProcessOf[w] : w \in Finished(k)}]

LEMMA EntryIsDir == (IInv => Entry = dir) /\ (IInv' => Entry' = dir')
BY DEF IInv, TypeOK, NamedWhenDone, Flushed, Entry, Whole

LEMMA RenamePublishes ==
  ASSUME IInv, IInv', NEW w \in Writer, Rename(w)
  PROVE  Store!Publish(w)
<1> DEFINE k == KeyOf[w]
<1> USE LocalCacheAssumption DEF LocalCacheAssumption
<1>1. Entry' = [Entry EXCEPT ![k] = w]
  BY EntryIsDir DEF Rename
<1>2. ProcessOf[w] \notin Authors[k]
  <2> SUFFICES ASSUME NEW v \in Finished(k), ProcessOf[v] = ProcessOf[w] PROVE FALSE
    BY DEF Authors
  <2>1. Admitted(v) /\ Admitted(w) /\ KeyOf[v] = KeyOf[w]
    BY DEF Finished, Admitted, Rename
  <2> QED
    BY <2>1 DEF IInv, OnePerProcess, Finished, Rename
<1>3. Finished(k)' = Finished(k) \cup {w}
  BY DEF Finished, Rename, IInv, TypeOK
<1>4. ASSUME NEW j \in Key, j # k PROVE Finished(j)' = Finished(j)
  BY <1>4 DEF Finished, Rename, IInv, TypeOK
<1>5. Authors' = [Authors EXCEPT ![k] = @ \cup {ProcessOf[w]}]
  <2>1. Authors'[k] = Authors[k] \cup {ProcessOf[w]}
    BY <1>3 DEF Authors
  <2>2. ASSUME NEW j \in Key, j # k PROVE Authors'[j] = Authors[j]
    BY <1>4, <2>2 DEF Authors
  <2> QED
    BY <2>1, <2>2 DEF Authors
<1> QED
  BY <1>1, <1>2, <1>5 DEF Store!Publish, Entry, Authors, Finished

LEMMA OthersStutter ==
  ASSUME IInv, IInv', [Next]_vars, \A w \in Writer : ~Rename(w)
  PROVE  Entry' = Entry /\ Authors' = Authors
<1>1. Entry' = Entry
  BY OnlyRenameNames, EntryIsDir
<1>2. \A v \in Writer : stage'[v] = "done" <=> stage[v] = "done"
  <2>1. ASSUME NEW w \in Writer, WriterStep(w), NEW v \in Writer, stage'[v] = "done"
        PROVE  stage[v] = "done"
    BY <2>1 DEF WriterStep, WriteKey, Refused, EntryExists, EntryAbsent, Create,
       PollWrite, ChunkLands, Shutdown, IoError, Drop, IInv, TypeOK
  <2>2. ASSUME NEW p \in Process, Exit(p), NEW v \in Writer, stage'[v] = "done"
        PROVE  stage[v] = "done"
    BY <2>2 DEF Exit, IInv, TypeOK
  <2> QED
    BY <2>1, <2>2, DoneStays DEF Next, vars, IInv
<1>3. \A k \in Key : Finished(k)' = Finished(k)
  BY <1>2 DEF Finished
<1> QED
  BY <1>1, <1>3 DEF Authors

(* The cache directory implements the store its callers are promised.       *)
THEOREM RefinementHolds == Spec => Refinement
<1>1. Init => Store!Init
  BY DEF Init, Store!Init, Whole
<1>2. IInv /\ IInv' /\ [Next]_vars => [Store!Next]_(Store!vars)
  <2> SUFFICES ASSUME IInv, IInv', [Next]_vars PROVE [Store!Next]_(Store!vars)
    OBVIOUS
  <2>1. ASSUME NEW w \in Writer, Rename(w) PROVE Store!Next
    BY <2>1, RenamePublishes DEF Store!Next
  <2>2. CASE \A w \in Writer : ~Rename(w)
    BY <2>2, OthersStutter DEF Store!vars, Entry, Authors, Finished
  <2> QED
    BY <2>1, <2>2
<1> QED
  BY <1>1, <1>2, Invariant, PTL DEF Spec, Refinement, Store!Spec
=============================================================================
