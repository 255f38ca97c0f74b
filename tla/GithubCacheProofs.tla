------------------------- MODULE GithubCacheProofs -------------------------
(***************************************************************************)
(* Proofs about GithubCache, for every number of jobs, keys, writers and   *)
(* uploads and every size of blocks.                                       *)
(***************************************************************************)
EXTENDS GithubCache, FiniteSetTheorems, TLAPS

StagedType ==
    /\ staged = [w \in Writer |-> staged[w]]
    /\ blob = [w \in Writer |-> blob[w]]
    /\ \A w \in Writer : \A i \in DOMAIN staged[w] :
          i \in Id /\ staged[w][i] \in Nat \X Nat

Types == TypeOK /\ StagedType

(* The steps of a writer that leave its blocks alone.                       *)
Quiet(w) ==
    \/ WriteKey(w) \/ Refused(w) \/ KeyExists(w) \/ KeyMissing(w) \/ CreateEntry(w)
    \/ CommitAzure(w) \/ AzureRefuses(w) \/ CommitGithub(w)
    \/ PollWriteFails(w) \/ PollFlushFails(w) \/ Drop(w)

(* Those that only put its caller to sleep or wake it.                      *)
Dozes(w) == PollWriteWaits(w) \/ SourceWakes(w)

LEMMA StepCases ==
  ASSUME [Next]_vars
  PROVE  \/ UNCHANGED vars
         \/ \E w \in Writer :
              \/ Quiet(w) \/ PollWrite(w) \/ Dozes(w)
              \/ PollFlushWaits(w) \/ PollFlushDone(w)
              \/ \E u \in uploads[w] : UploadEnds(w, u) \/ UploadFails(w, u)
BY DEF Next, WriterStep, Request, Poll, UploadStep, Quiet, Dozes

-----------------------------------------------------------------------------
LEMMA InitType == Init => Types
BY GithubCacheAssumption
   DEF Init, Types, TypeOK, StagedType, GithubCacheAssumption, Stage, Id

LEMMA NextIdType == ASSUME NEW c \in Id PROVE NextId(c) \in Id
BY GithubCacheAssumption DEF NextId, Id, GithubCacheAssumption

(* A new upload is one, and what poll_join_next leaves are the others.      *)
LEMMA UploadType ==
  ASSUME Types, NEW w \in Writer, NEW up \in SUBSET uploads[w], NEW n \in Nat,
         UploadBuffer(w, up, n)
  PROVE  /\ uploads' \in [Writer -> SUBSET Upload]
         /\ block_id_counter' \in [Writer -> Id]
         /\ bytes_written' \in [Writer -> Nat]
         /\ buffer' \in [Writer -> 0..(BLOCK_SIZE - 1)]
<1> DEFINE new == [id |-> block_id_counter[w],
                   extent |-> <<bytes_written[w], bytes_written[w] + n>>,
                   state |-> "running"]
<1>1. new \in Upload
  BY DEF Types, TypeOK, Upload
<1>2. up \cup {new} \in SUBSET Upload
  BY <1>1 DEF Types, TypeOK
<1>3. uploads' = [uploads EXCEPT ![w] = up \cup {new}]
  BY DEF UploadBuffer
<1> QED
  BY <1>2, <1>3, NextIdType, GithubCacheAssumption
     DEF UploadBuffer, Types, TypeOK, GithubCacheAssumption

LEMMA QuietType == ASSUME Types, NEW w \in Writer, Quiet(w) PROVE Types'
<1> USE GithubCacheAssumption DEF GithubCacheAssumption, Types, TypeOK, StagedType, Stage,
    writerVars, serviceVars, Goto
<1>1. CASE WriteKey(w)
  BY <1>1 DEF WriteKey
<1>2. CASE Refused(w) \/ KeyExists(w) \/ KeyMissing(w) \/ CreateEntry(w)
  BY <1>2 DEF Refused, KeyExists, KeyMissing, CreateEntry
<1>3. CASE AzureRefuses(w) \/ PollWriteFails(w) \/ PollFlushFails(w) \/ Drop(w)
  BY <1>3 DEF AzureRefuses, PollWriteFails, PollFlushFails, Drop
<1>4. CASE CommitGithub(w)
  BY <1>4 DEF CommitGithub
<1>5. CASE CommitAzure(w)
  <2>1. \A v \in Writer : DOMAIN blob'[v] \subseteq Nat
    BY <1>5 DEF CommitAzure, BlockIds, Id
  <2> QED
    BY <1>5, <2>1 DEF CommitAzure
<1> QED
  BY <1>1, <1>2, <1>3, <1>4, <1>5 DEF Quiet

LEMMA NextType == Types /\ [Next]_vars => Types'
<1> SUFFICES ASSUME Types, [Next]_vars PROVE Types'
  OBVIOUS
<1> USE GithubCacheAssumption DEF GithubCacheAssumption
<1>1. ASSUME NEW w \in Writer, PollWrite(w) PROVE Types'
  <2>1. PICK up \in Joined(w), n \in 1..(Length[w] - taken[w]) :
          /\ buffer[w] + n <= BLOCK_SIZE
          /\ taken' = [taken EXCEPT ![w] = @ + n]
          /\ unflushed' = [unflushed EXCEPT ![w] = TRUE]
          /\ IF buffer[w] + n = BLOCK_SIZE
               THEN UploadBuffer(w, up, buffer[w] + n)
               ELSE /\ uploads' = [uploads EXCEPT ![w] = up]
                    /\ buffer' = [buffer EXCEPT ![w] = buffer[w] + n]
                    /\ UNCHANGED <<bytes_written, block_id_counter>>
    BY <1>1 DEF PollWrite
  <2>2. up \in SUBSET uploads[w] /\ n \in Nat /\ buffer[w] + n \in Nat
    BY DEF Joined, Types, TypeOK
  <2>3. CASE buffer[w] + n = BLOCK_SIZE
    <3>1. UploadBuffer(w, up, buffer[w] + n)
      BY <2>1, <2>3
    <3>2. \A v \in Writer : taken'[v] = bytes_written'[v] + buffer'[v] /\ taken'[v] <= Length[v]
      BY <2>1, <2>2, <3>1 DEF UploadBuffer, Types, TypeOK
    <3>3. taken' \in [Writer -> Nat] /\ unflushed' \in [Writer -> BOOLEAN]
      BY <2>1, <2>2 DEF Types, TypeOK
    <3> QED
      BY <1>1, <2>2, <3>1, <3>2, <3>3, UploadType
         DEF PollWrite, Types, TypeOK, StagedType, serviceVars
  <2>4. CASE buffer[w] + n # BLOCK_SIZE
    <3>1. buffer' \in [Writer -> 0..(BLOCK_SIZE - 1)]
      <4>1. BLOCK_SIZE \in Nat
        OBVIOUS
      <4>2. buffer[w] + n \in 0..(BLOCK_SIZE - 1)
        BY <2>1, <2>2, <2>4, <4>1
      <4>3. buffer' = [buffer EXCEPT ![w] = buffer[w] + n]
        BY <2>1, <2>4
      <4> QED
        BY <4>2, <4>3 DEF Types, TypeOK
    <3>2. \A v \in Writer : taken'[v] = bytes_written'[v] + buffer'[v] /\ taken'[v] <= Length[v]
      BY <2>1, <2>2, <2>4 DEF Types, TypeOK
    <3>3. taken' \in [Writer -> Nat] /\ unflushed' \in [Writer -> BOOLEAN]
      BY <2>1, <2>2 DEF Types, TypeOK
    <3>4. uploads' \in [Writer -> SUBSET Upload]
      <4>1. up \in SUBSET Upload
        BY <2>2 DEF Types, TypeOK
      <4>2. uploads' = [uploads EXCEPT ![w] = up]
        BY <2>1, <2>4
      <4> QED
        BY <4>1, <4>2 DEF Types, TypeOK
    <3> QED
      BY <1>1, <2>1, <2>4, <3>1, <3>2, <3>3, <3>4
         DEF PollWrite, Types, TypeOK, StagedType, serviceVars
  <2> QED
    BY <2>3, <2>4
<1>2. ASSUME NEW w \in Writer, Dozes(w) PROVE Types'
  BY <1>2 DEF Dozes, PollWriteWaits, SourceWakes, Types, TypeOK, StagedType, serviceVars
<1>3. ASSUME NEW w \in Writer, PollFlushWaits(w) PROVE Types'
  <2>1. Running(w) \in SUBSET uploads[w] /\ buffer[w] \in Nat
    BY DEF Running, Types, TypeOK
  <2>2. CASE buffer[w] >= Least(w)
    <3>1. UploadBuffer(w, Running(w), buffer[w])
      BY <1>3, <2>2 DEF PollFlushWaits
    <3>2. \A v \in Writer : taken[v] = bytes_written'[v] + buffer'[v]
      BY <2>1, <3>1 DEF UploadBuffer, Types, TypeOK
    <3> QED
      BY <1>3, <2>1, <3>1, <3>2, UploadType
         DEF PollFlushWaits, Types, TypeOK, StagedType, serviceVars
  <2>3. CASE ~(buffer[w] >= Least(w))
    BY <1>3, <2>1, <2>3 DEF PollFlushWaits, Types, TypeOK, StagedType, serviceVars
  <2> QED
    BY <2>2, <2>3
<1>4. ASSUME NEW w \in Writer, PollFlushDone(w) PROVE Types'
  BY <1>4 DEF PollFlushDone, Types, TypeOK, StagedType, serviceVars, Stage
<1>5. ASSUME NEW w \in Writer, NEW u \in uploads[w], NEW s \in {"ok", "failed"},
             SetState(w, u, s)
      PROVE  uploads' \in [Writer -> SUBSET Upload]
  <2>1. [u EXCEPT !.state = s] \in Upload
    BY DEF Types, TypeOK, Upload
  <2> QED
    BY <1>5, <2>1 DEF SetState, Types, TypeOK
<1>6. ASSUME NEW w \in Writer, NEW u \in uploads[w], UploadEnds(w, u) PROVE Types'
  <2>1. u.id \in Id /\ u.extent \in Nat \X Nat
    BY DEF Types, TypeOK, Upload
  <2>2. ASSUME NEW v \in Writer, NEW i \in DOMAIN staged'[v]
        PROVE  i \in Id /\ staged'[v][i] \in Nat \X Nat
    <3>1. CASE v = w
      <4>1. staged'[w] = [j \in DOMAIN staged[w] \cup {u.id} |->
                             IF j = u.id THEN u.extent ELSE staged[w][j]]
        BY <1>6 DEF UploadEnds, Types, StagedType
      <4> QED
        BY <2>1, <2>2, <3>1, <4>1 DEF Types, StagedType
    <3>2. CASE v # w
      BY <1>6, <2>2, <3>2 DEF UploadEnds, Types, StagedType
    <3> QED
      BY <3>1, <3>2
  <2> QED
    <3>1. TypeOK'
      BY <1>5, <1>6, <2>2 DEF UploadEnds, SetState, Types, TypeOK
    <3>2. staged' = [v \in Writer |-> staged'[v]] /\ blob' = [v \in Writer |-> blob'[v]]
      BY <1>6 DEF UploadEnds, SetState, Types, StagedType
    <3> QED
      BY <2>2, <3>1, <3>2 DEF Types, StagedType
<1>7. ASSUME NEW w \in Writer, NEW u \in uploads[w], UploadFails(w, u) PROVE Types'
  BY <1>5, <1>7 DEF UploadFails, SetState, Types, TypeOK, StagedType
<1>8. CASE UNCHANGED vars
  BY <1>8 DEF vars, writerVars, serviceVars, Types, TypeOK, StagedType
<1> QED
  BY <1>1, <1>2, <1>3, <1>4, <1>6, <1>7, <1>8, QuietType, StepCases

-----------------------------------------------------------------------------
(* How many uploads there are.  A write leaves the cap room for the buffer  *)
(* it leaves behind, which is what flush and shutdown rely on.              *)
Bounded ==
    \A w \in Writer :
        /\ IsFiniteSet(uploads[w])
        /\ Cardinality(uploads[w]) <= CONCURRENT_UPLOADS
        /\ buffer[w] > 0 => Cardinality(uploads[w]) < CONCURRENT_UPLOADS

(* Leaving one writer's set of uploads no larger, or one larger with an     *)
(* empty buffer.                                                            *)
LEMMA BoundedByStep ==
  ASSUME Types, Types', Bounded, NEW w \in Writer,
         \A v \in Writer \ {w} : uploads'[v] = uploads[v] /\ buffer'[v] = buffer[v],
         IsFiniteSet(uploads'[w]),
         Cardinality(uploads'[w]) <= CONCURRENT_UPLOADS,
         buffer'[w] > 0 => Cardinality(uploads'[w]) < CONCURRENT_UPLOADS
  PROVE  Bounded'
BY DEF Bounded

LEMMA OneMore ==
  ASSUME NEW S, NEW x, IsFiniteSet(S)
  PROVE  /\ IsFiniteSet(S \cup {x})
         /\ Cardinality(S) \in Nat /\ Cardinality(S \cup {x}) \in Nat
         /\ Cardinality(S \cup {x}) <= Cardinality(S) + 1
<1>1. IsFiniteSet(S \cup {x}) /\ Cardinality(S) \in Nat
  BY FS_AddElement, FS_CardinalityType
<1>2. Cardinality(S \cup {x}) = IF x \in S THEN Cardinality(S) ELSE Cardinality(S) + 1
  BY FS_AddElement
<1> QED
  BY <1>1, <1>2

LEMMA BoundedUploadBuffer ==
  ASSUME Types, Types', Bounded, NEW w \in Writer, NEW up \in SUBSET uploads[w], NEW n \in Nat,
         UploadBuffer(w, up, n), Cardinality(up) < CONCURRENT_UPLOADS
  PROVE  Bounded'
<1> DEFINE new == [id |-> block_id_counter[w],
                   extent |-> <<bytes_written[w], bytes_written[w] + n>>,
                   state |-> "running"]
<1>1. IsFiniteSet(up) /\ Cardinality(up) \in Nat
  BY FS_Subset, FS_CardinalityType DEF Bounded
<1>2. uploads'[w] = up \cup {new} /\ buffer'[w] = 0
  BY DEF UploadBuffer, Types, TypeOK
<1>5. \A v \in Writer \ {w} : uploads'[v] = uploads[v] /\ buffer'[v] = buffer[v]
  BY DEF UploadBuffer, Types, TypeOK
<1> HIDE DEF new
<1>6. IsFiniteSet(uploads'[w]) /\ Cardinality(uploads'[w]) \in Nat
  BY <1>1, <1>2, OneMore
<1>7. Cardinality(uploads'[w]) <= Cardinality(up) + 1
  BY <1>1, <1>2, OneMore
<1>8. CONCURRENT_UPLOADS \in Nat
  BY GithubCacheAssumption DEF GithubCacheAssumption
<1>9. Cardinality(uploads'[w]) <= CONCURRENT_UPLOADS
  BY <1>1, <1>6, <1>7, <1>8
<1> QED
  BY <1>2, <1>5, <1>6, <1>9, BoundedByStep

LEMMA InitBounded == Init => Bounded
BY FS_EmptySet, GithubCacheAssumption DEF Init, Bounded, GithubCacheAssumption

LEMMA NextBounded == Types /\ Types' /\ Bounded /\ [Next]_vars => Bounded'
<1> SUFFICES ASSUME Types, Types', Bounded, [Next]_vars PROVE Bounded'
  OBVIOUS
<1>0. CONCURRENT_UPLOADS \in Nat \ {0}
  BY GithubCacheAssumption DEF GithubCacheAssumption
<1>a. ASSUME NEW w \in Writer
      PROVE  /\ IsFiniteSet(uploads[w]) /\ Cardinality(uploads[w]) \in Nat
             /\ \A up \in SUBSET uploads[w] :
                   /\ IsFiniteSet(up) /\ Cardinality(up) \in Nat
                   /\ Cardinality(up) <= Cardinality(uploads[w])
  BY FS_Subset, FS_CardinalityType DEF Bounded
<1>1. ASSUME NEW w \in Writer, PollWrite(w) PROVE Bounded'
  <2>1. PICK up \in Joined(w), n \in 1..(Length[w] - taken[w]) :
          IF buffer[w] + n = BLOCK_SIZE
            THEN UploadBuffer(w, up, buffer[w] + n)
            ELSE /\ uploads' = [uploads EXCEPT ![w] = up]
                 /\ buffer' = [buffer EXCEPT ![w] = buffer[w] + n]
    BY <1>1 DEF PollWrite
  <2>2. up \in SUBSET uploads[w] /\ buffer[w] + n \in Nat
    BY DEF Joined, Types, TypeOK
  <2>3. Cardinality(up) < CONCURRENT_UPLOADS
    <3>1. CASE Ended(w) = {}
      BY <1>0, <1>1, <1>a, <2>2, <3>1 DEF PollWrite, AtCap, Joined
    <3>2. CASE Ended(w) # {}
      <4>1. PICK u \in uploads[w] : up = uploads[w] \ {u}
        BY <3>2 DEF Joined, Ended
      <4>2. Cardinality(up) = Cardinality(uploads[w]) - 1
        BY <1>a, <4>1, FS_RemoveElement
      <4> QED
        BY <1>0, <1>a, <4>2 DEF Bounded
    <3> QED
      BY <3>1, <3>2
  <2>4. CASE buffer[w] + n = BLOCK_SIZE
    BY <2>1, <2>2, <2>3, <2>4, BoundedUploadBuffer
  <2>5. CASE buffer[w] + n # BLOCK_SIZE
    <3>1. uploads'[w] = up /\ \A v \in Writer \ {w} :
             uploads'[v] = uploads[v] /\ buffer'[v] = buffer[v]
      BY <2>1, <2>5 DEF Types, TypeOK
    <3> QED
      BY <1>0, <1>a, <2>2, <2>3, <3>1, BoundedByStep
  <2> QED
    BY <2>4, <2>5
<1>2. ASSUME NEW w \in Writer, PollFlushWaits(w) PROVE Bounded'
  <2>1. Running(w) \in SUBSET uploads[w] /\ buffer[w] \in Nat
    BY DEF Running, Types, TypeOK
  <2>2. CASE buffer[w] >= Least(w)
    <3>1. buffer[w] > 0
      BY <2>1, <2>2, GithubCacheAssumption DEF Least, GithubCacheAssumption
    <3>2. Cardinality(Running(w)) < CONCURRENT_UPLOADS
      BY <1>0, <1>a, <2>1, <3>1 DEF Bounded
    <3> QED
      BY <1>2, <2>1, <2>2, <3>2, BoundedUploadBuffer DEF PollFlushWaits
  <2>3. CASE ~(buffer[w] >= Least(w))
    <3>1. /\ uploads'[w] = Running(w) /\ buffer' = buffer
          /\ \A v \in Writer \ {w} : uploads'[v] = uploads[v]
      BY <1>2, <2>3 DEF PollFlushWaits, Types, TypeOK
    <3>2. /\ IsFiniteSet(Running(w)) /\ Cardinality(Running(w)) \in Nat
          /\ Cardinality(Running(w)) <= Cardinality(uploads[w])
      BY <1>a, <2>1
    <3> QED
      BY <1>0, <1>a, <3>1, <3>2, BoundedByStep DEF Bounded
  <2> QED
    BY <2>2, <2>3
<1>3. ASSUME NEW w \in Writer, PollFlushDone(w) PROVE Bounded'
  <2>1. /\ uploads'[w] = {} /\ buffer' = buffer
        /\ \A v \in Writer \ {w} : uploads'[v] = uploads[v]
    BY <1>3 DEF PollFlushDone, Types, TypeOK
  <2>2. IsFiniteSet(uploads'[w]) /\ Cardinality(uploads'[w]) = 0
    BY <2>1, FS_EmptySet
  <2> QED
    BY <1>0, <2>1, <2>2, BoundedByStep
<1>4. ASSUME NEW w \in Writer, NEW u \in uploads[w], NEW s \in {"ok", "failed"},
             SetState(w, u, s)
      PROVE  Bounded'
  <2> DEFINE rest == uploads[w] \ {u}
             new == [u EXCEPT !.state = s]
  <2>1. /\ uploads'[w] = rest \cup {new} /\ buffer' = buffer
        /\ \A v \in Writer \ {w} : uploads'[v] = uploads[v]
    BY <1>4 DEF SetState, Types, TypeOK
  <2>2. IsFiniteSet(rest) /\ Cardinality(rest) = Cardinality(uploads[w]) - 1
    BY <1>a, FS_RemoveElement
  <2> HIDE DEF rest, new
  <2>3. /\ IsFiniteSet(uploads'[w]) /\ Cardinality(uploads'[w]) \in Nat
        /\ Cardinality(uploads'[w]) <= Cardinality(rest) + 1
    <3>1. /\ IsFiniteSet(rest \cup {new})
          /\ Cardinality(rest \cup {new}) \in Nat
          /\ Cardinality(rest \cup {new}) <= Cardinality(rest) + 1
      BY ONLY <2>2, OneMore
    <3> QED
      BY ONLY <2>1, <3>1
  <2>4. Cardinality(uploads'[w]) <= Cardinality(uploads[w])
    BY <1>a, <2>2, <2>3
  <2>5. /\ Cardinality(uploads[w]) <= CONCURRENT_UPLOADS
        /\ buffer[w] > 0 => Cardinality(uploads[w]) < CONCURRENT_UPLOADS
    BY DEF Bounded
  <2>6. /\ Cardinality(uploads'[w]) <= CONCURRENT_UPLOADS
        /\ buffer'[w] > 0 => Cardinality(uploads'[w]) < CONCURRENT_UPLOADS
    BY <1>0, <1>a, <2>1, <2>3, <2>4, <2>5
  <2> QED
    BY <2>1, <2>3, <2>6, BoundedByStep
<1>5. ASSUME UNCHANGED <<uploads, buffer>> PROVE Bounded'
  BY <1>5 DEF Bounded
<1>6. ASSUME NEW w \in Writer, Quiet(w) \/ Dozes(w) PROVE UNCHANGED <<uploads, buffer>>
  BY <1>6 DEF Quiet, WriteKey, Refused, KeyExists, KeyMissing, CreateEntry, CommitAzure,
     AzureRefuses, CommitGithub, PollWriteFails, PollFlushFails, Drop, Dozes,
     PollWriteWaits, SourceWakes,
     writerVars
<1>7. CASE UNCHANGED vars
  BY <1>5, <1>7 DEF vars, writerVars
<1> QED
  BY <1>1, <1>2, <1>3, <1>4, <1>5, <1>6, <1>7, StepCases DEF UploadEnds, UploadFails

-----------------------------------------------------------------------------
(* The block with identifier i is units a to b of the data: an upload that  *)
(* is under way or ended carries it, or Azure has it.                       *)
Lies(w, i, a, b) ==
    \/ \E u \in uploads[w] : u.id = i /\ u.extent = <<a, b>>
    \/ i \in DOMAIN staged[w] /\ staged[w][i] = <<a, b>>

(* The writer is past its last write.                                       *)
Past(w) == stage[w] \notin {"idle", "checking", "creating", "open"}

(* While the counter has not come to its end identifiers number the blocks  *)
(* in the order of the data, and only the last block may be small, in       *)
(* shutdown, when there is no more to come.                                 *)
InOrder(w) ==
    block_id_counter[w] < MaxCounter =>
      /\ block_id_counter[w] = 0 => bytes_written[w] = 0
      /\ \A i \in Id, a, b \in Nat : Lies(w, i, a, b) =>
           /\ i < block_id_counter[w]
           /\ i = 0 => a = 0
           /\ i + 1 = block_id_counter[w] => b = bytes_written[w]
           /\ b - a < MINIMUM_BLOCK_SIZE =>
                i + 1 = block_id_counter[w] /\ buffer[w] = 0 /\ Past(w)
      /\ \A i, j \in Id, a, b, c, d \in Nat :
           Lies(w, i, a, b) /\ Lies(w, j, c, d) /\ j = i + 1 => c = b

BlocksInOrder == \A w \in Writer : InOrder(w)

LEMMA KeepsOrder ==
  ASSUME NEW w \in Writer, InOrder(w),
         block_id_counter'[w] = block_id_counter[w], bytes_written'[w] = bytes_written[w],
         buffer[w] = 0 /\ Past(w) => buffer'[w] = 0 /\ Past(w)',
         \A i \in Id, a, b \in Nat : Lies(w, i, a, b)' => Lies(w, i, a, b)
  PROVE  InOrder(w)'
BY DEF InOrder

LEMMA UntouchedOrder ==
  ASSUME NEW w \in Writer, InOrder(w), uploads'[w] = uploads[w], staged'[w] = staged[w],
         block_id_counter'[w] = block_id_counter[w], bytes_written'[w] = bytes_written[w],
         buffer'[w] = buffer[w], Past(w) => Past(w)'
  PROVE  InOrder(w)'
<1>1. \A i \in Id, a, b \in Nat : Lies(w, i, a, b)' => Lies(w, i, a, b)
  BY DEF Lies
<1> QED
  BY <1>1, KeepsOrder

LEMMA AddsBlock ==
  ASSUME Types, NEW w \in Writer, InOrder(w),
         NEW up \in SUBSET uploads[w], NEW n \in Nat \ {0}, UploadBuffer(w, up, n),
         staged' = staged, stage' = stage,
         ~Past(w) => n >= MINIMUM_BLOCK_SIZE, buffer[w] # 0 \/ ~Past(w)
  PROVE  InOrder(w)'
<1> DEFINE c == block_id_counter[w]
           p == bytes_written[w]
<1>1. c \in Id /\ c \in Nat /\ p \in Nat /\ MaxCounter \in Nat /\ MINIMUM_BLOCK_SIZE \in Nat
  BY GithubCacheAssumption DEF Types, TypeOK, Id, GithubCacheAssumption
<1>2. /\ block_id_counter'[w] = NextId(c)
      /\ bytes_written'[w] = p + n
      /\ buffer'[w] = 0
      /\ uploads'[w] = up \cup {[id |-> c, extent |-> <<p, p + n>>, state |-> "running"]}
  BY DEF UploadBuffer, Types, TypeOK
<1>3. ASSUME NEW i \in Id, NEW a \in Nat, NEW b \in Nat, Lies(w, i, a, b)'
      PROVE  Lies(w, i, a, b) \/ (i = c /\ a = p /\ b = p + n)
  BY <1>2, <1>3 DEF Lies
<1>4. SUFFICES ASSUME block_id_counter'[w] < MaxCounter PROVE InOrder(w)'
  BY DEF InOrder
<1>5. c < MaxCounter /\ block_id_counter'[w] = c + 1
  BY <1>1, <1>2, <1>4 DEF NextId, Id
<1>p. Past(w)' <=> Past(w)
  BY DEF Past
<1> HIDE DEF c, p
<1>6. ASSUME NEW i \in Id, NEW a \in Nat, NEW b \in Nat, Lies(w, i, a, b)
      PROVE  /\ i < c
             /\ i = 0 => a = 0
             /\ i + 1 = c => b = p
             /\ b - a >= MINIMUM_BLOCK_SIZE
  BY <1>1, <1>5, <1>6 DEF InOrder, c, p
<1>7. c = 0 => p = 0
  BY <1>5 DEF InOrder, c, p
<1>8. ASSUME NEW i \in Id, NEW a \in Nat, NEW b \in Nat, Lies(w, i, a, b)'
      PROVE  /\ i < c + 1
             /\ i = 0 => a = 0
             /\ i + 1 = c + 1 => b = p + n
             /\ b - a < MINIMUM_BLOCK_SIZE => i + 1 = c + 1 /\ Past(w)
  <2>1. CASE Lies(w, i, a, b)
    BY <1>1, <1>6, <2>1 DEF Id
  <2>2. CASE i = c /\ a = p /\ b = p + n
    BY <1>1, <1>7, <2>2
  <2> QED
    BY <1>3, <1>8, <2>1, <2>2
<1>9. ASSUME NEW i \in Id, NEW j \in Id, NEW a \in Nat, NEW b \in Nat, NEW d \in Nat,
             NEW e \in Nat, Lies(w, i, a, b)', Lies(w, j, d, e)', j = i + 1
      PROVE  d = b
  <2>1. CASE Lies(w, i, a, b) /\ Lies(w, j, d, e)
    BY <1>5, <1>9, <2>1 DEF InOrder, c
  <2>2. CASE Lies(w, i, a, b) /\ j = c /\ d = p
    BY <1>6, <1>9, <2>2
  <2>3. i # c
    BY <1>1, <1>3, <1>6, <1>9 DEF Id
  <2> QED
    BY <1>3, <1>9, <2>1, <2>2, <2>3
<1> QED
  BY <1>1, <1>2, <1>5, <1>8, <1>9, <1>p DEF InOrder

LEMMA InitOrder == Init => BlocksInOrder
BY GithubCacheAssumption
   DEF Init, BlocksInOrder, InOrder, Lies, GithubCacheAssumption

LEMMA NextOrder == Types /\ BlocksInOrder /\ [Next]_vars => BlocksInOrder'
<1> SUFFICES ASSUME Types, BlocksInOrder, [Next]_vars PROVE BlocksInOrder'
  OBVIOUS
<1>0. BLOCK_SIZE \in Nat \ {0} /\ MINIMUM_BLOCK_SIZE \in Nat \ {0}
      /\ MINIMUM_BLOCK_SIZE <= BLOCK_SIZE
  BY GithubCacheAssumption DEF GithubCacheAssumption
<1>1. ASSUME NEW w \in Writer, PollWrite(w) PROVE BlocksInOrder'
  <2>1. PICK up \in Joined(w), n \in 1..(Length[w] - taken[w]) :
          IF buffer[w] + n = BLOCK_SIZE
            THEN UploadBuffer(w, up, buffer[w] + n)
            ELSE /\ uploads' = [uploads EXCEPT ![w] = up]
                 /\ buffer' = [buffer EXCEPT ![w] = buffer[w] + n]
                 /\ UNCHANGED <<bytes_written, block_id_counter>>
    BY <1>1 DEF PollWrite
  <2>2. /\ up \in SUBSET uploads[w] /\ stage[w] = "open"
        /\ stage' = stage /\ staged' = staged /\ ~Past(w)
        /\ \A v \in Writer : Past(v)' <=> Past(v)
    BY <1>1 DEF PollWrite, Writing, Joined, serviceVars, Past
  <2>3. ASSUME NEW v \in Writer \ {w} PROVE InOrder(v)'
    <3>1. /\ uploads'[v] = uploads[v] /\ buffer'[v] = buffer[v]
          /\ bytes_written'[v] = bytes_written[v]
          /\ block_id_counter'[v] = block_id_counter[v]
      BY <2>1 DEF UploadBuffer, Types, TypeOK
    <3> QED
      BY <2>2, <3>1, UntouchedOrder DEF BlocksInOrder
  <2>4. CASE buffer[w] + n = BLOCK_SIZE
    <3>1. UploadBuffer(w, up, BLOCK_SIZE)
      BY <2>1, <2>4
    <3>2. BLOCK_SIZE \in Nat \ {0} /\ BLOCK_SIZE >= MINIMUM_BLOCK_SIZE
      BY <1>0
    <3>3. InOrder(w)'
      BY <2>2, <3>1, <3>2, AddsBlock DEF BlocksInOrder
    <3> QED
      BY <2>3, <3>3 DEF BlocksInOrder
  <2>5. CASE buffer[w] + n # BLOCK_SIZE
    <3>1. uploads'[w] = up
      BY <2>1, <2>5 DEF Types, TypeOK
    <3>2. \A i \in Id, a, b \in Nat : Lies(w, i, a, b)' => Lies(w, i, a, b)
      BY <2>2, <3>1 DEF Lies
    <3>3. UNCHANGED <<bytes_written, block_id_counter>>
      BY <2>1, <2>5
    <3>4. InOrder(w)'
      BY <2>2, <3>2, <3>3, KeepsOrder DEF BlocksInOrder
    <3> QED
      BY <2>3, <3>4 DEF BlocksInOrder
  <2> QED
    BY <2>4, <2>5
<1>2. ASSUME NEW w \in Writer, PollFlushWaits(w) PROVE BlocksInOrder'
  <2>1. /\ Running(w) \in SUBSET uploads[w] /\ stage' = stage /\ staged' = staged
        /\ buffer[w] \in Nat /\ \A v \in Writer : Past(v)' <=> Past(v)
    BY <1>2 DEF PollFlushWaits, Running, serviceVars, Types, TypeOK, Past
  <2>2. ASSUME NEW v \in Writer \ {w} PROVE InOrder(v)'
    <3>1. /\ uploads'[v] = uploads[v] /\ buffer'[v] = buffer[v]
          /\ bytes_written'[v] = bytes_written[v]
          /\ block_id_counter'[v] = block_id_counter[v]
      BY <1>2 DEF PollFlushWaits, UploadBuffer, Types, TypeOK
    <3> QED
      BY <2>1, <3>1, UntouchedOrder DEF BlocksInOrder
  <2>3. CASE buffer[w] >= Least(w)
    <3>1. buffer[w] # 0 /\ (~Past(w) => buffer[w] >= MINIMUM_BLOCK_SIZE)
      BY <1>0, <2>1, <2>3 DEF Least, Past
    <3> QED
      BY <1>2, <2>1, <2>2, <2>3, <3>1, AddsBlock DEF PollFlushWaits, BlocksInOrder
  <2>4. CASE ~(buffer[w] >= Least(w))
    <3>1. /\ uploads'[w] = Running(w)
          /\ UNCHANGED <<buffer, bytes_written, block_id_counter>>
      BY <1>2, <2>4 DEF PollFlushWaits, Types, TypeOK
    <3>2. \A i \in Id, a, b \in Nat : Lies(w, i, a, b)' => Lies(w, i, a, b)
      BY <2>1, <3>1 DEF Lies
    <3> QED
      BY <2>1, <2>2, <3>1, <3>2, KeepsOrder DEF BlocksInOrder
  <2> QED
    BY <2>3, <2>4
<1>3. ASSUME NEW w \in Writer, PollFlushDone(w) PROVE BlocksInOrder'
  <2>1. /\ uploads'[w] = {} /\ staged' = staged
        /\ UNCHANGED <<buffer, bytes_written, block_id_counter>>
        /\ \A v \in Writer \ {w} : uploads'[v] = uploads[v]
        /\ \A v \in Writer : Past(v) => Past(v)'
    BY <1>3 DEF PollFlushDone, serviceVars, Types, TypeOK, Past
  <2>2. \A i \in Id, a, b \in Nat : Lies(w, i, a, b)' => Lies(w, i, a, b)
    BY <2>1 DEF Lies
  <2>3. InOrder(w)'
    BY <2>1, <2>2, KeepsOrder DEF BlocksInOrder
  <2> QED
    BY <2>1, <2>3, UntouchedOrder DEF BlocksInOrder
<1>4. ASSUME NEW w \in Writer, NEW u \in uploads[w], UploadEnds(w, u) \/ UploadFails(w, u)
      PROVE  BlocksInOrder'
  <2>1. PICK s \in {"ok", "failed"} :
          uploads'[w] = (uploads[w] \ {u}) \cup {[u EXCEPT !.state = s]}
    BY <1>4 DEF UploadEnds, UploadFails, SetState, Types, TypeOK
  <2>2. /\ UNCHANGED <<buffer, bytes_written, block_id_counter>>
        /\ \A v \in Writer \ {w} : uploads'[v] = uploads[v] /\ staged'[v] = staged[v]
        /\ \A v \in Writer : Past(v)' <=> Past(v)
    BY <1>4 DEF UploadEnds, UploadFails, SetState, Types, TypeOK, StagedType, Past
  <2>3. u \in Upload
    BY DEF Types, TypeOK
  <2>4. ASSUME NEW i \in DOMAIN staged'[w]
        PROVE  \/ i \in DOMAIN staged[w] /\ staged'[w][i] = staged[w][i]
               \/ i = u.id /\ staged'[w][i] = u.extent
    BY <1>4, <2>4 DEF UploadEnds, UploadFails, Types, StagedType
  <2>5. ASSUME NEW x \in uploads'[w]
        PROVE  \E y \in uploads[w] : y.id = x.id /\ y.extent = x.extent
    BY <2>1, <2>3, <2>5 DEF Upload
  <2>6. \A i \in Id, a, b \in Nat : Lies(w, i, a, b)' => Lies(w, i, a, b)
    BY <2>4, <2>5 DEF Lies
  <2>7. InOrder(w)'
    BY <2>2, <2>6, KeepsOrder DEF BlocksInOrder
  <2> QED
    BY <2>2, <2>7, UntouchedOrder DEF BlocksInOrder
<1>5. ASSUME NEW w \in Writer, Quiet(w) \/ Dozes(w) PROVE BlocksInOrder'
  <2>1. UNCHANGED <<uploads, staged, buffer, bytes_written, block_id_counter>>
    BY <1>5 DEF Quiet, WriteKey, Refused, KeyExists, KeyMissing, CreateEntry, CommitAzure,
       AzureRefuses, CommitGithub, PollWriteFails, PollFlushFails, Drop, Dozes,
       PollWriteWaits, SourceWakes,
       writerVars, serviceVars
  <2>2. \A v \in Writer : Past(v) => Past(v)'
    BY <1>5 DEF Quiet, WriteKey, Refused, KeyExists, KeyMissing, CreateEntry, CommitAzure,
       AzureRefuses, CommitGithub, PollWriteFails, PollFlushFails, Drop, Dozes,
       PollWriteWaits, SourceWakes,
       Attempting, Goto, Types, TypeOK, Past
  <2> QED
    BY <2>1, <2>2, UntouchedOrder DEF BlocksInOrder
<1>6. CASE UNCHANGED vars
  BY <1>6, UntouchedOrder DEF BlocksInOrder, vars, writerVars, serviceVars, Past
<1> QED
  BY <1>1, <1>2, <1>3, <1>4, <1>5, <1>6, StepCases

-----------------------------------------------------------------------------
(* What shutdown has seen to: everything is taken, and from the commit to   *)
(* Azure on nothing is left in the buffer.                                  *)
Emptied ==
    \A w \in Writer :
        /\ stage[w] \in {"shutdown", "azure", "github", "lost", "done"} => taken[w] = Length[w]
        /\ stage[w] \in {"azure", "github", "lost", "done"} => buffer[w] = 0

LEMMA NextEmptied == Types /\ Emptied /\ [Next]_vars => Emptied'
<1> SUFFICES ASSUME Types, Emptied, [Next]_vars PROVE Emptied'
  OBVIOUS
<1> USE DEF Types, TypeOK, Emptied
<1>1. ASSUME NEW w \in Writer, PollWrite(w) PROVE Emptied'
  <2>1. /\ stage[w] = "open" /\ stage' = stage
        /\ \A v \in Writer \ {w} : taken'[v] = taken[v] /\ buffer'[v] = buffer[v]
    BY <1>1 DEF PollWrite, Writing, UploadBuffer
  <2> QED
    BY <2>1
<1>2. ASSUME NEW w \in Writer, PollFlushWaits(w) PROVE Emptied'
  <2>1. /\ UNCHANGED <<stage, taken>>
        /\ \A v \in Writer : buffer'[v] = buffer[v] \/ buffer'[v] = 0
    BY <1>2 DEF PollFlushWaits, UploadBuffer
  <2> QED
    BY <2>1
<1>3. ASSUME NEW w \in Writer, PollFlushDone(w) PROVE Emptied'
  <2>1. CASE stage[w] = "shutdown"
    BY <1>3, <2>1 DEF PollFlushDone, Least
  <2>2. CASE stage[w] = "open"
    BY <1>3, <2>2 DEF PollFlushDone
  <2> QED
    BY <1>3, <2>1, <2>2 DEF PollFlushDone, Flushing
<1>4. ASSUME NEW w \in Writer, NEW u \in uploads[w], UploadEnds(w, u) \/ UploadFails(w, u)
      PROVE  Emptied'
  BY <1>4 DEF UploadEnds, UploadFails, SetState
<1>5. ASSUME NEW w \in Writer, Quiet(w) \/ Dozes(w) PROVE Emptied'
  BY <1>5 DEF Quiet, WriteKey, Refused, KeyExists, KeyMissing, CreateEntry, CommitAzure,
     AzureRefuses, CommitGithub, PollWriteFails, PollFlushFails, Drop, Dozes,
     PollWriteWaits, SourceWakes,
     Attempting, Goto, writerVars
<1>6. CASE UNCHANGED vars
  BY <1>6 DEF vars, writerVars
<1> QED
  BY <1>1, <1>2, <1>3, <1>4, <1>5, <1>6, StepCases

-----------------------------------------------------------------------------
(* From the commit to Azure on the blob is the data of its writer.          *)
WholeBlob(w) ==
    LET b == blob[w] IN
    /\ bytes_written[w] = Length[w]
    /\ IF b = <<>> THEN Length[w] = 0
       ELSE b[1][1] = 0 /\ b[Len(b)][2] = Length[w]
    /\ \A i \in 2..Len(b) : b[i][1] = b[i - 1][2]
    /\ \A i \in 1..(Len(b) - 1) : b[i][2] - b[i][1] >= MINIMUM_BLOCK_SIZE

Committed(w) == stage[w] \in {"github", "lost", "done"}

BlobsWhole == \A w \in Writer : Committed(w) => WholeBlob(w)

(* Azure takes no list as long as the counter's end, so that the blocks of  *)
(* one it takes are in order.                                               *)
LEMMA CommittedWhole ==
  ASSUME Types, BlocksInOrder, Emptied, NEW w \in Writer, CommitAzure(w)
  PROVE  WholeBlob(w)'
<1> DEFINE c == block_id_counter[w]
           s == staged[w]
           b == [i \in 1..c |-> s[i - 1]]
<1>1. /\ c \in Nat /\ c < MaxCounter /\ MaxCounter \in Nat
      /\ MINIMUM_BLOCK_SIZE \in Nat
  BY GithubCacheAssumption
     DEF CommitAzure, BlockIds, Types, TypeOK, Id, GithubCacheAssumption
<1>2. /\ bytes_written[w] = Length[w] /\ buffer[w] = 0 /\ bytes_written[w] \in Nat
      /\ bytes_written' = bytes_written /\ blob'[w] = b
  BY DEF CommitAzure, BlockIds, Emptied, Types, TypeOK, StagedType, writerVars
<1>3. ASSUME NEW i \in 1..c
      PROVE  i - 1 \in Id /\ s[i - 1] \in Nat \X Nat /\ Lies(w, i - 1, s[i - 1][1], s[i - 1][2])
  BY DEF CommitAzure, BlockIds, Types, StagedType, Lies
<1>4. InOrder(w) /\ c < MaxCounter
  BY <1>1 DEF BlocksInOrder
<1>5. b \in Seq(Nat \X Nat) /\ Len(b) = c
  BY <1>1, <1>3
<1>6. c = 0 => bytes_written[w] = 0
  BY <1>4 DEF InOrder
<1>7. ASSUME NEW i \in 1..c
      PROVE  /\ i = 1 => s[i - 1][1] = 0
             /\ i = c => s[i - 1][2] = Length[w]
             /\ i # c => s[i - 1][2] - s[i - 1][1] >= MINIMUM_BLOCK_SIZE
  <2>1. /\ i - 1 = 0 => s[i - 1][1] = 0
        /\ (i - 1) + 1 = c => s[i - 1][2] = bytes_written[w]
        /\ s[i - 1][2] - s[i - 1][1] < MINIMUM_BLOCK_SIZE => (i - 1) + 1 = c
    BY <1>3, <1>4 DEF InOrder
  <2>2. s[i - 1][1] \in Nat /\ s[i - 1][2] \in Nat
    BY <1>3
  <2> QED
    BY <1>1, <1>2, <2>1, <2>2
<1>8. ASSUME NEW i \in 2..c PROVE s[i - 1][1] = s[i - 2][2]
  <2>1. i \in 1..c /\ i - 1 \in 1..c /\ (i - 1) - 1 = i - 2 /\ i - 1 = (i - 2) + 1
    BY <1>1
  <2>2. /\ i - 1 \in Id /\ i - 2 \in Id /\ s[i - 1] \in Nat \X Nat /\ s[i - 2] \in Nat \X Nat
        /\ Lies(w, i - 1, s[i - 1][1], s[i - 1][2])
        /\ Lies(w, i - 2, s[i - 2][1], s[i - 2][2])
    BY <1>3, <2>1
  <2> QED
    BY <1>4, <2>1, <2>2 DEF InOrder
<1>9. CASE c = 0
  <2>1. b = <<>>
    BY <1>5, <1>9
  <2> QED
    BY <1>2, <1>5, <1>6, <1>9, <2>1 DEF WholeBlob
<1>10. CASE c # 0
  <2>1. /\ b # <<>> /\ 1 \in 1..c /\ c \in 1..c
        /\ b[1][1] = 0 /\ b[c][2] = Length[w]
    BY <1>1, <1>5, <1>7, <1>10
  <2>2. \A i \in 2..c : b[i][1] = b[i - 1][2]
    <3> TAKE i \in 2..c
    <3>1. i \in 1..c /\ i - 1 \in 1..c /\ (i - 1) - 1 = i - 2
      BY <1>1
    <3> QED
      BY <1>8, <3>1
  <2>3. \A i \in 1..(c - 1) : b[i][2] - b[i][1] >= MINIMUM_BLOCK_SIZE
    <3> TAKE i \in 1..(c - 1)
    <3>1. i \in 1..c /\ i # c
      BY <1>1
    <3> QED
      BY <1>7, <3>1
  <2> HIDE DEF b
  <2> QED
    BY <1>2, <1>5, <2>1, <2>2, <2>3 DEF WholeBlob
<1> QED
  BY <1>9, <1>10

LEMMA NextBlobs ==
  Types /\ BlocksInOrder /\ Emptied /\ BlobsWhole /\ [Next]_vars => BlobsWhole'
<1> SUFFICES ASSUME Types, BlocksInOrder, Emptied, BlobsWhole, [Next]_vars
             PROVE  BlobsWhole'
  OBVIOUS
<1>1. ASSUME NEW v \in Writer, blob'[v] = blob[v], bytes_written'[v] = bytes_written[v],
             Committed(v), Committed(v)'
      PROVE  WholeBlob(v)'
  BY <1>1 DEF BlobsWhole, WholeBlob
<1>2. ASSUME NEW w \in Writer, CommitAzure(w) PROVE BlobsWhole'
  <2>1. ASSUME NEW v \in Writer \ {w}, Committed(v)' PROVE WholeBlob(v)'
    BY <1>1, <1>2, <2>1 DEF CommitAzure, Goto, Committed, writerVars, Types, TypeOK, StagedType
  <2> QED
    BY <1>2, <2>1, CommittedWhole DEF BlobsWhole
<1>3. ASSUME NEW v \in Writer, blob' = blob, bytes_written'[v] = bytes_written[v],
             Committed(v)' => Committed(v)
      PROVE  Committed(v)' => WholeBlob(v)'
  BY <1>1, <1>3
<1>4. ASSUME NEW w \in Writer, PollWrite(w) \/ PollFlushWaits(w), NEW v \in Writer
      PROVE  /\ blob' = blob /\ (Committed(v)' => Committed(v))
             /\ v # w \/ ~Committed(v)
             /\ v # w => bytes_written'[v] = bytes_written[v]
  BY <1>4 DEF PollWrite, PollFlushWaits, Writing, Flushing, UploadBuffer, serviceVars,
     Committed, Types, TypeOK
<1>5. ASSUME NEW w \in Writer, PollFlushDone(w) \/ Dozes(w), NEW v \in Writer
      PROVE  blob' = blob /\ bytes_written' = bytes_written /\ (Committed(v)' => Committed(v))
  BY <1>5 DEF PollFlushDone, Dozes, PollWriteWaits, SourceWakes, Flushing, serviceVars,
     Committed, Types, TypeOK
<1>6. ASSUME NEW w \in Writer, NEW u \in uploads[w], UploadEnds(w, u) \/ UploadFails(w, u),
             NEW v \in Writer
      PROVE  blob' = blob /\ bytes_written' = bytes_written /\ (Committed(v)' => Committed(v))
  BY <1>6 DEF UploadEnds, UploadFails, SetState, Committed
<1>7. ASSUME NEW w \in Writer, Quiet(w), ~CommitAzure(w), NEW v \in Writer
      PROVE  blob' = blob /\ bytes_written' = bytes_written /\ (Committed(v)' => Committed(v))
  BY <1>7 DEF Quiet, WriteKey, Refused, KeyExists, KeyMissing, CreateEntry, AzureRefuses,
     CommitGithub, PollWriteFails, PollFlushFails, Drop, Attempting, Goto, writerVars,
     serviceVars, Committed, Types, TypeOK
<1>8. CASE UNCHANGED vars
  BY <1>3, <1>8 DEF vars, writerVars, serviceVars, BlobsWhole, Committed
<1> QED
  <2>1. ASSUME NEW w \in Writer, PollWrite(w) \/ PollFlushWaits(w) PROVE BlobsWhole'
    BY <1>3, <1>4, <2>1 DEF BlobsWhole
  <2>2. ASSUME NEW w \in Writer, PollFlushDone(w) \/ Dozes(w) PROVE BlobsWhole'
    BY <1>3, <1>5, <2>2 DEF BlobsWhole
  <2>3. ASSUME NEW w \in Writer, NEW u \in uploads[w], UploadEnds(w, u) \/ UploadFails(w, u)
        PROVE  BlobsWhole'
    BY <1>3, <1>6, <2>3 DEF BlobsWhole
  <2>4. ASSUME NEW w \in Writer, Quiet(w) PROVE BlobsWhole'
    BY <1>2, <1>3, <1>7, <2>4 DEF BlobsWhole
  <2> QED
    BY <1>8, <2>1, <2>2, <2>3, <2>4, StepCases

-----------------------------------------------------------------------------
(* A writer that got past the lock keeps it, so it is the only one of its   *)
(* process for its key.                                                     *)
Admitted(w) == stage[w] \notin {"idle", "refused"}

LocksKept == \A w \in Writer : Admitted(w) => KeyOf[w] \in locks[ProcessOf[w]]

OnePerProcess ==
    \A v, w \in Writer :
        Admitted(v) /\ Admitted(w) /\ KeyOf[v] = KeyOf[w] /\ ProcessOf[v] = ProcessOf[w]
          => v = w

(* Entries are the blobs of writers that are done.                          *)
EntriesDone ==
    \A k \in Key : entry[k] # NoEntry => KeyOf[entry[k]] = k /\ stage[entry[k]] = "done"

(* What one step may do to the locks, the stages and the entries.           *)
LEMMA OtherSteps ==
  ASSUME Types, [Next]_vars, \A w \in Writer : ~WriteKey(w) /\ ~CommitGithub(w)
  PROVE  /\ locks' = locks /\ entry' = entry
         /\ \A v \in Writer : Admitted(v)' => Admitted(v)
         /\ \A v \in Writer : stage'[v] = "done" <=> stage[v] = "done"
<1> USE DEF Admitted, Types, TypeOK
<1>1. ASSUME NEW w \in Writer, Quiet(w)
      PROVE  /\ locks' = locks /\ entry' = entry
             /\ \A v \in Writer : Admitted(v)' => Admitted(v)
             /\ \A v \in Writer : stage'[v] = "done" <=> stage[v] = "done"
  BY <1>1 DEF Quiet, Refused, KeyExists, KeyMissing, CreateEntry, CommitAzure, AzureRefuses,
     PollWriteFails, PollFlushFails, Drop, Attempting, Goto, Writing, Flushing, serviceVars
<1>2. ASSUME NEW w \in Writer,
             PollWrite(w) \/ Dozes(w) \/ PollFlushWaits(w) \/ PollFlushDone(w)
      PROVE  /\ locks' = locks /\ entry' = entry
             /\ \A v \in Writer : Admitted(v)' => Admitted(v)
             /\ \A v \in Writer : stage'[v] = "done" <=> stage[v] = "done"
  BY <1>2 DEF PollWrite, Dozes, PollWriteWaits, SourceWakes, PollFlushWaits, PollFlushDone,
     Flushing, serviceVars
<1>3. ASSUME NEW w \in Writer, NEW u \in uploads[w], UploadEnds(w, u) \/ UploadFails(w, u)
      PROVE  locks' = locks /\ entry' = entry /\ stage' = stage
  BY <1>3 DEF UploadEnds, UploadFails, SetState
<1>4. CASE UNCHANGED vars
  BY <1>4 DEF vars, serviceVars
<1> QED
  BY <1>1, <1>2, <1>3, <1>4, StepCases

LEMMA NextLocks ==
  Types /\ LocksKept /\ OnePerProcess /\ [Next]_vars => LocksKept' /\ OnePerProcess'
<1> SUFFICES ASSUME Types, LocksKept, OnePerProcess, [Next]_vars
             PROVE  LocksKept' /\ OnePerProcess'
  OBVIOUS
<1> USE GithubCacheAssumption DEF GithubCacheAssumption, LocksKept, OnePerProcess, Admitted
<1>1. ASSUME NEW w \in Writer, WriteKey(w) PROVE LocksKept' /\ OnePerProcess'
  BY <1>1 DEF WriteKey, Goto, Types, TypeOK
<1>2. ASSUME NEW w \in Writer, CommitGithub(w) PROVE LocksKept' /\ OnePerProcess'
  BY <1>2 DEF CommitGithub, Goto, Types, TypeOK
<1>3. CASE \A w \in Writer : ~WriteKey(w) /\ ~CommitGithub(w)
  BY <1>3, OtherSteps
<1> QED
  BY <1>1, <1>2, <1>3

LEMMA NextEntries == Types /\ EntriesDone /\ [Next]_vars => EntriesDone'
<1> SUFFICES ASSUME Types, EntriesDone, [Next]_vars PROVE EntriesDone'
  OBVIOUS
<1> USE GithubCacheAssumption DEF GithubCacheAssumption, EntriesDone, Types, TypeOK
<1>1. ASSUME NEW w \in Writer, WriteKey(w) PROVE EntriesDone'
  BY <1>1 DEF WriteKey, Goto, serviceVars
<1>2. ASSUME NEW w \in Writer, CommitGithub(w) PROVE EntriesDone'
  BY <1>2 DEF CommitGithub, Goto
<1>3. CASE \A w \in Writer : ~WriteKey(w) /\ ~CommitGithub(w)
  BY <1>3, OtherSteps
<1> QED
  BY <1>1, <1>2, <1>3

-----------------------------------------------------------------------------
IInv ==
    /\ Types /\ Bounded /\ BlocksInOrder /\ Emptied /\ BlobsWhole
    /\ LocksKept /\ OnePerProcess /\ EntriesDone

LEMMA InitIInv == Init => IInv
BY InitType, InitBounded, InitOrder
   DEF Init, IInv, Emptied, BlobsWhole, Committed, LocksKept, OnePerProcess, EntriesDone,
       Admitted

LEMMA NextIInv == IInv /\ [Next]_vars => IInv'
BY NextType, NextBounded, NextOrder, NextEmptied, NextBlobs, NextLocks, NextEntries DEF IInv

(* Type correctness of the writers, their uploads and the service.          *)
THEOREM TypeCorrect == Spec => []TypeOK
<1>1. Types => TypeOK
  BY DEF Types
<1> QED
  BY <1>1, InitType, NextType, PTL DEF Spec

(* The inductive invariant: the uploads leave room for the buffer, blocks   *)
(* are numbered in the order of the data, and what is committed is whole.   *)
THEOREM Invariant == Spec => []IInv
BY InitIInv, NextIInv, PTL DEF Spec

(* The cap of concurrent uploads holds for every size of blocks and every   *)
(* order of writes, flushes and ends of uploads.                            *)
THEOREM UploadsBoundedHolds == Spec => []UploadsBounded
<1>1. IInv => UploadsBounded
  BY DEF IInv, Bounded, UploadsBounded
<1> QED
  BY <1>1, Invariant, PTL

(* A reader of a key is given all of one writer's data, in order.           *)
THEOREM EntryIsWholeHolds == Spec => []EntryIsWhole
<1>1. IInv => EntryIsWhole
  <2> SUFFICES ASSUME IInv, NEW k \in Key, entry[k] # NoEntry
               PROVE  KeyOf[entry[k]] = k /\ WholeBlob(entry[k])
    BY DEF EntryIsWhole, ReadKey, WholeBlob
  <2>1. entry[k] \in Writer /\ KeyOf[entry[k]] = k /\ Committed(entry[k])
    BY DEF IInv, Types, TypeOK, EntriesDone, Committed
  <2> QED
    BY <2>1 DEF IInv, BlobsWhole
<1> QED
  BY <1>1, Invariant, PTL

-----------------------------------------------------------------------------
(* The refinement of EntryStore.                                            *)

Finished(k) == {v \in Writer : KeyOf[v] = k /\ stage[v] = "done"}
Authors == [k \in Key |-> {ProcessOf[w] : w \in Finished(k)}]

LEMMA CommitPublishes ==
  ASSUME IInv, NEW w \in Writer, CommitGithub(w)
  PROVE  Store!Publish(w)
<1> DEFINE k == KeyOf[w]
<1> USE GithubCacheAssumption DEF GithubCacheAssumption
<1>1. entry' = [entry EXCEPT ![k] = w]
  BY DEF CommitGithub
<1>2. ProcessOf[w] \notin Authors[k]
  <2> SUFFICES ASSUME NEW v \in Finished(k), ProcessOf[v] = ProcessOf[w] PROVE FALSE
    BY DEF Authors
  <2>1. Admitted(v) /\ Admitted(w) /\ KeyOf[v] = KeyOf[w]
    BY DEF Finished, Admitted, CommitGithub
  <2> QED
    BY <2>1 DEF IInv, OnePerProcess, Finished, CommitGithub
<1>3. Finished(k)' = Finished(k) \cup {w}
  BY DEF Finished, CommitGithub, Goto, IInv, Types, TypeOK
<1>4. ASSUME NEW j \in Key, j # k PROVE Finished(j)' = Finished(j)
  BY <1>4 DEF Finished, CommitGithub, Goto, IInv, Types, TypeOK
<1>5. Authors' = [Authors EXCEPT ![k] = @ \cup {ProcessOf[w]}]
  <2>1. Authors'[k] = Authors[k] \cup {ProcessOf[w]}
    BY <1>3 DEF Authors
  <2>2. ASSUME NEW j \in Key, j # k PROVE Authors'[j] = Authors[j]
    BY <1>4, <2>2 DEF Authors
  <2> QED
    BY <2>1, <2>2 DEF Authors
<1> QED
  BY <1>1, <1>2, <1>5 DEF Store!Publish, Authors, Finished

LEMMA OthersStutter ==
  ASSUME IInv, [Next]_vars, \A w \in Writer : ~CommitGithub(w)
  PROVE  entry' = entry /\ Authors' = Authors
<1>1. /\ entry' = entry
      /\ \A v \in Writer : stage'[v] = "done" <=> stage[v] = "done"
  <2>1. ASSUME NEW w \in Writer, WriteKey(w)
        PROVE  /\ entry' = entry
               /\ \A v \in Writer : stage'[v] = "done" <=> stage[v] = "done"
    BY <2>1 DEF WriteKey, Goto, serviceVars, IInv, Types, TypeOK
  <2> QED
    BY <2>1, OtherSteps DEF IInv
<1>2. \A k \in Key : Finished(k)' = Finished(k)
  BY <1>1 DEF Finished
<1> QED
  BY <1>1, <1>2 DEF Authors

(* The service, with its blocks and two commits, implements the store its   *)
(* callers are promised.                                                    *)
THEOREM RefinementHolds == Spec => Refinement
<1>1. Init => Store!Init
  BY DEF Init, Store!Init
<1>2. IInv /\ [Next]_vars => [Store!Next]_(Store!vars)
  <2> SUFFICES ASSUME IInv, [Next]_vars PROVE [Store!Next]_(Store!vars)
    OBVIOUS
  <2>1. ASSUME NEW w \in Writer, CommitGithub(w) PROVE Store!Next
    BY <2>1, CommitPublishes DEF Store!Next
  <2>2. CASE \A w \in Writer : ~CommitGithub(w)
    BY <2>2, OthersStutter DEF Store!vars, Authors, Finished
  <2> QED
    BY <2>1, <2>2
<1> QED
  BY <1>1, <1>2, Invariant, PTL DEF Spec, Refinement, Store!Spec
=============================================================================
