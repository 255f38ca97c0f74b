--------------------------- MODULE FileCopyProofs ---------------------------
(***************************************************************************)
(* Proofs about FileCopy, for every tree of files, whatever of it is       *)
(* ignored, and for buffers of every size.                                 *)
(***************************************************************************)
EXTENDS FileCopy, SequenceTheorems, FiniteSetTheorems, WellFoundedInduction, TLAPS

-----------------------------------------------------------------------------
(* What fails somewhere in the naturals fails somewhere first.              *)
Less == {pair \in Nat \X Nat : pair[1] < pair[2]}

LEMMA Least ==
  ASSUME NEW T \in SUBSET Nat, T # {}
  PROVE  \E n \in T : \A m \in T : n <= m
<1>1. IsWellFoundedOn(Less, Nat)
  BY NatLessThanWellFounded DEF OpToRel, Less
<1>2. PICK n \in T : \A m \in T : <<m, n>> \notin Less
  BY <1>1, WFMin
<1>3. \A m \in T : ~(m < n)
  BY <1>2 DEF Less
<1> QED
  BY <1>3

-----------------------------------------------------------------------------
(* Paths, and those that are copied of a source with no visible socket, pipe *)
(* or device.                                                               *)
Kept == Listing \ (Ignored \cup Specials)

Up(p) == IF p = <<>> THEN <<>> ELSE Front(p)

LEMMA PathType ==
  ASSUME NEW p \in Listing
  PROVE  /\ p \in Seq(FileName) /\ Len(p) \in Nat
         /\ Len(p) = 0 <=> p = <<>>
         /\ p # <<>> => Front(p) \notin DOMAIN Files
BY ListingAssumption DEF ListingAssumption

LEMMA Beginning ==
  ASSUME NEW p \in Listing, NEW n \in 0..Len(p)
  PROVE  /\ SubSeq(p, 1, n) \in Seq(FileName) /\ Len(SubSeq(p, 1, n)) = n
         /\ \A i \in 1..n : SubSeq(p, 1, n)[i] = p[i]
<1>1. \A i \in 1..n : p[i] \in FileName
  BY PathType
<1> QED
  BY <1>1, PathType, SubSeqProperties

LEMMA PrefixPointwise ==
  ASSUME NEW s \in Listing, NEW t \in Listing
  PROVE  IsPrefix(s, t) <=> Len(s) <= Len(t) /\ \A i \in 1..Len(s) : s[i] = t[i]
<1>1. SUFFICES ASSUME Len(s) <= Len(t)
               PROVE  SubSeq(s, 1, Len(s)) = SubSeq(t, 1, Len(s)) <=> \A i \in 1..Len(s) : s[i] = t[i]
  BY DEF IsPrefix
<1>2. Len(s) \in 0..Len(s) /\ Len(s) \in 0..Len(t)
  BY <1>1, PathType
<1>3. /\ SubSeq(s, 1, Len(s)) \in Seq(FileName) /\ Len(SubSeq(s, 1, Len(s))) = Len(s)
      /\ \A i \in 1..Len(s) : SubSeq(s, 1, Len(s))[i] = s[i]
  BY <1>2, Beginning
<1>4. /\ SubSeq(t, 1, Len(s)) \in Seq(FileName) /\ Len(SubSeq(t, 1, Len(s))) = Len(s)
      /\ \A i \in 1..Len(s) : SubSeq(t, 1, Len(s))[i] = t[i]
  BY <1>2, Beginning
<1>5. ASSUME \A i \in 1..Len(s) : s[i] = t[i]
      PROVE  SubSeq(s, 1, Len(s)) = SubSeq(t, 1, Len(s))
  BY <1>3, <1>4, <1>5, SeqEqual
<1> QED
  BY <1>3, <1>4, <1>5

LEMMA PrefixReflexive ==
  ASSUME NEW s \in Listing
  PROVE  IsPrefix(s, s)
BY PathType, PrefixPointwise

LEMMA PrefixTransitive ==
  ASSUME NEW s \in Listing, NEW t \in Listing, NEW u \in Listing,
         IsPrefix(s, t), IsPrefix(t, u)
  PROVE  IsPrefix(s, u)
BY PathType, PrefixPointwise

LEMMA PrefixAntisymmetric ==
  ASSUME NEW s \in Listing, NEW t \in Listing, IsPrefix(s, t), IsPrefix(t, s)
  PROVE  s = t
<1>1. Len(s) = Len(t) /\ \A i \in 1..Len(s) : s[i] = t[i]
  BY PathType, PrefixPointwise
<1> QED
  BY <1>1, PathType, SeqEqual

LEMMA RootIsKept == <<>> \in Kept /\ Kept \subseteq Listing /\ IsFiniteSet(Listing)
BY ListingAssumption DEF ListingAssumption, Kept

LEMMA FrontIsKept ==
  ASSUME NEW p \in Kept, p # <<>>
  PROVE  /\ Front(p) \in Kept /\ ~IsFile(Front(p)) /\ IsPrefix(Front(p), p)
         /\ Len(Front(p)) = Len(p) - 1 /\ Front(p) # p
<1>1. p \in Listing /\ Len(p) \in Nat /\ Len(p) # 0
  BY PathType DEF Kept
<1>2. Len(p) - 1 \in 0..Len(p)
  BY <1>1
<1>3. /\ SubSeq(p, 1, Len(p) - 1) \in Listing
      /\ SubSeq(p, 1, Len(p) - 1) \in Ignored => p \in Ignored
      /\ SubSeq(p, 1, Len(p) - 1) \in Specials => p \in Specials
  <2>1. \A n \in 0..Len(p) :
          /\ SubSeq(p, 1, n) \in Listing
          /\ SubSeq(p, 1, n) \in Ignored => p \in Ignored
          /\ SubSeq(p, 1, n) \in Specials => p = SubSeq(p, 1, n)
    BY <1>1, ListingAssumption DEF ListingAssumption
  <2> DEFINE q == SubSeq(p, 1, Len(p) - 1)
  <2>2. /\ q \in Listing /\ (q \in Ignored => p \in Ignored)
        /\ q \in Specials => p = q
    BY <1>2, <2>1
  <2> HIDE DEF q
  <2>3. q \in Specials => p \in Specials
    BY <2>2
  <2> QED
    BY <2>2, <2>3 DEF q
<1>4. /\ Len(Front(p)) = Len(p) - 1
      /\ \A i \in 1..Len(p) - 1 : Front(p)[i] = p[i]
  BY <1>1, <1>2, Beginning DEF Front
<1>5. Front(p) \in Kept
  BY <1>1, <1>3 DEF Front, Kept
<1>6. IsPrefix(Front(p), p)
  BY <1>1, <1>4, <1>5, RootIsKept, PrefixPointwise
<1>7. Front(p) # p
  BY <1>1, <1>4
<1> QED
  BY <1>1, <1>4, <1>5, <1>6, <1>7, PathType DEF IsFile

LEMMA FrontLast ==
  ASSUME NEW p \in Listing, p # <<>>
  PROVE  Append(Front(p), Last(p)) = p
<1> DEFINE n == Len(p)
           s == SubSeq(p, 1, n - 1)
           c == p[n]
<1>1. p \in Seq(FileName) /\ n \in Nat /\ n # 0
  BY PathType
<1>2. n - 1 \in 0..n /\ n \in 1..n /\ c \in FileName
  BY <1>1
<1>3. s \in Seq(FileName) /\ Len(s) = n - 1 /\ \A i \in 1..n - 1 : s[i] = p[i]
  BY <1>2, Beginning
<1>4. Front(p) = s /\ Last(p) = c
  BY DEF Front, Last
<1> HIDE DEF s, c
<1>5. /\ Append(s, c) \in Seq(FileName) /\ Len(Append(s, c)) = n - 1 + 1
      /\ \A i \in 1..n - 1 : Append(s, c)[i] = s[i]
      /\ Append(s, c)[n - 1 + 1] = c
  BY <1>2, <1>3, AppendProperties
<1>6. Len(Append(s, c)) = n /\ Append(s, c)[n] = c
  BY <1>1, <1>5
<1>7. \A i \in 1..n : Append(s, c)[i] = p[i]
  <2>1. \A i \in 1..n : i \in 1..n - 1 \/ i = n
    BY <1>1
  <2> QED
    BY <2>1, <1>3, <1>5, <1>6 DEF c
<1>8. Append(s, c) = p
  BY <1>1, <1>5, <1>6, <1>7, SeqEqual
<1> QED
  BY <1>4, <1>8

LEMMA UpIsKept ==
  ASSUME NEW p \in Kept
  PROVE  Up(p) \in Kept /\ IsPrefix(Up(p), p)
BY FrontIsKept, RootIsKept, PrefixReflexive DEF Up

(* What is below a directory is in one of its entries.                      *)
LEMMA EntryOnTheWay ==
  ASSUME NEW d \in Kept, NEW p \in Kept, IsPrefix(d, p), d # p
  PROVE  \E c \in Kept : c # <<>> /\ Front(c) = d /\ IsPrefix(c, p)
<1>1. d \in Listing /\ p \in Listing /\ Len(d) \in Nat /\ Len(p) \in Nat
  BY PathType, RootIsKept
<1>2. Len(d) <= Len(p) /\ \A i \in 1..Len(d) : d[i] = p[i]
  BY <1>1, PrefixPointwise
<1>3. Len(d) # Len(p)
  BY <1>1, <1>2, PathType, SeqEqual
<1>4. Len(d) + 1 \in 0..Len(p)
  BY <1>1, <1>2, <1>3
<1> DEFINE c == SubSeq(p, 1, Len(d) + 1)
<1>5. c \in Kept
  BY <1>1, <1>4, ListingAssumption DEF ListingAssumption, Kept
<1>6. Len(c) = Len(d) + 1 /\ \A i \in 1..Len(d) + 1 : c[i] = p[i]
  BY <1>1, <1>4, Beginning
<1> HIDE DEF c
<1>7. c # <<>> /\ c \in Listing
  BY <1>1, <1>5, <1>6, RootIsKept
<1>8. IsPrefix(c, p)
  BY <1>1, <1>4, <1>6, <1>7, PrefixPointwise
<1>9. Front(c) = d
  <2>1. Len(Front(c)) = Len(d) /\ Front(c) \in Listing
    BY <1>1, <1>5, <1>6, <1>7, FrontIsKept, RootIsKept
  <2>2. \A i \in 1..Len(d) : Front(c)[i] = c[i]
    <3>1. Len(c) - 1 \in 0..Len(c) /\ Len(c) - 1 = Len(d)
      BY <1>1, <1>6
    <3> QED
      BY <3>1, <1>7, Beginning DEF Front
  <2> QED
    BY <2>1, <2>2, <1>1, <1>2, <1>6, PathType, SeqEqual
<1> QED
  BY <1>5, <1>7, <1>8, <1>9

-----------------------------------------------------------------------------
(* The entries of a directory and how many of them a set of paths has.      *)
Kids(S, d) == {p \in S : p # <<>> /\ Front(p) = d}

LEMMA KidsFinite ==
  ASSUME NEW S \in SUBSET Kept, NEW d
  PROVE  IsFiniteSet(Kids(S, d)) /\ Cardinality(Kids(S, d)) \in Nat
<1>1. Kids(S, d) \subseteq Listing
  BY RootIsKept DEF Kids
<1> QED
  BY <1>1, RootIsKept, FS_Subset, FS_CardinalityType

LEMMA KidsEmpty ==
  ASSUME NEW S \in SUBSET Kept, NEW d
  PROVE  Cardinality(Kids(S, d)) = 0 <=> Kids(S, d) = {}
BY KidsFinite, FS_EmptySet

LEMMA KidsLess ==
  ASSUME NEW S \in SUBSET Kept, NEW x \in S, x # <<>>
  PROVE  Cardinality(Kids(S \ {x}, Front(x))) = Cardinality(Kids(S, Front(x))) - 1
<1>1. x \in Kids(S, Front(x)) /\ Kids(S \ {x}, Front(x)) = Kids(S, Front(x)) \ {x}
  BY DEF Kids
<1>2. IsFiniteSet(Kids(S, Front(x)))
  BY KidsFinite
<1> QED
  BY <1>1, <1>2, FS_RemoveElement

LEMMA KidsSame ==
  ASSUME NEW S, NEW x, NEW d, x = <<>> \/ Front(x) # d
  PROVE  Kids(S \ {x}, d) = Kids(S, d)
BY DEF Kids

(* A directory of a source nobody touched is listed once and to the end.    *)
LEMMA EntriesAre ==
  ASSUME NEW d, host = Files, Plain
  PROVE  /\ Entries(d) \in [1..Cardinality(Kids(Kept, d)) -> Kids(Kept, d)]
         /\ Len(Entries(d)) = Cardinality(Kids(Kept, d))
         /\ Cardinality(Kids(Kept, d)) \in Nat
         /\ \A j, k \in DOMAIN Entries(d) : Entries(d)[j] = Entries(d)[k] => j = k
         /\ \A c \in Kids(Kept, d) : \E k \in DOMAIN Entries(d) : Entries(d)[k] = c
<1> DEFINE S == Kids(Kept, d)
           n == Cardinality(S)
<1>1. {p \in Listing \ Ignored : p # <<>> /\ Front(p) = d /\ Exists(p)} = S
  BY DEF Kids, Kept, Exists, IsFile, Plain
<1>2. Entries(d) = CHOOSE f \in [1..n -> S] : IsInjective(f)
  BY <1>1 DEF Entries, SetToSeq
<1>3. IsFiniteSet(S) /\ n \in Nat /\ ExistsBijection(1..n, S)
  BY KidsFinite, FS_CardinalityType
<1>4. PICK b \in Bijection(1..n, S) : TRUE
  BY <1>3 DEF ExistsBijection
<1>5. b \in [1..n -> S] /\ IsInjective(b)
  BY <1>4 DEF Bijection, Injection
<1>6. Entries(d) \in [1..n -> S] /\ IsInjective(Entries(d))
  BY <1>2, <1>5
<1>7. Entries(d) \in Surjection(1..n, S)
  <2>1. Entries(d) \in Injection(1..n, S)
    BY <1>6 DEF Injection
  <2>2. IsFiniteSet(1..n) /\ Cardinality(1..n) = n
    BY <1>3, FS_Interval
  <2> QED
    BY <2>1, <2>2, <1>3, FS_Injection
<1>8. \A c \in S : \E k \in 1..n : Entries(d)[k] = c
  BY <1>7 DEF Surjection
<1>9. Len(Entries(d)) = n
  <2>1. Entries(d) \in Seq(S)
    BY <1>3, <1>6, SeqDef
  <2>2. DOMAIN Entries(d) = 1..Len(Entries(d)) /\ Len(Entries(d)) \in Nat
    BY <2>1, LenProperties
  <2>3. 1..Len(Entries(d)) = 1..n
    BY <2>2, <1>6
  <2> QED
    BY <2>2, <2>3, <1>3
<1> QED
  BY <1>3, <1>6, <1>8, <1>9 DEF IsInjective

-----------------------------------------------------------------------------
(* What is on its way to the sidecar: the messages sent and piped and then   *)
(* the items of the plan, an item that has no header yet as a "todo".       *)
Message == [kind : {"file", "folder", "content", "todo"}, path : Kept, left : Nat]

Planned(i) == IF i.at > 0 THEN Content(i.path, i.at)
              ELSE [kind |-> "todo", path |-> i.path, left |-> 0]

Flow(s, q, pl) ==
    [j \in 1..Len(s) + Len(q) + Len(pl) |->
        IF j <= Len(s) THEN s[j]
        ELSE IF j <= Len(s) + Len(q) THEN q[j - Len(s)]
        ELSE Planned(pl[j - Len(s) - Len(q)])]

(* The paths it brings, each with a header or still without.                *)
Named(f) == {j \in DOMAIN f : f[j].kind # "content"}
Paths(f) == {f[j].path : j \in Named(f)}

(* The header of a directory is among the messages from j to before k.      *)
Opened(f, d, j, k) ==
    \E i \in DOMAIN f : j <= i /\ i < k /\ f[i].kind = "folder" /\ f[i].path = d

(* The first n messages are written; what is planned but for its head has   *)
(* not begun.                                                               *)
Shape(f, n) ==
    \A j \in DOMAIN f : /\ j <= n => f[j].kind # "todo"
                        /\ j = n + 1 => f[j].kind \in {"todo", "content"}
                        /\ j > n + 1 => f[j].kind = "todo"

(* Behind the header of a file come its contents, in order and to the end.  *)
Unbroken(f, n) ==
    \A j \in DOMAIN f :
        /\ f[j].kind = "file" =>
             /\ IsFile(f[j].path) /\ f[j].left = Files[f[j].path]
             /\ f[j].left > 0 => j + 1 \in DOMAIN f /\ f[j + 1] = Content(f[j].path, 1)
        /\ f[j].kind = "content" =>
             /\ IsFile(f[j].path) /\ f[j].left \in 1..Files[f[j].path] + 1
             /\ j <= n /\ f[j].left < Files[f[j].path] =>
                  j + 1 \in DOMAIN f /\ f[j + 1] = Content(f[j].path, f[j].left + 1)

Once(f) == \A j, k \in Named(f) : f[j].path = f[k].path => j = k

(* The header of a directory counts the entries that follow, and nothing of *)
(* a directory comes before its header is written.                          *)
Counts(f) ==
    \A j \in DOMAIN f :
        /\ f[j].kind = "folder" =>
             ~IsFile(f[j].path) /\ f[j].left = Cardinality(Kids(Paths(f), f[j].path))
        /\ f[j].kind = "todo" => Kids(Paths(f), f[j].path) = {}

(* What comes later is in a directory that is still open: one that holds     *)
(* the earlier path or one opened since.                                    *)
Preorder(f) ==
    \A j, k \in Named(f) :
        j < k => IsPrefix(Up(f[k].path), Up(f[j].path)) \/ Opened(f, Up(f[k].path), j, k)

FlowOK(f, n) == Shape(f, n) /\ Unbroken(f, n) /\ Once(f) /\ Counts(f) /\ Preorder(f)

(* The calls of the sidecar below the first, which reads the root.  They    *)
(* follow a path down, and each still expects what is on its way to it.     *)
Below(fr) == {i \in DOMAIN fr : i > 1 /\ fr[i].kind = "entry"}

Calls(f, fr) ==
    /\ \A i \in DOMAIN fr : fr[i].kind = "contents" => i = Len(fr) /\ i > 1
    /\ fr = <<>> => <<>> \notin Paths(f)
    /\ fr # <<>> => fr[1].left = (IF <<>> \in Paths(f) THEN 1 ELSE 0)
    /\ \A i \in Below(fr) :
         /\ fr[i].path \notin Paths(f)
         /\ fr[i].left = Cardinality(Kids(Paths(f), fr[i].path))
         /\ i = 2 => fr[i].path = <<>>
         /\ i > 2 => fr[i].path # <<>> /\ Front(fr[i].path) = fr[i - 1].path
         /\ \A k \in Below(fr) :
              i < k => fr[i].path # fr[k].path /\ IsPrefix(fr[i].path, fr[k].path)

(* Whatever comes is in a directory that is open or is opened before.       *)
Reached(f, fr) ==
    \A j \in Named(f) :
        f[j].path # <<>> => \/ Opened(f, Front(f[j].path), 1, j)
                            \/ \E i \in Below(fr) : fr[i].path = Front(f[j].path)

Agree(f, n, fr) == FlowOK(f, n) /\ Calls(f, fr) /\ Reached(f, fr)

(* No file is forgotten: it is on the disk, comes, or is in a directory     *)
(* that is still to be read.                                                *)
Covered(f, dom) ==
    \A p \in DOMAIN Files \ Ignored :
        \/ p \in dom \/ p \in Paths(f)
        \/ \E j \in DOMAIN f : f[j].kind = "todo" /\ IsPrefix(f[j].path, p)

-----------------------------------------------------------------------------
(* A flow with the same paths in the same order, but for some at its        *)
(* beginning: e takes the place of a path to its place before.              *)
Embeds(g, f, e) ==
    /\ e \in [Named(g) -> Named(f)]
    /\ \A j, k \in Named(g) : j < k => e[j] < e[k]
    /\ \A j \in Named(g) : /\ g[j].path = f[e[j]].path
                           /\ g[j].kind = "folder" <=> f[e[j]].kind = "folder"
                           /\ g[j].kind = "folder" => g[j].left = f[e[j]].left
                           /\ g[j].kind = "todo" => f[e[j]].kind = "todo"
    /\ \A j \in Named(g) : \A i \in Named(f) : e[j] <= i => \E k \in Named(g) : e[k] = i

LEMMA EmbedOrder ==
  ASSUME NEW N \in Nat, NEW f \in [1..N -> Message], NEW M \in Nat, NEW g \in [1..M -> Message],
         NEW e, Embeds(g, f, e), Once(f), Preorder(f)
  PROVE  Once(g) /\ Preorder(g)
<1>1. Named(g) \subseteq 1..M /\ Named(f) \subseteq 1..N
  BY DEF Named
<1>2. \A j \in Named(g) : e[j] \in Named(f) /\ e[j] \in Nat /\ j \in Nat
  BY <1>1 DEF Embeds
<1>3. Once(g)
  <2> SUFFICES ASSUME NEW j \in Named(g), NEW k \in Named(g), g[j].path = g[k].path, j # k
               PROVE  FALSE
    BY DEF Once
  <2>1. e[j] = e[k]
    BY <1>2 DEF Once, Embeds
  <2>2. j < k \/ k < j
    BY <1>2
  <2> QED
    BY <2>1, <2>2, <1>2 DEF Embeds
<1>4. ASSUME NEW j \in Named(g), NEW k \in Named(g), j < k, NEW d, Opened(f, d, e[j], e[k])
      PROVE  Opened(g, d, j, k)
  <2>1. PICK i \in DOMAIN f : e[j] <= i /\ i < e[k] /\ f[i].kind = "folder" /\ f[i].path = d
    BY <1>4 DEF Opened
  <2>2. i \in Named(f)
    BY <2>1 DEF Named
  <2>3. PICK h \in Named(g) : e[h] = i
    BY <2>1, <2>2 DEF Embeds
  <2>4. j <= h /\ h < k
    BY <2>1, <2>3, <1>2, SMTT(30) DEF Embeds
  <2>5. g[h].kind = "folder" /\ g[h].path = d /\ h \in DOMAIN g
    BY <2>1, <2>3 DEF Embeds, Named
  <2> QED
    BY <2>4, <2>5 DEF Opened
<1>5. Preorder(g)
  <2> SUFFICES ASSUME NEW j \in Named(g), NEW k \in Named(g), j < k
               PROVE  \/ IsPrefix(Up(g[k].path), Up(g[j].path))
                      \/ Opened(g, Up(g[k].path), j, k)
    BY DEF Preorder
  <2>1. e[j] < e[k] /\ g[j].path = f[e[j]].path /\ g[k].path = f[e[k]].path
    BY DEF Embeds
  <2>2. \/ IsPrefix(Up(f[e[k]].path), Up(f[e[j]].path))
        \/ Opened(f, Up(f[e[k]].path), e[j], e[k])
    BY <2>1, <1>2 DEF Preorder
  <2> QED
    BY <2>1, <2>2, <1>4
<1> QED
  BY <1>3, <1>5

LEMMA EmbedOnto ==
  ASSUME NEW N \in Nat, NEW f \in [1..N -> Message], NEW M \in Nat, NEW g \in [1..M -> Message],
         NEW e, Embeds(g, f, e), NEW fr, Once(f), Preorder(f), Counts(f), Calls(f, fr), Reached(f, fr),
         \A i \in Named(f) : \E k \in Named(g) : e[k] = i
  PROVE  /\ Once(g) /\ Preorder(g) /\ Counts(g) /\ Calls(g, fr) /\ Reached(g, fr)
         /\ Paths(g) = Paths(f)
<1>1. Named(g) \subseteq 1..M /\ Named(f) \subseteq 1..N
  BY DEF Named
<1>2. \A j \in Named(g) : e[j] \in Named(f) /\ e[j] \in Nat /\ j \in Nat
  BY <1>1 DEF Embeds
<1>3. Paths(g) = Paths(f)
  <2>1. \A p \in Paths(g) : p \in Paths(f)
    BY <1>2 DEF Paths, Embeds
  <2>2. \A p \in Paths(f) : p \in Paths(g)
    BY DEF Paths, Embeds
  <2> QED
    BY <2>1, <2>2
<1>4. Counts(g)
  <2> SUFFICES ASSUME NEW j \in DOMAIN g
               PROVE  /\ g[j].kind = "folder" =>
                           /\ ~IsFile(g[j].path)
                           /\ g[j].left = Cardinality(Kids(Paths(g), g[j].path))
                      /\ g[j].kind = "todo" => Kids(Paths(g), g[j].path) = {}
    BY DEF Counts
  <2>1. CASE g[j].kind \notin {"folder", "todo"}
    BY <2>1
  <2>2. CASE g[j].kind \in {"folder", "todo"}
    <3>1. j \in Named(g) /\ e[j] \in DOMAIN f
      BY <2>2, <1>2 DEF Named
    <3> QED
      BY <3>1, <1>3, SMTT(30) DEF Embeds, Counts
  <2> QED
    BY <2>1, <2>2
<1>5. Calls(g, fr)
  BY <1>3 DEF Calls
<1>6. Reached(g, fr)
  <2> SUFFICES ASSUME NEW j \in Named(g), g[j].path # <<>>, Opened(f, Front(g[j].path), 1, e[j])
               PROVE  Opened(g, Front(g[j].path), 1, j)
    BY <1>2 DEF Reached, Embeds
  <2>1. PICK i \in DOMAIN f : i < e[j] /\ f[i].kind = "folder" /\ f[i].path = Front(g[j].path)
    BY DEF Opened
  <2>2. i \in Named(f)
    BY <2>1 DEF Named
  <2>3. PICK h \in Named(g) : e[h] = i
    BY <2>2
  <2>4. h < j /\ 1 <= h
    BY <2>1, <2>3, <1>1, <1>2 DEF Embeds
  <2>5. g[h].kind = "folder" /\ g[h].path = Front(g[j].path) /\ h \in DOMAIN g
    BY <2>1, <2>3 DEF Embeds, Named
  <2> QED
    BY <2>4, <2>5 DEF Opened
<1> QED
  BY <1>3, <1>4, <1>5, <1>6, EmbedOrder

-----------------------------------------------------------------------------
(* The producer.                                                            *)

LEMMA PathsKept ==
  ASSUME NEW N \in Nat, NEW f \in [1..N -> Message]
  PROVE  /\ Paths(f) \subseteq Kept /\ Named(f) \subseteq 1..N
         /\ \A j \in Named(f) : f[j].path \in Paths(f) /\ f[j].path \in Kept
BY DEF Paths, Named, Message

(* A file is written to its end.                                            *)
FileEnded(N, f, n, fr, g) ==
    /\ N \in Nat /\ f \in [1..N -> Message] /\ n \in Nat /\ Agree(f, n, fr)
    /\ n + 1 <= N /\ f[n + 1].kind = "content" /\ f[n + 1].left = Files[f[n + 1].path] + 1
    /\ g \in [1..N - 1 -> Message]
    /\ (\A j \in 1..N - 1 : g[j] = IF j <= n THEN f[j] ELSE f[j + 1])

LEMMA EndsFile ==
  ASSUME NEW N, NEW f, NEW n, NEW fr, NEW g,
         FileEnded(N, f, n, fr, g)
  PROVE  /\ Agree(g, n, fr)
         /\ \A dom : Covered(f, dom) => Covered(g, dom)
         /\ n > 0 => g[1] = f[1]
<1> SUFFICES ASSUME N \in Nat, f \in [1..N -> Message], n \in Nat, Agree(f, n, fr),
                    n + 1 <= N, f[n + 1].kind = "content", f[n + 1].left = Files[f[n + 1].path] + 1,
                    g \in [1..N - 1 -> Message],
                    (\A j \in 1..N - 1 : g[j] = IF j <= n THEN f[j] ELSE f[j + 1])
               PROVE  /\ Agree(g, n, fr)
                      /\ \A dom : Covered(f, dom) => Covered(g, dom)
                      /\ n > 0 => g[1] = f[1]
  BY DEF FileEnded
<1> DEFINE e == [j \in Named(g) |-> IF j <= n THEN j ELSE j + 1]
<1>0. Named(g) \subseteq 1..N - 1 /\ Named(f) \subseteq 1..N /\ N - 1 \in Nat
  BY DEF Named
<1>1. \A j \in Named(g) : e[j] \in Named(f) /\ g[j] = f[e[j]]
  BY <1>0 DEF Named
<1>2. \A i \in Named(f) : \E k \in Named(g) : e[k] = i
  <2> SUFFICES ASSUME NEW i \in Named(f) PROVE \E k \in Named(g) : e[k] = i
    OBVIOUS
  <2>1. i # n + 1 /\ i \in 1..N
    BY DEF Named
  <2>2. CASE i <= n
    <3>1. i \in Named(g)
      BY <2>1, <2>2 DEF Named
    <3> QED
      BY <3>1, <2>2
  <2>3. CASE i > n
    <3>1. i - 1 \in Named(g) /\ ~(i - 1 <= n) /\ (i - 1) + 1 = i
      BY <2>1, <2>3 DEF Named
    <3>2. e[i - 1] = i
      BY <3>1
    <3> QED
      BY <3>1, <3>2
  <2> QED
    BY <2>1, <2>2, <2>3
<1>3. \A j, k \in Named(g) : j < k => e[j] < e[k]
  BY <1>0
<1>4. e \in [Named(g) -> Named(f)]
  BY <1>1
<1>5. Embeds(g, f, e)
  <2> HIDE DEF e
  <2> QED
    BY <1>1, <1>2, <1>3, <1>4 DEF Embeds
<1> HIDE DEF e
<1>6. /\ Once(g) /\ Preorder(g) /\ Counts(g) /\ Calls(g, fr) /\ Reached(g, fr)
      /\ Paths(g) = Paths(f)
  <2> DEFINE M == N - 1
  <2>1. M \in Nat /\ g \in [1..M -> Message]
    BY <1>0
  <2>2. Once(f) /\ Preorder(f) /\ Counts(f) /\ Calls(f, fr) /\ Reached(f, fr)
    BY DEF Agree, FlowOK
  <2> HIDE DEF M
  <2> QED
    BY <2>1, <2>2, <1>2, <1>5, EmbedOnto
<1>7. Shape(f, n) /\ Unbroken(f, n)
  BY DEF Agree, FlowOK
<1>8. Shape(g, n)
  <2> SUFFICES ASSUME NEW j \in 1..N - 1
               PROVE  /\ j <= n => g[j].kind # "todo"
                      /\ j = n + 1 => g[j].kind \in {"todo", "content"}
                      /\ j > n + 1 => g[j].kind = "todo"
    BY <1>0 DEF Shape
  <2>1. CASE j <= n
    <3>1. j \in DOMAIN f /\ g[j] = f[j]
      BY <2>1
    <3> QED
      BY <3>1, <2>1, <1>7 DEF Shape
  <2>2. CASE j > n
    <3>1. j + 1 \in DOMAIN f /\ g[j] = f[j + 1] /\ j + 1 > n + 1
      BY <2>2
    <3> DEFINE i == j + 1
    <3> HIDE DEF i
    <3>2. i \in DOMAIN f /\ g[j] = f[i] /\ i > n + 1
      BY <3>1 DEF i
    <3>3. f[i].kind = "todo"
      BY <3>2, <1>7 DEF Shape
    <3> QED
      BY <3>2, <3>3, <2>2
  <2> QED
    BY <2>1, <2>2
<1>9. Unbroken(g, n)
  <2> SUFFICES ASSUME NEW j \in 1..N - 1
               PROVE  /\ g[j].kind = "file" =>
                           /\ IsFile(g[j].path) /\ g[j].left = Files[g[j].path]
                           /\ g[j].left > 0 =>
                                j + 1 \in DOMAIN g /\ g[j + 1] = Content(g[j].path, 1)
                      /\ g[j].kind = "content" =>
                           /\ IsFile(g[j].path) /\ g[j].left \in 1..Files[g[j].path] + 1
                           /\ j <= n /\ g[j].left < Files[g[j].path] =>
                                /\ j + 1 \in DOMAIN g
                                /\ g[j + 1] = Content(g[j].path, g[j].left + 1)
    BY DEF Unbroken
  <2>1. CASE j > n
    <3>1. g[j].kind = "todo"
      BY <2>1, <1>7 DEF Shape
    <3> QED
      BY <3>1
  <2>2. CASE j < n
    <3>1. j \in DOMAIN f /\ g[j] = f[j] /\ g[j + 1] = f[j + 1] /\ j + 1 \in DOMAIN g
      BY <2>2
    <3> QED
      BY <3>1, <1>7 DEF Unbroken
  <2>3. CASE j = n
    <3>1. j \in DOMAIN f /\ g[j] = f[j] /\ g[j].path \in Kept /\ g[j].left \in Nat
      BY <2>3 DEF Message
    <3>2. f[j].kind = "file" => ~(f[j].left > 0)
      <4> SUFFICES ASSUME f[j].kind = "file", f[j].left > 0 PROVE FALSE
        OBVIOUS
      <4>1. f[j].left = Files[f[j].path] /\ f[n + 1] = Content(f[j].path, 1)
        BY <2>3, <3>1, <1>7 DEF Unbroken
      <4> QED
        BY <4>1, <3>1 DEF Content
    <3>3. f[j].kind = "content" => ~(f[j].left < Files[f[j].path])
      <4> SUFFICES ASSUME f[j].kind = "content", f[j].left < Files[f[j].path] PROVE FALSE
        OBVIOUS
      <4>1. f[n + 1] = Content(f[j].path, f[j].left + 1)
        BY <2>3, <3>1, <1>7 DEF Unbroken
      <4>2. Files[f[j].path] \in Nat
        <5>1. IsFile(f[j].path)
          BY <3>1, <1>7 DEF Unbroken
        <5> QED
          BY <5>1, ListingAssumption DEF ListingAssumption, IsFile
      <4> QED
        BY <4>1, <4>2, <3>1 DEF Content
    <3> QED
      BY <3>1, <3>2, <3>3, <1>7 DEF Unbroken
  <2> QED
    BY <2>1, <2>2, <2>3
<1>10. ASSUME NEW dom, Covered(f, dom) PROVE Covered(g, dom)
  <2> SUFFICES ASSUME NEW p, NEW i \in DOMAIN f, f[i].kind = "todo", IsPrefix(f[i].path, p)
               PROVE  \E j \in DOMAIN g : g[j].kind = "todo" /\ IsPrefix(g[j].path, p)
    BY <1>6, <1>10 DEF Covered
  <2>1. i > n + 1
    BY <1>7 DEF Shape
  <2>2. i - 1 \in DOMAIN g /\ g[i - 1] = f[i]
    BY <2>1
  <2> QED
    BY <2>2
<1> QED
  BY <1>6, <1>8, <1>9, <1>10 DEF Agree, FlowOK

(* The header of a file is written, or some of its contents are.            *)
FileWritten(N, f, n, fr, p, h, i, g) ==
    /\ N \in Nat /\ f \in [1..N -> Message] /\ n \in Nat /\ Agree(f, n, fr)
    /\ n + 1 <= N /\ p \in Kept /\ IsFile(p) /\ f[n + 1].path = p /\ i \in Nat
    /\ \/ f[n + 1].kind = "content" /\ i = f[n + 1].left /\ i <= Files[p] /\ h = f[n + 1]
       \/ f[n + 1].kind = "todo" /\ i = 0 /\ h = [kind |-> "file", path |-> p, left |-> Files[p]]
    /\ g \in [1..N + 1 -> Message]
    /\ \A j \in 1..N + 1 : g[j] = IF j <= n THEN f[j] ELSE IF j = n + 1 THEN h
                                  ELSE IF j = n + 2 THEN Content(p, i + 1) ELSE f[j - 1]

LEMMA WritesFile ==
  ASSUME NEW N, NEW f, NEW n, NEW fr, NEW p, NEW h, NEW i, NEW g,
         FileWritten(N, f, n, fr, p, h, i, g)
  PROVE  /\ Agree(g, n + 1, fr)
         /\ \A dom : Covered(f, dom) => Covered(g, dom)
         /\ f[1].kind = "content" => g[1] = f[1]
<1> DEFINE e == [j \in Named(g) |-> IF j <= n + 1 THEN j ELSE j - 1]
<1>h. /\ N \in Nat /\ f \in [1..N -> Message] /\ n \in Nat /\ Agree(f, n, fr)
      /\ n + 1 <= N /\ p \in Kept /\ IsFile(p) /\ f[n + 1].path = p /\ i \in Nat
      /\ \/ f[n + 1].kind = "content" /\ i = f[n + 1].left /\ i <= Files[p] /\ h = f[n + 1]
         \/ f[n + 1].kind = "todo" /\ i = 0 /\ h = [kind |-> "file", path |-> p, left |-> Files[p]]
      /\ g \in [1..N + 1 -> Message]
      /\ \A j \in 1..N + 1 : g[j] = IF j <= n THEN f[j] ELSE IF j = n + 1 THEN h
                                    ELSE IF j = n + 2 THEN Content(p, i + 1) ELSE f[j - 1]
  BY DEF FileWritten
<1> USE <1>h
<1>a. Files[p] \in Nat
  BY ListingAssumption DEF ListingAssumption, IsFile
<1>b. g[n + 1] = h /\ g[n + 2] = Content(p, i + 1) /\ h.path = p
  <2>1. n + 1 \in 1..N + 1 /\ n + 2 \in 1..N + 1 /\ ~(n + 1 <= n) /\ ~(n + 2 <= n) /\ n + 2 # n + 1
    OBVIOUS
  <2>2. g[n + 1] = h /\ g[n + 2] = Content(p, i + 1)
    BY <2>1
  <2>3. h.path = p
    OBVIOUS
  <2> QED
    BY <2>2, <2>3
<1>c. g[n + 2].kind = "content" /\ g[n + 2].path = p /\ g[n + 2].left = i + 1
  BY <1>b DEF Content
<1>d. /\ f[n + 1].kind = "content" <=> h.kind = "content"
      /\ h.kind # "folder" /\ h.kind # "todo" /\ f[n + 1].kind # "folder"
  OBVIOUS
<1>0. /\ Named(g) \subseteq 1..N + 1 /\ Named(f) \subseteq 1..N /\ n + 2 \notin Named(g)
      /\ N + 1 \in Nat
  BY <1>c DEF Named
<1>e. \A j \in 1..N + 1 : /\ j <= n => g[j] = f[j] /\ j \in 1..N
                          /\ j > n + 2 => g[j] = f[j - 1] /\ j - 1 \in 1..N
  OBVIOUS
<1>1. \A j \in Named(g) : /\ e[j] \in Named(f) /\ g[j].path = f[e[j]].path
                          /\ j = n + 1 \/ g[j] = f[e[j]]
                          /\ j = n + 1 => e[j] = n + 1 /\ g[j].kind # "folder" /\ g[j].kind # "todo"
  <2> SUFFICES ASSUME NEW j \in Named(g)
               PROVE  /\ e[j] \in Named(f) /\ g[j].path = f[e[j]].path
                      /\ j = n + 1 \/ g[j] = f[e[j]]
                      /\ j = n + 1 => /\ e[j] = n + 1
                                      /\ g[j].kind # "folder" /\ g[j].kind # "todo"
    OBVIOUS
  <2>1. CASE j <= n
    BY <2>1, <1>0, <1>e DEF Named
  <2>2. CASE j = n + 1
    BY <2>2, <1>b, <1>d DEF Named
  <2>3. CASE j > n + 2
    BY <2>3, <1>0, <1>e DEF Named
  <2> QED
    BY <2>1, <2>2, <2>3, <1>0
<1>2. \A k \in Named(f) : \E j \in Named(g) : e[j] = k
  <2> SUFFICES ASSUME NEW k \in Named(f) PROVE \E j \in Named(g) : e[j] = k
    OBVIOUS
  <2>1. CASE k <= n + 1
    <3>1. k \in Named(g)
      <4>1. CASE k <= n
        BY <4>1, <1>0, <1>e DEF Named
      <4>2. CASE k = n + 1
        BY <4>2, <1>b, <1>d DEF Named
      <4> QED
        BY <4>1, <4>2, <2>1, <1>0
    <3> QED
      BY <3>1, <2>1
  <2>2. CASE k > n + 1
    <3>1. k + 1 \in 1..N + 1 /\ k + 1 > n + 2 /\ (k + 1) - 1 = k /\ ~(k + 1 <= n + 1)
      BY <2>2, <1>0
    <3>2. k + 1 \in Named(g)
      BY <3>1, <1>e DEF Named
    <3>3. e[k + 1] = k
      BY <3>1, <3>2
    <3> QED
      BY <3>2, <3>3
  <2> QED
    BY <2>1, <2>2, <1>0
<1>3. \A j, k \in Named(g) : j < k => e[j] < e[k]
  BY <1>0
<1>4. e \in [Named(g) -> Named(f)]
  BY <1>1
<1>5. Embeds(g, f, e)
  <2> HIDE DEF e
  <2> QED
    BY <1>1, <1>2, <1>3, <1>4, <1>d DEF Embeds
<1> HIDE DEF e
<1>6. /\ Once(g) /\ Preorder(g) /\ Counts(g) /\ Calls(g, fr) /\ Reached(g, fr)
      /\ Paths(g) = Paths(f)
  BY <1>0, <1>2, <1>5, EmbedOnto DEF Agree, FlowOK
<1>7. Shape(f, n) /\ Unbroken(f, n)
  BY DEF Agree, FlowOK
<1>8. Shape(g, n + 1)
  <2> SUFFICES ASSUME NEW j \in 1..N + 1
               PROVE  /\ j <= n + 1 => g[j].kind # "todo"
                      /\ j = (n + 1) + 1 => g[j].kind \in {"todo", "content"}
                      /\ j > (n + 1) + 1 => g[j].kind = "todo"
    BY DEF Shape
  <2>1. CASE j <= n
    BY <2>1, <1>e, <1>7 DEF Shape
  <2>2. CASE j = n + 1
    BY <2>2, <1>b, <1>d
  <2>3. CASE j = n + 2
    BY <2>3, <1>c
  <2>4. CASE j > n + 2
    BY <2>4, <1>e, <1>7 DEF Shape
  <2> QED
    BY <2>1, <2>2, <2>3, <2>4
<1>9. Unbroken(g, n + 1)
  <2> SUFFICES ASSUME NEW j \in 1..N + 1
               PROVE  /\ g[j].kind = "file" =>
                           /\ IsFile(g[j].path) /\ g[j].left = Files[g[j].path]
                           /\ g[j].left > 0 =>
                                j + 1 \in DOMAIN g /\ g[j + 1] = Content(g[j].path, 1)
                      /\ g[j].kind = "content" =>
                           /\ IsFile(g[j].path) /\ g[j].left \in 1..Files[g[j].path] + 1
                           /\ j <= n + 1 /\ g[j].left < Files[g[j].path] =>
                                /\ j + 1 \in DOMAIN g
                                /\ g[j + 1] = Content(g[j].path, g[j].left + 1)
    BY DEF Unbroken
  <2>1. CASE j < n
    <3>1. j \in DOMAIN f /\ g[j] = f[j] /\ g[j + 1] = f[j + 1] /\ j + 1 \in DOMAIN g
      BY <2>1
    <3> QED
      BY <3>1, <2>1, <1>7 DEF Unbroken
  <2>2. CASE j = n
    <3>1. j \in DOMAIN f /\ g[j] = f[j] /\ j + 1 \in DOMAIN g
      BY <2>2
    <3>2. \A q, k : f[j + 1] = Content(q, k) => g[j + 1] = f[j + 1]
      BY <2>2, <1>b DEF Content
    <3> QED
      BY <3>1, <3>2, <2>2, <1>7 DEF Unbroken
  <2>3. CASE j = n + 1
    <3>1. n + 1 \in DOMAIN f /\ j + 1 = n + 2
      BY <2>3
    <3> QED
      BY <3>1, <2>3, <1>a, <1>b, <1>7 DEF Unbroken
  <2>4. CASE j = n + 2
    <3>1. g[j].kind = "content" /\ g[j].path = p /\ g[j].left = i + 1
      BY <2>4, <1>c
    <3>2. i + 1 \in 1..Files[p] + 1
      BY <1>a
    <3> QED
      BY <3>1, <3>2, <2>4
  <2>5. CASE j > n + 2
    <3>1. g[j].kind = "todo"
      BY <2>5, <1>8 DEF Shape
    <3> QED
      BY <3>1
  <2> QED
    BY <2>1, <2>2, <2>3, <2>4, <2>5
<1>10. ASSUME NEW dom, Covered(f, dom) PROVE Covered(g, dom)
  <2> SUFFICES ASSUME NEW q \in DOMAIN Files \ Ignored, NEW k \in DOMAIN f, f[k].kind = "todo",
                      IsPrefix(f[k].path, q), q \notin Paths(f)
               PROVE  \E j \in DOMAIN g : g[j].kind = "todo" /\ IsPrefix(g[j].path, q)
    BY <1>6, <1>10 DEF Covered
  <2>1. CASE k = n + 1
    <3>1. q # p
      <4>1. p \in Paths(f)
        BY <2>1 DEF Paths, Named
      <4> QED
        BY <4>1
    <3>2. q \in Kept
      BY ListingAssumption DEF ListingAssumption, Kept
    <3>3. PICK c \in Kept : c # <<>> /\ Front(c) = p
      BY <2>1, <3>1, <3>2, EntryOnTheWay
    <3> QED
      BY <3>3, FrontIsKept
  <2>2. CASE k # n + 1
    <3>1. k > n + 1
      BY <2>2, <1>7 DEF Shape
    <3>2. k + 1 \in 1..N + 1 /\ k + 1 > n + 2 /\ (k + 1) - 1 = k
      BY <3>1
    <3>3. k + 1 \in DOMAIN g /\ g[k + 1] = f[k]
      BY <3>2, <1>e
    <3> QED
      BY <3>3
  <2> QED
    BY <2>1, <2>2
<1>11. f[1].kind = "content" => g[1] = f[1]
  <2>1. CASE n = 0
    BY <2>1, <1>b
  <2>2. CASE n # 0
    BY <2>2, <1>e
  <2> QED
    BY <2>1, <2>2
<1> QED
  BY <1>6, <1>8, <1>9, <1>10, <1>11 DEF Agree, FlowOK

(* A directory that is read is one of the calls as long as what is below is. *)
LEMMA CallsAbove ==
  ASSUME NEW f, NEW fr, Calls(f, fr), DOMAIN fr = 1..Len(fr), Len(fr) \in Nat,
         \A i \in DOMAIN fr : fr[i].kind \in {"entry", "contents"},
         NEW i \in Below(fr), i > 2
  PROVE  i - 1 \in Below(fr) /\ fr[i - 1].path \notin Paths(f)
<1>1. i \in 1..Len(fr) /\ i - 1 \in DOMAIN fr /\ i - 1 # Len(fr) /\ i - 1 > 1
  BY DEF Below
<1>2. fr[i - 1].kind = "entry"
  BY <1>1 DEF Calls
<1>3. i - 1 \in Below(fr)
  BY <1>1, <1>2 DEF Below
<1> QED
  BY <1>3 DEF Calls

(* The header of a directory is written: its entries are planned.           *)
FolderWritten(N, f, n, fr, d, K, E, g) ==
    /\ N \in Nat /\ f \in [1..N -> Message] /\ n \in Nat /\ Agree(f, n, fr)
    /\ DOMAIN fr = 1..Len(fr) /\ Len(fr) \in Nat
    /\ \A i \in DOMAIN fr : fr[i].kind \in {"entry", "contents"}
    /\ n + 1 <= N /\ d \in Kept /\ ~IsFile(d) /\ f[n + 1].path = d /\ f[n + 1].kind = "todo"
    /\ K \in Nat /\ E \in [1..K -> Kids(Kept, d)] /\ K = Cardinality(Kids(Kept, d))
    /\ \A j, k \in 1..K : E[j] = E[k] => j = k
    /\ \A c \in Kids(Kept, d) : \E k \in 1..K : E[k] = c
    /\ g \in [1..N + K -> Message]
    /\ \A j \in 1..n : g[j] = f[j]
    /\ g[n + 1] = [kind |-> "folder", path |-> d, left |-> K]
    /\ \A k \in 1..K : g[n + 1 + k] = [kind |-> "todo", path |-> E[k], left |-> 0]
    /\ \A j \in n + 2..N : g[j + K] = f[j]

LEMMA WritesFolder ==
  ASSUME NEW N, NEW f, NEW n, NEW fr, NEW d, NEW K, NEW E, NEW g,
         FolderWritten(N, f, n, fr, d, K, E, g)
  PROVE  /\ Agree(g, n + 1, fr)
         /\ \A dom : Covered(f, dom) => Covered(g, dom)
         /\ f[1].kind = "content" => g[1] = f[1]
<1>h. /\ N \in Nat /\ f \in [1..N -> Message] /\ n \in Nat /\ Agree(f, n, fr)
      /\ DOMAIN fr = 1..Len(fr) /\ Len(fr) \in Nat
      /\ \A i \in DOMAIN fr : fr[i].kind \in {"entry", "contents"}
      /\ n + 1 <= N /\ d \in Kept /\ ~IsFile(d) /\ f[n + 1].path = d /\ f[n + 1].kind = "todo"
      /\ K \in Nat /\ E \in [1..K -> Kids(Kept, d)] /\ K = Cardinality(Kids(Kept, d))
      /\ \A j, k \in 1..K : E[j] = E[k] => j = k
      /\ \A c \in Kids(Kept, d) : \E k \in 1..K : E[k] = c
      /\ g \in [1..N + K -> Message]
      /\ \A j \in 1..n : g[j] = f[j]
      /\ g[n + 1] = [kind |-> "folder", path |-> d, left |-> K]
      /\ \A k \in 1..K : g[n + 1 + k] = [kind |-> "todo", path |-> E[k], left |-> 0]
      /\ \A j \in n + 2..N : g[j + K] = f[j]
  BY DEF FolderWritten
<1> USE <1>h
<1> DEFINE New == n + 2..n + 1 + K
           o == [j \in 1..N + K |-> IF j <= n + 1 THEN j ELSE j - K]
<1>1. /\ Shape(f, n) /\ Unbroken(f, n) /\ Once(f) /\ Counts(f) /\ Preorder(f)
      /\ Calls(f, fr) /\ Reached(f, fr)
  BY DEF Agree, FlowOK
<1>2. /\ Named(g) \subseteq 1..N + K /\ Named(f) \subseteq 1..N
      /\ n + 1 \in Named(f) /\ n + 1 \in 1..N /\ n + 1 \in 1..N + K
      /\ d \in Paths(f) /\ Paths(f) \subseteq Kept
  <2>1. n + 1 \in Named(f)
    BY DEF Named
  <2>2. d \in Paths(f)
    BY <2>1 DEF Paths
  <2>3. Paths(f) \subseteq Kept
    BY PathsKept
  <2> QED
    BY <2>1, <2>2, <2>3 DEF Named
<1>3. \A j \in 1..N + K \ New :
         /\ o[j] \in 1..N /\ g[j].path = f[o[j]].path
         /\ j # n + 1 => g[j] = f[o[j]] /\ o[j] # n + 1
         /\ j = n + 1 => o[j] = j
         /\ j <= n + 1 <=> o[j] <= n + 1
  <2> SUFFICES ASSUME NEW j \in 1..N + K \ New
               PROVE  /\ o[j] \in 1..N /\ g[j].path = f[o[j]].path
                      /\ j # n + 1 => g[j] = f[o[j]] /\ o[j] # n + 1
                      /\ j = n + 1 => o[j] = j
                      /\ j <= n + 1 <=> o[j] <= n + 1
    OBVIOUS
  <2>1. CASE j <= n
    BY <2>1
  <2>2. CASE j = n + 1
    BY <2>2
  <2>3. CASE j > n + 1
    <3>1. j - K \in n + 2..N /\ (j - K) + K = j /\ o[j] = j - K
      BY <2>3
    <3>2. g[j] = f[j - K]
      BY <3>1
    <3> QED
      BY <3>1, <3>2, <2>3
  <2> QED
    BY <2>1, <2>2, <2>3
<1>4. \A j \in 1..N + K \ New : \A k \in 1..N + K \ New : j < k => o[j] < o[k]
  OBVIOUS
<1>5. \A i \in 1..N : \E j \in 1..N + K \ New : o[j] = i
  <2> SUFFICES ASSUME NEW i \in 1..N PROVE \E j \in 1..N + K \ New : o[j] = i
    OBVIOUS
  <2>1. CASE i <= n + 1
    BY <2>1
  <2>2. CASE i > n + 1
    <3>1. i + K \in 1..N + K \ New /\ ~(i + K <= n + 1) /\ (i + K) - K = i
      BY <2>2
    <3>2. o[i + K] = i
      BY <3>1
    <3> QED
      BY <3>1, <3>2
  <2> QED
    BY <2>1, <2>2
<1>6. \A j \in New : /\ j \in 1..N + K /\ g[j].kind = "todo" /\ j - n - 1 \in 1..K
                     /\ g[j].path = E[j - n - 1] /\ g[j].path \in Kids(Kept, d)
  <2> SUFFICES ASSUME NEW j \in New
               PROVE  /\ j \in 1..N + K /\ g[j].kind = "todo" /\ j - n - 1 \in 1..K
                      /\ g[j].path = E[j - n - 1] /\ g[j].path \in Kids(Kept, d)
    OBVIOUS
  <2>1. j - n - 1 \in 1..K /\ n + 1 + (j - n - 1) = j
    OBVIOUS
  <2>2. g[n + 1 + (j - n - 1)] = [kind |-> "todo", path |-> E[j - n - 1], left |-> 0]
    BY <2>1
  <2>3. g[j] = [kind |-> "todo", path |-> E[j - n - 1], left |-> 0]
    BY <2>1, <2>2
  <2>4. E[j - n - 1] \in Kids(Kept, d)
    BY <2>1
  <2> QED
    BY <2>1, <2>3, <2>4
<1>7. \A c \in Kids(Kept, d) : \E j \in New : g[j].path = c
  <2> SUFFICES ASSUME NEW c \in Kids(Kept, d) PROVE \E j \in New : g[j].path = c
    OBVIOUS
  <2>1. PICK k \in 1..K : E[k] = c
    OBVIOUS
  <2>2. n + 1 + k \in New
    OBVIOUS
  <2>3. g[n + 1 + k] = [kind |-> "todo", path |-> c, left |-> 0]
    BY <2>1
  <2> QED
    BY <2>2, <2>3
<1>8. g[n + 1].kind = "folder" /\ g[n + 1].path = d /\ g[n + 1].left = K /\ f[n + 1].kind = "todo"
  OBVIOUS
<1>9. \A j \in Named(g) \ New : o[j] \in Named(f)
  BY <1>2, <1>3 DEF Named
<1> HIDE DEF o
<1>10. New \subseteq Named(g) /\ n + 1 \in Named(g) /\ n + 1 \notin New
  BY <1>2, <1>6, <1>8 DEF Named
<1>11. \A i \in Named(f) : \E j \in Named(g) \ New : o[j] = i
  <2> SUFFICES ASSUME NEW i \in Named(f) PROVE \E j \in Named(g) \ New : o[j] = i
    OBVIOUS
  <2>1. PICK j \in 1..N + K \ New : o[j] = i
    BY <1>2, <1>5
  <2>2. j \in Named(g)
    <3>1. CASE j = n + 1
      BY <3>1, <1>10
    <3>2. CASE j # n + 1
      BY <3>2, <2>1, <1>3 DEF Named
    <3> QED
      BY <3>1, <3>2
  <2> QED
    BY <2>1, <2>2
<1> HIDE DEF New
(* The entries are not among the paths yet, and neither is anything in them. *)
<1>12. Kids(Paths(f), d) = {} /\ \A c \in Kids(Kept, d) : c \notin Paths(f) /\ c # <<>> /\ c # d
  <2>1. Kids(Paths(f), d) = {}
    BY <1>1, <1>2 DEF Counts
  <2> QED
    BY <2>1, FrontIsKept DEF Kids
<1>13. \A i \in Below(fr) : fr[i].path \notin Kids(Kept, d) /\ fr[i].path # d
  <2> SUFFICES ASSUME NEW i \in Below(fr) PROVE fr[i].path \notin Kids(Kept, d) /\ fr[i].path # d
    OBVIOUS
  <2>1. i \in Nat /\ i > 1 /\ i \in DOMAIN fr
    BY DEF Below
  <2>2. fr[i].path # d
    BY <1>1, <1>2 DEF Calls
  <2>3. CASE i = 2
    BY <2>2, <2>3, <1>1, <1>12 DEF Calls
  <2>4. CASE i > 2
    <3>1. Front(fr[i].path) = fr[i - 1].path
      BY <2>4, <1>1 DEF Calls
    <3>2. fr[i - 1].path # d
      <4>1. fr[i - 1].path \notin Paths(f)
        BY <2>4, <1>1, CallsAbove
      <4> QED
        BY <4>1, <1>2
    <3> QED
      BY <3>1, <3>2, <2>2 DEF Kids
  <2> QED
    BY <2>1, <2>2, <2>3, <2>4
<1>14. \A c \in Kids(Kept, d) : Kids(Paths(f), c) = {}
  <2> SUFFICES ASSUME NEW c \in Kids(Kept, d), NEW j \in Named(f), f[j].path # <<>>, Front(f[j].path) = c
               PROVE  FALSE
    BY DEF Kids, Paths
  <2>1. ASSUME NEW i \in DOMAIN f, f[i].kind = "folder", f[i].path = c PROVE FALSE
    <3>1. c \in Paths(f)
      BY <2>1 DEF Paths, Named
    <3> QED
      BY <3>1, <1>12
  <2>2. ~Opened(f, Front(f[j].path), 1, j)
    BY <2>1 DEF Opened
  <2>3. PICK i \in Below(fr) : fr[i].path = c
    BY <2>2, <1>1 DEF Reached
  <2> QED
    BY <2>3, <1>13
<1>15. Paths(g) = Paths(f) \cup Kids(Kept, d)
  <2>1. ASSUME NEW j \in Named(g) PROVE g[j].path \in Paths(f) \cup Kids(Kept, d)
    <3>1. CASE j \in New
      BY <3>1, <1>6
    <3>2. CASE j \notin New
      BY <3>2, <1>2, <1>3, <1>9 DEF Paths
    <3> QED
      BY <3>1, <3>2
  <2>2. \A i \in Named(f) : f[i].path \in Paths(g)
    BY <1>2, <1>3, <1>11, SMTT(30) DEF Paths
  <2>3. \A c \in Kids(Kept, d) : c \in Paths(g)
    <3>1. \A j \in New : g[j].path \in Paths(g)
      BY <1>10 DEF Paths
    <3> HIDE <1>h
    <3> QED
      BY <1>7, <3>1
  <2>4. /\ \A p \in Paths(g) : \E j \in Named(g) : g[j].path = p
        /\ \A p \in Paths(f) : \E j \in Named(f) : f[j].path = p
    BY DEF Paths
  <2>5. \A p \in Paths(g) : p \in Paths(f) \cup Kids(Kept, d)
    BY <2>1, <2>4
  <2>6. \A p \in Paths(f) : p \in Paths(g)
    BY <2>2, <2>4
  <2> QED
    BY <2>3, <2>5, <2>6
<1>16. Kids(Paths(g), d) = Kids(Kept, d) /\ \A q : q # d => Kids(Paths(g), q) = Kids(Paths(f), q)
  BY <1>2, <1>12, <1>15 DEF Kids
<1>17. Once(g)
  <2> SUFFICES ASSUME NEW j \in Named(g), NEW k \in Named(g), g[j].path = g[k].path
               PROVE  j = k
    BY DEF Once
  <2>1. CASE j \in New /\ k \in New
    <3>1. j - n - 1 = k - n - 1
      BY <2>1, <1>6
    <3> QED
      BY <3>1, <1>2
  <2>2. CASE j \notin New /\ k \notin New
    <3>1. o[j] = o[k]
      BY <2>2, <1>1, <1>2, <1>3, <1>9, SMTT(30) DEF Once
    <3> QED
      BY <3>1, <2>2, <1>2, <1>3, <1>4
  <2>3. \A i \in Named(g) \ New : g[i].path \in Paths(f)
    BY <1>2, <1>3, <1>9, SMTT(30) DEF Paths
  <2>4. \A i \in New : g[i].path \notin Paths(f)
    BY <1>6, <1>12
  <2> QED
    BY <2>1, <2>2, <2>3, <2>4
<1>18. \A j \in 1..N + K : j \notin New /\ j # n + 1 =>
          g[j] = f[o[j]] /\ o[j] \in DOMAIN f /\ (g[j].kind # "content" => g[j].path # d)
  <2> SUFFICES ASSUME NEW j \in 1..N + K, j \notin New, j # n + 1
               PROVE  g[j] = f[o[j]] /\ o[j] \in DOMAIN f /\ (g[j].kind # "content" => g[j].path # d)
    OBVIOUS
  <2>1. g[j] = f[o[j]] /\ o[j] \in DOMAIN f /\ o[j] # n + 1
    BY <1>3
  <2>2. ASSUME f[o[j]].kind # "content" PROVE f[o[j]].path # d
    BY <2>1, <2>2, <1>1, <1>2 DEF Once, Named
  <2> QED
    BY <2>1, <2>2
<1>19. Counts(g)
  <2> SUFFICES ASSUME NEW j \in 1..N + K
               PROVE  /\ g[j].kind = "folder" =>
                           /\ ~IsFile(g[j].path)
                           /\ g[j].left = Cardinality(Kids(Paths(g), g[j].path))
                      /\ g[j].kind = "todo" => Kids(Paths(g), g[j].path) = {}
    BY ZenonT(30) DEF Counts
  <2>1. CASE j \in New
    BY <2>1, <1>6, <1>12, <1>14, <1>16
  <2>2. CASE j = n + 1
    BY <2>2, <1>8, <1>16
  <2>3. CASE j \notin New /\ j # n + 1
    <3>1. g[j] = f[o[j]] /\ o[j] \in DOMAIN f /\ (g[j].kind # "content" => g[j].path # d)
      BY <2>3, <1>18
    <3>2. g[j].kind # "content" => Kids(Paths(g), g[j].path) = Kids(Paths(f), g[j].path)
      BY <3>1, <1>16
    <3>3. /\ f[o[j]].kind = "folder" =>
               ~IsFile(f[o[j]].path) /\ f[o[j]].left = Cardinality(Kids(Paths(f), f[o[j]].path))
          /\ f[o[j]].kind = "todo" => Kids(Paths(f), f[o[j]].path) = {}
      BY <3>1, <1>1 DEF Counts
    <3> QED
      BY <3>1, <3>2, <3>3
  <2> QED
    BY <2>1, <2>2, <2>3
<1>20. Calls(g, fr)
  <2>1. <<>> \in Paths(g) <=> <<>> \in Paths(f)
    BY <1>12, <1>15
  <2>2. \A i \in Below(fr) : /\ fr[i].path \notin Paths(g)
                             /\ Kids(Paths(g), fr[i].path) = Kids(Paths(f), fr[i].path)
    BY <1>1, <1>13, <1>15, <1>16 DEF Calls
  <2> QED
    BY <1>1, <2>1, <2>2 DEF Calls
<1>21. ASSUME NEW q, NEW j \in 1..N + K \ New, NEW k \in 1..N + K \ New,
              Opened(f, q, o[j], o[k])
       PROVE  Opened(g, q, j, k)
  <2>1. PICK i \in DOMAIN f : o[j] <= i /\ i < o[k] /\ f[i].kind = "folder" /\ f[i].path = q
    BY <1>21 DEF Opened
  <2>2. i \in Named(f)
    BY <2>1 DEF Named
  <2>3. PICK h \in Named(g) \ New : o[h] = i
    BY <2>2, <1>11
  <2>4. h \in 1..N + K /\ h # n + 1
    BY <2>1, <2>3, <1>2, <1>3, <1>8
  <2>5. g[h] = f[i]
    BY <2>3, <2>4, <1>18
  <2>6. j <= h /\ h < k
    BY <2>1, <2>3, <2>4, <1>3, <1>4
  <2>7. h \in DOMAIN g /\ g[h].kind = "folder" /\ g[h].path = q
    BY <2>1, <2>4, <2>5
  <2> QED
    BY <2>6, <2>7 DEF Opened
<1>22. \A j \in New : \A k \in 1..N + K \ New :
          /\ n + 1 < j /\ j \in Nat
          /\ k <= n + 1 => k < j
          /\ k > n + 1 => j < k /\ o[k] > n + 1
  <2>1. \A j \in New : \A k \in 1..N + K \ New :
          n + 1 < j /\ j \in Nat /\ (k <= n + 1 => k < j) /\ (k > n + 1 => j < k)
    BY DEF New
  <2> QED
    BY <2>1, <1>2, <1>3
<1>23. Preorder(g)
  <2> SUFFICES ASSUME NEW j \in Named(g), NEW k \in Named(g), j < k
               PROVE  \/ IsPrefix(Up(g[k].path), Up(g[j].path))
                      \/ Opened(g, Up(g[k].path), j, k)
    BY DEF Preorder
  <2>1. j \in 1..N + K /\ k \in 1..N + K
    BY <1>2
  <2>2. CASE j \notin New /\ k \notin New
    <3>1. o[j] < o[k] /\ g[j].path = f[o[j]].path /\ g[k].path = f[o[k]].path
      BY <2>1, <2>2, <1>3, <1>4
    <3>2. \/ IsPrefix(Up(f[o[k]].path), Up(f[o[j]].path))
          \/ Opened(f, Up(f[o[k]].path), o[j], o[k])
      BY <3>1, <2>2, <1>1, <1>9 DEF Preorder
    <3> QED
      BY <2>1, <2>2, <3>1, <3>2, <1>21
  <2>3. CASE j \in New /\ k \in New
    <3>1. Up(g[j].path) = d /\ Up(g[k].path) = d
      BY <2>3, <1>6 DEF Up, Kids
    <3> QED
      BY <3>1, PrefixReflexive, RootIsKept
  <2>4. CASE j \notin New /\ k \in New
    <3>1. Up(g[k].path) = d
      BY <2>4, <1>6 DEF Up, Kids
    <3>2. j <= n + 1
      BY <2>1, <2>4, <1>22
    <3>3. n + 1 < k
      BY <2>1, <2>4, <1>22
    <3> QED
      BY <3>1, <3>2, <3>3, <1>2, <1>8 DEF Opened
  <2>5. CASE j \in New /\ k \notin New
    <3>1. Up(g[j].path) = d
      BY <2>5, <1>6 DEF Up, Kids
    <3>2. k > n + 1
      BY <2>1, <2>5, <1>22
    <3>3. o[k] > n + 1 /\ g[k].path = f[o[k]].path /\ o[k] \in Named(f) /\ g[k].path \in Kept
      <4>1. o[k] > n + 1 /\ g[k].path = f[o[k]].path /\ o[k] \in Named(f)
        BY <3>2, <2>1, <2>5, <1>3, <1>9, <1>22
      <4> QED
        BY <4>1, PathsKept
    <3>4. \A i \in DOMAIN f : n + 1 <= i => f[i].kind # "folder"
      <4>1. \A i \in DOMAIN f : n + 1 <= i => i = n + 1 \/ i > n + 1
        OBVIOUS
      <4> QED
        BY <4>1, <1>1 DEF Shape
    <3>5. IsPrefix(Up(g[k].path), Up(d))
      BY <3>3, <3>4, <1>1, <1>2 DEF Preorder, Opened
    <3>6. IsPrefix(Up(g[k].path), d)
      BY <3>3, <3>5, UpIsKept, PrefixTransitive, RootIsKept
    <3> QED
      BY <3>1, <3>6
  <2> QED
    BY <2>2, <2>3, <2>4, <2>5
<1>24. Reached(g, fr)
  <2> SUFFICES ASSUME NEW j \in Named(g), g[j].path # <<>>
               PROVE  \/ Opened(g, Front(g[j].path), 1, j)
                      \/ \E i \in Below(fr) : fr[i].path = Front(g[j].path)
    BY DEF Reached
  <2>1. CASE j \in New
    <3>1. Front(g[j].path) = d /\ 1 <= n + 1 /\ n + 1 < j
      BY <2>1, <1>2, <1>6, <1>22 DEF Kids
    <3> QED
      BY <3>1, <1>2, <1>8 DEF Opened
  <2>2. CASE j \notin New
    <3>1. g[j].path = f[o[j]].path /\ o[j] \in Named(f) /\ j \in 1..N + K \ New
      BY <2>2, <1>2, <1>3, <1>9
    <3>2. ASSUME Opened(f, Front(g[j].path), 1, o[j]) PROVE Opened(g, Front(g[j].path), 1, j)
      <4>1. PICK i \in DOMAIN f : i < o[j] /\ f[i].kind = "folder" /\ f[i].path = Front(g[j].path)
        BY <3>2 DEF Opened
      <4>2. i \in Named(f)
        BY <4>1 DEF Named
      <4>3. PICK h \in Named(g) \ New : o[h] = i
        BY <4>2, <1>11
      <4>4. h \in 1..N + K /\ h # n + 1
        BY <4>1, <4>3, <1>2, <1>3, <1>8
      <4>5. g[h] = f[i]
        BY <4>3, <4>4, <1>18
      <4>6. h < j /\ 1 <= h
        <5>1. h \in 1..N + K \ New /\ j \in 1..N + K \ New /\ o[h] < o[j]
          BY <4>1, <4>3, <4>4, <3>1
        <5>2. h \in Nat /\ j \in Nat /\ 1 <= h /\ o[h] \in Nat /\ o[j] \in Nat
          BY <5>1, <1>3
        <5> HIDE <1>h DEF o, New
        <5>3. j < h => o[j] < o[h]
          BY <5>1, <1>4
        <5>4. h < j
          BY <5>1, <5>2, <5>3
        <5> QED
          BY <5>2, <5>4
      <4> QED
        BY <4>1, <4>4, <4>5, <4>6 DEF Opened
    <3>3. \/ Opened(f, Front(f[o[j]].path), 1, o[j])
          \/ \E i \in Below(fr) : fr[i].path = Front(f[o[j]].path)
      BY <3>1, <1>1 DEF Reached
    <3> QED
      BY <3>1, <3>2, <3>3
  <2> QED
    BY <2>1, <2>2
<1>25. /\ Shape(g, n + 1)
       /\ \A j \in 1..N + K : j > n + 1 => g[j].kind = "todo"
  <2> SUFFICES ASSUME NEW j \in 1..N + K
               PROVE  /\ j <= n + 1 => g[j].kind # "todo"
                      /\ j > n + 1 => g[j].kind = "todo"
    BY DEF Shape
  <2>1. CASE j \in New
    BY <2>1, <1>6, <1>22, <1>2, <1>10
  <2>2. CASE j = n + 1
    BY <2>2, <1>8
  <2>3. CASE j \notin New /\ j # n + 1
    <3>1. g[j] = f[o[j]] /\ o[j] \in 1..N /\ (j <= n + 1 <=> o[j] <= n + 1) /\ o[j] # n + 1
      BY <2>3, <1>3
    <3>2. o[j] <= n \/ o[j] > n + 1
      BY <3>1
    <3> QED
      BY <3>1, <3>2, <1>1 DEF Shape
  <2> QED
    BY <2>1, <2>2, <2>3
<1>26. Unbroken(g, n + 1)
  <2> SUFFICES ASSUME NEW j \in 1..N + K
               PROVE  /\ g[j].kind = "file" =>
                           /\ IsFile(g[j].path) /\ g[j].left = Files[g[j].path]
                           /\ g[j].left > 0 =>
                                j + 1 \in DOMAIN g /\ g[j + 1] = Content(g[j].path, 1)
                      /\ g[j].kind = "content" =>
                           /\ IsFile(g[j].path) /\ g[j].left \in 1..Files[g[j].path] + 1
                           /\ j <= n + 1 /\ g[j].left < Files[g[j].path] =>
                                /\ j + 1 \in DOMAIN g
                                /\ g[j + 1] = Content(g[j].path, g[j].left + 1)
    BY DEF Unbroken
  <2>1. CASE j > n + 1
    <3>1. g[j].kind = "todo"
      BY <2>1, <1>25
    <3> QED
      BY <3>1
  <2>2. CASE j = n + 1
    BY <2>2, <1>8
  <2>3. CASE j < n
    <3>0. j \in 1..n /\ j + 1 \in 1..n /\ j \in 1..N /\ j + 1 \in 1..N + K
      BY <2>3
    <3>1. /\ j \in DOMAIN f /\ g[j] = f[j] /\ g[j + 1] = f[j + 1] /\ j + 1 \in DOMAIN g
          /\ j <= n /\ j <= n + 1
      BY <3>0
    <3> QED
      BY <3>1, <1>1 DEF Unbroken
  <2>4. CASE j = n
    <3>1. j \in DOMAIN f /\ g[j] = f[j] /\ j + 1 = n + 1 /\ j <= n
      BY <2>4
    <3>2. \A q, k : f[j + 1] # Content(q, k)
      BY <3>1, <1>8 DEF Content
    <3> QED
      BY <3>1, <3>2, <1>1 DEF Unbroken
  <2> QED
    BY <2>1, <2>2, <2>3, <2>4
<1>27. ASSUME NEW dom, Covered(f, dom) PROVE Covered(g, dom)
  <2> SUFFICES ASSUME NEW q \in DOMAIN Files \ Ignored, NEW i \in DOMAIN f, f[i].kind = "todo",
                      IsPrefix(f[i].path, q)
               PROVE  \E j \in DOMAIN g : g[j].kind = "todo" /\ IsPrefix(g[j].path, q)
    BY <1>15, <1>27 DEF Covered
  <2>1. CASE i = n + 1
    <3>1. q \in Kept /\ q # d
      BY ListingAssumption DEF ListingAssumption, Kept, IsFile
    <3>2. PICK c \in Kept : c # <<>> /\ Front(c) = d /\ IsPrefix(c, q)
      BY <2>1, <3>1, EntryOnTheWay
    <3>3. PICK j \in New : g[j].path = c
      BY <3>2, <1>7 DEF Kids
    <3> QED
      BY <3>2, <3>3, <1>6
  <2>2. CASE i # n + 1
    <3>1. i \in Named(f)
      BY DEF Named
    <3>2. PICK j \in Named(g) \ New : o[j] = i
      BY <3>1, <1>11
    <3>3. j \in 1..N + K /\ j # n + 1
      BY <2>2, <3>2, <1>2, <1>3
    <3>4. g[j] = f[i]
      BY <3>2, <3>3, <1>18
    <3>5. g[j].kind = "todo" /\ IsPrefix(g[j].path, q) /\ j \in DOMAIN g
      BY <3>3, <3>4
    <3> QED
      BY <3>5
  <2> QED
    BY <2>1, <2>2
<1>28. f[1].kind = "content" => g[1] = f[1]
  <2>1. CASE n = 0
    BY <2>1
  <2>2. CASE n # 0
    BY <2>2
  <2> QED
    BY <2>1, <2>2
<1> QED
  BY <1>17, <1>19, <1>20, <1>23, <1>24, <1>25, <1>26, <1>27, <1>28 DEF Agree, FlowOK

-----------------------------------------------------------------------------
(* The sidecar.                                                             *)
Frame == [path : Kept, kind : {"entry", "contents"}, left : Nat]

LEMMA FrameType ==
  ASSUME NEW fr \in Seq(Frame)
  PROVE  /\ DOMAIN fr = 1..Len(fr) /\ Len(fr) \in Nat /\ (fr = <<>> <=> Len(fr) = 0)
         /\ \A i \in DOMAIN fr : /\ fr[i] \in Frame /\ fr[i].path \in Kept /\ fr[i].left \in Nat
                                 /\ fr[i].kind \in {"entry", "contents"}
         /\ Below(fr) = {i \in 2..Len(fr) : fr[i].kind = "entry"}
<1>1. DOMAIN fr = 1..Len(fr) /\ Len(fr) \in Nat /\ (fr = <<>> <=> Len(fr) = 0)
  OBVIOUS
<1>2. \A i \in DOMAIN fr : fr[i] \in Frame
  BY <1>1
<1>3. Below(fr) = {i \in 2..Len(fr) : fr[i].kind = "entry"}
  BY <1>1 DEF Below
<1> QED
  BY <1>1, <1>2, <1>3 DEF Frame

(* What is ahead of the stream is an entry of the directory that the         *)
(* innermost call reads.                                                    *)
LEMMA Expected ==
  ASSUME NEW N \in Nat, NEW f \in [1..N -> Message], NEW n \in Nat, NEW fr \in Seq(Frame),
         Agree(f, n, fr), 1 \in Named(f), fr # <<>>,
         fr[Len(fr)].kind = "entry", fr[Len(fr)].left > 0
  PROVE  /\ Len(fr) = 1 => f[1].path = <<>> /\ fr[1].left = 1
         /\ Len(fr) > 1 => /\ Len(fr) \in Below(fr) /\ f[1].path # <<>>
                           /\ Front(f[1].path) = fr[Len(fr)].path
<1> DEFINE L == Len(fr)
           x == f[1].path
           t == fr[L].path
<1>1. Calls(f, fr) /\ Reached(f, fr) /\ Preorder(f) /\ L \in Nat /\ L >= 1 /\ DOMAIN fr = 1..L
  BY FrameType DEF Agree, FlowOK
<1>2. x \in Paths(f) /\ x \in Kept /\ ~Opened(f, Front(x), 1, 1)
  <2>1. ~Opened(f, Front(x), 1, 1)
    BY DEF Opened, Named
  <2> QED
    BY <2>1, PathsKept
<1>3. CASE L = 1
  <2>1. Below(fr) = {}
    BY <1>3, FrameType
  <2>2. x = <<>>
    BY <1>2, <2>1, <1>1 DEF Reached
  <2>3. fr[1].left = 1
    BY <1>1, <1>2, <2>2 DEF Calls
  <2> QED
    BY <1>3, <2>2, <2>3
<1>4. CASE L > 1
  <2>1. L \in Below(fr) /\ 2 \in Below(fr)
    <3>1. L \in Below(fr) /\ 2 \in DOMAIN fr
      BY <1>1, <1>4 DEF Below
    <3>2. fr[2].kind = "entry"
      BY <1>1, <3>1, FrameType DEF Calls
    <3> QED
      BY <3>1, <3>2 DEF Below
  <2>2. t \notin Paths(f) /\ fr[2].path = <<>> /\ fr[2].path \notin Paths(f) /\ t \in Kept
    BY <1>1, <2>1, FrameType DEF Calls
  <2>3. x # <<>>
    BY <1>2, <2>2
  <2>4. PICK i \in Below(fr) : fr[i].path = Front(x)
    BY <1>1, <1>2, <2>3 DEF Reached
  <2>5. CASE i = L
    BY <1>4, <2>1, <2>3, <2>4, <2>5
  <2>6. CASE i # L
    <3>1. i < L
      BY <2>6, FrameType
    <3>2. IsPrefix(Front(x), t)
      BY <1>1, <2>1, <2>4, <3>1 DEF Calls
    <3>3. Kids(Paths(f), t) # {}
      <4>1. Cardinality(Kids(Paths(f), t)) # 0
        BY <1>1, <2>1, FrameType DEF Calls
      <4> QED
        BY <4>1, PathsKept, KidsEmpty
    <3>4. PICK k \in Named(f) : f[k].path # <<>> /\ Front(f[k].path) = t
      BY <3>3 DEF Kids, Paths
    <3>5. CASE k = 1
      BY <1>4, <2>1, <2>3, <3>4, <3>5
    <3>6. CASE k # 1
      <4>1. 1 < k
        BY <3>6 DEF Named
      <4>2. ~Opened(f, t, 1, k)
        <5>1. \A i_1 \in DOMAIN f : f[i_1].kind = "folder" => f[i_1].path \in Paths(f)
          BY DEF Paths, Named
        <5> QED
          BY <5>1, <2>2 DEF Opened
      <4>3. Up(f[k].path) = t /\ Up(x) = Front(x)
        BY <2>3, <3>4 DEF Up
      <4>4. IsPrefix(t, Front(x))
        BY <4>1, <4>2, <4>3, <1>1, <3>4 DEF Preorder
      <4>5. Front(x) = t
        BY <3>2, <4>4, <1>2, <2>2, <2>3, FrontIsKept, PrefixAntisymmetric, RootIsKept
      <4> QED
        BY <1>4, <2>1, <2>3, <4>5
    <3> QED
      BY <3>5, <3>6
  <2> QED
    BY <2>5, <2>6
<1> QED
  BY <1>1, <1>3, <1>4

(* One message of the flow is read.                                         *)
LEMMA ReadsOne ==
  ASSUME NEW N \in Nat, NEW f \in [1..N -> Message], NEW n \in Nat, N >= 1, n >= 1,
         FlowOK(f, n), NEW g \in [1..N - 1 -> Message], \A j \in 1..N - 1 : g[j] = f[j + 1]
  PROVE  /\ Shape(g, n - 1) /\ Unbroken(g, n - 1) /\ Once(g) /\ Preorder(g)
         /\ \A j \in Named(g) : j + 1 \in Named(f)
         /\ \A i \in Named(f) : i # 1 => i - 1 \in Named(g)
         /\ 1 \in Named(f) => Paths(g) = Paths(f) \ {f[1].path} /\ f[1].path \in Paths(f)
         /\ 1 \notin Named(f) => Embeds(g, f, [j \in Named(g) |-> j + 1])
<1> DEFINE e == [j \in Named(g) |-> j + 1]
<1>0. N - 1 \in Nat /\ Named(f) \subseteq 1..N /\ Named(g) \subseteq 1..N - 1
  BY DEF Named
<1>1. \A j \in Named(g) : j + 1 \in Named(f) /\ g[j] = f[e[j]]
  BY DEF Named
<1>2. \A i \in Named(f) : i # 1 => i - 1 \in Named(g) /\ e[i - 1] = i
  <2> SUFFICES ASSUME NEW i \in Named(f), i # 1 PROVE i - 1 \in Named(g) /\ e[i - 1] = i
    OBVIOUS
  <2>1. i - 1 \in 1..N - 1 /\ (i - 1) + 1 = i
    BY DEF Named
  <2>2. g[i - 1] = f[i]
    BY <2>1
  <2>3. i - 1 \in Named(g)
    BY <2>1, <2>2 DEF Named
  <2> QED
    BY <2>1, <2>3
<1>3. \A j, k \in Named(g) : j < k => e[j] < e[k]
  BY <1>0
<1>4. \A j \in Named(g) : e[j] \in Nat /\ e[j] # 1
  BY <1>0
<1>4a. e \in [Named(g) -> Named(f)]
  BY <1>1
<1>5. Embeds(g, f, e)
  <2>1. \A j \in Named(g) : \A i \in Named(f) : e[j] <= i => i # 1
    BY <1>0
  <2> HIDE DEF e
  <2> QED
    BY <1>1, <1>2, <1>3, <1>4a, <2>1 DEF Embeds
<1>6. Once(g) /\ Preorder(g)
  BY <1>0, <1>5, EmbedOrder DEF FlowOK
<1>7. ASSUME 1 \in Named(f)
      PROVE  Paths(g) = Paths(f) \ {f[1].path} /\ f[1].path \in Paths(f)
  <2>1. \A j \in Named(g) : g[j].path \in Paths(f) \ {f[1].path}
    <3> SUFFICES ASSUME NEW j \in Named(g) PROVE g[j].path \in Paths(f) \ {f[1].path}
      OBVIOUS
    <3>1. j + 1 \in Named(f) /\ g[j] = f[j + 1] /\ j + 1 # 1
      BY <1>0, <1>1
    <3>2. f[j + 1].path # f[1].path
      BY <1>7, <3>1 DEF Once, FlowOK
    <3> QED
      BY <3>1, <3>2 DEF Paths
  <2>2. \A i \in Named(f) : f[i].path # f[1].path => f[i].path \in Paths(g)
    <3> SUFFICES ASSUME NEW i \in Named(f), f[i].path # f[1].path PROVE f[i].path \in Paths(g)
      OBVIOUS
    <3>1. i # 1 /\ i - 1 \in Named(g)
      BY <1>2
    <3>2. g[i - 1] = f[i]
      BY <3>1, <1>0, <1>1
    <3> QED
      BY <3>1, <3>2 DEF Paths
  <2>3. \A p \in Paths(g) : p \in Paths(f) \ {f[1].path}
    BY <2>1 DEF Paths
  <2>4. \A p \in Paths(f) \ {f[1].path} : p \in Paths(g)
    BY <2>2 DEF Paths
  <2>5. f[1].path \in Paths(f)
    BY <1>7 DEF Paths
  <2> QED
    BY <2>3, <2>4, <2>5
<1>8. Shape(g, n - 1)
  <2> SUFFICES ASSUME NEW j \in 1..N - 1
               PROVE  /\ j <= n - 1 => g[j].kind # "todo"
                      /\ j = (n - 1) + 1 => g[j].kind \in {"todo", "content"}
                      /\ j > (n - 1) + 1 => g[j].kind = "todo"
    BY DEF Shape
  <2>1. j + 1 \in DOMAIN f /\ g[j] = f[j + 1]
    OBVIOUS
  <2> QED
    BY <2>1 DEF Shape, FlowOK
<1>9. Unbroken(g, n - 1)
  <2> SUFFICES ASSUME NEW j \in 1..N - 1
               PROVE  /\ g[j].kind = "file" =>
                           /\ IsFile(g[j].path) /\ g[j].left = Files[g[j].path]
                           /\ g[j].left > 0 =>
                                j + 1 \in DOMAIN g /\ g[j + 1] = Content(g[j].path, 1)
                      /\ g[j].kind = "content" =>
                           /\ IsFile(g[j].path) /\ g[j].left \in 1..Files[g[j].path] + 1
                           /\ j <= n - 1 /\ g[j].left < Files[g[j].path] =>
                                /\ j + 1 \in DOMAIN g
                                /\ g[j + 1] = Content(g[j].path, g[j].left + 1)
    BY DEF Unbroken
  <2>1. /\ j + 1 \in DOMAIN f /\ g[j] = f[j + 1] /\ (j <= n - 1 => j + 1 <= n)
        /\ (j + 1) + 1 \in DOMAIN f => j + 1 \in DOMAIN g /\ g[j + 1] = f[(j + 1) + 1]
    OBVIOUS
  <2>2. Unbroken(f, n)
    BY DEF FlowOK
  <2> DEFINE i == j + 1
  <2>3. i \in DOMAIN f /\ g[j] = f[i] /\ (j <= n - 1 => i <= n)
        /\ (i + 1 \in DOMAIN f => j + 1 \in DOMAIN g /\ g[j + 1] = f[i + 1])
    BY <2>1
  <2> HIDE DEF i
  <2>4. /\ f[i].kind = "file" =>
             /\ IsFile(f[i].path) /\ f[i].left = Files[f[i].path]
             /\ f[i].left > 0 => i + 1 \in DOMAIN f /\ f[i + 1] = Content(f[i].path, 1)
        /\ f[i].kind = "content" =>
             /\ IsFile(f[i].path) /\ f[i].left \in 1..Files[f[i].path] + 1
             /\ i <= n /\ f[i].left < Files[f[i].path] =>
                  i + 1 \in DOMAIN f /\ f[i + 1] = Content(f[i].path, f[i].left + 1)
    BY <2>2, <2>3 DEF Unbroken
  <2> HIDE DEF e
  <2>5. /\ g[j].kind = f[i].kind /\ g[j].path = f[i].path /\ g[j].left = f[i].left
    BY <2>3
  <2>6. g[j].kind = "file" =>
             /\ IsFile(g[j].path) /\ g[j].left = Files[g[j].path]
             /\ g[j].left > 0 =>
                  j + 1 \in DOMAIN g /\ g[j + 1] = Content(g[j].path, 1)
    BY <2>3, <2>4, <2>5, Zenon
  <2>7. g[j].kind = "content" =>
             /\ IsFile(g[j].path) /\ g[j].left \in 1..Files[g[j].path] + 1
             /\ j <= n - 1 /\ g[j].left < Files[g[j].path] =>
                  /\ j + 1 \in DOMAIN g
                  /\ g[j + 1] = Content(g[j].path, g[j].left + 1)
    BY <2>3, <2>4, <2>5, Zenon
  <2> QED
    BY <2>6, <2>7
<1> QED
  BY <1>1, <1>2, <1>5, <1>6, <1>7, <1>8, <1>9

(* A header is read: of a file, whose contents are next, or of a directory.  *)
HeaderRead(N, f, n, fr, g, k, gr) ==
    /\ N \in Nat /\ f \in [1..N -> Message] /\ n \in Nat /\ fr \in Seq(Frame)
    /\ N >= 1 /\ n >= 1 /\ Agree(f, n, fr) /\ 1 \in Named(f) /\ fr # <<>>
    /\ fr[Len(fr)].kind = "entry" /\ fr[Len(fr)].left > 0
    /\ g \in [1..N - 1 -> Message] /\ (\A j \in 1..N - 1 : g[j] = f[j + 1])
    /\ k \in {"entry", "contents"} /\ (k = "entry" <=> f[1].kind = "folder")
    /\ gr \in Seq(Frame) /\ Len(gr) = Len(fr) + 1 /\ (\A i \in 1..Len(fr) - 1 : gr[i] = fr[i])
    /\ gr[Len(fr)] = [fr[Len(fr)] EXCEPT !.left = @ - 1]
    /\ gr[Len(fr) + 1] = [path |-> f[1].path, kind |-> k, left |-> f[1].left]

LEMMA ReadsHeader ==
  ASSUME NEW N, NEW f, NEW n, NEW fr, NEW g, NEW k, NEW gr,
         HeaderRead(N, f, n, fr, g, k, gr)
  PROVE  /\ Agree(g, n - 1, gr)
         /\ \A dom : Covered(f, dom) =>
              Covered(g, IF k = "entry" THEN dom ELSE dom \cup {f[1].path})
<1> SUFFICES ASSUME N \in Nat, f \in [1..N -> Message], n \in Nat, fr \in Seq(Frame),
                    N >= 1, n >= 1, Agree(f, n, fr), 1 \in Named(f), fr # <<>>,
                    fr[Len(fr)].kind = "entry", fr[Len(fr)].left > 0,
                    g \in [1..N - 1 -> Message], (\A j \in 1..N - 1 : g[j] = f[j + 1]),
                    k \in {"entry", "contents"}, (k = "entry" <=> f[1].kind = "folder"),
                    gr \in Seq(Frame), Len(gr) = Len(fr) + 1, (\A i \in 1..Len(fr) - 1 : gr[i] = fr[i]),
                    gr[Len(fr)] = [fr[Len(fr)] EXCEPT !.left = @ - 1],
                    gr[Len(fr) + 1] = [path |-> f[1].path, kind |-> k, left |-> f[1].left]
               PROVE  /\ Agree(g, n - 1, gr)
                      /\ \A dom : Covered(f, dom) =>
                           Covered(g, IF k = "entry" THEN dom ELSE dom \cup {f[1].path})
  BY DEF HeaderRead
<1> DEFINE L == Len(fr)
           x == f[1].path
           t == fr[L].path
<1>0. /\ L \in Nat /\ L >= 1 /\ DOMAIN fr = 1..L /\ DOMAIN gr = 1..L + 1
      /\ f[1].kind \in {"file", "folder"} /\ x \in Kept
      /\ Named(f) \subseteq 1..N /\ Named(g) \subseteq 1..N - 1
  <2>1. f[1] \in Message /\ f[1].kind # "todo" /\ f[1].kind # "content"
    BY DEF Agree, FlowOK, Shape, Named
  <2> QED
    BY <2>1, FrameType DEF Message, Named
<1>1. /\ Calls(f, fr) /\ Reached(f, fr) /\ Counts(f) /\ FlowOK(f, n) /\ Shape(f, n)
  BY DEF Agree, FlowOK
<1>2. /\ Shape(g, n - 1) /\ Unbroken(g, n - 1) /\ Once(g) /\ Preorder(g)
      /\ \A j \in Named(g) : j + 1 \in Named(f)
      /\ Paths(g) = Paths(f) \ {x} /\ x \in Paths(f) /\ Paths(f) \in SUBSET Kept
  <2>1. Paths(f) \subseteq Kept
    BY PathsKept
  <2>2. Shape(g, n - 1) /\ Unbroken(g, n - 1) /\ Once(g) /\ Preorder(g)
    BY <1>1, ReadsOne, ZenonT(30)
  <2>3. \A j \in Named(g) : j + 1 \in Named(f)
    BY <1>1, ReadsOne
  <2>4. Paths(g) = Paths(f) \ {f[1].path} /\ f[1].path \in Paths(f)
    BY <1>1, ReadsOne
  <2> QED
    BY <2>1, <2>2, <2>3, <2>4
<1>3. /\ L = 1 => x = <<>> /\ fr[1].left = 1
      /\ L > 1 => L \in Below(fr) /\ x # <<>> /\ Front(x) = t
  BY Expected
<1>4. \A i \in 1..L : gr[i].kind = fr[i].kind /\ gr[i].path = fr[i].path
  <2>1. fr[L] \in Frame /\ \A i \in 1..L : i = L \/ i \in 1..L - 1
    BY <1>0, FrameType
  <2>2. gr[L].kind = fr[L].kind /\ gr[L].path = fr[L].path
    BY <2>1 DEF Frame
  <2> QED
    BY <2>1, <2>2
<1>5. /\ gr[L].left = fr[L].left - 1 /\ \A i \in 1..L : i # L => gr[i].left = fr[i].left
      /\ gr[L + 1].path = x /\ gr[L + 1].kind = k /\ gr[L + 1].left = f[1].left
  <2>1. fr[L] \in Frame /\ \A i \in 1..L : i = L \/ i \in 1..L - 1
    BY <1>0, FrameType
  <2> QED
    BY <2>1, SMTT(30) DEF Frame
<1>6. /\ \A i \in Below(gr) : i \in 2..L + 1 /\ (i # L + 1 => i \in Below(fr))
      /\ Below(fr) \subseteq Below(gr) /\ \A i \in Below(fr) : i \in 2..L
      /\ L + 1 \in Below(gr) <=> k = "entry"
  BY <1>0, <1>4, <1>5 DEF Below
<1>7. \A i \in Below(fr) : /\ fr[i].path \notin Paths(f) /\ fr[i].path # x
                           /\ IsPrefix(fr[i].path, t) /\ fr[i].path \in Kept
                           /\ i # L => fr[i].path # t
                           /\ L > 1
  <2> SUFFICES ASSUME NEW i \in Below(fr)
               PROVE  /\ fr[i].path \notin Paths(f) /\ fr[i].path # x
                      /\ IsPrefix(fr[i].path, t) /\ fr[i].path \in Kept
                      /\ i # L => fr[i].path # t
                      /\ L > 1
    OBVIOUS
  <2>1. fr[i].path \notin Paths(f) /\ fr[i].path \in Kept /\ L > 1
    BY <1>0, <1>1, <1>6, FrameType DEF Calls
  <2>2. CASE i = L
    BY <2>1, <2>2, <1>2, PrefixReflexive, RootIsKept
  <2>3. CASE i # L
    BY <2>1, <2>3, <1>0, <1>1, <1>2, <1>3, <1>6 DEF Calls
  <2> QED
    BY <2>1, <2>2, <2>3
<1>8. Calls(g, gr)
  <2>1. \A i \in DOMAIN gr : gr[i].kind = "contents" => i = Len(gr) /\ i > 1
    <3> SUFFICES ASSUME NEW i \in 1..L, gr[i].kind = "contents" PROVE FALSE
      BY <1>0
    <3>1. fr[i].kind = "contents"
      BY <1>4
    <3>2. i = L
      BY <3>1, <1>0, <1>1 DEF Calls
    <3> QED
      BY <3>1, <3>2
  <2>2. gr # <<>>
    BY <1>0, FrameType
  <2>3. gr[1].left = (IF <<>> \in Paths(g) THEN 1 ELSE 0)
    <3>1. CASE L = 1
      BY <3>1, <1>2, <1>3, <1>5
    <3>2. CASE L > 1
      <4>1. gr[1].left = fr[1].left
        BY <3>2, <1>5
      <4>2. <<>> \in Paths(g) <=> <<>> \in Paths(f)
        BY <3>2, <1>2, <1>3
      <4> QED
        BY <4>1, <4>2, <1>1 DEF Calls
    <3> QED
      BY <3>1, <3>2, <1>0
  <2>4. ASSUME NEW i \in Below(gr)
        PROVE  /\ gr[i].path \notin Paths(g)
               /\ gr[i].left = Cardinality(Kids(Paths(g), gr[i].path))
               /\ i = 2 => gr[i].path = <<>>
               /\ i > 2 => gr[i].path # <<>> /\ Front(gr[i].path) = gr[i - 1].path
               /\ \A m \in Below(gr) :
                    i < m => gr[i].path # gr[m].path /\ IsPrefix(gr[i].path, gr[m].path)
    <3>1. CASE i = L + 1
      <4>1. f[1].kind = "folder" /\ gr[i].path = x /\ gr[i].left = f[1].left
        BY <3>1, <1>5, <1>6
      <4>2. f[1].left = Cardinality(Kids(Paths(f), x))
        BY <4>1, <1>0, <1>1 DEF Counts, Named
      <4>3. Kids(Paths(g), x) = Kids(Paths(f), x)
        <5>1. x = <<>> \/ Front(x) # x
          BY <1>0, FrontIsKept
        <5>2. Kids(Paths(f) \ {x}, x) = Kids(Paths(f), x)
          BY <5>1 DEF Kids
        <5> QED
          BY <5>2, <1>2
      <4>4. i = 2 => x = <<>>
        BY <3>1, <1>0, <1>3
      <4>5. i > 2 => x # <<>> /\ Front(x) = gr[i - 1].path
        <5>1. i - 1 = L /\ L \in 1..L
          BY <3>1, <1>0
        <5> QED
          BY <5>1, <3>1, <1>0, <1>3, <1>4, SMTT(30)
      <4>6. \A m \in Below(gr) : ~(i < m)
        BY <3>1, <1>0, <1>6
      <4> QED
        BY <4>1, <4>2, <4>3, <4>4, <4>5, <4>6, <1>2
    <3>2. CASE i # L + 1
      <4>1. i \in Below(fr) /\ i \in 2..L /\ gr[i].path = fr[i].path /\ L > 1
        BY <3>2, <1>0, <1>4, <1>6
      <4>2. gr[i].path \notin Paths(g)
        BY <4>1, <1>2, <1>7
      <4>3. gr[i].left = Cardinality(Kids(Paths(g), gr[i].path))
        <5>1. fr[i].left = Cardinality(Kids(Paths(f), fr[i].path))
          BY <4>1, <1>1 DEF Calls
        <5>2. CASE i = L
          <6>1. Cardinality(Kids(Paths(f) \ {x}, Front(x))) = Cardinality(Kids(Paths(f), Front(x))) - 1
            BY <4>1, <1>2, <1>3, KidsLess
          <6>2. gr[i].left = fr[i].left - 1 /\ fr[i].path = Front(x) /\ gr[i].path = Front(x)
            BY <4>1, <5>2, <1>3, <1>5
          <6> QED
            BY <5>1, <6>1, <6>2, <1>2
        <5>3. CASE i # L
          <6>1. Kids(Paths(g), fr[i].path) = Kids(Paths(f), fr[i].path)
            BY <4>1, <5>3, <1>2, <1>3, <1>7, KidsSame
          <6> QED
            BY <4>1, <5>1, <5>3, <6>1, <1>0, <1>5
        <5> QED
          BY <5>2, <5>3
      <4>4. i = 2 => gr[i].path = <<>>
        BY <4>1, <1>1 DEF Calls
      <4>5. i > 2 => gr[i].path # <<>> /\ Front(gr[i].path) = gr[i - 1].path
        <5> SUFFICES ASSUME i > 2 PROVE gr[i].path # <<>> /\ Front(gr[i].path) = gr[i - 1].path
          OBVIOUS
        <5>1. i - 1 \in 1..L
          BY <4>1, <1>0
        <5> QED
          BY <5>1, <4>1, <1>1, <1>4 DEF Calls
      <4>6. ASSUME NEW m \in Below(gr), i < m
            PROVE  gr[i].path # gr[m].path /\ IsPrefix(gr[i].path, gr[m].path)
        <5>1. CASE m = L + 1
          <6>1. IsPrefix(t, x)
            BY <4>1, <1>0, <1>3, FrontIsKept
          <6>2. t \in Kept
            BY <4>1, <1>3, <1>7
          <6>3. IsPrefix(fr[i].path, x)
            BY <4>1, <6>1, <6>2, <1>0, <1>7, PrefixTransitive, RootIsKept
          <6> QED
            BY <4>1, <5>1, <6>3, <1>5, <1>7
        <5>2. CASE m # L + 1
          <6>1. m \in Below(fr) /\ m \in 1..L
            BY <5>2, <1>6
          <6> QED
            BY <4>1, <4>6, <6>1, <1>1, <1>4 DEF Calls
        <5> QED
          BY <5>1, <5>2
      <4> QED
        BY <4>2, <4>3, <4>4, <4>5, <4>6
    <3> QED
      BY <3>1, <3>2
  <2> HIDE DEF L, x, t
  <2> QED
    BY <2>1, <2>2, <2>3, <2>4 DEF Calls
<1>9. Reached(g, gr)
  <2> SUFFICES ASSUME NEW j \in Named(g), g[j].path # <<>>
               PROVE  \/ Opened(g, Front(g[j].path), 1, j)
                      \/ \E i \in Below(gr) : gr[i].path = Front(g[j].path)
    BY DEF Reached
  <2>1. j + 1 \in Named(f) /\ g[j] = f[j + 1] /\ j \in 1..N - 1
    BY <1>0, <1>2
  <2>2. \/ Opened(f, Front(g[j].path), 1, j + 1)
        \/ \E i \in Below(fr) : fr[i].path = Front(g[j].path)
    BY <2>1, <1>1 DEF Reached
  <2>3. CASE Opened(f, Front(g[j].path), 1, j + 1)
    <3>1. PICK i \in DOMAIN f : i < j + 1 /\ f[i].kind = "folder" /\ f[i].path = Front(g[j].path)
      BY <2>3 DEF Opened
    <3>2. CASE i = 1
      <4>1. L + 1 \in Below(gr) /\ gr[L + 1].path = Front(g[j].path)
        BY <3>1, <3>2, <1>5, <1>6
      <4> QED
        BY <4>1
    <3>3. CASE i # 1
      <4>1. i - 1 \in 1..N - 1 /\ (i - 1) + 1 = i /\ 1 <= i - 1 /\ i - 1 < j
        BY <2>1, <3>1, <3>3
      <4>2. g[i - 1] = f[i]
        BY <4>1
      <4>3. i - 1 \in DOMAIN g /\ g[i - 1].kind = "folder" /\ g[i - 1].path = Front(g[j].path)
        BY <3>1, <4>1, <4>2
      <4> QED
        BY <4>1, <4>3 DEF Opened
    <3> QED
      BY <3>2, <3>3
  <2>4. CASE \E i \in Below(fr) : fr[i].path = Front(g[j].path)
    <3>1. PICK i \in Below(fr) : fr[i].path = Front(g[j].path)
      BY <2>4
    <3>2. i \in Below(gr) /\ i \in 1..L
      BY <1>6
    <3>3. gr[i].path = Front(g[j].path)
      BY <3>1, <3>2, <1>4
    <3> QED
      BY <3>2, <3>3
  <2> QED
    BY <2>2, <2>3, <2>4
<1>10. Counts(g)
  <2> SUFFICES ASSUME NEW j \in 1..N - 1, g[j].kind \in {"folder", "todo"}
               PROVE  /\ g[j].kind = "folder" =>
                           /\ ~IsFile(g[j].path)
                           /\ g[j].left = Cardinality(Kids(Paths(g), g[j].path))
                      /\ g[j].kind = "todo" => Kids(Paths(g), g[j].path) = {}
    BY DEF Counts
  <2>1. j + 1 \in DOMAIN f /\ j + 1 \in Named(f) /\ g[j] = f[j + 1]
    BY DEF Named
  <2>2. g[j].path \in Paths(f)
    BY <2>1 DEF Paths
  <2>3. Kids(Paths(g), g[j].path) = Kids(Paths(f), g[j].path)
    <3>1. x = <<>> \/ Front(x) # g[j].path
      BY <2>2, <1>0, <1>3, <1>7
    <3>2. Kids(Paths(f) \ {x}, g[j].path) = Kids(Paths(f), g[j].path)
      BY <3>1 DEF Kids
    <3> QED
      BY <3>2, <1>2
  <2>4. /\ f[j + 1].kind = "folder" =>
             /\ ~IsFile(f[j + 1].path)
             /\ f[j + 1].left = Cardinality(Kids(Paths(f), f[j + 1].path))
        /\ f[j + 1].kind = "todo" => Kids(Paths(f), f[j + 1].path) = {}
    BY <2>1, <1>1 DEF Counts
  <2> QED
    BY <2>1, <2>3, <2>4
<1>11. ASSUME NEW dom, Covered(f, dom)
       PROVE  Covered(g, IF k = "entry" THEN dom ELSE dom \cup {x})
  <2> SUFFICES ASSUME NEW p \in DOMAIN Files \ Ignored
               PROVE  \/ p \in IF k = "entry" THEN dom ELSE dom \cup {x}
                      \/ p \in Paths(g)
                      \/ \E j \in DOMAIN g : g[j].kind = "todo" /\ IsPrefix(g[j].path, p)
    BY DEF Covered
  <2>1. CASE p \in dom
    BY <2>1
  <2>2. CASE p \in Paths(f)
    <3>1. ASSUME k = "entry" PROVE p # x
      <4>1. ~IsFile(x)
        BY <3>1, <1>0, <1>1 DEF Counts, Named
      <4> QED
        BY <4>1 DEF IsFile
    <3> QED
      BY <2>2, <3>1, <1>2
  <2>3. CASE \E j \in DOMAIN f : f[j].kind = "todo" /\ IsPrefix(f[j].path, p)
    <3>1. PICK j \in DOMAIN f : f[j].kind = "todo" /\ IsPrefix(f[j].path, p)
      BY <2>3
    <3>2. j # 1
      BY <3>1, <1>0
    <3>3. j - 1 \in 1..N - 1 /\ (j - 1) + 1 = j
      BY <3>2
    <3>4. g[j - 1] = f[j]
      BY <3>3
    <3>5. j - 1 \in DOMAIN g /\ g[j - 1].kind = "todo" /\ IsPrefix(g[j - 1].path, p)
      BY <3>1, <3>3, <3>4
    <3> QED
      BY <3>5
  <2> QED
    BY <2>1, <2>2, <2>3, <1>11 DEF Covered
<1> QED
  BY <1>2, <1>8, <1>9, <1>10, <1>11 DEF Agree, FlowOK

(* A piece of contents is read.                                             *)
ContentsRead(N, f, n, fr, g, gr) ==
    /\ N \in Nat /\ f \in [1..N -> Message] /\ n \in Nat /\ fr \in Seq(Frame)
    /\ N >= 1 /\ n >= 1 /\ Agree(f, n, fr) /\ f[1].kind = "content" /\ fr # <<>>
    /\ fr[Len(fr)].kind = "contents"
    /\ g \in [1..N - 1 -> Message] /\ (\A j \in 1..N - 1 : g[j] = f[j + 1])
    /\ gr \in Seq(Frame) /\ Len(gr) = Len(fr) /\ (\A i \in 1..Len(fr) - 1 : gr[i] = fr[i])
    /\ gr[Len(fr)] = [fr[Len(fr)] EXCEPT !.left = @ - 1]

LEMMA ReadsContents ==
  ASSUME NEW N, NEW f, NEW n, NEW fr, NEW g, NEW gr,
         ContentsRead(N, f, n, fr, g, gr)
  PROVE  /\ Agree(g, n - 1, gr)
         /\ \A dom : Covered(f, dom) => Covered(g, dom)
<1> SUFFICES ASSUME N \in Nat, f \in [1..N -> Message], n \in Nat, fr \in Seq(Frame),
                    N >= 1, n >= 1, Agree(f, n, fr), f[1].kind = "content", fr # <<>>,
                    fr[Len(fr)].kind = "contents",
                    g \in [1..N - 1 -> Message], (\A j \in 1..N - 1 : g[j] = f[j + 1]),
                    gr \in Seq(Frame), Len(gr) = Len(fr), (\A i \in 1..Len(fr) - 1 : gr[i] = fr[i]),
                    gr[Len(fr)] = [fr[Len(fr)] EXCEPT !.left = @ - 1]
               PROVE  /\ Agree(g, n - 1, gr)
                      /\ \A dom : Covered(f, dom) => Covered(g, dom)
  BY DEF ContentsRead
<1> DEFINE e == [j \in Named(g) |-> j + 1]
           L == Len(fr)
<1>1. /\ FlowOK(f, n) /\ Once(f) /\ Preorder(f) /\ Counts(f) /\ Shape(f, n)
      /\ Calls(f, fr) /\ Reached(f, fr) /\ 1 \notin Named(f)
      /\ Named(f) \subseteq 1..N /\ Named(g) \subseteq 1..N - 1 /\ N - 1 \in Nat
  BY DEF Agree, FlowOK, Named
<1>2. /\ Shape(g, n - 1) /\ Unbroken(g, n - 1) /\ Embeds(g, f, e)
      /\ \A i \in Named(f) : i # 1 => i - 1 \in Named(g)
  BY <1>1, ReadsOne, ZenonT(30)
<1>3. \A i \in Named(f) : \E j \in Named(g) : e[j] = i
  <2> SUFFICES ASSUME NEW i \in Named(f) PROVE \E j \in Named(g) : e[j] = i
    OBVIOUS
  <2>1. i - 1 \in Named(g) /\ (i - 1) + 1 = i
    BY <1>1, <1>2
  <2>2. e[i - 1] = i
    BY <2>1
  <2> QED
    BY <2>1, <2>2
<1> HIDE DEF e
<1>4. /\ Once(g) /\ Preorder(g) /\ Counts(g) /\ Calls(g, fr) /\ Reached(g, fr)
      /\ Paths(g) = Paths(f)
  <2>1. Embeds(g, f, e) /\ N - 1 \in Nat
    BY <1>1, <1>2
  <2> QED
    BY <1>1, <1>3, <2>1, EmbedOnto, SMTT(30)
<1>5. /\ L \in Nat /\ L >= 1 /\ DOMAIN fr = 1..L /\ DOMAIN gr = 1..L /\ L > 1
      /\ \A i \in 1..L : i # L => gr[i] = fr[i]
      /\ gr[L].kind = "contents" /\ gr # <<>>
  <2>1. L \in Nat /\ L >= 1 /\ DOMAIN fr = 1..L /\ DOMAIN gr = 1..L /\ fr[L] \in Frame /\ gr # <<>>
    BY FrameType
  <2>2. L > 1
    BY <2>1, <1>1 DEF Calls
  <2>3. gr[L].kind = "contents"
    BY <2>1 DEF Frame
  <2>4. \A i \in 1..L : i # L => i \in 1..L - 1
    BY <2>1
  <2> QED
    BY <2>1, <2>2, <2>3, <2>4
<1>6. Below(gr) = Below(fr) /\ \A i \in Below(fr) : gr[i] = fr[i] /\ i \in 2..L /\ i # L
  <2>1. \A i \in 1..L : gr[i].kind = "entry" <=> fr[i].kind = "entry"
    BY <1>5
  <2>2. Below(gr) = Below(fr)
    BY <2>1, <1>5 DEF Below
  <2>3. ASSUME NEW i \in Below(fr) PROVE gr[i] = fr[i] /\ i \in 2..L /\ i # L
    BY <1>5 DEF Below
  <2> QED
    BY <2>2, <2>3
<1>7. Calls(g, gr)
  <2>1. \A i \in DOMAIN gr : gr[i].kind = "contents" => i = Len(gr) /\ i > 1
    <3> SUFFICES ASSUME NEW i \in 1..L, gr[i].kind = "contents", i # L PROVE FALSE
      BY <1>5
    <3> QED
      BY <1>1, <1>5 DEF Calls
  <2>2. gr[1] = fr[1]
    BY <1>5
  <2>3. \A i \in Below(fr) : i > 2 => gr[i - 1] = fr[i - 1]
    BY <1>5, <1>6
  <2> QED
    BY <2>1, <2>2, <2>3, <1>4, <1>5, <1>6 DEF Calls
<1>8. Reached(g, gr)
  BY <1>4, <1>6 DEF Reached
<1>9. ASSUME NEW dom, Covered(f, dom) PROVE Covered(g, dom)
  <2> SUFFICES ASSUME NEW p \in DOMAIN Files \ Ignored,
                      NEW j \in DOMAIN f, f[j].kind = "todo", IsPrefix(f[j].path, p)
               PROVE  \E i \in DOMAIN g : g[i].kind = "todo" /\ IsPrefix(g[i].path, p)
    BY <1>4, <1>9 DEF Covered
  <2>1. j - 1 \in 1..N - 1 /\ (j - 1) + 1 = j
    OBVIOUS
  <2>2. g[j - 1] = f[j]
    BY <2>1
  <2>3. j - 1 \in DOMAIN g /\ g[j - 1].kind = "todo" /\ IsPrefix(g[j - 1].path, p)
    BY <2>1, <2>2
  <2> QED
    BY <2>3
<1> QED
  BY <1>2, <1>4, <1>7, <1>8, <1>9 DEF Agree, FlowOK

(* A call that expects nothing more returns, or one whose contents ended.   *)
Returned(N, f, n, fr, gr) ==
    /\ N \in Nat /\ f \in [1..N -> Message] /\ n \in Nat /\ fr \in Seq(Frame)
    /\ Agree(f, n, fr) /\ fr # <<>>
    /\ (fr[Len(fr)].left = 0 \/ fr[Len(fr)].kind = "contents")
    /\ gr \in Seq(Frame) /\ Len(gr) = Len(fr) - 1 /\ (\A i \in 1..Len(fr) - 1 : gr[i] = fr[i])

LEMMA Returns ==
  ASSUME NEW N, NEW f, NEW n, NEW fr, NEW gr,
         Returned(N, f, n, fr, gr)
  PROVE  Agree(f, n, gr)
<1> SUFFICES ASSUME N \in Nat, f \in [1..N -> Message], n \in Nat, fr \in Seq(Frame),
                    Agree(f, n, fr), fr # <<>>,
                    (fr[Len(fr)].left = 0 \/ fr[Len(fr)].kind = "contents"),
                    gr \in Seq(Frame), Len(gr) = Len(fr) - 1, (\A i \in 1..Len(fr) - 1 : gr[i] = fr[i])
               PROVE  Agree(f, n, gr)
  BY DEF Returned
<1> DEFINE L == Len(fr)
<1>1. Calls(f, fr) /\ Reached(f, fr) /\ FlowOK(f, n)
  BY DEF Agree
<1>2. /\ L \in Nat /\ L >= 1 /\ DOMAIN fr = 1..L /\ DOMAIN gr = 1..L - 1
      /\ fr[L].kind \in {"entry", "contents"} /\ (gr = <<>> <=> L = 1)
  BY FrameType
<1>3. /\ Below(gr) = Below(fr) \ {L} /\ \A i \in Below(gr) : gr[i] = fr[i]
      /\ \A i \in Below(fr) : i \in 2..L
  BY <1>2 DEF Below
<1>4. L \in Below(fr) => Kids(Paths(f), fr[L].path) = {}
  <2> SUFFICES ASSUME L \in Below(fr) PROVE Kids(Paths(f), fr[L].path) = {}
    OBVIOUS
  <2>1. fr[L].left = 0
    BY DEF Below
  <2>2. Cardinality(Kids(Paths(f), fr[L].path)) = 0
    BY <2>1, <1>1 DEF Calls
  <2> QED
    BY <2>2, PathsKept, KidsEmpty
<1>5. L = 1 => <<>> \notin Paths(f)
  BY <1>1, <1>2 DEF Calls
<1>6. Calls(f, gr)
  <2>1. \A i \in DOMAIN gr : gr[i].kind # "contents"
    BY <1>1, <1>2 DEF Calls
  <2>2. gr = <<>> => <<>> \notin Paths(f)
    BY <1>2, <1>5
  <2>3. gr # <<>> => gr[1] = fr[1]
    BY <1>2
  <2>4. \A i \in Below(gr) : i > 2 => gr[i - 1] = fr[i - 1]
    BY <1>2, <1>3
  <2>5. fr # <<>> => fr[1].left = (IF <<>> \in Paths(f) THEN 1 ELSE 0)
    BY <1>1 DEF Calls
  <2>6. gr # <<>> => gr[1].left = (IF <<>> \in Paths(f) THEN 1 ELSE 0)
    BY <2>3, <2>5
  <2>7. ASSUME NEW i \in Below(gr)
        PROVE  /\ gr[i].path \notin Paths(f)
               /\ gr[i].left = Cardinality(Kids(Paths(f), gr[i].path))
               /\ i = 2 => gr[i].path = <<>>
               /\ i > 2 => gr[i].path # <<>> /\ Front(gr[i].path) = gr[i - 1].path
               /\ \A k \in Below(gr) :
                    i < k => gr[i].path # gr[k].path /\ IsPrefix(gr[i].path, gr[k].path)
    <3>1. i \in Below(fr) /\ gr[i] = fr[i]
      BY <1>3
    <3>2. /\ fr[i].path \notin Paths(f)
          /\ fr[i].left = Cardinality(Kids(Paths(f), fr[i].path))
          /\ i = 2 => fr[i].path = <<>>
          /\ i > 2 => fr[i].path # <<>> /\ Front(fr[i].path) = fr[i - 1].path
          /\ \A k \in Below(fr) :
               i < k => fr[i].path # fr[k].path /\ IsPrefix(fr[i].path, fr[k].path)
      BY <3>1, <1>1 DEF Calls
    <3> QED
      BY <3>1, <3>2, <2>4, <1>3
  <2> QED
    BY <2>1, <2>2, <2>6, <2>7 DEF Calls
<1>7. Reached(f, gr)
  <2> SUFFICES ASSUME NEW j \in Named(f), f[j].path # <<>>, NEW i \in Below(fr),
                      fr[i].path = Front(f[j].path)
               PROVE  \E m \in Below(gr) : gr[m].path = Front(f[j].path)
    BY <1>1 DEF Reached
  <2>1. f[j].path \in Kids(Paths(f), fr[i].path)
    BY DEF Kids, Paths
  <2>2. i # L
    BY <2>1, <1>4
  <2> QED
    BY <2>2, <1>3
<1> QED
  BY <1>1, <1>6, <1>7 DEF Agree

-----------------------------------------------------------------------------
(* What happens to the flow.                                                *)
Items == [path : Kept, at : Nat]

LEMMA PlannedType ==
  ASSUME NEW i \in Items
  PROVE  /\ Planned(i) \in Message /\ Planned(i).path = i.path
         /\ i.at > 0 => Planned(i) = Content(i.path, i.at)
         /\ ~(i.at > 0) => Planned(i).kind = "todo"
BY DEF Items, Message, Planned, Content

LEMMA FlowType ==
  ASSUME NEW s \in Seq(Message), NEW q \in Seq(Message), NEW pl \in Seq(Items)
  PROVE  LET n == Len(s) + Len(q)
             N == n + Len(pl)
             f == Flow(s, q, pl)
         IN  /\ n \in Nat /\ N \in Nat /\ n <= N /\ f \in [1..N -> Message]
             /\ \A j \in 1..Len(s) : f[j] = s[j]
             /\ \A j \in 1..Len(q) : f[Len(s) + j] = q[j]
             /\ \A j \in 1..Len(pl) : f[n + j] = Planned(pl[j])
<1> DEFINE n == Len(s) + Len(q)
           N == n + Len(pl)
           f == Flow(s, q, pl)
<1>1. /\ Len(s) \in Nat /\ Len(q) \in Nat /\ Len(pl) \in Nat
      /\ \A j \in 1..Len(s) : s[j] \in Message
      /\ \A j \in 1..Len(q) : q[j] \in Message
      /\ \A j \in 1..Len(pl) : pl[j] \in Items
  OBVIOUS
<1>2. \A j \in 1..Len(pl) : Planned(pl[j]) \in Message
  BY <1>1, PlannedType
<1>3. ASSUME NEW j \in 1..N
      PROVE  (IF j <= Len(s) THEN s[j]
              ELSE IF j <= Len(s) + Len(q) THEN q[j - Len(s)]
              ELSE Planned(pl[j - Len(s) - Len(q)])) \in Message
  <2>1. CASE j <= Len(s)
    BY <2>1, <1>1
  <2>2. CASE ~(j <= Len(s)) /\ j <= n
    <3>1. j - Len(s) \in 1..Len(q)
      BY <2>2, <1>1
    <3> QED
      BY <3>1, <2>2, <1>1
  <2>3. CASE ~(j <= n)
    <3>1. j - Len(s) - Len(q) \in 1..Len(pl) /\ ~(j <= Len(s))
      BY <2>3, <1>1
    <3> QED
      BY <3>1, <2>3, <1>2
  <2> QED
    BY <2>1, <2>2, <2>3
<1>4. f \in [1..N -> Message]
  BY <1>3 DEF Flow
<1>5. \A j \in 1..Len(s) : f[j] = s[j]
  BY <1>1 DEF Flow
<1>6. \A j \in 1..Len(q) : f[Len(s) + j] = q[j]
  <2> SUFFICES ASSUME NEW j \in 1..Len(q) PROVE f[Len(s) + j] = q[j]
    OBVIOUS
  <2>1. Len(s) + j \in 1..N /\ ~(Len(s) + j <= Len(s)) /\ Len(s) + j <= n /\ (Len(s) + j) - Len(s) = j
    BY <1>1
  <2> QED
    BY <2>1 DEF Flow
<1>7. \A j \in 1..Len(pl) : f[n + j] = Planned(pl[j])
  <2> SUFFICES ASSUME NEW j \in 1..Len(pl) PROVE f[n + j] = Planned(pl[j])
    OBVIOUS
  <2>1. n + j \in 1..N /\ ~(n + j <= Len(s)) /\ ~(n + j <= n) /\ (n + j) - Len(s) - Len(q) = j
    BY <1>1
  <2> QED
    BY <2>1 DEF Flow
<1> QED
  BY <1>1, <1>4, <1>5, <1>6, <1>7

LEMMA FlowSend ==
  ASSUME NEW s \in Seq(Message), NEW q \in Seq(Message), NEW pl \in Seq(Items), q # <<>>
  PROVE  /\ Append(s, Head(q)) \in Seq(Message) /\ Tail(q) \in Seq(Message)
         /\ Len(Append(s, Head(q))) + Len(Tail(q)) = Len(s) + Len(q)
         /\ Flow(Append(s, Head(q)), Tail(q), pl) = Flow(s, q, pl)
<1> DEFINE t == Append(s, Head(q))
           r == Tail(q)
           n == Len(s) + Len(q)
           N == n + Len(pl)
<1>1. /\ t \in Seq(Message) /\ r \in Seq(Message) /\ Len(t) = Len(s) + 1 /\ Len(r) = Len(q) - 1
      /\ Len(s) \in Nat /\ Len(q) \in Nat /\ Len(q) >= 1 /\ Len(pl) \in Nat
      /\ \A j \in 1..Len(s) : t[j] = s[j]
      /\ t[Len(s) + 1] = q[1]
      /\ \A j \in 1..Len(q) - 1 : r[j] = q[j + 1]
  OBVIOUS
<1> HIDE DEF t, r
<1>2. /\ Flow(s, q, pl) \in [1..N -> Message] /\ Flow(t, r, pl) \in [1..Len(t) + Len(r) + Len(pl) -> Message]
      /\ \A j \in 1..Len(s) : Flow(s, q, pl)[j] = s[j]
      /\ \A j \in 1..Len(q) : Flow(s, q, pl)[Len(s) + j] = q[j]
      /\ \A j \in 1..Len(pl) : Flow(s, q, pl)[Len(s) + Len(q) + j] = Planned(pl[j])
  BY <1>1, FlowType, ZenonT(30)
<1>3. /\ \A j \in 1..Len(t) : Flow(t, r, pl)[j] = t[j]
      /\ \A j \in 1..Len(r) : Flow(t, r, pl)[Len(t) + j] = r[j]
      /\ \A j \in 1..Len(pl) : Flow(t, r, pl)[Len(t) + Len(r) + j] = Planned(pl[j])
  BY <1>1, FlowType, ZenonT(30)
<1>4. Len(t) + Len(r) = n /\ Flow(t, r, pl) \in [1..N -> Message]
  BY <1>1, <1>2
<1>5. ASSUME NEW j \in 1..N PROVE Flow(t, r, pl)[j] = Flow(s, q, pl)[j]
  <2>1. CASE j <= Len(s)
    <3>1. j \in 1..Len(t) /\ j \in 1..Len(s)
      BY <2>1, <1>1
    <3> QED
      BY <3>1, <1>1, <1>2, <1>3
  <2>2. CASE j = Len(s) + 1
    <3>1. j \in 1..Len(t) /\ 1 \in 1..Len(q)
      BY <2>2, <1>1
    <3> QED
      BY <3>1, <2>2, <1>1, <1>2, <1>3
  <2>3. CASE j > Len(s) + 1 /\ j <= n
    <3>1. /\ j - Len(t) \in 1..Len(r) /\ Len(t) + (j - Len(t)) = j
          /\ j - Len(s) \in 1..Len(q) /\ Len(s) + (j - Len(s)) = j
          /\ (j - Len(t)) + 1 = j - Len(s) /\ j - Len(t) \in 1..Len(q) - 1
      <4>1. /\ j \in Int /\ Len(s) \in Int /\ Len(q) \in Int /\ Len(t) = Len(s) + 1
            /\ Len(r) = Len(q) - 1 /\ j > Len(s) + 1 /\ j <= Len(s) + Len(q)
        BY <2>3, <1>1
      <4>2. /\ j - Len(t) \in 1..Len(r) /\ Len(t) + (j - Len(t)) = j
            /\ j - Len(t) \in 1..Len(q) - 1
        BY <4>1
      <4>3. /\ j - Len(s) \in 1..Len(q) /\ Len(s) + (j - Len(s)) = j
            /\ (j - Len(t)) + 1 = j - Len(s)
        BY <4>1
      <4> QED
        BY <4>2, <4>3
    <3>2. Flow(t, r, pl)[j] = r[j - Len(t)]
      BY <3>1, <1>3
    <3>3. Flow(s, q, pl)[j] = q[j - Len(s)]
      BY <3>1, <1>2
    <3> QED
      BY <3>1, <3>2, <3>3, <1>1
  <2>4. CASE j > n
    <3>a. n \in Nat /\ Len(pl) \in Nat
      BY <1>1
    <3>1. j - n \in 1..Len(pl) /\ n + (j - n) = j /\ n \in Nat
      BY <2>4, <3>a
    <3>2. Flow(t, r, pl)[n + (j - n)] = Planned(pl[j - n])
      BY <3>1, <1>3, <1>4
    <3>3. Flow(s, q, pl)[n + (j - n)] = Planned(pl[j - n])
      BY <3>1, <1>2
    <3> QED
      BY <3>1, <3>2, <3>3
  <2> QED
    BY <2>1, <2>2, <2>3, <2>4, <1>1
<1>6. Flow(t, r, pl) = Flow(s, q, pl)
  BY <1>2, <1>4, <1>5
<1> QED
  BY <1>1, <1>4, <1>6 DEF t, r

LEMMA FlowRead ==
  ASSUME NEW s \in Seq(Message), NEW q \in Seq(Message), NEW pl \in Seq(Items), s # <<>>
  PROVE  LET n == Len(s) + Len(q)
             N == n + Len(pl)
             f == Flow(s, q, pl)
             g == Flow(Tail(s), q, pl)
         IN  /\ Tail(s) \in Seq(Message) /\ Len(Tail(s)) + Len(q) = n - 1 /\ n >= 1 /\ N >= 1
             /\ g \in [1..N - 1 -> Message] /\ f[1] = Head(s)
             /\ \A j \in 1..N - 1 : g[j] = f[j + 1]
<1> DEFINE n == Len(s) + Len(q)
           N == n + Len(pl)
           f == Flow(s, q, pl)
           t == Tail(s)
           g == Flow(t, q, pl)
<1>1. /\ t \in Seq(Message) /\ Len(t) = Len(s) - 1
      /\ Len(s) \in Nat /\ Len(q) \in Nat /\ Len(s) >= 1 /\ Len(pl) \in Nat
      /\ \A j \in 1..Len(s) - 1 : t[j] = s[j + 1]
      /\ Head(s) = s[1]
  OBVIOUS
<1> HIDE DEF t
<1>2. /\ \A j \in 1..Len(s) : f[j] = s[j]
      /\ \A j \in 1..Len(q) : f[Len(s) + j] = q[j]
      /\ \A j \in 1..Len(pl) : f[Len(s) + Len(q) + j] = Planned(pl[j])
  BY FlowType
<1>3. /\ g \in [1..Len(t) + Len(q) + Len(pl) -> Message]
      /\ \A j \in 1..Len(t) : g[j] = t[j]
      /\ \A j \in 1..Len(q) : g[Len(t) + j] = q[j]
      /\ \A j \in 1..Len(pl) : g[Len(t) + Len(q) + j] = Planned(pl[j])
  BY <1>1, FlowType, ZenonT(30)
<1> HIDE DEF f, g
<1>4. Len(t) + Len(q) = n - 1 /\ n \in Nat /\ n >= 1 /\ N >= 1 /\ g \in [1..N - 1 -> Message]
  <2>1. Len(t) + Len(q) = n - 1 /\ n \in Nat /\ n >= 1 /\ N >= 1 /\ Len(t) + Len(q) + Len(pl) = N - 1
    BY <1>1
  <2> QED
    BY <2>1, <1>3
<1>5. ASSUME NEW j \in 1..N - 1 PROVE g[j] = f[j + 1]
  <2>1. CASE j <= Len(t)
    <3>1. j \in 1..Len(t) /\ j + 1 \in 1..Len(s) /\ j \in 1..Len(s) - 1
      BY <2>1, <1>1
    <3> QED
      BY <3>1, <1>1, <1>2, <1>3
  <2>2. CASE j > Len(t) /\ j <= n - 1
    <3>1. /\ j - Len(t) \in 1..Len(q) /\ Len(t) + (j - Len(t)) = j
          /\ Len(s) + (j - Len(t)) = j + 1
      BY <2>2, <1>1
    <3>2. g[j] = q[j - Len(t)]
      BY <3>1, <1>3
    <3>3. f[j + 1] = q[j - Len(t)]
      BY <3>1, <1>2
    <3> QED
      BY <3>2, <3>3
  <2>3. CASE j > n - 1
    <3>1. /\ j + 1 - n \in 1..Len(pl) /\ n + (j + 1 - n) = j + 1
          /\ Len(t) + Len(q) + (j + 1 - n) = j
      BY <2>3, <1>1
    <3>2. g[j] = Planned(pl[j + 1 - n])
      BY <3>1, <1>3
    <3>3. f[j + 1] = Planned(pl[j + 1 - n])
      BY <3>1, <1>2
    <3> QED
      BY <3>2, <3>3
  <2> QED
    BY <2>1, <2>2, <2>3, <1>1
<1>6. f[1] = Head(s)
  BY <1>1, <1>2
<1> QED
  BY <1>1, <1>4, <1>5, <1>6 DEF f, g, t

(* The head of the plan is replaced by a message and what is left of it.     *)
LEMMA PipeMore ==
  ASSUME NEW q \in Seq(Message), NEW w \in Message, NEW r, r = q \o <<w>>
  PROVE  /\ r \in Seq(Message) /\ Len(r) = Len(q) + 1 /\ r[Len(q) + 1] = w
         /\ \A j \in 1..Len(q) : r[j] = q[j]
<1>1. <<w>> \in Seq(Message) /\ Len(<<w>>) = 1 /\ <<w>>[1] = w /\ Len(q) \in Nat
  OBVIOUS
<1> QED
  BY <1>1, ConcatProperties

LEMMA PlanMore ==
  ASSUME NEW pl \in Seq(Items), pl # <<>>, NEW R \in Seq(Items)
  PROVE  LET P == R \o Tail(pl)
         IN  /\ P \in Seq(Items) /\ Len(P) = Len(R) + Len(pl) - 1
             /\ \A j \in 1..Len(R) : P[j] = R[j]
             /\ \A j \in 1..Len(pl) - 1 : P[Len(R) + j] = pl[j + 1]
<1> DEFINE K == Len(R)
           P == R \o Tail(pl)
<1>1. /\ Tail(pl) \in Seq(Items) /\ Len(Tail(pl)) = Len(pl) - 1 /\ Len(pl) \in Nat /\ Len(pl) >= 1
      /\ \A j \in 1..Len(pl) - 1 : Tail(pl)[j] = pl[j + 1]
      /\ K \in Nat
  OBVIOUS
<1>2. /\ P \in Seq(Items) /\ Len(P) = K + Len(Tail(pl))
      /\ \A i \in 1..K + Len(Tail(pl)) : P[i] = IF i <= K THEN R[i] ELSE Tail(pl)[i - K]
  BY <1>1, ConcatProperties
<1> HIDE DEF P
<1>3. \A j \in 1..K : P[j] = R[j]
  BY <1>1, <1>2
<1>4. ASSUME NEW j \in 1..Len(pl) - 1 PROVE P[K + j] = pl[j + 1]
  <2>1. K + j \in 1..K + Len(Tail(pl)) /\ ~(K + j <= K) /\ (K + j) - K = j
    BY <1>1
  <2> QED
    BY <2>1, <1>1, <1>2
<1> QED
  BY <1>1, <1>2, <1>3, <1>4 DEF P

(* The pipe and the plan after w is written and R is left of the head.      *)
Writes(s, q, pl, w, R, r, P) ==
    /\ s \in Seq(Message) /\ q \in Seq(Message) /\ pl \in Seq(Items) /\ pl # <<>>
    /\ w \in Message /\ R \in Seq(Items) /\ r \in Seq(Message) /\ P \in Seq(Items)
    /\ Len(r) = Len(q) + 1 /\ r[Len(q) + 1] = w /\ \A j \in 1..Len(q) : r[j] = q[j]
    /\ Len(P) = Len(R) + Len(pl) - 1 /\ \A j \in 1..Len(R) : P[j] = R[j]
    /\ \A j \in 1..Len(pl) - 1 : P[Len(R) + j] = pl[j + 1]

LEMMA FlowWrite ==
  ASSUME NEW s, NEW q, NEW pl, NEW w, NEW R, NEW r, NEW P, Writes(s, q, pl, w, R, r, P)
  PROVE  LET n == Len(s) + Len(q)
             N == n + Len(pl)
             f == Flow(s, q, pl)
             g == Flow(s, r, P)
         IN  /\ Len(s) + Len(r) = n + 1
             /\ g \in [1..N + Len(R) -> Message] /\ g[n + 1] = w
             /\ \A j \in 1..n : g[j] = f[j]
             /\ \A k \in 1..Len(R) : g[n + 1 + k] = Planned(R[k])
             /\ \A j \in n + 2..N : g[j + Len(R)] = f[j]
<1> DEFINE n == Len(s) + Len(q)
           N == n + Len(pl)
           f == Flow(s, q, pl)
           g == Flow(s, r, P)
           K == Len(R)
<1>0. /\ s \in Seq(Message) /\ q \in Seq(Message) /\ pl \in Seq(Items) /\ pl # <<>>
      /\ w \in Message /\ R \in Seq(Items) /\ r \in Seq(Message) /\ P \in Seq(Items)
  BY DEF Writes
<1> USE <1>0
<1>1. /\ Len(r) = Len(q) + 1 /\ r[Len(q) + 1] = w
      /\ \A j \in 1..Len(q) : r[j] = q[j]
  BY DEF Writes
<1>2. /\ Len(pl) \in Nat /\ Len(pl) >= 1
      /\ Head(pl) = pl[1] /\ K \in Nat /\ Len(s) \in Nat /\ Len(q) \in Nat
  OBVIOUS
<1>3. /\ Len(P) = K + Len(pl) - 1
      /\ \A j \in 1..K : P[j] = R[j]
      /\ \A j \in 1..Len(pl) - 1 : P[K + j] = pl[j + 1]
  BY DEF Writes
<1>4. /\ \A j \in 1..Len(s) : f[j] = s[j]
      /\ \A j \in 1..Len(q) : f[Len(s) + j] = q[j]
      /\ \A j \in 1..Len(pl) : f[Len(s) + Len(q) + j] = Planned(pl[j])
  BY FlowType, ZenonT(30)
<1>5. /\ g \in [1..Len(s) + Len(r) + Len(P) -> Message]
      /\ \A j \in 1..Len(s) : g[j] = s[j]
      /\ \A j \in 1..Len(r) : g[Len(s) + j] = r[j]
      /\ \A j \in 1..Len(P) : g[Len(s) + Len(r) + j] = Planned(P[j])
  BY <1>1, <1>3, FlowType, ZenonT(30)
<1> HIDE DEF f, g
<1>6. /\ Len(s) + Len(r) = n + 1 /\ n \in Nat /\ n + 1 <= N /\ g \in [1..N + K -> Message]
  <2>1. /\ Len(s) + Len(r) = n + 1 /\ n \in Nat /\ n + 1 <= N
        /\ Len(s) + Len(r) + Len(P) = N + K
    BY <1>1, <1>2, <1>3
  <2> QED
    BY <2>1, <1>5
<1>8. g[n + 1] = w
  <2>1. Len(q) + 1 \in 1..Len(r) /\ Len(s) + (Len(q) + 1) = n + 1
    BY <1>1, <1>2
  <2> QED
    BY <2>1, <1>1, <1>5
<1>9. ASSUME NEW j \in 1..n PROVE g[j] = f[j]
  <2>1. CASE j <= Len(s)
    BY <2>1, <1>2, <1>4, <1>5
  <2>2. CASE j > Len(s)
    <3>1. j - Len(s) \in 1..Len(q) /\ j - Len(s) \in 1..Len(r) /\ Len(s) + (j - Len(s)) = j
      BY <2>2, <1>1, <1>2
    <3>2. g[j] = r[j - Len(s)]
      BY <3>1, <1>5
    <3>3. f[j] = q[j - Len(s)]
      BY <3>1, <1>4
    <3> QED
      BY <3>1, <3>2, <3>3, <1>1
  <2> QED
    BY <2>1, <2>2, <1>2
<1>10. ASSUME NEW k \in 1..K PROVE g[n + 1 + k] = Planned(R[k])
  <2>1. k \in 1..Len(P) /\ Len(s) + Len(r) + k = n + 1 + k
    BY <1>1, <1>2, <1>3
  <2> QED
    BY <2>1, <1>3, <1>5
<1>11. ASSUME NEW j \in n + 2..N PROVE g[j + K] = f[j]
  <2>1. /\ j - n - 1 \in 1..Len(pl) - 1 /\ K + (j - n - 1) \in 1..Len(P)
        /\ Len(s) + Len(r) + (K + (j - n - 1)) = j + K
        /\ (j - n - 1) + 1 = j - n /\ j - n \in 1..Len(pl) /\ n + (j - n) = j
    BY <1>1, <1>2, <1>3
  <2>2. P[K + (j - n - 1)] = pl[j - n]
    BY <2>1, <1>3
  <2>3. g[j + K] = Planned(pl[j - n])
    BY <2>1, <2>2, <1>5
  <2>4. f[j] = Planned(pl[j - n])
    BY <2>1, <1>4
  <2> QED
    BY <2>3, <2>4
<1> QED
  BY <1>1, <1>6, <1>8, <1>9, <1>10, <1>11 DEF f, g

(* The head of the plan is dropped.                                         *)
LEMMA FlowDrop ==
  ASSUME NEW s \in Seq(Message), NEW q \in Seq(Message), NEW pl \in Seq(Items), pl # <<>>
  PROVE  LET n == Len(s) + Len(q)
             N == n + Len(pl)
             f == Flow(s, q, pl)
             g == Flow(s, q, Tail(pl))
         IN  /\ Tail(pl) \in Seq(Items) /\ n + 1 <= N /\ f[n + 1] = Planned(Head(pl))
             /\ g \in [1..N - 1 -> Message]
             /\ \A j \in 1..N - 1 : g[j] = IF j <= n THEN f[j] ELSE f[j + 1]
<1> DEFINE n == Len(s) + Len(q)
           N == n + Len(pl)
           f == Flow(s, q, pl)
           P == Tail(pl)
           g == Flow(s, q, P)
<1>1. /\ P \in Seq(Items) /\ Len(P) = Len(pl) - 1 /\ Len(pl) \in Nat /\ Len(pl) >= 1
      /\ \A j \in 1..Len(pl) - 1 : P[j] = pl[j + 1]
      /\ Head(pl) = pl[1] /\ Len(s) \in Nat /\ Len(q) \in Nat
  OBVIOUS
<1> HIDE DEF P
<1>2. /\ \A j \in 1..Len(s) : f[j] = s[j]
      /\ \A j \in 1..Len(q) : f[Len(s) + j] = q[j]
      /\ \A j \in 1..Len(pl) : f[Len(s) + Len(q) + j] = Planned(pl[j])
  BY FlowType
<1>3. /\ g \in [1..Len(s) + Len(q) + Len(P) -> Message]
      /\ \A j \in 1..Len(s) : g[j] = s[j]
      /\ \A j \in 1..Len(q) : g[Len(s) + j] = q[j]
      /\ \A j \in 1..Len(P) : g[Len(s) + Len(q) + j] = Planned(P[j])
  BY <1>1, FlowType, ZenonT(30)
<1> HIDE DEF f, g
<1>4. n \in Nat /\ n + 1 <= N /\ g \in [1..N - 1 -> Message]
  <2>1. n \in Nat /\ n + 1 <= N /\ Len(s) + Len(q) + Len(P) = N - 1
    BY <1>1
  <2> QED
    BY <2>1, <1>3
<1>5. f[n + 1] = Planned(Head(pl))
  BY <1>1, <1>2
<1>6. ASSUME NEW j \in 1..N - 1 PROVE g[j] = IF j <= n THEN f[j] ELSE f[j + 1]
  <2>1. CASE j <= Len(s)
    <3>1. j <= n /\ j \in 1..Len(s)
      BY <2>1, <1>1
    <3> QED
      BY <3>1, <1>2, <1>3
  <2>2. CASE j > Len(s) /\ j <= n
    <3>1. j - Len(s) \in 1..Len(q) /\ Len(s) + (j - Len(s)) = j
      BY <2>2, <1>1
    <3>2. f[j] = q[j - Len(s)]
      BY <3>1, <1>2
    <3>3. g[j] = q[j - Len(s)]
      BY <3>1, <1>3
    <3> QED
      BY <2>2, <3>2, <3>3
  <2>3. CASE j > n
    <3>1. /\ j - n \in 1..Len(P) /\ n + (j - n) = j /\ ~(j <= n) /\ j - n \in 1..Len(pl) - 1
          /\ (j - n) + 1 \in 1..Len(pl) /\ n + ((j - n) + 1) = j + 1
      BY <2>3, <1>1
    <3>2. g[j] = Planned(pl[(j - n) + 1])
      BY <3>1, <1>1, <1>3
    <3>3. f[j + 1] = Planned(pl[(j - n) + 1])
      BY <3>1, <1>2
    <3> QED
      BY <3>1, <3>2, <3>3
  <2> QED
    BY <2>1, <2>2, <2>3, <1>1
<1> QED
  BY <1>1, <1>4, <1>5, <1>6 DEF f, g, P

-----------------------------------------------------------------------------
(* A beginning of a file.                                                   *)
Begun(p, n) == [i \in 1..n |-> Content(p, i)]

LEMMA FilesAre ==
  ASSUME NEW p, IsFile(p)
  PROVE  Files[p] \in Nat /\ p \in Listing /\ p \notin Specials
BY ListingAssumption DEF ListingAssumption, IsFile

LEMMA BegunType ==
  ASSUME NEW p \in Kept, NEW n \in Nat
  PROVE  /\ Begun(p, n) \in Seq(Message) /\ Len(Begun(p, n)) = n
         /\ \A i \in 1..n : Begun(p, n)[i] = Content(p, i)
<1>1. \A i \in 1..n : Content(p, i) \in Message
  BY DEF Content, Message
<1>2. Begun(p, n) \in [1..n -> Message]
  BY <1>1 DEF Begun
<1>3. Begun(p, n) \in Seq(Message)
  BY <1>2, SeqDef
<1>4. Len(Begun(p, n)) = n
  <2>1. DOMAIN Begun(p, n) = 1..Len(Begun(p, n)) /\ Len(Begun(p, n)) \in Nat
    BY <1>3, LenProperties
  <2>2. DOMAIN Begun(p, n) = 1..n
    BY <1>2
  <2> DEFINE a == Len(Begun(p, n))
             D == DOMAIN Begun(p, n)
  <2> HIDE DEF a, D
  <2>3. D = 1..a /\ D = 1..n /\ a \in Nat
    BY <2>1, <2>2 DEF a, D
  <2>4. a = n
    BY <2>3
  <2> QED
    BY <2>4 DEF a
<1> QED
  BY <1>3, <1>4 DEF Begun

LEMMA BegunNext ==
  ASSUME NEW p \in Kept, NEW n \in Nat
  PROVE  /\ Begun(p, 0) = <<>>
         /\ Append(Begun(p, n), Content(p, n + 1)) = Begun(p, n + 1)
<1>1. Begun(p, 0) = <<>>
  BY BegunType, EmptySeq
<1> DEFINE s == Begun(p, n)
           t == Begun(p, n + 1)
           c == Content(p, n + 1)
<1>2. c \in Message
  BY DEF Content, Message
<1>3. /\ s \in Seq(Message) /\ Len(s) = n /\ \A i \in 1..n : s[i] = Content(p, i)
      /\ t \in Seq(Message) /\ Len(t) = n + 1 /\ \A i \in 1..n + 1 : t[i] = Content(p, i)
  <2>1. n + 1 \in Nat
    OBVIOUS
  <2> QED
    BY <2>1, BegunType
<1> HIDE DEF s, t
<1>4. /\ Append(s, c) \in Seq(Message) /\ Len(Append(s, c)) = n + 1
      /\ \A i \in 1..n : Append(s, c)[i] = s[i]
      /\ Append(s, c)[n + 1] = c
  BY <1>2, <1>3, AppendProperties
<1>5. \A i \in 1..n + 1 : Append(s, c)[i] = t[i]
  <2>1. \A i \in 1..n + 1 : i \in 1..n \/ i = n + 1
    OBVIOUS
  <2> QED
    BY <2>1, <1>3, <1>4
<1>6. Append(s, c) = t
  BY <1>3, <1>4, <1>5, SeqEqual
<1> QED
  BY <1>1, <1>6 DEF s, t

LEMMA BegunPrefix ==
  ASSUME NEW p \in Kept, NEW n \in Nat, NEW m \in Nat, n <= m
  PROVE  IsPrefix(Begun(p, n), Begun(p, m))
<1> DEFINE s == Begun(p, n)
           t == Begun(p, m)
<1>1. /\ s \in Seq(Message) /\ Len(s) = n /\ \A i \in 1..n : s[i] = Content(p, i)
      /\ t \in Seq(Message) /\ Len(t) = m /\ \A i \in 1..m : t[i] = Content(p, i)
  BY BegunType
<1> HIDE DEF s, t
<1>2. \A i \in 1..n : i \in 1..m /\ s[i] \in Message /\ t[i] \in Message /\ s[i] = t[i]
  BY <1>1
<1>3. /\ SubSeq(s, 1, n) \in Seq(Message) /\ Len(SubSeq(s, 1, n)) = n
      /\ \A i \in 1..n : SubSeq(s, 1, n)[i] = s[i]
  BY <1>2, SubSeqProperties
<1>4. /\ SubSeq(t, 1, n) \in Seq(Message) /\ Len(SubSeq(t, 1, n)) = n
      /\ \A i \in 1..n : SubSeq(t, 1, n)[i] = t[i]
  BY <1>2, SubSeqProperties
<1>5. SubSeq(s, 1, n) = SubSeq(t, 1, n)
  BY <1>2, <1>3, <1>4, SeqEqual
<1>6. IsPrefix(s, t)
  BY <1>1, <1>5 DEF IsPrefix
<1> QED
  BY <1>6 DEF s, t

-----------------------------------------------------------------------------
(* The inductive invariant.                                                 *)
InFlight == Flow(socket, pipe, plan)
Sent == Len(socket) + Len(pipe)

(* The innermost call writes the contents of p.                             *)
Reads(fr, p) == fr # <<>> /\ Last(fr).kind = "contents" /\ Last(fr).path = p

(* What it has written and what it expects make up the file, and what it    *)
(* expects is ahead.                                                        *)
Top(f, fr, d) ==
    \A p : Reads(fr, p) =>
        /\ p \in Kept /\ IsFile(p) /\ Last(fr).left \in 0..Files[p] /\ p \in DOMAIN d
        /\ d[p] = Begun(p, Files[p] - Last(fr).left)
        /\ Last(fr).left > 0 =>
             1 \in DOMAIN f /\ f[1] = Content(p, Files[p] - Last(fr).left + 1)

Types == /\ socket \in Seq(Message) /\ pipe \in Seq(Message)
         /\ plan \in Seq(Items) /\ frames \in Seq(Frame)

(* The stream was cut before its producer wrote everything.                 *)
Cut == copy # "copying" /\ producer # "done"

(* As long as the sidecar has not failed it gets what the producer writes.   *)
Progress ==
    /\ Types
    /\ Agree(InFlight, Sent, frames)
    /\ Top(InFlight, frames, disk)
    /\ Covered(InFlight, DOMAIN disk)
    /\ \A p \in DOMAIN disk : disk[p] = Whole(p) \/ Reads(frames, p) \/ Cut

Beginnings ==
    \A p \in DOMAIN disk :
        p \in DOMAIN Files \ Ignored /\ \E n \in 0..Files[p] : disk[p] = Begun(p, n)

Control ==
    /\ ~changed => host = Files
    /\ producer = "done" => plan = <<>>
    /\ importer = "reading" /\ copy # "copying" => pipe = <<>>
    /\ importer = "done" => frames = <<>>
    /\ ErrorsSurface

FileInvariant ==
    /\ Control
    /\ ~changed /\ Plain => Beginnings /\ (importer # "failed" => Progress)

-----------------------------------------------------------------------------
LEMMA ControlStep ==
  ASSUME Control, FileNext
  PROVE  Control'
<1> USE DEF Control, ErrorsSurface
<1>1. CASE Produce
  BY <1>1 DEF Produce, Polled
<1>2. CASE ProducerEnds
  BY <1>2 DEF ProducerEnds, Polled
<1>3. CASE Send
  BY <1>3 DEF Send
<1>4. CASE Commit
  BY <1>4 DEF Commit, AtEnd
<1>5. CASE CopyFails
  BY <1>5 DEF CopyFails, ReadFails
<1>6. CASE ReadHeader
  BY <1>6 DEF ReadHeader, Awaits
<1>7. CASE ReadContents
  BY <1>7 DEF ReadContents, Awaits
<1>8. CASE Return
  BY <1>8 DEF Return
<1>9. CASE ClientGone
  BY <1>9 DEF ClientGone, Awaits
<1>10. CASE ImportFails
  BY <1>10 DEF ImportFails
<1>11. CASE HostChanges
  BY <1>11 DEF HostChanges
<1> QED
  BY <1>1, <1>2, <1>3, <1>4, <1>5, <1>6, <1>7, <1>8, <1>9, <1>10, <1>11 DEF FileNext, Read, Import

(* Files of the source are kept paths and their own prefixes.               *)
LEMMA InitProgress ==
  ASSUME FileInit
  PROVE  FileInvariant
<1> DEFINE root == [path |-> <<>>, at |-> 0]
           todo == [kind |-> "todo", path |-> <<>>, left |-> 0]
           entry == [path |-> <<>>, kind |-> "entry", left |-> 1]
           f == InFlight
<1>1. <<>> \in Kept /\ Kept \subseteq Listing
  BY RootIsKept
<1>2. Types
  BY <1>1 DEF FileInit, Types, Items, Frame
<1>3. f = [j \in 1..1 |-> todo] /\ Sent = 0 /\ f \in [1..1 -> Message]
  <2>1. Sent = 0 /\ Len(socket) + Len(pipe) + Len(plan) = 1 /\ plan[1] = root /\ Len(plan) = 1
    BY DEF FileInit, Sent
  <2>2. Planned(root) = todo
    BY DEF Planned
  <2>3. f \in [1..1 -> Message] /\ f[1] = Planned(root)
    <3>1. /\ InFlight \in [1..Len(socket) + Len(pipe) + Len(plan) -> Message]
          /\ \A j \in 1..Len(plan) : InFlight[Len(socket) + Len(pipe) + j] = Planned(plan[j])
      BY <1>2, FlowType DEF Types, InFlight
    <3> QED
      BY <2>1, <3>1 DEF Sent
  <2> HIDE DEF f, todo
  <2> QED
    BY <2>1, <2>2, <2>3
<1> HIDE DEF f
<1>4. Named(f) = {1} /\ Paths(f) = {<<>>} /\ DOMAIN f = {1} /\ f[1] = todo
  BY <1>3 DEF Named, Paths
<1>5. FlowOK(f, Sent)
  <2>1. Kids({<<>>}, <<>>) = {}
    BY DEF Kids
  <2>2. Shape(f, Sent) /\ Unbroken(f, Sent)
    BY <1>3, <1>4 DEF Shape, Unbroken
  <2>3. Once(f) /\ Preorder(f)
    BY <1>4 DEF Once, Preorder
  <2>4. Counts(f)
    BY <1>4, <2>1 DEF Counts
  <2> QED
    BY <2>2, <2>3, <2>4 DEF FlowOK
<1>6. frames = <<entry>> /\ Len(frames) = 1 /\ frames[1] = entry /\ DOMAIN frames = {1}
  BY DEF FileInit
<1>7. Calls(f, frames) /\ Reached(f, frames)
  BY <1>4, <1>6 DEF Calls, Reached, Below
<1>8. Top(f, frames, disk)
  BY <1>6 DEF Top, Reads, Last
<1>9. Covered(f, DOMAIN disk)
  <2> SUFFICES ASSUME NEW p \in DOMAIN Files \ Ignored PROVE IsPrefix(<<>>, p)
    BY <1>4 DEF Covered
  <2>1. p \in Listing
    BY FilesAre DEF IsFile
  <2> QED
    BY <2>1, <1>1, PathType, PrefixPointwise
<1>10. DOMAIN disk = {}
  BY DEF FileInit
<1>11. Progress
  BY <1>2, <1>5, <1>7, <1>8, <1>9, <1>10 DEF Progress, Agree, f
<1>12. Control
  BY DEF FileInit, Control, ErrorsSurface
<1> QED
  BY <1>10, <1>11, <1>12 DEF FileInvariant, Beginnings

-----------------------------------------------------------------------------
(* What an action that leaves the sidecar's end alone keeps of Progress.    *)
LEMMA SameEnd ==
  ASSUME Progress, Types', UNCHANGED <<frames, disk>>, Cut => Cut',
         Agree(InFlight', Sent', frames),
         Covered(InFlight, DOMAIN disk) => Covered(InFlight', DOMAIN disk),
         Top(InFlight', frames, disk)
  PROVE  Progress'
BY DEF Progress, Reads

LEMMA ProduceStep ==
  ASSUME FileInvariant, ~changed, Plain, importer # "failed", Produce
  PROVE  Progress'
<1> DEFINE i == Head(plan)
           f == InFlight
           N == Sent + Len(plan)
<1>1. Progress /\ host = Files
  BY DEF FileInvariant, Control
<1>2. /\ socket \in Seq(Message) /\ pipe \in Seq(Message) /\ plan \in Seq(Items) /\ frames \in Seq(Frame)
      /\ Agree(f, Sent, frames) /\ Top(f, frames, disk)
  BY <1>1 DEF Progress, Types
<1>3. plan # <<>> /\ i \in Items /\ i.path \in Kept /\ i.at \in Nat /\ Exists(i.path)
  <2>1. plan # <<>> /\ Exists(i.path)
    BY DEF Produce
  <2>2. i \in Items
    BY <1>2, <2>1
  <2> HIDE DEF i
  <2>3. i.path \in Kept /\ i.at \in Nat
    BY <2>2 DEF Items
  <2> QED
    BY <2>1, <2>2, <2>3
<1>4. /\ f \in [1..N -> Message] /\ Sent \in Nat /\ N \in Nat /\ Sent + 1 <= N
      /\ f[Sent + 1] = Planned(i)
  BY <1>2, <1>3, FlowType, FlowDrop DEF InFlight, Sent
<1>5. Planned(i).path = i.path /\ Unbroken(f, Sent)
  BY <1>2, <1>3, PlannedType DEF Agree, FlowOK
<1>6. i.at > 0 => /\ f[Sent + 1] = Content(i.path, i.at)
                  /\ f[Sent + 1].kind = "content" /\ f[Sent + 1].left = i.at
                  /\ IsFile(i.path) /\ Files[i.path] \in Nat /\ i.at <= Files[i.path] + 1
  <2> SUFFICES ASSUME i.at > 0
               PROVE  /\ f[Sent + 1] = Content(i.path, i.at)
                      /\ f[Sent + 1].kind = "content" /\ f[Sent + 1].left = i.at
                      /\ IsFile(i.path) /\ Files[i.path] \in Nat /\ i.at <= Files[i.path] + 1
    OBVIOUS
  <2>1. f[Sent + 1] = Content(i.path, i.at)
    BY <1>3, <1>4, PlannedType
  <2>2. f[Sent + 1].kind = "content" /\ f[Sent + 1].left = i.at /\ f[Sent + 1].path = i.path
    BY <2>1 DEF Content
  <2>3. IsFile(i.path) /\ i.at \in 1..Files[i.path] + 1
    BY <2>2, <1>4, <1>5 DEF Unbroken
  <2> QED
    BY <2>1, <2>2, <2>3, FilesAre
<1>7. ~(i.at > 0) => f[Sent + 1].kind = "todo" /\ i.at = 0
  BY <1>3, <1>4, PlannedType
<1>u. UNCHANGED <<source, host, specials, changed, producer, copy, socket, frames, importer, disk>>
  BY DEF Produce
<1>c. Cut => Cut'
  BY <1>u DEF Cut
<1>8. CASE Ends(i)
  <2>1. plan' = Tail(plan) /\ pipe' = pipe
    BY <1>8 DEF Produce
  <2>2. i.at > 0 /\ i.at = Files[i.path] + 1
    <3>1. i.path \notin Specials
      BY <1>3 DEF Kept
    <3> QED
      BY <3>1, <1>1, <1>3, <1>6, <1>8 DEF Ends
  <2> DEFINE g == Flow(socket, pipe, Tail(plan))
  <2>3. /\ Tail(plan) \in Seq(Items) /\ g \in [1..N - 1 -> Message]
        /\ \A j \in 1..N - 1 : g[j] = IF j <= Sent THEN f[j] ELSE f[j + 1]
    BY <1>2, <1>3, FlowDrop DEF InFlight, Sent
  <2>4. InFlight' = g /\ Sent' = Sent
    BY <2>1, <1>u DEF InFlight, Sent
  <2>5. /\ Agree(g, Sent, frames) /\ (Sent > 0 => g[1] = f[1])
        /\ Covered(f, DOMAIN disk) => Covered(g, DOMAIN disk)
    <3>1. f[Sent + 1].kind = "content" /\ f[Sent + 1].left = Files[f[Sent + 1].path] + 1
      BY <2>2, <1>4, <1>5, <1>6
    <3> HIDE DEF g, f, i, N
    <3>2. FileEnded(N, f, Sent, frames, g)
      BY <3>1, <2>3, <1>2, <1>4 DEF FileEnded
    <3> QED
      BY <3>2, EndsFile
  <2>6. Top(g, frames, disk)
    <3> SUFFICES ASSUME NEW p, Reads(frames, p), Last(frames).left > 0,
                        p \in Kept, IsFile(p), Last(frames).left \in 0..Files[p], 1 \in DOMAIN f,
                        f[1] = Content(p, Files[p] - Last(frames).left + 1)
                 PROVE  1 \in DOMAIN g /\ g[1] = f[1]
      BY <1>2 DEF Top
    <3>1. Files[p] \in Nat
      BY FilesAre
    <3>2. CASE Sent = 0
      <4>1. Files[p] - Last(frames).left + 1 = i.at /\ p = i.path
        BY <3>2, <1>6, <2>2 DEF Content
      <4> QED
        BY <4>1, <3>1, <2>2
    <3>3. CASE Sent # 0
      BY <3>3, <2>3, <2>5, <1>4
    <3> QED
      BY <3>2, <3>3
  <2>7. Types'
    BY <2>1, <2>3, <1>2, <1>u DEF Types
  <2> HIDE DEF g, f
  <2> QED
    BY <2>4, <2>5, <2>6, <2>7, <1>1, <1>c, <1>u, SameEnd DEF f
<1>9. CASE ~Ends(i)
  <2>0. plan' = Remaining(i) \o Tail(plan) /\ pipe' = pipe \o Written(i)
    BY <1>9 DEF Produce
  <2> DEFINE Top2(g) == f[1].kind = "content" => g[1] = f[1]
  <2>t. ASSUME NEW M, NEW g \in [1..M -> Message], M \in Nat, M >= 1,
               f[1].kind = "content" => g[1] = f[1]
        PROVE  Top(g, frames, disk)
    <3>1. \A p, n : f[1] = Content(p, n) => f[1].kind = "content"
      BY DEF Content
    <3> QED
      BY <3>1, <2>t, <1>2 DEF Top
  <2>1. ASSUME NEW w \in Message, NEW R \in Seq(Items), Written(i) = <<w>>, Remaining(i) = R
        PROVE  LET g == Flow(socket, pipe \o <<w>>, R \o Tail(plan))
               IN  /\ InFlight' = g /\ Sent' = Sent + 1 /\ Types'
                   /\ g \in [1..N + Len(R) -> Message] /\ g[Sent + 1] = w
                   /\ \A j \in 1..Sent : g[j] = f[j]
                   /\ \A k \in 1..Len(R) : g[Sent + 1 + k] = Planned(R[k])
                   /\ \A j \in Sent + 2..N : g[j + Len(R)] = f[j]
    <3>1. plan' = R \o Tail(plan) /\ pipe' = pipe \o <<w>>
      BY <2>0, <2>1
    <3> DEFINE r == pipe \o <<w>>
               P == R \o Tail(plan)
               g == Flow(socket, r, P)
    <3>2. /\ r \in Seq(Message) /\ P \in Seq(Items) /\ Len(socket) + Len(r) = Sent + 1
          /\ g \in [1..N + Len(R) -> Message] /\ g[Sent + 1] = w
          /\ \A j \in 1..Sent : g[j] = f[j]
          /\ \A k \in 1..Len(R) : g[Sent + 1 + k] = Planned(R[k])
          /\ \A j \in Sent + 2..N : g[j + Len(R)] = f[j]
      <4>1. /\ r = pipe \o <<w>> /\ P = R \o Tail(plan) /\ g = Flow(socket, r, P)
            /\ Sent = Len(socket) + Len(pipe) /\ N = Sent + Len(plan) /\ f = Flow(socket, pipe, plan)
        BY DEF Sent, InFlight
      <4> HIDE DEF r, P, g, f, N
      <4>2. /\ r \in Seq(Message) /\ Len(r) = Len(pipe) + 1 /\ r[Len(pipe) + 1] = w
            /\ \A j \in 1..Len(pipe) : r[j] = pipe[j]
        BY <4>1, <1>2, PipeMore
      <4>3. /\ P \in Seq(Items) /\ Len(P) = Len(R) + Len(plan) - 1
            /\ \A j \in 1..Len(R) : P[j] = R[j]
            /\ \A j \in 1..Len(plan) - 1 : P[Len(R) + j] = plan[j + 1]
        BY <4>1, <1>2, <1>3, PlanMore
      <4>4. /\ g = Flow(socket, r, P) /\ f = Flow(socket, pipe, plan)
            /\ Sent = Len(socket) + Len(pipe) /\ N = Sent + Len(plan)
        BY <4>1
      <4>5. Writes(socket, pipe, plan, w, R, r, P)
        BY <4>2, <4>3, <1>2, <1>3 DEF Writes
      <4>6. LET n == Len(socket) + Len(pipe)
                M == n + Len(plan)
                u == Flow(socket, pipe, plan)
                v == Flow(socket, r, P)
            IN  /\ Len(socket) + Len(r) = n + 1
                /\ v \in [1..M + Len(R) -> Message] /\ v[n + 1] = w
                /\ \A j \in 1..n : v[j] = u[j]
                /\ \A k \in 1..Len(R) : v[n + 1 + k] = Planned(R[k])
                /\ \A j \in n + 2..M : v[j + Len(R)] = u[j]
        BY <4>5, FlowWrite
      <4> QED
        BY <4>2, <4>3, <4>4, <4>6
    <3> HIDE DEF f
    <3>3. InFlight' = g
      BY <3>1, <1>u DEF InFlight
    <3>4. Sent' = Sent + 1
      BY <3>1, <3>2, <1>u DEF Sent
    <3>5. Types'
      BY <3>1, <3>2, <1>2, <1>u DEF Types
    <3> QED
      BY <3>2, <3>3, <3>4, <3>5
  <2>2. CASE i.at > 0 \/ IsFile(i.path)
    <3> DEFINE p == i.path
               h == IF i.at > 0 THEN Content(p, i.at) ELSE [kind |-> "file", path |-> p, left |-> Files[p]]
               next == [path |-> p, at |-> i.at + 1]
    <3>1. /\ IsFile(p) /\ Files[p] \in Nat /\ p \in Kept /\ f[Sent + 1].path = p
      BY <2>2, <1>3, <1>4, <1>5, <1>6, FilesAre
    <3>2. h \in Message /\ next \in Items
      BY <3>1, <1>3 DEF Message, Items, Content
    <3>3. Written(i) = <<h>>
      BY <2>2, <1>1 DEF Written, FileHeader
    <3>4. Remaining(i) = <<next>>
      <4>1. i = [path |-> p, at |-> i.at]
        BY <1>3 DEF Items
      <4>2. [i EXCEPT !.at = @ + 1] = next
        BY <4>1
      <4>3. ~(i.at > 0) => [i EXCEPT !.at = 1] = next
        BY <4>1, <1>7
      <4> QED
        BY <2>2, <4>2, <4>3 DEF Remaining
    <3> HIDE DEF h, next
    <3> DEFINE R == <<next>>
               g == Flow(socket, pipe \o <<h>>, R \o Tail(plan))
    <3>5. R \in Seq(Items) /\ Len(R) = 1 /\ R[1] = next
      BY <3>2
    <3> HIDE DEF R
    <3>6. /\ InFlight' = g /\ Sent' = Sent + 1 /\ Types'
          /\ g \in [1..N + Len(R) -> Message] /\ g[Sent + 1] = h
          /\ \A j \in 1..Sent : g[j] = f[j]
          /\ \A k \in 1..Len(R) : g[Sent + 1 + k] = Planned(R[k])
          /\ \A j \in Sent + 2..N : g[j + Len(R)] = f[j]
      BY <2>1, <3>2, <3>3, <3>4, <3>5 DEF R
    <3> HIDE DEF g, f, N
    <3>7. g[Sent + 2] = Content(p, i.at + 1)
      <4>1. 1 \in 1..Len(R) /\ Sent + 1 + 1 = Sent + 2
        BY <3>5, <1>4
      <4>2. g[Sent + 2] = Planned(next)
        BY <4>1, <3>5, <3>6
      <4> QED
        BY <4>2, <1>3 DEF next, Planned
    <3>8. /\ g \in [1..N + 1 -> Message]
          /\ \A j \in 1..N + 1 : g[j] = IF j <= Sent THEN f[j] ELSE IF j = Sent + 1 THEN h
                                        ELSE IF j = Sent + 2 THEN Content(p, i.at + 1) ELSE f[j - 1]
      <4>1. g \in [1..N + 1 -> Message]
        BY <3>5, <3>6
      <4>2. ASSUME NEW j \in 1..N + 1, j > Sent + 2 PROVE g[j] = f[j - 1]
        <5>1. j - 1 \in Sent + 2..N /\ (j - 1) + 1 = j
          BY <4>2, <1>4
        <5> QED
          BY <5>1, <3>5, <3>6
      <4> QED
        BY <4>1, <4>2, <3>6, <3>7, <1>4
    <3>9. /\ Agree(g, Sent + 1, frames)
          /\ Covered(f, DOMAIN disk) => Covered(g, DOMAIN disk)
          /\ f[1].kind = "content" => g[1] = f[1]
      <4>1. \/ f[Sent + 1].kind = "content" /\ i.at = f[Sent + 1].left /\ i.at <= Files[p] /\ h = f[Sent + 1]
            \/ f[Sent + 1].kind = "todo" /\ i.at = 0 /\ h = [kind |-> "file", path |-> p, left |-> Files[p]]
        <5>1. CASE i.at > 0
          <6>1. i.at <= Files[p]
            BY <5>1, <3>1, <1>1, <1>3, <1>9 DEF Ends
          <6> QED
            BY <5>1, <6>1, <1>6 DEF h
        <5>2. CASE ~(i.at > 0)
          BY <5>2, <1>7 DEF h
        <5> QED
          BY <5>1, <5>2
      <4> DEFINE at == i.at
      <4>2. at \in Nat
        BY <1>3
      <4> HIDE DEF i, p, at
      <4>3. /\ \/ f[Sent + 1].kind = "content" /\ at = f[Sent + 1].left /\ at <= Files[p] /\ h = f[Sent + 1]
               \/ f[Sent + 1].kind = "todo" /\ at = 0 /\ h = [kind |-> "file", path |-> p, left |-> Files[p]]
            /\ g \in [1..N + 1 -> Message]
            /\ \A j \in 1..N + 1 : g[j] = IF j <= Sent THEN f[j] ELSE IF j = Sent + 1 THEN h
                                          ELSE IF j = Sent + 2 THEN Content(p, at + 1) ELSE f[j - 1]
        BY <4>1, <3>8 DEF at
      <4>4. FileWritten(N, f, Sent, frames, p, h, at, g)
        BY <4>2, <4>3, <3>1, <1>2, <1>4 DEF FileWritten
      <4> QED
        BY <4>4, WritesFile
    <3>a. N + 1 \in Nat /\ N + 1 >= 1
      BY <1>4
    <3>10. Top(g, frames, disk)
      BY <3>8, <3>9, <3>a, <2>t
    <3> QED
      BY <3>6, <3>9, <3>10, <1>1, <1>c, <1>u, SameEnd DEF f
  <2>3. CASE ~(i.at > 0) /\ ~IsFile(i.path)
    <3> DEFINE d == i.path
               E == Entries(d)
               K == Len(E)
               h == [kind |-> "folder", path |-> d, left |-> K]
               R == [k \in DOMAIN E |-> [path |-> E[k], at |-> 0]]
    <3>1. /\ d \in Kept /\ E \in [1..K -> Kids(Kept, d)] /\ K = Cardinality(Kids(Kept, d)) /\ K \in Nat
          /\ \A j, k \in 1..K : E[j] = E[k] => j = k
          /\ \A c \in Kids(Kept, d) : \E k \in 1..K : E[k] = c
      BY <1>1, <1>3, EntriesAre
    <3>2. Written(i) = <<h>> /\ Remaining(i) = R
      BY <2>3 DEF Written, Remaining, FolderHeader
    <3>3. h \in Message
      BY <3>1 DEF Message
    <3>4. R \in Seq(Items) /\ Len(R) = K /\ \A k \in 1..K : R[k] = [path |-> E[k], at |-> 0]
      <4>1. \A k \in 1..K : [path |-> E[k], at |-> 0] \in Items
        BY <3>1 DEF Items, Kids
      <4>2. DOMAIN E = 1..K
        BY <3>1
      <4> HIDE DEF E, K
      <4>3. R \in [1..K -> Items]
        BY <4>1, <4>2
      <4>4. R \in Seq(Items)
        <5> HIDE DEF R
        <5> QED
          BY <3>1, <4>3, SeqDef
      <4>5. DOMAIN R = 1..Len(R) /\ Len(R) \in Nat /\ DOMAIN R = 1..K
        BY <4>3, <4>4, LenProperties
      <4>6. \A k \in 1..K : R[k] = [path |-> E[k], at |-> 0]
        BY <4>2
      <4> HIDE DEF R
      <4>7. Len(R) = K
        <5> DEFINE a == Len(R)
                   D == DOMAIN R
        <5>1. D = 1..a /\ D = 1..K /\ a \in Nat
          BY <4>5
        <5> HIDE DEF a, D
        <5>2. a = K
          BY <5>1, <3>1
        <5> QED
          BY <5>2 DEF a
      <4> QED
        BY <4>4, <4>6, <4>7
    <3> HIDE DEF h, R
    <3> DEFINE g == Flow(socket, pipe \o <<h>>, R \o Tail(plan))
    <3>6. /\ InFlight' = g /\ Sent' = Sent + 1 /\ Types'
          /\ g \in [1..N + Len(R) -> Message] /\ g[Sent + 1] = h
          /\ \A j \in 1..Sent : g[j] = f[j]
          /\ \A k \in 1..Len(R) : g[Sent + 1 + k] = Planned(R[k])
          /\ \A j \in Sent + 2..N : g[j + Len(R)] = f[j]
      BY <2>1, <3>2, <3>3, <3>4
    <3> HIDE DEF g, f, N, E, K
    <3>7. \A k \in 1..K : g[Sent + 1 + k] = [kind |-> "todo", path |-> E[k], left |-> 0]
      BY <3>4, <3>6 DEF Planned
    <3>8. /\ Agree(g, Sent + 1, frames)
          /\ Covered(f, DOMAIN disk) => Covered(g, DOMAIN disk)
          /\ f[1].kind = "content" => g[1] = f[1]
      <4>1. f[Sent + 1].path = d /\ f[Sent + 1].kind = "todo" /\ ~IsFile(d)
        BY <2>3, <1>4, <1>5, <1>7
      <4>2. /\ DOMAIN frames = 1..Len(frames) /\ Len(frames) \in Nat
            /\ \A k \in DOMAIN frames : frames[k].kind \in {"entry", "contents"}
        BY <1>2, FrameType
      <4>3. /\ g \in [1..N + K -> Message]
            /\ g[Sent + 1] = [kind |-> "folder", path |-> d, left |-> K]
            /\ \A j \in Sent + 2..N : g[j + K] = f[j]
        BY <3>4, <3>6 DEF h
      <4> HIDE DEF i, d
      <4>4. FolderWritten(N, f, Sent, frames, d, K, E, g)
        BY <4>1, <4>2, <4>3, <3>1, <3>6, <3>7, <1>2, <1>4 DEF FolderWritten
      <4> QED
        BY <4>4, WritesFolder
    <3>9. N + K \in Nat /\ N + K >= 1 /\ g \in [1..N + K -> Message]
      BY <3>1, <3>4, <3>6, <1>4
    <3>10. Top(g, frames, disk)
      BY <3>8, <3>9, <2>t
    <3> QED
      BY <3>6, <3>8, <3>10, <1>1, <1>c, <1>u, SameEnd DEF f
  <2> QED
    BY <2>2, <2>3
<1> QED
  BY <1>8, <1>9


LEMMA SendStep ==
  ASSUME Progress, Send
  PROVE  Progress'
<1>1. /\ socket \in Seq(Message) /\ pipe \in Seq(Message) /\ plan \in Seq(Items) /\ frames \in Seq(Frame)
      /\ Agree(InFlight, Sent, frames) /\ Top(InFlight, frames, disk)
  BY DEF Progress, Types
<1>2. /\ pipe # <<>> /\ socket' = Append(socket, Head(pipe)) /\ pipe' = Tail(pipe)
      /\ UNCHANGED <<plan, producer, copy, frames, disk>>
  BY DEF Send
<1> DEFINE t == Append(socket, Head(pipe))
           r == Tail(pipe)
<1>3. /\ t \in Seq(Message) /\ r \in Seq(Message)
      /\ Len(t) + Len(r) = Len(socket) + Len(pipe) /\ Flow(t, r, plan) = Flow(socket, pipe, plan)
  BY <1>1, <1>2, FlowSend
<1>4. socket' = t /\ pipe' = r
  BY <1>2
<1> HIDE DEF t, r
<1>5. InFlight' = InFlight /\ Sent' = Sent /\ Types'
  BY <1>1, <1>2, <1>3, <1>4 DEF InFlight, Sent, Types
<1>6. Cut => Cut'
  BY <1>2 DEF Cut
<1> QED
  BY <1>1, <1>2, <1>5, <1>6, SameEnd

-----------------------------------------------------------------------------
(* What a read takes off the flow.                                          *)
LEMMA TakesOne ==
  ASSUME Types, socket # <<>>, socket' = Tail(socket), UNCHANGED <<pipe, plan>>,
         NEW N, N = Sent + Len(plan)
  PROVE  /\ N \in Nat /\ N >= 1 /\ Sent \in Nat /\ Sent >= 1 /\ Sent' = Sent - 1
         /\ InFlight \in [1..N -> Message] /\ InFlight' \in [1..N - 1 -> Message]
         /\ InFlight[1] = Head(socket) /\ \A j \in 1..N - 1 : InFlight'[j] = InFlight[j + 1]
         /\ socket' \in Seq(Message)
<1>1. socket \in Seq(Message) /\ pipe \in Seq(Message) /\ plan \in Seq(Items)
  BY DEF Types
<1> DEFINE t == Tail(socket)
           n == Len(socket) + Len(pipe)
           f == Flow(socket, pipe, plan)
           g == Flow(t, pipe, plan)
<1>2. N = n + Len(plan) /\ Sent = n /\ InFlight = f
  BY DEF Sent, InFlight
<1>3. /\ t \in Seq(Message) /\ Len(t) + Len(pipe) = n - 1 /\ n >= 1 /\ n + Len(plan) >= 1
      /\ g \in [1..n + Len(plan) - 1 -> Message] /\ f[1] = Head(socket)
      /\ \A j \in 1..n + Len(plan) - 1 : g[j] = f[j + 1]
  BY <1>1, FlowRead, SMTT(30)
<1>4. n \in Nat /\ n + Len(plan) \in Nat /\ f \in [1..n + Len(plan) -> Message]
  BY <1>1, FlowType
<1>5. socket' = t
  OBVIOUS
<1> HIDE DEF t
<1>6. Sent' = Len(t) + Len(pipe) /\ InFlight' = g
  BY <1>5 DEF Sent, InFlight
<1> DEFINE M == n + Len(plan)
<1>7. /\ M \in Nat /\ M >= 1 /\ f \in [1..M -> Message] /\ g \in [1..M - 1 -> Message]
      /\ \A j \in 1..M - 1 : g[j] = f[j + 1]
  BY <1>3, <1>4
<1>8. N = M
  BY <1>2
<1> HIDE DEF n, f, g, M
<1> QED
  BY <1>2, <1>3, <1>4, <1>5, <1>6, <1>7, <1>8

(* The innermost call.                                                      *)
LEMMA CallIs ==
  ASSUME frames \in Seq(Frame), frames # <<>>
  PROVE  /\ Len(frames) \in Nat /\ Len(frames) >= 1 /\ Call = frames[Len(frames)]
         /\ Call \in Frame /\ Call.path \in Kept /\ Call.left \in Nat
         /\ Call.kind \in {"entry", "contents"}
         /\ Front(frames) \in Seq(Frame) /\ Len(Front(frames)) = Len(frames) - 1
         /\ \A i \in 1..Len(frames) - 1 : Front(frames)[i] = frames[i]
<1>1. /\ Len(frames) \in Nat /\ Len(frames) >= 1 /\ DOMAIN frames = 1..Len(frames)
      /\ \A i \in 1..Len(frames) : frames[i] \in Frame
  BY FrameType
<1>2. Call = frames[Len(frames)] /\ Call \in Frame
  BY <1>1 DEF Call, Last
<1>3. /\ Front(frames) \in Seq(Frame) /\ Len(Front(frames)) = Len(frames) - 1
      /\ \A i \in 1..Len(frames) - 1 : Front(frames)[i] = frames[i]
  <2>1. \A i \in 1..Len(frames) - 1 : frames[i] \in Frame
    BY <1>1
  <2>2. Len(frames) - 1 \in Nat
    BY <1>1
  <2> QED
    BY <1>1, <2>1, <2>2, SubSeqProperties DEF Front
<1> QED
  BY <1>1, <1>2, <1>3 DEF Frame

(* A call that has read one more.                                           *)
LEMMA InnerIs ==
  ASSUME frames \in Seq(Frame), frames # <<>>, Call.left > 0
  PROVE  /\ Inner \in Seq(Frame) /\ Len(Inner) = Len(frames)
         /\ \A i \in 1..Len(frames) - 1 : Inner[i] = frames[i]
         /\ Inner[Len(frames)] = [frames[Len(frames)] EXCEPT !.left = @ - 1]
         /\ Inner[Len(frames)].path = Call.path /\ Inner[Len(frames)].kind = Call.kind
         /\ Inner[Len(frames)].left = Call.left - 1
<1> DEFINE c == [Call EXCEPT !.left = @ - 1]
           r == Front(frames)
<1>1. /\ Len(frames) \in Nat /\ Len(frames) >= 1 /\ Call = frames[Len(frames)] /\ Call \in Frame
      /\ Call.left \in Nat
      /\ r \in Seq(Frame) /\ Len(r) = Len(frames) - 1
      /\ \A i \in 1..Len(frames) - 1 : r[i] = frames[i]
  BY CallIs
<1>2. c \in Frame /\ c.path = Call.path /\ c.kind = Call.kind /\ c.left = Call.left - 1
  <2>1. /\ Call = [path |-> Call.path, kind |-> Call.kind, left |-> Call.left]
        /\ Call.path \in Kept /\ Call.kind \in {"entry", "contents"}
    BY <1>1 DEF Frame
  <2>2. Call.left - 1 \in Nat
    BY <1>1
  <2>3. c = [path |-> Call.path, kind |-> Call.kind, left |-> Call.left - 1]
    BY <2>1
  <2> QED
    BY <2>1, <2>2, <2>3 DEF Frame
<1>3. Inner = r \o <<c>> /\ c = [frames[Len(frames)] EXCEPT !.left = @ - 1]
  BY <1>1 DEF Inner
<1> HIDE DEF c, r
<1>4. <<c>> \in Seq(Frame) /\ Len(<<c>>) = 1 /\ <<c>>[1] = c
  BY <1>2
<1>5. /\ Inner \in Seq(Frame) /\ Len(Inner) = Len(r) + 1
      /\ \A i \in 1..Len(r) + 1 : Inner[i] = IF i <= Len(r) THEN r[i] ELSE <<c>>[i - Len(r)]
  BY <1>1, <1>3, <1>4, ConcatProperties
<1>6. Len(Inner) = Len(frames)
  BY <1>1, <1>5
<1>7. \A i \in 1..Len(frames) - 1 : Inner[i] = frames[i]
  BY <1>1, <1>5
<1>8. Inner[Len(frames)] = c
  <2>1. /\ Len(frames) \in 1..Len(r) + 1 /\ ~(Len(frames) <= Len(r))
        /\ Len(frames) - Len(r) = 1
    BY <1>1
  <2> QED
    BY <2>1, <1>4, <1>5
<1> QED
  BY <1>2, <1>3, <1>5, <1>6, <1>7, <1>8

(* What Progress says of the flow.                                          *)
LEMMA ProgressFlow ==
  ASSUME Progress
  PROVE  /\ socket \in Seq(Message) /\ pipe \in Seq(Message) /\ plan \in Seq(Items)
         /\ frames \in Seq(Frame) /\ Types
         /\ Agree(InFlight, Sent, frames) /\ Shape(InFlight, Sent) /\ Unbroken(InFlight, Sent)
         /\ Calls(InFlight, frames)
         /\ InFlight \in [1..Sent + Len(plan) -> Message]
         /\ Sent \in Nat /\ Sent + Len(plan) \in Nat
<1>1. /\ socket \in Seq(Message) /\ pipe \in Seq(Message) /\ plan \in Seq(Items)
      /\ frames \in Seq(Frame) /\ Types /\ Agree(InFlight, Sent, frames)
  BY DEF Progress, Types
<1>2. /\ Shape(InFlight, Sent) /\ Unbroken(InFlight, Sent) /\ Calls(InFlight, frames)
  BY <1>1 DEF Agree, FlowOK
<1>3. /\ InFlight \in [1..Sent + Len(plan) -> Message]
      /\ Sent \in Nat /\ Sent + Len(plan) \in Nat
  BY <1>1, FlowType DEF InFlight, Sent
<1> QED
  BY <1>1, <1>2, <1>3

(* The path that an unchanged source's header is put at is the path it has   *)
(* in the source.                                                           *)
LEMMA PlacedThere ==
  ASSUME Progress, frames # <<>>, Call.kind = "entry", Call.left > 0,
         NEW h \in Message, 1 \in Named(InFlight), InFlight[1] = h
  PROVE  Placed(h) = h.path
<1> DEFINE L == Len(frames)
           x == h.path
           n == Len(h.path)
<1>1. /\ frames \in Seq(Frame) /\ Agree(InFlight, Sent, frames)
      /\ InFlight \in [1..Sent + Len(plan) -> Message]
      /\ Sent \in Nat /\ Sent + Len(plan) \in Nat
  BY ProgressFlow
<1>2. L \in Nat /\ L >= 1 /\ Call = frames[L]
  BY <1>1, CallIs
<1>3. /\ L = 1 => x = <<>>
      /\ L > 1 => x # <<>> /\ Front(x) = Call.path
  BY <1>1, <1>2, Expected
<1>4. CASE x = <<>>
  BY <1>4 DEF Placed
<1>5. CASE x # <<>>
  <2>1. Front(x) = Call.path
    <3>1. L # 1 => L > 1
      <4>1. L \in Nat /\ L >= 1
        BY <1>2
      <4> HIDE DEF L
      <4> QED
        BY <4>1
    <3> QED
      BY <3>1, <1>3, <1>5
  <2>2. x \in Listing /\ x \in Seq(FileName) /\ n \in Nat /\ n # 0
    BY <1>5, RootIsKept, PathType DEF Message
  <2>3. Append(Front(x), Last(x)) = x
    BY <2>2, <1>5, FrontLast
  <2> QED
    BY <2>1, <2>3, <1>5 DEF Placed
<1> QED
  BY <1>4, <1>5

LEMMA ReadHeaderStep ==
  ASSUME Progress, ReadHeader, importer' # "failed"
  PROVE  Progress'
<1> DEFINE h == Head(socket)
           k == IF h.kind = "folder" THEN "entry" ELSE "contents"
           top == [path |-> h.path, kind |-> k, left |-> h.left]
           N == Sent + Len(plan)
           f == InFlight
           g == InFlight'
           L == Len(frames)
<1>1. /\ frames \in Seq(Frame) /\ Types /\ Agree(f, Sent, frames) /\ Shape(f, Sent) /\ Unbroken(f, Sent)
  BY ProgressFlow
<1>2. /\ frames # <<>> /\ Call.left > 0 /\ Call.kind = "entry" /\ socket # <<>>
      /\ socket' = Tail(socket) /\ UNCHANGED <<plan, pipe, producer, copy>>
  BY DEF ReadHeader, Awaits
<1>3. /\ N \in Nat /\ N >= 1 /\ Sent \in Nat /\ Sent >= 1 /\ Sent' = Sent - 1
      /\ f \in [1..N -> Message] /\ g \in [1..N - 1 -> Message]
      /\ f[1] = h /\ \A j \in 1..N - 1 : g[j] = f[j + 1]
      /\ socket' \in Seq(Message)
  BY <1>1, <1>2, TakesOne
<1>4. /\ h \in Message /\ h.kind \in {"file", "folder"} /\ h.path \in Kept /\ h.left \in Nat
      /\ 1 \in Named(f) /\ k \in {"entry", "contents"} /\ (k = "entry" <=> f[1].kind = "folder")
  <2>1. 1 \in DOMAIN f /\ h \in Message
    BY <1>3
  <2>2. h.kind # "content"
    BY DEF ReadHeader
  <2>3. h.kind # "todo"
    BY <2>1, <1>1, <1>3 DEF Shape
  <2> QED
    BY <2>1, <2>2, <2>3, <1>3 DEF Message, Named
<1>p. Placed(h) = h.path
  BY <1>1, <1>2, <1>3, <1>4, PlacedThere
<1>5. frames' = Append(Inner, top)
  BY <1>4, <1>p DEF ReadHeader, Take
<1>6. /\ k = "entry" => disk' = disk
      /\ k = "contents" => disk' = Emptied(h.path) /\ h.kind = "file"
  BY <1>4, <1>p DEF ReadHeader
<1>7. /\ L \in Nat /\ L >= 1 /\ Call = frames[L]
      /\ Inner \in Seq(Frame) /\ Len(Inner) = L
      /\ \A i \in 1..L - 1 : Inner[i] = frames[i]
      /\ Inner[L] = [frames[L] EXCEPT !.left = @ - 1]
  BY <1>1, <1>2, CallIs, InnerIs
<1>8. top \in Frame
  BY <1>4 DEF Frame
<1> HIDE DEF h, k, top, N, f, g
<1>9. /\ frames' \in Seq(Frame) /\ Len(frames') = L + 1
      /\ \A i \in 1..L : frames'[i] = Inner[i]
      /\ frames'[L + 1] = top
  <2>1. /\ Append(Inner, top) \in Seq(Frame) /\ Len(Append(Inner, top)) = Len(Inner) + 1
        /\ \A i \in 1..Len(Inner) : Append(Inner, top)[i] = Inner[i]
        /\ Append(Inner, top)[Len(Inner) + 1] = top
    BY <1>7, <1>8, AppendProperties
  <2> QED
    BY <2>1, <1>5, <1>7
<1>10. HeaderRead(N, f, Sent, frames, g, k, frames')
  <2>1. \A i \in 1..L - 1 : frames'[i] = frames[i]
    BY <1>7, <1>9
  <2>2. frames'[L] = [frames[L] EXCEPT !.left = @ - 1]
    BY <1>7, <1>9
  <2>3. frames'[L + 1] = [path |-> f[1].path, kind |-> k, left |-> f[1].left]
    BY <1>3, <1>9 DEF top
  <2>4. frames[L].kind = "entry" /\ frames[L].left > 0
    BY <1>2, <1>7
  <2> QED
    BY <2>1, <2>2, <2>3, <2>4, <1>1, <1>2, <1>3, <1>4, <1>9 DEF HeaderRead
<1>11. /\ Agree(g, Sent - 1, frames')
       /\ \A dom : Covered(f, dom) =>
            Covered(g, IF k = "entry" THEN dom ELSE dom \cup {f[1].path})
  BY <1>10, ReadsHeader
<1>12. DOMAIN disk' = (IF k = "entry" THEN DOMAIN disk ELSE DOMAIN disk \cup {h.path})
  BY <1>4, <1>6 DEF Emptied
<1>13. Covered(g, DOMAIN disk')
  BY <1>3, <1>11, <1>12 DEF Progress, f
<1>14. Last(frames') = top /\ frames' # <<>> /\ top.kind = k /\ top.path = h.path /\ top.left = h.left
  <2>1. Last(frames') = frames'[Len(frames')]
    BY DEF Last
  <2> QED
    BY <2>1, <1>7, <1>9, FrameType DEF top
<1>15. ASSUME k = "contents"
       PROVE  /\ IsFile(h.path) /\ Files[h.path] \in Nat /\ h.left = Files[h.path]
              /\ h.path \in DOMAIN disk' /\ disk'[h.path] = <<>>
              /\ h.left > 0 => 1 \in 1..N - 1 /\ f[2] = Content(h.path, 1)
  <2>1. 1 \in DOMAIN f /\ f[1].kind = "file" /\ 1 + 1 = 2 /\ DOMAIN f = 1..N
    BY <1>15, <1>3, <1>6
  <2>2. /\ IsFile(f[1].path) /\ f[1].left = Files[f[1].path]
        /\ f[1].left > 0 => 2 \in DOMAIN f /\ f[2] = Content(f[1].path, 1)
    BY <2>1, <1>1 DEF Unbroken
  <2>3. 2 \in 1..N => 1 \in 1..N - 1
    BY <1>3
  <2>4. h.path \in DOMAIN disk' /\ disk'[h.path] = <<>>
    BY <1>15, <1>6 DEF Emptied
  <2> QED
    BY <2>1, <2>2, <2>3, <2>4, <1>3, FilesAre
<1>16. Top(g, frames', disk')
  <2> SUFFICES ASSUME NEW p, Reads(frames', p)
               PROVE  /\ p \in Kept /\ IsFile(p) /\ Last(frames').left \in 0..Files[p]
                      /\ p \in DOMAIN disk'
                      /\ disk'[p] = Begun(p, Files[p] - Last(frames').left)
                      /\ Last(frames').left > 0 =>
                           /\ 1 \in DOMAIN g
                           /\ g[1] = Content(p, Files[p] - Last(frames').left + 1)
    BY DEF Top
  <2>1. k = "contents" /\ p = h.path
    BY <1>14 DEF Reads
  <2>2. Files[p] - Last(frames').left = 0 /\ Last(frames').left \in 0..Files[p]
    BY <2>1, <1>14, <1>15
  <2>3. disk'[p] = Begun(p, 0)
    BY <2>1, <1>4, <1>15, BegunNext
  <2>4. Last(frames').left > 0 => 1 \in DOMAIN g /\ g[1] = Content(p, 1)
    <3> SUFFICES ASSUME Last(frames').left > 0 PROVE 1 \in DOMAIN g /\ g[1] = Content(p, 1)
      OBVIOUS
    <3>1. 1 \in 1..N - 1 /\ f[2] = Content(p, 1) /\ 1 + 1 = 2
      BY <2>1, <1>14, <1>15
    <3> QED
      BY <3>1, <1>3
  <2>5. 0 + 1 = 1
    OBVIOUS
  <2> QED
    BY <2>1, <2>2, <2>3, <2>4, <2>5, <1>4, <1>15
<1>17. ASSUME NEW p \in DOMAIN disk' PROVE disk'[p] = Whole(p) \/ Reads(frames', p) \/ Cut'
  <2>1. ~Reads(frames, p)
    BY <1>2 DEF Reads, Call
  <2>2. CASE k = "contents" /\ p = h.path
    BY <2>2, <1>14 DEF Reads
  <2>3. CASE ~(k = "contents" /\ p = h.path)
    <3>1. p \in DOMAIN disk /\ disk'[p] = disk[p]
      BY <2>3, <1>4, <1>6, <1>12 DEF Emptied
    <3>2. Cut' = Cut
      BY <1>2 DEF Cut
    <3> QED
      BY <2>1, <3>1, <3>2 DEF Progress
  <2> QED
    BY <2>2, <2>3
<1>18. Types'
  BY <1>1, <1>2, <1>3, <1>9 DEF Types
<1> QED
  BY <1>3, <1>11, <1>13, <1>16, <1>17, <1>18 DEF Progress, g, Whole

(* What the innermost call reads of a file, before and after it reads more.  *)
LEMMA ContentsAhead ==
  ASSUME Progress, ReadContents
  PROVE  /\ Call.path \in Kept /\ IsFile(Call.path) /\ Files[Call.path] \in Nat
         /\ Call.path \in DOMAIN disk /\ Call.left \in 1..Files[Call.path]
         /\ disk[Call.path] = Begun(Call.path, Files[Call.path] - Call.left)
         /\ Head(socket) = Content(Call.path, Files[Call.path] - Call.left + 1)
         /\ DOMAIN disk' = DOMAIN disk
         /\ \A q \in DOMAIN disk : q # Call.path => disk'[q] = disk[q]
         /\ disk'[Call.path] = Begun(Call.path, Files[Call.path] - Call.left + 1)
<1> DEFINE p == Call.path
           l == Call.left
           N == Sent + Len(plan)
<1>1. /\ frames # <<>> /\ l > 0 /\ Call.kind = "contents" /\ socket # <<>>
      /\ socket' = Tail(socket) /\ UNCHANGED <<plan, pipe, producer, copy>>
      /\ disk' = [disk EXCEPT ![p] = Append(@, Head(socket))]
  BY DEF ReadContents, Awaits
<1>2. frames \in Seq(Frame) /\ Types
  BY ProgressFlow
<1>3. l \in Nat /\ p \in Kept
  BY <1>1, <1>2, CallIs
<1>4. Reads(frames, p) /\ Last(frames).left = l
  BY <1>1 DEF Reads, Call
<1>5. /\ IsFile(p) /\ l \in 0..Files[p] /\ p \in DOMAIN disk
      /\ disk[p] = Begun(p, Files[p] - l)
      /\ InFlight[1] = Content(p, Files[p] - l + 1)
  BY <1>1, <1>4 DEF Progress, Top
<1>6. InFlight[1] = Head(socket)
  BY <1>1, <1>2, TakesOne
<1>7. Files[p] \in Nat /\ Files[p] - l \in Nat /\ l \in 1..Files[p]
  BY <1>1, <1>3, <1>5, FilesAre
<1>8. disk'[p] = Append(disk[p], Head(socket))
  BY <1>1, <1>5
<1> HIDE DEF p, l
<1>9. disk'[p] = Begun(p, Files[p] - l + 1)
  BY <1>3, <1>5, <1>6, <1>7, <1>8, BegunNext
<1>10. DOMAIN disk' = DOMAIN disk /\ \A q \in DOMAIN disk : q # p => disk'[q] = disk[q]
  BY <1>1
<1> QED
  BY <1>3, <1>5, <1>6, <1>7, <1>9, <1>10 DEF p, l

LEMMA ReadContentsStep ==
  ASSUME Progress, ReadContents
  PROVE  Progress'
<1> DEFINE p == Call.path
           l == Call.left
           N == Sent + Len(plan)
           f == InFlight
           g == InFlight'
           L == Len(frames)
<1>1. /\ frames \in Seq(Frame) /\ Types /\ Agree(f, Sent, frames) /\ Unbroken(f, Sent)
  BY ProgressFlow
<1>2. /\ frames # <<>> /\ l > 0 /\ Call.kind = "contents" /\ socket # <<>> /\ frames' = Inner
      /\ socket' = Tail(socket) /\ UNCHANGED <<plan, pipe, producer, copy>>
  BY DEF ReadContents, Awaits
<1>3. /\ N \in Nat /\ N >= 1 /\ Sent \in Nat /\ Sent >= 1 /\ Sent' = Sent - 1
      /\ f \in [1..N -> Message] /\ g \in [1..N - 1 -> Message]
      /\ f[1] = Head(socket) /\ \A j \in 1..N - 1 : g[j] = f[j + 1]
      /\ socket' \in Seq(Message)
  BY <1>1, <1>2, TakesOne
<1>4. /\ p \in Kept /\ IsFile(p) /\ Files[p] \in Nat
      /\ p \in DOMAIN disk /\ l \in 1..Files[p]
      /\ Head(socket) = Content(p, Files[p] - l + 1)
      /\ DOMAIN disk' = DOMAIN disk
      /\ \A q \in DOMAIN disk : q # p => disk'[q] = disk[q]
      /\ disk'[p] = Begun(p, Files[p] - l + 1)
  BY ContentsAhead
<1>5. f[1].kind = "content" /\ f[1].path = p /\ f[1].left = Files[p] - l + 1
  BY <1>3, <1>4 DEF Content
<1>6. /\ L \in Nat /\ L >= 1 /\ Call = frames[L]
      /\ Inner \in Seq(Frame) /\ Len(Inner) = L
      /\ \A i \in 1..L - 1 : Inner[i] = frames[i]
      /\ Inner[L] = [frames[L] EXCEPT !.left = @ - 1]
      /\ Inner[L].path = p /\ Inner[L].kind = "contents" /\ Inner[L].left = l - 1
  BY <1>1, <1>2, CallIs, InnerIs
<1> HIDE DEF p, l, N, f, g
<1>7. ContentsRead(N, f, Sent, frames, g, frames')
  BY <1>1, <1>2, <1>3, <1>5, <1>6 DEF ContentsRead
<1>8. /\ Agree(g, Sent - 1, frames')
      /\ \A dom : Covered(f, dom) => Covered(g, dom)
  BY <1>7, ReadsContents
<1>9. Covered(g, DOMAIN disk')
  BY <1>4, <1>8 DEF Progress, f
<1>10. frames' # <<>> /\ Last(frames') = Inner[L]
  BY <1>2, <1>6 DEF Last
<1>11. Top(g, frames', disk')
  <2> SUFFICES ASSUME NEW q, Reads(frames', q)
               PROVE  /\ q \in Kept /\ IsFile(q) /\ Last(frames').left \in 0..Files[q]
                      /\ q \in DOMAIN disk'
                      /\ disk'[q] = Begun(q, Files[q] - Last(frames').left)
                      /\ Last(frames').left > 0 =>
                           /\ 1 \in DOMAIN g
                           /\ g[1] = Content(q, Files[q] - Last(frames').left + 1)
    BY DEF Top
  <2>1. q = p /\ Last(frames').left = l - 1
    BY <1>6, <1>10 DEF Reads
  <2>2. l - 1 \in 0..Files[p] /\ Files[p] - (l - 1) = Files[p] - l + 1
    BY <1>4
  <2>3. l - 1 > 0 => 1 \in DOMAIN g /\ g[1] = Content(p, Files[p] - (l - 1) + 1)
    <3> SUFFICES ASSUME l - 1 > 0 PROVE 1 \in DOMAIN g /\ g[1] = Content(p, Files[p] - (l - 1) + 1)
      OBVIOUS
    <3>1. f[1].left < Files[p] /\ 1 <= Sent /\ 1 \in DOMAIN f /\ 1 + 1 = 2 /\ DOMAIN f = 1..N
      BY <1>3, <1>4, <1>5
    <3>2. 2 \in DOMAIN f /\ f[2] = Content(p, f[1].left + 1)
      BY <3>1, <1>1, <1>5 DEF Unbroken
    <3>3. 1 \in 1..N - 1
      BY <3>1, <3>2, <1>3
    <3>4. g[1] = f[2] /\ 1 \in DOMAIN g
      BY <3>1, <3>3, <1>3
    <3>5. f[1].left + 1 = Files[p] - (l - 1) + 1
      BY <2>2, <1>5
    <3> QED
      BY <3>2, <3>4, <3>5
  <2> QED
    BY <2>1, <2>2, <2>3, <1>4
<1>12. ASSUME NEW q \in DOMAIN disk' PROVE disk'[q] = Whole(q) \/ Reads(frames', q) \/ Cut'
  <2>1. CASE q = p
    BY <2>1, <1>6, <1>10 DEF Reads
  <2>2. CASE q # p
    <3>1. ~Reads(frames, q)
      BY <2>2 DEF Reads, Call, p
    <3>2. Cut' = Cut
      BY <1>2 DEF Cut
    <3> QED
      BY <2>2, <3>1, <3>2, <1>4 DEF Progress
  <2> QED
    BY <2>1, <2>2
<1>13. Types'
  BY <1>1, <1>2, <1>3, <1>6 DEF Types
<1> QED
  BY <1>3, <1>8, <1>9, <1>11, <1>12, <1>13 DEF Progress, g, Whole

(* The innermost call returns.                                              *)
LEMMA PopStep ==
  ASSUME Progress, frames # <<>>, Call.left = 0 \/ Call.kind = "contents", frames' = Front(frames),
         UNCHANGED <<plan, pipe, socket, producer, copy, disk>>,
         \A p \in DOMAIN disk : Reads(frames, p) => disk[p] = Whole(p) \/ Cut
  PROVE  Progress'
<1> DEFINE L == Len(frames)
           r == Front(frames)
           N == Sent + Len(plan)
           f == InFlight
<1>1. /\ frames \in Seq(Frame) /\ Types /\ Agree(f, Sent, frames) /\ Calls(f, frames)
      /\ f \in [1..N -> Message] /\ Sent \in Nat /\ N \in Nat
  BY ProgressFlow
<1>2. /\ L \in Nat /\ L >= 1 /\ Call = frames[L] /\ r \in Seq(Frame) /\ Len(r) = L - 1
      /\ \A i \in 1..L - 1 : r[i] = frames[i]
  BY <1>1, CallIs
<1>3. InFlight' = f /\ Sent' = Sent
  BY DEF InFlight, Sent
<1> HIDE DEF f, N, r
<1>4. Returned(N, f, Sent, frames, r)
  BY <1>1, <1>2 DEF Returned
<1>5. Agree(f, Sent, r)
  BY <1>4, Returns
<1>6. frames' = r
  BY DEF r
<1>7. \A p : ~Reads(r, p)
  <2> SUFFICES ASSUME r # <<>>, Last(r).kind = "contents" PROVE FALSE
    BY DEF Reads
  <2>1. Len(r) \in 1..L - 1 /\ Last(r) = r[Len(r)]
    BY <1>2, FrameType DEF Last
  <2>2. Len(r) \in DOMAIN frames /\ frames[Len(r)].kind = "contents" /\ Len(r) # L
    BY <2>1, <1>1, <1>2, FrameType
  <2> QED
    BY <2>2, <1>1 DEF Calls
<1>8. Top(f, r, disk)
  BY <1>7 DEF Top
<1>9. Cut' = Cut
  BY DEF Cut
<1>10. Types'
  BY <1>1, <1>2, <1>6 DEF Types
<1> QED
  BY <1>3, <1>5, <1>6, <1>8, <1>9, <1>10 DEF Progress, f, Whole

LEMMA ReturnStep ==
  ASSUME Progress, Return
  PROVE  Progress'
<1>1. UNCHANGED <<plan, pipe, socket, producer, copy, disk>>
  BY DEF Return
<1>2. CASE frames # <<>> /\ Call.left = 0 /\ frames' = Front(frames)
  <2>1. ASSUME NEW p \in DOMAIN disk, Reads(frames, p) PROVE disk[p] = Whole(p)
    <3>1. Last(frames).left = 0
      BY <1>2 DEF Call
    <3>2. IsFile(p) /\ disk[p] = Begun(p, Files[p] - 0)
      BY <2>1, <3>1 DEF Progress, Top
    <3>3. Files[p] - 0 = Files[p]
      BY <3>2, FilesAre
    <3> QED
      BY <3>2, <3>3 DEF Begun, Whole
  <2> QED
    BY <2>1, <1>1, <1>2, PopStep
<1>3. CASE frames = <<>> /\ frames' = frames
  BY <1>1, <1>3 DEF Progress, Types, InFlight, Sent, Cut, Whole, Reads, Top
<1> QED
  BY <1>2, <1>3 DEF Return

LEMMA ClientGoneStep ==
  ASSUME Control, Progress, ClientGone, importer' # "failed"
  PROVE  Progress'
<1>1. /\ importer = "reading" /\ frames # <<>> /\ Call.left > 0 /\ socket = <<>> /\ copy # "copying"
      /\ Call.kind = "contents" /\ frames' = Front(frames)
      /\ UNCHANGED <<plan, pipe, socket, producer, copy, disk>>
  BY DEF ClientGone, Awaits
<1>2. pipe = <<>>
  BY <1>1 DEF Control
<1>3. ASSUME NEW p \in DOMAIN disk, Reads(frames, p) PROVE Cut
  <2>1. 1 \in DOMAIN InFlight
    BY <1>1, <1>3 DEF Progress, Top, Call
  <2>2. Len(socket) = 0 /\ Len(pipe) = 0
    BY <1>1, <1>2
  <2>3. plan # <<>>
    <3> SUFFICES ASSUME plan = <<>> PROVE FALSE
      OBVIOUS
    <3>1. Len(socket) + Len(pipe) + Len(plan) = 0
      BY <2>2
    <3> QED
      BY <2>1, <3>1 DEF InFlight, Flow
  <2> QED
    BY <2>3, <1>1 DEF Control, Cut
<1> QED
  BY <1>1, <1>3, PopStep

(* The producer ends, and the client.                                       *)
LEMMA EndsStep ==
  ASSUME Progress, ProducerEnds \/ Commit \/ CopyFails
  PROVE  Progress'
<1>1. UNCHANGED <<plan, pipe, socket, frames, disk>> /\ copy = "copying"
  BY DEF ProducerEnds, Polled, Commit, CopyFails
<1>2. Cut => Cut'
  BY <1>1 DEF Cut
<1>3. InFlight' = InFlight /\ Sent' = Sent /\ Types'
  BY <1>1, ProgressFlow DEF InFlight, Sent, Types
<1>4. Agree(InFlight, Sent, frames) /\ Top(InFlight, frames, disk)
  BY DEF Progress
<1> QED
  BY <1>1, <1>2, <1>3, <1>4, SameEnd

-----------------------------------------------------------------------------
LEMMA BeginningsStep ==
  ASSUME FileInvariant, FileNext, ~changed, Plain
  PROVE  Beginnings'
<1>1. Beginnings
  BY DEF FileInvariant
<1>2. CASE disk' = disk
  BY <1>1, <1>2 DEF Beginnings
<1>3. CASE ReadHeader /\ Head(socket).kind = "file"
  <2> DEFINE h == Head(socket)
  <2>1. importer # "failed" /\ socket # <<>> /\ disk' = Emptied(Placed(h))
    BY <1>3 DEF ReadHeader, Awaits
  <2>2. Progress
    BY <2>1 DEF FileInvariant
  <2>3. /\ InFlight \in [1..Sent + Len(plan) -> Message] /\ Sent + Len(plan) >= 1
        /\ InFlight[1] = h /\ Unbroken(InFlight, Sent)
    BY <1>3, <2>2, ProgressFlow, TakesOne DEF ReadHeader
  <2> HIDE DEF h
  <2>4. h.path \in Kept /\ IsFile(h.path) /\ Files[h.path] \in Nat
    <3>1. 1 \in DOMAIN InFlight /\ h \in Message
      BY <2>2, <2>3, ProgressFlow
    <3>2. IsFile(h.path)
      BY <1>3, <2>3, <3>1 DEF Unbroken, h
    <3> QED
      BY <3>1, <3>2, FilesAre DEF Message
  <2>5. Begun(h.path, 0) = <<>> /\ 0 \in 0..Files[h.path]
    BY <2>4, BegunNext
  <2>p. Placed(h) = h.path
    <3>1. 1 \in Named(InFlight) /\ h \in Message
      <4>1. 1 \in DOMAIN InFlight /\ InFlight[1] \in Message
        BY <2>2, <2>3, ProgressFlow
      <4>2. h.kind # "content"
        BY <1>3 DEF h
      <4> QED
        BY <4>1, <4>2, <2>3 DEF Named
    <3>2. frames # <<>> /\ Call.kind = "entry" /\ Call.left > 0
      BY <1>3 DEF ReadHeader, Awaits
    <3> QED
      BY <3>1, <3>2, <2>2, <2>3, PlacedThere
  <2>6. h.path \in DOMAIN Files \ Ignored
    BY <2>4 DEF Kept, IsFile
  <2> QED
    BY <1>1, <2>1, <2>p, <2>5, <2>6 DEF Beginnings, Emptied
<1>4. CASE ReadContents
  <2> DEFINE p == Call.path
             n == Files[p] - Call.left + 1
  <2>1. Progress
    BY <1>4 DEF FileInvariant, ReadContents, Awaits
  <2>2. /\ p \in Kept /\ IsFile(p) /\ Files[p] \in Nat /\ Call.left \in 1..Files[p]
        /\ DOMAIN disk' = DOMAIN disk
        /\ \A q \in DOMAIN disk : q # p => disk'[q] = disk[q]
        /\ disk'[p] = Begun(p, n)
    BY <1>4, <2>1, ContentsAhead
  <2>3. n \in 0..Files[p]
    BY <2>2
  <2> HIDE DEF p, n
  <2> QED
    BY <1>1, <2>2, <2>3 DEF Beginnings
<1>5. disk' = disk \/ (ReadHeader /\ Head(socket).kind = "file") \/ ReadContents
  BY DEF FileNext, Read, Import, Produce, ProducerEnds, Send, Commit, CopyFails, ReadHeader,
         Return, ClientGone, ImportFails, HostChanges
<1> QED
  BY <1>2, <1>3, <1>4, <1>5

LEMMA FileStep ==
  ASSUME FileInvariant, FileNext
  PROVE  FileInvariant'
<1>1. Control'
  BY ControlStep DEF FileInvariant
<1>2. ASSUME ~changed' PROVE ~changed /\ ~HostChanges
  <2>1. ~HostChanges
    BY <1>2 DEF HostChanges
  <2>2. Read \/ Import => changed' = changed
    BY DEF Read, Import, Produce, ProducerEnds, Send, Commit, CopyFails, ReadHeader,
           ReadContents, Return, ClientGone, ImportFails
  <2> QED
    BY <1>2, <2>1, <2>2 DEF FileNext
<1>p. Plain' => Plain
  BY DEF Plain, FileNext, Read, Import, Produce, ProducerEnds, Send, Commit, CopyFails, ReadHeader,
         ReadContents, Return, ClientGone, ImportFails, HostChanges
<1>3. ~changed' /\ Plain' => Beginnings'
  BY <1>2, <1>p, BeginningsStep
<1>4. ASSUME ~changed', Plain', importer' # "failed" PROVE Progress'
  <2>1. ~changed /\ ~HostChanges /\ Plain
    BY <1>2, <1>4, <1>p
  <2>2. importer # "failed"
    BY <1>4 DEF FileNext, Read, Import, Produce, ProducerEnds, Send, Commit, CopyFails, ReadHeader,
                ReadContents, Return, ClientGone, ImportFails, HostChanges, Awaits
  <2>3. Control /\ Progress
    BY <2>1, <2>2 DEF FileInvariant
  <2>4. CASE Produce
    BY <2>1, <2>2, <2>4, ProduceStep
  <2>5. CASE ProducerEnds \/ Commit \/ CopyFails
    BY <2>3, <2>5, EndsStep
  <2>6. CASE Send
    BY <2>3, <2>6, SendStep
  <2>7. CASE ReadHeader
    BY <2>3, <2>7, <1>4, ReadHeaderStep
  <2>8. CASE ReadContents
    BY <2>3, <2>8, ReadContentsStep
  <2>9. CASE Return
    BY <2>3, <2>9, ReturnStep
  <2>10. CASE ClientGone
    BY <2>3, <2>10, <1>4, ClientGoneStep
  <2>11. CASE ImportFails
    BY <2>11, <1>4 DEF ImportFails
  <2> QED
    BY <2>1, <2>4, <2>5, <2>6, <2>7, <2>8, <2>9, <2>10, <2>11 DEF FileNext, Read, Import
<1> QED
  BY <1>1, <1>3, <1>4 DEF FileInvariant

LEMMA FileStutters ==
  ASSUME FileInvariant, UNCHANGED fileVars
  PROVE  FileInvariant'
BY DEF FileInvariant, fileVars, Plain, Control, ErrorsSurface, Beginnings, Progress, Types, InFlight, Sent,
       Cut, Whole, Reads, Top

(* The inductive invariant: what is written of the source agrees with what  *)
(* the calls of the sidecar expect.                                         *)
THEOREM Invariant == FileSpec => []FileInvariant
<1>1. FileInit => FileInvariant
  BY InitProgress
<1>2. FileInvariant /\ [FileNext]_fileVars => FileInvariant'
  BY FileStep, FileStutters
<1> QED
  BY <1>1, <1>2, PTL DEF FileSpec

(* Once every call returned nothing is on its way.                          *)
LEMMA NothingLeft ==
  ASSUME NEW N \in Nat, NEW f \in [1..N -> Message], NEW n, Agree(f, n, <<>>)
  PROVE  Named(f) = {}
<1> SUFFICES ASSUME Named(f) # {} PROVE FALSE
  OBVIOUS
<1>1. Named(f) \in SUBSET Nat /\ Named(f) \subseteq 1..N
  BY DEF Named
<1>2. PICK j \in Named(f) : \A m \in Named(f) : j <= m
  BY <1>1, Least
<1>3. f[j].path # <<>>
  BY DEF Agree, Calls, Paths
<1>4. Opened(f, Front(f[j].path), 1, j)
  <2>1. Below(<<>>) = {}
    BY DEF Below
  <2> QED
    BY <2>1, <1>3 DEF Agree, Reached
<1>5. PICK i \in DOMAIN f : i < j /\ f[i].kind = "folder"
  BY <1>4 DEF Opened
<1>6. i \in Named(f)
  BY <1>5 DEF Named
<1> QED
  BY <1>1, <1>2, <1>5, <1>6

(* Whatever fails on the way of an unchanged source without visible sockets, *)
(* pipes and devices, the files of the new snapshot are beginnings of the   *)
(* source's files, and an import that ended of a stream that was not cut    *)
(* has them all, whole.                                                     *)
THEOREM CopiedIsSourceHolds == FileSpec => [](Plain => CopiedIsSource)
<1>1. FileInvariant => (Plain => CopiedIsSource)
  <2> SUFFICES ASSUME FileInvariant, Plain, ~changed PROVE CopiedIsSource
    BY DEF CopiedIsSource
  <2>1. Beginnings
    BY DEF FileInvariant
  <2>2. ASSUME NEW p \in DOMAIN disk PROVE IsPrefix(disk[p], Whole(p))
    <3>1. PICK n \in 0..Files[p] : disk[p] = Begun(p, n)
      BY <2>1 DEF Beginnings
    <3>2. p \in Kept /\ Files[p] \in Nat
      BY <2>1, FilesAre DEF Beginnings, IsFile, Kept
    <3>3. IsPrefix(Begun(p, n), Begun(p, Files[p]))
      BY <3>2, BegunPrefix
    <3> QED
      BY <3>1, <3>3 DEF Begun, Whole
  <2>3. ASSUME importer = "done", producer = "done"
        PROVE  DOMAIN disk = DOMAIN Files \ Ignored /\ \A p \in DOMAIN disk : disk[p] = Whole(p)
    <3>1. Progress /\ frames = <<>> /\ ~Cut
      BY <2>3 DEF FileInvariant, Control, Cut
    <3>2. /\ InFlight \in [1..Sent + Len(plan) -> Message] /\ Sent + Len(plan) \in Nat
          /\ Agree(InFlight, Sent, <<>>)
      BY <3>1, ProgressFlow
    <3>3. Named(InFlight) = {}
      BY <3>2, NothingLeft
    <3>4. /\ Paths(InFlight) = {}
          /\ \A j \in DOMAIN InFlight : InFlight[j].kind # "todo"
      BY <3>3 DEF Paths, Named
    <3>5. DOMAIN Files \ Ignored \subseteq DOMAIN disk
      BY <3>1, <3>4 DEF Progress, Covered
    <3>6. DOMAIN disk \subseteq DOMAIN Files \ Ignored
      BY <2>1 DEF Beginnings
    <3>7. \A p \in DOMAIN disk : disk[p] = Whole(p)
      BY <3>1 DEF Progress, Reads
    <3> QED
      BY <3>5, <3>6, <3>7
  <2> QED
    BY <2>2, <2>3 DEF CopiedIsSource
<1> QED
  BY <1>1, Invariant, PTL

(* A host directory that could not be read to its end is never committed.    *)
THEOREM ErrorsSurfaceHolds == FileSpec => []ErrorsSurface
<1>1. FileInvariant => ErrorsSurface
  BY DEF FileInvariant, Control
<1> QED
  BY <1>1, Invariant, PTL
=============================================================================
