--------------------------- MODULE SidecarProofs ---------------------------
(***************************************************************************)
(* Proofs about the sidecar: about the trees of Topology, for every tree,  *)
(* about the networks of SidecarNetworks, for every set of requests and    *)
(* the topologies they ask for, and about the layers of LayerExport, for   *)
(* every set of paths, every tree on them and every upper directory        *)
(* overlayfs may leave.                                                    *)
(***************************************************************************)
EXTENDS SidecarNetworks, LayerExport, SequenceTheorems, FiniteSetTheorems,
        FunctionTheorems, WellFoundedInduction, TLAPS

-----------------------------------------------------------------------------
(* The naturals are well-ordered: what fails somewhere fails somewhere      *)
(* first.                                                                   *)
LessThan == {pair \in Nat \X Nat : pair[1] < pair[2]}

LEMMA LessWellFounded == IsWellFoundedOn(LessThan, Nat)
BY NatLessThanWellFounded DEF OpToRel, LessThan

LEMMA Least ==
  ASSUME NEW T \in SUBSET Nat, T # {}
  PROVE  \E n \in T : \A m \in T : n <= m
<1>1. PICK n \in T : \A m \in T : <<m, n>> \notin LessThan
  BY LessWellFounded, WFMin
<1>2. \A m \in T : ~(m < n)
  BY <1>1 DEF LessThan
<1> QED
  BY <1>2

-----------------------------------------------------------------------------
(* The order in which a tree is walked is a total order of places.          *)
AnyPlace == Seq(Nat)

LEMMA BeforeTotal ==
  ASSUME NEW p \in AnyPlace, NEW q \in AnyPlace
  PROVE  Before(p, q) \/ Before(q, p)
<1> DEFINE Common(n) == n <= Len(p) /\ n <= Len(q) /\ \A i \in 1..n : p[i] = q[i]
           Parted == {n \in Nat : ~Common(n)}
<1>1. Len(p) \in Nat /\ Len(q) \in Nat
  BY DEF AnyPlace
<1>2. Len(p) + 1 \in Parted
  BY <1>1
<1>3. PICK m \in Parted : \A n \in Parted : m <= n
  <2> HIDE DEF Parted
  <2> QED
    BY <1>2, Least DEF Parted
<1>4. m # 0 /\ m \in Nat /\ m - 1 \in Nat
  BY <1>1, <1>3
<1>5. Common(m - 1)
  <2>1. m - 1 \notin Parted
    BY <1>3, <1>4
  <2> QED
    BY <2>1, <1>4
<1>6. ~Common(m)
  BY <1>3
<1>7. CASE m - 1 = Len(p)
  BY <1>1, <1>4, <1>5, <1>7 DEF Before
<1>8. CASE m - 1 = Len(q)
  BY <1>1, <1>4, <1>5, <1>8 DEF Before
<1>9. CASE m - 1 # Len(p) /\ m - 1 # Len(q)
  <2>1. m - 1 < Len(p) /\ m - 1 < Len(q)
    BY <1>1, <1>4, <1>5, <1>9
  <2>2. p[m] # q[m]
    BY <1>1, <1>4, <1>5, <1>6, <2>1
  <2>3. p[m] \in Nat /\ q[m] \in Nat
    BY <1>1, <1>4, <2>1 DEF AnyPlace
  <2>4. (m - 1) + 1 = m
    BY <1>4
  <2>5. CASE p[m] < q[m]
    BY <1>1, <1>4, <1>5, <2>1, <2>4, <2>5 DEF Before
  <2>6. CASE q[m] < p[m]
    BY <1>1, <1>4, <1>5, <2>1, <2>4, <2>6 DEF Before
  <2> QED
    BY <2>2, <2>3, <2>5, <2>6
<1> QED
  BY <1>7, <1>8, <1>9

LEMMA BeforeAntisymmetric ==
  ASSUME NEW p \in AnyPlace, NEW q \in AnyPlace, Before(p, q), Before(q, p)
  PROVE  p = q
<1>1. Len(p) \in Nat /\ Len(q) \in Nat /\ (\A i \in 1..Len(p) : p[i] \in Nat)
  BY DEF AnyPlace
<1>2. PICK n \in 0..Len(p) : /\ n <= Len(q) /\ \A i \in 1..n : p[i] = q[i]
                             /\ n = Len(p) \/ (n < Len(q) /\ p[n + 1] < q[n + 1])
  BY DEF Before
<1>3. PICK m \in 0..Len(q) : /\ m <= Len(p) /\ \A i \in 1..m : q[i] = p[i]
                             /\ m = Len(q) \/ (m < Len(p) /\ q[m + 1] < p[m + 1])
  BY DEF Before
<1>4. n = Len(p)
  <2> SUFFICES ASSUME n < Len(p), n < Len(q), p[n + 1] < q[n + 1] PROVE FALSE
    BY <1>1, <1>2
  <2>1. m <= n
    BY <1>1, <1>2, <1>3
  <2>2. m < Len(q) /\ m + 1 \in 1..Len(p) /\ q[m + 1] < p[m + 1]
    BY <1>1, <1>2, <1>3, <2>1
  <2>3. CASE m = n
    BY <1>1, <1>2, <2>2, <2>3 DEF AnyPlace
  <2>4. CASE m < n
    BY <1>1, <1>2, <2>2, <2>4
  <2> QED
    BY <2>1, <2>3, <2>4, <1>1
<1>5. m = Len(q)
  BY <1>1, <1>2, <1>3, <1>4
<1> QED
  BY <1>1, <1>2, <1>3, <1>4, <1>5, SeqEqual DEF AnyPlace

LEMMA BeforeTransitive ==
  ASSUME NEW p \in AnyPlace, NEW q \in AnyPlace, NEW r \in AnyPlace, Before(p, q), Before(q, r)
  PROVE  Before(p, r)
<1>1. /\ Len(p) \in Nat /\ Len(q) \in Nat /\ Len(r) \in Nat
      /\ \A i \in 1..Len(p) : p[i] \in Nat
      /\ \A i \in 1..Len(q) : q[i] \in Nat
      /\ \A i \in 1..Len(r) : r[i] \in Nat
  BY DEF AnyPlace
<1>2. PICK n \in 0..Len(p) : /\ n <= Len(q) /\ \A i \in 1..n : p[i] = q[i]
                             /\ n = Len(p) \/ (n < Len(q) /\ p[n + 1] < q[n + 1])
  BY DEF Before
<1>3. PICK m \in 0..Len(q) : /\ m <= Len(r) /\ \A i \in 1..m : q[i] = r[i]
                             /\ m = Len(q) \/ (m < Len(r) /\ q[m + 1] < r[m + 1])
  BY DEF Before
<1>4. CASE n <= m
  <2>1. n <= Len(r) /\ \A i \in 1..n : p[i] = r[i]
    BY <1>1, <1>2, <1>3, <1>4
  <2>2. n = Len(p) \/ (n < Len(r) /\ p[n + 1] < r[n + 1])
    <3> SUFFICES ASSUME n # Len(p) PROVE n < Len(r) /\ p[n + 1] < r[n + 1]
      OBVIOUS
    <3>1. n < Len(q) /\ p[n + 1] < q[n + 1] /\ n + 1 \in 1..Len(p) /\ n + 1 \in 1..Len(q)
      BY <1>1, <1>2
    <3>2. CASE n = m
      BY <1>1, <1>3, <3>1, <3>2
    <3>3. CASE n < m
      BY <1>1, <1>3, <3>1, <3>3
    <3> QED
      BY <1>1, <1>4, <3>2, <3>3
  <2> QED
    BY <2>1, <2>2 DEF Before
<1>5. CASE m < n
  <2>1. m < Len(r) /\ q[m + 1] < r[m + 1] /\ p[m + 1] = q[m + 1] /\ m \in 0..Len(p)
    BY <1>1, <1>2, <1>3, <1>5
  <2>2. \A i \in 1..m : p[i] = r[i]
    BY <1>1, <1>2, <1>3, <1>5
  <2> QED
    BY <1>1, <1>3, <2>1, <2>2 DEF Before
<1> QED
  BY <1>1, <1>4, <1>5

LEMMA FirstExists ==
  ASSUME NEW D, IsFiniteSet(D), D # {}, D \subseteq AnyPlace
  PROVE  \E p \in D : \A q \in D : Before(p, q)
<1> DEFINE Down(p) == {q \in D : Before(q, p)}
           Sizes == {Cardinality(Down(p)) : p \in D}
<1>1. \A p \in D : IsFiniteSet(Down(p)) /\ Cardinality(Down(p)) \in Nat
  <2> TAKE p \in D
  <2>1. Down(p) \in SUBSET D
    OBVIOUS
  <2> QED
    BY <2>1, FS_Subset, FS_CardinalityType
<1>2. Sizes \in SUBSET Nat /\ Sizes # {}
  BY <1>1
<1>3. PICK n \in Sizes : \A m \in Sizes : n <= m
  BY <1>2, Least
<1>4. PICK p \in D : n = Cardinality(Down(p))
  OBVIOUS
<1>5. ASSUME NEW q \in D, ~Before(p, q) PROVE FALSE
  <2>1. Before(q, p) /\ Before(p, p)
    BY <1>5, BeforeTotal
  <2>2. Down(q) \subseteq Down(p) \ {p}
    BY <1>5, <2>1, BeforeTransitive
  <2>3. /\ IsFiniteSet(Down(p) \ {p})
        /\ Cardinality(Down(p) \ {p}) = Cardinality(Down(p)) - 1
    BY <1>1, <2>1, FS_RemoveElement
  <2>4. Cardinality(Down(q)) <= Cardinality(Down(p) \ {p})
    BY <2>2, <2>3, FS_Subset
  <2>5. n <= Cardinality(Down(q))
    BY <1>3
  <2> DEFINE a == Cardinality(Down(p))
             b == Cardinality(Down(q))
  <2>6. a \in Nat /\ b \in Nat /\ b <= a - 1 /\ a <= b
    BY <1>1, <1>4, <2>3, <2>4, <2>5
  <2> HIDE DEF a, b
  <2> QED
    BY <2>6
<1> QED
  BY <1>5

-----------------------------------------------------------------------------
(* The shapes of trees are totally ordered.                                 *)
IsTree(t) == /\ IsFiniteSet(DOMAIN t) /\ DOMAIN t \subseteq AnyPlace /\ <<>> \in DOMAIN t
             /\ t = [p \in DOMAIN t |-> t[p]]

Less(s, t) ==
    \E p \in DOMAIN t \ DOMAIN s : \A q \in Differ(s, t) : Before(p, q)

LEMMA CmpIs ==
  ASSUME NEW s, NEW t, IsTree(s), IsTree(t)
  PROVE  /\ Cmp(s, t) = "equal" <=> DOMAIN s = DOMAIN t
         /\ Cmp(s, t) = "less" <=> Less(s, t)
         /\ Cmp(s, t) = "greater" <=> Less(t, s)
         /\ Cmp(s, t) \in {"equal", "less", "greater"}
<1>1. CASE DOMAIN s = DOMAIN t
  BY <1>1 DEF Cmp, Less
<1>2. CASE DOMAIN s # DOMAIN t
  <2> DEFINE First(p) == p \in Differ(s, t) /\ \A q \in Differ(s, t) : Before(p, q)
             parting == CHOOSE p \in Differ(s, t) : \A q \in Differ(s, t) : Before(p, q)
  <2>1. Differ(s, t) # {} /\ Differ(s, t) \subseteq AnyPlace /\ Differ(t, s) = Differ(s, t)
    BY <1>2 DEF Differ, IsTree
  <2>2. IsFiniteSet(Differ(s, t))
    <3>1. DOMAIN s \ DOMAIN t \in SUBSET DOMAIN s /\ DOMAIN t \ DOMAIN s \in SUBSET DOMAIN t
      OBVIOUS
    <3> QED
      BY <3>1, FS_Subset, FS_Union DEF Differ, IsTree
  <2>3. \E p \in Differ(s, t) : \A q \in Differ(s, t) : Before(p, q)
    BY <2>1, <2>2, FirstExists
  <2>4. First(parting)
    BY <2>3
  <2>5. \A p : First(p) => p = parting
    BY <2>1, <2>4, BeforeAntisymmetric
  <2>6. Cmp(s, t) = IF parting \in DOMAIN s THEN "greater" ELSE "less"
    BY <1>2 DEF Cmp
  <2> HIDE DEF parting
  <2>7. Less(s, t) <=> parting \in DOMAIN t \ DOMAIN s
    BY <2>4, <2>5 DEF Less, Differ
  <2>8. Less(t, s) <=> parting \in DOMAIN s \ DOMAIN t
    BY <2>1, <2>4, <2>5 DEF Less, Differ
  <2> QED
    BY <1>2, <2>4, <2>6, <2>7, <2>8 DEF Differ
<1> QED
  BY <1>1, <1>2

LEMMA LessTransitive ==
  ASSUME NEW s, NEW t, NEW u, IsTree(s), IsTree(t), IsTree(u), Less(s, t), Less(t, u)
  PROVE  Less(s, u)
<1>1. PICK p \in DOMAIN t \ DOMAIN s : \A x \in Differ(s, t) : Before(p, x)
  BY DEF Less
<1>2. PICK q \in DOMAIN u \ DOMAIN t : \A x \in Differ(t, u) : Before(q, x)
  BY DEF Less
<1>3. p \in AnyPlace /\ q \in AnyPlace /\ p # q
  BY DEF IsTree
<1>4. Differ(s, u) \subseteq Differ(s, t) \cup Differ(t, u) /\ Differ(s, u) \subseteq AnyPlace
  BY DEF Differ, IsTree
<1>5. CASE Before(p, q)
  <2>1. p \in DOMAIN u
    BY <1>2, <1>3, <1>5, BeforeAntisymmetric DEF Differ
  <2>2. \A x \in Differ(s, u) : Before(p, x)
    BY <1>1, <1>2, <1>3, <1>4, <1>5, BeforeTransitive
  <2> QED
    BY <2>1, <2>2 DEF Less
<1>6. CASE Before(q, p)
  <2>1. q \notin DOMAIN s
    BY <1>1, <1>3, <1>6, BeforeAntisymmetric DEF Differ
  <2>2. \A x \in Differ(s, u) : Before(q, x)
    BY <1>1, <1>2, <1>3, <1>4, <1>6, BeforeTransitive
  <2> QED
    BY <2>1, <2>2 DEF Less
<1> QED
  BY <1>3, <1>5, <1>6, BeforeTotal

(* Of two shapes that differ exactly one is less.                           *)
LEMMA LessTotal ==
  ASSUME NEW s, NEW t, IsTree(s), IsTree(t)
  PROVE  /\ DOMAIN s = DOMAIN t \/ Less(s, t) \/ Less(t, s)
         /\ ~(Less(s, t) /\ Less(t, s)) /\ (DOMAIN s = DOMAIN t => ~Less(s, t))
BY CmpIs

-----------------------------------------------------------------------------
(* Sorting.                                                                 *)
TreeList(cs, n) == /\ n \in Nat /\ cs = [i \in 1..n |-> cs[i]]
                /\ \A i \in 1..n : IsTree(cs[i])

Ahead(cs, i, j) == Less(cs[i], cs[j]) \/ (DOMAIN cs[i] = DOMAIN cs[j] /\ i <= j)

LEMMA AheadIs ==
  ASSUME NEW n, NEW cs, TreeList(cs, n), NEW i \in 1..n
  PROVE  /\ Rank(cs, i) = Cardinality({j \in 1..n : Ahead(cs, j, i)})
         /\ Ahead(cs, i, i)
<1>1. DOMAIN cs = 1..n
  BY DEF TreeList
<1>2. \A j \in 1..n : Precedes(cs[j], cs[i], j <= i) <=> Ahead(cs, j, i)
  BY CmpIs DEF TreeList, Precedes, Ahead
<1>3. {j \in DOMAIN cs : Precedes(cs[j], cs[i], j <= i)} = {j \in 1..n : Ahead(cs, j, i)}
  BY <1>1, <1>2
<1>4. Ahead(cs, i, i)
  BY DEF Ahead, TreeList
<1> QED
  BY <1>3, <1>4 DEF Rank

LEMMA AheadOrder ==
  ASSUME NEW n, NEW cs, TreeList(cs, n), NEW i \in 1..n, NEW j \in 1..n
  PROVE  /\ Ahead(cs, i, j) \/ Ahead(cs, j, i)
         /\ Ahead(cs, i, j) /\ Ahead(cs, j, i) => i = j
         /\ \A k \in 1..n : Ahead(cs, i, j) /\ Ahead(cs, j, k) => Ahead(cs, i, k)
<1>1. IsTree(cs[i]) /\ IsTree(cs[j]) /\ n \in Nat
  BY DEF TreeList
<1>2. /\ DOMAIN cs[i] = DOMAIN cs[j] \/ Less(cs[i], cs[j]) \/ Less(cs[j], cs[i])
      /\ ~(Less(cs[i], cs[j]) /\ Less(cs[j], cs[i]))
      /\ DOMAIN cs[i] = DOMAIN cs[j] => ~Less(cs[i], cs[j]) /\ ~Less(cs[j], cs[i])
  BY <1>1, LessTotal
<1>3. ASSUME NEW k \in 1..n, Ahead(cs, i, j), Ahead(cs, j, k) PROVE Ahead(cs, i, k)
  <2>1. IsTree(cs[k])
    BY DEF TreeList
  <2>2. CASE Less(cs[i], cs[j]) /\ Less(cs[j], cs[k])
    BY <1>1, <2>1, <2>2, LessTransitive DEF Ahead
  <2>3. CASE DOMAIN cs[i] = DOMAIN cs[j] /\ i <= j
    BY <1>1, <1>3, <2>3 DEF Ahead, Less, Differ
  <2>4. CASE DOMAIN cs[j] = DOMAIN cs[k] /\ j <= k
    BY <1>1, <1>3, <2>4 DEF Ahead, Less, Differ
  <2> QED
    BY <1>3, <2>2, <2>3, <2>4 DEF Ahead
<1> QED
  BY <1>1, <1>2, <1>3 DEF Ahead

LEMMA RankOrder ==
  ASSUME NEW n, NEW cs, TreeList(cs, n)
  PROVE  /\ \A i \in 1..n : Rank(cs, i) \in 1..n
         /\ \A i, j \in 1..n : i # j /\ Ahead(cs, i, j) => Rank(cs, i) < Rank(cs, j)
<1> DEFINE Upto(i) == {j \in 1..n : Ahead(cs, j, i)}
<1>1. IsFiniteSet(1..n) /\ Cardinality(1..n) = n /\ n \in Nat
  <2>1. n \in Nat
    BY DEF TreeList
  <2> QED
    BY <2>1, FS_Interval
<1>2. ASSUME NEW i \in 1..n
      PROVE  /\ IsFiniteSet(Upto(i)) /\ Cardinality(Upto(i)) \in 1..n
             /\ i \in Upto(i) /\ Rank(cs, i) = Cardinality(Upto(i))
  <2>1. Upto(i) \in SUBSET (1..n) /\ i \in Upto(i) /\ Rank(cs, i) = Cardinality(Upto(i))
    BY AheadIs
  <2>2. IsFiniteSet(Upto(i)) /\ Cardinality(Upto(i)) <= n /\ Cardinality(Upto(i)) \in Nat
    BY <1>1, <2>1, FS_Subset, FS_CardinalityType
  <2>3. Cardinality(Upto(i)) # 0
    BY <2>1, <2>2, FS_EmptySet
  <2> QED
    BY <1>1, <2>1, <2>2, <2>3
<1>3. ASSUME NEW i \in 1..n, NEW j \in 1..n, i # j, Ahead(cs, i, j)
      PROVE  Rank(cs, i) < Rank(cs, j)
  <2>1. Upto(i) \subseteq Upto(j) \ {j}
    BY <1>3, AheadOrder
  <2>2. IsFiniteSet(Upto(j) \ {j}) /\ Cardinality(Upto(j) \ {j}) = Cardinality(Upto(j)) - 1
    BY <1>2, FS_RemoveElement
  <2>3. Cardinality(Upto(i)) <= Cardinality(Upto(j) \ {j})
    BY <2>1, <2>2, FS_Subset
  <2> DEFINE a == Cardinality(Upto(i))
             b == Cardinality(Upto(j))
  <2>4. a \in 1..n /\ b \in 1..n /\ n \in Nat /\ a <= b - 1
    BY <1>1, <1>2, <2>2, <2>3
  <2>5. Rank(cs, i) = a /\ Rank(cs, j) = b
    BY <1>2
  <2> HIDE DEF a, b
  <2> QED
    BY <2>4, <2>5
<1> QED
  BY <1>2, <1>3

LEMMA RankOnto ==
  ASSUME NEW n, NEW cs, TreeList(cs, n), NEW k \in 1..n
  PROVE  /\ \E i \in 1..n : Rank(cs, i) = k
         /\ \A i, j \in 1..n : Rank(cs, i) = Rank(cs, j) => i = j
<1> DEFINE rank == [i \in 1..n |-> Rank(cs, i)]
<1>1. IsFiniteSet(1..n)
  <2>1. n \in Nat
    BY DEF TreeList
  <2> QED
    BY <2>1, FS_Interval
<1>2. \A i, j \in 1..n : Rank(cs, i) = Rank(cs, j) => i = j
  <2> SUFFICES ASSUME NEW i \in 1..n, NEW j \in 1..n, Rank(cs, i) = Rank(cs, j), i # j
               PROVE  FALSE
    OBVIOUS
  <2>1. Rank(cs, i) < Rank(cs, j) \/ Rank(cs, j) < Rank(cs, i)
    BY AheadOrder, RankOrder
  <2> QED
    BY <2>1, RankOrder DEF TreeList
<1>3. rank \in [1..n -> 1..n]
  BY RankOrder
<1>4. rank \in Injection(1..n, 1..n)
  BY <1>2, <1>3 DEF Injection, IsInjective
<1>5. rank \in Surjection(1..n, 1..n)
  BY <1>1, <1>4, FS_Injection
<1>6. \E i \in 1..n : rank[i] = k
  BY <1>5 DEF Surjection
<1> QED
  BY <1>2, <1>6

LEMMA SortedIs ==
  ASSUME NEW n, NEW cs, TreeList(cs, n)
  PROVE  /\ TreeList(Sorted(cs), n)
         /\ \A i \in 1..n : Sorted(cs)[Rank(cs, i)] = cs[i]
<1>1. DOMAIN cs = 1..n /\ \A i \in 1..n : IsTree(cs[i])
  BY DEF TreeList
<1>2. ASSUME NEW i \in 1..n PROVE Sorted(cs)[Rank(cs, i)] = cs[i]
  <2>1. Rank(cs, i) \in 1..n
    BY RankOrder
  <2>2. (CHOOSE j \in 1..n : Rank(cs, j) = Rank(cs, i)) = i
    BY <2>1, RankOnto
  <2> QED
    BY <1>1, <2>1, <2>2 DEF Sorted
<1>3. ASSUME NEW k \in 1..n PROVE IsTree(Sorted(cs)[k])
  <2>1. PICK i \in 1..n : Rank(cs, i) = k
    BY RankOnto
  <2> QED
    BY <1>1, <1>2, <2>1
<1>4. Sorted(cs) = [k \in 1..n |-> Sorted(cs)[k]]
  BY <1>1 DEF Sorted
<1> QED
  BY <1>2, <1>3, <1>4 DEF TreeList

Ascending(cs, n) == \A i, j \in 1..n : i < j => ~Less(cs[j], cs[i])

LEMMA SortedAscends ==
  ASSUME NEW n, NEW cs, TreeList(cs, n)
  PROVE  Ascending(Sorted(cs), n)
<1> SUFFICES ASSUME NEW k \in 1..n, NEW l \in 1..n, k < l, Less(Sorted(cs)[l], Sorted(cs)[k])
             PROVE  FALSE
  BY DEF Ascending
<1>1. PICK i \in 1..n : Rank(cs, i) = k
  BY RankOnto
<1>2. PICK j \in 1..n : Rank(cs, j) = l
  BY RankOnto
<1>3. Ahead(cs, j, i) /\ i # j
  BY <1>1, <1>2, SortedIs DEF Ahead, TreeList
<1>4. l < k
  BY <1>1, <1>2, <1>3, RankOrder
<1> QED
  BY <1>4 DEF TreeList

(* What is sorted stays as it is.                                           *)
LEMMA SortedStays ==
  ASSUME NEW n, NEW cs, TreeList(cs, n), Ascending(cs, n)
  PROVE  Sorted(cs) = cs
<1>1. ASSUME NEW i \in 1..n PROVE Rank(cs, i) = i
  <2>1. ASSUME NEW j \in 1..n PROVE Ahead(cs, j, i) <=> j <= i
    <3>1. IsTree(cs[i]) /\ IsTree(cs[j])
      BY DEF TreeList
    <3> QED
      BY <3>1, LessTotal DEF Ahead, Ascending, TreeList
  <2>2. {j \in 1..n : Ahead(cs, j, i)} = 1..i
    BY <2>1 DEF TreeList
  <2>3. Cardinality(1..i) = i
    BY FS_Interval DEF TreeList
  <2> QED
    BY <2>2, <2>3, AheadIs
<1>2. \A k \in 1..n : Sorted(cs)[k] = cs[k]
  BY <1>1, SortedIs
<1> QED
  BY <1>2, SortedIs DEF TreeList

(* However a list is permuted, sorting it gives the same shapes.            *)
LEMMA SortedPermuted ==
  ASSUME NEW n, NEW cs, TreeList(cs, n), NEW pi \in Bijection(1..n, 1..n), NEW k \in 1..n
  PROVE  LET ds == [i \in 1..n |-> cs[pi[i]]]
         IN  DOMAIN Sorted(cs)[k] = DOMAIN Sorted(ds)[k]
<1> DEFINE ds == [i \in 1..n |-> cs[pi[i]]]
<1>1. /\ \A i \in 1..n : pi[i] \in 1..n
      /\ \A i, j \in 1..n : pi[i] = pi[j] => i = j
      /\ \A j \in 1..n : \E i \in 1..n : pi[i] = j
  BY DEF Bijection, Injection, Surjection, IsInjective
<1>2. TreeList(ds, n)
  BY <1>1 DEF TreeList
<1> HIDE DEF ds
<1>3. \A i \in 1..n : ds[i] = cs[pi[i]]
  BY DEF ds
<1>4. IsFiniteSet(1..n) /\ n \in Nat
  <2>1. n \in Nat
    BY DEF TreeList
  <2> QED
    BY <2>1, FS_Interval
<1>5. PICK i \in 1..n : Rank(cs, i) = k
  BY RankOnto
<1>6. PICK j \in 1..n : Rank(ds, j) = k
  BY <1>2, RankOnto
<1>7. Sorted(cs)[k] = cs[i] /\ Sorted(ds)[k] = ds[j]
  BY <1>2, <1>5, <1>6, SortedIs
<1>8. IsTree(cs[i]) /\ IsTree(ds[j])
  BY <1>2 DEF TreeList
<1>9. ASSUME Less(cs[i], ds[j]) PROVE FALSE
  <2> DEFINE S == {x \in 1..n : Ahead(cs, x, i)}
             T == {x \in 1..n : Ahead(ds, x, j)}
             f == [x \in T \ {j} |-> pi[x]]
             g == [x \in S |-> CHOOSE y \in 1..n : pi[y] = x]
  <2>1. \A x \in S : g[x] \in 1..n /\ pi[g[x]] = x
    BY <1>1
  <2>2. ASSUME NEW x \in S PROVE g[x] \in T \ {j}
    <3>1. g[x] \in 1..n /\ ds[g[x]] = cs[x] /\ IsTree(cs[x])
      BY <1>3, <2>1 DEF TreeList
    <3>2. Less(cs[x], ds[j])
      <4>1. CASE Less(cs[x], cs[i])
        BY <1>8, <1>9, <3>1, <4>1, LessTransitive
      <4>2. CASE DOMAIN cs[x] = DOMAIN cs[i]
        BY <1>9, <4>2 DEF Less, Differ
      <4> QED
        BY <4>1, <4>2 DEF Ahead
    <3>3. g[x] # j
      BY <1>8, <3>1, <3>2, LessTotal
    <3> QED
      BY <3>1, <3>2, <3>3 DEF Ahead
  <2>3. g \in Injection(S, T \ {j})
    BY <2>1, <2>2 DEF Injection, IsInjective
  <2>4. IsFiniteSet(T) /\ j \in T /\ Cardinality(T) = k /\ Cardinality(S) = k /\ k \in Nat
    <3>1. T \in SUBSET (1..n) /\ k \in Nat
      BY <1>4
    <3>2. IsFiniteSet(T)
      BY <1>4, <3>1, FS_Subset
    <3>3. j \in T /\ Cardinality(T) = k
      BY <1>2, <1>6, AheadIs
    <3>4. Cardinality(S) = k
      BY <1>5, AheadIs
    <3> QED
      BY <3>1, <3>2, <3>3, <3>4
  <2>5. IsFiniteSet(T \ {j}) /\ Cardinality(T \ {j}) = k - 1
    BY <2>4, FS_RemoveElement
  <2>6. Cardinality(S) <= Cardinality(T \ {j})
    BY <2>3, <2>5, FS_Injection
  <2> QED
    BY <2>4, <2>5, <2>6
<1>10. ASSUME Less(ds[j], cs[i]) PROVE FALSE
  <2> DEFINE S == {x \in 1..n : Ahead(cs, x, i)}
             T == {x \in 1..n : Ahead(ds, x, j)}
             f == [x \in T |-> pi[x]]
  <2>1. ASSUME NEW x \in T PROVE f[x] \in S \ {i}
    <3>1. f[x] \in 1..n /\ ds[x] = cs[f[x]] /\ IsTree(ds[x])
      BY <1>1, <1>2, <1>3 DEF TreeList
    <3>2. Less(ds[x], cs[i])
      <4>1. CASE Less(ds[x], ds[j])
        BY <1>8, <1>10, <3>1, <4>1, LessTransitive
      <4>2. CASE DOMAIN ds[x] = DOMAIN ds[j]
        BY <1>10, <4>2 DEF Less, Differ
      <4> QED
        BY <4>1, <4>2 DEF Ahead
    <3>3. f[x] # i
      BY <1>8, <3>1, <3>2, LessTotal
    <3> QED
      BY <3>1, <3>2, <3>3 DEF Ahead
  <2>2. f \in Injection(T, S \ {i})
    BY <1>1, <2>1 DEF Injection, IsInjective
  <2>3. IsFiniteSet(S) /\ i \in S /\ Cardinality(T) = k /\ Cardinality(S) = k /\ k \in Nat
    <3>1. S \in SUBSET (1..n) /\ k \in Nat
      BY <1>4
    <3>2. IsFiniteSet(S)
      BY <1>4, <3>1, FS_Subset
    <3>3. i \in S /\ Cardinality(S) = k
      BY <1>5, AheadIs
    <3>4. Cardinality(T) = k
      BY <1>2, <1>6, AheadIs
    <3> QED
      BY <3>1, <3>2, <3>3, <3>4
  <2>4. IsFiniteSet(S \ {i}) /\ Cardinality(S \ {i}) = k - 1
    BY <2>3, FS_RemoveElement
  <2>5. Cardinality(T) <= Cardinality(S \ {i})
    BY <2>2, <2>4, FS_Injection
  <2> QED
    BY <2>3, <2>4, <2>5
<1>11. DOMAIN cs[i] = DOMAIN ds[j]
  BY <1>8, <1>9, <1>10, LessTotal
<1> QED
  BY <1>7, <1>11 DEF ds

-----------------------------------------------------------------------------
(* Places.                                                                  *)
LEMMA PlaceConcat ==
  ASSUME NEW p \in AnyPlace, NEW q \in AnyPlace
  PROVE  /\ p \o q \in AnyPlace /\ Len(p \o q) = Len(p) + Len(q)
         /\ SubSeq(p \o q, 1, Len(p)) = p
         /\ SubSeq(p \o q, Len(p) + 1, Len(p \o q)) = q
         /\ IsPrefix(p, p \o q)
<1>1. /\ p \o q \in AnyPlace /\ Len(p \o q) = Len(p) + Len(q)
      /\ \A i \in 1..Len(p) + Len(q) :
           (p \o q)[i] = IF i <= Len(p) THEN p[i] ELSE q[i - Len(p)]
      /\ Len(p) \in Nat /\ Len(q) \in Nat
  BY ConcatProperties, LenProperties DEF AnyPlace
<1>2. \A i \in 1..Len(p \o q) : (p \o q)[i] \in Nat
  BY <1>1, ElementOfSeq DEF AnyPlace
<1>3. SubSeq(p \o q, 1, Len(p)) = p
  <2>1. /\ SubSeq(p \o q, 1, Len(p)) \in Seq(Nat) /\ Len(SubSeq(p \o q, 1, Len(p))) = Len(p)
        /\ \A i \in 1..Len(p) : SubSeq(p \o q, 1, Len(p))[i] = (p \o q)[i]
    <3>1. \A i \in 1..Len(p) : (p \o q)[i] \in Nat
      BY <1>1, <1>2
    <3> QED
      BY <1>1, <3>1, SubSeqProperties
  <2>2. \A i \in 1..Len(p) : SubSeq(p \o q, 1, Len(p))[i] = p[i]
    BY <1>1, <2>1
  <2> QED
    BY <2>1, <2>2, SeqEqual DEF AnyPlace
<1>4. SubSeq(p \o q, Len(p) + 1, Len(p \o q)) = q
  <2> DEFINE s == SubSeq(p \o q, Len(p) + 1, Len(p) + Len(q))
  <2>1. s \in Seq(Nat) /\ Len(s) = Len(q) /\ \A i \in 1..Len(q) : s[i] = (p \o q)[Len(p) + i]
    <3>1. \A i \in Len(p) + 1..Len(p) + Len(q) : (p \o q)[i] \in Nat
      BY <1>1, <1>2
    <3>2. /\ s \in Seq(Nat)
          /\ Len(s) = IF Len(p) + 1 <= Len(p) + Len(q)
                        THEN Len(p) + Len(q) - (Len(p) + 1) + 1 ELSE 0
          /\ \A i \in 1..Len(p) + Len(q) - (Len(p) + 1) + 1 :
               s[i] = (p \o q)[Len(p) + 1 + i - 1]
      <4>1. Len(p) + 1 \in Int /\ Len(p) + Len(q) \in Int
        BY <1>1
      <4> QED
        BY <3>1, <4>1, SubSeqProperties
    <3> QED
      BY <1>1, <3>2
  <2>2. \A i \in 1..Len(q) : s[i] = q[i]
    BY <1>1, <2>1
  <2> QED
    BY <1>1, <2>1, <2>2, SeqEqual DEF AnyPlace
<1>5. IsPrefix(p, p \o q)
  <2>1. SubSeq(p, 1, Len(p)) = p
    BY SubSeqFull DEF AnyPlace
  <2> QED
    BY <1>1, <1>3, <2>1 DEF IsPrefix
<1> QED
  BY <1>1, <1>3, <1>4, <1>5

LEMMA PlaceSplit ==
  ASSUME NEW p \in AnyPlace, NEW x \in AnyPlace, IsPrefix(p, x)
  PROVE  /\ SubSeq(x, Len(p) + 1, Len(x)) \in AnyPlace
         /\ x = p \o SubSeq(x, Len(p) + 1, Len(x))
<1>1. Len(p) \in Nat /\ Len(x) \in Nat /\ Len(p) <= Len(x) /\ SubSeq(x, 1, Len(p)) = p
  BY SubSeqFull DEF IsPrefix, AnyPlace
<1>2. SubSeq(x, 1, Len(p)) \o SubSeq(x, Len(p) + 1, Len(x)) = SubSeq(x, 1, Len(x))
  <2>1. 1 \in 1..Len(x) + 1 /\ Len(p) \in 1 - 1..Len(x) /\ Len(x) \in Len(p)..Len(x)
    BY <1>1
  <2> QED
    BY <2>1, ConcatAdjacentSubSeq DEF AnyPlace
<1>3. SubSeq(x, 1, Len(x)) = x
  BY SubSeqFull DEF AnyPlace
<1>4. SubSeq(x, Len(p) + 1, Len(x)) \in AnyPlace
  <2>1. \A i \in Len(p) + 1..Len(x) : x[i] \in Nat
    BY <1>1 DEF AnyPlace
  <2> QED
    BY <1>1, <2>1, SubSeqProperties DEF AnyPlace
<1> QED
  BY <1>1, <1>2, <1>3, <1>4

LEMMA UnderIs ==
  ASSUME NEW S, S \subseteq AnyPlace, NEW p \in AnyPlace
  PROVE  Under(S, p) = {q \in AnyPlace : p \o q \in S}
<1>1. ASSUME NEW q \in Under(S, p) PROVE q \in AnyPlace /\ p \o q \in S
  <2>1. PICK x \in S : IsPrefix(p, x) /\ q = SubSeq(x, Len(p) + 1, Len(x))
    BY DEF Under
  <2> QED
    BY <2>1, PlaceSplit
<1>2. ASSUME NEW q \in AnyPlace, p \o q \in S PROVE q \in Under(S, p)
  <2>1. IsPrefix(p, p \o q) /\ SubSeq(p \o q, Len(p) + 1, Len(p \o q)) = q
    BY PlaceConcat
  <2> QED
    BY <1>2, <2>1 DEF Under
<1> QED
  BY <1>1, <1>2

LEMMA UnderFinite ==
  ASSUME NEW S, IsFiniteSet(S), NEW p
  PROVE  IsFiniteSet(Under(S, p))
<1>1. IsFiniteSet({y \in S : IsPrefix(p, y)})
  <2>1. {y \in S : IsPrefix(p, y)} \in SUBSET S
    OBVIOUS
  <2> QED
    BY <2>1, FS_Subset
<1> DEFINE T == {y \in S : IsPrefix(p, y)}
           f == [y \in T |-> SubSeq(y, Len(p) + 1, Len(y))]
<1>2. f \in Surjection(T, Under(S, p))
  BY DEF Under, Surjection
<1> QED
  BY <1>1, <1>2, FS_Surjection

LEMMA ConsIs ==
  ASSUME NEW i \in Nat, NEW q \in AnyPlace
  PROVE  /\ <<i>> \in AnyPlace /\ <<i>> \o q \in AnyPlace /\ <<i>> \o q # <<>> /\ Len(<<i>> \o q) = Len(q) + 1
         /\ (<<i>> \o q)[1] = i /\ Tail(<<i>> \o q) = q
<1>1. <<i>> \in AnyPlace /\ Len(<<i>>) = 1 /\ <<i>>[1] = i /\ Len(q) \in Nat
  <2>1. <<i>> \in AnyPlace
    BY DEF AnyPlace
  <2>2. Len(<<i>>) = 1 /\ <<i>>[1] = i
    OBVIOUS
  <2>3. Len(q) \in Nat
    BY DEF AnyPlace
  <2> QED
    BY <2>1, <2>2, <2>3
<1>2. /\ <<i>> \o q \in AnyPlace /\ Len(<<i>> \o q) = 1 + Len(q)
      /\ SubSeq(<<i>> \o q, 2, Len(<<i>> \o q)) = q
  BY <1>1, PlaceConcat
<1>3. (<<i>> \o q)[1] = i /\ <<i>> \o q # <<>>
  BY <1>1, <1>2, ConcatProperties DEF AnyPlace
<1>4. Tail(<<i>> \o q) = SubSeq(<<i>> \o q, 2, Len(<<i>> \o q))
  BY <1>2, <1>3, TailIsSubSeq DEF AnyPlace
<1> QED
  BY <1>1, <1>2, <1>3, <1>4

LEMMA Uncons ==
  ASSUME NEW x \in AnyPlace, x # <<>>
  PROVE  x[1] \in Nat /\ Tail(x) \in AnyPlace /\ x = <<x[1]>> \o Tail(x)
<1>1. Len(x) \in Nat /\ Len(x) >= 1 /\ x[1] \in Nat
  BY EmptySeq DEF AnyPlace
<1>2. Tail(x) = SubSeq(x, 2, Len(x)) /\ Tail(x) \in AnyPlace
  BY TailIsSubSeq, HeadTailProperties DEF AnyPlace
<1>3. SubSeq(x, 1, Len(x)) = <<x[1]>> \o SubSeq(x, 1 + 1, Len(x))
  <2>1. 1 \in 1..Len(x) /\ Len(x) \in 1..Len(x)
    BY <1>1
  <2> QED
    BY <2>1, SubSeqRecursiveFirst DEF AnyPlace
<1> QED
  BY <1>1, <1>2, <1>3, SubSeqFull DEF AnyPlace

-----------------------------------------------------------------------------
(* Putting trees together and taking them apart.                            *)
LEMMA JoinedIs ==
  ASSUME NEW n, NEW cs, TreeList(cs, n), NEW d
  PROVE  /\ IsTree(Joined(d, cs)) /\ Joined(d, cs)[<<>>] = d
         /\ \A x \in AnyPlace : x \in DOMAIN Joined(d, cs) <=>
              x = <<>> \/ (x # <<>> /\ x[1] \in 1..n /\ Tail(x) \in DOMAIN cs[x[1]])
         /\ \A i \in 1..n : \A q \in DOMAIN cs[i] :
              <<i>> \o q \in DOMAIN Joined(d, cs) /\ Joined(d, cs)[<<i>> \o q] = cs[i][q]
<1> DEFINE S(i) == {<<i>> \o q : q \in DOMAIN cs[i]}
           D == {<<>>} \cup UNION {S(i) : i \in DOMAIN cs}
<1>1. n \in Nat /\ DOMAIN cs = 1..n /\ \A i \in 1..n : IsTree(cs[i])
  BY DEF TreeList
<1>2. Joined(d, cs) = [p \in D |-> IF p = <<>> THEN d ELSE cs[p[1]][Tail(p)]]
  BY DEF Joined
<1>3. \A i \in 1..n : i \in Nat /\ \A q \in DOMAIN cs[i] : q \in AnyPlace
  BY <1>1 DEF IsTree
<1>4. D \subseteq AnyPlace
  <2>1. \A i \in 1..n : S(i) \subseteq AnyPlace
    BY <1>3, ConsIs
  <2>2. <<>> \in AnyPlace
    BY DEF AnyPlace
  <2> QED
    BY <1>1, <2>1, <2>2
<1>5. IsFiniteSet(D)
  <2>1. ASSUME NEW i \in 1..n PROVE IsFiniteSet(S(i))
    <3> DEFINE f == [q \in DOMAIN cs[i] |-> <<i>> \o q]
    <3>1. f \in Surjection(DOMAIN cs[i], S(i))
      BY DEF Surjection
    <3> QED
      BY <1>1, <3>1, FS_Surjection DEF IsTree
  <2>2. IsFiniteSet({S(i) : i \in 1..n})
    <3> DEFINE g == [i \in 1..n |-> S(i)]
    <3>1. g \in Surjection(1..n, {S(i) : i \in 1..n})
      BY DEF Surjection
    <3>2. IsFiniteSet(1..n)
      BY <1>1, FS_Interval
    <3> QED
      BY <3>1, <3>2, FS_Surjection
  <2>3. IsFiniteSet(UNION {S(i) : i \in 1..n})
    BY <2>1, <2>2, FS_UNION
  <2> QED
    BY <1>1, <2>3, FS_Singleton, FS_Union
<1>6. ASSUME NEW i \in 1..n, NEW q \in DOMAIN cs[i]
      PROVE  <<i>> \o q \in D /\ Joined(d, cs)[<<i>> \o q] = cs[i][q]
  <2>1. <<i>> \o q \in D
    BY <1>1
  <2>2. <<i>> \o q # <<>> /\ (<<i>> \o q)[1] = i /\ Tail(<<i>> \o q) = q
    BY <1>3, ConsIs
  <2> QED
    BY <1>2, <2>1, <2>2
<1>7. ASSUME NEW x \in AnyPlace
      PROVE  x \in D <=> x = <<>> \/ (x # <<>> /\ x[1] \in 1..n /\ Tail(x) \in DOMAIN cs[x[1]])
  <2>1. ASSUME x \in D, x # <<>> PROVE x[1] \in 1..n /\ Tail(x) \in DOMAIN cs[x[1]]
    <3>1. PICK i \in 1..n : x \in S(i)
      BY <1>1, <2>1
    <3>2. PICK q \in DOMAIN cs[i] : x = <<i>> \o q
      BY <3>1
    <3> QED
      BY <1>3, <3>2, ConsIs
  <2>2. ASSUME x # <<>>, x[1] \in 1..n, Tail(x) \in DOMAIN cs[x[1]] PROVE x \in D
    <3>1. x = <<x[1]>> \o Tail(x)
      BY <2>2, Uncons
    <3>2. x \in S(x[1])
      BY <2>2, <3>1
    <3> QED
      BY <1>1, <2>2, <3>2
  <2> QED
    BY <2>1, <2>2
<1>9. <<>> \in D
  OBVIOUS
<1> HIDE DEF D
<1>8. DOMAIN Joined(d, cs) = D /\ Joined(d, cs) = [p \in D |-> Joined(d, cs)[p]]
  BY <1>2
<1>10. Joined(d, cs)[<<>>] = d
  BY <1>2, <1>9
<1>11. IsTree(Joined(d, cs))
  BY <1>4, <1>5, <1>8, <1>9 DEF IsTree
<1> QED
  BY <1>6, <1>7, <1>8, <1>10, <1>11

LEMMA ChildrenJoined ==
  ASSUME NEW n, NEW cs, TreeList(cs, n), NEW d
  PROVE  Children(Joined(d, cs)) = cs
<1> DEFINE t == Joined(d, cs)
<1>1. n \in Nat /\ DOMAIN cs = 1..n /\ \A i \in 1..n : IsTree(cs[i]) /\ i \in Nat
  BY DEF TreeList
<1>2. IsTree(t) /\ DOMAIN t \subseteq AnyPlace
  BY JoinedIs DEF IsTree
<1>6. \A x \in AnyPlace : x \in DOMAIN t <=>
        x = <<>> \/ (x # <<>> /\ x[1] \in 1..n /\ Tail(x) \in DOMAIN cs[x[1]])
  BY JoinedIs
<1>7. ASSUME NEW i \in 1..n, NEW q \in DOMAIN cs[i]
      PROVE  <<i>> \o q \in DOMAIN t /\ t[<<i>> \o q] = cs[i][q]
  BY JoinedIs
<1> HIDE DEF t
<1>3. ASSUME NEW i \in 1..n PROVE Sub(t, <<i>>) = cs[i]
  <2>1. <<i>> \in AnyPlace
    BY <1>1 DEF AnyPlace
  <2>2. ASSUME NEW q \in AnyPlace PROVE <<i>> \o q \in DOMAIN t <=> q \in DOMAIN cs[i]
    <3>1. /\ <<i>> \o q \in AnyPlace /\ <<i>> \o q # <<>>
          /\ (<<i>> \o q)[1] = i /\ Tail(<<i>> \o q) = q
      BY <1>1, ConsIs
    <3> QED
      BY <1>6, <3>1
  <2>3. Under(DOMAIN t, <<i>>) = DOMAIN cs[i]
    <3>1. Under(DOMAIN t, <<i>>) = {q \in AnyPlace : <<i>> \o q \in DOMAIN t}
      BY <1>2, <2>1, UnderIs
    <3>2. DOMAIN cs[i] \subseteq AnyPlace
      BY <1>1 DEF IsTree
    <3> QED
      BY <2>2, <3>1, <3>2
  <2>4. \A q \in DOMAIN cs[i] : t[<<i>> \o q] = cs[i][q]
    BY <1>7
  <2>5. Sub(t, <<i>>) = [q \in DOMAIN cs[i] |-> cs[i][q]]
    BY <2>3, <2>4 DEF Sub
  <2> QED
    BY <1>1, <2>5 DEF IsTree
<1>4. Degree(t) = n
  <2> DEFINE One == {p \in DOMAIN t : Len(p) = 1}
             f == [i \in 1..n |-> <<i>>]
  <2>1. ASSUME NEW i \in 1..n PROVE <<i>> \in One
    <3>1. <<>> \in DOMAIN cs[i]
      BY <1>1 DEF IsTree
    <3>2. <<i>> \o <<>> \in DOMAIN t
      BY <1>7, <3>1
    <3>3. <<i>> \o <<>> = <<i>>
      OBVIOUS
    <3> QED
      BY <3>2, <3>3
  <2>2. ASSUME NEW x \in One PROVE \E i \in 1..n : x = <<i>>
    <3>1. x \in AnyPlace /\ x \in DOMAIN t /\ Len(x) = 1
      BY <1>2
    <3>4. x # <<>>
      BY <3>1 DEF AnyPlace
    <3>2. x[1] \in 1..n
      BY <1>6, <3>1, <3>4
    <3>3. x = <<x[1]>>
      BY <3>1 DEF AnyPlace
    <3> QED
      BY <3>2, <3>3
  <2>3. f \in Surjection(1..n, One)
    BY <2>1, <2>2 DEF Surjection
  <2>4. f \in Injection(1..n, One)
    BY <2>1 DEF Injection, IsInjective
  <2>5. IsFiniteSet(1..n) /\ Cardinality(1..n) = n
    BY <1>1, FS_Interval
  <2>6. Cardinality(One) = n
    BY <2>3, <2>4, <2>5, FS_Surjection
  <2> QED
    BY <2>6 DEF Degree
<1>5. Children(t) = [i \in 1..n |-> cs[i]]
  BY <1>3, <1>4 DEF Children
<1> QED
  BY <1>5 DEF TreeList, t

-----------------------------------------------------------------------------
(* A tree that grows child by child, none of them less than those before it,*)
(* is the tree of those children.                                           *)
Upto(cs, i) == [j \in 1..i |-> cs[j]]

LEMMA GrowStep ==
  ASSUME NEW n, NEW cs, TreeList(cs, n), Ascending(cs, n), NEW d, NEW i \in 1..n
  PROVE  AddChild(Joined(d, Upto(cs, i - 1)), cs[i]) = Joined(d, Upto(cs, i))
<1> DEFINE u == Upto(cs, i - 1)
           v == Upto(cs, i)
<1>1. n \in Nat /\ i \in Nat /\ i - 1 \in Nat /\ i <= n /\ DOMAIN cs = 1..n
  BY DEF TreeList
<1>2. TreeList(u, i - 1) /\ TreeList(v, i) /\ Ascending(v, i)
  BY <1>1 DEF TreeList, Ascending, Upto
<1>3. Append(u, cs[i]) = v
  <2> DEFINE R == {cs[j] : j \in 1..n}
  <2>1. u \in Seq(R) /\ Len(u) = i - 1 /\ cs[i] \in R
    BY <1>1 DEF Upto
  <2>2. v \in Seq(R) /\ Len(v) = i
    BY <1>1 DEF Upto
  <2>3. /\ Append(u, cs[i]) \in Seq(R) /\ Len(Append(u, cs[i])) = i
        /\ \A j \in 1..i : Append(u, cs[i])[j] = IF j = i THEN cs[i] ELSE u[j]
    BY <1>1, <2>1, AppendProperties
  <2>4. \A j \in 1..i : Append(u, cs[i])[j] = v[j]
    BY <1>1, <2>3 DEF Upto
  <2> HIDE DEF u, v, R
  <2> QED
    BY <2>2, <2>3, <2>4, SeqEqual
<1>4. Children(Joined(d, u)) = u /\ Joined(d, u)[<<>>] = d
  BY <1>2, ChildrenJoined, JoinedIs
<1>5. Sorted(v) = v
  BY <1>2, SortedStays
<1> HIDE DEF u, v
<1>6. AddChild(Joined(d, u), cs[i]) = Joined(d, v)
  BY <1>3, <1>4, <1>5 DEF AddChild
<1> QED
  BY <1>6 DEF u, v

LEMMA GrowStart ==
  ASSUME NEW cs, NEW d
  PROVE  Joined(d, Upto(cs, 0)) = New(d)
<1>1. DOMAIN Upto(cs, 0) = {}
  BY DEF Upto
<1>2. UNION {{<<i>> \o q : q \in DOMAIN Upto(cs, 0)[i]} : i \in DOMAIN Upto(cs, 0)} = {}
  BY <1>1
<1> QED
  BY <1>2 DEF Joined, New

LEMMA Grown ==
  ASSUME NEW n, NEW cs, TreeList(cs, n), Ascending(cs, n), NEW d,
         NEW f, f = [i \in 0..n |-> IF i = 0 THEN New(d) ELSE AddChild(f[i - 1], cs[i])]
  PROVE  f[n] = Joined(d, cs)
<1> DEFINE Wrong == {i \in 0..n : f[i] # Joined(d, Upto(cs, i))}
<1>1. n \in Nat
  BY DEF TreeList
<1>2. Wrong = {}
  <2> SUFFICES ASSUME Wrong # {} PROVE FALSE
    OBVIOUS
  <2>1. Wrong \in SUBSET Nat
    BY <1>1
  <2> HIDE DEF Wrong
  <2>2. PICK i \in Wrong : \A j \in Wrong : i <= j
    BY <2>1, Least
  <2>3. i \in 0..n /\ f[i] # Joined(d, Upto(cs, i))
    BY <2>2 DEF Wrong
  <2>4. f[0] = New(d)
    BY <1>1
  <2>5. i # 0
    BY <2>3, <2>4, GrowStart
  <2>6. i \in 1..n /\ i - 1 \in 0..n /\ i - 1 \notin Wrong
    BY <1>1, <2>1, <2>2, <2>3, <2>5
  <2>7. f[i - 1] = Joined(d, Upto(cs, i - 1))
    BY <2>6 DEF Wrong
  <2>8. f[i] = AddChild(f[i - 1], cs[i])
    BY <2>5, <2>6
  <2> QED
    BY <2>3, <2>6, <2>7, <2>8, GrowStep
<1>3. f[n] = Joined(d, Upto(cs, n))
  <2> HIDE DEF Wrong
  <2>1. n \in 0..n /\ n \notin Wrong
    BY <1>1, <1>2
  <2> QED
    BY <2>1 DEF Wrong
<1>4. Upto(cs, n) = cs
  BY DEF Upto, TreeList
<1> QED
  BY <1>3, <1>4

LEMMA GrowExists ==
  ASSUME NEW n, NEW cs, TreeList(cs, n), Ascending(cs, n), NEW d
  PROVE  \E f : f = [i \in 0..n |-> IF i = 0 THEN New(d) ELSE AddChild(f[i - 1], cs[i])]
<1> DEFINE f == [i \in 0..n |-> Joined(d, Upto(cs, i))]
<1>1. n \in Nat
  BY DEF TreeList
<1>2. ASSUME NEW i \in 0..n
      PROVE  f[i] = IF i = 0 THEN New(d) ELSE AddChild(f[i - 1], cs[i])
  <2>1. CASE i = 0
    BY <2>1, GrowStart
  <2>2. CASE i # 0
    <3>1. i \in 1..n /\ i - 1 \in 0..n
      BY <1>1, <2>2
    <3>2. f[i] = Joined(d, Upto(cs, i)) /\ f[i - 1] = Joined(d, Upto(cs, i - 1))
      BY <3>1
    <3> QED
      BY <2>2, <3>1, <3>2, GrowStep
  <2> QED
    BY <2>1, <2>2
<1> HIDE DEF f
<1>3. f = [i \in 0..n |-> f[i]]
  BY DEF f
<1>4. f = [i \in 0..n |-> IF i = 0 THEN New(d) ELSE AddChild(f[i - 1], cs[i])]
  BY <1>2, <1>3
<1> QED
  BY <1>4

-----------------------------------------------------------------------------
(* Shapes.                                                                  *)
LEMMA SnocIs ==
  ASSUME NEW p \in AnyPlace, NEW i \in Nat
  PROVE  /\ Append(p, i) \in AnyPlace /\ Append(p, i) # <<>> /\ Append(p, i) = p \o <<i>>
         /\ Len(Append(p, i)) = Len(p) + 1
         /\ Front(Append(p, i)) = p /\ Last(Append(p, i)) = i
<1>1. Append(p, i) \in Seq(Nat) /\ Append(p, i) # <<>> /\ Append(p, i) = p \o <<i>>
  BY AppendProperties, AppendIsConcat DEF AnyPlace
<1>2. Len(Append(p, i)) = Len(p) + 1 /\ Append(p, i)[Len(p) + 1] = i /\ Len(p) \in Nat
  BY AppendProperties, LenProperties DEF AnyPlace
<1>3. SubSeq(p \o <<i>>, 1, Len(p)) = p
  BY PlaceConcat, <<i>> \in AnyPlace DEF AnyPlace
<1>4. Front(Append(p, i)) = p
  BY <1>1, <1>2, <1>3 DEF Front
<1> QED
  BY <1>1, <1>2, <1>4 DEF Last, AnyPlace

LEMMA Unsnoc ==
  ASSUME NEW q \in AnyPlace, q # <<>>
  PROVE  /\ Front(q) \in AnyPlace /\ Last(q) \in Nat /\ q = Append(Front(q), Last(q))
         /\ Len(Front(q)) = Len(q) - 1 /\ Len(q) \in Nat \ {0}
<1>1. PICK p \in Seq(Nat), i \in Nat : q = Append(p, i)
  BY SequenceEmptyOrAppend DEF AnyPlace
<1>2. p \in AnyPlace /\ Len(p) \in Nat
  BY LenProperties DEF AnyPlace
<1>3. /\ Len(q) = Len(p) + 1 /\ Front(q) = p /\ Last(q) = i
  BY <1>1, <1>2, SnocIs
<1> QED
  BY <1>1, <1>2, <1>3

LEMMA SnocConcat ==
  ASSUME NEW p \in AnyPlace, NEW i \in Nat, NEW q \in AnyPlace
  PROVE  Append(p, i) \o q = p \o (<<i>> \o q)
<1>1. Append(p, i) = p \o <<i>> /\ <<i>> \in AnyPlace
  BY SnocIs DEF AnyPlace
<1> QED
  BY <1>1, ConcatAssociative DEF AnyPlace

LEMMA ShapeIs ==
  ASSUME NEW S, IsShape(S)
  PROVE  /\ S \subseteq AnyPlace /\ IsFiniteSet(S) /\ <<>> \in S
         /\ \A q \in S : q # <<>> =>
              /\ Front(q) \in S /\ Last(q) \in Nat \ {0}
              /\ \A i \in 1..Last(q) : Append(Front(q), i) \in S
<1>1. ASSUME NEW q \in S PROVE q \in AnyPlace
  <2>1. q \in Seq(Nat \ {0})
    BY DEF IsShape
  <2> QED
    BY <2>1, SeqMonotonic DEF AnyPlace
<1>2. ASSUME NEW q \in S, q # <<>> PROVE Last(q) \in Nat \ {0}
  <2>1. q \in Seq(Nat \ {0})
    BY DEF IsShape
  <2>2. Len(q) \in 1..Len(q)
    BY <1>2, <2>1, EmptySeq
  <2> QED
    BY <2>1, <2>2, ElementOfSeq DEF Last
<1> QED
  BY <1>1, <1>2 DEF IsShape

LEMMA ShapePrefixed ==
  ASSUME NEW S, IsShape(S), NEW a \in AnyPlace, NEW b \in AnyPlace, a \o b \in S
  PROVE  a \in S
<1> SUFFICES ASSUME a \notin S PROVE FALSE
  OBVIOUS
<1> DEFINE Hang == {x \in AnyPlace : a \o x \in S}
           Sizes == {Len(x) : x \in Hang}
<1>1. Sizes \in SUBSET Nat /\ Sizes # {}
  <2>1. b \in Hang
    OBVIOUS
  <2>2. \A x \in Hang : Len(x) \in Nat
    BY LenProperties DEF AnyPlace
  <2> QED
    BY <2>1, <2>2
<1> HIDE DEF Sizes
<1>2. PICK n \in Sizes : \A m \in Sizes : n <= m
  BY <1>1, Least
<1>3. PICK x \in AnyPlace : a \o x \in S /\ n = Len(x)
  BY <1>2 DEF Sizes
<1>4. x # <<>>
  <2>1. a \o <<>> = a
    BY ConcatEmptySeq DEF AnyPlace
  <2> QED
    BY <1>3, <2>1
<1>5. Front(x) \in AnyPlace /\ Last(x) \in Nat /\ x = Append(Front(x), Last(x))
      /\ Len(Front(x)) = n - 1 /\ n \in Nat \ {0}
  BY <1>3, <1>4, Unsnoc
<1>6. a \o x = Append(a \o Front(x), Last(x)) /\ a \o Front(x) \in AnyPlace
  <2>1. x = Front(x) \o <<Last(x)>>
    BY <1>5, SnocIs
  <2>5. <<Last(x)>> \in Seq(Nat) /\ Front(x) \in Seq(Nat) /\ a \in Seq(Nat)
    BY <1>5 DEF AnyPlace
  <2>2. a \o Front(x) \in AnyPlace
    BY <1>5, PlaceConcat
  <2>3. Append(a \o Front(x), Last(x)) = (a \o Front(x)) \o <<Last(x)>>
    BY <1>5, <2>2, SnocIs
  <2>4. (a \o Front(x)) \o <<Last(x)>> = a \o (Front(x) \o <<Last(x)>>)
    BY <2>5, ConcatAssociative
  <2> QED
    BY <2>1, <2>2, <2>3, <2>4
<1>7. a \o Front(x) \in S
  <2>1. a \o x # <<>> /\ Front(a \o x) = a \o Front(x)
    BY <1>5, <1>6, SnocIs
  <2> QED
    BY <1>3, <2>1, ShapeIs
<1>8. n - 1 \in Sizes
  BY <1>5, <1>7 DEF Sizes
<1> QED
  BY <1>2, <1>5, <1>8

LEMMA Segment ==
  ASSUME NEW T \in SUBSET (Nat \ {0}), IsFiniteSet(T), \A i \in T : \A j \in 1..i : j \in T
  PROVE  T = 1..Cardinality(T)
<1> DEFINE c == Cardinality(T)
           Out == {i \in Nat \ {0} : i \notin T}
<1>1. c \in Nat
  BY FS_CardinalityType
<1>2. Out # {}
  <2> SUFFICES ASSUME 1..c + 1 \in SUBSET T PROVE FALSE
    BY <1>1
  <2>1. Cardinality(1..c + 1) = c + 1
    BY <1>1, FS_Interval
  <2>2. Cardinality(1..c + 1) <= c
    BY FS_Subset
  <2> QED
    BY <1>1, <2>1, <2>2
<1>3. PICK m \in Out : \A i \in Out : m <= i
  <2>1. Out \in SUBSET Nat
    OBVIOUS
  <2> HIDE DEF Out
  <2> QED
    BY <1>2, <2>1, Least
<1>4. m \in Nat \ {0} /\ m \notin T /\ m - 1 \in Nat
  BY <1>3
<1>5. T = 1..m - 1
  <2>1. ASSUME NEW i \in T PROVE i \in 1..m - 1
    BY <1>4
  <2>2. ASSUME NEW i \in 1..m - 1 PROVE i \in T
    BY <1>3, <1>4
  <2> QED
    BY <2>1, <2>2
<1>6. Cardinality(1..m - 1) = m - 1
  BY <1>4, FS_Interval
<1> QED
  BY <1>5, <1>6

-----------------------------------------------------------------------------
(* What with_children makes.                                                *)
LEMMA SubJoined ==
  ASSUME NEW n, NEW cs, TreeList(cs, n), NEW d, NEW i \in 1..n, NEW q \in AnyPlace
  PROVE  Sub(Joined(d, cs), <<i>> \o q) = Sub(cs[i], q)
<1> DEFINE t == Joined(d, cs)
<1>1. /\ IsTree(t) /\ i \in Nat /\ IsTree(cs[i])
      /\ \A x \in AnyPlace : x \in DOMAIN t <=>
           x = <<>> \/ (x # <<>> /\ x[1] \in 1..n /\ Tail(x) \in DOMAIN cs[x[1]])
  BY JoinedIs DEF TreeList
<1>2. ASSUME NEW y \in DOMAIN cs[i] PROVE t[<<i>> \o y] = cs[i][y]
  BY JoinedIs
<1>3. DOMAIN t \subseteq AnyPlace /\ DOMAIN cs[i] \subseteq AnyPlace /\ <<i>> \o q \in AnyPlace
  BY <1>1, ConsIs DEF IsTree
<1> HIDE DEF t
<1>4. ASSUME NEW x \in AnyPlace
      PROVE  /\ (<<i>> \o q) \o x \in DOMAIN t <=> q \o x \in DOMAIN cs[i]
             /\ q \o x \in DOMAIN cs[i] => t[(<<i>> \o q) \o x] = cs[i][q \o x]
  <2> DEFINE y == q \o x
             z == <<i>> \o y
  <2>1. y \in AnyPlace
    BY PlaceConcat
  <2>2. z \in AnyPlace /\ z # <<>> /\ z[1] = i /\ Tail(z) = y
    <3> HIDE DEF y
    <3> QED
      BY <1>1, <2>1, ConsIs
  <2>3. (<<i>> \o q) \o x = z
    <3>1. <<i>> \in AnyPlace
      BY <1>1, ConsIs
    <3> QED
      BY <3>1, ConcatAssociative DEF AnyPlace
  <2> HIDE DEF y, z
  <2>4. z \in DOMAIN t <=> y \in DOMAIN cs[i]
    BY <1>1, <2>2
  <2>5. y \in DOMAIN cs[i] => t[z] = cs[i][y]
    BY <1>2 DEF z
  <2> QED
    BY <2>3, <2>4, <2>5 DEF y
<1>5. Under(DOMAIN t, <<i>> \o q) = {x \in AnyPlace : (<<i>> \o q) \o x \in DOMAIN t}
  BY <1>3, UnderIs
<1>6. Under(DOMAIN cs[i], q) = {x \in AnyPlace : q \o x \in DOMAIN cs[i]}
  BY <1>3, UnderIs
<1>7. Under(DOMAIN t, <<i>> \o q) = Under(DOMAIN cs[i], q)
  BY <1>4, <1>5, <1>6
<1>8. \A x \in Under(DOMAIN cs[i], q) : t[(<<i>> \o q) \o x] = cs[i][q \o x]
  BY <1>4, <1>6
<1>9. Sub(t, <<i>> \o q) = Sub(cs[i], q)
  BY <1>7, <1>8 DEF Sub
<1> QED
  BY <1>9 DEF t

LEMMA DegreeJoined ==
  ASSUME NEW n, NEW cs, TreeList(cs, n), NEW d
  PROVE  /\ Degree(Joined(d, cs)) = n /\ Sub(Joined(d, cs), <<>>) = Joined(d, cs)
         /\ \A i \in 1..n : Sub(Joined(d, cs), <<i>>) = cs[i]
<1> DEFINE t == Joined(d, cs)
<1>1. n \in Nat /\ DOMAIN cs = 1..n /\ IsTree(t)
  BY JoinedIs DEF TreeList
<1>2. Children(t) = cs
  BY ChildrenJoined
<1> HIDE DEF t
<1>3. Children(t) = [i \in 1..Degree(t) |-> Sub(t, <<i>>)]
  BY DEF Children
<1>4. IsFiniteSet({p \in DOMAIN t : Len(p) = 1})
  <2>1. {p \in DOMAIN t : Len(p) = 1} \in SUBSET DOMAIN t
    OBVIOUS
  <2> QED
    BY <1>1, <2>1, FS_Subset DEF IsTree
<1>5. Degree(t) \in Nat
  BY <1>4, FS_CardinalityType DEF Degree
<1>6. 1..Degree(t) = 1..n
  BY <1>1, <1>2, <1>3
<1>7. Degree(t) = n
  <2>1. Cardinality(1..n) = n
    BY <1>1, FS_Interval
  <2>2. Cardinality(1..Degree(t)) = Degree(t)
    BY <1>5, FS_Interval
  <2> QED
    BY <1>6, <2>1, <2>2
<1>8. \A i \in 1..n : Sub(t, <<i>>) = cs[i]
  BY <1>2, <1>3, <1>7
<1>9. Sub(t, <<>>) = t
  <2>1. \A x \in AnyPlace : <<>> \o x = x
    BY ConcatEmptySeq DEF AnyPlace
  <2>2. DOMAIN t \subseteq AnyPlace /\ <<>> \in AnyPlace /\ t = [p \in DOMAIN t |-> t[p]]
    BY <1>1 DEF IsTree
  <2>3. Under(DOMAIN t, <<>>) = {x \in AnyPlace : <<>> \o x \in DOMAIN t}
    BY <2>2, UnderIs
  <2>4. Under(DOMAIN t, <<>>) = DOMAIN t
    BY <2>1, <2>2, <2>3
  <2>5. Sub(t, <<>>) = [x \in DOMAIN t |-> t[<<>> \o x]]
    BY <2>4 DEF Sub
  <2>6. \A x \in DOMAIN t : t[<<>> \o x] = t[x]
    BY <2>1, <2>2
  <2> QED
    BY <2>2, <2>5, <2>6
<1> QED
  BY <1>7, <1>8, <1>9 DEF t

LEMMA JoinedOrdered ==
  ASSUME NEW n, NEW cs, TreeList(cs, n), Ascending(cs, n), NEW d, \A i \in 1..n : Ordered(cs[i])
  PROVE  Ordered(Joined(d, cs))
<1> DEFINE t == Joined(d, cs)
<1>1. /\ n \in Nat /\ IsTree(t) /\ \A i \in 1..n : IsTree(cs[i]) /\ i \in Nat
      /\ \A x \in AnyPlace : x \in DOMAIN t <=>
           x = <<>> \/ (x # <<>> /\ x[1] \in 1..n /\ Tail(x) \in DOMAIN cs[x[1]])
  BY JoinedIs DEF TreeList
<1>2. Degree(t) = n /\ Sub(t, <<>>) = t /\ \A i \in 1..n : Sub(t, <<i>>) = cs[i]
  BY DegreeJoined
<1>3. \A i \in 1..n : \A q \in AnyPlace : Sub(t, <<i>> \o q) = Sub(cs[i], q)
  <2> SUFFICES ASSUME NEW i \in 1..n, NEW q \in AnyPlace PROVE Sub(t, <<i>> \o q) = Sub(cs[i], q)
    OBVIOUS
  <2> QED
    BY SubJoined
<1> HIDE DEF t
<1> SUFFICES ASSUME NEW p \in DOMAIN t, NEW i \in 1..Degree(Sub(t, p)),
                    NEW j \in 1..Degree(Sub(t, p)), i < j
             PROVE  Cmp(Sub(t, Append(p, i)), Sub(t, Append(p, j))) # "greater"
  BY DEF Ordered, t
<1>4. CASE p = <<>>
  <2>1. i \in 1..n /\ j \in 1..n /\ Append(p, i) = <<i>> /\ Append(p, j) = <<j>>
    BY <1>2, <1>4
  <2>2. Sub(t, Append(p, i)) = cs[i] /\ Sub(t, Append(p, j)) = cs[j]
    BY <1>2, <2>1
  <2>3. ~Less(cs[j], cs[i])
    BY <2>1 DEF Ascending
  <2> QED
    BY <1>1, <2>1, <2>2, <2>3, CmpIs
<1>5. CASE p # <<>>
  <2> DEFINE k == p[1]
             q == Tail(p)
  <2>1. p \in AnyPlace /\ k \in Nat /\ q \in AnyPlace /\ p = <<k>> \o q
    BY <1>1, <1>5, Uncons DEF IsTree
  <2>2. k \in 1..n /\ q \in DOMAIN cs[k]
    BY <1>1, <1>5, <2>1
  <2> HIDE DEF k, q
  <2>3. Sub(t, p) = Sub(cs[k], q)
    <3>1. Sub(t, <<k>> \o q) = Sub(cs[k], q)
      BY <1>3, <2>1, <2>2
    <3> QED
      BY <2>1, <3>1
  <2>4. ASSUME NEW x \in Nat PROVE Sub(t, Append(p, x)) = Sub(cs[k], Append(q, x))
    <3>1. Append(p, x) = p \o <<x>> /\ Append(q, x) = q \o <<x>> /\ Append(q, x) \in AnyPlace
      BY <2>1, SnocIs
    <3>2. (<<k>> \o q) \o <<x>> = <<k>> \o (q \o <<x>>)
      <4>1. <<k>> \in AnyPlace /\ <<x>> \in AnyPlace
        BY <2>1, ConsIs
      <4> QED
        BY <2>1, <4>1, ConcatAssociative DEF AnyPlace
    <3>3. Append(p, x) = <<k>> \o Append(q, x)
      <4>1. p \o <<x>> = (<<k>> \o q) \o <<x>>
        BY <2>1
      <4>2. <<k>> \o (q \o <<x>>) = <<k>> \o Append(q, x)
        BY <3>1
      <4> QED
        BY <3>1, <3>2, <4>1, <4>2
    <3>4. Sub(t, <<k>> \o Append(q, x)) = Sub(cs[k], Append(q, x))
      BY <1>3, <2>2, <3>1
    <3> QED
      BY <3>3, <3>4
  <2>5. /\ i \in 1..Degree(Sub(cs[k], q)) /\ j \in 1..Degree(Sub(cs[k], q))
        /\ i \in Nat /\ j \in Nat
    BY <2>3
  <2>6. Cmp(Sub(cs[k], Append(q, i)), Sub(cs[k], Append(q, j))) # "greater"
    BY <2>2, <2>5 DEF Ordered
  <2> QED
    BY <2>4, <2>5, <2>6
<1> QED
  BY <1>4, <1>5

LEMMA JoinedShape ==
  ASSUME NEW n, NEW cs, TreeList(cs, n), NEW d, \A i \in 1..n : IsShape(DOMAIN cs[i])
  PROVE  IsShape(DOMAIN Joined(d, cs))
<1> DEFINE D == DOMAIN Joined(d, cs)
<1>1. /\ n \in Nat /\ IsTree(Joined(d, cs)) /\ \A i \in 1..n : IsTree(cs[i]) /\ i \in Nat \ {0}
      /\ \A x \in AnyPlace : x \in D <=>
           x = <<>> \/ (x # <<>> /\ x[1] \in 1..n /\ Tail(x) \in DOMAIN cs[x[1]])
  BY JoinedIs DEF TreeList
<1>2. IsFiniteSet(D) /\ <<>> \in D /\ D \subseteq AnyPlace
  BY <1>1 DEF IsTree
<1> HIDE DEF D
<1>3. ASSUME NEW i \in 1..n, NEW q \in DOMAIN cs[i] PROVE <<i>> \o q \in D
  BY JoinedIs DEF D
<1>4. ASSUME NEW p \in D, p # <<>>
      PROVE  /\ p \in Seq(Nat \ {0}) /\ Front(p) \in D
             /\ \A j \in 1..Last(p) : Append(Front(p), j) \in D
  <2> DEFINE i == p[1]
             q == Tail(p)
  <2>1. p \in AnyPlace /\ i \in Nat /\ q \in AnyPlace /\ p = <<i>> \o q
    BY <1>2, <1>4, Uncons
  <2>2. i \in 1..n /\ q \in DOMAIN cs[i] /\ i \in Nat \ {0}
    BY <1>1, <1>4, <2>1
  <2> HIDE DEF i, q
  <2>3. IsShape(DOMAIN cs[i])
    BY <2>2
  <2>4. p \in Seq(Nat \ {0})
    <3>1. <<i>> \in Seq(Nat \ {0})
      BY <2>2
    <3>2. q \in Seq(Nat \ {0})
      BY <2>2, <2>3 DEF IsShape
    <3> QED
      BY <2>1, <3>1, <3>2, ConcatProperties
  <2>5. CASE q = <<>>
    <3>1. <<i>> \in AnyPlace /\ <<i>> \o <<>> = <<i>>
      BY <2>1, ConsIs
    <3>2. p = <<i>>
      BY <2>1, <2>5, <3>1
    <3>3. p = Append(<<>>, i)
      BY <3>2
    <3>4. Front(p) = <<>> /\ Last(p) = i
      <4>1. <<>> \in AnyPlace
        BY DEF AnyPlace
      <4> QED
        BY <2>1, <3>3, <4>1, SnocIs
    <3>5. ASSUME NEW j \in 1..i PROVE Append(<<>>, j) \in D
      <4>1. j \in 1..n
        BY <1>1, <2>2
      <4>2. <<>> \in DOMAIN cs[j]
        BY <1>1, <4>1 DEF IsTree
      <4>3. <<j>> \o <<>> \in D
        BY <1>3, <4>1, <4>2
      <4>4. <<j>> \o <<>> = Append(<<>>, j)
        OBVIOUS
      <4> QED
        BY <4>3, <4>4
    <3> QED
      BY <1>2, <2>4, <3>4, <3>5
  <2>6. CASE q # <<>>
    <3> DEFINE f == Front(q)
    <3>1. f \in AnyPlace /\ Last(q) \in Nat /\ q = Append(f, Last(q))
      BY <2>1, <2>6, Unsnoc
    <3>2. f \in DOMAIN cs[i] /\ \A j \in 1..Last(q) : Append(f, j) \in DOMAIN cs[i]
      BY <2>2, <2>3, <2>6 DEF IsShape
    <3> HIDE DEF f
    <3>3. ASSUME NEW j \in Nat PROVE <<i>> \o Append(f, j) = Append(<<i>> \o f, j)
      <4>1. <<i>> \in AnyPlace /\ <<i>> \o f \in AnyPlace /\ <<j>> \in AnyPlace
        BY <2>1, <3>1, ConsIs
      <4>2. Append(f, j) = f \o <<j>> /\ Append(<<i>> \o f, j) = (<<i>> \o f) \o <<j>>
        BY <3>1, <4>1, SnocIs
      <4>3. (<<i>> \o f) \o <<j>> = <<i>> \o (f \o <<j>>)
        BY <3>1, <4>1, ConcatAssociative DEF AnyPlace
      <4>4. <<i>> \o Append(f, j) = <<i>> \o (f \o <<j>>)
        BY <4>2
      <4> QED
        BY <4>2, <4>3, <4>4
    <3>4. p = Append(<<i>> \o f, Last(q))
      <4>1. <<i>> \o q = <<i>> \o Append(f, Last(q))
        BY <3>1
      <4> QED
        BY <2>1, <3>1, <3>3, <4>1
    <3>5. Front(p) = <<i>> \o f /\ Last(p) = Last(q)
      <4>1. <<i>> \o f \in AnyPlace
        BY <2>1, <3>1, ConsIs
      <4> QED
        BY <3>1, <3>4, <4>1, SnocIs
    <3>6. <<i>> \o f \in D
      BY <1>3, <2>2, <3>2
    <3>7. ASSUME NEW j \in 1..Last(q) PROVE Append(<<i>> \o f, j) \in D
      <4>1. j \in Nat /\ Append(f, j) \in DOMAIN cs[i]
        BY <3>1, <3>2
      <4>2. <<i>> \o Append(f, j) \in D
        BY <1>3, <2>2, <4>1
      <4> QED
        BY <3>3, <4>1, <4>2
    <3> QED
      BY <2>4, <3>5, <3>6, <3>7
  <2> QED
    BY <2>5, <2>6
<1>5. <<>> \in Seq(Nat \ {0})
  OBVIOUS
<1>6. IsShape(D)
  BY <1>2, <1>4, <1>5 DEF IsShape
<1> QED
  BY <1>6 DEF D

(* Trees put together with with_children are shapes with sorted children at *)
(* every place, which is what is assumed of the trees that are asked for.   *)
THEOREM WithChildrenSorts ==
  ASSUME NEW n, NEW cs, TreeList(cs, n), NEW d,
         \A i \in 1..n : IsShape(DOMAIN cs[i]) /\ Ordered(cs[i])
  PROVE  IsShape(DOMAIN WithChildren(d, cs)) /\ Ordered(WithChildren(d, cs))
<1> DEFINE ss == Sorted(cs)
<1>1. TreeList(ss, n) /\ Ascending(ss, n)
  BY SortedIs, SortedAscends
<1>2. ASSUME NEW k \in 1..n PROVE IsShape(DOMAIN ss[k]) /\ Ordered(ss[k])
  <2>1. PICK i \in 1..n : Rank(cs, i) = k
    BY RankOnto
  <2>2. ss[k] = cs[i]
    BY <2>1, SortedIs
  <2> QED
    BY <2>2
<1> HIDE DEF ss
<1>3. IsShape(DOMAIN Joined(d, ss)) /\ Ordered(Joined(d, ss))
  BY <1>1, <1>2, JoinedShape, JoinedOrdered
<1> QED
  BY <1>3 DEF WithChildren, ss

(* The shape of a tree does not depend on the order in which its children   *)
(* were given (with_children).                                              *)
THEOREM OrderIrrelevant ==
  ASSUME NEW n, NEW cs, TreeList(cs, n), NEW pi \in Bijection(1..n, 1..n), NEW d, NEW e
  PROVE  DOMAIN WithChildren(d, cs) = DOMAIN WithChildren(e, [i \in 1..n |-> cs[pi[i]]])
<1> DEFINE ds == [i \in 1..n |-> cs[pi[i]]]
           s == Sorted(cs)
           t == Sorted(ds)
<1>1. TreeList(ds, n)
  <2>1. \A i \in 1..n : pi[i] \in 1..n
    BY DEF Bijection, Injection
  <2> QED
    BY <2>1 DEF TreeList
<1>2. TreeList(s, n) /\ TreeList(t, n)
  BY <1>1, SortedIs
<1>3. \A k \in 1..n : DOMAIN s[k] = DOMAIN t[k]
  BY SortedPermuted
<1> HIDE DEF s, t
<1>4. DOMAIN Joined(d, s) = DOMAIN Joined(e, t)
  <2>1. /\ IsTree(Joined(d, s)) /\ IsTree(Joined(e, t))
        /\ \A x \in AnyPlace : x \in DOMAIN Joined(d, s) <=>
             x = <<>> \/ (x # <<>> /\ x[1] \in 1..n /\ Tail(x) \in DOMAIN s[x[1]])
        /\ \A x \in AnyPlace : x \in DOMAIN Joined(e, t) <=>
             x = <<>> \/ (x # <<>> /\ x[1] \in 1..n /\ Tail(x) \in DOMAIN t[x[1]])
    BY <1>2, JoinedIs
  <2> QED
    BY <1>3, <2>1 DEF IsTree
<1> QED
  BY <1>4 DEF WithChildren, s, t

(* The walk through a tree goes through its children one by one.            *)
LEMMA BeforeCons ==
  ASSUME NEW i \in Nat, NEW j \in Nat, NEW p \in AnyPlace, NEW q \in AnyPlace,
         i < j \/ (i = j /\ Before(p, q))
  PROVE  Before(<<i>> \o p, <<j>> \o q)
<1> DEFINE x == <<i>> \o p
           y == <<j>> \o q
<1>1. Len(p) \in Nat /\ Len(q) \in Nat
  BY LenProperties DEF AnyPlace
<1>2. /\ Len(x) = Len(p) + 1 /\ x[1] = i /\ Len(y) = Len(q) + 1 /\ y[1] = j
      /\ \A k \in 1..Len(p) : x[k + 1] = p[k]
      /\ \A k \in 1..Len(q) : y[k + 1] = q[k]
  <2>1. Len(<<i>>) = 1 /\ Len(<<j>>) = 1 /\ <<i>> \in Seq(Nat) /\ <<j>> \in Seq(Nat)
    OBVIOUS
  <2>2. /\ Len(x) = Len(p) + 1 /\ x[1] = i /\ Len(y) = Len(q) + 1 /\ y[1] = j
    BY ConsIs
  <2>3. /\ \A k \in 1..1 + Len(p) : x[k] = IF k <= 1 THEN <<i>>[k] ELSE p[k - 1]
        /\ \A k \in 1..1 + Len(q) : y[k] = IF k <= 1 THEN <<j>>[k] ELSE q[k - 1]
    BY <1>1, <2>1, ConcatProperties DEF AnyPlace
  <2> HIDE DEF x, y
  <2>4. ASSUME NEW k \in 1..Len(p) PROVE x[k + 1] = p[k]
    <3>1. k + 1 \in 1..1 + Len(p) /\ ~(k + 1 <= 1) /\ (k + 1) - 1 = k
      BY <1>1
    <3> QED
      BY <2>3, <3>1
  <2>5. ASSUME NEW k \in 1..Len(q) PROVE y[k + 1] = q[k]
    <3>1. k + 1 \in 1..1 + Len(q) /\ ~(k + 1 <= 1) /\ (k + 1) - 1 = k
      BY <1>1
    <3> QED
      BY <2>3, <3>1
  <2> QED
    BY <2>2, <2>4, <2>5
<1> HIDE DEF x, y
<1>3. CASE i < j
  <2>1. 0 \in 0..Len(x) /\ 0 < Len(y) /\ 0 + 1 = 1
    BY <1>1, <1>2
  <2> QED
    BY <1>2, <1>3, <2>1 DEF Before, x, y
<1>4. CASE i = j /\ Before(p, q)
  <2>1. PICK n \in 0..Len(p) : /\ n <= Len(q) /\ \A k \in 1..n : p[k] = q[k]
                               /\ n = Len(p) \/ (n < Len(q) /\ p[n + 1] < q[n + 1])
    BY <1>4 DEF Before
  <2>2. n \in Nat /\ n + 1 \in 0..Len(x) /\ n + 1 <= Len(y)
    BY <1>1, <1>2, <2>1
  <2>3. ASSUME NEW k \in 1..n + 1 PROVE x[k] = y[k]
    <3>1. CASE k = 1
      BY <1>2, <1>4, <3>1
    <3>2. CASE k # 1
      <4> DEFINE l == k - 1
      <4>1. l \in 1..n /\ l \in 1..Len(p) /\ l \in 1..Len(q) /\ k = l + 1
        BY <1>1, <2>1, <2>2, <3>2
      <4> HIDE DEF l
      <4>2. x[l + 1] = p[l] /\ y[l + 1] = q[l]
        BY <1>2, <4>1
      <4> QED
        BY <2>1, <4>1, <4>2
    <3> QED
      BY <3>1, <3>2
  <2>4. n + 1 = Len(x) \/ (n + 1 < Len(y) /\ x[n + 1 + 1] < y[n + 1 + 1])
    <3> SUFFICES ASSUME n # Len(p) PROVE n + 1 < Len(y) /\ x[n + 1 + 1] < y[n + 1 + 1]
      BY <1>2
    <3>1. n < Len(q) /\ p[n + 1] < q[n + 1] /\ n + 1 \in 1..Len(p) /\ n + 1 \in 1..Len(q)
      BY <1>1, <2>1, <2>2
    <3>2. x[n + 1 + 1] = p[n + 1] /\ y[n + 1 + 1] = q[n + 1]
      BY <1>2, <3>1
    <3> QED
      BY <1>1, <1>2, <3>1, <3>2
  <2>5. Before(x, y)
    BY <2>2, <2>3, <2>4 DEF Before
  <2> QED
    BY <2>5 DEF x, y
<1> QED
  BY <1>3, <1>4

(* The order of trees is that of Vec::cmp on their children: the first      *)
(* children that differ decide, and else the number of them (Ord).          *)
THEOREM CmpIsLexicographic ==
  ASSUME NEW n, NEW cs, TreeList(cs, n), NEW m, NEW ds, TreeList(ds, m), NEW d, NEW e
  PROVE  LET s == Joined(d, cs)
             t == Joined(e, ds)
         IN  \/ \E i \in 1..n \cap 1..m :
                  /\ \A j \in 1..i - 1 : Cmp(cs[j], ds[j]) = "equal"
                  /\ Cmp(cs[i], ds[i]) # "equal" /\ Cmp(s, t) = Cmp(cs[i], ds[i])
             \/ /\ \A j \in 1..n \cap 1..m : Cmp(cs[j], ds[j]) = "equal"
                /\ Cmp(s, t) = IF n < m THEN "less" ELSE IF m < n THEN "greater" ELSE "equal"
<1> DEFINE s == Joined(d, cs)
           t == Joined(e, ds)
<1>1. /\ n \in Nat /\ m \in Nat /\ IsTree(s) /\ IsTree(t)
      /\ \A i \in 1..n : IsTree(cs[i])
      /\ \A i \in 1..m : IsTree(ds[i])
  BY JoinedIs DEF TreeList
<1>2. \A x \in AnyPlace : x \in DOMAIN s <=>
        x = <<>> \/ (x # <<>> /\ x[1] \in 1..n /\ Tail(x) \in DOMAIN cs[x[1]])
  BY JoinedIs
<1>3. \A x \in AnyPlace : x \in DOMAIN t <=>
        x = <<>> \/ (x # <<>> /\ x[1] \in 1..m /\ Tail(x) \in DOMAIN ds[x[1]])
  BY JoinedIs
<1> HIDE DEF s, t
<1>4. \A j \in 1..n \cap 1..m : Cmp(cs[j], ds[j]) = "equal" <=> DOMAIN cs[j] = DOMAIN ds[j]
  BY <1>1, CmpIs
<1>5. ASSUME NEW x \in Differ(s, t)
      PROVE  /\ x \in AnyPlace /\ x # <<>> /\ x[1] \in Nat /\ Tail(x) \in AnyPlace
             /\ x = <<x[1]>> \o Tail(x)
             /\ \/ x[1] \in 1..n \cap 1..m /\ Tail(x) \in Differ(cs[x[1]], ds[x[1]])
                \/ x[1] \in 1..n \ 1..m /\ x \in DOMAIN s
                \/ x[1] \in 1..m \ 1..n /\ x \in DOMAIN t
  <2>1. x \in AnyPlace /\ x # <<>>
    BY <1>1, <1>5 DEF Differ, IsTree
  <2>2. x[1] \in Nat /\ Tail(x) \in AnyPlace /\ x = <<x[1]>> \o Tail(x)
    BY <2>1, Uncons
  <2> QED
    BY <1>2, <1>3, <1>5, <2>1, <2>2 DEF Differ
<1>6. ASSUME NEW i \in 1..n \cap 1..m, \A j \in 1..i - 1 : DOMAIN cs[j] = DOMAIN ds[j],
             NEW p \in Differ(cs[i], ds[i]), \A q \in Differ(cs[i], ds[i]) : Before(p, q)
      PROVE  /\ p \in DOMAIN cs[i] => Less(t, s)
             /\ p \in DOMAIN ds[i] => Less(s, t)
  <2>1. p \in AnyPlace /\ i \in Nat
    <3>1. i \in Nat /\ i \in 1..n /\ i \in 1..m
      BY <1>1
    <3>2. IsTree(cs[i]) /\ IsTree(ds[i])
      BY <1>1, <3>1
    <3> QED
      BY <3>1, <3>2 DEF Differ, IsTree
  <2> DEFINE y == <<i>> \o p
  <2>2. y \in AnyPlace /\ y # <<>> /\ y[1] = i /\ Tail(y) = p
    BY <2>1, ConsIs
  <2>3. (y \in DOMAIN s <=> p \in DOMAIN cs[i]) /\ (y \in DOMAIN t <=> p \in DOMAIN ds[i])
    BY <1>2, <1>3, <2>2
  <2>4. ASSUME NEW x \in Differ(s, t) PROVE Before(y, x)
    <3>1. /\ x[1] \in Nat /\ Tail(x) \in AnyPlace /\ x = <<x[1]>> \o Tail(x)
          /\ \/ x[1] \in 1..n \cap 1..m /\ Tail(x) \in Differ(cs[x[1]], ds[x[1]])
             \/ x[1] \in 1..n \ 1..m
             \/ x[1] \in 1..m \ 1..n
      BY <1>5
    <3>2. i < x[1] \/ (i = x[1] /\ Tail(x) \in Differ(cs[i], ds[i]))
      BY <1>1, <1>6, <2>1, <3>1 DEF Differ
    <3>3. i < x[1] \/ (i = x[1] /\ Before(p, Tail(x)))
      BY <1>6, <3>2
    <3>4. Before(<<i>> \o p, <<x[1]>> \o Tail(x))
      BY <2>1, <3>1, <3>3, BeforeCons
    <3> QED
      BY <3>1, <3>4
  <2> HIDE DEF y
  <2>5. Differ(t, s) = Differ(s, t)
    BY DEF Differ
  <2> QED
    BY <2>3, <2>4, <2>5 DEF Less, Differ
<1>7. CASE \A j \in 1..n \cap 1..m : DOMAIN cs[j] = DOMAIN ds[j]
  <2>1. ASSUME NEW x \in Differ(s, t)
        PROVE  x[1] \in Nat /\ (x[1] \in 1..n \ 1..m \/ x[1] \in 1..m \ 1..n)
    BY <1>5, <1>7 DEF Differ
  <2>2. CASE n = m
    <3>1. Differ(s, t) = {}
      BY <2>1, <2>2
    <3>2. DOMAIN s = DOMAIN t
      BY <3>1 DEF Differ
    <3> QED
      BY <1>1, <1>4, <1>7, <2>2, <3>2, CmpIs DEF s, t
  <2>3. CASE n < m
    <3> DEFINE k == n + 1
               e0 == <<>>
               y == <<k>> \o e0
    <3>a. k \in 1..m /\ k \in Nat /\ k \notin 1..n
      BY <1>1, <2>3
    <3> HIDE DEF k
    <3>b. e0 \in AnyPlace
      BY DEF AnyPlace
    <3>c. IsTree(ds[k])
      BY <1>1, <3>a
    <3>1. /\ k \in 1..m /\ k \in Nat /\ k \notin 1..n
          /\ e0 \in AnyPlace /\ e0 = <<>> /\ e0 \in DOMAIN ds[k]
      BY <3>a, <3>b, <3>c DEF IsTree
    <3> HIDE DEF e0
    <3>2. y \in AnyPlace /\ y # <<>> /\ y[1] = k /\ Tail(y) = e0
      BY <3>1, ConsIs
    <3>3. y \in DOMAIN t \ DOMAIN s
      BY <1>2, <1>3, <3>1, <3>2
    <3>4. ASSUME NEW x \in Differ(s, t) PROVE Before(y, x)
      <4>1. x[1] \in Nat /\ Tail(x) \in AnyPlace /\ x = <<x[1]>> \o Tail(x)
        BY <1>5
      <4>2. k <= x[1]
        BY <1>1, <2>1, <2>3 DEF k
      <4>3. Before(<<>>, Tail(x))
        BY <4>1 DEF Before, AnyPlace
      <4>a. Before(e0, Tail(x))
        BY <3>1, <4>3
      <4>b. k < x[1] \/ (k = x[1] /\ Before(e0, Tail(x)))
        BY <3>1, <4>1, <4>2, <4>a
      <4>c. \A q \in AnyPlace, j \in Nat : k < j \/ (k = j /\ Before(e0, q))
                                     => Before(<<k>> \o e0, <<j>> \o q)
        BY <3>1, BeforeCons
      <4>4. Before(<<k>> \o e0, <<x[1]>> \o Tail(x))
        BY <4>1, <4>b, <4>c
      <4> QED
        BY <4>1, <4>4
    <3> HIDE DEF y
    <3>5. Less(s, t)
      BY <3>3, <3>4 DEF Less
    <3>6. Cmp(s, t) = "less"
      BY <1>1, <3>5, CmpIs
    <3> QED
      BY <1>4, <1>7, <2>3, <3>6 DEF s, t
  <2>4. CASE m < n
    <3> DEFINE k == m + 1
               e0 == <<>>
               y == <<k>> \o e0
    <3>a. k \in 1..n /\ k \in Nat /\ k \notin 1..m
      BY <1>1, <2>4
    <3> HIDE DEF k
    <3>b. e0 \in AnyPlace
      BY DEF AnyPlace
    <3>c. IsTree(cs[k])
      BY <1>1, <3>a
    <3>1. /\ k \in 1..n /\ k \in Nat /\ k \notin 1..m
          /\ e0 \in AnyPlace /\ e0 = <<>> /\ e0 \in DOMAIN cs[k]
      BY <3>a, <3>b, <3>c DEF IsTree
    <3> HIDE DEF e0
    <3>2. y \in AnyPlace /\ y # <<>> /\ y[1] = k /\ Tail(y) = e0
      BY <3>1, ConsIs
    <3>3. y \in DOMAIN s \ DOMAIN t
      BY <1>2, <1>3, <3>1, <3>2
    <3>4. ASSUME NEW x \in Differ(s, t) PROVE Before(y, x)
      <4>1. x[1] \in Nat /\ Tail(x) \in AnyPlace /\ x = <<x[1]>> \o Tail(x)
        BY <1>5
      <4>2. k <= x[1]
        BY <1>1, <2>1, <2>4 DEF k
      <4>3. Before(<<>>, Tail(x))
        BY <4>1 DEF Before, AnyPlace
      <4>a. Before(e0, Tail(x))
        BY <3>1, <4>3
      <4>b. k < x[1] \/ (k = x[1] /\ Before(e0, Tail(x)))
        BY <3>1, <4>1, <4>2, <4>a
      <4>c. \A q \in AnyPlace, j \in Nat : k < j \/ (k = j /\ Before(e0, q))
                                     => Before(<<k>> \o e0, <<j>> \o q)
        BY <3>1, BeforeCons
      <4>4. Before(<<k>> \o e0, <<x[1]>> \o Tail(x))
        BY <4>1, <4>b, <4>c
      <4> QED
        BY <4>1, <4>4
    <3> HIDE DEF y
    <3>5. Less(t, s)
      BY <3>3, <3>4 DEF Less, Differ
    <3>6. Cmp(s, t) = "greater"
      BY <1>1, <3>5, CmpIs
    <3>7. ~(n < m)
      BY <1>1, <2>4
    <3> QED
      BY <1>4, <1>7, <2>4, <3>6, <3>7 DEF s, t
  <2> QED
    BY <1>1, <2>2, <2>3, <2>4
<1>8. CASE ~\A j \in 1..n \cap 1..m : DOMAIN cs[j] = DOMAIN ds[j]
  <2> DEFINE Parted == {j \in 1..n \cap 1..m : DOMAIN cs[j] # DOMAIN ds[j]}
  <2>1. Parted \in SUBSET Nat /\ Parted # {}
    BY <1>1, <1>8
  <2>2. PICK i \in Parted : \A j \in Parted : i <= j
    <3> HIDE DEF Parted
    <3> QED
      BY <2>1, Least
  <2>3. i \in 1..n \cap 1..m /\ i \in Nat /\ DOMAIN cs[i] # DOMAIN ds[i]
    BY <2>2
  <2>4. \A j \in 1..i - 1 : j \in 1..n \cap 1..m /\ DOMAIN cs[j] = DOMAIN ds[j]
    BY <1>1, <2>2, <2>3
  <2> HIDE DEF Parted
  <2>5. Differ(cs[i], ds[i]) # {} /\ Differ(cs[i], ds[i]) \subseteq AnyPlace
    BY <1>1, <2>3 DEF Differ, IsTree
  <2>6. IsFiniteSet(Differ(cs[i], ds[i]))
    <3>1. /\ DOMAIN cs[i] \ DOMAIN ds[i] \in SUBSET DOMAIN cs[i]
          /\ DOMAIN ds[i] \ DOMAIN cs[i] \in SUBSET DOMAIN ds[i]
      OBVIOUS
    <3>2. IsFiniteSet(DOMAIN cs[i]) /\ IsFiniteSet(DOMAIN ds[i])
      BY <1>1, <2>3 DEF IsTree
    <3> QED
      BY <3>1, <3>2, FS_Subset, FS_Union DEF Differ
  <2>7. PICK p \in Differ(cs[i], ds[i]) : \A q \in Differ(cs[i], ds[i]) : Before(p, q)
    BY <2>5, <2>6, FirstExists
  <2>8. IsTree(cs[i]) /\ IsTree(ds[i])
    BY <1>1, <2>3
  <2>9. Cmp(s, t) = Cmp(cs[i], ds[i])
    <3>1. CASE p \in DOMAIN cs[i]
      <4>1. Less(t, s)
        BY <1>6, <2>3, <2>4, <2>7, <3>1
      <4>2. Less(ds[i], cs[i])
        BY <2>7, <3>1 DEF Less, Differ
      <4> QED
        BY <1>1, <2>8, <4>1, <4>2, CmpIs
    <3>2. CASE p \in DOMAIN ds[i]
      <4>1. Less(s, t)
        BY <1>6, <2>3, <2>4, <2>7, <3>2
      <4>2. Less(cs[i], ds[i])
        BY <2>7, <3>2 DEF Less, Differ
      <4> QED
        BY <1>1, <2>8, <4>1, <4>2, CmpIs
    <3> QED
      BY <2>7, <3>1, <3>2 DEF Differ
  <2>10. /\ \A j \in 1..i - 1 : Cmp(cs[j], ds[j]) = "equal"
         /\ Cmp(cs[i], ds[i]) # "equal"
    BY <1>4, <2>3, <2>4
  <2> QED
    BY <2>3, <2>9, <2>10 DEF s, t
<1> QED
  BY <1>7, <1>8

-----------------------------------------------------------------------------
(* The trees of namespaces that a network of given links is made of.        *)
Names(l, r, p) ==
    [q \in Under(Place(r), p) |->
        [namespace |-> <<r, p \o q>>,
         ip |-> IF p \o q = <<>> THEN "localhost" ELSE <<l[p \o q], 1>>]]

Here(r, p) == Names(link[r], r, p)
Heres(r) == {Here(r, p) : p \in Place(r)}

LEMMA KidsNumbered ==
  ASSUME NEW S, IsShape(S), NEW p \in S
  PROVE  LET kids == {q \in S : q # <<>> /\ Front(q) = p}
             n == Cardinality(kids)
         IN  /\ n \in Nat
             /\ \A i \in Nat : Append(p, i) \in S <=> i \in 1..n
             /\ kids = {Append(p, i) : i \in 1..n}
<1> DEFINE kids == {q \in S : q # <<>> /\ Front(q) = p}
           n == Cardinality(kids)
           T == {i \in Nat \ {0} : Append(p, i) \in S}
           f == [i \in T |-> Append(p, i)]
<1>1. p \in AnyPlace /\ IsFiniteSet(kids)
  <2>1. kids \in SUBSET S /\ IsFiniteSet(S) /\ p \in AnyPlace
    BY ShapeIs
  <2> HIDE DEF kids
  <2> QED
    BY <2>1, FS_Subset
<1>2. ASSUME NEW i \in Nat, Append(p, i) \in S PROVE i \in T /\ Append(p, i) \in kids
  <2>1. Append(p, i) # <<>> /\ Front(Append(p, i)) = p /\ Last(Append(p, i)) = i
    BY <1>1, SnocIs
  <2>2. i # 0
    BY <1>2, <2>1, ShapeIs
  <2> QED
    BY <1>2, <2>1, <2>2
<1>3. ASSUME NEW q \in kids PROVE Last(q) \in T /\ q = Append(p, Last(q))
  <2>1. q \in S /\ q # <<>> /\ Front(q) = p /\ q \in AnyPlace
    BY ShapeIs
  <2>2. q = Append(p, Last(q)) /\ Last(q) \in Nat
    BY <2>1, Unsnoc
  <2> QED
    BY <1>2, <2>1, <2>2
<1>4. \A i \in T : f[i] \in kids
  BY <1>2
<1>5. \A i, j \in T : f[i] = f[j] => i = j
  BY <1>1, SnocIs
<1>6. \A q \in kids : \E i \in T : f[i] = q
  BY <1>3
<1>7. f \in Injection(T, kids) /\ f \in Surjection(T, kids)
  BY <1>4, <1>5, <1>6 DEF Injection, IsInjective, Surjection
<1>8. IsFiniteSet(T) /\ Cardinality(T) = n
  BY <1>1, <1>7, FS_Injection
<1>9. T = 1..n
  <2>1. \A i \in T : \A j \in 1..i : j \in T
    <3> SUFFICES ASSUME NEW i \in T, NEW j \in 1..i PROVE Append(p, j) \in S
      OBVIOUS
    <3>1. Append(p, i) # <<>> /\ Front(Append(p, i)) = p /\ Last(Append(p, i)) = i
      BY <1>1, SnocIs
    <3> QED
      BY <3>1, ShapeIs
  <2>2. T \in SUBSET (Nat \ {0})
    OBVIOUS
  <2> HIDE DEF T
  <2> QED
    BY <1>8, <2>1, <2>2, Segment
<1>10. n \in Nat
  BY <1>1, FS_CardinalityType
<1>11. \A i \in Nat : Append(p, i) \in S <=> i \in 1..n
  BY <1>2, <1>9
<1>12. kids = {Append(p, i) : i \in 1..n}
  <2>1. \A i \in T : f[i] = Append(p, i)
    OBVIOUS
  <2> HIDE DEF kids, n, T, f
  <2> QED
    BY <1>4, <1>6, <1>9, <2>1
<1> QED
  BY <1>10, <1>11, <1>12

Width(r, p) == Cardinality(Child(r, p))

LEMMA PlaceIs ==
  ASSUME NEW r \in Request, NEW p \in Place(r)
  PROVE  /\ p \in AnyPlace /\ IsShape(Place(r)) /\ Place(r) \subseteq AnyPlace
         /\ IsFiniteSet(Place(r)) /\ <<>> \in Place(r)
         /\ Width(r, p) \in Nat
         /\ \A i \in Nat : Append(p, i) \in Place(r) <=> i \in 1..Width(r, p)
         /\ Child(r, p) = {Append(p, i) : i \in 1..Width(r, p)}
         /\ Under(Place(r), p) = {q \in AnyPlace : p \o q \in Place(r)}
<1>1. IsShape(Place(r))
  BY TopologyAssumption DEF Place
<1>2. Place(r) \subseteq AnyPlace /\ IsFiniteSet(Place(r)) /\ <<>> \in Place(r) /\ p \in AnyPlace
  BY <1>1, ShapeIs
<1>3. /\ Width(r, p) \in Nat
      /\ \A i \in Nat : Append(p, i) \in Place(r) <=> i \in 1..Width(r, p)
      /\ Child(r, p) = {Append(p, i) : i \in 1..Width(r, p)}
  BY <1>1, KidsNumbered DEF Width, Child
<1>4. Under(Place(r), p) = {q \in AnyPlace : p \o q \in Place(r)}
  BY <1>2, UnderIs
<1> QED
  BY <1>1, <1>2, <1>3, <1>4

LEMMA UnderTree ==
  ASSUME NEW r \in Request, NEW p \in Place(r), NEW t,
         t = [q \in Under(Place(r), p) |-> t[q]]
  PROVE  IsTree(t)
<1>1. Place(r) \subseteq AnyPlace /\ IsFiniteSet(Place(r)) /\ p \in AnyPlace
      /\ Under(Place(r), p) = {q \in AnyPlace : p \o q \in Place(r)}
  BY PlaceIs
<1>2. <<>> \in Under(Place(r), p)
  <2>1. p \o <<>> = p /\ <<>> \in AnyPlace
    BY <1>1, ConcatEmptySeq DEF AnyPlace
  <2> QED
    BY <1>1, <2>1
<1> QED
  BY <1>1, <1>2, UnderFinite DEF IsTree

LEMMA DegreeIs ==
  ASSUME NEW r \in Request, NEW p \in Place(r)
  PROVE  Degree(Sub(Wanted[r], p)) = Width(r, p)
<1> DEFINE One == {x \in Under(Place(r), p) : Len(x) = 1}
           n == Width(r, p)
           f == [i \in 1..n |-> <<i>>]
<1>1. /\ p \in AnyPlace /\ n \in Nat /\ Under(Place(r), p) = {q \in AnyPlace : p \o q \in Place(r)}
      /\ \A i \in Nat : Append(p, i) \in Place(r) <=> i \in 1..n
  BY PlaceIs
<1>2. ASSUME NEW i \in 1..n PROVE <<i>> \in One
  <2>1. Append(p, i) \in Place(r) /\ Append(p, i) = p \o <<i>>
    BY <1>1, SnocIs
  <2>2. <<i>> \in AnyPlace /\ Len(<<i>>) = 1
    BY <1>1 DEF AnyPlace
  <2> QED
    BY <1>1, <2>1, <2>2
<1>3. ASSUME NEW x \in One PROVE \E i \in 1..n : f[i] = x
  <2>1. x \in AnyPlace /\ Len(x) = 1 /\ p \o x \in Place(r)
    BY <1>1
  <2>2. x = <<x[1]>> /\ x[1] \in Nat
    BY <2>1 DEF AnyPlace
  <2>3. Append(p, x[1]) \in Place(r)
    <3>1. Append(p, x[1]) = p \o <<x[1]>>
      BY <1>1, <2>2, SnocIs
    <3>2. p \o <<x[1]>> = p \o x
      BY <2>2
    <3> QED
      BY <2>1, <3>1, <3>2
  <2> QED
    BY <1>1, <2>2, <2>3
<1>4. f \in Surjection(1..n, One) /\ f \in Injection(1..n, One)
  BY <1>2, <1>3 DEF Surjection, Injection, IsInjective
<1>5. IsFiniteSet(1..n) /\ Cardinality(1..n) = n
  BY <1>1, FS_Interval
<1>6. Cardinality(One) = n
  BY <1>4, <1>5, FS_Surjection
<1>7. DOMAIN Sub(Wanted[r], p) = Under(Place(r), p)
  BY DEF Sub, Place
<1> QED
  BY <1>6, <1>7 DEF Degree

NamesBelow(l, r, p) == [i \in 1..Width(r, p) |-> Names(l, r, Append(p, i))]

LEMMA NamesAscend ==
  ASSUME NEW r \in Request, NEW p \in Place(r), NEW l
  PROVE  /\ TreeList(NamesBelow(l, r, p), Width(r, p))
         /\ Ascending(NamesBelow(l, r, p), Width(r, p))
<1> DEFINE n == Width(r, p)
           W(i) == Sub(Wanted[r], Append(p, i))
           N(i) == Names(l, r, Append(p, i))
<1>1. n \in Nat /\ \A i \in 1..n : Append(p, i) \in Place(r)
  BY PlaceIs
<1>2. ASSUME NEW i \in 1..n
      PROVE  /\ IsTree(N(i)) /\ IsTree(W(i))
             /\ DOMAIN N(i) = DOMAIN W(i)
  <2>1. N(i) = [q \in Under(Place(r), Append(p, i)) |-> N(i)[q]]
    BY DEF Names
  <2>2. W(i) = [q \in Under(Place(r), Append(p, i)) |-> W(i)[q]]
    BY DEF Sub, Place
  <2> HIDE DEF N, W
  <2> QED
    BY <1>1, <2>1, <2>2, UnderTree
<1>3. ASSUME NEW i \in 1..n, NEW j \in 1..n, i < j PROVE ~Less(N(j), N(i))
  <2>1. Cmp(W(i), W(j)) # "greater"
    <3>1. Ordered(Wanted[r]) /\ p \in DOMAIN Wanted[r]
      BY TopologyAssumption DEF Place
    <3>2. i \in 1..Degree(Sub(Wanted[r], p)) /\ j \in 1..Degree(Sub(Wanted[r], p))
      BY DegreeIs
    <3> QED
      BY <1>3, <3>1, <3>2 DEF Ordered
  <2>2. ~Less(W(j), W(i))
    <3> HIDE DEF W, N
    <3> QED
      BY <1>2, <2>1, CmpIs
  <2> HIDE DEF W, N
  <2> QED
    BY <1>2, <2>2 DEF Less, Differ
<1>4. NamesBelow(l, r, p) = [i \in 1..n |-> N(i)]
  BY DEF NamesBelow
<1> HIDE DEF N, W
<1>5. \A i \in 1..n : NamesBelow(l, r, p)[i] = N(i)
  BY <1>4
<1> QED
  BY <1>1, <1>2, <1>3, <1>4, <1>5 DEF TreeList, Ascending

NameOf(l, r, p) ==
    [namespace |-> <<r, p>>, ip |-> IF p = <<>> THEN "localhost" ELSE <<l[p], 1>>]

LEMMA NamesJoined ==
  ASSUME NEW r \in Request, NEW p \in Place(r), NEW l
  PROVE  Joined(NameOf(l, r, p), NamesBelow(l, r, p)) = Names(l, r, p)
<1> DEFINE n == Width(r, p)
           cs == NamesBelow(l, r, p)
           t == Joined(NameOf(l, r, p), cs)
<1>1. /\ p \in AnyPlace /\ n \in Nat /\ Place(r) \subseteq AnyPlace /\ IsShape(Place(r))
      /\ Under(Place(r), p) = {q \in AnyPlace : p \o q \in Place(r)}
      /\ \A i \in Nat : Append(p, i) \in Place(r) <=> i \in 1..n
  BY PlaceIs
<1>2. TreeList(cs, n)
  BY NamesAscend
<1>3. /\ IsTree(t) /\ t[<<>>] = NameOf(l, r, p)
      /\ \A x \in AnyPlace : x \in DOMAIN t <=>
           x = <<>> \/ (x # <<>> /\ x[1] \in 1..n /\ Tail(x) \in DOMAIN cs[x[1]])
  <2> HIDE DEF cs, n
  <2> QED
    BY <1>2, JoinedIs
<1>4. ASSUME NEW i \in 1..n, NEW q \in DOMAIN cs[i] PROVE t[<<i>> \o q] = cs[i][q]
  <2> HIDE DEF cs, n
  <2> QED
    BY <1>2, JoinedIs
<1>5. ASSUME NEW i \in 1..n
      PROVE  /\ cs[i] = Names(l, r, Append(p, i))
             /\ \A q \in AnyPlace : q \in DOMAIN cs[i] <=> p \o (<<i>> \o q) \in Place(r)
             /\ \A q \in DOMAIN cs[i] : cs[i][q] = NameOf(l, r, p \o (<<i>> \o q))
  <2>1. cs[i] = Names(l, r, Append(p, i))
    BY DEF NamesBelow
  <2>2. Append(p, i) \in Place(r) /\ i \in Nat
    BY <1>1
  <2>3. Under(Place(r), Append(p, i)) = {q \in AnyPlace : Append(p, i) \o q \in Place(r)}
    BY <2>2, PlaceIs
  <2>4. \A q \in AnyPlace : Append(p, i) \o q = p \o (<<i>> \o q)
    BY <1>1, <2>2, SnocConcat
  <2>5. DOMAIN cs[i] = {q \in AnyPlace : Append(p, i) \o q \in Place(r)}
    BY <2>1, <2>3 DEF Names
  <2>6. \A q \in DOMAIN cs[i] : cs[i][q] = NameOf(l, r, Append(p, i) \o q)
    BY <2>1 DEF Names, NameOf
  <2> HIDE DEF cs
  <2> QED
    BY <2>1, <2>4, <2>5, <2>6
<1> HIDE DEF t, cs
<1>6. ASSUME NEW x \in AnyPlace, x # <<>>
      PROVE  /\ x \in DOMAIN t <=> p \o x \in Place(r)
             /\ x \in DOMAIN t => t[x] = NameOf(l, r, p \o x)
  <2>1. x[1] \in Nat /\ Tail(x) \in AnyPlace /\ x = <<x[1]>> \o Tail(x)
    BY <1>6, Uncons
  <2>2. ASSUME p \o x \in Place(r) PROVE x[1] \in 1..n
    <3>1. p \o x = Append(p, x[1]) \o Tail(x) /\ Append(p, x[1]) \in AnyPlace
      <4>1. Append(p, x[1]) \o Tail(x) = p \o (<<x[1]>> \o Tail(x))
        BY <1>1, <2>1, SnocConcat
      <4>2. p \o (<<x[1]>> \o Tail(x)) = p \o x
        BY <2>1
      <4>3. Append(p, x[1]) \in AnyPlace
        BY <1>1, <2>1, SnocIs
      <4> QED
        BY <4>1, <4>2, <4>3
    <3>2. Append(p, x[1]) \in Place(r)
      BY <1>1, <2>1, <2>2, <3>1, ShapePrefixed
    <3> QED
      BY <1>1, <2>1, <3>2
  <2>3. x \in DOMAIN t <=> p \o x \in Place(r)
    BY <1>3, <1>5, <1>6, <2>1, <2>2
  <2>4. ASSUME x \in DOMAIN t PROVE t[x] = NameOf(l, r, p \o x)
    <3>1. x[1] \in 1..n /\ Tail(x) \in DOMAIN cs[x[1]]
      BY <1>3, <1>6, <2>4
    <3>2. t[<<x[1]>> \o Tail(x)] = cs[x[1]][Tail(x)]
      BY <1>4, <3>1
    <3>3. cs[x[1]][Tail(x)] = NameOf(l, r, p \o (<<x[1]>> \o Tail(x)))
      BY <1>5, <3>1
    <3> QED
      BY <2>1, <3>2, <3>3
  <2> QED
    BY <2>3, <2>4
<1>7. p \o <<>> = p /\ <<>> \in AnyPlace
  BY <1>1, ConcatEmptySeq DEF AnyPlace
<1>8. DOMAIN t = Under(Place(r), p)
  BY <1>1, <1>3, <1>6, <1>7 DEF IsTree
<1>9. \A x \in DOMAIN t : t[x] = NameOf(l, r, p \o x)
  BY <1>3, <1>6, <1>7 DEF IsTree
<1>10. Names(l, r, p) = [q \in Under(Place(r), p) |-> NameOf(l, r, p \o q)]
  BY DEF Names, NameOf
<1>11. t = [q \in DOMAIN t |-> t[q]]
  BY <1>3 DEF IsTree
<1>12. t = [q \in Under(Place(r), p) |-> NameOf(l, r, p \o q)]
  BY <1>8, <1>9, <1>11
<1> QED
  BY <1>10, <1>12 DEF t, cs

LEMMA NamesChildren ==
  ASSUME NEW r \in Request, NEW p \in Place(r), NEW l
  PROVE  Children(Names(l, r, p)) = NamesBelow(l, r, p)
<1>1. TreeList(NamesBelow(l, r, p), Width(r, p))
  BY NamesAscend
<1> QED
  BY <1>1, NamesJoined, ChildrenJoined

-----------------------------------------------------------------------------
(* Networks: where a request is, and what is remembered of it.              *)
Stages == {"idle", "creating", "answered", "failed", "deleting", "deleted", "stuck"}

NetType ==
    /\ counter \in 0..Subnets - 1
    /\ request \in [Request -> Stages]
    /\ link = [r \in Request |-> link[r]]
    /\ \A r \in Request :
         /\ DOMAIN link[r] \subseteq Place(r) \ {<<>>}
         /\ link[r] \in [DOMAIN link[r] -> 0..Subnets - 1]
    /\ \A n \in namespaces : n[1] \in Request /\ n[2] \in Place(n[1]) /\ n = <<n[1], n[2]>>
    /\ address = [n \in namespaces |-> address[n]]
    /\ realized = [r \in Request |-> realized[r]]
    /\ \A r \in Request : /\ DOMAIN realized[r] \subseteq Place(r)
                          /\ realized[r] = [p \in DOMAIN realized[r] |-> realized[r][p]]
    /\ doomed = [r \in Request |-> doomed[r]]

(* A namespace is made after the bridges to it and to its children.         *)
BridgesFirst ==
    \A r \in Request : \A p \in Place(r) :
        <<r, p>> \in namespaces => Picked(r, p) /\ \A q \in Child(r, p) : Picked(r, q)

(* What realize_topology returned is the tree of the names below its root.  *)
RealizedAsNamed ==
    \A r \in Request : \A p \in DOMAIN realized[r] :
        /\ realized[r][p] = Here(r, p)
        /\ \A q \in Under(Place(r), p) : p \o q \in DOMAIN realized[r]
        /\ Picked(r, p)

(* A namespace that was returned stays with its bridges until deletion.     *)
RealizedStays ==
    \A r \in Request :
        /\ request[r] \in {"idle", "creating"} =>
             \A p \in Place(r) : Built(r, p) => p \in DOMAIN realized[r]
        /\ request[r] \in {"idle", "creating", "answered"} =>
             \A p \in DOMAIN realized[r] :
                 Built(r, p) /\ BridgeEnds(r, p) \subseteq address[<<r, p>>]
        /\ request[r] \in {"answered", "deleting"} => <<>> \in DOMAIN realized[r]

(* What is left of a network that is being deleted is on the stack.         *)
LeftOnStack ==
    \A r \in Request :
        request[r] = "deleting" =>
            /\ doomed[r] \in Seq(Heres(r))
            /\ \A p \in Place(r) : <<r, p>> \in namespaces =>
                 \E k \in 1..Len(doomed[r]) : \E q \in DOMAIN doomed[r][k] :
                     doomed[r][k][q].namespace = <<r, p>>

NetInv == NetType /\ BridgesFirst /\ RealizedAsNamed /\ RealizedStays /\ LeftOnStack /\ DeletedIsGone

(* realize_topology returns the tree of names, when it got its children.    *)
LEMMA ConcreteIs ==
  ASSUME NEW r \in Request, NEW p \in Place(r),
         \A i \in 1..Width(r, p) : realized[r][Append(p, i)] = Here(r, Append(p, i))
  PROVE  Concrete(r, p) = Here(r, p)
<1> DEFINE n == Width(r, p)
           cs == NamesBelow(link[r], r, p)
           d == NameOf(link[r], r, p)
           Eq(f) == f = [i \in 0..Cardinality(Child(r, p)) |->
                           IF i = 0 THEN New([namespace |-> <<r, p>>, ip |-> Ip(r, p)])
                           ELSE AddChild(f[i - 1], realized[r][Append(p, i)])]
           Gq(f) == f = [i \in 0..n |-> IF i = 0 THEN New(d) ELSE AddChild(f[i - 1], cs[i])]
<1>1. TreeList(cs, n) /\ Ascending(cs, n) /\ n \in Nat
  BY NamesAscend, PlaceIs
<1>2. ASSUME NEW f PROVE Eq(f) <=> Gq(f)
  <2>1. d = [namespace |-> <<r, p>>, ip |-> Ip(r, p)]
    BY DEF NameOf, Ip
  <2>2. \A i \in 1..n : cs[i] = realized[r][Append(p, i)]
    BY DEF NamesBelow, Here
  <2> DEFINE a == [i \in 0..n |-> IF i = 0 THEN New(d) ELSE AddChild(f[i - 1], cs[i])]
             b == [i \in 0..n |-> IF i = 0 THEN New(d)
                                  ELSE AddChild(f[i - 1], realized[r][Append(p, i)])]
  <2>3. \A i \in 0..n : a[i] = b[i]
    <3> SUFFICES ASSUME NEW i \in 0..n PROVE a[i] = b[i]
      OBVIOUS
    <3>1. CASE i = 0
      BY <3>1
    <3>2. CASE i # 0
      <4>1. i \in 1..n
        BY <1>1, <3>2
      <4> QED
        BY <2>2, <3>2, <4>1
    <3> QED
      BY <3>1, <3>2
  <2>4. a = b
    BY <2>3
  <2>5. n = Cardinality(Child(r, p))
    BY DEF Width
  <2> QED
    BY <2>1, <2>4, <2>5
<1>3. \E f : Gq(f)
  BY <1>1, GrowExists
<1> DEFINE g == CHOOSE f : Eq(f)
<1>4. Eq(g)
  <2> HIDE DEF Eq, Gq
  <2> QED
    BY <1>2, <1>3
<1>5. Concrete(r, p) = g[n]
  BY DEF Concrete, Width
<1>6. Gq(g)
  <2> HIDE DEF Eq, Gq, g
  <2> QED
    BY <1>2, <1>4
<1> HIDE DEF g, cs, d, n
<1>7. g[n] = Joined(d, cs)
  BY <1>1, <1>6, Grown
<1> QED
  BY <1>5, <1>7, NamesJoined DEF Here, cs, d, n

LEMMA NextIs ==
  ASSUME counter \in 0..Subnets - 1
  PROVE  /\ NextCounter = IF counter + 1 = Subnets THEN 0 ELSE counter + 1
         /\ NextCounter \in 0..Subnets - 1
<1>1. Subnets \in Nat \ {0} /\ counter \in Nat /\ counter + 1 <= Subnets
  BY TopologyAssumption
<1>2. CASE counter + 1 = Subnets
  <2>1. Subnets % Subnets = 0
    BY <1>1
  <2> QED
    BY <1>1, <1>2, <2>1 DEF NextCounter
<1>3. CASE counter + 1 < Subnets
  <2>1. (counter + 1) % Subnets = counter + 1
    BY <1>1, <1>3
  <2> QED
    BY <1>1, <1>3, <2>1 DEF NextCounter
<1> QED
  BY <1>1, <1>2, <1>3

Kept ==
    \A r \in Request : /\ DOMAIN link[r] \subseteq DOMAIN link'[r]
                       /\ \A q \in DOMAIN link[r] : link'[r][q] = link[r][q]

LEMMA PickEffect ==
  ASSUME NetType, NEW r \in Request, NEW p \in Place(r), PickBridge(r, p)
  PROVE  /\ DOMAIN link'[r] = DOMAIN link[r] \cup {p} /\ link'[r][p] = counter
         /\ \A q \in DOMAIN link[r] : link'[r][q] = link[r][q]
         /\ \A s \in Request \ {r} : link'[s] = link[s]
         /\ p \notin DOMAIN link[r] /\ p # <<>>
         /\ link' = [s \in Request |-> link'[s]]
         /\ link'[r] = [q \in DOMAIN link'[r] |-> link'[r][q]]
BY DEF NetType, PickBridge, Picked

LEMMA LinksKept ==
  ASSUME NetType, NetNext
  PROVE  Kept
<1>1. CASE UNCHANGED link
  BY <1>1 DEF Kept
<1>2. ASSUME NEW r \in Request, NEW p \in Place(r), PickBridge(r, p) PROVE Kept
  BY <1>2, PickEffect DEF Kept
<1> QED
  BY <1>1, <1>2 DEF NetNext, CreateNetwork, Answer, CreateFails, CreateNamespace,
     DeleteNetwork, DeleteNamespace, NetworkDeleted, DeleteFails

LEMMA HereStays ==
  ASSUME NetType, RealizedAsNamed, Kept, NEW r \in Request, NEW p \in DOMAIN realized[r]
  PROVE  Here(r, p)' = Here(r, p)
<1>1. p \in Place(r) /\ \A q \in Under(Place(r), p) : p \o q \in DOMAIN realized[r]
  BY DEF NetType, RealizedAsNamed
<1>2. \A q \in Under(Place(r), p) : p \o q = <<>> \/ link'[r][p \o q] = link[r][p \o q]
  BY <1>1 DEF RealizedAsNamed, Picked, Kept
<1>3. Names(link'[r], r, p) = Names(link[r], r, p)
  BY <1>2 DEF Names
<1> QED
  BY <1>3 DEF Here, Names

LEMMA EndsStay ==
  ASSUME NetType, BridgesFirst, Kept, NEW r \in Request, NEW p \in Place(r), <<r, p>> \in namespaces
  PROVE  /\ BridgeEnds(r, p)' = BridgeEnds(r, p)
         /\ Picked(r, p)' /\ \A q \in Child(r, p) : Picked(r, q)'
<1>1. Picked(r, p) /\ \A q \in Child(r, p) : Picked(r, q) /\ q # <<>>
  BY DEF BridgesFirst, Child
<1>2. p = <<>> \/ link'[r][p] = link[r][p]
  BY <1>1 DEF Picked, Kept
<1>3. \A q \in Child(r, p) : link'[r][q] = link[r][q] /\ q \in DOMAIN link'[r]
  BY <1>1 DEF Picked, Kept
<1>4. Child(r, p)' = Child(r, p)
  BY DEF Child, Place
<1>5. {<<link'[r][q], 0>> : q \in Child(r, p)} = {<<link[r][q], 0>> : q \in Child(r, p)}
  BY <1>3
<1> QED
  BY <1>1, <1>2, <1>3, <1>4, <1>5 DEF BridgeEnds, Picked, Kept

-----------------------------------------------------------------------------
(* The first invariant: what is built, returned and on the stack.           *)
LEMMA NetInitInv == ASSUME NetInit PROVE NetInv
<1> USE DEF NetInit
<1>1. NetType
  BY TopologyAssumption DEF NetType, Stages
<1>2. BridgesFirst /\ DeletedIsGone
  BY DEF BridgesFirst, DeletedIsGone
<1>3. RealizedAsNamed /\ RealizedStays /\ LeftOnStack
  BY DEF RealizedAsNamed, RealizedStays, LeftOnStack, Built
<1> QED
  BY <1>1, <1>2, <1>3 DEF NetInv

LEMMA HereSame ==
  ASSUME UNCHANGED link, NEW r
  PROVE  (\A p : Here(r, p)' = Here(r, p)) /\ Heres(r)' = Heres(r)
<1>1. \A p : Here(r, p)' = Here(r, p)
  BY DEF Here, Names
<1> QED
  BY <1>1 DEF Heres, Here, Names, Place

LEMMA NetStutter == ASSUME NetInv, UNCHANGED netVars PROVE NetInv'
<1> USE DEF netVars
<1>1. NetType'
  BY DEF NetInv, NetType
<1>2. BridgesFirst' /\ DeletedIsGone'
  BY DEF NetInv, BridgesFirst, DeletedIsGone, Picked, Child, Place
<1>3. RealizedAsNamed'
  BY HereSame DEF NetInv, RealizedAsNamed, Picked, Place
<1>4. RealizedStays'
  BY DEF NetInv, RealizedStays, Place, Built, BridgeEnds, Child
<1>5. LeftOnStack'
  BY HereSame DEF NetInv, LeftOnStack, Place
<1> QED
  BY <1>1, <1>2, <1>3, <1>4, <1>5 DEF NetInv

LEMMA MakeEffect ==
  ASSUME NetType, NEW r \in Request, NEW p \in Place(r), NEW ends, Make(r, p, ends)
  PROVE  /\ namespaces' = namespaces \cup {<<r, p>>}
         /\ \A n \in namespaces \ {<<r, p>>} : address'[n] = address[n]
         /\ address'[<<r, p>>] = {<<counter, 1>>} \cup ends
         /\ address' = [n \in namespaces' |-> address'[n]]
         /\ counter' \in 0..Subnets - 1
         /\ \A n \in namespaces' : n[1] \in Request /\ n[2] \in Place(n[1]) /\ n = <<n[1], n[2]>>
BY NextIs DEF NetType, Make

(* What an attempt that fails makes.                                        *)
LEMMA FailEffect ==
  ASSUME NetType, NEW r \in Request, CreateFails(r)
  PROVE  /\ counter' \in 0..Subnets - 1
         /\ \A n \in namespaces' : n[1] \in Request /\ n[2] \in Place(n[1]) /\ n = <<n[1], n[2]>>
         /\ address' = [n \in namespaces' |-> address'[n]]
         /\ namespaces \subseteq namespaces'
         /\ \A n \in namespaces' \ namespaces : n[1] = r /\ Ready(r, n[2])
         /\ \A n \in namespaces : n[1] # r => address'[n] = address[n]
<1>1. PICK p \in Place(r) : /\ Ready(r, p)
                            /\ \/ UNCHANGED <<counter, namespaces, address>>
                               \/ \E ends \in SUBSET BridgeEnds(r, p) : Make(r, p, ends)
  BY DEF CreateFails
<1>2. CASE UNCHANGED <<counter, namespaces, address>>
  BY <1>2 DEF NetType
<1>3. ASSUME NEW ends \in SUBSET BridgeEnds(r, p), Make(r, p, ends)
      PROVE  /\ counter' \in 0..Subnets - 1
             /\ \A n \in namespaces' : n[1] \in Request /\ n[2] \in Place(n[1]) /\ n = <<n[1], n[2]>>
             /\ address' = [n \in namespaces' |-> address'[n]]
             /\ namespaces \subseteq namespaces'
             /\ \A n \in namespaces' \ namespaces : n[1] = r /\ Ready(r, n[2])
             /\ \A n \in namespaces : n[1] # r => address'[n] = address[n]
  <2>1. /\ namespaces' = namespaces \cup {<<r, p>>}
        /\ \A n \in namespaces \ {<<r, p>>} : address'[n] = address[n]
        /\ address' = [n \in namespaces' |-> address'[n]]
        /\ counter' \in 0..Subnets - 1
        /\ \A n \in namespaces' : n[1] \in Request /\ n[2] \in Place(n[1]) /\ n = <<n[1], n[2]>>
    BY <1>3, MakeEffect
  <2>2. \A n \in namespaces' \ namespaces : n[1] = r /\ Ready(r, n[2])
    BY <1>1, <2>1
  <2>3. \A n \in namespaces : n[1] # r => address'[n] = address[n]
    BY <2>1
  <2> QED
    BY <2>1, <2>2, <2>3
<1> QED
  BY <1>1, <1>2, <1>3

LEMMA TypeStep == ASSUME NetInv, NetNext PROVE NetType'
<1>1. NetType
  BY DEF NetInv
<1>2. PICK r \in Request :
        \/ CreateNetwork(r) \/ Answer(r) \/ CreateFails(r)
        \/ \E p \in Place(r) : PickBridge(r, p) \/ CreateNamespace(r, p)
        \/ DeleteNetwork(r) \/ DeleteNamespace(r) \/ NetworkDeleted(r) \/ DeleteFails(r)
  BY DEF NetNext
<1> USE DEF NetType, Stages, Place
<1>3. CASE CreateNetwork(r)
  BY <1>1, <1>3 DEF CreateNetwork, Turn
<1>4. CASE Answer(r)
  BY <1>1, <1>4 DEF Answer, Turn
<1>5. CASE NetworkDeleted(r)
  BY <1>1, <1>5 DEF NetworkDeleted, Turn
<1>6. CASE DeleteFails(r)
  BY <1>1, <1>6 DEF DeleteFails, Turn
<1>7. CASE DeleteNetwork(r)
  BY <1>1, <1>7 DEF DeleteNetwork, Turn
<1>8. CASE DeleteNamespace(r)
  BY <1>1, <1>8 DEF DeleteNamespace
<1>9. CASE CreateFails(r)
  BY <1>1, <1>9, FailEffect DEF CreateFails, Turn
<1>10. ASSUME NEW p \in Place(r), PickBridge(r, p) PROVE NetType'
  <2>1. counter' \in 0..Subnets - 1
    BY <1>1, <1>10, NextIs DEF PickBridge
  <2>2. /\ DOMAIN link'[r] = DOMAIN link[r] \cup {p} /\ link'[r][p] = counter
        /\ \A q \in DOMAIN link[r] : link'[r][q] = link[r][q]
        /\ \A s \in Request \ {r} : link'[s] = link[s]
        /\ p # <<>> /\ link' = [s \in Request |-> link'[s]]
        /\ link'[r] = [q \in DOMAIN link'[r] |-> link'[r][q]]
    BY <1>1, <1>10, PickEffect
  <2>3. link'[r] \in [DOMAIN link'[r] -> 0..Subnets - 1]
    BY <1>1, <2>2
  <2>4. DOMAIN link'[r] \subseteq Place(r) \ {<<>>}
    BY <1>1, <2>2
  <2>5. UNCHANGED <<request, namespaces, address, realized, doomed>>
    BY <1>10 DEF PickBridge
  <2> QED
    BY <1>1, <2>1, <2>2, <2>3, <2>4, <2>5
<1>11. ASSUME NEW p \in Place(r), CreateNamespace(r, p) PROVE NetType'
  <2>1. /\ Make(r, p, BridgeEnds(r, p))
        /\ realized' = [realized EXCEPT ![r] = [q \in DOMAIN @ \cup {p} |->
                                              IF q = p THEN Concrete(r, p) ELSE @[q]]]
        /\ UNCHANGED <<request, link, doomed>>
    BY <1>11 DEF CreateNamespace
  <2>2. /\ address' = [n \in namespaces' |-> address'[n]] /\ counter' \in 0..Subnets - 1
        /\ \A n \in namespaces' : n[1] \in Request /\ n[2] \in Place(n[1]) /\ n = <<n[1], n[2]>>
    BY <1>1, <2>1, MakeEffect
  <2>3. /\ realized' = [s \in Request |-> realized'[s]]
        /\ \A s \in Request : /\ DOMAIN realized'[s] \subseteq Place(s)
                              /\ realized'[s] = [q \in DOMAIN realized'[s] |-> realized'[s][q]]
    <3>1. realized' = [realized EXCEPT ![r] = [q \in DOMAIN realized[r] \cup {p} |->
                                 IF q = p THEN Concrete(r, p) ELSE realized[r][q]]]
      BY <2>1
    <3>2. realized'[r] = [q \in DOMAIN realized[r] \cup {p} |->
                                 IF q = p THEN Concrete(r, p) ELSE realized[r][q]]
      BY <1>1, <3>1
    <3>3. \A s \in Request \ {r} : realized'[s] = realized[s]
      BY <1>1, <3>1
    <3>4. DOMAIN realized'[r] = DOMAIN realized[r] \cup {p}
      BY <3>2
    <3>5. realized'[r] = [q \in DOMAIN realized'[r] |-> realized'[r][q]]
      BY <3>2, <3>4
    <3>6. realized' = [s \in Request |-> realized'[s]]
      BY <1>1, <3>1
    <3> QED
      BY <1>1, <3>3, <3>4, <3>5, <3>6
  <2> QED
    BY <1>1, <2>1, <2>2, <2>3
<1> QED
  BY <1>2, <1>3, <1>4, <1>5, <1>6, <1>7, <1>8, <1>9, <1>10, <1>11

LEMMA RealizeEffect ==
  ASSUME NetInv, NEW r \in Request, NEW p \in Place(r), CreateNamespace(r, p)
  PROVE  /\ DOMAIN realized'[r] = DOMAIN realized[r] \cup {p} /\ p \notin DOMAIN realized[r]
         /\ realized'[r][p] = Here(r, p)
         /\ \A q \in DOMAIN realized[r] : realized'[r][q] = realized[r][q]
         /\ \A s \in Request \ {r} : realized'[s] = realized[s]
         /\ \A q \in Under(Place(r), p) : p \o q \in DOMAIN realized'[r]
         /\ Picked(r, p)
<1>1. /\ request[r] = "creating" /\ Picked(r, p) /\ ~Built(r, p)
      /\ \A q \in Child(r, p) : Built(r, q)
      /\ realized' = [realized EXCEPT ![r] = [q \in DOMAIN realized[r] \cup {p} |->
                                 IF q = p THEN Concrete(r, p) ELSE realized[r][q]]]
  BY DEF CreateNamespace, Ready
<1>2. NetType /\ RealizedStays /\ RealizedAsNamed
  BY DEF NetInv
<1>3. p \notin DOMAIN realized[r]
  BY <1>1, <1>2 DEF RealizedStays
<1>4. /\ realized'[r] = [q \in DOMAIN realized[r] \cup {p} |->
                                 IF q = p THEN Concrete(r, p) ELSE realized[r][q]]
      /\ \A s \in Request \ {r} : realized'[s] = realized[s]
  BY <1>1, <1>2 DEF NetType
<1>5. \A q \in Child(r, p) : q \in DOMAIN realized[r]
  BY <1>1, <1>2 DEF RealizedStays, Child
<1>6. \A i \in 1..Width(r, p) : Append(p, i) \in DOMAIN realized[r]
  BY <1>5, PlaceIs
<1>7. Concrete(r, p) = Here(r, p)
  <2>1. \A i \in 1..Width(r, p) : realized[r][Append(p, i)] = Here(r, Append(p, i))
    BY <1>2, <1>6 DEF RealizedAsNamed
  <2> QED
    BY <2>1, ConcreteIs
<1>8. ASSUME NEW q \in Under(Place(r), p) PROVE p \o q \in DOMAIN realized[r] \cup {p}
  <2>1. q \in AnyPlace /\ p \o q \in Place(r) /\ p \in AnyPlace /\ IsShape(Place(r))
    BY PlaceIs
  <2>2. CASE q = <<>>
    BY <2>1, <2>2, ConcatEmptySeq DEF AnyPlace
  <2>3. CASE q # <<>>
    <3> DEFINE i == q[1]
    <3>1. i \in Nat /\ Tail(q) \in AnyPlace /\ q = <<i>> \o Tail(q)
      BY <2>1, <2>3, Uncons
    <3> HIDE DEF i
    <3>2. Append(p, i) \o Tail(q) = p \o (<<i>> \o Tail(q)) /\ Append(p, i) \in AnyPlace
      BY <2>1, <3>1, SnocConcat, SnocIs
    <3>3. Append(p, i) \o Tail(q) = p \o q
      BY <3>1, <3>2
    <3>4. Append(p, i) \in Place(r)
      BY <2>1, <3>1, <3>2, <3>3, ShapePrefixed
    <3>5. i \in 1..Width(r, p)
      BY <3>1, <3>4, PlaceIs
    <3>6. Tail(q) \in Under(Place(r), Append(p, i))
      BY <2>1, <3>1, <3>3, <3>4, PlaceIs
    <3>7. Append(p, i) \o Tail(q) \in DOMAIN realized[r]
      BY <1>2, <1>6, <3>5, <3>6 DEF RealizedAsNamed
    <3> QED
      BY <3>3, <3>7
  <2> QED
    BY <2>2, <2>3
<1>9. DOMAIN realized'[r] = DOMAIN realized[r] \cup {p} /\ realized'[r][p] = Here(r, p)
  BY <1>4, <1>7
<1>10. \A q \in DOMAIN realized[r] : realized'[r][q] = realized[r][q]
  BY <1>3, <1>4
<1> QED
  BY <1>1, <1>3, <1>4, <1>8, <1>9, <1>10

LEMMA BridgesStep == ASSUME NetInv, NetNext PROVE BridgesFirst'
<1>1. NetType /\ BridgesFirst /\ Kept
  BY LinksKept DEF NetInv
<1>2. ASSUME namespaces' \subseteq namespaces PROVE BridgesFirst'
  BY <1>1, <1>2, EndsStay DEF BridgesFirst, Place, Child
<1>3. ASSUME NEW r \in Request, \A n \in namespaces' \ namespaces : n[1] = r /\ Ready(r, n[2])
      PROVE  BridgesFirst'
  <2> SUFFICES ASSUME NEW s \in Request, NEW p \in Place(s), <<s, p>> \in namespaces'
               PROVE  Picked(s, p)' /\ \A q \in Child(s, p) : Picked(s, q)'
    BY DEF BridgesFirst, Place, Child
  <2>1. CASE <<s, p>> \in namespaces
    BY <1>1, <2>1, EndsStay
  <2>2. CASE <<s, p>> \notin namespaces
    <3>1. s = r /\ Ready(r, p)
      BY <1>3, <2>2
    <3>2. Picked(r, p) /\ \A q \in Child(r, p) : <<r, q>> \in namespaces
      BY <3>1 DEF Ready, Built
    <3>3. \A q \in Child(r, p) : Picked(r, q)
      BY <1>1, <3>2 DEF BridgesFirst, Child
    <3> QED
      BY <1>1, <3>1, <3>2, <3>3 DEF Picked, Kept
  <2> QED
    BY <2>1, <2>2
<1>4. PICK r \in Request :
        \/ CreateNetwork(r) \/ Answer(r) \/ CreateFails(r)
        \/ \E p \in Place(r) : PickBridge(r, p) \/ CreateNamespace(r, p)
        \/ DeleteNetwork(r) \/ DeleteNamespace(r) \/ NetworkDeleted(r) \/ DeleteFails(r)
  BY DEF NetNext
<1>5. CASE CreateFails(r)
  BY <1>1, <1>3, <1>5, FailEffect
<1>6. ASSUME NEW p \in Place(r), CreateNamespace(r, p) PROVE BridgesFirst'
  <2>1. Make(r, p, BridgeEnds(r, p)) /\ Ready(r, p)
    BY <1>6 DEF CreateNamespace
  <2>2. namespaces' = namespaces \cup {<<r, p>>}
    BY <2>1 DEF Make
  <2>3. \A n \in namespaces' \ namespaces : n[1] = r /\ Ready(r, n[2])
    BY <2>1, <2>2
  <2> QED
    BY <1>3, <2>3
<1>7. CASE ~CreateFails(r) /\ ~\E p \in Place(r) : CreateNamespace(r, p)
  <2>1. namespaces' \subseteq namespaces
    BY <1>4, <1>7 DEF CreateNetwork, Answer, PickBridge, DeleteNetwork, DeleteNamespace,
       NetworkDeleted, DeleteFails
  <2> QED
    BY <1>2, <2>1
<1> QED
  BY <1>5, <1>6, <1>7

LEMMA NamedStep == ASSUME NetInv, NetNext PROVE RealizedAsNamed'
<1>1. NetType /\ RealizedAsNamed /\ Kept
  BY LinksKept DEF NetInv
<1>2. \A r \in Request : \A p \in DOMAIN realized[r] : Here(r, p)' = Here(r, p) /\ Picked(r, p)'
  BY <1>1, HereStays DEF RealizedAsNamed, Picked, Kept
<1>3. ASSUME UNCHANGED realized PROVE RealizedAsNamed'
  BY <1>1, <1>2, <1>3 DEF RealizedAsNamed, Place
<1>4. ASSUME NEW r \in Request, NEW p \in Place(r), CreateNamespace(r, p) PROVE RealizedAsNamed'
  <2>1. UNCHANGED link
    BY <1>4 DEF CreateNamespace
  <2>2. \A s, q : Here(s, q)' = Here(s, q) /\ Picked(s, q)' = Picked(s, q)
    BY <2>1, HereSame DEF Picked
  <2>3. /\ DOMAIN realized'[r] = DOMAIN realized[r] \cup {p} /\ p \notin DOMAIN realized[r]
        /\ realized'[r][p] = Here(r, p)
        /\ \A q \in DOMAIN realized[r] : realized'[r][q] = realized[r][q]
        /\ \A s \in Request \ {r} : realized'[s] = realized[s]
        /\ \A q \in Under(Place(r), p) : p \o q \in DOMAIN realized'[r]
        /\ Picked(r, p)
    BY <1>4, RealizeEffect
  <2>4. ASSUME NEW s \in Request
        PROVE  /\ DOMAIN realized[s] \subseteq DOMAIN realized'[s]
               /\ \A q \in DOMAIN realized[s] : realized'[s][q] = realized[s][q]
               /\ \A q \in DOMAIN realized'[s] : q \in DOMAIN realized[s] \/ (s = r /\ q = p)
    <3>1. CASE s = r
      BY <2>3, <3>1
    <3>2. CASE s # r
      <4>1. realized'[s] = realized[s]
        BY <2>3, <3>2
      <4> QED
        BY <4>1
    <3> QED
      BY <3>1, <3>2
  <2>5. ASSUME NEW s \in Request, NEW q \in DOMAIN realized[s]
        PROVE  /\ realized'[s][q] = Here(s, q) /\ Picked(s, q)
               /\ \A x \in Under(Place(s), q) : q \o x \in DOMAIN realized'[s]
    <3>1. /\ realized[s][q] = Here(s, q) /\ Picked(s, q)
          /\ \A x \in Under(Place(s), q) : q \o x \in DOMAIN realized[s]
      BY <1>1 DEF RealizedAsNamed
    <3> QED
      BY <2>4, <3>1
  <2>6. ASSUME NEW s \in Request, NEW q \in DOMAIN realized'[s]
        PROVE  /\ realized'[s][q] = Here(s, q) /\ Picked(s, q)
               /\ \A x \in Under(Place(s), q) : q \o x \in DOMAIN realized'[s]
    <3>1. CASE q \in DOMAIN realized[s]
      BY <2>5, <3>1
    <3>2. CASE s = r /\ q = p
      BY <2>3, <3>2
    <3> QED
      BY <2>4, <3>1, <3>2
  <2> QED
    BY <2>2, <2>6 DEF RealizedAsNamed, Place
<1> QED
  BY <1>3, <1>4 DEF NetNext, CreateNetwork, Answer, CreateFails, PickBridge,
     DeleteNetwork, DeleteNamespace, NetworkDeleted, DeleteFails

Acts(r) ==
    \/ CreateNetwork(r) \/ Answer(r) \/ CreateFails(r)
    \/ \E p \in Place(r) : PickBridge(r, p) \/ CreateNamespace(r, p)
    \/ DeleteNetwork(r) \/ DeleteNamespace(r) \/ NetworkDeleted(r) \/ DeleteFails(r)

(* The namespace deleted is the root of the last tree on the stack.         *)
LEMMA DeleteEffect ==
  ASSUME NetInv, NEW r \in Request, DeleteNamespace(r)
  PROVE  /\ doomed[r] \in Seq(Heres(r)) /\ doomed[r] # <<>>
         /\ doomed'[r] = Popped(doomed[r])
         /\ \A s \in Request \ {r} : doomed'[s] = doomed[s]
         /\ \E m \in Place(r) :
              /\ Last(doomed[r]) = Here(r, m)
              /\ namespaces' = namespaces \ {<<r, m>>}
              /\ \A n \in namespaces \ {<<r, m>>} : address'[n] = address[n]
<1>1. NetType /\ doomed[r] \in Seq(Heres(r)) /\ doomed[r] # <<>>
  BY DEF NetInv, LeftOnStack, DeleteNamespace
<1>2. Last(doomed[r]) \in Heres(r)
  <2>1. Len(doomed[r]) \in 1..Len(doomed[r])
    BY <1>1, EmptySeq
  <2> QED
    BY <1>1, <2>1, ElementOfSeq DEF Last
<1>3. PICK m \in Place(r) : Last(doomed[r]) = Here(r, m)
  BY <1>2 DEF Heres
<1>4. Here(r, m)[<<>>].namespace = <<r, m>>
  <2>1. m \in AnyPlace /\ m \o <<>> = m /\ <<>> \in AnyPlace
    BY PlaceIs, ConcatEmptySeq DEF AnyPlace
  <2>2. <<>> \in Under(Place(r), m)
    BY <2>1, PlaceIs
  <2> QED
    BY <2>1, <2>2 DEF Here, Names
<1>5. /\ namespaces' = namespaces \ {<<r, m>>}
      /\ address' = [n \in DOMAIN address \ {<<r, m>>} |-> address[n]]
      /\ doomed' = [doomed EXCEPT ![r] = Popped(doomed[r])]
  BY <1>3, <1>4 DEF DeleteNamespace
<1>6. DOMAIN address = namespaces
  BY <1>1 DEF NetType
<1>7. \A n \in namespaces \ {<<r, m>>} : address'[n] = address[n]
  BY <1>5, <1>6
<1>8. doomed'[r] = Popped(doomed[r]) /\ \A s \in Request \ {r} : doomed'[s] = doomed[s]
  BY <1>1, <1>5 DEF NetType
<1> QED
  BY <1>1, <1>3, <1>5, <1>7, <1>8

(* What a request does leaves the others' networks as they are.             *)
LEMMA Apart ==
  ASSUME NetInv, NEW r \in Request, Acts(r), NEW s \in Request, s # r
  PROVE  /\ request'[s] = request[s] /\ realized'[s] = realized[s]
         /\ doomed'[s] = doomed[s] /\ link'[s] = link[s]
         /\ \A p : <<s, p>> \in namespaces' <=> <<s, p>> \in namespaces
         /\ \A p : <<s, p>> \in namespaces => address'[<<s, p>>] = address[<<s, p>>]
<1>1. NetType
  BY DEF NetInv
<1>2. CASE UNCHANGED <<namespaces, address>>
  <2>1. request'[s] = request[s]
    BY <1>1 DEF NetType, Acts, CreateNetwork, Answer, CreateFails, PickBridge, CreateNamespace,
       DeleteNetwork, DeleteNamespace, NetworkDeleted, DeleteFails, Turn
  <2>2. realized'[s] = realized[s]
    BY <1>1 DEF NetType, Acts, CreateNetwork, Answer, CreateFails, PickBridge, CreateNamespace,
       DeleteNetwork, DeleteNamespace, NetworkDeleted, DeleteFails
  <2>3. doomed'[s] = doomed[s]
    BY <1>1 DEF NetType, Acts, CreateNetwork, Answer, CreateFails, PickBridge, CreateNamespace,
       DeleteNetwork, DeleteNamespace, NetworkDeleted, DeleteFails
  <2>4. link'[s] = link[s]
    BY <1>1, PickEffect DEF NetType, Acts, CreateNetwork, Answer, CreateFails, CreateNamespace,
       DeleteNetwork, DeleteNamespace, NetworkDeleted, DeleteFails
  <2> QED
    BY <1>2, <2>1, <2>2, <2>3, <2>4
<1>3. CASE CreateFails(r)
  <2>1. /\ namespaces \subseteq namespaces'
        /\ \A n \in namespaces' \ namespaces : n[1] = r
        /\ \A n \in namespaces : n[1] # r => address'[n] = address[n]
    BY <1>1, <1>3, FailEffect
  <2>2. \A p : <<s, p>> \in namespaces' <=> <<s, p>> \in namespaces
    BY <2>1
  <2>3. \A p : <<s, p>> \in namespaces => address'[<<s, p>>] = address[<<s, p>>]
    BY <2>1
  <2>4. request'[s] = request[s] /\ UNCHANGED <<link, realized, doomed>>
    BY <1>1, <1>3 DEF NetType, CreateFails, Turn
  <2> QED
    BY <2>2, <2>3, <2>4
<1>4. ASSUME NEW p \in Place(r), CreateNamespace(r, p)
      PROVE  /\ request'[s] = request[s] /\ realized'[s] = realized[s]
             /\ doomed'[s] = doomed[s] /\ link'[s] = link[s]
             /\ \A q : <<s, q>> \in namespaces' <=> <<s, q>> \in namespaces
             /\ \A q : <<s, q>> \in namespaces => address'[<<s, q>>] = address[<<s, q>>]
  <2>1. /\ namespaces' = namespaces \cup {<<r, p>>}
        /\ \A n \in namespaces \ {<<r, p>>} : address'[n] = address[n]
    BY <1>1, <1>4, MakeEffect DEF CreateNamespace
  <2>2. realized'[s] = realized[s] /\ UNCHANGED <<request, link, doomed>>
    BY <1>4, RealizeEffect DEF CreateNamespace
  <2>3. \A q : <<s, q>> # <<r, p>>
    OBVIOUS
  <2> QED
    BY <2>1, <2>2, <2>3
<1>5. CASE DeleteNamespace(r)
  <2>1. PICK m \in Place(r) :
          /\ namespaces' = namespaces \ {<<r, m>>}
          /\ \A n \in namespaces \ {<<r, m>>} : address'[n] = address[n]
    BY <1>5, DeleteEffect
  <2>2. doomed'[s] = doomed[s] /\ UNCHANGED <<request, link, realized>>
    BY <1>5, DeleteEffect DEF DeleteNamespace
  <2>3. \A q : <<s, q>> # <<r, m>>
    OBVIOUS
  <2> QED
    BY <2>1, <2>2, <2>3
<1> QED
  BY <1>2, <1>3, <1>4, <1>5 DEF Acts, CreateNetwork, Answer, PickBridge,
     DeleteNetwork, NetworkDeleted, DeleteFails

StaysFor(r) ==
    /\ request[r] \in {"idle", "creating"} =>
         \A p \in Place(r) : Built(r, p) => p \in DOMAIN realized[r]
    /\ request[r] \in {"idle", "creating", "answered"} =>
         \A p \in DOMAIN realized[r] :
             Built(r, p) /\ BridgeEnds(r, p) \subseteq address[<<r, p>>]
    /\ request[r] \in {"answered", "deleting"} => <<>> \in DOMAIN realized[r]

LEMMA StaysStep == ASSUME NetInv, NetNext PROVE RealizedStays'
<1>1. NetType /\ BridgesFirst /\ Kept /\ \A s \in Request : StaysFor(s)
  BY LinksKept DEF NetInv, RealizedStays, StaysFor
<1>2. PICK r \in Request : Acts(r)
  BY DEF NetNext, Acts
<1>3. \A s \in Request : \A p \in Place(s) :
        <<s, p>> \in namespaces => BridgeEnds(s, p)' = BridgeEnds(s, p)
  BY <1>1, EndsStay
<1>4. \A s \in Request : DOMAIN realized[s] \subseteq Place(s)
  BY <1>1 DEF NetType
<1>5. ASSUME NEW s \in Request, s # r PROVE StaysFor(s)'
  <2>1. /\ request'[s] = request[s] /\ realized'[s] = realized[s]
        /\ \A p : <<s, p>> \in namespaces' <=> <<s, p>> \in namespaces
        /\ \A p : <<s, p>> \in namespaces => address'[<<s, p>>] = address[<<s, p>>]
    BY <1>2, <1>5, Apart
  <2>2. StaysFor(s)
    BY <1>1
  <2>3. request'[s] \in {"idle", "creating"} =>
          \A p \in Place(s) : <<s, p>> \in namespaces' => p \in DOMAIN realized'[s]
    BY <2>1, <2>2 DEF StaysFor, Built
  <2>4. request'[s] \in {"idle", "creating", "answered"} =>
          \A p \in DOMAIN realized'[s] :
             <<s, p>> \in namespaces' /\ BridgeEnds(s, p)' \subseteq address'[<<s, p>>]
    <3> SUFFICES ASSUME request'[s] \in {"idle", "creating", "answered"}, NEW p \in DOMAIN realized'[s]
                 PROVE  <<s, p>> \in namespaces' /\ BridgeEnds(s, p)' \subseteq address'[<<s, p>>]
      OBVIOUS
    <3>1. p \in Place(s) /\ <<s, p>> \in namespaces /\ BridgeEnds(s, p) \subseteq address[<<s, p>>]
      BY <1>4, <2>1, <2>2 DEF StaysFor, Built
    <3> QED
      BY <1>3, <2>1, <3>1
  <2>5. request'[s] \in {"answered", "deleting"} => <<>> \in DOMAIN realized'[s]
    BY <2>1, <2>2 DEF StaysFor
  <2> QED
    BY <2>3, <2>4, <2>5 DEF StaysFor, Built, Place
<1>6. StaysFor(r)'
  <2>1. ASSUME UNCHANGED <<namespaces, address, realized>>,
               request'[r] = request[r]
               \/ (request[r] = "idle" /\ request'[r] = "creating")
               \/ request'[r] \in {"failed", "deleted", "stuck"}
               \/ (request[r] = "creating" /\ <<>> \in DOMAIN realized[r] /\ request'[r] = "answered")
               \/ (request[r] = "answered" /\ request'[r] = "deleting")
        PROVE  StaysFor(r)'
    <3>1. StaysFor(r)
      BY <1>1
    <3>2. request'[r] \in {"idle", "creating"} =>
            \A p \in Place(r) : <<r, p>> \in namespaces' => p \in DOMAIN realized'[r]
      BY <2>1, <3>1 DEF StaysFor, Built
    <3>3. request'[r] \in {"idle", "creating", "answered"} =>
            \A p \in DOMAIN realized'[r] :
               <<r, p>> \in namespaces' /\ BridgeEnds(r, p)' \subseteq address'[<<r, p>>]
      <4> SUFFICES ASSUME request'[r] \in {"idle", "creating", "answered"}, NEW p \in DOMAIN realized'[r]
                   PROVE  <<r, p>> \in namespaces' /\ BridgeEnds(r, p)' \subseteq address'[<<r, p>>]
        OBVIOUS
      <4>1. request[r] \in {"idle", "creating", "answered"}
        BY <2>1
      <4>2. p \in Place(r) /\ <<r, p>> \in namespaces /\ BridgeEnds(r, p) \subseteq address[<<r, p>>]
        BY <1>4, <2>1, <3>1, <4>1 DEF StaysFor, Built
      <4> QED
        BY <1>3, <2>1, <4>2
    <3>4. request'[r] \in {"answered", "deleting"} => <<>> \in DOMAIN realized'[r]
      BY <2>1, <3>1 DEF StaysFor
    <3> QED
      BY <3>2, <3>3, <3>4 DEF StaysFor, Built, Place
  <2>2. CASE CreateNetwork(r)
    BY <1>1, <2>1, <2>2 DEF CreateNetwork, Turn, NetType
  <2>3. CASE Answer(r)
    <3>1. request[r] = "creating" /\ <<r, <<>>>> \in namespaces /\ <<>> \in Place(r)
      BY <1>1, <2>3 DEF Answer, Turn, Built, NetType
    <3>2. <<>> \in DOMAIN realized[r]
      BY <1>1, <3>1 DEF StaysFor, Built
    <3> QED
      BY <1>1, <2>1, <2>3, <3>1, <3>2 DEF Answer, Turn, NetType
  <2>4. CASE CreateFails(r)
    <3>1. request'[r] = "failed"
      BY <1>1, <2>4 DEF CreateFails, Turn, NetType
    <3> QED
      BY <3>1 DEF StaysFor
  <2>5. ASSUME NEW p \in Place(r), PickBridge(r, p) PROVE StaysFor(r)'
    BY <2>1, <2>5 DEF PickBridge
  <2>6. ASSUME NEW p \in Place(r), CreateNamespace(r, p) PROVE StaysFor(r)'
    <3>1. /\ namespaces' = namespaces \cup {<<r, p>>}
          /\ \A n \in namespaces \ {<<r, p>>} : address'[n] = address[n]
          /\ address'[<<r, p>>] = {<<counter, 1>>} \cup BridgeEnds(r, p)
      BY <1>1, <2>6, MakeEffect DEF CreateNamespace
    <3>2. DOMAIN realized'[r] = DOMAIN realized[r] \cup {p}
      BY <2>6, RealizeEffect
    <3>3. /\ request[r] = "creating" /\ request' = request /\ UNCHANGED link
          /\ <<r, p>> \notin namespaces
      BY <2>6 DEF CreateNamespace, Ready, Built
    <3>4. BridgeEnds(r, p)' = BridgeEnds(r, p)
      BY <3>3 DEF BridgeEnds, Child, Place
    <3>5. \A q \in Place(r) : <<r, q>> \in namespaces' => q \in DOMAIN realized'[r]
      BY <1>1, <3>1, <3>2, <3>3 DEF StaysFor, Built
    <3>6. ASSUME NEW q \in DOMAIN realized'[r]
          PROVE  <<r, q>> \in namespaces' /\ BridgeEnds(r, q)' \subseteq address'[<<r, q>>]
      <4>1. CASE q = p
        BY <3>1, <3>4, <4>1
      <4>2. CASE q # p
        <5>1. q \in Place(r) /\ <<r, q>> \in namespaces /\ BridgeEnds(r, q) \subseteq address[<<r, q>>]
          BY <1>1, <1>4, <3>2, <3>3, <4>2 DEF StaysFor, Built
        <5> QED
          BY <1>3, <3>1, <3>3, <5>1
      <4> QED
        BY <4>1, <4>2
    <3> QED
      BY <3>3, <3>5, <3>6 DEF StaysFor, Built, Place
  <2>7. CASE DeleteNetwork(r)
    BY <1>1, <2>1, <2>7 DEF DeleteNetwork, Turn, NetType
  <2>8. CASE DeleteNamespace(r)
    <3>1. request'[r] = "deleting" /\ request[r] = "deleting" /\ UNCHANGED realized
      BY <2>8 DEF DeleteNamespace
    <3> QED
      BY <1>1, <3>1 DEF StaysFor
  <2>9. CASE NetworkDeleted(r)
    BY <1>1, <2>1, <2>9 DEF NetworkDeleted, Turn, NetType
  <2>10. CASE DeleteFails(r)
    BY <1>1, <2>1, <2>10 DEF DeleteFails, Turn, NetType
  <2> QED
    BY <1>2, <2>2, <2>3, <2>4, <2>5, <2>6, <2>7, <2>8, <2>9, <2>10 DEF Acts
<1>7. \A s \in Request : StaysFor(s)'
  BY <1>5, <1>6
<1> QED
  BY <1>7 DEF RealizedStays, StaysFor

LEMMA RootUnder ==
  ASSUME NEW r \in Request
  PROVE  /\ <<>> \in Place(r) /\ Under(Place(r), <<>>) = Place(r)
         /\ \A p \in Place(r) : p \in AnyPlace /\ <<>> \o p = p
<1>1. <<>> \in Place(r) /\ Place(r) \subseteq AnyPlace
  BY TopologyAssumption, ShapeIs DEF Place
<1>2. \A p \in AnyPlace : <<>> \o p = p
  BY ConcatEmptySeq DEF AnyPlace
<1>3. Under(Place(r), <<>>) = {q \in AnyPlace : <<>> \o q \in Place(r)}
  BY <1>1, PlaceIs
<1>4. Under(Place(r), <<>>) = {q \in AnyPlace : q \in Place(r)}
  BY <1>2, <1>3
<1> QED
  BY <1>1, <1>2, <1>4

(* Popping a tree leaves its other names on the stack.                      *)
LEMMA PoppedHolds ==
  ASSUME NEW r \in Request, NEW st \in Seq(Heres(r)), st # <<>>, NEW m \in Place(r),
         Last(st) = Here(r, m)
  PROVE  /\ Popped(st) \in Seq(Heres(r))
         /\ \A k \in 1..Len(st) : \A q \in DOMAIN st[k] :
              \/ st[k][q].namespace = <<r, m>>
              \/ \E j \in 1..Len(Popped(st)) : \E x \in DOMAIN Popped(st)[j] :
                   Popped(st)[j][x].namespace = st[k][q].namespace
<1> DEFINE n == Len(st)
           w == Width(r, m)
           cs == NamesBelow(link[r], r, m)
           low == Front(st)
<1>1. n \in Nat \ {0} /\ w \in Nat /\ m \in AnyPlace /\ \A i \in 1..w : Append(m, i) \in Place(r)
  BY EmptySeq, PlaceIs
<1>2. cs = Children(Last(st))
  BY NamesChildren DEF Here
<1>3. \A i \in 1..w : cs[i] = Here(r, Append(m, i)) /\ cs[i] \in Heres(r)
  BY <1>1 DEF NamesBelow, Here, Heres
<1>4. cs \in Seq(Heres(r)) /\ Len(cs) = w
  BY <1>1, <1>3 DEF NamesBelow
<1>5. /\ low \in Seq(Heres(r)) /\ Len(low) = n - 1
      /\ \A k \in 1..n - 1 : low[k] = st[k]
  <2>1. \A k \in 1..n - 1 : st[k] \in Heres(r)
    BY <1>1, ElementOfSeq
  <2>2. /\ SubSeq(st, 1, n - 1) \in Seq(Heres(r))
        /\ Len(SubSeq(st, 1, n - 1)) = IF 1 <= n - 1 THEN n - 1 - 1 + 1 ELSE 0
        /\ \A k \in 1..n - 1 - 1 + 1 : SubSeq(st, 1, n - 1)[k] = st[1 + k - 1]
    BY <1>1, <2>1, SubSeqProperties
  <2>3. \A k \in 1..n - 1 : SubSeq(st, 1, n - 1)[k] = st[k]
    <3> SUFFICES ASSUME NEW k \in 1..n - 1 PROVE SubSeq(st, 1, n - 1)[k] = st[k]
      OBVIOUS
    <3>1. k \in 1..n - 1 - 1 + 1 /\ 1 + k - 1 = k
      BY <1>1
    <3>2. SubSeq(st, 1, n - 1)[k] = st[1 + k - 1]
      BY <2>2, <3>1
    <3> QED
      BY <3>1, <3>2
  <2>5. low = SubSeq(st, 1, n - 1)
    BY DEF Front
  <2>4. Len(SubSeq(st, 1, n - 1)) = n - 1
    <3>1. Len(low) = IF 1 <= n - 1 THEN n - 1 - 1 + 1 ELSE 0
      BY <2>2, <2>5
    <3>3. n \in Nat \ {0}
      BY <1>1
    <3> HIDE DEF low, n
    <3>2. Len(low) = n - 1
      BY <3>1, <3>3
    <3> QED
      BY <2>5, <3>2
  <2> QED
    BY <2>2, <2>3, <2>4, <2>5
<1> HIDE DEF cs, low
<1>6. Popped(st) = low \o cs
  BY <1>2 DEF Popped, low
<1>7. /\ Popped(st) \in Seq(Heres(r)) /\ Len(Popped(st)) = n - 1 + w
      /\ \A k \in 1..n - 1 + w : Popped(st)[k] = IF k <= n - 1 THEN low[k] ELSE cs[k - (n - 1)]
  BY <1>4, <1>5, <1>6, ConcatProperties
<1>8. ASSUME NEW k \in 1..n, NEW q \in DOMAIN st[k], st[k][q].namespace # <<r, m>>
      PROVE  \E j \in 1..Len(Popped(st)) : \E x \in DOMAIN Popped(st)[j] :
               Popped(st)[j][x].namespace = st[k][q].namespace
  <2>1. CASE k # n
    <3>1. k \in 1..Len(Popped(st)) /\ Popped(st)[k] = st[k]
      BY <1>1, <1>5, <1>7, <2>1
    <3> QED
      BY <3>1
  <2>2. CASE k = n
    <3>1. st[k] = Here(r, m)
      BY <2>2 DEF Last
    <3>2. q \in AnyPlace /\ m \o q \in Place(r) /\ st[k][q].namespace = <<r, m \o q>>
      BY <3>1, PlaceIs DEF Here, Names
    <3>3. q # <<>>
      BY <1>1, <1>8, <3>2, ConcatEmptySeq DEF AnyPlace
    <3> DEFINE i == q[1]
    <3>4. i \in Nat /\ Tail(q) \in AnyPlace /\ q = <<i>> \o Tail(q)
      BY <3>2, <3>3, Uncons
    <3> HIDE DEF i
    <3>5. Append(m, i) \o Tail(q) = m \o (<<i>> \o Tail(q)) /\ Append(m, i) \in AnyPlace
      BY <1>1, <3>4, SnocConcat, SnocIs
    <3>6. Append(m, i) \o Tail(q) = m \o q
      BY <3>4, <3>5
    <3>7. i \in 1..w
      <4>1. Append(m, i) \in Place(r)
        BY <3>2, <3>4, <3>5, <3>6, ShapePrefixed, PlaceIs
      <4> QED
        BY <3>4, <4>1, PlaceIs
    <3>8. Tail(q) \in Under(Place(r), Append(m, i))
      BY <1>1, <3>2, <3>4, <3>6, <3>7, PlaceIs
    <3>9. /\ Tail(q) \in DOMAIN Here(r, Append(m, i))
          /\ Here(r, Append(m, i))[Tail(q)].namespace = <<r, m \o q>>
      BY <3>6, <3>8 DEF Here, Names
    <3>10. n - 1 + i \in 1..Len(Popped(st)) /\ Popped(st)[n - 1 + i] = cs[i]
      BY <1>1, <1>7, <3>7
    <3>11. cs[i] = Here(r, Append(m, i))
      BY <1>3, <3>7
    <3> QED
      BY <3>2, <3>9, <3>10, <3>11
  <2> QED
    BY <2>1, <2>2
<1> QED
  BY <1>7, <1>8

LEMMA StackStep == ASSUME NetInv, NetNext PROVE LeftOnStack'
<1>1. NetType /\ LeftOnStack /\ RealizedAsNamed /\ RealizedStays
  BY DEF NetInv
<1>2. PICK r \in Request : Acts(r)
  BY DEF NetNext, Acts
<1> SUFFICES ASSUME NEW s \in Request, request'[s] = "deleting"
             PROVE  /\ doomed'[s] \in Seq(Heres(s)')
                    /\ \A p \in Place(s) : <<s, p>> \in namespaces' =>
                         \E k \in 1..Len(doomed'[s]) : \E q \in DOMAIN doomed'[s][k] :
                             doomed'[s][k][q].namespace = <<s, p>>
  BY DEF LeftOnStack, Place
<1>3. CASE s # r
  <2>1. /\ request'[s] = request[s] /\ doomed'[s] = doomed[s] /\ link'[s] = link[s]
        /\ \A p : <<s, p>> \in namespaces' <=> <<s, p>> \in namespaces
    BY <1>2, <1>3, Apart
  <2>2. Heres(s)' = Heres(s)
    BY <2>1 DEF Heres, Here, Names, Place
  <2> QED
    BY <1>1, <2>1, <2>2 DEF LeftOnStack
<1>4. CASE s = r /\ DeleteNetwork(r)
  <2>1. /\ doomed'[r] = <<Answered(r)>> /\ request[r] = "answered"
        /\ UNCHANGED <<link, namespaces>>
    BY <1>1, <1>4 DEF DeleteNetwork, Turn, NetType
  <2>2. Answered(r) = Here(r, <<>>)
    BY <1>1, <2>1 DEF RealizedStays, RealizedAsNamed, Answered
  <2>3. <<>> \in Place(r) /\ Here(r, <<>>) \in Heres(r) /\ Heres(r)' = Heres(r)
    BY <2>1, PlaceIs, HereSame, TopologyAssumption DEF Heres, Place, IsShape
  <2>4. ASSUME NEW p \in Place(r)
        PROVE  p \in DOMAIN Here(r, <<>>) /\ Here(r, <<>>)[p].namespace = <<r, p>>
    <3>1. <<>> \o p = p
      BY RootUnder
    <3>2. p \in Under(Place(r), <<>>)
      BY RootUnder
    <3> QED
      BY <3>1, <3>2 DEF Here, Names
  <2>5. doomed'[r] \in Seq(Heres(r)) /\ Len(doomed'[r]) = 1 /\ doomed'[r][1] = Here(r, <<>>)
    BY <2>1, <2>2, <2>3
  <2> QED
    BY <1>4, <2>3, <2>4, <2>5
<1>5. CASE s = r /\ DeleteNamespace(r)
  <2>1. /\ doomed[r] \in Seq(Heres(r)) /\ doomed[r] # <<>>
        /\ doomed'[r] = Popped(doomed[r]) /\ request[r] = "deleting" /\ UNCHANGED link
    BY <1>5, DeleteEffect DEF DeleteNamespace
  <2>2. PICK m \in Place(r) :
          Last(doomed[r]) = Here(r, m) /\ namespaces' = namespaces \ {<<r, m>>}
    BY <1>5, DeleteEffect
  <2>3. Heres(r)' = Heres(r)
    BY <2>1, HereSame
  <2> DEFINE st == doomed[r]
             up == Popped(doomed[r])
  <2>4. /\ up \in Seq(Heres(r))
        /\ \A k \in 1..Len(st) : \A q \in DOMAIN st[k] :
              \/ st[k][q].namespace = <<r, m>>
              \/ \E j \in 1..Len(up) : \E x \in DOMAIN up[j] :
                   up[j][x].namespace = st[k][q].namespace
    BY <2>1, <2>2, PoppedHolds
  <2>5. ASSUME NEW p \in Place(r), <<r, p>> \in namespaces'
        PROVE  \E j \in 1..Len(up) : \E x \in DOMAIN up[j] : up[j][x].namespace = <<r, p>>
    <3>1. <<r, p>> \in namespaces /\ <<r, p>> # <<r, m>>
      BY <2>2, <2>5
    <3>2. PICK k \in 1..Len(st) : \E q \in DOMAIN st[k] : st[k][q].namespace = <<r, p>>
      BY <1>1, <2>1, <3>1 DEF LeftOnStack
    <3>3. PICK q \in DOMAIN st[k] : st[k][q].namespace = <<r, p>>
      BY <3>2
    <3> HIDE DEF st, up
    <3> QED
      BY <2>4, <3>1, <3>3
  <2>6. up \in Seq(Heres(r)') /\ doomed'[s] = up
    BY <1>5, <2>1, <2>3, <2>4
  <2> HIDE DEF st, up
  <2> QED
    BY <1>5, <2>5, <2>6
<1>6. CASE s = r /\ ~DeleteNetwork(r) /\ ~DeleteNamespace(r)
  <2>1. request'[r] # "deleting"
    BY <1>1, <1>2, <1>6 DEF Acts, CreateNetwork, Answer, CreateFails, PickBridge, CreateNamespace,
       NetworkDeleted, DeleteFails, Turn, NetType
  <2> QED
    BY <1>6, <2>1
<1> QED
  BY <1>3, <1>4, <1>5, <1>6

LEMMA GoneStep == ASSUME NetInv, NetNext PROVE DeletedIsGone'
<1>1. NetType /\ LeftOnStack /\ DeletedIsGone
  BY DEF NetInv
<1>2. PICK r \in Request : Acts(r)
  BY DEF NetNext, Acts
<1>3. \A n \in namespaces' : n[2] \in Place(n[1]) /\ n = <<n[1], n[2]>>
  BY TypeStep DEF NetType, Place
<1> SUFFICES ASSUME NEW s \in Request, request'[s] = "deleted", NEW n \in namespaces', n[1] = s
             PROVE  FALSE
  BY DEF DeletedIsGone
<1>4. n = <<s, n[2]>> /\ n[2] \in Place(s)
  BY <1>3
<1>5. CASE s # r
  <2>1. n \in namespaces /\ request[s] = "deleted"
    BY <1>2, <1>4, <1>5, Apart
  <2> QED
    BY <1>1, <2>1 DEF DeletedIsGone
<1>6. CASE s = r
  <2>1. NetworkDeleted(r)
    BY <1>1, <1>2, <1>6 DEF Acts, CreateNetwork, Answer, CreateFails, PickBridge, CreateNamespace,
       DeleteNetwork, DeleteNamespace, DeleteFails, Turn, NetType, Ready
  <2>2. request[r] = "deleting" /\ doomed[r] = <<>> /\ n \in namespaces
    BY <2>1 DEF NetworkDeleted, Turn
  <2>3. \E k \in 1..Len(doomed[r]) : TRUE
    BY <1>1, <1>4, <1>6, <2>2 DEF LeftOnStack
  <2> QED
    BY <2>2, <2>3
<1> QED
  BY <1>5, <1>6

(* What was made, returned and is still to be deleted of every request      *)
(* agrees, whatever requests run at once and wherever they fail             *)
(* (create_network, realize_topology, delete_network).                      *)
THEOREM NetInvariant == NetSpec => []NetInv
<1>1. NetInit => NetInv
  BY NetInitInv
<1>2. NetInv /\ [NetNext]_netVars => NetInv'
  <2> SUFFICES ASSUME NetInv, [NetNext]_netVars PROVE NetInv'
    OBVIOUS
  <2>1. CASE UNCHANGED netVars
    BY <2>1, NetStutter
  <2>2. CASE NetNext
    BY <2>2, TypeStep, BridgesStep, NamedStep, StaysStep, StackStep, GoneStep DEF NetInv
  <2> QED
    BY <2>1, <2>2
<1> QED
  BY <1>1, <1>2, PTL DEF NetSpec

(* A network that was deleted has left no namespace behind (delete_network, *)
(* TopologyIter).                                                           *)
THEOREM DeletedNetworksAreGone == NetSpec => []DeletedIsGone
<1>1. NetInv => DeletedIsGone
  BY DEF NetInv
<1> QED
  BY <1>1, NetInvariant, PTL

(* The names of a network are where its bridges end.                        *)
LEMMA AnsweredReaches == ASSUME NetInv PROVE ServicesReachable
<1> SUFFICES ASSUME NEW r \in Request, request[r] = "answered", NEW u \in Users[r]
             PROVE  LET given == ZipTrees(u, Answered(r)) IN
                    /\ DOMAIN given = DOMAIN u
                    /\ \A e \in Edges(given) :
                         LET user == e[1][2] service == e[2][2] IN
                         /\ {user.namespace, service.namespace} \subseteq namespaces
                         /\ service.ip \in address[service.namespace]
                         /\ <<service.ip[1], 0>> \in address[user.namespace]
  BY DEF ServicesReachable
<1> DEFINE given == ZipTrees(u, Answered(r))
<1>1. NetType /\ RealizedAsNamed /\ RealizedStays
  BY DEF NetInv
<1>2. <<>> \in DOMAIN realized[r] /\ <<>> \in Place(r)
  BY <1>1 DEF RealizedStays, NetType
<1>3. Answered(r) = Here(r, <<>>)
  BY <1>1, <1>2 DEF RealizedAsNamed, Answered
<1>4. ASSUME NEW p \in Place(r)
      PROVE  /\ p \in AnyPlace /\ <<>> \o p = p /\ p \in Under(Place(r), <<>>)
             /\ <<r, p>> \in namespaces /\ BridgeEnds(r, p) \subseteq address[<<r, p>>]
             /\ p \in DOMAIN Answered(r)
             /\ Answered(r)[p].namespace = <<r, p>>
             /\ p # <<>> => Answered(r)[p].ip = <<link[r][p], 1>>
  <2>1. p \in AnyPlace /\ <<>> \o p = p
    BY RootUnder
  <2>2. p \in Under(Place(r), <<>>)
    BY RootUnder
  <2>3. p \in DOMAIN realized[r]
    BY <1>1, <1>2, <2>1, <2>2 DEF RealizedAsNamed
  <2>4. <<r, p>> \in namespaces /\ BridgeEnds(r, p) \subseteq address[<<r, p>>]
    BY <1>1, <2>3 DEF RealizedStays, Built
  <2> QED
    BY <1>3, <2>1, <2>2, <2>4 DEF Here, Names
<1>5. DOMAIN Answered(r) = Place(r)
  <2>1. DOMAIN Answered(r) = Under(Place(r), <<>>)
    BY <1>3 DEF Here, Names
  <2> QED
    BY <2>1, RootUnder
<1>6. DOMAIN u = Place(r)
  BY TopologyAssumption DEF Place
<1>7. DOMAIN given = Place(r) /\ \A p \in Place(r) : given[p] = <<u[p], Answered(r)[p]>>
  BY <1>5, <1>6 DEF ZipTrees
<1> HIDE DEF given
<1>8. ASSUME NEW e \in Edges(given)
      PROVE  LET user == e[1][2] service == e[2][2] IN
             /\ {user.namespace, service.namespace} \subseteq namespaces
             /\ service.ip \in address[service.namespace]
             /\ <<service.ip[1], 0>> \in address[user.namespace]
  <2>1. PICK p \in Place(r) \ {<<>>} : e = <<given[Front(p)], given[p]>>
    BY <1>7 DEF Edges
  <2>2. Front(p) \in Place(r) /\ p \in Child(r, Front(p))
    BY PlaceIs, ShapeIs DEF Child
  <2>3. e[1][2] = Answered(r)[Front(p)] /\ e[2][2] = Answered(r)[p]
    BY <1>7, <2>1, <2>2
  <2> DEFINE user == e[1][2]
             service == e[2][2]
  <2>4. /\ user.namespace = <<r, Front(p)>>
        /\ service.namespace = <<r, p>> /\ service.ip = <<link[r][p], 1>>
    <3>1. Answered(r)[p].namespace = <<r, p>> /\ Answered(r)[p].ip = <<link[r][p], 1>>
      BY <1>4, <2>1
    <3>2. Answered(r)[Front(p)].namespace = <<r, Front(p)>>
      BY <1>4, <2>2
    <3> QED
      BY <2>3, <3>1, <3>2
  <2>5. <<link[r][p], 1>> \in BridgeEnds(r, p) /\ <<link[r][p], 0>> \in BridgeEnds(r, Front(p))
    BY <2>1, <2>2 DEF BridgeEnds
  <2> HIDE DEF user, service
  <2>6. <<r, p>> \in namespaces /\ <<r, Front(p)>> \in namespaces
    BY <1>4, <2>1, <2>2
  <2>7. service.ip \in address[service.namespace]
    BY <1>4, <2>1, <2>4, <2>5
  <2>8. service.ip[1] = link[r][p]
    BY <2>4
  <2>9. <<link[r][p], 0>> \in address[<<r, Front(p)>>]
    BY <1>4, <2>2, <2>5
  <2>10. /\ {user.namespace, service.namespace} \subseteq namespaces
         /\ <<service.ip[1], 0>> \in address[user.namespace]
    BY <2>4, <2>6, <2>8, <2>9
  <2> QED
    BY <2>7, <2>10 DEF user, service
<1> QED
  BY <1>6, <1>7, <1>8 DEF given

(* Whichever containers of the shape a network is lent to, every container  *)
(* is given a namespace and can reach its services (realize_topology, zip). *)
THEOREM ServicesAreReachable == NetSpec => []ServicesReachable
<1>1. NetInv => ServicesReachable
  BY AnsweredReaches
<1> QED
  BY <1>1, NetInvariant, PTL

-----------------------------------------------------------------------------
(* The second invariant: whose the subnets are.                             *)

(* What subnets are picked for, and for what they were picked so far.       *)
PicksOf(r) ==
    {<<r, p, "bridge">> : p \in Place(r) \ {<<>>}} \cup {<<r, p, "uplink">> : p \in Place(r)}
AllPicks == UNION {PicksOf(r) : r \in Request}
PicksDone ==
    {x \in AllPicks : IF x[3] = "bridge" THEN x[2] \in DOMAIN link[x[1]]
                      ELSE x[2] \in DOMAIN realized[x[1]] \/ <<x[1], x[2]>> \in namespaces}

(* The counter does not come around: there are as many subnets as picks.    *)
EnoughSubnets == IsFiniteSet(Request) /\ Cardinality(AllPicks) <= Subnets

(* How many picks ago the counter c was at s, at least.                     *)
Behind(c, s) == IF s < c THEN c - s ELSE c + Subnets - s

Recent ==
    /\ \A r \in Request : \A p \in DOMAIN link[r] :
         Behind(counter, link[r][p]) <= Cardinality(PicksDone)
    /\ \A n \in namespaces : \A a \in address[n] :
         a[1] \in 0..Subnets - 1 /\ Behind(counter, a[1]) <= Cardinality(PicksDone)

LinksDiffer ==
    \A r, s \in Request : \A p \in DOMAIN link[r] : \A q \in DOMAIN link[s] :
        link[r][p] = link[s][q] => r = s /\ p = q

(* An address is of a bridge of its namespace, or of its own uplink.        *)
Owned ==
    \A r \in Request : \A p \in Place(r) :
        <<r, p>> \in namespaces => \A a \in address[<<r, p>>] :
            \/ a \in BridgeEnds(r, p)
            \/ /\ \A s \in Request : \A q \in DOMAIN link[s] : link[s][q] # a[1]
               /\ \A n \in namespaces \ {<<r, p>>} : \A b \in address[n] : b[1] # a[1]

AddressInv == Recent /\ LinksDiffer /\ Owned

LEMMA PicksFinite ==
  ASSUME EnoughSubnets
  PROVE  IsFiniteSet(AllPicks) /\ Cardinality(AllPicks) \in Nat
<1>1. ASSUME NEW r \in Request PROVE IsFiniteSet(PicksOf(r))
  <2> DEFINE B == {<<r, p, "bridge">> : p \in Place(r) \ {<<>>}}
             U == {<<r, p, "uplink">> : p \in Place(r)}
             f == [p \in Place(r) \ {<<>>} |-> <<r, p, "bridge">>]
             g == [p \in Place(r) |-> <<r, p, "uplink">>]
  <2>1. IsFiniteSet(Place(r)) /\ IsFiniteSet(Place(r) \ {<<>>})
    BY TopologyAssumption, FS_RemoveElement DEF Place, IsShape
  <2>2. f \in Surjection(Place(r) \ {<<>>}, B) /\ g \in Surjection(Place(r), U)
    BY DEF Surjection
  <2>3. IsFiniteSet(B) /\ IsFiniteSet(U)
    BY <2>1, <2>2, FS_Surjection
  <2>4. PicksOf(r) = B \cup U
    BY DEF PicksOf
  <2> HIDE DEF B, U
  <2> QED
    BY <2>3, <2>4, FS_Union
<1>2. IsFiniteSet({PicksOf(r) : r \in Request})
  <2> DEFINE f == [r \in Request |-> PicksOf(r)]
  <2>1. f \in Surjection(Request, {PicksOf(r) : r \in Request})
    BY DEF Surjection
  <2>2. IsFiniteSet(Request)
    BY DEF EnoughSubnets
  <2> QED
    BY <2>1, <2>2, FS_Surjection
<1>3. IsFiniteSet(AllPicks)
  BY <1>1, <1>2, FS_UNION DEF AllPicks
<1> QED
  BY <1>3, FS_CardinalityType

LEMMA PicksAre ==
  ASSUME NEW r \in Request, NEW p \in Place(r)
  PROVE  /\ <<r, p, "uplink">> \in AllPicks
         /\ p # <<>> => <<r, p, "bridge">> \in AllPicks
         /\ <<r, p, "uplink">> \in PicksDone <=> p \in DOMAIN realized[r] \/ <<r, p>> \in namespaces
         /\ p # <<>> => (<<r, p, "bridge">> \in PicksDone <=> p \in DOMAIN link[r])
<1>1. <<r, p, "uplink">> \in AllPicks
  BY DEF AllPicks, PicksOf
<1>2. p # <<>> => <<r, p, "bridge">> \in AllPicks
  BY DEF AllPicks, PicksOf
<1> QED
  BY <1>1, <1>2 DEF PicksDone

(* A pick that was not made yet finds a subnet that is not in use.          *)
LEMMA CounterFresh ==
  ASSUME EnoughSubnets, NetType, Recent, NEW x \in AllPicks, x \notin PicksDone
  PROVE  /\ \A r \in Request : \A p \in DOMAIN link[r] : link[r][p] # counter
         /\ \A n \in namespaces : \A a \in address[n] : a[1] # counter
<1>1. IsFiniteSet(AllPicks) /\ Cardinality(AllPicks) \in Nat /\ Cardinality(AllPicks) <= Subnets
  BY PicksFinite DEF EnoughSubnets
<1>2. IsFiniteSet(AllPicks \ {x}) /\ Cardinality(AllPicks \ {x}) = Cardinality(AllPicks) - 1
  BY <1>1, FS_RemoveElement
<1>3. PicksDone \in SUBSET (AllPicks \ {x})
  BY DEF PicksDone
<1>4. IsFiniteSet(PicksDone) /\ Cardinality(PicksDone) <= Cardinality(AllPicks) - 1
  BY <1>2, <1>3, FS_Subset
<1>5. Cardinality(PicksDone) \in Nat
  BY <1>4, FS_CardinalityType
<1>6. Behind(counter, counter) = Subnets /\ Subnets \in Nat
  BY TopologyAssumption DEF Behind, NetType
<1>7. ~(Behind(counter, counter) <= Cardinality(PicksDone))
  BY <1>1, <1>4, <1>5, <1>6
<1> QED
  BY <1>7 DEF Recent

LEMMA BehindStep ==
  ASSUME NEW c \in 0..Subnets - 1, NEW s \in 0..Subnets - 1, NEW d,
         d = IF c + 1 = Subnets THEN 0 ELSE c + 1
  PROVE  /\ Behind(c, s) \in Nat /\ Behind(d, s) \in Nat
         /\ Behind(d, s) <= Behind(c, s) + 1 /\ Behind(d, c) = 1
<1>1. Subnets \in Nat \ {0}
  BY TopologyAssumption
<1> QED
  BY <1>1 DEF Behind

(* What a step does to subnets and addresses.                               *)
LEMMA AddressStep ==
  ASSUME NetInv, NetNext
  PROVE  \/ /\ UNCHANGED <<counter, link>> /\ namespaces' \subseteq namespaces
            /\ \A n \in namespaces' : address'[n] = address[n]
         \/ \E r \in Request : \E p \in Place(r) : PickBridge(r, p)
         \/ \E r \in Request : \E p \in Place(r) : \E ends \in SUBSET BridgeEnds(r, p) :
              request[r] = "creating" /\ Ready(r, p) /\ Make(r, p, ends) /\ UNCHANGED link
<1>1. PICK r \in Request : Acts(r)
  BY DEF NetNext, Acts
<1>2. CASE CreateFails(r)
  <2>1. PICK p \in Place(r) :
          /\ Ready(r, p)
          /\ \/ UNCHANGED <<counter, namespaces, address>>
             \/ \E ends \in SUBSET BridgeEnds(r, p) : Make(r, p, ends)
    BY <1>2 DEF CreateFails
  <2>2. request[r] = "creating" /\ UNCHANGED link
    BY <1>2 DEF CreateFails, Turn
  <2> QED
    BY <2>1, <2>2
<1>3. ASSUME NEW p \in Place(r), CreateNamespace(r, p)
      PROVE  \E ends \in SUBSET BridgeEnds(r, p) :
               request[r] = "creating" /\ Ready(r, p) /\ Make(r, p, ends) /\ UNCHANGED link
  BY <1>3 DEF CreateNamespace
<1>4. CASE DeleteNamespace(r)
  BY <1>4, DeleteEffect DEF DeleteNamespace
<1> QED
  BY <1>1, <1>2, <1>3, <1>4 DEF Acts, CreateNetwork, Answer, DeleteNetwork, NetworkDeleted, DeleteFails

LEMMA PicksStay ==
  ASSUME NetInv, NetNext
  PROVE  PicksDone \subseteq PicksDone'
<1>1. NetType /\ Kept /\ RealizedAsNamed /\ RealizedStays
  BY LinksKept DEF NetInv
<1>2. PICK r \in Request : Acts(r)
  BY DEF NetNext, Acts
<1>3. AllPicks' = AllPicks
  BY DEF AllPicks, PicksOf, Place
<1>4. \A s \in Request : DOMAIN realized[s] \subseteq DOMAIN realized'[s]
  <2>1. CASE UNCHANGED realized
    BY <2>1
  <2>2. ASSUME NEW p \in Place(r), CreateNamespace(r, p), NEW s \in Request
        PROVE  DOMAIN realized[s] \subseteq DOMAIN realized'[s]
    <3>1. CASE s = r
      BY <2>2, <3>1, RealizeEffect
    <3>2. CASE s # r
      <4>1. realized'[s] = realized[s]
        BY <1>2, <3>2, Apart
      <4> QED
        BY <4>1
    <3> QED
      BY <3>1, <3>2
  <2> QED
    BY <1>2, <2>1, <2>2 DEF Acts, CreateNetwork, Answer, CreateFails, PickBridge,
       DeleteNetwork, DeleteNamespace, NetworkDeleted, DeleteFails
<1>5. \A s \in Request : \A p \in Place(s) :
        <<s, p>> \in namespaces => p \in DOMAIN realized'[s] \/ <<s, p>> \in namespaces'
  <2>1. CASE namespaces \subseteq namespaces'
    BY <2>1
  <2>2. CASE DeleteNamespace(r)
    <3>1. PICK m \in Place(r) : namespaces' = namespaces \ {<<r, m>>}
      BY <2>2, DeleteEffect
    <3>2. m \in DOMAIN realized[r]
      <4>1. <<>> \in DOMAIN realized[r]
        BY <1>1, <2>2 DEF RealizedStays, DeleteNamespace
      <4>2. m \in Under(Place(r), <<>>) /\ <<>> \o m = m
        BY RootUnder
      <4> QED
        BY <1>1, <4>1, <4>2 DEF RealizedAsNamed
    <3> QED
      BY <1>4, <3>1, <3>2
  <2>3. CASE CreateFails(r)
    BY <1>1, <2>1, <2>3, FailEffect
  <2> QED
    BY <1>2, <2>1, <2>2, <2>3 DEF Acts, CreateNetwork, Answer, PickBridge, CreateNamespace, Make,
       DeleteNetwork, NetworkDeleted, DeleteFails
<1> SUFFICES ASSUME NEW x \in PicksDone PROVE x \in PicksDone'
  OBVIOUS
<1>6. x \in AllPicks
  BY DEF PicksDone
<1>10. PICK s \in Request : x \in PicksOf(s)
  BY <1>6 DEF AllPicks
<1>7. PICK p \in Place(s) : x = <<s, p, "bridge">> \/ x = <<s, p, "uplink">>
  BY <1>10 DEF PicksOf
<1>8. CASE x = <<s, p, "bridge">>
  <2>1. p \in DOMAIN link[s]
    BY <1>8 DEF PicksDone
  <2>2. p \in DOMAIN link'[s]
    BY <1>1, <2>1 DEF Kept
  <2> QED
    BY <1>3, <1>6, <1>8, <2>2 DEF PicksDone
<1>9. CASE x = <<s, p, "uplink">>
  <2>1. p \in DOMAIN realized[s] \/ <<s, p>> \in namespaces
    BY <1>9 DEF PicksDone
  <2>2. p \in DOMAIN realized'[s] \/ <<s, p>> \in namespaces'
    BY <1>4, <1>5, <2>1
  <2> QED
    BY <1>3, <1>6, <1>9, <2>2 DEF PicksDone
<1> QED
  BY <1>7, <1>8, <1>9

LEMMA AddressInit == ASSUME NetInit PROVE AddressInv
BY DEF NetInit, AddressInv, Recent, LinksDiffer, Owned

LEMMA AddressStutter == ASSUME AddressInv, UNCHANGED netVars PROVE AddressInv'
<1> USE DEF netVars
<1>1. PicksDone' = PicksDone
  BY DEF PicksDone, AllPicks, PicksOf, Place
<1>2. Recent'
  BY <1>1 DEF AddressInv, Recent, Behind
<1>3. LinksDiffer' /\ Owned'
  BY DEF AddressInv, LinksDiffer, Owned, BridgeEnds, Child, Place
<1> QED
  BY <1>2, <1>3 DEF AddressInv

(* Where the subnets in use come from, after a step.                        *)
LEMMA RecentStep ==
  ASSUME EnoughSubnets, NetInv, AddressInv, NetNext, NetType'
  PROVE  Recent'
<1>1. NetType /\ Recent /\ Kept
  BY LinksKept DEF NetInv, AddressInv
<1>2. PicksDone \subseteq PicksDone' /\ AllPicks' = AllPicks
  BY PicksStay DEF AllPicks, PicksOf, Place
<1>3. PicksDone' \in SUBSET AllPicks /\ PicksDone \in SUBSET AllPicks
  BY <1>2 DEF PicksDone
<1>4. /\ IsFiniteSet(PicksDone') /\ IsFiniteSet(PicksDone)
      /\ Cardinality(PicksDone') \in Nat /\ Cardinality(PicksDone) \in Nat
      /\ Cardinality(PicksDone) <= Cardinality(PicksDone')
  <2>1. IsFiniteSet(AllPicks)
    BY PicksFinite
  <2>2. IsFiniteSet(PicksDone') /\ IsFiniteSet(PicksDone)
    BY <1>3, <2>1, FS_Subset
  <2>3. PicksDone \in SUBSET PicksDone'
    BY <1>2
  <2> QED
    BY <2>2, <2>3, FS_Subset, FS_CardinalityType
<1> DEFINE InUse(s) == \/ \E r \in Request : \E p \in DOMAIN link[r] : s = link[r][p]
                       \/ \E n \in namespaces : \E a \in address[n] : s = a[1]
           Old(s) == s \in 0..Subnets - 1 /\ Behind(counter, s) <= Cardinality(PicksDone)
           New1(s) == s \in 0..Subnets - 1 /\ Behind(counter', s) <= Cardinality(PicksDone)'
<1>5. ASSUME NEW s, InUse(s) PROVE Old(s)
  BY <1>1, <1>5 DEF Recent, NetType
<1>6. CASE /\ UNCHANGED <<counter, link>> /\ namespaces' \subseteq namespaces
           /\ \A n \in namespaces' : address'[n] = address[n]
  <2>1. \A s : Old(s) => New1(s)
    <3> SUFFICES ASSUME NEW s, Old(s) PROVE New1(s)
      OBVIOUS
    <3>1. Behind(counter, s) \in Nat /\ counter' = counter
      BY <1>1, <1>6, BehindStep DEF NetType
    <3> QED
      BY <1>4, <3>1
  <2> HIDE DEF Old, InUse
  <2>2. \A s : InUse(s) => New1(s)
    BY <1>5, <2>1
  <2>3. \A r \in Request : \A p \in DOMAIN link'[r] : New1(link'[r][p])
    BY <1>6, <2>2 DEF InUse
  <2>4. \A n \in namespaces' : \A a \in address'[n] : New1(a[1])
    BY <1>6, <2>2 DEF InUse
  <2> QED
    BY <2>3, <2>4 DEF Recent
<1>7. ASSUME NEW x \in AllPicks, x \notin PicksDone, x \in PicksDone', counter' = NextCounter
      PROVE  New1(counter) /\ \A s : Old(s) => New1(s)
  <2>1. Cardinality(PicksDone)' >= Cardinality(PicksDone) + 1
    <3>1. PicksDone \in SUBSET (PicksDone' \ {x})
      BY <1>2, <1>7
    <3>2. /\ IsFiniteSet(PicksDone' \ {x})
          /\ Cardinality(PicksDone' \ {x}) = Cardinality(PicksDone') - 1
      BY <1>4, <1>7, FS_RemoveElement
    <3>3. Cardinality(PicksDone) <= Cardinality(PicksDone' \ {x})
      BY <3>1, <3>2, FS_Subset
    <3> QED
      BY <1>4, <3>2, <3>3
  <2>2. counter \in 0..Subnets - 1 /\ counter' = IF counter + 1 = Subnets THEN 0 ELSE counter + 1
    BY <1>1, <1>7, NextIs DEF NetType
  <2>3. Behind(counter', counter) = 1
    BY <2>2, BehindStep
  <2>4. New1(counter)
    BY <1>4, <2>1, <2>2, <2>3
  <2>5. ASSUME NEW s, Old(s) PROVE New1(s)
    <3>1. /\ Behind(counter, s) \in Nat /\ Behind(counter', s) \in Nat
          /\ Behind(counter', s) <= Behind(counter, s) + 1
      BY <2>2, <2>5, BehindStep
    <3> QED
      BY <1>4, <2>1, <2>5, <3>1
  <2> QED
    BY <2>4, <2>5
<1>8. ASSUME NEW r \in Request, NEW p \in Place(r), PickBridge(r, p) PROVE Recent'
  <2>1. /\ DOMAIN link'[r] = DOMAIN link[r] \cup {p} /\ link'[r][p] = counter
        /\ \A q \in DOMAIN link[r] : link'[r][q] = link[r][q]
        /\ \A s \in Request \ {r} : link'[s] = link[s]
        /\ p \notin DOMAIN link[r] /\ p # <<>>
    BY <1>1, <1>8, PickEffect
  <2>2. counter' = NextCounter /\ UNCHANGED <<namespaces, address, realized>>
    BY <1>8 DEF PickBridge
  <2> DEFINE x == <<r, p, "bridge">>
  <2>3. x \in AllPicks /\ x \notin PicksDone
    BY <2>1, PicksAre
  <2>4. x \in PicksDone'
    BY <1>2, <2>1, <2>3 DEF PicksDone
  <2> HIDE DEF x
  <2>5. New1(counter) /\ \A s : Old(s) => New1(s)
    BY <1>7, <2>2, <2>3, <2>4
  <2> HIDE DEF Old, InUse, New1
  <2>6. \A s : InUse(s) => New1(s)
    BY <1>5, <2>5
  <2>7. ASSUME NEW s \in Request, NEW q \in DOMAIN link'[s] PROVE New1(link'[s][q])
    <3>1. CASE s = r /\ q = p
      BY <2>1, <2>5, <3>1
    <3>2. CASE q \in DOMAIN link[s]
      <4>1. link'[s][q] = link[s][q]
        BY <1>1, <3>2 DEF Kept
      <4>2. InUse(link[s][q])
        BY <3>2 DEF InUse
      <4> QED
        BY <2>6, <4>1, <4>2
    <3> QED
      BY <2>1, <3>1, <3>2
  <2>8. \A n \in namespaces' : \A a \in address'[n] : New1(a[1])
    BY <2>2, <2>6 DEF InUse
  <2> QED
    BY <2>7, <2>8 DEF Recent, New1
<1>9. ASSUME NEW r \in Request, NEW p \in Place(r), NEW ends \in SUBSET BridgeEnds(r, p),
             request[r] = "creating", Ready(r, p), Make(r, p, ends), UNCHANGED link
      PROVE  Recent'
  <2>1. /\ namespaces' = namespaces \cup {<<r, p>>}
        /\ \A n \in namespaces \ {<<r, p>>} : address'[n] = address[n]
        /\ address'[<<r, p>>] = {<<counter, 1>>} \cup ends
    BY <1>1, <1>9, MakeEffect
  <2>2. counter' = NextCounter /\ <<r, p>> \notin namespaces /\ p \notin DOMAIN realized[r]
    BY <1>9 DEF Make, Ready, Built, NetInv, RealizedStays
  <2> DEFINE x == <<r, p, "uplink">>
  <2>3. x \in AllPicks /\ x \notin PicksDone
    BY <2>2, PicksAre
  <2>4. x \in PicksDone'
    BY <1>2, <2>1, <2>3 DEF PicksDone
  <2> HIDE DEF x
  <2>5. New1(counter) /\ \A s : Old(s) => New1(s)
    BY <1>7, <2>2, <2>3, <2>4
  <2>9. ASSUME NEW a \in BridgeEnds(r, p) PROVE InUse(a[1])
    <3>1. Picked(r, p) /\ \A q \in Child(r, p) : q \in DOMAIN link[r]
      BY <1>9 DEF Ready, Built, NetInv, BridgesFirst, Child, Picked
    <3>2. CASE p # <<>> /\ a = <<link[r][p], 1>>
      BY <3>1, <3>2 DEF Picked
    <3>3. CASE a \in {<<link[r][q], 0>> : q \in Child(r, p)}
      BY <3>1, <3>3
    <3> QED
      BY <3>2, <3>3 DEF BridgeEnds
  <2> HIDE DEF Old, InUse, New1
  <2>6. \A s : InUse(s) => New1(s)
    BY <1>5, <2>5
  <2>7. \A s \in Request : \A q \in DOMAIN link'[s] : New1(link'[s][q])
    BY <1>9, <2>6 DEF InUse
  <2>8. ASSUME NEW n \in namespaces', NEW a \in address'[n] PROVE New1(a[1])
    <3>1. CASE n # <<r, p>>
      <4>1. n \in namespaces /\ a \in address[n]
        BY <2>1, <3>1
      <4> QED
        BY <2>6, <4>1 DEF InUse
    <3>2. CASE n = <<r, p>>
      <4>1. a = <<counter, 1>> \/ a \in BridgeEnds(r, p)
        BY <2>1, <3>2
      <4> QED
        BY <2>5, <2>6, <2>9, <4>1
    <3> QED
      BY <3>1, <3>2
  <2> QED
    BY <2>7, <2>8 DEF Recent, New1
<1> QED
  BY <1>6, <1>8, <1>9, AddressStep

LEMMA LinksStep ==
  ASSUME EnoughSubnets, NetInv, AddressInv, NetNext
  PROVE  LinksDiffer'
<1>1. NetType /\ Recent /\ LinksDiffer
  BY DEF NetInv, AddressInv
<1>2. CASE UNCHANGED link
  BY <1>1, <1>2 DEF LinksDiffer
<1>3. ASSUME NEW r \in Request, NEW p \in Place(r), PickBridge(r, p) PROVE LinksDiffer'
  <2>1. /\ DOMAIN link'[r] = DOMAIN link[r] \cup {p} /\ link'[r][p] = counter
        /\ \A q \in DOMAIN link[r] : link'[r][q] = link[r][q]
        /\ \A s \in Request \ {r} : link'[s] = link[s]
        /\ p \notin DOMAIN link[r] /\ p # <<>>
    BY <1>1, <1>3, PickEffect
  <2>2. <<r, p, "bridge">> \in AllPicks /\ <<r, p, "bridge">> \notin PicksDone
    BY <2>1, PicksAre
  <2>3. \A s \in Request : \A q \in DOMAIN link[s] : link[s][q] # counter
    BY <1>1, <2>2, CounterFresh
  <2>4. ASSUME NEW s \in Request, NEW q \in DOMAIN link'[s]
        PROVE  \/ s = r /\ q = p /\ link'[s][q] = counter
               \/ q \in DOMAIN link[s] /\ link'[s][q] = link[s][q]
    <3>1. CASE s = r
      BY <2>1, <3>1
    <3>2. CASE s # r
      <4>1. link'[s] = link[s]
        BY <2>1, <3>2
      <4> QED
        BY <4>1
    <3> QED
      BY <3>1, <3>2
  <2> SUFFICES ASSUME NEW s \in Request, NEW u \in Request,
                      NEW x \in DOMAIN link'[s], NEW y \in DOMAIN link'[u],
                      link'[s][x] = link'[u][y]
               PROVE  s = u /\ x = y
    BY DEF LinksDiffer
  <2>5. \/ s = r /\ x = p /\ link'[s][x] = counter
        \/ x \in DOMAIN link[s] /\ link'[s][x] = link[s][x]
    BY <2>4
  <2>6. \/ u = r /\ y = p /\ link'[u][y] = counter
        \/ y \in DOMAIN link[u] /\ link'[u][y] = link[u][y]
    BY <2>4
  <2> QED
    BY <1>1, <2>3, <2>5, <2>6 DEF LinksDiffer
<1> QED
  BY <1>2, <1>3, AddressStep

LEMMA OwnedStep ==
  ASSUME EnoughSubnets, NetInv, AddressInv, NetNext
  PROVE  Owned'
<1>1. NetType /\ BridgesFirst /\ Recent /\ Owned /\ Kept
  BY LinksKept DEF NetInv, AddressInv
<1>2. \A s \in Request : \A q \in Place(s) :
        <<s, q>> \in namespaces => BridgeEnds(s, q)' = BridgeEnds(s, q)
  BY <1>1, EndsStay
<1> DEFINE Lone(s, q, a) ==
             /\ \A u \in Request : \A x \in DOMAIN link[u] : link[u][x] # a[1]
             /\ \A n \in namespaces \ {<<s, q>>} : \A b \in address[n] : b[1] # a[1]
           Lone1(s, q, a) ==
             /\ \A u \in Request : \A x \in DOMAIN link'[u] : link'[u][x] # a[1]
             /\ \A n \in namespaces' \ {<<s, q>>} : \A b \in address'[n] : b[1] # a[1]
<1>3. ASSUME NEW s \in Request, NEW q \in Place(s), <<s, q>> \in namespaces,
             NEW a \in address[<<s, q>>]
      PROVE  a \in BridgeEnds(s, q)' \/ Lone(s, q, a)
  BY <1>1, <1>2, <1>3 DEF Owned
<1>4. SUFFICES ASSUME NEW s \in Request, NEW q \in Place(s), <<s, q>> \in namespaces',
                      NEW a \in address'[<<s, q>>]
               PROVE  a \in BridgeEnds(s, q)' \/ Lone1(s, q, a)
  BY DEF Owned, Place
<1>5. CASE /\ UNCHANGED <<counter, link>> /\ namespaces' \subseteq namespaces
           /\ \A n \in namespaces' : address'[n] = address[n]
  <2>1. <<s, q>> \in namespaces /\ a \in address[<<s, q>>]
    BY <1>4, <1>5
  <2>2. CASE Lone(s, q, a)
    BY <1>5, <2>2
  <2> QED
    BY <1>3, <2>1, <2>2
<1>6. ASSUME NEW r \in Request, NEW p \in Place(r), PickBridge(r, p)
      PROVE  a \in BridgeEnds(s, q)' \/ Lone1(s, q, a)
  <2>1. /\ DOMAIN link'[r] = DOMAIN link[r] \cup {p} /\ link'[r][p] = counter
        /\ \A x \in DOMAIN link[r] : link'[r][x] = link[r][x]
        /\ \A u \in Request \ {r} : link'[u] = link[u]
        /\ p \notin DOMAIN link[r] /\ p # <<>>
    BY <1>1, <1>6, PickEffect
  <2>2. UNCHANGED <<namespaces, address>>
    BY <1>6 DEF PickBridge
  <2>3. <<r, p, "bridge">> \in AllPicks /\ <<r, p, "bridge">> \notin PicksDone
    BY <2>1, PicksAre
  <2>4. \A n \in namespaces : \A b \in address[n] : b[1] # counter
    BY <1>1, <2>3, CounterFresh
  <2>5. <<s, q>> \in namespaces /\ a \in address[<<s, q>>] /\ a[1] # counter
    BY <1>4, <2>2, <2>4
  <2>6. CASE Lone(s, q, a)
    <3>1. ASSUME NEW u \in Request, NEW x \in DOMAIN link'[u] PROVE link'[u][x] # a[1]
      <4>1. CASE u = r /\ x = p
        BY <2>1, <2>5, <4>1
      <4>2. CASE x \in DOMAIN link[u]
        <5>1. link'[u][x] = link[u][x]
          BY <1>1, <4>2 DEF Kept
        <5> QED
          BY <2>6, <4>2, <5>1
      <4> QED
        BY <2>1, <4>1, <4>2
    <3> QED
      BY <2>2, <2>6, <3>1
  <2> QED
    BY <1>3, <2>5, <2>6
<1>7. ASSUME NEW r \in Request, NEW p \in Place(r), NEW ends \in SUBSET BridgeEnds(r, p),
             request[r] = "creating", Ready(r, p), Make(r, p, ends), UNCHANGED link
      PROVE  a \in BridgeEnds(s, q)' \/ Lone1(s, q, a)
  <2>1. /\ namespaces' = namespaces \cup {<<r, p>>}
        /\ \A n \in namespaces \ {<<r, p>>} : address'[n] = address[n]
        /\ address'[<<r, p>>] = {<<counter, 1>>} \cup ends
    BY <1>1, <1>7, MakeEffect
  <2>2. <<r, p>> \notin namespaces /\ p \notin DOMAIN realized[r]
    BY <1>7 DEF Ready, Built, NetInv, RealizedStays
  <2>3. <<r, p, "uplink">> \in AllPicks /\ <<r, p, "uplink">> \notin PicksDone
    BY <2>2, PicksAre
  <2>4. /\ \A u \in Request : \A x \in DOMAIN link[u] : link[u][x] # counter
        /\ \A n \in namespaces : \A b \in address[n] : b[1] # counter
    BY <1>1, <2>3, CounterFresh
  <2>5. BridgeEnds(r, p)' = BridgeEnds(r, p)
    BY <1>7 DEF BridgeEnds, Child, Place
  <2>6. ASSUME NEW b \in BridgeEnds(r, p)
        PROVE  \E x \in DOMAIN link[r] : b[1] = link[r][x]
    <3>1. Picked(r, p) /\ \A x \in Child(r, p) : x \in DOMAIN link[r]
      BY <1>7 DEF Ready, Built, NetInv, BridgesFirst, Child, Picked
    <3>2. CASE p # <<>> /\ b = <<link[r][p], 1>>
      BY <3>1, <3>2 DEF Picked
    <3>3. CASE b \in {<<link[r][x], 0>> : x \in Child(r, p)}
      BY <3>1, <3>3
    <3> QED
      BY <3>2, <3>3 DEF BridgeEnds
  <2>7. CASE s = r /\ q = p
    <3>1. CASE a \in ends
      BY <2>5, <2>7, <3>1
    <3>2. CASE a = <<counter, 1>>
      <4>1. a[1] = counter
        BY <3>2
      <4>2. \A n \in namespaces' \ {<<r, p>>} : n \in namespaces /\ address'[n] = address[n]
        BY <2>1
      <4> QED
        BY <1>7, <2>4, <2>7, <4>1, <4>2
    <3> QED
      BY <2>1, <2>7, <3>1, <3>2
  <2>8. CASE <<s, q>> # <<r, p>>
    <3>1. <<s, q>> \in namespaces /\ a \in address[<<s, q>>]
      BY <1>4, <2>1, <2>8
    <3>2. CASE Lone(s, q, a)
      <4>1. ASSUME NEW n \in namespaces' \ {<<s, q>>}, NEW b \in address'[n] PROVE b[1] # a[1]
        <5>1. CASE n # <<r, p>>
          BY <2>1, <3>2, <5>1
        <5>2. CASE n = <<r, p>>
          <6>1. b = <<counter, 1>> \/ b \in BridgeEnds(r, p)
            BY <2>1, <5>2
          <6>2. CASE b = <<counter, 1>>
            BY <2>4, <3>1, <6>2
          <6>3. CASE b \in BridgeEnds(r, p)
            BY <2>6, <3>2, <6>3
          <6> QED
            BY <6>1, <6>2, <6>3
        <5> QED
          BY <5>1, <5>2
      <4> QED
        BY <1>7, <3>2, <4>1
    <3> QED
      BY <1>3, <3>1, <3>2
  <2> QED
    BY <2>7, <2>8
<1> QED
  BY <1>5, <1>6, <1>7, AddressStep

(* Who owns its addresses shares none.                                      *)
LEMMA OwnersDiffer == ASSUME NetType, LinksDiffer, BridgesFirst, Owned PROVE AddressesUnique
<1> SUFFICES ASSUME NEW m \in namespaces, NEW n \in namespaces, m # n,
                    NEW a \in address[m] \cap address[n]
             PROVE  FALSE
  BY DEF AddressesUnique
<1> DEFINE r == m[1]
           p == m[2]
           s == n[1]
           q == n[2]
<1>1. /\ r \in Request /\ p \in Place(r) /\ m = <<r, p>>
      /\ s \in Request /\ q \in Place(s) /\ n = <<s, q>>
  BY DEF NetType
<1> HIDE DEF r, p, s, q
<1>2. a \in BridgeEnds(r, p) /\ a \in BridgeEnds(s, q)
  BY <1>1 DEF Owned
<1>3. /\ Picked(r, p) /\ Picked(s, q)
      /\ \A x \in Child(r, p) : x \in DOMAIN link[r] /\ Front(x) = p
      /\ \A x \in Child(s, q) : x \in DOMAIN link[s] /\ Front(x) = q
  BY <1>1 DEF BridgesFirst, Child, Picked
<1>4. \/ p \in DOMAIN link[r] /\ a = <<link[r][p], 1>>
      \/ \E x \in Child(r, p) : a = <<link[r][x], 0>>
  BY <1>2, <1>3 DEF BridgeEnds, Picked
<1>5. \/ q \in DOMAIN link[s] /\ a = <<link[s][q], 1>>
      \/ \E x \in Child(s, q) : a = <<link[s][x], 0>>
  BY <1>2, <1>3 DEF BridgeEnds, Picked
<1>6. CASE a[2] = 1
  <2>1. p \in DOMAIN link[r] /\ q \in DOMAIN link[s] /\ link[r][p] = link[s][q]
    BY <1>4, <1>5, <1>6
  <2> QED
    BY <1>1, <2>1 DEF LinksDiffer
<1>7. CASE a[2] # 1
  <2>1. PICK x \in Child(r, p) : a = <<link[r][x], 0>>
    BY <1>4, <1>7
  <2>2. PICK y \in Child(s, q) : a = <<link[s][y], 0>>
    BY <1>5, <1>7
  <2>3. link[r][x] = link[s][y]
    BY <2>1, <2>2
  <2>4. r = s /\ x = y
    BY <1>1, <1>3, <2>3 DEF LinksDiffer
  <2> QED
    BY <1>1, <1>3, <2>4
<1> QED
  BY <1>6, <1>7

(* While the counter does not come around, no two namespaces share an       *)
(* address (pick_subnet, create_network_namespace).                         *)
THEOREM AddressesAreUnique ==
  ASSUME EnoughSubnets
  PROVE  NetSpec => []AddressesUnique
<1>1. NetInit => NetInv /\ AddressInv
  BY NetInitInv, AddressInit
<1>2. (NetInv /\ AddressInv) /\ [NetNext]_netVars => (NetInv /\ AddressInv)'
  <2> SUFFICES ASSUME NetInv, AddressInv, [NetNext]_netVars PROVE (NetInv /\ AddressInv)'
    OBVIOUS
  <2>1. CASE UNCHANGED netVars
    BY <2>1, NetStutter, AddressStutter
  <2>2. CASE NetNext
    <3>1. NetInv'
      BY <2>2, TypeStep, BridgesStep, NamedStep, StaysStep, StackStep, GoneStep DEF NetInv
    <3>2. AddressInv'
      BY <2>2, <3>1, RecentStep, LinksStep, OwnedStep DEF AddressInv, NetInv
    <3> QED
      BY <3>1, <3>2
  <2> QED
    BY <2>1, <2>2
<1>3. NetInv /\ AddressInv => AddressesUnique
  BY OwnersDiffer DEF NetInv, AddressInv
<1> QED
  BY <1>1, <1>2, <1>3, PTL DEF NetSpec

-----------------------------------------------------------------------------
(* Paths.                                                                   *)
LEMMA PathType ==
  ASSUME NEW p \in Path
  PROVE  /\ p \in Seq(Name) /\ Len(p) \in Nat /\ Len(p) >= 1
         /\ Len(p) # 1 => Parent(p) \in Path /\ Len(Parent(p)) = Len(p) - 1
<1>1. p \in Seq(Name) /\ p # <<>> /\ (Len(p) > 1 => Parent(p) \in Path)
  BY PathAssumption DEF PathAssumption
<1>2. Len(p) \in Nat /\ Len(p) >= 1
  BY <1>1
<1>3. ASSUME Len(p) # 1 PROVE Len(SubSeq(p, 1, Len(p) - 1)) = Len(p) - 1
  <2>1. \A i \in 1..Len(p) - 1 : p[i] \in Name
    BY <1>1, <1>2
  <2>2. \A n \in Nat : n >= 1 /\ n # 1 => n >= 2
    OBVIOUS
  <2>3. Len(p) >= 2
    BY <1>2, <1>3, <2>2
  <2> QED
    BY <1>2, <2>1, <2>3, SubSeqProperties
<1> QED
  BY <1>1, <1>2, <1>3 DEF Parent

(* What is below a path is its child or has a parent that is below it.      *)
LEMMA BelowParent ==
  ASSUME NEW e \in Path, NEW p \in Path, Below(e, p)
  PROVE  Len(e) # 1 /\ (p = Parent(e) \/ Below(Parent(e), p))
<1>1. /\ e \in Seq(Name) /\ p \in Seq(Name) /\ Len(p) \in Nat /\ Len(p) >= 1
      /\ Len(e) \in Nat /\ Len(p) < Len(e) /\ p = SubSeq(e, 1, Len(p))
  BY PathType DEF Below
<1>2. CASE Len(p) = Len(e) - 1
  BY <1>1, <1>2 DEF Parent
<1>3. CASE Len(p) # Len(e) - 1
  <2>1. Len(p) < Len(e) - 1
    BY <1>1, <1>3
  <2>2. SubSeq(SubSeq(e, 1, Len(e) - 1), 1, Len(p)) = SubSeq(e, 1, Len(p))
    BY <1>1, <2>1
  <2> QED
    BY <1>1, <2>1, <2>2 DEF Parent, Below
<1> QED
  BY <1>1, <1>2, <1>3

(* Whatever is in an upper directory is in directories of it.               *)
LEMMA AboveAreDirs ==
  ASSUME NEW t, NEW u \in Uppers(t), NEW e \in Path, NEW p \in Path,
         u[e] # "none", Below(e, p)
  PROVE  u[p] \in {"dir", "opaque"}
<1> DEFINE Bad == {x \in Path : u[x] # "none" /\ Below(x, p)}
           Lengths == {Len(x) : x \in Bad}
<1>1. SUFFICES ASSUME u[p] \notin {"dir", "opaque"} PROVE FALSE
  OBVIOUS
<1>2. Lengths \in SUBSET Nat /\ Lengths # {}
  BY PathType
<1>3. PICK n \in Lengths : \A m \in Lengths : n <= m
  BY <1>2, Least
<1>7. PICK x \in Bad : n = Len(x)
  OBVIOUS
<1>4. /\ Len(x) # 1 /\ Parent(x) \in Path /\ Len(Parent(x)) = Len(x) - 1 /\ Len(x) \in Nat
      /\ p = Parent(x) \/ Below(Parent(x), p)
  BY PathType, BelowParent
<1>5. u[Parent(x)] \in {"dir", "opaque"}
  BY <1>4 DEF Uppers
<1>6. Parent(x) \in Bad
  BY <1>1, <1>4, <1>5
<1> QED
  <2>1. n <= Len(Parent(x))
    BY <1>3, <1>6
  <2> QED
    BY <1>7, <1>4, <2>1

-----------------------------------------------------------------------------
(* What an archive says of a path is what its upper directory had there.    *)
LEMMA ArchiveSays ==
  ASSUME NEW p \in Path, layer = UNION {AppendEntry(q) : q \in Path},
         upper \in Uppers(lower)
  PROVE  /\ <<"file", p>> \in layer <=> upper[p] = "file"
         /\ <<"dir", p>> \in layer <=> upper[p] = "dir"
         /\ <<"opq", p>> \in layer <=> upper[p] = "opaque"
         /\ <<"wh", p>> \in layer <=> upper[p] = "whiteout"
<1>1. \A q \in Path : upper[q] \in UpperKind
  BY DEF Uppers
<1>2. ASSUME NEW kind, <<kind, p>> \in layer PROVE <<kind, p>> \in AppendEntry(p)
  <2>1. PICK q \in Path : <<kind, p>> \in AppendEntry(q)
    BY <1>2
  <2>2. q = p
    BY <2>1 DEF AppendEntry
  <2> QED
    BY <2>1, <2>2
<1>3. AppendEntry(p) \subseteq layer
  OBVIOUS
<1>4. /\ <<"file", p>> \in AppendEntry(p) <=> upper[p] = "file"
      /\ <<"dir", p>> \in AppendEntry(p) <=> upper[p] = "dir"
      /\ <<"opq", p>> \in AppendEntry(p) <=> upper[p] = "opaque"
      /\ <<"wh", p>> \in AppendEntry(p) <=> upper[p] = "whiteout"
  BY <1>1 DEF AppendEntry, UpperKind
<1> QED
  BY <1>2, <1>3, <1>4

LEMMA EntriesAreThere ==
  ASSUME layer = UNION {AppendEntry(q) : q \in Path}, NEW e \in layer
  PROVE  e[2] \in Path /\ upper[e[2]] # "none"
<1>1. PICK q \in Path : e \in AppendEntry(q)
  OBVIOUS
<1>2. e[2] = q /\ upper[q] # "none"
  BY <1>1 DEF AppendEntry
<1> QED
  BY <1>2

(* Path by path, the applied layer and the mount agree.                     *)
LEMMA PathSurvives ==
  ASSUME lower \in Trees("old"), upper \in Uppers(lower), ~ReplacesFile,
         layer = UNION {AppendEntry(q) : q \in Path}, NEW p \in Path
  PROVE  Kinds(Apply(layer))[p] = Kinds(Merged)[p]
<1> DEFINE above == \E q \in Path : Below(p, q) /\ upper[q] \notin {"none", "dir"}
           gone == \/ <<"wh", p>> \in layer
                   \/ \E q \in Path : /\ Below(p, q)
                                      /\ {<<"wh", q>>, <<"opq", q>>, <<"file", q>>} \cap layer # {}
           kept == IF gone THEN Nothing ELSE lower[p]
           implied == <<"opq", p>> \in layer \/ \E e \in layer : Below(e[2], p)
<1>1. Apply(layer)[p] =
        CASE <<"file", p>> \in layer -> File("new")
          [] <<"dir", p>> \in layer -> Dir("new")
          [] OTHER -> IF implied
                        THEN CASE kept = Nothing -> Dir("default")
                               [] kept[1] = "file" -> <<"error", "">>
                               [] OTHER -> kept
                        ELSE kept
  BY DEF Apply
<1>2. Merged[p] =
        CASE upper[p] = "file" -> File("new")
          [] upper[p] \in {"dir", "opaque"} -> Dir("new")
          [] upper[p] = "whiteout" -> Nothing
          [] OTHER -> IF above THEN Nothing ELSE lower[p]
  BY DEF Merged
<1>3. \A q \in Path : upper[q] \in UpperKind
  BY DEF Uppers
<1>4. lower[p] \in {Nothing, File("old"), Dir("old")}
  BY DEF Trees
<1>5. gone <=> upper[p] = "whiteout" \/ above
  <2>1. ASSUME NEW q \in Path
        PROVE  {<<"wh", q>>, <<"opq", q>>, <<"file", q>>} \cap layer # {}
                 <=> upper[q] \notin {"none", "dir"}
    BY <1>3, ArchiveSays DEF UpperKind
  <2> QED
    BY <2>1, ArchiveSays
<1>6. (\E e \in layer : Below(e[2], p)) => upper[p] \in {"dir", "opaque"}
  BY EntriesAreThere, AboveAreDirs
<1>7. \A t : Kinds(t)[p] = IF t[p][1] = "file" THEN t[p] ELSE <<t[p][1]>>
  BY DEF Kinds
<1>8. SUFFICES Kinds(Apply(layer))[p] = Kinds(Merged)[p]
  OBVIOUS
<1> HIDE DEF above, gone, kept, implied
<1>9. CASE upper[p] = "file"
  BY <1>1, <1>2, <1>7, <1>9, ArchiveSays
<1>10. CASE upper[p] = "dir"
  BY <1>1, <1>2, <1>7, <1>10, ArchiveSays
<1>11. CASE upper[p] = "opaque"
  <2>1. implied
    BY <1>11, ArchiveSays DEF implied
  <2>2. lower[p][1] # "file"
    BY <1>11 DEF ReplacesFile
  <2>3. lower[p] # File("old")
    BY <2>2 DEF File
  <2>4. kept = Nothing \/ kept = Dir("old")
    BY <1>4, <2>3 DEF kept
  <2>5. Dir("old") # Nothing /\ Dir("old")[1] # "file"
    BY DEF Dir, Nothing
  <2>6. Apply(layer)[p] = Dir("default") \/ Apply(layer)[p] = Dir("old")
    <3>1. /\ <<"file", p>> \notin layer /\ <<"dir", p>> \notin layer
      BY <1>11, ArchiveSays
    <3>2. Apply(layer)[p] = CASE kept = Nothing -> Dir("default")
                              [] kept[1] = "file" -> <<"error", "">>
                              [] OTHER -> kept
      BY <1>1, <2>1, <3>1
    <3>3. CASE kept = Nothing
      <4>1. Nothing[1] # "file"
        BY DEF Nothing
      <4> QED
        BY <3>2, <3>3, <4>1
    <3>4. CASE kept = Dir("old")
      BY <2>5, <3>2, <3>4
    <3> QED
      BY <2>4, <3>3, <3>4
  <2>7. Merged[p] = Dir("new")
    BY <1>2, <1>11
  <2>8. \A v : Dir(v)[1] = "dir"
    BY DEF Dir
  <2> QED
    BY <1>7, <2>6, <2>7, <2>8
<1>12. CASE upper[p] = "whiteout"
  <2>1. ~implied
    BY <1>6, <1>12, ArchiveSays DEF implied
  <2> QED
    BY <1>1, <1>2, <1>5, <1>7, <1>12, <2>1, ArchiveSays DEF kept
<1>13. CASE upper[p] = "none"
  <2>1. ~implied
    BY <1>6, <1>13, ArchiveSays DEF implied
  <2> QED
    BY <1>1, <1>2, <1>5, <1>7, <1>13, <2>1, ArchiveSays DEF kept
<1> QED
  BY <1>3, <1>9, <1>10, <1>11, <1>12, <1>13 DEF UpperKind

-----------------------------------------------------------------------------
(* The stages of a layer's way.                                             *)
LayerInv ==
    /\ lower \in Trees("old") /\ upper \in Uppers(lower)
    /\ stage \in {"mounted", "exported", "imported"}
    /\ stage # "mounted" => layer = UNION {AppendEntry(p) : p \in Path}
    /\ stage = "imported" => restored = Apply(layer)

LEMMA InitLayerInv == LayerInit => LayerInv
BY DEF LayerInit, LayerInv

LEMMA NextLayerInv == LayerInv /\ [LayerNext]_layerVars => LayerInv'
<1> SUFFICES ASSUME LayerInv, [LayerNext]_layerVars PROVE LayerInv'
  OBVIOUS
<1>1. CASE ExportLayer
  BY <1>1 DEF LayerInv, ExportLayer, AppendEntry
<1>2. CASE ImportLayer
  <2>1. lower' = lower /\ layer' = layer /\ upper' = upper
    BY <1>2 DEF ImportLayer
  <2>2. Apply(layer)' = Apply(layer)
    BY <2>1 DEF Apply
  <2>3. \A p : AppendEntry(p)' = AppendEntry(p)
    BY <2>1 DEF AppendEntry
  <2> QED
    BY <1>2, <2>1, <2>2, <2>3 DEF LayerInv, ImportLayer
<1>3. CASE UNCHANGED layerVars
  <2>1. UNCHANGED <<lower, upper, layer, restored, stage>>
    BY <1>3 DEF layerVars
  <2>2. Apply(layer)' = Apply(layer)
    BY <2>1 DEF Apply
  <2>3. \A p : AppendEntry(p)' = AppendEntry(p)
    BY <2>1 DEF AppendEntry
  <2> QED
    BY <2>1, <2>2, <2>3 DEF LayerInv
<1> QED
  BY <1>1, <1>2, <1>3 DEF LayerNext

(* Whatever tree a layer lies on and whatever overlayfs left in its upper   *)
(* directory, applying the exported layer makes what the mount showed.      *)
THEOREM ContentsSurviveHolds == LayerSpec => []ContentsSurvive
<1>1. LayerInv => ContentsSurvive
  <2> SUFFICES ASSUME LayerInv, stage = "imported", ~ReplacesFile
               PROVE  Kinds(restored) = Kinds(Merged)
    BY DEF ContentsSurvive
  <2>1. \A p \in Path : Kinds(restored)[p] = Kinds(Merged)[p]
    BY PathSurvives DEF LayerInv
  <2> QED
    BY <2>1 DEF Kinds
<1> QED
  BY <1>1, InitLayerInv, NextLayerInv, PTL DEF LayerSpec
=============================================================================
