-------------------------- MODULE SnapshotsProofs --------------------------
(***************************************************************************)
(* Proofs about Snapshots, for every number of processes, tasks and nodes  *)
(* and every tree of snapshots.                                            *)
(***************************************************************************)
EXTENDS Snapshots, SequenceTheorems, TLAPS

(* Where a task may stand, given the snapshots S that exist: a check has    *)
(* the parent of what it is to apply, and has found what it is through      *)
(* with; a pull goes up the line of the image; what is handed on was found  *)
(* or made.                                                                 *)
Check(n, s, k, d, S) ==
    /\ s = "none" <=> k = <<>>
    /\ \A i \in 2..Len(k) : k[i] = Parent[k[i - 1]]
    /\ s \in {"apply", "commit"} => Parent[k[Len(k)]] \in S \cup {NoParent}
    /\ s = "yes" => k[Len(k)] \in S
    /\ \A v \in Members(Value[n]) : v \in S \cup Members(d) \/ (k # <<>> /\ v = k[1])

Pull(n, s, d, S) ==
    /\ n \in Image
    /\ s \in {"stat", "commit"} => d # <<>>
    /\ d # <<>> => Parent[d[1]] \in S \cup {NoParent}
    /\ \A i \in 2..Len(d) : Parent[d[i]] = d[i - 1]
    /\ Value[n][1] \in S \cup Members(d)

GoodAt(n, p, s, k, d, S) ==
    /\ p = "check" => Check(n, s, k, d, S)
    /\ p = "pull" => Pull(n, s, d, S)
    /\ p = "exec" => Members(Value[n]) \subseteq S \cup Members(d)
    /\ p \in {"export", "store", "ran", "cached"} => Members(Value[n]) \subseteq S

Good(t) == GoodAt(NodeOf[t], phase[t], step[t], stack[t], todo[t], snapshots)

IInv == TypeOK /\ Closed(snapshots) /\ \A t \in Task : Good(t)

-----------------------------------------------------------------------------
(* Sequences as they are used here.                                         *)

LEMMA TailMembers ==
  ASSUME NEW S, NEW q \in Seq(S), q # <<>>
  PROVE  /\ Tail(q) \in Seq(S) /\ q[1] \in S /\ Head(q) = q[1] /\ Len(q) \in Nat /\ Len(q) >= 1
         /\ Len(Tail(q)) = Len(q) - 1
         /\ \A i \in 1..(Len(q) - 1) : Tail(q)[i] = q[i + 1]
         /\ Members(q) = {q[1]} \cup Members(Tail(q))
<1>1. /\ Tail(q) \in Seq(S) /\ q[1] \in S /\ Head(q) = q[1] /\ Len(q) \in Nat /\ Len(q) >= 1
      /\ Len(Tail(q)) = Len(q) - 1
      /\ \A i \in 1..(Len(q) - 1) : Tail(q)[i] = q[i + 1]
  OBVIOUS
<1>2. ASSUME NEW i \in 1..Len(q), i # 1 PROVE q[i] = Tail(q)[i - 1] /\ i - 1 \in 1..Len(Tail(q))
  <2>1. i - 1 \in 1..(Len(q) - 1) /\ (i - 1) + 1 = i
    BY <1>1, <1>2
  <2> QED
    BY <1>1, <2>1
<1>3. ASSUME NEW i \in 1..Len(Tail(q)) PROVE Tail(q)[i] = q[i + 1] /\ i + 1 \in 1..Len(q)
  BY <1>1
<1>4. DOMAIN q = 1..Len(q) /\ DOMAIN Tail(q) = 1..Len(Tail(q))
  BY <1>1
<1>5. 1 \in 1..Len(q)
  BY <1>1
<1>6. ASSUME NEW x \in Members(q) PROVE x \in {q[1]} \cup Members(Tail(q))
  <2>1. PICK i \in 1..Len(q) : x = q[i]
    BY <1>4, <1>6 DEF Members
  <2> QED
    BY <1>2, <1>4, <2>1 DEF Members
<1>7. ASSUME NEW x \in {q[1]} \cup Members(Tail(q)) PROVE x \in Members(q)
  BY <1>3, <1>4, <1>5, <1>7 DEF Members
<1> QED
  BY <1>1, <1>6, <1>7

LEMMA FrontTop ==
  ASSUME NEW S, NEW q \in Seq(S), Len(q) > 1
  PROVE  LET f == SubSeq(q, 1, Len(q) - 1) IN
         /\ f \in Seq(S) /\ f # <<>> /\ Len(f) = Len(q) - 1 /\ f[1] = q[1]
         /\ \A i \in 1..(Len(q) - 1) : f[i] = q[i]
<1> DEFINE n == Len(q) - 1
<1>1. n \in Nat /\ n >= 1 /\ \A i \in 1..n : q[i] \in S
  OBVIOUS
<1>2. /\ SubSeq(q, 1, n) \in Seq(S) /\ Len(SubSeq(q, 1, n)) = n
      /\ \A i \in 1..n : SubSeq(q, 1, n)[i] = q[1 + i - 1]
  BY <1>1, SubSeqProperties, 1 \in Int, n \in Int
<1>3. \A i \in 1..n : 1 + i - 1 = i
  BY <1>1
<1> DEFINE f == SubSeq(q, 1, n)
<1>4. \A i \in 1..n : f[i] = q[i]
  BY <1>2, <1>3
<1>5. 1 \in 1..n /\ f # <<>>
  <2>1. Len(f) # 0 /\ Len(<<>>) = 0
    BY <1>1, <1>2
  <2> HIDE DEF f
  <2>2. f # <<>>
    BY <2>1
  <2> QED
    BY <1>1, <2>2
<1> HIDE DEF f
<1>6. f[1] = q[1]
  BY <1>4, <1>5
<1> QED
  BY <1>2, <1>4, <1>5, <1>6 DEF f

LEMMA ReversedMembers ==
  ASSUME NEW S, NEW q \in Seq(S)
  PROVE  Reversed(q) \in Seq(S) /\ Members(Reversed(q)) = Members(q)
<1>1. Len(q) \in Nat /\ DOMAIN q = 1..Len(q)
  OBVIOUS
<1>2. ASSUME NEW i \in 1..Len(q)
      PROVE  Len(q) + 1 - i \in 1..Len(q) /\ Len(q) + 1 - (Len(q) + 1 - i) = i /\ q[i] \in S
  BY <1>1
<1>3. Reversed(q) = [i \in 1..Len(q) |-> q[Len(q) + 1 - i]]
  BY <1>1 DEF Reversed
<1>4. Reversed(q) \in Seq(S) /\ DOMAIN Reversed(q) = 1..Len(q)
  <2>1. \A i \in 1..Len(q) : q[Len(q) + 1 - i] \in S
    BY <1>2
  <2> QED
    BY <1>1, <1>3, <2>1
<1>5. ASSUME NEW x \in Members(q) PROVE x \in Members(Reversed(q))
  <2>1. PICK i \in 1..Len(q) : x = q[i]
    BY <1>1 DEF Members
  <2>2. Reversed(q)[Len(q) + 1 - i] = x
    BY <1>2, <1>3, <2>1
  <2> QED
    BY <1>2, <1>4, <2>2 DEF Members
<1>6. ASSUME NEW x \in Members(Reversed(q)) PROVE x \in Members(q)
  BY <1>1, <1>2, <1>3, <1>6 DEF Members
<1> QED
  BY <1>4, <1>5, <1>6

LEMMA PushTop ==
  ASSUME NEW S, NEW q \in Seq(S), q # <<>>, NEW x \in S
  PROVE  LET a == Append(q, x) IN
         /\ a \in Seq(S) /\ a # <<>> /\ Len(a) = Len(q) + 1 /\ a[1] = q[1] /\ a[Len(a)] = x
         /\ \A i \in 1..Len(q) : a[i] = q[i]
OBVIOUS

-----------------------------------------------------------------------------
(* Lines.                                                                   *)
IsLine(q, s) ==
    /\ q \in Seq(Snapshot) /\ q # <<>> /\ q[Len(q)] = s
    /\ Parent[q[1]] = NoParent
    /\ \A i \in 2..Len(q) : Parent[q[i]] = q[i - 1]

LEMMA LineOfRoot ==
  ASSUME NEW s \in Snapshot, Parent[s] = NoParent
  PROVE  \A q : IsLine(q, s) <=> q = <<s>>
<1>1. IsLine(<<s>>, s)
  BY DEF IsLine
<1>2. ASSUME NEW q, IsLine(q, s) PROVE q = <<s>>
  <2>1. q \in Seq(Snapshot) /\ Len(q) \in Nat /\ Len(q) >= 1 /\ q[Len(q)] = s
    BY <1>2 DEF IsLine
  <2>2. Len(q) = 1
    <3> SUFFICES ASSUME Len(q) # 1 PROVE FALSE
      OBVIOUS
    <3>1. Len(q) \in 2..Len(q) /\ Len(q) - 1 \in 1..Len(q)
      <4>1. \A k \in Nat : k >= 1 /\ k # 1 => k \in 2..k /\ k - 1 \in 1..k
        OBVIOUS
      <4> QED
        BY <2>1, <4>1
    <3>2. Parent[s] = q[Len(q) - 1] /\ q[Len(q) - 1] \in Snapshot
      BY <1>2, <2>1, <3>1 DEF IsLine
    <3> QED
      BY <3>2, SnapshotsAssumption DEF SnapshotsAssumption
  <2> QED
    BY <2>1, <2>2
<1> QED
  BY <1>1, <1>2

LEMMA LineOfChild ==
  ASSUME NEW s \in Snapshot, Parent[s] \in Snapshot
  PROVE  /\ \A q : IsLine(q, Parent[s]) => IsLine(Append(q, s), s)
         /\ \A q : IsLine(q, s) => \E r : IsLine(r, Parent[s]) /\ q = Append(r, s)
<1>1. ASSUME NEW q, IsLine(q, Parent[s]) PROVE IsLine(Append(q, s), s)
  <2> DEFINE a == Append(q, s)
  <2>1. q \in Seq(Snapshot) /\ q # <<>> /\ Len(q) \in Nat /\ Len(q) >= 1
    BY <1>1 DEF IsLine
  <2>2. /\ a \in Seq(Snapshot) /\ a # <<>> /\ Len(a) = Len(q) + 1 /\ a[Len(a)] = s
        /\ \A i \in 1..Len(q) : a[i] = q[i]
    BY <2>1
  <2> HIDE DEF a
  <2>3. a[1] = q[1]
    BY <2>1, <2>2
  <2>4. ASSUME NEW i \in 2..Len(a) PROVE Parent[a[i]] = a[i - 1]
    <3>1. i - 1 \in 1..Len(q) /\ a[i - 1] = q[i - 1]
      BY <2>1, <2>2
    <3>2. CASE i = Len(a)
      <4>1. i - 1 = Len(q)
        BY <2>1, <2>2, <3>2
      <4> QED
        BY <1>1, <2>2, <3>1, <3>2, <4>1 DEF IsLine
    <3>3. CASE i # Len(a)
      <4>1. i \in 2..Len(q) /\ i \in 1..Len(q)
        BY <2>1, <2>2, <3>3
      <4> QED
        BY <1>1, <2>2, <3>1, <4>1 DEF IsLine
    <3> QED
      BY <3>2, <3>3
  <2>5. IsLine(a, s)
    BY <1>1, <2>2, <2>3, <2>4 DEF IsLine
  <2> QED
    BY <2>5 DEF a
<1>2. ASSUME NEW q, IsLine(q, s) PROVE \E r : IsLine(r, Parent[s]) /\ q = Append(r, s)
  <2> DEFINE n == Len(q) - 1
             r == SubSeq(q, 1, n)
  <2>1. /\ q \in Seq(Snapshot) /\ Len(q) \in Nat /\ Len(q) >= 1 /\ q[Len(q)] = s
        /\ Parent[q[1]] = NoParent
    BY <1>2 DEF IsLine
  <2>2. Len(q) # 1
    BY <2>1, SnapshotsAssumption DEF SnapshotsAssumption
  <2>3. n \in Nat /\ n >= 1 /\ n + 1 = Len(q) /\ n + 1 \in 2..Len(q)
    <3>1. \A k \in Nat : k >= 1 /\ k # 1 =>
            k - 1 \in Nat /\ k - 1 >= 1 /\ (k - 1) + 1 = k /\ (k - 1) + 1 \in 2..k
      OBVIOUS
    <3> QED
      BY <2>1, <2>2, <3>1
  <2>4. /\ r \in Seq(Snapshot) /\ Len(r) = n /\ \A i \in 1..n : r[i] = q[i]
        /\ q = Append(r, s)
    <3>1. \A i \in 1..n : q[i] \in Snapshot
      BY <2>1, <2>3
    <3>2. r \in Seq(Snapshot) /\ Len(r) = n /\ \A i \in 1..n : r[i] = q[i]
      BY <2>1, <2>3, <3>1, SubSeqProperties
    <3> HIDE DEF n, r
    <3>3. /\ Append(r, s) \in Seq(Snapshot) /\ Len(Append(r, s)) = n + 1
          /\ \A i \in 1..n : Append(r, s)[i] = r[i]
          /\ Append(r, s)[n + 1] = s
      BY <2>3, <3>2
    <3>4. \A i \in 1..n + 1 : Append(r, s)[i] = q[i]
      <4> SUFFICES ASSUME NEW i \in 1..n + 1 PROVE Append(r, s)[i] = q[i]
        OBVIOUS
      <4>1. i \in 1..n \/ i = n + 1
        BY <2>3
      <4> QED
        BY <2>1, <2>3, <3>2, <3>3, <4>1
    <3>5. q = Append(r, s)
      BY <2>1, <2>3, <3>3, <3>4, SeqEqual
    <3> QED
      BY <3>2, <3>5
  <2>5. q[n] = Parent[s]
    <3>1. Parent[q[n + 1]] = q[(n + 1) - 1] /\ (n + 1) - 1 = n
      BY <1>2, <2>3 DEF IsLine
    <3> QED
      BY <2>1, <2>3, <3>1
  <2> HIDE DEF n, r
  <2>6. ASSUME NEW i \in 2..n PROVE Parent[r[i]] = r[i - 1]
    <3>1. i \in 2..Len(q) /\ i \in 1..n /\ i - 1 \in 1..n
      BY <2>3
    <3> QED
      BY <1>2, <2>4, <3>1 DEF IsLine
  <2>7. 1 \in 1..n /\ n \in 1..n /\ r # <<>>
    BY <2>3, <2>4
  <2>8. IsLine(r, Parent[s])
    BY <2>1, <2>4, <2>5, <2>6, <2>7 DEF IsLine
  <2> QED
    BY <2>4, <2>8
<1> QED
  BY <1>1, <1>2

LEMMA OneLine ==
  ASSUME NEW s \in Snapshot
  PROVE  \E q : IsLine(q, s) /\ \A r : IsLine(r, s) => r = q
<1> DEFINE One(x) == \E q : IsLine(q, x) /\ \A r : IsLine(r, x) => r = q
           Wrong == {x \in Snapshot : ~One(x)}
<1> SUFFICES Wrong = {}
  OBVIOUS
<1> SUFFICES ASSUME Wrong # {} PROVE FALSE
  OBVIOUS
<1>1. PICK x \in Wrong : Parent[x] \notin Wrong
  BY ParentsAssumption DEF ParentsAssumption
<1>2. x \in Snapshot /\ ~One(x)
  BY <1>1
<1>3. CASE Parent[x] = NoParent
  <2>1. \A q : IsLine(q, x) <=> q = <<x>>
    BY <1>2, <1>3, LineOfRoot
  <2>2. IsLine(<<x>>, x) /\ \A r : IsLine(r, x) => r = <<x>>
    BY <2>1
  <2> QED
    BY <1>2, <2>2
<1>4. CASE Parent[x] \in Snapshot
  <2>1. PICK q : IsLine(q, Parent[x]) /\ \A r : IsLine(r, Parent[x]) => r = q
    BY <1>1, <1>4
  <2>2. IsLine(Append(q, x), x)
    BY <1>2, <1>4, <2>1, LineOfChild
  <2>3. ASSUME NEW r, IsLine(r, x) PROVE r = Append(q, x)
    BY <1>2, <1>4, <2>1, <2>3, LineOfChild
  <2> QED
    BY <1>2, <2>2, <2>3
<1> QED
  BY <1>2, <1>3, <1>4, SnapshotsAssumption DEF SnapshotsAssumption

(* Line is what its recursive definition says.                              *)
LEMMA LineStep ==
  ASSUME NEW s \in Snapshot
  PROVE  Line[s] = IF Parent[s] = NoParent THEN <<s>> ELSE Append(Line[Parent[s]], s)
<1> DEFINE Eq(f) == f = [x \in Snapshot |->
                           IF Parent[x] = NoParent THEN <<x>> ELSE Append(f[Parent[x]], x)]
           w == [x \in Snapshot |-> CHOOSE q : IsLine(q, x)]
<1>1. ASSUME NEW x \in Snapshot PROVE IsLine(w[x], x)
  BY OneLine
<1>2. ASSUME NEW x \in Snapshot
      PROVE  w[x] = IF Parent[x] = NoParent THEN <<x>> ELSE Append(w[Parent[x]], x)
  <2> HIDE DEF w
  <2>1. CASE Parent[x] = NoParent
    BY <1>1, <2>1, LineOfRoot
  <2>2. CASE Parent[x] # NoParent
    <3>1. Parent[x] \in Snapshot
      BY <2>2, SnapshotsAssumption DEF SnapshotsAssumption
    <3>2. IsLine(Append(w[Parent[x]], x), x) /\ IsLine(w[x], x)
      BY <1>1, <3>1, LineOfChild
    <3> QED
      BY <2>2, <3>2, OneLine
  <2> QED
    BY <2>1, <2>2
<1>3. Eq(w)
  <2>1. w = [x \in Snapshot |-> w[x]]
    OBVIOUS
  <2> HIDE DEF w
  <2> QED
    BY <1>2, <2>1
<1> DEFINE g == CHOOSE f : Eq(f)
<1>4. Eq(g)
  <2> HIDE DEF Eq, w
  <2> QED
    BY <1>3
<1>5. Line = g
  BY DEF Line
<1> HIDE DEF g
<1>6. g[s] = IF Parent[s] = NoParent THEN <<s>> ELSE Append(g[Parent[s]], s)
  BY <1>4
<1> QED
  BY <1>5, <1>6

(* A line leads, parent by parent, from a layer without one to its snapshot.*)
LEMMA LineIs ==
  ASSUME NEW s \in Snapshot
  PROVE  IsLine(Line[s], s)
<1> DEFINE Wrong == {x \in Snapshot : ~IsLine(Line[x], x)}
<1> SUFFICES ASSUME Wrong # {} PROVE FALSE
  OBVIOUS
<1>1. PICK x \in Wrong : Parent[x] \notin Wrong
  BY ParentsAssumption DEF ParentsAssumption
<1>2. x \in Snapshot /\ ~IsLine(Line[x], x)
  BY <1>1
<1>3. CASE Parent[x] = NoParent
  BY <1>2, <1>3, LineOfRoot, LineStep
<1>4. CASE Parent[x] \in Snapshot
  <2>1. IsLine(Line[Parent[x]], Parent[x])
    BY <1>1, <1>4
  <2>2. Line[x] = Append(Line[Parent[x]], x)
    BY <1>2, <1>4, LineStep, SnapshotsAssumption DEF SnapshotsAssumption
  <2> QED
    BY <1>2, <1>4, <2>1, <2>2, LineOfChild
<1> QED
  BY <1>2, <1>3, <1>4, SnapshotsAssumption DEF SnapshotsAssumption

(* Who has a snapshot and every parent of what he has, has its line.        *)
LEMMA LineClosed ==
  ASSUME NEW s \in Snapshot, NEW S \in SUBSET Snapshot, Closed(S), s \in S
  PROVE  Members(Line[s]) \subseteq S
<1> DEFINE Wrong == {x \in S : ~(Members(Line[x]) \subseteq S)}
<1> SUFFICES ASSUME Wrong # {} PROVE FALSE
  OBVIOUS
<1>1. PICK x \in Wrong : Parent[x] \notin Wrong
  BY ParentsAssumption DEF ParentsAssumption
<1>2. x \in Snapshot /\ x \in S /\ ~(Members(Line[x]) \subseteq S)
  BY <1>1
<1>3. CASE Parent[x] = NoParent
  <2>1. Line[x] = <<x>>
    BY <1>2, <1>3, LineStep
  <2> QED
    BY <1>2, <2>1 DEF Members
<1>4. CASE Parent[x] # NoParent
  <2>1. Parent[x] \in S /\ Members(Line[Parent[x]]) \subseteq S
    BY <1>1, <1>2, <1>4 DEF Closed
  <2>2. Line[x] = Append(Line[Parent[x]], x) /\ Line[Parent[x]] \in Seq(Snapshot)
    BY <1>2, <1>4, <2>1, LineStep, LineIs DEF IsLine
  <2> DEFINE q == Line[Parent[x]]
  <2> HIDE DEF q
  <2>3. ASSUME NEW i \in DOMAIN Append(q, x), q \in Seq(Snapshot)
        PROVE  Append(q, x)[i] = x \/ Append(q, x)[i] \in Members(q)
    BY <2>3 DEF Members
  <2> QED
    BY <1>2, <2>1, <2>2, <2>3 DEF Members, q
<1> QED
  BY <1>3, <1>4

-----------------------------------------------------------------------------
LEMMA ValueType ==
  ASSUME NEW n \in Node
  PROVE  /\ Value[n] \in Seq(Snapshot) /\ Value[n] # <<>> /\ Value[n][1] \in Snapshot
         /\ Members(Value[n]) \subseteq Snapshot /\ Value[n][1] \in Members(Value[n])
<1>1. Value[n] \in Seq(Snapshot) /\ Value[n] # <<>>
  BY SnapshotsAssumption DEF SnapshotsAssumption
<1> QED
  BY <1>1, TailMembers DEF Members

LEMMA LineType ==
  ASSUME NEW s \in Snapshot
  PROVE  /\ Line[s] \in Seq(Snapshot) /\ Line[s] # <<>>
         /\ s \in Members(Line[s]) /\ Parent[Line[s][1]] = NoParent
         /\ \A i \in 2..Len(Line[s]) : Parent[Line[s][i]] = Line[s][i - 1]
<1>1. /\ Line[s] \in Seq(Snapshot) /\ Line[s] # <<>> /\ Line[s][Len(Line[s])] = s
      /\ Parent[Line[s][1]] = NoParent
      /\ \A i \in 2..Len(Line[s]) : Parent[Line[s][i]] = Line[s][i - 1]
  BY LineIs DEF IsLine
<1>2. Len(Line[s]) \in DOMAIN Line[s]
  BY <1>1
<1> QED
  BY <1>1, <1>2 DEF Members

(* What is good stays so as snapshots are added.                            *)
LEMMA GoodGrows ==
  ASSUME NEW n, NEW p, NEW s, NEW k, NEW d, NEW S, NEW T, S \subseteq T,
         GoodAt(n, p, s, k, d, S)
  PROVE  GoodAt(n, p, s, k, d, T)
BY DEF GoodAt, Check, Pull

(* A step in which one task goes where it is good for it to be.             *)
LEMMA GoStep ==
  ASSUME IInv, NEW t \in Task, NEW p \in Phase, NEW s \in Step,
         NEW k \in Seq(Snapshot), NEW d \in Seq(Snapshot), Go(t, p, s, k, d),
         snapshots' \in SUBSET Snapshot, snapshots \subseteq snapshots', Closed(snapshots'),
         archive' \in [Snapshot -> {"none", "whole", "torn"}], data' \in SUBSET Node,
         attempted' \in [Process -> SUBSET (Snapshot \cup Node)],
         broken' \in [Process \cup {Earlier} -> SUBSET (Snapshot \cup Node)],
         GoodAt(NodeOf[t], p, s, k, d, snapshots')
  PROVE  IInv'
<1>1. TypeOK'
  BY DEF IInv, TypeOK, Go
<1>2. ASSUME NEW u \in Task PROVE Good(u)'
  <2>1. CASE u = t
    BY <2>1 DEF IInv, TypeOK, Go, Good
  <2>2. CASE u # t
    <3>1. GoodAt(NodeOf[u], phase[u], step[u], stack[u], todo[u], snapshots')
      BY GoodGrows DEF IInv, Good
    <3> QED
      BY <2>2, <3>1 DEF IInv, TypeOK, Go, Good
  <2> QED
    BY <2>1, <2>2
<1> QED
  BY <1>1, <1>2 DEF IInv

(* The same with everything that is shared left alone.                      *)
LEMMA GoOnly ==
  ASSUME IInv, NEW t \in Task, NEW p \in Phase, NEW s \in Step,
         NEW k \in Seq(Snapshot), NEW d \in Seq(Snapshot), Go(t, p, s, k, d),
         UNCHANGED stores, GoodAt(NodeOf[t], p, s, k, d, snapshots)
  PROVE  IInv'
BY GoStep DEF IInv, TypeOK, stores

(* A snapshot joins those that exist when its parent is there.              *)
LEMMA ClosedGrows ==
  ASSUME NEW S \in SUBSET Snapshot, Closed(S), NEW x \in Snapshot,
         Parent[x] \in S \cup {NoParent}
  PROVE  Closed(S \cup {x})
BY DEF Closed

LEMMA TaskType ==
  ASSUME IInv, NEW t \in Task
  PROVE  /\ NodeOf[t] \in Node /\ ProcessOf[t] \in Process
         /\ stack[t] \in Seq(Snapshot) /\ todo[t] \in Seq(Snapshot)
         /\ phase[t] \in Phase /\ step[t] \in Step
         /\ <<>> \in Seq(Snapshot)
BY SnapshotsAssumption DEF SnapshotsAssumption, IInv, TypeOK

LEMMA Breaks ==
  ASSUME IInv, NEW t \in Task, NEW K \in SUBSET (Snapshot \cup Node), BreaksOff(t, K)
  PROVE  /\ broken' \in [Process \cup {Earlier} -> SUBSET (Snapshot \cup Node)]
         /\ broken'[ProcessOf[t]] = broken[ProcessOf[t]] \cup K
         /\ \A q \in Process \cup {Earlier} : broken[q] \subseteq broken'[q]
<1>1. /\ broken \in [Process \cup {Earlier} -> SUBSET (Snapshot \cup Node)]
      /\ ProcessOf[t] \in Process \cup {Earlier}
  BY TaskType DEF IInv, TypeOK
<1> QED
  BY <1>1 DEF BreaksOff

-----------------------------------------------------------------------------
LEMMA InitIInv == Init => IInv
BY SnapshotsAssumption
   DEF SnapshotsAssumption, Init, IInv, TypeOK, Good, GoodAt, Phase, Final, Step

(* To execute a node is good anywhere: a pull starts at the lowest layer.   *)
LEMMA ExecuteGood ==
  ASSUME IInv, NEW t \in Task, Execute(t), UNCHANGED stores
  PROVE  IInv'
<1> DEFINE n == NodeOf[t]
<1>0. n \in Node
  BY TaskType
<1>1. CASE n \in Image
  <2>1. /\ Line[Value[n][1]] \in Seq(Snapshot) /\ Value[n][1] \in Members(Line[Value[n][1]])
        /\ Parent[Line[Value[n][1]][1]] = NoParent
        /\ \A i \in 2..Len(Line[Value[n][1]]) :
             Parent[Line[Value[n][1]][i]] = Line[Value[n][1]][i - 1]
    BY <1>0, LineType, ValueType
  <2>2. GoodAt(n, "pull", "manifest", <<>>, Line[Value[n][1]], snapshots)
    BY <1>1, <2>1 DEF GoodAt, Pull
  <2>3. Go(t, "pull", "manifest", <<>>, Line[Value[n][1]])
    BY <1>1 DEF Execute
  <2> QED
    BY <2>1, <2>2, <2>3, TaskType, GoOnly DEF Phase, Step
<1>2. CASE n \notin Image
  <2>1. /\ Reversed(Value[n]) \in Seq(Snapshot)
        /\ Members(Reversed(Value[n])) = Members(Value[n])
    BY <1>0, ValueType, ReversedMembers
  <2>2. GoodAt(n, "exec", "commit", <<>>, Reversed(Value[n]), snapshots)
    BY <2>1 DEF GoodAt
  <2>3. Go(t, "exec", "commit", <<>>, Reversed(Value[n]))
    BY <1>2 DEF Execute
  <2> QED
    BY <2>1, <2>2, <2>3, TaskType, GoOnly DEF Phase, Step
<1> QED
  BY <1>1, <1>2

(* What was made is handed to the export or to the store.                   *)
LEMMA ExportGood ==
  ASSUME IInv, NEW t \in Task, Export(t), UNCHANGED stores,
         Members(Value[NodeOf[t]]) \subseteq snapshots
  PROVE  IInv'
<1>1. GoodAt(NodeOf[t], "export", "none", <<>>, Value[NodeOf[t]], snapshots)
      /\ GoodAt(NodeOf[t], "store", "key", <<>>, <<>>, snapshots)
  BY DEF GoodAt
<1>2. Value[NodeOf[t]] \in Seq(Snapshot)
  BY TaskType, ValueType
<1>3. CASE Go(t, "export", "none", <<>>, Value[NodeOf[t]])
  BY <1>1, <1>2, <1>3, TaskType, GoOnly DEF Phase, Step
<1>4. CASE Go(t, "store", "key", <<>>, <<>>)
  BY <1>1, <1>4, TaskType, GoOnly DEF Phase, Step
<1> QED
  BY <1>3, <1>4 DEF Export

-----------------------------------------------------------------------------
(* The health check.                                                        *)

LEMMA StartsGood ==
  ASSUME IInv, NEW t \in Task, CacheMiss(t) \/ CacheHit(t) \/ CheckNext(t) \/ Healthy(t)
  PROVE  IInv'
<1> DEFINE n == NodeOf[t]
<1>0. n \in Node /\ Value[n] \in Seq(Snapshot) /\ todo[t] \in Seq(Snapshot)
  BY TaskType, ValueType
<1>1. CASE CacheMiss(t)
  BY <1>1, ExecuteGood DEF CacheMiss
<1>2. CASE CacheHit(t)
  <2>1. GoodAt(n, "check", "none", <<>>, Value[n], snapshots)
    BY DEF GoodAt, Check
  <2> QED
    BY <1>0, <1>2, <2>1, TaskType, GoOnly DEF CacheHit, Phase, Step
<1>3. CASE CheckNext(t)
  <2> DEFINE x == todo[t][1]
             d == Tail(todo[t])
  <2>1. /\ Check(n, "none", stack[t], todo[t], snapshots)
        /\ todo[t] # <<>> /\ Go(t, "check", "lock", <<Head(todo[t])>>, d) /\ UNCHANGED stores
    BY <1>3 DEF CheckNext, IInv, Good, GoodAt
  <2>2. /\ d \in Seq(Snapshot) /\ x \in Snapshot /\ Head(todo[t]) = x
        /\ Members(todo[t]) = {x} \cup Members(d)
    BY <1>0, <2>1, TailMembers
  <2>3. /\ <<x>> \in Seq(Snapshot) /\ <<x>> # <<>> /\ Len(<<x>>) = 1 /\ <<x>>[1] = x
    BY <2>2
  <2>4. stack[t] = <<>>
    BY <1>3 DEF CheckNext, IInv, TypeOK, Good, GoodAt, Check
  <2> HIDE DEF x, d
  <2>5. Check(n, "lock", <<x>>, d, snapshots)
    <3>1. \A i \in 2..Len(<<x>>) : FALSE
      BY <2>3
    <3> QED
      BY <2>1, <2>2, <2>3, <2>4, <3>1 DEF Check
  <2>6. GoodAt(n, "check", "lock", <<x>>, d, snapshots)
    BY <2>5 DEF GoodAt
  <2> QED
    BY <2>1, <2>2, <2>3, <2>6, GoOnly DEF Phase, Step, d
<1>4. CASE Healthy(t)
  <2>1. GoodAt(n, "cached", "none", <<>>, <<>>, snapshots)
    BY <1>4 DEF Healthy, IInv, Good, GoodAt, Check, Members
  <2> QED
    BY <1>4, <2>1, TaskType, GoOnly DEF Healthy, Phase, Final, Step
<1> QED
  BY <1>1, <1>2, <1>3, <1>4

(* The steps of ensure_snapshot that do not leave the snapshot on top.      *)
LEMMA EnsureGood ==
  ASSUME IInv, NEW t \in Task,
         \/ ImportLock(t) \/ StatFound(t) \/ StatMissing(t) \/ ReadMissing(t)
         \/ Apply(t) \/ ImportRaced(t) \/ ImportFails(t)
  PROVE  IInv'
<1> DEFINE n == NodeOf[t]
<1>1. PICK s \in Step :
        /\ phase[t] = "check" /\ step[t] # "none" /\ s # "none"
        /\ Stepping(t, s) /\ UNCHANGED stores
        /\ s \in {"apply", "commit"} => Parent[Top(t)] \in snapshots \cup {NoParent}
        /\ s = "yes" => Top(t) \in snapshots
  BY DEF ImportLock, StatFound, StatMissing, ReadMissing, Apply, ImportRaced, ImportFails, Step
<1>2. GoodAt(n, "check", s, stack[t], todo[t], snapshots)
  BY <1>1 DEF IInv, Good, GoodAt, Check, Top
<1> QED
  BY <1>1, <1>2, TaskType, GoOnly DEF Stepping

(* Reading an entry: a layer without a parent can be applied, any other has *)
(* its parent ensured on top of it.                                         *)
LEMMA ReadEntryGood == ASSUME IInv, NEW t \in Task, ReadEntry(t) PROVE IInv'
<1> DEFINE n == NodeOf[t]
           k == stack[t]
           x == Parent[Top(t)]
<1>1. /\ phase[t] = "check" /\ step[t] = "read" /\ UNCHANGED stores
      /\ Check(n, "read", k, todo[t], snapshots) /\ k # <<>>
  BY DEF ReadEntry, IInv, Good, GoodAt, Check
<1>2. k \in Seq(Snapshot) /\ todo[t] \in Seq(Snapshot) /\ Len(k) \in Nat /\ Len(k) >= 1
      /\ k[Len(k)] \in Snapshot
  BY <1>1, TaskType
<1>3. CASE x = NoParent
  <2>1. GoodAt(n, "check", "apply", k, todo[t], snapshots)
    BY <1>1, <1>3 DEF GoodAt, Check, Top
  <2> QED
    BY <1>1, <1>2, <1>3, <2>1, GoOnly DEF ReadEntry, Stepping, Phase, Step
<1>4. CASE x # NoParent
  <2> DEFINE a == Append(k, x)
  <2>1. x \in Snapshot
    BY <1>2, <1>4, SnapshotsAssumption DEF SnapshotsAssumption, Top
  <2>2. /\ a \in Seq(Snapshot) /\ a # <<>> /\ Len(a) = Len(k) + 1 /\ a[1] = k[1]
        /\ a[Len(a)] = x /\ \A i \in 1..Len(k) : a[i] = k[i]
    BY <1>1, <1>2, <2>1, PushTop
  <2>3. x = Parent[k[Len(k)]]
    BY DEF Top
  <2>4. Go(t, "check", "lock", a, todo[t])
    BY <1>4 DEF ReadEntry
  <2> HIDE DEF a, x
  <2>5. ASSUME NEW i \in 2..Len(a) PROVE a[i] = Parent[a[i - 1]]
    <3>1. CASE i = Len(a)
      <4>1. i - 1 = Len(k) /\ Len(k) \in 1..Len(k)
        BY <1>2, <2>2, <3>1
      <4> QED
        BY <2>2, <2>3, <3>1, <4>1
    <3>2. CASE i # Len(a)
      <4>1. i \in 2..Len(k) /\ i \in 1..Len(k) /\ i - 1 \in 1..Len(k)
        BY <1>2, <2>2, <3>2
      <4> QED
        BY <1>1, <2>2, <4>1 DEF Check
    <3> QED
      BY <3>1, <3>2
  <2>6. Check(n, "lock", a, todo[t], snapshots)
    BY <1>1, <2>2, <2>5 DEF Check
  <2>7. GoodAt(n, "check", "lock", a, todo[t], snapshots)
    BY <2>6 DEF GoodAt
  <2> QED
    BY <1>1, <1>2, <2>2, <2>4, <2>7, GoOnly DEF Phase, Step
<1> QED
  BY <1>3, <1>4

LEMMA ImportCommitGood == ASSUME IInv, NEW t \in Task, ImportCommit(t) PROVE IInv'
<1> DEFINE n == NodeOf[t]
           k == stack[t]
           T == snapshots \cup {Top(t)}
<1>1. /\ snapshots' = T /\ UNCHANGED <<archive, data, attempted, broken>>
      /\ Check(n, "commit", k, todo[t], snapshots) /\ k # <<>>
      /\ Go(t, "check", "yes", k, todo[t])
  BY DEF ImportCommit, Stepping, IInv, Good, GoodAt, Check
<1>2. k \in Seq(Snapshot) /\ todo[t] \in Seq(Snapshot) /\ Top(t) \in Snapshot
  BY <1>1, TaskType DEF Top
<1>3. Parent[Top(t)] \in snapshots \cup {NoParent}
  BY <1>1 DEF Check, Top
<1>4. T \in SUBSET Snapshot /\ Closed(T) /\ snapshots \subseteq T
  BY <1>2, <1>3, ClosedGrows DEF IInv, TypeOK
<1>5. GoodAt(n, "check", "yes", k, todo[t], T)
  BY <1>1 DEF GoodAt, Check, Top
<1> QED
  BY <1>1, <1>2, <1>4, <1>5, GoStep DEF IInv, TypeOK, Phase, Step

(* What was ensured is the parent of the snapshot below it on the stack, or *)
(* a snapshot of the value.                                                 *)
LEMMA EnsuredGood == ASSUME IInv, NEW t \in Task, Ensured(t) PROVE IInv'
<1> DEFINE n == NodeOf[t]
           k == stack[t]
<1>1. /\ phase[t] = "check" /\ step[t] \in {"yes", "no"} /\ UNCHANGED stores
      /\ Check(n, step[t], k, todo[t], snapshots) /\ k # <<>>
  BY DEF Ensured, IInv, Good, GoodAt, Check
<1>2. k \in Seq(Snapshot) /\ todo[t] \in Seq(Snapshot) /\ Len(k) \in Nat /\ Len(k) >= 1
  BY <1>1, TaskType
<1>2a. Len(k) > 1 \/ Len(k) = 1
  <2>1. \A i \in Nat : i >= 1 => i > 1 \/ i = 1
    OBVIOUS
  <2> QED
    BY <1>2, <2>1
<1>3. CASE Len(k) > 1
  <2> DEFINE f == Below(t)
             s == IF step[t] = "yes" THEN "apply" ELSE "no"
  <2>1. /\ f \in Seq(Snapshot) /\ f # <<>> /\ Len(f) = Len(k) - 1 /\ f[1] = k[1]
        /\ \A i \in 1..(Len(k) - 1) : f[i] = k[i]
    BY <1>2, <1>3, FrontTop DEF Below
  <2>2. Go(t, "check", s, f, todo[t])
    BY <1>3 DEF Ensured
  <2>3. s \in Step /\ s \in {"apply", "no"} /\ (s = "apply" => step[t] = "yes")
    BY DEF Step
  <2> HIDE DEF f, s
  <2>4. ASSUME NEW i \in 2..Len(f) PROVE f[i] = Parent[f[i - 1]]
    <3>1. i \in 2..Len(k) /\ i \in 1..(Len(k) - 1) /\ i - 1 \in 1..(Len(k) - 1)
      BY <1>2, <2>1
    <3> QED
      BY <1>1, <2>1, <3>1 DEF Check
  <2>5. s = "apply" => Parent[f[Len(f)]] \in snapshots
    <3>1. Len(k) \in 2..Len(k) /\ Len(k) - 1 \in 1..(Len(k) - 1)
      BY <1>2, <1>3
    <3>2. k[Len(k)] = Parent[k[Len(k) - 1]]
      BY <1>1, <3>1 DEF Check
    <3>3. f[Len(f)] = k[Len(k) - 1]
      BY <2>1, <3>1
    <3> QED
      BY <1>1, <2>3, <3>2, <3>3 DEF Check
  <2>6. Check(n, s, f, todo[t], snapshots)
    BY <1>1, <2>1, <2>3, <2>4, <2>5 DEF Check
  <2>7. GoodAt(n, "check", s, f, todo[t], snapshots)
    BY <2>6 DEF GoodAt
  <2> QED
    BY <1>1, <1>2, <2>1, <2>2, <2>3, <2>7, GoOnly DEF Phase
<1>4. CASE ~(Len(k) > 1) /\ step[t] = "yes"
  <2>1. Len(k) = 1 /\ k[1] \in snapshots
    <3>1. Len(k) = 1
      BY <1>2a, <1>4
    <3>2. k[Len(k)] \in snapshots
      BY <1>1, <1>4 DEF Check
    <3> QED
      BY <3>1, <3>2
  <2>2. Go(t, "check", "none", <<>>, todo[t])
    BY <1>4 DEF Ensured
  <2>3. \A v \in Members(Value[n]) : v \in snapshots \cup Members(todo[t])
    BY <1>1, <2>1 DEF Check
  <2>4. \A i \in 2..Len(<<>>) : FALSE
    OBVIOUS
  <2>5. Check(n, "none", <<>>, todo[t], snapshots)
    BY <2>3, <2>4 DEF Check
  <2>6. GoodAt(n, "check", "none", <<>>, todo[t], snapshots)
    BY <2>5 DEF GoodAt
  <2> QED
    BY <1>1, <1>2, <2>2, <2>6, TaskType, GoOnly DEF Phase, Step
<1>5. CASE ~(Len(k) > 1) /\ step[t] # "yes"
  BY <1>1, <1>5, ExecuteGood DEF Ensured
<1> QED
  BY <1>3, <1>4, <1>5

-----------------------------------------------------------------------------
(* Making what is not there.                                                *)

LEMMA PullGood ==
  ASSUME IInv, NEW t \in Task,
         \/ ManifestLock(t) \/ LayerLock(t) \/ LayerMissing(t) \/ LayerExists(t)
         \/ PullLayer(t) \/ PulledImage(t)
  PROVE  IInv'
<1> DEFINE n == NodeOf[t]
           d == todo[t]
<1>1. phase[t] = "pull" /\ Pull(n, step[t], d, snapshots) /\ d \in Seq(Snapshot)
  BY TaskType
     DEF ManifestLock, LayerLock, LayerMissing, LayerExists, PullLayer, PulledImage, IInv,
         Good, GoodAt
<1>2. CASE ManifestLock(t) \/ LayerLock(t) \/ LayerMissing(t)
  <2>1. PICK s \in Step :
          /\ Stepping(t, s) /\ UNCHANGED stores
          /\ s \in {"stat", "commit"} => d # <<>>
    BY <1>1, <1>2 DEF ManifestLock, LayerLock, LayerMissing, Step, Pull
  <2>2. GoodAt(n, "pull", s, stack[t], d, snapshots)
    BY <1>1, <2>1 DEF GoodAt, Pull
  <2> QED
    BY <1>1, <2>1, <2>2, TaskType, GoOnly DEF Stepping
<1>3. ASSUME LayerExists(t) \/ PullLayer(t), NEW T \in SUBSET Snapshot,
             T = snapshots \cup {Head(d)}
      PROVE  /\ Tail(d) \in Seq(Snapshot) /\ Closed(T)
             /\ GoodAt(n, "pull", "lock", <<>>, Tail(d), T)
  <2>1. d # <<>>
    BY <1>1, <1>3 DEF LayerExists, PullLayer, Pull
  <2>2. /\ Tail(d) \in Seq(Snapshot) /\ d[1] \in Snapshot /\ Head(d) = d[1]
        /\ Len(d) \in Nat /\ Len(d) >= 1 /\ Len(Tail(d)) = Len(d) - 1
        /\ \A i \in 1..(Len(d) - 1) : Tail(d)[i] = d[i + 1]
        /\ Members(d) = {d[1]} \cup Members(Tail(d))
    BY <1>1, <2>1, TailMembers
  <2>3. Parent[d[1]] \in snapshots \cup {NoParent}
    BY <1>1, <2>1 DEF Pull
  <2>4. Closed(T)
    BY <1>3, <2>2, <2>3, ClosedGrows DEF IInv, TypeOK
  <2>5. ASSUME NEW i \in 1..Len(Tail(d)) PROVE Parent[Tail(d)[i]] = d[i]
    <3>1. i \in 1..(Len(d) - 1) /\ i + 1 \in 2..Len(d) /\ (i + 1) - 1 = i
      BY <2>2
    <3> QED
      BY <1>1, <2>2, <3>1 DEF Pull
  <2>6. Tail(d) # <<>> => Parent[Tail(d)[1]] \in T
    <3>1. Tail(d) # <<>> => 1 \in 1..Len(Tail(d))
      BY <2>2, TailMembers
    <3> QED
      BY <1>3, <2>2, <2>5, <3>1
  <2>7. ASSUME NEW i \in 2..Len(Tail(d)) PROVE Parent[Tail(d)[i]] = Tail(d)[i - 1]
    <3>1. i \in 1..Len(Tail(d)) /\ i - 1 \in 1..(Len(d) - 1) /\ (i - 1) + 1 = i
      BY <2>2
    <3> QED
      BY <2>2, <2>5, <3>1
  <2>8. Value[n][1] \in T \cup Members(Tail(d))
    BY <1>1, <1>3, <2>2 DEF Pull
  <2>9. Pull(n, "lock", Tail(d), T)
    BY <1>1, <2>6, <2>7, <2>8 DEF Pull
  <2> QED
    BY <2>2, <2>4, <2>9 DEF GoodAt
<1>4. CASE LayerExists(t)
  <2>1. snapshots \cup {Head(d)} = snapshots /\ snapshots \in SUBSET Snapshot
    BY <1>4 DEF LayerExists, IInv, TypeOK
  <2> QED
    BY <1>3, <1>4, <2>1, TaskType, GoOnly DEF LayerExists, Phase, Step
<1>5. CASE PullLayer(t)
  <2>1. d # <<>>
    BY <1>1, <1>5 DEF PullLayer, Pull
  <2>2. Head(d) \in Snapshot
    BY <1>1, <2>1, TailMembers
  <2>3. snapshots' \in SUBSET Snapshot /\ snapshots' = snapshots \cup {Head(d)}
    BY <1>5, <2>2 DEF PullLayer, IInv, TypeOK
  <2> HIDE DEF d
  <2>4. /\ Tail(d) \in Seq(Snapshot) /\ Closed(snapshots')
        /\ GoodAt(n, "pull", "lock", <<>>, Tail(d), snapshots')
    BY <1>3, <1>5, <2>3
  <2>5. Go(t, "pull", "lock", <<>>, Tail(d)) /\ UNCHANGED <<archive, data, attempted, broken>>
    BY <1>5 DEF PullLayer, d
  <2> QED
    BY <2>3, <2>4, <2>5, TaskType, GoStep DEF IInv, TypeOK, Phase, Step
<1>6. CASE PulledImage(t)
  <2>1. Value[n][1] \in snapshots
    BY <1>1, <1>6 DEF PulledImage, Pull, Members
  <2>2. n \in Node /\ n \in Image /\ Len(Value[n]) = 1 /\ Value[n] \in Seq(Snapshot)
    BY <1>1, TaskType, ValueType, SnapshotsAssumption DEF Pull, SnapshotsAssumption
  <2>3. Members(Value[n]) = {Value[n][1]}
    <3>1. DOMAIN Value[n] = {1}
      BY <2>2
    <3> QED
      BY <3>1 DEF Members
  <2> QED
    BY <1>6, <2>1, <2>3, ExportGood DEF PulledImage
<1> QED
  BY <1>2, <1>4, <1>5, <1>6

LEMMA ExecGood ==
  ASSUME IInv, NEW t \in Task, ExecCommit(t) \/ Executed(t)
  PROVE  IInv'
<1> DEFINE n == NodeOf[t]
           d == todo[t]
<1>1. Members(Value[n]) \subseteq snapshots \cup Members(d) /\ d \in Seq(Snapshot)
  BY TaskType DEF ExecCommit, Executed, IInv, Good, GoodAt
<1>2. CASE ExecCommit(t)
  <2>1. /\ d # <<>> /\ Parent[Head(d)] \in snapshots \cup {NoParent}
        /\ snapshots' = snapshots \cup {Head(d)} /\ UNCHANGED <<archive, data, attempted, broken>>
        /\ Go(t, "exec", "commit", <<>>, Tail(d))
    BY <1>2 DEF ExecCommit
  <2> HIDE DEF d
  <2>2. /\ Tail(d) \in Seq(Snapshot) /\ Head(d) \in Snapshot
        /\ Members(d) = {Head(d)} \cup Members(Tail(d))
    BY <1>1, <2>1, TailMembers
  <2>3. snapshots' \in SUBSET Snapshot /\ Closed(snapshots') /\ snapshots \subseteq snapshots'
    BY <2>1, <2>2, ClosedGrows DEF IInv, TypeOK
  <2>4. GoodAt(n, "exec", "commit", <<>>, Tail(d), snapshots')
    BY <1>1, <2>1, <2>2 DEF GoodAt
  <2> QED
    BY <2>1, <2>2, <2>3, <2>4, TaskType, GoStep DEF IInv, TypeOK, Phase, Step
<1>3. CASE Executed(t)
  <2>1. Members(Value[n]) \subseteq snapshots
    BY <1>1, <1>3 DEF Executed, Members
  <2> QED
    BY <1>3, <2>1, ExportGood DEF Executed
<1> QED
  BY <1>2, <1>3

-----------------------------------------------------------------------------
(* The export reads snapshots and writes the cache.                         *)
LEMMA ExportStepGood ==
  ASSUME IInv, NEW t \in Task, ExportStep(t) \/ ExportFails(t)
  PROVE  IInv'
<1> DEFINE n == NodeOf[t]
<1>1. /\ n \in Node /\ ProcessOf[t] \in Process
      /\ stack[t] \in Seq(Snapshot) /\ todo[t] \in Seq(Snapshot) /\ <<>> \in Seq(Snapshot)
  BY TaskType
<1>2. ASSUME NEW p \in {"export", "store", "ran"}, NEW s \in Step, NEW k \in Seq(Snapshot),
             NEW d \in Seq(Snapshot), Go(t, p, s, k, d), phase[t] \in {"export", "store"},
             snapshots' = snapshots,
             archive' \in [Snapshot -> {"none", "whole", "torn"}], data' \in SUBSET Node,
             attempted' \in [Process -> SUBSET (Snapshot \cup Node)],
             broken' \in [Process \cup {Earlier} -> SUBSET (Snapshot \cup Node)]
      PROVE  IInv'
  <2>1. GoodAt(n, p, s, k, d, snapshots')
    BY <1>2 DEF IInv, Good, GoodAt
  <2>2. p \in Phase /\ snapshots' \in SUBSET Snapshot /\ Closed(snapshots')
    BY <1>2 DEF Phase, Final, IInv, TypeOK
  <2> QED
    BY <1>2, <2>1, <2>2, GoStep
<1>3. ASSUME NEW key \in Snapshot \cup Node, Attempt(t, key)
      PROVE  attempted' \in [Process -> SUBSET (Snapshot \cup Node)]
  BY <1>1, <1>3 DEF Attempt, IInv, TypeOK
<1>4. ASSUME stack[t] # <<>> PROVE Head(stack[t]) \in Snapshot /\ Tail(stack[t]) \in Seq(Snapshot)
  BY <1>1, <1>4, TailMembers
<1>5. ASSUME todo[t] # <<>>
      PROVE  /\ Head(todo[t]) \in Snapshot /\ Tail(todo[t]) \in Seq(Snapshot)
             /\ Line[Head(todo[t])] \in Seq(Snapshot)
  BY <1>1, <1>5, TailMembers, LineType
<1>t. /\ {"key", "writing", "none"} \subseteq Step
      /\ archive \in [Snapshot -> {"none", "whole", "torn"}] /\ data \in SUBSET Node
      /\ attempted \in [Process -> SUBSET (Snapshot \cup Node)]
      /\ broken \in [Process \cup {Earlier} -> SUBSET (Snapshot \cup Node)]
  BY DEF Step, IInv, TypeOK
<1>f. CASE ExportFails(t)
  <2>1. Members(stack[t]) \in SUBSET (Snapshot \cup Node)
    BY <1>1 DEF Members
  <2>2. broken' \in [Process \cup {Earlier} -> SUBSET (Snapshot \cup Node)]
    BY <1>f, <2>1, Breaks DEF ExportFails
  <2> QED
    BY <1>1, <1>2, <1>f, <1>t, <2>2 DEF ExportFails
<1>6. CASE ExportNext(t) \/ Exported(t)
  BY <1>1, <1>2, <1>5, <1>6, <1>t DEF ExportNext, Exported, stores
<1>7. CASE ExportSkips(t) \/ ExportStarts(t)
  <2>1. /\ stack[t] # <<>> /\ Attempt(t, Head(stack[t])) /\ phase[t] = "export"
        /\ UNCHANGED <<snapshots, archive, data, broken>>
        /\ \/ Go(t, "export", "key", Tail(stack[t]), todo[t])
           \/ Go(t, "export", "writing", stack[t], todo[t])
    BY <1>7 DEF ExportSkips, ExportStarts, Stepping
  <2>2. attempted' \in [Process -> SUBSET (Snapshot \cup Node)]
    BY <1>3, <1>4, <2>1
  <2> QED
    BY <1>1, <1>2, <1>4, <1>t, <2>1, <2>2
<1>8. CASE ExportWrites(t)
  <2>1. archive' \in [Snapshot -> {"none", "whole", "torn"}]
    BY <1>8, <1>t DEF ExportWrites
  <2>2. broken' \in [Process \cup {Earlier} -> SUBSET (Snapshot \cup Node)]
    <3>1. {Head(stack[t])} \in SUBSET (Snapshot \cup Node)
      BY <1>4, <1>8 DEF ExportWrites
    <3>2. UNCHANGED broken \/ BreaksOff(t, {Head(stack[t])})
      BY <1>8 DEF ExportWrites
    <3> QED
      BY <1>t, <3>1, <3>2, Breaks
  <2> QED
    BY <1>1, <1>2, <1>4, <1>8, <1>t, <2>1, <2>2 DEF ExportWrites
<1>9. CASE Store(t)
  <2>1. data' \in SUBSET Node
    BY <1>1, <1>9, <1>t DEF Store
  <2>2. broken' \in [Process \cup {Earlier} -> SUBSET (Snapshot \cup Node)]
    <3>1. {n} \in SUBSET (Snapshot \cup Node)
      BY <1>1
    <3>2. UNCHANGED broken \/ BreaksOff(t, {n})
      BY <1>9 DEF Store
    <3> QED
      BY <1>t, <3>1, <3>2, Breaks
  <2> QED
    BY <1>1, <1>2, <1>3, <1>9, <1>t, <2>1, <2>2 DEF Store
<1> QED
  BY <1>f, <1>6, <1>7, <1>8, <1>9 DEF ExportStep

LEMMA NextIInv == IInv /\ [Next]_vars => IInv'
<1> SUFFICES ASSUME IInv, [Next]_vars PROVE IInv'
  OBVIOUS
<1>1. ASSUME NEW t \in Task, ExecutionFails(t) \/ Abort(t) PROVE IInv'
  <2>1. \A p \in {"failed", "aborted"} : GoodAt(NodeOf[t], p, "none", <<>>, <<>>, snapshots)
    BY DEF GoodAt
  <2>2. CASE ExecutionFails(t)
    BY <2>1, <2>2, TaskType, GoOnly DEF ExecutionFails, Phase, Final, Step
  <2>3. CASE Abort(t)
    <3>1. {s \in Snapshot : WrittenBy(t, s)} \in SUBSET (Snapshot \cup Node)
      OBVIOUS
    <3>2. broken' \in [Process \cup {Earlier} -> SUBSET (Snapshot \cup Node)]
      BY <2>3, <3>1, Breaks DEF Abort
    <3>3. /\ Go(t, "aborted", "none", <<>>, <<>>)
          /\ UNCHANGED <<snapshots, archive, data, attempted>>
      BY <2>3 DEF Abort
    <3> QED
      BY <2>1, <3>2, <3>3, TaskType, GoStep DEF IInv, TypeOK, Phase, Final, Step
  <2> QED
    BY <1>1, <2>2, <2>3
<1>2. ASSUME NEW t \in Task, Progress(t) PROVE IInv'
  BY <1>2, StartsGood, EnsureGood, ReadEntryGood, ImportCommitGood, EnsuredGood, PullGood,
     ExecGood, ExportStepGood
     DEF Progress, CheckStep, ExecuteStep
<1>3. CASE UNCHANGED vars
  BY <1>3 DEF vars, IInv, TypeOK, Good
<1> QED
  BY <1>1, <1>2, <1>3, ExportStepGood DEF Next

-----------------------------------------------------------------------------
(* Type correctness of containerd's snapshots, the cache and the tasks.     *)
THEOREM TypeCorrect == Spec => []TypeOK
<1>1. IInv => TypeOK
  BY DEF IInv
<1> QED
  BY <1>1, InitIInv, NextIInv, PTL DEF Spec

(* The inductive invariant: the snapshots are closed under parents, and     *)
(* every task is where it is good for it to be.                             *)
THEOREM Invariant == Spec => []IInv
BY InitIInv, NextIInv, PTL DEF Spec

(* No import and no pull comes to apply a layer whose parent is not there.  *)
THEOREM ParentFirstHolds == Spec => []ParentFirst
<1>1. IInv => ParentFirst
  <2> SUFFICES ASSUME IInv, NEW t \in Task
               PROVE  /\ phase[t] = "check" /\ step[t] \in {"apply", "commit"} =>
                            Parent[Top(t)] \in snapshots \cup {NoParent}
                      /\ phase[t] = "pull" /\ step[t] = "commit" =>
                            Parent[Head(todo[t])] \in snapshots \cup {NoParent}
    BY DEF ParentFirst
  <2>1. CASE phase[t] = "check"
    BY <2>1 DEF IInv, Good, GoodAt, Check, Top
  <2>2. CASE phase[t] = "pull" /\ step[t] = "commit"
    <3>1. todo[t] # <<>> /\ Parent[todo[t][1]] \in snapshots \cup {NoParent}
      BY <2>2 DEF IInv, Good, GoodAt, Pull
    <3>2. Head(todo[t]) = todo[t][1]
      BY <3>1, TaskType, TailMembers
    <3> QED
      BY <2>2, <3>1, <3>2
  <2> QED
    BY <2>1, <2>2
<1> QED
  BY <1>1, Invariant, PTL

(* A value that is handed out names snapshots that exist with everything    *)
(* below them.                                                              *)
THEOREM ValuesAreThereHolds == Spec => []ValuesAreThere
<1>1. IInv => ValuesAreThere
  <2> SUFFICES ASSUME IInv, NEW t \in Task, phase[t] \in {"cached", "ran"},
                      NEW s \in Members(Value[NodeOf[t]])
               PROVE  Members(Line[s]) \subseteq snapshots
    BY DEF ValuesAreThere
  <2>1. s \in snapshots /\ snapshots \in SUBSET Snapshot /\ Closed(snapshots)
    BY DEF IInv, TypeOK, Good, GoodAt
  <2> QED
    BY <2>1, LineClosed
<1> QED
  BY <1>1, Invariant, PTL

-----------------------------------------------------------------------------
(* The export of a standalone process.  What was dealt with is in the cache, *)
(* was asked for or has failed, and who was given a writer is still at it.  *)

Saved(a, ar, at, br) == ar[a] # "none" \/ a \in at \/ a \in br

ExportAt(t, p, s, k, d, ar, at, br) ==
    /\ p = "export" /\ s = "writing" => k # <<>>
    /\ p = "ran" => NodeOf[t] \in at
    /\ ProcessOf[t] \in Standalone =>
         /\ p = "export" =>
              \A v \in Members(Value[NodeOf[t]]) :
                v \in Members(d)
                  \/ \A a \in Members(Line[v]) : a \in Members(k) \/ Saved(a, ar, at, br)
         /\ p \in {"store", "ran"} =>
              \A v \in Members(Value[NodeOf[t]]) : \A a \in Members(Line[v]) : Saved(a, ar, at, br)

Exporting(t) ==
    ExportAt(t, phase[t], step[t], stack[t], todo[t], archive, attempted[ProcessOf[t]],
             broken[ProcessOf[t]])

(* A layer of which a process asked for the writer.                         *)
Kept ==
    \A p \in Process : \A a \in Snapshot : a \in attempted[p] =>
        \/ archive[a] # "none" \/ a \in broken[p]
        \/ \E u \in Task : ProcessOf[u] = p /\ WrittenBy(u, a)

(* A value it asked for the writer of.                                      *)
Stored == \A p \in Process : \A n \in Node : n \in attempted[p] => n \in data \cup broken[p]

(* An entry that is cut off was cut off by somebody.                        *)
Blamed ==
    \A a \in Snapshot : archive[a] = "torn" => \E q \in Process \cup {Earlier} : a \in broken[q]

ExportInv == Kept /\ Stored /\ Blamed /\ \A t \in Task : Exporting(t)

LEMMA ExportGrows ==
  ASSUME NEW t \in Task, NEW p, NEW s, NEW k, NEW d, NEW ar, NEW at, NEW br,
         NEW as, NEW au, NEW bs, at \subseteq au, br \subseteq bs,
         \A a \in Snapshot : ar[a] # "none" => as[a] # "none",
         ExportAt(t, p, s, k, d, ar, at, br)
  PROVE  ExportAt(t, p, s, k, d, as, au, bs)
<1>1. ASSUME NEW v \in Members(Value[NodeOf[t]]) PROVE Members(Line[v]) \subseteq Snapshot
  <2>1. v \in Snapshot
    BY SnapshotsAssumption, ValueType DEF SnapshotsAssumption
  <2>2. Line[v] \in Seq(Snapshot)
    BY <2>1, LineType
  <2> QED
    BY <2>2 DEF Members
<1>2. \A v \in Members(Value[NodeOf[t]]) : \A a \in Members(Line[v]) :
         Saved(a, ar, at, br) => Saved(a, as, au, bs)
  BY <1>1 DEF Saved
<1> QED
  BY <1>2 DEF ExportAt

(* What a step of one task does to the cache and to what its process asked  *)
(* for: no entry and no failure is forgotten, what is asked for or was being *)
(* written is written, being written or has failed, and what is cut off is   *)
(* the failure of the task's process.                                       *)
Accounts(t) ==
    LET q == ProcessOf[t] IN
    /\ \A a \in Snapshot : archive[a] # "none" => archive'[a] # "none"
    /\ data \subseteq data'
    /\ \A r \in Process \cup {Earlier} : broken[r] \subseteq broken'[r]
    /\ \A r \in Process \ {q} : attempted'[r] = attempted[r]
    /\ attempted[q] \subseteq attempted'[q]
    /\ \A a \in Snapshot :
         a \in attempted'[q] \ attempted[q] \/ WrittenBy(t, a) =>
           archive'[a] # "none" \/ a \in broken'[q] \/ WrittenBy(t, a)'
    /\ \A n \in Node : n \in attempted'[q] \ attempted[q] => n \in data' \cup broken'[q]
    /\ \A a \in Snapshot : archive'[a] = "torn" => archive[a] = "torn" \/ a \in broken'[q]

LEMMA ExportMoves ==
  ASSUME IInv, ExportInv, NEW t \in Task, NEW p, NEW s, NEW k, NEW d, Go(t, p, s, k, d),
         Accounts(t),
         ExportAt(t, p, s, k, d, archive', attempted'[ProcessOf[t]], broken'[ProcessOf[t]])
  PROVE  ExportInv'
<1>1. \A u \in Task \ {t} :
         /\ phase'[u] = phase[u] /\ step'[u] = step[u]
         /\ stack'[u] = stack[u] /\ todo'[u] = todo[u]
  BY DEF Go, IInv, TypeOK
<1>2. phase'[t] = p /\ step'[t] = s /\ stack'[t] = k /\ todo'[t] = d
  BY DEF Go, IInv, TypeOK
<1>q. ProcessOf[t] \in Process
  BY TaskType
<1>3. ASSUME NEW u \in Task PROVE Exporting(u)'
  <2>1. CASE u = t
    BY <1>2, <2>1 DEF Exporting
  <2>2. CASE u # t
    <3>0. ProcessOf[u] \in Process
      BY TaskType
    <3>1. /\ attempted[ProcessOf[u]] \subseteq attempted'[ProcessOf[u]]
          /\ broken[ProcessOf[u]] \subseteq broken'[ProcessOf[u]]
          /\ \A a \in Snapshot : archive[a] # "none" => archive'[a] # "none"
          /\ ExportAt(u, phase[u], step[u], stack[u], todo[u], archive,
                      attempted[ProcessOf[u]], broken[ProcessOf[u]])
      BY <3>0 DEF ExportInv, Exporting, Accounts
    <3>2. ExportAt(u, phase[u], step[u], stack[u], todo[u], archive', attempted'[ProcessOf[u]],
                   broken'[ProcessOf[u]])
      BY <3>1, ExportGrows
    <3> QED
      BY <1>1, <2>2, <3>2 DEF Exporting
  <2> QED
    BY <2>1, <2>2
<1>4. ASSUME NEW q \in Process, NEW a \in Snapshot, a \in attempted'[q],
             archive'[a] = "none", a \notin broken'[q]
      PROVE  \E u \in Task : ProcessOf[u] = q /\ WrittenBy(u, a)'
  <2>1. ASSUME NEW u \in Task, ProcessOf[u] = q, WrittenBy(u, a) PROVE WrittenBy(u, a)'
    <3>1. CASE u = t
      BY <1>4, <2>1, <3>1 DEF Accounts
    <3>2. CASE u # t
      BY <1>1, <2>1, <3>2 DEF WrittenBy
    <3> QED
      BY <3>1, <3>2
  <2>2. CASE a \in attempted[q]
    <3>1. archive[a] = "none" /\ a \notin broken[q]
      BY <1>4 DEF Accounts
    <3>2. PICK u \in Task : ProcessOf[u] = q /\ WrittenBy(u, a)
      BY <1>4, <2>2, <3>1 DEF ExportInv, Kept
    <3> QED
      BY <2>1, <3>2
  <2>3. CASE a \notin attempted[q]
    <3>1. q = ProcessOf[t]
      BY <1>4, <2>3 DEF Accounts
    <3> QED
      BY <1>4, <2>3, <3>1 DEF Accounts
  <2> QED
    BY <2>2, <2>3
<1>5. ASSUME NEW q \in Process, NEW n \in Node, n \in attempted'[q]
      PROVE  n \in data' \cup broken'[q]
  <2>1. CASE n \in attempted[q]
    BY <1>5, <2>1 DEF ExportInv, Stored, Accounts
  <2>2. CASE n \notin attempted[q]
    BY <1>5, <2>2 DEF Accounts
  <2> QED
    BY <2>1, <2>2
<1>6. Blamed'
  BY <1>q DEF ExportInv, Blamed, Accounts
<1> QED
  BY <1>3, <1>4, <1>5, <1>6 DEF ExportInv, Kept, Stored

LEMMA NotWriting ==
  ASSUME NEW t \in Task, phase[t] # "export" \/ step[t] # "writing"
  PROVE  \A a : ~WrittenBy(t, a)
BY DEF WrittenBy

LEMMA InitExport == Init => ExportInv
<1> SUFFICES ASSUME Init PROVE ExportInv
  OBVIOUS
<1>1. IInv
  BY InitIInv
<1>2. \A p \in Process : attempted[p] = {}
  BY DEF Init
<1>3. Kept /\ Stored
  BY <1>2 DEF Kept, Stored
<1>4. Blamed
  BY DEF Init, Blamed
<1>5. \A t \in Task : Exporting(t)
  BY DEF Init, Exporting, ExportAt
<1> QED
  BY <1>3, <1>4, <1>5 DEF ExportInv

(* Outside the export, and without errors in it.                            *)
LEMMA ExportPlain ==
  ASSUME IInv, ExportInv, NEW t \in Task, NEW p, NEW s, NEW k, NEW d, Go(t, p, s, k, d),
         UNCHANGED <<archive, data, attempted, broken>>,
         \A a : ~WrittenBy(t, a),
         ExportAt(t, p, s, k, d, archive, attempted[ProcessOf[t]], broken[ProcessOf[t]])
  PROVE  ExportInv'
<1>1. Accounts(t)
  BY DEF Accounts
<1> QED
  BY <1>1, ExportMoves

LEMMA CheckExport ==
  ASSUME IInv, ExportInv, NEW t \in Task, CacheMiss(t) \/ CacheHit(t) \/ CheckStep(t)
  PROVE  ExportInv'
<1>1. phase[t] \in {"idle", "check"} /\ UNCHANGED <<archive, data, attempted, broken>>
  BY DEF CacheMiss, CacheHit, CheckStep, CheckNext, Healthy, ImportLock, StatFound,
     StatMissing, ReadMissing, ReadEntry, Apply, ImportCommit, ImportRaced, ImportFails,
     Ensured, stores
<1>2. \E p \in {"check", "cached", "pull", "exec"} : \E s, k, d : Go(t, p, s, k, d)
  <2>1. CASE Execute(t)
    BY <2>1 DEF Execute
  <2>2. CASE phase[t] = "check" /\ \E s : Stepping(t, s)
    BY <2>2 DEF Stepping
  <2>3. CASE CacheMiss(t) \/ Ensured(t)
    BY <2>1, <2>3 DEF CacheMiss, Ensured
  <2>4. CASE CacheHit(t) \/ CheckNext(t) \/ Healthy(t) \/ ReadEntry(t)
    BY <2>2, <2>4 DEF CacheHit, CheckNext, Healthy, ReadEntry
  <2>5. CASE \/ ImportLock(t) \/ StatFound(t) \/ StatMissing(t) \/ ReadMissing(t)
             \/ Apply(t) \/ ImportCommit(t) \/ ImportRaced(t) \/ ImportFails(t)
    BY <2>2, <2>5 DEF ImportLock, StatFound, StatMissing, ReadMissing, Apply, ImportCommit,
       ImportRaced, ImportFails
  <2> QED
    BY <2>3, <2>4, <2>5 DEF CheckStep
<1>3. PICK p \in {"check", "cached", "pull", "exec"} : \E s, k, d : Go(t, p, s, k, d)
  BY <1>2
<1>4. PICK s, k, d : Go(t, p, s, k, d)
  BY <1>3
<1>5. ExportAt(t, p, s, k, d, archive, attempted[ProcessOf[t]], broken[ProcessOf[t]])
  BY DEF ExportAt
<1>6. \A a : ~WrittenBy(t, a)
  BY <1>1, NotWriting
<1> QED
  BY <1>1, <1>4, <1>5, <1>6, ExportPlain

LEMMA ExecuteExport ==
  ASSUME IInv, ExportInv, NEW t \in Task, ExecuteStep(t) \/ ExecutionFails(t)
  PROVE  ExportInv'
<1>1. phase[t] \in {"pull", "exec"} /\ UNCHANGED <<archive, data, attempted, broken>>
  BY DEF ExecuteStep, ManifestLock, LayerLock, LayerExists, LayerMissing, PullLayer,
     PulledImage, ExecCommit, Executed, ExecutionFails, stores
<1>2. \A a : ~WrittenBy(t, a)
  BY <1>1, NotWriting
<1>3. CASE Export(t)
  <2>1. CASE ProcessOf[t] \in Standalone
    <3>1. Go(t, "export", "none", <<>>, Value[NodeOf[t]])
      BY <1>3, <2>1 DEF Export
    <3>2. ExportAt(t, "export", "none", <<>>, Value[NodeOf[t]], archive,
                   attempted[ProcessOf[t]], broken[ProcessOf[t]])
      BY DEF ExportAt
    <3> QED
      BY <1>1, <1>2, <3>1, <3>2, ExportPlain
  <2>2. CASE ProcessOf[t] \notin Standalone
    <3>1. Go(t, "store", "key", <<>>, <<>>)
      BY <1>3, <2>2 DEF Export
    <3>2. ExportAt(t, "store", "key", <<>>, <<>>, archive, attempted[ProcessOf[t]],
                   broken[ProcessOf[t]])
      BY <2>2 DEF ExportAt
    <3> QED
      BY <1>1, <1>2, <3>1, <3>2, ExportPlain
  <2> QED
    BY <2>1, <2>2
<1>4. CASE \E p \in {"pull", "exec", "failed"} : \E s, k, d : Go(t, p, s, k, d)
  <2>1. PICK p \in {"pull", "exec", "failed"} : \E s, k, d : Go(t, p, s, k, d)
    BY <1>4
  <2>2. PICK s, k, d : Go(t, p, s, k, d)
    BY <2>1
  <2>3. ExportAt(t, p, s, k, d, archive, attempted[ProcessOf[t]], broken[ProcessOf[t]])
    BY DEF ExportAt
  <2> QED
    BY <1>1, <1>2, <2>2, <2>3, ExportPlain
<1>5. CASE ManifestLock(t) \/ LayerLock(t) \/ LayerMissing(t)
  BY <1>4, <1>5 DEF ManifestLock, LayerLock, LayerMissing, Stepping
<1>6. CASE LayerExists(t) \/ PullLayer(t) \/ ExecCommit(t) \/ ExecutionFails(t)
  BY <1>4, <1>6 DEF LayerExists, PullLayer, ExecCommit, ExecutionFails
<1>7. CASE PulledImage(t) \/ Executed(t)
  BY <1>3, <1>7 DEF PulledImage, Executed
<1> QED
  BY <1>5, <1>6, <1>7 DEF ExecuteStep

LEMMA NextExported ==
  ASSUME IInv, ExportInv, NEW t \in Task, ExportNext(t) \/ Exported(t)
  PROVE  ExportInv'
<1> DEFINE q == ProcessOf[t]
<1>1. /\ phase[t] = "export" /\ stack[t] = <<>>
      /\ UNCHANGED <<archive, data, attempted, broken>>
  BY DEF ExportNext, Exported, stores
<1>2. step[t] # "writing"
  BY <1>1 DEF ExportInv, Exporting, ExportAt
<1>3. \A a : ~WrittenBy(t, a)
  BY <1>2, NotWriting
<1>4. Members(<<>>) = {}
  BY DEF Members
<1>5. q \in Standalone =>
        \A v \in Members(Value[NodeOf[t]]) :
          v \in Members(todo[t])
            \/ \A a \in Members(Line[v]) : Saved(a, archive, attempted[q], broken[q])
  BY <1>1, <1>4 DEF ExportInv, Exporting, ExportAt
<1>6. CASE ExportNext(t)
  <2>1. todo[t] # <<>> /\ Go(t, "export", "key", Line[Head(todo[t])], Tail(todo[t]))
    BY <1>6 DEF ExportNext
  <2>2. Members(todo[t]) \subseteq {Head(todo[t])} \cup Members(Tail(todo[t]))
    BY <2>1, TaskType, TailMembers
  <2>3. ExportAt(t, "export", "key", Line[Head(todo[t])], Tail(todo[t]), archive,
                 attempted[q], broken[q])
    BY <1>5, <2>2 DEF ExportAt
  <2> QED
    BY <1>1, <1>3, <2>1, <2>3, ExportPlain
<1>7. CASE Exported(t)
  <2>1. todo[t] = <<>> /\ Go(t, "store", "key", <<>>, <<>>)
    BY <1>7 DEF Exported
  <2>2. ExportAt(t, "store", "key", <<>>, <<>>, archive, attempted[q], broken[q])
    BY <1>4, <1>5, <2>1 DEF ExportAt
  <2> QED
    BY <1>1, <1>3, <2>1, <2>2, ExportPlain
<1> QED
  BY <1>6, <1>7

LEMMA KeyExport ==
  ASSUME IInv, ExportInv, NEW t \in Task, ExportSkips(t) \/ ExportStarts(t)
  PROVE  ExportInv'
<1> DEFINE q == ProcessOf[t]
           h == Head(stack[t])
<1>1. /\ phase[t] = "export" /\ step[t] = "key" /\ stack[t] # <<>>
      /\ UNCHANGED <<archive, data, broken>>
      /\ Attempt(t, h)
  BY DEF ExportSkips, ExportStarts
<1>2. /\ q \in Process /\ h \in Snapshot /\ h \notin Node
      /\ Members(stack[t]) = {h} \cup Members(Tail(stack[t]))
  BY <1>1, TaskType, TailMembers, SnapshotsAssumption DEF SnapshotsAssumption
<1>3. /\ attempted'[q] = attempted[q] \cup {h}
      /\ \A r \in Process \ {q} : attempted'[r] = attempted[r]
  BY <1>1, <1>2 DEF Attempt, IInv, TypeOK
<1>4. \A a : ~WrittenBy(t, a)
  BY <1>1, NotWriting
<1>5. ExportAt(t, "export", "key", stack[t], todo[t], archive, attempted[q], broken[q])
  BY <1>1 DEF ExportInv, Exporting
<1>6. ExportAt(t, "export", "key", stack[t], todo[t], archive', attempted'[q], broken'[q])
  BY <1>1, <1>3, <1>5, ExportGrows
<1>a. (\A a \in Snapshot : a \in attempted'[q] \ attempted[q] =>
           archive'[a] # "none" \/ a \in broken'[q] \/ WrittenBy(t, a)')
      => Accounts(t)
  BY <1>1, <1>2, <1>3, <1>4 DEF Accounts
<1>7. CASE ExportSkips(t)
  <2>1. /\ Go(t, "export", "key", Tail(stack[t]), todo[t])
        /\ archive[h] # "none" \/ h \in attempted[q]
    BY <1>7 DEF ExportSkips
  <2>2. Saved(h, archive', attempted'[q], broken'[q])
    BY <1>3 DEF Saved
  <2>3. ExportAt(t, "export", "key", Tail(stack[t]), todo[t], archive', attempted'[q], broken'[q])
    BY <1>2, <1>6, <2>2 DEF ExportAt
  <2>4. Accounts(t)
    BY <1>1, <1>3, <1>a, <2>1
  <2> QED
    BY <2>1, <2>3, <2>4, ExportMoves
<1>8. CASE ExportStarts(t)
  <2>1. Go(t, "export", "writing", stack[t], todo[t])
    BY <1>1, <1>8 DEF ExportStarts, Stepping
  <2>2. \A a : a = h => WrittenBy(t, a)'
    BY <2>1 DEF Go, WrittenBy, IInv, TypeOK
  <2>3. ExportAt(t, "export", "writing", stack[t], todo[t], archive', attempted'[q], broken'[q])
    BY <1>1, <1>6 DEF ExportAt
  <2>4. Accounts(t)
    BY <1>3, <1>a, <2>2
  <2> QED
    BY <2>1, <2>3, <2>4, ExportMoves
<1> QED
  BY <1>7, <1>8

LEMMA WriteExport ==
  ASSUME IInv, ExportInv, NEW t \in Task, ExportWrites(t)
  PROVE  ExportInv'
<1> DEFINE q == ProcessOf[t]
           h == Head(stack[t])
<1>1. /\ phase[t] = "export" /\ step[t] = "writing" /\ stack[t] # <<>>
      /\ UNCHANGED <<data, attempted>>
      /\ Go(t, "export", "key", Tail(stack[t]), todo[t])
      /\ \/ archive' = [archive EXCEPT ![h] = "whole"] /\ UNCHANGED broken
         \/ archive' = [archive EXCEPT ![h] = "torn"] /\ BreaksOff(t, {h})
  BY DEF ExportWrites
<1>2. /\ q \in Process /\ h \in Snapshot
      /\ Members(stack[t]) = {h} \cup Members(Tail(stack[t]))
  BY <1>1, TaskType, TailMembers
<1>b. /\ \A r \in Process \cup {Earlier} : broken[r] \subseteq broken'[r]
      /\ archive'[h] = "torn" => h \in broken'[q]
  <2>1. archive \in [Snapshot -> {"none", "whole", "torn"}] /\ {h} \in SUBSET (Snapshot \cup Node)
    BY <1>2 DEF IInv, TypeOK
  <2>2. CASE archive' = [archive EXCEPT ![h] = "whole"] /\ UNCHANGED broken
    BY <1>2, <2>1, <2>2
  <2>3. CASE BreaksOff(t, {h})
    BY <2>1, <2>3, Breaks
  <2> QED
    BY <1>1, <2>2, <2>3
<1>3. /\ archive'[h] # "none" /\ \A a \in Snapshot \ {h} : archive'[a] = archive[a]
      /\ \A a \in Snapshot : archive[a] # "none" => archive'[a] # "none"
  BY <1>1, <1>2 DEF IInv, TypeOK
<1>4. \A a : WrittenBy(t, a) => a = h
  BY DEF WrittenBy
<1>5. ExportAt(t, "export", "writing", stack[t], todo[t], archive, attempted[q], broken[q])
  BY <1>1 DEF ExportInv, Exporting
<1>6. ExportAt(t, "export", "writing", stack[t], todo[t], archive', attempted'[q], broken'[q])
  BY <1>1, <1>2, <1>3, <1>5, <1>b, ExportGrows
<1>7. ExportAt(t, "export", "key", Tail(stack[t]), todo[t], archive', attempted'[q], broken'[q])
  BY <1>2, <1>3, <1>6 DEF ExportAt, Saved
<1>8. Accounts(t)
  BY <1>1, <1>2, <1>3, <1>4, <1>b DEF Accounts
<1> QED
  BY <1>1, <1>7, <1>8, ExportMoves

LEMMA StoreExport ==
  ASSUME IInv, ExportInv, NEW t \in Task, Store(t)
  PROVE  ExportInv'
<1> DEFINE q == ProcessOf[t]
           n == NodeOf[t]
<1>1. /\ phase[t] = "store" /\ archive' = archive /\ Attempt(t, n)
      /\ Go(t, "ran", "none", <<>>, <<>>)
      /\ \/ data' = data \cup {n} /\ UNCHANGED broken
         \/ n \in attempted[q] /\ UNCHANGED <<data, broken>>
         \/ BreaksOff(t, {n}) /\ UNCHANGED data
  BY DEF Store
<1>n. n \in Node /\ q \in Process /\ n \notin Snapshot
  BY TaskType, SnapshotsAssumption DEF SnapshotsAssumption
<1>2. /\ attempted'[q] = attempted[q] \cup {n}
      /\ \A r \in Process \ {q} : attempted'[r] = attempted[r]
  BY <1>1, TaskType DEF Attempt, IInv, TypeOK
<1>b. /\ \A r \in Process \cup {Earlier} : broken[r] \subseteq broken'[r]
      /\ data \subseteq data'
      /\ n \in attempted[q] \/ n \in data' \cup broken'[q]
  <2>1. CASE BreaksOff(t, {n}) /\ UNCHANGED data
    BY <1>n, <2>1, Breaks
  <2>2. CASE UNCHANGED broken /\ (data' = data \cup {n} \/ (n \in attempted[q] /\ UNCHANGED data))
    BY <2>2
  <2> QED
    BY <1>1, <2>1, <2>2
<1>4. \A a : ~WrittenBy(t, a)
  BY <1>1, NotWriting
<1>5. ExportAt(t, "ran", "none", <<>>, <<>>, archive, attempted'[q], broken[q])
  <2>1. ExportAt(t, "store", step[t], stack[t], todo[t], archive, attempted[q], broken[q])
    BY <1>1 DEF ExportInv, Exporting
  <2>2. ExportAt(t, "store", step[t], stack[t], todo[t], archive, attempted'[q], broken[q])
    BY <1>2, <2>1, ExportGrows
  <2> QED
    BY <1>2, <2>2 DEF ExportAt
<1>6. ExportAt(t, "ran", "none", <<>>, <<>>, archive', attempted'[q], broken'[q])
  BY <1>1, <1>5, <1>b, <1>n, ExportGrows
<1>7. Accounts(t)
  BY <1>1, <1>2, <1>4, <1>b, <1>n DEF Accounts
<1> QED
  BY <1>1, <1>6, <1>7, ExportMoves

(* What fails or is aborted is accounted for by its process.                *)
LEMMA BrokenExport ==
  ASSUME IInv, ExportInv, NEW t \in Task, ExportFails(t) \/ Abort(t)
  PROVE  ExportInv'
<1> DEFINE q == ProcessOf[t]
<1>1. q \in Process /\ UNCHANGED <<archive, data, attempted>>
  BY TaskType DEF ExportFails, Abort
<1>2. ASSUME NEW K \in SUBSET (Snapshot \cup Node), BreaksOff(t, K),
             \A a \in Snapshot : WrittenBy(t, a) => a \in K
      PROVE  /\ Accounts(t) /\ broken'[q] = broken[q] \cup K
             /\ broken[q] \subseteq broken'[q]
  <2>1. broken'[q] = broken[q] \cup K /\ \A r \in Process \cup {Earlier} : broken[r] \subseteq broken'[r]
    BY <1>2, Breaks
  <2> QED
    BY <1>1, <1>2, <2>1 DEF Accounts
<1>3. CASE ExportFails(t)
  <2> DEFINE K == Members(stack[t])
  <2>1. /\ phase[t] = "export" /\ stack[t] # <<>> /\ BreaksOff(t, K)
        /\ Go(t, "export", "none", <<>>, todo[t])
    BY <1>3 DEF ExportFails
  <2>2. K \in SUBSET (Snapshot \cup Node)
    BY TaskType DEF Members
  <2>3. \A a : WrittenBy(t, a) => a \in K
    BY <2>1, TaskType, TailMembers DEF WrittenBy
  <2> HIDE DEF K
  <2>4. Accounts(t) /\ broken'[q] = broken[q] \cup K
    BY <1>2, <2>1, <2>2, <2>3
  <2>5. ExportAt(t, "export", step[t], stack[t], todo[t], archive', attempted'[q], broken'[q])
    <3>1. ExportAt(t, "export", step[t], stack[t], todo[t], archive, attempted[q], broken[q])
      BY <2>1 DEF ExportInv, Exporting
    <3> QED
      BY <1>1, <2>4, <3>1, ExportGrows
  <2>6. ExportAt(t, "export", "none", <<>>, todo[t], archive', attempted'[q], broken'[q])
    BY <2>4, <2>5 DEF ExportAt, Saved, K
  <2> QED
    BY <2>1, <2>4, <2>6, ExportMoves
<1>4. CASE Abort(t)
  <2> DEFINE K == {s \in Snapshot : WrittenBy(t, s)}
  <2>1. BreaksOff(t, K) /\ Go(t, "aborted", "none", <<>>, <<>>)
    BY <1>4 DEF Abort
  <2>2. K \in SUBSET (Snapshot \cup Node) /\ \A a \in Snapshot : WrittenBy(t, a) => a \in K
    OBVIOUS
  <2> HIDE DEF K
  <2>3. Accounts(t)
    BY <1>2, <2>1, <2>2
  <2>4. ExportAt(t, "aborted", "none", <<>>, <<>>, archive', attempted'[q], broken'[q])
    BY DEF ExportAt
  <2> QED
    BY <2>1, <2>3, <2>4, ExportMoves
<1> QED
  BY <1>3, <1>4

LEMMA NextExport == IInv /\ ExportInv /\ [Next]_vars => ExportInv'
<1> SUFFICES ASSUME IInv, ExportInv, [Next]_vars PROVE ExportInv'
  OBVIOUS
<1>1. ASSUME NEW t \in Task, Progress(t) PROVE ExportInv'
  BY <1>1, CheckExport, ExecuteExport, NextExported, KeyExport, WriteExport, StoreExport
     DEF Progress, ExportStep
<1>2. CASE UNCHANGED vars
  BY <1>2 DEF vars, ExportInv, Kept, Stored, Blamed, Exporting, WrittenBy
<1> QED
  BY <1>1, <1>2, ExecuteExport, BrokenExport DEF Next

(* What a standalone process executed is in the cache with all its layers,  *)
(* whole; a value or a layer that is not was broken off by the process      *)
(* itself or is still being written by it, and one that is cut off was cut  *)
(* off by it or by somebody before or beside it.                            *)
THEOREM ExportedWhenRunHolds == Spec => []ExportedWhenRun
<1>1. Init => IInv /\ ExportInv
  BY InitIInv, InitExport
<1>2. IInv /\ ExportInv /\ [Next]_vars => (IInv /\ ExportInv)'
  BY NextIInv, NextExport
<1>3. IInv /\ ExportInv => ExportedWhenRun
  <2> SUFFICES ASSUME IInv, ExportInv, NEW t \in Task, phase[t] = "ran",
                      ProcessOf[t] \in Standalone
               PROVE  /\ NodeOf[t] \in data \cup broken[ProcessOf[t]]
                      /\ \A s \in Members(Value[NodeOf[t]]) : \A a \in Members(Line[s]) :
                           Accounted(ProcessOf[t], a)
    BY DEF ExportedWhenRun
  <2> DEFINE q == ProcessOf[t]
  <2>1. NodeOf[t] \in Node /\ q \in Process
    BY TaskType
  <2>2. NodeOf[t] \in attempted[q]
    BY DEF ExportInv, Exporting, ExportAt
  <2>3. NodeOf[t] \in data \cup broken[q]
    BY <2>1, <2>2 DEF ExportInv, Stored
  <2>4. ASSUME NEW s \in Members(Value[NodeOf[t]]), NEW a \in Members(Line[s])
        PROVE  Accounted(q, a)
    <3>1. s \in Snapshot
      BY <2>1, ValueType
    <3>2. a \in Snapshot
      BY <3>1, LineType DEF Members
    <3>3. Saved(a, archive, attempted[q], broken[q])
      BY <2>4 DEF ExportInv, Exporting, ExportAt
    <3>4. archive[a] \in {"none", "whole", "torn"}
      BY <3>2 DEF IInv, TypeOK
    <3>5. CASE archive[a] = "torn"
      BY <3>2, <3>5 DEF ExportInv, Blamed, Accounted
    <3>6. CASE archive[a] = "none"
      BY <2>1, <3>2, <3>3, <3>6 DEF ExportInv, Kept, Saved, Accounted
    <3> QED
      BY <3>4, <3>5, <3>6 DEF Accounted
  <2> QED
    BY <2>3, <2>4
<1> QED
  BY <1>1, <1>2, <1>3, PTL DEF Spec
=============================================================================
