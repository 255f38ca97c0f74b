------------------------------ MODULE Topology ------------------------------
(***************************************************************************)
(* Trees of network namespaces (serpentine_internal/src/network.rs): the   *)
(* same struct holds an exec's containers, the shape it asks the sidecar   *)
(* for and the namespaces it is given.  Children are kept sorted by their  *)
(* shape, so that trees of one shape can be zipped by position.            *)
(*                                                                         *)
(* A tree is a function from its places to the data there.  A place is the *)
(* sequence of the positions of children that lead to it from the root, so *)
(* that the domain of a tree is its shape.                                 *)
(***************************************************************************)
EXTENDS Naturals, Sequences, FiniteSets, SequencesExt

New(d) == [p \in {<<>>} |-> d]

(* into_parts: the children of a tree, one after the other.                 *)
Under(S, p) == {SubSeq(x, Len(p) + 1, Len(x)) : x \in {y \in S : IsPrefix(p, y)}}
Sub(t, p) == [q \in Under(DOMAIN t, p) |-> t[p \o q]]
Degree(t) == Cardinality({p \in DOMAIN t : Len(p) = 1})
Children(t) == [i \in 1..Degree(t) |-> Sub(t, <<i>>)]

(* A tree of a root and its children as they are given.                     *)
Joined(d, cs) ==
    [p \in {<<>>} \cup UNION {{<<i>> \o q : q \in DOMAIN cs[i]} : i \in DOMAIN cs} |->
        IF p = <<>> THEN d ELSE cs[p[1]][Tail(p)]]

(* p comes before q when a tree is walked from the first child to the last, *)
(* parents first.                                                           *)
Before(p, q) ==
    \E n \in 0..Len(p) :
        /\ n <= Len(q) /\ \A i \in 1..n : p[i] = q[i]
        /\ n = Len(p) \/ (n < Len(q) /\ p[n + 1] < q[n + 1])

(* Ord: children are compared one after the other, the data ignored.  Where *)
(* the walks of two trees part, one goes on to a child the other lacks.     *)
Differ(s, t) == (DOMAIN s \ DOMAIN t) \cup (DOMAIN t \ DOMAIN s)
Cmp(s, t) ==
    IF DOMAIN s = DOMAIN t THEN "equal"
    ELSE LET parting == CHOOSE p \in Differ(s, t) : \A q \in Differ(s, t) : Before(p, q)
         IN  IF parting \in DOMAIN s THEN "greater" ELSE "less"

(* Vec::sort, which is stable.                                              *)
Precedes(s, t, earlier) == Cmp(s, t) = "less" \/ (Cmp(s, t) = "equal" /\ earlier)
Rank(cs, i) == Cardinality({j \in DOMAIN cs : Precedes(cs[j], cs[i], j <= i)})
Sorted(cs) == [k \in DOMAIN cs |-> cs[CHOOSE i \in DOMAIN cs : Rank(cs, i) = k]]

WithChildren(d, cs) == Joined(d, Sorted(cs))

(* Mutant: the child is put before the others.                              *)
AddFirst(t, c) == Joined(t[<<>>], <<c>> \o Children(t))

AddChild(t, c) == Joined(t[<<>>], Sorted(Append(Children(t), c)))

(* zip: what one tree has more than the other is dropped.                   *)
ZipTrees(s, t) == [p \in DOMAIN s \cap DOMAIN t |-> <<s[p], t[p]>>]

(* Mutant: the iterator pops a tree and forgets its children.               *)
PopOnly(stack) == Front(stack)

(* TopologyIter::next takes the root of the last tree on its stack.         *)
Popped(stack) == Front(stack) \o Children(Last(stack))

(* The data of every child with that of its parent.                         *)
Edges(t) == {<<t[Front(p)], t[p]>> : p \in DOMAIN t \ {<<>>}}

(* The places of a tree: nothing hangs in the air, and the children of one  *)
(* are numbered from 1.                                                     *)
IsShape(S) ==
    /\ IsFiniteSet(S) /\ <<>> \in S
    /\ \A p \in S : /\ p \in Seq(Nat \ {0})
                    /\ p # <<>> => /\ Front(p) \in S
                                   /\ \A i \in 1..Last(p) : Append(Front(p), i) \in S

(* Children are sorted at every place.                                      *)
Ordered(t) ==
    \A p \in DOMAIN t : \A i, j \in 1..Degree(Sub(t, p)) :
        i < j => Cmp(Sub(t, Append(p, i)), Sub(t, Append(p, j))) # "greater"
=============================================================================
