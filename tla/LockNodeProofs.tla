---------------------------- MODULE LockNodeProofs ----------------------------
(***************************************************************************)
(* That the tree of mutexes is a lock of paths, for any number of callers, *)
(* any set of paths and any tree that Insert and Remove make, as long as   *)
(* whoever removes a path has locked its parent.                           *)
(***************************************************************************)
EXTENDS LockNode, WellFoundedInduction, SequenceTheorems, TLAPS

(* A set of naturals that is not empty has a least member.                  *)
LEMMA LessIsWellFounded ==
  \E R : IsWellFoundedOn(R, Nat) /\ \A x, y \in Nat : <<x, y>> \in R <=> x < y
<1>1. \A x, y \in Nat : <<x, y>> \in OpToRel(<, Nat) <=> x < y
  BY DEF OpToRel
<1> QED
  BY <1>1, NatLessThanWellFounded, Zenon

(* A set of natural numbers has a least one.                                *)
LEMMA LeastNatural ==
  ASSUME NEW T, T \subseteq Nat, T # {}
  PROVE  \E x \in T : \A y \in T : x <= y
<1>1. PICK R : IsWellFoundedOn(R, Nat) /\ \A x, y \in Nat : <<x, y>> \in R <=> x < y
  BY LessIsWellFounded
<1>2. \A x, y \in Nat : <<x, y>> \in R <=> x < y
  BY <1>1
<1>3. \E x \in T : \A y \in T : ~ (<<y, x>> \in R)
  <2>1. IsWellFoundedOn(R, Nat)
    BY <1>1
  <2> QED
    BY <2>1, WFMin, Zenon
<1>4. PICK x \in T : \A y \in T : ~ (<<y, x>> \in R)
  BY <1>3
<1>5. \A y \in T : ~ (y < x)
  BY <1>2, <1>4, Zenon
<1>6. \A y \in T : x <= y
  BY <1>5
<1> QED
  BY <1>6

(* Induction over the naturals, for a set of them.                          *)
LEMMA SetInduction ==
  ASSUME NEW T, 0 \in T, \A n \in Nat : n \in T => n + 1 \in T
  PROVE  Nat \subseteq T
<1> SUFFICES ASSUME Nat \ T # {} PROVE FALSE
  OBVIOUS
<1>1. PICK x \in Nat \ T : \A y \in Nat \ T : x <= y
  BY LeastNatural
<1>2. x # 0 /\ x - 1 \in Nat /\ x - 1 \in T
  BY <1>1
<1> QED
  BY <1>1, <1>2

-----------------------------------------------------------------------------
(* What is below some nodes, for any children.                              *)
Grown(kids, ns) == ns \cup UNION {kids[n] : n \in ns}

(* The nodes that are reached in i steps, for every i up to a depth.        *)
IsReach(f, D, kids, from) ==
    f = [i \in 0 .. D |-> IF i = 0 THEN from ELSE Grown(kids, f[i - 1])]

(* There are such nodes.                                                    *)
LEMMA ReachExists ==
  ASSUME NEW D \in Nat, NEW kids, NEW from
  PROVE  \E f : IsReach(f, D, kids, from)
<1> DEFINE T == {n \in Nat : \E f : IsReach(f, n, kids, from)}
<1>1. 0 \in T
  <2>1. IsReach([i \in 0 .. 0 |-> from], 0, kids, from)
    BY DEF IsReach
  <2> QED
    BY <2>1
<1>2. ASSUME NEW n \in Nat, n \in T
      PROVE  n + 1 \in T
  <2>1. PICK f : IsReach(f, n, kids, from)
    BY <1>2
  <2> DEFINE g == [i \in 0 .. n + 1 |-> IF i = n + 1 THEN Grown(kids, f[n]) ELSE f[i]]
  <2>2. \A i \in 0 .. n : g[i] = f[i] /\ i \in 0 .. n + 1
    OBVIOUS
  <2>3. \A i \in 0 .. n : f[i] = IF i = 0 THEN from ELSE Grown(kids, f[i - 1])
    BY <2>1 DEF IsReach
  <2>4. ASSUME NEW i \in 0 .. n + 1
        PROVE  g[i] = IF i = 0 THEN from ELSE Grown(kids, g[i - 1])
    <3>1. CASE i = n + 1
      <4>1. g[i] = Grown(kids, f[n]) /\ i # 0 /\ i - 1 = n /\ n \in 0 .. n
        BY <3>1
      <4>2. g[i - 1] = f[n]
        BY <2>2, <4>1
      <4> QED
        BY <4>1, <4>2
    <3>2. CASE i = 0
      <4>1. i \in 0 .. n
        BY <3>2
      <4> QED
        BY <2>2, <2>3, <3>2, <4>1
    <3>3. CASE i # n + 1 /\ i # 0
      <4>1. i \in 0 .. n /\ i - 1 \in 0 .. n
        BY <3>3
      <4>2. g[i] = f[i] /\ g[i - 1] = f[i - 1]
        BY <2>2, <4>1
      <4> QED
        BY <2>3, <3>3, <4>1, <4>2
    <3> QED
      BY <3>1, <3>2, <3>3
  <2>5. IsReach(g, n + 1, kids, from)
    <3>1. g = [i \in 0 .. n + 1 |-> g[i]]
      OBVIOUS
    <3> HIDE DEF g
    <3> QED
      BY <2>4, <3>1 DEF IsReach
  <2> QED
    BY <2>5
<1> HIDE DEF T
<1>3. Nat \subseteq T
  BY <1>1, <1>2, SetInduction
<1> QED
  BY <1>3 DEF T

-----------------------------------------------------------------------------
(* Paths, and the order of one being a part of the way down the other.      *)
Key == UNION {{p[i] : i \in DOMAIN p} : p \in Path}
Upto(a, b) == Len(a) <= Len(b) /\ a = SubSeq(b, 1, Len(a))

(* A path is a sequence, and the beginning of a path is one.                *)
LEMMA Cut ==
  ASSUME NEW p \in Path, NEW i \in 0 .. Len(p)
  PROVE  /\ p \in Seq(Key) /\ Len(p) \in Nat /\ Len(p) <= Depth
         /\ SubSeq(p, 1, i) \in Path
         /\ Len(SubSeq(p, 1, i)) = i
         /\ \A j \in 1 .. i : SubSeq(p, 1, i)[j] = p[j]
         /\ SubSeq(p, 1, Len(p)) = p
<1>1. p \in Seq(Key) /\ Len(p) <= Depth /\ SubSeq(p, 1, i) \in Path
  BY PathAssumption DEF Key
<1>2. Len(p) \in Nat /\ \A j \in 1 .. Len(p) : p[j] \in Key
  BY <1>1, LenProperties, ElementOfSeq
<1>3. /\ Len(SubSeq(p, 1, i)) = IF 1 <= i THEN i - 1 + 1 ELSE 0
      /\ \A j \in 1 .. i - 1 + 1 : SubSeq(p, 1, i)[j] = p[1 + j - 1]
  <2>1. /\ i \in Int /\ 1 \in Int
        /\ \A j \in 1 .. i : p[j] \in Key
    BY <1>2
  <2> QED
    BY <2>1, SubSeqProperties
<1>4. \A j \in 1 .. i : SubSeq(p, 1, i)[j] = p[j]
  BY <1>2, <1>3
<1>5. SubSeq(p, 1, Len(p)) = p
  BY <1>1, SubSeqFull
<1> QED
  BY <1>1, <1>2, <1>3, <1>4, <1>5

(* A beginning of a path is told by its members.                            *)
LEMMA UptoMembers ==
  ASSUME NEW a \in Path, NEW b \in Path
  PROVE  /\ Upto(a, b) <=> Len(a) <= Len(b) /\ \A i \in 1 .. Len(a) : a[i] = b[i]
         /\ Len(a) \in Nat /\ Len(b) \in Nat
<1>1. Len(a) \in Nat /\ Len(b) \in Nat /\ a \in Seq(Key)
  <2>1. a \in Seq(Key) /\ b \in Seq(Key)
    BY PathAssumption DEF Key
  <2> QED
    BY <2>1, LenProperties
<1>2. ASSUME Len(a) <= Len(b)
      PROVE  /\ SubSeq(b, 1, Len(a)) \in Seq(Key)
             /\ Len(SubSeq(b, 1, Len(a))) = Len(a)
             /\ \A i \in 1 .. Len(a) : SubSeq(b, 1, Len(a))[i] = b[i]
  <2>1. Len(a) \in 0 .. Len(b)
    BY <1>1, <1>2
  <2>2. SubSeq(b, 1, Len(a)) \in Path
    BY <2>1, Cut
  <2>3. SubSeq(b, 1, Len(a)) \in Seq(Key)
    BY <2>2, PathAssumption DEF Key
  <2> QED
    BY <2>1, <2>3, Cut
<1>3. ASSUME Len(a) <= Len(b), \A i \in 1 .. Len(a) : a[i] = b[i]
      PROVE  a = SubSeq(b, 1, Len(a))
  <2>1. \A i \in 1 .. Len(a) : a[i] = SubSeq(b, 1, Len(a))[i]
    BY <1>2, <1>3
  <2> QED
    BY <1>1, <1>2, <1>3, <2>1, SeqEqual
<1> QED
  BY <1>1, <1>2, <1>3 DEF Upto

(* The order of paths.                                                      *)
LEMMA UptoOrder ==
  ASSUME NEW a \in Path, NEW b \in Path
  PROVE  /\ Upto(a, a) /\ Upto(<<>>, a)
         /\ Upto(a, b) /\ Len(a) = Len(b) => a = b
         /\ \A c \in Path : Upto(a, b) /\ Upto(b, c) => Upto(a, c)
         /\ \A c \in Path : Upto(a, c) /\ Upto(b, c) /\ Len(a) <= Len(b) => Upto(a, b)
<1>1. Len(a) \in Nat /\ Len(b) \in Nat /\ <<>> \in Path /\ Len(<<>>) = 0
  BY UptoMembers, PathAssumption, EmptySeq
<1>2. Upto(a, a) /\ Upto(<<>>, a)
  BY <1>1, UptoMembers
<1>3. ASSUME Upto(a, b), Len(a) = Len(b)
      PROVE  a = b
  <2>1. Len(b) \in 0 .. Len(b)
    BY <1>1
  <2> QED
    BY <1>3, <2>1, Cut DEF Upto
<1>4. ASSUME NEW c \in Path, Upto(a, b), Upto(b, c)
      PROVE  Upto(a, c)
  <2>1. /\ Len(a) <= Len(b) /\ Len(b) <= Len(c) /\ Len(c) \in Nat
        /\ \A i \in 1 .. Len(a) : a[i] = b[i]
        /\ \A i \in 1 .. Len(b) : b[i] = c[i]
    BY <1>4, UptoMembers
  <2>2. Len(a) <= Len(c) /\ \A i \in 1 .. Len(a) : a[i] = c[i]
    BY <1>1, <2>1
  <2> QED
    BY <2>2, UptoMembers
<1>5. ASSUME NEW c \in Path, Upto(a, c), Upto(b, c), Len(a) <= Len(b)
      PROVE  Upto(a, b)
  <2>1. /\ \A i \in 1 .. Len(a) : a[i] = c[i]
        /\ \A i \in 1 .. Len(b) : b[i] = c[i]
    BY <1>5, UptoMembers
  <2>2. \A i \in 1 .. Len(a) : a[i] = b[i]
    BY <1>1, <1>5, <2>1
  <2> QED
    BY <1>5, <2>2, UptoMembers
<1> QED
  BY <1>2, <1>3, <1>4, <1>5

(* One step up from a path, and one step down on the way to another.        *)
LEMMA Steps ==
  ASSUME NEW a \in Path, NEW b \in Path
  PROVE  /\ a # <<>> => /\ Seqs!Front(a) \in Path
                        /\ Len(Seqs!Front(a)) = Len(a) - 1
                        /\ Upto(Seqs!Front(a), a)
         /\ a # <<>> <=> Len(a) > 0
         /\ Upto(a, b) /\ a # b =>
              LET c == SubSeq(b, 1, Len(a) + 1)
              IN  /\ Len(a) < Len(b) /\ b # <<>> /\ c # <<>>
                  /\ Upto(a, Seqs!Front(b))
                  /\ c \in Path /\ Len(c) = Len(a) + 1 /\ Upto(c, b)
                  /\ Seqs!Front(c) = a
<1>1. Len(a) \in Nat /\ Len(b) \in Nat
  BY UptoMembers
<1>2. ASSUME NEW p \in Path
      PROVE  p # <<>> <=> Len(p) > 0
  <2>1. p \in Seq(Key)
    BY PathAssumption DEF Key
  <2>2. Len(<<>>) = 0 /\ (p # <<>> => Len(p) \in Nat \ {0})
    BY <2>1, EmptySeq
  <2>3. Len(p) \in Nat
    BY UptoMembers
  <2>4. CASE p = <<>>
    BY <2>2, <2>4
  <2>5. CASE p # <<>>
    BY <2>2, <2>5
  <2> QED
    BY <2>4, <2>5
<1>3. ASSUME NEW p \in Path, p # <<>>
      PROVE  /\ Seqs!Front(p) \in Path
             /\ Len(Seqs!Front(p)) = Len(p) - 1
             /\ Upto(Seqs!Front(p), p)
  <2>1. Len(p) \in Nat /\ Len(p) > 0 /\ Len(p) - 1 \in 0 .. Len(p)
    BY <1>2, <1>3, UptoMembers
  <2>2. PICK k \in 0 .. Len(p) : k = Len(p) - 1
    BY <2>1
  <2>3. Seqs!Front(p) = SubSeq(p, 1, k)
    BY <2>2 DEF Seqs!Front
  <2>4. SubSeq(p, 1, k) \in Path /\ Len(SubSeq(p, 1, k)) = k /\ k <= Len(p)
    BY <2>1, Cut
  <2>5. Upto(SubSeq(p, 1, k), p)
    BY <2>4 DEF Upto
  <2> QED
    BY <2>2, <2>3, <2>4, <2>5
<1>4. ASSUME Upto(a, b), a # b
      PROVE  /\ Len(a) < Len(b) /\ b # <<>>
             /\ Upto(a, Seqs!Front(b))
             /\ SubSeq(b, 1, Len(a) + 1) # <<>>
             /\ SubSeq(b, 1, Len(a) + 1) \in Path
             /\ Len(SubSeq(b, 1, Len(a) + 1)) = Len(a) + 1
             /\ Upto(SubSeq(b, 1, Len(a) + 1), b)
             /\ Seqs!Front(SubSeq(b, 1, Len(a) + 1)) = a
  <2>1. Len(a) < Len(b)
    BY <1>1, <1>4, UptoOrder DEF Upto
  <2>2. b # <<>>
    BY <1>1, <1>2, <2>1
  <2>3. Upto(a, Seqs!Front(b))
    <3>1. Len(a) <= Len(Seqs!Front(b)) /\ Upto(Seqs!Front(b), b) /\ Seqs!Front(b) \in Path
      BY <1>1, <1>3, <2>1, <2>2
    <3> QED
      BY <1>4, <3>1, UptoOrder
  <2>4. PICK c : c = SubSeq(b, 1, Len(a) + 1)
    OBVIOUS
  <2>5. /\ Len(a) + 1 \in 0 .. Len(b)
        /\ c \in Path /\ Len(c) = Len(a) + 1
    BY <1>1, <2>1, <2>4, Cut
  <2>6. Upto(c, b) /\ c # <<>>
    <3>1. Len(c) > 0 /\ Len(c) <= Len(b)
      BY <1>1, <2>1, <2>5
    <3>2. c = SubSeq(b, 1, Len(c))
      BY <2>4, <2>5
    <3> QED
      BY <1>2, <2>5, <3>1, <3>2 DEF Upto
  <2>7. Upto(a, c) /\ a # c
    BY <1>1, <1>4, <2>5, <2>6, UptoOrder
  <2>8. Seqs!Front(c) = a
    <3>1. /\ Seqs!Front(c) \in Path /\ Len(Seqs!Front(c)) = Len(a)
          /\ Upto(Seqs!Front(c), c)
      BY <1>1, <1>3, <2>5, <2>6
    <3>2. Upto(Seqs!Front(c), a)
      BY <1>1, <2>5, <2>7, <3>1, UptoOrder
    <3> QED
      BY <3>1, <3>2, UptoOrder
  <2> QED
    BY <2>1, <2>2, <2>3, <2>4, <2>5, <2>6, <2>8
<1> QED
  BY <1>2, <1>3, <1>4

-----------------------------------------------------------------------------
(* A node is one key longer than the node it is in the map of, and in the   *)
(* tree a map has one node for a key.                                       *)
Kids ==
    /\ children \in [Node -> SUBSET Node]
    /\ \A n \in Node : \A m \in children[n] : m.path # <<>> /\ Seqs!Front(m.path) = n.path
OneKey == \A n \in Tree : \A m, k \in children[n] : m.path = k.path => m = k

(* Nodes and the root.                                                      *)
LEMMA Nodes ==
         /\ Root \in Node /\ Root.path = <<>>
         /\ \A n \in Node : n.path \in Path /\ Len(n.path) \in Nat /\ Len(n.path) <= Depth
BY PathAssumption, IncarnationsAssumption, UptoMembers DEF Node, Root

(* Children are one longer.                                                 *)
LEMMA ChildLength ==
  Kids => \A n \in Node : \A m \in children[n] :
             m \in Node /\ m.path # <<>> /\ Len(m.path) = Len(n.path) + 1
<1> SUFFICES ASSUME Kids, NEW n \in Node, NEW m \in children[n]
             PROVE  m \in Node /\ m.path # <<>> /\ Len(m.path) = Len(n.path) + 1
  OBVIOUS
<1>1. m \in Node /\ m.path # <<>> /\ Seqs!Front(m.path) = n.path
  BY DEF Kids
<1>2. /\ m.path \in Path /\ Len(m.path) \in Nat /\ Len(n.path) \in Nat
      /\ Len(Seqs!Front(m.path)) = Len(m.path) - 1
  BY <1>1, Nodes, Steps
<1> QED
  BY <1>1, <1>2

(* What the recursion in Reachable computes: the least set of nodes that    *)
(* has the root and all the children of its members.  Depth bounds the      *)
(* length of a path, so the steps it takes are enough.                      *)
TreeIsLeast ==
    /\ Root \in Tree /\ Tree \subseteq Node
    /\ \A n \in Tree : children[n] \subseteq Tree
    /\ \A S \in SUBSET Node :
          Root \in S /\ (\A n \in S : children[n] \subseteq S) => Tree \subseteq S

(* The tree is the least set with the root and the children of its nodes.   *)
LEMMA TreeShape == Kids => TreeIsLeast
<1> SUFFICES ASSUME Kids
             PROVE  TreeIsLeast
  OBVIOUS
<1> DEFINE reach == CHOOSE f : f = [i \in 0 .. Depth |-> IF i = 0 THEN {Root} ELSE Below(f[i - 1])]
<1>0. Depth \in Nat /\ Depth # 0 /\ Root \in Node /\ Root.path = <<>> /\ Len(<<>>) = 0
  BY DepthAssumption, Nodes, EmptySeq
<1>1. Tree = reach[Depth]
  BY DEF Tree, Reachable
<1>2. reach = [i \in 0 .. Depth |-> IF i = 0 THEN {Root} ELSE Below(reach[i - 1])]
  <2>1. PICK f : IsReach(f, Depth, children, {Root})
    BY <1>0, ReachExists
  <2>2. f = [i \in 0 .. Depth |-> IF i = 0 THEN {Root} ELSE Below(f[i - 1])]
    BY <2>1 DEF IsReach, Grown, Below
  <2> QED
    BY <2>2
<1> HIDE DEF reach
<1>3. /\ reach[0] = {Root}
      /\ \A i \in 0 .. Depth - 1 : reach[i + 1] = Below(reach[i])
  <2>1. reach[0] = {Root}
    BY <1>0, <1>2
  <2>2. ASSUME NEW i \in 0 .. Depth - 1
        PROVE  reach[i + 1] = Below(reach[i])
    <3>1. i + 1 \in 0 .. Depth /\ i + 1 # 0 /\ (i + 1) - 1 = i
      BY <1>0
    <3>2. reach[i + 1] = Below(reach[(i + 1) - 1])
      BY <1>2, <3>1
    <3> QED
      BY <3>1, <3>2
  <2> QED
    BY <2>1, <2>2
<1>4. \A i \in 0 .. Depth : /\ reach[i] \subseteq Node
                            /\ \A n \in reach[i] : Len(n.path) <= i /\ n \in reach[Len(n.path)]
  <2> DEFINE Good(i) == /\ reach[i] \subseteq Node
                        /\ \A n \in reach[i] : Len(n.path) <= i /\ n \in reach[Len(n.path)]
             T == {i \in Nat : i <= Depth => Good(i)}
  <2>1. 0 \in T
    BY <1>0, <1>3
  <2>2. ASSUME NEW i \in Nat, i \in T
        PROVE  i + 1 \in T
    <3> SUFFICES ASSUME i + 1 <= Depth
                 PROVE  Good(i + 1)
      OBVIOUS
    <3>1. Good(i) /\ i \in 0 .. Depth - 1 /\ reach[i + 1] = Below(reach[i])
      BY <1>0, <1>3, <2>2
    <3>2. ASSUME NEW n \in reach[i + 1]
          PROVE  n \in Node /\ Len(n.path) <= i + 1 /\ n \in reach[Len(n.path)]
      <4>1. CASE n \in reach[i]
        BY <3>1, <4>1, Nodes
      <4>2. CASE n \notin reach[i]
        <5>1. PICK k \in reach[i] : n \in children[k]
          BY <3>1, <3>2, <4>2 DEF Below
        <5>2. /\ k \in Node /\ Len(k.path) <= i /\ k \in reach[Len(k.path)]
              /\ Len(k.path) \in Nat
          BY <3>1, <5>1, Nodes
        <5>3. n \in Node /\ Len(n.path) = Len(k.path) + 1
          BY <5>1, <5>2, ChildLength
        <5>4. PICK j \in 0 .. Depth - 1 : j = Len(k.path)
          BY <1>0, <3>1, <5>2
        <5>5. n \in Below(reach[j])
          BY <5>1, <5>2, <5>4 DEF Below
        <5>6. n \in reach[Len(k.path) + 1]
          BY <1>3, <5>4, <5>5
        <5> QED
          BY <3>1, <5>2, <5>3, <5>6
      <4> QED
        BY <4>1, <4>2
    <3> QED
      BY <3>2
  <2> HIDE DEF T
  <2>3. Nat \subseteq T
    BY <2>1, <2>2, SetInduction
  <2> QED
    BY <1>0, <2>3 DEF T
<1>5. \A d \in Nat : \A i \in Nat : i + d <= Depth => reach[i] \subseteq reach[i + d]
  <2> DEFINE T == {d \in Nat : \A i \in Nat : i + d <= Depth => reach[i] \subseteq reach[i + d]}
  <2>1. 0 \in T
    OBVIOUS
  <2>2. ASSUME NEW d \in Nat, d \in T
        PROVE  d + 1 \in T
    <3> SUFFICES ASSUME NEW i \in Nat, i + (d + 1) <= Depth
                 PROVE  reach[i] \subseteq reach[i + (d + 1)]
      OBVIOUS
    <3>1. i + d <= Depth /\ i + d \in 0 .. Depth - 1 /\ i + (d + 1) = (i + d) + 1
      BY <1>0
    <3>2. reach[i] \subseteq reach[i + d]
      BY <2>2, <3>1
    <3>3. reach[(i + d) + 1] = Below(reach[i + d])
      BY <1>3, <3>1
    <3> QED
      BY <3>1, <3>2, <3>3 DEF Below
  <2> HIDE DEF T
  <2>3. Nat \subseteq T
    BY <2>1, <2>2, SetInduction
  <2> QED
    BY <2>3 DEF T
<1>6. ASSUME NEW n \in Tree, NEW m \in children[n]
      PROVE  m \in Tree
  <2>1. n \in Node /\ n \in reach[Len(n.path)] /\ Len(n.path) \in Nat
    BY <1>0, <1>1, <1>4, Nodes
  <2>2. m \in Node /\ Len(m.path) = Len(n.path) + 1 /\ Len(m.path) <= Depth
    BY <1>6, <2>1, ChildLength, Nodes
  <2>3. PICK j \in 0 .. Depth - 1 : j = Len(n.path)
    BY <1>0, <2>1, <2>2
  <2>4. m \in Below(reach[j])
    BY <2>1, <2>3, <1>6 DEF Below
  <2>5. m \in reach[j + 1]
    BY <1>3, <2>4
  <2>6. PICK d \in Nat : (j + 1) + d = Depth
    <3>1. Depth - (j + 1) \in Nat /\ (j + 1) + (Depth - (j + 1)) = Depth
      BY <1>0
    <3> QED
      BY <3>1
  <2>7. reach[j + 1] \subseteq reach[(j + 1) + d]
    <3>1. j + 1 \in Nat /\ (j + 1) + d <= Depth
      BY <1>0, <2>6
    <3> QED
      BY <1>5, <3>1
  <2> QED
    BY <1>1, <2>5, <2>6, <2>7
<1>7. Root \in Tree /\ Tree \subseteq Node
  <2>1. reach[0] \subseteq reach[0 + Depth]
    BY <1>0, <1>5
  <2> QED
    BY <1>0, <1>1, <1>3, <1>4, <2>1
<1>8. ASSUME NEW S \in SUBSET Node, Root \in S, \A n \in S : children[n] \subseteq S
      PROVE  Tree \subseteq S
  <2> DEFINE T == {i \in Nat : i <= Depth => reach[i] \subseteq S}
  <2>1. 0 \in T
    BY <1>3, <1>8
  <2>2. ASSUME NEW i \in Nat, i \in T
        PROVE  i + 1 \in T
    <3> SUFFICES ASSUME i + 1 <= Depth
                 PROVE  reach[i + 1] \subseteq S
      OBVIOUS
    <3>1. reach[i] \subseteq S /\ i \in 0 .. Depth - 1
      BY <1>0, <2>2
    <3>2. reach[i + 1] = Below(reach[i])
      BY <1>3, <3>1
    <3> QED
      BY <1>8, <3>1, <3>2 DEF Below
  <2> HIDE DEF T
  <2>3. Nat \subseteq T
    BY <2>1, <2>2, SetInduction
  <2> QED
    BY <1>0, <1>1, <2>3 DEF T
<1> QED
  BY <1>6, <1>7, <1>8 DEF TreeIsLeast

(* The tree is a tree of paths: a path has one node, and a node whose path  *)
(* is further down is below it.                                             *)
TreeOrder ==
    /\ \A n \in Tree \ {Root} : \E k \in Tree : n \in children[k]
    /\ \A n, m \in Tree : n.path = m.path => n = m
    /\ \A n \in Tree : \A a \in Path : Upto(a, n.path) => \E m \in Tree : m.path = a
    /\ \A n, m \in Tree : \A p \in Path :
          n.path # m.path /\ Upto(n.path, m.path) /\ Upto(m.path, p) => Child(n, p) # {}

(* Nodes of the tree are ordered as their paths are.                        *)
LEMMA TreePaths == Kids /\ OneKey => TreeOrder
<1> SUFFICES ASSUME Kids, OneKey
             PROVE  TreeOrder
  OBVIOUS
<1>0. TreeIsLeast
  BY TreeShape
<1>1. ASSUME NEW n \in Tree, n # Root
      PROVE  \E k \in Tree : n \in children[k]
  <2> DEFINE S == {m \in Tree : m = Root \/ \E k \in Tree : m \in children[k]}
  <2>1. S \in SUBSET Node /\ Root \in S
    BY <1>0 DEF TreeIsLeast
  <2>2. \A m \in S : children[m] \subseteq S
    BY <1>0 DEF TreeIsLeast
  <2>3. Tree \subseteq S
    BY <1>0, <2>1, <2>2 DEF TreeIsLeast
  <2> QED
    BY <1>1, <2>3
<1>2. ASSUME NEW n \in Tree, NEW k \in Tree, n \in children[k]
      PROVE  /\ n \in Node /\ k \in Node /\ n.path # <<>> /\ Seqs!Front(n.path) = k.path
             /\ n.path \in Path /\ k.path \in Path
             /\ Len(n.path) = Len(k.path) + 1 /\ Len(k.path) \in Nat
             /\ Upto(k.path, n.path)
  <2>1. n \in Node /\ k \in Node
    BY <1>0 DEF TreeIsLeast
  <2>2. n.path # <<>> /\ Seqs!Front(n.path) = k.path
    BY <1>2, <2>1 DEF Kids
  <2> QED
    BY <1>2, <2>1, <2>2, Nodes, Steps, ChildLength
<1>3. ASSUME NEW n \in Tree
      PROVE  /\ n \in Node /\ n.path \in Path /\ Len(n.path) \in Nat
             /\ Len(n.path) = 0 => n = Root
  <2>1. n \in Node /\ n.path \in Path /\ Len(n.path) \in Nat
    BY <1>0, Nodes DEF TreeIsLeast
  <2>2. ASSUME n # Root
        PROVE  Len(n.path) # 0
    <3>1. PICK k \in Tree : n \in children[k]
      BY <1>1, <2>2
    <3> QED
      BY <1>2, <3>1
  <2> QED
    BY <2>1, <2>2
<1>4. \A n, m \in Tree : n.path = m.path => n = m
  <2> DEFINE T == {i \in Nat : \A n, m \in Tree : Len(n.path) = i /\ n.path = m.path => n = m}
  <2>1. 0 \in T
    BY <1>3
  <2>2. ASSUME NEW i \in Nat, i \in T
        PROVE  i + 1 \in T
    <3> SUFFICES ASSUME NEW n \in Tree, NEW m \in Tree, Len(n.path) = i + 1, n.path = m.path
                 PROVE  n = m
      OBVIOUS
    <3>1. n # Root /\ m # Root
      BY Nodes, EmptySeq
    <3>2. PICK k \in Tree, j \in Tree : n \in children[k] /\ m \in children[j]
      BY <1>1, <3>1
    <3>3. /\ k.path = Seqs!Front(n.path) /\ j.path = Seqs!Front(m.path)
          /\ Len(k.path) = i
      BY <1>2, <3>2
    <3>4. k = j
      BY <2>2, <3>3
    <3> QED
      BY <3>2, <3>4 DEF OneKey
  <2> HIDE DEF T
  <2>3. Nat \subseteq T
    BY <2>1, <2>2, SetInduction
  <2> QED
    BY <1>3, <2>3 DEF T
<1>5. ASSUME NEW a \in Path
      PROVE  \A n \in Tree : Upto(a, n.path) => \E m \in Tree : m.path = a
  <2> DEFINE T == {i \in Nat : \A n \in Tree : Len(n.path) = i /\ Upto(a, n.path) =>
                                 \E m \in Tree : m.path = a}
  <2>1. 0 \in T
    <3> SUFFICES ASSUME NEW n \in Tree, Len(n.path) = 0, Upto(a, n.path)
                 PROVE  n.path = a
      OBVIOUS
    <3>1. Len(a) \in Nat /\ Len(a) <= Len(n.path)
      BY <1>3, UptoMembers DEF Upto
    <3> QED
      BY <1>3, <3>1, UptoOrder
  <2>2. ASSUME NEW i \in Nat, i \in T
        PROVE  i + 1 \in T
    <3> SUFFICES ASSUME NEW n \in Tree, Len(n.path) = i + 1, Upto(a, n.path), a # n.path
                 PROVE  \E m \in Tree : m.path = a
      OBVIOUS
    <3>1. n # Root
      BY Nodes, EmptySeq
    <3>2. PICK k \in Tree : n \in children[k]
      BY <1>1, <3>1
    <3>3. k.path = Seqs!Front(n.path) /\ Len(k.path) = i
      BY <1>2, <3>2
    <3>4. Upto(a, k.path)
      <4>1. PICK b \in Path : b = n.path
        BY <1>3
      <4>2. Upto(a, b) /\ a # b
        BY <4>1
      <4>3. Upto(a, Seqs!Front(b))
        BY <4>2, Steps
      <4> QED
        BY <3>3, <4>1, <4>3
    <3> QED
      BY <2>2, <3>3, <3>4
  <2> HIDE DEF T
  <2>3. Nat \subseteq T
    BY <2>1, <2>2, SetInduction
  <2> QED
    BY <1>3, <2>3 DEF T
<1>6. ASSUME NEW n \in Tree, NEW m \in Tree, NEW p \in Path,
             n.path # m.path, Upto(n.path, m.path), Upto(m.path, p)
      PROVE  Child(n, p) # {}
  <2>1. n.path \in Path /\ m.path \in Path
    BY <1>3
  <2>2. PICK c : c = SubSeq(m.path, 1, Len(n.path) + 1)
    OBVIOUS
  <2>3. /\ c \in Path /\ c # <<>> /\ Upto(c, m.path) /\ Seqs!Front(c) = n.path
        /\ Len(c) = Len(n.path) + 1
    BY <1>6, <2>1, <2>2, Steps
  <2>4. PICK l \in Tree : l.path = c
    BY <1>5, <2>3
  <2>5. l # Root
    BY <2>3, <2>4, Nodes
  <2>6. PICK k \in Tree : l \in children[k]
    BY <1>1, <2>5
  <2>7. k.path = n.path
    BY <1>2, <2>3, <2>4, <2>6
  <2>8. k = n
    BY <1>4, <2>7
  <2>9. Upto(c, p)
    BY <1>6, <2>1, <2>3, UptoOrder
  <2>10. c = SubSeq(p, 1, Len(n.path) + 1)
    BY <2>3, <2>9 DEF Upto
  <2> QED
    BY <2>4, <2>6, <2>8, <2>10 DEF Child
<1> QED
  BY <1>1, <1>4, <1>5, <1>6 DEF TreeOrder

-----------------------------------------------------------------------------
(* The locks of a call: its reads are the nodes it has passed, and the node *)
(* it is at when it looks at its map or has read-locked its path; that node *)
(* is the one it may have write-locked.                                     *)
Above(n) == {m \in Tree : Upto(m.path, n.path) /\ m.path # n.path}
Reading(c) == c.pc = "lookup" \/ (c.pc = "held" /\ c.op = "read")
Writing(c) == c.pc = "confirm" \/ (c.pc = "held" /\ c.op = "write")

LocksInv(c) ==
    /\ c.at \in Tree /\ Upto(c.at.path, c.path)
    /\ c.reads = Above(c.at) \cup (IF Reading(c) THEN {c.at} ELSE {})
    /\ c.writes = IF Writing(c) THEN {c.at} ELSE {}

(* Who has gone as far as the tree goes: to the node of its path, or to one *)
(* without a child on the way to it.  Whoever has the write lock may have   *)
(* inserted the path since.                                                 *)
ArrivedInv(c) ==
    /\ c.pc \in {"lookup", "upgrade", "confirm"} => c.at.path # c.path
    /\ c.pc \in {"upgrade", "confirm"} => c.op = "write"
    /\ c.pc = "held" => \/ c.at.path = c.path
                        \/ Child(c.at, c.path) = {}
                        \/ c.op = "write" /\ InTree(c.path)

CallInv == \A p \in Proc : IF call[p].pc = "idle" THEN call[p] = Idle
                           ELSE LocksInv(call[p]) /\ ArrivedInv(call[p])

(* The mutexes: who has the write lock of a node is alone with it.          *)
Mutex == \A p, q \in Proc : p # q =>
            call[p].writes \cap (call[q].reads \cup call[q].writes) = {}

IInv == /\ call \in [Proc -> CallType]
        /\ Kids /\ OneKey
        /\ CallInv /\ Mutex

-----------------------------------------------------------------------------
(* A call that is under way.                                                *)
LEMMA Busy ==
  ASSUME IInv, NEW p \in Proc, call[p].pc # "idle"
  PROVE  /\ call[p] \in CallType /\ LocksInv(call[p]) /\ ArrivedInv(call[p])
         /\ call[p].at \in Tree /\ call[p].at \in Node
         /\ call[p].path \in Path /\ call[p].at.path \in Path
         /\ Len(call[p].at.path) \in Nat
         /\ Upto(call[p].at.path, call[p].path)
<1>1. call[p] \in CallType /\ LocksInv(call[p]) /\ ArrivedInv(call[p])
  BY DEF IInv, CallInv
<1>2. TreeIsLeast
  BY TreeShape DEF IInv
<1>3. call[p].at \in Tree /\ call[p].at \in Node /\ Upto(call[p].at.path, call[p].path)
  BY <1>1, <1>2 DEF LocksInv, TreeIsLeast
<1>4. call[p].path \in Path
  BY <1>1 DEF CallType
<1> QED
  BY <1>1, <1>3, <1>4, Nodes

(* A call that is not under way has no locks.                               *)
LEMMA Free ==
  ASSUME IInv, NEW p \in Proc, call[p].pc = "idle"
  PROVE  call[p] = Idle /\ call[p].reads = {} /\ call[p].writes = {}
<1>1. call[p] = Idle
  BY DEF IInv, CallInv
<1> QED
  BY <1>1 DEF Idle

(* Of two calls that have come down to parts of one path, the one that is   *)
(* not further down has its node locked by the other, or is at the same.    *)
LEMMA Passing ==
  ASSUME IInv, NEW p \in Proc, NEW q \in Proc,
         call[p].pc # "idle", call[q].pc # "idle",
         NEW path \in Path, Upto(call[p].at.path, path), Upto(call[q].at.path, path),
         Len(call[p].at.path) <= Len(call[q].at.path)
  PROVE  call[p].at = call[q].at \/ call[p].at \in call[q].reads
<1>1. TreeOrder
  BY TreePaths DEF IInv
<1>2. Upto(call[p].at.path, call[q].at.path)
  BY Busy, UptoOrder
<1>3. CASE call[p].at.path = call[q].at.path
  BY <1>1, <1>3, Busy DEF TreeOrder
<1>4. CASE call[p].at.path # call[q].at.path
  <2>1. call[p].at \in Above(call[q].at)
    BY <1>2, <1>4, Busy DEF Above
  <2> QED
    BY <2>1, Busy DEF LocksInv
<1> QED
  BY <1>3, <1>4

(* Nobody else passes the node that a call has write-locked.                *)
LEMMA NotPassed ==
  ASSUME IInv, NEW p \in Proc, NEW q \in Proc, p # q,
         call[p].pc # "idle", Writing(call[p])
  PROVE  call[p].at \notin call[q].reads \cup call[q].writes
<1>1. call[p].at \in call[p].writes
  BY Busy DEF LocksInv
<1> QED
  BY <1>1 DEF IInv, Mutex

(* A write lock of a path excludes every lock at or below the path.         *)
LEMMA Excluded ==
  ASSUME IInv, NEW p \in Proc, NEW q \in Proc, p # q,
         call[p].pc = "held", call[p].op = "write", call[q].pc = "held"
  PROVE  ~ Upto(call[p].path, call[q].path)
<1> SUFFICES ASSUME Upto(call[p].path, call[q].path)
             PROVE  FALSE
  OBVIOUS
<1>1. /\ call[p].pc # "idle" /\ call[q].pc # "idle" /\ Writing(call[p])
      /\ call[q].path \in Path /\ call[p].path \in Path
      /\ Len(call[p].at.path) \in Nat /\ Len(call[q].at.path) \in Nat
      /\ call[p].at \in Tree /\ call[q].at \in Tree
      /\ call[p].at.path \in Path /\ call[q].at.path \in Path
  BY Busy DEF Writing
<1>2. /\ Upto(call[p].at.path, call[q].path)
      /\ Upto(call[q].at.path, call[q].path)
  BY <1>1, Busy, UptoOrder
<1>3. call[p].at \notin call[q].reads \cup call[q].writes
  BY <1>1, NotPassed
<1>4. call[q].at \in call[q].reads \cup call[q].writes
  <2>1. call[q].op \in {"read", "write"}
    BY <1>1, Busy DEF CallType
  <2>2. Reading(call[q]) \/ Writing(call[q])
    BY <2>1 DEF Reading, Writing
  <2> QED
    BY <1>1, <2>2, Busy DEF LocksInv
<1>5. Len(call[q].at.path) < Len(call[p].at.path)
  <2>1. ASSUME Len(call[p].at.path) <= Len(call[q].at.path)
        PROVE  FALSE
    BY <1>1, <1>2, <1>3, <1>4, <2>1, Passing
  <2> QED
    BY <1>1, <2>1
<1>6. call[q].at \in call[p].reads
  <2>1. call[q].at # call[p].at
    BY <1>3, <1>4
  <2>2. Len(call[q].at.path) <= Len(call[p].at.path)
    BY <1>1, <1>5
  <2> QED
    BY <1>1, <1>2, <2>1, <2>2, Passing
<1>7. call[q].op # "write"
  <2>1. ASSUME call[q].op = "write"
        PROVE  FALSE
    <3>1. Writing(call[q])
      BY <2>1 DEF Writing
    <3> QED
      BY <1>1, <1>6, <3>1, NotPassed
  <2> QED
    BY <2>1
<1>8. Upto(call[q].at.path, call[p].at.path) /\ call[q].at.path # call[p].at.path
  <2>1. Len(call[q].at.path) <= Len(call[p].at.path)
    BY <1>1, <1>5
  <2> QED
    BY <1>1, <1>2, <1>5, <2>1, UptoOrder
<1>9. Child(call[q].at, call[q].path) # {}
  <2>1. TreeOrder
    BY TreePaths DEF IInv
  <2> QED
    BY <1>1, <1>2, <1>8, <2>1 DEF TreeOrder
<1>10. call[q].at.path # call[q].path
  <2>1. Len(call[p].at.path) <= Len(call[q].path) /\ Len(call[q].path) \in Nat
    BY <1>1, <1>2, UptoMembers DEF Upto
  <2> QED
    BY <1>1, <1>5, <2>1
<1> QED
  BY <1>1, <1>7, <1>9, <1>10, Busy DEF ArrivedInv

-----------------------------------------------------------------------------
(* Whoever waits, waits for somebody who is further down, or as far down    *)
(* and at work there.                                                       *)
LEMMA Waiting ==
  ASSUME IInv, NEW p \in Proc, NEW q \in Proc, WaitsFor(p, q)
  PROVE  /\ call[p].pc # "idle" /\ call[q].pc # "idle"
         /\ Len(call[p].at.path) <= Len(call[q].at.path)
         /\ Len(call[p].at.path) = Len(call[q].at.path) => Reading(call[q]) \/ Writing(call[q])
<1>1. call[p].pc # "idle" /\ call[p].at \in call[q].reads \cup call[q].writes
  BY DEF WaitsFor
<1>2. call[q].pc # "idle"
  BY <1>1, Free
<1>3. /\ Len(call[p].at.path) \in Nat /\ Len(call[q].at.path) \in Nat
      /\ call[p].at.path \in Path /\ call[q].at.path \in Path
      /\ LocksInv(call[q])
  BY <1>1, <1>2, Busy
<1>4. CASE call[p].at = call[q].at
  <2>1. call[q].at \in call[q].reads \cup call[q].writes /\ call[q].at \notin Above(call[q].at)
    BY <1>1, <1>4 DEF Above
  <2>2. Reading(call[q]) \/ Writing(call[q])
    BY <1>3, <2>1 DEF LocksInv
  <2> QED
    BY <1>1, <1>2, <1>3, <1>4, <2>2
<1>5. CASE call[p].at # call[q].at
  <2>1. call[p].at \in Above(call[q].at)
    BY <1>1, <1>3, <1>5 DEF LocksInv
  <2>2. Upto(call[p].at.path, call[q].at.path) /\ call[p].at.path # call[q].at.path
    BY <2>1 DEF Above
  <2>3. Len(call[p].at.path) < Len(call[q].at.path)
    BY <1>3, <2>2, Steps
  <2> QED
    BY <1>1, <1>2, <1>3, <2>3
<1> QED
  BY <1>4, <1>5

(* Of the callers that wait, one whose node is deepest waits for nobody who *)
(* waits.                                                                   *)
LEMMA NoCircle == IInv => NoCircularWait
<1> SUFFICES ASSUME IInv, NEW S \in SUBSET Proc, S # {},
                    \A p \in S : \E q \in S : WaitsFor(p, q)
             PROVE  FALSE
  BY DEF NoCircularWait
<1> DEFINE rest(p) == Depth - Len(call[p].at.path)
           T == {n \in Nat : \E p \in S : n = rest(p)}
<1>1. ASSUME NEW p \in S
      PROVE  /\ call[p].pc # "idle" /\ Len(call[p].at.path) \in Nat
             /\ rest(p) \in Nat
  <2>1. PICK q \in S : WaitsFor(p, q)
    OBVIOUS
  <2>2. call[p].pc # "idle"
    BY <2>1, Waiting
  <2>3. call[p].at \in Node
    BY <2>2, Busy
  <2>4. Len(call[p].at.path) \in Nat /\ Len(call[p].at.path) <= Depth
    BY <2>3, Nodes
  <2> QED
    BY <2>2, <2>4, DepthAssumption
<1>2. T \subseteq Nat /\ T # {}
  BY <1>1
<1>3. PICK n \in T : \A m \in T : n <= m
  BY <1>2, LeastNatural
<1>4. PICK p \in S : n = rest(p)
  BY <1>3
<1>5. ASSUME NEW q \in S
      PROVE  Len(call[q].at.path) <= Len(call[p].at.path)
  <2>1. rest(q) \in T /\ rest(p) <= rest(q)
    BY <1>1, <1>3, <1>4
  <2> QED
    BY <1>1, <2>1, DepthAssumption
<1>6. PICK q \in S : WaitsFor(p, q)
  OBVIOUS
<1>7. /\ Len(call[p].at.path) = Len(call[q].at.path)
      /\ Reading(call[q]) \/ Writing(call[q])
  <2>1. Len(call[p].at.path) = Len(call[q].at.path)
    BY <1>1, <1>5, <1>6, Waiting
  <2> QED
    BY <1>6, <2>1, Waiting
<1>8. PICK r \in S : WaitsFor(q, r)
  OBVIOUS
<1> QED
  BY <1>7, <1>8 DEF WaitsFor, Reading, Writing

-----------------------------------------------------------------------------
(* The tree of the next state has the shape of one.                         *)
LEMMA TreeShapeNext == Kids' => TreeIsLeast'
BY TreeShape, PTL

(* The same after a step.                                                   *)
LEMMA TreePathsNext == (Kids /\ OneKey)' => TreeOrder'
BY TreePaths, PTL

(* The tree changes with the maps only.                                     *)
LEMMA SameTree ==
  ASSUME Kids, children' = children
  PROVE  Tree' = Tree /\ Kids' /\ (OneKey => OneKey')
<1>1. Kids'
  BY DEF Kids
<1>2. TreeIsLeast /\ TreeIsLeast'
  BY <1>1, TreeShape, TreeShapeNext
<1>3. Tree' \subseteq Tree
  <2>1. Tree \in SUBSET Node /\ Root \in Tree /\ \A n \in Tree : children'[n] \subseteq Tree
    BY <1>2 DEF TreeIsLeast
  <2> QED
    BY <1>2, <2>1 DEF TreeIsLeast
<1>4. Tree \subseteq Tree'
  <2>1. Tree' \in SUBSET Node /\ Root \in Tree' /\ \A n \in Tree' : children[n] \subseteq Tree'
    BY <1>2 DEF TreeIsLeast
  <2> QED
    BY <1>2, <2>1 DEF TreeIsLeast
<1> QED
  BY <1>1, <1>3, <1>4 DEF OneKey

(* A step of one call that leaves the tree alone.                           *)
LEMMA OneCall ==
  ASSUME IInv, children' = children, NEW p \in Proc, NEW c \in CallType,
         call' = [call EXCEPT ![p] = c],
         IF c.pc = "idle" THEN c = Idle ELSE LocksInv(c) /\ ArrivedInv(c),
         \A q \in Proc \ {p} : /\ c.writes \cap (call[q].reads \cup call[q].writes) = {}
                               /\ call[q].writes \cap (c.reads \cup c.writes) = {}
  PROVE  IInv'
<1>1. /\ Tree' = Tree /\ Kids' /\ OneKey'
  BY SameTree DEF IInv
<1>2. /\ call' \in [Proc -> CallType] /\ call'[p] = c
      /\ \A q \in Proc \ {p} : call'[q] = call[q]
  BY DEF IInv
<1>5. CallInv'
  <2>1. ASSUME NEW q \in Proc
        PROVE  IF call'[q].pc = "idle" THEN call'[q] = Idle
               ELSE LocksInv(call'[q]) /\ ArrivedInv(call'[q])
    BY <1>2 DEF IInv, CallInv
  <2>2. ASSUME NEW q \in Proc
        PROVE  IF call'[q].pc = "idle" THEN call'[q] = Idle
               ELSE LocksInv(call[q])' /\ ArrivedInv(call[q])'
    BY <1>1, <2>1 DEF LocksInv, ArrivedInv, Above, Child, InTree
  <2> QED
    BY <2>2 DEF CallInv
<1>6. Mutex'
  BY <1>2 DEF IInv, Mutex
<1> QED
  BY <1>1, <1>2, <1>5, <1>6 DEF IInv

(* The steps of a call on its way down, and back.                           *)
LEMMA CallSteps ==
  ASSUME IInv, NEW p \in Proc,
         \/ \E op \in {"read", "write"}, path \in Path : Call(p, op, path)
         \/ EnterInner(p) \/ EnterLeaf(p)
         \/ LookupFound(p) \/ LookupAbsent(p) \/ Upgrade(p) \/ Confirm(p)
         \/ Expire(p) \/ Release(p)
  PROVE  IInv'
<1> DEFINE n == call[p].at
           path == call[p].path
<1>1. /\ TreeIsLeast /\ TreeOrder /\ call \in [Proc -> CallType]
      /\ call[p] \in CallType
  BY TreeShape, TreePaths DEF IInv
<1>2. /\ \A q \in Proc \ {p} : call[q].writes \cap (call[p].reads \cup call[p].writes) = {}
      /\ \A q \in Proc \ {p} : call[p].writes \cap (call[q].reads \cup call[q].writes) = {}
  BY DEF IInv, Mutex
<1>3. Idle \in CallType /\ Idle.pc = "idle" /\ Idle.reads = {} /\ Idle.writes = {}
  BY Nodes, PathAssumption DEF Idle, CallType
<1>4. ASSUME call[p].pc # "idle"
      PROVE  /\ LocksInv(call[p]) /\ ArrivedInv(call[p])
             /\ n \in Tree /\ n \in Node /\ path \in Path /\ n.path \in Path
             /\ Upto(n.path, path) /\ n \notin Above(n)
  BY <1>4, Busy DEF Above
<1>5. ASSUME NEW op \in {"read", "write"}, NEW way \in Path, Call(p, op, way)
      PROVE  IInv'
  <2> DEFINE c == [Idle EXCEPT !.pc = "enter", !.op = op, !.path = way]
  <2>1. /\ children' = children /\ call' = [call EXCEPT ![p] = c]
    BY <1>5 DEF Call
  <2>2. /\ c \in CallType /\ c.pc = "enter" /\ c.at = Root /\ c.path = way
        /\ c.reads = {} /\ c.writes = {}
    BY <1>3 DEF Idle, CallType
  <2>3. Above(Root) = {}
    <3>1. ASSUME NEW m \in Tree, Upto(m.path, Root.path), m.path # Root.path
          PROVE  FALSE
      <4>1. m \in Node
        BY <1>1 DEF TreeIsLeast
      <4>2. Len(m.path) < Len(<<>>) /\ Len(m.path) \in Nat
        BY <3>1, <4>1, Nodes, Steps, PathAssumption
      <4> QED
        BY <4>2, EmptySeq
    <3> QED
      BY <3>1 DEF Above
  <2>4. Root \in Tree /\ Upto(Root.path, way)
    BY <1>1, Nodes, UptoOrder DEF TreeIsLeast
  <2> HIDE DEF c
  <2>5. LocksInv(c) /\ ArrivedInv(c)
    BY <2>2, <2>3, <2>4 DEF LocksInv, ArrivedInv, Reading, Writing
  <2> QED
    BY <2>1, <2>2, <2>5, OneCall
<1>6. CASE EnterInner(p)
  <2> DEFINE c == [call[p] EXCEPT !.pc = "lookup", !.reads = @ \cup {n}]
  <2>1. /\ call[p].pc = "enter" /\ n.path # path /\ CanRead(p, n)
        /\ children' = children /\ call' = [call EXCEPT ![p] = c]
    BY <1>1, <1>6 DEF EnterInner
  <2>2. /\ c \in CallType /\ c.pc = "lookup" /\ c.at = n /\ c.path = path
        /\ c.reads = call[p].reads \cup {n} /\ c.writes = call[p].writes
    BY <1>1, <1>4, <2>1 DEF CallType
  <2> HIDE DEF c
  <2>3. LocksInv(c) /\ ArrivedInv(c)
    BY <1>4, <2>1, <2>2 DEF LocksInv, ArrivedInv, Reading, Writing
  <2>4. \A q \in Proc \ {p} : /\ c.writes \cap (call[q].reads \cup call[q].writes) = {}
                              /\ call[q].writes \cap (c.reads \cup c.writes) = {}
    BY <1>2, <2>1, <2>2 DEF CanRead
  <2> QED
    BY <2>1, <2>2, <2>3, <2>4, OneCall
<1>7. CASE EnterLeaf(p) /\ call[p].op = "read"
  <2> DEFINE c == [call[p] EXCEPT !.pc = "held", !.reads = @ \cup {n}]
  <2>1. /\ call[p].pc = "enter" /\ n.path = path /\ CanRead(p, n)
        /\ children' = children /\ call' = [call EXCEPT ![p] = c]
    BY <1>1, <1>7 DEF EnterLeaf
  <2>2. /\ c \in CallType /\ c.pc = "held" /\ c.at = n /\ c.path = path /\ c.op = "read"
        /\ c.reads = call[p].reads \cup {n} /\ c.writes = call[p].writes
    BY <1>1, <1>4, <1>7, <2>1 DEF CallType
  <2> HIDE DEF c
  <2>3. LocksInv(c) /\ ArrivedInv(c)
    BY <1>4, <2>1, <2>2 DEF LocksInv, ArrivedInv, Reading, Writing
  <2>4. \A q \in Proc \ {p} : /\ c.writes \cap (call[q].reads \cup call[q].writes) = {}
                              /\ call[q].writes \cap (c.reads \cup c.writes) = {}
    BY <1>2, <2>1, <2>2 DEF CanRead
  <2> QED
    BY <2>1, <2>2, <2>3, <2>4, OneCall
<1>8. CASE EnterLeaf(p) /\ call[p].op = "write"
  <2> DEFINE c == [call[p] EXCEPT !.pc = "held", !.writes = {n}]
  <2>1. /\ call[p].pc = "enter" /\ n.path = path /\ CanWrite(p, n)
        /\ children' = children /\ call' = [call EXCEPT ![p] = c]
    BY <1>1, <1>8 DEF EnterLeaf
  <2>2. /\ c \in CallType /\ c.pc = "held" /\ c.at = n /\ c.path = path /\ c.op = "write"
        /\ c.reads = call[p].reads /\ c.writes = {n}
    BY <1>1, <1>4, <1>8, <2>1 DEF CallType
  <2> HIDE DEF c
  <2>3. LocksInv(c) /\ ArrivedInv(c)
    BY <1>4, <2>1, <2>2 DEF LocksInv, ArrivedInv, Reading, Writing
  <2>4. \A q \in Proc \ {p} : /\ c.writes \cap (call[q].reads \cup call[q].writes) = {}
                              /\ call[q].writes \cap (c.reads \cup c.writes) = {}
    BY <1>2, <2>1, <2>2 DEF CanWrite
  <2> QED
    BY <2>1, <2>2, <2>3, <2>4, OneCall
<1>9. CASE LookupFound(p)
  <2>1. PICK m \in Child(n, path) :
          call' = [call EXCEPT ![p].pc = "enter", ![p].at = m]
    BY <1>9 DEF LookupFound
  <2> DEFINE c == [call[p] EXCEPT !.pc = "enter", !.at = m]
  <2>2. /\ call[p].pc = "lookup"
        /\ children' = children /\ call' = [call EXCEPT ![p] = c]
    BY <1>1, <1>9, <2>1 DEF LookupFound
  <2>3. /\ m \in children[n] /\ m.path = SubSeq(path, 1, Len(n.path) + 1)
        /\ m \in Tree /\ m \in Node /\ n.path # path
    BY <1>1, <1>4, <2>1, <2>2 DEF Child, TreeIsLeast, ArrivedInv
  <2>4. /\ c \in CallType /\ c.pc = "enter" /\ c.at = m /\ c.path = path
        /\ c.reads = call[p].reads /\ c.writes = call[p].writes
    BY <1>1, <1>4, <2>2, <2>3 DEF CallType
  <2> HIDE DEF c
  <2>5. /\ m.path \in Path /\ m.path # <<>> /\ Upto(m.path, path)
        /\ Seqs!Front(m.path) = n.path
        /\ Upto(n.path, m.path) /\ n.path # m.path
    <3>1. /\ m.path \in Path /\ m.path # <<>> /\ Upto(m.path, path)
          /\ Seqs!Front(m.path) = n.path /\ Len(m.path) = Len(n.path) + 1
          /\ Len(n.path) \in Nat
      BY <1>4, <2>2, <2>3, Steps, UptoMembers
    <3>2. Upto(Seqs!Front(m.path), m.path)
      BY <3>1, Steps
    <3> QED
      BY <3>1, <3>2
  <2>6. Above(m) = Above(n) \cup {n}
    <3>1. ASSUME NEW k \in Above(m)
          PROVE  k \in Above(n) \cup {n}
      <4>1. /\ k \in Tree /\ k.path \in Path
            /\ Upto(k.path, m.path) /\ k.path # m.path
        BY <1>1, <3>1, Nodes DEF Above, TreeIsLeast
      <4>2. Upto(k.path, Seqs!Front(m.path))
        BY <2>5, <4>1, Steps
      <4>3. k.path = n.path => k = n
        BY <1>1, <1>4, <2>2, <4>1 DEF TreeOrder
      <4> QED
        BY <2>5, <4>1, <4>2, <4>3 DEF Above
    <3>2. ASSUME NEW k \in Above(n) \cup {n}
          PROVE  k \in Above(m)
      <4>1. /\ k \in Tree /\ k.path \in Path /\ n.path \in Path /\ Upto(k.path, n.path)
        BY <1>1, <1>4, <2>2, <3>2, Nodes, UptoOrder DEF Above, TreeIsLeast
      <4>2. Upto(k.path, m.path)
        BY <2>5, <4>1, UptoOrder
      <4>3. k.path # m.path
        <5>1. Len(n.path) < Len(m.path) /\ Len(n.path) \in Nat /\ Len(k.path) <= Len(n.path)
          BY <2>5, <4>1, Steps, UptoMembers DEF Upto
        <5> QED
          BY <4>1, <5>1, UptoMembers
      <4> QED
        BY <4>1, <4>2, <4>3 DEF Above
    <3> QED
      BY <3>1, <3>2
  <2>7. LocksInv(c) /\ ArrivedInv(c)
    BY <1>4, <2>2, <2>3, <2>4, <2>5, <2>6 DEF LocksInv, ArrivedInv, Reading, Writing
  <2>8. \A q \in Proc \ {p} : /\ c.writes \cap (call[q].reads \cup call[q].writes) = {}
                            /\ call[q].writes \cap (c.reads \cup c.writes) = {}
    BY <1>2, <2>4
  <2> QED
    BY <2>2, <2>4, <2>7, <2>8, OneCall
<1>10. CASE LookupAbsent(p)
  <2> DEFINE c == Absent(p)
  <2>1. /\ call[p].pc = "lookup" /\ Child(n, path) = {}
        /\ children' = children /\ call' = [call EXCEPT ![p] = c]
    BY <1>10 DEF LookupAbsent
  <2>2. CASE call[p].op = "read"
    <3>1. c = [call[p] EXCEPT !.pc = "held"]
      BY <2>2 DEF Absent
    <3>2. /\ c \in CallType /\ c.pc = "held" /\ c.at = n /\ c.path = path /\ c.op = "read"
          /\ c.reads = call[p].reads /\ c.writes = call[p].writes
      BY <1>1, <2>2, <3>1 DEF CallType
    <3> HIDE DEF c
    <3>3. LocksInv(c) /\ ArrivedInv(c)
      BY <1>4, <2>1, <3>2 DEF LocksInv, ArrivedInv, Reading, Writing
    <3>4. \A q \in Proc \ {p} : /\ c.writes \cap (call[q].reads \cup call[q].writes) = {}
                              /\ call[q].writes \cap (c.reads \cup c.writes) = {}
      BY <1>2, <3>2
    <3> QED
      BY <2>1, <3>2, <3>3, <3>4, OneCall
  <2>3. CASE call[p].op = "write"
    <3>1. c = [call[p] EXCEPT !.pc = "upgrade", !.reads = @ \ {n}]
      BY <2>3 DEF Absent
    <3>2. /\ c \in CallType /\ c.pc = "upgrade" /\ c.at = n /\ c.path = path /\ c.op = "write"
          /\ c.reads = call[p].reads \ {n} /\ c.writes = call[p].writes
      <4>1. call[p].reads \ {n} \in SUBSET Node
        BY <1>1 DEF CallType
      <4>2. PICK r \in SUBSET Node : r = call[p].reads \ {n}
        BY <4>1
      <4>3. c = [call[p] EXCEPT !.pc = "upgrade", !.reads = r]
        BY <1>1, <3>1, <4>2 DEF CallType
      <4> QED
        BY <1>1, <2>3, <4>2, <4>3 DEF CallType
    <3> HIDE DEF c
    <3>3. LocksInv(c) /\ ArrivedInv(c)
      BY <1>4, <2>1, <3>2 DEF LocksInv, ArrivedInv, Reading, Writing
    <3>4. \A q \in Proc \ {p} : /\ c.writes \cap (call[q].reads \cup call[q].writes) = {}
                              /\ call[q].writes \cap (c.reads \cup c.writes) = {}
      BY <1>2, <3>2
    <3> QED
      BY <2>1, <3>2, <3>3, <3>4, OneCall
  <2> QED
    BY <1>1, <2>2, <2>3 DEF CallType
<1>11. CASE Upgrade(p)
  <2> DEFINE c == [call[p] EXCEPT !.pc = "confirm", !.writes = {n}]
  <2>1. /\ call[p].pc = "upgrade" /\ CanWrite(p, n)
        /\ children' = children /\ call' = [call EXCEPT ![p] = c]
    BY <1>1, <1>11 DEF Upgrade
  <2>2. /\ c \in CallType /\ c.pc = "confirm" /\ c.at = n /\ c.path = path /\ c.op = call[p].op
        /\ c.reads = call[p].reads /\ c.writes = {n}
    BY <1>1, <1>4, <2>1 DEF CallType
  <2> HIDE DEF c
  <2>3. LocksInv(c) /\ ArrivedInv(c)
    BY <1>4, <2>1, <2>2 DEF LocksInv, ArrivedInv, Reading, Writing
  <2>4. \A q \in Proc \ {p} : /\ c.writes \cap (call[q].reads \cup call[q].writes) = {}
                              /\ call[q].writes \cap (c.reads \cup c.writes) = {}
    BY <1>2, <2>1, <2>2 DEF CanWrite
  <2> QED
    BY <2>1, <2>2, <2>3, <2>4, OneCall
<1>12. CASE Confirm(p) /\ Child(n, path) = {}
  <2> DEFINE c == [call[p] EXCEPT !.pc = "held"]
  <2>1. /\ call[p].pc = "confirm"
        /\ children' = children /\ call' = [call EXCEPT ![p] = c]
    BY <1>12 DEF Confirm
  <2>2. /\ c \in CallType /\ c.pc = "held" /\ c.at = n /\ c.path = path /\ c.op = call[p].op
        /\ c.reads = call[p].reads /\ c.writes = call[p].writes
    BY <1>1, <2>1 DEF CallType
  <2> HIDE DEF c
  <2>3. LocksInv(c) /\ ArrivedInv(c)
    BY <1>4, <1>12, <2>1, <2>2 DEF LocksInv, ArrivedInv, Reading, Writing
  <2>4. \A q \in Proc \ {p} : /\ c.writes \cap (call[q].reads \cup call[q].writes) = {}
                            /\ call[q].writes \cap (c.reads \cup c.writes) = {}
    BY <1>2, <2>2
  <2> QED
    BY <2>1, <2>2, <2>3, <2>4, OneCall
<1>13. CASE (Confirm(p) /\ Child(n, path) # {}) \/ Expire(p) \/ Release(p)
  <2>1. children' = children /\ call' = [call EXCEPT ![p] = Idle]
    BY <1>13 DEF Confirm, Expire, Release
  <2> QED
    BY <1>3, <2>1, OneCall
<1> QED
  <2>1. EnterLeaf(p) => call[p].op = "read" \/ call[p].op = "write"
    BY DEF EnterLeaf
  <2> QED
    BY <1>5, <1>6, <1>7, <1>8, <1>9, <1>10, <1>11, <1>12, <1>13, <2>1

(* A step that changes the tree under calls that stay where they are.       *)
LEMMA OneTree ==
  ASSUME IInv, call' = call, Kids', OneKey',
         \A q \in Proc : call[q].pc # "idle" =>
            /\ call[q].at \in Tree'
            /\ {m \in Tree' : Upto(m.path, call[q].at.path) /\ m.path # call[q].at.path} =
                  Above(call[q].at),
         \A q \in Proc : call[q].pc = "held" =>
            \/ call[q].at.path = call[q].path
            \/ Child(call[q].at, call[q].path)' = {}
            \/ call[q].op = "write" /\ InTree(call[q].path)'
  PROVE  IInv'
<1>1. ASSUME NEW q \in Proc, call[q].pc # "idle"
      PROVE  LocksInv(call[q])' /\ ArrivedInv(call[q])'
  <2>1. LocksInv(call[q]) /\ ArrivedInv(call[q])
    BY <1>1, Busy
  <2>2. Above(call[q].at)' = Above(call[q].at)
    BY <1>1 DEF Above
  <2>3. LocksInv(call[q])'
    BY <1>1, <2>1, <2>2 DEF LocksInv, Reading, Writing
  <2>4. ArrivedInv(call[q])'
    BY <1>1, <2>1 DEF ArrivedInv
  <2> QED
    BY <2>3, <2>4
<1>2. CallInv'
  BY <1>1 DEF IInv, CallInv
<1> QED
  BY <1>2 DEF IInv, Mutex

(* Who removes a node has locked its parent: nobody is at it or below it,   *)
(* and what is not below it stays in the tree.                              *)
LEMMA RemoveStep ==
  ASSUME IInv, RemoveUnder = "parent", NEW p \in Proc, Remove(p)
  PROVE  IInv'
<1>1. PICK n \in Removable(p) : children' = [m \in Node |-> children[m] \ {n}]
  BY DEF Remove
<1>2. /\ call' = call /\ call[p].pc = "held" /\ call[p].op = "write"
      /\ n \in Tree /\ n # Root /\ Seqs!Front(n.path) = call[p].path
  BY <1>1 DEF Remove, Removable
<1>3. /\ Kids /\ OneKey /\ TreeIsLeast /\ TreeOrder
  BY TreeShape, TreePaths DEF IInv
<1>4. Kids'
  BY <1>1, <1>3 DEF Kids
<1>5. TreeIsLeast' /\ Tree' \subseteq Tree
  <2>1. TreeIsLeast'
    BY <1>4, TreeShapeNext
  <2>2. Tree \in SUBSET Node /\ Root \in Tree /\ \A m \in Tree : children'[m] \subseteq Tree
    BY <1>1, <1>3 DEF TreeIsLeast
  <2> QED
    BY <2>1, <2>2 DEF TreeIsLeast
<1>6. OneKey'
  <2>1. \A m \in Tree' : m \in Tree /\ children'[m] \subseteq children[m]
    BY <1>1, <1>3, <1>5 DEF TreeIsLeast
  <2> QED
    BY <1>3, <2>1 DEF OneKey
<1>7. /\ n.path \in Path /\ Len(n.path) \in Nat
      /\ call[p].path \in Path /\ Len(call[p].path) \in Nat
      /\ Len(call[p].path) < Len(n.path) /\ Upto(call[p].path, n.path)
      /\ call[p].pc # "idle" /\ Writing(call[p])
  <2>1. n \in Node /\ n.path \in Path /\ call[p].path \in Path
    BY <1>2, <1>3, Nodes, Busy DEF TreeIsLeast
  <2>2. n.path # <<>>
    <3>1. PICK k \in Tree : n \in children[k]
      BY <1>2, <1>3 DEF TreeOrder
    <3> QED
      BY <1>3, <3>1 DEF Kids, TreeIsLeast
  <2>3. Len(n.path) \in Nat /\ Len(call[p].path) \in Nat
    BY <2>1, UptoMembers
  <2>4. Len(Seqs!Front(n.path)) = Len(n.path) - 1 /\ Upto(Seqs!Front(n.path), n.path)
    BY <2>1, <2>2, Steps
  <2> QED
    BY <1>2, <2>1, <2>3, <2>4 DEF Writing
<1>8. \A m \in Tree : ~ Upto(n.path, m.path) => m \in Tree'
  <2> DEFINE T == {i \in Nat : \A m \in Tree : Len(m.path) = i /\ ~ Upto(n.path, m.path) => m \in Tree'}
  <2>1. ASSUME NEW m \in Tree
        PROVE  /\ m \in Node /\ m.path \in Path /\ Len(m.path) \in Nat
               /\ m # Root => \E k \in Tree : /\ m \in children[k] /\ k \in Node
                                              /\ Upto(k.path, m.path) /\ k.path \in Path
                                              /\ Len(k.path) \in Nat
                                              /\ Len(m.path) = Len(k.path) + 1
    <3>1. m \in Node /\ m.path \in Path /\ Len(m.path) \in Nat
      BY <1>3, Nodes DEF TreeIsLeast
    <3>2. ASSUME NEW k \in Tree, m \in children[k]
          PROVE  /\ k \in Node /\ k.path \in Path /\ Len(k.path) \in Nat
                 /\ Upto(k.path, m.path) /\ Len(m.path) = Len(k.path) + 1
      <4>1. k \in Node /\ k.path \in Path /\ Len(k.path) \in Nat
        BY <1>3, Nodes DEF TreeIsLeast
      <4>2. m.path # <<>> /\ Seqs!Front(m.path) = k.path
        BY <1>3, <3>2, <4>1 DEF Kids
      <4> QED
        BY <1>3, <3>1, <3>2, <4>1, <4>2, ChildLength, Steps
    <3> QED
      BY <1>3, <3>1, <3>2 DEF TreeOrder
  <2>2. 0 \in T
    <3>1. ASSUME NEW m \in Tree, Len(m.path) = 0
          PROVE  m = Root
      BY <2>1, <3>1
    <3> QED
      BY <1>5, <3>1 DEF TreeIsLeast
  <2>3. ASSUME NEW i \in Nat, i \in T
        PROVE  i + 1 \in T
    <3> SUFFICES ASSUME NEW m \in Tree, Len(m.path) = i + 1, ~ Upto(n.path, m.path)
                 PROVE  m \in Tree'
      OBVIOUS
    <3>1. m # Root
      BY Nodes, EmptySeq
    <3>2. PICK k \in Tree : /\ m \in children[k] /\ k \in Node
                            /\ Upto(k.path, m.path) /\ k.path \in Path
                            /\ Len(k.path) = i
      BY <2>1, <3>1
    <3>3. ~ Upto(n.path, k.path)
      BY <1>7, <2>1, <3>2, UptoOrder
    <3>4. k \in Tree'
      BY <2>3, <3>2, <3>3
    <3>5. m # n
      BY <1>7, UptoOrder
    <3>6. m \in children'[k]
      BY <1>1, <3>2, <3>5
    <3> QED
      BY <1>5, <3>4, <3>6 DEF TreeIsLeast
  <2> HIDE DEF T
  <2>4. Nat \subseteq T
    BY <2>2, <2>3, SetInduction
  <2> QED
    BY <2>1, <2>4 DEF T
<1>9. ASSUME NEW q \in Proc, call[q].pc # "idle"
      PROVE  ~ Upto(n.path, call[q].at.path)
  <2> SUFFICES ASSUME Upto(n.path, call[q].at.path)
               PROVE  FALSE
    OBVIOUS
  <2>1. /\ call[p].at.path \in Path /\ call[q].at.path \in Path
        /\ Len(call[p].at.path) \in Nat /\ Len(call[q].at.path) \in Nat
        /\ Upto(call[p].at.path, call[p].path)
    BY <1>7, <1>9, Busy
  <2>2. /\ Len(call[p].at.path) <= Len(call[p].path)
        /\ Len(n.path) <= Len(call[q].at.path)
    BY <2>1 DEF Upto
  <2>3. Len(call[p].at.path) < Len(call[q].at.path)
    <3>1. /\ Len(call[p].path) \in Nat /\ Len(n.path) \in Nat
          /\ Len(call[p].path) < Len(n.path)
      BY <1>7
    <3>2. Len(call[p].at.path) \in Nat /\ Len(call[q].at.path) \in Nat
      BY <2>1
    <3>3. \A a, b, c, d \in Nat : a <= b /\ b < c /\ c <= d => a < d
      OBVIOUS
    <3> QED
      BY <2>2, <3>1, <3>2, <3>3, Zenon
  <2>4. /\ Upto(call[p].at.path, call[q].at.path) /\ Upto(call[q].at.path, call[q].at.path)
    <3>1. Upto(call[p].at.path, n.path)
      BY <1>7, <2>1, UptoOrder
    <3> QED
      BY <1>7, <2>1, <3>1, UptoOrder
  <2>5. p # q /\ call[p].at # call[q].at
    BY <2>1, <2>3
  <2>6. call[p].at \in call[q].reads
    <3>1. Len(call[p].at.path) <= Len(call[q].at.path)
      BY <2>1, <2>3
    <3> QED
      BY <1>7, <1>9, <2>1, <2>4, <2>5, <3>1, Passing
  <2> QED
    BY <1>7, <2>5, <2>6, NotPassed
<1>10. ASSUME NEW q \in Proc, call[q].pc # "idle"
       PROVE  /\ call[q].at \in Tree'
              /\ {m \in Tree' : Upto(m.path, call[q].at.path) /\ m.path # call[q].at.path} =
                    Above(call[q].at)
  <2>1. call[q].at \in Tree /\ call[q].at.path \in Path
    BY <1>10, Busy
  <2>2. ASSUME NEW m \in Tree, Upto(m.path, call[q].at.path)
        PROVE  m \in Tree'
    <3>1. m.path \in Path
      BY <1>3, Nodes DEF TreeIsLeast
    <3>2. ~ Upto(n.path, m.path)
      BY <1>7, <1>9, <1>10, <2>1, <2>2, <3>1, UptoOrder
    <3> QED
      BY <1>8, <3>2
  <2> QED
    BY <1>5, <2>1, <2>2, UptoOrder DEF Above
<1>11. ASSUME NEW q \in Proc, call[q].pc = "held"
       PROVE  \/ call[q].at.path = call[q].path
              \/ Child(call[q].at, call[q].path)' = {}
              \/ call[q].op = "write" /\ InTree(call[q].path)'
  <2>1. call[q].pc # "idle" /\ call[q].at \in Node /\ call[q].path \in Path
    <3>1. call[q].pc # "idle"
      BY <1>11
    <3> QED
      BY <3>1, Busy
  <2>2. CASE call[q].at.path = call[q].path
    BY <2>2
  <2>3. CASE Child(call[q].at, call[q].path) = {}
    <3>1. children'[call[q].at] \subseteq children[call[q].at]
      BY <1>1, <2>1
    <3>2. Child(call[q].at, call[q].path)' = {}
      BY <1>2, <2>3, <3>1 DEF Child
    <3> QED
      BY <3>2
  <2>4. CASE call[q].op = "write" /\ InTree(call[q].path)
    <3>1. PICK k \in Tree : k.path = call[q].path
      BY <2>4 DEF InTree
    <3>2. ~ Upto(n.path, k.path)
      <4>1. CASE q = p
        <5>1. k.path = call[p].path
          BY <3>1, <4>1
        <5> QED
          BY <1>7, <5>1 DEF Upto
      <4>2. CASE q # p
        <5>1. ~ Upto(call[p].path, call[q].path)
          BY <1>2, <1>11, <4>2, Excluded
        <5> QED
          BY <1>7, <2>1, <3>1, <5>1, UptoOrder
      <4> QED
        BY <4>1, <4>2
    <3>3. k \in Tree'
      BY <1>8, <3>2
    <3>4. InTree(call[q].path)'
      BY <1>2, <3>1, <3>3 DEF InTree
    <3> QED
      BY <2>4, <3>4
  <2> QED
    BY <1>11, <2>1, <2>2, <2>3, <2>4, Busy DEF ArrivedInv
<1> QED
  BY <1>2, <1>4, <1>6, <1>10, <1>11, OneTree

(* A prefix, as the community module has it.                                *)
LEMMA PrefixIsUpto ==
  ASSUME NEW k \in Node, NEW path \in Path
  PROVE  Seqs!IsPrefix(k.path, path) <=> Upto(k.path, path)
<1>1. k.path \in Path /\ Len(k.path) \in Nat
  BY Nodes
<1>2. SubSeq(k.path, 1, Len(k.path)) = k.path
  <2>1. Len(k.path) \in 0 .. Len(k.path)
    BY <1>1
  <2> QED
    BY <1>1, <2>1, Cut
<1> QED
  BY <1>2 DEF Seqs!IsPrefix, Upto

(* Whoever may insert a path is at the last node there is on the way to it. *)
LEMMA Inserting ==
  ASSUME IInv, NEW p \in Proc, MayInsert(p)
  PROVE  /\ call[p].pc # "idle" /\ Writing(call[p])
         /\ call[p].at \in Tree /\ call[p].at \in Node
         /\ call[p].path \in Path /\ call[p].at.path \in Path
         /\ Upto(call[p].at.path, call[p].path) /\ call[p].at.path # call[p].path
         /\ Len(call[p].path) \in Nat /\ Len(call[p].at.path) \in Nat
         /\ Len(call[p].at.path) < Len(call[p].path)
         /\ Child(call[p].at, call[p].path) = {}
         /\ \A k \in Tree : Upto(k.path, call[p].path) => Len(k.path) <= Len(call[p].at.path)
         /\ Deepest(call[p].path) = call[p].at
<1> DEFINE path == call[p].path
           n    == call[p].at
           L    == Len(n.path)
<1>1. /\ call[p].pc = "held" /\ call[p].op = "write" /\ ~ InTree(path)
      /\ call[p].pc # "idle" /\ Writing(call[p])
  BY DEF MayInsert, Writing
<1>2. /\ Kids /\ OneKey /\ TreeIsLeast /\ TreeOrder
  BY TreeShape, TreePaths DEF IInv
<1>3. /\ n \in Tree /\ n \in Node /\ path \in Path /\ n.path \in Path
      /\ Upto(n.path, path) /\ n.path # path
      /\ Len(path) \in Nat /\ L \in Nat /\ L < Len(path)
  <2>1. /\ n \in Tree /\ n \in Node /\ path \in Path /\ n.path \in Path
        /\ Upto(n.path, path)
    BY <1>1, Busy
  <2>2. n.path # path
    BY <1>1, <2>1 DEF InTree
  <2> QED
    BY <2>1, <2>2, Steps, UptoMembers
<1>4. Child(n, path) = {}
  BY <1>1, <1>3, Busy DEF ArrivedInv
<1>5. ASSUME NEW k \in Tree, Upto(k.path, path)
      PROVE  Len(k.path) <= L /\ k.path \in Path /\ Len(k.path) \in Nat
  <2>1. k.path \in Path /\ Len(k.path) \in Nat
    BY <1>2, Nodes DEF TreeIsLeast
  <2>2. ASSUME L < Len(k.path)
        PROVE  FALSE
    <3>1. Upto(n.path, k.path) /\ n.path # k.path
      BY <1>3, <1>5, <2>1, <2>2, UptoOrder
    <3> QED
      BY <1>2, <1>3, <1>4, <1>5, <3>1 DEF TreeOrder
  <2> QED
    BY <1>3, <2>1, <2>2
<1>6. Deepest(path) = n
  <2>1. \A k \in Node : Seqs!IsPrefix(k.path, path) <=> Upto(k.path, path)
    BY <1>3, PrefixIsUpto
  <2>2. n \in Walk(path) /\ \A k \in Walk(path) : k \in Tree /\ Upto(k.path, path)
    BY <1>2, <1>3, <2>1 DEF Walk, TreeIsLeast
  <2>3. \A k \in Walk(path) : Len(k.path) <= L
    BY <1>5, <2>2
  <2>4. PICK d \in Walk(path) : d = Deepest(path) /\ \A k \in Walk(path) : Len(k.path) <= Len(d.path)
    BY <2>2, <2>3 DEF Deepest
  <2>5. d \in Tree /\ Upto(d.path, path) /\ Len(d.path) = L /\ d.path \in Path
    BY <1>3, <1>5, <2>2, <2>3, <2>4
  <2>6. d.path = n.path
    BY <1>3, <2>5, UptoOrder
  <2> QED
    BY <1>2, <1>3, <2>4, <2>5, <2>6 DEF TreeOrder
<1> QED
  BY <1>1, <1>3, <1>4, <1>5, <1>6

(* The new nodes hang below the node that whoever inserts a path has write- *)
(* locked: the last one there is on the way to the path.                    *)
LEMMA InsertStep ==
  ASSUME IInv, NEW p \in Proc, Insert(p)
  PROVE  IInv'
<1> DEFINE path == call[p].path
           n    == call[p].at
           new  == [i \in Missing(path) |-> CHOOSE x \in Garbage(SubSeq(path, 1, i)) : TRUE]
           New  == {new[i] : i \in Missing(path)}
<1>1. /\ call' = call /\ call[p].pc = "held" /\ call[p].op = "write" /\ ~ InTree(path)
      /\ \A i \in Missing(path) : Garbage(SubSeq(path, 1, i)) # {}
      /\ call[p].pc # "idle" /\ Writing(call[p])
  BY DEF Insert, MayInsert, Writing
<1>2. /\ Kids /\ OneKey /\ TreeIsLeast /\ TreeOrder
  BY TreeShape, TreePaths DEF IInv
<1>3. /\ n \in Tree /\ n \in Node /\ path \in Path /\ n.path \in Path
      /\ Upto(n.path, path) /\ n.path # path
      /\ Child(n, path) = {} /\ Deepest(path) = n
  BY <1>1, Inserting DEF MayInsert
<1>4. PICK L \in Nat, M \in Nat : L = Len(n.path) /\ M = Len(path) /\ L < M
  BY <1>1, Inserting DEF MayInsert
<1>5. ASSUME NEW k \in Tree, Upto(k.path, path)
      PROVE  Len(k.path) <= L /\ k.path \in Path /\ Len(k.path) \in Nat
  <2>1. k.path \in Path /\ Len(k.path) \in Nat
    BY <1>2, Nodes DEF TreeIsLeast
  <2> QED
    BY <1>1, <1>4, <1>5, <2>1, Inserting DEF MayInsert
<1>6. \A i \in 0 .. M : /\ SubSeq(path, 1, i) \in Path /\ Len(SubSeq(path, 1, i)) = i
                       /\ Upto(SubSeq(path, 1, i), path)
  <2>1. ASSUME NEW i \in 0 .. M
        PROVE  SubSeq(path, 1, i) \in Path /\ Len(SubSeq(path, 1, i)) = i /\ i <= M
    BY <1>3, <1>4, Cut
  <2> QED
    BY <1>4, <2>1 DEF Upto
<1>7. Missing(path) = L + 1 .. M
  BY <1>3, <1>4 DEF Missing
<1>7a. L < M /\ \A i : i \in Missing(path) <=> i \in Nat /\ L < i /\ i <= M
  <2>1. L < M
    BY <1>4
  <2> QED
    BY <1>7, <2>1
<1>8. ASSUME NEW i \in Missing(path)
      PROVE  /\ new[i] \in Node /\ new[i].path = SubSeq(path, 1, i)
             /\ new[i].path \in Path /\ Len(new[i].path) = i /\ Upto(new[i].path, path)
             /\ i \in Nat /\ L < i /\ i <= M
             /\ new[i] \notin Tree
             /\ new[i].path # path <=> i + 1 \in Missing(path)
  <2>1. new[i] \in Garbage(SubSeq(path, 1, i))
    BY <1>1
  <2>2. new[i] \in Node /\ new[i].path = SubSeq(path, 1, i)
    BY <2>1 DEF Garbage
  <2>3. i \in Nat /\ L < i /\ i <= M /\ i \in 0 .. M
    BY <1>7a
  <2>4. new[i].path \in Path /\ Len(new[i].path) = i
    BY <1>6, <2>2, <2>3
  <2>5. Upto(new[i].path, path)
    BY <1>6, <2>2, <2>3
  <2>6. new[i] \notin Tree
    BY <1>4, <1>5, <2>3, <2>4, <2>5
  <2>7. new[i].path # path <=> i < M
    BY <1>3, <1>4, <2>3, <2>4, <2>5, UptoOrder
  <2>8. i < M <=> i + 1 \in Missing(path)
    BY <1>7a, <2>3
  <2> QED
    BY <2>2, <2>3, <2>4, <2>5, <2>6, <2>7, <2>8
<1>9. children' = [x \in Node |->
          IF x = n THEN children[n] \cup {new[i] : i \in {j \in Missing(path) :
                                                  \A k \in Missing(path) : j <= k}}
          ELSE IF \E i \in Missing(path) : x = new[i]
               THEN {new[i] : i \in Missing(path) \cap {Len(x.path) + 1}}
               ELSE children[x]]
  BY <1>3, <1>4 DEF Insert
<1>10. L + 1 \in Missing(path) /\ M \in Missing(path)
  BY <1>7a
<1> HIDE DEF new
<1>11. children'[n] = children[n] \cup {new[L + 1]}
  <2>1. {j \in Missing(path) : \A k \in Missing(path) : j <= k} = {L + 1}
    BY <1>7a
  <2> QED
    BY <1>3, <1>9, <2>1
<1>12. ASSUME NEW i \in Missing(path)
       PROVE  /\ i + 1 \in Missing(path) => children'[new[i]] = {new[i + 1]}
              /\ i + 1 \notin Missing(path) => children'[new[i]] = {}
  <2>1. new[i] \in Node /\ new[i] # n /\ Len(new[i].path) = i
    BY <1>3, <1>8
  <2>2. children'[new[i]] = {new[j] : j \in Missing(path) \cap {i + 1}}
    BY <1>9, <2>1
  <2> QED
    BY <2>2
<1>13. ASSUME NEW x \in Node, x # n, x \notin New
       PROVE  children'[x] = children[x]
  BY <1>9, <1>13
<1>14. Kids'
  <2>1. \A i \in Missing(path) : new[i] \in Node
    BY <1>8
  <2>2. children' \in [Node -> SUBSET Node]
    <3>1. ASSUME NEW x \in Node
          PROVE  children'[x] \in SUBSET Node
      <4>1. CASE x = n
        BY <1>2, <1>3, <1>10, <1>11, <2>1, <4>1 DEF Kids
      <4>2. ASSUME NEW i \in Missing(path), x = new[i]
            PROVE  children'[x] \in SUBSET Node
        BY <1>12, <2>1, <4>2
      <4>3. CASE x # n /\ x \notin New
        BY <1>2, <1>13, <4>3 DEF Kids
      <4> QED
        BY <4>1, <4>2, <4>3
    <3> QED
      BY <1>9, <3>1
  <2>3. ASSUME NEW a \in Path, Upto(a, path), a # path
        PROVE  /\ SubSeq(path, 1, Len(a) + 1) # <<>>
               /\ Seqs!Front(SubSeq(path, 1, Len(a) + 1)) = a
    BY <1>3, <2>3, Steps
  <2>4. ASSUME NEW x \in Node, NEW m \in children'[x]
        PROVE  m.path # <<>> /\ Seqs!Front(m.path) = x.path
    <3>1. CASE x = n
      <4>1. CASE m \in children[n]
        BY <1>2, <1>3, <3>1, <4>1 DEF Kids
      <4>2. CASE m = new[L + 1]
        BY <1>3, <1>4, <1>8, <1>10, <2>3, <3>1, <4>2
      <4> QED
        BY <1>11, <2>4, <3>1, <4>1, <4>2
    <3>2. CASE x \in New
      <4>1. PICK i \in Missing(path) : x = new[i]
        BY <3>2
      <4>2. i + 1 \in Missing(path) /\ m = new[i + 1]
        BY <1>12, <2>4, <4>1
      <4>3. /\ x.path \in Path /\ Upto(x.path, path) /\ x.path # path /\ Len(x.path) = i
            /\ m.path = SubSeq(path, 1, i + 1)
        BY <1>8, <4>1, <4>2
      <4> QED
        BY <2>3, <4>3
    <3>3. CASE x # n /\ x \notin New
      BY <1>2, <1>13, <2>4, <3>3 DEF Kids
    <3> QED
      BY <3>1, <3>2, <3>3
  <2> QED
    BY <2>2, <2>4 DEF Kids
<1>15. TreeIsLeast'
  BY <1>14, TreeShapeNext
<1>16. \A x \in Tree : x \in Node /\ x \notin New /\ children[x] \subseteq children'[x]
  <2>1. ASSUME NEW x \in Tree
        PROVE  x \in Node /\ x \notin New
    BY <1>2, <1>8 DEF TreeIsLeast
  <2> QED
    BY <1>11, <1>13, <2>1
<1>17. Tree \subseteq Tree'
  <2> DEFINE S == {x \in Tree : x \in Tree'}
  <2>1. S \in SUBSET Node /\ Root \in S
    BY <1>2, <1>15 DEF TreeIsLeast
  <2>2. \A x \in S : children[x] \subseteq S
    BY <1>2, <1>15, <1>16 DEF TreeIsLeast
  <2>3. Tree \subseteq S
    BY <1>2, <2>1, <2>2 DEF TreeIsLeast
  <2> QED
    BY <2>3
<1>18. Tree' \subseteq Tree \cup New
  <2> DEFINE S == Tree \cup New
  <2>1. S \in SUBSET Node /\ Root \in S
    BY <1>2, <1>8 DEF TreeIsLeast
  <2>2. ASSUME NEW x \in S
        PROVE  children'[x] \subseteq S
    <3>1. CASE x = n
      BY <1>2, <1>3, <1>10, <1>11, <3>1 DEF TreeIsLeast
    <3>2. ASSUME NEW i \in Missing(path), x = new[i]
          PROVE  children'[x] \subseteq S
      BY <1>12, <3>2
    <3>3. CASE x # n /\ x \notin New
      BY <1>2, <1>13, <2>1, <3>3 DEF TreeIsLeast
    <3> QED
      BY <3>1, <3>2, <3>3
  <2> HIDE DEF S
  <2>3. Tree' \subseteq S
    BY <1>15, <2>1, <2>2 DEF TreeIsLeast
  <2> QED
    BY <2>3 DEF S
<1>19. new[M] \in Tree'
  <2> DEFINE T == {d \in Nat : (L + 1) + d <= M => new[(L + 1) + d] \in Tree'}
  <2>1. 0 \in T
    <3>1. new[L + 1] \in Tree'
      BY <1>3, <1>11, <1>15, <1>17 DEF TreeIsLeast
    <3>2. (L + 1) + 0 = L + 1
      BY <1>4
    <3> QED
      BY <3>1, <3>2
  <2>2. ASSUME NEW d \in Nat, d \in T
        PROVE  d + 1 \in T
    <3> SUFFICES ASSUME (L + 1) + (d + 1) <= M
                 PROVE  new[(L + 1) + (d + 1)] \in Tree'
      OBVIOUS
    <3>1. PICK i \in Missing(path) : i = (L + 1) + d
      BY <1>7a
    <3>2. (L + 1) + (d + 1) = i + 1 /\ i <= M /\ i + 1 \in Missing(path)
      BY <1>7a, <3>1
    <3>3. new[i] \in Tree'
      BY <2>2, <3>1, <3>2
    <3>4. new[i + 1] \in children'[new[i]]
      BY <1>12, <3>2
    <3>5. new[i + 1] \in Tree'
      BY <1>15, <3>3, <3>4 DEF TreeIsLeast
    <3> QED
      BY <3>2, <3>5
  <2> HIDE DEF T
  <2>3. Nat \subseteq T
    BY <2>1, <2>2, SetInduction
  <2>4. PICK d \in Nat : (L + 1) + d = M
    <3>1. M - (L + 1) \in Nat /\ (L + 1) + (M - (L + 1)) = M
      BY <1>7a
    <3> QED
      BY <3>1
  <2>5. d \in T /\ (L + 1) + d <= M
    BY <1>4, <2>3, <2>4
  <2> QED
    BY <2>4, <2>5 DEF T
<1>20. OneKey'
  <2> SUFFICES ASSUME NEW x \in Tree', NEW m \in children'[x], NEW k \in children'[x],
                      m.path = k.path
               PROVE  m = k
    BY DEF OneKey
  <2>1. CASE x = n
    <3>1. new[L + 1].path = SubSeq(path, 1, L + 1)
      BY <1>8, <1>10
    <3>2. \A l \in children[n] : l.path # new[L + 1].path
      BY <1>3, <1>4, <3>1 DEF Child
    <3> QED
      BY <1>2, <1>3, <1>11, <2>1, <3>2 DEF OneKey
  <2>2. ASSUME NEW i \in Missing(path), x = new[i]
        PROVE  m = k
    BY <1>12, <2>2
  <2>3. CASE x # n /\ x \notin New
    <3>1. x \in Tree /\ x \in Node
      BY <1>2, <1>18, <2>3 DEF TreeIsLeast
    <3>2. children'[x] = children[x]
      BY <1>13, <2>3, <3>1
    <3> QED
      BY <1>2, <3>1, <3>2 DEF OneKey
  <2> QED
    BY <2>1, <2>2, <2>3
<1>21. ASSUME NEW q \in Proc, call[q].pc # "idle"
       PROVE  /\ call[q].at \in Tree'
              /\ {m \in Tree' : Upto(m.path, call[q].at.path) /\ m.path # call[q].at.path} =
                    Above(call[q].at)
  <2>1. call[q].at \in Tree /\ call[q].at.path \in Path
    BY <1>21, Busy
  <2>2. ASSUME NEW m \in New
        PROVE  ~ Upto(m.path, call[q].at.path)
    <3> SUFFICES ASSUME Upto(m.path, call[q].at.path)
                 PROVE  FALSE
      OBVIOUS
    <3>1. PICK i \in Missing(path) : m = new[i]
      BY <2>2
    <3>2. m.path \in Path /\ Upto(m.path, path) /\ L < Len(m.path)
      BY <1>8, <3>1
    <3>3. PICK k \in Tree : k.path = m.path
      BY <1>2, <2>1, <3>2 DEF TreeOrder
    <3>4. Len(k.path) <= L /\ Len(k.path) \in Nat
      BY <1>5, <3>2, <3>3
    <3> QED
      BY <1>4, <3>2, <3>3, <3>4
  <2> QED
    BY <1>17, <1>18, <2>1, <2>2 DEF Above
<1>22. ASSUME NEW q \in Proc, call[q].pc = "held"
       PROVE  \/ call[q].at.path = call[q].path
              \/ Child(call[q].at, call[q].path)' = {}
              \/ call[q].op = "write" /\ InTree(call[q].path)'
  <2>1. CASE q = p
    <3>1. new[M].path = path
      BY <1>3, <1>4, <1>8, <1>10, UptoOrder
    <3>2. InTree(call[q].path)'
      BY <1>1, <1>19, <2>1, <3>1 DEF InTree
    <3> QED
      BY <1>1, <2>1, <3>2
  <2>2. CASE q # p
    <3>1. /\ call[q].pc # "idle" /\ call[q].at \in Tree /\ call[q].at \in Node
          /\ call[q] \in CallType /\ LocksInv(call[q]) /\ ArrivedInv(call[q])
      <4>1. call[q].pc # "idle"
        BY <1>22
      <4> QED
        BY <4>1, Busy
    <3>2. call[q].at \in call[q].reads \cup call[q].writes
      <4>1. Reading(call[q]) \/ Writing(call[q])
        BY <1>22, <3>1 DEF Reading, Writing, CallType
      <4> QED
        BY <3>1, <4>1 DEF LocksInv
    <3>3. call[q].at # n
      BY <1>1, <2>2, <3>2, NotPassed
    <3>4. children'[call[q].at] = children[call[q].at]
      BY <1>13, <1>16, <3>1, <3>3
    <3>5. Child(call[q].at, call[q].path) = {} => Child(call[q].at, call[q].path)' = {}
      BY <1>1, <3>4 DEF Child
    <3>6. InTree(call[q].path) => InTree(call[q].path)'
      BY <1>1, <1>17 DEF InTree
    <3> QED
      BY <1>22, <3>1, <3>5, <3>6 DEF ArrivedInv
  <2> QED
    BY <2>1, <2>2
<1> QED
  BY <1>1, <1>14, <1>20, <1>21, <1>22, OneTree

-----------------------------------------------------------------------------
(* In the beginning nobody has called and the tree is its root.             *)
LEMMA InvariantInit == Init => IInv
<1> SUFFICES ASSUME Init
             PROVE  IInv
  OBVIOUS
<1>1. Idle \in CallType /\ Idle.pc = "idle" /\ Idle.reads = {} /\ Idle.writes = {}
  BY Nodes, PathAssumption DEF Idle, CallType
<1>2. /\ call \in [Proc -> CallType] /\ \A p \in Proc : call[p] = Idle
      /\ children \in [Node -> SUBSET Node] /\ \A n \in Node : children[n] = {}
  BY <1>1 DEF Init
<1>3. Kids
  BY <1>2 DEF Kids
<1>4. OneKey
  BY <1>2, <1>3, TreeShape DEF OneKey, TreeIsLeast
<1>5. CallInv /\ Mutex
  BY <1>1, <1>2 DEF CallInv, Mutex
<1> QED
  BY <1>2, <1>3, <1>4, <1>5 DEF IInv

(* Every step keeps the invariant, if whoever removes a path has locked its *)
(* parent.                                                                  *)
LEMMA InvariantNext == IInv /\ [Next]_vars /\ RemoveUnder = "parent" => IInv'
<1> SUFFICES ASSUME IInv, [Next]_vars, RemoveUnder = "parent"
             PROVE  IInv'
  OBVIOUS
<1>1. ASSUME NEW p \in Proc, Insert(p)
      PROVE  IInv'
  BY <1>1, InsertStep
<1>2. ASSUME NEW p \in Proc, Remove(p)
      PROVE  IInv'
  BY <1>2, RemoveStep
<1>3. ASSUME NEW p \in Proc,
             \/ \E op \in {"read", "write"}, path \in Path : Call(p, op, path)
             \/ EnterInner(p) \/ EnterLeaf(p)
             \/ LookupFound(p) \/ LookupAbsent(p) \/ Upgrade(p) \/ Confirm(p)
             \/ Expire(p) \/ Release(p)
      PROVE  IInv'
  BY <1>3, CallSteps
<1>4. CASE UNCHANGED vars
  <2>1. call' = call /\ children' = children
    BY <1>4 DEF vars
  <2>2. Tree' = Tree /\ Kids' /\ OneKey'
    BY <2>1, SameTree DEF IInv
  <2>3. CallInv'
    BY <2>1, <2>2 DEF IInv, CallInv, LocksInv, ArrivedInv, Above, Child, InTree
  <2> QED
    BY <2>1, <2>2, <2>3 DEF IInv, Mutex
<1> QED
  BY <1>1, <1>2, <1>3, <1>4 DEF Next

-----------------------------------------------------------------------------
(* The maps that a call may change are at the node it has write-locked or   *)
(* at its path; the maps it may look at are on its way.                     *)
LEMMA Changing ==
  ASSUME IInv, RemoveUnder = "parent", NEW p \in Proc, NEW x \in Changes(p)
  PROVE  /\ call[p].pc = "held" /\ call[p].op = "write"
         /\ x \in Tree /\ x.path \in Path
         /\ Upto(call[p].at.path, x.path) /\ Upto(x.path, call[p].path)
<1>1. Kids /\ TreeIsLeast
  BY TreeShape DEF IInv
<1>2. CASE MayInsert(p) /\ x = Deepest(call[p].path)
  <2>1. /\ x = call[p].at /\ call[p].at \in Tree /\ call[p].at.path \in Path
        /\ Upto(call[p].at.path, call[p].path)
    BY <1>2, Inserting
  <2> QED
    BY <1>2, <2>1, UptoOrder DEF MayInsert
<1>3. ASSUME x \in Tree, NEW n \in children[x] \cap Removable(p)
      PROVE  /\ call[p].pc = "held" /\ call[p].op = "write" /\ x.path = call[p].path
  <2>1. call[p].pc = "held" /\ call[p].op = "write" /\ Seqs!Front(n.path) = call[p].path
    BY <1>3 DEF Removable
  <2>2. Seqs!Front(n.path) = x.path
    BY <1>1, <1>3 DEF Kids, TreeIsLeast
  <2> QED
    BY <2>1, <2>2
<1>4. CASE x \in Tree /\ children[x] \cap Removable(p) # {}
  <2>1. /\ call[p].pc = "held" /\ call[p].op = "write" /\ x.path = call[p].path
    BY <1>3, <1>4
  <2>2. call[p].path \in Path /\ Upto(call[p].at.path, call[p].path)
    <3>1. call[p].pc # "idle"
      BY <2>1
    <3> QED
      BY <3>1, Busy
  <2> QED
    BY <1>4, <2>1, <2>2, UptoOrder
<1> QED
  BY <1>2, <1>4 DEF Changes

(* Who looks at a map of children, or changes it, holds that node's mutex.  *)
LEMMA Looking ==
  ASSUME IInv, RemoveUnder = "parent", NEW q \in Proc, NEW x \in Looks(q) \cup Changes(q)
  PROVE  /\ call[q].pc # "idle" /\ call[q].path \in Path
         /\ x \in Tree /\ x.path \in Path /\ Upto(x.path, call[q].path)
         /\ Writing(call[q]) \/ (Reading(call[q]) /\ x = call[q].at)
<1>1. TreeIsLeast
  BY TreeShape DEF IInv
<1>2. CASE call[q].pc \in {"lookup", "confirm"} /\ x = call[q].at
  <2>1. call[q].pc # "idle"
    BY <1>2
  <2> QED
    BY <1>2, <2>1, Busy DEF Reading, Writing
<1>3. CASE call[q].pc = "held" /\ call[q].op = "write" /\ x \in Walk(call[q].path)
  <2>1. call[q].pc # "idle" /\ Writing(call[q])
    BY <1>3 DEF Writing
  <2>2. x \in Tree /\ x \in Node /\ Seqs!IsPrefix(x.path, call[q].path)
    BY <1>1, <1>3 DEF Walk, TreeIsLeast
  <2>3. call[q].path \in Path
    BY <2>1, Busy
  <2>4. Upto(x.path, call[q].path)
    BY <2>2, <2>3, PrefixIsUpto
  <2> QED
    BY <2>1, <2>2, <2>3, <2>4, Nodes
<1>4. CASE x \in Changes(q)
  <2>1. /\ call[q].pc = "held" /\ call[q].op = "write"
        /\ x \in Tree /\ x.path \in Path /\ Upto(x.path, call[q].path)
    BY <1>4, Changing
  <2>2. call[q].pc # "idle" /\ Writing(call[q])
    BY <2>1 DEF Writing
  <2> QED
    BY <2>1, <2>2, Busy
<1>5. x \in Looks(q) => \/ call[q].pc \in {"lookup", "confirm"} /\ x = call[q].at
                        \/ call[q].pc = "held" /\ call[q].op = "write" /\ x \in Walk(call[q].path)
  BY DEF Looks
<1> QED
  BY <1>2, <1>3, <1>4, <1>5

(* So a map that changes is locked against everybody who may look at it.    *)
LEMMA NoRace == IInv /\ RemoveUnder = "parent" => NoRacingAccess
<1> SUFFICES ASSUME IInv, RemoveUnder = "parent", NEW p \in Proc, NEW q \in Proc, p # q,
                    NEW x \in Changes(p), x \in Looks(q) \cup Changes(q)
             PROVE  FALSE
  BY DEF NoRacingAccess
<1>1. /\ call[p].pc = "held" /\ call[p].op = "write"
      /\ x \in Tree /\ x.path \in Path /\ Upto(call[p].at.path, x.path)
  BY Changing
<1>2. /\ call[q].pc # "idle" /\ call[q].path \in Path /\ Upto(x.path, call[q].path)
      /\ Writing(call[q]) \/ (Reading(call[q]) /\ x = call[q].at)
  BY Looking
<1>3. /\ call[p].pc # "idle" /\ Writing(call[p])
  BY <1>1 DEF Writing
<1>4. /\ call[p].at.path \in Path /\ Len(call[p].at.path) \in Nat
      /\ call[q].at.path \in Path /\ Len(call[q].at.path) \in Nat
      /\ Upto(call[q].at.path, call[q].path)
  BY <1>2, <1>3, Busy
<1>5. Upto(call[p].at.path, call[q].path)
  BY <1>1, <1>2, <1>4, UptoOrder
<1>6. call[p].at \notin call[q].reads \cup call[q].writes
  BY <1>3, NotPassed
<1>7. call[q].at \in call[q].reads \cup call[q].writes
  BY <1>2, Busy DEF LocksInv
<1>8. ~ (Len(call[p].at.path) <= Len(call[q].at.path))
  BY <1>2, <1>3, <1>4, <1>5, <1>6, <1>7, Passing
<1>9. call[q].at \in call[p].reads
  <2>1. Len(call[q].at.path) <= Len(call[p].at.path) /\ call[p].at # call[q].at
    BY <1>4, <1>8
  <2> QED
    BY <1>2, <1>3, <1>4, <1>5, <2>1, Passing
<1>10. ~ Writing(call[q])
  BY <1>2, <1>9, NotPassed
<1>11. Upto(call[p].at.path, call[q].at.path)
  BY <1>1, <1>2, <1>10
<1> QED
  BY <1>8, <1>11 DEF Upto

-----------------------------------------------------------------------------
(* No two callers that hold their paths are in conflict.                    *)
LEMMA HoldsExclude == IInv => Abstract!Exclusion
<1> SUFFICES ASSUME IInv, NEW p \in Proc, NEW q \in Proc, p # q,
                    Holds[p] # Unlocked, Holds[q] # Unlocked
             PROVE  ~ Abstract!Covers(Holds[p], Holds[q]) /\ ~ Abstract!Covers(Holds[q], Holds[p])
  BY DEF Abstract!Exclusion, Abstract!Conflict
<1>1. ASSUME NEW r \in Proc, Holds[r] # Unlocked
      PROVE  call[r].pc = "held" /\ Holds[r] = [op |-> call[r].op, path |-> call[r].path]
  BY <1>1 DEF Holds
<1>2. ASSUME NEW r \in Proc, NEW s \in Proc, r # s,
             call[r].pc = "held", call[s].pc = "held",
             Abstract!Covers([op |-> call[r].op, path |-> call[r].path],
                             [op |-> call[s].op, path |-> call[s].path])
      PROVE  FALSE
  <2>1. /\ call[r].op = "write"
        /\ Len(call[r].path) <= Len(call[s].path)
        /\ \A i \in 1 .. Len(call[r].path) : call[r].path[i] = call[s].path[i]
    BY <1>2 DEF Abstract!Covers
  <2>2. call[r].path \in Path /\ call[s].path \in Path
    <3>1. call[r].pc # "idle" /\ call[s].pc # "idle"
      BY <1>2
    <3> QED
      BY <3>1, Busy
  <2>3. Upto(call[r].path, call[s].path)
    BY <2>1, <2>2, UptoMembers
  <2> QED
    BY <1>2, <2>1, <2>3, Excluded
<1> QED
  BY <1>1, <1>2

(* The same after a step.                                                   *)
LEMMA HoldsExcludeNext == IInv' => Abstract!Exclusion'
BY HoldsExclude, PTL

(* A step of one call is one of the lock of paths, or none, if it does not  *)
(* go from one lock that is held to another.                                *)
LEMMA OneHold ==
  ASSUME IInv, IInv', NEW p \in Proc, \A q \in Proc \ {p} : call'[q] = call[q],
         ~ (call[p].pc = "held" /\ call'[p].pc = "held")
  PROVE  [Abstract!Next]_Holds
<1>1. \A q \in Proc \ {p} : Holds'[q] = Holds[q]
  BY DEF Holds
<1>2. /\ Holds = [q \in Proc |-> Holds[q]] /\ Holds' = [q \in Proc |-> Holds'[q]]
  BY DEF Holds
<1>3. ASSUME NEW q \in Proc
      PROVE  /\ call[q].pc = "held" <=> Holds[q] # Unlocked
             /\ call'[q].pc = "held" <=> Holds'[q] # Unlocked
             /\ Holds'[q] # Unlocked => Holds'[q] \in Abstract!Hold
  <2>1. \A c \in CallType : /\ [op |-> c.op, path |-> c.path] # Unlocked
                            /\ [op |-> c.op, path |-> c.path] \in Abstract!Hold
    BY DEF CallType, Unlocked, Abstract!Hold
  <2>2. call[q] \in CallType /\ call'[q] \in CallType
    BY DEF IInv
  <2> QED
    BY <2>1, <2>2 DEF Holds
<1> HIDE DEF Holds
<1>4. CASE call[p].pc # "held" /\ call'[p].pc # "held"
  <2>1. Holds'[p] = Holds[p]
    BY <1>3, <1>4
  <2> QED
    BY <1>1, <1>2, <2>1
<1>5. CASE call[p].pc = "held"
  <2>1. Holds[p] # Unlocked /\ Holds'[p] = Unlocked
    BY <1>3, <1>5
  <2>2. Holds' = [Holds EXCEPT ![p] = Unlocked]
    BY <1>1, <1>2, <2>1
  <2> QED
    BY <2>1, <2>2 DEF Abstract!Next, Abstract!Release
<1>6. CASE call'[p].pc = "held"
  <2>1. Holds[p] = Unlocked /\ Holds'[p] # Unlocked /\ Holds'[p] \in Abstract!Hold
    BY <1>3, <1>6
  <2>2. Holds' = [Holds EXCEPT ![p] = Holds'[p]]
    BY <1>1, <1>2, <2>1
  <2>3. ASSUME NEW q \in Proc, Holds[q] # Unlocked
        PROVE  ~ Abstract!Conflict(Holds'[p], Holds[q])
    <3>1. q # p /\ Holds'[q] = Holds[q]
      BY <1>1, <2>1, <2>3
    <3>2. Abstract!Exclusion'
      BY HoldsExcludeNext
    <3> QED
      BY <2>1, <2>3, <3>1, <3>2 DEF Abstract!Exclusion
  <2>4. Abstract!Acquire(p, Holds'[p])
    BY <2>1, <2>2, <2>3 DEF Abstract!Acquire
  <2> QED
    BY <2>1, <2>4 DEF Abstract!Next
<1> QED
  BY <1>4, <1>5, <1>6

(* Every step of the tree is one of the lock of paths, or none.             *)
LEMMA StepHolds == IInv /\ IInv' /\ [Next]_vars => [Abstract!Next]_Holds
<1> SUFFICES ASSUME IInv, IInv', [Next]_vars
             PROVE  [Abstract!Next]_Holds
  OBVIOUS
<1>0. call \in [Proc -> CallType]
  BY DEF IInv
<1>1. ASSUME NEW p \in Proc,
             \/ \E op \in {"read", "write"}, path \in Path : Call(p, op, path)
             \/ EnterInner(p) \/ EnterLeaf(p)
             \/ LookupFound(p) \/ LookupAbsent(p) \/ Upgrade(p) \/ Confirm(p)
             \/ Expire(p) \/ Release(p)
      PROVE  [Abstract!Next]_Holds
  <2>1. \A q \in Proc \ {p} : call'[q] = call[q]
    BY <1>0, <1>1 DEF Call, EnterInner, EnterLeaf, LookupFound, LookupAbsent, Upgrade,
                      Confirm, Expire, Release
  <2>2. ~ (call[p].pc = "held" /\ call'[p].pc = "held")
    <3> SUFFICES ASSUME call[p].pc = "held"
                 PROVE  call'[p].pc # "held"
      OBVIOUS
    <3>1. ASSUME NEW op, NEW path, Call(p, op, path)
          PROVE  FALSE
      BY <3>1 DEF Call, Idle
    <3>2. ~ (EnterInner(p) \/ EnterLeaf(p) \/ Upgrade(p) \/ Confirm(p))
      BY DEF EnterInner, EnterLeaf, Upgrade, Confirm
    <3>3. ~ (LookupFound(p) \/ LookupAbsent(p) \/ Expire(p))
      BY DEF LookupFound, LookupAbsent, Expire
    <3>4. Release(p)
      BY <1>1, <3>1, <3>2, <3>3
    <3>5. call' = [call EXCEPT ![p] = Idle]
      BY <3>4 DEF Release
    <3> QED
      BY <1>0, <3>5 DEF Idle
  <2> QED
    BY <2>1, <2>2, OneHold
<1>2. CASE call' = call
  BY <1>2 DEF Holds
<1>3. \A p \in Proc : Insert(p) \/ Remove(p) => call' = call
  BY DEF Insert, Remove
<1> QED
  BY <1>1, <1>2, <1>3 DEF Next, vars

(* So is the beginning.                                                     *)
LEMMA InitHolds == Init => Abstract!Init
BY DEF Init, Abstract!Init, Holds, Idle, Unlocked

-----------------------------------------------------------------------------
(* The nodes, the paths and the locks of every call, in every state: with a *)
(* removal under the lock of the parent (locking/locknode.go:148).          *)
THEOREM LockInvariant == RemoveUnder = "parent" => (Spec => []IInv)
<1> SUFFICES ASSUME RemoveUnder = "parent"
             PROVE  Spec => []IInv
  OBVIOUS
<1> QED
  BY InvariantInit, InvariantNext, PTL DEF Spec

(* No map of children is read or changed while another call changes it.     *)
(* The hypothesis is needed: whoever removes a path and has locked no more  *)
(* than the path changes the map of its parent while others look at it.     *)
THEOREM NoRacingAccessHolds == RemoveUnder = "parent" => (Spec => []NoRacingAccess)
<1> SUFFICES ASSUME RemoveUnder = "parent"
             PROVE  Spec => []NoRacingAccess
  OBVIOUS
<1> QED
  BY LockInvariant, NoRace, PTL

(* However many callers wait, one of them does not wait for another.        *)
THEOREM NoCircularWaitHolds == RemoveUnder = "parent" => (Spec => []NoCircularWait)
<1> SUFFICES ASSUME RemoveUnder = "parent"
             PROVE  Spec => []NoCircularWait
  OBVIOUS
<1> QED
  BY LockInvariant, NoCircle, PTL

(* Two callers that have returned from Lock and RLock, one of them with a   *)
(* write lock, have not locked paths of which one is at or below the other. *)
THEOREM ExclusionHolds == RemoveUnder = "parent" => (Spec => []Abstract!Exclusion)
<1> SUFFICES ASSUME RemoveUnder = "parent"
             PROVE  Spec => []Abstract!Exclusion
  OBVIOUS
<1> QED
  BY LockInvariant, HoldsExclude, PTL

(* The tree of mutexes is a lock of paths.                                  *)
THEOREM ImplementsPathLockHolds == RemoveUnder = "parent" => (Spec => ImplementsPathLock)
<1> SUFFICES ASSUME RemoveUnder = "parent"
             PROVE  Spec => ImplementsPathLock
  OBVIOUS
<1>1. Spec => Abstract!Init
  BY InitHolds DEF Spec
<1>2. Spec => [][Abstract!Next]_Holds
  BY LockInvariant, StepHolds, PTL DEF Spec
<1> QED
  BY <1>1, <1>2 DEF ImplementsPathLock, Abstract!Spec
=============================================================================
