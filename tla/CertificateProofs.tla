-------------------------- MODULE CertificateProofs --------------------------
(***************************************************************************)
(* Proofs about SparseMerkle, SortedMerkle and Certificate, for any finite *)
(* set of subject_refs, any depth and any length of a batch.               *)
(*                                                                         *)
(* Hash chains, subtrees, halvings and slices of a list are recursive      *)
(* functions; that each of them exists, and what it computes, is shown by  *)
(* looking at a least or a greatest depth, or a shortest slice, where it   *)
(* does not.                                                               *)
(***************************************************************************)
EXTENDS Certificate, FiniteSetTheorems, SequenceTheorems, TLAPS

-----------------------------------------------------------------------------
(* Least and greatest depths *)

\* A nonempty family of subsets of a finite set has a smallest member.
LEMMA SmallestOf ==
  ASSUME NEW S, IsFiniteSet(S), NEW F \in SUBSET SUBSET S, F # {}
  PROVE  \E X \in F : \A Y \in F : Y \subseteq X => Y = X
<1>1. IsWellFoundedOn(StrictSubsetOrdering(S), SUBSET S)
  BY FS_StrictSubsetOrderingWellFounded, FS_FiniteSubsetsOfFinite
<1>2. PICK X \in F : \A Y \in F : ~(<<Y, X>> \in StrictSubsetOrdering(S))
  BY <1>1, WFMin
<1> QED
  BY <1>2 DEF StrictSubsetOrdering

\* A nonempty set of numbers up to n has a least member.
LEMMA LeastOf ==
  ASSUME NEW n \in Nat, NEW F \in SUBSET (0 .. n), F # {}
  PROVE  \E m \in F : \A i \in F : m <= i
<1> DEFINE G == {0 .. m : m \in F}
           I == 0 .. n
<1>1. IsFiniteSet(I)
  BY FS_Interval
<1>2. G # {}
  OBVIOUS
<1>2a. ASSUME NEW X \in G PROVE X \subseteq I
  <2>1. PICK m \in F : X = 0 .. m
    OBVIOUS
  <2> QED
    BY <2>1
<1>3. PICK X \in G : \A Y \in G : Y \subseteq X => Y = X
  <2> HIDE DEF G, I
  <2>1. G \in SUBSET SUBSET I
    BY <1>2a
  <2> QED
    BY <1>1, <1>2, <2>1, SmallestOf
<1>4. PICK m \in F : X = 0 .. m
  BY <1>3
<1>5. ASSUME NEW i \in F PROVE m <= i
  <2>1. 0 .. i \subseteq 0 .. m => 0 .. i = 0 .. m
    BY <1>3, <1>4
  <2>2. i < m => 0 .. i \subseteq 0 .. m /\ m \in 0 .. m /\ m \notin 0 .. i
    OBVIOUS
  <2> QED
    BY <2>1, <2>2
<1> QED
  BY <1>5

LEMMA GreatestOf ==
  ASSUME NEW n \in Nat, NEW F \in SUBSET (0 .. n), F # {}
  PROVE  \E m \in F : \A i \in F : i <= m
<1> DEFINE G == {n - i : i \in F}
<1>1. G \in SUBSET (0 .. n) /\ G # {}
  <2>1. \A i \in F : n - i \in 0 .. n
    OBVIOUS
  <2>2. G # {}
    OBVIOUS
  <2> QED
    BY <2>1, <2>2
<1>2. PICK g \in G : \A i \in G : g <= i
  <2> HIDE DEF G
  <2> QED
    BY <1>1, LeastOf
<1>3. PICK m \in F : g = n - m
  BY <1>2
<1>4. ASSUME NEW i \in F PROVE i <= m
  BY <1>2, <1>3
<1> QED
  BY <1>4

-----------------------------------------------------------------------------
(* Hashes *)

\* A hash of a node at depth d.
IsHash(h, d) ==
  \/ h = Default(d)
  \/ \E k \in Refs : h = Single(k, d)
  \/ \E l, r : h = <<"node", d, l, r>>

LEMMA HashParts ==
  ASSUME NEW d, NEW k, NEW l, NEW r
  PROVE  /\ Default(d)[1] = "default" /\ Default(d)[2] = d
         /\ Single(k, d)[1] = "single" /\ Single(k, d)[2] = d /\ Single(k, d)[3] = k
         /\ <<"node", d, l, r>>[1] = "node" /\ <<"node", d, l, r>>[2] = d
         /\ <<"node", d, l, r>>[3] = l /\ <<"node", d, l, r>>[4] = r
BY DEF Default, Single

LEMMA NodeOfDefaults ==
  ASSUME NEW d \in Int
  PROVE  Node(Default(d + 1), Default(d + 1)) = Default(d)
BY HashParts DEF Node

LEMMA NodeOfSingle ==
  ASSUME NEW d \in Int, NEW k, Bit(k, d) \in {0, 1}
  PROVE  /\ Bit(k, d) = 0 => Node(Single(k, d + 1), Default(d + 1)) = Single(k, d)
         /\ Bit(k, d) = 1 => Node(Default(d + 1), Single(k, d + 1)) = Single(k, d)
BY HashParts DEF Node

LEMMA NodeIsHash ==
  ASSUME NEW d \in Int, NEW a, NEW b, IsHash(a, d + 1), IsHash(b, d + 1)
  PROVE  IsHash(Node(a, b), d)
<1>1. a[2] = d + 1
  BY HashParts DEF IsHash
<1>2. \A k : a = Single(k, d + 1) => k = a[3]
  BY HashParts
<1>3. \A k : b = Single(k, d + 1) => k = b[3]
  BY HashParts
<1>4. a[1] = "single" => a[3] \in Refs
  BY HashParts DEF IsHash
<1>5. b[1] = "single" => b[3] \in Refs
  BY HashParts DEF IsHash
<1> QED
  BY <1>1, <1>4, <1>5 DEF Node, IsHash

\* A node's hash tells its children.
LEMMA NodeTellsChildren ==
  ASSUME NEW d \in Int, NEW a, NEW b, NEW p, NEW q,
         IsHash(a, d + 1), IsHash(b, d + 1), IsHash(p, d + 1), IsHash(q, d + 1),
         Node(a, b) = Node(p, q)
  PROVE  a = p /\ b = q
<1> DEFINE lone(x, y, bit) == x[1] = "single" /\ y[1] = "default" /\ Bit(x[3], d) = bit
           both(x, y) == x[1] = "default" /\ y[1] = "default"
           inner(x, y) == <<"node", d, x, y>>
<1>1. ASSUME NEW x, IsHash(x, d + 1)
      PROVE  /\ x[2] = d + 1
             /\ x[1] = "default" => x = Default(d + 1)
             /\ x[1] = "single" => x = Single(x[3], d + 1)
  BY <1>1, HashParts DEF IsHash
<1>2. ASSUME NEW x, NEW y, IsHash(x, d + 1), IsHash(y, d + 1)
      PROVE  /\ both(x, y) => Node(x, y) = Default(d)
             /\ lone(x, y, 0) => Node(x, y) = Single(x[3], d)
             /\ lone(y, x, 1) => Node(x, y) = Single(y[3], d)
  <2>1. x[2] - 1 = d
    BY <1>1, <1>2
  <2> QED
    BY <2>1 DEF Node
<1>o. ASSUME NEW x, NEW y, IsHash(x, d + 1), ~both(x, y), ~lone(x, y, 0), ~lone(y, x, 1)
      PROVE  Node(x, y) = inner(x, y)
  <2>1. x[2] - 1 = d
    BY <1>1, <1>o
  <2> QED
    BY <2>1, <1>o DEF Node
<1>3. ASSUME NEW k, NEW l
      PROVE  /\ Default(d) # Single(k, d)
             /\ Single(k, d) = Single(l, d) => k = l
  BY HashParts
<1>i. ASSUME NEW k, NEW x, NEW y
      PROVE  Default(d) # inner(x, y) /\ Single(k, d) # inner(x, y)
  BY HashParts
<1>j. ASSUME NEW x, NEW y, NEW v, NEW w, inner(x, y) = inner(v, w)
      PROVE  x = v /\ y = w
  BY <1>j, HashParts
<1> HIDE DEF lone, both, inner
<1>4. CASE both(a, b)
  <2>1. both(p, q)
    BY <1>2, <1>o, <1>3, <1>i, <1>4
  <2> QED
    BY <1>1, <1>4, <2>1 DEF both
<1>5. CASE lone(a, b, 0)
  <2>1. ~both(p, q) /\ (lone(p, q, 0) \/ lone(q, p, 1))
    BY <1>2, <1>o, <1>3, <1>i, <1>5
  <2>2. CASE lone(p, q, 0)
    <3>1. a[3] = p[3]
      BY <1>2, <1>3, <1>5, <2>2
    <3> QED
      BY <1>1, <1>5, <2>2, <3>1 DEF lone
  <2>3. CASE lone(q, p, 1)
    <3>1. a[3] = q[3]
      BY <1>2, <1>3, <1>5, <2>3
    <3> QED
      BY <1>5, <2>3, <3>1 DEF lone
  <2> QED
    BY <2>1, <2>2, <2>3
<1>6. CASE lone(b, a, 1)
  <2>1. ~both(p, q) /\ (lone(p, q, 0) \/ lone(q, p, 1))
    BY <1>2, <1>o, <1>3, <1>i, <1>6
  <2>2. CASE lone(q, p, 1)
    <3>1. b[3] = q[3]
      BY <1>2, <1>3, <1>6, <2>2
    <3> QED
      BY <1>1, <1>6, <2>2, <3>1 DEF lone
  <2>3. CASE lone(p, q, 0)
    <3>1. b[3] = p[3]
      BY <1>2, <1>3, <1>6, <2>3
    <3> QED
      BY <1>6, <2>3, <3>1 DEF lone
  <2> QED
    BY <2>1, <2>2, <2>3
<1>7. CASE ~both(a, b) /\ ~lone(a, b, 0) /\ ~lone(b, a, 1)
  <2>1. Node(a, b) = inner(a, b)
    BY <1>o, <1>7
  <2>2. ~both(p, q) /\ ~lone(p, q, 0) /\ ~lone(q, p, 1)
    <3>1. Default(d) # inner(a, b) /\ Single(p[3], d) # inner(a, b) /\ Single(q[3], d) # inner(a, b)
      BY <1>i
    <3> QED
      BY <1>2, <2>1, <3>1
  <2>3. Node(p, q) = inner(p, q)
    BY <1>o, <2>2
  <2> QED
    BY <1>j, <2>1, <2>3
<1> QED
  BY <1>4, <1>5, <1>6, <1>7

LEMMA DefaultsAreDefaults ==
  ASSUME NEW d \in 0 .. DEPTH
  PROVE  DEFAULTS[d] = Default(d)
<1>0. DEPTH \in Nat
  BY TreeBounds
<1> DEFINE next(f) == [e \in 0 .. DEPTH |-> IF e = DEPTH THEN EmptyLeaf
                                            ELSE Node(f[e + 1], f[e + 1])]
           W == [e \in 0 .. DEPTH |-> Default(e)]
<1>1. W = next(W)
  <2>1. ASSUME NEW e \in 0 .. DEPTH
        PROVE  Default(e) = IF e = DEPTH THEN EmptyLeaf ELSE Node(W[e + 1], W[e + 1])
    <3>1. e # DEPTH => W[e + 1] = Default(e + 1)
      BY <1>0
    <3>2. e \in Int
      BY <1>0
    <3> HIDE DEF W
    <3> QED
      BY <3>1, <3>2, NodeOfDefaults DEF EmptyLeaf
  <2> QED
    BY <2>1
<1>2. DEFAULTS = next(DEFAULTS)
  <2>1. DEFAULTS = CHOOSE f : f = next(f)
    BY DEF DEFAULTS
  <2> HIDE DEF W, next
  <2> QED
    BY <1>1, <2>1
<1>3. ASSUME NEW e \in 0 .. DEPTH
      PROVE  DEFAULTS[e] = IF e = DEPTH THEN EmptyLeaf ELSE Node(DEFAULTS[e + 1], DEFAULTS[e + 1])
  BY <1>2
<1> DEFINE F == {e \in 0 .. DEPTH : DEFAULTS[e] # Default(e)}
<1>4. F = {}
  <2> SUFFICES ASSUME F # {} PROVE FALSE
    OBVIOUS
  <2>1. PICK e \in F : \A i \in F : i <= e
    BY <1>0, GreatestOf
  <2>2. e # DEPTH
    BY <1>0, <1>3, <2>1 DEF EmptyLeaf
  <2>3. e + 1 \in 0 .. DEPTH /\ e + 1 \notin F
    BY <1>0, <2>1, <2>2
  <2>4. DEFAULTS[e] = Node(DEFAULTS[e + 1], DEFAULTS[e + 1]) /\ DEFAULTS[e + 1] = Default(e + 1)
    BY <1>3, <2>2, <2>3
  <2> QED
    BY <2>4, NodeOfDefaults
<1> QED
  BY <1>4

-----------------------------------------------------------------------------
(* Hash chains *)

LEMMA AscendStep ==
  ASSUME NEW key, NEW depth \in Nat, NEW node, NEW siblings
  PROVE  LET up == Ascend(key, depth, node, siblings)
         IN  /\ up[depth] = node
             /\ \A d \in 0 .. depth - 1 : up[d] = Parent(key, d, up[d + 1], siblings[d])
<1> DEFINE chain(k, f) ==
             [d \in k .. depth |-> IF d = depth THEN node ELSE Parent(key, d, f[d + 1], siblings[d])]
           F == {k \in 0 .. depth : ~\E f : f = chain(k, f)}
<1>1. F = {}
  <2> SUFFICES ASSUME F # {} PROVE FALSE
    OBVIOUS
  <2>1. PICK k \in F : \A i \in F : i <= k
    <3>1. F \in SUBSET (0 .. depth)
      OBVIOUS
    <3> HIDE DEF F
    <3> QED
      BY <3>1, GreatestOf
  <2>2. k # depth
    <3> DEFINE f == [d \in depth .. depth |-> node]
    <3>1. f = chain(depth, f)
      OBVIOUS
    <3> HIDE DEF f, chain
    <3> QED
      BY <2>1, <3>1
  <2>3. k + 1 \in 0 .. depth /\ k + 1 \notin F /\ k \in 0 .. depth - 1
    BY <2>1, <2>2
  <2>4. PICK f : f = chain(k + 1, f)
    BY <2>3
  <2> DEFINE g == [d \in k .. depth |-> IF d = k THEN Parent(key, k, f[k + 1], siblings[k]) ELSE f[d]]
  <2>5. \A d \in k + 1 .. depth :
          g[d] = f[d] /\ f[d] = (IF d = depth THEN node ELSE Parent(key, d, f[d + 1], siblings[d]))
    BY <2>3, <2>4
  <2>6. g[k] = Parent(key, k, f[k + 1], siblings[k]) /\ g[k + 1] = f[k + 1]
    BY <2>3
  <2>7. ASSUME NEW d \in k .. depth
        PROVE  g[d] = IF d = depth THEN node ELSE Parent(key, d, g[d + 1], siblings[d])
    <3> HIDE DEF g
    <3>1. CASE d = k
      BY <2>3, <2>6, <3>1
    <3>2. CASE d = depth
      BY <2>3, <2>5, <3>2
    <3>3. CASE d # k /\ d # depth
      <4>1. d \in k + 1 .. depth /\ d + 1 \in k + 1 .. depth
        BY <2>3, <3>3
      <4> QED
        BY <2>5, <3>3, <4>1
    <3> QED
      BY <3>1, <3>2, <3>3
  <2>8. g = chain(k, g)
    BY <2>7
  <2> HIDE DEF g, chain
  <2> QED
    BY <2>1, <2>8
<1>2. \E f : f = chain(0, f)
  <2>1. 0 \in 0 .. depth /\ 0 \notin F
    BY <1>1
  <2> HIDE DEF chain
  <2> QED
    BY <2>1
<1> DEFINE up == Ascend(key, depth, node, siblings)
<1>3. up = chain(0, up)
  <2>1. up = CHOOSE f : f = chain(0, f)
    BY DEF Ascend
  <2> HIDE DEF up, chain
  <2> QED
    BY <1>2, <2>1
<1> HIDE DEF up
<1>4. \A d \in 0 .. depth : up[d] = IF d = depth THEN node ELSE Parent(key, d, up[d + 1], siblings[d])
  BY <1>3
<1>5. up[depth] = node /\ \A d \in 0 .. depth - 1 : up[d] = Parent(key, d, up[d + 1], siblings[d])
  BY <1>4
<1> QED
  BY <1>5 DEF up

LEMMA FilledIn ==
  ASSUME NEW siblings, NEW d \in 0 .. DEPTH - 1
  PROVE  Filled(siblings)[d] = IF d \in DOMAIN siblings THEN siblings[d] ELSE Default(d + 1)
<1>1. d + 1 \in 0 .. DEPTH
  BY TreeBounds
<1> QED
  BY <1>1, DefaultsAreDefaults DEF Filled

\* The collapsed root of a lone subject is its own.
LEMMA SingletonRootIsSingle ==
  ASSUME NEW k \in Refs, NEW d \in 0 .. DEPTH
  PROVE  SingletonRoot(k, d) = Single(k, d)
<1> DEFINE up == Ascend(k, DEPTH, Leaf(k), Filled(NoSiblings))
           F == {e \in 0 .. DEPTH : up[e] # Single(k, e)}
<1>0. DEPTH \in Nat
  BY TreeBounds
<1>1. /\ up[DEPTH] = Leaf(k)
      /\ \A e \in 0 .. DEPTH - 1 : up[e] = Parent(k, e, up[e + 1], Filled(NoSiblings)[e])
  BY <1>0, AscendStep
<1>2. \A e \in 0 .. DEPTH - 1 : Filled(NoSiblings)[e] = Default(e + 1)
  BY FilledIn DEF NoSiblings
<1> HIDE DEF up
<1>3. F = {}
  <2> SUFFICES ASSUME F # {} PROVE FALSE
    OBVIOUS
  <2>1. PICK e \in F : \A i \in F : i <= e
    BY <1>0, GreatestOf
  <2>2. e # DEPTH
    BY <1>1, <2>1 DEF Leaf
  <2>3. e \in 0 .. DEPTH - 1 /\ e + 1 \in 0 .. DEPTH /\ e + 1 \notin F
    BY <1>0, <2>1, <2>2
  <2>4. up[e] = Parent(k, e, Single(k, e + 1), Default(e + 1))
    BY <1>1, <1>2, <2>3
  <2>5. Bit(k, e) \in {0, 1}
    BY <2>3, BitsTellApart
  <2> QED
    BY <2>1, <2>3, <2>4, <2>5, NodeOfSingle DEF Parent
<1> QED
  BY <1>3 DEF SingletonRoot, up

-----------------------------------------------------------------------------
(* Roots of subtrees *)

LEMMA SidesAreRefs ==
  ASSUME NEW K \in SUBSET Refs, NEW d, NEW bit
  PROVE  Side(K, d, bit) \in SUBSET Refs
BY DEF Side

\* The roots at depth d over those one level down.
RootsAbove(d, below) ==
  [K \in SUBSET Refs |->
     IF K = {} THEN DEFAULTS[d]
     ELSE IF Cardinality(K) = 1 THEN SingletonRoot(TheKey(K), d)
     ELSE IF d = DEPTH THEN <<"raised">>
     ELSE Node(below[Side(K, d, 0)], below[Side(K, d, 1)])]

LEMMA SubtreeRootUnfolds ==
  ASSUME NEW d \in 0 .. DEPTH
  PROVE  SubtreeRoot[d] = RootsAbove(d, SubtreeRoot[d + 1])
<1>0. DEPTH \in Nat
  BY TreeBounds
<1>d. \A x, y : RootsAbove(DEPTH, x) = RootsAbove(DEPTH, y)
  BY DEF RootsAbove
<1> DEFINE roots(k, f) == [e \in k .. DEPTH |-> RootsAbove(e, f[e + 1])]
           F == {k \in 0 .. DEPTH : ~\E f : f = roots(k, f)}
<1>1. F = {}
  <2> SUFFICES ASSUME F # {} PROVE FALSE
    OBVIOUS
  <2>1. PICK k \in F : \A i \in F : i <= k
    <3>1. F \in SUBSET (0 .. DEPTH)
      OBVIOUS
    <3> HIDE DEF F
    <3> QED
      BY <1>0, <3>1, GreatestOf
  <2>2. k # DEPTH
    <3> DEFINE f == [e \in DEPTH .. DEPTH |-> RootsAbove(e, {})]
    <3>1. \A e \in DEPTH .. DEPTH : e = DEPTH
      BY <1>0
    <3>2. f = roots(DEPTH, f)
      BY <1>d, <3>1
    <3> HIDE DEF f, roots
    <3> QED
      BY <2>1, <3>2
  <2>3. k + 1 \in 0 .. DEPTH /\ k + 1 \notin F /\ k \in 0 .. DEPTH - 1
    BY <1>0, <2>1, <2>2
  <2>4. PICK f : f = roots(k + 1, f)
    BY <2>3
  <2> DEFINE g == [e \in k .. DEPTH |-> IF e = k THEN RootsAbove(k, f[k + 1]) ELSE f[e]]
  <2>5. ASSUME NEW e \in k + 1 .. DEPTH
        PROVE  g[e] = f[e] /\ f[e] = RootsAbove(e, f[e + 1])
    <3>1. e \in k .. DEPTH /\ e # k
      BY <1>0, <2>3
    <3>2. g[e] = f[e]
      BY <3>1
    <3> HIDE DEF g
    <3>3. f[e] = RootsAbove(e, f[e + 1])
      BY <2>4
    <3> QED
      BY <3>2, <3>3
  <2>6. g[k] = RootsAbove(k, f[k + 1]) /\ g[k + 1] = f[k + 1]
    BY <1>0, <2>3
  <2>7. ASSUME NEW e \in k .. DEPTH PROVE g[e] = RootsAbove(e, g[e + 1])
    <3> HIDE DEF g
    <3>1. CASE e = k
      BY <2>6, <3>1
    <3>2. CASE e = DEPTH
      BY <1>0, <1>d, <2>3, <2>5, <3>2
    <3>3. CASE e # k /\ e # DEPTH
      <4>1. e \in k + 1 .. DEPTH /\ e + 1 \in k + 1 .. DEPTH
        BY <1>0, <2>3, <3>3
      <4> QED
        BY <2>5, <4>1
    <3> QED
      BY <3>1, <3>2, <3>3
  <2>8. g = roots(k, g)
    BY <2>7
  <2> HIDE DEF g, roots
  <2> QED
    BY <2>1, <2>8
<1>2. \E f : f = roots(0, f)
  <2>1. 0 \in 0 .. DEPTH
    BY <1>0
  <2>2. 0 \notin F
    <3> HIDE DEF F
    <3> QED
      BY <1>1
  <2> HIDE DEF roots
  <2> QED
    BY <2>1, <2>2
<1>3. SubtreeRoot = roots(0, SubtreeRoot)
  <2>1. SubtreeRoot = CHOOSE f : f = roots(0, f)
    BY DEF SubtreeRoot, RootsAbove
  <2> HIDE DEF roots
  <2> QED
    BY <1>2, <2>1
<1> QED
  BY <1>3

LEMMA SubtreeRootIs ==
  ASSUME NEW K \in SUBSET Refs, NEW d \in 0 .. DEPTH
  PROVE  /\ K = {} => SubtreeRoot[d][K] = Default(d)
         /\ \A k : K = {k} => SubtreeRoot[d][K] = Single(k, d)
         /\ (\E k, l \in K : k # l) /\ d # DEPTH =>
              SubtreeRoot[d][K] = Node(SubtreeRoot[d + 1][Side(K, d, 0)],
                                       SubtreeRoot[d + 1][Side(K, d, 1)])
<1>0. IsFiniteSet(K)
  BY TreeBounds, FS_Subset
<1>1. SubtreeRoot[d][K] =
        IF K = {} THEN DEFAULTS[d]
        ELSE IF Cardinality(K) = 1 THEN SingletonRoot(TheKey(K), d)
        ELSE IF d = DEPTH THEN <<"raised">>
        ELSE Node(SubtreeRoot[d + 1][Side(K, d, 0)], SubtreeRoot[d + 1][Side(K, d, 1)])
  BY SubtreeRootUnfolds DEF RootsAbove
<1>2. CASE K = {}
  BY <1>1, <1>2, DefaultsAreDefaults
<1>3. ASSUME NEW k, K = {k} PROVE SubtreeRoot[d][K] = Single(k, d)
  <2>1. Cardinality(K) = 1 /\ TheKey(K) = k /\ k \in Refs
    BY <1>3, FS_Singleton DEF TheKey
  <2> QED
    BY <1>1, <1>3, <2>1, SingletonRootIsSingle
<1>4. ASSUME NEW k \in K, NEW l \in K, k # l PROVE Cardinality(K) # 1 /\ K # {}
  BY <1>0, <1>4, FS_Singleton
<1> QED
  BY <1>1, <1>2, <1>3, <1>4

\* A root is the node of the roots of its two sides, also where _subtree_root
\* takes the shortcut of an empty or a lone subtree.
LEMMA SubtreeRootSplits ==
  ASSUME NEW K \in SUBSET Refs, NEW d \in 0 .. DEPTH - 1
  PROVE  SubtreeRoot[d][K] = Node(SubtreeRoot[d + 1][Side(K, d, 0)],
                                  SubtreeRoot[d + 1][Side(K, d, 1)])
<1>0. d \in 0 .. DEPTH /\ d + 1 \in 0 .. DEPTH /\ d \in Int /\ d # DEPTH
  BY TreeBounds
<1>1. Side(K, d, 0) \in SUBSET Refs /\ Side(K, d, 1) \in SUBSET Refs
  BY SidesAreRefs
<1>2. CASE K = {}
  <2>1. Side(K, d, 0) = {} /\ Side(K, d, 1) = {}
    BY <1>2 DEF Side
  <2> QED
    BY <1>0, <1>1, <1>2, <2>1, SubtreeRootIs, NodeOfDefaults
<1>3. ASSUME NEW k, K = {k}
      PROVE  SubtreeRoot[d][K] = Node(SubtreeRoot[d + 1][Side(K, d, 0)],
                                      SubtreeRoot[d + 1][Side(K, d, 1)])
  <2>1. k \in Refs /\ Bit(k, d) \in {0, 1}
    BY <1>3, BitsTellApart
  <2>2. SubtreeRoot[d][K] = Single(k, d)
    BY <1>0, <1>3, SubtreeRootIs
  <2>3. CASE Bit(k, d) = 0
    <3>1. Side(K, d, 0) = {k} /\ Side(K, d, 1) = {}
      BY <1>3, <2>3 DEF Side
    <3>2. SubtreeRoot[d + 1][Side(K, d, 0)] = Single(k, d + 1)
      BY <1>0, <1>1, <3>1, SubtreeRootIs
    <3>3. SubtreeRoot[d + 1][Side(K, d, 1)] = Default(d + 1)
      BY <1>0, <1>1, <3>1, SubtreeRootIs
    <3> QED
      BY <1>0, <2>1, <2>2, <2>3, <3>2, <3>3, NodeOfSingle
  <2>4. CASE Bit(k, d) = 1
    <3>1. Side(K, d, 1) = {k} /\ Side(K, d, 0) = {}
      BY <1>3, <2>4 DEF Side
    <3>2. SubtreeRoot[d + 1][Side(K, d, 1)] = Single(k, d + 1)
      BY <1>0, <1>1, <3>1, SubtreeRootIs
    <3>3. SubtreeRoot[d + 1][Side(K, d, 0)] = Default(d + 1)
      BY <1>0, <1>1, <3>1, SubtreeRootIs
    <3> QED
      BY <1>0, <2>1, <2>2, <2>4, <3>2, <3>3, NodeOfSingle
  <2> QED
    BY <2>1, <2>3, <2>4
<1>4. CASE \E k, l \in K : k # l
  BY <1>0, <1>4, SubtreeRootIs
<1> QED
  BY <1>2, <1>3, <1>4

-----------------------------------------------------------------------------
(* Subjects by their leading bits *)

\* The subjects of K have their first d bits in common.
Alike(K, d) == \A k, l \in K : \A e \in 0 .. d - 1 : Bit(k, e) = Bit(l, e)

LEMMA AlikeToTheEnd ==
  ASSUME NEW K \in SUBSET Refs, Alike(K, DEPTH)
  PROVE  K = {} \/ \E k \in Refs : K = {k}
<1>1. \A k, l \in K : k = l
  BY BitsTellApart DEF Alike
<1> QED
  BY <1>1

LEMMA SubtreeRootIsHash ==
  ASSUME NEW K \in SUBSET Refs, NEW d \in 0 .. DEPTH, Alike(K, d)
  PROVE  IsHash(SubtreeRoot[d][K], d)
<1>0. DEPTH \in Nat
  BY TreeBounds
<1> DEFINE F == {e \in 0 .. DEPTH : \E J \in SUBSET Refs : Alike(J, e) /\ ~IsHash(SubtreeRoot[e][J], e)}
<1>1. F = {}
  <2> SUFFICES ASSUME F # {} PROVE FALSE
    OBVIOUS
  <2>1. PICK e \in F : \A i \in F : i <= e
    <3>1. F \in SUBSET (0 .. DEPTH)
      OBVIOUS
    <3> HIDE DEF F
    <3> QED
      BY <1>0, <3>1, GreatestOf
  <2>2. PICK J \in SUBSET Refs : Alike(J, e) /\ ~IsHash(SubtreeRoot[e][J], e)
    BY <2>1
  <2>3. e # DEPTH
    <3> SUFFICES ASSUME e = DEPTH PROVE FALSE
      OBVIOUS
    <3>1. J = {} \/ \E k \in Refs : J = {k}
      BY <2>2, AlikeToTheEnd
    <3> QED
      BY <2>1, <2>2, <3>1, SubtreeRootIs DEF IsHash
  <2>4. e \in 0 .. DEPTH - 1 /\ e + 1 \in 0 .. DEPTH /\ e + 1 \notin F /\ e \in Int
    BY <1>0, <2>1, <2>3
  <2>5. ASSUME NEW bit \in {0, 1} PROVE IsHash(SubtreeRoot[e + 1][Side(J, e, bit)], e + 1)
    <3>1. \A i \in 0 .. (e + 1) - 1 : i \in 0 .. e - 1 \/ i = e
      BY <2>4
    <3>2. Alike(Side(J, e, bit), e + 1)
      BY <2>2, <3>1 DEF Alike, Side
    <3> QED
      BY <2>4, <3>2, SidesAreRefs
  <2>6. SubtreeRoot[e][J] = Node(SubtreeRoot[e + 1][Side(J, e, 0)], SubtreeRoot[e + 1][Side(J, e, 1)])
    BY <2>4, SubtreeRootSplits
  <2> QED
    BY <2>2, <2>4, <2>5, <2>6, NodeIsHash
<1> QED
  BY <1>1

LEMMA UnderPlace ==
  ASSUME NEW K, NEW t, NEW d
  PROVE  Under(K, Place(t, d)) = {k \in K : \A e \in 0 .. d - 1 : Bit(k, e) = Bit(t, e)}
BY DEF Under, Place

LEMMA UnderIsAlike ==
  ASSUME NEW K, NEW t, NEW d
  PROVE  Alike(Under(K, Place(t, d)), d)
BY UnderPlace DEF Alike

LEMMA PlaceParts ==
  ASSUME NEW t, NEW d \in Nat
  PROVE  /\ Place(t, d).depth = d
         /\ Sibling(t, d).depth = d + 1
         /\ Sibling(t, d).bits = [e \in 0 .. d |-> IF e = d THEN 1 - Bit(t, d) ELSE Bit(t, e)]
         /\ Child(Place(t, d), Bit(t, d)) = Place(t, d + 1)
<1>1. Place(t, d).depth = d /\ \A e \in 0 .. d - 1 : Place(t, d).bits[e] = Bit(t, e)
  BY DEF Place
<1>2. \A e \in 0 .. d : e # d => e \in 0 .. d - 1
  OBVIOUS
<1>3. ASSUME NEW bit
      PROVE  Child(Place(t, d), bit) =
               [depth |-> d + 1, bits |-> [e \in 0 .. d |-> IF e = d THEN bit ELSE Bit(t, e)]]
  BY <1>1, <1>2 DEF Child
<1>4. Place(t, d + 1) = [depth |-> d + 1, bits |-> [e \in 0 .. d |-> Bit(t, e)]]
  <2>1. (d + 1) - 1 = d
    OBVIOUS
  <2> QED
    BY <2>1 DEF Place
<1>5. [e \in 0 .. d |-> IF e = d THEN Bit(t, d) ELSE Bit(t, e)] = [e \in 0 .. d |-> Bit(t, e)]
  OBVIOUS
<1>6. Child(Place(t, d), Bit(t, d)) = Place(t, d + 1)
  BY <1>3, <1>4, <1>5
<1>7. Sibling(t, d) = [depth |-> d + 1,
                       bits |-> [e \in 0 .. d |-> IF e = d THEN 1 - Bit(t, d) ELSE Bit(t, e)]]
  BY <1>3 DEF Sibling
<1> QED
  BY <1>1, <1>6, <1>7

LEMMA PlaceAtTop ==
  ASSUME NEW t, NEW K
  PROVE  Place(t, 0) = Top /\ Under(K, Top) = K /\ Top.depth = 0
BY DEF Place, Top, Under

\* Below a place on t's path are the one on the path and its sibling.
LEMMA UnderSplits ==
  ASSUME NEW K \in SUBSET Refs, NEW t \in Refs, NEW d \in 0 .. DEPTH - 1
  PROVE  LET J == Under(K, Place(t, d))
         IN  /\ Side(J, d, Bit(t, d)) = Under(K, Place(t, d + 1))
             /\ Side(J, d, 1 - Bit(t, d)) = Under(K, Sibling(t, d))
<1>0. d \in Nat
  BY TreeBounds
<1>1. \A e : e \in 0 .. (d + 1) - 1 <=> e \in 0 .. d - 1 \/ e = d
  BY <1>0
<1>2. Under(K, Sibling(t, d)) =
        {k \in K : (\A e \in 0 .. d - 1 : Bit(k, e) = Bit(t, e)) /\ Bit(k, d) = 1 - Bit(t, d)}
  <2>1. \A e \in 0 .. d - 1 : e # d /\ e \in 0 .. d
    BY <1>0
  <2>2. d \in 0 .. d
    BY <1>0
  <2>3. /\ Sibling(t, d).depth = d + 1
        /\ \A e \in 0 .. d - 1 : Sibling(t, d).bits[e] = Bit(t, e)
        /\ Sibling(t, d).bits[d] = 1 - Bit(t, d)
    <3> DEFINE B == [e \in 0 .. d |-> IF e = d THEN 1 - Bit(t, d) ELSE Bit(t, e)]
    <3>1. B[d] = 1 - Bit(t, d) /\ \A e \in 0 .. d - 1 : B[e] = Bit(t, e)
      BY <2>1, <2>2
    <3>2. Sibling(t, d).depth = d + 1 /\ Sibling(t, d).bits = B
      BY <1>0, PlaceParts
    <3> HIDE DEF B
    <3> QED
      BY <3>1, <3>2
  <2> QED
    BY <1>1, <2>3 DEF Under
<1>3. Under(K, Place(t, d + 1)) =
        {k \in K : (\A e \in 0 .. d - 1 : Bit(k, e) = Bit(t, e)) /\ Bit(k, d) = Bit(t, d)}
  BY <1>1, UnderPlace
<1> QED
  BY <1>2, <1>3, UnderPlace DEF Side

\* At the bottom of t's path there is nobody but t.
LEMMA UnderTheEnd ==
  ASSUME NEW K \in SUBSET Refs, NEW t \in Refs
  PROVE  Under(K, Place(t, DEPTH)) = K \cap {t}
BY UnderPlace, BitsTellApart

-----------------------------------------------------------------------------
(* Roots along a path *)

\* siblings has the roots beside t's path in the tree of K.
Beside(K, t, siblings) ==
  \A d \in 0 .. DEPTH - 1 : siblings[d] = SubtreeRoot[d + 1][Under(K, Sibling(t, d))]

LEMMA ParentOnPath ==
  ASSUME NEW K \in SUBSET Refs, NEW t \in Refs, NEW d \in 0 .. DEPTH - 1
  PROVE  Parent(t, d, SubtreeRoot[d + 1][Under(K, Place(t, d + 1))],
                      SubtreeRoot[d + 1][Under(K, Sibling(t, d))])
           = SubtreeRoot[d][Under(K, Place(t, d))]
<1>1. Bit(t, d) \in {0, 1}
  BY BitsTellApart
<1>2. Under(K, Place(t, d)) \in SUBSET Refs
  BY UnderPlace
<1>3. 1 - 0 = 1 /\ 1 - 1 = 0
  OBVIOUS
<1> QED
  BY <1>1, <1>2, <1>3, UnderSplits, SubtreeRootSplits DEF Parent

\* Climbing from any depth of t's path meets the roots on it.
LEMMA AscendMeetsRoots ==
  ASSUME NEW K \in SUBSET Refs, NEW t \in Refs, NEW depth \in 0 .. DEPTH, NEW siblings,
         \A d \in 0 .. depth - 1 : siblings[d] = SubtreeRoot[d + 1][Under(K, Sibling(t, d))]
  PROVE  \A d \in 0 .. depth :
           Ascend(t, depth, SubtreeRoot[depth][Under(K, Place(t, depth))], siblings)[d]
             = SubtreeRoot[d][Under(K, Place(t, d))]
<1>0. DEPTH \in Nat /\ depth \in Nat
  BY TreeBounds
<1> DEFINE on(d) == SubtreeRoot[d][Under(K, Place(t, d))]
           up == Ascend(t, depth, on(depth), siblings)
           F == {d \in 0 .. depth : up[d] # on(d)}
<1>1. up[depth] = on(depth) /\ \A d \in 0 .. depth - 1 : up[d] = Parent(t, d, up[d + 1], siblings[d])
  BY <1>0, AscendStep
<1>2. ASSUME NEW d \in 0 .. depth - 1
      PROVE  Parent(t, d, on(d + 1), siblings[d]) = on(d)
  <2>1. d \in 0 .. DEPTH - 1
    BY <1>0
  <2> QED
    BY <2>1, ParentOnPath
<1> HIDE DEF up, on
<1>3. F = {}
  <2> SUFFICES ASSUME F # {} PROVE FALSE
    OBVIOUS
  <2>1. PICK d \in F : \A i \in F : i <= d
    BY <1>0, GreatestOf
  <2>2. d # depth
    BY <1>1, <2>1
  <2>3. d \in 0 .. depth - 1 /\ d + 1 \in 0 .. depth /\ d + 1 \notin F
    BY <1>0, <2>1, <2>2
  <2> QED
    BY <1>1, <1>2, <2>1, <2>3
<1> QED
  BY <1>3 DEF up, on

-----------------------------------------------------------------------------
(* The inductive invariant of a tree *)

Shaped(p) ==
  /\ p.depth \in 0 .. DEPTH
  /\ p = [depth |-> p.depth, bits |-> [e \in 0 .. p.depth - 1 |-> p.bits[e]]]

\* The nodes on t's path: internal ones with both children, then one without.
EndsAt(tree, t, end) ==
  /\ Place(t, end) \in DOMAIN tree.key
  /\ \A d \in 0 .. DEPTH : Place(t, d) \in DOMAIN tree.hash <=> d <= end
  /\ \A d \in 0 .. end - 1 : Place(t, d) \notin DOMAIN tree.key /\ Sibling(t, d) \in DOMAIN tree.hash

\* Every node of a tree over K has the root of its subtree, however deep the
\* tree is; a node without children has one subject under it or none.
Sound(tree, K) ==
  /\ Top \in DOMAIN tree.hash /\ DOMAIN tree.key \subseteq DOMAIN tree.hash
  /\ \A p \in DOMAIN tree.hash : Shaped(p) /\ tree.hash[p] = SubtreeRoot[p.depth][Under(K, p)]
  /\ \A p \in DOMAIN tree.key :
       tree.key[p] = Under(K, p) /\ \A k, l \in Under(K, p) : k = l
  /\ \A t \in Refs : \E end \in 0 .. DEPTH : EndsAt(tree, t, end)

LEMMA ShapedPlace ==
  ASSUME NEW p, Shaped(p), NEW K, NEW k \in Under(K, p)
  PROVE  p = Place(k, p.depth) /\ k \in K
BY DEF Shaped, Under, Place

LEMMA PlaceIsShaped ==
  ASSUME NEW k, NEW d \in 0 .. DEPTH
  PROVE  Shaped(Place(k, d)) /\ Place(k, d).depth = d
BY DEF Shaped, Place

LEMMA ChildIsShaped ==
  ASSUME NEW k, NEW d \in 0 .. DEPTH - 1, NEW bit
  PROVE  Shaped(Child(Place(k, d), bit))
<1>0. DEPTH \in Nat
  BY TreeBounds
<1> DEFINE B == [e \in 0 .. d |-> IF e = d THEN bit ELSE Place(k, d).bits[e]]
<1>1. Child(Place(k, d), bit) = [depth |-> d + 1, bits |-> B]
  BY DEF Child, Place
<1>2. B = [e \in 0 .. (d + 1) - 1 |-> B[e]] /\ d + 1 \in 0 .. DEPTH
  BY <1>0
<1> HIDE DEF B
<1> QED
  BY <1>1, <1>2 DEF Shaped

LEMMA EndOfPath ==
  ASSUME NEW tree, NEW K, Sound(tree, K), NEW t \in Refs
  PROVE  EndOf(tree, t) \in 0 .. DEPTH /\ EndsAt(tree, t, EndOf(tree, t))
<1>0. DEPTH \in Nat
  BY TreeBounds
<1>1. PICK end \in 0 .. DEPTH : EndsAt(tree, t, end)
  BY DEF Sound
<1>2. ASSUME NEW d \in 0 .. DEPTH, Place(t, d) \in DOMAIN tree.key PROVE d = end
  <2>1. d <= end
    BY <1>1, <1>2 DEF Sound, EndsAt
  <2>2. d \notin 0 .. end - 1
    BY <1>1, <1>2 DEF EndsAt
  <2> QED
    BY <1>0, <2>1, <2>2
<1>3. EndOf(tree, t) = end
  BY <1>1, <1>2 DEF EndOf, EndsAt
<1> QED
  BY <1>1, <1>3

LEMMA SiblingsAreRoots ==
  ASSUME NEW K \in SUBSET Refs, NEW tree, Sound(tree, K), NEW t \in Refs,
         NEW d \in 0 .. EndOf(tree, t) - 1
  PROVE  /\ d \in DOMAIN SiblingsOn(tree, t)
         /\ SiblingsOn(tree, t)[d] = SubtreeRoot[d + 1][Under(K, Sibling(t, d))]
<1>1. Sibling(t, d) \in DOMAIN tree.hash
  BY EndOfPath DEF EndsAt
<1>2. Sibling(t, d).depth = d + 1
  <2>1. d \in Nat
    BY EndOfPath
  <2> QED
    BY <2>1, PlaceParts
<1>3. tree.hash[Sibling(t, d)] = SubtreeRoot[d + 1][Under(K, Sibling(t, d))]
  BY <1>1, <1>2 DEF Sound
<1> QED
  BY <1>3 DEF SiblingsOn

LEMMA RootOfSound ==
  ASSUME NEW K, NEW tree, Sound(tree, K)
  PROVE  RootOf(tree) = SubtreeRoot[0][K]
BY PlaceAtTop DEF Sound, RootOf

-----------------------------------------------------------------------------
(* Building *)

LEMMA SharedIs ==
  ASSUME NEW K \in SUBSET Refs
  PROVE  /\ Shared(K) = {p \in {Place(k, d) : k \in K, d \in 0 .. DEPTH} :
                           \E k, l \in Under(K, p) : k # l}
         /\ \A k \in K, d \in 0 .. DEPTH : k \in Under(K, Place(k, d))
<1>1. ASSUME NEW p PROVE Cardinality(Under(K, p)) > 1 <=> \E k, l \in Under(K, p) : k # l
  <2> DEFINE U == Under(K, p)
  <2>1. U \in SUBSET Refs /\ IsFiniteSet(U)
    BY TreeBounds, FS_Subset DEF Under
  <2> HIDE DEF U
  <2>2. Cardinality(U) \in Nat
    BY <2>1, FS_CardinalityType
  <2>3. Cardinality(U) = 0 <=> U = {}
    BY <2>1, FS_EmptySet
  <2>4. Cardinality(U) = 1 <=> \E x : U = {x}
    BY <2>1, FS_Singleton
  <2>5. (\E k, l \in U : k # l) <=> U # {} /\ ~(\E x : U = {x})
    OBVIOUS
  <2>6. Cardinality(U) > 1 <=> \E k, l \in U : k # l
    BY <2>2, <2>3, <2>4, <2>5
  <2> QED
    BY <2>6 DEF U
<1>2. \A k \in K, d \in 0 .. DEPTH : k \in Under(K, Place(k, d))
  BY UnderPlace
<1> QED
  BY <1>1, <1>2 DEF Shared

LEMMA SharedParts ==
  ASSUME NEW K \in SUBSET Refs, NEW p \in Shared(K)
  PROVE  \E k \in K, d \in 0 .. DEPTH - 1 : p = Place(k, d)
<1>0. DEPTH \in Nat
  BY TreeBounds
<1>1. PICK k \in K, d \in 0 .. DEPTH : p = Place(k, d)
  BY SharedIs
<1>2. PICK i, j \in Under(K, p) : i # j
  BY SharedIs
<1>3. d # DEPTH
  BY <1>1, <1>2, UnderTheEnd
<1>4. d \in 0 .. DEPTH - 1
  BY <1>0, <1>3
<1> QED
  BY <1>1, <1>4

\* Any two subjects under a place share it.
LEMMA TwoShare ==
  ASSUME NEW K \in SUBSET Refs, NEW p, Shaped(p), NEW k \in Under(K, p), NEW l \in Under(K, p), k # l
  PROVE  p \in Shared(K)
<1>1. p = Place(k, p.depth) /\ k \in K /\ p.depth \in 0 .. DEPTH
  BY ShapedPlace DEF Shaped
<1> QED
  BY <1>1, SharedIs

LEMMA PlacesAreShaped ==
  ASSUME NEW K \in SUBSET Refs, NEW p \in Places(K)
  PROVE  Shaped(p)
<1>1. CASE p = Top
  <2>1. 0 \in 0 .. DEPTH
    BY TreeBounds
  <2> QED
    BY <1>1, <2>1, PlaceAtTop, PlaceIsShaped
<1>2. CASE p # Top
  <2>1. PICK q \in Shared(K), bit \in {0, 1} : p = Child(q, bit)
    BY <1>2 DEF Places
  <2>2. PICK k \in K, d \in 0 .. DEPTH - 1 : q = Place(k, d)
    BY SharedParts
  <2> QED
    BY <2>1, <2>2, ChildIsShaped
<1> QED
  BY <1>1, <1>2

\* Whatever is shared at some depth of a path is shared at every lesser one.
LEMMA SharedAbove ==
  ASSUME NEW K \in SUBSET Refs, NEW t \in Refs, NEW d \in 0 .. DEPTH, NEW e \in 0 .. d,
         Place(t, d) \in Shared(K)
  PROVE  Place(t, e) \in Shared(K)
<1>1. PICK k, l \in Under(K, Place(t, d)) : k # l
  BY SharedIs
<1>2. \A i \in 0 .. e - 1 : i \in 0 .. d - 1
  OBVIOUS
<1>3. k \in Under(K, Place(t, e)) /\ l \in Under(K, Place(t, e))
  BY <1>1, <1>2, UnderPlace
<1>4. e \in 0 .. DEPTH
  BY TreeBounds
<1> QED
  BY <1>1, <1>3, <1>4, PlaceIsShaped, TwoShare

LEMMA PlaceInPlaces ==
  ASSUME NEW K \in SUBSET Refs, NEW t \in Refs, NEW d \in 0 .. DEPTH - 1
  PROVE  /\ Place(t, d) \in Shared(K) =>
              Place(t, d + 1) \in Places(K) /\ Sibling(t, d) \in Places(K)
         /\ Place(t, d + 1) \in Places(K) => Place(t, d) \in Shared(K)
<1>0. DEPTH \in Nat /\ d \in Nat
  BY TreeBounds
<1>1. Bit(t, d) \in {0, 1} /\ 1 - Bit(t, d) \in {0, 1}
  BY BitsTellApart
<1>2. Place(t, d + 1) = Child(Place(t, d), Bit(t, d))
  BY <1>0, PlaceParts
<1>3. ASSUME Place(t, d) \in Shared(K)
      PROVE  Place(t, d + 1) \in Places(K) /\ Sibling(t, d) \in Places(K)
  BY <1>1, <1>2, <1>3 DEF Places, Sibling
<1>4. ASSUME Place(t, d + 1) \in Places(K) PROVE Place(t, d) \in Shared(K)
  <2>1. Place(t, d + 1).depth = d + 1
    BY <1>0 DEF Place
  <2>2. Place(t, d + 1) # Top
    BY <1>0, <2>1 DEF Top
  <2>3. PICK q \in Shared(K), bit \in {0, 1} : Place(t, d + 1) = Child(q, bit)
    BY <1>4, <2>2 DEF Places
  <2>4. PICK k \in K, i \in 0 .. DEPTH - 1 : q = Place(k, i)
    BY SharedParts
  <2>5. Child(q, bit).depth = i + 1 /\ q.depth = i
    BY <2>4 DEF Child, Place
  <2>6. i = d
    BY <1>0, <2>1, <2>3, <2>5
  <2>7. ASSUME NEW e \in 0 .. d - 1 PROVE Bit(k, e) = Bit(t, e)
    <3>1. e \in 0 .. d /\ e # d /\ e \in 0 .. (d + 1) - 1
      BY <1>0
    <3>2. Child(q, bit).bits[e] = q.bits[e]
      BY <2>5, <2>6, <3>1 DEF Child
    <3>3. q.bits[e] = Bit(k, e)
      BY <2>4, <2>6 DEF Place
    <3>4. Place(t, d + 1).bits[e] = Bit(t, e)
      BY <3>1 DEF Place
    <3> QED
      BY <2>3, <3>2, <3>3, <3>4
  <2>8. q = Place(t, d)
    BY <2>4, <2>6, <2>7 DEF Place
  <2> QED
    BY <2>8
<1> QED
  BY <1>3, <1>4

LEMMA BuildEnds ==
  ASSUME NEW K \in SUBSET Refs, NEW t \in Refs
  PROVE  \E end \in 0 .. DEPTH : EndsAt(Build(K), t, end)
<1>0. DEPTH \in Nat
  BY TreeBounds
<1>d. DOMAIN Build(K).hash = Places(K) /\ DOMAIN Build(K).key = Places(K) \ Shared(K)
  BY DEF Build
<1> DEFINE G == {d \in 0 .. DEPTH : Place(t, d) \notin Shared(K)}
<1>1. DEPTH \in G
  <2>1. ASSUME Place(t, DEPTH) \in Shared(K) PROVE FALSE
    <3>1. PICK k, l \in Under(K, Place(t, DEPTH)) : k # l
      BY <2>1, SharedIs
    <3> QED
      BY <3>1, UnderTheEnd
  <2> QED
    BY <1>0, <2>1
<1>2. PICK end \in G : \A i \in G : end <= i
  <2>1. G \in SUBSET (0 .. DEPTH) /\ G # {}
    BY <1>1
  <2> HIDE DEF G
  <2> QED
    BY <1>0, <2>1, LeastOf
<1>3. end \in 0 .. DEPTH /\ Place(t, end) \notin Shared(K)
  BY <1>2
<1>4. ASSUME NEW d \in 0 .. end - 1 PROVE Place(t, d) \in Shared(K) /\ d \in 0 .. DEPTH - 1
  <2>1. d \in 0 .. DEPTH /\ ~(end <= d) /\ d \in 0 .. DEPTH - 1
    BY <1>0, <1>3
  <2> QED
    BY <1>2, <2>1
<1>5. ASSUME NEW d \in 0 .. DEPTH, d <= end PROVE Place(t, d) \in Places(K)
  <2>1. CASE d = 0
    BY <2>1, PlaceAtTop DEF Places
  <2>2. CASE d # 0
    <3>1. d - 1 \in 0 .. end - 1 /\ (d - 1) + 1 = d
      BY <1>0, <1>3, <1>5, <2>2
    <3>2. Place(t, d - 1) \in Shared(K) /\ d - 1 \in 0 .. DEPTH - 1
      BY <1>4, <3>1
    <3>3. Place(t, (d - 1) + 1) \in Places(K)
      BY <3>2, PlaceInPlaces
    <3> QED
      BY <3>1, <3>3
  <2> QED
    BY <2>1, <2>2
<1>6. ASSUME NEW d \in 0 .. DEPTH, Place(t, d) \in Places(K) PROVE d <= end
  <2> SUFFICES ASSUME d > end PROVE FALSE
    BY <1>0, <1>3
  <2>1. d - 1 \in 0 .. DEPTH - 1 /\ (d - 1) + 1 = d /\ d - 1 \in 0 .. DEPTH /\ end \in 0 .. d - 1
    BY <1>0, <1>3
  <2>2. Place(t, (d - 1) + 1) \in Places(K)
    BY <1>6, <2>1
  <2>3. Place(t, d - 1) \in Shared(K)
    BY <2>1, <2>2, PlaceInPlaces
  <2> QED
    BY <1>3, <2>1, <2>3, SharedAbove
<1>7. ASSUME NEW d \in 0 .. end - 1
      PROVE  Place(t, d) \notin DOMAIN Build(K).key /\ Sibling(t, d) \in DOMAIN Build(K).hash
  BY <1>d, <1>4, PlaceInPlaces
<1>8. Place(t, end) \in DOMAIN Build(K).key
  <2>1. end <= end
    BY <1>0, <1>3
  <2> QED
    BY <1>d, <1>3, <1>5, <2>1
<1> QED
  BY <1>d, <1>3, <1>5, <1>6, <1>7, <1>8 DEF EndsAt

LEMMA BuildIsSound ==
  ASSUME NEW K \in SUBSET Refs
  PROVE  Sound(Build(K), K)
<1>1. DOMAIN Build(K).hash = Places(K) /\ DOMAIN Build(K).key = Places(K) \ Shared(K)
  BY DEF Build
<1>2. Top \in Places(K)
  BY DEF Places
<1>3. ASSUME NEW p \in Places(K)
      PROVE  Shaped(p) /\ Build(K).hash[p] = SubtreeRoot[p.depth][Under(K, p)]
  BY PlacesAreShaped DEF Build
<1>4. ASSUME NEW p \in Places(K) \ Shared(K)
      PROVE  Build(K).key[p] = Under(K, p) /\ \A k, l \in Under(K, p) : k = l
  BY PlacesAreShaped, TwoShare DEF Build
<1> QED
  BY <1>1, <1>2, <1>3, <1>4, BuildEnds DEF Sound

-----------------------------------------------------------------------------
(* Removing *)

LEMMA UnderOthers ==
  ASSUME NEW K \in SUBSET Refs, NEW t, NEW p, t \notin Under(K, p)
  PROVE  Under(K \ {t}, p) = Under(K, p)
BY DEF Under

\* Nothing changes beside the path of the removed subject.
LEMMA SiblingUntouched ==
  ASSUME NEW K \in SUBSET Refs, NEW t \in Refs, NEW d \in 0 .. DEPTH - 1
  PROVE  Under(K \ {t}, Sibling(t, d)) = Under(K, Sibling(t, d))
<1>1. t \notin Under(K, Sibling(t, d))
  <2>1. t \notin Side(Under(K, Place(t, d)), d, 1 - Bit(t, d))
    <3>1. Bit(t, d) \in {0, 1}
      BY BitsTellApart
    <3>2. Bit(t, d) # 1 - Bit(t, d)
      BY <3>1
    <3> QED
      BY <3>2 DEF Side
  <2> QED
    BY <2>1, UnderSplits
<1> QED
  BY <1>1, UnderOthers

LEMMA RemovedHashes ==
  ASSUME NEW K \in SUBSET Refs, NEW tree, Sound(tree, K), NEW t \in Refs,
         Under(K \ {t}, Place(t, EndOf(tree, t))) = {}
  PROVE  LET end == EndOf(tree, t)
             up == Ascend(t, end, DEFAULTS[end], SiblingsOn(tree, t))
         IN  \A d \in 0 .. end : up[d] = SubtreeRoot[d][Under(K \ {t}, Place(t, d))]
<1> DEFINE end == EndOf(tree, t)
           J == K \ {t}
<1>1. end \in 0 .. DEPTH /\ J \in SUBSET Refs
  BY EndOfPath
<1>2. ASSUME NEW d \in 0 .. end - 1
      PROVE  SiblingsOn(tree, t)[d] = SubtreeRoot[d + 1][Under(J, Sibling(t, d))]
  <2>1. d \in 0 .. DEPTH - 1
    BY <1>1, TreeBounds
  <2>2. SiblingsOn(tree, t)[d] = SubtreeRoot[d + 1][Under(K, Sibling(t, d))]
    BY SiblingsAreRoots
  <2>3. Under(J, Sibling(t, d)) = Under(K, Sibling(t, d))
    BY <2>1, SiblingUntouched
  <2> QED
    BY <2>2, <2>3
<1>3. DEFAULTS[end] = SubtreeRoot[end][Under(J, Place(t, end))]
  BY <1>1, SubtreeRootIs, DefaultsAreDefaults
<1> HIDE DEF end, J
<1>4. \A d \in 0 .. end :
        Ascend(t, end, DEFAULTS[end], SiblingsOn(tree, t))[d] = SubtreeRoot[d][Under(J, Place(t, d))]
  BY <1>1, <1>2, <1>3, AscendMeetsRoots
<1> QED
  BY <1>4 DEF end, J

LEMMA RemoveKeyIsSound ==
  ASSUME NEW K \in SUBSET Refs, NEW tree, Sound(tree, K), NEW t \in K
  PROVE  Sound(RemoveKey(tree, t), K \ {t})
<1> DEFINE end == EndOf(tree, t)
           last == Place(t, end)
           J == K \ {t}
           up == Ascend(t, end, DEFAULTS[end], SiblingsOn(tree, t))
           onPath(p) == p.depth <= end /\ p = Place(t, p.depth)
           after == [hash |-> [p \in DOMAIN tree.hash |->
                                 IF onPath(p) THEN up[p.depth] ELSE tree.hash[p]],
                     key |-> [tree.key EXCEPT ![last] = {}]]
<1>0. DEPTH \in Nat /\ t \in Refs /\ J \in SUBSET Refs
  BY TreeBounds
<1>1. end \in 0 .. DEPTH /\ EndsAt(tree, t, end)
  BY <1>0, EndOfPath
<1>2. last \in DOMAIN tree.key /\ last \in DOMAIN tree.hash
  BY <1>1 DEF EndsAt, Sound
<1>3. t \in Under(K, last) /\ tree.key[last] = {t}
  <2>1. t \in Under(K, last)
    BY UnderPlace
  <2> QED
    BY <1>2, <2>1 DEF Sound
<1>4. Under(J, last) = {}
  BY <1>2, <1>3 DEF Sound, Under
<1>5. RemoveKey(tree, t) = after
  BY <1>3 DEF RemoveKey
<1>6. \A d \in 0 .. end : up[d] = SubtreeRoot[d][Under(J, Place(t, d))]
  BY <1>0, <1>4, RemovedHashes
<1>7. ASSUME NEW p \in DOMAIN tree.hash, t \in Under(K, p)
      PROVE  onPath(p) /\ (p \in DOMAIN tree.key => p = last)
  <2>1. Shaped(p) /\ p = Place(t, p.depth) /\ p.depth \in 0 .. DEPTH
    BY <1>7, ShapedPlace DEF Sound, Shaped
  <2>2. p.depth <= end
    BY <1>1, <1>7, <2>1 DEF EndsAt
  <2>3. p \in DOMAIN tree.key => p.depth \notin 0 .. end - 1
    BY <1>1, <2>1 DEF EndsAt
  <2>4. p.depth \notin 0 .. end - 1 => p.depth = end
    BY <1>0, <1>1, <2>1, <2>2
  <2> QED
    BY <2>1, <2>2, <2>3, <2>4
<1> HIDE DEF up
<1>8. DOMAIN after.hash = DOMAIN tree.hash /\ DOMAIN after.key = DOMAIN tree.key
  OBVIOUS
<1>9. ASSUME NEW p \in DOMAIN tree.hash
      PROVE  after.hash[p] = SubtreeRoot[p.depth][Under(J, p)]
  <2>1. Shaped(p) /\ p.depth \in 0 .. DEPTH /\ tree.hash[p] = SubtreeRoot[p.depth][Under(K, p)]
    BY DEF Sound, Shaped
  <2>2. CASE onPath(p)
    <3>1. p.depth \in 0 .. end
      BY <1>0, <1>1, <2>1, <2>2
    <3>2. up[p.depth] = SubtreeRoot[p.depth][Under(J, Place(t, p.depth))]
      BY <1>6, <3>1
    <3> QED
      BY <2>2, <3>2
  <2>3. CASE ~onPath(p)
    <3>1. Under(J, p) = Under(K, p)
      BY <1>7, <2>3, UnderOthers
    <3> QED
      BY <2>1, <2>3, <3>1
  <2> QED
    BY <2>2, <2>3
<1>10. ASSUME NEW p \in DOMAIN tree.key
       PROVE  after.key[p] = Under(J, p) /\ \A k, l \in Under(J, p) : k = l
  <2>1. p \in DOMAIN tree.hash /\ tree.key[p] = Under(K, p) /\ \A k, l \in Under(K, p) : k = l
    BY DEF Sound
  <2>2. CASE p = last
    BY <1>4, <2>2
  <2>3. CASE p # last
    <3>1. Under(J, p) = Under(K, p)
      BY <1>7, <2>1, <2>3, UnderOthers
    <3>2. after.key[p] = tree.key[p]
      BY <2>3
    <3> QED
      BY <2>1, <3>1, <3>2
  <2> QED
    BY <2>2, <2>3
<1>11. ASSUME NEW s \in Refs PROVE \E e \in 0 .. DEPTH : EndsAt(after, s, e)
  <2>1. PICK e \in 0 .. DEPTH : EndsAt(tree, s, e)
    BY DEF Sound
  <2> HIDE DEF after
  <2> QED
    BY <1>8, <2>1 DEF EndsAt
<1> HIDE DEF after
<1>12. /\ Top \in DOMAIN after.hash /\ DOMAIN after.key \subseteq DOMAIN after.hash
       /\ \A p \in DOMAIN after.hash : Shaped(p)
  BY <1>8 DEF Sound
<1>13. Sound(after, J)
  BY <1>8, <1>9, <1>10, <1>11, <1>12 DEF Sound
<1> QED
  BY <1>5, <1>13

-----------------------------------------------------------------------------
(* Batches *)

LEMMA RemovalsStep ==
  ASSUME NEW tree, NEW refs, Len(refs) \in Nat
  PROVE  LET after == Removals(tree, refs)
         IN  /\ after[0] = [root |-> tree, removed |-> {}]
             /\ \A i \in 1 .. Len(refs) : after[i] = RemoveNext(after[i - 1], refs[i])
<1> DEFINE n == Len(refs)
           passes(m, f) == [i \in 0 .. m |-> IF i = 0 THEN [root |-> tree, removed |-> {}]
                                             ELSE RemoveNext(f[i - 1], refs[i])]
           F == {m \in 0 .. n : ~\E f : f = passes(m, f)}
<1>1. F = {}
  <2> SUFFICES ASSUME F # {} PROVE FALSE
    OBVIOUS
  <2>1. PICK m \in F : \A i \in F : m <= i
    <3>1. F \in SUBSET (0 .. n)
      OBVIOUS
    <3> HIDE DEF F
    <3> QED
      BY <3>1, LeastOf
  <2>2. m # 0
    <3> DEFINE f == [i \in 0 .. 0 |-> [root |-> tree, removed |-> {}]]
    <3>1. f = passes(0, f)
      OBVIOUS
    <3> HIDE DEF f, passes
    <3> QED
      BY <2>1, <3>1
  <2>3. m - 1 \in 0 .. n /\ m - 1 \notin F /\ m \in 1 .. n
    <3>1. m \in 0 .. n
      BY <2>1
    <3> HIDE DEF F
    <3> QED
      BY <2>1, <2>2, <3>1
  <2>4. PICK f : f = passes(m - 1, f)
    BY <2>3
  <2> DEFINE g == [i \in 0 .. m |-> IF i = m THEN RemoveNext(f[m - 1], refs[m]) ELSE f[i]]
  <2>5. \A i \in 0 .. m - 1 :
          /\ g[i] = f[i]
          /\ f[i] = (IF i = 0 THEN [root |-> tree, removed |-> {}] ELSE RemoveNext(f[i - 1], refs[i]))
    <3>1. \A i \in 0 .. m - 1 : i \in 0 .. m /\ i # m
      BY <2>3
    <3>2. \A i \in 0 .. m - 1 :
            f[i] = (IF i = 0 THEN [root |-> tree, removed |-> {}] ELSE RemoveNext(f[i - 1], refs[i]))
      <4> DEFINE h == f
      <4>1. h = passes(m - 1, f)
        BY <2>4
      <4> HIDE DEF h
      <4>2. \A i \in 0 .. m - 1 :
              h[i] = (IF i = 0 THEN [root |-> tree, removed |-> {}] ELSE RemoveNext(f[i - 1], refs[i]))
        BY <4>1
      <4> QED
        BY <4>2 DEF h
    <3> QED
      BY <3>1, <3>2
  <2>6. g[m] = RemoveNext(f[m - 1], refs[m]) /\ g[m - 1] = f[m - 1]
    BY <2>3
  <2>7. ASSUME NEW i \in 0 .. m
        PROVE  g[i] = IF i = 0 THEN [root |-> tree, removed |-> {}] ELSE RemoveNext(g[i - 1], refs[i])
    <3> HIDE DEF g
    <3>1. CASE i = m
      BY <2>3, <2>6, <3>1
    <3>2. CASE i = 0
      <4>1. i \in 0 .. m - 1
        BY <2>3, <3>2
      <4> QED
        BY <2>5, <3>2, <4>1
    <3>3. CASE i # m /\ i # 0
      <4>1. i \in 0 .. m - 1 /\ i - 1 \in 0 .. m - 1
        BY <2>3, <3>3
      <4> QED
        BY <2>5, <3>3, <4>1
    <3> QED
      BY <3>1, <3>2, <3>3
  <2>8. g = passes(m, g)
    BY <2>7
  <2> HIDE DEF g, passes
  <2> QED
    BY <2>1, <2>8
<1>2. \E f : f = passes(n, f)
  <2>1. n \in 0 .. n
    OBVIOUS
  <2>2. n \notin F
    <3> HIDE DEF F
    <3> QED
      BY <1>1
  <2> HIDE DEF passes
  <2> QED
    BY <2>1, <2>2
<1> DEFINE after == Removals(tree, refs)
<1>3. after = passes(n, after)
  <2>1. after = CHOOSE f : f = passes(n, f)
    BY DEF Removals
  <2> HIDE DEF after, passes
  <2> QED
    BY <1>2, <2>1
<1> HIDE DEF after
<1>4. after[0] = [root |-> tree, removed |-> {}]
  BY <1>3
<1>5. \A i \in 1 .. n : after[i] = RemoveNext(after[i - 1], refs[i])
  <2>1. \A i \in 1 .. n : i \in 0 .. n /\ i # 0
    OBVIOUS
  <2>2. \A i \in 0 .. n : after[i] = IF i = 0 THEN [root |-> tree, removed |-> {}]
                                     ELSE RemoveNext(after[i - 1], refs[i])
    BY <1>3
  <2> QED
    BY <2>1, <2>2
<1> QED
  BY <1>4, <1>5 DEF after

LEMMA RemovalsAreSound ==
  ASSUME NEW K \in SUBSET Refs, NEW tree, Sound(tree, K), NEW refs \in Seq(K)
  PROVE  Sound(Removals(tree, refs)[Len(refs)].root, K \ ToSet(refs))
<1> DEFINE after == Removals(tree, refs)
           n == Len(refs)
           gone(i) == {refs[j] : j \in 1 .. i}
           done(i) == after[i].removed = gone(i) /\ Sound(after[i].root, K \ gone(i))
           F == {i \in 0 .. n : ~done(i)}
<1>1. n \in Nat /\ ToSet(refs) = gone(n) /\ \A i \in 1 .. n : refs[i] \in K
  BY LenProperties DEF ToSet
<1>2. /\ after[0] = [root |-> tree, removed |-> {}]
      /\ \A i \in 1 .. n : after[i] = RemoveNext(after[i - 1], refs[i])
  BY <1>1, RemovalsStep
<1> HIDE DEF after, n
<1>3. F = {}
  <2> SUFFICES ASSUME F # {} PROVE FALSE
    OBVIOUS
  <2>1. PICK i \in F : \A j \in F : i <= j
    <3>1. F \in SUBSET (0 .. n)
      OBVIOUS
    <3> HIDE DEF F
    <3> QED
      BY <1>1, <3>1, LeastOf
  <2>2. i # 0
    <3>1. gone(0) = {}
      OBVIOUS
    <3>2. K \ gone(0) = K
      BY <3>1
    <3>3. done(0)
      <4>1. after[0].root = tree /\ after[0].removed = {}
        BY <1>2
      <4> HIDE DEF gone
      <4> QED
        BY <3>1, <3>2, <4>1
    <3> QED
      BY <2>1, <3>3
  <2>3. i - 1 \in 0 .. n /\ i - 1 \notin F /\ i \in 1 .. n
    <3>1. i \in 0 .. n
      BY <2>1
    <3> HIDE DEF F
    <3> QED
      BY <1>1, <2>1, <2>2, <3>1
  <2>4. after[i - 1].removed = gone(i - 1) /\ Sound(after[i - 1].root, K \ gone(i - 1))
    BY <2>3
  <2>5. gone(i) = gone(i - 1) \cup {refs[i]}
    <3>1. \A j : j \in 1 .. i <=> j \in 1 .. i - 1 \/ j = i
      BY <1>1, <2>3
    <3> QED
      BY <3>1
  <2>6. after[i] = RemoveNext(after[i - 1], refs[i]) /\ refs[i] \in K
    BY <1>1, <1>2, <2>3
  <2> HIDE DEF gone
  <2>7. CASE refs[i] \in gone(i - 1)
    <3>1. gone(i) = gone(i - 1)
      BY <2>5, <2>7
    <3> QED
      BY <2>1, <2>4, <2>6, <2>7, <3>1 DEF RemoveNext
  <2>8. CASE refs[i] \notin gone(i - 1)
    <3>1. K \ gone(i) = (K \ gone(i - 1)) \ {refs[i]}
      BY <2>5
    <3>2. refs[i] \in K \ gone(i - 1) /\ K \ gone(i - 1) \in SUBSET Refs
      BY <2>6, <2>8
    <3>3. Sound(RemoveKey(after[i - 1].root, refs[i]), K \ gone(i))
      BY <2>4, <3>1, <3>2, RemoveKeyIsSound
    <3>4. after[i] = [root |-> RemoveKey(after[i - 1].root, refs[i]), removed |-> gone(i)]
      BY <2>4, <2>5, <2>6, <2>8 DEF RemoveNext
    <3> QED
      BY <2>1, <3>3, <3>4
  <2> QED
    BY <2>7, <2>8
<1>4. n \in 0 .. n /\ n \notin F
  <2>1. n \in 0 .. n
    BY <1>1
  <2> HIDE DEF F
  <2> QED
    BY <1>3, <2>1
<1>5. Sound(after[n].root, K \ gone(n))
  BY <1>4
<1> QED
  BY <1>1, <1>5 DEF after, n

-----------------------------------------------------------------------------
(* Absence proofs *)

\* Under an unshared place with one subject k other than t: the first bit at
\* which they differ, and who is beside t's path from there on.
LEMMA ForkIs ==
  ASSUME NEW k \in Refs, NEW t \in Refs, k # t, NEW end \in 0 .. DEPTH,
         \A e \in 0 .. end - 1 : Bit(k, e) = Bit(t, e)
  PROVE  \E f \in end .. DEPTH - 1 :
           /\ Bit(k, f) # Bit(t, f) /\ \A e \in 0 .. f - 1 : Bit(k, e) = Bit(t, e)
           /\ Fork(k, t, end) = [d \in {f} |-> Single(k, f + 1)]
<1>0. DEPTH \in Nat
  BY TreeBounds
<1> DEFINE G == {d \in end .. DEPTH - 1 : Bit(t, d) # Bit(k, d)}
<1>1. PICK i \in 0 .. DEPTH - 1 : Bit(k, i) # Bit(t, i)
  BY BitsTellApart
<1>2. i \in G
  BY <1>0, <1>1
<1>3. PICK f \in G : \A d \in G : f <= d
  <2>1. G \in SUBSET (0 .. DEPTH) /\ G # {}
    BY <1>0, <1>2
  <2> HIDE DEF G
  <2> QED
    BY <1>0, <2>1, LeastOf
<1>4. f \in end .. DEPTH - 1 /\ Bit(k, f) # Bit(t, f)
  BY <1>3
<1>5. ASSUME NEW e \in 0 .. f - 1 PROVE Bit(k, e) = Bit(t, e)
  <2>1. e \notin G
    <3>1. ~(f <= e)
      BY <1>0, <1>4
    <3> HIDE DEF G
    <3> QED
      BY <1>3, <3>1
  <2>2. e \in 0 .. end - 1 \/ e \in end .. DEPTH - 1
    BY <1>0, <1>4
  <2> QED
    BY <2>1, <2>2
<1>6. {e \in G : \A g \in G : e <= g} = {f}
  <2>1. f \in G /\ f \in Int /\ \A e \in G : e \in Int
    BY <1>0
  <2> HIDE DEF G
  <2>2. ASSUME NEW e \in G, \A g \in G : e <= g PROVE e = f
    <3>1. e <= f /\ f <= e /\ e \in Int
      BY <1>3, <2>1, <2>2
    <3> QED
      BY <2>1, <3>1
  <2> QED
    BY <1>3, <2>1, <2>2
<1>7. Fork(k, t, end) = [d \in {f} |-> Single(k, f + 1)]
  <2>1. SingletonRoot(k, f + 1) = Single(k, f + 1)
    <3>1. f + 1 \in 0 .. DEPTH
      BY <1>0, <1>4
    <3> QED
      BY <3>1, SingletonRootIsSingle
  <2>2. Fork(k, t, end) = [d \in {e \in G : \A g \in G : e <= g} |-> SingletonRoot(k, d + 1)]
    BY DEF Fork
  <2> HIDE DEF G
  <2> QED
    BY <1>6, <2>1, <2>2
<1> QED
  BY <1>4, <1>5, <1>7

\* A proof of absence, completed with empty subtrees, is what is beside the path.
LEMMA ProofIsBeside ==
  ASSUME NEW K \in SUBSET Refs, NEW tree, Sound(tree, K), NEW t \in Refs \ K,
         NEW d \in 0 .. DEPTH - 1
  PROVE  Filled(ProvenSiblings(tree, t))[d] = SubtreeRoot[d + 1][Under(K, Sibling(t, d))]
<1> DEFINE end == EndOf(tree, t)
           last == tree.key[Place(t, end)]
           beside == SiblingsOn(tree, t)
           met == {e \in DOMAIN beside : beside[e] # DEFAULTS[e + 1]}
           fork == IF last = {} THEN NoSiblings ELSE Fork(TheKey(last), t, end)
           siblings == ProvenSiblings(tree, t)
           U == Under(K, Sibling(t, d))
<1>0. DEPTH \in Nat /\ d + 1 \in 0 .. DEPTH /\ d \in Int
  BY TreeBounds
<1>1. end \in 0 .. DEPTH /\ EndsAt(tree, t, end)
  BY EndOfPath
<1>2. /\ Place(t, end) \in DOMAIN tree.key
      /\ last = Under(K, Place(t, end)) /\ \A k, l \in last : k = l
  BY <1>1 DEF EndsAt, Sound
<1>3. siblings = [e \in met \cup DOMAIN fork |-> IF e \in met THEN beside[e] ELSE fork[e]]
  BY DEF ProvenSiblings
<1>4. DOMAIN beside = 0 .. end - 1
  BY DEF SiblingsOn
<1>5. U \in SUBSET Refs /\ U = Side(Under(K, Place(t, d)), d, 1 - Bit(t, d))
  <2>1. U \in SUBSET Refs
    BY DEF Under
  <2> QED
    BY <2>1, UnderSplits
<1>6. Filled(siblings)[d] = IF d \in DOMAIN siblings THEN siblings[d] ELSE Default(d + 1)
  BY FilledIn
<1>7. DOMAIN siblings = met \cup DOMAIN fork
      /\ \A e \in met \cup DOMAIN fork : siblings[e] = IF e \in met THEN beside[e] ELSE fork[e]
  BY <1>3
<1>8. ASSUME NEW k \in last
      PROVE  \E f \in end .. DEPTH - 1 :
               /\ Bit(k, f) # Bit(t, f) /\ \A e \in 0 .. f - 1 : Bit(k, e) = Bit(t, e)
               /\ fork = [e \in {f} |-> Single(k, f + 1)]
  <2>1. TheKey(last) = k
    BY <1>2, <1>8 DEF TheKey
  <2>2. k \in Refs /\ k # t /\ \A e \in 0 .. end - 1 : Bit(k, e) = Bit(t, e)
    BY <1>2, <1>8, UnderPlace
  <2>3. \E f \in end .. DEPTH - 1 :
          /\ Bit(k, f) # Bit(t, f) /\ \A e \in 0 .. f - 1 : Bit(k, e) = Bit(t, e)
          /\ Fork(k, t, end) = [e \in {f} |-> Single(k, f + 1)]
    BY <1>1, <2>2, ForkIs
  <2> QED
    BY <1>8, <2>1, <2>3
<1>9. DOMAIN fork \in SUBSET (end .. DEPTH - 1)
  <2>1. CASE last = {}
    BY <2>1 DEF NoSiblings
  <2>2. CASE last # {}
    BY <1>8, <2>2
  <2> QED
    BY <2>1, <2>2
<1> HIDE DEF siblings, met, fork, beside, last, U
<1>10. CASE d \in 0 .. end - 1
  <2>1. beside[d] = SubtreeRoot[d + 1][U]
    BY <1>10, SiblingsAreRoots DEF beside, U
  <2>2. d \notin DOMAIN fork
    <3>1. d \notin end .. DEPTH - 1
      BY <1>0, <1>1, <1>10
    <3> QED
      BY <1>9, <3>1
  <2>3. ASSUME d \in met PROVE Filled(siblings)[d] = SubtreeRoot[d + 1][U]
    BY <1>6, <1>7, <2>1, <2>3
  <2>4. ASSUME d \notin met PROVE Filled(siblings)[d] = SubtreeRoot[d + 1][U]
    <3>1. beside[d] = Default(d + 1)
      <4>1. d \in DOMAIN beside
        BY <1>4, <1>10
      <4>2. beside[d] = DEFAULTS[d + 1]
        BY <2>4, <4>1 DEF met
      <4> QED
        BY <1>0, <4>2, DefaultsAreDefaults
    <3> QED
      BY <1>6, <1>7, <2>1, <2>2, <2>4, <3>1
  <2> QED
    BY <2>3, <2>4 DEF siblings, U
<1>11. CASE d \in end .. DEPTH - 1
  <2>1. d \notin met
    BY <1>0, <1>1, <1>4, <1>11 DEF met
  <2>2. ASSUME NEW k \in U PROVE k \in last
    <3>1. \A e \in 0 .. end - 1 : e \in 0 .. d - 1
      BY <1>0, <1>1, <1>11
    <3>2. k \in Under(K, Place(t, d))
      BY <1>5, <2>2 DEF Side
    <3> QED
      BY <1>2, <3>1, <3>2, UnderPlace
  <2>3. CASE last = {}
    <3>1. U = {} /\ d \notin DOMAIN fork
      BY <2>2, <2>3 DEF fork, NoSiblings
    <3> QED
      BY <1>0, <1>6, <1>7, <2>1, <3>1, SubtreeRootIs DEF siblings, U
  <2>4. ASSUME NEW k \in last
        PROVE  Filled(siblings)[d] = SubtreeRoot[d + 1][U]
    <3>1. PICK f \in end .. DEPTH - 1 :
               /\ Bit(k, f) # Bit(t, f) /\ \A e \in 0 .. f - 1 : Bit(k, e) = Bit(t, e)
               /\ fork = [e \in {f} |-> Single(k, f + 1)]
      BY <1>8, <2>4
    <3>2. Bit(k, d) \in {0, 1} /\ Bit(t, d) \in {0, 1} /\ k \in K
      BY <1>2, <2>4, BitsTellApart, UnderPlace
    <3>3. \A l \in U : l = k
      BY <1>2, <2>2, <2>4
    <3>4. k \in U <=> (\A e \in 0 .. d - 1 : Bit(k, e) = Bit(t, e)) /\ Bit(k, d) = 1 - Bit(t, d)
      BY <1>5, <3>2, UnderPlace DEF Side
    <3>5. CASE d = f
      <4>1. k \in U
        BY <3>1, <3>2, <3>4, <3>5
      <4>2. U = {k}
        BY <3>3, <4>1
      <4>3. SubtreeRoot[d + 1][U] = Single(k, d + 1)
        BY <1>0, <1>5, <4>2, SubtreeRootIs
      <4>4. d \in DOMAIN fork /\ fork[d] = Single(k, d + 1)
        BY <3>1, <3>5
      <4> QED
        BY <1>6, <1>7, <2>1, <4>3, <4>4
    <3>6. CASE d # f
      <4>1. k \notin U
        <5>1. CASE d < f
          <6>1. d \in 0 .. f - 1
            BY <1>0, <1>1, <1>11, <3>1, <5>1
          <6> QED
            BY <3>1, <3>2, <3>4, <6>1
        <5>2. CASE f < d
          <6>1. f \in 0 .. d - 1
            BY <1>0, <1>1, <3>1, <5>2
          <6> QED
            BY <3>1, <3>4, <6>1
        <5> QED
          BY <1>0, <1>1, <3>1, <3>6, <5>1, <5>2
      <4>2. U = {} /\ d \notin DOMAIN fork
        BY <3>1, <3>3, <3>6, <4>1
      <4> QED
        BY <1>0, <1>5, <1>6, <1>7, <2>1, <4>2, SubtreeRootIs
    <3> QED
      BY <3>5, <3>6
  <2> QED
    BY <2>3, <2>4 DEF siblings, U
<1> QED
  BY <1>0, <1>1, <1>10, <1>11

LEMMA AbsenceVerifies ==
  ASSUME NEW K \in SUBSET Refs, NEW tree, Sound(tree, K), NEW t \in Refs \ K
  PROVE  VerifyAbsence(t, ProvenSiblings(tree, t), RootOf(tree))
<1> DEFINE siblings == Filled(ProvenSiblings(tree, t))
<1>0. DEPTH \in Nat /\ DEPTH \in 0 .. DEPTH /\ 0 \in 0 .. DEPTH
  BY TreeBounds
<1>1. \A d \in 0 .. DEPTH - 1 : siblings[d] = SubtreeRoot[d + 1][Under(K, Sibling(t, d))]
  BY ProofIsBeside
<1>2. SubtreeRoot[DEPTH][Under(K, Place(t, DEPTH))] = EmptyLeaf
  <2>1. Under(K, Place(t, DEPTH)) = {}
    BY UnderTheEnd
  <2> QED
    BY <1>0, <2>1, SubtreeRootIs DEF EmptyLeaf
<1> HIDE DEF siblings
<1>3. Ascend(t, DEPTH, EmptyLeaf, siblings)[0] = SubtreeRoot[0][Under(K, Place(t, 0))]
  BY <1>0, <1>1, <1>2, AscendMeetsRoots
<1>4. SubtreeRoot[0][Under(K, Place(t, 0))] = RootOf(tree)
  BY PlaceAtTop, RootOfSound
<1> QED
  BY <1>3, <1>4 DEF VerifyAbsence, siblings

LEMMA BesideIsHash ==
  ASSUME NEW K \in SUBSET Refs, NEW t \in Refs, NEW d \in 0 .. DEPTH - 1
  PROVE  IsHash(SubtreeRoot[d + 1][Under(K, Sibling(t, d))], d + 1)
<1>1. d + 1 \in 0 .. DEPTH /\ \A e \in 0 .. (d + 1) - 1 : e \in 0 .. d - 1 \/ e = d
  BY TreeBounds
<1>2. Under(K, Sibling(t, d)) = Side(Under(K, Place(t, d)), d, 1 - Bit(t, d))
  BY UnderSplits
<1>3. Under(K, Sibling(t, d)) \in SUBSET Refs /\ Alike(Under(K, Sibling(t, d)), d + 1)
  BY <1>1, <1>2, UnderPlace DEF Alike, Side
<1> QED
  BY <1>1, <1>3, SubtreeRootIsHash

\* No chain from an empty leaf at t's position ends in the root of a tree with
\* t, whatever hashes of the right depths are put beside it.
LEMMA PresenceDefies ==
  ASSUME NEW K \in SUBSET Refs, NEW t \in K, NEW siblings,
         \A d \in 0 .. DEPTH - 1 : IsHash(siblings[d], d + 1)
  PROVE  Ascend(t, DEPTH, EmptyLeaf, siblings)[0] # SubtreeRoot[0][K]
<1> DEFINE up == Ascend(t, DEPTH, EmptyLeaf, siblings)
           on(d) == SubtreeRoot[d][Under(K, Place(t, d))]
           beside(d) == SubtreeRoot[d + 1][Under(K, Sibling(t, d))]
           F == {d \in 0 .. DEPTH : ~IsHash(up[d], d)}
           G == {d \in 0 .. DEPTH : up[d] # on(d)}
<1>0. DEPTH \in Nat /\ t \in Refs
  BY TreeBounds
<1>1. up[DEPTH] = EmptyLeaf /\ \A d \in 0 .. DEPTH - 1 : up[d] = Parent(t, d, up[d + 1], siblings[d])
  BY <1>0, AscendStep
<1>2. \A d \in 0 .. DEPTH : Under(K, Place(t, d)) \in SUBSET Refs
  BY UnderPlace
<1>3. \A d \in 0 .. DEPTH - 1 : on(d) = Parent(t, d, on(d + 1), beside(d))
  BY <1>0, ParentOnPath
<1>4. \A d \in 0 .. DEPTH : IsHash(on(d), d)
  BY <1>2, UnderIsAlike, SubtreeRootIsHash
<1>5. \A d \in 0 .. DEPTH - 1 : IsHash(beside(d), d + 1)
  BY <1>0, BesideIsHash
<1>6. on(0) = SubtreeRoot[0][K]
  BY PlaceAtTop
<1>7. on(DEPTH) = Leaf(t)
  <2>1. Under(K, Place(t, DEPTH)) = {t} /\ DEPTH \in 0 .. DEPTH
    BY <1>0, UnderTheEnd
  <2> QED
    BY <1>0, <2>1, SubtreeRootIs DEF Leaf
<1> HIDE DEF up, on, beside
<1>8. F = {}
  <2> SUFFICES ASSUME F # {} PROVE FALSE
    OBVIOUS
  <2>1. PICK d \in F : \A i \in F : i <= d
    BY <1>0, GreatestOf
  <2>2. d # DEPTH
    BY <1>1, <2>1 DEF EmptyLeaf, IsHash
  <2>3. d \in 0 .. DEPTH - 1 /\ d + 1 \in 0 .. DEPTH /\ d + 1 \notin F /\ d \in Int
    BY <1>0, <2>1, <2>2
  <2>4. up[d] = Parent(t, d, up[d + 1], siblings[d]) /\ IsHash(up[d + 1], d + 1) /\ IsHash(siblings[d], d + 1)
    BY <1>1, <2>3
  <2>5. IsHash(Node(up[d + 1], siblings[d]), d) /\ IsHash(Node(siblings[d], up[d + 1]), d)
    BY <2>3, <2>4, NodeIsHash
  <2> QED
    BY <2>1, <2>4, <2>5 DEF Parent
<1>9. ASSUME up[0] = on(0) PROVE FALSE
  <2>1. DEPTH \in G
    BY <1>0, <1>1, <1>7, HashParts DEF EmptyLeaf, Leaf
  <2>2. PICK d \in G : \A i \in G : d <= i
    <3>1. G \in SUBSET (0 .. DEPTH) /\ G # {}
      BY <2>1
    <3> HIDE DEF G
    <3> QED
      BY <1>0, <3>1, LeastOf
  <2>3. d # 0 /\ d \in 0 .. DEPTH /\ up[d] # on(d)
    BY <1>9, <2>2
  <2>4. d - 1 \in 0 .. DEPTH - 1 /\ (d - 1) + 1 = d /\ d - 1 \in Int /\ d - 1 \in 0 .. DEPTH
    BY <1>0, <2>3
  <2>5. up[d - 1] = on(d - 1)
    <3>1. d - 1 \notin G
      <4>1. ~(d <= d - 1)
        BY <2>4
      <4> HIDE DEF G
      <4> QED
        BY <2>2, <4>1
    <3> QED
      BY <2>4, <3>1
  <2>6. Parent(t, d - 1, up[d], siblings[d - 1]) = Parent(t, d - 1, on(d), beside(d - 1))
    BY <1>1, <1>3, <2>4, <2>5
  <2>7. /\ IsHash(up[d], (d - 1) + 1) /\ IsHash(siblings[d - 1], (d - 1) + 1)
        /\ IsHash(on(d), (d - 1) + 1) /\ IsHash(beside(d - 1), (d - 1) + 1)
    BY <1>4, <1>5, <1>8, <2>3, <2>4
  <2>8. up[d] = on(d)
    <3>1. CASE Bit(t, d - 1) = 0
      <4>1. Node(up[d], siblings[d - 1]) = Node(on(d), beside(d - 1))
        BY <2>6, <3>1 DEF Parent
      <4> QED
        BY <2>4, <2>7, <4>1, NodeTellsChildren
    <3>2. CASE Bit(t, d - 1) # 0
      <4>1. Node(siblings[d - 1], up[d]) = Node(beside(d - 1), on(d))
        BY <2>6, <3>2 DEF Parent
      <4> QED
        BY <2>4, <2>7, <4>1, NodeTellsChildren
    <3> QED
      BY <3>1, <3>2
  <2> QED
    BY <2>3, <2>8
<1> QED
  BY <1>6, <1>9 DEF up

-----------------------------------------------------------------------------
(* The tree of a shard across batches *)

TreeInv == present \in SUBSET Refs /\ Sound(root, present)

LEMMA TreeInvInit ==
  ASSUME Init PROVE TreeInv
BY BuildIsSound DEF Init, TreeInit, TreeInv

LEMMA TreeInvNext ==
  ASSUME TreeInv, [Next]_vars PROVE TreeInv'
<1>1. CASE UNCHANGED vars
  BY <1>1 DEF vars, TreeInv
<1>2. ASSUME NEW n \in 1 .. MaxBatch, NEW refs \in [1 .. n -> present], Issue(refs)
      PROVE  TreeInv'
  <2>1. refs \in Seq(present)
    <3>1. n \in Nat
      BY TreeBounds
    <3> QED
      BY <1>2, <3>1, SeqDef
  <2>2. /\ root' = Removals(root, refs)[Len(refs)].root
        /\ present' = present \ ToSet(refs)
    BY <1>2 DEF Issue, RemoveBatch
  <2>3. Sound(root', present')
    BY <2>1, <2>2, RemovalsAreSound DEF TreeInv
  <2> QED
    BY <2>2, <2>3 DEF TreeInv
<1>3. ASSUME Rebuild PROVE TreeInv'
  <2>1. Sound(Build(present), present)
    BY BuildIsSound DEF TreeInv
  <2>2. root' = Build(present) /\ present' = present
    BY <1>3 DEF Rebuild
  <2> QED
    BY <2>1, <2>2 DEF TreeInv
<1> QED
  BY <1>1, <1>2, <1>3 DEF Next

LEMMA TreesStaySound == Spec => []TreeInv
<1>1. Init => TreeInv
  BY TreeInvInit
<1>2. TreeInv /\ [Next]_vars => TreeInv'
  BY TreeInvNext
<1> QED
  BY <1>1, <1>2, PTL DEF Spec

\* RemovalIsRebuild, of SparseMerkleTree.remove: a tree that any batches of
\* removals have worn down has the root build_root computes over the survivors.
THEOREM RemovingIsRebuilding == Spec => []RemovalIsRebuild
<1>1. TreeInv => RemovalIsRebuild
  BY RootOfSound DEF TreeInv, RemovalIsRebuild
<1> QED
  BY <1>1, TreesStaySound, PTL

LEMMA SparseProofIsSparse ==
  ASSUME NEW tree, NEW t
  PROVE  IsSparse(SparseProof(tree, t)) /\ SparseProof(tree, t).siblings = ProvenSiblings(tree, t)
BY DEF IsSparse, SparseProof

\* AbsentProved, of prove_absence and verify_absence: the absence of whoever is
\* not in the shard is proved from any tree its removals may have left.
THEOREM TheAbsentAreProvable == Spec => []AbsentProved
<1>1. TreeInv => AbsentProved
  BY AbsenceVerifies, SparseProofIsSparse DEF TreeInv, AbsentProved, AbsenceVerified
<1> QED
  BY <1>1, TreesStaySound, PTL

\* PresentUnprovable, of verify_absence: no proof made from a tree without the
\* subject verifies against the root of one with it.
THEOREM ThePresentAreNot == Spec => []PresentUnprovable
<1>1. ASSUME TreeInv PROVE PresentUnprovable
  <2> SUFFICES ASSUME NEW t \in present, NEW S \in SUBSET (Refs \ {t})
               PROVE  ~AbsenceVerified(t, SparseProof(Build(S), t), RootOf(root))
    BY <1>1 DEF PresentUnprovable, ProofsFor, TreeInv
  <2> DEFINE siblings == Filled(ProvenSiblings(Build(S), t))
  <2>1. t \in Refs /\ present \in SUBSET Refs /\ S \in SUBSET Refs /\ t \notin S
    BY <1>1 DEF TreeInv
  <2>2. \A d \in 0 .. DEPTH - 1 : siblings[d] = SubtreeRoot[d + 1][Under(S, Sibling(t, d))]
    <3> DEFINE tree == Build(S)
    <3>1. Sound(tree, S) /\ t \in Refs \ S
      BY <2>1, BuildIsSound
    <3> HIDE DEF tree
    <3>2. \A d \in 0 .. DEPTH - 1 :
            Filled(ProvenSiblings(tree, t))[d] = SubtreeRoot[d + 1][Under(S, Sibling(t, d))]
      BY <2>1, <3>1, ProofIsBeside
    <3> QED
      BY <3>2 DEF tree
  <2> HIDE DEF siblings
  <2>3. \A d \in 0 .. DEPTH - 1 : IsHash(siblings[d], d + 1)
    BY <2>1, <2>2, BesideIsHash
  <2>4. Ascend(t, DEPTH, EmptyLeaf, siblings)[0] # SubtreeRoot[0][present]
    BY <2>1, <2>3, PresenceDefies
  <2>5. RootOf(root) = SubtreeRoot[0][present]
    BY <1>1, RootOfSound DEF TreeInv
  <2> QED
    BY <2>4, <2>5, SparseProofIsSparse DEF AbsenceVerified, VerifyAbsence, siblings
<1> QED
  BY <1>1, TreesStaySound, PTL

-----------------------------------------------------------------------------
(* Manifests *)

LEMMA ManifestParts ==
  ASSUME NEW ref, NEW hash, NEW proof
  PROVE  LET m == Manifest(ref, hash, proof)
         IN  /\ m = [f \in REQUIRED_FIELDS |-> m[f]]
             /\ m.subject_ref = ref /\ m.dataset_root = hash /\ m.absence_proof = proof
             /\ \A f \in REQUIRED_FIELDS :
                  f \notin {"subject_ref", "dataset_root", "absence_proof"} => m[f] = "issued"
BY DEF Manifest, REQUIRED_FIELDS

\* Signing adds the signature and changes none of the bytes that were signed.
LEMMA SignedParts ==
  ASSUME NEW ref, NEW hash, NEW proof
  PROVE  LET b == Manifest(ref, hash, proof)
             m == Signed(b)
         IN  /\ m = [f \in REQUIRED_FIELDS \cup {"signature"} |-> m[f]]
             /\ \A f \in REQUIRED_FIELDS : m[f] = b[f]
             /\ m.signature = Signature("operator", m)
<1> DEFINE b == Manifest(ref, hash, proof)
           m == Signed(b)
<1>1. b = [f \in REQUIRED_FIELDS |-> b[f]]
  BY ManifestParts
<1>2. "signature" \notin REQUIRED_FIELDS
  BY DEF REQUIRED_FIELDS
<1> HIDE DEF b
<1>3. /\ m = [f \in REQUIRED_FIELDS \cup {"signature"} |-> m[f]]
      /\ \A f \in REQUIRED_FIELDS : m[f] = b[f]
      /\ m.signature = Signature("operator", b)
  <2>1. DOMAIN b = REQUIRED_FIELDS
    BY <1>1
  <2>2. m = [f \in {"signature"} \cup REQUIRED_FIELDS |->
               IF f \in {"signature"} THEN Signature("operator", b) ELSE b[f]]
    BY <2>1 DEF Signed
  <2> HIDE DEF m
  <2> QED
    BY <1>2, <2>2
<1> HIDE DEF m
<1>4. CanonicalBytes(m) = CanonicalBytes(b)
  <2>1. DOMAIN m \ {"signature"} = REQUIRED_FIELDS /\ DOMAIN b \ {"signature"} = REQUIRED_FIELDS
    BY <1>1, <1>2, <1>3
  <2> QED
    BY <1>3, <2>1 DEF CanonicalBytes
<1> QED
  BY <1>3, <1>4 DEF Signature, m, b

-----------------------------------------------------------------------------
(* What the operator has signed *)

WellSigned(m) ==
  /\ m = [f \in REQUIRED_FIELDS \cup {"signature"} |-> m[f]]
  /\ m.signature = Signature("operator", m)
  /\ \A f \in REQUIRED_FIELDS :
       f \notin {"subject_ref", "dataset_root", "absence_proof"} => m[f] = "issued"

\* A certificate of the sparse scheme has the siblings of some tree, and they
\* verify.
SparselyIssued(m) ==
  \E tree, t :
    /\ m.subject_ref = t /\ m.absence_proof = SparseProof(tree, t)
    /\ DOMAIN ProvenSiblings(tree, t) \subseteq 0 .. DEPTH - 1
    /\ VerifyAbsence(t, ProvenSiblings(tree, t), m.dataset_root)

LegacyIssued(m) ==
  \E S \in SUBSET Refs : \E t \in Refs \ S :
    /\ m.subject_ref = t /\ m.absence_proof = ProveAbsence(t, S)
    /\ m.dataset_root = BuildRoot(S)

CertInv == \A m \in cert : WellSigned(m) /\ (SparselyIssued(m) \/ LegacyIssued(m))

LEMMA SignedIsWellSigned ==
  ASSUME NEW ref, NEW hash, NEW proof
  PROVE  LET m == Signed(Manifest(ref, hash, proof))
         IN  /\ WellSigned(m)
             /\ m.subject_ref = ref /\ m.dataset_root = hash /\ m.absence_proof = proof
<1> DEFINE b == Manifest(ref, hash, proof)
           m == Signed(b)
<1>1. /\ m = [f \in REQUIRED_FIELDS \cup {"signature"} |-> m[f]]
      /\ \A f \in REQUIRED_FIELDS : m[f] = b[f]
      /\ m.signature = Signature("operator", m)
  BY SignedParts
<1>2. /\ b.subject_ref = ref /\ b.dataset_root = hash /\ b.absence_proof = proof
      /\ \A f \in REQUIRED_FIELDS :
           f \notin {"subject_ref", "dataset_root", "absence_proof"} => b[f] = "issued"
  BY ManifestParts
<1>3. {"subject_ref", "dataset_root", "absence_proof"} \subseteq REQUIRED_FIELDS
  BY DEF REQUIRED_FIELDS
<1> HIDE DEF b, m
<1>4. m.subject_ref = ref /\ m.dataset_root = hash /\ m.absence_proof = proof
  BY <1>1, <1>2, <1>3
<1>5. WellSigned(m)
  BY <1>1, <1>2 DEF WellSigned
<1> QED
  BY <1>4, <1>5 DEF m, b

LEMMA ProofDepths ==
  ASSUME NEW K, NEW tree, Sound(tree, K), NEW t \in Refs \ K
  PROVE  DOMAIN ProvenSiblings(tree, t) \subseteq 0 .. DEPTH - 1
<1> DEFINE end == EndOf(tree, t)
           last == tree.key[Place(t, end)]
<1>0. DEPTH \in Nat
  BY TreeBounds
<1>1. end \in 0 .. DEPTH
  BY EndOfPath
<1>2. DOMAIN SiblingsOn(tree, t) \subseteq 0 .. DEPTH - 1
  BY <1>0, <1>1 DEF SiblingsOn
<1>3. DOMAIN Fork(TheKey(last), t, end) \subseteq 0 .. DEPTH - 1
  BY <1>0, <1>1 DEF Fork
<1>4. DOMAIN NoSiblings = {}
  BY DEF NoSiblings
<1> QED
  BY <1>2, <1>3, <1>4 DEF ProvenSiblings

LEMMA CertInvInit ==
  ASSUME Init PROVE CertInv
<1> SUFFICES ASSUME NEW m \in cert PROVE WellSigned(m) /\ LegacyIssued(m)
  BY DEF CertInv
<1>1. PICK ref \in Refs \ present : m = LegacyCertificate(present, ref)
  BY DEF Init
<1>2. present \in SUBSET Refs
  BY DEF Init, TreeInit
<1> QED
  BY <1>1, <1>2, SignedIsWellSigned DEF LegacyCertificate, LegacyIssued

LEMMA CertInvNext ==
  ASSUME TreeInv, TreeInv', CertInv, [Next]_vars PROVE CertInv'
<1>1. ASSUME cert' = cert PROVE CertInv'
  BY <1>1 DEF CertInv
<1>2. ASSUME NEW n \in 1 .. MaxBatch, NEW refs \in [1 .. n -> present], Issue(refs)
      PROVE  CertInv'
  <2>1. PICK t \in ToSet(refs) : cert' = {Certificate(root', t)}
    BY <1>2 DEF Issue
  <2>2. t \in Refs \ present'
    BY <1>2, <2>1 DEF Issue, RemoveBatch, TreeInv
  <2>3. Sound(root', present') /\ present' \in SUBSET Refs
    BY DEF TreeInv
  <2> DEFINE m == Certificate(root', t)
  <2>4. /\ WellSigned(m) /\ m.subject_ref = t
        /\ m.dataset_root = RootOf(root') /\ m.absence_proof = SparseProof(root', t)
    BY SignedIsWellSigned DEF Certificate
  <2>5. /\ DOMAIN ProvenSiblings(root', t) \subseteq 0 .. DEPTH - 1
        /\ VerifyAbsence(t, ProvenSiblings(root', t), RootOf(root'))
    BY <2>2, <2>3, ProofDepths, AbsenceVerifies
  <2> HIDE DEF m
  <2>6. WellSigned(m) /\ SparselyIssued(m)
    BY <2>4, <2>5 DEF SparselyIssued
  <2>7. cert' = {m}
    BY <2>1 DEF m
  <2> QED
    BY <2>6, <2>7 DEF CertInv
<1>3. CASE UNCHANGED vars
  BY <1>1, <1>3 DEF vars
<1>4. CASE Rebuild /\ UNCHANGED cert
  BY <1>1, <1>4
<1> QED
  BY <1>2, <1>3, <1>4 DEF Next

LEMMA CertificatesAreKept == Spec => [](TreeInv /\ CertInv)
<1>1. Init => TreeInv /\ CertInv
  BY TreeInvInit, CertInvInit
<1>2. TreeInv /\ CertInv /\ [Next]_vars => TreeInv' /\ CertInv'
  BY TreeInvNext, CertInvNext
<1> QED
  BY <1>1, <1>2, PTL DEF Spec

LEMMA LegacyIsNotSparse ==
  ASSUME NEW t, NEW S PROVE ~IsSparse(ProveAbsence(t, S))
BY DEF IsSparse, ProveAbsence

LEMMA CanonicalParts ==
  ASSUME NEW m, WellSigned(m)
  PROVE  /\ DOMAIN m = REQUIRED_FIELDS \cup {"signature"} /\ DOMAIN CanonicalBytes(m) = REQUIRED_FIELDS
         /\ \A f \in REQUIRED_FIELDS :
              CanonicalBytes(m)[f] = IF f = "absence_proof" THEN Canonical(m[f]) ELSE m[f]
<1>1. "signature" \notin REQUIRED_FIELDS
  BY DEF REQUIRED_FIELDS
<1>2. DOMAIN m = REQUIRED_FIELDS \cup {"signature"}
  BY DEF WellSigned
<1>3. DOMAIN m \ {"signature"} = REQUIRED_FIELDS
  BY <1>1, <1>2
<1>4. DOMAIN CanonicalBytes(m) = DOMAIN m \ {"signature"}
  BY DEF CanonicalBytes
<1>5. \A f \in DOMAIN m \ {"signature"} :
        CanonicalBytes(m)[f] = IF f = "absence_proof" THEN Canonical(m[f]) ELSE m[f]
  BY DEF CanonicalBytes
<1> QED
  BY <1>2, <1>3, <1>4, <1>5

\* The canonical bytes of a proof tell its siblings.
LEMMA CanonicalTellsProof ==
  ASSUME NEW m, SparselyIssued(m) \/ LegacyIssued(m), NEW tree, NEW t,
         Canonical(SparseProof(tree, t)) = Canonical(m.absence_proof)
  PROVE  SparseProof(tree, t) = m.absence_proof
<1> DEFINE p == SparseProof(tree, t)
           place(q) == [d \in DOMAIN q.siblings |-> <<PlaceOf(q, d), q.siblings[d]>>]
<1>1. ASSUME NEW u, NEW s
      PROVE  /\ IsSparse(SparseProof(u, s))
             /\ Canonical(SparseProof(u, s)) =
                  [scheme |-> "smt-256", siblings |-> place(SparseProof(u, s))]
             /\ SparseProof(u, s).siblings = ProvenSiblings(u, s)
  BY SparseProofIsSparse DEF Canonical
<1>2. CASE LegacyIssued(m)
  <2>1. PICK S, s : m.absence_proof = ProveAbsence(s, S)
    BY <1>2 DEF LegacyIssued
  <2>2. Canonical(m.absence_proof) = m.absence_proof
    BY <2>1, LegacyIsNotSparse DEF Canonical
  <2>3. "scheme" \in DOMAIN Canonical(p)
    BY <1>1
  <2>4. "scheme" \notin DOMAIN m.absence_proof
    BY <2>1 DEF ProveAbsence
  <2> QED
    BY <2>2, <2>3, <2>4
<1>3. CASE SparselyIssued(m)
  <2>1. PICK u, s : m.absence_proof = SparseProof(u, s)
    BY <1>3 DEF SparselyIssued
  <2> DEFINE q == SparseProof(u, s)
             a == ProvenSiblings(tree, t)
             b == ProvenSiblings(u, s)
  <2>2. place(p) = place(q)
    BY <1>1, <2>1
  <2>3. p.siblings = a /\ q.siblings = b
    BY <1>1
  <2> HIDE DEF p, q
  <2>4. DOMAIN a = DOMAIN b
    BY <2>2, <2>3
  <2>5. ASSUME NEW d \in DOMAIN a PROVE a[d] = b[d]
    <3>1. place(p)[d] = <<PlaceOf(p, d), a[d]>> /\ place(q)[d] = <<PlaceOf(q, d), b[d]>>
      BY <2>3, <2>4
    <3> QED
      BY <2>2, <3>1
  <2>6. a = [d \in DOMAIN a |-> a[d]] /\ b = [d \in DOMAIN b |-> b[d]]
    BY DEF ProvenSiblings
  <2> HIDE DEF a, b
  <2>7. a = b
    BY <2>4, <2>5, <2>6
  <2> QED
    BY <2>1, <2>7 DEF SparseProof, a, b
<1> QED
  BY <1>2, <1>3

\* AcceptedIsIssued, of canonical_bytes and verify_certificate: nothing the
\* operator did not sign is accepted, under either scheme.
THEOREM OnlyTheSignedIsAccepted == Spec => []AcceptedIsIssued
<1>1. ASSUME CertInv PROVE AcceptedIsIssued
  <2> SUFFICES ASSUME NEW m \in cert
               PROVE  /\ Verdict(m, "other") # "VERIFIED"
                      /\ \A f \in DOMAIN m :
                           Verdict([g \in DOMAIN m \ {f} |-> m[g]], "operator") # "VERIFIED"
                      /\ \A f \in REQUIRED_FIELDS : \A value \in Others(m, f) :
                           Verdict([m EXCEPT ![f] = value], "operator") # "VERIFIED"
    BY DEF AcceptedIsIssued
  <2>1. WellSigned(m) /\ (SparselyIssued(m) \/ LegacyIssued(m))
    BY <1>1 DEF CertInv
  <2>2. DOMAIN m = REQUIRED_FIELDS \cup {"signature"} /\ m.signature = Signature("operator", m)
    BY <2>1, CanonicalParts DEF WellSigned
  <2>3. Verdict(m, "other") # "VERIFIED"
    <3>1. m.signature # Signature("other", m)
      BY <2>2 DEF Signature
    <3> QED
      BY <3>1 DEF Verdict
  <2>4. ASSUME NEW f \in DOMAIN m
        PROVE  Verdict([g \in DOMAIN m \ {f} |-> m[g]], "operator") # "VERIFIED"
    <3> DEFINE r == [g \in DOMAIN m \ {f} |-> m[g]]
    <3>1. f \notin DOMAIN r
      OBVIOUS
    <3> HIDE DEF r
    <3>2. ~(REQUIRED_FIELDS \subseteq DOMAIN r) \/ "signature" \notin DOMAIN r
      BY <2>2, <3>1
    <3>3. Verdict(r, "operator") # "VERIFIED"
      BY <3>2 DEF Verdict
    <3> QED
      BY <3>3 DEF r
  <2>5. ASSUME NEW f \in REQUIRED_FIELDS, NEW value \in Others(m, f)
        PROVE  Verdict([m EXCEPT ![f] = value], "operator") # "VERIFIED"
    <3> DEFINE r == [m EXCEPT ![f] = value]
    <3>1. f # "signature" /\ f \in DOMAIN m /\ DOMAIN r = DOMAIN m
      BY <2>2 DEF REQUIRED_FIELDS
    <3>2. r[f] = value /\ r.signature = m.signature
      BY <2>2, <3>1
    <3> HIDE DEF r
    <3>3. CanonicalBytes(r)[f] = IF f = "absence_proof" THEN Canonical(value) ELSE value
      BY <3>1, <3>2 DEF CanonicalBytes
    <3>4. CanonicalBytes(m)[f] = IF f = "absence_proof" THEN Canonical(m[f]) ELSE m[f]
      BY <2>1, CanonicalParts
    <3>5. CASE f = "absence_proof"
      <4>1. PICK t : value = SparseProof(root, t) /\ value # m.absence_proof
        BY <2>5, <3>5 DEF Others
      <4>2. Canonical(value) # Canonical(m.absence_proof)
        BY <2>1, <4>1, CanonicalTellsProof
      <4>3. CanonicalBytes(r) # CanonicalBytes(m)
        BY <3>3, <3>4, <3>5, <4>2
      <4> QED
        BY <2>2, <3>2, <4>3 DEF Verdict, Signature, r
    <3>6. CASE f # "absence_proof"
      <4>1. value # m[f]
        <5>1. CASE f \in {"subject_ref", "dataset_root"}
          BY <5>1 DEF Others
        <5>2. CASE f \notin {"subject_ref", "dataset_root"}
          <6>1. value = "altered"
            BY <3>6, <5>2 DEF Others
          <6>2. m[f] = "issued"
            BY <2>1, <3>6, <5>2 DEF WellSigned
          <6> QED
            BY <6>1, <6>2
        <5> QED
          BY <5>1, <5>2
      <4>2. CanonicalBytes(r) # CanonicalBytes(m)
        BY <3>3, <3>4, <3>6, <4>1
      <4> QED
        BY <2>2, <3>2, <4>2 DEF Verdict, Signature, r
    <3> QED
      BY <3>5, <3>6
  <2> QED
    BY <2>3, <2>4, <2>5
<1> QED
  BY <1>1, CertificatesAreKept, PTL

-----------------------------------------------------------------------------
(* Halving *)

LEMMA HalfIs ==
  ASSUME NEW n \in Nat
  PROVE  /\ Half(n) \in Nat /\ Half(n) <= n
         /\ n # 0 => Half(n) < n
         /\ Odd(n) => n = 2 * Half(n) + 1
         /\ ~Odd(n) => n = 2 * Half(n)
BY DEF Half, Odd

LEMMA HalfOfDouble ==
  ASSUME NEW m \in Nat
  PROVE  /\ Half(2 * m) = m /\ Half(2 * m + 1) = m
         /\ ~Odd(2 * m) /\ Odd(2 * m + 1)
BY DEF Half, Odd

\* A function on numbers may be defined by its value at the half of each, where
\* it does not stop.
LEMMA HalvingRecursion ==
  ASSUME NEW V, NEW stop, 0 \in stop, NEW base \in [Nat -> V], NEW up \in [V -> V]
  PROVE  \E f \in [Nat -> V] :
           \A m \in Nat : f[m] = IF m \in stop THEN base[m] ELSE up[f[Half(m)]]
<1> DEFINE Sol(N, f) ==
             /\ f \in [0 .. N -> V]
             /\ \A m \in 0 .. N : f[m] = IF m \in stop THEN base[m] ELSE up[f[Half(m)]]
<1>1. ASSUME NEW M \in Nat PROVE \E f : Sol(M, f)
  <2> DEFINE F == {N \in 0 .. M : ~\E f : Sol(N, f)}
  <2>1. F = {}
    <3> SUFFICES ASSUME F # {} PROVE FALSE
      OBVIOUS
    <3>1. PICK N \in F : \A i \in F : N <= i
      <4>1. F \in SUBSET (0 .. M)
        OBVIOUS
      <4> HIDE DEF F
      <4> QED
        BY <4>1, LeastOf
    <3>2. N \in 0 .. M /\ ~\E f : Sol(N, f)
      BY <3>1
    <3>3. N # 0
      <4> DEFINE f == [m \in 0 .. 0 |-> base[m]]
      <4>1. Sol(0, f)
        OBVIOUS
      <4> HIDE DEF Sol, f
      <4> QED
        BY <3>2, <4>1
    <3>4. N - 1 \in 0 .. M /\ N - 1 \notin F /\ N - 1 \in Nat
      <4> HIDE DEF F
      <4> QED
        BY <3>1, <3>2, <3>3
    <3>5. PICK f : Sol(N - 1, f)
      BY <3>4
    <3> DEFINE last == IF N \in stop THEN base[N] ELSE up[f[Half(N)]]
               g == [m \in 0 .. N |-> IF m = N THEN last ELSE f[m]]
    <3>6. Half(N) \in 0 .. N - 1
      BY <3>2, <3>3, HalfIs
    <3>7. last \in V
      BY <3>2, <3>5, <3>6
    <3>8. g[N] = last /\ \A m \in 0 .. N - 1 : g[m] = f[m]
      BY <3>2
    <3>9. ASSUME NEW m \in 0 .. N
          PROVE  g[m] \in V /\ g[m] = IF m \in stop THEN base[m] ELSE up[g[Half(m)]]
      <4> HIDE DEF g, last
      <4>1. CASE m = N
        BY <3>6, <3>7, <3>8, <4>1 DEF last
      <4>2. CASE m # N
        <5>1. m \in 0 .. N - 1 /\ m \in Nat
          BY <3>2, <4>2
        <5>2. Half(m) \in 0 .. N - 1
          BY <5>1, HalfIs
        <5> QED
          BY <3>5, <3>8, <5>1, <5>2
      <4> QED
        BY <4>1, <4>2
    <3>10. g = [m \in 0 .. N |-> g[m]]
      OBVIOUS
    <3> HIDE DEF g, last
    <3>11. Sol(N, g)
      BY <3>9, <3>10
    <3> HIDE DEF Sol
    <3> QED
      BY <3>2, <3>11
  <2>2. M \in 0 .. M /\ M \notin F
    <3>1. M \in 0 .. M
      OBVIOUS
    <3> HIDE DEF F
    <3> QED
      BY <2>1, <3>1
  <2> HIDE DEF Sol
  <2> QED
    BY <2>2
<1>2. ASSUME NEW N \in Nat, NEW M \in Nat, NEW f, NEW g, Sol(N, f), Sol(M, g), N <= M,
             NEW m \in 0 .. N
      PROVE  f[m] = g[m]
  <2> DEFINE F == {i \in 0 .. N : f[i] # g[i]}
  <2>1. F = {}
    <3> SUFFICES ASSUME F # {} PROVE FALSE
      OBVIOUS
    <3>1. PICK i \in F : \A j \in F : i <= j
      <4>1. F \in SUBSET (0 .. N)
        OBVIOUS
      <4> HIDE DEF F
      <4> QED
        BY <4>1, LeastOf
    <3>2. i \in 0 .. N /\ i \in 0 .. M /\ i \in Nat /\ f[i] # g[i]
      BY <1>2, <3>1
    <3>3. i \notin stop
      BY <1>2, <3>2
    <3>4. i # 0
      BY <3>3
    <3>5. Half(i) \in 0 .. N /\ ~(i <= Half(i))
      BY <3>2, <3>4, HalfIs
    <3>6. Half(i) \notin F
      <4> HIDE DEF F
      <4> QED
        BY <3>1, <3>5
    <3>7. f[Half(i)] = g[Half(i)]
      BY <3>5, <3>6
    <3>8. f[i] = up[f[Half(i)]] /\ g[i] = up[g[Half(i)]]
      BY <1>2, <3>2, <3>3
    <3> QED
      BY <3>2, <3>7, <3>8
  <2>2. m \notin F
    <3> HIDE DEF F
    <3> QED
      BY <2>1
  <2> QED
    BY <2>2
<1> DEFINE best(N) == CHOOSE f : Sol(N, f)
           W == [m \in Nat |-> best(m)[m]]
<1>3. ASSUME NEW N \in Nat PROVE Sol(N, best(N))
  <2> HIDE DEF Sol
  <2> QED
    BY <1>1
<1>4. ASSUME NEW m \in Nat
      PROVE  W[m] \in V /\ W[m] = IF m \in stop THEN base[m] ELSE up[W[Half(m)]]
  <2>1. Sol(m, best(m)) /\ Sol(Half(m), best(Half(m))) /\ Half(m) \in Nat /\ Half(m) <= m
    BY <1>3, HalfIs
  <2>2. Half(m) \in 0 .. Half(m) /\ m \in 0 .. m
    BY <2>1
  <2>3. best(Half(m))[Half(m)] = best(m)[Half(m)]
    <3> HIDE DEF Sol, best
    <3> QED
      BY <1>2, <2>1, <2>2
  <2>4. W[m] = best(m)[m] /\ W[Half(m)] = best(Half(m))[Half(m)]
    BY <2>1
  <2> HIDE DEF best, W
  <2> QED
    BY <2>1, <2>2, <2>3, <2>4
<1>5. W \in [Nat -> V]
  <2>1. W = [m \in Nat |-> W[m]]
    OBVIOUS
  <2> HIDE DEF W
  <2> QED
    BY <1>4, <2>1
<1> HIDE DEF W
<1> QED
  BY <1>4, <1>5

LEMMA TopBitIs ==
  ASSUME NEW m \in Nat
  PROVE  /\ TopBit[m] \in Nat
         /\ TopBit[m] = IF m <= 1 THEN 1 ELSE 2 * TopBit[Half(m)]
<1> DEFINE next(f) == [n \in Nat |-> IF n <= 1 THEN 1 ELSE 2 * f[Half(n)]]
           base == [n \in Nat |-> 1]
           up == [x \in Nat |-> 2 * x]
           stop == {0, 1}
           V == Nat
<1>1. PICK f \in [Nat -> V] :
        \A n \in Nat : f[n] = IF n \in stop THEN base[n] ELSE up[f[Half(n)]]
  <2>1. base \in [Nat -> V] /\ up \in [V -> V] /\ 0 \in stop
    OBVIOUS
  <2> HIDE DEF base, up, stop, V
  <2> QED
    BY <2>1, HalvingRecursion
<1>2. ASSUME NEW n \in Nat PROVE f[n] = IF n <= 1 THEN 1 ELSE 2 * f[Half(n)]
  <2>1. n \in stop <=> n <= 1
    OBVIOUS
  <2>2. f[Half(n)] \in Nat
    BY HalfIs
  <2> QED
    BY <1>1, <2>1, <2>2
<1>3. f = next(f)
  BY <1>2
<1>4. TopBit = next(TopBit)
  <2>1. TopBit = CHOOSE g : g = next(g)
    BY DEF TopBit
  <2> HIDE DEF next
  <2> QED
    BY <1>3, <2>1
<1>5. \A n \in Nat : TopBit[n] = IF n <= 1 THEN 1 ELSE 2 * TopBit[Half(n)]
  BY <1>4
<1> HIDE DEF next
<1> DEFINE F == {n \in 0 .. m : TopBit[n] \notin Nat}
<1>6. F = {}
  <2> SUFFICES ASSUME F # {} PROVE FALSE
    OBVIOUS
  <2>1. PICK n \in F : \A i \in F : n <= i
    <3>1. F \in SUBSET (0 .. m)
      OBVIOUS
    <3> HIDE DEF F
    <3> QED
      BY <3>1, LeastOf
  <2>2. n \in Nat /\ n \in 0 .. m /\ TopBit[n] \notin Nat
    BY <2>1
  <2>3. ~(n <= 1)
    BY <1>5, <2>2
  <2>4. Half(n) \in 0 .. m /\ ~(n <= Half(n))
    BY <2>2, <2>3, HalfIs
  <2>5. Half(n) \notin F
    <3> HIDE DEF F
    <3> QED
      BY <2>1, <2>4
  <2>6. TopBit[Half(n)] \in Nat
    BY <2>4, <2>5
  <2>7. TopBit[n] = 2 * TopBit[Half(n)]
    BY <1>5, <2>2, <2>3
  <2> QED
    BY <2>2, <2>6, <2>7
<1> QED
  BY <1>5, <1>6

Powers == {TopBit[m] : m \in Nat}

\* The highest bit of a number divides by two until it is one.
LEMMA PowerParts ==
  ASSUME NEW p \in Powers
  PROVE  /\ p \in Nat /\ p >= 1
         /\ p = 1 \/ \E q \in Powers : p = 2 * q
<1>1. PICK m \in Nat : p = TopBit[m]
  BY DEF Powers
<1> DEFINE Good(n) == /\ TopBit[n] >= 1
                      /\ TopBit[n] = 1 \/ \E q \in Powers : TopBit[n] = 2 * q
           F == {n \in 0 .. m : ~Good(n)}
<1>2. F = {}
  <2> SUFFICES ASSUME F # {} PROVE FALSE
    OBVIOUS
  <2>1. PICK n \in F : \A i \in F : n <= i
    <3>1. F \in SUBSET (0 .. m)
      OBVIOUS
    <3> HIDE DEF F
    <3> QED
      BY <3>1, LeastOf
  <2>2. n \in Nat /\ n \in 0 .. m /\ ~Good(n)
    BY <2>1
  <2>3. ~(n <= 1)
    BY <2>2, TopBitIs
  <2>4. Half(n) \in 0 .. m /\ ~(n <= Half(n)) /\ Half(n) \in Nat
    BY <2>2, <2>3, HalfIs
  <2>5. Half(n) \notin F
    <3> HIDE DEF F
    <3> QED
      BY <2>1, <2>4
  <2>6. TopBit[Half(n)] >= 1 /\ TopBit[Half(n)] \in Nat
    BY <2>4, <2>5, TopBitIs
  <2>7. TopBit[n] = 2 * TopBit[Half(n)] /\ TopBit[Half(n)] \in Powers
    BY <2>2, <2>3, <2>4, TopBitIs DEF Powers
  <2>8. TopBit[n] >= 1
    BY <2>6, <2>7
  <2> QED
    BY <2>2, <2>7, <2>8
<1>3. Good(m)
  BY <1>2
<1> QED
  BY <1>1, <1>3, TopBitIs

LEMMA TopBitBounds ==
  ASSUME NEW m \in Nat, m # 0
  PROVE  TopBit[m] <= m /\ m < 2 * TopBit[m]
<1> DEFINE F == {n \in 0 .. m : n # 0 /\ ~(TopBit[n] <= n /\ n < 2 * TopBit[n])}
<1>1. F = {}
  <2> SUFFICES ASSUME F # {} PROVE FALSE
    OBVIOUS
  <2>1. PICK n \in F : \A i \in F : n <= i
    <3>1. F \in SUBSET (0 .. m)
      OBVIOUS
    <3> HIDE DEF F
    <3> QED
      BY <3>1, LeastOf
  <2>2. n \in Nat /\ n \in 0 .. m /\ n # 0 /\ ~(TopBit[n] <= n /\ n < 2 * TopBit[n])
    BY <2>1
  <2>3. n # 1
    BY <2>2, TopBitIs
  <2>4. Half(n) \in 0 .. m /\ ~(n <= Half(n)) /\ Half(n) \in Nat /\ Half(n) # 0
        /\ (n = 2 * Half(n) \/ n = 2 * Half(n) + 1)
    BY <2>2, <2>3, HalfIs
  <2>5. Half(n) \notin F
    <3> HIDE DEF F
    <3> QED
      BY <2>1, <2>4
  <2>6. TopBit[Half(n)] <= Half(n) /\ Half(n) < 2 * TopBit[Half(n)] /\ TopBit[Half(n)] \in Nat
    BY <2>4, <2>5, TopBitIs
  <2>7. TopBit[n] = 2 * TopBit[Half(n)]
    BY <2>2, <2>3, TopBitIs
  <2> QED
    BY <2>2, <2>4, <2>6, <2>7
<1> QED
  BY <1>1

\* The split of n leaves puts a power of two on the left, and no more on the right.
LEMMA SplitIs ==
  ASSUME NEW n \in Nat, n > 1
  PROVE  /\ Split(n) \in Powers /\ Split(n) \in 1 .. n - 1
         /\ n - Split(n) \in 1 .. n - 1
         /\ n <= 2 * Split(n)
<1>1. n - 1 \in Nat /\ n - 1 # 0
  OBVIOUS
<1>2. TopBit[n - 1] \in Nat /\ TopBit[n - 1] <= n - 1 /\ n - 1 < 2 * TopBit[n - 1]
  BY <1>1, TopBitIs, TopBitBounds
<1>3. Split(n) \in Powers
  BY <1>1 DEF Split, Powers
<1> QED
  BY <1>1, <1>2, <1>3 DEF Split

LEMMA SkipIs ==
  ASSUME NEW fn \in Nat, NEW sn \in Nat
  PROVE  SkipLonely[fn][sn] =
           IF fn # 0 /\ ~Odd(fn) THEN SkipLonely[Half(fn)][Half(sn)] ELSE <<fn, sn>>
<1> DEFINE V == [Nat -> Nat \X Nat]
           stop == {n \in Nat : n = 0 \/ Odd(n)}
           base == [n \in Nat |-> [s \in Nat |-> <<n, s>>]]
           up == [x \in V |-> [s \in Nat |-> x[Half(s)]]]
           next(f) == [n \in Nat |-> [s \in Nat |->
                         IF n # 0 /\ ~Odd(n) THEN f[Half(n)][Half(s)] ELSE <<n, s>>]]
<1>1. base \in [Nat -> V] /\ 0 \in stop
  OBVIOUS
<1>2. up \in [V -> V]
  <2>1. ASSUME NEW x \in V PROVE [s \in Nat |-> x[Half(s)]] \in V
    <3>1. \A s \in Nat : Half(s) \in Nat
      BY HalfIs
    <3> QED
      BY <3>1
  <2> HIDE DEF V
  <2> QED
    BY <2>1
<1>3. PICK f \in [Nat -> V] :
        \A n \in Nat : f[n] = IF n \in stop THEN base[n] ELSE up[f[Half(n)]]
  <2> HIDE DEF base, up, stop, V
  <2> QED
    BY <1>1, <1>2, HalvingRecursion
<1>4. ASSUME NEW n \in Nat
      PROVE  f[n] = [s \in Nat |-> IF n # 0 /\ ~Odd(n) THEN f[Half(n)][Half(s)] ELSE <<n, s>>]
  <2>1. CASE n \in stop
    <3>1. f[n] = base[n] /\ ~(n # 0 /\ ~Odd(n))
      BY <1>3, <2>1
    <3>2. base[n] = [s \in Nat |-> <<n, s>>]
      OBVIOUS
    <3> HIDE DEF base
    <3> QED
      BY <3>1, <3>2
  <2>2. CASE n \notin stop
    <3>1. f[n] = up[f[Half(n)]] /\ n # 0 /\ ~Odd(n)
      BY <1>3, <2>2
    <3>2. f[Half(n)] \in V
      <4> HIDE DEF V
      <4> QED
        BY <1>3, HalfIs
    <3>3. up[f[Half(n)]] = [s \in Nat |-> f[Half(n)][Half(s)]]
      <4> HIDE DEF V
      <4> QED
        BY <3>2
    <3> QED
      BY <3>1, <3>3
  <2> QED
    BY <2>1, <2>2
<1>5. f = next(f)
  <2>1. f = [n \in Nat |-> f[n]]
    <3> HIDE DEF V
    <3> QED
      BY <1>3
  <2> QED
    BY <1>4, <2>1
<1>6. SkipLonely = next(SkipLonely)
  <2>1. SkipLonely = CHOOSE g : g = next(g)
    BY DEF SkipLonely
  <2> HIDE DEF next
  <2> QED
    BY <1>5, <2>1
<1>7. SkipLonely[fn] = [s \in Nat |->
         IF fn # 0 /\ ~Odd(fn) THEN SkipLonely[Half(fn)][Half(s)] ELSE <<fn, s>>]
  BY <1>6
<1> QED
  BY <1>7

LEMMA DoubleIs ==
  ASSUME NEW q \in Powers
  PROVE  q \in Nat /\ q >= 1 /\ ~Odd(2 * q) /\ Half(2 * q) = q
BY PowerParts, HalfOfDouble

\* Adding a double moves a number's half by its half.
LEMMA HalfOfSum ==
  ASSUME NEW n \in Nat, NEW q \in Nat
  PROVE  Half(n + 2 * q) = Half(n) + q /\ (Odd(n + 2 * q) <=> Odd(n))
BY DEF Half, Odd

\* A power of two on its own is skipped to the top.
LEMMA SkipOfPower ==
  ASSUME NEW p \in Powers
  PROVE  SkipLonely[p][p] = <<1, 1>>
<1> DEFINE F == {q \in 0 .. p : q \in Powers /\ SkipLonely[q][q] # <<1, 1>>}
<1>0. p \in Nat
  BY PowerParts
<1>1. F = {}
  <2> SUFFICES ASSUME F # {} PROVE FALSE
    OBVIOUS
  <2>1. PICK q \in F : \A i \in F : q <= i
    <3>1. F \in SUBSET (0 .. p)
      OBVIOUS
    <3> HIDE DEF F
    <3> QED
      BY <1>0, <3>1, LeastOf
  <2>2. q \in Nat /\ q \in 0 .. p /\ q \in Powers /\ SkipLonely[q][q] # <<1, 1>>
    BY <1>0, <2>1
  <2>3. q # 1
    <3>1. Odd(1)
      BY DEF Odd
    <3>2. SkipLonely[1][1] = <<1, 1>>
      BY <3>1, SkipIs
    <3> QED
      BY <2>2, <3>2
  <2>4. PICK r \in Powers : q = 2 * r
    BY <2>2, <2>3, PowerParts
  <2>5. r \in Nat /\ r >= 1 /\ ~Odd(q) /\ Half(q) = r /\ q # 0
    BY <2>4, DoubleIs
  <2>6. r \in 0 .. p /\ ~(q <= r)
    BY <2>2, <2>4, <2>5
  <2>7. r \notin F
    <3> HIDE DEF F
    <3> QED
      BY <2>1, <2>6
  <2>8. SkipLonely[r][r] = <<1, 1>>
    BY <2>4, <2>6, <2>7
  <2>9. SkipLonely[q][q] = SkipLonely[Half(q)][Half(q)]
    <3> HIDE DEF F
    <3> QED
      BY <2>2, <2>5, SkipIs
  <2> QED
    BY <2>2, <2>5, <2>8, <2>9
<1> QED
  BY <1>0, <1>1

\* The places f among 0 .. s, and f + p among 0 .. s + p, are skipped alike.
SkippedAlike(f, s, p) ==
  \E g, h \in Nat : \E q \in Powers :
    /\ SkipLonely[f][s] = <<g, h>> /\ SkipLonely[f + p][s + p] = <<g + q, h + q>>
    /\ Odd(g) /\ g <= h /\ h < q

LEMMA SkipBeside ==
  ASSUME NEW f \in Nat, NEW s \in Nat, NEW p \in Powers, f # 0, f <= s, s < p
  PROVE  SkippedAlike(f, s, p)
<1> DEFINE Bad(e) == \E t \in Nat : \E q \in Powers : e # 0 /\ e <= t /\ t < q /\ ~SkippedAlike(e, t, q)
           F == {e \in 0 .. f : Bad(e)}
<1>1. F = {}
  <2> SUFFICES ASSUME F # {} PROVE FALSE
    OBVIOUS
  <2>1. PICK e \in F : \A i \in F : e <= i
    <3>1. F \in SUBSET (0 .. f)
      OBVIOUS
    <3> HIDE DEF F
    <3> QED
      BY <3>1, LeastOf
  <2>2. e \in 0 .. f /\ e \in Nat /\ Bad(e)
    BY <2>1
  <2>3. PICK t \in Nat, q \in Powers : e # 0 /\ e <= t /\ t < q /\ ~SkippedAlike(e, t, q)
    BY <2>2
  <2>4. q \in Nat /\ q # 1
    BY <2>2, <2>3, PowerParts
  <2>5. PICK r \in Powers : q = 2 * r
    BY <2>4, PowerParts
  <2>6. r \in Nat /\ r >= 1
    BY PowerParts
  <2>7. /\ Half(e + q) = Half(e) + r /\ Half(t + q) = Half(t) + r
        /\ Odd(e + q) <=> Odd(e)
    BY <2>2, <2>5, <2>6, HalfOfSum
  <2>8. e + q \in Nat /\ t + q \in Nat /\ e + q # 0
    BY <2>2, <2>4
  <2>9. CASE Odd(e)
    <3>1. SkipLonely[e][t] = <<e, t>>
      BY <2>2, <2>9, SkipIs
    <3>2. SkipLonely[e + q][t + q] = <<e + q, t + q>>
      BY <2>7, <2>8, <2>9, SkipIs
    <3> QED
      BY <2>2, <2>3, <2>9, <3>1, <3>2 DEF SkippedAlike
  <2>10. CASE ~Odd(e)
    <3>1. /\ Half(e) \in Nat /\ Half(t) \in Nat /\ Half(e) # 0 /\ Half(e) \in 0 .. f /\ ~(e <= Half(e))
          /\ e = 2 * Half(e) /\ (t = 2 * Half(t) \/ t = 2 * Half(t) + 1)
      BY <2>2, <2>3, <2>10, HalfIs
    <3>2. Half(e) <= Half(t) /\ Half(t) < r
      BY <2>2, <2>3, <2>5, <2>6, <3>1
    <3>3. Half(e) \notin F
      <4> HIDE DEF F
      <4> QED
        BY <2>1, <3>1
    <3>4. SkippedAlike(Half(e), Half(t), r)
      <4>1. ~Bad(Half(e))
        <5> HIDE DEF Bad
        <5> QED
          BY <3>1, <3>3
      <4> QED
        BY <3>1, <3>2, <4>1
    <3>5. SkipLonely[e][t] = SkipLonely[Half(e)][Half(t)]
      BY <2>2, <2>3, <2>10, SkipIs
    <3>6. SkipLonely[e + q][t + q] = SkipLonely[Half(e) + r][Half(t) + r]
      BY <2>7, <2>8, <2>10, SkipIs
    <3> QED
      BY <2>3, <3>4, <3>5, <3>6 DEF SkippedAlike
  <2> QED
    BY <2>9, <2>10
<1>2. ~Bad(f)
  <2>1. f \in 0 .. f /\ f \notin F
    BY <1>1
  <2> HIDE DEF Bad
  <2> QED
    BY <2>1
<1> QED
  BY <1>2

\* A pass of the loop in the right part of a tree, and in that part alone.
Right(a, b) ==
  \E p \in Powers :
    /\ a.fn \in Nat /\ a.sn \in Nat /\ a.fn <= a.sn /\ a.sn < p
    /\ b.fn = a.fn + p /\ b.sn = a.sn + p /\ b.hash = a.hash

LEMMA ClimbRight ==
  ASSUME NEW a, NEW b, NEW sibling, Right(a, b), a.sn # 0
  PROVE  Right(Climb(a, sibling), Climb(b, sibling))
<1>1. PICK p \in Powers :
        /\ a.fn \in Nat /\ a.sn \in Nat /\ a.fn <= a.sn /\ a.sn < p
        /\ b.fn = a.fn + p /\ b.sn = a.sn + p /\ b.hash = a.hash
  BY DEF Right
<1>2. p \in Nat /\ p # 1
  BY <1>1, PowerParts
<1>3. PICK r \in Powers : p = 2 * r
  BY <1>2, PowerParts
<1>4. r \in Nat /\ r >= 1
  BY PowerParts
<1>5. /\ Half(b.fn) = Half(a.fn) + r /\ Half(b.sn) = Half(a.sn) + r
      /\ Odd(b.fn) <=> Odd(a.fn)
      /\ b.fn = b.sn <=> a.fn = a.sn
  <2> DEFINE fn == a.fn
             sn == a.sn
  <2>1. fn \in Nat /\ sn \in Nat /\ b.fn = fn + p /\ b.sn = sn + p
    BY <1>1
  <2> HIDE DEF fn, sn
  <2>2. /\ Half(fn + 2 * r) = Half(fn) + r /\ Half(sn + 2 * r) = Half(sn) + r
        /\ Odd(fn + 2 * r) <=> Odd(fn)
    BY <1>4, <2>1, HalfOfSum
  <2>3. b.fn = b.sn <=> fn = sn
    BY <1>2, <2>1
  <2> QED
    BY <1>3, <2>1, <2>2, <2>3 DEF fn, sn
<1>6. CASE Odd(a.fn) \/ a.fn = a.sn
  <2>1. a.fn # 0
    BY <1>6 DEF Odd
  <2>2. SkippedAlike(a.fn, a.sn, p)
    BY <1>1, <2>1, SkipBeside
  <2>3. PICK g \in Nat, h \in Nat, q \in Powers :
          /\ SkipLonely[a.fn][a.sn] = <<g, h>> /\ SkipLonely[b.fn][b.sn] = <<g + q, h + q>>
          /\ Odd(g) /\ g <= h /\ h < q
    BY <1>1, <2>2 DEF SkippedAlike
  <2>4. q \in Nat /\ q # 1
    <3>1. g # 0
      BY <2>3 DEF Odd
    <3> QED
      BY <2>3, <3>1, PowerParts
  <2>5. PICK u \in Powers : q = 2 * u
    BY <2>4, PowerParts
  <2>6. u \in Nat /\ Half(g + q) = Half(g) + u /\ Half(h + q) = Half(h) + u
    BY <2>5, PowerParts, HalfOfSum
  <2>7. /\ Half(g) \in Nat /\ Half(h) \in Nat
        /\ g = 2 * Half(g) + 1 /\ (h = 2 * Half(h) \/ h = 2 * Half(h) + 1)
    BY <2>3, HalfIs
  <2>8. Half(g) <= Half(h) /\ Half(h) < u
    BY <2>3, <2>5, <2>6, <2>7
  <2>9. Climb(a, sibling) = [hash |-> NodeHash(sibling, a.hash), fn |-> Half(g), sn |-> Half(h)]
    BY <1>6, <2>3 DEF Climb
  <2>10. Climb(b, sibling) = [hash |-> NodeHash(sibling, a.hash), fn |-> Half(g) + u, sn |-> Half(h) + u]
    BY <1>1, <1>5, <1>6, <2>3, <2>6 DEF Climb
  <2> QED
    BY <2>7, <2>8, <2>9, <2>10 DEF Right
<1>7. CASE ~(Odd(a.fn) \/ a.fn = a.sn)
  <2>1. /\ Half(a.fn) \in Nat /\ Half(a.sn) \in Nat
        /\ a.fn = 2 * Half(a.fn) /\ (a.sn = 2 * Half(a.sn) \/ a.sn = 2 * Half(a.sn) + 1)
    BY <1>1, <1>7, HalfIs
  <2>2. Half(a.fn) <= Half(a.sn) /\ Half(a.sn) < r
    BY <1>1, <1>3, <1>4, <2>1
  <2>3. Climb(a, sibling) = [hash |-> NodeHash(a.hash, sibling), fn |-> Half(a.fn), sn |-> Half(a.sn)]
    BY <1>7 DEF Climb
  <2>4. Climb(b, sibling) = [hash |-> NodeHash(a.hash, sibling), fn |-> Half(a.fn) + r, sn |-> Half(a.sn) + r]
    BY <1>1, <1>5, <1>7 DEF Climb
  <2> QED
    BY <2>1, <2>2, <2>3, <2>4 DEF Right
<1> QED
  BY <1>6, <1>7

\* Where the left part ends, the whole ends one pass later.
LEMMA RightEnds ==
  ASSUME NEW a, NEW b, NEW sibling, Right(a, b), a.sn = 0
  PROVE  Climb(b, sibling) = [hash |-> NodeHash(sibling, a.hash), fn |-> 0, sn |-> 0] /\ b.sn # 0
<1>1. PICK p \in Powers :
        /\ a.fn \in Nat /\ a.sn \in Nat /\ a.fn <= a.sn /\ a.sn < p
        /\ b.fn = a.fn + p /\ b.sn = a.sn + p /\ b.hash = a.hash
  BY DEF Right
<1>2. p \in Nat /\ p >= 1
  BY PowerParts
<1>3. b.fn = p /\ b.sn = p /\ SkipLonely[p][p] = <<1, 1>>
  BY <1>1, <1>2, SkipOfPower
<1>4. Half(1) = 0
  BY DEF Half
<1> QED
  BY <1>1, <1>2, <1>3, <1>4 DEF Climb

\* A pass of the loop in the left part of a tree, and in that part alone, which
\* is full.
Left(a, b) ==
  \E p \in Powers :
    /\ a.fn \in 0 .. p - 1 /\ a.sn = p - 1
    /\ b.fn = a.fn /\ b.sn \in p .. 2 * p - 1 /\ b.hash = a.hash

LEMMA ClimbLeft ==
  ASSUME NEW a, NEW b, NEW sibling, Left(a, b), a.sn # 0
  PROVE  Left(Climb(a, sibling), Climb(b, sibling))
<1>1. PICK p \in Powers :
        /\ a.fn \in 0 .. p - 1 /\ a.sn = p - 1
        /\ b.fn = a.fn /\ b.sn \in p .. 2 * p - 1 /\ b.hash = a.hash
  BY DEF Left
<1>2. p \in Nat /\ p # 1
  BY <1>1, PowerParts
<1>3. PICK r \in Powers : p = 2 * r
  BY <1>2, PowerParts
<1>4. r \in Nat /\ r >= 1
  BY PowerParts
<1>5. a.fn \in Nat /\ a.sn \in Nat /\ b.sn \in Nat
  BY <1>1, <1>2
<1>6. a.sn = 2 * (r - 1) + 1 /\ r - 1 \in Nat
  BY <1>1, <1>3, <1>4
<1>7. Half(a.sn) = r - 1 /\ Odd(a.sn)
  BY <1>6, HalfOfDouble
<1>8. /\ Half(b.sn) \in Nat /\ Half(a.fn) \in Nat
      /\ b.sn = 2 * Half(b.sn) \/ b.sn = 2 * Half(b.sn) + 1
      /\ a.fn = 2 * Half(a.fn) \/ a.fn = 2 * Half(a.fn) + 1
  BY <1>5, HalfIs
<1>9. Half(b.sn) \in r .. 2 * r - 1 /\ Half(a.fn) \in 0 .. r - 1
  BY <1>1, <1>3, <1>4, <1>8
<1>10. CASE Odd(a.fn)
  <2>1. SkipLonely[a.fn][a.sn] = <<a.fn, a.sn>> /\ SkipLonely[b.fn][b.sn] = <<b.fn, b.sn>>
    BY <1>1, <1>5, <1>10, SkipIs
  <2>2. Climb(a, sibling) = [hash |-> NodeHash(sibling, a.hash), fn |-> Half(a.fn), sn |-> r - 1]
    BY <1>7, <1>10, <2>1 DEF Climb
  <2>3. Climb(b, sibling) = [hash |-> NodeHash(sibling, a.hash), fn |-> Half(a.fn), sn |-> Half(b.sn)]
    BY <1>1, <1>10, <2>1 DEF Climb
  <2> QED
    BY <1>9, <2>2, <2>3 DEF Left
<1>11. CASE ~Odd(a.fn)
  <2>1. a.fn # a.sn /\ b.fn # b.sn
    BY <1>1, <1>2, <1>5, <1>7, <1>11
  <2>2. Climb(a, sibling) = [hash |-> NodeHash(a.hash, sibling), fn |-> Half(a.fn), sn |-> r - 1]
    BY <1>7, <1>11, <2>1 DEF Climb
  <2>3. Climb(b, sibling) = [hash |-> NodeHash(a.hash, sibling), fn |-> Half(a.fn), sn |-> Half(b.sn)]
    BY <1>1, <1>11, <2>1 DEF Climb
  <2> QED
    BY <1>9, <2>2, <2>3 DEF Left
<1> QED
  BY <1>10, <1>11

LEMMA LeftEnds ==
  ASSUME NEW a, NEW b, NEW sibling, Left(a, b), a.sn = 0
  PROVE  Climb(b, sibling) = [hash |-> NodeHash(a.hash, sibling), fn |-> 0, sn |-> 0] /\ b.sn # 0
<1>1. PICK p \in Powers :
        /\ a.fn \in 0 .. p - 1 /\ a.sn = p - 1
        /\ b.fn = a.fn /\ b.sn \in p .. 2 * p - 1 /\ b.hash = a.hash
  BY DEF Left
<1>2. p \in Nat /\ p >= 1
  BY PowerParts
<1>3. b.fn = 0 /\ b.sn = 1
  BY <1>1, <1>2
<1>4. Half(1) = 0 /\ Half(0) = 0 /\ ~Odd(0)
  BY DEF Half, Odd
<1> QED
  BY <1>1, <1>3, <1>4 DEF Climb

-----------------------------------------------------------------------------
(* Audit paths *)

IsSeq(p) == \E T : p \in Seq(T)

LEMMA AppendIs ==
  ASSUME NEW p, IsSeq(p), NEW e
  PROVE  /\ IsSeq(Append(p, e)) /\ Len(p) \in Nat /\ Len(Append(p, e)) = Len(p) + 1
         /\ \A i \in 1 .. Len(p) : Append(p, e)[i] = p[i]
         /\ Append(p, e)[Len(p) + 1] = e
<1>1. PICK T : p \in Seq(T)
  BY DEF IsSeq
<1> DEFINE U == T \cup {e}
<1>2. p \in Seq(U) /\ e \in U
  <2>1. Len(p) \in Nat /\ p = [i \in 1 .. Len(p) |-> p[i]] /\ \A i \in 1 .. Len(p) : p[i] \in T
    BY <1>1
  <2>2. \A i \in 1 .. Len(p) : p[i] \in U
    BY <2>1
  <2> HIDE DEF U
  <2>3. p \in Seq(U)
    BY <2>1, <2>2, IsASeq
  <2> QED
    BY <2>3 DEF U
<1> HIDE DEF U
<1>3. Append(p, e) \in Seq(U)
  BY <1>2
<1> QED
  BY <1>2, <1>3, AppendProperties DEF IsSeq

\* The loop of reconstruct_root, pass by pass.
LEMMA ClimbsIs ==
  ASSUME NEW leaf, NEW index, NEW size, NEW path, Len(path) \in Nat
  PROVE  LET at == Climbs(leaf, index, size, path)
         IN  /\ at[0] = [hash |-> LeafHash(leaf), fn |-> index, sn |-> size - 1]
             /\ \A i \in 1 .. Len(path) : at[i] = Climb(at[i - 1], path[i])
<1> DEFINE start == [hash |-> LeafHash(leaf), fn |-> index, sn |-> size - 1]
           next(N, f) == [i \in 0 .. N |-> IF i = 0 THEN start ELSE Climb(f[i - 1], path[i])]
           L == Len(path)
           F == {N \in 0 .. L : ~\E f : f = next(N, f)}
<1>1. F = {}
  <2> SUFFICES ASSUME F # {} PROVE FALSE
    OBVIOUS
  <2>1. PICK N \in F : \A i \in F : N <= i
    <3>1. F \in SUBSET (0 .. L)
      OBVIOUS
    <3> HIDE DEF F
    <3> QED
      BY <3>1, LeastOf
  <2>2. N \in 0 .. L /\ N \in Nat /\ ~\E f : f = next(N, f)
    BY <2>1
  <2>3. N # 0
    <3> DEFINE f == [i \in 0 .. 0 |-> start]
    <3>1. f = next(0, f)
      OBVIOUS
    <3> HIDE DEF f, next
    <3> QED
      BY <2>2, <3>1
  <2>4. N - 1 \in 0 .. L /\ N - 1 \notin F
    <3>1. N - 1 \in 0 .. L /\ ~(N <= N - 1)
      BY <2>2, <2>3
    <3> HIDE DEF F
    <3> QED
      BY <2>1, <3>1
  <2>5. PICK f : f = next(N - 1, f)
    <3> HIDE DEF next
    <3> QED
      BY <2>4
  <2> DEFINE g == [i \in 0 .. N |-> IF i = N THEN Climb(f[N - 1], path[N]) ELSE f[i]]
  <2>6. \A i \in 0 .. N - 1 : g[i] = f[i] /\ f[i] = (IF i = 0 THEN start ELSE Climb(f[i - 1], path[i]))
    BY <2>2, <2>5
  <2>7. g[N] = Climb(g[N - 1], path[N])
    BY <2>2, <2>3
  <2>8. ASSUME NEW i \in 0 .. N
        PROVE  g[i] = IF i = 0 THEN start ELSE Climb(g[i - 1], path[i])
    <3> HIDE DEF g, start
    <3>1. CASE i = N
      BY <2>3, <2>7, <3>1
    <3>2. CASE i = 0
      BY <2>2, <2>3, <2>6, <3>2
    <3>3. CASE i # N /\ i # 0
      <4>1. i \in 0 .. N - 1 /\ i - 1 \in 0 .. N - 1
        BY <2>2, <3>3
      <4> QED
        BY <2>6, <3>3, <4>1
    <3> QED
      BY <3>1, <3>2, <3>3
  <2>9. g = next(N, g)
    <3>1. g = [i \in 0 .. N |-> g[i]]
      OBVIOUS
    <3> HIDE DEF g, start
    <3> QED
      BY <2>8, <3>1
  <2> HIDE DEF g, next
  <2> QED
    BY <2>2, <2>9
<1> DEFINE at == Climbs(leaf, index, size, path)
<1>2. at = next(L, at)
  <2>1. at = CHOOSE f : f = next(L, f)
    BY DEF Climbs
  <2>2. L \in 0 .. L /\ L \notin F
    BY <1>1
  <2>3. \E f : f = next(L, f)
    <3> HIDE DEF next, L
    <3> QED
      BY <2>2
  <2> HIDE DEF at, next, L
  <2> QED
    BY <2>1, <2>3
<1> HIDE DEF at
<1>3. \A i \in 0 .. L : at[i] = IF i = 0 THEN start ELSE Climb(at[i - 1], path[i])
  BY <1>2
<1>4. at[0] = start
  BY <1>3
<1>5. \A i \in 1 .. L : at[i] = Climb(at[i - 1], path[i])
  BY <1>3
<1> QED
  BY <1>4, <1>5 DEF at

\* Two runs of the loop from one index and size.
InStep(a, b) == a.fn = b.fn /\ a.sn = b.sn

LEMMA ClimbStarts ==
  ASSUME NEW leaf, NEW index, NEW size, NEW path, Len(path) \in Nat
  PROVE  Climbs(leaf, index, size, path)[0]
           = [hash |-> LeafHash(leaf), fn |-> index, sn |-> size - 1]
BY ClimbsIs

LEMMA NodeHashTells ==
  ASSUME NEW a, NEW b, NEW p, NEW q
  PROVE  /\ NodeHash(a, b) = NodeHash(p, q) => a = p /\ b = q
         /\ LeafHash(a) = LeafHash(b) => a = b
         /\ NodeHash(a, b) # EmptyHash /\ LeafHash(a) # EmptyHash
<1>1. /\ NodeHash(a, b)[2] = a /\ NodeHash(a, b)[3] = b /\ NodeHash(p, q)[2] = p /\ NodeHash(p, q)[3] = q
      /\ LeafHash(a)[2] = a /\ LeafHash(b)[2] = b
      /\ NodeHash(a, b)[1] = "node" /\ LeafHash(a)[1] = "leaf" /\ EmptyHash[1] = "empty"
  BY DEF NodeHash, LeafHash, EmptyHash
<1> QED
  BY <1>1

LEMMA ClimbAlike ==
  ASSUME NEW a, NEW b, InStep(a, b), NEW x, NEW y
  PROVE  /\ InStep(Climb(a, x), Climb(b, y))
         /\ Climb(a, x).hash = Climb(b, y).hash => a.hash = b.hash
<1>1. CASE Odd(a.fn) \/ a.fn = a.sn
  <2> DEFINE past == SkipLonely[a.fn][a.sn]
  <2>1. Climb(a, x) = [hash |-> NodeHash(x, a.hash), fn |-> Half(past[1]), sn |-> Half(past[2])]
    BY <1>1 DEF Climb
  <2>2. Climb(b, y) = [hash |-> NodeHash(y, b.hash), fn |-> Half(past[1]), sn |-> Half(past[2])]
    BY <1>1 DEF Climb, InStep
  <2> QED
    BY <2>1, <2>2, NodeHashTells DEF InStep
<1>2. CASE ~(Odd(a.fn) \/ a.fn = a.sn)
  <2>1. Climb(a, x) = [hash |-> NodeHash(a.hash, x), fn |-> Half(a.fn), sn |-> Half(a.sn)]
    BY <1>2 DEF Climb
  <2>2. Climb(b, y) = [hash |-> NodeHash(b.hash, y), fn |-> Half(a.fn), sn |-> Half(a.sn)]
    BY <1>2 DEF Climb, InStep
  <2> QED
    BY <2>1, <2>2, NodeHashTells DEF InStep
<1> QED
  BY <1>1, <1>2

\* A leaf and a path determine a root, and so does the root the leaf: from one
\* index in a tree of one size, no two leaves climb to the same hash.
LEMMA HashTellsLeaf ==
  ASSUME NEW leaf, NEW other, NEW index, NEW size, NEW path, NEW beside,
         Len(path) \in Nat, Len(beside) \in Nat,
         RunsOut(Climbs(leaf, index, size, path), Len(path)),
         RunsOut(Climbs(other, index, size, beside), Len(beside)),
         Climbs(leaf, index, size, path)[Len(path)].hash
           = Climbs(other, index, size, beside)[Len(beside)].hash
  PROVE  leaf = other
<1> DEFINE a == Climbs(leaf, index, size, path)
           b == Climbs(other, index, size, beside)
           m == Len(path)
           n == Len(beside)
<1>1. /\ m \in Nat /\ n \in Nat
      /\ RunsOut(a, m) /\ RunsOut(b, n) /\ a[m].hash = b[n].hash
  OBVIOUS
<1>2. /\ a[0] = [hash |-> LeafHash(leaf), fn |-> index, sn |-> size - 1]
      /\ \A i \in 1 .. m : a[i] = Climb(a[i - 1], path[i])
  BY ClimbsIs
<1>3. /\ b[0] = [hash |-> LeafHash(other), fn |-> index, sn |-> size - 1]
      /\ \A i \in 1 .. n : b[i] = Climb(b[i - 1], beside[i])
  BY ClimbsIs
<1> HIDE DEF a, b, m, n
<1> DEFINE F == {i \in 0 .. m : i <= n /\ ~InStep(a[i], b[i])}
<1>4. F = {}
  <2> SUFFICES ASSUME F # {} PROVE FALSE
    OBVIOUS
  <2>1. PICK i \in F : \A j \in F : i <= j
    <3>1. F \in SUBSET (0 .. m)
      OBVIOUS
    <3> HIDE DEF F
    <3> QED
      BY <1>1, <3>1, LeastOf
  <2>2. i \in 0 .. m /\ i <= n /\ ~InStep(a[i], b[i])
    BY <2>1
  <2>3. i # 0
    BY <1>2, <1>3, <2>2 DEF InStep
  <2>4. i \in 1 .. m /\ i \in 1 .. n /\ i - 1 \in 0 .. m /\ i - 1 <= n /\ ~(i <= i - 1)
    BY <1>1, <2>2, <2>3
  <2>5. i - 1 \notin F
    <3> HIDE DEF F
    <3> QED
      BY <2>1, <2>4
  <2>6. InStep(a[i - 1], b[i - 1])
    BY <2>4, <2>5
  <2>7. a[i] = Climb(a[i - 1], path[i]) /\ b[i] = Climb(b[i - 1], beside[i])
    BY <1>2, <1>3, <2>4
  <2> QED
    BY <2>2, <2>6, <2>7, ClimbAlike
<1>5. \A i \in 0 .. m : i <= n => InStep(a[i], b[i])
  BY <1>4
<1>6. m = n
  <2>1. a[m].sn = 0 /\ b[n].sn = 0
    BY <1>1 DEF RunsOut
  <2>2. ~(m < n)
    <3> SUFFICES ASSUME m < n PROVE FALSE
      OBVIOUS
    <3>1. m \in 0 .. n - 1 /\ m \in 0 .. m
      BY <1>1
    <3>2. b[m].sn # 0
      BY <1>1, <3>1 DEF RunsOut
    <3> QED
      BY <1>1, <1>5, <2>1, <3>1, <3>2 DEF InStep
  <2>3. ~(n < m)
    <3> SUFFICES ASSUME n < m PROVE FALSE
      OBVIOUS
    <3>1. n \in 0 .. m - 1 /\ n \in 0 .. m
      BY <1>1
    <3>2. a[n].sn # 0
      BY <1>1, <3>1 DEF RunsOut
    <3> QED
      BY <1>1, <1>5, <2>1, <3>1, <3>2 DEF InStep
  <2> QED
    BY <1>1, <2>2, <2>3
<1> DEFINE G == {i \in 0 .. m : a[i].hash = b[i].hash}
<1>7. PICK i \in G : \A j \in G : i <= j
  <2>1. G \in SUBSET (0 .. m) /\ m \in G
    BY <1>1, <1>6
  <2> HIDE DEF G
  <2> QED
    BY <1>1, <2>1, LeastOf
<1>8. i \in 0 .. m /\ a[i].hash = b[i].hash
  BY <1>7
<1>9. i = 0
  <2> SUFFICES ASSUME i # 0 PROVE FALSE
    OBVIOUS
  <2>1. i \in 1 .. m /\ i \in 1 .. n /\ i - 1 \in 0 .. m /\ i - 1 <= n /\ ~(i <= i - 1)
    BY <1>1, <1>6, <1>8
  <2>2. a[i] = Climb(a[i - 1], path[i]) /\ b[i] = Climb(b[i - 1], beside[i])
    BY <1>2, <1>3, <2>1
  <2>3. InStep(a[i - 1], b[i - 1])
    BY <1>5, <2>1
  <2>4. a[i - 1].hash = b[i - 1].hash
    BY <1>8, <2>2, <2>3, ClimbAlike
  <2>5. i - 1 \in G
    BY <2>1, <2>4
  <2> HIDE DEF G
  <2> QED
    BY <1>7, <2>1, <2>5
<1> QED
  BY <1>2, <1>3, <1>8, <1>9, NodeHashTells

\* _mth, slice by slice.
LEMMA SliceRootsIs ==
  ASSUME NEW leaves, Len(leaves) \in Nat,
         NEW n \in 0 .. Len(leaves), NEW from \in 0 .. Len(leaves)
  PROVE  LET mth == SliceRoots(leaves)
         IN  mth[n][from] =
               IF n = 0 THEN EmptyHash
               ELSE IF n = 1 THEN LeafHash(leaves[from + 1])
               ELSE NodeHash(mth[Split(n)][from], mth[n - Split(n)][from + Split(n)])
<1> DEFINE L == Len(leaves)
           row(m, f) ==
             [at \in 0 .. L |->
                IF m = 0 THEN EmptyHash
                ELSE IF m = 1 THEN LeafHash(leaves[at + 1])
                ELSE NodeHash(f[Split(m)][at], f[m - Split(m)][at + Split(m)])]
           next(N, f) == [m \in 0 .. N |-> row(m, f)]
           F == {N \in 0 .. L : ~\E f : f = next(N, f)}
<1>1. F = {}
  <2> SUFFICES ASSUME F # {} PROVE FALSE
    OBVIOUS
  <2>1. PICK N \in F : \A i \in F : N <= i
    <3>1. F \in SUBSET (0 .. L)
      OBVIOUS
    <3> HIDE DEF F
    <3> QED
      BY <3>1, LeastOf
  <2>2. N \in 0 .. L /\ N \in Nat /\ ~\E f : f = next(N, f)
    <3> HIDE DEF next
    <3> QED
      BY <2>1
  <2>3. N # 0
    <3> DEFINE f == [m \in 0 .. 0 |-> row(0, leaves)]
    <3>1. row(0, f) = row(0, leaves)
      OBVIOUS
    <3> HIDE DEF row
    <3>2. f = next(0, f)
      BY <3>1
    <3> HIDE DEF f, next
    <3> QED
      BY <2>2, <3>2
  <2>4. N - 1 \in 0 .. L /\ N - 1 \notin F
    <3>1. N - 1 \in 0 .. L /\ ~(N <= N - 1)
      BY <2>2, <2>3
    <3> HIDE DEF F
    <3> QED
      BY <2>1, <3>1
  <2>5. PICK f : f = next(N - 1, f)
    <3> HIDE DEF next
    <3> QED
      BY <2>4
  <2> DEFINE g == [m \in 0 .. N |-> IF m = N THEN row(N, f) ELSE f[m]]
  <2> HIDE DEF row
  <2>6. \A m \in 0 .. N - 1 : g[m] = f[m] /\ f[m] = row(m, f)
    BY <2>2, <2>5
  <2>7. ASSUME NEW m \in 0 .. N PROVE row(m, f) = row(m, g)
    <3> HIDE DEF g
    <3>1. CASE m <= 1
      <4>1. m = 0 \/ m = 1
        BY <2>2, <3>1
      <4> QED
        BY <4>1 DEF row
    <3>2. CASE ~(m <= 1)
      <4>1. m \in Nat /\ m > 1
        BY <2>2, <3>2
      <4>2. Split(m) \in 1 .. m - 1 /\ m - Split(m) \in 1 .. m - 1
        BY <4>1, SplitIs
      <4>3. Split(m) \in 0 .. N - 1 /\ m - Split(m) \in 0 .. N - 1
        BY <2>2, <4>1, <4>2
      <4>4. f[Split(m)] = g[Split(m)] /\ f[m - Split(m)] = g[m - Split(m)]
        BY <2>6, <4>3
      <4> QED
        BY <4>4 DEF row
    <3> QED
      BY <3>1, <3>2
  <2>8. ASSUME NEW m \in 0 .. N PROVE g[m] = row(m, g)
    <3>1. CASE m = N
      BY <2>7, <3>1
    <3>2. CASE m # N
      <4>1. m \in 0 .. N - 1
        BY <2>2, <3>2
      <4> HIDE DEF g
      <4> QED
        BY <2>6, <2>7, <4>1
    <3> QED
      BY <3>1, <3>2
  <2>9. g = next(N, g)
    <3>1. g = [m \in 0 .. N |-> g[m]]
      OBVIOUS
    <3> HIDE DEF g
    <3> QED
      BY <2>8, <3>1
  <2> HIDE DEF g, next
  <2> QED
    BY <2>2, <2>9
<1> DEFINE h == SliceRoots(leaves)
<1>2. h = next(L, h)
  <2>1. h = CHOOSE f : f = next(L, f)
    BY DEF SliceRoots
  <2>2. L \in 0 .. L /\ L \notin F
    <3> HIDE DEF F
    <3> QED
      BY <1>1
  <2>3. \E f : f = next(L, f)
    <3> HIDE DEF next, L
    <3> QED
      BY <2>2
  <2> HIDE DEF h, next, L
  <2> QED
    BY <2>1, <2>3
<1> HIDE DEF h, row
<1>3. h[n] = row(n, h)
  BY <1>2
<1>4. h[n][from] =
        IF n = 0 THEN EmptyHash
        ELSE IF n = 1 THEN LeafHash(leaves[from + 1])
        ELSE NodeHash(h[Split(n)][from], h[n - Split(n)][from + Split(n)])
  BY <1>3 DEF row
<1> QED
  BY <1>4 DEF h

\* _audit_path, slice by slice.
LEMMA SlicePathsIs ==
  ASSUME NEW leaves, Len(leaves) \in Nat,
         NEW n \in 0 .. Len(leaves), NEW from \in 0 .. Len(leaves), NEW index \in 0 .. Len(leaves)
  PROVE  LET path == SlicePaths(leaves)
             mth == SliceRoots(leaves)
         IN  path[n][from][index] =
               IF n <= 1 THEN <<>>
               ELSE IF index < Split(n)
               THEN Append(path[Split(n)][from][index], mth[n - Split(n)][from + Split(n)])
               ELSE Append(path[n - Split(n)][from + Split(n)][index - Split(n)],
                           mth[Split(n)][from])
<1> DEFINE L == Len(leaves)
           row(m, f) ==
             [at \in 0 .. L |-> [i \in 0 .. L |->
                IF m <= 1 THEN <<>>
                ELSE IF i < Split(m)
                THEN Append(f[Split(m)][at][i], SliceRoots(leaves)[m - Split(m)][at + Split(m)])
                ELSE Append(f[m - Split(m)][at + Split(m)][i - Split(m)],
                            SliceRoots(leaves)[Split(m)][at])]]
           next(N, f) == [m \in 0 .. N |-> row(m, f)]
           F == {N \in 0 .. L : ~\E f : f = next(N, f)}
<1>1. F = {}
  <2> SUFFICES ASSUME F # {} PROVE FALSE
    OBVIOUS
  <2>1. PICK N \in F : \A i \in F : N <= i
    <3>1. F \in SUBSET (0 .. L)
      OBVIOUS
    <3> HIDE DEF F
    <3> QED
      BY <3>1, LeastOf
  <2>2. N \in 0 .. L /\ N \in Nat /\ ~\E f : f = next(N, f)
    <3> HIDE DEF next
    <3> QED
      BY <2>1
  <2>3. N # 0
    <3> DEFINE f == [m \in 0 .. 0 |-> row(0, leaves)]
    <3>1. row(0, f) = row(0, leaves)
      OBVIOUS
    <3> HIDE DEF row
    <3>2. f = next(0, f)
      BY <3>1
    <3> HIDE DEF f, next
    <3> QED
      BY <2>2, <3>2
  <2>4. N - 1 \in 0 .. L /\ N - 1 \notin F
    <3>1. N - 1 \in 0 .. L /\ ~(N <= N - 1)
      BY <2>2, <2>3
    <3> HIDE DEF F
    <3> QED
      BY <2>1, <3>1
  <2>5. PICK f : f = next(N - 1, f)
    <3> HIDE DEF next
    <3> QED
      BY <2>4
  <2> DEFINE g == [m \in 0 .. N |-> IF m = N THEN row(N, f) ELSE f[m]]
  <2> HIDE DEF row
  <2>6. \A m \in 0 .. N - 1 : g[m] = f[m] /\ f[m] = row(m, f)
    BY <2>2, <2>5
  <2>7. ASSUME NEW m \in 0 .. N PROVE row(m, f) = row(m, g)
    <3> HIDE DEF g
    <3>1. CASE m <= 1
      <4>1. m = 0 \/ m = 1
        BY <2>2, <3>1
      <4> QED
        BY <4>1 DEF row
    <3>2. CASE ~(m <= 1)
      <4>1. m \in Nat /\ m > 1
        BY <2>2, <3>2
      <4>2. Split(m) \in 1 .. m - 1 /\ m - Split(m) \in 1 .. m - 1
        BY <4>1, SplitIs
      <4>3. Split(m) \in 0 .. N - 1 /\ m - Split(m) \in 0 .. N - 1
        BY <2>2, <4>1, <4>2
      <4>4. f[Split(m)] = g[Split(m)] /\ f[m - Split(m)] = g[m - Split(m)]
        BY <2>6, <4>3
      <4> QED
        BY <4>4 DEF row
    <3> QED
      BY <3>1, <3>2
  <2>8. ASSUME NEW m \in 0 .. N PROVE g[m] = row(m, g)
    <3>1. CASE m = N
      BY <2>7, <3>1
    <3>2. CASE m # N
      <4>1. m \in 0 .. N - 1
        BY <2>2, <3>2
      <4> HIDE DEF g
      <4> QED
        BY <2>6, <2>7, <4>1
    <3> QED
      BY <3>1, <3>2
  <2>9. g = next(N, g)
    <3>1. g = [m \in 0 .. N |-> g[m]]
      OBVIOUS
    <3> HIDE DEF g
    <3> QED
      BY <2>8, <3>1
  <2> HIDE DEF g, next
  <2> QED
    BY <2>2, <2>9
<1> DEFINE h == SlicePaths(leaves)
<1>2. h = next(L, h)
  <2>1. h = CHOOSE f : f = next(L, f)
    BY DEF SlicePaths
  <2>2. L \in 0 .. L /\ L \notin F
    <3> HIDE DEF F
    <3> QED
      BY <1>1
  <2>3. \E f : f = next(L, f)
    <3> HIDE DEF next, L
    <3> QED
      BY <2>2
  <2> HIDE DEF h, next, L
  <2> QED
    BY <2>1, <2>3
<1> HIDE DEF h, row
<1>3. h[n] = row(n, h)
  BY <1>2
<1>4. h[n][from][index] =
        IF n <= 1 THEN <<>>
        ELSE IF index < Split(n)
        THEN Append(h[Split(n)][from][index], SliceRoots(leaves)[n - Split(n)][from + Split(n)])
        ELSE Append(h[n - Split(n)][from + Split(n)][index - Split(n)],
                    SliceRoots(leaves)[Split(n)][from])
  BY <1>3 DEF row
<1> QED
  BY <1>4 DEF h

LEMMA LeftGoes ==
  ASSUME NEW a, NEW b, Left(a, b)
  PROVE  b.sn # 0
BY PowerParts DEF Left

LEMMA RightGoes ==
  ASSUME NEW a, NEW b, Right(a, b)
  PROVE  b.sn # 0
BY PowerParts DEF Right

\* The loop over the left part's path goes on, in the whole, to the node above.
LEMMA LeftRun ==
  ASSUME NEW p, IsSeq(p), NEW e, NEW leaf, NEW index, NEW size, NEW i, NEW n,
         Left(Climbs(leaf, index, size, p)[0], Climbs(leaf, i, n, Append(p, e))[0]),
         RunsOut(Climbs(leaf, index, size, p), Len(p))
  PROVE  LET a == Climbs(leaf, index, size, p)
             b == Climbs(leaf, i, n, Append(p, e))
         IN  /\ RunsOut(b, Len(Append(p, e)))
             /\ b[Len(Append(p, e))].hash = NodeHash(a[Len(p)].hash, e)
<1> DEFINE a == Climbs(leaf, index, size, p)
           q == Append(p, e)
           b == Climbs(leaf, i, n, q)
           m == Len(p)
<1>1. /\ m \in Nat /\ Len(q) = m + 1 /\ q[m + 1] = e
      /\ \A j \in 1 .. m : q[j] = p[j]
  BY AppendIs
<1>2. /\ a[0] = [hash |-> LeafHash(leaf), fn |-> index, sn |-> size - 1]
      /\ \A j \in 1 .. m : a[j] = Climb(a[j - 1], p[j])
  BY <1>1, ClimbsIs
<1>3. \A j \in 1 .. m + 1 : b[j] = Climb(b[j - 1], q[j])
  <2>1. Len(q) \in Nat
    BY <1>1
  <2> HIDE DEF q
  <2>2. /\ b[0] = [hash |-> LeafHash(leaf), fn |-> i, sn |-> n - 1]
        /\ \A j \in 1 .. Len(q) : b[j] = Climb(b[j - 1], q[j])
    BY <2>1, ClimbsIs
  <2> QED
    BY <1>1, <2>2
<1>4. Left(a[0], b[0]) /\ RunsOut(a, m)
  OBVIOUS
<1> HIDE DEF a, b, m, q
<1> DEFINE F == {j \in 0 .. m : ~Left(a[j], b[j])}
<1>5. F = {}
  <2> SUFFICES ASSUME F # {} PROVE FALSE
    OBVIOUS
  <2>1. PICK j \in F : \A k \in F : j <= k
    <3>1. F \in SUBSET (0 .. m)
      OBVIOUS
    <3> HIDE DEF F
    <3> QED
      BY <1>1, <3>1, LeastOf
  <2>2. j \in 0 .. m /\ ~Left(a[j], b[j])
    BY <2>1
  <2>3. j # 0
    BY <1>4, <2>2
  <2>4. j \in 1 .. m /\ j \in 1 .. m + 1 /\ j - 1 \in 0 .. m - 1 /\ j - 1 \in 0 .. m /\ ~(j <= j - 1)
    BY <1>1, <2>2, <2>3
  <2>5. j - 1 \notin F
    <3> HIDE DEF F
    <3> QED
      BY <2>1, <2>4
  <2>6. Left(a[j - 1], b[j - 1])
    BY <2>4, <2>5
  <2>7. a[j - 1].sn # 0
    BY <1>4, <2>4 DEF RunsOut
  <2>8. a[j] = Climb(a[j - 1], p[j]) /\ b[j] = Climb(b[j - 1], p[j])
    BY <1>1, <1>2, <1>3, <2>4
  <2> QED
    BY <2>2, <2>6, <2>7, <2>8, ClimbLeft
<1>6. \A j \in 0 .. m : Left(a[j], b[j])
  BY <1>5
<1> HIDE DEF F
<1>7. \A j \in 0 .. m : b[j].sn # 0
  <2> TAKE j \in 0 .. m
  <2>1. CASE a[j].sn = 0
    BY <1>6, <2>1, LeftEnds
  <2>2. CASE a[j].sn # 0
    BY <1>6, <2>2, LeftGoes
  <2> QED
    BY <2>1, <2>2
<1>8. b[m + 1] = [hash |-> NodeHash(a[m].hash, e), fn |-> 0, sn |-> 0]
  <2>1. a[m].sn = 0 /\ Left(a[m], b[m])
    BY <1>1, <1>4, <1>6 DEF RunsOut
  <2>2. m + 1 \in 1 .. m + 1 /\ (m + 1) - 1 = m
    BY <1>1
  <2>3. b[m + 1] = Climb(b[m], e)
    BY <1>1, <1>3, <2>2
  <2> QED
    BY <2>1, <2>3, LeftEnds
<1>9. RunsOut(b, m + 1)
  <2>1. \A j \in 0 .. (m + 1) - 1 : j \in 0 .. m
    BY <1>1
  <2> QED
    BY <1>7, <1>8, <2>1 DEF RunsOut
<1> QED
  BY <1>1, <1>8, <1>9 DEF a, b, q, m

\* And so does the loop over the right part's.
LEMMA RightRun ==
  ASSUME NEW p, IsSeq(p), NEW e, NEW leaf, NEW index, NEW size, NEW i, NEW n,
         Right(Climbs(leaf, index, size, p)[0], Climbs(leaf, i, n, Append(p, e))[0]),
         RunsOut(Climbs(leaf, index, size, p), Len(p))
  PROVE  LET a == Climbs(leaf, index, size, p)
             b == Climbs(leaf, i, n, Append(p, e))
         IN  /\ RunsOut(b, Len(Append(p, e)))
             /\ b[Len(Append(p, e))].hash = NodeHash(e, a[Len(p)].hash)
<1> DEFINE a == Climbs(leaf, index, size, p)
           q == Append(p, e)
           b == Climbs(leaf, i, n, q)
           m == Len(p)
<1>1. /\ m \in Nat /\ Len(q) = m + 1 /\ q[m + 1] = e
      /\ \A j \in 1 .. m : q[j] = p[j]
  BY AppendIs
<1>2. /\ a[0] = [hash |-> LeafHash(leaf), fn |-> index, sn |-> size - 1]
      /\ \A j \in 1 .. m : a[j] = Climb(a[j - 1], p[j])
  BY <1>1, ClimbsIs
<1>3. \A j \in 1 .. m + 1 : b[j] = Climb(b[j - 1], q[j])
  <2>1. Len(q) \in Nat
    BY <1>1
  <2> HIDE DEF q
  <2>2. /\ b[0] = [hash |-> LeafHash(leaf), fn |-> i, sn |-> n - 1]
        /\ \A j \in 1 .. Len(q) : b[j] = Climb(b[j - 1], q[j])
    BY <2>1, ClimbsIs
  <2> QED
    BY <1>1, <2>2
<1>4. Right(a[0], b[0]) /\ RunsOut(a, m)
  OBVIOUS
<1> HIDE DEF a, b, m, q
<1> DEFINE F == {j \in 0 .. m : ~Right(a[j], b[j])}
<1>5. F = {}
  <2> SUFFICES ASSUME F # {} PROVE FALSE
    OBVIOUS
  <2>1. PICK j \in F : \A k \in F : j <= k
    <3>1. F \in SUBSET (0 .. m)
      OBVIOUS
    <3> HIDE DEF F
    <3> QED
      BY <1>1, <3>1, LeastOf
  <2>2. j \in 0 .. m /\ ~Right(a[j], b[j])
    BY <2>1
  <2>3. j # 0
    BY <1>4, <2>2
  <2>4. j \in 1 .. m /\ j \in 1 .. m + 1 /\ j - 1 \in 0 .. m - 1 /\ j - 1 \in 0 .. m /\ ~(j <= j - 1)
    BY <1>1, <2>2, <2>3
  <2>5. j - 1 \notin F
    <3> HIDE DEF F
    <3> QED
      BY <2>1, <2>4
  <2>6. Right(a[j - 1], b[j - 1])
    BY <2>4, <2>5
  <2>7. a[j - 1].sn # 0
    BY <1>4, <2>4 DEF RunsOut
  <2>8. a[j] = Climb(a[j - 1], p[j]) /\ b[j] = Climb(b[j - 1], p[j])
    BY <1>1, <1>2, <1>3, <2>4
  <2> QED
    BY <2>2, <2>6, <2>7, <2>8, ClimbRight
<1>6. \A j \in 0 .. m : Right(a[j], b[j])
  BY <1>5
<1> HIDE DEF F
<1>7. \A j \in 0 .. m : b[j].sn # 0
  <2> TAKE j \in 0 .. m
  <2>1. CASE a[j].sn = 0
    BY <1>6, <2>1, RightEnds
  <2>2. CASE a[j].sn # 0
    BY <1>6, <2>2, RightGoes
  <2> QED
    BY <2>1, <2>2
<1>8. b[m + 1] = [hash |-> NodeHash(e, a[m].hash), fn |-> 0, sn |-> 0]
  <2>1. a[m].sn = 0 /\ Right(a[m], b[m])
    BY <1>1, <1>4, <1>6 DEF RunsOut
  <2>2. m + 1 \in 1 .. m + 1 /\ (m + 1) - 1 = m
    BY <1>1
  <2>3. b[m + 1] = Climb(b[m], e)
    BY <1>1, <1>3, <2>2
  <2> QED
    BY <2>1, <2>3, RightEnds
<1>9. RunsOut(b, m + 1)
  <2>1. \A j \in 0 .. (m + 1) - 1 : j \in 0 .. m
    BY <1>1
  <2> QED
    BY <1>7, <1>8, <2>1 DEF RunsOut
<1> QED
  BY <1>1, <1>8, <1>9 DEF a, b, q, m

\* The path of a leaf of a slice leads from the leaf to the slice's root.
ClimbsOut(leaves, n, from, index) ==
  LET path == SlicePaths(leaves)[n][from][index]
      at == Climbs(leaves[from + index + 1], index, n, path)
  IN  /\ IsSeq(path) /\ RunsOut(at, Len(path))
      /\ at[Len(path)].hash = SliceRoots(leaves)[n][from]

\* reconstruct_root undoes _audit_path, slice by slice.
LEMMA SlicesClimbOut ==
  ASSUME NEW leaves, Len(leaves) \in Nat, NEW n \in 1 .. Len(leaves),
         NEW from \in 0 .. Len(leaves) - n, NEW index \in 0 .. n - 1
  PROVE  ClimbsOut(leaves, n, from, index)
<1> DEFINE L == Len(leaves)
           Good(m) == \A f \in 0 .. L - m : \A i \in 0 .. m - 1 : ClimbsOut(leaves, m, f, i)
           F == {m \in 1 .. L : ~Good(m)}
<1>1. F = {}
  <2> SUFFICES ASSUME F # {} PROVE FALSE
    OBVIOUS
  <2>1. PICK m \in F : \A k \in F : m <= k
    <3>1. F \in SUBSET (0 .. L)
      OBVIOUS
    <3> HIDE DEF F
    <3> QED
      BY <3>1, LeastOf
  <2>2. m \in 1 .. L /\ m \in 0 .. L /\ m \in Nat /\ L \in Nat /\ ~Good(m)
    <3>1. m \in 1 .. L /\ ~Good(m)
      <4> HIDE DEF Good
      <4> QED
        BY <2>1
    <3> HIDE DEF Good
    <3> QED
      BY <3>1
  <2>3. PICK f \in 0 .. L - m, i \in 0 .. m - 1 : ~ClimbsOut(leaves, m, f, i)
    BY <2>2
  <2>4. ASSUME NEW k \in 1 .. m - 1 PROVE Good(k)
    <3>1. k \in 1 .. L /\ ~(m <= k)
      BY <2>2
    <3> HIDE DEF Good
    <3> QED
      BY <2>1, <3>1
  <2>5. f \in Nat /\ i \in Nat /\ f \in 0 .. L /\ i \in 0 .. L /\ f + m <= L
    <3> HIDE DEF Good, L
    <3> QED
      BY <2>2
  <2> DEFINE path == SlicePaths(leaves)[m][f][i]
             leaf == leaves[f + i + 1]
             at == Climbs(leaf, i, m, path)
             mth == SliceRoots(leaves)
  <2>6. CASE m = 1
    <3>0. 1 \in 0 .. L /\ ~(1 = 0) /\ 1 <= 1 /\ i = 0
      BY <2>2, <2>3, <2>6
    <3>1. path = <<>> /\ mth[m][f] = LeafHash(leaves[f + 1])
      <4>1. SlicePaths(leaves)[1][f][i] = <<>>
        BY <2>2, <2>5, <3>0, SlicePathsIs
      <4>2. SliceRoots(leaves)[1][f] = LeafHash(leaves[f + 1])
        BY <2>2, <2>5, <3>0, SliceRootsIs
      <4> QED
        BY <2>6, <4>1, <4>2
    <3>2. Len(path) = 0 /\ Len(path) \in Nat /\ path \in Seq({})
      BY <3>1
    <3> HIDE DEF path, leaf, Good, mth
    <3>3. at[0] = [hash |-> LeafHash(leaf), fn |-> i, sn |-> m - 1]
      <4>1. Len(path) \in Nat
        BY <3>2
      <4> QED
        BY <4>1, ClimbsIs
    <3>4. RunsOut(at, 0) /\ leaf = leaves[f + 1] /\ at[0].hash = LeafHash(leaf)
      <4>1. 0 .. 0 - 1 = {} /\ leaf = leaves[f + 1] /\ m - 1 = 0
        BY <2>5, <2>6, <3>0 DEF leaf
      <4> HIDE DEF at
      <4> QED
        BY <3>3, <4>1 DEF RunsOut
    <3> QED
      BY <2>3, <2>6, <3>0, <3>1, <3>2, <3>4 DEF ClimbsOut, IsSeq, path, leaf, mth
  <2>7. CASE m # 1
    <3> DEFINE k == Split(m)
    <3>1. m > 1 /\ m \in Nat
      BY <2>2, <2>7
    <3>2. /\ k \in Powers /\ k \in 1 .. m - 1 /\ m - k \in 1 .. m - 1 /\ m <= 2 * k
      BY <3>1, SplitIs
    <3>3. mth[m][f] = NodeHash(mth[k][f], mth[m - k][f + k])
      BY <2>2, <2>5, <3>1, SliceRootsIs
    <3>4. path = IF i < k THEN Append(SlicePaths(leaves)[k][f][i], mth[m - k][f + k])
                 ELSE Append(SlicePaths(leaves)[m - k][f + k][i - k], mth[k][f])
      <4>1. ~(m <= 1)
        BY <3>1
      <4> QED
        BY <2>2, <2>5, <4>1, SlicePathsIs
    <3>5. k \in Nat /\ k >= 1 /\ m - k \in Nat
      <4> HIDE DEF k, mth, path, Good
      <4> QED
        BY <2>2, <3>2
    <3> HIDE DEF k, mth, path, Good
    <3>6. CASE i < k
      <4> DEFINE p == SlicePaths(leaves)[k][f][i]
                 e == mth[m - k][f + k]
                 a == Climbs(leaf, i, k, p)
                 b == Climbs(leaf, i, m, Append(p, e))
      <4>1. ClimbsOut(leaves, k, f, i)
        <5>1. Good(k)
          BY <2>4, <3>2
        <5>2. f \in 0 .. L - k /\ i \in 0 .. k - 1
          BY <2>2, <2>5, <3>2, <3>5, <3>6
        <5> QED
          BY <5>1, <5>2 DEF Good
      <4>2. IsSeq(p) /\ RunsOut(a, Len(p)) /\ a[Len(p)].hash = mth[k][f]
        BY <4>1 DEF ClimbsOut, mth
      <4> HIDE DEF p, e
      <4>3. Left(a[0], b[0])
        <5>1. Len(p) \in Nat /\ Len(Append(p, e)) \in Nat
          BY <4>2, AppendIs
        <5>2. a[0] = [hash |-> LeafHash(leaf), fn |-> i, sn |-> k - 1]
          BY <5>1, ClimbsIs
        <5>3. b[0] = [hash |-> LeafHash(leaf), fn |-> i, sn |-> m - 1]
          <6> DEFINE q == Append(p, e)
          <6>1. Len(q) \in Nat
            BY <5>1
          <6> HIDE DEF q
          <6>2. Climbs(leaf, i, m, q)[0] = [hash |-> LeafHash(leaf), fn |-> i, sn |-> m - 1]
            BY <6>1, ClimbStarts
          <6> QED
            BY <6>2 DEF q
        <5>4. i \in 0 .. k - 1 /\ m - 1 \in k .. 2 * k - 1
          BY <2>2, <2>5, <3>2, <3>5, <3>6
        <5> HIDE DEF a, b
        <5> QED
          BY <3>2, <5>2, <5>3, <5>4 DEF Left
      <4>4. /\ RunsOut(b, Len(Append(p, e)))
            /\ b[Len(Append(p, e))].hash = NodeHash(a[Len(p)].hash, e)
        BY <4>2, <4>3, LeftRun
      <4>5. IsSeq(Append(p, e))
        BY <4>2, AppendIs
      <4>6. path = Append(p, e)
        BY <3>4, <3>6 DEF p, e
      <4>7. b[Len(path)].hash = mth[m][f] /\ b = Climbs(leaf, i, m, path) /\ IsSeq(path)
        BY <3>3, <4>2, <4>4, <4>5, <4>6 DEF e
      <4> HIDE DEF b
      <4> QED
        BY <2>3, <4>4, <4>6, <4>7 DEF ClimbsOut, mth, path
    <3>7. CASE ~(i < k)
      <4> DEFINE j == i - k
                 p == SlicePaths(leaves)[m - k][f + k][j]
                 e == mth[k][f]
                 a == Climbs(leaf, j, m - k, p)
                 b == Climbs(leaf, i, m, Append(p, e))
      <4>0. j \in Nat /\ j <= m - k - 1 /\ i = j + k
        BY <2>2, <2>3, <2>5, <3>2, <3>5, <3>7
      <4>1. ClimbsOut(leaves, m - k, f + k, j)
        <5>1. Good(m - k)
          BY <2>4, <3>2
        <5>2. f + k \in 0 .. L - (m - k) /\ j \in 0 .. m - k - 1
          BY <2>2, <2>5, <3>2, <3>5, <4>0
        <5> HIDE DEF j
        <5> QED
          BY <5>1, <5>2 DEF Good
      <4>2. IsSeq(p) /\ RunsOut(a, Len(p)) /\ a[Len(p)].hash = mth[m - k][f + k]
        <5>1. f + k + j + 1 = f + i + 1
          BY <2>5, <3>5, <4>0
        <5> HIDE DEF j
        <5> QED
          BY <4>1, <5>1 DEF ClimbsOut, mth
      <4> HIDE DEF p, e, j
      <4>3. Right(a[0], b[0])
        <5>1. Len(p) \in Nat /\ Len(Append(p, e)) \in Nat
          BY <4>2, AppendIs
        <5>2. a[0] = [hash |-> LeafHash(leaf), fn |-> j, sn |-> m - k - 1]
          BY <5>1, ClimbsIs
        <5>3. b[0] = [hash |-> LeafHash(leaf), fn |-> i, sn |-> m - 1]
          <6> DEFINE q == Append(p, e)
          <6>1. Len(q) \in Nat
            BY <5>1
          <6> HIDE DEF q
          <6>2. Climbs(leaf, i, m, q)[0] = [hash |-> LeafHash(leaf), fn |-> i, sn |-> m - 1]
            BY <6>1, ClimbStarts
          <6> QED
            BY <6>2 DEF q
        <5>4. m - k - 1 \in Nat /\ m - k - 1 < k /\ m - 1 = (m - k - 1) + k
          BY <2>2, <3>2, <3>5
        <5> HIDE DEF a, b
        <5> QED
          BY <3>2, <4>0, <5>2, <5>3, <5>4 DEF Right
      <4>4. /\ RunsOut(b, Len(Append(p, e)))
            /\ b[Len(Append(p, e))].hash = NodeHash(e, a[Len(p)].hash)
        BY <4>2, <4>3, RightRun
      <4>5. IsSeq(Append(p, e))
        BY <4>2, AppendIs
      <4>6. path = Append(p, e)
        BY <3>4, <3>7 DEF p, e, j
      <4>7. b[Len(path)].hash = mth[m][f] /\ b = Climbs(leaf, i, m, path) /\ IsSeq(path)
        BY <3>3, <4>2, <4>4, <4>5, <4>6 DEF e
      <4> HIDE DEF b
      <4> QED
        BY <2>3, <4>4, <4>6, <4>7 DEF ClimbsOut, mth, path
    <3> QED
      BY <3>6, <3>7
  <2> QED
    BY <2>6, <2>7
<1>2. Good(n)
  <2> HIDE DEF Good
  <2> QED
    BY <1>1
<1> QED
  BY <1>2

-----------------------------------------------------------------------------
(* Sorted leaves *)

LEMMA RefsAreNumbers ==
  ASSUME NEW S \in SUBSET Refs
  PROVE  IsFiniteSet(S) /\ S \subseteq Int /\ Cardinality(S) \in Nat
<1>1. Refs \subseteq Int /\ IsFiniteSet(Refs)
  <2>1. \A k \in 0 .. 2 ^ DEPTH - 1 : k \in Int
    OBVIOUS
  <2> QED
    BY <2>1, TreeBounds
<1> QED
  BY <1>1, FS_Subset, FS_CardinalityType

\* How many come before grows with every one that does.
LEMMA BelowGrows ==
  ASSUME NEW S \in SUBSET Refs, NEW s \in Int, NEW t \in Int
  PROVE  /\ Below(S, s) \in Nat /\ Below(S, s) <= Cardinality(S)
         /\ s <= t => Below(S, s) <= Below(S, t)
         /\ s < t /\ s \in S => Below(S, s) < Below(S, t)
         /\ s \in S => Below(S, s) < Cardinality(S)
<1> DEFINE before(r) == {x \in S : x < r}
<1>1. IsFiniteSet(S) /\ S \subseteq Int /\ Cardinality(S) \in Nat
  BY RefsAreNumbers
<1>2. ASSUME NEW r \in Int
      PROVE  /\ IsFiniteSet(before(r)) /\ Below(S, r) = Cardinality(before(r))
             /\ Below(S, r) \in Nat /\ Below(S, r) <= Cardinality(S)
             /\ before(r) \subseteq S
  <2>1. before(r) \in SUBSET S
    OBVIOUS
  <2>2. IsFiniteSet(before(r)) /\ Cardinality(before(r)) <= Cardinality(S)
    <3> HIDE DEF before
    <3> QED
      BY <1>1, <2>1, FS_Subset
  <2>3. Cardinality(before(r)) \in Nat
    <3> HIDE DEF before
    <3> QED
      BY <2>2, FS_CardinalityType
  <2>4. Below(S, r) = Cardinality(before(r))
    BY DEF Below
  <2> HIDE DEF before
  <2> QED
    BY <2>1, <2>2, <2>3, <2>4
<1>3. ASSUME s <= t PROVE before(s) \subseteq before(t)
  <2>1. \A x \in S : x < s => x < t
    BY <1>1, <1>3
  <2> QED
    BY <2>1
<1>4. ASSUME s < t, s \in S PROVE before(s) # before(t)
  BY <1>1, <1>4
<1>5. ASSUME s \in S PROVE before(s) # S
  BY <1>1, <1>5
<1> HIDE DEF before
<1>6. ASSUME s <= t PROVE Below(S, s) <= Below(S, t)
  BY <1>2, <1>3, <1>6, FS_Subset
<1>7. ASSUME s < t, s \in S PROVE Below(S, s) < Below(S, t)
  <2>1. /\ before(s) \subseteq before(t) /\ before(s) # before(t)
        /\ IsFiniteSet(before(t))
    BY <1>2, <1>3, <1>4, <1>7
  <2>2. Cardinality(before(s)) <= Cardinality(before(t)) /\ Cardinality(before(s)) # Cardinality(before(t))
    BY <2>1, FS_Subset
  <2>3. Below(S, s) \in Nat /\ Below(S, t) \in Nat
    BY <1>2
  <2> QED
    BY <1>2, <2>2, <2>3
<1>8. ASSUME s \in S PROVE Below(S, s) < Cardinality(S)
  <2>1. before(s) \subseteq S /\ before(s) # S
    BY <1>2, <1>5, <1>8
  <2>2. Cardinality(before(s)) # Cardinality(S)
    BY <1>1, <2>1, FS_Subset
  <2>3. Below(S, s) \in Nat /\ Below(S, s) <= Cardinality(S) /\ Below(S, s) = Cardinality(before(s))
    BY <1>2
  <2> QED
    BY <1>1, <2>2, <2>3
<1>9. Below(S, s) \in Nat /\ Below(S, s) <= Cardinality(S)
  BY <1>2
<1> QED
  BY <1>6, <1>7, <1>8, <1>9

\* _sorted_leaves: every leaf stands where as many come before it, and every
\* member is one of them.
LEMMA LeavesAreSorted ==
  ASSUME NEW S \in SUBSET Refs
  PROVE  LET leaves == SortedLeaves(S)
         IN  /\ Len(leaves) = Cardinality(S)
             /\ \A i \in 1 .. Cardinality(S) : leaves[i] \in S /\ Below(S, leaves[i]) = i - 1
             /\ \A s \in S : leaves[Below(S, s) + 1] = s
<1> DEFINE n == Cardinality(S)
           T == 0 .. n - 1
           rank == [s \in S |-> Below(S, s)]
           leaves == SortedLeaves(S)
<1>1. IsFiniteSet(S) /\ S \subseteq Int /\ n \in Nat
  BY RefsAreNumbers
<1>2. \A s \in S : Below(S, s) \in T
  BY <1>1, BelowGrows
<1>3. \A s, t \in S : Below(S, s) = Below(S, t) => s = t
  <2> SUFFICES ASSUME NEW s \in S, NEW t \in S, s # t PROVE Below(S, s) # Below(S, t)
    OBVIOUS
  <2>1. s \in Int /\ t \in Int /\ (s < t \/ t < s)
    BY <1>1
  <2>2. Below(S, s) \in Nat /\ Below(S, t) \in Nat
    BY <2>1, BelowGrows
  <2>3. s < t => Below(S, s) < Below(S, t)
    BY <2>1, BelowGrows
  <2>4. t < s => Below(S, t) < Below(S, s)
    BY <2>1, BelowGrows
  <2> QED
    BY <2>1, <2>2, <2>3, <2>4
<1>4. rank \in Injection(S, T)
  <2>1. rank \in [S -> T] /\ \A s, t \in S : rank[s] = rank[t] => s = t
    <3> HIDE DEF T
    <3> QED
      BY <1>2, <1>3
  <2>2. DOMAIN rank = S
    OBVIOUS
  <2> HIDE DEF rank, T
  <2> QED
    BY <2>1, <2>2 DEF Injection, IsInjective
<1>5. IsFiniteSet(T) /\ Cardinality(T) = n
  <2>1. 0 \in Int /\ n - 1 \in Int
    BY <1>1
  <2>2. IsFiniteSet(T) /\ Cardinality(T) = IF 0 > n - 1 THEN 0 ELSE n - 1 - 0 + 1
    BY <2>1, FS_Interval
  <2> HIDE DEF T
  <2> QED
    BY <1>1, <2>2
<1>6. \A i \in T : \E s \in S : rank[s] = i
  <2>1. rank \in Surjection(S, T)
    <3> HIDE DEF T, rank
    <3> QED
      BY <1>4, <1>5, FS_Injection
  <2> HIDE DEF T, rank
  <2> QED
    BY <2>1 DEF Surjection
<1>7. \A i \in 1 .. n : \E s \in S : Below(S, s) = i - 1
  <2> TAKE i \in 1 .. n
  <2>1. i - 1 \in T
    BY <1>1
  <2>2. PICK s \in S : rank[s] = i - 1
    BY <1>6, <2>1
  <2> QED
    BY <2>2
<1>8. leaves = [i \in 1 .. n |-> CHOOSE s \in S : Below(S, s) = i - 1]
  BY DEF SortedLeaves
<1> HIDE DEF n, leaves
<1>9. \A i \in 1 .. n : leaves[i] \in S /\ Below(S, leaves[i]) = i - 1
  <2> TAKE i \in 1 .. n
  <2>1. leaves[i] = CHOOSE s \in S : Below(S, s) = i - 1
    BY <1>8
  <2>2. \E s \in S : Below(S, s) = i - 1
    BY <1>7
  <2> QED
    BY <2>1, <2>2
<1>10. Len(leaves) = n
  <2>1. DOMAIN leaves = 1 .. n /\ leaves = [i \in 1 .. n |-> leaves[i]]
    BY <1>8
  <2>2. leaves \in Seq(S)
    BY <1>1, <1>9, <2>1, SeqDef
  <2> QED
    BY <1>1, <2>1, <2>2, LenProperties
<1>11. \A s \in S : leaves[Below(S, s) + 1] = s
  <2> TAKE s \in S
  <2> DEFINE i == Below(S, s) + 1
  <2>1. i \in 1 .. n /\ i - 1 = Below(S, s)
    BY <1>1, <1>2 DEF n
  <2> HIDE DEF i
  <2>2. leaves[i] \in S /\ Below(S, leaves[i]) = Below(S, s)
    BY <1>9, <2>1
  <2>3. leaves[i] = s
    BY <1>3, <2>2
  <2> QED
    BY <2>3 DEF i
<1> QED
  BY <1>9, <1>10, <1>11 DEF n, leaves

\* Every leaf of the tree climbs to its root, and no other from its place.
LEMMA LeafClimbsToRoot ==
  ASSUME NEW S \in SUBSET Refs, NEW i \in 0 .. Cardinality(S) - 1
  PROVE  LET leaves == SortedLeaves(S)
             n == Cardinality(S)
             path == AuditPath(i, leaves)
             at == Climbs(leaves[i + 1], i, n, path)
         IN  /\ IsSeq(path) /\ RunsOut(at, Len(path)) /\ at[Len(path)].hash = MTH(leaves)
<1> DEFINE leaves == SortedLeaves(S)
           n == Cardinality(S)
<1>1. n \in Nat /\ Len(leaves) = n
  BY RefsAreNumbers, LeavesAreSorted
<1>2. n \in 1 .. n /\ 0 \in 0 .. n - n /\ 0 + i + 1 = i + 1
  BY <1>1
<1> HIDE DEF leaves, n
<1>3. ClimbsOut(leaves, n, 0, i)
  <2>1. i \in 0 .. n - 1
    BY DEF n
  <2> QED
    BY <1>1, <1>2, <2>1, SlicesClimbOut
<1>4. AuditPath(i, leaves) = SlicePaths(leaves)[n][0][i] /\ MTH(leaves) = SliceRoots(leaves)[n][0]
  BY <1>1 DEF AuditPath, MTH
<1> QED
  BY <1>2, <1>3, <1>4 DEF ClimbsOut, leaves, n

LEMMA CommitmentTells ==
  ASSUME NEW m, NEW n, NEW g, NEW h, Commitment(m, g) = Commitment(n, h)
  PROVE  m = n /\ g = h
<1>1. Commitment(m, g)[2] = m /\ Commitment(m, g)[3] = g /\ Commitment(n, h)[2] = n /\ Commitment(n, h)[3] = h
  BY DEF Commitment
<1> QED
  BY <1>1

LEMMA AuditPathVerifies ==
  ASSUME NEW S \in SUBSET Refs, NEW i \in 0 .. Cardinality(S) - 1
  PROVE  VerifyAuditPath(Entry(SortedLeaves(S), i), Cardinality(S), BuildRoot(S))
<1> DEFINE leaves == SortedLeaves(S)
           n == Cardinality(S)
           path == AuditPath(i, leaves)
           at == Climbs(leaves[i + 1], i, n, path)
<1>1. IsSeq(path) /\ RunsOut(at, Len(path)) /\ at[Len(path)].hash = MTH(leaves)
  BY LeafClimbsToRoot
<1>2. i < n /\ i >= 0 /\ n \in Nat
  BY RefsAreNumbers
<1>3. Entry(leaves, i) = [leaf |-> leaves[i + 1], index |-> i, path |-> path]
  BY DEF Entry
<1>4. BuildRoot(S) = Commitment(n, MTH(leaves))
  BY DEF BuildRoot
<1> HIDE DEF leaves, n, path
<1>5. ReconstructRoot(leaves[i + 1], i, n, path) = {MTH(leaves)}
  BY <1>1, <1>2 DEF ReconstructRoot
<1>6. VerifyAuditPath(Entry(leaves, i), n, BuildRoot(S))
  BY <1>3, <1>4, <1>5 DEF VerifyAuditPath
<1> QED
  BY <1>6 DEF leaves, n

\* prove_absence and verify_absence of the sorted tree.
LEMMA LegacyAbsenceVerifies ==
  ASSUME NEW S \in SUBSET Refs, NEW t \in Refs \ S
  PROVE  VerifySortedAbsence(t, ProveAbsence(t, S), BuildRoot(S))
<1> DEFINE leaves == SortedLeaves(S)
           n == Cardinality(S)
           lo == Below(S, t)
           proof == ProveAbsence(t, S)
<1>1. /\ n \in Nat /\ Len(leaves) = n /\ S \subseteq Int
      /\ \A i \in 1 .. n : leaves[i] \in S /\ Below(S, leaves[i]) = i - 1
  BY RefsAreNumbers, LeavesAreSorted
<1>2. t \in Int
  BY RefsAreNumbers
<1>3. lo \in Nat /\ lo <= n
  BY <1>2, BelowGrows
<1>4. /\ proof.size = n
      /\ proof.pred = IF lo > 0 THEN {Entry(leaves, lo - 1)} ELSE {}
      /\ proof.succ = IF lo < n THEN {Entry(leaves, lo)} ELSE {}
  BY <1>1 DEF ProveAbsence
<1>5. \A i : Entry(leaves, i).leaf = leaves[i + 1] /\ Entry(leaves, i).index = i
  BY DEF Entry
<1>6. \A i \in 0 .. n - 1 : VerifyAuditPath(Entry(leaves, i), n, BuildRoot(S))
  BY AuditPathVerifies
<1>7. ASSUME lo > 0 PROVE leaves[lo] < t
  <2>1. lo \in 1 .. n
    BY <1>1, <1>3, <1>7
  <2>2. leaves[lo] \in S /\ leaves[lo] \in Int /\ Below(S, leaves[lo]) = lo - 1
    BY <1>1, <2>1
  <2>3. ~(t <= leaves[lo])
    <3>1. t <= leaves[lo] => Below(S, t) <= Below(S, leaves[lo])
      BY <1>2, <2>2, BelowGrows
    <3> QED
      BY <1>3, <2>2, <3>1
  <2> QED
    BY <1>2, <2>2, <2>3
<1>8. ASSUME lo < n PROVE t < leaves[lo + 1]
  <2>1. lo + 1 \in 1 .. n /\ lo + 1 - 1 = lo
    BY <1>1, <1>3, <1>8
  <2> DEFINE s == leaves[lo + 1]
  <2>2. s \in S /\ s \in Int /\ Below(S, s) = lo
    <3>1. leaves[lo + 1] \in S /\ Below(S, leaves[lo + 1]) = lo + 1 - 1
      <4>1. \A i \in 1 .. n : leaves[i] \in S /\ Below(S, leaves[i]) = i - 1
        BY <1>1
      <4>2. lo \in Nat
        BY <1>3
      <4> HIDE DEF leaves, n, lo
      <4> QED
        BY <2>1, <4>1, <4>2
    <3> HIDE DEF leaves, n, lo
    <3> QED
      BY <1>1, <2>1, <3>1
  <2> HIDE DEF s
  <2>3. ~(s < t)
    <3>1. s < t => Below(S, s) < Below(S, t)
      BY <1>2, <2>2, BelowGrows
    <3> QED
      BY <1>3, <2>2, <3>1
  <2>4. s # t
    BY <2>2
  <2>5. t < s
    BY <1>2, <2>2, <2>3, <2>4
  <2> QED
    BY <2>5 DEF s
<1> HIDE DEF leaves, n, lo, proof
<1>9. CASE n = 0
  <2>1. proof.pred = {} /\ proof.succ = {} /\ proof.size = 0
    BY <1>3, <1>4, <1>9
  <2>2. BuildRoot(S) = Commitment(0, EmptyHash)
    <3>1. MTH(leaves) = EmptyHash
      <4>1. 0 \in 0 .. Len(leaves) /\ Len(leaves) = 0 /\ Len(leaves) \in Nat
        BY <1>1, <1>9
      <4> QED
        BY <4>1, SliceRootsIs DEF MTH
    <3> QED
      BY <1>9, <3>1 DEF BuildRoot, leaves, n
  <2> QED
    BY <2>1, <2>2 DEF VerifySortedAbsence, proof
<1>10. CASE n # 0
  <2>1. Bracket(proof.pred, proof.succ, n)
    <3>1. lo > 0 \/ lo < n
      BY <1>1, <1>3, <1>10
    <3>2. ~(lo > 0) => lo = 0 /\ lo < n
      BY <1>1, <1>3, <1>10
    <3>3. ~(lo < n) => lo > 0 /\ lo - 1 = n - 1
      BY <1>1, <1>3, <1>10
    <3>4. \A p \in proof.pred : p.index = lo - 1
      BY <1>4, <1>5
    <3>5. \A s \in proof.succ : s.index = lo
      BY <1>4, <1>5
    <3>6. (lo - 1) + 1 = lo
      BY <1>3
    <3>7. proof.pred = {} => \E e \in proof.succ : e.index = 0
      BY <1>4, <1>5, <3>2
    <3>8. proof.succ = {} => \E e \in proof.pred : e.index = n - 1
      BY <1>4, <1>5, <3>3
    <3> QED
      BY <3>4, <3>5, <3>6, <3>7, <3>8 DEF Bracket
  <2>2. \A e \in proof.pred \cup proof.succ : VerifyAuditPath(e, n, BuildRoot(S))
    <3>1. lo > 0 => lo - 1 \in 0 .. n - 1
      BY <1>1, <1>3
    <3>2. lo < n => lo \in 0 .. n - 1
      BY <1>1, <1>3
    <3> QED
      BY <1>4, <1>6, <3>1, <3>2
  <2>3. \A e \in proof.pred : e.leaf < t
    <3>1. (lo - 1) + 1 = lo
      BY <1>3
    <3> QED
      BY <1>4, <1>5, <1>7, <3>1
  <2>4. \A e \in proof.succ : t < e.leaf
    BY <1>4, <1>5, <1>8
  <2> QED
    BY <1>4, <1>10, <2>1, <2>2, <2>3, <2>4 DEF VerifySortedAbsence, proof
<1> QED
  BY <1>9, <1>10

\* A leaf that verifies at an index, whatever path and size it claims, is the
\* leaf that stands there.
LEMMA ClaimedLeafIsTrue ==
  ASSUME NEW S \in SUBSET Refs, NEW e \in ClaimedEntries(S), NEW size,
         VerifyAuditPath(e, size, BuildRoot(S))
  PROVE  e.index \in 0 .. Cardinality(S) - 1 /\ size = Cardinality(S)
         /\ e.leaf = SortedLeaves(S)[e.index + 1]
<1> DEFINE leaves == SortedLeaves(S)
           n == Cardinality(S)
<1>1. n \in Nat /\ Len(leaves) = n
  BY RefsAreNumbers, LeavesAreSorted
<1>2. PICK i \in 0 .. n - 1, j \in 0 .. n - 1 : e = [Entry(leaves, i) EXCEPT !.index = j]
  <2> HIDE DEF leaves, n
  <2>1. e \in {[Entry(leaves, i) EXCEPT !.index = j] : i \in 0 .. n - 1, j \in 0 .. n - 1}
    BY <1>1 DEF ClaimedEntries, leaves, n
  <2> QED
    BY <2>1
<1> DEFINE path == AuditPath(i, leaves)
           own == AuditPath(j, leaves)
<1>3. e = [leaf |-> leaves[i + 1], index |-> j, path |-> path]
  <2> HIDE DEF leaves, n, path
  <2> QED
    BY <1>2 DEF Entry, path
<1>4. /\ IsSeq(path) /\ IsSeq(own)
      /\ RunsOut(Climbs(leaves[j + 1], j, n, own), Len(own))
      /\ Climbs(leaves[j + 1], j, n, own)[Len(own)].hash = MTH(leaves)
  BY LeafClimbsToRoot
<1>5. Len(path) \in Nat /\ Len(own) \in Nat
  <2> HIDE DEF path, own
  <2> QED
    BY <1>4, AppendIs
<1>6. BuildRoot(S) = Commitment(n, MTH(leaves))
  BY DEF BuildRoot
<1> HIDE DEF leaves, n, path, own
<1>7. PICK hash \in ReconstructRoot(leaves[i + 1], j, size, path) : Commitment(size, hash) = BuildRoot(S)
  BY <1>3 DEF VerifyAuditPath
<1>8. size = n /\ hash = MTH(leaves)
  BY <1>6, <1>7, CommitmentTells
<1>9. /\ RunsOut(Climbs(leaves[i + 1], j, n, path), Len(path))
      /\ Climbs(leaves[i + 1], j, n, path)[Len(path)].hash = MTH(leaves)
  <2>1. hash \in ReconstructRoot(leaves[i + 1], j, n, path)
    BY <1>7, <1>8
  <2> QED
    BY <1>8, <2>1 DEF ReconstructRoot
<1>10. leaves[i + 1] = leaves[j + 1]
  BY <1>4, <1>5, <1>9, HashTellsLeaf
<1>11. e.index = j /\ e.leaf = leaves[j + 1]
  BY <1>3, <1>10
<1> QED
  BY <1>8, <1>11 DEF leaves, n

LEMMA PresentIsNotBracketed ==
  ASSUME NEW S \in SUBSET Refs, NEW p \in ClaimedProofs(S), NEW t \in S
  PROVE  ~AbsenceVerified(t, p, BuildRoot(S))
<1> SUFFICES ASSUME AbsenceVerified(t, p, BuildRoot(S)) PROVE FALSE
  OBVIOUS
<1> DEFINE leaves == SortedLeaves(S)
           n == Cardinality(S)
           E == ClaimedEntries(S)
           rank == Below(S, t)
<1>1. /\ n \in Nat /\ S \subseteq Int
      /\ \A i \in 1 .. n : leaves[i] \in S /\ Below(S, leaves[i]) = i - 1
  BY RefsAreNumbers, LeavesAreSorted
<1>2. t \in Int /\ rank \in Nat /\ rank < n
  BY <1>1, BelowGrows
<1>3. /\ p \in [size : 0 .. n + 1, pred : {{}} \cup {{e} : e \in E}, succ : {{}} \cup {{e} : e \in E}]
      /\ Bracket(p.pred, p.succ, p.size)
  BY DEF ClaimedProofs
<1>4. p.pred \subseteq E /\ p.succ \subseteq E /\ DOMAIN p = {"size", "pred", "succ"}
  <2> HIDE DEF E, n
  <2>1. p.pred \in {{}} \cup {{e} : e \in E} /\ p.succ \in {{}} \cup {{e} : e \in E}
    BY <1>3
  <2>2. DOMAIN p = {"size", "pred", "succ"}
    BY <1>3
  <2> QED
    BY <2>1, <2>2
<1>5. VerifySortedAbsence(t, p, BuildRoot(S))
  <2>1. "scheme" \notin {"size", "pred", "succ"}
    OBVIOUS
  <2> HIDE DEF E, n
  <2>2. ~IsSparse(p)
    BY <1>4, <2>1 DEF IsSparse
  <2> QED
    BY <2>2 DEF AbsenceVerified
<1>6. BuildRoot(S) = Commitment(n, MTH(leaves))
  BY DEF BuildRoot
<1>7. p.size # 0
  <2> SUFFICES ASSUME p.size = 0 PROVE FALSE
    OBVIOUS
  <2>1. BuildRoot(S) = Commitment(0, EmptyHash)
    BY <1>5 DEF VerifySortedAbsence
  <2>2. n = 0
    <3> HIDE DEF n, leaves
    <3> QED
      BY <1>6, <2>1, CommitmentTells
  <2> QED
    BY <1>1, <1>2, <2>2
<1>8. /\ \A e \in p.pred \cup p.succ : VerifyAuditPath(e, p.size, BuildRoot(S))
      /\ \A e \in p.pred : e.leaf < t
      /\ \A e \in p.succ : t < e.leaf
  BY <1>5, <1>7 DEF VerifySortedAbsence
<1>9. ASSUME NEW e \in p.pred \cup p.succ
      PROVE  /\ e.index \in 0 .. n - 1 /\ p.size = n
             /\ e.leaf \in S /\ e.leaf \in Int /\ Below(S, e.leaf) = e.index
  <2>1. e \in E /\ VerifyAuditPath(e, p.size, BuildRoot(S))
    <3> HIDE DEF E
    <3> QED
      BY <1>4, <1>8
  <2>2. e.index \in 0 .. n - 1 /\ p.size = n /\ e.leaf = leaves[e.index + 1]
    BY <2>1, ClaimedLeafIsTrue
  <2> DEFINE i == e.index + 1
  <2>3. i \in 1 .. n /\ i - 1 = e.index /\ e.leaf = leaves[i]
    BY <1>1, <2>2
  <2> HIDE DEF i, leaves, n
  <2> QED
    BY <1>1, <2>2, <2>3
<1> HIDE DEF leaves, n, E, rank
<1>10. ASSUME NEW e \in p.pred PROVE e.index < rank /\ e.index \in Nat
  <2>1. e.leaf < t /\ e.leaf \in S /\ e.leaf \in Int /\ Below(S, e.leaf) = e.index /\ e.index \in Nat
    BY <1>1, <1>8, <1>9
  <2>2. Below(S, e.leaf) < Below(S, t)
    BY <1>2, <2>1, BelowGrows
  <2> QED
    BY <2>1, <2>2 DEF rank
<1>11. ASSUME NEW e \in p.succ PROVE rank < e.index /\ e.index \in Nat
  <2>1. t < e.leaf /\ e.leaf \in S /\ e.leaf \in Int /\ Below(S, e.leaf) = e.index /\ e.index \in Nat
    BY <1>1, <1>8, <1>9
  <2>2. Below(S, t) < Below(S, e.leaf)
    BY <1>2, <2>1, BelowGrows
  <2> QED
    BY <2>1, <2>2 DEF rank
<1>12. CASE p.pred = {}
  <2>1. PICK e \in p.succ : e.index = 0
    BY <1>3, <1>12 DEF Bracket
  <2> QED
    BY <1>2, <1>11, <2>1
<1>13. CASE p.succ = {}
  <2>1. PICK e \in p.pred : e.index = p.size - 1
    BY <1>3, <1>13 DEF Bracket
  <2>2. p.size = n
    BY <1>9, <2>1
  <2>3. e.index < rank /\ e.index \in Nat /\ e.index = n - 1
    BY <1>10, <2>1, <2>2
  <2> QED
    BY <1>1, <1>2, <2>3
<1>14. CASE p.pred # {} /\ p.succ # {}
  <2>1. PICK a \in p.pred, b \in p.succ : b.index = a.index + 1
    BY <1>3, <1>14 DEF Bracket
  <2>2. a.index < rank /\ rank < b.index /\ a.index \in Nat
    BY <1>10, <1>11
  <2> QED
    BY <1>2, <2>1, <2>2
<1> QED
  BY <1>12, <1>13, <1>14

\* LegacyUnprovable, of verify_absence in verify/merkle.py: no choice of a tree's
\* leaves and paths, at whatever indices and for whatever size, brackets one of
\* the tree's own subjects.
THEOREM ThePresentAreNotBracketed == Spec => []LegacyUnprovable
<1>1. ASSUME TreeInv PROVE LegacyUnprovable
  <2>1. present \in SUBSET Refs
    BY <1>1 DEF TreeInv
  <2>2. LegacyFooled[present] =
          \E p \in ClaimedProofs(present), t \in present :
            AbsenceVerified(t, p, BuildRoot(present))
    BY <2>1 DEF LegacyFooled
  <2>3. \A p \in ClaimedProofs(present), t \in present :
          ~AbsenceVerified(t, p, BuildRoot(present))
    BY <2>1, PresentIsNotBracketed
  <2> QED
    BY <2>2, <2>3 DEF LegacyUnprovable
<1> QED
  BY <1>1, TreesStaySound, PTL

-----------------------------------------------------------------------------
(* Certificates verify *)

LEMMA StringsAreOrdered ==
  ASSUME NEW d \in Nat, NEW e \in Nat, StringBefore(d, e)
  PROVE  d # e /\ ~StringBefore(e, d)
<1>1. Padded(d) \in Int /\ Padded(e) \in Int /\ (d = e => Padded(d) = Padded(e))
  BY DEF Padded
<1> HIDE DEF Padded
<1> QED
  BY <1>1 DEF StringBefore

\* Where the depths have one order, JSON leaves every sibling in its place.
LEMMA PlacesAreKept ==
  ASSUME NEW siblings, DOMAIN siblings \subseteq Nat,
         \A d, e \in DOMAIN siblings : d < e => StringBefore(d, e),
         NEW p, p.siblings = siblings, p.keys = "integers",
         NEW q, q.siblings = siblings, q.keys = "strings",
         NEW d \in DOMAIN siblings
  PROVE  PlaceOf(p, d) = PlaceOf(q, d)
<1> DEFINE D == DOMAIN siblings
<1>1. ASSUME NEW e \in D PROVE e < d <=> StringBefore(e, d)
  <2>1. d \in Nat /\ e \in Nat /\ d \in D
    OBVIOUS
  <2>2. e < d => StringBefore(e, d)
    BY <2>1
  <2>3. d < e => StringBefore(d, e)
    BY <2>1
  <2>4. StringBefore(e, d) => e # d /\ ~StringBefore(d, e)
    BY <2>1, StringsAreOrdered
  <2> QED
    BY <2>1, <2>2, <2>3, <2>4
<1>2. {e \in D : e < d} = {e \in D : StringBefore(e, d)}
  BY <1>1
<1>3. PlaceOf(p, d) = Cardinality({e \in D : e < d})
  BY DEF PlaceOf
<1>4. PlaceOf(q, d) = Cardinality({e \in D : StringBefore(e, d)})
  BY DEF PlaceOf
<1> QED
  BY <1>2, <1>3, <1>4

LEMMA SignedVerifies ==
  ASSUME NEW m, DOMAIN m = REQUIRED_FIELDS \cup {"signature"},
         m.signature = Signature("operator", m),
         AbsenceVerified(m.subject_ref, m.absence_proof, m.dataset_root)
  PROVE  Verdict(m, "operator") = "VERIFIED"
BY DEF Verdict

LEMMA FetchedIsSigned ==
  ASSUME NEW m, WellSigned(m), SparselyIssued(m), OneOrder(m.absence_proof)
  PROVE  LET r == Fetched(m)
         IN  /\ DOMAIN r = REQUIRED_FIELDS \cup {"signature"}
             /\ r.signature = Signature("operator", r)
             /\ AbsenceVerified(r.subject_ref, r.absence_proof, r.dataset_root)
<1>1. PICK tree, t :
        /\ m.subject_ref = t /\ m.absence_proof = SparseProof(tree, t)
        /\ DOMAIN ProvenSiblings(tree, t) \subseteq 0 .. DEPTH - 1
        /\ VerifyAbsence(t, ProvenSiblings(tree, t), m.dataset_root)
  BY DEF SparselyIssued
<1> DEFINE p == m.absence_proof
           q == [p EXCEPT !.keys = "strings"]
           siblings == ProvenSiblings(tree, t)
           r == Fetched(m)
<1>2. p = [scheme |-> "smt-256", keys |-> "integers", siblings |-> siblings]
  BY <1>1 DEF SparseProof
<1>3. q = [scheme |-> "smt-256", keys |-> "strings", siblings |-> siblings]
  BY <1>2
<1>4. IsSparse(p) /\ IsSparse(q)
  BY <1>2, <1>3 DEF IsSparse
<1>5. r = [m EXCEPT !.absence_proof = q]
  BY <1>4 DEF Fetched
<1>6. DOMAIN m = REQUIRED_FIELDS \cup {"signature"} /\ m.signature = Signature("operator", m)
  BY CanonicalParts DEF WellSigned
<1>7. /\ DOMAIN r = DOMAIN m /\ r.absence_proof = q
      /\ \A f \in DOMAIN m : f # "absence_proof" => r[f] = m[f]
  <2>1. "absence_proof" \in DOMAIN m
    BY <1>6 DEF REQUIRED_FIELDS
  <2> HIDE DEF q, r
  <2> QED
    BY <1>5, <2>1
<1>8. Canonical(p) = Canonical(q)
  <2> HIDE DEF p, q
  <2>1. p.siblings = siblings /\ p.keys = "integers" /\ q.siblings = siblings /\ q.keys = "strings"
    BY <1>2, <1>3
  <2> HIDE DEF siblings
  <2>2. DOMAIN siblings \subseteq Nat
    BY <1>1 DEF siblings
  <2>3. \A d, e \in DOMAIN siblings : d < e => StringBefore(d, e)
    BY <1>4, <2>1 DEF OneOrder, p
  <2>4. \A d \in DOMAIN siblings : PlaceOf(p, d) = PlaceOf(q, d)
    BY <2>1, <2>2, <2>3, PlacesAreKept
  <2> QED
    BY <1>4, <2>1, <2>4 DEF Canonical
<1> HIDE DEF p, q, r
<1>9. CanonicalBytes(r) = CanonicalBytes(m)
  <2>1. ASSUME NEW f \in DOMAIN m \ {"signature"}
        PROVE  (IF f = "absence_proof" THEN Canonical(r[f]) ELSE r[f])
                 = (IF f = "absence_proof" THEN Canonical(m[f]) ELSE m[f])
    BY <1>7, <1>8 DEF p
  <2> QED
    BY <1>7, <2>1 DEF CanonicalBytes
<1>10. r.signature = Signature("operator", r)
  <2>1. r.signature = m.signature
    BY <1>6, <1>7
  <2> QED
    BY <1>6, <1>9, <2>1 DEF Signature
<1>11. AbsenceVerified(r.subject_ref, r.absence_proof, r.dataset_root)
  <2>1. r.subject_ref = t /\ r.dataset_root = m.dataset_root
    BY <1>1, <1>6, <1>7 DEF REQUIRED_FIELDS
  <2>2. q.siblings = siblings
    BY <1>3
  <2> QED
    BY <1>1, <1>4, <1>7, <2>1, <2>2 DEF AbsenceVerified, siblings
<1> QED
  BY <1>6, <1>7, <1>10, <1>11 DEF r

\* IssuedVerifies, of verify_certificate: what the engines sign verifies, from
\* the sorted tree or the sparse one, and what JSON makes of it as long as it
\* keeps the depths in order.
THEOREM IssuedCertificatesVerify == Spec => []IssuedVerifies
<1>1. ASSUME CertInv PROVE IssuedVerifies
  <2> SUFFICES ASSUME NEW m \in cert
               PROVE  /\ Verdict(m, "operator") = "VERIFIED"
                      /\ OneOrder(m.absence_proof) => Verdict(Fetched(m), "operator") = "VERIFIED"
    BY DEF IssuedVerifies
  <2>1. WellSigned(m) /\ (SparselyIssued(m) \/ LegacyIssued(m))
    BY <1>1 DEF CertInv
  <2>2. DOMAIN m = REQUIRED_FIELDS \cup {"signature"} /\ m.signature = Signature("operator", m)
    BY <2>1, CanonicalParts DEF WellSigned
  <2>3. CASE SparselyIssued(m)
    <3>1. AbsenceVerified(m.subject_ref, m.absence_proof, m.dataset_root)
      BY <2>3, SparseProofIsSparse DEF SparselyIssued, AbsenceVerified
    <3>2. Verdict(m, "operator") = "VERIFIED"
      BY <2>2, <3>1, SignedVerifies
    <3>3. ASSUME OneOrder(m.absence_proof) PROVE Verdict(Fetched(m), "operator") = "VERIFIED"
      BY <2>1, <2>3, <3>3, FetchedIsSigned, SignedVerifies
    <3> QED
      BY <3>2, <3>3
  <2>4. CASE LegacyIssued(m)
    <3>1. PICK S \in SUBSET Refs : \E t \in Refs \ S :
            /\ m.subject_ref = t /\ m.absence_proof = ProveAbsence(t, S)
            /\ m.dataset_root = BuildRoot(S)
      BY <2>4 DEF LegacyIssued
    <3>2. PICK t \in Refs \ S :
            /\ m.subject_ref = t /\ m.absence_proof = ProveAbsence(t, S)
            /\ m.dataset_root = BuildRoot(S)
      BY <3>1
    <3>3. ~IsSparse(m.absence_proof)
      BY <3>2, LegacyIsNotSparse
    <3>4. AbsenceVerified(m.subject_ref, m.absence_proof, m.dataset_root)
      BY <3>2, <3>3, LegacyAbsenceVerifies DEF AbsenceVerified
    <3>5. Verdict(m, "operator") = "VERIFIED"
      BY <2>2, <3>4, SignedVerifies
    <3>6. Fetched(m) = m
      BY <3>3 DEF Fetched
    <3> QED
      BY <3>5, <3>6
  <2> QED
    BY <2>1, <2>3, <2>4
<1> QED
  BY <1>1, CertificatesAreKept, PTL

=============================================================================
