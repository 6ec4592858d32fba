---------------------------- MODULE SparseMerkle ----------------------------
(***************************************************************************)
(* The sparse Merkle tree of verify/smt.py: build, removal in place of a   *)
(* rebuild, absence proofs and their verification, as one shard's tree     *)
(* lives through the batches that purge the shard.                         *)
(*                                                                         *)
(* SHA-256 is ideal: a hash is the term that was hashed, so two hashes are *)
(* equal only if their inputs are.  A subject_ref is a number of DEPTH     *)
(* bits.                                                                   *)
(***************************************************************************)
EXTENDS Integers, FiniteSets, Sequences, SequencesExt

CONSTANTS
  DEPTH,      \* bits of a subject_ref; 256 in the code
  Refs,       \* the subject_refs there are
  MaxBatch    \* bound on the refs of one remove call

ASSUME TreeBounds ==
  /\ DEPTH \in Nat \ {0} /\ MaxBatch \in Nat \ {0}
  /\ Refs \subseteq 0 .. 2 ^ DEPTH - 1 /\ IsFiniteSet(Refs)

VARIABLES
  present,  \* the subjects of the shard file, and the tree's _keys
  root      \* the tree's _root

treeVars == <<present, root>>

\* _bit, the most significant one first.
Bit(key, d) == (key \div 2 ^ (DEPTH - 1 - d)) % 2

\* The bits of a number are bits, and no two numbers have all of them in common.
ASSUME BitsTellApart ==
  /\ \A k \in Refs, d \in 0 .. DEPTH - 1 : Bit(k, d) \in {0, 1}
  /\ \A k, l \in Refs : (\A d \in 0 .. DEPTH - 1 : Bit(k, d) = Bit(l, d)) => k = l

-----------------------------------------------------------------------------
(* Hashes *)

\* The hashes of an empty subtree and of one that holds key and nothing else
\* are named by their depth instead of spelled out.
Default(d) == <<"default", d>>
Single(key, d) == <<"single", d, key>>
EmptyLeaf == Default(DEPTH)
Leaf(key) == Single(key, DEPTH)

\* _node: Default and Single are closed under it, as their meaning demands.
Node(left, right) ==
  LET d == left[2] - 1
      single(node, other, bit) ==
        node[1] = "single" /\ other[1] = "default" /\ Bit(node[3], d) = bit
  IN  CASE left[1] = "default" /\ right[1] = "default" -> Default(d)
        [] single(left, right, 0) -> Single(left[3], d)
        [] single(right, left, 1) -> Single(right[3], d)
        [] OTHER -> <<"node", d, left, right>>

\* DEFAULTS[d] is the root of an empty subtree at depth d.
DEFAULTS[d \in 0 .. DEPTH] ==
  IF d = DEPTH THEN EmptyLeaf ELSE Node(DEFAULTS[d + 1], DEFAULTS[d + 1])

\* The parent at depth d of a node on key's path and its sibling.
Parent(key, d, node, sibling) ==
  IF Bit(key, d) = 0 THEN Node(node, sibling) ELSE Node(sibling, node)

\* The hashes on key's path, from a node at depth up to the root: the loop that
\* _singleton_root, _remove_key and verify_absence have in common.
Ascend(key, depth, node, siblings) ==
  LET up[d \in 0 .. depth] ==
        IF d = depth THEN node ELSE Parent(key, d, up[d + 1], siblings[d])
  IN  up

\* The siblings on a path, the ones that nobody names being empty subtrees.
Filled(siblings) ==
  [d \in 0 .. DEPTH - 1 |->
     IF d \in DOMAIN siblings THEN siblings[d] ELSE DEFAULTS[d + 1]]

NoSiblings == [d \in {} |-> EmptyLeaf]

\* The root of a subtree at depth that holds key and nothing else.
SingletonRoot(key, depth) ==
  Ascend(key, DEPTH, Leaf(key), Filled(NoSiblings))[depth]

TheKey(K) == CHOOSE k \in K : TRUE
Side(K, d, bit) == {k \in K : Bit(k, d) = bit}

\* _subtree_root, from which auditors can recompute a root without a tree.  Two
\* keys have no bit in common below the last one: _bit would raise.
SubtreeRoot[d \in 0 .. DEPTH] ==
  [K \in SUBSET Refs |->
     IF K = {} THEN DEFAULTS[d]
     ELSE IF Cardinality(K) = 1 THEN SingletonRoot(TheKey(K), d)
     ELSE IF d = DEPTH THEN <<"raised">>
     ELSE Node(SubtreeRoot[d + 1][Side(K, d, 0)], SubtreeRoot[d + 1][Side(K, d, 1)])]

-----------------------------------------------------------------------------
(* Materialised trees *)

\* A node's place: its depth, and the bits that lead to it.
Place(key, d) == [depth |-> d, bits |-> [e \in 0 .. d - 1 |-> Bit(key, e)]]

Child(place, bit) ==
  [depth |-> place.depth + 1,
   bits |-> [e \in 0 .. place.depth |-> IF e = place.depth THEN bit ELSE place.bits[e]]]

Sibling(key, d) == Child(Place(key, d), 1 - Bit(key, d))
Top == [depth |-> 0, bits |-> [e \in {} |-> 0]]

Under(K, place) == {k \in K : \A e \in 0 .. place.depth - 1 : Bit(k, e) = place.bits[e]}

\* Where _build has internal nodes, and where it has nodes.
Shared(K) ==
  {place \in {Place(k, d) : k \in K, d \in 0 .. DEPTH} : Cardinality(Under(K, place)) > 1}
Places(K) == {Top} \cup {Child(place, bit) : place \in Shared(K), bit \in {0, 1}}

\* _build: _subtree_root that keeps every node it makes.  A node has a hash, and
\* a key, or none, if it is not an internal one.
Build(K) ==
  [hash |-> [place \in Places(K) |-> SubtreeRoot[place.depth][Under(K, place)]],
   key |-> [place \in Places(K) \ Shared(K) |-> Under(K, place)]]

RootOf(tree) == tree.hash[Top]

\* How deep the path of target goes before it ends in a node without children.
EndOf(tree, target) ==
  CHOOSE d \in 0 .. DEPTH : Place(target, d) \in DOMAIN tree.key

\* The ValueError of _remove_key, which leaves no tree.
Raised == [hash |-> [place \in {Top} |-> <<"raised">>], key |-> [place \in {Top} |-> {}]]

\* A bug PresentUnprovable must catch: siblings are taken for empty.
SiblingsOn_Empty(tree, target) == [d \in 0 .. EndOf(tree, target) - 1 |-> DEFAULTS[d + 1]]

\* The hashes beside target's path.
SiblingsOn(tree, target) ==
  [d \in 0 .. EndOf(tree, target) - 1 |-> tree.hash[Sibling(target, d)]]

\* _remove_key: the leaf is emptied and its path hashed again; an internal node
\* left with one key is not collapsed.
RemoveKey(tree, target) ==
  LET end == EndOf(tree, target)
      up == Ascend(target, end, DEFAULTS[end], SiblingsOn(tree, target))
      onPath(place) == place.depth <= end /\ place = Place(target, place.depth)
  IN  IF tree.key[Place(target, end)] # {target} THEN Raised
      ELSE [hash |-> [place \in DOMAIN tree.hash |->
                        IF onPath(place) THEN up[place.depth] ELSE tree.hash[place]],
            key |-> [tree.key EXCEPT ![Place(target, end)] = {}]]

\* A bug RemovalIsRebuild must catch: a ref listed twice is removed twice.
RemoveNext_Again(acc, target) ==
  [root |-> RemoveKey(acc.root, target), removed |-> acc.removed \cup {target}]

\* One pass of remove's loop.
RemoveNext(acc, target) ==
  IF target \in acc.removed THEN acc
  ELSE [root |-> RemoveKey(acc.root, target), removed |-> acc.removed \cup {target}]

\* The loop, pass by pass.
Removals(tree, refs) ==
  LET after[i \in 0 .. Len(refs)] ==
        IF i = 0 THEN [root |-> tree, removed |-> {}] ELSE RemoveNext(after[i - 1], refs[i])
  IN  after

-----------------------------------------------------------------------------
(* Absence proofs: siblings by depth, where they are not default *)

\* A bug AbsentProved must catch: the sibling's root is taken one level high.
Fork_LevelHigh(key, target, depth) ==
  LET forks == {d \in depth .. DEPTH - 1 : Bit(target, d) # Bit(key, d)}
  IN  [d \in {f \in forks : \A g \in forks : f <= g} |-> SingletonRoot(key, d)]

\* The sibling where target's path leaves that of a singleton's key.
Fork(key, target, depth) ==
  LET forks == {d \in depth .. DEPTH - 1 : Bit(target, d) # Bit(key, d)}
  IN  [d \in {f \in forks : \A g \in forks : f <= g} |-> SingletonRoot(key, d + 1)]

\* prove_absence: the siblings met on the way down, and at its end the one of a
\* singleton; its caller's target is not in the tree.
ProvenSiblings(tree, target) ==
  LET beside == SiblingsOn(tree, target)
      end == EndOf(tree, target)
      last == tree.key[Place(target, end)]
      met == {d \in DOMAIN beside : beside[d] # DEFAULTS[d + 1]}
      fork == IF last = {} THEN NoSiblings ELSE Fork(TheKey(last), target, end)
  IN  [d \in met \cup DOMAIN fork |-> IF d \in met THEN beside[d] ELSE fork[d]]

\* smt.verify_absence of a well-formed proof: from an empty leaf at the target's
\* position up to the root.
VerifyAbsence(target, siblings, hash) ==
  Ascend(target, DEPTH, EmptyLeaf, Filled(siblings))[0] = hash

-----------------------------------------------------------------------------
(* The tree of a shard across batches *)

\* The worker starts: some set of subjects is in the shard file.
TreeInit ==
  /\ present \in SUBSET Refs
  /\ root = Build(present)

\* SparseMerkleTree.remove; it raises if some ref is not present.
RemoveBatch(refs) ==
  /\ ToSet(refs) \subseteq present
  /\ root' = Removals(root, refs)[Len(refs)].root
  /\ present' = present \ ToSet(refs)

\* tree_for_shard misses the cache, in a new process or after another one
\* changed the shard: the tree is built from the file.
Rebuild ==
  /\ root' = Build(present)
  /\ UNCHANGED present

\* A tree that removals have worn down, never collapsed, has bit for bit the
\* root build_root computes over the surviving subjects, however the removals
\* were batched, ordered and repeated.
RemovalIsRebuild == RootOf(root) = SubtreeRoot[0][present]

=============================================================================
