---------------------------- MODULE SortedMerkle ----------------------------
(***************************************************************************)
(* The sorted Merkle tree of verify/merkle.py, whose certificates the      *)
(* verifier still accepts: RFC 6962 roots and audit paths, and absence as  *)
(* two adjacent leaves on either side of the target.                       *)
(*                                                                         *)
(* A subject_ref is a number, compared as bytes are; S is a set of them.   *)
(* SHA-256 is ideal: a hash is the term that was hashed.                   *)
(***************************************************************************)
EXTENDS Integers, FiniteSets, Sequences

-----------------------------------------------------------------------------
(* Roots and audit paths *)

LeafHash(ref) == <<"leaf", ref>>
NodeHash(left, right) == <<"node", left, right>>
EmptyHash == <<"empty">>

\* _commit: the published root binds the number of leaves.
Commitment(size, hash) == <<"root", size, hash>>

\* _sorted_leaves
Below(S, ref) == Cardinality({s \in S : s < ref})
SortedLeaves(S) ==
  [i \in 1 .. Cardinality(S) |-> CHOOSE s \in S : Below(S, s) = i - 1]

Odd(n) == n % 2 = 1
Half(n) == n \div 2

\* 1 << (m.bit_length() - 1): the highest bit of m, alone.
TopBit[m \in Nat] == IF m <= 1 THEN 1 ELSE 2 * TopBit[Half(m)]

\* _split: the largest power of two below n.
Split(n) == TopBit[n - 1]

\* _mth of every slice of leaves, by its length and the index before its first.
SliceRoots(leaves) ==
  LET mth[n \in 0 .. Len(leaves)] ==
        [from \in 0 .. Len(leaves) |->
           IF n = 0 THEN EmptyHash
           ELSE IF n = 1 THEN LeafHash(leaves[from + 1])
           ELSE NodeHash(mth[Split(n)][from], mth[n - Split(n)][from + Split(n)])]
  IN  mth

MTH(leaves) == SliceRoots(leaves)[Len(leaves)][0]

BuildRoot(S) == Commitment(Cardinality(S), MTH(SortedLeaves(S)))

\* _audit_path of every slice, by index in it, leaf first; indices count from 0
\* as in the code.
SlicePaths(leaves) ==
  LET mth == SliceRoots(leaves)
      path[n \in 0 .. Len(leaves)] ==
        [from \in 0 .. Len(leaves) |->
          [index \in 0 .. Len(leaves) |->
             IF n <= 1 THEN <<>>
             ELSE IF index < Split(n)
             THEN Append(path[Split(n)][from][index],
                         mth[n - Split(n)][from + Split(n)])
             ELSE Append(path[n - Split(n)][from + Split(n)][index - Split(n)],
                         mth[Split(n)][from])]]
  IN  path

AuditPath(index, leaves) == SlicePaths(leaves)[Len(leaves)][0][index]

\* The while loop of reconstruct_root: up past the levels at which the last
\* node has no sibling.
SkipLonely[fn \in Nat] ==
  [sn \in Nat |->
     IF fn # 0 /\ ~Odd(fn) THEN SkipLonely[Half(fn)][Half(sn)] ELSE <<fn, sn>>]

\* A bug IssuedVerifies must catch: no level is skipped.
Climb_EveryLevel(at, sibling) ==
  [hash |-> IF Odd(at.fn) \/ at.fn = at.sn THEN NodeHash(sibling, at.hash)
            ELSE NodeHash(at.hash, sibling),
   fn |-> Half(at.fn), sn |-> Half(at.sn)]

\* One pass of the for loop of reconstruct_root.
Climb(at, sibling) ==
  IF Odd(at.fn) \/ at.fn = at.sn
  THEN LET past == SkipLonely[at.fn][at.sn]
       IN  [hash |-> NodeHash(sibling, at.hash), fn |-> Half(past[1]), sn |-> Half(past[2])]
  ELSE [hash |-> NodeHash(at.hash, sibling), fn |-> Half(at.fn), sn |-> Half(at.sn)]

\* The loop, pass by pass.
Climbs(leaf, index, size, path) ==
  LET at[i \in 0 .. Len(path)] ==
        IF i = 0 THEN [hash |-> LeafHash(leaf), fn |-> index, sn |-> size - 1]
        ELSE Climb(at[i - 1], path[i])
  IN  at

\* The size runs out with the path, no sooner and no later.
RunsOut(at, n) == at[n].sn = 0 /\ \A i \in 0 .. n - 1 : at[i].sn # 0

\* reconstruct_root; {} is its None.
ReconstructRoot(leaf, index, size, path) ==
  LET at == Climbs(leaf, index, size, path)
  IN  IF index < size /\ index >= 0 /\ RunsOut(at, Len(path)) THEN {at[Len(path)].hash} ELSE {}

VerifyAuditPath(entry, size, root) ==
  \E hash \in ReconstructRoot(entry.leaf, entry.index, size, entry.path) :
    Commitment(size, hash) = root

-----------------------------------------------------------------------------
(* Absence: pred and succ are {} or {an entry} *)

Entry(leaves, i) ==
  [leaf |-> leaves[i + 1], index |-> i, path |-> AuditPath(i, leaves)]

\* prove_absence, of a target that is not in S: lo is where bisection ends.
ProveAbsence(target, S) ==
  LET leaves == SortedLeaves(S)
      n == Len(leaves)
      lo == Below(S, target)
  IN  [size |-> n,
       pred |-> IF lo > 0 THEN {Entry(leaves, lo - 1)} ELSE {},
       succ |-> IF lo < n THEN {Entry(leaves, lo)} ELSE {}]

\* A bug LegacyUnprovable must catch: any two leaves may bracket the target.
Bracket_AnyGap(pred, succ, size) ==
  /\ pred = {} => \E e \in succ : e.index = 0
  /\ succ = {} => \E e \in pred : e.index = size - 1

\* The adjacency checks of verify_absence: the entries are next to each other,
\* or the one there is stands at its end of the tree.
Bracket(pred, succ, size) ==
  /\ pred = {} => \E e \in succ : e.index = 0
  /\ succ = {} => \E e \in pred : e.index = size - 1
  /\ \A p \in pred, s \in succ : s.index = p.index + 1

VerifySortedAbsence(target, proof, root) ==
  IF proof.size = 0
  THEN proof.pred = {} /\ proof.succ = {} /\ root = Commitment(0, EmptyHash)
  ELSE /\ Bracket(proof.pred, proof.succ, proof.size)
       /\ \A e \in proof.pred \cup proof.succ : VerifyAuditPath(e, proof.size, root)
       /\ \A e \in proof.pred : e.leaf < target
       /\ \A e \in proof.succ : target < e.leaf

\* Entries with a leaf of the tree and its audit path, at any claimed index.
ClaimedEntries(S) ==
  LET leaves == SortedLeaves(S)
      indices == 0 .. Len(leaves) - 1
  IN  {[Entry(leaves, i) EXCEPT !.index = j] : i \in indices, j \in indices}

\* Proofs put together from S's own leaves and paths, at the indices they have
\* or at others, next to each other or not, for a tree of any claimed size.
ClaimedProofs(S) ==
  LET ends == {{}} \cup {{e} : e \in ClaimedEntries(S)}
  IN  {p \in [size : 0 .. Cardinality(S) + 1, pred : ends, succ : ends] :
         Bracket(p.pred, p.succ, p.size)}

=============================================================================
