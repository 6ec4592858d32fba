----------------------------- MODULE GbdtEngine -----------------------------
(***************************************************************************)
(* The offline half of an erasure under the tree engine, engine/gbdt.py:   *)
(* one booster file per shard, whose prefixes are the states after each    *)
(* slice.  Rolling back truncates it, and a rebuild trains in memory       *)
(* before it writes anything.                                              *)
(*                                                                         *)
(* As in SisaEngine one action is one file read or write with the          *)
(* computation up to the next, and a shard file is the set of subjects it  *)
(* holds.  A booster is, for each slice, the subjects whose rows its trees *)
(* were fit on; the trees of a slice follow those of the slices before it. *)
(***************************************************************************)
EXTENDS Integers, FiniteSets

CONSTANTS
  Subjects, Shards, NUM_SLICES,
  ShardOf, SliceOf,   \* frozen by engine.train.build
  Workers,            \* worker processes over the same files
  SigningKeySet,      \* whether sign_manifest finds its key
  MaxCrashes,         \* bound on process deaths
  MaxFaults           \* bound on exceptions raised by I/O or the library

Slices == 0 .. NUM_SLICES - 1

ASSUME GbdtSlices == NUM_SLICES \in Nat \ {0}
ASSUME GbdtAssignment ==
  /\ Shards # {}
  /\ ShardOf \in [Subjects -> Shards] /\ SliceOf \in [Subjects -> Slices]
ASSUME GbdtBounds ==
  MaxCrashes \in Nat /\ MaxFaults \in Nat /\ SigningKeySet \in BOOLEAN

VARIABLES
  shardFile,   \* [Shards -> subjects with rows in shard{k}.npz]
  routing,     \* subjects listed in routing.json
  booster,     \* [Shards -> the booster in shard{k}_gbdt.json]
  torn,        \* files whose last write was cut short; they no longer load
  treeCache,   \* [Workers -> [Shards -> {} or {the cached Merkle tree}]]
  call,        \* [Workers -> the locals of its rebuild_batch_by_ref]
  requested,   \* history: subjects some call was asked to erase
  issued,      \* history: manifests returned to a caller
  crashes, faults

files == <<shardFile, routing, booster, torn>>
vars == <<files, treeCache, call, requested, issued, crashes, faults>>

-----------------------------------------------------------------------------
(* Data *)

Booster == [Slices -> SUBSET Subjects]

\* xgb_model=None
NoTrees == [j \in Slices |-> {}]

\* _matrix: the rows of slices 0..i.
RowsUpTo(rows, i) == {s \in rows : SliceOf[s] <= i}

\* A bug KeepsContract must catch: the trees of slice `to` itself are kept.
Rollback_OneTooFew(b, to) ==
  IF to = 0 THEN NoTrees ELSE [j \in Slices |-> IF j <= to THEN b[j] ELSE {}]

\* booster[0 : to * trees_per_slice], or none for slice 0.
Rollback(b, to) ==
  IF to = 0 THEN NoTrees ELSE [j \in Slices |-> IF j < to THEN b[j] ELSE {}]

\* A bug TypeOK must catch: the loop runs one slice too far.
Boost_OneMore(b, rows, from) ==
  [j \in 0 .. NUM_SLICES |->
     IF j < from THEN b[j] ELSE RowsUpTo(rows, j)]

\* train_shard: boosting adds trees to what it is given.
Boost(b, rows, from) ==
  [j \in Slices |-> IF j < from THEN b[j] ELSE b[j] \cup RowsUpTo(rows, j)]

\* The subject's rows shaped some tree.
Influences(s, b) == \E j \in Slices : s \in b[j]

\* rebuild_booster's keep mask.
Purge(rows, R) == rows \ R

\* A bug RootMatchesTraining must catch: the cached tree is not validated.
TreeForShard_Unvalidated(cached, rows) ==
  IF cached # {} THEN CHOOSE t \in cached : TRUE ELSE rows

\* smt.tree_for_shard: a tree is the set of keys its root commits to.
TreeForShard(cached, rows) ==
  IF rows \in cached THEN CHOOSE t \in cached : t = rows ELSE rows

RoutingFile == <<"routing">>
ShardFile(k) == <<"shard", k>>
BoosterFile(k) == <<"booster", k>>
Files == {RoutingFile} \cup {ShardFile(k) : k \in Shards}
           \cup {BoosterFile(k) : k \in Shards}

Phases == {"idle", "routed", "loaded", "trained", "purged", "saved",
           "certified", "returned", "raised"}

Call == [pc    : Phases,
         refs  : SUBSET Subjects,
         dup   : BOOLEAN,           \* refs lists some subject twice
         known : SUBSET Subjects,   \* the routing dict it loaded
         shard : Shards,
         from  : Slices,            \* min_slice
         rows  : SUBSET Subjects,   \* records, then retained
         tree  : SUBSET Subjects,   \* tree_before, then tree
         model : Booster]           \* rebuilt

Idle == [pc |-> "idle", refs |-> {}, dup |-> FALSE, known |-> {},
         shard |-> CHOOSE k \in Shards : TRUE, from |-> 0, rows |-> {},
         tree |-> {}, model |-> NoTrees]

Manifest == [subject : Subjects, shard : Shards, from : Slices,
             root : SUBSET Subjects, weights : Booster]

-----------------------------------------------------------------------------
(* engine.train.build, then engine.gbdt.build *)

Init ==
  /\ shardFile = [k \in Shards |-> {s \in Subjects : ShardOf[s] = k}]
  /\ routing = Subjects
  /\ booster = [k \in Shards |-> Boost(NoTrees, shardFile[k], 0)]
  /\ torn = {}
  /\ treeCache = [w \in Workers |-> [k \in Shards |-> {}]]
  /\ call = [w \in Workers |-> Idle]
  /\ requested = {}
  /\ issued = {}
  /\ crashes = 0
  /\ faults = 0

-----------------------------------------------------------------------------
(* rebuild_batch_by_ref *)

\* An exception leaves the call, and its locals are gone.
Raise(w) == call' = [call EXCEPT ![w] = [Idle EXCEPT !.pc = "raised"]]
Quiet == UNCHANGED <<requested, issued, crashes, faults>>

\* A bug FunctionOfRetainedData must catch: the latest slice of the batch.
MinSlice_Latest(R, f) ==
  (\A r \in R : SliceOf[r] <= f) /\ \E r \in R : SliceOf[r] = f

\* min(e["min_slice_idx"] for e in entries)
MinSlice(R, f) ==
  (\A r \in R : f <= SliceOf[r]) /\ \E r \in R : SliceOf[r] = f

\* load_routing and the checks on the batch.
BeginRebuild(w, R, dup) ==
  /\ call[w].pc = "idle"
  /\ requested' = requested \cup R
  /\ \/ /\ RoutingFile \notin torn
        /\ R \subseteq routing
        /\ \E k \in Shards, f \in Slices :
             /\ \A r \in R : ShardOf[r] = k
             /\ MinSlice(R, f)
             /\ call' = [call EXCEPT ![w] =
                  [Idle EXCEPT !.pc = "routed", !.refs = R, !.dup = dup,
                               !.known = routing, !.shard = k, !.from = f]]
     \/ /\ \/ RoutingFile \in torn
           \/ ~(R \subseteq routing)
           \/ \E r, q \in R : ShardOf[r] # ShardOf[q]
        /\ Raise(w)
  /\ UNCHANGED <<files, treeCache, issued, crashes, faults>>

\* load_shard and tree_for_shard.
LoadShard(w) ==
  LET c == call[w]
      onDisk == shardFile[c.shard]
  IN  /\ c.pc = "routed"
      /\ IF ShardFile(c.shard) \notin torn
         THEN call' = [call EXCEPT ![w] =
                [c EXCEPT !.pc = "loaded", !.rows = onDisk,
                          !.tree = TreeForShard(treeCache[w][c.shard], onDisk)]]
         ELSE Raise(w)
      /\ UNCHANGED <<files, treeCache>> /\ Quiet

\* load_booster and rebuild_booster, in memory.  It refuses a batch none of
\* whose refs has rows; one ref with rows is enough.
RebuildBooster(w) ==
  LET c == call[w]
      retained == Purge(c.rows, c.refs)
  IN  /\ c.pc = "loaded"
      /\ IF BoosterFile(c.shard) \notin torn /\ c.refs \cap c.rows # {}
         THEN call' = [call EXCEPT ![w] =
                [c EXCEPT !.pc = "trained", !.rows = retained,
                          !.model = Boost(Rollback(booster[c.shard], c.from),
                                          retained, c.from)]]
         ELSE Raise(w)
      /\ UNCHANGED <<files, treeCache>> /\ Quiet

\* xgb.train may refuse a matrix without rows.
EmptyMatrix(w) ==
  LET c == call[w]
  IN  /\ c.pc = "loaded"
      /\ RowsUpTo(Purge(c.rows, c.refs), c.from) = {}
      /\ Raise(w)
      /\ UNCHANGED <<files, treeCache>> /\ Quiet

\* The write of save_shard; what arrives may be less than what was sent.
WriteShard(w, content) ==
  shardFile' = [shardFile EXCEPT ![call[w].shard] = content]

SaveShard(w) ==
  /\ call[w].pc = "trained"
  /\ WriteShard(w, call[w].rows)
  /\ torn' = torn \ {ShardFile(call[w].shard)}
  /\ call' = [call EXCEPT ![w].pc = "purged"]
  /\ UNCHANGED <<routing, booster, treeCache>> /\ Quiet

\* A bug Forgotten must catch: the rebuilt booster is not written.
WriteBooster_Forgotten(w, content) == booster' = booster

WriteBooster(w, content) == booster' = [booster EXCEPT ![call[w].shard] = content]

SaveBooster(w) ==
  /\ call[w].pc = "purged"
  /\ WriteBooster(w, call[w].model)
  /\ torn' = torn \ {BoosterFile(call[w].shard)}
  /\ call' = [call EXCEPT ![w].pc = "saved"]
  /\ UNCHANGED <<shardFile, routing, treeCache>> /\ Quiet

\* tree_before.remove, which refuses a ref without rows, cache_tree, and the
\* signed manifests.
CertifyBatch(w) ==
  LET c == call[w]
      tree == c.tree \ c.refs
  IN  /\ c.pc = "saved"
      /\ IF c.refs \subseteq c.tree
         THEN /\ treeCache' = [treeCache EXCEPT ![w][c.shard] = {tree}]
              /\ IF SigningKeySet
                 THEN call' = [call EXCEPT ![w] =
                        [c EXCEPT !.pc = "certified", !.tree = tree]]
                 ELSE Raise(w)
         ELSE Raise(w) /\ UNCHANGED treeCache
      /\ UNCHANGED files /\ Quiet

ManifestsOf(c) ==
  {[subject |-> r, shard |-> c.shard, from |-> c.from, root |-> c.tree,
    weights |-> c.model] : r \in c.refs}

WriteRouting(w, content) == routing' = content

\* The pops, save_routing and the return.
SaveRouting(w) ==
  /\ call[w].pc = "certified"
  /\ ~call[w].dup
  /\ WriteRouting(w, call[w].known \ call[w].refs)
  /\ torn' = torn \ {RoutingFile}
  /\ issued' = issued \cup ManifestsOf(call[w])
  /\ call' = [call EXCEPT ![w] = [Idle EXCEPT !.pc = "returned"]]
  /\ UNCHANGED <<shardFile, booster, treeCache, requested, crashes, faults>>

\* The second pop of a ref that was listed twice is a KeyError.
PopTwice(w) ==
  /\ call[w].pc = "certified"
  /\ call[w].dup
  /\ Raise(w)
  /\ UNCHANGED <<files, treeCache>> /\ Quiet

Return(w) ==
  /\ call[w].pc \in {"returned", "raised"}
  /\ call' = [call EXCEPT ![w] = Idle]
  /\ UNCHANGED <<files, treeCache>> /\ Quiet

-----------------------------------------------------------------------------
(* What can go wrong around the code *)

Fault(w) ==
  /\ faults < MaxFaults
  /\ faults' = faults + 1
  /\ Raise(w)
  /\ UNCHANGED <<treeCache, crashes>>

\* The process dies, with its locals and its tree cache.
Die(w) ==
  /\ crashes < MaxCrashes
  /\ crashes' = crashes + 1
  /\ call' = [call EXCEPT ![w] = Idle]
  /\ treeCache' = [treeCache EXCEPT ![w] = [k \in Shards |-> {}]]
  /\ UNCHANGED faults

\* A write in place that is cut short leaves any part of the new content in a
\* file that does not load.
TornWrite(w) ==
  LET c == call[w]
  IN  \/ /\ c.pc = "trained"
         /\ \E part \in SUBSET c.rows : WriteShard(w, part)
         /\ torn' = torn \cup {ShardFile(c.shard)}
         /\ UNCHANGED <<routing, booster>>
      \/ /\ c.pc = "purged"
         /\ \E part \in {NoTrees, c.model} : WriteBooster(w, part)
         /\ torn' = torn \cup {BoosterFile(c.shard)}
         /\ UNCHANGED <<shardFile, routing>>
      \/ /\ c.pc = "certified"
         /\ ~c.dup
         /\ \E part \in SUBSET (c.known \ c.refs) : WriteRouting(w, part)
         /\ torn' = torn \cup {RoutingFile}
         /\ UNCHANGED <<shardFile, booster>>

Interrupted(w) ==
  /\ \/ call[w].pc \notin {"idle", "returned", "raised"} /\ UNCHANGED files
     \/ TornWrite(w)
  /\ UNCHANGED <<requested, issued>>

IOFault(w) == Interrupted(w) /\ Fault(w)
Crash(w) == Interrupted(w) /\ Die(w)

\* The process dies with the result not yet recorded, or the error.
CrashAfter(w) ==
  /\ call[w].pc \in {"returned", "raised"}
  /\ Die(w)
  /\ UNCHANGED <<files, requested, issued>>

Rebuild(w) ==
  \/ LoadShard(w) \/ RebuildBooster(w) \/ EmptyMatrix(w)
  \/ SaveShard(w) \/ SaveBooster(w) \/ CertifyBatch(w)
  \/ SaveRouting(w) \/ PopTwice(w) \/ Return(w)

Next ==
  \E w \in Workers :
    \/ \E R \in (SUBSET Subjects) \ {{}}, dup \in BOOLEAN : BeginRebuild(w, R, dup)
    \/ Rebuild(w)
    \/ IOFault(w)
    \/ Crash(w)
    \/ CrashAfter(w)

Spec == Init /\ [][Next]_vars

-----------------------------------------------------------------------------
(* Properties *)

\* Every file, cache entry and local of engine/gbdt.py keeps its shape: every
\* booster has the trees of exactly NUM_SLICES slices.
TypeOK ==
  /\ shardFile \in [Shards -> SUBSET Subjects]
  /\ routing \in SUBSET Subjects
  /\ booster \in [Shards -> Booster]
  /\ torn \in SUBSET Files
  /\ treeCache \in [Workers -> [Shards -> SUBSET SUBSET Subjects]]
  /\ call \in [Workers -> Call]
  /\ requested \in SUBSET Subjects
  /\ issued \in SUBSET Manifest
  /\ crashes \in 0 .. MaxCrashes
  /\ faults \in 0 .. MaxFaults

Learned(s) == \E k \in Shards : Influences(s, booster[k])

Reported(s) == \E m \in issued : m.subject = s

\* A subject whose manifest rebuild_batch_by_ref returned, or that a readable
\* routing.json no longer lists, has left every shard file and shaped no tree of
\* any booster on disk, whatever crashes and exceptions cut other rebuilds short.
Forgotten ==
  \A s \in Subjects :
    Reported(s) \/ (RoutingFile \notin torn /\ s \notin routing) =>
      ~Learned(s) /\ \A k \in Shards : s \notin shardFile[k]

\* The dataset_root of a manifest commits to exactly the rows the last trees of
\* the manifest's booster were fit on, and not to the erased subject, also when
\* earlier calls raised after they had written.
RootMatchesTraining ==
  \A m \in issued :
    m.root = m.weights[NUM_SLICES - 1] /\ m.subject \notin m.root

\* The booster a rebuild returns is the one a fresh training run over the
\* retained rows would return: a retrained shard is a function of its retained
\* data (config/determinism.py), as long as no rebuild was cut short, and also
\* after batches that raised by themselves with their files written.
FunctionOfRetainedData ==
  crashes = 0 /\ faults = 0 =>
    \A m \in issued : m.weights = Boost(NoTrees, m.root, 0)

\* The rows or the booster of its shard are in a file that does not load.
Damaged(s) == torn \cap {ShardFile(ShardOf[s]), BoosterFile(ShardOf[s])} # {}

\* The tree engine as the abstract contract sees it.
Contract == INSTANCE ForgetContract WITH
  Shard <- {{s \in Subjects : ShardOf[s] = k} : k \in Shards},
  rows <- UNION {shardFile[k] : k \in Shards},
  learned <- {s \in Subjects : Learned(s)},
  damaged <- {s \in Subjects : Damaged(s)},
  erased <- {s \in Subjects : Reported(s)}

\* Every step of a rebuild, interrupted or not, is a step of the contract that
\* the MLP engine keeps too: worker and gateway need not know which one runs.
KeepsContract == Contract!Spec

=============================================================================
