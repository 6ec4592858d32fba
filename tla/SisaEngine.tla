----------------------------- MODULE SisaEngine -----------------------------
(***************************************************************************)
(* The offline half of an erasure under the MLP engine: engine/train.py    *)
(* and engine/rebuild.py over the files they share (shard{k}.npz,          *)
(* routing.json, shard{k}_slice{i}.pt, shard{k}_preproc.json), with the    *)
(* per-process Merkle-tree cache of verify/smt.py.                         *)
(*                                                                         *)
(* One action is one file read or write of rebuild_batch_by_ref together   *)
(* with the computation up to the next one, so that crashes, exceptions    *)
(* and other worker processes fall between them.                           *)
(*                                                                         *)
(* Data abstraction.  The rows of a subject stand or fall together (purge  *)
(* compares subject_ref), so a shard file is the set of subjects it holds. *)
(* Weights are their provenance: for each slice step the cumulative rows   *)
(* trained on and the first slice of the train_shard call that ran it      *)
(* (the Adam state the step inherits began there).  Training is            *)
(* deterministic, so equal provenance means equal weights.  A Merkle root  *)
(* is the set it commits to.                                               *)
(***************************************************************************)
EXTENDS Integers, FiniteSets

CONSTANTS
  Subjects,       \* subject_refs present when the shards were built
  Shards,         \* 0 .. NUM_SHARDS-1
  NUM_SLICES,     \* config/settings.py
  ShardOf,        \* frozen by build: subject -> shard
  SliceOf,        \* frozen by build: subject -> min_slice_idx
  Workers,        \* worker processes over the same files
  SigningKeySet,  \* whether sign_manifest finds its key
  MaxCrashes,     \* bound on process deaths
  MaxFaults       \* bound on exceptions raised by I/O

Slices == 0 .. NUM_SLICES - 1
Last == NUM_SLICES - 1

ASSUME SliceCount == NUM_SLICES \in Nat \ {0}
ASSUME SomeShard == Shards # {}
ASSUME FrozenAssignment ==
  /\ ShardOf \in [Subjects -> Shards]
  /\ SliceOf \in [Subjects -> Slices]
ASSUME Bounds == MaxCrashes \in Nat /\ MaxFaults \in Nat
ASSUME KeyFlag == SigningKeySet \in BOOLEAN

VARIABLES
  shardFile,   \* [Shards -> set of subjects with rows in shard{k}.npz]
  routing,     \* subjects listed in routing.json
  ckpt,        \* [Shards -> [Slices -> weights in shard{k}_slice{i}.pt]]
  preproc,     \* [Shards -> slice-0 subjects the preprocessor was fit on]
  torn,        \* files whose last write was cut short; they no longer load
  treeCache,   \* [Workers -> [Shards -> {} or {the cached tree}]]
  call,        \* [Workers -> the locals of its rebuild_batch_by_ref]
  requested,   \* history: subjects some call was asked to erase
  issued,      \* history: manifests returned to a caller
  crashes,     \* process deaths so far
  faults       \* I/O exceptions so far

files == <<shardFile, routing, ckpt, preproc, torn>>
vars == <<files, treeCache, call, requested, issued, crashes, faults>>

-----------------------------------------------------------------------------
(* Data *)

\* One slice step of a training run: the rows it saw, and the slice its call
\* started from.  NoStep is a slice not trained yet.
Step == [rows : SUBSET Subjects, from : Slices]
NoStep == [rows |-> {}, from |-> 0]
Weights == [Slices -> Step]

\* build_model() before any slice has been trained.
FreshModel == [i \in Slices |-> NoStep]

\* A bug SliceIsolation must catch: the slice filter is forgotten.
RowsUpTo_AllSlices(rows, i) == {s \in rows : SliceOf[s] <= Last}

\* records["slice_idx"] <= i: cumulative, slices 0..i.
RowsUpTo(rows, i) == {s \in rows : SliceOf[s] <= i}

\* The weights of train_shard(from_slice=0) after slice i.
CleanModel(rows, i) ==
  [j \in Slices |-> IF j <= i THEN [rows |-> RowsUpTo(rows, j), from |-> 0]
                              ELSE NoStep]

\* The subject's rows were seen by some step that led to these weights.
Influences(s, m) == \E j \in Slices : s \in m[j].rows

\* One pass of the slice loop of train_shard: training adds to what the model
\* has already seen.
TrainStep(m, rows, i, from) ==
  [m EXCEPT ![i] = [rows |-> @.rows \cup RowsUpTo(rows, i), from |-> from]]

\* A bug OthersSurvive must catch: the keep mask is inverted.
Purge_InvertedMask(rows, R) == rows \cap R

\* purge, for every ref of the batch.
Purge(rows, R) == rows \ R

\* The rows ShardPreprocessor.fit sees; it raises on none.
SliceZero(rows) == {s \in rows : SliceOf[s] = 0}

\* A bug RootMatchesTraining must catch: the cached tree is not validated.
TreeForShard_Unvalidated(cached, rows) ==
  IF cached # {} THEN CHOOSE t \in cached : TRUE ELSE rows

\* smt.tree_for_shard: the cached tree if its keys match the file, else a
\* fresh build.  A tree is the set of keys its root commits to.
TreeForShard(cached, rows) ==
  LET hits == {t \in cached : t = rows}
  IN  IF hits # {} THEN CHOOSE t \in hits : TRUE ELSE rows

RoutingFile == <<"routing">>
ShardFile(k) == <<"shard", k>>
PreprocFile(k) == <<"preproc", k>>
CkptFile(k, i) == <<"ckpt", k, i>>
Files == {RoutingFile} \cup {ShardFile(k) : k \in Shards}
           \cup {PreprocFile(k) : k \in Shards}
           \cup {CkptFile(k, i) : k \in Shards, i \in Slices}

Phases == {"idle", "loaded", "purged", "saved", "training", "trained",
           "certified", "returned", "raised"}

Call == [pc    : Phases,
         refs  : SUBSET Subjects,   \* the refs argument
         known : SUBSET Subjects,   \* the routing dict it loaded
         shard : Shards,
         from  : Slices,            \* min_slice
         rows  : SUBSET Subjects,   \* records, after the purge
         tree  : SUBSET Subjects,   \* tree_before, then tree
         model : Weights,
         cur   : 0 .. NUM_SLICES]   \* next slice_idx of the training loop

AnyShard == CHOOSE k \in Shards : TRUE
Idle == [pc |-> "idle", refs |-> {}, known |-> {},
         shard |-> AnyShard, from |-> 0, rows |-> {}, tree |-> {},
         model |-> FreshModel, cur |-> 0]

Manifest == [subject : Subjects, shard : Shards, from : Slices,
             root : SUBSET Subjects, weights : Weights]

-----------------------------------------------------------------------------
(* engine/train.py: build, then train_shard for every shard *)

Init ==
  /\ shardFile = [k \in Shards |-> {s \in Subjects : ShardOf[s] = k}]
  /\ routing = Subjects
  /\ ckpt = [k \in Shards |-> [i \in Slices |-> CleanModel(shardFile[k], i)]]
  /\ preproc = [k \in Shards |-> SliceZero(shardFile[k])]
  /\ torn = {}
  /\ treeCache = [w \in Workers |-> [k \in Shards |-> {}]]
  /\ call = [w \in Workers |-> Idle]
  /\ requested = {}
  /\ issued = {}
  /\ crashes = 0
  /\ faults = 0

-----------------------------------------------------------------------------
(* engine/rebuild.py: rebuild_batch_by_ref *)

\* An exception leaves the call, and its locals are gone.
Raise(w) == call' = [call EXCEPT ![w] = [Idle EXCEPT !.pc = "raised"]]

\* load_routing and the checks on the batch.  Nothing here keeps two workers
\* off one subject: it may have two jobs, or a job whose lease ran out.
BeginRebuild(w, R) ==
  /\ call[w].pc = "idle"
  /\ requested' = requested \cup R
  /\ \/ /\ RoutingFile \notin torn
        /\ R \subseteq routing
        /\ \E k \in Shards, f \in Slices :
             /\ \A r \in R : ShardOf[r] = k /\ f <= SliceOf[r]
             /\ \E r \in R : SliceOf[r] = f
             /\ call' = [call EXCEPT ![w] =
                  [Idle EXCEPT !.pc = "loaded", !.refs = R,
                               !.known = routing, !.shard = k, !.from = f]]
     \/ /\ \/ RoutingFile \in torn
           \/ ~(R \subseteq routing)
           \/ \E r, q \in R : ShardOf[r] # ShardOf[q]
        /\ Raise(w)
  /\ UNCHANGED <<files, treeCache, issued, crashes, faults>>

\* load_shard, tree_for_shard and the purge loop, which refuses a ref without
\* rows.  A ref listed twice has none left the second time: dup is whether the
\* list has one, which nothing before depends on.
LoadShard(w, dup) ==
  LET c == call[w]
      onDisk == shardFile[c.shard]
  IN  /\ c.pc = "loaded"
      /\ IF /\ ShardFile(c.shard) \notin torn
            /\ c.refs \subseteq onDisk
            /\ ~dup
         THEN call' = [call EXCEPT ![w] =
                [c EXCEPT !.pc = "purged",
                          !.rows = Purge(onDisk, c.refs),
                          !.tree = TreeForShard(treeCache[w][c.shard], onDisk)]]
         ELSE Raise(w)
      /\ UNCHANGED <<files, treeCache, requested, issued, crashes, faults>>

\* The write of save_shard; what arrives may be less than what was sent.
WriteShard(w, content) ==
  shardFile' = [shardFile EXCEPT ![call[w].shard] = content]

SaveShard(w) ==
  /\ call[w].pc = "purged"
  /\ WriteShard(w, call[w].rows)
  /\ torn' = torn \ {ShardFile(call[w].shard)}
  /\ call' = [call EXCEPT ![w].pc = "saved"]
  /\ UNCHANGED <<routing, ckpt, preproc, treeCache, requested, issued,
                 crashes, faults>>

\* A bug KeepsContract must catch: training resumes from the live model.
ResumeState_FromLive(k, from) == IF from > 0 THEN ckpt[k][Last] ELSE FreshModel

\* The model train_shard starts from.
ResumeState(k, from) == IF from > 0 THEN ckpt[k][from - 1] ELSE FreshModel

WritePreproc(w, content) ==
  preproc' = [preproc EXCEPT ![call[w].shard] = content]

\* The checkpoint to resume from loads, and the preprocessor can be fit.
Trainable(c) ==
  /\ c.from > 0 => CkptFile(c.shard, c.from - 1) \notin torn
  /\ SliceZero(c.rows) # {}

\* torch.load of the checkpoint before min_slice, then train_shard up to its
\* loop: the preprocessor is refit on slice 0 and written.
StartTraining(w) ==
  LET c == call[w]
  IN  /\ c.pc = "saved"
      /\ IF Trainable(c)
         THEN /\ WritePreproc(w, SliceZero(c.rows))
              /\ torn' = torn \ {PreprocFile(c.shard)}
              /\ call' = [call EXCEPT ![w] =
                   [c EXCEPT !.pc = "training", !.cur = c.from,
                             !.model = ResumeState(c.shard, c.from)]]
         ELSE Raise(w) /\ UNCHANGED <<preproc, torn>>
      /\ UNCHANGED <<shardFile, routing, ckpt, treeCache, requested,
                     issued, crashes, faults>>

\* The model after the slice the loop is at.
NextModel(c) == TrainStep(c.model, c.rows, c.cur, c.from)

\* A bug Forgotten must catch: only the final slice's checkpoint is rewritten.
WriteCkpt_FinalOnly(w, content) ==
  ckpt' = IF call[w].cur = Last
          THEN [ckpt EXCEPT ![call[w].shard][Last] = content]
          ELSE ckpt

WriteCkpt(w, content) ==
  ckpt' = [ckpt EXCEPT ![call[w].shard][call[w].cur] = content]

\* A bug TypeOK must catch: the loop runs one slice too far.
AfterSlice_OffByOne(i) == IF i = NUM_SLICES THEN "trained" ELSE "training"

AfterSlice(i) == IF i = Last THEN "trained" ELSE "training"

\* One iteration of train_shard's loop: train on slices 0..cur, torch.save.
TrainSlice(w) ==
  LET c == call[w]
  IN  /\ c.pc = "training"
      /\ WriteCkpt(w, NextModel(c))
      /\ torn' = torn \ {CkptFile(c.shard, c.cur)}
      /\ call' = [call EXCEPT ![w] =
           [c EXCEPT !.pc = AfterSlice(c.cur),
                     !.model = NextModel(c), !.cur = c.cur + 1]]
      /\ UNCHANGED <<shardFile, routing, preproc, treeCache, requested,
                     issued, crashes, faults>>

\* tree_before.remove(refs), which refuses an absent ref, cache_tree, then the
\* signed manifests; an unset key raises with the tree already cached.
CertifyBatch(w) ==
  LET c == call[w]
      tree == c.tree \ c.refs
  IN  /\ c.pc = "trained"
      /\ IF c.refs \subseteq c.tree
         THEN /\ treeCache' = [treeCache EXCEPT ![w][c.shard] = {tree}]
              /\ IF SigningKeySet
                 THEN call' = [call EXCEPT ![w] =
                        [c EXCEPT !.pc = "certified", !.tree = tree]]
                 ELSE Raise(w)
         ELSE Raise(w) /\ UNCHANGED treeCache
      /\ UNCHANGED <<files, requested, issued, crashes, faults>>

ManifestsOf(c) ==
  {[subject |-> r, shard |-> c.shard, from |-> c.from, root |-> c.tree,
    weights |-> c.model] : r \in c.refs}

WriteRouting(w, content) == routing' = content

\* routing.pop of every ref from the dict loaded at the start, save_routing,
\* and the return of the manifests.
SaveRouting(w) ==
  /\ call[w].pc = "certified"
  /\ WriteRouting(w, call[w].known \ call[w].refs)
  /\ torn' = torn \ {RoutingFile}
  /\ issued' = issued \cup ManifestsOf(call[w])
  /\ call' = [call EXCEPT ![w] = [Idle EXCEPT !.pc = "returned"]]
  /\ UNCHANGED <<shardFile, ckpt, preproc, treeCache, requested, crashes, faults>>

\* The caller is done with the result or the exception.
Return(w) ==
  /\ call[w].pc \in {"returned", "raised"}
  /\ call' = [call EXCEPT ![w] = Idle]
  /\ UNCHANGED <<files, treeCache, requested, issued, crashes, faults>>

-----------------------------------------------------------------------------
(* What can go wrong around the code *)

Running == Phases \ {"idle", "returned", "raised"}

\* An exception that is not the code's own doing (disk full, unreadable file,
\* DeterminismError) leaves the process alive.
Fault(w) ==
  /\ faults < MaxFaults
  /\ faults' = faults + 1
  /\ Raise(w)
  /\ UNCHANGED <<treeCache, crashes>>

\* The process dies: its locals and its tree cache go with it.
Die(w) ==
  /\ crashes < MaxCrashes
  /\ crashes' = crashes + 1
  /\ call' = [call EXCEPT ![w] = Idle]
  /\ treeCache' = [treeCache EXCEPT ![w] = [k \in Shards |-> {}]]
  /\ UNCHANGED faults

\* The files are truncated and rewritten in place, so a write cut short leaves
\* a file that does not load and holds any part of the new content: of what was
\* there before, bystanders' entries included, nothing is left.
TornWrite(w) ==
  LET c == call[w]
  IN  \/ /\ c.pc = "purged"
         /\ \E part \in SUBSET c.rows : WriteShard(w, part)
         /\ torn' = torn \cup {ShardFile(c.shard)}
         /\ UNCHANGED <<routing, ckpt, preproc>>
      \/ /\ c.pc = "saved" /\ Trainable(c)
         /\ \E part \in SUBSET SliceZero(c.rows) : WritePreproc(w, part)
         /\ torn' = torn \cup {PreprocFile(c.shard)}
         /\ UNCHANGED <<shardFile, routing, ckpt>>
      \/ /\ c.pc = "training"
         /\ \E part \in {FreshModel, NextModel(c)} : WriteCkpt(w, part)
         /\ torn' = torn \cup {CkptFile(c.shard, c.cur)}
         /\ UNCHANGED <<shardFile, routing, preproc>>
      \/ /\ c.pc = "certified"
         /\ \E part \in SUBSET (c.known \ c.refs) : WriteRouting(w, part)
         /\ torn' = torn \cup {RoutingFile}
         /\ UNCHANGED <<shardFile, ckpt, preproc>>

\* A rebuild cut short between two writes, or inside one.
Interrupted(w) ==
  /\ \/ call[w].pc \in Running /\ UNCHANGED files
     \/ TornWrite(w)
  /\ UNCHANGED <<requested, issued>>

IOFault(w) == Interrupted(w) /\ Fault(w)
Crash(w) == Interrupted(w) /\ Die(w)

\* The process dies with the result not yet recorded, or the error.
CrashAfter(w) ==
  /\ call[w].pc \in {"returned", "raised"}
  /\ Die(w)
  /\ UNCHANGED <<files, requested, issued>>

Rebuild(w) ==
  \/ \E dup \in BOOLEAN : LoadShard(w, dup)
  \/ SaveShard(w) \/ StartTraining(w) \/ TrainSlice(w)
  \/ CertifyBatch(w) \/ SaveRouting(w) \/ Return(w)

Next ==
  \E w \in Workers :
    \/ \E R \in (SUBSET Subjects) \ {{}} : BeginRebuild(w, R)
    \/ Rebuild(w)
    \/ IOFault(w)
    \/ Crash(w)
    \/ CrashAfter(w)

Spec == Init /\ [][Next]_vars

-----------------------------------------------------------------------------
(* Properties *)

\* Every file, cache entry and local of the MLP rebuild keeps its shape: a
\* training loop never runs past the last slice, and every checkpoint on disk is
\* a model of this shard layout.
TypeOK ==
  /\ shardFile \in [Shards -> SUBSET Subjects]
  /\ routing \in SUBSET Subjects
  /\ ckpt \in [Shards -> [Slices -> Weights]]
  /\ preproc \in [Shards -> SUBSET Subjects]
  /\ torn \in SUBSET Files
  /\ treeCache \in [Workers -> [Shards -> SUBSET SUBSET Subjects]]
  /\ call \in [Workers -> Call]
  /\ requested \in SUBSET Subjects
  /\ issued \in SUBSET Manifest
  /\ crashes \in 0 .. MaxCrashes
  /\ faults \in 0 .. MaxFaults

\* Subject s left a trace in the files: rows, a slice checkpoint that saw them,
\* or the fitted preprocessor.
Learned(s) == \E k \in Shards, i \in Slices : Influences(s, ckpt[k][i])
Traces(s) ==
  \/ \E k \in Shards : s \in shardFile[k] \cup preproc[k]
  \/ Learned(s)

Reported(s) == \E m \in issued : m.subject = s

\* A subject whose manifest rebuild_batch_by_ref returned, or that a readable
\* routing.json no longer lists, has left every shard file, every slice
\* checkpoint on disk (not only the final one: any of them is a later rebuild's
\* resume point) and every preprocessor, whatever crashes and exceptions cut
\* other rebuilds short.
Forgotten ==
  \A s \in Subjects :
    Reported(s) \/ (RoutingFile \notin torn /\ s \notin routing) => ~Traces(s)

\* The checkpoint after slice i of shard k was influenced only by subjects of
\* that shard and of slices up to i: what makes min_slice - 1 a sound place for
\* rebuild_batch_by_ref to resume from.
SliceIsolation ==
  \A s \in Subjects, k \in Shards, i \in Slices :
    Influences(s, ckpt[k][i]) => ShardOf[s] = k /\ SliceOf[s] <= i

\* The dataset_root of a manifest, derived from the cached tree by removal,
\* commits to exactly the rows of the last slice step of the weights that the
\* manifest names, and the erased subject is not among them.
RootMatchesTraining ==
  \A m \in issued : m.root = m.weights[Last].rows /\ m.subject \notin m.root

\* Erasing others costs a subject nothing but what is in a file whose write was
\* cut short: as long as no call named it, every other file still has its
\* routing entry, its rows, and its part in the shard's live model (the final
\* slice checkpoint).
OthersSurvive ==
  \A s \in Subjects \ requested :
    LET k == ShardOf[s]
    IN  /\ RoutingFile \notin torn => s \in routing
        /\ ShardFile(k) \notin torn => s \in shardFile[k]
        /\ CkptFile(k, Last) \notin torn => s \in ckpt[k][Last][Last].rows

\* The rows or the live model of its shard are in a file that does not load.
Damaged(s) ==
  torn \cap {ShardFile(ShardOf[s]), CkptFile(ShardOf[s], Last)} # {}

\* The engine as the abstract contract sees it.
Contract == INSTANCE ForgetContract WITH
  Shard <- {{s \in Subjects : ShardOf[s] = k} : k \in Shards},
  rows <- UNION {shardFile[k] : k \in Shards},
  learned <- {s \in Subjects : Learned(s)},
  damaged <- {s \in Subjects : Damaged(s)},
  erased <- {s \in Subjects : Reported(s)}

\* Every step of a rebuild, interrupted or not, is a step of the contract: rows
\* never come back, influence only from rows, a cut write costs at most one
\* shard, and a manifest is returned only for who has left no trace.
KeepsContract == Contract!Spec

-----------------------------------------------------------------------------
(* What the repository says and the code does not do *)

\* engine/rebuild.py: every proof is about the set that actually trained the
\* model.  Whoever influenced the certified weights is under the root.
RootIsTrainingSet ==
  \A m \in issued, s \in Subjects : Influences(s, m.weights) => s \in m.root

=============================================================================
