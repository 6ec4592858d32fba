# unlearn-shield: a verification project

unlearn-shield erases a subject from a model on request: it removes the
subject's rows from one training shard, retrains that shard alone from the last
state that never saw the subject, and signs a certificate whose Merkle root
commits to the rows that are left.  This directory holds TLA+ models of that
program, TLC runs over small instances, and TLAPS proofs for all instances.
Paths below are relative to `src/`.

Contents: [the system](#1-the-system), [plan](#2-plan), [models](#3-the-models),
[runs](#4-runs), [bounds](#5-bounds), [fairness](#6-fairness),
[proofs](#7-proofs), [what the code does otherwise](#8-where-code-and-comments-part),
[what is left out](#9-what-is-not-modelled).

## 1. The system

### Components and their state

| component | code | state | operations |
|---|---|---|---|
| MLP engine | `engine/train.py`, `engine/rebuild.py`, `engine/preprocessing.py` | `shard{k}.npz`, `routing.json`, `shard{k}_slice{i}.pt`, `shard{k}_preproc.json` | build; rebuild_batch_by_ref: load, purge, save, retrain slice by slice, certify, drop from routing |
| Tree engine | `engine/gbdt.py` | the same, with one `shard{k}_gbdt.json` per shard | rollback by truncation, boost, save, certify |
| Sparse Merkle tree | `verify/smt.py` | keys and root; a per-process cache | build, remove, absence proof, verification |
| Sorted Merkle tree | `verify/merkle.py` | none | root, audit path, absence by adjacency |
| Intake | `gateway/routes/erasure.py`, `gateway/idempotency.py` | rows of `erasure_jobs` | create_erasure, with replay of an Idempotency-Key |
| Queue and worker loop | `worker/queue.py`, `worker/main.py` | status, lease and attempts of each row | reap, claim, commit, rollback |
| Batch processing | `worker/jobs.py`, `engine/active.py` | `erasure_manifests`, `model_versions`, content-addressed files, one open transaction | process_claimed, _promote, promote_artifact, run_spot_check |
| Serving | `gateway/routes/predict.py`, `inference/batched_ensemble.py` | ensembles cached by weight path | choose the newest version, load, predict |
| Certificates | `verify/manifest.py`, `verify/sign.py`, `verify/verifier_cli.py` | the signed manifest | build, sign, store, fetch, verify |
| Assignment | `engine/sharder.py`, `engine/slicer.py` | none, frozen after training | pack subjects into shards and slices |
| Bootstrap | main of `engine/train.py`, `scripts/load_routing.py` | all files and tables before the first erasure | train every shard, copy and commit v0-baseline |
| Connections | `db/conn.py` | a pool of 16 | borrow, return |
| Review queue | `gateway/disagreement.py` | rows of `disagreement_reviews` | insert one after a prediction |
| Dashboard | `dashboard/app.py` | none | re-verify a certificate, request an erasure, read |
| The rest | data preparation, scripts, authentication | see PROJECT.json | |

### How they interact

The gateway inserts a job and answers 202.  A worker polls: one transaction
reaps expired leases and claims a batch, a second one covers *everything*
process_claimed does for the whole batch.  Inside it the worker calls an engine
once per shard, and the engine changes files that no rollback restores.  It then
copies the live model to a content-addressed name, inserts a version whose
`shard_checkpoints` carry the other shards forward, inserts manifests and marks
the jobs done.  The gateway reads the newest version and loads the files it
names.  Nothing but the database and the shared directory connects the two.

A manifest leaves the system twice removed from the dict that was signed: stored as
JSONB, answered as JSON, and checked by `verify/verifier_cli.py` with nothing but the
public key.  Predictions and, after them, reviews borrow from one pool of connections.
Before all of this two scripts are run by hand, and again when they fail: training,
and `scripts/load_routing.py`, which commits the baseline everything else starts from.

### What is hard

* Files are rewritten in place, one after the other, with no log: a death or an
  exception anywhere leaves a mixture of old and new.
* The files change at once, the database only at commit, and one transaction
  spans several shards.
* A lease protects a job only for `LEASE_SECONDS`; row locks end with the claim.
* PostgreSQL turns a COMMIT after a failed statement into a silent ROLLBACK.
* `now()` is the start of the transaction, so `promoted_at` can tie.
* The Merkle-tree cache lives as long as the worker, the files do not.
* The gateway caches an ensemble for ever under the names of its weight files, and
  pairs them with preprocessors whose files a rebuild rewrites in place.
* A content-addressed file is trusted because it exists, whether or not the copy that
  made it came to its end.
* A signature is over bytes that have to be made again from what JSON gives back.
* The pool refuses instead of waiting when all connections are out.
* Tree arithmetic: levels without a sibling, first differing bits, adjacency.

PROJECT.json lists each hazard at its line with the properties that cover it.

### What makes each component correct

* Engines: whoever is certified, or dropped from `routing.json`, has left every file;
  nobody else loses anything, unless a write is cut short, and then nothing outside that
  file; a resume point never saw the rows being erased; the
  certified root commits to the rows trained on.
* Queue: a job has one holder; done means certified, certified means done; earlier
  deadlines of a shard first; every accepted request settles.
* Batch processing: a done job is erased on disk; what is served never knew the
  subject and never learns anybody again; every version serves every shard.
* Serving: a request that comes in after an erasure is done is never scored by
  anything that saw the subject; one version is one ensemble; a failed transaction
  reaches no other borrower.
* Assignment: what the engines take for granted: one shard and one slice per
  subject, later slices for likelier leavers, slices near their share.
* Bootstrap: a baseline is committed only with a whole model file for every shard.
* Merkle trees: removal equals rebuild; the absent are provable, the present not.
* Certificates: what was signed is accepted, and nothing else is; a subject has one.

## 2. Plan

Done, in this order:

1. `ForgetContract`, `SisaEngine` and `SisaEngineProofs`
2. `JobQueue` and `JobQueueProofs`
3. `ErasureSystem` (extends `JobQueue`) and `ErasureSystemProofs`
4. `SparseMerkle`, `SortedMerkle`
5. `GbdtEngine`, against the same `ForgetContract`
6. `Serving` with the connection pool
7. `Assignment`
8. Torn content-addressed copies in `ErasureSystem`, and `PromotionProofs`
9. `Certificate` (extends `SparseMerkle` and `SortedMerkle`)
10. The review queue in `Serving`
11. `Bootstrap` (extends `Assignment`)
12. The served models as a theorem (`PromotionProofs`), and what process_claimed
    records (`ErasureSystemProofs`)
13. `GbdtEngineProofs`
14. `ServingProofs`
15. `BootstrapProofs`
16. `CertificateProofs`: both Merkle trees and the certificates made from them
17. Files cut short with whatever content was written, connections lost to a failing
    rollback, and what the newest version of a shard serves over time
    (`ServedNeverGoesBack`, `ServedOnlyForgets`)

To come: the cache of the tree engine and of the MLP engine as the trees of
`SparseMerkle` instead of the sets they commit to; the tree engine's side of
`Bootstrap`.

No module has a `RECURSIVE` operator: whatever recurses in the code, slices of a list
and levels of a tree, is a recursive function over a bounded domain, so that every
module can be proved about.

## 3. The models

### `ForgetContract`: what an engine promises

Sets of subjects: `requested`, `rows` (has training rows), `learned` (influenced
some model file), `damaged` (rows or live model are in a file that does not load),
`erased` (has a certificate).  Rows never come back; influence comes only from what
was learned before or from rows, and covers all rows but those of the damaged; rows are
dropped on request, or lost, together with influence, when a write is cut short
(`Damage`), which reaches the subjects of one shard; a subject is reported erased only
on request and when nothing of it is left.  Both engines implement it
(`KeepsContract`), which is why worker and gateway need not know which one runs.

### `SisaEngine`: `engine/train.py`, `engine/rebuild.py`

One action is one file read or write plus the computation up to the next.

| action | code |
|---|---|
| `Init` | build, i.e. train_shard from slice 0 for every shard |
| `BeginRebuild` | load_routing, the checks on the batch, min_slice |
| `LoadShard` | load_shard, tree_for_shard, the purge loop |
| `SaveShard` | save_shard |
| `StartTraining` | torch.load of the resume point, preprocessor fit and save |
| `TrainSlice` | one iteration of train_shard's loop with its torch.save |
| `CertifyBatch` | tree removal, cache_tree, sign_manifest |
| `SaveRouting` | routing.pop, save_routing, the return |
| `IOFault`, `Crash`, `CrashAfter` | an exception or a death between or inside any of them |
| `TornWrite` | a write cut short: files are truncated and written in place, so the file does not load (`torn`) and holds any part of the new content, of everybody else in it as well, and nothing of the old |

Data: all rows of a subject go together, because purge compares `subject_ref`, so
a shard file is a set of subjects.  Weights are their *provenance*: per slice step
the rows it saw and the slice its run started from.  Training is deterministic
(`config/determinism.py`), so equal provenance means equal weights; whatever a
step saw counts as an influence for ever.  A Merkle root is the set it commits to.

### `GbdtEngine`: `engine/gbdt.py`

The same granularity.  A booster is, per slice, the subjects its trees were fit
on; rollback truncates.  The order differs from the MLP engine: the booster is
rebuilt in memory before the first write, a batch is refused only if *none* of its
refs has rows, and a ref listed twice fails at the second `routing.pop`, when
everything else is written.  A torn booster holds no trees or all of them, which is all
that the properties tell apart.  xgboost's answer to an empty matrix is left open
(`EmptyMatrix` may happen, `RebuildBooster` may).

### `JobQueue`: intake, `worker/queue.py`, `worker/main.py`

Every action is one committed transaction.  `SKIP LOCKED` makes two polls
serialisable, so one poll is one step.  A job id is its place in deadline order.
Time is a lease being `live` or `expired`; `LeaseExpires` may hit a job nobody
holds, or, `MaxOverruns` times, a job whose worker is alive.  `Commit` updates by
`erasure_id` alone, as the code does, with no look at status or lease.
What a rebuild does is open: each shard group ends well or not.

### `ErasureSystem`: `worker/jobs.py`, `engine/active.py`, on top of `JobQueue`

Between claim and commit each worker has a `tx`: groups left to do, the current
phase (`rebuild`, `book`, `spot`), what the open transaction has inserted, its
start time, whether a statement has failed in it.  A rebuild is one step (its
inside is `SisaEngine`), or is broken off: `PartWay` has what an exception or a kill
then leaves, from untouched files over rows without a new model to a new model without
its routing entry gone.  A shard file or `routing.json` that was cut short counts as
empty, since nothing reads it again.  Batches are refused before anything is written
(MLP engine) or, with a ref that has no rows or is listed twice, after rows and model
were replaced (`TreesNoticeLate`, tree engine).

| action | code |
|---|---|
| `Claim` | claim_batch, groupby shard |
| `RebuildDone`, `RebuildRefused`, `RebuildBrokenOff` | rebuild_batch_by_ref and the first except branch |
| `Record` | _promote with promote_artifact, manifests, 'done' updates |
| `RecordFails` | the second except branch, with the transaction intact; copyfile may be what raised |
| `RecordAborts` | the same with a failed statement: the handler's UPDATE raises too |
| `SpotCheck`, `SpotCheckAborts` | run_spot_check and its swallowed error |
| `Finish` | COMMIT, or the silent ROLLBACK of an aborted transaction |
| `Killed` | the process ends in a rebuild, in a copy, or between them |

A copy cut short by an exception or a kill leaves a file that is not `whole` and holds
any part of the model under the digest's name, and promote_artifact takes any file of that name for the copy.
A model is the set of subjects it retained, and its digest is that set.  `Served`
is what `gateway/routes/predict.py` may load: with equal `promoted_at` the
database may return any of the tied rows.

### `SparseMerkle`, `SortedMerkle`, `Certificate`

The trees of `verify/smt.py` and `verify/merkle.py` are the algorithms themselves over
an ideal hash (a hash *is* the term hashed, written so that an empty subtree and a
subtree of one key have a short name).  A subject_ref is a number of `DEPTH` bits.
The state is a shard's key set and its tree, which loses subjects batch by batch, so
that roots and proofs after many removals are compared with fresh builds.

| definition | code |
|---|---|
| `SingletonRoot`, `Build` | _singleton_root; build_root: the tree is flat, a hash for every place (depth and prefix) that has a node, and a key, or none, where the node has no children |
| `SubtreeRoot` | _subtree_root, the recursion from a depth to the next over the keys that share a prefix |
| `Removals`, `RemoveBatch` | remove, one ref after the other, each emptying its leaf and hashing its path again; nothing is collapsed |
| `Split`, `TopBit` | _split: the largest power of two below n is the highest bit of n - 1 |
| `SliceRoots`, `SlicePaths` | _mth and _audit_path, for all slices of the leaves at once, by length and start |
| `Climbs`, `RunsOut` | the loop of reconstruct_root and whether it ends with the path used up |
| `VerifySortedAbsence` | verify_absence of the sorted tree: two adjacent leaves, or the first, the last, or none |

`Certificate` adds what is made of a proof: `Manifest` and `CanonicalBytes`
(`verify/manifest.py`), an ideal `Signature`, `Verdict` (verify_certificate in its order
of checks, either scheme), and `Fetched`, which is what JSON does to a manifest: the
depths that name a proof's siblings are integers when it is signed and strings ever
after.  `Issue` is a rebuild that certifies; certificates of the scheme used before are
initial states.

### `Serving`: `gateway/routes/predict.py`, `inference/batched_ensemble.py`, `db/conn.py`

Request threads of one gateway process, step by step, and the reviews they leave to be
recorded (`gateway/disagreement.py`), while a worker changes the files and tables they
read.

| action | code |
|---|---|
| `StartRefit`, `EndRefit`, `Promote`, `BreakOff` | the worker as a gateway sees it: the preprocessor file truncated, written, the version committed, or a rebuild that ends in between |
| `BeginRequest`, `CreatePool` | _get_pool's first look, and its second one under the lock |
| `Borrow`, `GiveBack` | getconn, which raises when all are out; rollback and putconn |
| `RollbackRaises`, `ReviewRollbackRaises` | rollback raises in the finally block: putconn is not reached and the connection is `lost` |
| `ReadVersion`, `SqlError` | _current_model |
| `LookUp`, `LoadShard`, `Store` | the cache get, one iteration of the loading loop, setdefault |
| `Answer` | shard_probabilities and the response; a review may be left for afterwards |
| `ReviewBorrow`, `ReviewInsert`, `ReviewError`, `ReviewReturn` | record: the pool, the INSERT, its failure, all swallowed |

How many shards must disagree is open: any answer may leave a review.  A weight path is
the set of subjects its weights were trained on, since a content-addressed file never
changes.  A preprocessor is the set it was fit on, and
its file does change; a truncated one does not parse and fails the request.
Promotions do not tie here: `ErasureSystem` has that case.

### `Assignment`: `engine/sharder.py`, `engine/slicer.py`, build in `engine/train.py`

build step by step: shards for all, slices shard by shard, shard files, routing.
A subject is its rank among the ids, a churn score an integer of any scale; scores and
record counts are initial states, the stable hash a constant.  The result is the
assumption FrozenAssignment of the engine modules.

### `Bootstrap`: main of `engine/train.py`, `scripts/load_routing.py`

On from the assignment to a model that serves, for the MLP engine.  `TrainShard` is one
shard's training, `LoadShard` one iteration of load_routing's loop with
promote_artifact, `EvalAndCommit` record_eval and the commit.  build may die too and is
started over on top of the files it left (`BuildDies`).  A script may die at any
point, in the middle of writing or copying a file too (`Die`), and either may be started
again at any time after build (`Begin`).  Training is deterministic, so a file is
missing, torn, or whole.

## 4. Runs

| run | expected | what it shows |
|---|---|---|
| `SisaEngine_crash` | pass | Forgotten, SliceIsolation, OthersSurvive, RootMatchesTraining and the contract under one crash and one exception, torn writes included: what was lost is in the torn file, and the contract charges one shard for it; the tree cache stays warm across the exception |
| `SisaEngine_interrupted` | violation | a resume point left by an interrupted erasure is certified under a root without the subject it saw |
| `SisaEngine_replicas` | violation | two workers on one shard: the later write undoes the earlier erasure |
| `GbdtEngine_crash` | pass | the same guarantees for the tree engine; as long as nothing is cut short the certified booster equals one trained afresh, which implies that truncation is an exact rollback |
| `JobQueue_races` | pass | with a lease that may be overrun and a batch that may be lost: done always has a certificate, acknowledgements name the caller's own job, deadline order, every job settles; until a lease is overrun, one holder per job and certified stays done |
| `ErasureSystem_single` | pass | one worker, batches over two shards, a kill, an I/O exception, a failing statement, copies cut short: erased on disk, certified once, never served, and no shard served again by a model that knows more; always a full set of whole files, named by content also after the shard was rebuilt again; nobody is left 'processing' by a failure on disk; refinement of the queue |
| `ErasureSystem_tie` | violation | two promotions of one batch tie on `promoted_at`; the served version may know an erased subject |
| `Certificate_audit` | pass | removal is rebuild; absence proofs of both schemes complete and sound, audit paths included, and no choice of a sorted tree's leaves and paths brackets one of its subjects; what was signed is accepted, nothing that differs in any field is |
| `Certificate_roundtrip` | violation | a certificate whose proof has siblings at depths that sort otherwise as strings is rejected once fetched |
| `Serving_race` | pass | answers forget whom done jobs erased, through the cache and through preprocessors that change under the loading loop; one ensemble per version, reviews included; one pool, a connection whose rollback failed never lent again, no failed transaction handed on |
| `Serving_reviews` | violation | a review holds the last connection and the next prediction is refused one |
| `Bootstrap_baseline` | pass | files and routing agree; churn ascends with the slice; a slice misses its share by less than its shard's largest subject; whatever dies and is run again, a committed baseline has a whole copy of every shard's model |

The five violations are the findings of PROJECT.json; each checks one property
that a comment, a test or the runbook states.

The passing twin of each violated claim says when it does hold:
UntiedServedForgets and ServedNeverGoesBack (no two versions share their `promoted_at`),
RootMatchesTraining (the root commits to the rows of the *last* training step),
Forgotten with one worker, IssuedVerifies (the depths are in one order as numbers and
as strings).  NeverStuckByIO (no kill, no failing statement) carries the condition without
which section 8 shows it false.  The types of the composed
system (SystemTypeOK) are proved and no longer run.

## 5. Bounds

* `SisaEngine_crash`: shard 0 has three subjects in slice 0 and one in slice 1,
  shard 1 one subject.  Erasing from slice 0 retrains everything, from slice 1
  resumes from checkpoint 0; slice 2 is a last slice that is nobody's own.  Three in
  slice 0 are needed for a stale cache to matter: one erased to warm it, one lost to
  an exception, and one left to fit the preprocessor.  Shard 1 is emptied by its one
  erasure.  The three are interchangeable (symmetry).  One crash and one exception
  leave up to two interrupted rebuilds, and two files cut short, each with any part of
  its content (236,682 states); the theorems of section 7 have no such bound.
* `GbdtEngine_crash`: two subjects in slice 0, one in slice 1, three slices; no
  preprocessor, so two suffice (310,727 states).
* `JobQueue_races`: two workers and two jobs, the least that race; two principals and
  two keys, so that keys collide across principals and within one; batches of one, so
  that a poll leaves something behind (batches of two are in `ErasureSystem_single`,
  any size in the theorems); one crash, one overrun; no symmetry, because liveness is
  checked.
* `ErasureSystem_single`: two jobs and batches of two give two shard groups in one
  transaction, two jobs of one subject in one group, and two batches in sequence.
  Three subjects in shard 0, so that it can be rebuilt a second time with somebody left
  to train on, over a live model that was copied before; two in shard 1.  One fault of
  each kind (407,319 states).
* `Certificate_audit`, `Certificate_roundtrip`: six subject_refs of 11 bits that first
  differ at depths 0, 2 and 10: adjacent leaves at the bottom, collapsed singletons high
  and low, and depths of one and of two digits, of which 10 sorts before 2.  All 64
  subsets are initial shards, with and without a certificate of the old scheme; removal
  batches have up to two refs, the same one twice included.  Six leaves give the sorted
  tree every case of its climb: full trees (2, 4), one lonely leaf at one level (3, 5) and
  at two (5).  A shard that is empty has nothing left to purge, so these runs really
  may stop.
* `Serving_race`: two shards, one of which has a subject outside slice 0, whose erasure
  leaves the preprocessor's rows alone; two threads, the least that race for the pool and
  the cache, and one review, over one connection, so that getconn also raises, for a while or, when its
  rollback fails, for good; one SQL error (5,233,306 states).  All four subjects may be erased one after another, in any order, each rebuild broken off
  or not.
* `Bootstrap_baseline`: five subjects, three shards of which one is hot, three slices;
  scores on both sides of the threshold and ties; record counts of one and four, so
  that a subject may fill a slice exactly, overfill it, or span several.  Shards may be
  empty, and then training stops at them.  Two deaths, so that a torn checkpoint can be
  hashed, a copy of it or of a good one be cut short, and both be met again by a run
  that succeeds or must not; either may be spent on build (3,869,013 states).

Deadlock is checked in all other runs.

## 6. Fairness

Only `JobQueue_races` needs it (`QueueFairness`):

* `Poll`: main.py polls for ever with a sleep in between.  Weak fairness suffices, as
  a claimable job stays claimable until somebody claims it.
* `Settle` or `DuplicateManifest`: a running worker comes to the end of its batch,
  since a batch is a finite loop over finite rebuilds.
* `Restart`: a dead worker is started again.  `docker-compose.yml` gives it no
  restart policy, so this is the operator's doing: the runbook has them check the
  worker first.  Without it nothing settles once all workers are gone.
* `LeaseExpires` of a job nobody holds: time passes.

No fairness is assumed of requests, deaths or overruns.  Deaths are bounded: a batch
that kills its worker each time would be claimed for ever, as `attempts` is counted
but never limited.

## 7. Proofs

`tlapm` checks every leaf.  The theorems hold for every value of the constants.

**`SisaEngineProofs`.**  `TypeCorrect` holds for any number of workers; the others
assume `Solo`, one worker process, which is what `docker-compose.yml` starts and
without which `SisaEngine_replicas` refutes them.  Forgotten is not inductive: an
interrupted rebuild leaves rows gone and checkpoints that still know them, and what
keeps this from ever counting as erased is how `routing.json`, the files and the
locals of the running call relate.  `IndInv` joins TypeOK, `CursorOK`, `FileInv` (what
the files say of each other: SliceIsolation, the subjects nobody named intact wherever the
file is, whoever is certified or not routed without a trace) and `CallInv` (what the locals of a call say, phase by
phase, of the batch, the rows and the model it has in hand); a resume point is free of
the batch by SliceIsolation.  Init implies it, every action keeps it (`IndStep`, one step
per action), and it implies ErasedIsForgotten, SlicesAreIsolated,
RootsMatchTraining and NobodyElseIsLost.  `EngineKeepsContract` maps each file write
to a step of ForgetContract (PurgeRefines, RetrainRefines, StrikeOffRefines), a write
cut short to `Damage` of its shard (TornPurgeRefines, TornRetrainRefines) and
everything else to a request or a stutter.  That a torn write costs no more than a shard
(`OneShardDamaged`) needs the invariant: rows and influence of a subject are in the
files of its own shard only.

**`JobQueueProofs`.**  `TypeInv` adds to the types that a batch consists of existing
rows.  QueueTypeCorrect, AcksNameOwnJobs, DoneJobsAreCertified and DeadlinesInOrder
hold without further assumption; the last says that a batch is closed under earlier
deadlines of its shards, for every batch size, by a cardinality argument on the LIMIT.
LeasesAreExclusive and CertifiedStaysDone are about a system in which no lease has run
out under a live worker so far; the properties say so themselves (`overruns = 0`), so
the theorems assume nothing.  Their invariant (`LeaseInv`) adds that until then a held
job is 'processing' under its holder with a live lease.

**`ErasureSystemProofs`.**  `SystemInv` joins the queue's invariant with the system's
types.  SystemKeepsQueue shows that every step of process_claimed is a step or a
stutter of the queue, so the queue's theorems hold of the system.  NobodyIsStuckByIO
adds to NeverStuckByIO that only a failed statement aborts a transaction: a poll takes
what it claims into a batch, and a batch settles every job it holds unless it is killed
or aborted.

**`PromotionProofs`.**  Every step is first sorted by what it can do to files,
transactions and certificates (`Kinds`: Elsewhere, Claimed, Rebuilt, GoesOn, Ended); the
invariants are then proved against those five kinds.  EveryShardIsServed holds for any
number of workers.  `PromotionInv` says that every digest named by a committed or
uncommitted version has a whole file, and, because a partial file under that name would
be believed, that the digest of a group being booked is fresh: it lacks a subject that
every earlier digest of the shard had.  CertificateIsUnique and DoneJobsAreErased follow
from one invariant (`CertifiedIsGone`): the subject of a certified job, or of one an open
transaction is about to certify, is in no shard file, routing table or live model, and
no two such jobs share it.  A rebuild is one step here, so with several workers these two
are about rebuilds that do not overlap on a shard; `SisaEngine_replicas` shows what
overlapping ones do.  FilesAreNamedByContent assumes one worker.  Its invariant says that the live file of the
group being recorded is what the transaction thinks it is (`LiveIsDigest`), whatever the
path is overwritten with before and after, and that a partial copy holds nobody its name
does not (`CopiesFit`).

ErasuresAreServed is the end of the whole path: with one worker, what the gateway may
load never knew the subject of a done job, unless two versions tie.  Its invariant
(`ServedInv`) adds to the ones above `TimesAgree` (now() is later in a transaction than
in those that were committed before it began, and does not move within one),
`VersionsWellNamed` (a row's checkpoints are digests of their own shards) and
`ErasuresCarried`: no newest row that is committed, or that the open transaction sees,
names for a shard a checkpoint that knows a subject certified there, or about to be.
A promotion keeps the last one because it replaces the entry of its own shard and starts
from such a newest row for the others; a rollback because it is said of both sets of
rows.

ServedOnlyForgets is the same path seen from the models: with one worker and no tie, the
set of subjects that a shard's served model knows only shrinks, also where the record of
an erasure was lost and its job says failed.  A new digest has only subjects whose rows
are left, and every whole file that a version names has all of those; so what is about
to be promoted knows no more than any version (`GoesForward`).  The row of an untied
transaction is its only one and takes the other shards from a row that was newest then,
which one worker keeps newest until the commit.  A file that is
written carries a name no version has yet, and a partial copy holds no more than the
model its name stands for, so copies cut short do not disturb this.

**`GbdtEngineProofs`.**  `RootInv` holds for any number of workers, as a certificate is
made from the locals of one call: the rows it loaded less its batch are what its trees
were fit on, and what the tree it signs holds.  With one worker (`Solo`), `IndInv` adds
`FileInv` (rows in their shards, trees in the order of slices, a booster's last trees
saw every row, nobody loses what was not asked for, Forgotten), `FreshUnlessWriting`
and `CallInv`, as for the MLP engine.  FreshUnlessWriting is what makes rollback by
truncation exact: as long as nothing was cut short, every booster is the one a
training from scratch gives, save between the writes of shard file and booster.
TreesKeepContract maps the file writes to ForgetContract in this engine's order, torn
ones to `Damage`.

**`ServingProofs`.**  Three inductive invariants, for any number of threads and reviews
(finitely many: PoolIsSound counts connections).  `WorkerInv`: a subject whose job is
done is out of the rows and of the newest version, and a preprocessor on disk was fit
on nobody whom the weights of some version do not know.  `AnswerInv`: the paths a
request has read are those of a version without the subjects that were done when it
came in, and whatever it loads or finds in the cache under a path knows no more than
that path's weights; AnswersForget follows, and so does OneEnsemblePerVersion, as the
cache has one entry per key.  `PoolInv`: a connection has one holder at most and none
once it is lost, and one with a failed transaction is lost, or held by the request or
review whose next step is to roll it back.

**`BootstrapProofs`.**  `BuildInv` says what build's loops have done so far; `BootInv`
adds what the scripts leave (`Scripted`, `Trained`, `Committed`).  NearItsShare needs
arithmetic: a bucket ends where the running count of records passes a multiple of the
share, and a running count is a fold over a finite set.

**`CertificateProofs`.**  For any finite set of subject_refs, any depth and any batches.
`TreeInv` says that the tree is `Sound` for the keys present: every place holds the hash
a fresh build would give the keys under it.  A removal keeps it from leaf to root, since
a place beside the path has the same keys as before.  RemovalIsRebuild is its value at
the root.  AbsentProved and PresentUnprovable follow from one lemma about climbing: from
the hash of a set of keys and the siblings of its path, the climb gives the hash of
those keys and everything beside them; with the subject present, the two sides would
need hashes of different sets to be the same term.  For the sorted tree,
`SlicesClimbOut` shows that reconstruct_root undoes _audit_path, by the length of the
slice: while index and size are halved in the loop, they keep in step with the splits
of the recursion, to the left and to the right.  That a claimed leaf is the leaf at its
index (`ClaimedLeafIsTrue`) comes from hashes that tell their children apart, and an
absence between two adjacent leaves of a sorted list then contradicts presence.
`CertInv` says that every certificate was signed by the operator over a proof of one of
the two schemes; IssuedVerifies is completeness of both and, through JSON, that depths
which sort alike as numbers and as strings give the same bytes.  Hashes and signatures
are ideal throughout.

**Assumptions on constants.**  Each module names them (ASSUME) and TLC evaluates them in
every run.  They are what the code's configuration guarantees: at least one shard and
slice, a total assignment, natural numbers for bounds, finitely many subjects.
`BitsTellApart` is the only fact among them that is arithmetic: the bits of a number are
bits and tell numbers apart.  It is true of every DEPTH; exponentiation is opaque to the
provers.

**Recursion.**  The library's induction rules cannot be used, as they take a predicate as
parameter.  Facts about recursive functions and folds are proved instead from a least
depth, a greatest index or a smallest set where they would fail (`LeastOf`,
`GreatestOf`, `SmallestOf`, `SmallestSet`), which comes from the well-foundedness of
strict inclusion on finite sets.  The same argument shows that the functions exist.

**Only model-checked.**  EveryJobSettles: liveness under fairness.  Every other property
of a passing run is stated by a theorem.  The violations are TLC's by nature.

## 8. Where code and comments part

Besides the five findings, modelling showed the following; they follow from the
same actions and have no run of their own.

* `worker/jobs.py:150-153` calls a job whose rebuild raised safe to retry.
  rebuild_batch_by_ref writes the shard file before train_shard, so after any
  exception in training the rows are gone, and a retry raises "no rows matched".  The
  model: `RebuildBrokenOff`, and `IOFault` after `SaveShard`.  In the tree engine a ref
  listed twice gets there by itself (`PopTwice`).
* `engine/train.py:45-47,126-127,192`: shard files, `routing.json` and checkpoints are
  rewritten in place.  A death or a full disk inside such a write loses what the file held of every
  subject of the shard, or of all subjects (`TornWrite`); nothing in the code restores
  it.  OthersSurvive and the contract's `Damage` say that it ends there.
* `worker/jobs.py:182-203`: an exception after _promote's INSERT marks the group failed and commits, so a
  version is served whose jobs say failed and have no certificate (`RecordFails`).
* `db/conn.py:84`: rollback in the finally block may raise itself, and then putconn is
  not reached; the pool is one connection smaller until the process ends
  (`RollbackRaises`).
* `worker/main.py:32`: one transaction spans the batch, so a later group that fails with
  a SQL error takes back the record of an earlier group's erasure, and its jobs stay
  'processing' (`RecordAborts`, `Finish`).  With two workers two promotions may start from
  one version, and the later commit drops the earlier one's shard
  (`CarriedFrom`); UntiedServedForgets and ServedNeverGoesBack are about one worker.
* `worker/queue.py:36,40`: `attempts` has no limit, so a batch that kills its worker is
  claimed for ever; and `ORDER BY shard` lets a steady stream for low shards starve an
  overdue job of a high one.
* `worker/jobs.py:186-189` says a bookkeeping failure must not leave the job stuck at
  'processing'.  If a SQL statement is what fails, the transaction is aborted and the
  handler's own UPDATE raises too; the exception leaves run_once, and the job stays
  'processing' with its subject gone from routing (`RecordAborts`).
* `worker/jobs.py:206-207` says the spot check runs after the bookkeeping commits.  It
  runs in the same open transaction (`worker/main.py:32-33`): a failed INSERT aborts it,
  the error is only logged, and COMMIT is a rollback (`SpotCheckAborts`, `Finish`).
* `engine/active.py` pairs content-addressed weights with the preprocessor file as it is
  at load time.  An ensemble loaded between a refit and its promotion, or after a
  rebuild broke off, pairs old weights with a newer preprocessor and stays cached for
  that version (`LoadShard`).  AnswersForget is not touched: the newer
  preprocessor saw fewer subjects.
* `engine/slicer.py:41-50` returns cleanly for an empty shard, but train_shard then
  raises ("cannot fit a preprocessor on zero rows"), as it does for a shard whose
  slice 0 is empty because its first subject owns more than a slice's share; main stops
  there.  NearItsShare bounds the second case.
* `config/determinism.py:3-4`: a retrained shard is a function of its retained data.
  In the MLP engine a resumed train_shard starts a new Adam optimiser
  (`engine/train.py`), so its weights depend on where it resumed; `from` in `Step`
  records that.  The tree engine does satisfy it (FunctionOfRetainedData).
* How often a fetched certificate fails (`Certificate_roundtrip`) depends on the shard:
  its proofs need siblings at depth 10 or beyond and at a smaller depth that sorts after
  it.  Signed and read back by the code itself, 3 % of the certificates of shards of
  50 subjects are rejected, 13 % at 160, 29 % at 400 and 87 % at 2000.  The dashboard,
  which re-verifies what it reads from JSONB, rejects the same ones.
* `scripts/load_routing.py` that dies inside the copy leaves a partial file which every
  later run takes for the copy and fails to load, until somebody removes it by hand
  (`Die`, `EvalLoads`).  The baseline is not harmed; it cannot be committed.
* `docs/runbook.md:118-119`: SKIP LOCKED means two workers never claim the same job.
  A lease that runs out under a live worker is claimed again (`LeaseExpires` with
  overruns); nothing renews it.
* `gateway/idempotency.py` answers a key reused for another subject with the first
  subject's job.
* `engine/rebuild.py:129-130`: a second request for an erased subject under another
  key or principal is accepted and then fails with a KeyError.

## 9. What is not modelled

* Authentication and request validation: stateless, before a handler runs.  The other
  read-only routes of gateway and dashboard: readers.
* Spread, the number a review is recorded for: any answer may exceed the threshold.
* The tree engine's side of `Bootstrap`: it trains without a preprocessor and otherwise
  goes the same way.
* Data preparation, evaluation, benchmarks: no state shared with the erasure path.
* Numeric training: weights are provenance.  Whether torch or xgboost is
  bit-deterministic is assumed, as `config/determinism.py` enforces it.
* Renewal of the frozen shard and slice assignment: the code has none; retraining
  everything starts a new instance of the models.
* Loss of the disk or of committed transactions.
