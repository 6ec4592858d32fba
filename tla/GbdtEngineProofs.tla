-------------------------- MODULE GbdtEngineProofs --------------------------
(***************************************************************************)
(* Proofs about GbdtEngine, for any subjects, shards, slices, number of    *)
(* crashes and number of I/O exceptions: what a manifest commits to for    *)
(* any number of workers, and what the files hold for the one worker that  *)
(* docker-compose.yml ships.                                               *)
(***************************************************************************)
EXTENDS GbdtEngine, TLAPS

\* At most one worker process.
Solo == \A v, w \in Workers : v = w

Last == NUM_SLICES - 1

Running == Phases \ {"idle", "returned", "raised"}

\* A call that has its booster in memory.
Rebuilt == {"trained", "purged", "saved", "certified"}

\* The history a rebuild can see was never cut short.
Uncut == crashes = 0 /\ faults = 0

-----------------------------------------------------------------------------
(* The inductive invariants *)

\* What a call knows from its own locals, whatever other workers do.
LocalInv(w) ==
  LET c == call[w]
  IN  /\ c.pc = "loaded" => c.tree = c.rows
      /\ c.pc \in {"trained", "purged", "saved"} => c.rows = c.tree \ c.refs
      /\ c.pc = "certified" => c.tree = c.rows /\ c.rows \cap c.refs = {}
      /\ c.pc \in Rebuilt => c.model[Last] = c.rows

RootInv == TypeOK /\ RootMatchesTraining /\ \A w \in Workers : LocalInv(w)

\* Rows stay in the shard the subject was assigned to.
Placement == \A k \in Shards : \A s \in shardFile[k] : ShardOf[s] = k

\* The trees of a slice saw no later slice and no other shard.
TreesInOrder ==
  \A k \in Shards, j \in Slices : \A s \in booster[k][j] :
    ShardOf[s] = k /\ SliceOf[s] <= j

\* Whoever has rows was seen by the last trees of the shard's booster, if that
\* loads.
BoosterCoversRows ==
  \A k \in Shards : BoosterFile(k) \notin torn => shardFile[k] \subseteq booster[k][Last]

FileInv ==
  /\ Placement
  /\ TreesInOrder
  /\ BoosterCoversRows
  /\ Forgotten

\* Between save_shard and save_booster, and only there, a booster is older than
\* the rows it stands for.
FreshUnlessWriting ==
  Uncut => \A k \in Shards :
    \/ \E w \in Workers : call[w].pc = "purged" /\ call[w].shard = k
    \/ booster[k] = Boost(NoTrees, shardFile[k], 0)

\* The batch a running call works on.
BatchInv(w) ==
  LET c == call[w]
  IN  /\ c.refs \subseteq requested
      /\ c.pc \in Running =>
           /\ RoutingFile \notin torn
           /\ c.known = routing
           /\ \A r \in c.refs : ShardOf[r] = c.shard /\ c.from <= SliceOf[r]

\* Its records, before and after save_shard.
RowsInv(w) ==
  LET c == call[w]
  IN  /\ c.pc \in Running \ {"routed"} => ShardFile(c.shard) \notin torn
      /\ c.pc = "loaded" => c.rows = shardFile[c.shard]
      /\ c.pc = "trained" => c.rows = shardFile[c.shard] \ c.refs
      /\ c.pc \in {"purged", "saved", "certified"} => c.rows = shardFile[c.shard]

\* Its booster, before and after save_booster.
ModelInv(w) ==
  LET c == call[w]
  IN  /\ c.pc \in Rebuilt =>
           /\ \A j \in Slices : \A s \in c.model[j] :
                /\ ShardOf[s] = c.shard /\ SliceOf[s] <= j
                /\ s \notin c.refs /\ Learned(s)
           /\ Uncut => c.model = Boost(NoTrees, c.rows, 0)
      /\ c.pc \in {"saved", "certified"} => c.model = booster[c.shard]

CallInv(w) == BatchInv(w) /\ RowsInv(w) /\ ModelInv(w)

IndInv ==
  /\ RootInv
  /\ FileInv
  /\ FreshUnlessWriting
  /\ FunctionOfRetainedData
  /\ \A w \in Workers : CallInv(w)

-----------------------------------------------------------------------------
(* Lemmas about the operators *)

LEMMA SliceFacts ==
  /\ Last \in Slices /\ 0 \in Slices
  /\ \A i \in Slices : i \in Int /\ 0 <= i /\ i <= Last
  /\ \A s \in Subjects : SliceOf[s] \in Slices /\ SliceOf[s] <= Last
BY GbdtSlices, GbdtAssignment DEF Slices, Last

LEMMA TreeForShardIsRows ==
  ASSUME NEW cached, NEW rows PROVE TreeForShard(cached, rows) = rows
BY DEF TreeForShard

\* A booster trained from nothing has, slice by slice, the rows up to it.
LEMMA FreshBooster ==
  ASSUME NEW rows \in SUBSET Subjects
  PROVE  /\ Boost(NoTrees, rows, 0) \in Booster
         /\ \A j \in Slices : Boost(NoTrees, rows, 0)[j] = RowsUpTo(rows, j)
         /\ RowsUpTo(rows, Last) = rows
BY SliceFacts DEF Boost, NoTrees, Booster, RowsUpTo

\* Rolling back to a slice and boosting again keeps the trees before it and
\* fits the others on the retained rows alone.
LEMMA RebuiltBooster ==
  ASSUME NEW b \in Booster, NEW rows \in SUBSET Subjects, NEW from \in Slices
  PROVE  LET n == Boost(Rollback(b, from), rows, from)
         IN  /\ n \in Booster
             /\ \A j \in Slices : n[j] = IF j < from THEN b[j] ELSE RowsUpTo(rows, j)
             /\ n[Last] = rows
<1> DEFINE r == Rollback(b, from)
           n == Boost(r, rows, from)
<1>1. \A j \in Slices : r[j] = IF j < from THEN b[j] ELSE {}
  BY SliceFacts DEF Rollback, NoTrees
<1>2. \A j \in Slices : b[j] \in SUBSET Subjects /\ RowsUpTo(rows, j) \in SUBSET Subjects
  BY DEF Booster, RowsUpTo
<1> HIDE DEF r
<1>3. \A j \in Slices : n[j] = IF j < from THEN b[j] ELSE RowsUpTo(rows, j)
  BY <1>1, SliceFacts DEF Boost
<1>4. n = [j \in Slices |-> n[j]]
  BY DEF Boost
<1> HIDE DEF n
<1>5. n \in Booster
  <2>1. \A j \in Slices : n[j] \in SUBSET Subjects
    BY <1>2, <1>3
  <2> QED
    BY <1>4, <2>1 DEF Booster
<1>6. n[Last] = rows
  BY <1>3, SliceFacts, FreshBooster
<1> QED
  BY <1>3, <1>5, <1>6 DEF n, r

-----------------------------------------------------------------------------
(* What a step does to the locals of its call *)

\* The call of w goes on with these locals, and every other call stays.
Becomes(w, pc, rows, tree, model) ==
  /\ call' \in [Workers -> Call]
  /\ \A v \in Workers : v # w => call'[v] = call[v]
  /\ call'[w].pc = pc /\ call'[w].rows = rows
  /\ call'[w].tree = tree /\ call'[w].model = model
  /\ call'[w].refs = call[w].refs /\ call'[w].known = call[w].known
  /\ call'[w].shard = call[w].shard /\ call'[w].from = call[w].from

\* The call of w is over, and every other call stays.
Ends(w) ==
  /\ call' \in [Workers -> Call]
  /\ \A v \in Workers : v # w => call'[v] = call[v]
  /\ call'[w].pc \in {"idle", "returned", "raised"} /\ call'[w].refs = {}

LEMMA IdleType == Idle \in Call /\ Idle.pc = "idle" /\ Idle.refs = {}
<1>1. (CHOOSE k \in Shards : TRUE) \in Shards
  BY GbdtAssignment
<1>2. NoTrees \in Booster
  BY DEF NoTrees, Booster
<1> QED
  BY <1>1, <1>2, SliceFacts DEF Idle, Call, Phases

LEMMA CallTypes ==
  ASSUME TypeOK, NEW w \in Workers
  PROVE  /\ call \in [Workers -> Call] /\ call[w] \in Call
         /\ call[w].pc \in Phases /\ call[w].shard \in Shards
         /\ call[w].from \in Slices /\ call[w].refs \in SUBSET Subjects
         /\ call[w].rows \in SUBSET Subjects /\ call[w].tree \in SUBSET Subjects
         /\ call[w].known \in SUBSET Subjects /\ call[w].model \in Booster
         /\ shardFile[call[w].shard] \in SUBSET Subjects
         /\ booster[call[w].shard] \in Booster
BY DEF TypeOK, Call

LEMMA SetsCall ==
  ASSUME TypeOK, NEW w \in Workers, NEW c \in Call, call' = [call EXCEPT ![w] = c]
  PROVE  /\ call' \in [Workers -> Call] /\ call'[w] = c
         /\ \A v \in Workers : v # w => call'[v] = call[v]
BY DEF TypeOK

LEMMA GoesOn ==
  ASSUME TypeOK, NEW w \in Workers, NEW p \in Phases, NEW rows \in SUBSET Subjects,
         NEW tree \in SUBSET Subjects, NEW model \in Booster,
         call' = [call EXCEPT ![w] = [call[w] EXCEPT !.pc = p, !.rows = rows,
                                                     !.tree = tree, !.model = model]]
  PROVE  Becomes(w, p, rows, tree, model)
<1> DEFINE n == [call[w] EXCEPT !.pc = p, !.rows = rows, !.tree = tree, !.model = model]
<1>1. n \in Call
  BY CallTypes DEF Call
<1>2. /\ n.pc = p /\ n.rows = rows /\ n.tree = tree /\ n.model = model
      /\ n.refs = call[w].refs /\ n.known = call[w].known
      /\ n.shard = call[w].shard /\ n.from = call[w].from
  BY CallTypes DEF Call
<1>3. call' = [call EXCEPT ![w] = n]
  OBVIOUS
<1> HIDE DEF n
<1>4. /\ call' \in [Workers -> Call] /\ call'[w] = n
      /\ \A v \in Workers : v # w => call'[v] = call[v]
  BY <1>1, <1>3, SetsCall
<1> QED
  BY <1>2, <1>4 DEF Becomes

LEMMA PhaseOnly ==
  ASSUME TypeOK, NEW w \in Workers, NEW p \in Phases, call' = [call EXCEPT ![w].pc = p]
  PROVE  Becomes(w, p, call[w].rows, call[w].tree, call[w].model)
<1>1. [call[w] EXCEPT !.pc = p]
        = [call[w] EXCEPT !.pc = p, !.rows = call[w].rows,
                          !.tree = call[w].tree, !.model = call[w].model]
  BY CallTypes DEF Call
<1> QED
  BY <1>1, CallTypes, GoesOn

LEMMA IdleEnds ==
  ASSUME TypeOK, NEW w \in Workers, call' = [call EXCEPT ![w] = Idle] PROVE Ends(w)
BY IdleType, SetsCall DEF Ends

\* A call that returns or raises leaves no locals.
LEMMA LocalsGone ==
  ASSUME TypeOK, NEW w \in Workers, NEW p \in {"returned", "raised"},
         call' = [call EXCEPT ![w] = [Idle EXCEPT !.pc = p]]
  PROVE  Ends(w)
<1> DEFINE n == [Idle EXCEPT !.pc = p]
<1>1. n \in Call /\ n.pc = p /\ n.refs = {}
  BY IdleType DEF Call, Phases
<1>2. call' = [call EXCEPT ![w] = n]
  OBVIOUS
<1> HIDE DEF n
<1> QED
  BY <1>1, <1>2, SetsCall DEF Ends

LEMMA RaiseEnds ==
  ASSUME TypeOK, NEW w \in Workers, Raise(w) PROVE Ends(w)
BY LocalsGone DEF Raise

\* BeginRebuild accepts the batch or raises.
LEMMA BeginCall ==
  ASSUME TypeOK, NEW w \in Workers, NEW R \in (SUBSET Subjects) \ {{}},
         NEW dup \in BOOLEAN, BeginRebuild(w, R, dup)
  PROVE  \/ Ends(w)
         \/ /\ call' \in [Workers -> Call] /\ RoutingFile \notin torn
            /\ \A v \in Workers : v # w => call'[v] = call[v]
            /\ call'[w].refs = R /\ call'[w].pc = "routed" /\ call'[w].known = routing
            /\ \A r \in R : ShardOf[r] = call'[w].shard /\ call'[w].from <= SliceOf[r]
<1>1. ASSUME NEW k \in Shards, NEW f \in Slices, RoutingFile \notin torn,
             \A r \in R : ShardOf[r] = k /\ f <= SliceOf[r],
             call' = [call EXCEPT ![w] =
               [Idle EXCEPT !.pc = "routed", !.refs = R, !.dup = dup,
                            !.known = routing, !.shard = k, !.from = f]]
      PROVE  /\ call' \in [Workers -> Call] /\ RoutingFile \notin torn
             /\ \A v \in Workers : v # w => call'[v] = call[v]
             /\ call'[w].refs = R /\ call'[w].pc = "routed" /\ call'[w].known = routing
             /\ \A r \in R : ShardOf[r] = call'[w].shard /\ call'[w].from <= SliceOf[r]
  <2> DEFINE n == [Idle EXCEPT !.pc = "routed", !.refs = R, !.dup = dup,
                               !.known = routing, !.shard = k, !.from = f]
  <2>0. "routed" \in Phases /\ routing \in SUBSET Subjects
    BY DEF Phases, TypeOK
  <2>1. n \in Call
    BY <2>0, IdleType DEF Call
  <2>2. n.pc = "routed" /\ n.refs = R /\ n.known = routing /\ n.shard = k /\ n.from = f
    BY IdleType DEF Call
  <2>3. call' = [call EXCEPT ![w] = n]
    BY <1>1
  <2> HIDE DEF n
  <2>4. /\ call' \in [Workers -> Call] /\ call'[w] = n
        /\ \A v \in Workers : v # w => call'[v] = call[v]
    BY <2>1, <2>3, SetsCall
  <2> QED
    BY <1>1, <2>2, <2>4
<1>2. CASE Raise(w)
  BY <1>2, RaiseEnds
<1>3. CASE ~Raise(w)
  BY <1>1, <1>3 DEF BeginRebuild, MinSlice
<1> QED
  BY <1>2, <1>3

\* The booster rebuild_booster computes.
Retrained(w) ==
  Boost(Rollback(booster[call[w].shard], call[w].from),
        call[w].rows \ call[w].refs, call[w].from)

\* Each action but BeginRebuild either ends its call or carries it one phase on.
LEMMA CallSteps ==
  ASSUME TypeOK, NEW w \in Workers
  PROVE
  LET c == call[w]
  IN  /\ LoadShard(w) => Ends(w) \/
           (/\ ShardFile(c.shard) \notin torn
            /\ Becomes(w, "loaded", shardFile[c.shard], shardFile[c.shard], c.model))
      /\ RebuildBooster(w) => Ends(w) \/
           (/\ BoosterFile(c.shard) \notin torn
            /\ Becomes(w, "trained", c.rows \ c.refs, c.tree, Retrained(w)))
      /\ SaveShard(w) => Becomes(w, "purged", c.rows, c.tree, c.model)
      /\ SaveBooster(w) => Becomes(w, "saved", c.rows, c.tree, c.model)
      /\ CertifyBatch(w) => Ends(w) \/
           (/\ c.refs \subseteq c.tree
            /\ Becomes(w, "certified", c.rows, c.tree \ c.refs, c.model))
      /\ SaveRouting(w) \/ EmptyMatrix(w) \/ PopTwice(w) \/ Return(w) => Ends(w)
      /\ Fault(w) \/ Die(w) => Ends(w)
<1> DEFINE c == call[w]
<1>1. ASSUME LoadShard(w)
      PROVE  Ends(w) \/
               (/\ ShardFile(c.shard) \notin torn
                /\ Becomes(w, "loaded", shardFile[c.shard], shardFile[c.shard], c.model))
  <2>1. CASE Raise(w)
    BY <2>1, RaiseEnds
  <2>2. CASE ~Raise(w)
    <3>0. TreeForShard(treeCache[w][c.shard], shardFile[c.shard]) = shardFile[c.shard]
      BY TreeForShardIsRows
    <3>1. /\ ShardFile(c.shard) \notin torn
          /\ call' = [call EXCEPT ![w] =
               [c EXCEPT !.pc = "loaded", !.rows = shardFile[c.shard],
                         !.tree = shardFile[c.shard]]]
      BY <1>1, <2>2, <3>0 DEF LoadShard
    <3>2. [c EXCEPT !.pc = "loaded", !.rows = shardFile[c.shard],
                    !.tree = shardFile[c.shard]]
            = [c EXCEPT !.pc = "loaded", !.rows = shardFile[c.shard],
                        !.tree = shardFile[c.shard], !.model = c.model]
      BY CallTypes DEF Call
    <3> QED
      BY <3>1, <3>2, CallTypes, GoesOn DEF Phases
  <2> QED
    BY <2>1, <2>2
<1>2. ASSUME RebuildBooster(w)
      PROVE  Ends(w) \/
               (/\ BoosterFile(c.shard) \notin torn
                /\ Becomes(w, "trained", c.rows \ c.refs, c.tree, Retrained(w)))
  <2>1. CASE Raise(w)
    BY <2>1, RaiseEnds
  <2>2. CASE ~Raise(w)
    <3>1. /\ BoosterFile(c.shard) \notin torn
          /\ call' = [call EXCEPT ![w] =
               [c EXCEPT !.pc = "trained", !.rows = c.rows \ c.refs, !.model = Retrained(w)]]
      BY <1>2, <2>2 DEF RebuildBooster, Purge, Retrained
    <3>2. [c EXCEPT !.pc = "trained", !.rows = c.rows \ c.refs, !.model = Retrained(w)]
            = [c EXCEPT !.pc = "trained", !.rows = c.rows \ c.refs,
                        !.tree = c.tree, !.model = Retrained(w)]
      BY CallTypes DEF Call
    <3>3. Retrained(w) \in Booster
      BY CallTypes, RebuiltBooster DEF Retrained
    <3>4. c.rows \ c.refs \in SUBSET Subjects /\ c.tree \in SUBSET Subjects
      BY CallTypes
    <3> QED
      BY <3>1, <3>2, <3>3, <3>4, GoesOn DEF Phases
  <2> QED
    BY <2>1, <2>2
<1>3. CertifyBatch(w) => Ends(w) \/
        (/\ c.refs \subseteq c.tree
         /\ Becomes(w, "certified", c.rows, c.tree \ c.refs, c.model))
  <2> SUFFICES ASSUME CertifyBatch(w)
               PROVE  Ends(w) \/
                        (/\ c.refs \subseteq c.tree
                         /\ Becomes(w, "certified", c.rows, c.tree \ c.refs, c.model))
    OBVIOUS
  <2>1. CASE Raise(w)
    BY <2>1, RaiseEnds
  <2>2. CASE ~Raise(w)
    <3> DEFINE p == "certified"
    <3>1. call' = [call EXCEPT ![w] = [c EXCEPT !.pc = p, !.tree = c.tree \ c.refs]]
      BY <2>2 DEF CertifyBatch
    <3>2. [c EXCEPT !.pc = p, !.tree = c.tree \ c.refs]
            = [c EXCEPT !.pc = p, !.rows = c.rows,
                        !.tree = c.tree \ c.refs, !.model = c.model]
      BY CallTypes DEF Call
    <3>3. p \in Phases /\ c.tree \ c.refs \in SUBSET Subjects
      BY CallTypes DEF Phases
    <3>4. Becomes(w, p, c.rows, c.tree \ c.refs, c.model)
      BY <3>1, <3>2, <3>3, CallTypes, GoesOn
    <3>5. c.refs \subseteq c.tree
      BY <2>2 DEF CertifyBatch
    <3> QED
      BY <3>4, <3>5
  <2> QED
    BY <2>1, <2>2
<1>4. /\ SaveShard(w) => Becomes(w, "purged", c.rows, c.tree, c.model)
      /\ SaveBooster(w) => Becomes(w, "saved", c.rows, c.tree, c.model)
  BY PhaseOnly DEF SaveShard, SaveBooster, Phases
<1>5. SaveRouting(w) \/ EmptyMatrix(w) \/ PopTwice(w) \/ Return(w) => Ends(w)
  BY RaiseEnds, IdleEnds, LocalsGone DEF SaveRouting, EmptyMatrix, PopTwice, Return
<1>6. Fault(w) \/ Die(w) => Ends(w)
  BY RaiseEnds, IdleEnds DEF Fault, Die
<1> QED
  BY <1>1, <1>2, <1>3, <1>4, <1>5, <1>6

-----------------------------------------------------------------------------
(* Type correctness, for any number of workers *)

LEMMA TypeInit == Init => TypeOK
<1> SUFFICES ASSUME Init PROVE TypeOK
  OBVIOUS
<1>1. shardFile \in [Shards -> SUBSET Subjects]
  BY DEF Init
<1>2. booster \in [Shards -> Booster]
  <2>1. ASSUME NEW k \in Shards PROVE Boost(NoTrees, shardFile[k], 0) \in Booster
    <3>1. shardFile[k] \in SUBSET Subjects
      BY <1>1
    <3> QED
      BY <3>1, FreshBooster
  <2>2. booster = [k \in Shards |-> Boost(NoTrees, shardFile[k], 0)]
    BY DEF Init
  <2> QED
    BY <2>1, <2>2
<1>3. call \in [Workers -> Call]
  BY IdleType DEF Init
<1>4. crashes \in 0 .. MaxCrashes /\ faults \in 0 .. MaxFaults
  BY GbdtBounds DEF Init
<1>5. /\ routing \in SUBSET Subjects /\ torn \in SUBSET Files
      /\ requested \in SUBSET Subjects /\ issued \in SUBSET Manifest
      /\ treeCache \in [Workers -> [Shards -> SUBSET SUBSET Subjects]]
  BY DEF Init
<1> QED
  BY <1>1, <1>2, <1>3, <1>4, <1>5 DEF TypeOK

\* Whatever part of it arrives, a write leaves a file of the right shape.
LEMMA WriteTypes ==
  ASSUME TypeOK, NEW w \in Workers
  PROVE  /\ \A part \in SUBSET call[w].rows :
              WriteShard(w, part) => shardFile' \in [Shards -> SUBSET Subjects]
         /\ \A part \in {NoTrees, call[w].model} :
              WriteBooster(w, part) => booster' \in [Shards -> Booster]
         /\ \A part \in SUBSET (call[w].known \ call[w].refs) :
              WriteRouting(w, part) => routing' \in SUBSET Subjects
         /\ {ShardFile(call[w].shard), BoosterFile(call[w].shard), RoutingFile} \subseteq Files
<1>1. ASSUME NEW part \in SUBSET call[w].rows, WriteShard(w, part)
      PROVE  shardFile' \in [Shards -> SUBSET Subjects]
  BY <1>1, CallTypes DEF WriteShard, TypeOK
<1>2. ASSUME NEW part \in {NoTrees, call[w].model}, WriteBooster(w, part)
      PROVE  booster' \in [Shards -> Booster]
  <2>1. part \in Booster
    BY CallTypes DEF NoTrees, Booster
  <2> QED
    BY <1>2, <2>1, CallTypes DEF WriteBooster, TypeOK
<1>3. \A part \in SUBSET (call[w].known \ call[w].refs) :
        WriteRouting(w, part) => routing' \in SUBSET Subjects
  BY CallTypes DEF WriteRouting
<1>4. {ShardFile(call[w].shard), BoosterFile(call[w].shard), RoutingFile} \subseteq Files
  BY CallTypes DEF Files
<1> QED
  BY <1>1, <1>2, <1>3, <1>4

\* Different files have different names.
LEMMA NamesDiffer ==
  \A k, l \in Shards :
    /\ RoutingFile \notin {ShardFile(k), BoosterFile(k)}
    /\ ShardFile(k) # BoosterFile(l)
    /\ ShardFile(k) = ShardFile(l) => k = l
    /\ BoosterFile(k) = BoosterFile(l) => k = l
<1> TAKE k, l \in Shards
<1>1. RoutingFile[1] = "routing" /\ ShardFile(k)[1] = "shard"
      /\ BoosterFile(k)[1] = "booster" /\ BoosterFile(l)[1] = "booster"
  BY DEF RoutingFile, ShardFile, BoosterFile
<1>2. RoutingFile \notin {ShardFile(k), BoosterFile(k)} /\ ShardFile(k) # BoosterFile(l)
  BY <1>1
<1>3. ShardFile(k) = ShardFile(l) => k = l
  BY DEF ShardFile
<1>4. BoosterFile(k) = BoosterFile(l) => k = l
  BY DEF BoosterFile
<1> QED
  BY <1>2, <1>3, <1>4

LEMMA TypeStep ==
  ASSUME TypeOK, [Next]_vars
  PROVE  TypeOK'
<1>0. CASE UNCHANGED vars
  BY <1>0 DEF vars, files, TypeOK
<1> SUFFICES ASSUME Next PROVE TypeOK'
  BY <1>0
<1> PICK w \in Workers :
      \/ \E R \in (SUBSET Subjects) \ {{}}, dup \in BOOLEAN : BeginRebuild(w, R, dup)
      \/ Rebuild(w) \/ IOFault(w) \/ Crash(w) \/ CrashAfter(w)
  BY DEF Next
<1>1. ASSUME NEW R \in (SUBSET Subjects) \ {{}}, NEW dup \in BOOLEAN, BeginRebuild(w, R, dup)
      PROVE  TypeOK'
  <2>1. call' \in [Workers -> Call]
    BY <1>1, BeginCall DEF Ends
  <2> QED
    BY <1>1, <2>1 DEF BeginRebuild, files, TypeOK
<1>2. CASE LoadShard(w) \/ RebuildBooster(w) \/ EmptyMatrix(w) \/ PopTwice(w) \/ Return(w)
  <2>1. call' \in [Workers -> Call]
    BY <1>2, CallSteps DEF Ends, Becomes
  <2>2. UNCHANGED <<files, treeCache, requested, issued, crashes, faults>>
    BY <1>2 DEF LoadShard, RebuildBooster, EmptyMatrix, PopTwice, Return, Quiet
  <2> QED
    BY <2>1, <2>2 DEF files, TypeOK
<1>3. CASE SaveShard(w)
  <2>1. call' \in [Workers -> Call]
    BY <1>3, CallSteps DEF Becomes
  <2> QED
    BY <1>3, <2>1, WriteTypes DEF SaveShard, Quiet, TypeOK
<1>4. CASE SaveBooster(w)
  <2>1. call' \in [Workers -> Call]
    BY <1>4, CallSteps DEF Becomes
  <2> QED
    BY <1>4, <2>1, WriteTypes DEF SaveBooster, Quiet, TypeOK
<1>5. CASE CertifyBatch(w)
  <2>1. call' \in [Workers -> Call]
    BY <1>5, CallSteps DEF Ends, Becomes
  <2>2. treeCache' \in [Workers -> [Shards -> SUBSET SUBSET Subjects]]
    <3>1. {call[w].tree \ call[w].refs} \in SUBSET SUBSET Subjects /\ call[w].shard \in Shards
      BY CallTypes
    <3>2. \/ treeCache' = treeCache
          \/ treeCache' = [treeCache EXCEPT ![w][call[w].shard] =
                                               {call[w].tree \ call[w].refs}]
      BY <1>5 DEF CertifyBatch
    <3> QED
      BY <3>1, <3>2 DEF TypeOK
  <2>3. UNCHANGED <<files, requested, issued, crashes, faults>>
    BY <1>5 DEF CertifyBatch, Quiet
  <2> QED
    BY <2>1, <2>2, <2>3 DEF files, TypeOK
<1>6. CASE SaveRouting(w)
  <2>1. call' \in [Workers -> Call]
    BY <1>6, CallSteps DEF Ends
  <2>2. ManifestsOf(call[w]) \in SUBSET Manifest
    BY CallTypes DEF ManifestsOf, Manifest
  <2> QED
    BY <1>6, <2>1, <2>2, WriteTypes DEF SaveRouting, TypeOK
<1>7. ASSUME Interrupted(w)
      PROVE  /\ shardFile' \in [Shards -> SUBSET Subjects] /\ routing' \in SUBSET Subjects
             /\ booster' \in [Shards -> Booster] /\ torn' \in SUBSET Files
             /\ requested' \in SUBSET Subjects /\ issued' \in SUBSET Manifest
  <2>1. CASE UNCHANGED files
    BY <1>7, <2>1 DEF Interrupted, files, TypeOK
  <2>2. CASE TornWrite(w)
    BY <1>7, <2>2, WriteTypes DEF Interrupted, TornWrite, TypeOK
  <2> QED
    BY <1>7, <2>1, <2>2 DEF Interrupted
<1>8. ASSUME Die(w)
      PROVE  /\ call' \in [Workers -> Call]
             /\ treeCache' \in [Workers -> [Shards -> SUBSET SUBSET Subjects]]
             /\ crashes' \in 0 .. MaxCrashes /\ faults' \in 0 .. MaxFaults
  <2>1. call' \in [Workers -> Call]
    BY <1>8, CallSteps DEF Ends
  <2>2. treeCache' \in [Workers -> [Shards -> SUBSET SUBSET Subjects]]
    BY <1>8 DEF Die, TypeOK
  <2> QED
    BY <1>8, <2>1, <2>2, GbdtBounds DEF Die, TypeOK
<1>9. ASSUME Fault(w)
      PROVE  /\ call' \in [Workers -> Call]
             /\ treeCache' \in [Workers -> [Shards -> SUBSET SUBSET Subjects]]
             /\ crashes' \in 0 .. MaxCrashes /\ faults' \in 0 .. MaxFaults
  <2>1. call' \in [Workers -> Call]
    BY <1>9, CallSteps DEF Ends
  <2> QED
    BY <1>9, <2>1, GbdtBounds DEF Fault, TypeOK
<1>10. CASE IOFault(w)
  BY <1>10, <1>7, <1>9 DEF IOFault, TypeOK
<1>11. CASE Crash(w)
  BY <1>11, <1>7, <1>8 DEF Crash, TypeOK
<1>12. CASE CrashAfter(w)
  BY <1>12, <1>8 DEF CrashAfter, files, TypeOK
<1> QED
  BY <1>1, <1>2, <1>3, <1>4, <1>5, <1>6, <1>10, <1>11, <1>12 DEF Rebuild

\* Every file and local of the tree engine keeps its shape, every booster the
\* trees of exactly NUM_SLICES slices, for any number of workers.
THEOREM TreesTypeCorrect == Spec => []TypeOK
<1>1. TypeOK /\ [Next]_vars => TypeOK'
  BY TypeStep
<1> QED
  BY TypeInit, <1>1, PTL DEF Spec

-----------------------------------------------------------------------------
(* What a manifest commits to, for any number of workers *)

LEMMA EndedLocals ==
  ASSUME NEW w \in Workers, Ends(w) PROVE LocalInv(w)'
BY DEF Ends, LocalInv, Rebuilt

LEMMA RootStep ==
  ASSUME RootInv, [Next]_vars
  PROVE  RootInv'
<1>0. TypeOK' /\ TypeOK /\ RootMatchesTraining /\ \A v \in Workers : LocalInv(v)
  BY TypeStep DEF RootInv
<1>s. CASE UNCHANGED vars
  BY <1>0, <1>s DEF vars, RootInv, RootMatchesTraining, LocalInv
<1> SUFFICES ASSUME Next PROVE RootInv'
  BY <1>s
<1> PICK w \in Workers :
      \/ \E R \in (SUBSET Subjects) \ {{}}, dup \in BOOLEAN : BeginRebuild(w, R, dup)
      \/ Rebuild(w) \/ IOFault(w) \/ Crash(w) \/ CrashAfter(w)
  BY DEF Next
<1> DEFINE c == call[w]
           others == \A v \in Workers : v # w => call'[v] = call[v]
<1> SUFFICES others /\ LocalInv(w)' /\ RootMatchesTraining'
  <2>1. ASSUME others, NEW v \in Workers, v # w PROVE LocalInv(v)'
    BY <2>1, <1>0 DEF LocalInv
  <2> QED
    BY <2>1, <1>0 DEF RootInv
<1>e. ASSUME Ends(w), issued' = issued PROVE others /\ LocalInv(w)' /\ RootMatchesTraining'
  BY <1>e, <1>0, EndedLocals DEF Ends, RootMatchesTraining
<1>1. ASSUME NEW R \in (SUBSET Subjects) \ {{}}, NEW dup \in BOOLEAN, BeginRebuild(w, R, dup)
      PROVE  others /\ LocalInv(w)' /\ RootMatchesTraining'
  <2>1. Ends(w) \/ (others /\ call'[w].pc = "routed")
    BY <1>0, <1>1, BeginCall
  <2>2. issued' = issued
    BY <1>1 DEF BeginRebuild
  <2> QED
    BY <1>0, <1>e, <2>1, <2>2 DEF LocalInv, RootMatchesTraining, Rebuilt
<1>2. CASE LoadShard(w)
  <2>1. Ends(w) \/ Becomes(w, "loaded", shardFile[c.shard], shardFile[c.shard], c.model)
    BY <1>0, <1>2, CallSteps
  <2>2. issued' = issued
    BY <1>2 DEF LoadShard, Quiet
  <2> QED
    BY <1>0, <1>e, <2>1, <2>2 DEF Becomes, LocalInv, RootMatchesTraining, Rebuilt
<1>3. CASE RebuildBooster(w)
  <2>1. Ends(w) \/ Becomes(w, "trained", c.rows \ c.refs, c.tree, Retrained(w))
    BY <1>0, <1>3, CallSteps
  <2>2. issued' = issued /\ c.pc = "loaded"
    BY <1>3 DEF RebuildBooster, Quiet
  <2>3. Retrained(w)[Last] = c.rows \ c.refs
    BY <1>0, CallTypes, RebuiltBooster DEF Retrained
  <2>4. c.tree = c.rows
    BY <1>0, <2>2 DEF LocalInv
  <2> QED
    BY <1>0, <1>e, <2>1, <2>2, <2>3, <2>4 DEF Becomes, LocalInv, RootMatchesTraining
<1>4. CASE SaveShard(w)
  <2>1. Becomes(w, "purged", c.rows, c.tree, c.model)
    BY <1>0, <1>4, CallSteps
  <2>2. issued' = issued /\ c.pc = "trained"
    BY <1>4 DEF SaveShard, Quiet
  <2> QED
    BY <1>0, <2>1, <2>2 DEF Becomes, LocalInv, RootMatchesTraining, Rebuilt
<1>5. CASE SaveBooster(w)
  <2>1. Becomes(w, "saved", c.rows, c.tree, c.model)
    BY <1>0, <1>5, CallSteps
  <2>2. issued' = issued /\ c.pc = "purged"
    BY <1>5 DEF SaveBooster, Quiet
  <2> QED
    BY <1>0, <2>1, <2>2 DEF Becomes, LocalInv, RootMatchesTraining, Rebuilt
<1>6. CASE CertifyBatch(w)
  <2>1. Ends(w) \/ (/\ c.refs \subseteq c.tree
                    /\ Becomes(w, "certified", c.rows, c.tree \ c.refs, c.model))
    BY <1>0, <1>6, CallSteps
  <2>2. issued' = issued /\ c.pc = "saved"
    BY <1>6 DEF CertifyBatch, Quiet
  <2>3. c.rows = c.tree \ c.refs /\ c.model[Last] = c.rows
    BY <1>0, <2>2 DEF LocalInv, Rebuilt
  <2> QED
    BY <1>0, <1>e, <2>1, <2>2, <2>3 DEF Becomes, LocalInv, RootMatchesTraining, Rebuilt
<1>7. CASE SaveRouting(w)
  <2>1. Ends(w)
    BY <1>0, <1>7, CallSteps
  <2>2. issued' = issued \cup ManifestsOf(c) /\ c.pc = "certified"
    BY <1>7 DEF SaveRouting
  <2>3. c.tree = c.rows /\ c.rows \cap c.refs = {} /\ c.model[Last] = c.rows
    BY <1>0, <2>2 DEF LocalInv, Rebuilt
  <2>4. \A m \in ManifestsOf(c) : m.root = m.weights[Last] /\ m.subject \notin m.root
    BY <2>3 DEF ManifestsOf
  <2>5. RootMatchesTraining'
    BY <1>0, <2>2, <2>4 DEF RootMatchesTraining, Last
  <2> QED
    BY <2>1, <2>5, EndedLocals DEF Ends
<1>8. CASE EmptyMatrix(w) \/ PopTwice(w) \/ Return(w)
  BY <1>0, <1>8, <1>e, CallSteps DEF EmptyMatrix, PopTwice, Return, Quiet
<1>9. CASE IOFault(w) \/ Crash(w) \/ CrashAfter(w)
  BY <1>0, <1>9, <1>e, CallSteps DEF IOFault, Crash, CrashAfter, Interrupted
<1> QED
  BY <1>1, <1>2, <1>3, <1>4, <1>5, <1>6, <1>7, <1>8, <1>9 DEF Rebuild

LEMMA RootInit == Init => RootInv
<1>1. Init => \A w \in Workers : LocalInv(w)
  BY IdleType DEF Init, LocalInv, Rebuilt
<1> QED
  BY <1>1, TypeInit DEF RootInv, RootMatchesTraining, Init

\* The root of every manifest commits to exactly the rows the booster's last
\* trees were fit on, whatever workers, crashes and earlier calls that raised
\* after they had written left in the files and in the tree caches.
THEOREM TreeRootsMatchTraining == Spec => []RootMatchesTraining
<1>1. RootInv /\ [Next]_vars => RootInv'
  BY RootStep
<1>2. RootInv => RootMatchesTraining
  BY DEF RootInv
<1> QED
  BY RootInit, <1>1, <1>2, PTL DEF Spec

-----------------------------------------------------------------------------
(* What each write does to the files *)

LEMMA FilesKept ==
  ASSUME FileInv, UNCHANGED <<files, issued>>
  PROVE  FileInv'
BY DEF FileInv, files, Placement, TreesInOrder, BoosterCoversRows,
       Forgotten, Reported, Learned, Influences

\* save_shard, complete or torn.
LEMMA ShardWritten ==
  ASSUME TypeOK, FileInv, NEW w \in Workers, CallInv(w), call[w].pc = "trained",
         NEW part \in SUBSET call[w].rows, WriteShard(w, part),
         \/ torn' = torn \ {ShardFile(call[w].shard)}
         \/ torn' = torn \cup {ShardFile(call[w].shard)},
         UNCHANGED <<routing, booster, issued>>
  PROVE  /\ FileInv'
         /\ shardFile'[call[w].shard] = part /\ part \subseteq shardFile[call[w].shard]
         /\ \A k \in Shards : k # call[w].shard => shardFile'[k] = shardFile[k]
         /\ part = call[w].rows =>
              \A k \in Shards : shardFile'[k] = shardFile[k] \ call[w].refs
<1> DEFINE c == call[w]
<1>1. /\ c.shard \in Shards
      /\ c.rows = shardFile[c.shard] \ c.refs
      /\ \A r \in c.refs : ShardOf[r] = c.shard
  BY CallTypes DEF CallInv, RowsInv, BatchInv, Running, Phases
<1>2. /\ shardFile'[c.shard] = part /\ part \subseteq shardFile[c.shard]
      /\ \A k \in Shards : k # c.shard => shardFile'[k] = shardFile[k]
  BY <1>1 DEF WriteShard, TypeOK
<1>3. \A k \in Shards : shardFile'[k] \subseteq shardFile[k]
  BY <1>2
<1>4. part = c.rows => \A k \in Shards : shardFile'[k] = shardFile[k] \ c.refs
  BY <1>1, <1>2 DEF FileInv, Placement
<1>5. /\ RoutingFile \in torn' <=> RoutingFile \in torn
      /\ \A k \in Shards : BoosterFile(k) \in torn' <=> BoosterFile(k) \in torn
  BY <1>1, NamesDiffer
<1>6. Placement' /\ TreesInOrder'
  BY <1>3 DEF FileInv, Placement, TreesInOrder
<1>7. BoosterCoversRows'
  BY <1>3, <1>5 DEF FileInv, BoosterCoversRows
<1>8. Forgotten'
  BY <1>3, <1>5 DEF FileInv, Forgotten, Reported, Learned, Influences
<1> QED
  BY <1>2, <1>4, <1>6, <1>7, <1>8 DEF FileInv

\* The booster a call is about to write, or wrote.
LEMMA ModelFacts ==
  ASSUME TypeOK, NEW w \in Workers, LocalInv(w), CallInv(w), call[w].pc \in Rebuilt
  PROVE  /\ call[w].model \in Booster /\ call[w].shard \in Shards
         /\ call[w].model[Last] = call[w].rows
         /\ \A s \in Subjects : Influences(s, call[w].model) =>
              Learned(s) /\ s \notin call[w].refs
         /\ \A j \in Slices : \A s \in call[w].model[j] :
              ShardOf[s] = call[w].shard /\ SliceOf[s] <= j
BY CallTypes DEF LocalInv, CallInv, ModelInv, Influences

\* save_booster, complete or torn.
LEMMA BoosterWritten ==
  ASSUME TypeOK, FileInv, NEW w \in Workers, LocalInv(w), CallInv(w),
         call[w].pc = "purged",
         NEW part \in {NoTrees, call[w].model}, WriteBooster(w, part),
         \/ /\ part = call[w].model
            /\ torn' = torn \ {BoosterFile(call[w].shard)}
         \/ torn' = torn \cup {BoosterFile(call[w].shard)},
         UNCHANGED <<shardFile, routing, issued>>
  PROVE  /\ FileInv'
         /\ booster'[call[w].shard] = part
         /\ \A k \in Shards : k # call[w].shard => booster'[k] = booster[k]
         /\ \A s \in Subjects : Learned(s)' => Learned(s)
<1> DEFINE c == call[w]
<1>1. /\ c.model \in Booster /\ c.shard \in Shards /\ c.model[Last] = c.rows
      /\ \A s \in Subjects : Influences(s, c.model) => Learned(s)
      /\ \A j \in Slices : \A s \in c.model[j] : ShardOf[s] = c.shard /\ SliceOf[s] <= j
  BY ModelFacts DEF Rebuilt
<1>2. c.rows = shardFile[c.shard]
  BY DEF CallInv, RowsInv
<1>3. /\ booster'[c.shard] = part
      /\ \A k \in Shards : k # c.shard => booster'[k] = booster[k]
  BY <1>1 DEF WriteBooster, TypeOK
<1>4. \A j \in Slices : part[j] \subseteq c.model[j]
  BY DEF NoTrees
<1>5. /\ RoutingFile \in torn' <=> RoutingFile \in torn
      /\ \A k \in Shards : k # c.shard => (BoosterFile(k) \in torn' <=> BoosterFile(k) \in torn)
      /\ BoosterFile(c.shard) \notin torn' => part = c.model
  BY <1>1, NamesDiffer
<1>6. TreesInOrder'
  BY <1>1, <1>3, <1>4 DEF FileInv, TreesInOrder
<1>7. BoosterCoversRows'
  BY <1>1, <1>2, <1>3, <1>5 DEF FileInv, BoosterCoversRows
<1>8. \A s \in Subjects : Learned(s)' => Learned(s)
  BY <1>1, <1>3, <1>4 DEF Learned, Influences
<1>9. Forgotten'
  BY <1>5, <1>8 DEF FileInv, Forgotten, Reported
<1>10. Placement'
  BY DEF FileInv, Placement
<1> QED
  BY <1>3, <1>6, <1>7, <1>8, <1>9, <1>10 DEF FileInv

\* A call that is about to write routing.json has left no trace of its batch.
LEMMA BatchHasNoTrace ==
  ASSUME TypeOK, FileInv, NEW w \in Workers, LocalInv(w), CallInv(w),
         call[w].pc = "certified", NEW s \in call[w].refs
  PROVE  s \in Subjects /\ ~Learned(s) /\ \A k \in Shards : s \notin shardFile[k]
<1> DEFINE c == call[w]
<1>1. /\ s \in Subjects /\ c.shard \in Shards /\ ShardOf[s] = c.shard
      /\ c.rows = shardFile[c.shard] /\ c.rows \cap c.refs = {}
      /\ c.model = booster[c.shard]
  BY CallTypes DEF LocalInv, CallInv, BatchInv, RowsInv, ModelInv, Running, Phases
<1>2. \A k \in Shards : s \notin shardFile[k]
  BY <1>1 DEF FileInv, Placement
<1>3. ASSUME NEW k \in Shards, Influences(s, booster[k]) PROVE FALSE
  <2>1. PICK j \in Slices : s \in booster[k][j]
    BY <1>3 DEF Influences
  <2>2. k = c.shard
    BY <1>1, <2>1 DEF FileInv, TreesInOrder
  <2> QED
    BY <1>1, <2>1, <2>2 DEF CallInv, ModelInv, Rebuilt
<1> QED
  BY <1>1, <1>2, <1>3 DEF Learned

\* save_routing, complete with the manifests returned, or torn.
LEMMA RoutingWritten ==
  ASSUME TypeOK, FileInv, NEW w \in Workers, LocalInv(w), CallInv(w),
         call[w].pc = "certified",
         NEW part \in SUBSET (call[w].known \ call[w].refs), WriteRouting(w, part),
         \/ /\ part = call[w].known \ call[w].refs
            /\ torn' = torn \ {RoutingFile}
            /\ issued' = issued \cup ManifestsOf(call[w])
         \/ torn' = torn \cup {RoutingFile} /\ issued' = issued,
         UNCHANGED <<shardFile, booster>>
  PROVE  FileInv'
<1> DEFINE c == call[w]
<1>1. routing' = part /\ c.known = routing /\ RoutingFile \notin torn
  BY DEF WriteRouting, CallInv, BatchInv, Running, Phases
<1>2. \A k \in Shards : BoosterFile(k) \in torn' <=> BoosterFile(k) \in torn
  BY NamesDiffer
<1>3. Forgotten'
  <2> SUFFICES ASSUME NEW s \in Subjects,
                      \/ Reported(s)'
                      \/ RoutingFile \notin torn' /\ s \notin routing'
               PROVE  ~Learned(s) /\ \A k \in Shards : s \notin shardFile[k]
    BY DEF Forgotten, Learned, Influences
  <2>1. Reported(s)' => Reported(s) \/ s \in c.refs
    BY DEF Reported, ManifestsOf
  <2>2. RoutingFile \notin torn' /\ s \notin routing' => s \notin routing \/ s \in c.refs
    BY <1>1
  <2> QED
    BY <1>1, <2>1, <2>2, BatchHasNoTrace DEF FileInv, Forgotten
<1>4. BoosterCoversRows'
  BY <1>2 DEF FileInv, BoosterCoversRows
<1> QED
  BY <1>3, <1>4 DEF FileInv, Placement, TreesInOrder

\* What rebuild_booster trains keeps to its shard and its slices, drops the
\* batch, adds nobody, and after an uncut history is a fresh training run.
LEMMA RetrainedFacts ==
  ASSUME TypeOK, FileInv, NEW w \in Workers, CallInv(w), call[w].pc = "loaded",
         BoosterFile(call[w].shard) \notin torn
  PROVE  /\ \A j \in Slices : \A s \in Retrained(w)[j] :
              /\ ShardOf[s] = call[w].shard /\ SliceOf[s] <= j
              /\ s \notin call[w].refs /\ Learned(s)
         /\ booster[call[w].shard] = Boost(NoTrees, shardFile[call[w].shard], 0)
              => Retrained(w) = Boost(NoTrees, call[w].rows \ call[w].refs, 0)
<1> DEFINE c == call[w]
           n == Retrained(w)
           b == booster[c.shard]
           kept == c.rows \ c.refs
<1>1. /\ c.shard \in Shards /\ c.from \in Slices /\ b \in Booster
      /\ c.rows = shardFile[c.shard] /\ kept \in SUBSET Subjects
      /\ c.rows \in SUBSET Subjects
      /\ \A r \in c.refs : c.from <= SliceOf[r]
  BY CallTypes DEF CallInv, BatchInv, RowsInv, Running, Phases
<1>2. /\ n \in Booster
      /\ \A j \in Slices : n[j] = IF j < c.from THEN b[j] ELSE RowsUpTo(kept, j)
  <2>1. n = Boost(Rollback(b, c.from), kept, c.from)
    BY DEF Retrained
  <2> HIDE DEF n, b, c, kept
  <2> QED
    BY <1>1, <2>1, RebuiltBooster
<1> HIDE DEF n
<1>3. ASSUME NEW j \in Slices, NEW s \in n[j]
      PROVE  /\ ShardOf[s] = c.shard /\ SliceOf[s] <= j
             /\ s \notin c.refs /\ Learned(s)
  <2>1. CASE j < c.from
    <3>1. s \in b[j] /\ s \in Subjects
      BY <1>1, <1>2, <2>1 DEF Booster
    <3>2. ShardOf[s] = c.shard /\ SliceOf[s] <= j
      BY <1>1, <3>1 DEF FileInv, TreesInOrder
    <3>3. s \notin c.refs
      BY <1>1, <2>1, <3>1, <3>2, SliceFacts
    <3>4. Learned(s)
      BY <1>1, <3>1 DEF Learned, Influences
    <3> QED
      BY <3>2, <3>3, <3>4
  <2>2. CASE ~(j < c.from)
    <3>1. s \in kept /\ SliceOf[s] <= j
      BY <1>2, <2>2 DEF RowsUpTo
    <3>2. ShardOf[s] = c.shard /\ s \in b[Last]
      BY <1>1, <3>1 DEF FileInv, Placement, BoosterCoversRows
    <3>3. Learned(s)
      BY <1>1, <3>2, SliceFacts DEF Learned, Influences
    <3> QED
      BY <3>1, <3>2, <3>3
  <2> QED
    BY <2>1, <2>2
<1>4. ASSUME b = Boost(NoTrees, shardFile[c.shard], 0)
      PROVE  n = Boost(NoTrees, kept, 0)
  <2> DEFINE f == Boost(NoTrees, kept, 0)
  <2>1. f \in Booster /\ \A j \in Slices : f[j] = RowsUpTo(kept, j)
    BY <1>1, FreshBooster
  <2>2. \A j \in Slices : b[j] = RowsUpTo(c.rows, j)
    BY <1>1, <1>4, FreshBooster
  <2> HIDE DEF f, kept
  <2>3. ASSUME NEW j \in Slices, j < c.from PROVE b[j] = RowsUpTo(kept, j)
    <3>1. \A r \in c.refs : ~(SliceOf[r] <= j)
      BY <1>1, <2>3, CallTypes, SliceFacts
    <3> QED
      BY <2>2, <3>1 DEF RowsUpTo, kept
  <2>4. \A j \in Slices : n[j] = f[j]
    BY <1>2, <2>1, <2>3
  <2>5. n = f
    BY <1>2, <2>1, <2>4 DEF Booster
  <2> QED
    BY <2>5 DEF f
<1> QED
  BY <1>3, <1>4 DEF n

-----------------------------------------------------------------------------
(* The inductive step, one step per action *)

LEMMA IndInit == Init => IndInv
<1> SUFFICES ASSUME Init PROVE IndInv
  OBVIOUS
<1>1. RootInv /\ TypeOK
  BY RootInit DEF RootInv
<1>2. \A k \in Shards : shardFile[k] = {s \in Subjects : ShardOf[s] = k}
                          /\ booster[k] = Boost(NoTrees, shardFile[k], 0)
  BY DEF Init
<1>3. ASSUME NEW k \in Shards
      PROVE  /\ \A j \in Slices : booster[k][j] = RowsUpTo(shardFile[k], j)
             /\ booster[k][Last] = shardFile[k]
  <2>1. shardFile[k] \in SUBSET Subjects
    BY <1>2
  <2> QED
    BY <1>2, <2>1, FreshBooster, SliceFacts
<1>4. Placement /\ TreesInOrder /\ BoosterCoversRows
  BY <1>2, <1>3 DEF Placement, TreesInOrder, BoosterCoversRows, RowsUpTo
<1>5. Forgotten
  BY DEF Init, Forgotten, Reported
<1>6. FreshUnlessWriting /\ FunctionOfRetainedData
  BY <1>2 DEF Init, FreshUnlessWriting, FunctionOfRetainedData
<1>7. \A w \in Workers : CallInv(w)
  BY IdleType DEF Init, CallInv, BatchInv, RowsInv, ModelInv, Running, Rebuilt
<1> QED
  BY <1>1, <1>4, <1>5, <1>6, <1>7 DEF IndInv, FileInv

\* A call that is over owes nothing.
LEMMA CallEnds ==
  ASSUME NEW w \in Workers, Ends(w)
  PROVE  CallInv(w)'
BY DEF CallInv, BatchInv, RowsInv, ModelInv, Running, Rebuilt, Ends

\* The only worker is not between save_shard and save_booster, and writes neither.
LEMMA StaysFresh ==
  ASSUME Solo, FreshUnlessWriting, NEW w \in Workers, call[w].pc # "purged",
         UNCHANGED <<shardFile, booster>>, Uncut' => Uncut
  PROVE  FreshUnlessWriting'
BY DEF Solo, FreshUnlessWriting

LEMMA IndStep ==
  ASSUME Solo, IndInv, [Next]_vars
  PROVE  IndInv'
<1>0. /\ TypeOK /\ RootMatchesTraining /\ FileInv /\ FreshUnlessWriting
      /\ FunctionOfRetainedData
      /\ \A v \in Workers : LocalInv(v) /\ CallInv(v)
  BY DEF IndInv, RootInv
<1>r. RootInv'
  BY RootStep DEF IndInv
<1>s. CASE UNCHANGED vars
  <2>1. FileInv'
    BY <1>0, <1>s, FilesKept DEF vars
  <2>2. FreshUnlessWriting' /\ FunctionOfRetainedData'
    BY <1>0, <1>s DEF vars, files, FreshUnlessWriting, FunctionOfRetainedData, Uncut
  <2>3. \A v \in Workers : CallInv(v)'
    BY <1>0, <1>s
    DEF vars, files, CallInv, BatchInv, RowsInv, ModelInv, Learned, Influences, Uncut
  <2> QED
    BY <1>r, <2>1, <2>2, <2>3 DEF IndInv
<1> SUFFICES ASSUME Next PROVE IndInv'
  BY <1>s
<1> PICK w \in Workers :
      \/ \E R \in (SUBSET Subjects) \ {{}}, dup \in BOOLEAN : BeginRebuild(w, R, dup)
      \/ Rebuild(w) \/ IOFault(w) \/ Crash(w) \/ CrashAfter(w)
  BY DEF Next
<1> DEFINE c == call[w]
           Goal == FileInv' /\ FreshUnlessWriting' /\ FunctionOfRetainedData' /\ CallInv(w)'
<1> SUFFICES Goal
  BY <1>r DEF Solo, IndInv
\* No call may change what the manifests already issued say.
<1>f. ASSUME issued' = issued, Uncut' => Uncut PROVE FunctionOfRetainedData'
  BY <1>0, <1>f DEF FunctionOfRetainedData, Uncut
\* A step that ends its call without touching a file.
<1>e. ASSUME Ends(w), UNCHANGED <<files, issued>>,
             ((Uncut' => Uncut) /\ c.pc # "purged") \/ ~Uncut'
      PROVE  Goal
  <2>1. FileInv' /\ CallInv(w)'
    BY <1>0, <1>e, FilesKept, CallEnds
  <2>2. CASE ~Uncut'
    BY <2>1, <2>2 DEF FreshUnlessWriting, FunctionOfRetainedData, Uncut
  <2>3. CASE (Uncut' => Uncut) /\ c.pc # "purged"
    BY <1>0, <1>e, <1>f, <2>1, <2>3, StaysFresh DEF files
  <2> QED
    BY <1>e, <2>2, <2>3
<1> HIDE DEF Goal
<1>1. ASSUME NEW R \in (SUBSET Subjects) \ {{}}, NEW dup \in BOOLEAN, BeginRebuild(w, R, dup)
      PROVE  Goal
  <2>1. /\ UNCHANGED files /\ requested' = requested \cup R /\ c.pc = "idle"
        /\ issued' = issued /\ (Uncut' => Uncut)
    BY <1>1 DEF BeginRebuild, Uncut
  <2>2. FileInv' /\ FreshUnlessWriting' /\ FunctionOfRetainedData'
    BY <1>0, <1>f, <2>1, FilesKept, StaysFresh DEF files
  <2>3. CASE Ends(w)
    BY <1>e, <2>1, <2>3
  <2>4. ASSUME call'[w].refs = R, call'[w].pc = "routed", call'[w].known = routing,
               RoutingFile \notin torn,
               \A r \in R : ShardOf[r] = call'[w].shard /\ call'[w].from <= SliceOf[r]
        PROVE  CallInv(w)'
    BY <2>1, <2>4 DEF files, CallInv, BatchInv, RowsInv, ModelInv, Running, Rebuilt
  <2> QED
    BY <1>0, <1>1, <2>2, <2>3, <2>4, BeginCall DEF Goal
<1>2. CASE LoadShard(w)
  <2>1. /\ UNCHANGED <<files, requested, issued>> /\ c.pc = "routed" /\ (Uncut' => Uncut)
    BY <1>2 DEF LoadShard, Quiet, Uncut
  <2>2. CASE Ends(w)
    BY <1>e, <2>1, <2>2
  <2>3. CASE /\ ShardFile(c.shard) \notin torn
             /\ Becomes(w, "loaded", shardFile[c.shard], shardFile[c.shard], c.model)
    <3>1. FileInv' /\ FreshUnlessWriting' /\ FunctionOfRetainedData'
      BY <1>0, <1>f, <2>1, FilesKept, StaysFresh DEF files
    <3>2. CallInv(w)'
      BY <1>0, <2>1, <2>3
      DEF files, Becomes, CallInv, BatchInv, RowsInv, ModelInv, Running, Phases, Rebuilt
    <3> QED
      BY <3>1, <3>2 DEF Goal
  <2> QED
    BY <1>0, <1>2, <2>2, <2>3, CallSteps
<1>3. CASE RebuildBooster(w)
  <2>1. /\ UNCHANGED <<files, requested, issued>> /\ c.pc = "loaded" /\ (Uncut' => Uncut)
    BY <1>3 DEF RebuildBooster, Quiet, Uncut
  <2>2. CASE Ends(w)
    BY <1>e, <2>1, <2>2
  <2>3. CASE /\ BoosterFile(c.shard) \notin torn
             /\ Becomes(w, "trained", c.rows \ c.refs, c.tree, Retrained(w))
    <3>1. FileInv' /\ FreshUnlessWriting' /\ FunctionOfRetainedData'
      BY <1>0, <1>f, <2>1, FilesKept, StaysFresh DEF files
    <3>2. BatchInv(w)' /\ RowsInv(w)'
      BY <1>0, <2>1, <2>3
      DEF files, Becomes, CallInv, BatchInv, RowsInv, Running, Phases
    <3>3. \A s \in Subjects : Learned(s)' <=> Learned(s)
      BY <2>1 DEF files, Learned, Influences
    <3>4. \A j \in Slices : \A s \in Retrained(w)[j] :
            /\ ShardOf[s] = c.shard /\ SliceOf[s] <= j
            /\ s \notin c.refs /\ Learned(s)'
      <4>1. Retrained(w) \in Booster
        BY <1>0, CallTypes, RebuiltBooster DEF Retrained
      <4>2. \A j \in Slices : Retrained(w)[j] \subseteq Subjects
        BY <4>1 DEF Booster
      <4> QED
        BY <1>0, <2>1, <2>3, <3>3, <4>2, RetrainedFacts
    <3>5. Uncut' => Retrained(w) = Boost(NoTrees, c.rows \ c.refs, 0)
      <4>1. Uncut => booster[c.shard] = Boost(NoTrees, shardFile[c.shard], 0)
        BY <1>0, <2>1, CallTypes DEF Solo, FreshUnlessWriting
      <4> QED
        BY <1>0, <2>1, <2>3, <4>1, RetrainedFacts
    <3>6. ModelInv(w)'
      BY <2>3, <3>4, <3>5 DEF Becomes, ModelInv, Rebuilt
    <3> QED
      BY <3>1, <3>2, <3>6 DEF Goal, CallInv
  <2> QED
    BY <1>0, <1>3, <2>2, <2>3, CallSteps
<1>4. CASE SaveShard(w)
  <2>1. /\ c.pc = "trained" /\ WriteShard(w, c.rows) /\ (Uncut' => Uncut)
        /\ torn' = torn \ {ShardFile(c.shard)}
        /\ UNCHANGED <<routing, booster, requested, issued>>
    BY <1>4 DEF SaveShard, Quiet, Uncut
  <2>2. Becomes(w, "purged", c.rows, c.tree, c.model)
    BY <1>0, <1>4, CallSteps
  <2>3. /\ FileInv' /\ shardFile'[c.shard] = c.rows
        /\ \A k \in Shards : k # c.shard => shardFile'[k] = shardFile[k]
    BY <1>0, <2>1, ShardWritten
  <2>4. FreshUnlessWriting'
    BY <1>0, <2>1, <2>2, <2>3 DEF Becomes, Solo, FreshUnlessWriting
  <2>5. BatchInv(w)' /\ RowsInv(w)'
    BY <1>0, <2>1, <2>2, <2>3 DEF Becomes, CallInv, BatchInv, RowsInv, Running, Phases
  <2>6. ModelInv(w)'
    BY <1>0, <2>1, <2>2 DEF Becomes, CallInv, ModelInv, Rebuilt, Learned, Influences
  <2> QED
    BY <1>f, <2>1, <2>3, <2>4, <2>5, <2>6 DEF Goal, CallInv
<1>5. CASE SaveBooster(w)
  <2>1. /\ c.pc = "purged" /\ WriteBooster(w, c.model) /\ (Uncut' => Uncut)
        /\ torn' = torn \ {BoosterFile(c.shard)}
        /\ UNCHANGED <<shardFile, routing, requested, issued>>
    BY <1>5 DEF SaveBooster, Quiet, Uncut
  <2>2. Becomes(w, "saved", c.rows, c.tree, c.model)
    BY <1>0, <1>5, CallSteps
  <2>3. /\ FileInv' /\ booster'[c.shard] = c.model
        /\ \A k \in Shards : k # c.shard => booster'[k] = booster[k]
    BY <1>0, <2>1, BoosterWritten
  <2>4. FreshUnlessWriting'
    <3>1. Uncut => booster'[c.shard] = Boost(NoTrees, shardFile[c.shard], 0)
      BY <1>0, <2>1, <2>3 DEF CallInv, RowsInv, ModelInv, Rebuilt
    <3>2. ASSUME Uncut, NEW k \in Shards, k # c.shard
          PROVE  booster[k] = Boost(NoTrees, shardFile[k], 0)
      BY <1>0, <3>2 DEF Solo, FreshUnlessWriting
    <3> QED
      BY <2>1, <2>3, <3>1, <3>2 DEF FreshUnlessWriting
  <2>5. BatchInv(w)' /\ RowsInv(w)'
    BY <1>0, <2>1, <2>2 DEF Becomes, CallInv, BatchInv, RowsInv, Running, Phases
  <2>6. ModelInv(w)'
    <3>1. /\ c.model \in Booster /\ c.shard \in Shards
      BY <1>0, CallTypes
    <3>2. \A j \in Slices : \A s \in c.model[j] :
            /\ ShardOf[s] = c.shard /\ SliceOf[s] <= j /\ s \notin c.refs
            /\ Learned(s)'
      BY <1>0, <2>1, <2>3, <3>1 DEF CallInv, ModelInv, Rebuilt, Learned, Influences
    <3>3. Uncut' => c.model = Boost(NoTrees, c.rows, 0)
      BY <1>0, <2>1 DEF CallInv, ModelInv, Rebuilt
    <3> QED
      BY <2>2, <2>3, <3>2, <3>3 DEF Becomes, ModelInv
  <2> QED
    BY <1>f, <2>1, <2>3, <2>4, <2>5, <2>6 DEF Goal, CallInv
<1>6. CASE CertifyBatch(w)
  <2>1. /\ UNCHANGED <<files, requested, issued>> /\ c.pc = "saved" /\ (Uncut' => Uncut)
    BY <1>6 DEF CertifyBatch, Quiet, Uncut
  <2>2. CASE Ends(w)
    BY <1>e, <2>1, <2>2
  <2>3. CASE Becomes(w, "certified", c.rows, c.tree \ c.refs, c.model)
    <3>1. FileInv' /\ FreshUnlessWriting' /\ FunctionOfRetainedData'
      BY <1>0, <1>f, <2>1, FilesKept, StaysFresh DEF files
    <3>2. BatchInv(w)' /\ RowsInv(w)'
      BY <1>0, <2>1, <2>3
      DEF files, Becomes, CallInv, BatchInv, RowsInv, Running, Phases
    <3>3. ModelInv(w)'
      BY <1>0, <2>1, <2>3
      DEF files, Becomes, CallInv, ModelInv, Rebuilt, Learned, Influences
    <3> QED
      BY <3>1, <3>2, <3>3 DEF Goal, CallInv
  <2> QED
    BY <1>0, <1>6, <2>2, <2>3, CallSteps
<1>7. CASE SaveRouting(w)
  <2>1. /\ c.pc = "certified" /\ WriteRouting(w, c.known \ c.refs)
        /\ torn' = torn \ {RoutingFile} /\ issued' = issued \cup ManifestsOf(c)
        /\ UNCHANGED <<shardFile, booster>> /\ (Uncut' => Uncut)
    BY <1>7 DEF SaveRouting, Uncut
  <2>2. Ends(w)
    BY <1>0, <1>7, CallSteps
  <2>3. FileInv' /\ FreshUnlessWriting'
    BY <1>0, <2>1, RoutingWritten, StaysFresh
  <2>4. CallInv(w)'
    BY <2>2, CallEnds
  <2>5. FunctionOfRetainedData'
    <3>1. Uncut => c.model = Boost(NoTrees, c.tree, 0)
      BY <1>0, <2>1 DEF LocalInv, CallInv, ModelInv, Rebuilt
    <3>2. Uncut => \A m \in ManifestsOf(c) : m.weights = Boost(NoTrees, m.root, 0)
      BY <3>1 DEF ManifestsOf
    <3> QED
      BY <1>0, <2>1, <3>2 DEF FunctionOfRetainedData, Uncut
  <2> QED
    BY <2>3, <2>4, <2>5 DEF Goal
<1>8. CASE EmptyMatrix(w) \/ PopTwice(w) \/ Return(w)
  <2>1. /\ UNCHANGED <<files, requested, issued>> /\ c.pc # "purged" /\ (Uncut' => Uncut)
    BY <1>8 DEF EmptyMatrix, PopTwice, Return, Quiet, Uncut
  <2> QED
    BY <1>0, <1>8, <1>e, <2>1, CallSteps
<1>9. CASE IOFault(w) \/ Crash(w) \/ CrashAfter(w)
  <2>1. Ends(w) /\ ~Uncut' /\ UNCHANGED <<requested, issued>>
    <3>1. crashes \in Nat /\ faults \in Nat
      BY <1>0, GbdtBounds DEF TypeOK
    <3>2. Fault(w) \/ Die(w)
      BY <1>9 DEF IOFault, Crash, CrashAfter
    <3>3. ~Uncut'
      BY <3>1, <3>2 DEF Fault, Die, Uncut
    <3> QED
      BY <1>0, <1>9, <3>2, <3>3, CallSteps DEF IOFault, Crash, CrashAfter, Interrupted
  <2>2. FileInv'
    <3>1. CASE UNCHANGED files
      BY <1>0, <2>1, <3>1, FilesKept
    <3>2. CASE TornWrite(w)
      <4>1. c.pc = "trained" => \A part \in SUBSET c.rows :
                 /\ WriteShard(w, part) /\ torn' = torn \cup {ShardFile(c.shard)}
                 /\ UNCHANGED <<routing, booster>>
                 => FileInv'
        BY <1>0, <2>1, ShardWritten
      <4>2. c.pc = "purged" => \A part \in {NoTrees, c.model} :
                 /\ WriteBooster(w, part) /\ torn' = torn \cup {BoosterFile(c.shard)}
                 /\ UNCHANGED <<shardFile, routing>>
                 => FileInv'
        BY <1>0, <2>1, BoosterWritten
      <4>3. c.pc = "certified" => \A part \in SUBSET (c.known \ c.refs) :
                 /\ WriteRouting(w, part) /\ torn' = torn \cup {RoutingFile}
                 /\ UNCHANGED <<shardFile, booster>>
                 => FileInv'
        BY <1>0, <2>1, RoutingWritten
      <4> QED
        BY <3>2, <4>1, <4>2, <4>3 DEF TornWrite
    <3> QED
      BY <1>9, <3>1, <3>2 DEF IOFault, Crash, CrashAfter, Interrupted, files
  <2>3. CallInv(w)'
    BY <1>0, <2>1, CallEnds
  <2> QED
    BY <2>1, <2>2, <2>3 DEF Goal, FreshUnlessWriting, FunctionOfRetainedData, Uncut
<1> QED
  BY <1>1, <1>2, <1>3, <1>4, <1>5, <1>6, <1>7, <1>8, <1>9 DEF Rebuild

LEMMA Invariance == ASSUME Solo PROVE Spec => []IndInv
<1>1. IndInv /\ [Next]_vars => IndInv'
  BY IndStep
<1> QED
  BY IndInit, <1>1, PTL DEF Spec

-----------------------------------------------------------------------------
(* Safety theorems *)

\* With one worker, a subject whose manifest rebuild_batch_by_ref returned, or that
\* a readable routing.json no longer lists, has left every shard file and shaped
\* no tree of any booster, through any crashes, exceptions and torn writes.
THEOREM TreesForget == ASSUME Solo PROVE Spec => []Forgotten
<1>1. IndInv => Forgotten
  BY DEF IndInv, FileInv
<1> QED
  BY Invariance, <1>1, PTL

\* With one worker and nothing cut short, the booster a rebuild returns is the
\* one a fresh training run over the retained rows would return, although
\* rollback_booster keeps the trees before min_slice and refused batches may have
\* rewritten the files.
THEOREM RebuildIsRetraining == ASSUME Solo PROVE Spec => []FunctionOfRetainedData
<1>1. IndInv => FunctionOfRetainedData
  BY DEF IndInv
<1> QED
  BY Invariance, <1>1, PTL

-----------------------------------------------------------------------------
(* The tree engine implements the contract *)

rowsBar == UNION {shardFile[k] : k \in Shards}
learnedBar == {s \in Subjects : Learned(s)}
damagedBar == {s \in Subjects : Damaged(s)}
erasedBar == {s \in Subjects : Reported(s)}
shardBar == {{s \in Subjects : ShardOf[s] = k} : k \in Shards}

LEMMA RowsAreLearned ==
  ASSUME TypeOK, FileInv
  PROVE  rowsBar \ damagedBar \subseteq learnedBar
<1> SUFFICES ASSUME NEW k \in Shards, NEW s \in shardFile[k], s \notin damagedBar
             PROVE  s \in learnedBar
  BY DEF rowsBar
<1>1. s \in Subjects /\ ShardOf[s] = k
  BY DEF TypeOK, FileInv, Placement
<1>2. BoosterFile(k) \notin torn
  BY <1>1 DEF damagedBar, Damaged
<1>3. s \in booster[k][Last]
  BY <1>2 DEF FileInv, BoosterCoversRows
<1> QED
  BY <1>1, <1>3, SliceFacts DEF learnedBar, Learned, Influences

LEMMA RowsAreLearnedLater ==
  ASSUME TypeOK', FileInv'
  PROVE  rowsBar' \ damagedBar' \subseteq learnedBar'
<1> SUFFICES ASSUME NEW k \in Shards, NEW s \in shardFile'[k], s \notin damagedBar'
             PROVE  s \in learnedBar'
  BY DEF rowsBar
<1>1. s \in Subjects /\ ShardOf[s] = k
  BY DEF TypeOK, FileInv, Placement
<1>2. BoosterFile(k) \notin torn'
  BY <1>1 DEF damagedBar, Damaged
<1>3. s \in booster'[k][Last]
  BY <1>2 DEF FileInv, BoosterCoversRows
<1> QED
  BY <1>1, <1>3, SliceFacts DEF learnedBar, Learned, Influences

\* The subjects of one shard are those its own files can damage.
LEMMA OneShardDamaged ==
  ASSUME NEW k \in Shards, NEW f \in {ShardFile(k), BoosterFile(k)}, torn' = torn \cup {f}
  PROVE  damagedBar' = damagedBar \cup {s \in Subjects : ShardOf[s] = k}
<1>1. \A s \in Subjects : ShardOf[s] = k => Damaged(s)'
  BY DEF Damaged
<1>2. \A l \in Shards : l # k =>
        /\ ShardFile(l) \in torn' <=> ShardFile(l) \in torn
        /\ BoosterFile(l) \in torn' <=> BoosterFile(l) \in torn
  BY NamesDiffer
<1>3. \A s \in Subjects : ShardOf[s] # k => (Damaged(s)' <=> Damaged(s))
  BY <1>2, GbdtAssignment DEF Damaged
<1> QED
  BY <1>1, <1>3 DEF damagedBar

\* A complete save_shard is a DropRows of the contract.
LEMMA PurgeRefines ==
  ASSUME TypeOK, FileInv, NEW w \in Workers, CallInv(w), call[w].pc = "trained",
         WriteShard(w, call[w].rows), torn' = torn \ {ShardFile(call[w].shard)},
         UNCHANGED <<routing, booster, requested, issued>>
  PROVE  \E R \in SUBSET requested : Contract!DropRows(R)
<1> DEFINE c == call[w]
<1>1. \A k \in Shards : shardFile'[k] = shardFile[k] \ c.refs
  BY ShardWritten
<1>2. rowsBar' = rowsBar \ c.refs
  BY <1>1 DEF rowsBar
<1>3. torn' = torn /\ c.refs \subseteq requested
  BY CallTypes DEF CallInv, BatchInv, RowsInv, Running, Phases
<1>4. learnedBar' = learnedBar /\ erasedBar' = erasedBar /\ damagedBar' = damagedBar
  BY <1>3 DEF learnedBar, erasedBar, damagedBar, Learned, Influences, Reported, Damaged
<1>5. PICK R \in SUBSET requested : R = c.refs
  BY <1>3
<1>6. Contract!DropRows(R)
  BY <1>2, <1>4, <1>5
  DEF Contract!DropRows, rowsBar, learnedBar, erasedBar, damagedBar
<1> QED
  BY <1>6

\* A torn save_shard is a Damage of the contract.
LEMMA TornPurgeRefines ==
  ASSUME TypeOK, FileInv, NEW w \in Workers, CallInv(w), call[w].pc = "trained",
         NEW part \in SUBSET call[w].rows, WriteShard(w, part),
         torn' = torn \cup {ShardFile(call[w].shard)},
         UNCHANGED <<routing, booster, requested, issued>>
  PROVE  \E D \in shardBar : Contract!Damage(D)
<1> DEFINE c == call[w]
           hit == {s \in Subjects : ShardOf[s] = c.shard}
<1>1. /\ c.shard \in Shards
      /\ shardFile'[c.shard] = part /\ part \subseteq shardFile[c.shard]
      /\ \A k \in Shards : k # c.shard => shardFile'[k] = shardFile[k]
  BY CallTypes, ShardWritten
<1>2. rowsBar' \in SUBSET rowsBar
  BY <1>1 DEF rowsBar
<1>3. rowsBar \ hit \subseteq rowsBar'
  <2> SUFFICES ASSUME NEW k \in Shards, NEW s \in shardFile[k], s \notin hit
               PROVE  s \in rowsBar'
    BY DEF rowsBar
  <2>1. k # c.shard
    BY DEF TypeOK, FileInv, Placement
  <2> QED
    BY <1>1, <2>1 DEF rowsBar
<1>4. learnedBar' = learnedBar /\ erasedBar' = erasedBar
  BY DEF learnedBar, erasedBar, Learned, Influences, Reported
<1>5. damagedBar' = damagedBar \cup hit
  BY <1>1, OneShardDamaged
<1> HIDE DEF hit
<1>6. rowsBar \ damagedBar' \subseteq learnedBar'
  BY <1>4, <1>5, RowsAreLearned
<1>7. learnedBar' \in SUBSET (learnedBar \cup rowsBar)
  BY <1>4
<1>8. PICK D \in shardBar : D = hit
  BY <1>1 DEF hit, shardBar
<1>9. Contract!Damage(D)
  BY <1>2, <1>3, <1>4, <1>5, <1>6, <1>7, <1>8
  DEF Contract!Damage, rowsBar, learnedBar, damagedBar, erasedBar
<1> QED
  BY <1>9

\* What save_booster writes brings nobody's influence back, and touches neither
\* rows nor manifests.
LEMMA BoosterInfluence ==
  ASSUME TypeOK, FileInv, FileInv', TypeOK',
         \A s \in Subjects : Learned(s)' => Learned(s),
         UNCHANGED <<shardFile, issued>>
  PROVE  /\ learnedBar' \in SUBSET (learnedBar \cup rowsBar)
         /\ rowsBar' = rowsBar /\ erasedBar' = erasedBar
         /\ rowsBar \ damagedBar' \subseteq learnedBar'
<1>1. learnedBar' \in SUBSET (learnedBar \cup rowsBar)
  BY DEF learnedBar
<1>2. rowsBar' = rowsBar /\ erasedBar' = erasedBar
  BY DEF rowsBar, erasedBar, Reported
<1> QED
  BY <1>1, <1>2, RowsAreLearnedLater

\* A complete save_booster is a Retrain of the contract, a torn one a Damage.
LEMMA BoosterRefines ==
  ASSUME TypeOK, FileInv, TypeOK', NEW w \in Workers, LocalInv(w), CallInv(w),
         call[w].pc = "purged",
         NEW part \in {NoTrees, call[w].model}, WriteBooster(w, part),
         \/ /\ part = call[w].model
            /\ torn' = torn \ {BoosterFile(call[w].shard)}
         \/ torn' = torn \cup {BoosterFile(call[w].shard)},
         UNCHANGED <<shardFile, routing, requested, issued>>
  PROVE  Contract!Retrain \/ \E D \in shardBar : Contract!Damage(D)
<1> DEFINE c == call[w]
           hit == {s \in Subjects : ShardOf[s] = c.shard}
<1>1. FileInv' /\ c.shard \in Shards /\ \A s \in Subjects : Learned(s)' => Learned(s)
  BY BoosterWritten, CallTypes
<1>2. /\ learnedBar' \in SUBSET (learnedBar \cup rowsBar)
      /\ rowsBar' = rowsBar /\ erasedBar' = erasedBar
      /\ rowsBar \ damagedBar' \subseteq learnedBar'
  BY <1>1, BoosterInfluence
<1>3. CASE torn' = torn \ {BoosterFile(c.shard)}
  <2>1. damagedBar' \in SUBSET damagedBar
    BY <1>3 DEF damagedBar, Damaged
  <2> QED
    BY <1>2, <2>1 DEF Contract!Retrain, rowsBar, learnedBar, damagedBar, erasedBar
<1>4. CASE torn' = torn \cup {BoosterFile(c.shard)}
  <2>1. damagedBar' = damagedBar \cup hit
    BY <1>1, <1>4, OneShardDamaged
  <2> HIDE DEF hit
  <2>2. PICK D \in shardBar : D = hit
    BY <1>1 DEF hit, shardBar
  <2>3. Contract!Damage(D)
    BY <1>2, <2>1, <2>2
    DEF Contract!Damage, rowsBar, learnedBar, damagedBar, erasedBar
  <2> QED
    BY <2>3
<1> QED
  BY <1>3, <1>4

\* A complete save_routing, with the manifests returned, is a StrikeOff.
LEMMA StrikeOffRefines ==
  ASSUME TypeOK, FileInv, NEW w \in Workers, LocalInv(w), CallInv(w),
         call[w].pc = "certified",
         torn' = torn \ {RoutingFile}, issued' = issued \cup ManifestsOf(call[w]),
         UNCHANGED <<shardFile, booster, requested>>
  PROVE  \E R \in SUBSET requested : Contract!StrikeOff(R)
<1> DEFINE c == call[w]
<1>1. c.refs \in SUBSET Subjects /\ c.refs \subseteq requested
  BY CallTypes DEF CallInv, BatchInv
<1>2. \A s \in c.refs : s \notin rowsBar /\ s \notin learnedBar
  BY BatchHasNoTrace DEF rowsBar, learnedBar
<1>3. rowsBar' = rowsBar /\ learnedBar' = learnedBar
  BY DEF rowsBar, learnedBar, Learned, Influences
<1>4. damagedBar' = damagedBar
  BY NamesDiffer, GbdtAssignment DEF damagedBar, Damaged
<1>5. erasedBar' = erasedBar \cup c.refs
  <2>1. \A s \in Subjects : s \in c.refs <=> \E m \in ManifestsOf(c) : m.subject = s
    <3> DEFINE m(r) == [subject |-> r, shard |-> c.shard, from |-> c.from,
                        root |-> c.tree, weights |-> c.model]
    <3>1. ManifestsOf(c) = {m(r) : r \in c.refs}
      BY DEF ManifestsOf
    <3>2. \A r : m(r).subject = r
      OBVIOUS
    <3> HIDE DEF m
    <3> QED
      BY <3>1, <3>2
  <2>2. \A s \in Subjects : Reported(s)' <=> Reported(s) \/ s \in c.refs
    BY <2>1 DEF Reported
  <2> QED
    BY <1>1, <2>2 DEF erasedBar
<1>6. Contract!StrikeOff(c.refs)
  BY <1>2, <1>3, <1>4, <1>5
  DEF Contract!StrikeOff, rowsBar, learnedBar, damagedBar, erasedBar
<1> QED
  BY <1>1, <1>6

LEMMA ContractInit == Init => Contract!Init
<1> SUFFICES ASSUME Init PROVE Contract!Init
  OBVIOUS
<1>1. TypeOK /\ FileInv
  BY IndInit DEF IndInv, RootInv
<1>2. \A s \in Subjects : ShardOf[s] \in Shards /\ s \in shardFile[ShardOf[s]]
  BY GbdtAssignment DEF Init
<1>3. rowsBar = Subjects
  BY <1>1, <1>2 DEF TypeOK, rowsBar
<1>4. erasedBar = {} /\ damagedBar = {} /\ requested = {}
  BY DEF Init, erasedBar, damagedBar, Reported, Damaged
<1>5. learnedBar = Subjects
  BY <1>1, <1>3, <1>4, RowsAreLearned DEF learnedBar
<1> QED
  BY <1>3, <1>4, <1>5 DEF Contract!Init, rowsBar, learnedBar, damagedBar, erasedBar

LEMMA ContractStep ==
  ASSUME Solo, IndInv, [Next]_vars
  PROVE  [Contract!Next]_(Contract!vars)
<1> DEFINE Goal == [Contract!Next]_(Contract!vars)
<1> SUFFICES Goal
  OBVIOUS
<1>i. IndInv'
  BY IndStep
<1>0. /\ TypeOK /\ TypeOK' /\ FileInv
      /\ \A v \in Workers : LocalInv(v) /\ CallInv(v)
  BY <1>i DEF IndInv, RootInv
<1>1. (\E R \in SUBSET Subjects : Contract!Request(R)) => Goal
  BY DEF Contract!Next
<1>2. Contract!Retrain \/ (\E D \in shardBar : Contract!Damage(D)) => Goal
  BY DEF Contract!Next, shardBar
<1>3. (\E R \in SUBSET requested : Contract!DropRows(R)) => Goal
  BY DEF Contract!Next
<1>4. (\E R \in SUBSET requested : Contract!StrikeOff(R)) => Goal
  BY DEF Contract!Next
<1>5. ASSUME UNCHANGED <<shardFile, booster, issued>>,
             torn' = torn \/ torn' = torn \cup {RoutingFile}
      PROVE  /\ rowsBar' = rowsBar /\ learnedBar' = learnedBar
             /\ damagedBar' = damagedBar /\ erasedBar' = erasedBar
  <2>1. rowsBar' = rowsBar /\ learnedBar' = learnedBar /\ erasedBar' = erasedBar
    BY <1>5 DEF rowsBar, learnedBar, erasedBar, Learned, Influences, Reported
  <2>2. \A s \in Subjects : Damaged(s)' <=> Damaged(s)
    BY <1>5, NamesDiffer, GbdtAssignment DEF Damaged
  <2> QED
    BY <2>1, <2>2 DEF damagedBar
<1>6. ASSUME UNCHANGED <<shardFile, booster, issued, requested>>,
             torn' = torn \/ torn' = torn \cup {RoutingFile}
      PROVE  Goal
  BY <1>5, <1>6 DEF Contract!vars, rowsBar, learnedBar, damagedBar, erasedBar
<1> HIDE DEF Goal
<1>s. CASE UNCHANGED vars
  BY <1>s, <1>6 DEF vars, files
<1>n. CASE Next
  <2> PICK w \in Workers :
        \/ \E R \in (SUBSET Subjects) \ {{}}, dup \in BOOLEAN : BeginRebuild(w, R, dup)
        \/ Rebuild(w) \/ IOFault(w) \/ Crash(w) \/ CrashAfter(w)
    BY <1>n DEF Next
  <2>1. ASSUME NEW R \in (SUBSET Subjects) \ {{}}, NEW dup \in BOOLEAN, BeginRebuild(w, R, dup)
        PROVE  Goal
    <3>1. UNCHANGED <<shardFile, booster, issued, torn>> /\ requested' = requested \cup R
      BY <2>1 DEF BeginRebuild, files
    <3>2. Contract!Request(R)
      BY <1>5, <3>1 DEF Contract!Request, rowsBar, learnedBar, damagedBar, erasedBar
    <3> QED
      BY <1>1, <3>2
  <2>2. CASE \/ LoadShard(w) \/ RebuildBooster(w) \/ EmptyMatrix(w)
             \/ CertifyBatch(w) \/ PopTwice(w) \/ Return(w) \/ CrashAfter(w)
    <3>1. UNCHANGED <<files, issued, requested>>
      BY <2>2 DEF LoadShard, RebuildBooster, EmptyMatrix, CertifyBatch,
                  PopTwice, Return, CrashAfter, Quiet
    <3> QED
      BY <3>1, <1>6 DEF files
  <2>3. CASE SaveShard(w)
    BY <2>3, <1>0, <1>3, PurgeRefines DEF SaveShard, Quiet
  <2>4. CASE SaveBooster(w)
    BY <2>4, <1>0, <1>2, BoosterRefines DEF SaveBooster, Quiet
  <2>5. CASE SaveRouting(w)
    BY <2>5, <1>0, <1>4, StrikeOffRefines DEF SaveRouting
  <2>6. CASE Interrupted(w)
    <3>0. UNCHANGED <<requested, issued>>
      BY <2>6 DEF Interrupted
    <3>1. CASE UNCHANGED files
      BY <3>0, <3>1, <1>6 DEF files
    <3>2. ASSUME call[w].pc = "trained", NEW part \in SUBSET call[w].rows,
                 WriteShard(w, part), torn' = torn \cup {ShardFile(call[w].shard)},
                 UNCHANGED <<routing, booster>>
          PROVE  Goal
      BY <3>0, <3>2, <1>0, <1>2, TornPurgeRefines
    <3>3. ASSUME call[w].pc = "purged", NEW part \in {NoTrees, call[w].model},
                 WriteBooster(w, part), torn' = torn \cup {BoosterFile(call[w].shard)},
                 UNCHANGED <<shardFile, routing>>
          PROVE  Goal
      BY <3>0, <3>3, <1>0, <1>2, BoosterRefines
    <3>4. ASSUME torn' = torn \cup {RoutingFile}, UNCHANGED <<shardFile, booster>>
          PROVE  Goal
      BY <3>0, <3>4, <1>6
    <3>5. CASE TornWrite(w)
      BY <3>2, <3>3, <3>4, <3>5 DEF TornWrite
    <3> QED
      BY <2>6, <3>1, <3>5 DEF Interrupted
  <2> QED
    BY <2>1, <2>2, <2>3, <2>4, <2>5, <2>6 DEF Rebuild, IOFault, Crash
<1> QED
  BY <1>s, <1>n DEF Goal

\* With one worker, every behaviour of the tree engine is a behaviour of the
\* contract the MLP engine keeps too: rows leave on request only, but for a write
\* cut short, which costs at most one shard; what is left is learned; and only who
\* left no trace is reported erased.
THEOREM TreesKeepContract == ASSUME Solo PROVE Spec => KeepsContract
<1>1. IndInv /\ [Next]_vars => [Contract!Next]_(Contract!vars)
  BY ContractStep
<1> QED
  BY ContractInit, Invariance, <1>1, PTL DEF Spec, KeepsContract, Contract!Spec

=============================================================================
