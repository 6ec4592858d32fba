-------------------------- MODULE SisaEngineProofs --------------------------
(***************************************************************************)
(* Proofs about SisaEngine with one worker process, the deployment that    *)
(* docker-compose.yml ships, for any subjects, shards, slices, number of   *)
(* crashes and number of I/O exceptions.                                   *)
(***************************************************************************)
EXTENDS SisaEngine, TLAPS

\* At most one worker process.
Solo == \A v, w \in Workers : v = w

-----------------------------------------------------------------------------
(* Type correctness, for any number of workers *)

\* The training loop is inside its range whenever it has a slice to train.
CursorOK == \A w \in Workers : call[w].pc = "training" => call[w].cur \in Slices

LEMMA SliceFacts ==
  /\ Last \in Slices /\ 0 \in Slices
  /\ \A i \in Slices : i \in Int /\ 0 <= i /\ i <= Last
  /\ \A i \in Slices : i \in 0 .. NUM_SLICES /\ i + 1 \in 0 .. NUM_SLICES
  /\ \A i \in Slices : i # Last => i + 1 \in Slices
  /\ \A i \in Slices : i > 0 => i - 1 \in Slices
BY SliceCount DEF Slices, Last

LEMMA FreshModelType == FreshModel \in Weights
BY SliceFacts DEF FreshModel, NoStep, Weights, Step

LEMMA CleanModelType ==
  ASSUME NEW rows \in SUBSET Subjects, NEW i \in Slices
  PROVE  CleanModel(rows, i) \in Weights
BY SliceFacts DEF CleanModel, NoStep, Weights, Step, RowsUpTo

LEMMA TrainStepType ==
  ASSUME NEW m \in Weights, NEW rows \in SUBSET Subjects,
         NEW i \in Slices, NEW from \in Slices
  PROVE  TrainStep(m, rows, i, from) \in Weights
BY DEF TrainStep, Weights, Step, RowsUpTo

LEMMA IdleType == Idle \in Call
<1>1. AnyShard \in Shards
  BY SomeShard DEF AnyShard
<1>2. 0 \in Slices /\ 0 \in 0 .. NUM_SLICES
  BY SliceFacts, SliceCount
<1> QED
  BY <1>1, <1>2, FreshModelType DEF Idle, Call, Phases

LEMMA TypeInit == Init => TypeOK /\ CursorOK
<1> SUFFICES ASSUME Init PROVE TypeOK /\ CursorOK
  OBVIOUS
<1>1. shardFile \in [Shards -> SUBSET Subjects]
  BY DEF Init
<1>2. ckpt \in [Shards -> [Slices -> Weights]]
  BY <1>1, CleanModelType DEF Init
<1>3. call \in [Workers -> Call] /\ CursorOK
  BY IdleType DEF Init, CursorOK, Idle
<1>4. preproc \in [Shards -> SUBSET Subjects]
  BY <1>1 DEF Init, SliceZero
<1>5. crashes \in 0 .. MaxCrashes /\ faults \in 0 .. MaxFaults
  BY Bounds DEF Init
<1>6. /\ routing \in SUBSET Subjects /\ torn \in SUBSET Files
      /\ requested \in SUBSET Subjects /\ issued \in SUBSET Manifest
      /\ treeCache \in [Workers -> [Shards -> SUBSET SUBSET Subjects]]
  BY DEF Init
<1> QED
  BY <1>1, <1>2, <1>3, <1>4, <1>5, <1>6 DEF TypeOK

LEMMA SetPcType ==
  ASSUME NEW w \in Workers, call \in [Workers -> Call], CursorOK,
         NEW p \in Phases \ {"training"}, call' = [call EXCEPT ![w].pc = p]
  PROVE  call' \in [Workers -> Call] /\ CursorOK'
BY DEF Call, CursorOK

\* A call without locals, in a phase of its own.
LEMMA EndedType ==
  ASSUME NEW p \in {"returned", "raised"}
  PROVE  /\ [Idle EXCEPT !.pc = p] \in Call
         /\ [Idle EXCEPT !.pc = p].pc = p /\ [Idle EXCEPT !.pc = p].refs = {}
<1>1. Idle.refs = {}
  BY DEF Idle
<1> QED
  BY <1>1, IdleType DEF Call, Phases

LEMMA SetCallType ==
  ASSUME NEW w \in Workers, call \in [Workers -> Call], CursorOK,
         NEW c \in Call, c.pc = "training" => c.cur \in Slices,
         call' = [call EXCEPT ![w] = c]
  PROVE  call' \in [Workers -> Call] /\ CursorOK'
BY DEF CursorOK

LEMMA RaiseType ==
  ASSUME NEW w \in Workers, call \in [Workers -> Call], CursorOK, Raise(w)
  PROVE  call' \in [Workers -> Call] /\ CursorOK'
<1> DEFINE c == [Idle EXCEPT !.pc = "raised"]
<1>1. c \in Call /\ c.pc = "raised"
  BY EndedType
<1> HIDE DEF c
<1>2. call' = [call EXCEPT ![w] = c]
  BY DEF Raise, c
<1> QED
  BY <1>1, <1>2, SetCallType

\* Whatever part of it arrives, a write leaves a file of the right shape.
LEMMA WriteTypes ==
  ASSUME TypeOK, CursorOK, NEW w \in Workers
  PROVE  /\ \A part \in SUBSET call[w].rows :
              WriteShard(w, part) => shardFile' \in [Shards -> SUBSET Subjects]
         /\ \A part \in SUBSET SliceZero(call[w].rows) :
              WritePreproc(w, part) => preproc' \in [Shards -> SUBSET Subjects]
         /\ \A part \in {FreshModel, NextModel(call[w])} :
              call[w].pc = "training" /\ WriteCkpt(w, part)
                => ckpt' \in [Shards -> [Slices -> Weights]]
         /\ \A part \in SUBSET (call[w].known \ call[w].refs) :
              WriteRouting(w, part) => routing' \in SUBSET Subjects
<1>1. call[w] \in Call /\ call[w].shard \in Shards /\ call[w].rows \in SUBSET Subjects
      /\ call[w].known \in SUBSET Subjects
  BY DEF TypeOK, Call
<1>2. ASSUME NEW part \in SUBSET call[w].rows, WriteShard(w, part)
      PROVE  shardFile' \in [Shards -> SUBSET Subjects]
  BY <1>1, <1>2 DEF TypeOK, WriteShard
<1>3. ASSUME NEW part \in SUBSET SliceZero(call[w].rows), WritePreproc(w, part)
      PROVE  preproc' \in [Shards -> SUBSET Subjects]
  BY <1>1, <1>3 DEF TypeOK, WritePreproc, SliceZero
<1>4. ASSUME call[w].pc = "training", NEW part \in {FreshModel, NextModel(call[w])},
             WriteCkpt(w, part)
      PROVE  ckpt' \in [Shards -> [Slices -> Weights]]
  <2>1. NextModel(call[w]) \in Weights
    BY <1>1, <1>4, TrainStepType DEF NextModel, Call, CursorOK
  <2>2. part \in Weights
    BY <2>1, FreshModelType
  <2> QED
    BY <1>1, <1>4, <2>2 DEF TypeOK, WriteCkpt
<1>5. \A part \in SUBSET (call[w].known \ call[w].refs) :
        WriteRouting(w, part) => routing' \in SUBSET Subjects
  BY <1>1 DEF WriteRouting
<1> QED
  BY <1>2, <1>3, <1>4, <1>5

LEMMA FileNames ==
  \A k \in Shards, i \in Slices :
    /\ RoutingFile \in Files /\ ShardFile(k) \in Files
    /\ PreprocFile(k) \in Files /\ CkptFile(k, i) \in Files
BY DEF Files

\* Different files have different names.
LEMMA NamesDiffer ==
  \A k, l \in Shards, i, j \in Slices :
    /\ RoutingFile \notin {ShardFile(k), PreprocFile(k), CkptFile(k, i)}
    /\ ShardFile(k) \notin {PreprocFile(l), CkptFile(l, i)}
    /\ PreprocFile(k) # CkptFile(l, i)
    /\ ShardFile(k) = ShardFile(l) => k = l
    /\ CkptFile(k, i) = CkptFile(l, j) => k = l /\ i = j
<1> TAKE k, l \in Shards, i, j \in Slices
<1>1. RoutingFile[1] = "routing" /\ ShardFile(k)[1] = "shard"
      /\ PreprocFile(k)[1] = "preproc" /\ PreprocFile(l)[1] = "preproc"
      /\ CkptFile(k, i)[1] = "ckpt" /\ CkptFile(l, i)[1] = "ckpt"
  BY DEF RoutingFile, ShardFile, PreprocFile, CkptFile
<1>2. /\ RoutingFile \notin {ShardFile(k), PreprocFile(k), CkptFile(k, i)}
      /\ ShardFile(k) \notin {PreprocFile(l), CkptFile(l, i)}
      /\ PreprocFile(k) # CkptFile(l, i)
  BY <1>1
<1>3. ShardFile(k) = ShardFile(l) => k = l
  BY DEF ShardFile
<1>4. CkptFile(k, i) = CkptFile(l, j) => k = l /\ i = j
  BY DEF CkptFile
<1> QED
  BY <1>2, <1>3, <1>4

\* Every action keeps the types.
LEMMA TypeStep ==
  ASSUME TypeOK, CursorOK, [Next]_vars
  PROVE  TypeOK' /\ CursorOK'
<1>0. CASE UNCHANGED vars
  BY <1>0 DEF vars, files, TypeOK, CursorOK
<1> SUFFICES ASSUME Next PROVE TypeOK' /\ CursorOK'
  BY <1>0
<1> PICK w \in Workers :
      \/ \E R \in (SUBSET Subjects) \ {{}} : BeginRebuild(w, R)
      \/ Rebuild(w) \/ IOFault(w) \/ Crash(w) \/ CrashAfter(w)
  BY DEF Next
<1>c. /\ call \in [Workers -> Call] /\ call[w] \in Call
      /\ call[w].shard \in Shards /\ call[w].from \in Slices
      /\ call[w].refs \in SUBSET Subjects /\ call[w].rows \in SUBSET Subjects
      /\ call[w].tree \in SUBSET Subjects /\ call[w].model \in Weights
  BY DEF TypeOK, Call
<1>1. ASSUME NEW R \in (SUBSET Subjects) \ {{}}, BeginRebuild(w, R)
      PROVE  TypeOK' /\ CursorOK'
  <2>1. call' \in [Workers -> Call] /\ CursorOK'
    <3>1. ASSUME NEW k \in Shards, NEW f \in Slices
          PROVE  [Idle EXCEPT !.pc = "loaded", !.refs = R,
                              !.known = routing, !.shard = k, !.from = f]
                   \in {c \in Call : c.pc = "loaded"}
      BY IdleType DEF TypeOK, Call, Phases
    <3>2. CASE Raise(w)
      BY <1>c, <3>2, RaiseType DEF TypeOK
    <3>3. CASE ~Raise(w)
      BY <1>1, <1>c, <3>1, <3>3, SetCallType DEF BeginRebuild
    <3> QED
      BY <3>2, <3>3
  <2> QED
    BY <1>1, <2>1 DEF BeginRebuild, files, TypeOK
<1>2. ASSUME NEW dup \in BOOLEAN, LoadShard(w, dup) PROVE TypeOK' /\ CursorOK'
  <2>1. TreeForShard(treeCache[w][call[w].shard], shardFile[call[w].shard])
          \in SUBSET Subjects
    BY <1>c DEF TypeOK, TreeForShard
  <2>2. [call[w] EXCEPT !.pc = "purged",
                        !.rows = Purge(shardFile[call[w].shard], call[w].refs),
                        !.tree = TreeForShard(treeCache[w][call[w].shard],
                                              shardFile[call[w].shard])]
          \in {c \in Call : c.pc = "purged"}
    BY <1>c, <2>1 DEF TypeOK, Call, Phases, Purge
  <2>3. call' \in [Workers -> Call] /\ CursorOK'
    BY <1>2, <1>c, <2>2, SetCallType, RaiseType DEF LoadShard
  <2> QED
    BY <1>2, <2>3 DEF LoadShard, files, TypeOK
<1>3. CASE SaveShard(w)
  <2>1. call' \in [Workers -> Call] /\ CursorOK'
    BY <1>3, <1>c, SetPcType DEF SaveShard, Phases
  <2>2. shardFile' \in [Shards -> SUBSET Subjects]
    BY <1>3, WriteTypes DEF SaveShard
  <2> QED
    BY <1>3, <2>1, <2>2 DEF SaveShard, TypeOK
<1>4. CASE StartTraining(w)
  <2>1. ResumeState(call[w].shard, call[w].from) \in Weights
    BY <1>c, SliceFacts, FreshModelType DEF ResumeState, TypeOK
  <2>2. call[w].from \in 0 .. NUM_SLICES
    BY <1>c, SliceFacts
  <2>3. [call[w] EXCEPT !.pc = "training", !.cur = call[w].from,
                        !.model = ResumeState(call[w].shard, call[w].from)]
          \in {c \in Call : c.pc = "training" /\ c.cur \in Slices}
    BY <1>c, <2>1, <2>2 DEF Call, Phases
  <2>4. call' \in [Workers -> Call] /\ CursorOK'
    BY <1>4, <1>c, <2>3, SetCallType, RaiseType DEF StartTraining
  <2>5. preproc' \in [Shards -> SUBSET Subjects] /\ torn' \in SUBSET Files
    BY <1>4, <1>c, WriteTypes DEF StartTraining, TypeOK
  <2> QED
    BY <1>4, <2>4, <2>5 DEF StartTraining, TypeOK
<1>5. CASE TrainSlice(w)
  <2>1. call[w].cur \in Slices /\ NextModel(call[w]) \in Weights
    BY <1>5, <1>c, TrainStepType DEF TrainSlice, CursorOK, NextModel
  <2>2. [call[w] EXCEPT !.pc = AfterSlice(call[w].cur),
                        !.model = NextModel(call[w]), !.cur = call[w].cur + 1]
          \in {c \in Call : c.pc = "training" => c.cur \in Slices}
    <3>1. CASE call[w].cur = Last
      BY <3>1, <1>c, <2>1, SliceFacts DEF Call, Phases, AfterSlice
    <3>2. CASE call[w].cur # Last
      BY <3>2, <1>c, <2>1, SliceFacts DEF Call, Phases, AfterSlice
    <3> QED
      BY <3>1, <3>2
  <2>3. call' \in [Workers -> Call] /\ CursorOK'
    BY <1>5, <1>c, <2>2, SetCallType DEF TrainSlice
  <2>4. ckpt' \in [Shards -> [Slices -> Weights]]
    BY <1>5, WriteTypes DEF TrainSlice
  <2> QED
    BY <1>5, <2>3, <2>4 DEF TrainSlice, TypeOK
<1>6. CASE CertifyBatch(w)
  <2>1. [call[w] EXCEPT !.pc = "certified", !.tree = call[w].tree \ call[w].refs]
          \in {c \in Call : c.pc = "certified"}
    BY <1>c DEF Call, Phases
  <2>2. call' \in [Workers -> Call] /\ CursorOK'
    BY <1>6, <1>c, <2>1, SetCallType, RaiseType DEF CertifyBatch
  <2>3. treeCache' \in [Workers -> [Shards -> SUBSET SUBSET Subjects]]
    BY <1>6, <1>c DEF CertifyBatch, TypeOK
  <2> QED
    BY <1>6, <2>2, <2>3 DEF CertifyBatch, files, TypeOK
<1>7. CASE SaveRouting(w)
  <2>1. call' \in [Workers -> Call] /\ CursorOK'
    <3> DEFINE d == [Idle EXCEPT !.pc = "returned"]
    <3>1. d \in Call /\ d.pc = "returned"
      BY EndedType
    <3> HIDE DEF d
    <3>2. call' = [call EXCEPT ![w] = d]
      BY <1>7 DEF SaveRouting, d
    <3> QED
      BY <1>c, <3>1, <3>2, SetCallType
  <2>2. ManifestsOf(call[w]) \in SUBSET Manifest
    BY <1>c DEF ManifestsOf, Manifest
  <2>3. routing' \in SUBSET Subjects
    BY <1>7, WriteTypes DEF SaveRouting
  <2> QED
    BY <1>7, <2>1, <2>2, <2>3 DEF SaveRouting, TypeOK
<1>8. CASE Return(w)
  <2>1. Idle.pc = "idle"
    BY DEF Idle
  <2>2. call' \in [Workers -> Call] /\ CursorOK'
    BY <1>8, <1>c, <2>1, IdleType, SetCallType DEF Return
  <2> QED
    BY <1>8, <2>2 DEF Return, files, TypeOK
<1>9. ASSUME Interrupted(w)
      PROVE  /\ shardFile' \in [Shards -> SUBSET Subjects] /\ routing' \in SUBSET Subjects
             /\ ckpt' \in [Shards -> [Slices -> Weights]]
             /\ preproc' \in [Shards -> SUBSET Subjects] /\ torn' \in SUBSET Files
             /\ requested' \in SUBSET Subjects /\ issued' \in SUBSET Manifest
  <2>1. CASE UNCHANGED files
    BY <1>9, <2>1 DEF Interrupted, files, TypeOK
  <2>2. CASE TornWrite(w)
    <3>1. /\ shardFile' \in [Shards -> SUBSET Subjects] /\ routing' \in SUBSET Subjects
          /\ ckpt' \in [Shards -> [Slices -> Weights]]
          /\ preproc' \in [Shards -> SUBSET Subjects]
      BY <2>2, WriteTypes DEF TornWrite, TypeOK
    <3>2. torn' \in SUBSET Files
      BY <2>2, <1>c, FileNames DEF TornWrite, TypeOK, CursorOK
    <3> QED
      BY <1>9, <3>1, <3>2 DEF Interrupted, TypeOK
  <2> QED
    BY <1>9, <2>1, <2>2 DEF Interrupted
<1>10. ASSUME Die(w)
       PROVE  /\ call' \in [Workers -> Call] /\ CursorOK'
              /\ treeCache' \in [Workers -> [Shards -> SUBSET SUBSET Subjects]]
              /\ crashes' \in 0 .. MaxCrashes /\ faults' \in 0 .. MaxFaults
  <2>1. Idle.pc = "idle"
    BY DEF Idle
  <2>2. call' \in [Workers -> Call] /\ CursorOK'
    BY <1>10, <1>c, <2>1, IdleType, SetCallType DEF Die
  <2>3. treeCache' \in [Workers -> [Shards -> SUBSET SUBSET Subjects]]
    BY <1>10 DEF Die, TypeOK
  <2> QED
    BY <1>10, <2>2, <2>3, Bounds DEF Die, TypeOK
<1>11. ASSUME Fault(w)
       PROVE  /\ call' \in [Workers -> Call] /\ CursorOK'
              /\ treeCache' \in [Workers -> [Shards -> SUBSET SUBSET Subjects]]
              /\ crashes' \in 0 .. MaxCrashes /\ faults' \in 0 .. MaxFaults
  <2>1. call' \in [Workers -> Call] /\ CursorOK'
    BY <1>11, <1>c, RaiseType DEF Fault
  <2> QED
    BY <1>11, <2>1, Bounds DEF Fault, TypeOK
<1>12. CASE IOFault(w)
  BY <1>12, <1>9, <1>11 DEF IOFault, TypeOK
<1>13. CASE Crash(w)
  BY <1>13, <1>9, <1>10 DEF Crash, TypeOK
<1>14. CASE CrashAfter(w)
  BY <1>14, <1>10 DEF CrashAfter, files, TypeOK
<1> QED
  BY <1>1, <1>2, <1>3, <1>4, <1>5, <1>6, <1>7, <1>8, <1>12, <1>13, <1>14 DEF Rebuild

\* Every variable keeps its type, for any number of workers.
THEOREM TypeCorrect == Spec => []TypeOK
<1>1. TypeOK /\ CursorOK /\ [Next]_vars => (TypeOK /\ CursorOK)'
  BY TypeStep
<1> QED
  BY TypeInit, <1>1, PTL DEF Spec

-----------------------------------------------------------------------------
(* The inductive invariant *)

\* Rows and fitted statistics stay in the shard the subject was assigned to.
Placement ==
  \A k \in Shards : \A s \in shardFile[k] \cup preproc[k] : ShardOf[s] = k

\* The checkpoint after slice i holds no later step.
NoLaterStep ==
  \A k \in Shards, i, j \in Slices : j > i => ckpt[k][i][j].rows = {}

\* Whoever has rows was seen by the last step of the shard's live model, if that
\* loads.
LiveModelCoversRows ==
  \A k \in Shards :
    CkptFile(k, Last) \notin torn => shardFile[k] \subseteq ckpt[k][Last][Last].rows

\* The batch a running call works on.
BatchInv(w) ==
  LET c == call[w]
  IN  /\ c.refs \subseteq requested
      /\ c.pc \in Running =>
           /\ RoutingFile \notin torn
           /\ c.known = routing
           /\ \A r \in c.refs : ShardOf[r] = c.shard /\ c.from <= SliceOf[r]

\* What its records and tree are, before and after save_shard.
RowsInv(w) ==
  LET c == call[w]
  IN  /\ c.pc \in Running \ {"loaded"} => ShardFile(c.shard) \notin torn
      /\ c.pc = "purged" =>
           /\ c.rows = shardFile[c.shard] \ c.refs
           /\ c.tree = shardFile[c.shard]
           /\ c.refs \subseteq c.tree
      /\ c.pc \in {"saved", "training", "trained", "certified"} =>
           c.rows = shardFile[c.shard] /\ c.rows \cap c.refs = {}
      /\ c.pc \in {"saved", "training", "trained"} => c.tree = c.rows \cup c.refs
      /\ c.pc = "certified" => c.tree = c.rows

\* What its model has seen, and which checkpoints it has replaced.
ModelInv(w) ==
  LET c == call[w]
  IN  c.pc \in {"training", "trained", "certified"} =>
        /\ preproc[c.shard] = SliceZero(c.rows)
        /\ c.from <= c.cur
        /\ \A s \in Subjects : Influences(s, c.model) =>
             /\ Learned(s)
             /\ s \notin c.refs
             /\ ShardOf[s] = c.shard
             /\ SliceOf[s] < c.cur
        /\ \A j \in Slices : j >= c.cur => c.model[j].rows = {}
        /\ \A j \in Slices, s \in c.refs :
             c.from <= j /\ j < c.cur => ~Influences(s, ckpt[c.shard][j])
        /\ c.pc = "training" => c.cur \in Slices
        /\ c.pc \in {"trained", "certified"} =>
             c.cur = NUM_SLICES /\ c.model[Last].rows = c.rows

FileInv ==
  /\ Placement
  /\ SliceIsolation
  /\ NoLaterStep
  /\ LiveModelCoversRows
  /\ OthersSurvive
  /\ Forgotten
  /\ RootMatchesTraining

CallInv(w) == BatchInv(w) /\ RowsInv(w) /\ ModelInv(w)

IndInv == TypeOK /\ CursorOK /\ FileInv /\ \A w \in Workers : CallInv(w)

-----------------------------------------------------------------------------
(* Lemmas about the operators *)

LEMMA TreeForShardIsRows ==
  ASSUME NEW cached, NEW rows PROVE TreeForShard(cached, rows) = rows
BY DEF TreeForShard

LEMMA TrainStepInfluence ==
  ASSUME NEW m \in Weights, NEW rows, NEW i \in Slices, NEW from, NEW s
  PROVE  Influences(s, TrainStep(m, rows, i, from))
           <=> Influences(s, m) \/ s \in RowsUpTo(rows, i)
<1> DEFINE n == TrainStep(m, rows, i, from)
<1>1. n[i].rows = m[i].rows \cup RowsUpTo(rows, i)
  BY DEF TrainStep, Weights, Step
<1>2. \A j \in Slices : j # i => n[j].rows = m[j].rows
  BY DEF TrainStep, Weights, Step
<1> HIDE DEF n
<1>3. Influences(s, n) <=> Influences(s, m) \/ s \in RowsUpTo(rows, i)
  BY <1>1, <1>2 DEF Influences
<1> QED
  BY <1>3 DEF n

LEMMA AllRowsUpToLast ==
  ASSUME NEW rows \in SUBSET Subjects
  PROVE  RowsUpTo(rows, Last) = rows
BY SliceFacts, FrozenAssignment DEF RowsUpTo

-----------------------------------------------------------------------------
(* What each write does to the files *)

LEMMA FilesKept ==
  ASSUME FileInv, UNCHANGED <<files, issued>>, requested \subseteq requested'
  PROVE  FileInv'
BY DEF FileInv, files, Placement, SliceIsolation, NoLaterStep,
       LiveModelCoversRows, OthersSurvive, Forgotten, RootMatchesTraining, Traces,
       Learned, Influences, Reported

\* save_shard, complete or torn.
LEMMA ShardWritten ==
  ASSUME TypeOK, FileInv, NEW w \in Workers, CallInv(w), call[w].pc = "purged",
         NEW part \in SUBSET call[w].rows, WriteShard(w, part),
         \/ part = call[w].rows /\ torn' = torn \ {ShardFile(call[w].shard)}
         \/ torn' = torn \cup {ShardFile(call[w].shard)},
         UNCHANGED <<routing, ckpt, preproc, requested, issued>>
  PROVE  FileInv'
<1> DEFINE c == call[w]
<1>1. /\ c.shard \in Shards
      /\ c.rows = shardFile[c.shard] \ c.refs
      /\ c.refs \subseteq requested
      /\ ShardFile(c.shard) \notin torn
      /\ shardFile' = [shardFile EXCEPT ![c.shard] = part]
  BY DEF TypeOK, Call, WriteShard, CallInv, RowsInv, BatchInv, Running, Phases
<1>2. \A k \in Shards : shardFile'[k] \subseteq shardFile[k]
  BY <1>1 DEF TypeOK
<1>3. /\ RoutingFile \in torn' <=> RoutingFile \in torn
      /\ \A k \in Shards : CkptFile(k, Last) \in torn' <=> CkptFile(k, Last) \in torn
      /\ \A k \in Shards : k # c.shard => (ShardFile(k) \in torn' <=> ShardFile(k) \in torn)
  BY <1>1, NamesDiffer, SliceFacts
<1>4. ASSUME NEW s \in Subjects \ requested, ShardFile(ShardOf[s]) \notin torn'
      PROVE  s \in shardFile'[ShardOf[s]]
  <2>1. ShardOf[s] \in Shards
    BY FrozenAssignment
  <2>2. CASE ShardOf[s] # c.shard
    BY <1>1, <1>3, <1>4, <2>1, <2>2 DEF FileInv, OthersSurvive, TypeOK
  <2>3. CASE ShardOf[s] = c.shard
    <3>1. s \in shardFile[c.shard]
      BY <1>1, <2>3 DEF FileInv, OthersSurvive
    <3>2. s \in part
      BY <1>1, <1>4, <2>3, <3>1
    <3> QED
      BY <1>1, <2>3, <3>2 DEF TypeOK
  <2> QED
    BY <2>2, <2>3
<1>5. Placement'
  BY <1>2 DEF FileInv, Placement
<1>6. LiveModelCoversRows'
  BY <1>2, <1>3 DEF FileInv, LiveModelCoversRows
<1>7. OthersSurvive'
  BY <1>3, <1>4, FrozenAssignment DEF FileInv, OthersSurvive
<1>8. Forgotten'
  BY <1>2, <1>3 DEF FileInv, Forgotten, Reported, Traces, Learned, Influences
<1>9. SliceIsolation' /\ NoLaterStep' /\ RootMatchesTraining'
  BY DEF FileInv, SliceIsolation, NoLaterStep, RootMatchesTraining, Influences
<1> QED
  BY <1>5, <1>6, <1>7, <1>8, <1>9 DEF FileInv

\* The preprocessor's json, complete or torn.
LEMMA PreprocWritten ==
  ASSUME TypeOK, FileInv, NEW w \in Workers, CallInv(w), call[w].pc = "saved",
         NEW part \in SUBSET SliceZero(call[w].rows), WritePreproc(w, part),
         \/ torn' = torn \ {PreprocFile(call[w].shard)}
         \/ torn' = torn \cup {PreprocFile(call[w].shard)},
         UNCHANGED <<shardFile, routing, ckpt, requested, issued>>
  PROVE  FileInv'
<1>1. /\ call[w].shard \in Shards
      /\ part \subseteq shardFile[call[w].shard]
  BY DEF TypeOK, Call, CallInv, RowsInv, SliceZero
<1>2. \A k \in Shards : preproc'[k] \subseteq preproc[k] \cup shardFile[k]
  BY <1>1 DEF TypeOK, WritePreproc
<1>3. /\ RoutingFile \in torn' <=> RoutingFile \in torn
      /\ \A k \in Shards : CkptFile(k, Last) \in torn' <=> CkptFile(k, Last) \in torn
      /\ \A k \in Shards : ShardFile(k) \in torn' <=> ShardFile(k) \in torn
  BY <1>1, NamesDiffer, SliceFacts
<1>4. Placement'
  BY <1>2 DEF FileInv, Placement
<1>5. Forgotten'
  BY <1>2, <1>3 DEF FileInv, Forgotten, Reported, Traces, Learned, Influences
<1>6. LiveModelCoversRows'
  BY <1>3 DEF FileInv, LiveModelCoversRows
<1>7. OthersSurvive'
  BY <1>3, FrozenAssignment DEF FileInv, OthersSurvive
<1>8. SliceIsolation' /\ NoLaterStep' /\ RootMatchesTraining'
  BY DEF FileInv, SliceIsolation, NoLaterStep, RootMatchesTraining, Influences
<1> QED
  BY <1>4, <1>5, <1>6, <1>7, <1>8 DEF FileInv

\* The facts about the model that TrainSlice writes and keeps.
LEMMA NextModelFacts ==
  ASSUME TypeOK, CursorOK, FileInv, NEW w \in Workers, CallInv(w),
         call[w].pc = "training"
  PROVE  LET c == call[w]
             n == NextModel(c)
         IN  /\ n \in Weights
             /\ c.cur \in Slices /\ c.shard \in Shards
             /\ \A s \in Subjects : Influences(s, n) =>
                  /\ Influences(s, c.model) \/ s \in shardFile[c.shard]
                  /\ s \notin c.refs
                  /\ ShardOf[s] = c.shard
                  /\ SliceOf[s] <= c.cur
             /\ \A j \in Slices : j > c.cur => n[j].rows = {}
             /\ n[c.cur].rows = RowsUpTo(c.rows, c.cur)
             /\ c.cur = Last => n[Last].rows = c.rows
<1> DEFINE c == call[w]
           n == NextModel(c)
<1>1. /\ c \in Call /\ c.cur \in Slices /\ c.shard \in Shards /\ c.model \in Weights
      /\ c.rows \in SUBSET Subjects /\ c.from \in Slices
  BY DEF TypeOK, CursorOK, Call
<1>2. n \in Weights
  BY <1>1, TrainStepType DEF NextModel
<1>3. c.model[c.cur].rows = {} /\ \A j \in Slices : j > c.cur => c.model[j].rows = {}
  BY <1>1, SliceFacts DEF CallInv, ModelInv
<1>a. /\ n[c.cur].rows = c.model[c.cur].rows \cup RowsUpTo(c.rows, c.cur)
      /\ \A j \in Slices : j # c.cur => n[j].rows = c.model[j].rows
  BY <1>1 DEF NextModel, TrainStep, Weights, Step
<1>4. n[c.cur].rows = RowsUpTo(c.rows, c.cur)
  BY <1>3, <1>a
<1>5. \A j \in Slices : j > c.cur => n[j].rows = {}
  BY <1>1, <1>3, <1>a, SliceFacts
<1>6. ASSUME NEW s \in Subjects, Influences(s, n)
      PROVE  /\ Influences(s, c.model) \/ s \in shardFile[c.shard]
             /\ s \notin c.refs
             /\ ShardOf[s] = c.shard
             /\ SliceOf[s] <= c.cur
  <2>1. Influences(s, c.model) \/ s \in RowsUpTo(c.rows, c.cur)
    BY <1>1, <1>6, TrainStepInfluence DEF NextModel
  <2>2. CASE Influences(s, c.model)
    <3>1. SliceOf[s] \in Int /\ SliceOf[s] < c.cur
      BY <2>2, FrozenAssignment, SliceFacts DEF CallInv, ModelInv
    <3> QED
      BY <2>2, <3>1, <1>1, SliceFacts DEF CallInv, ModelInv
  <2>3. CASE s \in RowsUpTo(c.rows, c.cur)
    BY <2>3, <1>1 DEF RowsUpTo, CallInv, RowsInv, FileInv, Placement
  <2> QED
    BY <2>1, <2>2, <2>3
<1>7. c.cur = Last => n[Last].rows = c.rows
  BY <1>1, <1>4, AllRowsUpToLast
<1> QED
  BY <1>1, <1>2, <1>4, <1>5, <1>6, <1>7

\* torch.save of a slice, complete or torn.
LEMMA CkptWritten ==
  ASSUME TypeOK, CursorOK, FileInv, NEW w \in Workers, CallInv(w),
         call[w].pc = "training",
         NEW part \in {FreshModel, NextModel(call[w])}, WriteCkpt(w, part),
         \/ /\ part = NextModel(call[w])
            /\ torn' = torn \ {CkptFile(call[w].shard, call[w].cur)}
         \/ torn' = torn \cup {CkptFile(call[w].shard, call[w].cur)},
         UNCHANGED <<shardFile, routing, preproc, requested, issued>>
  PROVE  FileInv'
<1> DEFINE c == call[w]
           n == NextModel(c)
<1>1. /\ n \in Weights /\ c.cur \in Slices /\ c.shard \in Shards
      /\ \A s \in Subjects : Influences(s, n) =>
           /\ Influences(s, c.model) \/ s \in shardFile[c.shard]
           /\ ShardOf[s] = c.shard
           /\ SliceOf[s] <= c.cur
      /\ \A j \in Slices : j > c.cur => n[j].rows = {}
      /\ c.cur = Last => n[Last].rows = c.rows
  BY NextModelFacts
<1>f. /\ \A s \in Subjects : ~Influences(s, FreshModel)
      /\ \A j \in Slices : FreshModel[j].rows = {}
  BY DEF Influences, FreshModel, NoStep
<1>2. /\ ckpt'[c.shard][c.cur] = part
      /\ \A k \in Shards, i \in Slices :
           <<k, i>> # <<c.shard, c.cur>> => ckpt'[k][i] = ckpt[k][i]
  BY <1>1 DEF WriteCkpt, TypeOK
<1>n. /\ RoutingFile \in torn' <=> RoutingFile \in torn
      /\ \A k \in Shards : ShardFile(k) \in torn' <=> ShardFile(k) \in torn
      /\ \A k \in Shards : <<k, Last>> # <<c.shard, c.cur>> =>
           (CkptFile(k, Last) \in torn' <=> CkptFile(k, Last) \in torn)
      /\ CkptFile(c.shard, c.cur) \notin torn' => part = n
  <2>1. RoutingFile # CkptFile(c.shard, c.cur)
    BY <1>1, NamesDiffer
  <2>2. \A k \in Shards : ShardFile(k) # CkptFile(c.shard, c.cur)
    BY <1>1, NamesDiffer
  <2>3. \A k \in Shards : <<k, Last>> # <<c.shard, c.cur>> =>
          CkptFile(k, Last) # CkptFile(c.shard, c.cur)
    BY <1>1, NamesDiffer, SliceFacts
  <2> QED
    BY <2>1, <2>2, <2>3
<1> HIDE DEF n
<1>3. SliceIsolation'
  BY <1>1, <1>f, <1>2 DEF FileInv, SliceIsolation, n
<1>4. NoLaterStep'
  BY <1>1, <1>f, <1>2 DEF FileInv, NoLaterStep, n
<1>5. LiveModelCoversRows'
  <2>1. c.rows = shardFile[c.shard]
    BY DEF CallInv, RowsInv
  <2> SUFFICES ASSUME NEW k \in Shards, CkptFile(k, Last) \notin torn'
               PROVE  shardFile[k] \subseteq ckpt'[k][Last][Last].rows
    BY DEF LiveModelCoversRows
  <2>2. CASE <<k, Last>> = <<c.shard, c.cur>>
    BY <1>1, <1>2, <1>n, <2>1, <2>2, SliceFacts
  <2>3. CASE <<k, Last>> # <<c.shard, c.cur>>
    BY <1>2, <1>n, <2>3, SliceFacts DEF FileInv, LiveModelCoversRows
  <2> QED
    BY <2>2, <2>3
<1>6. Forgotten'
  <2> SUFFICES ASSUME NEW s \in Subjects, ~Traces(s) PROVE ~Traces(s)'
    BY <1>n DEF FileInv, Forgotten, Reported
  <2>1. ~Influences(s, part)
    BY <1>1, <1>f DEF Traces, CallInv, ModelInv, n
  <2>2. \A k \in Shards, i \in Slices : ~Influences(s, ckpt'[k][i])
    BY <2>1, <1>2 DEF Traces, Learned
  <2> QED
    BY <2>2 DEF Traces, Learned
<1>7. OthersSurvive'
  <2> SUFFICES ASSUME NEW s \in Subjects \ requested,
                      CkptFile(ShardOf[s], Last) \notin torn'
               PROVE  s \in ckpt'[ShardOf[s]][Last][Last].rows
    BY <1>n, FrozenAssignment DEF FileInv, OthersSurvive
  <2>1. ShardOf[s] \in Shards
    BY FrozenAssignment
  <2>2. CASE <<ShardOf[s], Last>> = <<c.shard, c.cur>>
    <3>1. s \in c.rows
      BY <2>2 DEF CallInv, RowsInv, Running, Phases, FileInv, OthersSurvive
    <3> QED
      BY <1>1, <1>2, <1>n, <2>1, <2>2, <3>1, SliceFacts
  <2>3. CASE <<ShardOf[s], Last>> # <<c.shard, c.cur>>
    BY <1>2, <1>n, <2>1, <2>3, SliceFacts DEF FileInv, OthersSurvive
  <2> QED
    BY <2>2, <2>3
<1>8. Placement' /\ RootMatchesTraining'
  BY DEF FileInv, Placement, RootMatchesTraining
<1> QED
  BY <1>3, <1>4, <1>5, <1>6, <1>7, <1>8 DEF FileInv

\* A call that is about to write routing.json has left no trace of its batch.
LEMMA BatchHasNoTrace ==
  ASSUME TypeOK, FileInv, NEW w \in Workers, CallInv(w), call[w].pc = "certified",
         NEW s \in call[w].refs
  PROVE  s \in Subjects /\ ~Traces(s)
<1> DEFINE c == call[w]
<1>1. /\ s \in Subjects /\ c.shard \in Shards /\ c.from \in Slices
      /\ ShardOf[s] = c.shard /\ c.from <= SliceOf[s] /\ SliceOf[s] \in Slices
  BY FrozenAssignment DEF TypeOK, Call, CallInv, BatchInv, Running, Phases
<1>2. \A k \in Shards : s \notin shardFile[k] \cup preproc[k]
  BY <1>1 DEF CallInv, RowsInv, ModelInv, SliceZero, FileInv, Placement
<1>3. ASSUME NEW k \in Shards, NEW i \in Slices, Influences(s, ckpt[k][i])
      PROVE  FALSE
  <2>1. k = c.shard /\ SliceOf[s] <= i
    BY <1>1, <1>3 DEF FileInv, SliceIsolation
  <2>2. c.from <= i /\ i < c.cur
    BY <1>1, <2>1, SliceFacts, SliceCount DEF CallInv, ModelInv, Last
  <2> QED
    BY <1>3, <2>1, <2>2 DEF CallInv, ModelInv
<1> QED
  BY <1>1, <1>2, <1>3 DEF Traces, Learned

\* save_routing, complete with the manifests returned, or torn.
LEMMA RoutingWritten ==
  ASSUME TypeOK, FileInv, NEW w \in Workers, CallInv(w), call[w].pc = "certified",
         NEW part \in SUBSET (call[w].known \ call[w].refs), WriteRouting(w, part),
         \/ /\ part = call[w].known \ call[w].refs
            /\ torn' = torn \ {RoutingFile}
            /\ issued' = issued \cup ManifestsOf(call[w])
         \/ torn' = torn \cup {RoutingFile} /\ issued' = issued,
         UNCHANGED <<shardFile, ckpt, preproc, requested>>
  PROVE  FileInv'
<1> DEFINE c == call[w]
<1>1. /\ routing' = part /\ c.known = routing /\ RoutingFile \notin torn
      /\ c.refs \subseteq requested
  BY DEF WriteRouting, CallInv, BatchInv, Running, Phases
<1>2. /\ \A k \in Shards : CkptFile(k, Last) \in torn' <=> CkptFile(k, Last) \in torn
      /\ \A k \in Shards : ShardFile(k) \in torn' <=> ShardFile(k) \in torn
  BY NamesDiffer, SliceFacts
<1>3. Forgotten'
  <2> SUFFICES ASSUME NEW s \in Subjects,
                      \/ Reported(s)'
                      \/ RoutingFile \notin torn' /\ s \notin routing'
               PROVE  ~Traces(s)
    BY DEF Forgotten, Traces, Learned, Influences
  <2>1. Reported(s)' => Reported(s) \/ s \in c.refs
    BY DEF Reported, ManifestsOf
  <2>2. RoutingFile \notin torn' /\ s \notin routing' => s \notin routing \/ s \in c.refs
    BY <1>1
  <2> QED
    BY <1>1, <2>1, <2>2, BatchHasNoTrace DEF FileInv, Forgotten
<1>4. OthersSurvive'
  <2>1. RoutingFile \notin torn' => routing' = routing \ c.refs
    BY <1>1
  <2> QED
    BY <1>1, <1>2, <2>1, FrozenAssignment DEF FileInv, OthersSurvive
<1>5. LiveModelCoversRows'
  BY <1>2 DEF FileInv, LiveModelCoversRows
<1>6. RootMatchesTraining'
  <2>1. c.tree = c.rows /\ c.rows \cap c.refs = {} /\ c.model[Last].rows = c.rows
    BY DEF CallInv, RowsInv, ModelInv
  <2>2. \A m \in ManifestsOf(c) : m.root = m.weights[Last].rows /\ m.subject \notin m.root
    BY <2>1 DEF ManifestsOf
  <2> QED
    BY <2>2 DEF FileInv, RootMatchesTraining
<1> QED
  BY <1>3, <1>4, <1>5, <1>6
  DEF FileInv, Placement, SliceIsolation, NoLaterStep, Influences

-----------------------------------------------------------------------------
(* The inductive step, one step per action *)

LEMMA IndInit == Init => IndInv
<1> SUFFICES ASSUME Init PROVE IndInv
  OBVIOUS
<1>1. TypeOK /\ CursorOK
  BY TypeInit
<1>2. \A k \in Shards, i, j \in Slices :
        ckpt[k][i][j].rows = IF j <= i THEN RowsUpTo(shardFile[k], j) ELSE {}
  BY DEF Init, CleanModel, NoStep
<1>3. \A k \in Shards : shardFile[k] = {s \in Subjects : ShardOf[s] = k}
  BY DEF Init
<1>4. Placement
  BY <1>3 DEF Placement, Init, SliceZero
<1>5. SliceIsolation
  <2> SUFFICES ASSUME NEW s \in Subjects, NEW k \in Shards, NEW i \in Slices,
                      Influences(s, ckpt[k][i])
               PROVE  ShardOf[s] = k /\ SliceOf[s] <= i
    BY DEF SliceIsolation
  <2>1. PICK j \in Slices : s \in ckpt[k][i][j].rows
    BY DEF Influences
  <2>2. j <= i /\ s \in RowsUpTo(shardFile[k], j)
    BY <1>2, <2>1
  <2> QED
    BY <2>2, <1>3, SliceFacts, FrozenAssignment DEF RowsUpTo
<1>6. NoLaterStep
  BY <1>2, SliceFacts DEF NoLaterStep
<1>7. LiveModelCoversRows
  <2>1. \A k \in Shards : ckpt[k][Last][Last].rows = RowsUpTo(shardFile[k], Last)
    BY <1>2, SliceFacts
  <2> QED
    BY <1>1, <2>1, AllRowsUpToLast DEF LiveModelCoversRows, TypeOK
<1>8. OthersSurvive
  <2>1. \A s \in Subjects : ShardOf[s] \in Shards /\ s \in shardFile[ShardOf[s]]
    BY <1>3, FrozenAssignment
  <2> QED
    BY <1>7, <2>1 DEF Init, LiveModelCoversRows, OthersSurvive
<1>10. Forgotten /\ RootMatchesTraining
  BY DEF Init, Forgotten, Reported, RootMatchesTraining
<1>9. \A w \in Workers : CallInv(w)
  BY DEF Init, Idle, CallInv, BatchInv, RowsInv, ModelInv, Running
<1> QED
  BY <1>1, <1>4, <1>5, <1>6, <1>7, <1>8, <1>9, <1>10 DEF IndInv, FileInv

\* A call that is not running owes only that its batch was asked for.
LEMMA QuietCall ==
  ASSUME NEW w \in Workers, call'[w].pc \in {"idle", "returned", "raised"},
         call'[w].refs \subseteq requested'
  PROVE  CallInv(w)'
BY DEF CallInv, BatchInv, RowsInv, ModelInv, Running

\* Raising or dying ends the call.
LEMMA CallEnds ==
  ASSUME TypeOK, NEW w \in Workers,
         Raise(w) \/ call' = [call EXCEPT ![w] = Idle]
  PROVE  CallInv(w)'
<1>1. call'[w].pc \in {"idle", "raised"} /\ call'[w].refs = {}
  <2>1. CASE Raise(w)
    <3> DEFINE d == [Idle EXCEPT !.pc = "raised"]
    <3>1. call'[w] = d
      BY <2>1 DEF TypeOK, Raise
    <3>2. d.pc = "raised" /\ d.refs = {}
      BY EndedType
    <3> QED
      BY <3>1, <3>2
  <2>2. CASE call' = [call EXCEPT ![w] = Idle]
    <3>1. call'[w] = Idle
      BY <2>2 DEF TypeOK
    <3> QED
      BY <3>1 DEF Idle
  <2> QED
    BY <2>1, <2>2
<1> QED
  BY <1>1, QuietCall

LEMMA IndStep ==
  ASSUME Solo, IndInv, [Next]_vars
  PROVE  IndInv'
<1> USE DEF IndInv
<1>0. TypeOK' /\ CursorOK'
  BY TypeStep
<1>s. CASE UNCHANGED vars
  BY <1>s, <1>0, FilesKept
  DEF vars, files, CallInv, BatchInv, RowsInv, ModelInv, Learned, Influences
<1> SUFFICES ASSUME Next PROVE IndInv'
  BY <1>s
<1> PICK w \in Workers :
      \/ \E R \in (SUBSET Subjects) \ {{}} : BeginRebuild(w, R)
      \/ Rebuild(w) \/ IOFault(w) \/ Crash(w) \/ CrashAfter(w)
  BY DEF Next
<1> SUFFICES FileInv' /\ CallInv(w)'
  BY <1>0 DEF Solo
<1> DEFINE c == call[w]
<1>c. /\ call \in [Workers -> Call] /\ c \in Call /\ c.shard \in Shards
      /\ c.from \in Slices /\ c.refs \in SUBSET Subjects
      /\ c.rows \in SUBSET Subjects /\ c.model \in Weights
  BY DEF TypeOK, Call
<1>i. FileInv /\ CallInv(w) /\ TypeOK /\ CursorOK
  OBVIOUS
<1> HIDE DEF IndInv
<1>1. ASSUME NEW R \in (SUBSET Subjects) \ {{}}, BeginRebuild(w, R)
      PROVE  FileInv' /\ CallInv(w)'
  <2>1. FileInv'
    BY <1>1, <1>i, FilesKept DEF BeginRebuild
  <2> DEFINE loaded(k, f) == [Idle EXCEPT !.pc = "loaded", !.refs = R,
                                          !.known = routing, !.shard = k, !.from = f]
  <2>2. CASE Raise(w)
    BY <2>1, <2>2, <1>i, CallEnds
  <2>3. ASSUME NEW k \in Shards, NEW f \in Slices, RoutingFile \notin torn,
               \A r \in R : ShardOf[r] = k /\ f <= SliceOf[r],
               call' = [call EXCEPT ![w] = loaded(k, f)]
        PROVE  CallInv(w)'
    <3>1. call'[w] = loaded(k, f)
      BY <2>3, <1>c
    <3>2. /\ call'[w].pc = "loaded" /\ call'[w].refs = R /\ call'[w].known = routing
          /\ call'[w].shard = k /\ call'[w].from = f
      BY <3>1, IdleType DEF Call
    <3>3. routing' = routing /\ torn' = torn /\ R \subseteq requested'
      BY <1>1 DEF BeginRebuild, files
    <3> QED
      BY <2>3, <3>2, <3>3 DEF CallInv, BatchInv, RowsInv, ModelInv
  <2> HIDE DEF loaded
  <2>4. \/ Raise(w)
        \/ /\ RoutingFile \notin torn
           /\ \E k \in Shards, f \in Slices :
                /\ \A r \in R : ShardOf[r] = k /\ f <= SliceOf[r]
                /\ call' = [call EXCEPT ![w] = loaded(k, f)]
    BY <1>1 DEF BeginRebuild, loaded
  <2> QED
    BY <2>1, <2>2, <2>3, <2>4
<1>2. ASSUME NEW dup \in BOOLEAN, LoadShard(w, dup) PROVE FileInv' /\ CallInv(w)'
  <2>1. FileInv'
    BY <1>2, <1>i, FilesKept DEF LoadShard
  <2>2. CASE Raise(w)
    BY <1>2, <2>1, <2>2, <1>i, CallEnds DEF LoadShard
  <2>3. CASE ~Raise(w)
    <3>1. /\ c.refs \subseteq shardFile[c.shard]
          /\ ShardFile(c.shard) \notin torn
          /\ call' = [call EXCEPT ![w] =
               [c EXCEPT !.pc = "purged",
                         !.rows = shardFile[c.shard] \ c.refs,
                         !.tree = shardFile[c.shard]]]
      BY <1>2, <2>3, TreeForShardIsRows DEF LoadShard, Purge
    <3>2. /\ call'[w].pc = "purged" /\ call'[w].refs = c.refs
          /\ call'[w].known = c.known /\ call'[w].shard = c.shard
          /\ call'[w].from = c.from /\ call'[w].rows = shardFile[c.shard] \ c.refs
          /\ call'[w].tree = shardFile[c.shard]
      BY <3>1, <1>c DEF Call
    <3>3. c.pc = "loaded" /\ UNCHANGED <<shardFile, routing, torn, requested>>
      BY <1>2 DEF LoadShard, files
    <3> QED
      BY <2>1, <3>1, <3>2, <3>3, <1>i
      DEF CallInv, BatchInv, RowsInv, ModelInv, Running, Phases
  <2> QED
    BY <2>2, <2>3
<1>3. CASE SaveShard(w)
  <2>0. WriteShard(w, c.rows) /\ torn' = torn \ {ShardFile(c.shard)} /\ c.pc = "purged"
        /\ UNCHANGED <<routing, ckpt, preproc, requested, issued>>
    BY <1>3 DEF SaveShard
  <2>1. FileInv'
    BY <2>0, <1>c, <1>i, ShardWritten
  <2>2. /\ call'[w].pc = "saved" /\ call'[w].refs = c.refs
        /\ call'[w].known = c.known /\ call'[w].shard = c.shard
        /\ call'[w].from = c.from /\ call'[w].rows = c.rows
        /\ call'[w].tree = c.tree
    BY <1>3, <1>c DEF SaveShard, Call
  <2>3. /\ c.pc = "purged" /\ UNCHANGED <<routing, requested>>
        /\ shardFile'[c.shard] = c.rows
        /\ RoutingFile \in torn' => RoutingFile \in torn
        /\ ShardFile(c.shard) \notin torn'
    BY <2>0, <1>c, <1>i DEF WriteShard, TypeOK
  <2> QED
    BY <2>1, <2>2, <2>3, <1>i
    DEF CallInv, BatchInv, RowsInv, ModelInv, Running, Phases
<1>4. CASE StartTraining(w)
  <2>1. CASE Raise(w) /\ UNCHANGED <<preproc, torn>>
    <3>1. FileInv'
      BY <1>4, <2>1, <1>i, FilesKept DEF StartTraining, files
    <3> QED
      BY <1>4, <2>1, <3>1, <1>i, CallEnds DEF StartTraining
  <2>2. CASE ~(Raise(w) /\ UNCHANGED <<preproc, torn>>)
    <3>1. /\ c.pc = "saved"
          /\ WritePreproc(w, SliceZero(c.rows))
          /\ torn' = torn \ {PreprocFile(c.shard)}
          /\ call' = [call EXCEPT ![w] =
               [c EXCEPT !.pc = "training", !.cur = c.from,
                         !.model = ResumeState(c.shard, c.from)]]
          /\ UNCHANGED <<shardFile, routing, ckpt, requested, issued>>
      BY <1>4, <2>2 DEF StartTraining
    <3>2. FileInv'
      BY <3>1, <1>i, PreprocWritten DEF SliceZero
    <3>3. /\ call'[w].pc = "training" /\ call'[w].refs = c.refs
          /\ call'[w].known = c.known /\ call'[w].shard = c.shard
          /\ call'[w].from = c.from /\ call'[w].rows = c.rows
          /\ call'[w].tree = c.tree /\ call'[w].cur = c.from
          /\ call'[w].model = ResumeState(c.shard, c.from)
          /\ preproc'[c.shard] = SliceZero(c.rows)
      BY <3>1, <1>c, <1>i DEF Call, TypeOK, WritePreproc
    <3>4. BatchInv(w)' /\ RowsInv(w)'
      BY <3>1, <3>3, <1>i DEF CallInv, BatchInv, RowsInv, Running, Phases
    <3>5. ASSUME NEW s \in Subjects, Influences(s, ResumeState(c.shard, c.from))
          PROVE  /\ Learned(s) /\ s \notin c.refs /\ ShardOf[s] = c.shard
                 /\ SliceOf[s] < c.from
      <4>1. c.from > 0
        BY <3>5 DEF ResumeState, Influences, FreshModel, NoStep
      <4>2. c.from - 1 \in Slices /\ Influences(s, ckpt[c.shard][c.from - 1])
        BY <3>5, <4>1, <1>c, SliceFacts DEF ResumeState
      <4>3. ShardOf[s] = c.shard /\ SliceOf[s] <= c.from - 1
        BY <4>2, <1>c, <1>i DEF FileInv, SliceIsolation
      <4>4. SliceOf[s] < c.from
        BY <4>3, <1>c, SliceFacts, FrozenAssignment
      <4>5. s \notin c.refs
        BY <4>4, <1>c, <1>i, <3>1, SliceFacts, FrozenAssignment
        DEF CallInv, BatchInv, Running, Phases
      <4> QED
        BY <4>2, <4>3, <4>4, <4>5, <1>c DEF Learned
    <3>6. \A j \in Slices : j >= c.from => ResumeState(c.shard, c.from)[j].rows = {}
      <4>1. CASE c.from > 0
        BY <4>1, <1>c, <1>i, SliceFacts DEF ResumeState, FileInv, NoLaterStep
      <4>2. CASE ~(c.from > 0)
        BY <4>2 DEF ResumeState, FreshModel, NoStep
      <4> QED
        BY <4>1, <4>2
    <3>7. \A s \in Subjects : Learned(s)' <=> Learned(s)
      BY <3>1 DEF Learned, Influences
    <3>8. ModelInv(w)'
      <4>1. \A s \in Subjects : Influences(s, call'[w].model) =>
              /\ Learned(s)' /\ s \notin call'[w].refs /\ ShardOf[s] = call'[w].shard
              /\ SliceOf[s] < call'[w].cur
        BY <3>3, <3>5, <3>7
      <4>2. call'[w].from <= call'[w].cur /\ call'[w].cur \in Slices
        BY <3>3, <1>c, SliceFacts
      <4>3. \A j \in Slices : ~(call'[w].from <= j /\ j < call'[w].cur)
        BY <3>3, <1>c, SliceFacts
      <4>4. preproc'[call'[w].shard] = SliceZero(call'[w].rows)
        BY <3>3
      <4>5. \A j \in Slices : j >= call'[w].cur => call'[w].model[j].rows = {}
        BY <3>3, <3>6
      <4> QED
        BY <3>3, <4>1, <4>2, <4>3, <4>4, <4>5 DEF ModelInv, Influences
    <3> QED
      BY <3>2, <3>4, <3>8 DEF CallInv
  <2> QED
    BY <2>1, <2>2
<1>5. CASE TrainSlice(w)
  <2> DEFINE n == NextModel(c)
  <2>1. c.pc = "training" /\ WriteCkpt(w, n) /\ torn' = torn \ {CkptFile(c.shard, c.cur)}
        /\ UNCHANGED <<shardFile, routing, preproc, requested, issued>>
    BY <1>5 DEF TrainSlice
  <2>2. FileInv'
    BY <2>1, <1>i, CkptWritten
  <2>3. /\ n \in Weights /\ c.cur \in Slices
        /\ \A s \in Subjects : Influences(s, n) =>
             s \notin c.refs /\ ShardOf[s] = c.shard /\ SliceOf[s] <= c.cur
        /\ \A j \in Slices : j > c.cur => n[j].rows = {}
        /\ c.cur = Last => n[Last].rows = c.rows
    BY <2>1, <1>i, NextModelFacts
  <2>4. /\ ckpt'[c.shard][c.cur] = n
        /\ \A j \in Slices : j # c.cur => ckpt'[c.shard][j] = ckpt[c.shard][j]
    BY <2>1, <2>3, <1>c, <1>i DEF WriteCkpt, TypeOK
  <2>5. /\ call'[w].pc = AfterSlice(c.cur) /\ call'[w].refs = c.refs
        /\ call'[w].known = c.known /\ call'[w].shard = c.shard
        /\ call'[w].from = c.from /\ call'[w].rows = c.rows
        /\ call'[w].tree = c.tree /\ call'[w].cur = c.cur + 1
        /\ call'[w].model = n
    BY <1>5, <1>c DEF TrainSlice, Call
  <2> HIDE DEF n
  <2>6. AfterSlice(c.cur) \in {"training", "trained"}
    BY DEF AfterSlice
  <2>7. BatchInv(w)' /\ RowsInv(w)'
    BY <2>1, <2>5, <2>6, <1>i DEF CallInv, BatchInv, RowsInv, Running, Phases
  <2>8. ModelInv(w)'
    <3>1. preproc'[call'[w].shard] = SliceZero(call'[w].rows)
      BY <2>1, <2>5, <1>i DEF CallInv, ModelInv
    <3>2. call'[w].from <= call'[w].cur
      BY <2>1, <2>3, <2>5, <1>c, <1>i, SliceFacts DEF CallInv, ModelInv
    <3>3. \A s \in Subjects : Influences(s, call'[w].model) =>
            /\ Learned(s)' /\ s \notin call'[w].refs /\ ShardOf[s] = call'[w].shard
            /\ SliceOf[s] < call'[w].cur
      <4>1. \A s \in Subjects : Influences(s, n) => Learned(s)'
        BY <2>3, <2>4, <1>c DEF Learned
      <4>2. \A s \in Subjects : SliceOf[s] <= c.cur => SliceOf[s] < c.cur + 1
        BY <2>3, SliceFacts, FrozenAssignment
      <4> QED
        BY <2>3, <2>5, <4>1, <4>2
    <3>4. \A j \in Slices : j >= call'[w].cur => call'[w].model[j].rows = {}
      BY <2>3, <2>5, SliceFacts
    <3>5. ASSUME NEW j \in Slices, NEW s \in call'[w].refs,
                 call'[w].from <= j, j < call'[w].cur
          PROVE  ~Influences(s, ckpt'[call'[w].shard][j])
      <4>1. CASE j = c.cur
        BY <4>1, <3>5, <2>3, <2>4, <2>5, <1>c
      <4>2. CASE j # c.cur
        <5>1. c.from <= j /\ j < c.cur
          BY <4>2, <3>5, <2>3, <2>5, <1>c, SliceFacts
        <5> QED
          BY <4>2, <5>1, <3>5, <2>1, <2>4, <2>5, <1>i DEF CallInv, ModelInv
      <4> QED
        BY <4>1, <4>2
    <3>6. call'[w].pc = "training" => call'[w].cur \in Slices
      BY <2>3, <2>5, SliceFacts DEF AfterSlice
    <3>7. call'[w].pc = "trained" =>
            call'[w].cur = NUM_SLICES /\ call'[w].model[Last].rows = call'[w].rows
      BY <2>3, <2>5, SliceFacts, SliceCount DEF AfterSlice, Last
    <3> QED
      BY <2>5, <2>6, <3>1, <3>2, <3>3, <3>4, <3>5, <3>6, <3>7 DEF ModelInv, Influences
  <2> QED
    BY <2>2, <2>7, <2>8 DEF CallInv
<1>6. CASE CertifyBatch(w)
  <2>1. FileInv'
    BY <1>6, <1>i, FilesKept DEF CertifyBatch
  <2>2. CASE Raise(w)
    BY <1>6, <2>1, <2>2, <1>i, CallEnds DEF CertifyBatch
  <2>3. CASE ~Raise(w)
    <3>1. /\ c.pc = "trained" /\ call'[w].refs = c.refs
          /\ call'[w].pc = "certified"
          /\ call'[w].known = c.known /\ call'[w].shard = c.shard
          /\ call'[w].from = c.from /\ call'[w].rows = c.rows
          /\ call'[w].tree = c.tree \ c.refs /\ call'[w].cur = c.cur
          /\ call'[w].model = c.model
      <4>1. /\ c.pc = "trained"
            /\ call'[w] = [c EXCEPT !.pc = "certified", !.tree = c.tree \ c.refs]
        BY <1>6, <2>3, <1>c DEF CertifyBatch
      <4> QED
        BY <4>1, <1>c DEF Call
    <3>2. UNCHANGED <<shardFile, routing, ckpt, preproc, torn, requested>>
      BY <1>6 DEF CertifyBatch, files
    <3>3. BatchInv(w)' /\ RowsInv(w)'
      BY <3>1, <3>2, <1>i DEF CallInv, BatchInv, RowsInv, Running, Phases
    <3>4. ModelInv(w)'
      BY <3>1, <3>2, <1>i DEF CallInv, ModelInv, Learned, Influences
    <3> QED
      BY <2>1, <3>3, <3>4 DEF CallInv
  <2> QED
    BY <2>2, <2>3
<1>7. CASE SaveRouting(w)
  <2>1. /\ c.pc = "certified" /\ WriteRouting(w, c.known \ c.refs)
        /\ torn' = torn \ {RoutingFile} /\ issued' = issued \cup ManifestsOf(c)
        /\ UNCHANGED <<shardFile, ckpt, preproc, requested>>
    BY <1>7 DEF SaveRouting
  <2>2. FileInv'
    BY <2>1, <1>i, RoutingWritten
  <2>3. call'[w].pc = "returned" /\ call'[w].refs = {}
    <3> DEFINE d == [Idle EXCEPT !.pc = "returned"]
    <3>1. call'[w] = d
      BY <1>7, <1>c DEF SaveRouting
    <3>2. d.pc = "returned" /\ d.refs = {}
      BY EndedType
    <3> QED
      BY <3>1, <3>2
  <2> QED
    BY <2>2, <2>3, QuietCall
<1>8. CASE Return(w)
  BY <1>8, <1>i, FilesKept, CallEnds DEF Return
<1>9. ASSUME Interrupted(w) PROVE FileInv'
  <2>1. CASE UNCHANGED files
    BY <1>9, <2>1, <1>i, FilesKept DEF Interrupted
  <2>2. CASE TornWrite(w)
    <3>1. ASSUME c.pc = "purged", NEW part \in SUBSET c.rows, WriteShard(w, part),
                 torn' = torn \cup {ShardFile(c.shard)},
                 UNCHANGED <<routing, ckpt, preproc>>
          PROVE  FileInv'
      BY <1>9, <3>1, <1>i, ShardWritten DEF Interrupted
    <3>2. ASSUME c.pc = "saved", NEW part \in SUBSET SliceZero(c.rows),
                 WritePreproc(w, part), torn' = torn \cup {PreprocFile(c.shard)},
                 UNCHANGED <<shardFile, routing, ckpt>>
          PROVE  FileInv'
      BY <1>9, <3>2, <1>i, PreprocWritten DEF Interrupted
    <3>3. ASSUME c.pc = "training", NEW part \in {FreshModel, NextModel(c)},
                 WriteCkpt(w, part), torn' = torn \cup {CkptFile(c.shard, c.cur)},
                 UNCHANGED <<shardFile, routing, preproc>>
          PROVE  FileInv'
      BY <1>9, <3>3, <1>i, CkptWritten DEF Interrupted
    <3>4. ASSUME c.pc = "certified", NEW part \in SUBSET (c.known \ c.refs),
                 WriteRouting(w, part), torn' = torn \cup {RoutingFile},
                 UNCHANGED <<shardFile, ckpt, preproc>>
          PROVE  FileInv'
      BY <1>9, <3>4, <1>i, RoutingWritten DEF Interrupted
    <3> QED
      BY <2>2, <3>1, <3>2, <3>3, <3>4 DEF TornWrite
  <2> QED
    BY <1>9, <2>1, <2>2 DEF Interrupted
<1>10. CASE IOFault(w)
  BY <1>10, <1>9, <1>i, CallEnds DEF IOFault, Fault, Interrupted
<1>11. CASE Crash(w)
  BY <1>11, <1>9, <1>i, CallEnds DEF Crash, Die, Interrupted
<1>12. CASE CrashAfter(w)
  BY <1>12, <1>i, FilesKept, CallEnds DEF CrashAfter, Die
<1> QED
  BY <1>1, <1>2, <1>3, <1>4, <1>5, <1>6, <1>7, <1>8, <1>10, <1>11, <1>12 DEF Rebuild

LEMMA Invariance == ASSUME Solo PROVE Spec => []IndInv
<1>1. IndInv /\ [Next]_vars => IndInv'
  BY IndStep
<1> QED
  BY IndInit, <1>1, PTL DEF Spec

-----------------------------------------------------------------------------
(* Safety theorems *)

\* With one worker, a subject whose manifest was returned, or that a readable
\* routing.json no longer lists, has no rows, no influence on any checkpoint and
\* no part in a preprocessor, through any crashes and exceptions in
\* rebuild_batch_by_ref.
THEOREM ErasedIsForgotten == ASSUME Solo PROVE Spec => []Forgotten
<1>1. IndInv => Forgotten
  BY DEF IndInv, FileInv
<1> QED
  BY Invariance, <1>1, PTL

\* With one worker, train_shard keeps every slice checkpoint free of later
\* slices and of other shards, so resuming from min_slice - 1 is sound.
THEOREM SlicesAreIsolated == ASSUME Solo PROVE Spec => []SliceIsolation
<1>1. IndInv => SliceIsolation
  BY DEF IndInv, FileInv
<1> QED
  BY Invariance, <1>1, PTL

\* With one worker, the root rebuild_batch_by_ref certifies is the set its last
\* slice step trained on, cached tree or not.
THEOREM RootsMatchTraining == ASSUME Solo PROVE Spec => []RootMatchesTraining
<1>1. IndInv => RootMatchesTraining
  BY DEF IndInv, FileInv
<1> QED
  BY Invariance, <1>1, PTL

\* With one worker, erasures never cost a subject nobody asked to erase its
\* routing entry, its rows or its part in the live model, but for the one file a
\* crash or an exception cut short while it was rewritten.
THEOREM NobodyElseIsLost == ASSUME Solo PROVE Spec => []OthersSurvive
<1>1. IndInv => OthersSurvive
  BY DEF IndInv, FileInv
<1> QED
  BY Invariance, <1>1, PTL

-----------------------------------------------------------------------------
(* The engine implements the contract *)

shardBar == {{s \in Subjects : ShardOf[s] = k} : k \in Shards}
rowsBar == UNION {shardFile[k] : k \in Shards}
learnedBar == {s \in Subjects : Learned(s)}
damagedBar == {s \in Subjects : Damaged(s)}
erasedBar == {s \in Subjects : Reported(s)}

\* Whoever has rows is learned, unless a damaged file stands in the way.
LEMMA RowsAreLearned ==
  ASSUME TypeOK, FileInv
  PROVE  rowsBar \in SUBSET Subjects /\ rowsBar \ damagedBar \subseteq learnedBar
<1> SUFFICES ASSUME NEW k \in Shards, NEW s \in shardFile[k]
             PROVE  s \in Subjects /\ (s \notin damagedBar => s \in learnedBar)
  BY DEF rowsBar
<1>1. s \in Subjects /\ ShardOf[s] = k
  BY DEF TypeOK, FileInv, Placement
<1>2. CASE CkptFile(k, Last) \notin torn
  <2>1. s \in ckpt[k][Last][Last].rows
    BY <1>2 DEF FileInv, LiveModelCoversRows
  <2> QED
    BY <1>1, <2>1, SliceFacts DEF learnedBar, Learned, Influences
<1>3. CASE CkptFile(k, Last) \in torn
  BY <1>1, <1>3 DEF damagedBar, Damaged
<1> QED
  BY <1>1, <1>2, <1>3

LEMMA RowsAreLearnedLater ==
  ASSUME TypeOK', FileInv'
  PROVE  rowsBar' \ damagedBar' \subseteq learnedBar'
<1> SUFFICES ASSUME NEW k \in Shards, NEW s \in shardFile'[k], s \notin damagedBar'
             PROVE  s \in learnedBar'
  BY DEF rowsBar
<1>1. s \in Subjects /\ ShardOf[s] = k
  BY DEF TypeOK, FileInv, Placement
<1>2. CkptFile(k, Last) \notin torn'
  BY <1>1 DEF damagedBar, Damaged
<1>3. s \in ckpt'[k][Last][Last].rows
  BY <1>2 DEF FileInv, LiveModelCoversRows
<1> QED
  BY <1>1, <1>3, SliceFacts DEF learnedBar, Learned, Influences

\* The subjects of one shard are those its own files can damage.
LEMMA OneShardDamaged ==
  ASSUME NEW k \in Shards,
         \A l \in Shards : l # k =>
           /\ ShardFile(l) \in torn' <=> ShardFile(l) \in torn
           /\ CkptFile(l, Last) \in torn' <=> CkptFile(l, Last) \in torn,
         ShardFile(k) \in torn' \/ CkptFile(k, Last) \in torn'
  PROVE  damagedBar' = damagedBar \cup {s \in Subjects : ShardOf[s] = k}
<1>1. \A s \in Subjects : ShardOf[s] = k => Damaged(s)'
  BY DEF Damaged
<1>2. \A s \in Subjects : ShardOf[s] # k => (Damaged(s)' <=> Damaged(s))
  BY FrozenAssignment DEF Damaged
<1> QED
  BY <1>1, <1>2 DEF damagedBar

\* A complete save_shard is a DropRows of the contract.
LEMMA PurgeRefines ==
  ASSUME TypeOK, FileInv, NEW w \in Workers, CallInv(w), call[w].pc = "purged",
         WriteShard(w, call[w].rows), torn' = torn \ {ShardFile(call[w].shard)},
         UNCHANGED <<ckpt, requested, issued>>
  PROVE  \E R \in SUBSET requested : Contract!DropRows(R)
<1> DEFINE c == call[w]
<1>1. /\ c.shard \in Shards /\ c.refs \in SUBSET Subjects /\ c.refs \subseteq requested
      /\ \A r \in c.refs : ShardOf[r] = c.shard
      /\ torn' = torn
  BY DEF TypeOK, Call, CallInv, BatchInv, RowsInv, Running, Phases
<1>2. /\ shardFile'[c.shard] = shardFile[c.shard] \ c.refs
      /\ \A k \in Shards : k # c.shard => shardFile'[k] = shardFile[k]
  BY <1>1 DEF WriteShard, TypeOK, CallInv, RowsInv
<1>3. \A k \in Shards : shardFile'[k] = shardFile[k] \ c.refs
  BY <1>1, <1>2 DEF FileInv, Placement
<1>4. rowsBar' = rowsBar \ c.refs
  BY <1>3 DEF rowsBar
<1>5. learnedBar' = learnedBar /\ erasedBar' = erasedBar /\ damagedBar' = damagedBar
  BY <1>1 DEF learnedBar, erasedBar, damagedBar, Learned, Influences, Reported, Damaged
<1>6. PICK R \in SUBSET requested : R = c.refs
  BY <1>1
<1>7. requested' = requested
  OBVIOUS
<1>8. Contract!DropRows(R)
  BY <1>4, <1>5, <1>6, <1>7
  DEF Contract!DropRows, rowsBar, learnedBar, erasedBar, damagedBar
<1> QED
  BY <1>8

\* A torn save_shard is a Damage of the contract.
LEMMA TornPurgeRefines ==
  ASSUME TypeOK, FileInv, FileInv', TypeOK', NEW w \in Workers, CallInv(w),
         call[w].pc = "purged", NEW part \in SUBSET call[w].rows, WriteShard(w, part),
         torn' = torn \cup {ShardFile(call[w].shard)},
         UNCHANGED <<ckpt, requested, issued>>
  PROVE  \E D \in shardBar : Contract!Damage(D)
<1> DEFINE c == call[w]
           hit == {s \in Subjects : ShardOf[s] = c.shard}
<1>1. /\ c.shard \in Shards /\ c.rows \subseteq shardFile[c.shard]
  BY DEF TypeOK, Call, CallInv, RowsInv
<1>2. /\ shardFile'[c.shard] = part /\ part \subseteq shardFile[c.shard]
      /\ \A k \in Shards : k # c.shard => shardFile'[k] = shardFile[k]
  BY <1>1 DEF WriteShard, TypeOK
<1>3. rowsBar' \in SUBSET rowsBar
  BY <1>1, <1>2 DEF rowsBar
<1>4. rowsBar \ hit \subseteq rowsBar'
  <2> SUFFICES ASSUME NEW k \in Shards, NEW s \in shardFile[k], s \notin hit
               PROVE  s \in rowsBar'
    BY DEF rowsBar
  <2>1. k # c.shard
    BY DEF TypeOK, FileInv, Placement
  <2> QED
    BY <1>2, <2>1 DEF rowsBar
<1>5. learnedBar' = learnedBar /\ erasedBar' = erasedBar
  BY DEF learnedBar, erasedBar, Learned, Influences, Reported
<1>6. damagedBar' = damagedBar \cup hit
  <2>1. \A l \in Shards : l # c.shard =>
          /\ ShardFile(l) # ShardFile(c.shard)
          /\ CkptFile(l, Last) # ShardFile(c.shard)
    BY <1>1, NamesDiffer, SliceFacts
  <2> QED
    BY <1>1, <2>1, OneShardDamaged
<1> HIDE DEF hit
<1>7. rowsBar \ damagedBar' \subseteq learnedBar'
  BY <1>5, <1>6, RowsAreLearned
<1>8. learnedBar' \in SUBSET (learnedBar \cup rowsBar)
  BY <1>5
<1>9. PICK D \in shardBar : D = hit
  BY <1>1 DEF hit, shardBar
<1>10. Contract!Damage(D)
  BY <1>3, <1>4, <1>5, <1>6, <1>7, <1>8, <1>9
  DEF Contract!Damage, rowsBar, learnedBar, damagedBar, erasedBar
<1> QED
  BY <1>10

\* Influence that a slice checkpoint brings was on disk before, in a model or in
\* rows; torch.save touches neither rows nor manifests.
LEMMA CkptInfluence ==
  ASSUME TypeOK, CursorOK, FileInv, NEW w \in Workers, CallInv(w),
         call[w].pc = "training",
         NEW part \in {FreshModel, NextModel(call[w])}, WriteCkpt(w, part),
         UNCHANGED <<shardFile, issued>>
  PROVE  /\ learnedBar' \in SUBSET (learnedBar \cup rowsBar)
         /\ rowsBar' = rowsBar /\ erasedBar' = erasedBar
<1> DEFINE c == call[w]
           n == NextModel(c)
<1>1. /\ n \in Weights /\ c.cur \in Slices /\ c.shard \in Shards
      /\ \A s \in Subjects : Influences(s, n) =>
           Influences(s, c.model) \/ s \in shardFile[c.shard]
  BY NextModelFacts
<1>2. /\ ckpt'[c.shard][c.cur] = part
      /\ \A k \in Shards, i \in Slices :
           <<k, i>> # <<c.shard, c.cur>> => ckpt'[k][i] = ckpt[k][i]
  BY <1>1 DEF WriteCkpt, TypeOK
<1>3. \A s \in Subjects : ~Influences(s, FreshModel)
  BY DEF Influences, FreshModel, NoStep
<1> HIDE DEF n
<1>4. ASSUME NEW s \in Subjects, Learned(s)' PROVE Learned(s) \/ s \in rowsBar
  <2>1. PICK k \in Shards, i \in Slices : Influences(s, ckpt'[k][i])
    BY <1>4 DEF Learned
  <2>2. CASE Influences(s, ckpt[k][i])
    BY <2>2 DEF Learned
  <2>3. CASE Influences(s, part)
    <3>1. Influences(s, n)
      BY <1>3, <2>3 DEF n
    <3>2. Influences(s, c.model) => Learned(s)
      BY DEF CallInv, ModelInv
    <3> QED
      BY <1>1, <3>1, <3>2 DEF rowsBar
  <2> QED
    BY <1>2, <2>1, <2>2, <2>3
<1>5. rowsBar' = rowsBar /\ erasedBar' = erasedBar
  BY DEF rowsBar, erasedBar, Reported
<1> QED
  BY <1>4, <1>5 DEF learnedBar

\* A complete torch.save of a slice is a Retrain of the contract.
LEMMA RetrainRefines ==
  ASSUME TypeOK, CursorOK, FileInv, FileInv', TypeOK', NEW w \in Workers, CallInv(w),
         call[w].pc = "training", WriteCkpt(w, NextModel(call[w])),
         torn' = torn \ {CkptFile(call[w].shard, call[w].cur)},
         UNCHANGED <<shardFile, requested, issued>>
  PROVE  Contract!Retrain
<1>1. /\ learnedBar' \in SUBSET (learnedBar \cup rowsBar)
      /\ rowsBar' = rowsBar /\ erasedBar' = erasedBar
  BY CkptInfluence
<1>2. damagedBar' \in SUBSET damagedBar
  BY DEF damagedBar, Damaged
<1>3. rowsBar \ damagedBar' \subseteq learnedBar'
  <2>1. rowsBar' \ damagedBar' \subseteq learnedBar'
    BY RowsAreLearnedLater
  <2> QED
    BY <1>1, <2>1
<1> QED
  BY <1>1, <1>2, <1>3 DEF Contract!Retrain, rowsBar, learnedBar, damagedBar, erasedBar

\* A torn one is a Damage if it is the live model, and else still a Retrain.
LEMMA TornRetrainRefines ==
  ASSUME TypeOK, CursorOK, FileInv, FileInv', TypeOK', NEW w \in Workers, CallInv(w),
         call[w].pc = "training",
         NEW part \in {FreshModel, NextModel(call[w])}, WriteCkpt(w, part),
         torn' = torn \cup {CkptFile(call[w].shard, call[w].cur)},
         UNCHANGED <<shardFile, requested, issued>>
  PROVE  Contract!Retrain \/ \E D \in shardBar : Contract!Damage(D)
<1> DEFINE c == call[w]
           hit == {s \in Subjects : ShardOf[s] = c.shard}
<1>1. /\ learnedBar' \in SUBSET (learnedBar \cup rowsBar)
      /\ rowsBar' = rowsBar /\ erasedBar' = erasedBar
  BY CkptInfluence
<1>2. c.shard \in Shards /\ c.cur \in Slices
  BY DEF TypeOK, CursorOK, Call
<1>3. rowsBar \ damagedBar' \subseteq learnedBar'
  <2>1. rowsBar' \ damagedBar' \subseteq learnedBar'
    BY RowsAreLearnedLater
  <2> QED
    BY <1>1, <2>1
<1>4. CASE c.cur = Last
  <2>1. damagedBar' = damagedBar \cup hit
    <3>1. \A l \in Shards : l # c.shard =>
            /\ ShardFile(l) # CkptFile(c.shard, c.cur)
            /\ CkptFile(l, Last) # CkptFile(c.shard, c.cur)
      BY <1>2, NamesDiffer, SliceFacts
    <3> QED
      BY <1>2, <1>4, <3>1, OneShardDamaged
  <2> HIDE DEF hit
  <2>2. PICK D \in shardBar : D = hit
    BY <1>2 DEF hit, shardBar
  <2>3. Contract!Damage(D)
    BY <1>1, <1>3, <2>1, <2>2 DEF Contract!Damage, rowsBar, learnedBar, damagedBar, erasedBar
  <2> QED
    BY <2>3
<1>5. CASE c.cur # Last
  <2>1. \A l \in Shards : /\ ShardFile(l) # CkptFile(c.shard, c.cur)
                          /\ CkptFile(l, Last) # CkptFile(c.shard, c.cur)
    BY <1>2, <1>5, NamesDiffer, SliceFacts
  <2>2. damagedBar' = damagedBar
    BY <2>1, FrozenAssignment DEF damagedBar, Damaged
  <2> QED
    BY <1>1, <1>3, <2>2 DEF Contract!Retrain, rowsBar, learnedBar, damagedBar, erasedBar
<1> QED
  BY <1>4, <1>5

\* A complete save_routing, with the manifests returned, is a StrikeOff.
LEMMA StrikeOffRefines ==
  ASSUME TypeOK, FileInv, NEW w \in Workers, CallInv(w), call[w].pc = "certified",
         torn' = torn \ {RoutingFile}, issued' = issued \cup ManifestsOf(call[w]),
         UNCHANGED <<shardFile, ckpt, requested>>
  PROVE  \E R \in SUBSET requested : Contract!StrikeOff(R)
<1> DEFINE c == call[w]
<1>1. c.refs \in SUBSET Subjects /\ c.refs \subseteq requested
  BY DEF TypeOK, Call, CallInv, BatchInv
<1>2. \A s \in c.refs : s \notin rowsBar /\ s \notin learnedBar
  BY BatchHasNoTrace DEF Traces, rowsBar, learnedBar
<1>3. rowsBar' = rowsBar /\ learnedBar' = learnedBar
  BY DEF rowsBar, learnedBar, Learned, Influences
<1>4. damagedBar' = damagedBar
  <2>1. \A k \in Shards : RoutingFile # ShardFile(k) /\ RoutingFile # CkptFile(k, Last)
    BY NamesDiffer, SliceFacts
  <2> QED
    BY <2>1, FrozenAssignment DEF damagedBar, Damaged
<1>5. erasedBar' = erasedBar \cup c.refs
  <2>1. \A s \in Subjects : s \in c.refs <=> \E m \in ManifestsOf(c) : m.subject = s
    <3> DEFINE m(r) == [subject |-> r, shard |-> c.shard, from |-> c.from,
                        root |-> c.tree, weights |-> c.model]
    <3>1. ManifestsOf(c) = {m(r) : r \in c.refs}
      BY DEF ManifestsOf
    <3>2. \A r : m(r).subject = r
      OBVIOUS
    <3> HIDE DEF m
    <3> QED
      BY <3>1, <3>2
  <2>2. \A s \in Subjects : Reported(s)' <=> Reported(s) \/ s \in c.refs
    BY <2>1 DEF Reported
  <2> QED
    BY <1>1, <2>2 DEF erasedBar
<1>6. Contract!StrikeOff(c.refs)
  BY <1>2, <1>3, <1>4, <1>5
  DEF Contract!StrikeOff, rowsBar, learnedBar, damagedBar, erasedBar
<1> QED
  BY <1>1, <1>6

LEMMA ContractInit == Init => Contract!Init
<1> SUFFICES ASSUME Init PROVE Contract!Init
  OBVIOUS
<1>1. TypeOK /\ FileInv
  BY IndInit DEF IndInv
<1>2. \A s \in Subjects : ShardOf[s] \in Shards /\ s \in shardFile[ShardOf[s]]
  BY FrozenAssignment DEF Init
<1>3. rowsBar = Subjects
  BY <1>1, <1>2 DEF TypeOK, rowsBar
<1>4. learnedBar = Subjects
  BY <1>1, <1>2, SliceFacts
  DEF Init, FileInv, LiveModelCoversRows, learnedBar, Learned, Influences
<1>5. erasedBar = {} /\ damagedBar = {} /\ requested = {}
  BY DEF Init, erasedBar, damagedBar, Reported, Damaged
<1> QED
  BY <1>3, <1>4, <1>5 DEF Contract!Init, rowsBar, learnedBar, damagedBar, erasedBar

LEMMA ContractStep ==
  ASSUME Solo, IndInv, [Next]_vars
  PROVE  [Contract!Next]_(Contract!vars)
<1> DEFINE Goal == [Contract!Next]_(Contract!vars)
<1> SUFFICES Goal
  OBVIOUS
<1>i. IndInv'
  BY IndStep
<1>1. (\E R \in SUBSET Subjects : Contract!Request(R)) => Goal
  BY DEF Contract!Next
<1>2. Contract!Retrain => Goal
  BY DEF Contract!Next
<1>3. (\E D \in shardBar : Contract!Damage(D)) => Goal
  BY DEF Contract!Next, shardBar
<1>4. (\E R \in SUBSET requested : Contract!DropRows(R)) => Goal
  BY DEF Contract!Next
<1>5. (\E R \in SUBSET requested : Contract!StrikeOff(R)) => Goal
  BY DEF Contract!Next
<1>6. ASSUME UNCHANGED <<shardFile, ckpt, issued>>,
             UNCHANGED torn
               \/ torn' = torn \cup {RoutingFile}
               \/ \E k \in Shards : \/ torn' = torn \ {PreprocFile(k)}
                                     \/ torn' = torn \cup {PreprocFile(k)}
      PROVE  /\ rowsBar' = rowsBar /\ learnedBar' = learnedBar
             /\ damagedBar' = damagedBar /\ erasedBar' = erasedBar
  <2>1. rowsBar' = rowsBar /\ learnedBar' = learnedBar /\ erasedBar' = erasedBar
    BY <1>6 DEF rowsBar, learnedBar, erasedBar, Learned, Influences, Reported
  <2>2. \A k \in Shards : /\ ShardFile(k) \in torn' <=> ShardFile(k) \in torn
                          /\ CkptFile(k, Last) \in torn' <=> CkptFile(k, Last) \in torn
    <3>1. \A k, l \in Shards :
            /\ RoutingFile \notin {ShardFile(k), CkptFile(k, Last)}
            /\ PreprocFile(l) \notin {ShardFile(k), CkptFile(k, Last)}
      BY NamesDiffer, SliceFacts
    <3> QED
      BY <1>6, <3>1
  <2>3. damagedBar' = damagedBar
    <3>1. \A s \in Subjects : ShardOf[s] \in Shards
      BY FrozenAssignment
    <3>2. \A s \in Subjects : Damaged(s)' <=> Damaged(s)
      BY <2>2, <3>1 DEF Damaged
    <3> QED
      BY <3>2 DEF damagedBar
  <2> QED
    BY <2>1, <2>3
<1>7. ASSUME UNCHANGED <<shardFile, ckpt, issued, requested>>,
             UNCHANGED torn
               \/ torn' = torn \cup {RoutingFile}
               \/ \E k \in Shards : \/ torn' = torn \ {PreprocFile(k)}
                                     \/ torn' = torn \cup {PreprocFile(k)}
      PROVE  Goal
  BY <1>6, <1>7 DEF Contract!vars, rowsBar, learnedBar, damagedBar, erasedBar
<1> HIDE DEF Goal
<1>s. CASE UNCHANGED vars
  BY <1>s, <1>7 DEF vars, files
<1>n. CASE Next
  <2> PICK w \in Workers :
        \/ \E R \in (SUBSET Subjects) \ {{}} : BeginRebuild(w, R)
        \/ Rebuild(w) \/ IOFault(w) \/ Crash(w) \/ CrashAfter(w)
    BY <1>n DEF Next
  <2>c. /\ TypeOK /\ CursorOK /\ FileInv /\ CallInv(w) /\ TypeOK' /\ FileInv'
        /\ call[w].shard \in Shards
    BY <1>i DEF IndInv, TypeOK, Call
  <2>1. ASSUME NEW R \in (SUBSET Subjects) \ {{}}, BeginRebuild(w, R)
        PROVE  Goal
    <3>1. UNCHANGED <<shardFile, ckpt, issued, torn>> /\ requested' = requested \cup R
      BY <2>1 DEF BeginRebuild, files
    <3>2. Contract!Request(R)
      BY <1>6, <3>1 DEF Contract!Request, rowsBar, learnedBar, damagedBar, erasedBar
    <3> QED
      BY <1>1, <3>2
  <2>2. CASE (\E dup \in BOOLEAN : LoadShard(w, dup)) \/ CertifyBatch(w) \/ Return(w)
               \/ CrashAfter(w)
    BY <2>2, <1>7 DEF LoadShard, CertifyBatch, Return, CrashAfter, files
  <2>3. CASE SaveShard(w)
    BY <2>3, <2>c, <1>4, PurgeRefines DEF SaveShard
  <2>4. CASE StartTraining(w)
    BY <2>4, <2>c, <1>7 DEF StartTraining
  <2>5. CASE TrainSlice(w)
    BY <2>5, <2>c, <1>2, RetrainRefines DEF TrainSlice
  <2>6. CASE SaveRouting(w)
    BY <2>6, <2>c, <1>5, StrikeOffRefines DEF SaveRouting
  <2>7. CASE Interrupted(w)
    <3>0. UNCHANGED <<requested, issued>>
      BY <2>7 DEF Interrupted
    <3>1. CASE UNCHANGED files
      BY <3>0, <3>1, <1>7 DEF files
    <3>2. ASSUME call[w].pc = "purged", NEW part \in SUBSET call[w].rows,
                 WriteShard(w, part), torn' = torn \cup {ShardFile(call[w].shard)},
                 UNCHANGED ckpt
          PROVE  Goal
      BY <3>0, <3>2, <2>c, <1>3, TornPurgeRefines
    <3>3. ASSUME torn' = torn \cup {PreprocFile(call[w].shard)},
                 UNCHANGED <<shardFile, ckpt>>
          PROVE  Goal
      BY <3>0, <3>3, <2>c, <1>7
    <3>4. ASSUME call[w].pc = "training",
                 NEW part \in {FreshModel, NextModel(call[w])}, WriteCkpt(w, part),
                 torn' = torn \cup {CkptFile(call[w].shard, call[w].cur)},
                 UNCHANGED shardFile
          PROVE  Goal
      BY <3>0, <3>4, <2>c, <1>2, <1>3, TornRetrainRefines
    <3>5. ASSUME torn' = torn \cup {RoutingFile}, UNCHANGED <<shardFile, ckpt>>
          PROVE  Goal
      BY <3>0, <3>5, <1>7
    <3>6. CASE TornWrite(w)
      BY <3>2, <3>3, <3>4, <3>5, <3>6 DEF TornWrite
    <3> QED
      BY <2>7, <3>1, <3>6 DEF Interrupted
  <2> QED
    BY <2>1, <2>2, <2>3, <2>4, <2>5, <2>6, <2>7 DEF Rebuild, IOFault, Crash
<1> QED
  BY <1>s, <1>n DEF Goal

\* With one worker, every behaviour of the engine is a behaviour of the
\* contract: rows only ever leave, influence comes back only from rows, a write
\* cut short costs at most one shard, nobody else leaves unasked, and a manifest
\* is returned only for who has left no trace.
THEOREM EngineKeepsContract == ASSUME Solo PROVE Spec => KeepsContract
<1>1. IndInv /\ [Next]_vars => [Contract!Next]_(Contract!vars)
  BY ContractStep
<1> QED
  BY ContractInit, Invariance, <1>1, PTL DEF Spec, KeepsContract, Contract!Spec

=============================================================================
