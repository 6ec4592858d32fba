------------------------ MODULE ErasureSystemProofs -------------------------
(***************************************************************************)
(* What holds of the whole path from request to served model, for any      *)
(* principals, keys, subjects, shards, workers, batch size and number of   *)
(* kills, I/O errors and failing statements.                               *)
(***************************************************************************)
EXTENDS ErasureSystem, JobQueueProofs

SystemInv == TypeInv /\ SystemTypeOK

-----------------------------------------------------------------------------
(* Data *)

LEMMA NoTxType == NoTx \in Tx
<1>1. (CHOOSE k \in Shards : TRUE) \in Shards
  BY SomeShard
<1> QED
  BY <1>1 DEF NoTx, Tx

\* The fields of a transaction, one by one.
LEMMA TxFields ==
  ASSUME NEW t \in Tx
  PROVE  /\ t.todo \in SUBSET Shards /\ t.phase \in {"rebuild", "book", "spot"}
         /\ t.shard \in Shards /\ t.digest \in SUBSET Subjects
         /\ t.ok \in SUBSET Shards /\ t.new \in SUBSET Version
         /\ t.start \in Nat /\ t.aborted \in BOOLEAN
BY DEF Tx

LEMMA BaselineType == Baseline \in Version
BY DEF Baseline, Version, InShard

LEMMA ExecuteType ==
  ASSUME SystemTypeOK, NEW w \in Workers, NEW t \in Tx, Execute(w, t)
  PROVE  tx' \in [Workers -> Tx] /\ clock' \in Nat
<1>1. StartTime(w) \in Nat /\ clock' \in Nat
  BY TxFields DEF StartTime, Execute, SystemTypeOK
<1>2. [t EXCEPT !.start = StartTime(w)] \in Tx
  BY <1>1 DEF Tx
<1> QED
  BY <1>1, <1>2 DEF Execute, SystemTypeOK

LEMMA PromotionType ==
  ASSUME SystemTypeOK, NEW w \in Workers, NEW base \in CarriedFrom(w)
  PROVE  NewVersions(w, base) \in SUBSET Version
<1>1. tx[w] \in Tx
  BY DEF SystemTypeOK
<1>2. base \in Version
  BY <1>1, TxFields DEF CarriedFrom, Newest, SystemTypeOK
<1>3. StartTime(w) \in Nat
  BY <1>1, TxFields DEF StartTime, SystemTypeOK
<1>4. [base.cks EXCEPT ![tx[w].shard] = tx[w].digest] \in [Shards -> SUBSET Subjects]
  BY <1>1, <1>2, TxFields DEF Version
<1> QED
  BY <1>1, <1>3, <1>4, TxFields DEF NewVersions, Promotion, Version

LEMMA PromotedType ==
  ASSUME SystemTypeOK, NEW w \in Workers
  PROVE  /\ Promoted(tx[w].shard, tx[w].digest) \subseteq CasFile
         /\ \A C \in CutShort(tx[w].shard, tx[w].digest) : C \subseteq CasFile
<1>1. tx[w] \in Tx
  BY DEF SystemTypeOK
<1>2. tx[w].shard \in Shards /\ tx[w].digest \in SUBSET Subjects
      /\ live[tx[w].shard] \in SUBSET Subjects /\ cas \subseteq CasFile
  BY <1>1, TxFields DEF SystemTypeOK
<1>3. Copy(tx[w].shard, tx[w].digest) \in CasFile
  BY <1>2 DEF Copy, CasFile
<1>4. \A part \in SUBSET live[tx[w].shard] :
        [Copy(tx[w].shard, tx[w].digest) EXCEPT !.content = part, !.whole = FALSE] \in CasFile
  BY <1>2 DEF Copy, CasFile
<1> QED
  BY <1>2, <1>3, <1>4 DEF Promoted, CutShort

LEMMA EscapesType ==
  ASSUME SystemTypeOK, NEW w \in Workers, Escapes(w)
  PROVE  /\ tx' \in [Workers -> Tx] /\ clock' \in Nat /\ versions' \subseteq Version
         /\ Crash(w)
BY NoTxType DEF Escapes, SystemTypeOK

LEMMA MarkFailedType ==
  ASSUME SystemTypeOK, NEW w \in Workers, NEW k \in Shards, MarkFailed(w, k)
  PROVE  /\ tx' \in [Workers -> Tx] /\ clock' \in Nat /\ versions' \subseteq Version
         /\ Crash(w) \/ UNCHANGED queueVars
<1>1. CASE tx[w].aborted
  BY <1>1, EscapesType DEF MarkFailed
<1>2. CASE ~tx[w].aborted
  <2>1. tx[w] \in Tx /\ tx[w].todo \ {k} \in SUBSET Shards
    BY TxFields DEF SystemTypeOK
  <2>2. [tx[w] EXCEPT !.todo = @ \ {k}, !.phase = "rebuild"] \in Tx
    BY <2>1 DEF Tx
  <2>3. UNCHANGED <<queueVars, versions>>
    BY <1>2 DEF MarkFailed
  <2> QED
    BY <1>2, <2>2, <2>3, ExecuteType DEF MarkFailed, SystemTypeOK
<1> QED
  BY <1>1, <1>2

-----------------------------------------------------------------------------
(* The system implements the queue *)

\* A step of the system is a step of JobQueue or none: only Finish commits.
LEMMA QueueStep ==
  ASSUME SystemTypeOK, [SystemNext]_sysVars
  PROVE  [QueueNext]_queueVars
<1>1. CASE UNCHANGED sysVars
  BY <1>1 DEF sysVars
<1>2. ASSUME NEW w \in Workers, Crash(w) PROVE QueueNext
  BY <1>2 DEF QueueNext
<1>3. ASSUME NEW r \in Request, Intake(r) PROVE QueueNext
  BY <1>3 DEF Intake, QueueNext
<1>4. ASSUME NEW j \in JobIds, Expiry(j) PROVE QueueNext
  BY <1>4 DEF Expiry, QueueNext
<1>5. ASSUME NEW w \in Workers, NEW k \in Shards,
             RebuildRefused(w, k) \/ RebuildDone(w, k) \/ RebuildBrokenOff(w, k)
      PROVE  [QueueNext]_queueVars
  BY <1>2, <1>5, MarkFailedType DEF RebuildRefused, RebuildDone, RebuildBrokenOff
<1>6. ASSUME NEW w \in Workers,
             Record(w) \/ RecordFails(w) \/ SpotCheck(w) \/ SpotCheckAborts(w)
      PROVE  UNCHANGED queueVars
  BY <1>6 DEF Record, RecordFails, SpotCheck, SpotCheckAborts
<1>7. ASSUME NEW w \in Workers, RecordAborts(w) \/ Killed(w)
      PROVE  QueueNext
  BY <1>2, <1>7 DEF RecordAborts, Killed, Escapes
<1>8. ASSUME NEW w \in Workers, Claim(w) \/ Start(w) PROVE QueueNext
  BY <1>8 DEF Claim, Start, QueueNext
<1>9. ASSUME NEW w \in Workers, Finish(w) PROVE QueueNext
  <2>1. tx[w].ok \in SUBSET Shards
    BY TxFields DEF SystemTypeOK
  <2> QED
    BY <1>9, <2>1 DEF Finish, QueueNext, Settle
<1> QED
  BY <1>1, <1>3, <1>4, <1>5, <1>6, <1>7, <1>8, <1>9 DEF SystemNext

LEMMA SystemTypeInit == SystemInit => SystemInv
<1> SUFFICES ASSUME SystemInit PROVE SystemInv
  OBVIOUS
<1>1. TypeInv
  BY TypeInit DEF SystemInit
<1>2. tx \in [Workers -> Tx] /\ versions \subseteq Version
  BY NoTxType, BaselineType DEF SystemInit
<1>3. live \in [Shards -> SUBSET Subjects]
  BY DEF SystemInit, InShard
<1>4. cas \subseteq CasFile
  <2>1. \A k \in Shards : InShard(k) \in SUBSET Subjects
    BY DEF InShard
  <2>2. \A k \in Shards :
          [shard |-> k, digest |-> InShard(k), content |-> InShard(k), whole |-> TRUE]
            \in CasFile
    BY <2>1 DEF CasFile
  <2>3. \A f \in cas : f \in CasFile
    BY <2>2 DEF SystemInit
  <2> QED
    BY <2>3
<1>5. kills \in 0 .. MaxKills /\ faults \in 0 .. MaxFaults /\ sqlFaults \in 0 .. MaxSqlFaults
  BY LossBudget DEF SystemInit
<1> QED
  BY <1>1, <1>2, <1>3, <1>4, <1>5 DEF SystemInit, SystemInv, SystemTypeOK

\* The disk stays well typed under a rebuild of shard k.
LEMMA RebuildTypes ==
  ASSUME SystemInv, NEW w \in Workers, NEW k \in Shards
  PROVE  /\ rows \ Refs(w, k) \subseteq Subjects
         /\ RoutedAfter(w, k) \subseteq Subjects
         /\ Retained(w, k) \in SUBSET Subjects
         /\ [live EXCEPT ![k] = Retained(w, k)] \in [Shards -> SUBSET Subjects]
BY DEF SystemInv, SystemTypeOK, RoutedAfter, Retained, InShard

\* ... and wherever it is broken off.
LEMMA PartWayTypes ==
  ASSUME SystemInv, NEW w \in Workers, NEW k \in Shards, PartWay(w, k)
  PROVE  /\ rows' \subseteq Subjects /\ routed' \subseteq Subjects
         /\ live' \in [Shards -> SUBSET Subjects]
BY RebuildTypes DEF PartWay, Rewritten, SystemInv, SystemTypeOK

LEMMA SystemTypeStep == SystemInv /\ [SystemNext]_sysVars => SystemInv'
<1> SUFFICES ASSUME SystemInv, [SystemNext]_sysVars PROVE SystemInv'
  OBVIOUS
<1> USE DEF diskVars, budgets
<1>t. SystemTypeOK /\ TypeInv /\ TypeInv'
  BY QueueStep, TypeStep DEF SystemInv
<1>u. \A w \in Workers : tx[w] \in Tx
  BY <1>t DEF SystemTypeOK
<1>n. \A w \in Workers : [tx EXCEPT ![w] = NoTx] \in [Workers -> Tx]
  BY <1>t, NoTxType DEF SystemTypeOK
<1>1. CASE UNCHANGED sysVars
  BY <1>t, <1>1 DEF sysVars, SystemInv, SystemTypeOK
<1>2. CASE (\E r \in Request : Intake(r)) \/ (\E j \in JobIds : Expiry(j))
             \/ (\E w \in Workers : Start(w))
  BY <1>t, <1>2 DEF Intake, Expiry, Start, Outside, SystemInv, SystemTypeOK
<1>3. ASSUME NEW w \in Workers, Claim(w) PROVE SystemTypeOK'
  <2>1. \A j \in Created : ShardOfJob(j) \in Shards
    <3>1. \A j \in Created : job[j].req.subject \in Subjects
      BY <1>t, RowShape DEF TypeInv, Request
    <3> QED
      BY <3>1, QueueShards DEF ShardOfJob
  <2>2. {ShardOfJob(j) : j \in Batch} \in SUBSET Shards
    BY <1>t, <2>1, ClaimableCreated DEF TypeInv
  <2>3. [NoTx EXCEPT !.todo = {ShardOfJob(j) : j \in Batch}] \in Tx
    BY <2>2, NoTxType DEF Tx
  <2>4. tx' \in [Workers -> Tx]
    BY <1>t, <1>3, <2>3 DEF Claim, SystemTypeOK
  <2> QED
    BY <1>t, <1>3, <2>4 DEF Claim, Outside, SystemTypeOK
<1>4. ASSUME NEW w \in Workers, NEW k \in Shards, RebuildRefused(w, k)
      PROVE  SystemTypeOK'
  BY <1>t, <1>4, MarkFailedType, RebuildTypes
     DEF RebuildRefused, TreesNoticeLate, Rewritten, SystemInv, SystemTypeOK
<1>5. ASSUME NEW w \in Workers, NEW k \in Shards, RebuildDone(w, k)
      PROVE  SystemTypeOK'
  <2>1. [tx[w] EXCEPT !.phase = "book", !.shard = k, !.digest = Retained(w, k)] \in Tx
    <3>1. tx[w] \in Tx /\ Retained(w, k) \in SUBSET Subjects
      BY <1>u, RebuildTypes
    <3> QED
      BY <3>1 DEF Tx
  <2>2. tx' = [tx EXCEPT ![w] = [tx[w] EXCEPT !.phase = "book", !.shard = k,
                                              !.digest = Retained(w, k)]]
    BY <1>5 DEF RebuildDone
  <2>3. tx' \in [Workers -> Tx]
    BY <1>t, <2>1, <2>2 DEF SystemTypeOK
  <2> QED
    BY <1>t, <1>5, <2>3, RebuildTypes DEF RebuildDone, Rewritten, SystemTypeOK
<1>6. ASSUME NEW w \in Workers, NEW k \in Shards, RebuildBrokenOff(w, k)
      PROVE  SystemTypeOK'
  <2>1. faults' \in 0 .. MaxFaults
    BY <1>t, <1>6, LossBudget DEF RebuildBrokenOff, SystemTypeOK
  <2> QED
    BY <1>t, <1>6, <2>1, MarkFailedType, RebuildTypes, PartWayTypes
     DEF RebuildBrokenOff, SystemTypeOK
<1>7. ASSUME NEW w \in Workers, Record(w) PROVE SystemTypeOK'
  <2>1. PICK base \in CarriedFrom(w) :
          Execute(w, [tx[w] EXCEPT !.phase = "spot", !.ok = @ \cup {tx[w].shard},
                                   !.new = @ \cup NewVersions(w, base)])
    BY <1>7 DEF Record
  <2>2. NewVersions(w, base) \in SUBSET Version
    BY <1>t, PromotionType
  <2>3. [tx[w] EXCEPT !.phase = "spot", !.ok = @ \cup {tx[w].shard},
                      !.new = @ \cup NewVersions(w, base)] \in Tx
    <3>1. tx[w] \in Tx
      BY <1>u
    <3> QED
      BY <2>2, <3>1 DEF Tx
  <2>4. tx' \in [Workers -> Tx] /\ clock' \in Nat
    BY <1>t, <2>1, <2>3, ExecuteType
  <2> QED
    BY <1>t, <1>7, <2>4, PromotedType DEF Record, SystemTypeOK
<1>8. ASSUME NEW w \in Workers, RecordFails(w) PROVE SystemTypeOK'
  <2>1. faults' \in 0 .. MaxFaults
    <3>1. faults < MaxFaults /\ faults' = faults + 1
      BY <1>8 DEF RecordFails
    <3> QED
      BY <1>t, <3>1, LossBudget DEF SystemTypeOK
  <2>2. [tx[w] EXCEPT !.phase = "rebuild", !.todo = @ \ {tx[w].shard}] \in Tx
    BY <1>u DEF Tx
  <2>3. \A base \in CarriedFrom(w) :
          [tx[w] EXCEPT !.phase = "rebuild", !.todo = @ \ {tx[w].shard},
                        !.new = @ \cup NewVersions(w, base)] \in Tx
    <3> SUFFICES ASSUME NEW base \in CarriedFrom(w)
                 PROVE  [tx[w] EXCEPT !.phase = "rebuild", !.todo = @ \ {tx[w].shard},
                                      !.new = @ \cup NewVersions(w, base)] \in Tx
      OBVIOUS
    <3>1. NewVersions(w, base) \in SUBSET Version
      BY <1>t, PromotionType
    <3> QED
      <4>1. tx[w] \in Tx
        BY <1>u
      <4> QED
        BY <3>1, <4>1 DEF Tx
  <2>4. tx' \in [Workers -> Tx] /\ clock' \in Nat
    BY <1>t, <1>8, <2>2, <2>3, ExecuteType DEF RecordFails
  <2> QED
    BY <1>t, <1>8, <2>1, <2>4, PromotedType DEF RecordFails, SystemTypeOK
<1>9. ASSUME NEW w \in Workers, RecordAborts(w) PROVE SystemTypeOK'
  <2>1. sqlFaults' \in 0 .. MaxSqlFaults /\ faults' \in 0 .. MaxFaults
    <3>1. \/ UNCHANGED <<faults, sqlFaults>>
          \/ sqlFaults < MaxSqlFaults /\ sqlFaults' = sqlFaults + 1 /\ UNCHANGED faults
          \/ faults < MaxFaults /\ faults' = faults + 1 /\ UNCHANGED sqlFaults
      BY <1>9 DEF RecordAborts
    <3> QED
      BY <1>t, <3>1, LossBudget DEF SystemTypeOK
  <2> QED
    BY <1>t, <1>9, <2>1, EscapesType, PromotedType DEF RecordAborts, SystemTypeOK
<1>10. ASSUME NEW w \in Workers, SpotCheck(w) \/ SpotCheckAborts(w) PROVE SystemTypeOK'
  <2>1. sqlFaults' \in 0 .. MaxSqlFaults
    BY <1>t, <1>10, LossBudget DEF SpotCheck, SpotCheckAborts, SystemTypeOK
  <2>2. /\ [tx[w] EXCEPT !.phase = "rebuild", !.todo = @ \ {tx[w].shard}] \in Tx
        /\ [tx[w] EXCEPT !.phase = "rebuild", !.todo = @ \ {tx[w].shard},
                         !.aborted = TRUE] \in Tx
    BY <1>u DEF Tx
  <2>3. tx' \in [Workers -> Tx]
    BY <1>t, <1>10, <2>2 DEF SpotCheck, SpotCheckAborts, SystemTypeOK
  <2> QED
    BY <1>t, <1>10, <2>1, <2>3 DEF SpotCheck, SpotCheckAborts, SystemTypeOK
<1>11. ASSUME NEW w \in Workers, Finish(w) PROVE SystemTypeOK'
  <2>1. versions' \subseteq Version
    BY <1>t, <1>u, <1>11, TxFields DEF Finish, SystemTypeOK
  <2> QED
    BY <1>t, <1>n, <1>11, <2>1 DEF Finish, SystemTypeOK
<1>12. ASSUME NEW w \in Workers, Killed(w) PROVE SystemTypeOK'
  <2>1. kills' \in 0 .. MaxKills
    BY <1>t, <1>12, LossBudget DEF Killed, SystemTypeOK
  <2>2. /\ rows' \subseteq Subjects /\ routed' \subseteq Subjects
        /\ live' \in [Shards -> SUBSET Subjects]
    BY <1>t, <1>12, PartWayTypes DEF Killed, SystemTypeOK
  <2>3. cas' \subseteq CasFile
    BY <1>t, <1>12, PromotedType DEF Killed, SystemTypeOK
  <2> QED
    BY <1>t, <1>12, <2>1, <2>2, <2>3, EscapesType DEF Killed, SystemTypeOK
<1> QED
  BY <1>t, <1>1, <1>2, <1>3, <1>4, <1>5, <1>6, <1>7, <1>8, <1>9, <1>10, <1>11, <1>12
     DEF SystemNext, SystemInv

LEMMA SystemInvariant == SystemSpec => []SystemInv
BY SystemTypeInit, SystemTypeStep, PTL DEF SystemSpec

\* Every state of the whole system is well formed: every version row names a
\* checkpoint for every shard, which is what lets predict load an ensemble.
THEOREM SystemTypeCorrect == SystemSpec => []SystemTypeOK
<1>1. SystemInv => SystemTypeOK
  BY DEF SystemInv
<1> QED
  BY <1>1, SystemInvariant, PTL

\* The whole system implements the job queue: whatever is proved of QueueSpec
\* holds of the deployed worker, its rebuilds, promotions and failures included.
THEOREM SystemKeepsQueue == SystemSpec => KeepsQueue
<1>1. SystemInit => QueueInit
  BY DEF SystemInit
<1>2. SystemInv /\ [SystemNext]_sysVars => [QueueNext]_queueVars
  BY QueueStep DEF SystemInv
<1> QED
  BY <1>1, <1>2, SystemInvariant, PTL DEF SystemSpec, KeepsQueue, QueueSpec

-----------------------------------------------------------------------------
(* How a batch ends *)

\* What the steps of the system but Finish do to the queue.
LEMMA BatchKinds ==
  ASSUME SystemTypeOK, [SystemNext]_sysVars
  PROVE  \/ UNCHANGED queueVars
         \/ \E r \in Request : CreateErasure(r)
         \/ \E j \in JobIds : LeaseExpires(j)
         \/ \E w \in Workers : Poll(w) \/ Restart(w) \/ Finish(w)
         \/ \E w \in Workers : /\ Die(w)
                               /\ kills' > 0 \/ sqlFaults' > 0 \/ tx[w].aborted
<1>t. kills \in Nat /\ sqlFaults \in Nat
  BY LossBudget DEF SystemTypeOK
<1>1. CASE UNCHANGED sysVars
  BY <1>1 DEF sysVars
<1>2. ASSUME NEW w \in Workers, NEW k \in Shards, MarkFailed(w, k)
      PROVE  UNCHANGED queueVars \/ (Die(w) /\ tx[w].aborted)
  BY <1>2 DEF MarkFailed, Escapes, Crash
<1>3. ASSUME NEW w \in Workers, RecordAborts(w)
      PROVE  Die(w) /\ (sqlFaults' > 0 \/ tx[w].aborted)
  BY <1>t, <1>3 DEF RecordAborts, Escapes, Crash
<1>4. ASSUME NEW w \in Workers, Killed(w) PROVE Die(w) /\ kills' > 0
  BY <1>t, <1>4 DEF Killed, Escapes, Crash
<1>5. ASSUME NEW w \in Workers,
             \/ Record(w) \/ RecordFails(w) \/ SpotCheck(w) \/ SpotCheckAborts(w)
             \/ \E k \in Shards : RebuildDone(w, k)
      PROVE  UNCHANGED queueVars
  BY <1>5 DEF Record, RecordFails, SpotCheck, SpotCheckAborts, RebuildDone
<1> QED
  BY <1>1, <1>2, <1>3, <1>4, <1>5
     DEF SystemNext, Intake, Expiry, Start, Claim, RebuildRefused, RebuildBrokenOff

\* Somebody is at work on every job that says so.
Attended == \A j \in With("processing") : ~Abandoned(j)

LEMMA PollAttends ==
  ASSUME TypeInv, Attended, NEW w \in Workers, Poll(w)
  PROVE  Attended'
<1> SUFFICES ASSUME NEW j \in JobIds, job'[j].status = "processing"
             PROVE  \E v \in Workers : j \in held'[v]
  BY DEF Attended, With, Abandoned
<1>1. held'[w] = Batch /\ held[w] = {} /\ \A v \in Workers \ {w} : held'[v] = held[v]
  BY DEF Poll, TypeInv, QueueTypeOK
<1>2. CASE j \in Batch
  BY <1>1, <1>2
<1>3. CASE j \notin Batch
  <2>1. ~Reaped(j)
    <3>1. SUFFICES ASSUME Reaped(j) PROVE FALSE
      OBVIOUS
    <3>2. job'[j] = Requeued(job[j]) /\ job[j] \in Row
      BY <1>3, <3>1, RowShape DEF Poll, Reaped, Created, TypeInv
    <3> QED
      BY <3>2, UpdatedFields
  <2>2. job'[j] = job[j]
    BY <1>3, <2>1 DEF Poll
  <2>3. PICK v \in Workers : j \in held[v]
    BY <2>2 DEF Attended, With, Abandoned
  <2> QED
    BY <1>1, <2>3
<1> QED
  BY <1>2, <1>3

\* Whoever else holds them, the jobs of a committed batch are done or failed.
LEMMA CommitSettles ==
  ASSUME TypeInv, NEW w \in Workers, NEW ok, Commit(w, ok), NEW j \in held[w]
  PROVE  job'[j].status = IF j \in DoneBy(w, ok) THEN "done" ELSE "failed"
<1>1. job[j] \in Row /\ j \in JobIds
  BY RowShape DEF TypeInv, HeldCreated, Created
<1>2. job'[j] = Settled(job[j], IF j \in DoneBy(w, ok) THEN "done" ELSE "failed")
  BY <1>1 DEF Commit
<1> QED
  BY <1>1, <1>2, UpdatedFields

LEMMA CommitAttends ==
  ASSUME TypeInv, Attended, NEW w \in Workers, NEW ok, Commit(w, ok)
  PROVE  Attended'
<1>1. \A v \in Workers \ {w} : held'[v] = held[v]
  BY DEF Commit, TypeInv, QueueTypeOK
<1> SUFFICES ASSUME NEW j \in JobIds, job'[j].status = "processing"
             PROVE  \E v \in Workers : j \in held'[v]
  BY DEF Attended, With, Abandoned
<1>2. j \notin held[w]
  BY CommitSettles
<1>3. job'[j] = job[j]
  BY <1>2 DEF Commit
<1>4. PICK v \in Workers : j \in held[v]
  BY <1>3 DEF Attended, With, Abandoned
<1> QED
  BY <1>1, <1>2, <1>4

\* Only a failed statement aborts a transaction.
AbortsBySql == sqlFaults = 0 => \A w \in Workers : ~tx[w].aborted

LEMMA AbortsStep ==
  ASSUME SystemTypeOK, AbortsBySql, [SystemNext]_sysVars
  PROVE  AbortsBySql' /\ kills' >= kills /\ sqlFaults' >= sqlFaults
<1> USE DEF budgets
<1>t. /\ tx \in [Workers -> Tx] /\ NoTx \in Tx
      /\ kills \in Nat /\ sqlFaults \in Nat
  BY NoTxType, LossBudget DEF SystemTypeOK
<1>d. ~NoTx.aborted
  BY DEF NoTx
<1>1. CASE UNCHANGED sysVars
  BY <1>t, <1>1 DEF sysVars, AbortsBySql
<1>2. CASE (\E r \in Request : Intake(r)) \/ (\E j \in JobIds : Expiry(j))
             \/ (\E w \in Workers : Start(w))
  BY <1>t, <1>2 DEF Intake, Expiry, Start, Outside, AbortsBySql
<1>3. ASSUME NEW w \in Workers, tx' = [tx EXCEPT ![w] = NoTx]
      PROVE  \A v \in Workers : tx'[v].aborted => tx[v].aborted
  BY <1>t, <1>d, <1>3
<1>4. ASSUME NEW w \in Workers, NEW t \in Tx, Execute(w, t), t.aborted = tx[w].aborted
      PROVE  \A v \in Workers : tx'[v].aborted => tx[v].aborted
  <2>1. [t EXCEPT !.start = StartTime(w)].aborted = t.aborted
    BY DEF Tx
  <2> QED
    BY <1>t, <1>4, <2>1 DEF Execute
<1>5. ASSUME NEW w \in Workers, NEW k \in Shards, MarkFailed(w, k)
      PROVE  \A v \in Workers : tx'[v].aborted => tx[v].aborted
  <2>1. [tx[w] EXCEPT !.todo = @ \ {k}, !.phase = "rebuild"] \in Tx
    BY <1>t DEF Tx
  <2>2. [tx[w] EXCEPT !.todo = @ \ {k}, !.phase = "rebuild"].aborted = tx[w].aborted
    BY <1>t DEF Tx
  <2> QED
    BY <1>3, <1>4, <1>5, <2>1, <2>2 DEF MarkFailed, Escapes
<1>6. ASSUME NEW w \in Workers, NEW k \in Shards,
             RebuildRefused(w, k) \/ RebuildBrokenOff(w, k)
      PROVE  AbortsBySql'
  BY <1>t, <1>5, <1>6 DEF RebuildRefused, RebuildBrokenOff, AbortsBySql
<1>7. ASSUME NEW w \in Workers, NEW k \in Shards, RebuildDone(w, k)
      PROVE  AbortsBySql'
  BY <1>t, <1>7 DEF RebuildDone, AbortsBySql, Tx
<1>8. ASSUME NEW w \in Workers, Claim(w) PROVE AbortsBySql'
  BY <1>t, <1>8 DEF Claim, Outside, AbortsBySql, NoTx
<1>9. ASSUME NEW w \in Workers, Record(w) \/ RecordFails(w) PROVE AbortsBySql'
  <2>1. ASSUME NEW t \in Tx, Execute(w, t), t.aborted = tx[w].aborted PROVE AbortsBySql'
    BY <1>4, <1>9, <2>1 DEF Record, RecordFails, AbortsBySql
  <2>2. \A base \in CarriedFrom(w) : NewVersions(w, base) \in SUBSET Version
    BY PromotionType
  <2>3. CASE Record(w)
    <3>1. PICK base \in CarriedFrom(w) :
            Execute(w, [tx[w] EXCEPT !.phase = "spot", !.ok = @ \cup {tx[w].shard},
                                     !.new = @ \cup NewVersions(w, base)])
      BY <2>3 DEF Record
    <3> DEFINE t == [tx[w] EXCEPT !.phase = "spot", !.ok = @ \cup {tx[w].shard},
                                  !.new = @ \cup NewVersions(w, base)]
    <3>2. t \in Tx /\ t.aborted = tx[w].aborted
      BY <1>t, <2>2 DEF Tx
    <3>3. Execute(w, t)
      BY <3>1
    <3> HIDE DEF t
    <3> QED
      BY <2>1, <3>2, <3>3
  <2>4. ASSUME Execute(w, [tx[w] EXCEPT !.phase = "rebuild", !.todo = @ \ {tx[w].shard}])
        PROVE  AbortsBySql'
    <3> DEFINE t == [tx[w] EXCEPT !.phase = "rebuild", !.todo = @ \ {tx[w].shard}]
    <3>1. t \in Tx /\ t.aborted = tx[w].aborted
      BY <1>t DEF Tx
    <3>2. Execute(w, t)
      BY <2>4
    <3> HIDE DEF t
    <3> QED
      BY <2>1, <3>1, <3>2
  <2>5. ASSUME NEW base \in CarriedFrom(w),
               Execute(w, [tx[w] EXCEPT !.phase = "rebuild", !.todo = @ \ {tx[w].shard},
                                        !.new = @ \cup NewVersions(w, base)])
        PROVE  AbortsBySql'
    <3> DEFINE t == [tx[w] EXCEPT !.phase = "rebuild", !.todo = @ \ {tx[w].shard},
                                  !.new = @ \cup NewVersions(w, base)]
    <3>1. t \in Tx /\ t.aborted = tx[w].aborted
      BY <1>t, <2>2 DEF Tx
    <3>2. Execute(w, t)
      BY <2>5
    <3> HIDE DEF t
    <3> QED
      BY <2>1, <3>1, <3>2
  <2> QED
    BY <1>9, <2>3, <2>4, <2>5 DEF RecordFails
<1>10. ASSUME NEW w \in Workers, RecordAborts(w) \/ Killed(w) PROVE AbortsBySql'
  BY <1>t, <1>3, <1>10 DEF RecordAborts, Killed, Escapes, AbortsBySql
<1>11. ASSUME NEW w \in Workers, SpotCheck(w) PROVE AbortsBySql'
  <2>1. \A v \in Workers : tx'[v].aborted = tx[v].aborted
    BY <1>t, <1>11 DEF SpotCheck, Tx
  <2> QED
    BY <1>11, <2>1 DEF SpotCheck, AbortsBySql
<1>12. ASSUME NEW w \in Workers, SpotCheckAborts(w) PROVE AbortsBySql'
  <2>1. sqlFaults' # 0
    BY <1>t, <1>12 DEF SpotCheckAborts
  <2> QED
    BY <2>1 DEF AbortsBySql
<1>13. ASSUME NEW w \in Workers, Finish(w) PROVE AbortsBySql'
  BY <1>t, <1>3, <1>13 DEF Finish, AbortsBySql
<1>14. AbortsBySql'
  BY <1>1, <1>2, <1>6, <1>7, <1>8, <1>9, <1>10, <1>11, <1>12, <1>13 DEF SystemNext
<1>15. ASSUME NEW w \in Workers, NEW k \in Shards,
              \/ RebuildRefused(w, k) \/ RebuildDone(w, k) \/ RebuildBrokenOff(w, k)
              \/ Claim(w) \/ Record(w) \/ RecordFails(w) \/ SpotCheck(w)
              \/ Finish(w) \/ Start(w)
       PROVE  UNCHANGED <<kills, sqlFaults>>
  BY <1>15 DEF RebuildRefused, RebuildDone, RebuildBrokenOff, Claim, Outside, Record,
               RecordFails, SpotCheck, Finish, Start
<1>16. ASSUME NEW w \in Workers, RecordAborts(w) \/ SpotCheckAborts(w)
       PROVE  kills' = kills /\ sqlFaults' \in {sqlFaults, sqlFaults + 1}
  BY <1>16 DEF RecordAborts, SpotCheckAborts
<1>17. ASSUME NEW w \in Workers, Killed(w)
       PROVE  kills' = kills + 1 /\ sqlFaults' = sqlFaults
  BY <1>17 DEF Killed
<1>18. UNCHANGED sysVars \/ (\E r \in Request : Intake(r)) \/ (\E j \in JobIds : Expiry(j))
         => UNCHANGED <<kills, sqlFaults>>
  BY DEF sysVars, Intake, Expiry, Outside
<1>19. \/ UNCHANGED <<kills, sqlFaults>>
       \/ kills' = kills /\ sqlFaults' \in {sqlFaults, sqlFaults + 1}
       \/ kills' = kills + 1 /\ sqlFaults' = sqlFaults
  BY <1>15, <1>16, <1>17, <1>18, SomeShard DEF SystemNext
<1>20. kills' >= kills /\ sqlFaults' >= sqlFaults
  BY <1>t, <1>19
<1> QED
  BY <1>14, <1>20

NobodyStuck == AbortsBySql /\ NeverStuckByIO

LEMMA StuckInit == SystemInit => NobodyStuck
BY NoTxType DEF SystemInit, QueueInit, NobodyStuck, AbortsBySql, NeverStuckByIO, With, NoTx,
                NoJob

\* A batch leaves its worker's hands through Commit, which settles every job of
\* it; the ways out that leave jobs 'processing' all cost a kill or a statement.
LEMMA StuckStep ==
  ASSUME SystemInv, NobodyStuck, [SystemNext]_sysVars
  PROVE  NobodyStuck'
<1>t. /\ TypeInv /\ SystemTypeOK
      /\ kills \in Nat /\ sqlFaults \in Nat /\ kills' \in Nat /\ sqlFaults' \in Nat
  BY SystemTypeStep, LossBudget DEF SystemInv, SystemTypeOK
<1>a. AbortsBySql' /\ kills' >= kills /\ sqlFaults' >= sqlFaults
  BY <1>t, AbortsStep DEF NobodyStuck
<1> SUFFICES ASSUME kills' = 0, sqlFaults' = 0 PROVE Attended'
  BY <1>a DEF NobodyStuck, NeverStuckByIO, Attended
<1>b. Attended /\ \A w \in Workers : ~tx[w].aborted
  BY <1>t, <1>a DEF NobodyStuck, NeverStuckByIO, Attended, AbortsBySql
<1>1. CASE UNCHANGED queueVars
  BY <1>b, <1>1 DEF queueVars, Attended, With, Abandoned
<1>2. CASE \E r \in Request : CreateErasure(r)
  BY <1>t, <1>b, <1>2 DEF CreateErasure, Attended, With, Abandoned, Created, TypeInv, QueueTypeOK
<1>3. ASSUME NEW j \in JobIds, LeaseExpires(j) PROVE Attended'
  <2>1. \A i \in JobIds : job'[i].status = job[i].status
    <3>1. job[j] \in Row
      BY <1>t, <1>3, RowShape DEF LeaseExpires, Created, TypeInv
    <3> QED
      BY <1>t, <1>3, <3>1, UpdatedFields DEF LeaseExpires, TypeInv, QueueTypeOK
  <2> QED
    BY <1>b, <1>3, <2>1 DEF LeaseExpires, Attended, With, Abandoned
<1>4. ASSUME NEW w \in Workers, Restart(w) PROVE Attended'
  BY <1>b, <1>4 DEF Restart, Attended, With, Abandoned
<1>5. ASSUME NEW w \in Workers, Poll(w) PROVE Attended'
  BY <1>t, <1>b, <1>5, PollAttends
<1>6. ASSUME NEW w \in Workers, Finish(w) PROVE Attended'
  BY <1>t, <1>b, <1>6, CommitAttends DEF Finish
<1> QED
  BY <1>t, <1>b, <1>1, <1>2, <1>3, <1>4, <1>5, <1>6, BatchKinds

\* A failure on disk never leaves a job 'processing' with nobody at work on it,
\* whatever rebuilds or promotions fail, whatever the number of workers and
\* however their leases run out: while nothing is killed and no statement fails,
\* every batch that is claimed stays in a worker's hands until it is recorded.
THEOREM NobodyIsStuckByIO == SystemSpec => []NeverStuckByIO
<1>1. SystemInv /\ NobodyStuck /\ [SystemNext]_sysVars => NobodyStuck'
  BY StuckStep
<1>2. NobodyStuck => NeverStuckByIO
  BY DEF NobodyStuck
<1> QED
  BY <1>1, <1>2, StuckInit, SystemInvariant, PTL DEF SystemSpec

=============================================================================
