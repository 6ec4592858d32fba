--------------------------- MODULE JobQueueProofs ---------------------------
(***************************************************************************)
(* What holds of the job queue for any number of principals, keys,         *)
(* subjects, shards, jobs and workers and any batch size.                  *)
(*                                                                         *)
(* Three facts hold whatever leases do.  Two hold as long as no lease has  *)
(* run out under a live worker (overruns = 0): after that, a second worker *)
(* claims a job the first is still at.                                     *)
(***************************************************************************)
EXTENDS JobQueue, FiniteSetTheorems, TLAPS

\* A batch consists of rows that exist: what makes the updates by erasure_id
\* hit a row.
HeldCreated == \A w \in Workers : held[w] \subseteq Created

TypeInv == QueueTypeOK /\ HeldCreated

-----------------------------------------------------------------------------
(* Rows *)

\* What an existing row is made of.
LEMMA RowShape ==
  ASSUME QueueTypeOK, NEW j \in Created
  PROVE  /\ job[j] \in Row
         /\ job[j].req \in Request
         /\ job[j].attempts \in Nat
         /\ job[j].status \in Statuses
         /\ job[j].status = "processing" => job[j].leasedBy \in Workers
         /\ job[j].status # "processing" =>
              job[j].leasedBy = NoWorker /\ job[j].lease = "none"
BY DEF QueueTypeOK, Created, Row, LeasedRow, FreeRow, NoJob, Statuses

\* Only rows that exist are claimed.
LEMMA ClaimableCreated ==
  ASSUME QueueTypeOK
  PROVE  Claimable \subseteq Created /\ Batch \subseteq Claimable
BY DEF Claimable, Batch, With, Reaped, Created

\* The three updates of a row.
LEMMA Updates ==
  ASSUME NEW r \in Row, NEW w \in Workers, NEW status \in {"done", "failed"}
  PROVE  /\ Leased(r, w) \in LeasedRow
         /\ Requeued(r) \in FreeRow
         /\ Settled(r, status) \in FreeRow
<1>1. /\ r.req \in Request /\ r.attempts \in Nat
      /\ r = [status |-> r.status, req |-> r.req, leasedBy |-> r.leasedBy,
              lease |-> r.lease, attempts |-> r.attempts]
  BY DEF Row, LeasedRow, FreeRow
<1>2. Leased(r, w) \in LeasedRow
  <2>1. PICK n \in Nat : n = r.attempts + 1
    BY <1>1
  <2>2. [r EXCEPT !.status = "processing", !.leasedBy = w, !.lease = "live",
                  !.attempts = n] \in LeasedRow
    BY <1>1 DEF LeasedRow
  <2> QED
    BY <2>1, <2>2 DEF Leased
<1>3. Requeued(r) \in FreeRow
  BY <1>1 DEF Requeued, FreeRow, Statuses
<1>4. Settled(r, status) \in FreeRow
  BY <1>1 DEF Settled, FreeRow, Statuses
<1> QED
  BY <1>2, <1>3, <1>4

\* The request of a row is never rewritten, and what the updates set it to.
LEMMA UpdatedFields ==
  ASSUME NEW r \in Row, NEW w \in Workers, NEW status \in {"done", "failed"}
  PROVE  /\ Leased(r, w).req = r.req /\ Requeued(r).req = r.req
         /\ Settled(r, status).req = r.req
         /\ Leased(r, w).status = "processing"
         /\ Leased(r, w).leasedBy = w
         /\ Leased(r, w).lease = "live"
         /\ Requeued(r).status = "queued"
         /\ Settled(r, status).status = status
BY DEF Row, LeasedRow, FreeRow, Leased, Requeued, Settled

-----------------------------------------------------------------------------
(* Type correctness *)

LEMMA TypeInit == QueueInit => TypeInv
BY QueueBounds
   DEF QueueInit, TypeInv, QueueTypeOK, HeldCreated, Created, NoJob, JobIds

\* What each action does to the table, and that a row once created stays.
LEMMA CreateStep ==
  ASSUME TypeInv, NEW r \in Request, CreateErasure(r)
  PROVE  TypeInv' /\ Created \subseteq Created'
         /\ \A j \in Created : job'[j] = job[j]
<1>1. CASE Conflicts(r) = {} /\ job' # job
  <2>1. PICK id \in JobIds \ Created :
          /\ job' = [job EXCEPT ![id] =
                  [status |-> "queued", req |-> r, leasedBy |-> NoWorker,
                   lease |-> "none", attempts |-> 0]]
          /\ acks' = {[req |-> r, id |-> id]}
    BY <1>1 DEF CreateErasure
  <2>2. [status |-> "queued", req |-> r, leasedBy |-> NoWorker,
         lease |-> "none", attempts |-> 0] \in Row
    BY DEF Row, FreeRow, Statuses
  <2>3. job' \in [JobIds -> Row \cup {NoJob}]
    BY <2>1, <2>2 DEF TypeInv, QueueTypeOK
  <2>4. acks' \subseteq Ack
    BY <2>1 DEF Ack
  <2>5. \A j \in Created : job'[j] = job[j]
    BY <2>1 DEF TypeInv, QueueTypeOK, Created
  <2> QED
    BY <2>3, <2>4, <2>5 DEF CreateErasure, TypeInv, QueueTypeOK, HeldCreated, Created
<1>2. CASE job' = job
  <2>1. acks' \subseteq Ack
    BY DEF CreateErasure, Conflicts, Created, Ack
  <2> QED
    BY <1>2, <2>1 DEF CreateErasure, TypeInv, QueueTypeOK, HeldCreated, Created
<1> QED
  BY <1>1, <1>2 DEF CreateErasure

LEMMA PollStep ==
  ASSUME TypeInv, NEW w \in Workers, Poll(w)
  PROVE  /\ TypeInv' /\ Created' = Created
         /\ \A j \in Batch : job'[j] = Leased(job[j], w)
         /\ \A j \in Created \ Batch : job'[j] \in {job[j], Requeued(job[j])}
         /\ \A j \in Created \ Claimable : job'[j] = job[j]
         /\ \A j \in Created : job'[j] \in Row /\ job'[j].req = job[j].req
<1>1. Claimable \subseteq Created /\ Batch \subseteq Claimable /\ Created \subseteq JobIds
  BY ClaimableCreated DEF TypeInv, Created
<1>2. \A j \in JobIds : job'[j] = IF j \in Batch THEN Leased(job[j], w)
                                ELSE IF Reaped(j) THEN Requeued(job[j]) ELSE job[j]
  BY DEF Poll
<1>3. \A j \in JobIds : Reaped(j) => j \in Claimable
  BY DEF Claimable
<1>4. \A j \in JobIds \ Created : job'[j] = job[j]
  BY <1>1, <1>2, <1>3
<1>5. \A j \in Created : job'[j] \in Row /\ job'[j].req = job[j].req
  <2> SUFFICES ASSUME NEW j \in Created PROVE job'[j] \in Row /\ job'[j].req = job[j].req
    OBVIOUS
  <2>1. job[j] \in Row
    BY RowShape DEF TypeInv
  <2>2. /\ Leased(job[j], w) \in Row /\ Leased(job[j], w).req = job[j].req
        /\ Requeued(job[j]) \in Row /\ Requeued(job[j]).req = job[j].req
    BY <2>1, Updates, UpdatedFields DEF Row
  <2> QED
    BY <1>1, <1>2, <2>1, <2>2
<1>6. job' \in [JobIds -> Row \cup {NoJob}]
  <2>1. job' = [j \in JobIds |-> job'[j]]
    BY DEF Poll
  <2>2. \A j \in JobIds : job'[j] \in Row \cup {NoJob}
    BY <1>4, <1>5 DEF TypeInv, QueueTypeOK
  <2> QED
    BY <2>1, <2>2
<1>7. Created' = Created
  <2>1. \A r \in Row : r.status # "absent"
    BY DEF Row, LeasedRow, FreeRow, Statuses
  <2> QED
    BY <1>4, <1>5, <2>1 DEF Created
<1>8. held' \in [Workers -> SUBSET JobIds] /\ HeldCreated'
  BY <1>1, <1>7 DEF Poll, TypeInv, QueueTypeOK, HeldCreated
<1>9. TypeInv'
  BY <1>6, <1>8 DEF Poll, TypeInv, QueueTypeOK
<1> QED
  BY <1>1, <1>2, <1>3, <1>5, <1>7, <1>9

LEMMA CommitStep ==
  ASSUME TypeInv, NEW w \in Workers, NEW ok \in SUBSET Shards, Commit(w, ok)
  PROVE  /\ TypeInv' /\ Created' = Created
         /\ \A j \in DoneBy(w, ok) : job'[j] = Settled(job[j], "done")
         /\ \A j \in held[w] \ DoneBy(w, ok) : job'[j] = Settled(job[j], "failed")
         /\ \A j \in Created \ held[w] : job'[j] = job[j]
         /\ \A j \in Created : job'[j] \in Row /\ job'[j].req = job[j].req
<1>1. held[w] \subseteq Created /\ DoneBy(w, ok) \subseteq held[w] /\ Created \subseteq JobIds
  BY DEF TypeInv, HeldCreated, DoneBy, Created
<1>2. \A j \in JobIds :
        job'[j] = IF j \in held[w]
                  THEN Settled(job[j], IF j \in DoneBy(w, ok) THEN "done" ELSE "failed")
                  ELSE job[j]
  BY DEF Commit
<1>3. \A j \in Created : job'[j] \in Row /\ job'[j].req = job[j].req
  <2> SUFFICES ASSUME NEW j \in Created PROVE job'[j] \in Row /\ job'[j].req = job[j].req
    OBVIOUS
  <2>1. job[j] \in Row
    BY RowShape DEF TypeInv
  <2>2. \A st \in {"done", "failed"} :
          Settled(job[j], st) \in Row /\ Settled(job[j], st).req = job[j].req
    BY <2>1, Updates, UpdatedFields DEF Row
  <2> QED
    BY <1>1, <1>2, <2>1, <2>2
<1>4. \A j \in JobIds \ Created : job'[j] = job[j]
  BY <1>1, <1>2
<1>5. job' \in [JobIds -> Row \cup {NoJob}]
  <2>1. job' = [j \in JobIds |-> job'[j]]
    BY DEF Commit
  <2>2. \A j \in JobIds : job'[j] \in Row \cup {NoJob}
    BY <1>3, <1>4 DEF TypeInv, QueueTypeOK
  <2> QED
    BY <2>1, <2>2
<1>6. Created' = Created
  <2>1. \A r \in Row : r.status # "absent"
    BY DEF Row, LeasedRow, FreeRow, Statuses
  <2> QED
    BY <1>3, <1>4, <2>1 DEF Created
<1>7. manifests' \subseteq JobIds
  BY <1>1 DEF Commit, Inserted, TypeInv, QueueTypeOK
<1>8. held' \in [Workers -> SUBSET JobIds] /\ HeldCreated'
  BY <1>6 DEF Commit, TypeInv, QueueTypeOK, HeldCreated
<1>9. TypeInv'
  BY <1>5, <1>7, <1>8 DEF Commit, TypeInv, QueueTypeOK
<1> QED
  BY <1>1, <1>2, <1>3, <1>6, <1>9

LEMMA ExpiryStep ==
  ASSUME TypeInv, NEW j \in JobIds, LeaseExpires(j)
  PROVE  /\ TypeInv' /\ Created' = Created
         /\ job'[j].lease = "expired" /\ job'[j].leasedBy = job[j].leasedBy
         /\ \A i \in Created : job'[i].status = job[i].status /\ job'[i].req = job[i].req
         /\ \A i \in Created \ {j} : job'[i] = job[i]
<1>1. j \in Created /\ job[j] \in LeasedRow
  BY DEF LeaseExpires, TypeInv, QueueTypeOK, Created, Row, LeasedRow, FreeRow, NoJob
<1>2. [job[j] EXCEPT !.lease = "expired"] \in LeasedRow
  BY <1>1 DEF LeasedRow
<1>3. job' = [job EXCEPT ![j] = [job[j] EXCEPT !.lease = "expired"]]
  BY DEF LeaseExpires
<1>4. job' \in [JobIds -> Row \cup {NoJob}]
  BY <1>2, <1>3 DEF TypeInv, QueueTypeOK, Row
<1>5. job'[j] = [job[j] EXCEPT !.lease = "expired"]
  BY <1>3 DEF TypeInv, QueueTypeOK
<1>6. /\ job'[j].status = job[j].status /\ job'[j].req = job[j].req
      /\ job'[j].leasedBy = job[j].leasedBy /\ job'[j].lease = "expired"
  BY <1>1, <1>5 DEF LeasedRow
<1>7. \A i \in JobIds \ {j} : job'[i] = job[i]
  BY <1>3 DEF TypeInv, QueueTypeOK
<1>8. Created' = Created
  BY <1>6, <1>7 DEF Created
<1>9. overruns' \in 0 .. MaxOverruns
  BY QueueBounds DEF LeaseExpires, TypeInv, QueueTypeOK
<1>10. TypeInv'
  BY <1>4, <1>8, <1>9 DEF LeaseExpires, TypeInv, QueueTypeOK, HeldCreated
<1> QED
  BY <1>6, <1>7, <1>8, <1>10 DEF Created

\* Deaths, rollbacks and restarts leave the tables alone.
ProcessStep(w) == Crash(w) \/ SilentRollback(w) \/ DuplicateManifest(w) \/ Restart(w)

LEMMA ProcessSteps ==
  ASSUME TypeInv, NEW w \in Workers, ProcessStep(w)
  PROVE  /\ TypeInv' /\ UNCHANGED <<job, manifests, acks, overruns>>
         /\ \A v \in Workers : held'[v] \subseteq held[v]
<1>1. UNCHANGED <<job, manifests, acks, overruns>>
  BY DEF ProcessStep, Crash, Die, SilentRollback, DuplicateManifest, Restart
<1>2. held' = held \/ held' = [held EXCEPT ![w] = {}]
  BY DEF ProcessStep, Crash, Die, SilentRollback, DuplicateManifest, Restart
<1>3. crashes' \in 0 .. MaxCrashes
  BY QueueBounds DEF TypeInv, QueueTypeOK,
     ProcessStep, Crash, Die, SilentRollback, DuplicateManifest, Restart
<1>4. up' \subseteq Workers
  BY DEF TypeInv, QueueTypeOK,
     ProcessStep, Crash, Die, SilentRollback, DuplicateManifest, Restart
<1>5. \A v \in Workers : held'[v] \subseteq held[v]
  BY <1>2 DEF TypeInv, QueueTypeOK
<1>6. held' \in [Workers -> SUBSET JobIds]
  BY <1>2 DEF TypeInv, QueueTypeOK
<1>7. TypeInv'
  BY <1>1, <1>3, <1>4, <1>5, <1>6 DEF TypeInv, QueueTypeOK, HeldCreated, Created
<1> QED
  BY <1>1, <1>5, <1>7

\* The steps of QueueNext, by kind.
LEMMA QueueSteps ==
  ASSUME QueueNext
  PROVE  \/ \E r \in Request : CreateErasure(r)
         \/ \E w \in Workers : Poll(w)
         \/ \E w \in Workers, ok \in SUBSET Shards : Commit(w, ok)
         \/ \E w \in Workers : ProcessStep(w)
         \/ \E j \in JobIds : LeaseExpires(j)
BY DEF QueueNext, Settle, ProcessStep

LEMMA TypeStep == TypeInv /\ [QueueNext]_queueVars => TypeInv'
<1> SUFFICES ASSUME TypeInv, [QueueNext]_queueVars PROVE TypeInv'
  OBVIOUS
<1>1. CASE UNCHANGED queueVars
  BY <1>1 DEF queueVars, TypeInv, QueueTypeOK, HeldCreated, Created
<1>2. CASE QueueNext
  BY <1>2, QueueSteps, CreateStep, PollStep, CommitStep, ProcessSteps, ExpiryStep
<1> QED
  BY <1>1, <1>2

\* Every row has one of the two legal shapes (a leaseholder and a deadline
\* exactly while it is 'processing') and every batch consists of rows, for any
\* schedule of intake, polls, commits, deaths and lease expiries.
THEOREM QueueTypeCorrect == QueueSpec => []QueueTypeOK
<1>1. QueueSpec => []TypeInv
  BY TypeInit, TypeStep, PTL DEF QueueSpec
<1>2. TypeInv => QueueTypeOK
  BY DEF TypeInv
<1> QED
  BY <1>1, <1>2, PTL

-----------------------------------------------------------------------------
(* Idempotency and certificates, whatever leases do *)

\* Rows survive every step with their request.
LEMMA RequestsStay ==
  ASSUME TypeInv, QueueNext
  PROVE  Created \subseteq Created' /\ \A j \in Created : job'[j].req = job[j].req
<1>1. CASE \E w \in Workers : ProcessStep(w)
  BY <1>1, ProcessSteps DEF Created
<1> QED
  BY <1>1, QueueSteps, CreateStep, PollStep, CommitStep, ExpiryStep

LEMMA AckStep ==
  ASSUME TypeInv, AckNamesOwnJob, [QueueNext]_queueVars
  PROVE  AckNamesOwnJob'
<1>1. CASE UNCHANGED queueVars
  BY <1>1 DEF queueVars, AckNamesOwnJob
<1>2. CASE \E r \in Request : CreateErasure(r)
  <2>1. PICK r \in Request : CreateErasure(r)
    BY <1>2
  <2>2. CASE \E id \in JobIds \ Created :
               /\ job' = [job EXCEPT ![id] =
                    [status |-> "queued", req |-> r, leasedBy |-> NoWorker,
                     lease |-> "none", attempts |-> 0]]
               /\ acks' = {[req |-> r, id |-> id]}
    <3>1. PICK id \in JobIds \ Created :
               /\ job' = [job EXCEPT ![id] =
                    [status |-> "queued", req |-> r, leasedBy |-> NoWorker,
                     lease |-> "none", attempts |-> 0]]
               /\ acks' = {[req |-> r, id |-> id]}
      BY <2>2
    <3>2. job'[id].req = r /\ job'[id].status = "queued"
      BY <3>1 DEF TypeInv, QueueTypeOK
    <3> QED
      BY <3>1, <3>2 DEF AckNamesOwnJob
  <2>3. CASE \E j \in Conflicts(r) : acks' = {[req |-> r, id |-> j]} /\ UNCHANGED job
    BY <2>3 DEF AckNamesOwnJob, Conflicts, Created
  <2> QED
    BY <2>1, <2>2, <2>3 DEF CreateErasure
<1>3. CASE QueueNext /\ acks' = acks
  <2>1. \A a \in acks : a.id \in JobIds
    BY DEF TypeInv, QueueTypeOK, Ack
  <2> QED
    BY <1>3, <2>1, RequestsStay DEF AckNamesOwnJob, Created
<1>4. QueueNext => (\E r \in Request : CreateErasure(r)) \/ acks' = acks
  <2>1. \A w \in Workers : ProcessStep(w) => acks' = acks
    BY ProcessSteps
  <2> QED
    BY <2>1, QueueSteps DEF Poll, Commit, LeaseExpires
<1> QED
  BY <1>1, <1>2, <1>3, <1>4

\* A caller is told of its own job and of nobody else's, for any principals and
\* keys: the (requested_by, idempotency_key) index of migration 0004 suffices.
THEOREM AcksNameOwnJobs == QueueSpec => []AckNamesOwnJob
<1>1. QueueInit => TypeInv /\ AckNamesOwnJob
  BY TypeInit DEF QueueInit, AckNamesOwnJob
<1>2. TypeInv /\ AckNamesOwnJob /\ [QueueNext]_queueVars => (TypeInv /\ AckNamesOwnJob)'
  BY TypeStep, AckStep
<1> QED
  BY <1>1, <1>2, PTL DEF QueueSpec

LEMMA ManifestStep ==
  ASSUME TypeInv, DoneHasManifest, [QueueNext]_queueVars
  PROVE  DoneHasManifest'
<1> SUFFICES ASSUME NEW i \in JobIds, job'[i].status = "done"
             PROVE  i \in manifests'
  BY DEF DoneHasManifest, With
<1>1. CASE UNCHANGED queueVars
  BY <1>1 DEF queueVars, DoneHasManifest, With
<1>2. CASE \E r \in Request : CreateErasure(r)
  <2>1. job[i].status = "done"
    BY <1>2 DEF CreateErasure, TypeInv, QueueTypeOK
  <2> QED
    BY <1>2, <2>1 DEF CreateErasure, DoneHasManifest, With
<1>3. CASE \E w \in Workers : Poll(w)
  <2>1. PICK w \in Workers : Poll(w)
    BY <1>3
  <2>2. i \in Created /\ job[i] \in Row
    BY <2>1, PollStep, RowShape DEF Created, TypeInv
  <2>3. Leased(job[i], w).status # "done" /\ Requeued(job[i]).status # "done"
    BY <2>2, UpdatedFields
  <2>4. job'[i] = job[i]
    BY <2>1, <2>2, <2>3, PollStep
  <2> QED
    BY <2>1, <2>4 DEF Poll, DoneHasManifest, With
<1>4. CASE \E w \in Workers, ok \in SUBSET Shards : Commit(w, ok)
  <2>1. PICK w \in Workers, ok \in SUBSET Shards : Commit(w, ok)
    BY <1>4
  <2>2. i \in Created /\ job[i] \in Row
    BY <2>1, CommitStep, RowShape DEF Created, TypeInv
  <2>3. manifests' = manifests \cup DoneBy(w, ok)
    BY <2>1 DEF Commit, Inserted
  <2>4. CASE i \in held[w]
    <3>1. Settled(job[i], "failed").status # "done"
      BY <2>2, UpdatedFields
    <3> QED
      BY <2>1, <2>3, <2>4, <3>1, CommitStep
  <2>5. CASE i \notin held[w]
    BY <2>1, <2>2, <2>3, <2>5, CommitStep DEF DoneHasManifest, With
  <2> QED
    BY <2>4, <2>5
<1>5. CASE \E w \in Workers : ProcessStep(w)
  BY <1>5, ProcessSteps DEF DoneHasManifest, With
<1>6. CASE \E j \in JobIds : LeaseExpires(j)
  <2>1. PICK j \in JobIds : LeaseExpires(j)
    BY <1>6
  <2>2. job[i].status = "done"
    BY <2>1, ExpiryStep DEF Created
  <2> QED
    BY <2>1, <2>2 DEF LeaseExpires, DoneHasManifest, With
<1> QED
  BY <1>1, <1>2, <1>3, <1>4, <1>5, <1>6, QueueSteps

\* A job reported as done has its certificate, for any number of workers and
\* even when leases run out under them.
THEOREM DoneJobsAreCertified == QueueSpec => []DoneHasManifest
<1>1. QueueInit => TypeInv /\ DoneHasManifest
  BY TypeInit DEF QueueInit, DoneHasManifest, With, NoJob
<1>2. TypeInv /\ DoneHasManifest /\ [QueueNext]_queueVars => (TypeInv /\ DoneHasManifest)'
  BY TypeStep, ManifestStep
<1> QED
  BY <1>1, <1>2, PTL DEF QueueSpec

-----------------------------------------------------------------------------
(* Exclusive leases *)

\* OneHolder is not inductive: it says nothing of a held job's status and lease,
\* and it is these that keep the reaper and the claim away from it.
HeldLive ==
  \A w \in Workers : \A j \in held[w] :
    job[j].status = "processing" /\ job[j].leasedBy = w /\ job[j].lease = "live"

Exclusive == HeldLive /\ manifests \subseteq With("done")

LeaseInv == TypeInv /\ (overruns = 0 => Exclusive)

\* What a batch holds cannot be claimed, and has no certificate yet.
LEMMA HeldIsTaken ==
  ASSUME TypeInv, Exclusive, NEW w \in Workers, NEW j \in held[w]
  PROVE  j \in Created /\ j \notin Claimable /\ j \notin manifests
BY DEF TypeInv, HeldCreated, HeldLive, Exclusive, Claimable, With, Reaped

LEMMA LeaseStep ==
  ASSUME TypeInv, Exclusive, overruns' = overruns, [QueueNext]_queueVars
  PROVE  Exclusive'
<1>0. TypeInv /\ TypeInv'
  BY TypeStep
<1>1. CASE UNCHANGED queueVars
  BY <1>0, <1>1 DEF queueVars, Exclusive, HeldLive, With
<1>2. CASE \E r \in Request : CreateErasure(r)
  <2>1. \A j \in Created : job'[j] = job[j]
    BY <1>0, <1>2, CreateStep
  <2>2. HeldLive'
    BY <1>0, <1>2, <2>1 DEF CreateErasure, Exclusive, TypeInv, HeldCreated, HeldLive
  <2>3. (manifests \subseteq With("done"))'
    BY <1>2, <2>1 DEF CreateErasure, Exclusive, With, Created
  <2> QED
    BY <2>2, <2>3 DEF Exclusive
<1>3. CASE \E w \in Workers : Poll(w)
  <2>1. PICK w \in Workers : Poll(w)
    BY <1>3
  <2>2. HeldLive'
    <3> SUFFICES ASSUME NEW v \in Workers, NEW j \in held'[v]
                 PROVE  /\ job'[j].status = "processing" /\ job'[j].leasedBy = v
                        /\ job'[j].lease = "live"
      BY DEF HeldLive
    <3>1. CASE v = w
      <4>1. j \in Batch /\ job[j] \in Row
        BY <1>0, <2>1, <3>1, ClaimableCreated, RowShape
           DEF Poll, TypeInv, QueueTypeOK
      <4>2. job'[j] = Leased(job[j], w)
        BY <1>0, <2>1, <4>1, PollStep
      <4> QED
        BY <3>1, <4>1, <4>2, UpdatedFields
    <3>2. CASE v # w
      <4>1. j \in held[v]
        BY <1>0, <2>1, <3>2 DEF Poll, TypeInv, QueueTypeOK
      <4>2. job'[j] = job[j]
        BY <1>0, <2>1, <4>1, HeldIsTaken, PollStep
      <4> QED
        BY <4>1, <4>2 DEF Exclusive, HeldLive
    <3> QED
      BY <3>1, <3>2
  <2>3. (manifests \subseteq With("done"))'
    <3>1. \A j \in manifests : j \in Created \ Claimable /\ job[j].status = "done"
      BY DEF Exclusive, With, Created, Claimable, Reaped
    <3>2. \A j \in manifests : job'[j] = job[j]
      BY <1>0, <2>1, <3>1, PollStep
    <3> QED
      BY <2>1, <3>1, <3>2 DEF Poll, With, Created
  <2> QED
    BY <2>2, <2>3 DEF Exclusive
<1>4. CASE \E w \in Workers, ok \in SUBSET Shards : Commit(w, ok)
  <2>1. PICK w \in Workers, ok \in SUBSET Shards : Commit(w, ok)
    BY <1>4
  <2>2. HeldLive'
    <3> SUFFICES ASSUME NEW v \in Workers, NEW j \in held'[v]
                 PROVE  /\ job'[j].status = "processing" /\ job'[j].leasedBy = v
                        /\ job'[j].lease = "live"
      BY DEF HeldLive
    <3>1. v # w /\ j \in held[v]
      BY <1>0, <2>1 DEF Commit, TypeInv, QueueTypeOK
    <3>2. j \in Created /\ j \notin held[w]
      BY <3>1, HeldIsTaken DEF Exclusive, HeldLive
    <3>3. job'[j] = job[j]
      BY <1>0, <2>1, <3>2, CommitStep
    <3> QED
      BY <3>1, <3>3 DEF Exclusive, HeldLive
  <2>3. (manifests \subseteq With("done"))'
    <3> SUFFICES ASSUME NEW j \in manifests' PROVE j \in JobIds /\ job'[j].status = "done"
      BY DEF With
    <3>1. j \in manifests \/ j \in DoneBy(w, ok)
      BY <2>1 DEF Commit, Inserted
    <3>2. CASE j \in manifests
      <4>1. j \in Created \ held[w] /\ j \in JobIds /\ job[j].status = "done"
        BY <3>2, HeldIsTaken DEF Exclusive, With, Created
      <4> QED
        BY <1>0, <2>1, <4>1, CommitStep
    <3>3. CASE j \in DoneBy(w, ok)
      <4>1. j \in Created /\ j \in JobIds /\ job[j] \in Row
        BY <1>0, <3>3, RowShape DEF DoneBy, TypeInv, HeldCreated, Created
      <4>2. job'[j] = Settled(job[j], "done")
        BY <1>0, <2>1, <3>3, CommitStep
      <4> QED
        BY <4>1, <4>2, UpdatedFields
    <3> QED
      BY <3>1, <3>2, <3>3
  <2> QED
    BY <2>2, <2>3 DEF Exclusive
<1>5. CASE \E w \in Workers : ProcessStep(w)
  <2>1. /\ UNCHANGED <<job, manifests>>
        /\ \A v \in Workers : held'[v] \subseteq held[v]
    BY <1>0, <1>5, ProcessSteps
  <2> QED
    BY <1>0, <2>1 DEF Exclusive, HeldLive, With
<1>6. CASE \E j \in JobIds : LeaseExpires(j)
  <2>1. PICK j \in JobIds : LeaseExpires(j)
    BY <1>6
  <2>2. Abandoned(j)
    BY <1>0, <2>1 DEF LeaseExpires, TypeInv, QueueTypeOK
  <2>3. HeldLive'
    BY <1>0, <2>1, <2>2, ExpiryStep
       DEF LeaseExpires, Abandoned, Exclusive, HeldLive, TypeInv, HeldCreated
  <2>4. (manifests \subseteq With("done"))'
    BY <1>0, <2>1, ExpiryStep DEF LeaseExpires, Exclusive, With, Created
  <2> QED
    BY <2>3, <2>4 DEF Exclusive
<1> QED
  BY <1>1, <1>2, <1>3, <1>4, <1>5, <1>6, QueueSteps

\* Overruns are only ever counted up, and only by LeaseExpires.
LEMMA OverrunsGrow ==
  ASSUME TypeInv, [QueueNext]_queueVars, overruns' = 0
  PROVE  overruns' = overruns
<1>1. \A w \in Workers : ProcessStep(w) => overruns' = overruns
  BY ProcessSteps
<1>2. overruns \in Nat
  BY QueueBounds DEF TypeInv, QueueTypeOK
<1> QED
  BY <1>1, <1>2, QueueSteps DEF queueVars, CreateErasure, Poll, Commit, LeaseExpires

LEMMA LeaseInvariant == QueueSpec => []LeaseInv
<1>1. QueueInit => LeaseInv
  BY TypeInit DEF QueueInit, LeaseInv, Exclusive, HeldLive
<1>2. LeaseInv /\ [QueueNext]_queueVars => LeaseInv'
  BY TypeStep, OverrunsGrow, LeaseStep DEF LeaseInv
<1> QED
  BY <1>1, <1>2, PTL DEF QueueSpec

\* As long as no lease has run out under a live worker, claim_batch never hands
\* a job to a second worker, for any number of workers, batch size and crashes.
THEOREM LeasesAreExclusive == QueueSpec => []OneHolder
<1>1. LeaseInv => OneHolder
  BY DEF LeaseInv, Exclusive, HeldLive, OneHolder
<1> QED
  BY <1>1, LeaseInvariant, PTL

\* As long as no lease has run out under a live worker, a job whose certificate
\* was recorded is reported as done for ever after.
THEOREM CertifiedStaysDone == QueueSpec => []CertifiedIsDone
<1>1. LeaseInv => CertifiedIsDone
  BY DEF LeaseInv, Exclusive, CertifiedIsDone
<1> QED
  BY <1>1, LeaseInvariant, PTL

-----------------------------------------------------------------------------
(* Claim order *)

\* An earlier deadline of the same shard is in the batch with a later one.
LEMMA BatchIsDownClosed ==
  ASSUME TypeInv, NEW i \in Claimable, NEW j \in Batch,
         i < j, ShardOfJob(i) = ShardOfJob(j)
  PROVE  i \in Batch
<1> DEFINE Before(x) == {y \in Claimable : ClaimedBefore(y, x)}
<1>1. Claimable \subseteq Created /\ Created \subseteq JobIds /\ j \in Claimable
  BY ClaimableCreated DEF TypeInv, Created
<1>2. \A x \in Claimable : ShardOfJob(x) \in Int /\ x \in Int
  <2>1. \A x \in Created : job[x].req.subject \in Subjects
    BY RowShape DEF TypeInv, Request
  <2>2. \A x \in Created : ShardOfJob(x) \in Shards
    BY <2>1, QueueShards DEF ShardOfJob
  <2>3. \A k \in Shards : k \in Int
    BY QueueShards
  <2>4. \A x \in JobIds : x \in Int
    BY QueueBounds DEF JobIds
  <2> QED
    BY <1>1, <2>2, <2>3, <2>4
<1>3. Before(i) \subseteq Before(j)
  BY <1>1, <1>2 DEF ClaimedBefore
<1>4. IsFiniteSet(JobIds)
  BY FS_Interval, QueueBounds DEF JobIds
<1>5. Before(j) \in SUBSET JobIds
  BY <1>1
<1>6. IsFiniteSet(Before(j)) /\ Cardinality(Before(j)) \in Nat
  BY <1>4, <1>5, FS_Subset, FS_CardinalityType
<1>7. Cardinality(Before(i)) <= Cardinality(Before(j)) /\ Cardinality(Before(i)) \in Nat
  BY <1>3, <1>6, FS_Subset, FS_CardinalityType
<1>8. Cardinality(Before(j)) < POLL_BATCH_SIZE
  BY DEF Batch
<1>9. Cardinality(Before(i)) < POLL_BATCH_SIZE
  BY <1>6, <1>7, <1>8, QueueBounds
<1> QED
  BY <1>9 DEF Batch

\* One step of EarliestDeadlineFirst.
DeadlineStep ==
  \A w \in Workers, i, j \in JobIds :
    j \in held'[w] \ held[w] /\ i < j /\ i \in Claimable
      /\ ShardOfJob(i) = ShardOfJob(j)
    => i \in held'[w]

LEMMA DeadlineStepHolds ==
  ASSUME TypeInv, QueueNext
  PROVE  DeadlineStep
<1> SUFFICES ASSUME NEW w \in Workers, NEW i \in JobIds, NEW j \in JobIds,
                    j \in held'[w], j \notin held[w], i < j, i \in Claimable,
                    ShardOfJob(i) = ShardOfJob(j)
             PROVE  i \in held'[w]
  BY DEF DeadlineStep
<1>1. PICK v \in Workers : Poll(v)
  <2>1. \A u \in Workers : ProcessStep(u) => held'[w] \subseteq held[w]
    BY ProcessSteps
  <2>2. \A u \in Workers, ok \in SUBSET Shards : Commit(u, ok) => held'[w] \subseteq held[w]
    BY DEF Commit, TypeInv, QueueTypeOK
  <2> QED
    BY <2>1, <2>2, QueueSteps DEF CreateErasure, LeaseExpires
<1>2. v = w /\ held'[w] = Batch
  BY <1>1 DEF Poll, TypeInv, QueueTypeOK
<1> QED
  BY <1>2, BatchIsDownClosed

\* No poll passes over a job for a later deadline of the same shard, for any
\* batch size: neither the LIMIT nor the reaper's requeueing can reorder them.
THEOREM DeadlinesInOrder == QueueSpec => EarliestDeadlineFirst
<1>1. TypeInv /\ [QueueNext]_queueVars => [DeadlineStep]_queueVars
  BY DeadlineStepHolds
<1>2. QueueSpec => []TypeInv
  BY TypeInit, TypeStep, PTL DEF QueueSpec
<1>3. QueueSpec => [][DeadlineStep]_queueVars
  BY <1>1, <1>2, PTL DEF QueueSpec
<1> QED
  BY <1>3 DEF EarliestDeadlineFirst, DeadlineStep

=============================================================================
