------------------------------ MODULE JobQueue ------------------------------
(***************************************************************************)
(* The erasure_jobs table and everything that writes it: intake            *)
(* (gateway/routes/erasure.py, gateway/idempotency.py), the lease protocol *)
(* (worker/queue.py) and the worker loop (worker/main.py) with the status  *)
(* writes of process_claimed (worker/jobs.py).  What a rebuild does is     *)
(* left open here: each shard group ends "done" or "failed".               *)
(*                                                                         *)
(* Every action is one committed database transaction.  A poll that skips  *)
(* rows locked by another poll is the same as one that ran after it.       *)
(* An erasure_id stands for its row's place in sla_deadline order, which   *)
(* is creation order.  Time is a lease being live or expired.              *)
(***************************************************************************)
EXTENDS Integers, FiniteSets

CONSTANTS
  Principals, Keys,   \* callers and their Idempotency-Key values
  Subjects,           \* the subjects of subject_shard_map
  ShardOf,            \* subject_shard_map.shard
  Shards,
  Workers,
  NoWorker,           \* leased_by IS NULL
  MaxJobs,            \* bound on rows created
  POLL_BATCH_SIZE,
  MaxCrashes,         \* bound on batches lost to a death or a rollback
  MaxOverruns         \* bound on leases that run out under a live worker

JobIds == 1 .. MaxJobs

ASSUME QueueBounds ==
  /\ MaxJobs \in Nat /\ POLL_BATCH_SIZE \in Nat \ {0}
  /\ MaxCrashes \in Nat /\ MaxOverruns \in Nat
ASSUME QueueShards == Shards \subseteq Nat /\ ShardOf \in [Subjects -> Shards]
ASSUME QueueNobody == NoWorker \notin Workers

VARIABLES
  job,        \* [JobIds -> row of erasure_jobs, or NoJob]
  manifests,  \* erasure_ids with a row in erasure_manifests
  up,         \* worker processes that are running
  held,       \* [Workers -> the jobs of its current batch]
  acks,       \* history: the latest 202 response, if any
  crashes, overruns

queueVars == <<job, manifests, up, held, acks, crashes, overruns>>

Statuses == {"queued", "processing", "done", "failed"}
Request == [owner : Principals, key : Keys, subject : Subjects]
\* A row has a leaseholder and a deadline exactly while it is 'processing'.
LeasedRow == [status : {"processing"}, req : Request, leasedBy : Workers,
              lease : {"live", "expired"}, attempts : Nat]
FreeRow == [status : Statuses \ {"processing"}, req : Request,
            leasedBy : {NoWorker}, lease : {"none"}, attempts : Nat]
Row == LeasedRow \cup FreeRow
NoJob == [status |-> "absent"]
Ack == [req : Request, id : JobIds]

Created == {j \in JobIds : job[j].status # "absent"}
With(status) == {j \in JobIds : job[j].status = status}
ShardOfJob(j) == ShardOf[job[j].req.subject]

QueueInit ==
  /\ job = [j \in JobIds |-> NoJob]
  /\ manifests = {}
  /\ up = Workers
  /\ held = [w \in Workers |-> {}]
  /\ acks = {}
  /\ crashes = 0
  /\ overruns = 0

-----------------------------------------------------------------------------
(* Gateway *)

\* A bug AckNamesOwnJob must catch: keys that collide across principals.
Conflicts_GlobalKey(r) == {j \in Created : job[j].req.key = r.key}

\* The row that ON CONFLICT (requested_by, idempotency_key) runs into.
Conflicts(r) ==
  {j \in Created : job[j].req.owner = r.owner /\ job[j].req.key = r.key}

\* create_erasure: insert_or_get and the commit, then the 202.  A subject
\* without a subject_shard_map row gets a 404 and changes nothing.
CreateErasure(r) ==
  /\ \/ /\ Conflicts(r) = {}
        /\ \E id \in JobIds \ Created :
             /\ \A i \in JobIds \ Created : id <= i
             /\ job' = [job EXCEPT ![id] =
                  [status |-> "queued", req |-> r, leasedBy |-> NoWorker,
                   lease |-> "none", attempts |-> 0]]
             /\ acks' = {[req |-> r, id |-> id]}
     \/ \E j \in Conflicts(r) :
          /\ acks' = {[req |-> r, id |-> j]}
          /\ UNCHANGED job
  /\ UNCHANGED <<manifests, up, held, crashes, overruns>>

-----------------------------------------------------------------------------
(* worker/queue.py *)

\* A bug EveryJobSettles must catch: the reaper is not run.
Reaped_Never(j) == FALSE

\* A bug OneHolder must catch: the reaper does not look at lease_expires_at.
Reaped_AnyLease(j) == job[j].status = "processing"

\* reap_expired_leases
Reaped(j) == job[j].status = "processing" /\ job[j].lease = "expired"

Requeued(row) ==
  [row EXCEPT !.status = "queued", !.leasedBy = NoWorker, !.lease = "none"]

\* What the claim sees: queued rows and the ones reaped just before it.
Claimable == With("queued") \cup {j \in JobIds : Reaped(j)}

\* A bug EarliestDeadlineFirst must catch: newest request first.
ClaimedBefore_Newest(i, j) ==
  \/ ShardOfJob(i) < ShardOfJob(j)
  \/ ShardOfJob(i) = ShardOfJob(j) /\ i > j

\* ORDER BY shard, sla_deadline
ClaimedBefore(i, j) ==
  \/ ShardOfJob(i) < ShardOfJob(j)
  \/ ShardOfJob(i) = ShardOfJob(j) /\ i < j

\* claim_batch's subquery with its LIMIT.
Batch ==
  {j \in Claimable :
     Cardinality({i \in Claimable : ClaimedBefore(i, j)}) < POLL_BATCH_SIZE}

Leased(row, w) ==
  [row EXCEPT !.status = "processing", !.leasedBy = w, !.lease = "live",
              !.attempts = @ + 1]

\* The first transaction of run_once: reap, claim, commit.
Poll(w) ==
  /\ w \in up
  /\ held[w] = {}
  /\ Batch # {}
  /\ job' = [j \in JobIds |->
       IF j \in Batch
       THEN Leased(job[j], w)
       ELSE IF Reaped(j)
            THEN Requeued(job[j])
            ELSE job[j]]
  /\ held' = [held EXCEPT ![w] = Batch]
  /\ UNCHANGED <<manifests, up, acks, crashes, overruns>>

-----------------------------------------------------------------------------
(* worker/jobs.py, worker/main.py *)

\* The jobs of w's batch whose shard group ended well.
DoneBy(w, ok) == {j \in held[w] : ShardOfJob(j) \in ok}

\* A bug DoneHasManifest must catch: the manifest rows are not inserted.
Inserted_None(w, ok) == {}

\* A bug CertifiedIsDone must catch: failed groups get manifests too.
Inserted_WholeBatch(w, ok) == held[w]

\* The manifest rows of the groups that ended well.
Inserted(w, ok) == DoneBy(w, ok)

\* A bug QueueTypeOK must catch: the lease columns are not cleared.
Settled_KeepsLease(row, status) == [row EXCEPT !.status = status]

\* UPDATE ... SET status, leased_by = NULL, lease_expires_at = NULL
Settled(row, status) ==
  [row EXCEPT !.status = status, !.leasedBy = NoWorker, !.lease = "none"]

\* The second transaction commits: every UPDATE is by erasure_id alone, with
\* no look at status or lease.  erasure_id is the key of erasure_manifests.
Commit(w, ok) ==
  /\ w \in up
  /\ held[w] # {}
  /\ DoneBy(w, ok) \cap manifests = {}
  /\ job' = [j \in JobIds |->
       IF j \in held[w]
       THEN Settled(job[j], IF j \in DoneBy(w, ok) THEN "done" ELSE "failed")
       ELSE job[j]]
  /\ manifests' = manifests \cup Inserted(w, ok)
  /\ held' = [held EXCEPT ![w] = {}]
  /\ UNCHANGED <<up, acks, crashes, overruns>>

\* The process dies, or an exception leaves run_once, which nothing catches:
\* the second transaction is rolled back and the batch forgotten.
Die(w) ==
  /\ w \in up
  /\ up' = up \ {w}
  /\ held' = [held EXCEPT ![w] = {}]
  /\ UNCHANGED <<job, manifests, acks, overruns>>

Crash(w) == crashes < MaxCrashes /\ crashes' = crashes + 1 /\ Die(w)

\* COMMIT of a transaction in which a statement failed is a ROLLBACK that
\* raises nothing: run_once goes on as if the batch had been recorded.
SilentRollback(w) ==
  /\ w \in up
  /\ held[w] # {}
  /\ crashes < MaxCrashes
  /\ crashes' = crashes + 1
  /\ held' = [held EXCEPT ![w] = {}]
  /\ UNCHANGED <<job, manifests, up, acks, overruns>>

\* A second manifest for a job violates the primary key.
DuplicateManifest(w) ==
  /\ held[w] \cap manifests # {}
  /\ Die(w)
  /\ UNCHANGED crashes

\* The operator starts the worker again (the container has no restart policy).
Restart(w) ==
  /\ w \notin up
  /\ up' = up \cup {w}
  /\ UNCHANGED <<job, manifests, held, acks, crashes, overruns>>

-----------------------------------------------------------------------------
(* Time *)

Abandoned(j) == \A w \in Workers : j \notin held[w]

\* LEASE_SECONDS pass: after a crash, or under a rebuild that takes longer.
LeaseExpires(j) ==
  /\ job[j].status = "processing"
  /\ job[j].lease = "live"
  /\ \/ Abandoned(j) /\ UNCHANGED overruns
     \/ ~Abandoned(j) /\ overruns < MaxOverruns /\ overruns' = overruns + 1
  /\ job' = [job EXCEPT ![j].lease = "expired"]
  /\ UNCHANGED <<manifests, up, held, acks, crashes>>

Settle(w) == \E ok \in SUBSET Shards : Commit(w, ok)

QueueNext ==
  \/ \E r \in Request : CreateErasure(r)
  \/ \E w \in Workers :
       \/ Poll(w) \/ Settle(w) \/ Crash(w) \/ SilentRollback(w)
       \/ DuplicateManifest(w) \/ Restart(w)
  \/ \E j \in JobIds : LeaseExpires(j)

\* Workers poll and finish what they claim, dead workers are started again,
\* and time passes for leases nobody works under.
QueueFairness ==
  /\ \A w \in Workers :
       WF_queueVars(Poll(w)) /\ WF_queueVars(Settle(w) \/ DuplicateManifest(w))
         /\ WF_queueVars(Restart(w))
  /\ \A j \in JobIds : WF_queueVars(LeaseExpires(j) /\ Abandoned(j))

QueueSpec == QueueInit /\ [][QueueNext]_queueVars
FairQueueSpec == QueueSpec /\ QueueFairness

-----------------------------------------------------------------------------
(* Properties *)

\* A row of erasure_jobs has a leaseholder and a lease exactly while it is
\* 'processing': claim, reap and the status updates always move the three
\* columns together.
QueueTypeOK ==
  /\ job \in [JobIds -> Row \cup {NoJob}]
  /\ manifests \subseteq JobIds
  /\ up \subseteq Workers
  /\ held \in [Workers -> SUBSET JobIds]
  /\ acks \subseteq Ack
  /\ crashes \in 0 .. MaxCrashes
  /\ overruns \in 0 .. MaxOverruns

\* A 202 carries the erasure_id of a job that the same principal created under
\* the same Idempotency-Key, whoever else uses that key (migration 0004).
AckNamesOwnJob ==
  \A a \in acks :
    /\ job[a.id].status # "absent"
    /\ job[a.id].req.owner = a.req.owner
    /\ job[a.id].req.key = a.req.key

\* No status says done without a certificate to show for it: the certificate
\* route answers for every done job, in any race of workers and leases.
DoneHasManifest == With("done") \subseteq manifests

\* As long as no lease has run out under a live worker, a job is in the batch of
\* at most one worker, and that worker is the one its row names.
OneHolder ==
  overruns = 0 =>
    \A w \in Workers : \A j \in held[w] :
      /\ job[j].leasedBy = w
      /\ \A v \in Workers \ {w} : j \notin held[v]

\* As long as no lease has run out under a live worker, a job whose certificate
\* was recorded is never reported as anything but done.
CertifiedIsDone == overruns = 0 => manifests \subseteq With("done")

\* A poll leaves no job of a shard queued while it claims a later deadline of
\* the same shard, requeued jobs included.
EarliestDeadlineFirst ==
  [][\A w \in Workers, i, j \in JobIds :
       j \in held'[w] \ held[w] /\ i < j /\ i \in Claimable
         /\ ShardOfJob(i) = ShardOfJob(j)
       => i \in held'[w]]_queueVars

\* Every accepted request is settled, whatever workers die on the way.
EveryJobSettles ==
  \A j \in JobIds :
    job[j].status \in {"queued", "processing"} ~> job[j].status \in {"done", "failed"}

=============================================================================
