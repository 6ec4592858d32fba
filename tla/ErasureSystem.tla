--------------------------- MODULE ErasureSystem ----------------------------
(***************************************************************************)
(* One erasure from request to served model: JobQueue's tables and workers *)
(* put together with what process_claimed (worker/jobs.py) does between    *)
(* claim and commit.  For each shard group of the batch it rebuilds on     *)
(* disk, promotes the result (_promote, engine/active.py) and records it,  *)
(* all groups inside ONE database transaction, while the rebuilds touch    *)
(* files no rollback brings back.                                          *)
(*                                                                         *)
(* A rebuild is one step here, or a step to where it was broken off        *)
(* (SisaEngine and GbdtEngine have its inside); a model is the set of      *)
(* subjects it retained, and its digest is that set.  A shard file or      *)
(* routing.json that was cut short does not load and counts as empty.      *)
(***************************************************************************)
EXTENDS JobQueue

CONSTANTS
  MaxKills,       \* bound on worker processes killed
  MaxFaults,      \* bound on exceptions of file I/O
  MaxSqlFaults    \* bound on failing SQL statements

\* Each lost batch is due to one kill or one failed statement.
ASSUME LossBudget ==
  /\ MaxKills \in Nat /\ MaxFaults \in Nat /\ MaxSqlFaults \in Nat
  /\ MaxKills + MaxSqlFaults <= MaxCrashes
ASSUME SomeShard == Shards # {}

VARIABLES
  rows,       \* subjects with rows in their shard file
  routed,     \* subjects listed in routing.json
  live,       \* [Shards -> the model at the conventional path]
  cas,        \* files under cas/: [shard, digest, content, whole]
  versions,   \* committed rows of model_versions
  tx,         \* [Workers -> locals and open transaction of process_claimed]
  clock,      \* transactions started, for now()
  kills, faults, sqlFaults

diskVars == <<rows, routed, live, cas>>
budgets == <<kills, faults, sqlFaults>>
sysVars == <<queueVars, diskVars, versions, tx, clock, budgets>>

-----------------------------------------------------------------------------

InShard(k) == {s \in Subjects : ShardOf[s] = k}

\* A content-addressed file, whole or cut short while it was copied; and a row
\* of model_versions: the digest its name abbreviates (none for v0-baseline),
\* promoted_at and shard_checkpoints.
CasFile == [shard : Shards, digest : SUBSET Subjects,
            content : SUBSET Subjects, whole : BOOLEAN]
Version == [name : SUBSET SUBSET Subjects, at : Nat, cks : [Shards -> SUBSET Subjects]]

\* process_claimed between claim and commit: the groups still to do, where the
\* current one stands, and the transaction's writes so far.
Tx == [todo : SUBSET Shards, phase : {"rebuild", "book", "spot"},
       shard : Shards, digest : SUBSET Subjects,
       ok : SUBSET Shards, new : SUBSET Version,
       start : Nat, aborted : BOOLEAN]
NoTx == [todo |-> {}, phase |-> "rebuild", shard |-> CHOOSE k \in Shards : TRUE,
         digest |-> {}, ok |-> {}, new |-> {}, start |-> 0, aborted |-> FALSE]

\* scripts/load_routing.py after a full training run: v0-baseline.
Baseline == [name |-> {}, at |-> 0, cks |-> [k \in Shards |-> InShard(k)]]

SystemInit ==
  /\ QueueInit
  /\ rows = Subjects
  /\ routed = Subjects
  /\ live = [k \in Shards |-> InShard(k)]
  /\ cas = {[shard |-> k, digest |-> InShard(k), content |-> InShard(k),
              whole |-> TRUE] : k \in Shards}
  /\ versions = {Baseline}
  /\ tx = [w \in Workers |-> NoTx]
  /\ clock = 0
  /\ kills = 0 /\ faults = 0 /\ sqlFaults = 0

-----------------------------------------------------------------------------
(* Intake, claim, time: as in JobQueue *)

Outside == UNCHANGED <<diskVars, versions, clock, budgets>>

Intake(r) == CreateErasure(r) /\ Outside /\ UNCHANGED tx
Expiry(j) == LeaseExpires(j) /\ Outside /\ UNCHANGED tx
Start(w) == Restart(w) /\ Outside /\ UNCHANGED tx

\* claim_batch, then groupby on shard.
Claim(w) ==
  /\ Poll(w)
  /\ tx' = [tx EXCEPT ![w] = [NoTx EXCEPT !.todo = {ShardOfJob(j) : j \in Batch}]]
  /\ Outside

-----------------------------------------------------------------------------
(* process_claimed *)

\* The jobs of one shard, and the refs rebuild_batch_by_ref is called with.
Group(w, k) == {j \in held[w] : ShardOfJob(j) = k}
Refs(w, k) == {job[j].req.subject : j \in Group(w, k)}
ListedTwice(w, k) ==
  \E i, j \in Group(w, k) : i # j /\ job[i].req.subject = job[j].req.subject

\* The loop is at the group of shard k: groups come sorted by shard.
Rebuilding(w, k) ==
  /\ w \in up /\ tx[w].phase = "rebuild"
  /\ k \in tx[w].todo /\ \A m \in tx[w].todo : k <= m
Processing(w, phase) == w \in up /\ tx[w].phase = phase /\ tx[w].todo # {}

\* A statement is executed: the first one starts the transaction, whose start
\* is what now() means until it ends.
StartTime(w) == IF tx[w].start = 0 THEN clock + 1 ELSE tx[w].start
Execute(w, t) ==
  /\ tx' = [tx EXCEPT ![w] = [t EXCEPT !.start = StartTime(w)]]
  /\ clock' = IF tx[w].start = 0 THEN clock + 1 ELSE clock

\* An exception leaves process_claimed: rolled back, and the process ends.
Escapes(w) ==
  /\ Crash(w)
  /\ tx' = [tx EXCEPT ![w] = NoTx]
  /\ UNCHANGED <<versions, clock>>

\* A bug KeepsQueue must catch: the failed group is committed on its own, with
\* the rest of the batch still in hand.
MarkFailed_CommitsAtOnce(w, k) ==
  /\ job' = [j \in JobIds |->
       IF j \in Group(w, k) THEN Settled(job[j], "failed") ELSE job[j]]
  /\ Execute(w, [tx[w] EXCEPT !.todo = @ \ {k}, !.phase = "rebuild"])
  /\ UNCHANGED <<manifests, up, held, acks, crashes, overruns, versions>>

\* The first except branch: UPDATE ... SET status = 'failed'.  In an aborted
\* transaction the UPDATE itself raises.
MarkFailed(w, k) ==
  IF tx[w].aborted THEN Escapes(w)
  ELSE /\ Execute(w, [tx[w] EXCEPT !.todo = @ \ {k}, !.phase = "rebuild"])
       /\ UNCHANGED <<queueVars, versions>>

\* A bug OneCertificate and EveryShardServed must catch: a ref that is not found
\* is skipped, so that a digest comes back.
Accepts_Unknown(w, k) == ~ListedTwice(w, k)

\* rebuild_batch_by_ref refuses a batch with a ref it does not find.
Accepts(w, k) == Refs(w, k) \subseteq routed \cap rows /\ ~ListedTwice(w, k)

\* What the rebuild trains on.
Retained(w, k) == (InShard(k) \cap rows) \ Refs(w, k)

\* A bug DoneIsErased must catch: the refs are not popped from routing.json.
RoutedAfter_NotPopped(w, k) == routed

\* What save_routing writes.
RoutedAfter(w, k) == routed \ Refs(w, k)

\* The new rows and the new live model, before routing.json is written.
Rewritten(w, k) ==
  /\ Retained(w, k) # {}
  /\ rows' = rows \ Refs(w, k)
  /\ live' = [live EXCEPT ![k] = Retained(w, k)]

\* Where the tree engine's rebuild_batch_by_ref notices that a ref has no rows,
\* or is listed twice: at tree_before.remove or at the second pop.
TreesNoticeLate(w, k) ==
  Refs(w, k) \subseteq routed /\ Refs(w, k) \cap rows # {} /\ Rewritten(w, k)

RebuildRefused(w, k) ==
  /\ Rebuilding(w, k)
  /\ ~Accepts(w, k)
  /\ UNCHANGED <<rows, live>> \/ TreesNoticeLate(w, k)
  /\ MarkFailed(w, k)
  /\ UNCHANGED <<routed, cas, budgets>>

RebuildDone(w, k) ==
  /\ Rebuilding(w, k)
  /\ Accepts(w, k)
  /\ Rewritten(w, k)
  /\ routed' = RoutedAfter(w, k)
  /\ tx' = [tx EXCEPT ![w].phase = "book", ![w].shard = k,
                      ![w].digest = Retained(w, k)]
  /\ UNCHANGED <<queueVars, cas, versions, clock, budgets>>

\* What an I/O error or the end of the process leaves of a rebuild: the files as
\* they were; the shard file rewritten, perhaps cut short; or the live model
\* replaced too, which is cut short at most until the next rebuild replaces it,
\* and routing.json perhaps cut short.
PartWay(w, k) ==
  /\ Accepts(w, k)
  /\ \/ UNCHANGED <<rows, live, routed>>
     \/ rows' \in {rows \ Refs(w, k), rows \ InShard(k)} /\ UNCHANGED <<live, routed>>
     \/ Rewritten(w, k) /\ routed' \in {routed, {}}

\* It raises: no row is left to fit on after save_shard, or an I/O error.
RebuildBrokenOff(w, k) ==
  /\ Rebuilding(w, k)
  /\ \/ /\ Accepts(w, k) /\ Retained(w, k) = {}
        /\ rows' = rows \ Refs(w, k)
        /\ UNCHANGED <<live, routed, faults>>
     \/ /\ PartWay(w, k)
        /\ faults < MaxFaults /\ faults' = faults + 1
  /\ MarkFailed(w, k)
  /\ UNCHANGED <<cas, kills, sqlFaults>>

\* What os.path.exists(cas_path) looks for, and what copyfile writes.
Named(k, digest) == {f \in cas : f.shard = k /\ f.digest = digest}
Copy(k, digest) ==
  [shard |-> k, digest |-> digest, content |-> live[k], whole |-> TRUE]

\* A bug NamedByContent must catch: another shard's file is copied.
Promoted_WrongShard(k, digest) ==
  cas \cup {[Copy(k, digest) EXCEPT !.content = live[m]] : m \in Shards \ {k}}

\* promote_artifact: copy the live file unless the digest's file exists, whole
\* or not.
Promoted(k, digest) ==
  IF Named(k, digest) # {} THEN cas ELSE cas \cup {Copy(k, digest)}

\* copyfile raises, or the process ends, before it opens the file or with any
\* part of the model in it.
CutShort(k, digest) ==
  IF Named(k, digest) # {} THEN {cas}
  ELSE {cas} \cup {cas \cup {[Copy(k, digest) EXCEPT !.content = part, !.whole = FALSE]} :
                     part \in SUBSET live[k]}

\* ORDER BY promoted_at DESC LIMIT 1, in both gateway routes and in _promote:
\* some row with the greatest promoted_at.
Newest(S) == {v \in S : \A u \in S : u.at <= v.at}

\* A bug UntiedServedForgets must catch: other shards are carried from the baseline.
CarriedFrom_Baseline(w) == {Baseline}

\* A bug ServedNeverGoesBack must catch: ORDER BY promoted_at without DESC.
CarriedFrom_Oldest(w) ==
  {v \in versions \cup tx[w].new : \A u \in versions \cup tx[w].new : v.at <= u.at}

\* The row _promote starts from, as the transaction sees the table.
CarriedFrom(w) == Newest(versions \cup tx[w].new)

\* The row _promote makes.
Promotion(w, base) ==
  [name |-> {tx[w].digest}, at |-> StartTime(w),
   cks |-> [base.cks EXCEPT ![tx[w].shard] = tx[w].digest]]

\* ON CONFLICT (model_version) DO NOTHING
NewVersions(w, base) ==
  IF \E v \in versions \cup tx[w].new : v.name = {tx[w].digest} THEN {}
  ELSE {Promotion(w, base)}

\* _promote, the manifests and the 'done' updates of one group.
Record(w) ==
  /\ Processing(w, "book")
  /\ ~tx[w].aborted
  /\ cas' = Promoted(tx[w].shard, tx[w].digest)
  /\ \E base \in CarriedFrom(w) :
       Execute(w, [tx[w] EXCEPT !.phase = "spot", !.ok = @ \cup {tx[w].shard},
                                !.new = @ \cup NewVersions(w, base)])
  /\ UNCHANGED <<queueVars, rows, routed, live, versions, budgets>>

\* A bug NeverStuckByIO must catch: nothing catches a bookkeeping failure.
RecordFails_Uncaught(w) ==
  /\ Processing(w, "book")
  /\ faults < MaxFaults
  /\ faults' = faults + 1
  /\ Die(w)
  /\ tx' = [tx EXCEPT ![w] = NoTx]
  /\ UNCHANGED <<diskVars, versions, clock, kills, sqlFaults, crashes>>

\* _promote raises outside the database: copyfile, or the eval set or a model
\* file does not load after the version was inserted.  The second except
\* branch marks the group failed, and what was inserted stays.
RecordFails(w) ==
  /\ Processing(w, "book")
  /\ ~tx[w].aborted
  /\ faults < MaxFaults
  /\ faults' = faults + 1
  /\ \/ /\ Execute(w, [tx[w] EXCEPT !.phase = "rebuild", !.todo = @ \ {tx[w].shard}])
        /\ cas' \in CutShort(tx[w].shard, tx[w].digest)
     \/ /\ cas' = Promoted(tx[w].shard, tx[w].digest)
        /\ \E base \in CarriedFrom(w) :
             Execute(w, [tx[w] EXCEPT !.phase = "rebuild", !.todo = @ \ {tx[w].shard},
                                      !.new = @ \cup NewVersions(w, base)])
  /\ UNCHANGED <<queueVars, rows, routed, live, versions, kills, sqlFaults>>

\* A statement of the bookkeeping fails, or the transaction is aborted already,
\* whether or not copyfile raises first: the except branch's own UPDATE raises too.
RecordAborts(w) ==
  /\ Processing(w, "book")
  /\ \/ /\ cas' = Promoted(tx[w].shard, tx[w].digest)
        /\ IF tx[w].aborted THEN UNCHANGED sqlFaults
           ELSE sqlFaults < MaxSqlFaults /\ sqlFaults' = sqlFaults + 1
        /\ UNCHANGED faults
     \/ /\ tx[w].aborted
        /\ cas' \in CutShort(tx[w].shard, tx[w].digest)
        /\ faults < MaxFaults /\ faults' = faults + 1
        /\ UNCHANGED sqlFaults
  /\ Escapes(w)
  /\ UNCHANGED <<rows, routed, live, kills>>

\* run_spot_check for the jobs the HMAC selects; errors are only logged.
SpotCheck(w) ==
  /\ Processing(w, "spot")
  /\ tx' = [tx EXCEPT ![w].phase = "rebuild", ![w].todo = @ \ {tx[w].shard}]
  /\ UNCHANGED <<queueVars, diskVars, versions, clock, budgets>>

\* ... also when it was the INSERT that failed, which aborts the transaction.
SpotCheckAborts(w) ==
  /\ Processing(w, "spot")
  /\ sqlFaults < MaxSqlFaults
  /\ sqlFaults' = sqlFaults + 1
  /\ tx' = [tx EXCEPT ![w].phase = "rebuild", ![w].todo = @ \ {tx[w].shard},
                      ![w].aborted = TRUE]
  /\ UNCHANGED <<queueVars, diskVars, versions, clock, kills, faults>>

\* The end of the with block.
Finish(w) ==
  /\ w \in up
  /\ held[w] # {}
  /\ tx[w].todo = {}
  /\ IF tx[w].aborted
     THEN SilentRollback(w) /\ UNCHANGED versions
     ELSE Commit(w, tx[w].ok) /\ versions' = versions \cup tx[w].new
  /\ tx' = [tx EXCEPT ![w] = NoTx]
  /\ UNCHANGED <<diskVars, clock, budgets>>

\* The process is killed, perhaps in the middle of a rebuild or of a promotion,
\* which nothing in the tables will tell.
Killed(w) ==
  /\ kills < MaxKills
  /\ kills' = kills + 1
  /\ \/ UNCHANGED diskVars
     \/ /\ Processing(w, "book")
        /\ cas' \in CutShort(tx[w].shard, tx[w].digest)
                     \cup {Promoted(tx[w].shard, tx[w].digest)}
        /\ UNCHANGED <<rows, routed, live>>
     \/ /\ \E k \in Shards : Rebuilding(w, k) /\ PartWay(w, k)
        /\ UNCHANGED cas
  /\ Escapes(w)
  /\ UNCHANGED <<faults, sqlFaults>>

SystemNext ==
  \/ \E r \in Request : Intake(r)
  \/ \E j \in JobIds : Expiry(j)
  \/ \E w \in Workers, k \in Shards :
       RebuildRefused(w, k) \/ RebuildDone(w, k) \/ RebuildBrokenOff(w, k)
  \/ \E w \in Workers :
       \/ Claim(w)
       \/ Record(w) \/ RecordFails(w) \/ RecordAborts(w)
       \/ SpotCheck(w) \/ SpotCheckAborts(w) \/ Finish(w)
       \/ Killed(w) \/ Start(w)

SystemSpec == SystemInit /\ [][SystemNext]_sysVars

-----------------------------------------------------------------------------
(* Properties *)

\* Every promoted version names a checkpoint for every shard, and the disk, the
\* tables and the open transactions keep their shapes.
SystemTypeOK ==
  /\ rows \subseteq Subjects /\ routed \subseteq Subjects
  /\ live \in [Shards -> SUBSET Subjects]
  /\ cas \subseteq CasFile
  /\ versions \subseteq Version
  /\ tx \in [Workers -> Tx]
  /\ clock \in Nat
  /\ kills \in 0 .. MaxKills /\ faults \in 0 .. MaxFaults
  /\ sqlFaults \in 0 .. MaxSqlFaults

\* The files a gateway may serve now: those of any newest model_versions row.
Served ==
  {f \in cas : \E v \in Newest(versions) : v.cks[f.shard] = f.digest}

\* Once a job is done, no model that predict may load was trained on its
\* subject.
ServedForgets ==
  \A j \in With("done") : \A f \in Served : job[j].req.subject \notin f.content

\* Promotion carries every earlier erasure forward, through crashes, failed
\* bookkeeping and rolled back transactions: as long as no two versions share
\* their promoted_at, no model that predict may load was trained on the subject
\* of a done job.
UntiedServedForgets ==
  (\A u, v \in versions : u.at = v.at => u = v) => ServedForgets

\* Every shard has a whole model file to serve in every newest version: predict
\* never answers 503 for a checkpoint row that went missing, nor fails to load a
\* file that an earlier promotion left cut short under the digest's name.
EveryShardServed ==
  \A v \in Newest(versions), k \in Shards : \E f \in Named(k, v.cks[k]) : f.whole

\* A content-addressed file that was copied whole holds the model its name is the
\* digest of, though it is copied from the path that the next rebuild overwrites.
NamedByContent == \A f \in cas : f.whole => f.content = f.digest

\* Who the models that predict may load for shard k were trained on.
Serves(k) == UNION {f.content : f \in {g \in Served : g.shard = k}}

\* An erasure that reached the served models stays there, also when its record was
\* lost or its job failed: as long as no two versions share their promoted_at, no
\* shard is ever again served by a model that knows somebody the model before it
\* did not.
ServedNeverGoesBack ==
  [][(\A u, v \in versions' : u.at = v.at => u = v) =>
       \A k \in Shards : Serves(k)' \subseteq Serves(k)]_sysVars

\* No subject has two certificates, whatever was retried: the one attest picks
\* is the one its erasure got.
OneCertificate ==
  \A i, j \in manifests : job[i].req.subject = job[j].req.subject => i = j

\* A done job's subject is gone from the shard file, the routing table and the
\* live model, however its batch was interrupted.
DoneIsErased ==
  \A j \in With("done") :
    LET s == job[j].req.subject
    IN  s \notin rows /\ s \notin routed /\ s \notin live[ShardOf[s]]

\* The system's steps are JobQueue's steps.
KeepsQueue == QueueSpec

\* As long as nothing is killed and no SQL statement fails, no job is left
\* 'processing' with no worker on it: a failure on disk, in the rebuild or in the
\* bookkeeping outside the database, is reported with the batch.
NeverStuckByIO ==
  kills = 0 /\ sqlFaults = 0 => \A j \in With("processing") : ~Abandoned(j)

=============================================================================
