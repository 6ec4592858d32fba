------------------------------ MODULE Serving -------------------------------
(***************************************************************************)
(* One gateway process answering predict requests on several threads       *)
(* (gateway/routes/predict.py) while the worker replaces models: the pool  *)
(* of database connections (db/conn.py), the ensemble cache                *)
(* (inference/batched_ensemble.py), the preprocessor files that            *)
(* engine/active.py pairs with content-addressed weights, and the review   *)
(* queue that borrows from the same pool (gateway/disagreement.py).        *)
(*                                                                         *)
(* Weights are the set of subjects they were trained on and a weight path  *)
(* is that set, because a content-addressed file never changes.  A         *)
(* preprocessor is the set it was fit on; its file does change.            *)
(***************************************************************************)
EXTENDS Integers, FiniteSets, Sequences

CONSTANTS
  Subjects, Shards, ShardOf,
  SliceZero,    \* subjects of slice 0, the ones a preprocessor is fit on
  Threads,      \* request threads of the gateway
  Reviewers,    \* reviews under way at once; {} is DISAGREEMENT_THRESHOLD = 0
  PoolSize,     \* maxconn of the pool
  IS_GBDT,      \* config/settings.py: MODEL_ENGINE
  MaxErrors     \* bound on SQL errors

ASSUME ServingBounds == PoolSize \in Nat \ {0} /\ MaxErrors \in Nat
ASSUME ServingShards ==
  /\ Shards \subseteq Nat /\ Shards # {}
  /\ ShardOf \in [Subjects -> Shards] /\ SliceZero \subseteq Subjects
  /\ IS_GBDT \in BOOLEAN
\* The server's thread pool and its background tasks.
ASSUME ServingCallers == IsFiniteSet(Threads) /\ IsFiniteSet(Reviewers)

VARIABLES
  retained,   \* [Shards -> subjects with rows in shard{k}.npz]
  preproc,    \* [Shards -> {what shard{k}_preproc.json was fit on}]; {} is torn
  versions,   \* the shard_checkpoints of model_versions, oldest first
  done,       \* subjects whose erasure is committed as done
  rebuild,    \* {} or {the subject the worker is erasing and how far it is}
  pools,      \* pools created; the latest is _pool
  failed,     \* connections with a failed transaction
  lost,       \* connections that were not put back and never will be
  cache,      \* _cache: a set of [key, ensemble]
  request,    \* [Threads -> the locals of predict]
  review,     \* [Reviewers -> the locals of disagreement.record]
  reviews,    \* rows of disagreement_reviews: a version and what scored it
  answers,    \* history: ensembles that answered, with their version
  errors      \* SQL errors so far

workerVars == <<retained, preproc, versions, done, rebuild>>
reviewVars == <<review, reviews>>
vars == <<workerVars, reviewVars, pools, lost, failed, cache, request, answers, errors>>

-----------------------------------------------------------------------------
(* Data *)

Paths == [Shards -> SUBSET Subjects]
Part == [weights : SUBSET Subjects, pre : SUBSET Subjects]
Ensemble == [Shards -> Part]
Connection == (1 .. Cardinality(Threads)) \X (1 .. PoolSize)

Phases == {"idle", "unpooled", "pooled", "borrowed", "read", "raised",
           "lookup", "loading", "scoring"}

\* since is history: what was done when the request came in.
Idle == [pc |-> "idle", since |-> {}, pool |-> 0, conn |-> <<>>,
         paths |-> <<>>, parts |-> <<>>]
NoReview == [pc |-> "none", conn |-> <<>>, row |-> {}]

\* A bug AnswersForget must catch: the key leaves out the file paths.
Key_ShardsOnly(paths) == DOMAIN paths

\* The cache key: the sorted (shard, path) pairs.
Key(paths) == paths

Init ==
  /\ retained = [k \in Shards |-> {s \in Subjects : ShardOf[s] = k}]
  /\ preproc = [k \in Shards |-> {retained[k] \cap SliceZero}]
  /\ versions = <<retained>>
  /\ done = {}
  /\ rebuild = {}
  /\ pools = 0
  /\ failed = {}
  /\ lost = {}
  /\ cache = {}
  /\ request = [t \in Threads |-> Idle]
  /\ review = [v \in Reviewers |-> NoReview]
  /\ reviews = {}
  /\ answers = {}
  /\ errors = 0

-----------------------------------------------------------------------------
(* The worker, as far as a gateway notices it *)

GatewayIdle ==
  UNCHANGED <<pools, lost, failed, cache, request, reviewVars, answers, errors>>

\* A rebuild takes the rows out and opens the preprocessor file for writing,
\* which truncates it.  If slice 0 is empty it raises in between.
StartRefit(s) ==
  LET k == ShardOf[s]
  IN  /\ rebuild = {}
      /\ s \in retained[k]
      /\ retained' = [retained EXCEPT ![k] = @ \ {s}]
      /\ CASE IS_GBDT ->
              rebuild' = {[subject |-> s, pc |-> "training"]} /\ UNCHANGED preproc
           [] ~IS_GBDT /\ retained'[k] \cap SliceZero = {} ->
              UNCHANGED <<rebuild, preproc>>
           [] OTHER ->
              /\ rebuild' = {[subject |-> s, pc |-> "fitting"]}
              /\ preproc' = [preproc EXCEPT ![k] = {}]
      /\ UNCHANGED <<versions, done>>
      /\ GatewayIdle

\* The preprocessor fit on the retained rows is written.
EndRefit ==
  \E r \in rebuild :
    LET k == ShardOf[r.subject]
    IN  /\ r.pc = "fitting"
        /\ preproc' = [preproc EXCEPT ![k] = {retained[k] \cap SliceZero}]
        /\ rebuild' = {[r EXCEPT !.pc = "training"]}
        /\ UNCHANGED <<retained, versions, done>>
        /\ GatewayIdle

\* _promote, the content-addressed copy and the 'done' update are committed.
\* (Weights resumed after a broken-off rebuild may also know its subject, which
\* is not done; see SisaEngine.)
Promote ==
  \E r \in rebuild :
    LET k == ShardOf[r.subject]
        newest == versions[Len(versions)]
    IN  /\ r.pc = "training"
        /\ versions' = Append(versions, [newest EXCEPT ![k] = retained[k]])
        /\ done' = done \cup {r.subject}
        /\ rebuild' = {}
        /\ UNCHANGED <<retained, preproc>>
        /\ GatewayIdle

\* The rebuild raises or its worker dies; the files stay as they are.
BreakOff ==
  /\ rebuild # {}
  /\ rebuild' = {}
  /\ UNCHANGED <<retained, preproc, versions, done>>
  /\ GatewayIdle

-----------------------------------------------------------------------------
(* db/conn.py *)

Update(t, r) == request' = [request EXCEPT ![t] = r]
Raise(t) == Update(t, Idle)

\* predict is called: _get_pool looks at _pool without the lock.
BeginRequest(t) ==
  /\ request[t].pc = "idle"
  /\ Update(t, [Idle EXCEPT !.since = done, !.pool = pools,
                            !.pc = IF pools = 0 THEN "unpooled" ELSE "pooled"])
  /\ UNCHANGED <<workerVars, reviewVars, pools, lost, failed, cache, answers, errors>>

\* A bug PoolIsSound must catch: _pool is not checked again under the lock.
PoolsAfter_Unchecked(n) == n + 1

\* The second check and the creation, under _pool_lock.
PoolsAfter(n) == IF n = 0 THEN 1 ELSE n

CreatePool(t) ==
  /\ request[t].pc = "unpooled"
  /\ pools' = PoolsAfter(pools)
  /\ Update(t, [request[t] EXCEPT !.pc = "pooled", !.pool = pools'])
  /\ UNCHANGED <<workerVars, reviewVars, lost, failed, cache, answers, errors>>

HeldByRequests == {request[t].conn : t \in Threads} \ {<<>>}
HeldByReviews == {review[v].conn : v \in Reviewers} \ {<<>>}
Free(p) == ({p} \X (1 .. PoolSize)) \ (HeldByRequests \cup HeldByReviews \cup lost)

\* getconn: some free connection, or PoolError when all are out.
Borrow(t) ==
  /\ request[t].pc = "pooled"
  /\ \/ \E c \in Free(request[t].pool) :
          Update(t, [request[t] EXCEPT !.pc = "borrowed", !.conn = c])
     \/ Free(request[t].pool) = {} /\ Raise(t)
  /\ UNCHANGED <<workerVars, reviewVars, pools, lost, failed, cache, answers, errors>>

\* rollback and putconn (or, if the connection is known to be closed, a fresh
\* one next time).
FailedAfterReturn(c) == failed \ {c}

\* The finally block of pooled; an exception then goes on to the client.
GiveBack(t) ==
  /\ request[t].pc \in {"read", "raised"}
  /\ failed' = FailedAfterReturn(request[t].conn)
  /\ IF request[t].pc = "raised" THEN Raise(t)
     ELSE Update(t, [request[t] EXCEPT !.pc = "lookup", !.conn = <<>>])
  /\ UNCHANGED <<workerVars, reviewVars, pools, lost, cache, answers, errors>>

\* ... unless rollback itself raises, which also loses a response that was ready:
\* putconn is not reached.
RollbackRaises(t) ==
  /\ request[t].pc \in {"read", "raised"}
  /\ errors < MaxErrors
  /\ errors' = errors + 1
  /\ lost' = lost \cup {request[t].conn}
  /\ Raise(t)
  /\ UNCHANGED <<workerVars, reviewVars, pools, failed, cache, answers>>

-----------------------------------------------------------------------------
(* gateway/routes/predict.py, inference/batched_ensemble.py *)

\* ORDER BY promoted_at DESC LIMIT 1 (ErasureSystem has the case of a tie).
CurrentModel(vs) == vs[Len(vs)]

\* _current_model; a failed transaction refuses every statement.
ReadVersion(t) ==
  /\ request[t].pc = "borrowed"
  /\ IF request[t].conn \in failed
     THEN Update(t, [request[t] EXCEPT !.pc = "raised"])
     ELSE Update(t, [request[t] EXCEPT !.pc = "read", !.paths = CurrentModel(versions)])
  /\ UNCHANGED <<workerVars, reviewVars, pools, lost, failed, cache, answers, errors>>

\* A statement of it fails.
SqlError(t) ==
  /\ request[t].pc = "borrowed"
  /\ errors < MaxErrors
  /\ errors' = errors + 1
  /\ failed' = failed \cup {request[t].conn}
  /\ Update(t, [request[t] EXCEPT !.pc = "raised"])
  /\ UNCHANGED <<workerVars, reviewVars, pools, lost, cache, answers>>

Cached(paths) == {e \in cache : e.key = Key(paths)}

\* _cache.get(key) under the lock.
LookUp(t) ==
  /\ request[t].pc = "lookup"
  /\ \/ \E e \in Cached(request[t].paths) :
          Update(t, [request[t] EXCEPT !.pc = "scoring", !.parts = e.ensemble])
     \/ /\ Cached(request[t].paths) = {}
        /\ Update(t, [request[t] EXCEPT !.pc = "loading"])
  /\ UNCHANGED <<workerVars, reviewVars, pools, lost, failed, cache, answers, errors>>

\* A bug ServingTypeOK must catch: the last shard is left out.
Missing_AllButLast(parts) == {k \in Shards \ DOMAIN parts : \E m \in Shards : m > k}

\* The shards still to be loaded.
Missing(parts) == Shards \ DOMAIN parts

With(parts, k, p) ==
  [m \in DOMAIN parts \cup {k} |-> IF m = k THEN p ELSE parts[m]]

\* One iteration of the loading loop: torch.load of the weights, then the
\* preprocessor as it is now.  A torn one does not parse.  Boosters need none.
LoadShard(t) ==
  /\ request[t].pc = "loading"
  /\ \E k \in Missing(request[t].parts) :
       /\ \A m \in Missing(request[t].parts) : k <= m
       /\ LET with(p) == Update(t, [request[t] EXCEPT !.parts =
                           With(@, k, [weights |-> request[t].paths[k], pre |-> p])])
          IN  IF IS_GBDT THEN with({})
              ELSE \/ \E p \in preproc[k] : with(p)
                   \/ preproc[k] = {} /\ Raise(t)
  /\ UNCHANGED <<workerVars, reviewVars, pools, lost, failed, cache, answers, errors>>

\* A bug OneEnsemblePerVersion must catch: each thread uses what it built.
Landed_Own(t, entries) == request[t].parts

\* _cache.setdefault, then _cache[key]: whichever landed first.
Landed(t, entries) ==
  LET paths == request[t].paths
  IN  (CHOOSE e \in entries : e.key = Key(paths)).ensemble

Store(t) ==
  /\ request[t].pc = "loading"
  /\ Missing(request[t].parts) = {}
  /\ cache' = IF Cached(request[t].paths) # {} THEN cache
              ELSE cache \cup {[key |-> Key(request[t].paths),
                                ensemble |-> request[t].parts]}
  /\ Update(t, [request[t] EXCEPT !.pc = "scoring", !.parts = Landed(t, cache')])
  /\ UNCHANGED <<workerVars, reviewVars, pools, lost, failed, answers, errors>>

\* shard_probabilities and the response with its model_version.  Where the
\* shards disagree enough, a review is left to be recorded afterwards.
Answer(t) ==
  LET answer == [paths |-> request[t].paths, ensemble |-> request[t].parts]
  IN  /\ request[t].pc = "scoring"
      /\ answers' = answers \cup {answer}
      /\ Update(t, Idle)
      /\ \/ UNCHANGED review
         \/ \E v \in Reviewers :
              /\ review[v] = NoReview
              /\ review' = [review EXCEPT ![v] =
                   [pc |-> "waiting", conn |-> <<>>, row |-> {answer}]]
      /\ UNCHANGED <<workerVars, reviews, pools, lost, failed, cache, errors>>

-----------------------------------------------------------------------------
(* gateway/disagreement.py: a failure of record is swallowed wherever it is *)

Review(v, r) == review' = [review EXCEPT ![v] = r]

\* pooled: a PoolError drops the review.
ReviewBorrow(v) ==
  /\ review[v].pc = "waiting"
  /\ \/ \E c \in Free(pools) :
          Review(v, [review[v] EXCEPT !.pc = "borrowed", !.conn = c])
     \/ Free(pools) = {} /\ Review(v, NoReview)
  /\ UNCHANGED <<workerVars, reviews, pools, lost, failed, cache, request, answers, errors>>

\* INSERT and commit.
ReviewInsert(v) ==
  /\ review[v].pc = "borrowed"
  /\ reviews' = IF review[v].conn \in failed THEN reviews ELSE reviews \cup review[v].row
  /\ Review(v, [review[v] EXCEPT !.pc = "returning"])
  /\ UNCHANGED <<workerVars, pools, lost, failed, cache, request, answers, errors>>

\* The INSERT fails.
ReviewError(v) ==
  /\ review[v].pc = "borrowed"
  /\ errors < MaxErrors
  /\ errors' = errors + 1
  /\ failed' = failed \cup {review[v].conn}
  /\ Review(v, [review[v] EXCEPT !.pc = "returning"])
  /\ UNCHANGED <<workerVars, reviews, pools, lost, cache, request, answers>>

\* The finally block of pooled.
ReviewReturn(v) ==
  /\ review[v].pc = "returning"
  /\ failed' = FailedAfterReturn(review[v].conn)
  /\ Review(v, NoReview)
  /\ UNCHANGED <<workerVars, reviews, pools, lost, cache, request, answers, errors>>

\* ... unless rollback itself raises.
ReviewRollbackRaises(v) ==
  /\ review[v].pc = "returning"
  /\ errors < MaxErrors
  /\ errors' = errors + 1
  /\ lost' = lost \cup {review[v].conn}
  /\ Review(v, NoReview)
  /\ UNCHANGED <<workerVars, reviews, pools, failed, cache, request, answers>>

Next ==
  \/ \E s \in Subjects : StartRefit(s)
  \/ EndRefit \/ Promote \/ BreakOff
  \/ \E t \in Threads :
       \/ BeginRequest(t) \/ CreatePool(t) \/ Borrow(t) \/ GiveBack(t)
       \/ RollbackRaises(t) \/ ReadVersion(t) \/ SqlError(t)
       \/ LookUp(t) \/ LoadShard(t) \/ Store(t) \/ Answer(t)
  \/ \E v \in Reviewers :
       \/ ReviewBorrow(v) \/ ReviewInsert(v) \/ ReviewError(v)
       \/ ReviewReturn(v) \/ ReviewRollbackRaises(v)

Spec == Init /\ [][Next]_vars

-----------------------------------------------------------------------------
(* Properties *)

\* A request is scored by an ensemble with a part for every shard, and holds a
\* connection of a pool that exists exactly between getconn and putconn.
ServingTypeOK ==
  /\ retained \in Paths
  /\ \A k \in Shards : preproc[k] \subseteq SUBSET Subjects
  /\ \A i \in DOMAIN versions : versions[i] \in Paths
  /\ done \subseteq Subjects
  /\ pools \in 0 .. Cardinality(Threads)
  /\ failed \subseteq Connection /\ lost \subseteq Connection
  /\ \A e \in cache : e.ensemble \in Ensemble
  /\ \A v \in Reviewers :
       /\ review[v].pc \in {"none", "waiting", "borrowed", "returning"}
       /\ review[v].pc \in {"borrowed", "returning"} <=> review[v].conn \in Connection
  /\ \A t \in Threads :
       /\ request[t].pc \in Phases
       /\ request[t].pc \in {"borrowed", "read", "raised"} <=> request[t].conn \in Connection
       /\ request[t].pc = "scoring" => request[t].parts \in Ensemble

\* A request that came in after an erasure was reported done is scored by
\* weights and preprocessors that never saw the subject, whatever is cached and
\* whichever thread loaded it.
AnswersForget ==
  \A t \in Threads :
    request[t].pc = "scoring" =>
      \A s \in request[t].since, k \in Shards :
        s \notin request[t].parts[k].weights \cup request[t].parts[k].pre

\* All answers of a process for one version come from one ensemble, although
\* threads build it concurrently and preprocessor files change meanwhile; so do
\* the scores its reviews are about.
OneEnsemblePerVersion ==
  \A x, y \in answers \cup reviews : x.paths = y.paths => x.ensemble = y.ensemble

\* The gateway never has more connections out than one pool allows, also when
\* its first requests race to create the pool; no connection is out twice or again
\* after its rollback failed; and a handler or review that fails in the middle of
\* a transaction leaves nothing behind for the next borrower.
PoolIsSound ==
  LET holders == {t \in Threads : request[t].conn # <<>>}
      reviewers == {v \in Reviewers : review[v].conn # <<>>}
      out == HeldByRequests \cup HeldByReviews
  IN  /\ Cardinality(holders) + Cardinality(reviewers) = Cardinality(out)
      /\ Cardinality(out \cup lost) <= PoolSize
      /\ out \cap lost = {}
      /\ \A t \in Threads : request[t].pc = "borrowed" => request[t].conn \notin failed
      /\ \A v \in Reviewers : review[v].pc = "borrowed" => review[v].conn \notin failed

\* "a slow or failing insert cannot delay or fail a prediction"
\* (gateway/disagreement.py): a prediction is only ever refused a connection
\* because other predictions hold them all.
PredictionsUnharmed ==
  \A t \in Threads :
    request[t].pc = "pooled" /\ Free(request[t].pool) = {} => HeldByReviews = {}

=============================================================================
