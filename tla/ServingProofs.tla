--------------------------- MODULE ServingProofs ----------------------------
(***************************************************************************)
(* What holds of a gateway process for any subjects, shards, threads,      *)
(* reviews, pool size and number of SQL errors, under either engine.       *)
(*                                                                         *)
(* The argument has three parts, each an inductive invariant of its own:   *)
(* what the worker leaves on disk and in model_versions (WorkerInv), who   *)
(* has which connection (PoolInv), and what a request has read and loaded  *)
(* (AnswerInv, which rests on WorkerInv).                                  *)
(***************************************************************************)
EXTENDS Serving, FiniteSetTheorems, TLAPS

\* The connections of the one pool.
Conns == {1} \X (1 .. PoolSize)

Rebuilds == [subject : Subjects, pc : {"fitting", "training"}]
Loaded == UNION {[S -> Part] : S \in SUBSET Shards}
Entry == [key : Paths, ensemble : Ensemble]
Scored == [paths : Paths, ensemble : Ensemble]
Locals == [pc : Phases, since : SUBSET Subjects, pool : {0, 1},
           conn : Conns \cup {<<>>}, paths : Paths \cup {<<>>}, parts : Loaded]
ReviewLocals == [pc : {"none", "waiting", "borrowed", "returning"},
                 conn : Conns \cup {<<>>}, row : SUBSET Scored]

-----------------------------------------------------------------------------
(* The three invariants *)

WorkerTypes ==
  /\ retained \in Paths
  /\ preproc \in [Shards -> SUBSET SUBSET Subjects]
  /\ versions \in Seq(Paths) /\ versions # <<>>
  /\ done \subseteq Subjects
  /\ rebuild \subseteq Rebuilds

\* A shard's rows and weights are its own subjects', and weights are never
\* ahead of the rows: what is still in a shard file is in every version.
RowsInVersions ==
  \A k \in Shards :
    /\ \A s \in retained[k] : ShardOf[s] = k
    /\ \A i \in DOMAIN versions :
         /\ retained[k] \subseteq versions[i][k]
         /\ \A s \in versions[i][k] : ShardOf[s] = k

\* An erased subject is out of the rows and of the newest version.
DoneIsOut ==
  /\ \A s \in done :
       s \notin retained[ShardOf[s]] /\ s \notin CurrentModel(versions)[ShardOf[s]]
  /\ \A r \in rebuild : r.subject \notin retained[ShardOf[r.subject]]

\* A preprocessor on disk was fit on subjects that every version's weights of
\* its shard know too; and one that is about to be promoted on rows still there.
PreprocInVersions ==
  ~IS_GBDT =>
    /\ \A k \in Shards, i \in DOMAIN versions :
         \A p \in preproc[k] : p \subseteq versions[i][k]
    /\ \A r \in rebuild : r.pc = "training" =>
         \A p \in preproc[ShardOf[r.subject]] : p \subseteq retained[ShardOf[r.subject]]

WorkerInv == WorkerTypes /\ RowsInVersions /\ DoneIsOut /\ PreprocInVersions

GatewayTypes ==
  /\ pools \in {0, 1} /\ (pools = 1 => Threads # {})
  /\ failed \subseteq Conns /\ lost \subseteq Conns
  /\ cache \subseteq Entry
  /\ request \in [Threads -> Locals]
  /\ review \in [Reviewers -> ReviewLocals]
  /\ answers \subseteq Scored

\* A connection is out between getconn and putconn, of the one pool there is.
Pooled ==
  /\ \A t \in Threads :
       /\ request[t].pc \in {"borrowed", "read", "raised"} <=> request[t].conn # <<>>
       /\ request[t].pc \notin {"idle", "unpooled"} => pools = 1 /\ request[t].pool = 1
  /\ \A v \in Reviewers :
       /\ review[v].pc \in {"borrowed", "returning"} <=> review[v].conn # <<>>
       /\ review[v].pc # "none" => pools = 1
  /\ lost # {} => pools = 1

\* No two holders have the same connection, and nobody has one that was lost.
Exclusive ==
  /\ \A t, u \in Threads : request[t].conn = request[u].conn => t = u \/ request[t].conn = <<>>
  /\ \A v, w \in Reviewers : review[v].conn = review[w].conn => v = w \/ review[v].conn = <<>>
  /\ \A t \in Threads, v \in Reviewers :
       request[t].conn = review[v].conn => request[t].conn = <<>>
  /\ \A c \in lost : /\ \A t \in Threads : request[t].conn # c
                    /\ \A v \in Reviewers : review[v].conn # c

\* A connection with a failed transaction is lost, or in the hands of the one that
\* will roll it back.
FailedIsHeld ==
  \A c \in failed :
    \/ c \in lost
    \/ \E t \in Threads : request[t].conn = c /\ request[t].pc = "raised"
    \/ \E v \in Reviewers : review[v].conn = c /\ review[v].pc = "returning"

PoolInv == GatewayTypes /\ Pooled /\ Exclusive /\ FailedIsHeld

\* A part is the weights its path names, and a preprocessor fit on no subject
\* that those weights do not know.
Matches(part, weights) == part.weights = weights /\ part.pre \subseteq weights

\* A request has the paths of some version, without what was erased when it came
\* in, and the parts it has loaded for them match.
ReadsVersions ==
  \A t \in Threads : request[t].pc \in {"read", "lookup", "loading", "scoring"} =>
    /\ \E i \in DOMAIN versions : request[t].paths = versions[i]
    /\ \A s \in request[t].since, k \in Shards : s \notin request[t].paths[k]
    /\ \A k \in DOMAIN request[t].parts : Matches(request[t].parts[k], request[t].paths[k])

\* Nothing is loaded before it is looked up.
LoadsAfterReading ==
  \A t \in Threads : request[t].pc \notin {"loading", "scoring"} => request[t].parts = <<>>

SinceIsDone == \A t \in Threads : request[t].since \subseteq done

\* There is one entry per key in the cache, and what scores is in it.
CacheIsOne ==
  /\ \A e \in cache, k \in Shards : Matches(e.ensemble[k], e.key[k])
  /\ \A e, f \in cache : e.key = f.key => e = f
  /\ \A t \in Threads : request[t].pc = "scoring" =>
       [key |-> request[t].paths, ensemble |-> request[t].parts] \in cache
  /\ \A x \in answers : [key |-> x.paths, ensemble |-> x.ensemble] \in cache
  /\ reviews \subseteq answers
  /\ \A v \in Reviewers : review[v].row \subseteq answers

AnswerInv == ReadsVersions /\ LoadsAfterReading /\ SinceIsDone /\ CacheIsOne

ServingInv == WorkerInv /\ PoolInv /\ AnswerInv

-----------------------------------------------------------------------------
(* The worker's side *)

LEMMA WorkerInit == Init => WorkerInv
<1> SUFFICES ASSUME Init PROVE WorkerInv
  OBVIOUS
<1> USE DEF Init, CurrentModel
<1>1. retained \in Paths /\ preproc \in [Shards -> SUBSET SUBSET Subjects]
  BY DEF Paths
<1>2. /\ versions \in Seq(Paths) /\ versions # <<>> /\ Len(versions) = 1
      /\ DOMAIN versions = {1} /\ versions[1] = retained
  BY <1>1
<1>3. RowsInVersions /\ DoneIsOut /\ PreprocInVersions
  BY <1>1, <1>2 DEF RowsInVersions, DoneIsOut, PreprocInVersions
<1> QED
  BY <1>1, <1>2, <1>3 DEF WorkerInv, WorkerTypes

\* The newest version is one of them.
LEMMA NewestIsLast ==
  ASSUME WorkerTypes
  PROVE  /\ Len(versions) \in DOMAIN versions
         /\ CurrentModel(versions) = versions[Len(versions)]
         /\ \A i \in DOMAIN versions : versions[i] \in Paths
BY DEF WorkerTypes, CurrentModel

LEMMA StartRefitStep ==
  ASSUME WorkerInv, NEW s \in Subjects, StartRefit(s)
  PROVE  WorkerInv'
<1> DEFINE k == ShardOf[s]
<1>t. /\ WorkerTypes /\ k \in Shards /\ rebuild = {} /\ s \in retained[k]
      /\ UNCHANGED <<versions, done>>
      /\ retained' = [retained EXCEPT ![k] = @ \ {s}]
  BY ServingShards DEF WorkerInv, StartRefit
<1>1. retained' \in Paths /\ \A m \in Shards : retained'[m] \subseteq retained[m]
  BY <1>t DEF WorkerTypes, Paths
<1>2. s \notin retained'[k]
  BY <1>t DEF WorkerTypes, Paths
<1>3. /\ rebuild' \subseteq Rebuilds
      /\ \A r \in rebuild' : r.subject = s
      /\ \A r \in rebuild' : ~IS_GBDT => r.pc = "fitting"
  <2>1. \/ rebuild' = {[subject |-> s, pc |-> "training"]} /\ IS_GBDT
        \/ rebuild' = rebuild
        \/ rebuild' = {[subject |-> s, pc |-> "fitting"]}
    BY DEF StartRefit
  <2> QED
    BY <1>t, <2>1 DEF Rebuilds
<1>4. /\ preproc' \in [Shards -> SUBSET SUBSET Subjects]
      /\ \A m \in Shards : preproc'[m] \subseteq preproc[m]
  <2>1. preproc' = preproc \/ preproc' = [preproc EXCEPT ![k] = {}]
    BY DEF StartRefit
  <2> QED
    BY <1>t, <2>1 DEF WorkerTypes
<1>5. WorkerTypes'
  BY <1>t, <1>1, <1>3, <1>4 DEF WorkerTypes
<1>6. RowsInVersions'
  BY <1>t, <1>1 DEF WorkerInv, RowsInVersions
<1>7. DoneIsOut'
  <2>1. \A d \in done : ShardOf[d] \in Shards
    BY <1>t, ServingShards DEF WorkerTypes
  <2> QED
    BY <1>t, <1>1, <1>2, <1>3, <2>1 DEF WorkerInv, DoneIsOut
<1>8. PreprocInVersions'
  BY <1>t, <1>3, <1>4 DEF WorkerInv, PreprocInVersions
<1> QED
  BY <1>5, <1>6, <1>7, <1>8 DEF WorkerInv

LEMMA EndRefitStep ==
  ASSUME WorkerInv, EndRefit
  PROVE  WorkerInv'
<1>1. PICK r \in rebuild :
        /\ r.pc = "fitting"
        /\ preproc' = [preproc EXCEPT ![ShardOf[r.subject]] =
                         {retained[ShardOf[r.subject]] \cap SliceZero}]
        /\ rebuild' = {[r EXCEPT !.pc = "training"]}
        /\ UNCHANGED <<retained, versions, done>>
  BY DEF EndRefit
<1> DEFINE k == ShardOf[r.subject]
<1>t. WorkerTypes /\ r \in Rebuilds /\ k \in Shards
  BY ServingShards DEF WorkerInv, WorkerTypes, Rebuilds
<1>2. [r EXCEPT !.pc = "training"] \in Rebuilds
      /\ [r EXCEPT !.pc = "training"].subject = r.subject
  BY <1>t DEF Rebuilds
<1>3. preproc' \in [Shards -> SUBSET SUBSET Subjects]
  BY <1>1, <1>t DEF WorkerTypes, Paths
<1>4. WorkerTypes'
  BY <1>1, <1>t, <1>2, <1>3 DEF WorkerTypes
<1>5. RowsInVersions' /\ DoneIsOut'
  BY <1>1, <1>t, <1>2 DEF WorkerInv, RowsInVersions, DoneIsOut
<1>6. \A m \in Shards : \A p \in preproc'[m] :
        p \in preproc[m] \/ (m = k /\ p \subseteq retained[k])
  BY <1>1, <1>t DEF WorkerTypes
<1>7. \A p \in preproc'[k] : p \subseteq retained[k]
  BY <1>1, <1>t DEF WorkerTypes
<1>8. PreprocInVersions'
  BY <1>1, <1>t, <1>2, <1>6, <1>7 DEF WorkerInv, RowsInVersions, PreprocInVersions
<1> QED
  BY <1>4, <1>5, <1>8 DEF WorkerInv

LEMMA PromoteStep ==
  ASSUME WorkerInv, Promote
  PROVE  WorkerInv' /\ \A i \in DOMAIN versions : i \in DOMAIN versions'
                                                  /\ versions'[i] = versions[i]
<1> DEFINE n == Len(versions)
<1>1. PICK r \in rebuild :
        /\ r.pc = "training"
        /\ versions' = Append(versions, [versions[n] EXCEPT ![ShardOf[r.subject]] =
                                           retained[ShardOf[r.subject]]])
        /\ done' = done \cup {r.subject}
        /\ rebuild' = {}
        /\ UNCHANGED <<retained, preproc>>
  BY DEF Promote
<1> DEFINE k == ShardOf[r.subject]
           new == [versions[n] EXCEPT ![k] = retained[k]]
<1>t. /\ WorkerTypes /\ r \in Rebuilds /\ r.subject \in Subjects /\ k \in Shards
      /\ n \in DOMAIN versions /\ n \in Nat /\ versions[n] \in Paths
  BY ServingShards, NewestIsLast DEF WorkerInv, WorkerTypes, Rebuilds
<1>2. /\ new \in Paths
      /\ \A m \in Shards : new[m] = IF m = k THEN retained[k] ELSE versions[n][m]
  BY <1>t DEF WorkerTypes, Paths
<1> HIDE DEF new
<1>3. /\ versions' \in Seq(Paths) /\ Len(versions') = n + 1
      /\ DOMAIN versions' = DOMAIN versions \cup {n + 1}
      /\ versions'[n + 1] = new
      /\ \A i \in DOMAIN versions : versions'[i] = versions[i]
  <2>1. versions' = Append(versions, new)
    BY <1>1 DEF new
  <2>2. versions' \in Seq(Paths) /\ Len(versions') = n + 1
    BY <1>t, <1>2, <2>1 DEF WorkerTypes
  <2>3. DOMAIN versions = 1 .. n /\ DOMAIN versions' = 1 .. (n + 1)
    BY <2>2 DEF WorkerTypes
  <2>4. \A i \in 1 .. n : versions'[i] = versions[i]
    BY <1>t, <1>2, <2>1 DEF WorkerTypes
  <2>5. versions'[n + 1] = new
    BY <1>t, <1>2, <2>1 DEF WorkerTypes
  <2>6. 1 .. (n + 1) = 1 .. n \cup {n + 1}
    BY <1>t
  <2> HIDE DEF n
  <2> QED
    BY <2>2, <2>3, <2>4, <2>5, <2>6
<1>4. WorkerTypes'
  BY <1>1, <1>t, <1>3 DEF WorkerTypes
<1>5. RowsInVersions'
  <2>1. \A m \in Shards : retained[m] \subseteq new[m] /\ \A s \in new[m] : ShardOf[s] = m
    BY <1>t, <1>2 DEF WorkerInv, RowsInVersions
  <2>2. ASSUME NEW m \in Shards, NEW i \in DOMAIN versions'
        PROVE  /\ retained[m] \subseteq versions'[i][m]
               /\ \A s \in versions'[i][m] : ShardOf[s] = m
    <3>1. CASE i \in DOMAIN versions
      BY <1>3, <3>1 DEF WorkerInv, RowsInVersions
    <3>2. CASE i = n + 1
      BY <1>3, <2>1, <3>2
    <3> QED
      BY <1>3, <3>1, <3>2
  <2> QED
    BY <1>1, <2>2 DEF WorkerInv, RowsInVersions
<1>6. DoneIsOut'
  <2>1. CurrentModel(versions') = new
    BY <1>3 DEF CurrentModel
  <2>2. ASSUME NEW s \in done'
        PROVE  s \notin retained[ShardOf[s]] /\ s \notin new[ShardOf[s]]
    <3>1. s \in Subjects /\ ShardOf[s] \in Shards
      BY <1>1, <1>t, ServingShards DEF WorkerTypes
    <3>2. s \notin retained[ShardOf[s]]
      BY <1>1 DEF WorkerInv, DoneIsOut
    <3>3. s \in done => s \notin versions[n][ShardOf[s]]
      BY DEF WorkerInv, DoneIsOut, CurrentModel
    <3> QED
      BY <1>1, <1>2, <3>1, <3>2, <3>3
  <2> QED
    BY <1>1, <2>1, <2>2 DEF DoneIsOut, CurrentModel
<1>7. PreprocInVersions'
  <2>1. ASSUME ~IS_GBDT, NEW m \in Shards, NEW p \in preproc[m]
        PROVE  p \subseteq new[m]
    BY <1>1, <1>t, <1>2, <2>1 DEF WorkerInv, PreprocInVersions
  <2> QED
    BY <1>1, <1>3, <2>1 DEF WorkerInv, PreprocInVersions
<1> QED
  BY <1>3, <1>4, <1>5, <1>6, <1>7 DEF WorkerInv

LEMMA BreakOffStep ==
  ASSUME WorkerInv, BreakOff
  PROVE  WorkerInv'
BY DEF BreakOff, WorkerInv, WorkerTypes, RowsInVersions, DoneIsOut, PreprocInVersions

\* No version is taken back, and no erasure.
Grows == /\ done \subseteq done'
         /\ \A i \in DOMAIN versions : i \in DOMAIN versions' /\ versions'[i] = versions[i]

WorkerNext == (\E s \in Subjects : StartRefit(s)) \/ EndRefit \/ Promote \/ BreakOff

LEMMA WorkerStep ==
  ASSUME WorkerInv, WorkerNext
  PROVE  WorkerInv' /\ Grows
<1>1. WorkerInv'
  BY StartRefitStep, EndRefitStep, PromoteStep, BreakOffStep DEF WorkerNext
<1>2. CASE Promote
  BY <1>1, <1>2, PromoteStep DEF Grows, Promote
<1>3. CASE UNCHANGED <<versions, done>>
  BY <1>1, <1>3 DEF Grows
<1> QED
  <2>1. \A s \in Subjects : StartRefit(s) => UNCHANGED <<versions, done>>
    BY DEF StartRefit
  <2>2. EndRefit \/ BreakOff => UNCHANGED <<versions, done>>
    BY DEF EndRefit, BreakOff
  <2> QED
    BY <1>1, <1>2, <1>3, <2>1, <2>2 DEF WorkerNext

LEMMA WorkerStays ==
  ASSUME WorkerInv, UNCHANGED workerVars
  PROVE  WorkerInv' /\ Grows
BY DEF workerVars, WorkerInv, WorkerTypes, RowsInVersions, DoneIsOut, PreprocInVersions, Grows

-----------------------------------------------------------------------------
(* Data of the gateway *)

LEMMA NothingLoaded == DOMAIN <<>> = {} /\ <<>> \in Loaded
<1>1. DOMAIN <<>> = {}
  OBVIOUS
<1>2. <<>> \in [{} -> Part]
  BY <1>1
<1> QED
  BY <1>1, <1>2 DEF Loaded

LEMMA NoConnection == \A c \in Conns : c # <<>>
<1>1. \A i, j : <<i, j>> # <<>>
  OBVIOUS
<1> QED
  BY <1>1 DEF Conns

LEMMA IdleType == Idle \in Locals /\ NoReview \in ReviewLocals
BY NothingLoaded DEF Idle, NoReview, Locals, ReviewLocals, Phases

\* The locals of a request, one by one.
LEMMA LocalsFields ==
  ASSUME NEW r \in Locals
  PROVE  /\ r.pc \in Phases /\ r.since \in SUBSET Subjects /\ r.pool \in {0, 1}
         /\ r.conn \in Conns \cup {<<>>} /\ r.paths \in Paths \cup {<<>>}
         /\ r.parts \in Loaded
BY DEF Locals

LEMMA ReviewFields ==
  ASSUME NEW r \in ReviewLocals
  PROVE  /\ r.pc \in {"none", "waiting", "borrowed", "returning"}
         /\ r.conn \in Conns \cup {<<>>} /\ r.row \in SUBSET Scored
BY DEF ReviewLocals

LEMMA WithPart ==
  ASSUME NEW parts \in Loaded, NEW k \in Shards, NEW p \in Part
  PROVE  /\ With(parts, k, p) \in Loaded
         /\ DOMAIN With(parts, k, p) = DOMAIN parts \cup {k}
         /\ \A m \in DOMAIN parts \cup {k} :
              With(parts, k, p)[m] = IF m = k THEN p ELSE parts[m]
<1>1. PICK S \in SUBSET Shards : parts \in [S -> Part]
  BY DEF Loaded
<1>2. With(parts, k, p) \in [S \cup {k} -> Part]
  BY <1>1 DEF With
<1> QED
  BY <1>1, <1>2 DEF Loaded, With

\* What is loaded when no shard is missing is an ensemble.
LEMMA AllLoaded ==
  ASSUME NEW parts \in Loaded, Missing(parts) = {}
  PROVE  parts \in Ensemble
<1>1. PICK S \in SUBSET Shards : parts \in [S -> Part]
  BY DEF Loaded
<1> QED
  BY <1>1 DEF Missing, Ensemble

LEMMA EnsembleLoaded == Ensemble \subseteq Loaded
BY DEF Ensemble, Loaded

\* A thread's step changes its own locals alone.
LEMMA UpdateOne ==
  ASSUME request \in [Threads -> Locals], NEW t \in Threads, NEW r \in Locals,
         Update(t, r)
  PROVE  /\ request' \in [Threads -> Locals] /\ request'[t] = r
         /\ \A u \in Threads \ {t} : request'[u] = request[u]
BY DEF Update

LEMMA ReviewOne ==
  ASSUME review \in [Reviewers -> ReviewLocals], NEW v \in Reviewers,
         NEW r \in ReviewLocals, Review(v, r)
  PROVE  /\ review' \in [Reviewers -> ReviewLocals] /\ review'[v] = r
         /\ \A w \in Reviewers \ {v} : review'[w] = review[w]
BY DEF Review

-----------------------------------------------------------------------------
(* What a step does to the locals of its thread, field by field *)

Becomes(t, pc, since, pool, conn, paths, parts) ==
  /\ request' \in [Threads -> Locals]
  /\ \A u \in Threads \ {t} : request'[u] = request[u]
  /\ request'[t].pc = pc /\ request'[t].since = since
  /\ request'[t].pool = pool /\ request'[t].conn = conn
  /\ request'[t].paths = paths /\ request'[t].parts = parts

\* The request is answered or refused.
Gone(t) == Becomes(t, "idle", {}, 0, <<>>, <<>>, <<>>)

LEMMA Raises ==
  ASSUME request \in [Threads -> Locals], NEW t \in Threads, Raise(t)
  PROVE  Gone(t)
BY IdleType, UpdateOne DEF Raise, Gone, Becomes, Idle

LEMMA Replaces ==
  ASSUME request \in [Threads -> Locals], NEW t \in Threads, NEW r \in Locals,
         Update(t, r)
  PROVE  Becomes(t, r.pc, r.since, r.pool, r.conn, r.paths, r.parts)
BY UpdateOne DEF Becomes

LEMMA Begins ==
  ASSUME GatewayTypes, WorkerTypes, NEW t \in Threads, BeginRequest(t)
  PROVE  Becomes(t, IF pools = 0 THEN "unpooled" ELSE "pooled", done, pools,
                 <<>>, <<>>, <<>>)
<1> DEFINE r == [Idle EXCEPT !.since = done, !.pool = pools,
                             !.pc = IF pools = 0 THEN "unpooled" ELSE "pooled"]
<1>1. /\ r.pc = IF pools = 0 THEN "unpooled" ELSE "pooled"
      /\ r.since = done /\ r.pool = pools
      /\ r.conn = <<>> /\ r.paths = <<>> /\ r.parts = <<>>
  BY DEF Idle
<1>2. r \in Locals
  BY NothingLoaded DEF Idle, Locals, Phases, GatewayTypes, WorkerTypes
<1>3. Update(t, r)
  BY DEF BeginRequest
<1> HIDE DEF r
<1> QED
  BY <1>1, <1>2, <1>3, Replaces DEF GatewayTypes

LEMMA Creates ==
  ASSUME GatewayTypes, NEW t \in Threads, CreatePool(t)
  PROVE  /\ pools' = 1
         /\ Becomes(t, "pooled", request[t].since, 1, request[t].conn,
                    request[t].paths, request[t].parts)
<1> DEFINE r == [request[t] EXCEPT !.pc = "pooled", !.pool = pools']
<1>1. pools' = 1 /\ request[t] \in Locals /\ Update(t, r)
  BY DEF CreatePool, PoolsAfter, GatewayTypes
<1>2. r \in Locals
  BY <1>1 DEF Locals, Phases
<1>3. /\ r.pc = "pooled" /\ r.since = request[t].since /\ r.pool = 1
      /\ r.conn = request[t].conn /\ r.paths = request[t].paths
      /\ r.parts = request[t].parts
  BY <1>1 DEF Locals
<1> HIDE DEF r
<1> QED
  BY <1>1, <1>2, <1>3, Replaces DEF GatewayTypes

\* Its program counter moves and no more.
LEMMA Moves ==
  ASSUME GatewayTypes, NEW t \in Threads, NEW pc \in Phases,
         Update(t, [request[t] EXCEPT !.pc = pc])
  PROVE  Becomes(t, pc, request[t].since, request[t].pool, request[t].conn,
                 request[t].paths, request[t].parts)
<1> DEFINE r == [request[t] EXCEPT !.pc = pc]
<1>1. request[t] \in Locals /\ Update(t, r)
  BY DEF GatewayTypes
<1>2. r \in Locals
  BY <1>1 DEF Locals
<1>3. /\ r.pc = pc /\ r.since = request[t].since /\ r.pool = request[t].pool
      /\ r.conn = request[t].conn /\ r.paths = request[t].paths
      /\ r.parts = request[t].parts
  BY <1>1 DEF Locals
<1> HIDE DEF r
<1> QED
  BY <1>1, <1>2, <1>3, Replaces DEF GatewayTypes

\* ... or one other field.
LEMMA MovesWithConn ==
  ASSUME GatewayTypes, NEW t \in Threads, NEW pc \in Phases, NEW c \in Conns \cup {<<>>},
         Update(t, [request[t] EXCEPT !.pc = pc, !.conn = c])
  PROVE  Becomes(t, pc, request[t].since, request[t].pool, c,
                 request[t].paths, request[t].parts)
<1> DEFINE r == [request[t] EXCEPT !.pc = pc, !.conn = c]
<1>1. request[t] \in Locals /\ Update(t, r)
  BY DEF GatewayTypes
<1>2. r \in Locals
  BY <1>1 DEF Locals
<1>3. /\ r.pc = pc /\ r.since = request[t].since /\ r.pool = request[t].pool
      /\ r.conn = c /\ r.paths = request[t].paths /\ r.parts = request[t].parts
  BY <1>1 DEF Locals
<1> HIDE DEF r
<1> QED
  BY <1>1, <1>2, <1>3, Replaces DEF GatewayTypes

LEMMA MovesWithParts ==
  ASSUME GatewayTypes, NEW t \in Threads, NEW pc \in Phases, NEW parts \in Loaded,
         Update(t, [request[t] EXCEPT !.pc = pc, !.parts = parts])
  PROVE  Becomes(t, pc, request[t].since, request[t].pool, request[t].conn,
                 request[t].paths, parts)
<1> DEFINE r == [request[t] EXCEPT !.pc = pc, !.parts = parts]
<1>1. request[t] \in Locals /\ Update(t, r)
  BY DEF GatewayTypes
<1>2. r \in Locals
  BY <1>1 DEF Locals
<1>3. /\ r.pc = pc /\ r.since = request[t].since /\ r.pool = request[t].pool
      /\ r.conn = request[t].conn /\ r.paths = request[t].paths /\ r.parts = parts
  BY <1>1 DEF Locals
<1> HIDE DEF r
<1> QED
  BY <1>1, <1>2, <1>3, Replaces DEF GatewayTypes

LEMMA Borrows ==
  ASSUME GatewayTypes, Pooled, NEW t \in Threads, Borrow(t)
  PROVE  \/ Gone(t)
         \/ \E c \in Free(1) :
              Becomes(t, "borrowed", request[t].since, 1, c,
                      request[t].paths, request[t].parts)
<1>1. request[t].pool = 1 /\ "borrowed" \in Phases /\ Free(1) \subseteq Conns
  BY DEF Pooled, Borrow, Phases, Free, Conns
<1> QED
  BY <1>1, Raises, MovesWithConn DEF Borrow, GatewayTypes

LEMMA GivesBack ==
  ASSUME GatewayTypes, NEW t \in Threads, GiveBack(t)
  PROVE  /\ request[t].pc = "raised" => Gone(t)
         /\ request[t].pc = "read" =>
              Becomes(t, "lookup", request[t].since, request[t].pool, <<>>,
                      request[t].paths, request[t].parts)
<1>1. "lookup" \in Phases
  BY DEF Phases
<1> QED
  BY <1>1, Raises, MovesWithConn DEF GiveBack, GatewayTypes

\* What is left of a request that lost its connection, and what it lost.
LEMMA Loses ==
  ASSUME GatewayTypes, Pooled, NEW t \in Threads, RollbackRaises(t)
  PROVE  /\ Gone(t)
         /\ request[t].conn \in Conns /\ lost' = lost \cup {request[t].conn}
         /\ UNCHANGED <<pools, failed, cache, review, answers>>
<1>1. request[t] \in Locals /\ request[t].conn # <<>>
  BY DEF RollbackRaises, Pooled, GatewayTypes
<1> QED
  BY <1>1, Raises, LocalsFields DEF RollbackRaises, GatewayTypes, reviewVars

LEMMA Reads ==
  ASSUME GatewayTypes, WorkerTypes, NEW t \in Threads, ReadVersion(t)
  PROVE  \/ /\ request[t].conn \notin failed
            /\ Becomes(t, "read", request[t].since, request[t].pool, request[t].conn,
                       CurrentModel(versions), request[t].parts)
         \/ Becomes(t, "raised", request[t].since, request[t].pool, request[t].conn,
                    request[t].paths, request[t].parts)
<1> DEFINE r == [request[t] EXCEPT !.pc = "read", !.paths = CurrentModel(versions)]
<1>1. request[t] \in Locals /\ "read" \in Phases /\ "raised" \in Phases
  BY DEF GatewayTypes, Phases
<1>2. r \in Locals
  BY <1>1, NewestIsLast DEF Locals
<1>3. /\ r.pc = "read" /\ r.since = request[t].since /\ r.pool = request[t].pool
      /\ r.conn = request[t].conn /\ r.paths = CurrentModel(versions)
      /\ r.parts = request[t].parts
  BY <1>1 DEF Locals
<1>4. \/ Update(t, [request[t] EXCEPT !.pc = "raised"])
      \/ request[t].conn \notin failed /\ Update(t, r)
  BY DEF ReadVersion
<1> HIDE DEF r
<1> QED
  BY <1>1, <1>2, <1>3, <1>4, Moves, Replaces DEF GatewayTypes

LEMMA LooksUp ==
  ASSUME GatewayTypes, NEW t \in Threads, LookUp(t)
  PROVE  \/ \E e \in cache :
              /\ e.key = request[t].paths
              /\ Becomes(t, "scoring", request[t].since, request[t].pool,
                         request[t].conn, request[t].paths, e.ensemble)
         \/ Becomes(t, "loading", request[t].since, request[t].pool, request[t].conn,
                    request[t].paths, request[t].parts)
<1>1. "scoring" \in Phases /\ "loading" \in Phases
  BY DEF Phases
<1>2. \A e \in Cached(request[t].paths) :
        e \in cache /\ e.key = request[t].paths /\ e.ensemble \in Loaded
  BY EnsembleLoaded DEF Cached, Key, GatewayTypes, Entry
<1> QED
  BY <1>1, <1>2, Moves, MovesWithParts DEF LookUp

\* What a request has read is a version, which knows all that a preprocessor on
\* disk was fit on.
LEMMA ReadFacts ==
  ASSUME ServingInv, NEW t \in Threads,
         request[t].pc \in {"read", "lookup", "loading", "scoring"}
  PROVE  /\ request[t].paths \in Paths
         /\ ~IS_GBDT => \A k \in Shards : \A p \in preproc[k] : p \subseteq request[t].paths[k]
<1>1. PICK i \in DOMAIN versions : request[t].paths = versions[i]
  BY DEF ServingInv, AnswerInv, ReadsVersions
<1>2. WorkerTypes /\ PreprocInVersions
  BY DEF ServingInv, WorkerInv
<1> QED
  BY <1>1, <1>2, NewestIsLast DEF PreprocInVersions

LEMMA Loads ==
  ASSUME ServingInv, NEW t \in Threads, LoadShard(t)
  PROVE  \/ Gone(t)
         \/ \E k \in Shards, part \in Part :
              /\ Matches(part, request[t].paths[k])
              /\ Becomes(t, "loading", request[t].since, request[t].pool,
                         request[t].conn, request[t].paths,
                         With(request[t].parts, k, part))
<1>t. GatewayTypes /\ WorkerTypes /\ request[t] \in Locals /\ request[t].pc = "loading"
  BY DEF ServingInv, PoolInv, WorkerInv, GatewayTypes, LoadShard
<1>1. CASE Raise(t)
  BY <1>t, <1>1, Raises DEF GatewayTypes
<1>2. ASSUME NEW k \in Shards, NEW p, p \subseteq request[t].paths[k],
             Update(t, [request[t] EXCEPT !.parts =
                          With(@, k, [weights |-> request[t].paths[k], pre |-> p])])
      PROVE  \E part \in Part :
               /\ Matches(part, request[t].paths[k])
               /\ Becomes(t, "loading", request[t].since, request[t].pool,
                          request[t].conn, request[t].paths,
                          With(request[t].parts, k, part))
  <2> DEFINE part == [weights |-> request[t].paths[k], pre |-> p]
             parts == With(request[t].parts, k, part)
             r == [request[t] EXCEPT !.parts = parts]
  <2>1. part \in Part /\ Matches(part, request[t].paths[k])
    BY <1>t, <1>2, ReadFacts DEF Paths, Part, Matches
  <2>2. parts \in Loaded
    <3>1. request[t].parts \in Loaded
      BY <1>t, LocalsFields
    <3> HIDE DEF part
    <3> QED
      BY <2>1, <3>1, WithPart
  <2>3. Update(t, r)
    BY <1>2
  <2> HIDE DEF part, parts
  <2>4. r \in Locals
    BY <1>t, <2>2 DEF Locals
  <2>5. /\ r.pc = "loading" /\ r.since = request[t].since /\ r.pool = request[t].pool
        /\ r.conn = request[t].conn /\ r.paths = request[t].paths /\ r.parts = parts
    BY <1>t DEF Locals
  <2> HIDE DEF r
  <2>6. Becomes(t, "loading", request[t].since, request[t].pool,
                request[t].conn, request[t].paths, parts)
    BY <1>t, <2>3, <2>4, <2>5, Replaces DEF GatewayTypes
  <2> QED
    BY <2>1, <2>6 DEF parts
<1>3. PICK k \in Missing(request[t].parts) :
        LET with(p) == Update(t, [request[t] EXCEPT !.parts =
                         With(@, k, [weights |-> request[t].paths[k], pre |-> p])])
        IN  IF IS_GBDT THEN with({})
            ELSE \/ \E p \in preproc[k] : with(p)
                 \/ preproc[k] = {} /\ Raise(t)
  BY DEF LoadShard
<1>4. k \in Shards
  BY DEF Missing
<1>5. CASE IS_GBDT
  BY <1>2, <1>3, <1>4, <1>5
<1>6. CASE ~IS_GBDT
  <2>1. \A p \in preproc[k] : p \subseteq request[t].paths[k]
    BY <1>t, <1>4, <1>6, ReadFacts
  <2> QED
    BY <1>1, <1>2, <1>3, <1>4, <1>6, <2>1
<1> QED
  BY <1>5, <1>6

LEMMA Stores ==
  ASSUME ServingInv, NEW t \in Threads, Store(t)
  PROVE  /\ cache \subseteq cache' /\ cache' \subseteq Entry
         /\ \A e, f \in cache' : e.key = f.key => e = f
         /\ \A e \in cache', k \in Shards : Matches(e.ensemble[k], e.key[k])
         /\ \E e \in cache' :
              /\ e.key = request[t].paths
              /\ Becomes(t, "scoring", request[t].since, request[t].pool,
                         request[t].conn, request[t].paths, e.ensemble)
<1> DEFINE paths == request[t].paths
           new == [key |-> paths, ensemble |-> request[t].parts]
<1>t. /\ GatewayTypes /\ CacheIsOne /\ request[t] \in Locals
      /\ request[t].pc = "loading" /\ Missing(request[t].parts) = {}
      /\ cache' = IF Cached(paths) # {} THEN cache ELSE cache \cup {new}
      /\ Update(t, [request[t] EXCEPT !.pc = "scoring", !.parts = Landed(t, cache')])
  BY DEF ServingInv, PoolInv, AnswerInv, GatewayTypes, Store, Key
<1>1. paths \in Paths /\ request[t].parts \in Ensemble
  BY <1>t, ReadFacts, AllLoaded, LocalsFields
<1>2. new \in Entry /\ new.key = paths /\ new.ensemble = request[t].parts
  BY <1>1 DEF Entry
<1>3. \A k \in Shards : Matches(new.ensemble[k], new.key[k])
  <2>1. DOMAIN request[t].parts = Shards
    BY <1>1 DEF Ensemble
  <2> QED
    BY <1>t, <1>2, <2>1 DEF ServingInv, AnswerInv, ReadsVersions
<1> HIDE DEF new
<1>4. cache \subseteq cache' /\ cache' \subseteq Entry
  BY <1>t, <1>2 DEF GatewayTypes
<1>5. \A e, f \in cache' : e.key = f.key => e = f
  BY <1>t, <1>2 DEF CacheIsOne, Cached, Key
<1>6. \A e \in cache', k \in Shards : Matches(e.ensemble[k], e.key[k])
  BY <1>t, <1>3 DEF CacheIsOne
<1>7. \E e \in cache' : e.key = paths
  BY <1>t, <1>2 DEF Cached, Key
<1> DEFINE landed == CHOOSE e \in cache' : e.key = paths
<1>8. landed \in cache' /\ landed.key = paths /\ Landed(t, cache') = landed.ensemble
  BY <1>7 DEF Landed, Key
<1> HIDE DEF landed
<1>9. landed.ensemble \in Loaded /\ "scoring" \in Phases
  BY <1>4, <1>8, EnsembleLoaded DEF Entry, Phases
<1>10. Becomes(t, "scoring", request[t].since, request[t].pool, request[t].conn,
               request[t].paths, landed.ensemble)
  BY <1>t, <1>8, <1>9, MovesWithParts
<1> QED
  BY <1>4, <1>5, <1>6, <1>8, <1>10

\* The same for a review.
Turns(v, pc, conn, row) ==
  /\ review' \in [Reviewers -> ReviewLocals]
  /\ \A w \in Reviewers \ {v} : review'[w] = review[w]
  /\ review'[v].pc = pc /\ review'[v].conn = conn /\ review'[v].row = row

LEMMA ReviewTurns ==
  ASSUME GatewayTypes, NEW v \in Reviewers, NEW r \in ReviewLocals, Review(v, r)
  PROVE  Turns(v, r.pc, r.conn, r.row)
BY ReviewOne DEF Turns, GatewayTypes

LEMMA ReviewDropped ==
  ASSUME GatewayTypes, NEW v \in Reviewers, Review(v, NoReview)
  PROVE  Turns(v, "none", <<>>, {})
BY IdleType, ReviewTurns DEF NoReview

LEMMA Answers ==
  ASSUME ServingInv, NEW t \in Threads, Answer(t)
  PROVE  /\ Gone(t)
         /\ \E answer \in Scored :
              /\ [key |-> answer.paths, ensemble |-> answer.ensemble] \in cache
              /\ answers' = answers \cup {answer}
              /\ \/ UNCHANGED review
                 \/ \E v \in Reviewers : /\ review[v].pc = "none"
                                         /\ Turns(v, "waiting", <<>>, {answer})
<1> DEFINE answer == [paths |-> request[t].paths, ensemble |-> request[t].parts]
           key == [key |-> request[t].paths, ensemble |-> request[t].parts]
<1>t. GatewayTypes /\ CacheIsOne /\ request[t].pc = "scoring" /\ answers' = answers \cup {answer}
      /\ Update(t, Idle)
  BY DEF ServingInv, PoolInv, AnswerInv, Answer
<1>1. key \in cache /\ key \in Entry
  BY <1>t DEF CacheIsOne, GatewayTypes
<1>2. request[t].paths \in Paths /\ request[t].parts \in Ensemble
  BY <1>1 DEF Entry
<1>3. /\ answer \in Scored
      /\ [key |-> answer.paths, ensemble |-> answer.ensemble] \in cache
  BY <1>1, <1>2 DEF Scored
<1>4. Gone(t)
  BY <1>t, Raises DEF Raise, GatewayTypes
<1>5. \/ UNCHANGED review
      \/ \E v \in Reviewers :
           /\ review[v] = NoReview
           /\ Review(v, [pc |-> "waiting", conn |-> <<>>, row |-> {answer}])
  BY DEF Answer, Review
<1> HIDE DEF answer
<1>6. [pc |-> "waiting", conn |-> <<>>, row |-> {answer}] \in ReviewLocals
  BY <1>3 DEF ReviewLocals
<1>7. ASSUME NEW v \in Reviewers, review[v] = NoReview,
             Review(v, [pc |-> "waiting", conn |-> <<>>, row |-> {answer}])
      PROVE  review[v].pc = "none" /\ Turns(v, "waiting", <<>>, {answer})
  <2> DEFINE r == [pc |-> "waiting", conn |-> <<>>, row |-> {answer}]
  <2>1. r \in ReviewLocals /\ Review(v, r)
    BY <1>6, <1>7
  <2>2. r.pc = "waiting" /\ r.conn = <<>> /\ r.row = {answer}
    OBVIOUS
  <2> HIDE DEF r
  <2> QED
    <3>1. Turns(v, r.pc, r.conn, r.row)
      BY <1>t, <2>1, ReviewTurns
    <3>2. review[v].pc = "none"
      BY <1>7 DEF NoReview
    <3> QED
      BY <2>2, <3>1, <3>2
<1> QED
  BY <1>t, <1>3, <1>4, <1>5, <1>7

LEMMA ReviewBorrows ==
  ASSUME GatewayTypes, Pooled, NEW v \in Reviewers, ReviewBorrow(v)
  PROVE  \/ Turns(v, "none", <<>>, {})
         \/ \E c \in Free(1) : Turns(v, "borrowed", c, review[v].row)
<1>t. pools = 1 /\ review[v] \in ReviewLocals
  BY DEF ReviewBorrow, Pooled, GatewayTypes
<1>1. ASSUME NEW c \in Free(1), Review(v, [review[v] EXCEPT !.pc = "borrowed", !.conn = c])
      PROVE  Turns(v, "borrowed", c, review[v].row)
  <2> DEFINE r == [review[v] EXCEPT !.pc = "borrowed", !.conn = c]
  <2>1. c \in Conns /\ Review(v, r)
    BY <1>1 DEF Free, Conns
  <2>2. r \in ReviewLocals /\ r.pc = "borrowed" /\ r.conn = c /\ r.row = review[v].row
    BY <1>t, <2>1 DEF ReviewLocals
  <2> HIDE DEF r
  <2> QED
    BY <2>1, <2>2, ReviewTurns
<1> QED
  BY <1>t, <1>1, ReviewDropped DEF ReviewBorrow

LEMMA ReviewEnds ==
  ASSUME GatewayTypes, NEW v \in Reviewers, ReviewInsert(v) \/ ReviewError(v)
  PROVE  Turns(v, "returning", review[v].conn, review[v].row)
<1> DEFINE r == [review[v] EXCEPT !.pc = "returning"]
<1>1. review[v] \in ReviewLocals /\ Review(v, r)
  BY DEF ReviewInsert, ReviewError, GatewayTypes
<1>2. r \in ReviewLocals /\ r.pc = "returning" /\ r.conn = review[v].conn
      /\ r.row = review[v].row
  BY <1>1 DEF ReviewLocals
<1> HIDE DEF r
<1> QED
  BY <1>1, <1>2, ReviewTurns

LEMMA ReviewLoses ==
  ASSUME GatewayTypes, Pooled, NEW v \in Reviewers, ReviewRollbackRaises(v)
  PROVE  /\ Turns(v, "none", <<>>, {})
         /\ review[v].conn \in Conns /\ lost' = lost \cup {review[v].conn}
         /\ UNCHANGED <<pools, failed, cache, request, answers>>
<1>1. review[v] \in ReviewLocals /\ review[v].conn # <<>>
  BY DEF ReviewRollbackRaises, Pooled, GatewayTypes
<1> QED
  BY <1>1, ReviewDropped, ReviewFields DEF ReviewRollbackRaises

ThreadNext(t) ==
  \/ BeginRequest(t) \/ CreatePool(t) \/ Borrow(t) \/ GiveBack(t)
  \/ RollbackRaises(t) \/ ReadVersion(t) \/ SqlError(t)
  \/ LookUp(t) \/ LoadShard(t) \/ Store(t) \/ Answer(t)
ReviewNext(v) ==
  \/ ReviewBorrow(v) \/ ReviewInsert(v) \/ ReviewError(v)
  \/ ReviewReturn(v) \/ ReviewRollbackRaises(v)

-----------------------------------------------------------------------------
(* Connections *)

LEMMA PoolInit == Init => PoolInv
<1> SUFFICES ASSUME Init PROVE PoolInv
  OBVIOUS
<1>1. GatewayTypes
  BY IdleType DEF Init, GatewayTypes
<1> QED
  BY <1>1 DEF Init, PoolInv, Pooled, Exclusive, FailedIsHeld, Idle, NoReview

LEMMA GatewayTypesStep ==
  ASSUME ServingInv, [Next]_vars
  PROVE  GatewayTypes'
<1> USE DEF workerVars, reviewVars
<1>t. GatewayTypes /\ WorkerTypes /\ Pooled
  BY DEF ServingInv, PoolInv, WorkerInv
<1>u. /\ \A t \in Threads : request[t] \in Locals
      /\ \A v \in Reviewers : review[v] \in ReviewLocals
  BY <1>t DEF GatewayTypes
<1>1. CASE UNCHANGED vars
  BY <1>t, <1>1 DEF vars, GatewayTypes
<1>2. CASE WorkerNext
  <2>1. GatewayIdle
    <3>1. \A s \in Subjects : StartRefit(s) => GatewayIdle
      BY DEF StartRefit
    <3>2. EndRefit \/ Promote \/ BreakOff => GatewayIdle
      BY DEF EndRefit, Promote, BreakOff
    <3> QED
      BY <1>2, <3>1, <3>2 DEF WorkerNext
  <2> QED
    BY <1>t, <2>1 DEF GatewayIdle, GatewayTypes
<1>3. ASSUME NEW t \in Threads, BeginRequest(t) PROVE GatewayTypes'
  BY <1>t, <1>3, Begins DEF BeginRequest, Becomes, GatewayTypes
<1>4. ASSUME NEW t \in Threads, CreatePool(t) PROVE GatewayTypes'
  BY <1>t, <1>4, Creates DEF CreatePool, Becomes, GatewayTypes
<1>5. ASSUME NEW t \in Threads, Borrow(t) PROVE GatewayTypes'
  BY <1>t, <1>5, Borrows DEF Borrow, Becomes, Gone, GatewayTypes
<1>6. ASSUME NEW t \in Threads, GiveBack(t) PROVE GatewayTypes'
  BY <1>t, <1>6, GivesBack DEF GiveBack, FailedAfterReturn, Becomes, Gone, GatewayTypes
<1>7. ASSUME NEW t \in Threads, ReadVersion(t) PROVE GatewayTypes'
  BY <1>t, <1>7, Reads DEF ReadVersion, Becomes, GatewayTypes
<1>8. ASSUME NEW t \in Threads, SqlError(t) PROVE GatewayTypes'
  <2>1. request[t].conn \in Conns
    BY <1>t, <1>u, <1>8, LocalsFields DEF SqlError, Pooled
  <2>2. Update(t, [request[t] EXCEPT !.pc = "raised"]) /\ "raised" \in Phases
    BY <1>8 DEF SqlError, Phases
  <2>3. request' \in [Threads -> Locals]
    BY <1>t, <2>2, Moves DEF Becomes
  <2>4. failed' = failed \cup {request[t].conn} /\ UNCHANGED <<lost, pools, cache, review, answers>>
    BY <1>8 DEF SqlError
  <2> QED
    BY <1>t, <2>1, <2>3, <2>4 DEF GatewayTypes
<1>9. ASSUME NEW t \in Threads, LookUp(t) PROVE GatewayTypes'
  BY <1>t, <1>9, LooksUp DEF LookUp, Becomes, GatewayTypes
<1>10. ASSUME NEW t \in Threads, LoadShard(t) PROVE GatewayTypes'
  <2>1. UNCHANGED <<lost, pools, failed, cache, review, answers>>
    BY <1>10 DEF LoadShard
  <2> QED
    BY <1>t, <1>10, <2>1, Loads DEF Becomes, Gone, GatewayTypes
<1>11. ASSUME NEW t \in Threads, Store(t) PROVE GatewayTypes'
  <2>1. UNCHANGED <<lost, pools, failed, review, answers>>
    BY <1>11 DEF Store
  <2> QED
    BY <1>t, <1>11, <2>1, Stores DEF Becomes, GatewayTypes
<1>12. ASSUME NEW t \in Threads, Answer(t) PROVE GatewayTypes'
  <2>1. UNCHANGED <<lost, pools, failed, cache>>
    BY <1>12 DEF Answer
  <2>2. Gone(t) /\ \E answer \in Scored :
          /\ answers' = answers \cup {answer}
          /\ \/ UNCHANGED review
             \/ \E v \in Reviewers : Turns(v, "waiting", <<>>, {answer})
    BY <1>12, Answers
  <2>3. request' \in [Threads -> Locals] /\ answers' \subseteq Scored
    BY <1>t, <2>2 DEF Gone, Becomes, GatewayTypes
  <2>4. review' \in [Reviewers -> ReviewLocals]
    BY <1>t, <2>2 DEF Turns, GatewayTypes
  <2> QED
    BY <1>t, <2>1, <2>3, <2>4 DEF GatewayTypes
<1>13. ASSUME NEW v \in Reviewers, ReviewBorrow(v) PROVE GatewayTypes'
  BY <1>t, <1>13, ReviewBorrows DEF ReviewBorrow, Turns, GatewayTypes
<1>14. ASSUME NEW v \in Reviewers, ReviewInsert(v) \/ ReviewError(v) PROVE GatewayTypes'
  <2>1. review[v].conn \in Conns
    BY <1>t, <1>u, <1>14, ReviewFields DEF ReviewInsert, ReviewError, Pooled
  <2>2. failed' \in {failed, failed \cup {review[v].conn}}
    BY <1>14 DEF ReviewInsert, ReviewError
  <2>3. UNCHANGED <<lost, pools, cache, request, answers>>
    BY <1>14 DEF ReviewInsert, ReviewError
  <2>4. review' \in [Reviewers -> ReviewLocals]
    BY <1>t, <1>14, ReviewEnds DEF Turns
  <2> QED
    BY <1>t, <2>1, <2>2, <2>3, <2>4 DEF GatewayTypes
<1>15. ASSUME NEW v \in Reviewers, ReviewReturn(v) PROVE GatewayTypes'
  BY <1>t, <1>15, ReviewDropped DEF ReviewReturn, FailedAfterReturn, Turns, GatewayTypes
<1>16. ASSUME NEW t \in Threads, RollbackRaises(t) PROVE GatewayTypes'
  BY <1>t, <1>16, Loses DEF Gone, Becomes, GatewayTypes
<1>17. ASSUME NEW v \in Reviewers, ReviewRollbackRaises(v) PROVE GatewayTypes'
  BY <1>t, <1>17, ReviewLoses DEF Turns, GatewayTypes
<1> QED
  BY <1>1, <1>2, <1>3, <1>4, <1>5, <1>6, <1>7, <1>8, <1>9, <1>10, <1>11, <1>12, <1>13,
     <1>14, <1>15, <1>16, <1>17 DEF Next, WorkerNext

\* A free connection is not lost nor in anybody's hands, and no failed transaction
\* is on it.
LEMMA FreeFacts ==
  ASSUME PoolInv, NEW c \in Free(1)
  PROVE  /\ c # <<>> /\ c \notin failed /\ c \notin lost
         /\ \A t \in Threads : request[t].conn # c
         /\ \A v \in Reviewers : review[v].conn # c
<1>1. c \in Conns /\ c # <<>> /\ c \notin lost
  BY NoConnection DEF Free, Conns
<1>2. \A t \in Threads : request[t].conn # c
  BY <1>1 DEF Free, HeldByRequests
<1>3. \A v \in Reviewers : review[v].conn # c
  BY <1>1 DEF Free, HeldByReviews
<1> QED
  BY <1>1, <1>2, <1>3 DEF PoolInv, FailedIsHeld

\* A connection that is given back is nobody else's.
LEMMA ReturnFacts ==
  ASSUME PoolInv
  PROVE  /\ \A t \in Threads : request[t].conn # <<>> =>
              /\ \A u \in Threads \ {t} : request[u].conn # request[t].conn
              /\ \A v \in Reviewers : review[v].conn # request[t].conn
         /\ \A v \in Reviewers : review[v].conn # <<>> =>
              /\ \A w \in Reviewers \ {v} : review[w].conn # review[v].conn
              /\ \A t \in Threads : request[t].conn # review[v].conn
BY DEF PoolInv, Exclusive

LEMMA ThreadPoolStep ==
  ASSUME ServingInv, NEW t \in Threads, ThreadNext(t), GatewayTypes'
  PROVE  Pooled' /\ Exclusive' /\ FailedIsHeld'
<1> USE DEF reviewVars
<1>t. /\ GatewayTypes /\ WorkerTypes /\ Pooled /\ Exclusive /\ FailedIsHeld
      /\ pools \in {0, 1}
  BY DEF ServingInv, PoolInv, WorkerInv, GatewayTypes
<1>1. CASE BeginRequest(t)
  <2>1. UNCHANGED <<lost, pools, failed, review>> /\ request[t].pc = "idle"
    BY <1>1 DEF BeginRequest
  <2> QED
    BY <1>t, <1>1, <2>1, Begins DEF Becomes, Pooled, Exclusive, FailedIsHeld
<1>2. CASE CreatePool(t)
  <2>1. UNCHANGED <<lost, failed, review>> /\ request[t].pc = "unpooled"
    BY <1>2 DEF CreatePool
  <2> QED
    BY <1>t, <1>2, <2>1, Creates DEF Becomes, Pooled, Exclusive, FailedIsHeld
<1>3. CASE Borrow(t)
  <2>1. UNCHANGED <<lost, pools, failed, review>> /\ request[t].pc = "pooled"
    BY <1>3 DEF Borrow
  <2>2. CASE Gone(t)
    BY <1>t, <2>1, <2>2 DEF Gone, Becomes, Pooled, Exclusive, FailedIsHeld
  <2>3. ASSUME NEW c \in Free(1),
               Becomes(t, "borrowed", request[t].since, 1, c,
                       request[t].paths, request[t].parts)
        PROVE  Pooled' /\ Exclusive' /\ FailedIsHeld'
    <3>1. /\ c # <<>> /\ c \notin lost /\ \A u \in Threads : request[u].conn # c
          /\ \A v \in Reviewers : review[v].conn # c
      BY <2>3, FreeFacts DEF ServingInv
    <3>2. Pooled' /\ FailedIsHeld'
      BY <1>t, <2>1, <2>3, <3>1 DEF Becomes, Pooled, FailedIsHeld
    <3>3. Exclusive'
      BY <1>t, <2>1, <2>3, <3>1 DEF Becomes, Exclusive
    <3> QED
      BY <3>2, <3>3
  <2> QED
    BY <1>t, <1>3, <2>2, <2>3, Borrows
<1>4. CASE GiveBack(t)
  <2>1. /\ UNCHANGED <<lost, pools, review>> /\ request[t].pc \in {"read", "raised"}
        /\ failed' = failed \ {request[t].conn}
    BY <1>4 DEF GiveBack, FailedAfterReturn
  <2>2. \/ Gone(t)
        \/ Becomes(t, "lookup", request[t].since, request[t].pool, <<>>,
                   request[t].paths, request[t].parts)
    BY <1>t, <1>4, <2>1, GivesBack
  <2>3. request'[t].conn = <<>> /\ \A u \in Threads \ {t} : request'[u] = request[u]
    BY <2>2 DEF Gone, Becomes
  <2>4. FailedIsHeld'
    BY <1>t, <2>1, <2>3 DEF FailedIsHeld
  <2>5. Exclusive'
    BY <1>t, <2>1, <2>3, NoConnection DEF Exclusive, GatewayTypes
  <2>6. Pooled'
    BY <1>t, <2>1, <2>2 DEF Gone, Becomes, Pooled
  <2> QED
    BY <2>4, <2>5, <2>6
<1>5. CASE ReadVersion(t)
  <2>1. UNCHANGED <<lost, pools, failed, review>> /\ request[t].pc = "borrowed"
    BY <1>5 DEF ReadVersion
  <2> QED
    BY <1>t, <1>5, <2>1, Reads DEF Becomes, Pooled, Exclusive, FailedIsHeld
<1>6. CASE SqlError(t)
  <2>1. /\ UNCHANGED <<lost, pools, review>> /\ request[t].pc = "borrowed"
        /\ failed' = failed \cup {request[t].conn}
    BY <1>6 DEF SqlError
  <2>2. Becomes(t, "raised", request[t].since, request[t].pool, request[t].conn,
                request[t].paths, request[t].parts)
    <3>1. Update(t, [request[t] EXCEPT !.pc = "raised"]) /\ "raised" \in Phases
      BY <1>6 DEF SqlError, Phases
    <3> QED
      BY <1>t, <3>1, Moves
  <2>3. FailedIsHeld'
    BY <1>t, <2>1, <2>2 DEF Becomes, FailedIsHeld
  <2>4. Pooled' /\ Exclusive'
    BY <1>t, <2>1, <2>2 DEF Becomes, Pooled, Exclusive
  <2> QED
    BY <2>3, <2>4
<1>7. ASSUME UNCHANGED <<lost, pools, failed, review>>,
             request[t].pc \in {"lookup", "loading"},
             NEW pc \in {"loading", "scoring"}, NEW parts,
             Becomes(t, pc, request[t].since, request[t].pool, request[t].conn,
                     request[t].paths, parts)
      PROVE  Pooled' /\ Exclusive' /\ FailedIsHeld'
  BY <1>t, <1>7 DEF Becomes, Pooled, Exclusive, FailedIsHeld
<1>8. ASSUME UNCHANGED <<lost, pools, failed, review>>, Gone(t),
             request[t].pc \in {"loading", "scoring"}
      PROVE  Pooled' /\ Exclusive' /\ FailedIsHeld'
  BY <1>t, <1>8 DEF Gone, Becomes, Pooled, Exclusive, FailedIsHeld
<1>9. CASE LookUp(t)
  <2>1. UNCHANGED <<lost, pools, failed, review>> /\ request[t].pc = "lookup"
    BY <1>9 DEF LookUp
  <2> QED
    BY <1>t, <1>7, <1>9, <2>1, LooksUp
<1>10. CASE LoadShard(t)
  <2>1. UNCHANGED <<lost, pools, failed, review>> /\ request[t].pc = "loading"
    BY <1>10 DEF LoadShard
  <2> QED
    BY <1>7, <1>8, <1>10, <2>1, Loads
<1>11. CASE Store(t)
  <2>1. UNCHANGED <<lost, pools, failed, review>> /\ request[t].pc = "loading"
    BY <1>11 DEF Store
  <2> QED
    BY <1>7, <1>11, <2>1, Stores
<1>12. CASE Answer(t)
  <2>1. UNCHANGED <<lost, pools, failed>> /\ request[t].pc = "scoring" /\ Gone(t)
    BY <1>12, Answers DEF Answer
  <2>2. CASE UNCHANGED review
    BY <1>8, <2>1, <2>2
  <2>3. ASSUME NEW v \in Reviewers, NEW row, review[v].pc = "none",
               Turns(v, "waiting", <<>>, row)
        PROVE  Pooled' /\ Exclusive' /\ FailedIsHeld'
    <3>1. pools = 1
      BY <1>t, <2>1 DEF Pooled
    <3> QED
      BY <1>t, <2>1, <2>3, <3>1 DEF Gone, Becomes, Turns, Pooled, Exclusive, FailedIsHeld
  <2> QED
    BY <1>12, <2>2, <2>3, Answers
<1>13. CASE RollbackRaises(t)
  <2>1. /\ Gone(t) /\ UNCHANGED <<pools, failed, review>>
        /\ request[t].conn # <<>> /\ lost' = lost \cup {request[t].conn}
    BY <1>t, <1>13, Loses, NoConnection
  <2>2. request'[t].conn = <<>> /\ \A u \in Threads \ {t} : request'[u] = request[u]
    BY <2>1 DEF Gone, Becomes
  <2>3. Pooled'
    BY <1>t, <2>1 DEF Gone, Becomes, Pooled
  <2>4. FailedIsHeld'
    BY <1>t, <2>1, <2>2 DEF FailedIsHeld
  <2>5. Exclusive'
    BY <1>t, <2>1, <2>2, NoConnection DEF Exclusive, GatewayTypes
  <2> QED
    BY <2>3, <2>4, <2>5
<1> QED
  BY <1>1, <1>2, <1>3, <1>4, <1>5, <1>6, <1>9, <1>10, <1>11, <1>12, <1>13 DEF ThreadNext

LEMMA ReviewPoolStep ==
  ASSUME ServingInv, NEW v \in Reviewers, ReviewNext(v)
  PROVE  Pooled' /\ Exclusive' /\ FailedIsHeld'
<1>t. /\ GatewayTypes /\ Pooled /\ Exclusive /\ FailedIsHeld
      /\ UNCHANGED <<pools, request>>
  BY DEF ServingInv, PoolInv, ReviewNext, ReviewBorrow, ReviewInsert, ReviewError, ReviewReturn,
         ReviewRollbackRaises
<1>1. CASE ReviewBorrow(v)
  <2>1. UNCHANGED <<lost, failed>> /\ review[v].pc = "waiting"
    BY <1>1 DEF ReviewBorrow
  <2>2. CASE Turns(v, "none", <<>>, {})
    BY <1>t, <2>1, <2>2 DEF Turns, Pooled, Exclusive, FailedIsHeld
  <2>3. ASSUME NEW c \in Free(1), Turns(v, "borrowed", c, review[v].row)
        PROVE  Pooled' /\ Exclusive' /\ FailedIsHeld'
    <3>1. /\ c # <<>> /\ c \notin lost /\ \A u \in Threads : request[u].conn # c
          /\ \A w \in Reviewers : review[w].conn # c
      BY <2>3, FreeFacts DEF ServingInv
    <3> QED
      BY <1>t, <2>1, <2>3, <3>1 DEF Turns, Pooled, Exclusive, FailedIsHeld
  <2> QED
    BY <1>t, <1>1, <2>2, <2>3, ReviewBorrows
<1>2. CASE ReviewInsert(v) \/ ReviewError(v)
  <2>1. /\ failed' \in {failed, failed \cup {review[v].conn}} /\ lost' = lost
        /\ review[v].pc = "borrowed"
    BY <1>2 DEF ReviewInsert, ReviewError
  <2>2. Turns(v, "returning", review[v].conn, review[v].row)
    BY <1>t, <1>2, ReviewEnds
  <2> QED
    BY <1>t, <2>1, <2>2 DEF Turns, Pooled, Exclusive, FailedIsHeld
<1>3. CASE ReviewReturn(v)
  <2>1. failed' = failed \ {review[v].conn} /\ lost' = lost /\ review[v].pc = "returning"
        /\ Turns(v, "none", <<>>, {})
    BY <1>t, <1>3, ReviewDropped DEF ReviewReturn, FailedAfterReturn
  <2> QED
    BY <1>t, <2>1, NoConnection
       DEF Turns, Pooled, Exclusive, FailedIsHeld, GatewayTypes
<1>4. CASE ReviewRollbackRaises(v)
  <2>1. /\ Turns(v, "none", <<>>, {}) /\ failed' = failed
        /\ review[v].conn # <<>> /\ lost' = lost \cup {review[v].conn}
    BY <1>t, <1>4, ReviewLoses, NoConnection
  <2>2. Pooled'
    BY <1>t, <2>1 DEF Turns, Pooled
  <2>3. FailedIsHeld'
    BY <1>t, <2>1 DEF Turns, FailedIsHeld
  <2>4. Exclusive'
    BY <1>t, <2>1, NoConnection DEF Turns, Exclusive, GatewayTypes
  <2> QED
    BY <2>2, <2>3, <2>4
<1> QED
  BY <1>1, <1>2, <1>3, <1>4 DEF ReviewNext

LEMMA PoolStep ==
  ASSUME ServingInv, [Next]_vars
  PROVE  PoolInv'
<1>1. CASE UNCHANGED <<lost, pools, failed, request, review>>
  BY <1>1, GatewayTypesStep DEF ServingInv, PoolInv, Pooled, Exclusive, FailedIsHeld
<1>2. ASSUME NEW t \in Threads, ThreadNext(t) PROVE PoolInv'
  BY <1>2, GatewayTypesStep, ThreadPoolStep DEF PoolInv
<1>3. ASSUME NEW v \in Reviewers, ReviewNext(v) PROVE PoolInv'
  BY <1>3, GatewayTypesStep, ReviewPoolStep DEF PoolInv
<1>4. UNCHANGED vars \/ WorkerNext => UNCHANGED <<lost, pools, failed, request, review>>
  <2>1. \A s \in Subjects : StartRefit(s) => GatewayIdle
    BY DEF StartRefit
  <2>2. EndRefit \/ Promote \/ BreakOff => GatewayIdle
    BY DEF EndRefit, Promote, BreakOff
  <2> QED
    BY <2>1, <2>2 DEF WorkerNext, GatewayIdle, vars, reviewVars
<1> QED
  BY <1>1, <1>2, <1>3, <1>4 DEF Next, ThreadNext, ReviewNext, WorkerNext

-----------------------------------------------------------------------------
(* Answers *)

LEMMA AnswerInit == Init => AnswerInv
BY DEF Init, AnswerInv, ReadsVersions, LoadsAfterReading, SinceIsDone, CacheIsOne, Idle, NoReview

\* The worker's steps leave what a request has read in place.
LEMMA AnswersOutlive ==
  ASSUME AnswerInv, Grows, UNCHANGED <<request, cache, answers, reviews, review>>
  PROVE  AnswerInv'
BY DEF Grows, AnswerInv, ReadsVersions, LoadsAfterReading, SinceIsDone, CacheIsOne

\* The newest version has none of the done subjects in it.
LEMMA NewestForgets ==
  ASSUME WorkerInv, NEW s \in done, NEW k \in Shards
  PROVE  s \notin CurrentModel(versions)[k]
<1>1. \A u \in CurrentModel(versions)[k] : ShardOf[u] = k
  BY NewestIsLast DEF WorkerInv, RowsInVersions
<1> QED
  BY <1>1 DEF WorkerInv, DoneIsOut

LEMMA ThreadAnswerStep ==
  ASSUME ServingInv, NEW t \in Threads, ThreadNext(t)
  PROVE  AnswerInv'
<1> USE DEF workerVars, reviewVars
<1> DEFINE Kept == UNCHANGED <<versions, done, cache, answers, reviews, review>>
<1>t. /\ GatewayTypes /\ WorkerTypes /\ Pooled /\ WorkerInv
      /\ ReadsVersions /\ LoadsAfterReading /\ SinceIsDone /\ CacheIsOne
  BY DEF ServingInv, PoolInv, WorkerInv, AnswerInv
<1>d. DOMAIN <<>> = {}
  BY NothingLoaded
<1>1. ASSUME Kept, NEW pc \in {"idle", "unpooled", "pooled", "borrowed", "raised"},
             NEW since \in SUBSET done, NEW pool, NEW conn, NEW paths,
             Becomes(t, pc, since, pool, conn, paths, <<>>)
      PROVE  AnswerInv'
  BY <1>t, <1>1 DEF Becomes, AnswerInv, ReadsVersions, LoadsAfterReading, SinceIsDone, CacheIsOne
<1>2. ASSUME Kept, Gone(t) PROVE AnswerInv'
  BY <1>1, <1>2 DEF Gone
<1>3. CASE BeginRequest(t)
  BY <1>t, <1>1, <1>3, Begins DEF BeginRequest
<1>4. CASE CreatePool(t)
  <2>1. Kept /\ request[t].pc = "unpooled"
    BY <1>4 DEF CreatePool
  <2> QED
    BY <1>t, <1>1, <1>4, <2>1, Creates DEF SinceIsDone, LoadsAfterReading
<1>5. CASE Borrow(t)
  <2>1. Kept /\ request[t].pc = "pooled"
    BY <1>5 DEF Borrow
  <2> QED
    BY <1>t, <1>1, <1>2, <1>5, <2>1, Borrows DEF SinceIsDone, LoadsAfterReading
<1>6. CASE GiveBack(t)
  <2>1. Kept /\ request[t].pc \in {"read", "raised"}
    BY <1>6 DEF GiveBack
  <2>2. CASE request[t].pc = "raised"
    BY <1>t, <1>2, <1>6, <2>1, <2>2, GivesBack
  <2>3. CASE request[t].pc = "read"
    <3>1. Becomes(t, "lookup", request[t].since, request[t].pool, <<>>,
                  request[t].paths, request[t].parts)
      BY <1>t, <1>6, <2>3, GivesBack
    <3> QED
      BY <1>t, <2>1, <2>3, <3>1
         DEF Becomes, AnswerInv, ReadsVersions, LoadsAfterReading, SinceIsDone, CacheIsOne
  <2> QED
    BY <2>1, <2>2, <2>3
<1>7. CASE ReadVersion(t)
  <2>1. Kept /\ request[t].pc = "borrowed" /\ request[t].parts = <<>>
    BY <1>t, <1>7 DEF ReadVersion, LoadsAfterReading
  <2>2. CASE Becomes(t, "raised", request[t].since, request[t].pool, request[t].conn,
                     request[t].paths, request[t].parts)
    BY <1>t, <1>1, <2>1, <2>2 DEF SinceIsDone
  <2>3. CASE Becomes(t, "read", request[t].since, request[t].pool, request[t].conn,
                     CurrentModel(versions), request[t].parts)
    <3>1. \E i \in DOMAIN versions : CurrentModel(versions) = versions[i]
      BY <1>t, NewestIsLast
    <3>2. \A s \in request[t].since, k \in Shards : s \notin CurrentModel(versions)[k]
      BY <1>t, NewestForgets DEF SinceIsDone
    <3>3. ReadsVersions'
      BY <1>t, <1>d, <2>1, <2>3, <3>1, <3>2 DEF Becomes, ReadsVersions
    <3> QED
      BY <1>t, <2>1, <2>3, <3>3 DEF Becomes, AnswerInv, LoadsAfterReading, SinceIsDone, CacheIsOne
  <2> QED
    BY <1>t, <1>7, <2>2, <2>3, Reads
<1>8. CASE SqlError(t)
  <2>1. Kept /\ request[t].pc = "borrowed" /\ request[t].parts = <<>>
    BY <1>t, <1>8 DEF SqlError, LoadsAfterReading
  <2>2. Update(t, [request[t] EXCEPT !.pc = "raised"]) /\ "raised" \in Phases
    BY <1>8 DEF SqlError, Phases
  <2> QED
    BY <1>t, <1>1, <2>1, <2>2, Moves DEF SinceIsDone
<1>9. CASE LookUp(t)
  <2>1. Kept /\ request[t].pc = "lookup"
    BY <1>9 DEF LookUp
  <2>2. ASSUME NEW e \in cache, e.key = request[t].paths,
               Becomes(t, "scoring", request[t].since, request[t].pool,
                       request[t].conn, request[t].paths, e.ensemble)
        PROVE  AnswerInv'
    <3>1. e \in Entry /\ DOMAIN e.ensemble = Shards
      BY <1>t DEF GatewayTypes, Entry, Ensemble
    <3>2. [key |-> request[t].paths, ensemble |-> e.ensemble] = e
      BY <2>2, <3>1 DEF Entry
    <3>3. ReadsVersions'
      BY <1>t, <2>1, <2>2, <3>1 DEF Becomes, ReadsVersions, CacheIsOne
    <3>4. CacheIsOne'
      BY <1>t, <2>1, <2>2, <3>2 DEF Becomes, CacheIsOne
    <3> QED
      BY <1>t, <2>1, <2>2, <3>3, <3>4 DEF Becomes, AnswerInv, LoadsAfterReading, SinceIsDone
  <2>3. CASE Becomes(t, "loading", request[t].since, request[t].pool, request[t].conn,
                     request[t].paths, request[t].parts)
    BY <1>t, <2>1, <2>3
       DEF Becomes, AnswerInv, ReadsVersions, LoadsAfterReading, SinceIsDone, CacheIsOne
  <2> QED
    BY <1>t, <1>9, <2>2, <2>3, LooksUp
<1>10. CASE LoadShard(t)
  <2>1. Kept /\ request[t].pc = "loading"
    BY <1>10 DEF LoadShard
  <2>2. ASSUME NEW k \in Shards, NEW part \in Part, Matches(part, request[t].paths[k]),
               Becomes(t, "loading", request[t].since, request[t].pool,
                       request[t].conn, request[t].paths,
                       With(request[t].parts, k, part))
        PROVE  AnswerInv'
    <3> DEFINE parts == With(request[t].parts, k, part)
    <3>1. request[t].parts \in Loaded
      BY <1>t, LocalsFields DEF GatewayTypes
    <3>2. DOMAIN parts = DOMAIN request[t].parts \cup {k}
      BY <3>1, WithPart
    <3>3. \A m \in DOMAIN request[t].parts \cup {k} :
            parts[m] = IF m = k THEN part ELSE request[t].parts[m]
      <4> DEFINE old == request[t].parts
      <4> HIDE DEF old
      <4>1. \A m \in DOMAIN old \cup {k} : With(old, k, part)[m] = IF m = k THEN part ELSE old[m]
        BY DEF With
      <4> QED
        BY <4>1 DEF old
    <3> HIDE DEF parts
    <3>4. \A m \in DOMAIN parts : Matches(parts[m], request[t].paths[m])
      <4>1. \A m \in DOMAIN request[t].parts : Matches(request[t].parts[m], request[t].paths[m])
        BY <1>t, <2>1 DEF ReadsVersions
      <4> QED
        BY <2>2, <3>2, <3>3, <4>1
    <3>5. Becomes(t, "loading", request[t].since, request[t].pool,
                  request[t].conn, request[t].paths, parts)
      BY <2>2 DEF parts
    <3> QED
      BY <1>t, <2>1, <3>4, <3>5
         DEF Becomes, AnswerInv, ReadsVersions, LoadsAfterReading, SinceIsDone, CacheIsOne
  <2> QED
    BY <1>2, <1>10, <2>1, <2>2, Loads
<1>11. CASE Store(t)
  <2>1. /\ UNCHANGED <<versions, done, answers, reviews, review>>
        /\ request[t].pc = "loading"
    BY <1>11 DEF Store
  <2>2. PICK e \in cache' :
          /\ e.key = request[t].paths
          /\ Becomes(t, "scoring", request[t].since, request[t].pool,
                     request[t].conn, request[t].paths, e.ensemble)
    BY <1>11, Stores
  <2>3. /\ cache \subseteq cache' /\ cache' \subseteq Entry
        /\ \A x, y \in cache' : x.key = y.key => x = y
        /\ \A x \in cache', k \in Shards : Matches(x.ensemble[k], x.key[k])
    BY <1>11, Stores
  <2>4. e \in Entry /\ DOMAIN e.ensemble = Shards
    BY <2>3 DEF Entry, Ensemble
  <2>5. [key |-> request[t].paths, ensemble |-> e.ensemble] = e
    BY <2>2, <2>4 DEF Entry
  <2>6. ReadsVersions'
    BY <1>t, <2>1, <2>2, <2>3, <2>4 DEF Becomes, ReadsVersions
  <2>7. CacheIsOne'
    BY <1>t, <2>1, <2>2, <2>3, <2>5 DEF Becomes, CacheIsOne
  <2> QED
    BY <1>t, <2>1, <2>2, <2>6, <2>7 DEF Becomes, AnswerInv, LoadsAfterReading, SinceIsDone
<1>12. CASE Answer(t)
  <2>1. UNCHANGED <<versions, done, cache, reviews>> /\ Gone(t)
    BY <1>12, Answers DEF Answer
  <2>2. PICK answer \in Scored :
          /\ [key |-> answer.paths, ensemble |-> answer.ensemble] \in cache
          /\ answers' = answers \cup {answer}
          /\ \/ UNCHANGED review
             \/ \E v \in Reviewers : /\ review[v].pc = "none"
                                     /\ Turns(v, "waiting", <<>>, {answer})
    BY <1>12, Answers
  <2>3. \A v \in Reviewers : review'[v].row \subseteq answers'
    BY <1>t, <2>2 DEF CacheIsOne, Turns
  <2>4. CacheIsOne'
    BY <1>t, <2>1, <2>2, <2>3 DEF Gone, Becomes, CacheIsOne
  <2> QED
    BY <1>t, <2>1, <2>4 DEF Gone, Becomes, AnswerInv, ReadsVersions, LoadsAfterReading, SinceIsDone
<1>13. CASE RollbackRaises(t)
  BY <1>t, <1>2, <1>13, Loses DEF RollbackRaises
<1> QED
  BY <1>3, <1>4, <1>5, <1>6, <1>7, <1>8, <1>9, <1>10, <1>11, <1>12, <1>13 DEF ThreadNext

LEMMA ReviewAnswerStep ==
  ASSUME ServingInv, NEW v \in Reviewers, ReviewNext(v)
  PROVE  AnswerInv'
<1> USE DEF workerVars
<1>t. /\ GatewayTypes /\ Pooled /\ CacheIsOne /\ AnswerInv
      /\ UNCHANGED <<versions, done, cache, request, answers>>
  BY DEF ServingInv, PoolInv, AnswerInv, ReviewNext, ReviewBorrow, ReviewInsert, ReviewError,
         ReviewReturn, ReviewRollbackRaises
<1>1. reviews' \subseteq answers
  BY <1>t DEF CacheIsOne, ReviewNext, ReviewBorrow, ReviewInsert, ReviewError, ReviewReturn,
              ReviewRollbackRaises
<1>2. \A w \in Reviewers : review'[w].row \subseteq answers
  <2>1. /\ review'[v].row \in {{}, review[v].row}
        /\ \A w \in Reviewers \ {v} : review'[w] = review[w]
    <3>1. CASE ReviewBorrow(v)
      BY <1>t, <3>1, ReviewBorrows DEF Turns
    <3>2. CASE ReviewInsert(v) \/ ReviewError(v)
      BY <1>t, <3>2, ReviewEnds DEF Turns
    <3>3. CASE ReviewReturn(v) \/ ReviewRollbackRaises(v)
      BY <1>t, <3>3, ReviewDropped DEF ReviewReturn, ReviewRollbackRaises, Turns
    <3> QED
      BY <3>1, <3>2, <3>3 DEF ReviewNext
  <2> QED
    BY <1>t, <2>1 DEF CacheIsOne
<1> QED
  BY <1>t, <1>1, <1>2 DEF AnswerInv, ReadsVersions, LoadsAfterReading, SinceIsDone, CacheIsOne

-----------------------------------------------------------------------------
(* The invariant, and what it says *)

LEMMA ServingStep ==
  ASSUME ServingInv, [Next]_vars
  PROVE  ServingInv'
<1> USE DEF workerVars, reviewVars
<1>p. PoolInv'
  BY PoolStep
<1>1. CASE UNCHANGED vars
  <2>1. WorkerInv' /\ Grows
    BY <1>1, WorkerStays DEF vars, ServingInv
  <2>2. AnswerInv'
    BY <1>1, <2>1, AnswersOutlive DEF vars, ServingInv
  <2> QED
    BY <1>p, <2>1, <2>2 DEF ServingInv
<1>2. CASE WorkerNext
  <2>1. WorkerInv' /\ Grows
    BY <1>2, WorkerStep DEF ServingInv
  <2>2. GatewayIdle
    <3>1. \A s \in Subjects : StartRefit(s) => GatewayIdle
      BY DEF StartRefit
    <3>2. EndRefit \/ Promote \/ BreakOff => GatewayIdle
      BY DEF EndRefit, Promote, BreakOff
    <3> QED
      BY <1>2, <3>1, <3>2 DEF WorkerNext
  <2>3. AnswerInv'
    BY <2>1, <2>2, AnswersOutlive DEF GatewayIdle, ServingInv
  <2> QED
    BY <1>p, <2>1, <2>3 DEF ServingInv
<1>3. ASSUME NEW t \in Threads, ThreadNext(t) PROVE ServingInv'
  <2>1. UNCHANGED workerVars
    BY <1>3 DEF ThreadNext, BeginRequest, CreatePool, Borrow, GiveBack, RollbackRaises, ReadVersion,
                SqlError, LookUp, LoadShard, Store, Answer
  <2> QED
    BY <1>p, <1>3, <2>1, WorkerStays, ThreadAnswerStep DEF ServingInv
<1>4. ASSUME NEW v \in Reviewers, ReviewNext(v) PROVE ServingInv'
  <2>1. UNCHANGED workerVars
    BY <1>4 DEF ReviewNext, ReviewBorrow, ReviewInsert, ReviewError, ReviewReturn,
     ReviewRollbackRaises
  <2> QED
    BY <1>p, <1>4, <2>1, WorkerStays, ReviewAnswerStep DEF ServingInv
<1> QED
  BY <1>1, <1>2, <1>3, <1>4 DEF Next, WorkerNext, ThreadNext, ReviewNext

LEMMA ServingInvariant == Spec => []ServingInv
<1>1. Init => ServingInv
  BY WorkerInit, PoolInit, AnswerInit DEF ServingInv
<1>2. ServingInv /\ [Next]_vars => ServingInv'
  BY ServingStep
<1> QED
  BY <1>1, <1>2, PTL DEF Spec

LEMMA InvAnswersForget == ServingInv => AnswersForget
<1> SUFFICES ASSUME ServingInv, NEW t \in Threads, request[t].pc = "scoring",
                    NEW s \in request[t].since, NEW k \in Shards
             PROVE  s \notin request[t].parts[k].weights \cup request[t].parts[k].pre
  BY DEF AnswersForget
<1>1. /\ [key |-> request[t].paths, ensemble |-> request[t].parts] \in cache
      /\ GatewayTypes
  BY DEF ServingInv, AnswerInv, PoolInv, CacheIsOne
<1>2. Matches(request[t].parts[k], request[t].paths[k])
  BY <1>1 DEF ServingInv, AnswerInv, CacheIsOne
<1>3. s \notin request[t].paths[k]
  BY DEF ServingInv, AnswerInv, ReadsVersions
<1> QED
  BY <1>2, <1>3 DEF Matches

\* A request that came in after an erasure was reported done is answered by
\* weights and preprocessors that never saw the subject, for any number of
\* threads, shards and erasures: a preprocessor file that is newer than the
\* weights it is paired with was fit on fewer subjects, never on more.
THEOREM AnswersNeverRemember == Spec => []AnswersForget
BY ServingInvariant, InvAnswersForget, PTL

LEMMA InvOneEnsemble == ServingInv => OneEnsemblePerVersion
<1> SUFFICES ASSUME ServingInv, NEW x \in answers \cup reviews, NEW y \in answers \cup reviews,
                    x.paths = y.paths
             PROVE  x.ensemble = y.ensemble
  BY DEF OneEnsemblePerVersion
<1> DEFINE e == [key |-> x.paths, ensemble |-> x.ensemble]
           f == [key |-> y.paths, ensemble |-> y.ensemble]
<1>1. e \in cache /\ f \in cache
  BY DEF ServingInv, AnswerInv, CacheIsOne
<1>2. e.key = f.key /\ e.ensemble = x.ensemble /\ f.ensemble = y.ensemble
  OBVIOUS
<1> HIDE DEF e, f
<1> QED
  BY <1>1, <1>2 DEF ServingInv, AnswerInv, CacheIsOne

\* All answers and reviews of a process for one version come from one ensemble,
\* for any number of threads building it at once.
THEOREM OneEnsembleServes == Spec => []OneEnsemblePerVersion
BY ServingInvariant, InvOneEnsemble, PTL

\* There are connections only once there is a pool, and so a thread.
LEMMA ConnectionsOut ==
  ASSUME PoolInv
  PROVE  /\ failed # {} \/ lost # {} => pools = 1
         /\ \A t \in Threads : request[t].conn # <<>> => pools = 1
         /\ \A v \in Reviewers : review[v].conn # <<>> => pools = 1
BY DEF PoolInv, GatewayTypes, Pooled, FailedIsHeld

LEMMA InvServingType == ServingInv => ServingTypeOK
<1> SUFFICES ASSUME ServingInv PROVE ServingTypeOK
  OBVIOUS
<1>t. GatewayTypes /\ WorkerTypes /\ Pooled /\ CacheIsOne /\ PoolInv
  BY DEF ServingInv, PoolInv, WorkerInv, AnswerInv
<1>1. /\ Cardinality(Threads) \in Nat
      /\ Threads # {} => Cardinality(Threads) >= 1
  BY ServingCallers, FS_CardinalityType, FS_EmptySet
<1>2. pools = 1 => Conns \subseteq Connection
  BY <1>t, <1>1 DEF Conns, Connection, GatewayTypes
<1>3. <<>> \notin Connection
  BY DEF Connection
<1>4. pools \in 0 .. Cardinality(Threads)
  BY <1>t, <1>1 DEF GatewayTypes
<1>5. failed \subseteq Connection /\ lost \subseteq Connection
  BY <1>t, <1>2, ConnectionsOut DEF GatewayTypes
<1>6. ASSUME NEW v \in Reviewers
      PROVE  /\ review[v].pc \in {"none", "waiting", "borrowed", "returning"}
             /\ review[v].pc \in {"borrowed", "returning"} <=> review[v].conn \in Connection
  <2>1. review[v] \in ReviewLocals
    BY <1>t DEF GatewayTypes
  <2> QED
    BY <1>t, <1>2, <1>3, <2>1, ReviewFields, ConnectionsOut DEF Pooled
<1>7. ASSUME NEW t \in Threads
      PROVE  /\ request[t].pc \in Phases
             /\ request[t].pc \in {"borrowed", "read", "raised"}
                  <=> request[t].conn \in Connection
             /\ request[t].pc = "scoring" => request[t].parts \in Ensemble
  <2>1. request[t] \in Locals
    BY <1>t DEF GatewayTypes
  <2>2. ASSUME request[t].pc = "scoring" PROVE request[t].parts \in Ensemble
    <3>1. [key |-> request[t].paths, ensemble |-> request[t].parts] \in Entry
      BY <1>t, <2>2 DEF CacheIsOne, GatewayTypes
    <3> QED
      BY <3>1 DEF Entry
  <2> QED
    BY <1>t, <1>2, <1>3, <2>1, <2>2, LocalsFields, ConnectionsOut DEF Pooled
<1>8. \A i \in DOMAIN versions : versions[i] \in Paths
  BY <1>t, NewestIsLast
<1>9. \A e \in cache : e.ensemble \in Ensemble
  BY <1>t DEF GatewayTypes, Entry
<1> QED
  BY <1>t, <1>4, <1>5, <1>6, <1>7, <1>8, <1>9 DEF ServingTypeOK, WorkerTypes

\* A process is well formed: it scores with a part for every shard, and holds a
\* connection of an existing pool exactly between getconn and putconn.
THEOREM ServingTypeCorrect == Spec => []ServingTypeOK
BY ServingInvariant, InvServingType, PTL

\* As many holders as connections they hold.
LEMMA Counting ==
  ASSUME NEW S, IsFiniteSet(S), NEW T, NEW f \in [S -> T], T = {f[x] : x \in S},
         \A x, y \in S : f[x] = f[y] => x = y
  PROVE  IsFiniteSet(T) /\ Cardinality(T) = Cardinality(S)
<1>1. f \in Bijection(S, T)
  BY DEF Bijection, Injection, IsInjective, Surjection
<1>2. ExistsBijection(S, T)
  BY <1>1 DEF ExistsBijection
<1> QED
  BY <1>2, FS_Bijection

LEMMA PoolHasSize == IsFiniteSet(Conns) /\ Cardinality(Conns) = PoolSize
<1> DEFINE S == 1 .. PoolSize
           f == [i \in S |-> <<1, i>>]
<1>1. IsFiniteSet(S) /\ Cardinality(S) = PoolSize
  BY ServingBounds, FS_Interval
<1>2. {f[i] : i \in S} = Conns
  BY DEF Conns
<1>3. f \in [S -> Conns]
  BY DEF Conns
<1>4. \A i, j \in S : f[i] = f[j] => i = j
  OBVIOUS
<1> HIDE DEF f, S
<1> QED
  BY <1>1, <1>2, <1>3, <1>4, Counting

LEMMA InvPoolIsSound == ServingInv => PoolIsSound
<1> SUFFICES ASSUME ServingInv PROVE PoolIsSound
  OBVIOUS
<1> DEFINE holders == {t \in Threads : request[t].conn # <<>>}
           reviewers == {v \in Reviewers : review[v].conn # <<>>}
           f == [t \in holders |-> request[t].conn]
           g == [v \in reviewers |-> review[v].conn]
<1>t. GatewayTypes /\ Pooled /\ Exclusive /\ FailedIsHeld
  BY DEF ServingInv, PoolInv
<1>1. IsFiniteSet(holders) /\ IsFiniteSet(reviewers)
  BY ServingCallers, FS_Subset
<1>2. {f[t] : t \in holders} = HeldByRequests /\ {g[v] : v \in reviewers} = HeldByReviews
  BY DEF HeldByRequests, HeldByReviews
<1>3. f \in [holders -> HeldByRequests] /\ g \in [reviewers -> HeldByReviews]
  BY DEF HeldByRequests, HeldByReviews
<1>4. /\ \A t, u \in holders : f[t] = f[u] => t = u
      /\ \A v, w \in reviewers : g[v] = g[w] => v = w
  BY <1>t DEF Exclusive
<1>5. HeldByRequests \cap HeldByReviews = {}
  BY <1>t DEF Exclusive, HeldByRequests, HeldByReviews
<1>6. HeldByRequests \cup HeldByReviews \subseteq Conns
  BY <1>t, LocalsFields, ReviewFields DEF GatewayTypes, HeldByRequests, HeldByReviews
<1> HIDE DEF f, g
<1>7. /\ IsFiniteSet(HeldByRequests) /\ Cardinality(HeldByRequests) = Cardinality(holders)
      /\ IsFiniteSet(HeldByReviews) /\ Cardinality(HeldByReviews) = Cardinality(reviewers)
  <2> HIDE DEF holders, reviewers
  <2>1. IsFiniteSet(HeldByRequests) /\ Cardinality(HeldByRequests) = Cardinality(holders)
    BY <1>1, <1>2, <1>3, <1>4, Counting
  <2>2. IsFiniteSet(HeldByReviews) /\ Cardinality(HeldByReviews) = Cardinality(reviewers)
    BY <1>1, <1>2, <1>3, <1>4, Counting
  <2> QED
    BY <2>1, <2>2
<1>8. Cardinality(holders) + Cardinality(reviewers)
        = Cardinality(HeldByRequests \cup HeldByReviews)
  <2>1. Cardinality(HeldByRequests \cup HeldByReviews)
          = Cardinality(HeldByRequests) + Cardinality(HeldByReviews) - Cardinality({})
    BY <1>5, <1>7, FS_Union
  <2>2. /\ Cardinality({}) = 0
        /\ Cardinality(HeldByRequests) \in Nat /\ Cardinality(HeldByReviews) \in Nat
    BY <1>7, FS_EmptySet, FS_CardinalityType
  <2> QED
    BY <1>7, <2>1, <2>2
<1>9. /\ Cardinality(HeldByRequests \cup HeldByReviews \cup lost) <= PoolSize
      /\ (HeldByRequests \cup HeldByReviews) \cap lost = {}
  <2>1. lost \subseteq Conns
    BY <1>t DEF GatewayTypes
  <2>2. HeldByRequests \cup HeldByReviews \cup lost \subseteq Conns
    BY <1>6, <2>1
  <2>3. (HeldByRequests \cup HeldByReviews) \cap lost = {}
    BY <1>t DEF Exclusive, HeldByRequests, HeldByReviews
  <2> QED
    BY <2>2, <2>3, PoolHasSize, FS_Subset
<1>10. /\ \A t \in Threads : request[t].pc = "borrowed" => request[t].conn \notin failed
       /\ \A v \in Reviewers : review[v].pc = "borrowed" => review[v].conn \notin failed
  BY <1>t DEF Pooled, Exclusive, FailedIsHeld
<1> QED
  BY <1>8, <1>9, <1>10 DEF PoolIsSound

\* One pool's worth of connections is out or lost at most, each once, and whoever
\* has borrowed one finds no failed transaction on it, for any number of threads
\* and reviews, however they race to create the pool.
THEOREM OnePoolIsShared == Spec => []PoolIsSound
BY ServingInvariant, InvPoolIsSound, PTL

=============================================================================
