--------------------------- MODULE PromotionProofs --------------------------
(***************************************************************************)
(* What promotion keeps, for any number of workers, kills and failures:    *)
(* every file a version row names is there and whole, and no subject gets  *)
(* a second certificate.  A rebuild is one step, so several workers are    *)
(* covered as long as their rebuilds do not overlap (SisaEngine_replicas   *)
(* has what overlapping ones do).                                          *)
(***************************************************************************)
EXTENDS ErasureSystemProofs

-----------------------------------------------------------------------------
(* What a step can do to files, transactions and certificates *)

Others(w) == \A v \in Workers \ {w} : tx'[v] = tx[v]

\* The shard whose group is being booked.
Booking(w) == IF tx[w].phase = "book" THEN {tx[w].shard} ELSE {}

\* cas/ as promote_artifact leaves it, however far it gets.
Wrote(w) ==
  \/ UNCHANGED cas
  \/ /\ tx[w].phase = "book"
     /\ \/ cas' = Promoted(tx[w].shard, tx[w].digest)
        \/ cas' \in CutShort(tx[w].shard, tx[w].digest)

\* Nobody's data comes back, to a shard file, the routing table or a model.
Ebbs ==
  /\ rows' \subseteq rows /\ routed' \subseteq routed
  /\ \A k \in Shards : live'[k] \subseteq live[k] \cup rows

\* w's transaction starts with its first statement and keeps its now().
SameTime(w) == tx'[w].start = tx[w].start /\ UNCHANGED clock
Timed(w) ==
  /\ tx'[w].start = StartTime(w)
  /\ clock' = IF tx[w].start = 0 THEN clock + 1 ELSE clock

\* The group being booked is promoted from the row base, and perhaps recorded.
Promotes(w) ==
  /\ tx[w].phase = "book"
  /\ cas' = Promoted(tx[w].shard, tx[w].digest)
  /\ tx'[w].ok \in {tx[w].ok, tx[w].ok \cup {tx[w].shard}}
  /\ \E base \in CarriedFrom(w) : tx'[w].new = tx[w].new \cup NewVersions(w, base)

Elsewhere == UNCHANGED <<diskVars, versions, tx, held, manifests, clock>>

Claimed(w) ==
  /\ UNCHANGED <<diskVars, versions, manifests, clock>>
  /\ held' = [held EXCEPT ![w] = Batch]
  /\ tx'[w].todo = {ShardOfJob(j) : j \in Batch}
  /\ tx'[w].phase = "rebuild" /\ tx'[w].ok = {} /\ tx'[w].new = {}
  /\ tx'[w].start = 0
  /\ Others(w)

Rebuilt(w, k) ==
  /\ UNCHANGED <<cas, versions, held, manifests>>
  /\ k \in tx[w].todo /\ tx[w].phase = "rebuild"
  /\ Accepts(w, k) /\ Retained(w, k) # {}
  /\ rows' = rows \ Refs(w, k)
  /\ routed' = RoutedAfter(w, k)
  /\ live' = [live EXCEPT ![k] = Retained(w, k)]
  /\ tx'[w].phase = "book" /\ tx'[w].shard = k /\ tx'[w].digest = Retained(w, k)
  /\ tx'[w].todo = tx[w].todo /\ tx'[w].ok = tx[w].ok /\ tx'[w].new = tx[w].new
  /\ SameTime(w)
  /\ Others(w)

\* The group is booked or given up, and the transaction goes on.
GoesOn(w) ==
  /\ UNCHANGED <<versions, held, manifests>>
  /\ Ebbs
  /\ Wrote(w)
  /\ tx'[w].phase # "book"
  /\ tx'[w].todo \subseteq tx[w].todo
  /\ \/ /\ tx'[w].ok = tx[w].ok /\ tx'[w].new = tx[w].new
        /\ SameTime(w) \/ Timed(w)
     \/ Promotes(w) /\ Timed(w)
  /\ Others(w)

\* The transaction is over, committed or not.
Ended(w) ==
  /\ Ebbs
  /\ Wrote(w)
  /\ \/ UNCHANGED <<versions, manifests>>
     \/ /\ versions' = versions \cup tx[w].new
        /\ manifests' = manifests \cup DoneBy(w, tx[w].ok)
  /\ held' = [held EXCEPT ![w] = {}]
  /\ tx'[w] = NoTx /\ UNCHANGED clock
  /\ Others(w)

Kinds ==
  \/ Elsewhere
  \/ \E w \in Workers : Claimed(w) \/ GoesOn(w) \/ Ended(w)
  \/ \E w \in Workers, k \in Shards : Rebuilt(w, k)

LEMMA NoTxFields ==
  /\ NoTx.todo = {} /\ NoTx.phase = "rebuild" /\ NoTx.ok = {} /\ NoTx.new = {}
  /\ NoTx.start = 0
BY DEF NoTx

LEMMA TxUpdate ==
  ASSUME SystemTypeOK, NEW w \in Workers, NEW t, tx' = [tx EXCEPT ![w] = t]
  PROVE  tx'[w] = t /\ Others(w)
BY DEF SystemTypeOK, Others

\* A statement of a transaction that goes on.
LEMMA Statement ==
  ASSUME SystemTypeOK, NEW w \in Workers, NEW t \in Tx, Execute(w, t),
         UNCHANGED <<versions, held, manifests>>, Ebbs, Wrote(w),
         t.phase # "book", t.todo \subseteq tx[w].todo,
         \/ t.ok = tx[w].ok /\ t.new = tx[w].new
         \/ /\ tx[w].phase = "book"
            /\ cas' = Promoted(tx[w].shard, tx[w].digest)
            /\ t.ok \in {tx[w].ok, tx[w].ok \cup {tx[w].shard}}
            /\ \E base \in CarriedFrom(w) : t.new = tx[w].new \cup NewVersions(w, base)
  PROVE  GoesOn(w)
<1>1. tx'[w] = [t EXCEPT !.start = StartTime(w)] /\ Others(w)
  BY TxUpdate DEF Execute
<1>2. /\ tx'[w].phase = t.phase /\ tx'[w].todo = t.todo
      /\ tx'[w].ok = t.ok /\ tx'[w].new = t.new
      /\ tx'[w].start = StartTime(w)
  BY <1>1 DEF Tx
<1>3. (tx'[w].ok = tx[w].ok /\ tx'[w].new = tx[w].new) \/ Promotes(w)
  BY <1>2 DEF Promotes
<1>4. Timed(w)
  BY <1>2 DEF Timed, Execute
<1> QED
  BY <1>1, <1>2, <1>3, <1>4 DEF GoesOn

\* An exception leaves process_claimed.
LEMMA EscapeEnds ==
  ASSUME SystemTypeOK, NEW w \in Workers, Escapes(w), Ebbs, Wrote(w)
  PROVE  Ended(w)
<1>1. tx'[w] = NoTx /\ Others(w)
  BY TxUpdate DEF Escapes
<1> QED
  BY <1>1 DEF Escapes, Crash, Die, Ended

LEMMA MarkFailedKind ==
  ASSUME SystemTypeOK, NEW w \in Workers, NEW k \in Shards, MarkFailed(w, k),
         UNCHANGED cas, Ebbs
  PROVE  GoesOn(w) \/ Ended(w)
<1>0. Wrote(w)
  BY DEF Wrote
<1>1. CASE tx[w].aborted
  BY <1>0, <1>1, EscapeEnds DEF MarkFailed
<1>2. CASE ~tx[w].aborted
  <2> DEFINE t == [tx[w] EXCEPT !.todo = @ \ {k}, !.phase = "rebuild"]
  <2>1. /\ t \in Tx /\ t.phase = "rebuild" /\ t.todo = tx[w].todo \ {k}
        /\ t.ok = tx[w].ok /\ t.new = tx[w].new
    <3>1. tx[w] \in Tx
      BY DEF SystemTypeOK
    <3> QED
      BY <3>1 DEF Tx
  <2>2. Execute(w, t) /\ UNCHANGED <<versions, held, manifests>>
    BY <1>2 DEF MarkFailed, queueVars
  <2> HIDE DEF t
  <2> QED
    BY <1>0, <2>1, <2>2, Statement
<1> QED
  BY <1>1, <1>2

\* Record and the later failures of RecordFails: the row of base is inserted.
LEMMA InsertKind ==
  ASSUME SystemTypeOK, NEW w \in Workers, tx[w].phase = "book",
         NEW base \in CarriedFrom(w), NEW t \in Tx, Execute(w, t),
         t.new = tx[w].new \cup NewVersions(w, base),
         t.phase # "book", t.todo \subseteq tx[w].todo,
         t.ok \in {tx[w].ok, tx[w].ok \cup {tx[w].shard}},
         cas' = Promoted(tx[w].shard, tx[w].digest),
         UNCHANGED <<rows, routed, live, versions, held, manifests>>
  PROVE  GoesOn(w)
<1>1. Wrote(w) /\ Ebbs
  BY DEF Wrote, Ebbs
<1> QED
  BY <1>1, Statement

LEMMA RecordKind ==
  ASSUME SystemTypeOK, NEW w \in Workers, Record(w)
  PROVE  GoesOn(w)
<1>1. PICK base \in CarriedFrom(w) :
        Execute(w, [tx[w] EXCEPT !.phase = "spot", !.ok = @ \cup {tx[w].shard},
                                 !.new = @ \cup NewVersions(w, base)])
  BY DEF Record
<1> DEFINE t == [tx[w] EXCEPT !.phase = "spot", !.ok = @ \cup {tx[w].shard},
                              !.new = @ \cup NewVersions(w, base)]
<1>2. /\ t \in Tx /\ t.phase = "spot" /\ t.todo = tx[w].todo
      /\ t.ok = tx[w].ok \cup {tx[w].shard}
      /\ t.new = tx[w].new \cup NewVersions(w, base)
  <2>1. tx[w] \in Tx /\ NewVersions(w, base) \in SUBSET Version
    BY PromotionType DEF SystemTypeOK
  <2> QED
    BY <2>1 DEF Tx
<1>3. Execute(w, t)
  BY <1>1
<1> HIDE DEF t
<1>4. /\ tx[w].phase = "book" /\ cas' = Promoted(tx[w].shard, tx[w].digest)
      /\ UNCHANGED <<rows, routed, live, versions, held, manifests>>
  BY DEF Record, Processing, queueVars
<1> QED
  BY <1>2, <1>3, <1>4, InsertKind

LEMMA RecordFailsKind ==
  ASSUME SystemTypeOK, NEW w \in Workers, RecordFails(w)
  PROVE  GoesOn(w)
<1>0. /\ tx[w] \in Tx /\ tx[w].phase = "book"
      /\ UNCHANGED <<rows, routed, live, versions, held, manifests>>
  BY DEF RecordFails, Processing, queueVars, SystemTypeOK
<1>1. CASE /\ Execute(w, [tx[w] EXCEPT !.phase = "rebuild", !.todo = @ \ {tx[w].shard}])
           /\ cas' \in CutShort(tx[w].shard, tx[w].digest)
  <2> DEFINE t == [tx[w] EXCEPT !.phase = "rebuild", !.todo = @ \ {tx[w].shard}]
  <2>1. /\ t \in Tx /\ t.phase = "rebuild" /\ t.todo \subseteq tx[w].todo
        /\ t.ok = tx[w].ok /\ t.new = tx[w].new
    BY <1>0 DEF Tx
  <2>2. Execute(w, t) /\ Wrote(w) /\ Ebbs
    BY <1>0, <1>1 DEF Wrote, Ebbs
  <2> HIDE DEF t
  <2> QED
    BY <1>0, <2>1, <2>2, Statement
<1>2. ASSUME NEW base \in CarriedFrom(w), cas' = Promoted(tx[w].shard, tx[w].digest),
             Execute(w, [tx[w] EXCEPT !.phase = "rebuild", !.todo = @ \ {tx[w].shard},
                                      !.new = @ \cup NewVersions(w, base)])
      PROVE  GoesOn(w)
  <2> DEFINE t == [tx[w] EXCEPT !.phase = "rebuild", !.todo = @ \ {tx[w].shard},
                                !.new = @ \cup NewVersions(w, base)]
  <2>1. /\ t \in Tx /\ t.phase = "rebuild" /\ t.todo \subseteq tx[w].todo
        /\ t.ok = tx[w].ok /\ t.new = tx[w].new \cup NewVersions(w, base)
    <3>1. NewVersions(w, base) \in SUBSET Version
      BY PromotionType
    <3> QED
      BY <1>0, <3>1 DEF Tx
  <2>2. Execute(w, t)
    BY <1>2
  <2> HIDE DEF t
  <2> QED
    BY <1>0, <1>2, <2>1, <2>2, InsertKind
<1> QED
  BY <1>1, <1>2 DEF RecordFails

LEMMA RebuildKind ==
  ASSUME SystemTypeOK, NEW w \in Workers, NEW k \in Shards, RebuildDone(w, k)
  PROVE  Rebuilt(w, k)
<1> DEFINE t == [tx[w] EXCEPT !.phase = "book", !.shard = k, !.digest = Retained(w, k)]
<1>1. /\ t.phase = "book" /\ t.shard = k /\ t.digest = Retained(w, k)
      /\ t.todo = tx[w].todo /\ t.ok = tx[w].ok /\ t.new = tx[w].new
      /\ t.start = tx[w].start
  <2>1. tx[w] \in Tx
    BY DEF SystemTypeOK
  <2> QED
    BY <2>1 DEF Tx
<1>2. tx' = [tx EXCEPT ![w] = t]
  BY DEF RebuildDone
<1> HIDE DEF t
<1>3. tx'[w] = t /\ Others(w)
  BY <1>2, TxUpdate
<1> QED
  BY <1>1, <1>3 DEF RebuildDone, Rewritten, Rebuilding, Rebuilt, SameTime, queueVars

LEMMA SpotKind ==
  ASSUME SystemTypeOK, NEW w \in Workers, SpotCheck(w) \/ SpotCheckAborts(w)
  PROVE  GoesOn(w)
<1>1. tx[w] \in Tx
  BY DEF SystemTypeOK
<1>2. PICK t \in {[tx[w] EXCEPT !.phase = "rebuild", !.todo = @ \ {tx[w].shard}],
                  [tx[w] EXCEPT !.phase = "rebuild", !.todo = @ \ {tx[w].shard},
                                !.aborted = TRUE]} :
        tx' = [tx EXCEPT ![w] = t]
  BY DEF SpotCheck, SpotCheckAborts
<1>3. t.phase = "rebuild" /\ t.todo \subseteq tx[w].todo /\ t.ok = tx[w].ok
        /\ t.new = tx[w].new /\ t.start = tx[w].start
  <2>1. tx[w].todo \ {tx[w].shard} \subseteq tx[w].todo
    OBVIOUS
  <2>2. CASE t = [tx[w] EXCEPT !.phase = "rebuild", !.todo = @ \ {tx[w].shard}]
    BY <1>1, <2>1, <2>2 DEF Tx
  <2>3. CASE t = [tx[w] EXCEPT !.phase = "rebuild", !.todo = @ \ {tx[w].shard},
                               !.aborted = TRUE]
    BY <1>1, <2>1, <2>3 DEF Tx
  <2> QED
    BY <1>2, <2>2, <2>3
<1>4. tx'[w] = t /\ Others(w)
  BY <1>2, TxUpdate
<1>5. UNCHANGED <<rows, routed, live, cas, versions, held, manifests, clock>>
  BY DEF SpotCheck, SpotCheckAborts, queueVars, diskVars
<1> QED
  BY <1>3, <1>4, <1>5 DEF GoesOn, Wrote, Ebbs, SameTime

LEMMA FinishKind ==
  ASSUME SystemTypeOK, NEW w \in Workers, Finish(w)
  PROVE  Ended(w)
<1>1. tx'[w] = NoTx /\ Others(w)
  BY TxUpdate DEF Finish
<1> QED
  BY <1>1 DEF Finish, Commit, Inserted, SilentRollback, Ended, Ebbs, Wrote, diskVars

LEMMA ClaimKind ==
  ASSUME SystemTypeOK, NEW w \in Workers, Claim(w)
  PROVE  Claimed(w)
<1> DEFINE t == [NoTx EXCEPT !.todo = {ShardOfJob(j) : j \in Batch}]
<1>1. /\ t.todo = {ShardOfJob(j) : j \in Batch} /\ t.phase = "rebuild"
      /\ t.ok = {} /\ t.new = {} /\ t.start = 0
  BY DEF NoTx
<1>2. tx' = [tx EXCEPT ![w] = t]
  BY DEF Claim
<1> HIDE DEF t
<1>3. tx'[w] = t /\ Others(w)
  BY <1>2, TxUpdate
<1> QED
  BY <1>1, <1>3 DEF Claim, Poll, Claimed, Outside, diskVars

\* A rebuild, wherever it is broken off or refused, brings nobody's data back.
LEMMA RebuildEbbs ==
  ASSUME SystemTypeOK, NEW w \in Workers, NEW k \in Shards
  PROVE  /\ PartWay(w, k) => Ebbs
         /\ RebuildRefused(w, k) \/ RebuildBrokenOff(w, k) => Ebbs
<1>1. Rewritten(w, k) => rows' \subseteq rows /\ \A m \in Shards : live'[m] \subseteq live[m] \cup rows
  BY DEF Rewritten, Retained, SystemTypeOK
<1>2. PartWay(w, k) => Ebbs
  BY <1>1 DEF PartWay, Ebbs
<1>3. RebuildRefused(w, k) => Ebbs
  BY <1>1 DEF RebuildRefused, TreesNoticeLate, Ebbs
<1>4. RebuildBrokenOff(w, k) => Ebbs
  BY <1>2 DEF RebuildBrokenOff, Ebbs
<1> QED
  BY <1>2, <1>3, <1>4

\* Every step of the system is of one of the kinds.
LEMMA StepKinds ==
  ASSUME SystemTypeOK, [SystemNext]_sysVars
  PROVE  Kinds
<1>1. CASE (\E r \in Request : Intake(r)) \/ (\E j \in JobIds : Expiry(j))
             \/ (\E w \in Workers : Start(w)) \/ UNCHANGED sysVars
  BY <1>1 DEF Intake, CreateErasure, Expiry, LeaseExpires, Start, Restart, Outside,
              sysVars, queueVars, diskVars, Elsewhere, Kinds
<1>2. ASSUME NEW w \in Workers, NEW k \in Shards,
             RebuildRefused(w, k) \/ RebuildBrokenOff(w, k)
      PROVE  GoesOn(w) \/ Ended(w)
  BY <1>2, MarkFailedKind, RebuildEbbs DEF RebuildRefused, RebuildBrokenOff
<1>3. ASSUME NEW w \in Workers, RecordAborts(w) PROVE Ended(w)
  <2>1. Wrote(w) /\ Ebbs
    BY <1>3 DEF RecordAborts, Processing, Wrote, Ebbs
  <2> QED
    BY <1>3, <2>1, EscapeEnds DEF RecordAborts
<1>4. ASSUME NEW w \in Workers, Killed(w) PROVE Ended(w)
  <2>1. Wrote(w)
    BY <1>4 DEF Killed, diskVars, Processing, Wrote
  <2>2. Ebbs
    <3>1. \/ UNCHANGED <<rows, routed, live>>
          \/ \E k \in Shards : PartWay(w, k)
      BY <1>4 DEF Killed, diskVars
    <3> QED
      BY <3>1, RebuildEbbs DEF Ebbs
  <2> QED
    BY <1>4, <2>1, <2>2, EscapeEnds DEF Killed
<1> QED
  BY <1>1, <1>2, <1>3, <1>4, RebuildKind, RecordKind, RecordFailsKind, SpotKind,
     FinishKind, ClaimKind DEF SystemNext, Kinds

-----------------------------------------------------------------------------
(* Groups and their requests *)

\* A group is never empty while its shard is still to do: so every rebuild has
\* somebody to erase.
GroupsHaveJobs == \A w \in Workers : \A k \in tx[w].todo : Group(w, k) # {}

Subject(j) == job[j].req.subject

\* Requests of existing rows never change, so neither do groups of held jobs.
LEMMA RequestsKept ==
  ASSUME SystemInv, [SystemNext]_sysVars
  PROVE  /\ TypeInv /\ TypeInv' /\ Created \subseteq Created'
         /\ \A j \in Created : Subject(j)' = Subject(j) /\ ShardOfJob(j)' = ShardOfJob(j)
<1>1. TypeInv /\ [QueueNext]_queueVars
  BY QueueStep DEF SystemInv
<1>2. Created \subseteq Created' /\ \A j \in Created : job'[j].req = job[j].req
  BY <1>1, RequestsStay DEF queueVars, Created
<1> QED
  BY <1>1, <1>2, TypeStep DEF Subject, ShardOfJob

LEMMA GroupsStep ==
  ASSUME SystemInv, GroupsHaveJobs, [SystemNext]_sysVars
  PROVE  GroupsHaveJobs'
<1> SUFFICES ASSUME NEW w \in Workers, NEW k \in tx'[w].todo PROVE Group(w, k)' # {}
  BY DEF GroupsHaveJobs
<1>t. held \in [Workers -> SUBSET JobIds]
  BY RequestsKept DEF TypeInv, QueueTypeOK
<1>1. CASE k \in tx[w].todo /\ held'[w] = held[w]
  <2>1. PICK j \in held[w] : ShardOfJob(j) = k
    BY <1>1 DEF GroupsHaveJobs, Group
  <2>2. j \in Created
    BY <2>1, RequestsKept DEF TypeInv, HeldCreated
  <2> QED
    BY <1>1, <2>1, <2>2, RequestsKept DEF Group
<1>2. ASSUME Claimed(w) PROVE Group(w, k)' # {}
  <2>1. PICK j \in Batch : ShardOfJob(j) = k
    BY <1>2 DEF Claimed
  <2>2. j \in Created
    BY <2>1, RequestsKept, ClaimableCreated DEF TypeInv
  <2>3. held'[w] = Batch
    BY <1>2, <1>t DEF Claimed
  <2> QED
    BY <2>1, <2>2, <2>3, RequestsKept DEF Group
<1>3. ASSUME NEW v \in Workers, v # w, Claimed(v) \/ GoesOn(v) \/ Ended(v)
      PROVE  tx'[w] = tx[w] /\ held'[w] = held[w]
  BY <1>3, <1>t DEF Claimed, GoesOn, Ended, Others
<1>4. ASSUME NEW v \in Workers, NEW m \in Shards, Rebuilt(v, m)
      PROVE  tx'[w].todo = tx[w].todo /\ held'[w] = held[w]
  BY <1>4 DEF Rebuilt, Others
<1>5. ASSUME GoesOn(w) PROVE k \in tx[w].todo /\ held'[w] = held[w]
  BY <1>5 DEF GoesOn
<1>6. ~Ended(w)
  BY NoTxFields DEF Ended
<1>7. Kinds
  BY StepKinds DEF SystemInv
<1> QED
  BY <1>1, <1>2, <1>3, <1>4, <1>5, <1>6, <1>7 DEF Kinds, Elsewhere

-----------------------------------------------------------------------------
(* Content-addressed files *)

\* Files and open promotions are named by at least what is left of their shard,
\* two open promotions never have the same name, and no file is there yet under
\* the name of an open one.  A rebuild shrinks its shard, so its digest is a new
\* name.
NamesAreFresh ==
  /\ \A f \in cas : InShard(f.shard) \cap rows \subseteq f.digest
  /\ \A w \in Workers : tx[w].phase = "book" =>
       /\ InShard(tx[w].shard) \cap rows \subseteq tx[w].digest
       /\ Named(tx[w].shard, tx[w].digest) = {}
       /\ \A v \in Workers \ {w} :
            tx[v].phase = "book" /\ tx[v].shard = tx[w].shard
              => tx[v].digest # tx[w].digest

\* What the writing of a file can do: one file more, of the open promotion.
LEMMA WroteFacts ==
  ASSUME NEW w \in Workers, Wrote(w)
  PROVE  /\ cas \subseteq cas'
         /\ \A f \in cas' \ cas :
              /\ tx[w].phase = "book"
              /\ f.shard = tx[w].shard /\ f.digest = tx[w].digest
              /\ f.content \subseteq live[tx[w].shard]
              /\ f.whole => f.content = live[tx[w].shard]
<1> DEFINE k == tx[w].shard
           digest == tx[w].digest
<1> DEFINE Begun(part) == [Copy(k, digest) EXCEPT !.content = part, !.whole = FALSE]
<1>1. \/ cas' = cas
      \/ tx[w].phase = "book" /\ cas' = cas \cup {Copy(k, digest)}
      \/ /\ tx[w].phase = "book"
         /\ \E part \in SUBSET live[k] : cas' = cas \cup {Begun(part)}
  BY DEF Wrote, Promoted, CutShort
<1>2. /\ Copy(k, digest).shard = k /\ Copy(k, digest).digest = digest
      /\ Copy(k, digest).content = live[k]
  BY DEF Copy
<1>3. ASSUME NEW part \in SUBSET live[k]
      PROVE  /\ Begun(part).shard = k /\ Begun(part).digest = digest
             /\ Begun(part).content = part /\ Begun(part).whole = FALSE
  BY DEF Copy
<1> HIDE DEF Begun
<1> QED
  BY <1>1, <1>2, <1>3

LEMMA FreshRebuild ==
  ASSUME SystemInv, GroupsHaveJobs, NamesAreFresh,
         NEW w \in Workers, NEW k \in Shards, Rebuilt(w, k)
  PROVE  NamesAreFresh'
<1>1. PICK j \in Group(w, k) : TRUE
  BY DEF GroupsHaveJobs, Rebuilt
<1> DEFINE s == job[j].req.subject
<1>2. s \in Refs(w, k) /\ s \in InShard(k) \cap rows
  <2>1. j \in Created
    BY <1>1 DEF SystemInv, TypeInv, HeldCreated, Group
  <2>2. s \in Subjects /\ ShardOf[s] = k
    BY <1>1, <2>1, RowShape DEF SystemInv, TypeInv, Request, Group, ShardOfJob
  <2> QED
    BY <1>1, <2>2 DEF Refs, Rebuilt, Accepts, InShard
<1>3. s \notin Retained(w, k) /\ InShard(k) \cap rows' \subseteq Retained(w, k)
  BY <1>2 DEF Retained, Rebuilt
<1>4. \A f \in cas : f.shard = k => f.digest # Retained(w, k)
  BY <1>2, <1>3 DEF NamesAreFresh
<1>5. \A v \in Workers : tx[v].phase = "book" /\ tx[v].shard = k
        => tx[v].digest # Retained(w, k)
  BY <1>2, <1>3 DEF NamesAreFresh
<1>6. /\ tx'[w].shard = k /\ tx'[w].digest = Retained(w, k)
      /\ tx[w].phase # "book" /\ cas' = cas /\ rows' \subseteq rows
      /\ \A v \in Workers \ {w} : tx'[v] = tx[v]
  BY DEF Rebuilt, Others
<1> HIDE DEF s
<1>7. \A f \in cas' : InShard(f.shard) \cap rows' \subseteq f.digest
  BY <1>6 DEF NamesAreFresh, InShard
<1>8. ASSUME NEW u \in Workers, tx'[u].phase = "book"
      PROVE  /\ InShard(tx'[u].shard) \cap rows' \subseteq tx'[u].digest
             /\ \A f \in cas : ~(f.shard = tx'[u].shard /\ f.digest = tx'[u].digest)
             /\ \A v \in Workers \ {u} :
                  tx'[v].phase = "book" /\ tx'[v].shard = tx'[u].shard
                    => tx'[v].digest # tx'[u].digest
  <2>1. CASE u = w
    BY <1>3, <1>4, <1>5, <1>6, <2>1
  <2>2. CASE u # w
    BY <1>5, <1>6, <1>8, <2>2 DEF NamesAreFresh, Named, InShard
  <2> QED
    BY <2>1, <2>2
<1> QED
  BY <1>6, <1>7, <1>8 DEF NamesAreFresh, Named, InShard

\* A promotion ends, or the step has nothing to do with one.
LEMMA FreshOther ==
  ASSUME NamesAreFresh, NEW w \in Workers, rows' \subseteq rows, Wrote(w), Others(w),
         tx'[w].phase # "book"
  PROVE  NamesAreFresh'
<1>1. \A f \in cas' \ cas : InShard(f.shard) \cap rows \subseteq f.digest
  BY WroteFacts DEF NamesAreFresh
<1>2. \A f \in cas' : InShard(f.shard) \cap rows' \subseteq f.digest
  BY <1>1 DEF NamesAreFresh
<1>3. ASSUME NEW u \in Workers, tx'[u].phase = "book"
      PROVE  /\ u # w /\ tx'[u] = tx[u]
             /\ \A f \in cas' : ~(f.shard = tx[u].shard /\ f.digest = tx[u].digest)
  <2>1. u # w /\ tx'[u] = tx[u]
    BY <1>3 DEF Others
  <2>2. \A f \in cas' \ cas : ~(f.shard = tx[u].shard /\ f.digest = tx[u].digest)
    BY <1>3, <2>1, WroteFacts DEF NamesAreFresh
  <2> QED
    BY <1>3, <2>1, <2>2 DEF NamesAreFresh, Named
<1> QED
  BY <1>2, <1>3 DEF NamesAreFresh, Named, InShard

LEMMA FreshStep ==
  ASSUME SystemInv, GroupsHaveJobs, NamesAreFresh, [SystemNext]_sysVars
  PROVE  NamesAreFresh'
<1>1. CASE Elsewhere
  BY <1>1 DEF Elsewhere, diskVars, NamesAreFresh, Named, InShard
<1>2. ASSUME NEW w \in Workers, Claimed(w) PROVE NamesAreFresh'
  BY <1>2, FreshOther DEF Claimed, diskVars, Wrote
<1>3. ASSUME NEW w \in Workers, GoesOn(w) \/ Ended(w) PROVE NamesAreFresh'
  BY <1>3, FreshOther, NoTxFields DEF GoesOn, Ended, Ebbs
<1> QED
  BY <1>1, <1>2, <1>3, FreshRebuild, StepKinds DEF SystemInv, Kinds

\* Every checkpoint a version names is a whole file under cas/.
HasFiles(C, v) ==
  \A k \in Shards : \E f \in C : f.shard = k /\ f.digest = v.cks[k] /\ f.whole

\* EveryShardServed is about the newest rows only; the rows a transaction has
\* inserted and not committed, and the older ones promotion may start from,
\* must have their files as well.
AllHaveFiles ==
  /\ \A v \in versions : HasFiles(cas, v)
  /\ \A w \in Workers : \A v \in tx[w].new : HasFiles(cas, v)

\* promote_artifact leaves a whole file under the digest's name.
LEMMA PromotedIsWhole ==
  ASSUME NamesAreFresh, NEW w \in Workers, tx[w].phase = "book",
         cas' = Promoted(tx[w].shard, tx[w].digest)
  PROVE  \E f \in cas' : f.shard = tx[w].shard /\ f.digest = tx[w].digest /\ f.whole
<1> DEFINE c == Copy(tx[w].shard, tx[w].digest)
<1>1. c.shard = tx[w].shard /\ c.digest = tx[w].digest /\ c.whole = TRUE
  BY DEF Copy
<1>2. c \in cas'
  BY DEF NamesAreFresh, Promoted
<1> QED
  BY <1>1, <1>2

\* A row is inserted with its files in place.
LEMMA PromotionHasFiles ==
  ASSUME SystemTypeOK, AllHaveFiles, NamesAreFresh, NEW w \in Workers,
         tx[w].phase = "book", cas' = Promoted(tx[w].shard, tx[w].digest),
         cas \subseteq cas', NEW base \in CarriedFrom(w)
  PROVE  \A v \in NewVersions(w, base) : HasFiles(cas', v)
<1>1. base \in Version /\ HasFiles(cas, base)
  BY TxFields DEF CarriedFrom, Newest, SystemTypeOK, AllHaveFiles
<1>2. tx[w].shard \in Shards
  BY TxFields DEF SystemTypeOK
<1>3. \A k \in Shards : Promotion(w, base).cks[k] =
        IF k = tx[w].shard THEN tx[w].digest ELSE base.cks[k]
  BY <1>1, <1>2 DEF Promotion, Version
<1> QED
  BY <1>1, <1>3, PromotedIsWhole DEF HasFiles, NewVersions

LEMMA FilesStep ==
  ASSUME SystemInv, NamesAreFresh, AllHaveFiles, [SystemNext]_sysVars
  PROVE  AllHaveFiles'
<1>t. SystemTypeOK
  BY DEF SystemInv
<1>1. CASE Elsewhere
  BY <1>1 DEF Elsewhere, diskVars, AllHaveFiles, HasFiles
<1>2. ASSUME NEW w \in Workers, cas \subseteq cas', Others(w),
             \A v \in versions' : v \in versions \cup tx[w].new,
             \A v \in tx'[w].new : v \in tx[w].new \/ HasFiles(cas', v)
      PROVE  AllHaveFiles'
  BY <1>2 DEF Others, AllHaveFiles, HasFiles
<1>3. ASSUME NEW w \in Workers, Claimed(w) PROVE AllHaveFiles'
  BY <1>2, <1>3 DEF Claimed, diskVars
<1>4. ASSUME NEW w \in Workers, NEW k \in Shards, Rebuilt(w, k) PROVE AllHaveFiles'
  BY <1>2, <1>4 DEF Rebuilt
<1>5. ASSUME NEW w \in Workers, GoesOn(w) PROVE AllHaveFiles'
  <2>1. cas \subseteq cas'
    BY <1>5, WroteFacts DEF GoesOn
  <2>2. \A v \in tx'[w].new : v \in tx[w].new \/ HasFiles(cas', v)
    BY <1>t, <1>5, <2>1, PromotionHasFiles DEF GoesOn, Promotes
  <2> QED
    BY <1>2, <1>5, <2>1, <2>2 DEF GoesOn
<1>6. ASSUME NEW w \in Workers, Ended(w) PROVE AllHaveFiles'
  <2>1. cas \subseteq cas'
    BY <1>6, WroteFacts DEF Ended
  <2> QED
    BY <1>2, <1>6, <2>1, NoTxFields DEF Ended
<1> QED
  BY <1>t, <1>1, <1>3, <1>4, <1>5, <1>6, StepKinds DEF Kinds

PromotionInv == SystemInv /\ GroupsHaveJobs /\ NamesAreFresh /\ AllHaveFiles

LEMMA PromotionInit == SystemInit => PromotionInv
<1> SUFFICES ASSUME SystemInit PROVE PromotionInv
  OBVIOUS
<1> DEFINE First(k) == [shard |-> k, digest |-> InShard(k), content |-> InShard(k),
                        whole |-> TRUE]
<1>1. \A w \in Workers : tx[w].todo = {} /\ tx[w].phase = "rebuild" /\ tx[w].new = {}
  BY NoTxFields DEF SystemInit
<1>2. cas = {First(k) : k \in Shards}
  BY DEF SystemInit
<1>3. \A k \in Shards : /\ First(k).shard = k /\ First(k).digest = InShard(k)
                        /\ First(k).whole = TRUE
  OBVIOUS
<1> HIDE DEF First
<1>4. NamesAreFresh
  BY <1>1, <1>2, <1>3 DEF NamesAreFresh
<1>5. HasFiles(cas, Baseline)
  <2>1. \A k \in Shards : Baseline.cks[k] = InShard(k)
    BY DEF Baseline
  <2> QED
    BY <1>2, <1>3, <2>1 DEF HasFiles
<1>6. AllHaveFiles /\ GroupsHaveJobs
  BY <1>1, <1>5 DEF SystemInit, AllHaveFiles, GroupsHaveJobs
<1> QED
  BY <1>4, <1>6, SystemTypeInit DEF PromotionInv

LEMMA PromotionStep == PromotionInv /\ [SystemNext]_sysVars => PromotionInv'
BY SystemTypeStep, GroupsStep, FreshStep, FilesStep DEF PromotionInv

\* Every newest version has a whole model file for every shard, for any number
\* of workers and whatever fails: promote_artifact runs before the row is
\* inserted, nothing removes a content-addressed file, and a file cut short
\* bears a digest that no later rebuild can produce.
THEOREM EveryShardIsServed == SystemSpec => []EveryShardServed
<1>1. PromotionInv => EveryShardServed
  BY DEF PromotionInv, AllHaveFiles, HasFiles, EveryShardServed, Newest, Named
<1> QED
  BY <1>1, PromotionInit, PromotionStep, PTL DEF SystemSpec

\* At most one worker process.
OneWorker == \A v, w \in Workers : v = w

\* Between rebuild and promotion the live file is the one the digest is of.
\* A second worker on the same shard would break this.
LiveIsDigest ==
  \A w \in Workers : tx[w].phase = "book" => live[tx[w].shard] = tx[w].digest

\* A file that was cut short holds part of what its name is the digest of.
CopiesFit == NamedByContent /\ \A f \in cas : f.content \subseteq f.digest

LEMMA DigestStep ==
  ASSUME OneWorker, SystemTypeOK, LiveIsDigest, CopiesFit, [SystemNext]_sysVars
  PROVE  LiveIsDigest' /\ CopiesFit'
<1>1. CASE Elsewhere
  BY <1>1 DEF Elsewhere, diskVars, LiveIsDigest, CopiesFit, NamedByContent
<1>2. ASSUME NEW w \in Workers, tx'[w].phase # "book", Wrote(w)
      PROVE  LiveIsDigest' /\ CopiesFit'
  <2>1. LiveIsDigest'
    BY <1>2 DEF OneWorker, LiveIsDigest
  <2>2. ASSUME NEW f \in cas', f \notin cas
        PROVE  f.content \subseteq f.digest /\ (f.whole => f.content = f.digest)
    BY <1>2, <2>2, WroteFacts DEF LiveIsDigest
  <2> QED
    BY <2>1, <2>2 DEF CopiesFit, NamedByContent
<1>3. ASSUME NEW w \in Workers, NEW k \in Shards, Rebuilt(w, k)
      PROVE  LiveIsDigest' /\ CopiesFit'
  <2>1. live'[k] = Retained(w, k)
    BY <1>3 DEF Rebuilt, SystemTypeOK
  <2> QED
    BY <1>3, <2>1 DEF Rebuilt, OneWorker, LiveIsDigest, CopiesFit, NamedByContent
<1>4. ASSUME NEW w \in Workers, Claimed(w) \/ GoesOn(w) \/ Ended(w)
      PROVE  tx'[w].phase # "book" /\ Wrote(w)
  BY <1>4, NoTxFields DEF Claimed, diskVars, GoesOn, Ended, Wrote
<1> QED
  BY <1>1, <1>2, <1>3, <1>4, StepKinds DEF Kinds

\* With one worker, a content-addressed file that was copied whole holds the model
\* its name is the digest of, however many crashes and failed bookkeepings: the
\* copy is made from the mutable path before any other rebuild can overwrite it.
THEOREM FilesAreNamedByContent ==
  ASSUME OneWorker
  PROVE  SystemSpec => []NamedByContent
<1> DEFINE I == SystemInv /\ LiveIsDigest /\ CopiesFit
<1>1. SystemInit => I
  <2>1. SystemInit => LiveIsDigest
    BY DEF SystemInit, LiveIsDigest, NoTx
  <2>2. SystemInit => CopiesFit
    BY DEF SystemInit, CopiesFit, NamedByContent
  <2> QED
    BY <2>1, <2>2, SystemTypeInit
<1>2. I /\ [SystemNext]_sysVars => I'
  BY DigestStep, SystemTypeStep DEF SystemInv
<1>3. I => NamedByContent
  BY DEF CopiesFit
<1> QED
  BY <1>1, <1>2, <1>3, PTL DEF SystemSpec

-----------------------------------------------------------------------------
(* One certificate for every subject *)

\* The jobs of w whose group was rebuilt and not given up.
Booked(w) == {j \in held[w] : ShardOfJob(j) \in tx[w].ok \cup Booking(w)}

Certifying == manifests \cup UNION {Booked(w) : w \in Workers}

\* Nothing is left of the subject of j: no rows, no routing entry, and a live
\* model that was not trained on it.
Gone(j) ==
  Subject(j) \notin rows /\ Subject(j) \notin routed /\ Subject(j) \notin live[ShardOfJob(j)]

\* A subject with a certificate, or on its way to one, is gone, so no rebuild
\* accepts it again.
CertifiedIsGone ==
  /\ manifests \subseteq Created
  /\ \A j \in Certifying : Gone(j)
  /\ \A i, j \in Certifying : Subject(i) = Subject(j) => i = j

LEMMA ShardsOfJobs ==
  ASSUME TypeInv
  PROVE  \A j \in Created : ShardOfJob(j) \in Shards
<1>1. \A j \in Created : job[j].req.subject \in Subjects
  BY RowShape DEF TypeInv, Request
<1> QED
  BY <1>1, QueueShards DEF ShardOfJob

LEMMA CertifyingCreated ==
  ASSUME TypeInv, CertifiedIsGone
  PROVE  Certifying \subseteq Created
BY DEF Certifying, Booked, TypeInv, HeldCreated, CertifiedIsGone

\* Nobody new is certified.
LEMMA NoneCertified ==
  ASSUME SystemInv, CertifiedIsGone, [SystemNext]_sysVars,
         Ebbs, manifests' \subseteq Certifying,
         Certifying' \subseteq Certifying
  PROVE  CertifiedIsGone'
<1>1. Certifying \subseteq Created
  BY RequestsKept, CertifyingCreated
<1>2. \A j \in Certifying : Subject(j)' = Subject(j) /\ ShardOfJob(j)' = ShardOfJob(j)
  BY <1>1, RequestsKept
<1>3. manifests' \subseteq Created'
  BY <1>1, RequestsKept
<1>4. \A j \in Created : ShardOfJob(j) \in Shards
  BY RequestsKept, ShardsOfJobs
<1>5. \A j \in Certifying : Gone(j)'
  BY <1>1, <1>2, <1>4 DEF CertifiedIsGone, Gone, Ebbs
<1> QED
  BY <1>2, <1>3, <1>5 DEF CertifiedIsGone

\* The group of an accepted rebuild is.
LEMMA GroupCertified ==
  ASSUME SystemInv, CertifiedIsGone, [SystemNext]_sysVars,
         NEW w \in Workers, NEW k \in Shards, Rebuilt(w, k)
  PROVE  CertifiedIsGone'
<1>0. /\ Certifying \subseteq Created /\ Group(w, k) \subseteq Created
      /\ manifests' = manifests /\ held' = held
  BY RequestsKept, CertifyingCreated DEF Rebuilt, Group, TypeInv, HeldCreated
<1>1. \A j \in Certifying \cup Group(w, k) :
        Subject(j)' = Subject(j) /\ ShardOfJob(j)' = ShardOfJob(j)
  BY <1>0, RequestsKept
<1>2. Certifying' \subseteq Certifying \cup Group(w, k)
  <2>1. \A v \in Workers : \A j \in held[v] : ShardOfJob(j)' = ShardOfJob(j)
    BY RequestsKept DEF TypeInv, HeldCreated
  <2>2. Booked(w)' \subseteq Booked(w) \cup Group(w, k)
    BY <1>0, <2>1 DEF Rebuilt, Booked, Booking, Group
  <2>3. \A v \in Workers \ {w} : Booked(v)' \subseteq Booked(v)
    BY <1>0, <2>1 DEF Rebuilt, Others, Booked, Booking
  <2> QED
    BY <1>0, <2>2, <2>3 DEF Certifying
<1>3. \A j \in Group(w, k) : Subject(j) \in Refs(w, k)
  BY DEF Refs, Subject
<1>4. \A i, j \in Group(w, k) : Subject(i) = Subject(j) => i = j
  BY DEF Rebuilt, Accepts, ListedTwice, Subject
<1>5. Refs(w, k) \subseteq rows /\ rows' = rows \ Refs(w, k)
      /\ routed' = routed \ Refs(w, k)
  BY DEF Rebuilt, Accepts, RoutedAfter
<1>6. live'[k] = Retained(w, k) /\ \A m \in Shards \ {k} : live'[m] = live[m]
  BY DEF Rebuilt, SystemInv, SystemTypeOK
<1>7. \A j \in Created : ShardOfJob(j) \in Shards
  BY RequestsKept, ShardsOfJobs
<1>8. \A j \in Group(w, k) : Gone(j)'
  <2>1. \A j \in Group(w, k) : ShardOfJob(j) = k
    BY DEF Group
  <2> QED
    BY <1>1, <1>3, <1>5, <1>6, <2>1 DEF Gone, Retained
<1>9. \A j \in Certifying : Gone(j)'
  BY <1>0, <1>1, <1>5, <1>6, <1>7 DEF CertifiedIsGone, Gone, Retained
<1>10. \A i \in Certifying, j \in Group(w, k) : Subject(i) # Subject(j)
  BY <1>3, <1>5 DEF CertifiedIsGone, Gone
<1> QED
  BY <1>0, <1>1, <1>2, <1>4, <1>8, <1>9, <1>10, RequestsKept DEF CertifiedIsGone

LEMMA CertifiedStep ==
  ASSUME SystemInv, CertifiedIsGone, [SystemNext]_sysVars
  PROVE  CertifiedIsGone'
<1>h. /\ held \in [Workers -> SUBSET JobIds]
      /\ \A v \in Workers : \A j \in held[v] : ShardOfJob(j)' = ShardOfJob(j)
  BY RequestsKept DEF TypeInv, HeldCreated, QueueTypeOK
<1>1. CASE Elsewhere
  <2>1. \A v \in Workers : Booked(v)' \subseteq Booked(v)
    BY <1>h, <1>1 DEF Elsewhere, Booked, Booking
  <2>2. Certifying' \subseteq Certifying /\ manifests' \subseteq Certifying
    BY <1>1, <2>1 DEF Elsewhere, Certifying
  <2>3. Ebbs
    BY <1>1 DEF Elsewhere, diskVars, Ebbs
  <2> QED
    BY <2>2, <2>3, NoneCertified
<1>2. ASSUME NEW w \in Workers, Ebbs, Others(w),
             \A v \in Workers \ {w} : held'[v] = held[v],
             Booked(w)' \subseteq Booked(w), manifests' \subseteq manifests \cup Booked(w)
      PROVE  CertifiedIsGone'
  <2>1. \A v \in Workers \ {w} : Booked(v)' \subseteq Booked(v)
    BY <1>h, <1>2 DEF Others, Booked, Booking
  <2>2. Certifying' \subseteq Certifying /\ manifests' \subseteq Certifying
    BY <1>2, <2>1 DEF Certifying
  <2> QED
    BY <1>2, <2>2, NoneCertified
<1>3. ASSUME NEW w \in Workers, Claimed(w) PROVE CertifiedIsGone'
  <2>1. Booked(w)' = {} /\ Ebbs
    BY <1>3 DEF Claimed, Booked, Booking, diskVars, Ebbs
  <2> QED
    BY <1>h, <1>2, <1>3, <2>1 DEF Claimed
<1>4. ASSUME NEW w \in Workers, GoesOn(w) PROVE CertifiedIsGone'
  <2>1. Booked(w)' \subseteq Booked(w) /\ Ebbs
    BY <1>h, <1>4 DEF GoesOn, Promotes, Booked, Booking, Ebbs
  <2> QED
    BY <1>2, <1>4, <2>1 DEF GoesOn
<1>5. ASSUME NEW w \in Workers, Ended(w) PROVE CertifiedIsGone'
  <2>1. held'[w] = {} /\ \A v \in Workers \ {w} : held'[v] = held[v]
    BY <1>h, <1>5 DEF Ended
  <2>2. Booked(w)' = {}
    BY <2>1 DEF Booked
  <2>3. DoneBy(w, tx[w].ok) \subseteq Booked(w)
    BY DEF DoneBy, Booked
  <2> QED
    BY <1>2, <1>5, <2>1, <2>2, <2>3 DEF Ended
<1> QED
  BY <1>1, <1>3, <1>4, <1>5, GroupCertified, StepKinds DEF SystemInv, Kinds

LEMMA CertifiedInvariant == SystemSpec => [](SystemInv /\ CertifiedIsGone)
<1>1. SystemInit => SystemInv /\ CertifiedIsGone
  <2>1. SystemInit => manifests = {} /\ Certifying = {}
    BY DEF SystemInit, QueueInit, Certifying, Booked
  <2> QED
    BY <2>1, SystemTypeInit DEF CertifiedIsGone
<1>2. SystemInv /\ CertifiedIsGone /\ [SystemNext]_sysVars => (SystemInv /\ CertifiedIsGone)'
  BY CertifiedStep, SystemTypeStep
<1> QED
  BY <1>1, <1>2, PTL DEF SystemSpec

\* No subject is ever certified twice, for any number of workers whose rebuilds
\* do not overlap, duplicate requests, retries and crashes: the newest manifest of a subject, which attest
\* returns, is its only one.
THEOREM CertificateIsUnique == SystemSpec => []OneCertificate
<1>1. CertifiedIsGone => OneCertificate
  BY DEF CertifiedIsGone, OneCertificate, Certifying, Subject
<1> QED
  BY <1>1, CertifiedInvariant, PTL

\* A job is done only when nothing of its subject is left in the shard file, the
\* routing table and the shard's live model, for any number of workers whose
\* rebuilds do not overlap, batches, kills, I/O errors and failing statements.
THEOREM DoneJobsAreErased == SystemSpec => []DoneIsErased
<1>1. SystemInv /\ CertifiedIsGone /\ DoneHasManifest => DoneIsErased
  BY DEF CertifiedIsGone, DoneHasManifest, DoneIsErased, Certifying, Gone, Subject, ShardOfJob
<1>2. SystemSpec => []DoneHasManifest
  BY SystemKeepsQueue, DoneJobsAreCertified, PTL DEF KeepsQueue
<1> QED
  BY <1>1, <1>2, CertifiedInvariant, PTL

-----------------------------------------------------------------------------
(***************************************************************************)
(* Promotion carries every erasure forward: with one worker, and as long   *)
(* as no two versions share their promoted_at, no model that predict may   *)
(* load was trained on the subject of a done job, for any subjects,        *)
(* shards, jobs and batch size, any kills, I/O errors and failing          *)
(* statements.                                                             *)
(***************************************************************************)
\* The rows w's transaction sees: the committed ones and its own.
Seen(w) == versions \cup tx[w].new

Untied(V) == \A u, v \in V : u.at = v.at => u = v

-----------------------------------------------------------------------------
(* The inductive invariant *)

\* now() is later in every transaction than in those committed before it began,
\* and does not move within one.
TimesAgree ==
  /\ \A v \in versions : v.at <= clock
  /\ \A w \in Workers :
       /\ tx[w].start <= clock
       /\ tx[w].start = 0 => tx[w].new = {}
       /\ tx[w].start # 0 => /\ \A v \in versions : v.at < tx[w].start
                             /\ \A v \in tx[w].new : v.at = tx[w].start

\* A version's checkpoints are of subjects of their shards, and its name is
\* that of a file which is there.
WellNamed(C, v) ==
  /\ \A k \in Shards : v.cks[k] \subseteq InShard(k)
  /\ \A d \in v.name : \E f \in C : f.digest = d /\ d # {} /\ d \subseteq InShard(f.shard)

VersionsWellNamed ==
  /\ \A v \in versions : WellNamed(cas, v)
  /\ \A w \in Workers :
    /\ \A v \in tx[w].new : WellNamed(cas, v)
    /\ tx[w].phase = "book" =>
         tx[w].digest # {} /\ tx[w].digest \subseteq InShard(tx[w].shard)

\* No newest row of V names a checkpoint that knows the subject of a job of J.
Carries(V, J) ==
  Untied(V) => \A v \in Newest(V), j \in J : Subject(j) \notin v.cks[ShardOfJob(j)]

\* The jobs that are certified once w commits.
CertifiedBy(w) == manifests \cup DoneBy(w, tx[w].ok)

ErasuresCarried ==
  /\ Carries(versions, manifests)
  /\ \A w \in Workers : Carries(Seen(w), CertifiedBy(w))

ServedInv ==
  /\ PromotionInv /\ CertifiedIsGone /\ LiveIsDigest /\ CopiesFit
  /\ TimesAgree /\ VersionsWellNamed /\ ErasuresCarried

LEMMA ServedInit == SystemInit => ServedInv
<1> SUFFICES ASSUME SystemInit PROVE ServedInv
  OBVIOUS
<1>1. \A w \in Workers : tx[w] = NoTx
  BY DEF SystemInit
<1>2. versions = {Baseline} /\ manifests = {} /\ clock = 0
        /\ held = [w \in Workers |-> {}]
  BY DEF SystemInit, QueueInit
<1>3. /\ Baseline.at = 0 /\ Baseline.name = {}
      /\ \A k \in Shards : Baseline.cks[k] = InShard(k)
  BY DEF Baseline
<1>4. Certifying = {} /\ \A w \in Workers : CertifiedBy(w) = {}
  BY <1>2 DEF Certifying, Booked, CertifiedBy, DoneBy
<1>5. CertifiedIsGone /\ LiveIsDigest /\ CopiesFit
  <2>1. CopiesFit
    BY DEF SystemInit, CopiesFit, NamedByContent
  <2> QED
    BY <1>1, <1>2, <1>4, <2>1, NoTxFields DEF CertifiedIsGone, LiveIsDigest
<1>6. TimesAgree /\ VersionsWellNamed
  BY <1>1, <1>2, <1>3, NoTxFields DEF TimesAgree, VersionsWellNamed, WellNamed
<1>7. ErasuresCarried
  BY <1>2, <1>4 DEF ErasuresCarried, Carries
<1> QED
  BY <1>5, <1>6, <1>7, PromotionInit DEF ServedInv

-----------------------------------------------------------------------------
(* Times *)

LEMMA StartTimeFacts ==
  ASSUME SystemTypeOK, TimesAgree, NEW w \in Workers, Timed(w)
  PROVE  /\ StartTime(w) \in Nat /\ StartTime(w) # 0
         /\ clock \in Nat /\ clock' \in Nat /\ clock <= clock' /\ StartTime(w) <= clock'
         /\ \A v \in versions : v.at < StartTime(w)
         /\ \A v \in tx[w].new : v.at = StartTime(w)
<1>1. clock \in Nat /\ tx[w].start \in Nat
  BY TxFields DEF SystemTypeOK
<1>2. \A v \in versions : v.at \in Nat
  BY DEF SystemTypeOK, Version
<1>3. CASE tx[w].start = 0
  BY <1>1, <1>2, <1>3 DEF TimesAgree, Timed, StartTime
<1>4. CASE tx[w].start # 0
  BY <1>1, <1>2, <1>4 DEF TimesAgree, Timed, StartTime
<1> QED
  BY <1>3, <1>4

\* The row _promote makes.
LEMMA PromotionFields ==
  ASSUME SystemTypeOK, NEW w \in Workers, NEW base \in CarriedFrom(w)
  PROVE  LET p == Promotion(w, base)
         IN  /\ p.name = {tx[w].digest} /\ p.at = StartTime(w)
             /\ \A k \in Shards :
                  p.cks[k] = IF k = tx[w].shard THEN tx[w].digest ELSE base.cks[k]
<1>1. base \in Version /\ tx[w].shard \in Shards
  BY TxFields DEF CarriedFrom, Newest, SystemTypeOK
<1> QED
  BY <1>1 DEF Promotion, Version

LEMMA InsertedAt ==
  ASSUME SystemTypeOK, NEW w \in Workers, Promotes(w)
  PROVE  \A v \in tx'[w].new : v \in tx[w].new \/ v.at = StartTime(w)
BY PromotionFields DEF Promotes, NewVersions

LEMMA TimesStep ==
  ASSUME OneWorker, SystemTypeOK, TimesAgree, Kinds
  PROVE  TimesAgree'
<1>t. /\ clock \in Nat /\ \A w \in Workers : tx[w].start \in Nat
      /\ \A v \in versions : v.at \in Nat
      /\ \A w \in Workers : \A v \in tx[w].new : v.at \in Nat
  BY TxFields DEF SystemTypeOK, Version
<1>1. CASE Elsewhere
  BY <1>1 DEF Elsewhere, TimesAgree
<1>2. ASSUME NEW w \in Workers, Claimed(w) PROVE TimesAgree'
  BY <1>t, <1>2 DEF Claimed, OneWorker, TimesAgree
<1>3. ASSUME NEW w \in Workers, NEW k \in Shards, Rebuilt(w, k) PROVE TimesAgree'
  BY <1>3 DEF Rebuilt, SameTime, OneWorker, TimesAgree
<1>4. ASSUME NEW w \in Workers, GoesOn(w) PROVE TimesAgree'
  <2>1. CASE SameTime(w) /\ tx'[w].new = tx[w].new
    BY <1>4, <2>1 DEF GoesOn, SameTime, OneWorker, TimesAgree
  <2>2. CASE Timed(w)
    <3>1. tx'[w].start = StartTime(w) /\ versions' = versions
      BY <1>4, <2>2 DEF GoesOn, Timed
    <3>2. \A v \in tx'[w].new : v.at = StartTime(w)
      BY <1>4, <2>2, StartTimeFacts, InsertedAt DEF GoesOn
    <3>3. \A v \in versions : v.at <= clock'
      BY <1>t, <2>2, StartTimeFacts
    <3> QED
      BY <2>2, <3>1, <3>2, <3>3, StartTimeFacts DEF OneWorker, TimesAgree
  <2> QED
    BY <1>4, <2>1, <2>2 DEF GoesOn
<1>5. ASSUME NEW w \in Workers, Ended(w) PROVE TimesAgree'
  <2>1. \A v \in versions' : v.at <= clock
    BY <1>t, <1>5 DEF Ended, TimesAgree
  <2>2. tx'[w].start = 0 /\ tx'[w].new = {} /\ clock' = clock
    BY <1>5, NoTxFields DEF Ended
  <2> QED
    BY <1>t, <2>1, <2>2 DEF OneWorker, TimesAgree
<1> QED
  BY <1>1, <1>2, <1>3, <1>4, <1>5 DEF Kinds

-----------------------------------------------------------------------------
(* Names *)

LEMMA WellNamedStep ==
  ASSUME SystemTypeOK, NamesAreFresh, VersionsWellNamed, Kinds
  PROVE  VersionsWellNamed'
<1>0. ASSUME NEW C, NEW D, NEW v, C \subseteq D, WellNamed(C, v)
      PROVE  WellNamed(D, v)
  BY <1>0 DEF WellNamed
<1>1. CASE Elsewhere
  BY <1>1 DEF Elsewhere, diskVars, VersionsWellNamed
<1>2. ASSUME NEW w \in Workers, cas \subseteq cas', Others(w),
             \A v \in versions' : v \in versions \cup tx[w].new,
             \A v \in tx'[w].new : v \in tx[w].new \/ WellNamed(cas', v),
             tx'[w].phase = "book" =>
               tx'[w].digest # {} /\ tx'[w].digest \subseteq InShard(tx'[w].shard)
      PROVE  VersionsWellNamed'
  <2>1. \A v \in versions' : WellNamed(cas', v)
    BY <1>0, <1>2 DEF VersionsWellNamed
  <2>2. \A u \in Workers : \A v \in tx'[u].new : WellNamed(cas', v)
    BY <1>0, <1>2 DEF Others, VersionsWellNamed
  <2>3. \A u \in Workers : tx'[u].phase = "book" =>
          tx'[u].digest # {} /\ tx'[u].digest \subseteq InShard(tx'[u].shard)
    BY <1>2 DEF Others, VersionsWellNamed
  <2> QED
    BY <2>1, <2>2, <2>3 DEF VersionsWellNamed
<1>3. ASSUME NEW w \in Workers, Claimed(w) PROVE VersionsWellNamed'
  BY <1>2, <1>3 DEF Claimed, diskVars
<1>4. ASSUME NEW w \in Workers, NEW k \in Shards, Rebuilt(w, k)
      PROVE  VersionsWellNamed'
  <2>1. Retained(w, k) # {} /\ Retained(w, k) \subseteq InShard(k)
    BY <1>4 DEF Rebuilt, Retained
  <2> QED
    BY <1>2, <1>4, <2>1 DEF Rebuilt
<1>5. ASSUME NEW w \in Workers, GoesOn(w) PROVE VersionsWellNamed'
  <2>1. cas \subseteq cas'
    BY <1>5, WroteFacts DEF GoesOn
  <2>2. ASSUME Promotes(w), NEW base \in CarriedFrom(w), NEW v \in NewVersions(w, base)
        PROVE  WellNamed(cas', v)
    <3>1. WellNamed(cas, base)
      BY DEF CarriedFrom, Newest, VersionsWellNamed
    <3>2. v = Promotion(w, base)
      BY DEF NewVersions
    <3>3. \E f \in cas' : f.shard = tx[w].shard /\ f.digest = tx[w].digest
      BY <2>2, PromotedIsWhole DEF Promotes
    <3> QED
      BY <2>2, <3>1, <3>2, <3>3, PromotionFields
         DEF Promotes, WellNamed, VersionsWellNamed
  <2>3. \A v \in tx'[w].new : v \in tx[w].new \/ WellNamed(cas', v)
    BY <1>5, <2>2 DEF GoesOn, Promotes
  <2> QED
    BY <1>2, <1>5, <2>1, <2>3 DEF GoesOn
<1>6. ASSUME NEW w \in Workers, Ended(w) PROVE VersionsWellNamed'
  <2>1. cas \subseteq cas'
    BY <1>6, WroteFacts DEF Ended
  <2> QED
    BY <1>2, <1>6, <2>1, NoTxFields DEF Ended
<1> QED
  BY <1>1, <1>3, <1>4, <1>5, <1>6 DEF Kinds

\* No row the transaction sees has the name of an open promotion, so ON CONFLICT
\* never swallows one.
LEMMA PromotionIsInserted ==
  ASSUME NamesAreFresh, VersionsWellNamed,
         NEW w \in Workers, tx[w].phase = "book", NEW base \in CarriedFrom(w)
  PROVE  /\ NewVersions(w, base) = {Promotion(w, base)}
         /\ \A v \in Seen(w) : v.name # {tx[w].digest}
<1>1. ASSUME NEW v \in Seen(w), v.name = {tx[w].digest} PROVE FALSE
  <2>1. PICK f \in cas : /\ f.digest = tx[w].digest
                         /\ f.digest # {} /\ f.digest \subseteq InShard(f.shard)
    BY <1>1 DEF Seen, VersionsWellNamed, WellNamed
  <2>2. tx[w].digest \subseteq InShard(tx[w].shard)
    BY DEF VersionsWellNamed
  <2>3. f.shard = tx[w].shard
    BY <2>1, <2>2 DEF InShard
  <2> QED
    BY <2>1, <2>3 DEF NamesAreFresh, Named
<1> QED
  BY <1>1 DEF NewVersions, Seen

-----------------------------------------------------------------------------
(* Erasures are carried forward *)

\* Carries, with the requests as they are after the step.
CarriesAfter(V, J) ==
  Untied(V) =>
    \A v \in Newest(V), j \in J : Subject(j)' \notin v.cks[ShardOfJob(j)']

\* Requests stay, so what is carried stays carried.
LEMMA CarriedOn ==
  ASSUME SystemInv, [SystemNext]_sysVars,
         NEW V, NEW J \in SUBSET Created, Carries(V, J)
  PROVE  CarriesAfter(V, J)
<1>1. \A j \in J : Subject(j)' = Subject(j) /\ ShardOfJob(j)' = ShardOfJob(j)
  BY RequestsKept
<1> QED
  BY <1>1 DEF Carries, CarriesAfter

LEMMA CertifiedByFacts ==
  ASSUME ServedInv
  PROVE  /\ Certifying \subseteq Created /\ manifests \subseteq Certifying
         /\ \A w \in Workers : CertifiedBy(w) \subseteq Certifying
<1>1. Certifying \subseteq Created
  BY CertifyingCreated DEF ServedInv, PromotionInv, SystemInv
<1> QED
  BY <1>1 DEF Certifying, Booked, CertifiedBy, DoneBy

\* A promotion takes the rebuilt shard from the digest and all others from the
\* row before it.
LEMMA PromotionCarries ==
  ASSUME ServedInv, NEW w \in Workers, tx[w].phase = "book", Timed(w),
         NEW base \in CarriedFrom(w), NEW J \in SUBSET Certifying,
         \A j \in J : j \in CertifiedBy(w) \/ ShardOfJob(j) = tx[w].shard
  PROVE  Carries(Seen(w) \cup NewVersions(w, base), J)
<1> DEFINE p == Promotion(w, base)
           V == Seen(w) \cup NewVersions(w, base)
<1>t. SystemTypeOK /\ TimesAgree
  BY DEF ServedInv, PromotionInv, SystemInv
<1>1. NewVersions(w, base) = {p} /\ p \notin Seen(w)
  BY <1>t, PromotionIsInserted, PromotionFields DEF ServedInv, PromotionInv
<1>2. p.at = StartTime(w)
  BY <1>t, PromotionFields
<1>3. base \in Newest(Seen(w))
  BY DEF CarriedFrom, Seen
<1>4. CASE tx[w].new # {}
  <2>1. PICK u \in tx[w].new : u.at = p.at
    BY <1>t, <1>2, <1>4, StartTimeFacts
  <2>2. u \in V /\ p \in V /\ u # p
    BY <1>1, <2>1 DEF Seen
  <2> QED
    BY <2>1, <2>2 DEF Untied, Carries
<1>5. CASE tx[w].new = {}
  <2>1. Seen(w) = versions
    BY <1>5 DEF Seen
  <2>2. \A v \in versions : v.at < p.at /\ v.at \in Nat /\ p.at \in Nat
    BY <1>t, <1>2, StartTimeFacts DEF SystemTypeOK, Version
  <2>3. Newest(V) \subseteq {p}
    BY <1>1, <2>1, <2>2 DEF Newest
  <2>4. ASSUME Untied(V), NEW j \in J PROVE Subject(j) \notin p.cks[ShardOfJob(j)]
    <3>1. ShardOfJob(j) \in Shards
      BY CertifiedByFacts, ShardsOfJobs DEF ServedInv, PromotionInv, SystemInv
    <3>2. CASE ShardOfJob(j) = tx[w].shard
      <4>1. Subject(j) \notin live[ShardOfJob(j)]
        BY DEF ServedInv, CertifiedIsGone, Gone
      <4>2. live[tx[w].shard] = tx[w].digest
        BY DEF ServedInv, LiveIsDigest
      <4> QED
        BY <1>t, <3>1, <3>2, <4>1, <4>2, PromotionFields
    <3>3. CASE ShardOfJob(j) # tx[w].shard
      <4>1. Untied(Seen(w))
        BY <2>4 DEF Untied
      <4>2. Subject(j) \notin base.cks[ShardOfJob(j)]
        BY <1>3, <3>3, <4>1 DEF ServedInv, ErasuresCarried, Carries
      <4> QED
        BY <1>t, <3>1, <3>3, <4>2, PromotionFields
    <3> QED
      BY <3>2, <3>3
  <2> QED
    BY <2>3, <2>4 DEF Carries
<1> QED
  BY <1>4, <1>5

LEMMA CarriedStep ==
  ASSUME OneWorker, ServedInv, [SystemNext]_sysVars
  PROVE  ErasuresCarried'
<1>t. SystemInv /\ SystemTypeOK /\ held \in [Workers -> SUBSET JobIds]
  BY RequestsKept DEF ServedInv, PromotionInv, SystemInv, TypeInv, QueueTypeOK
<1>c. /\ manifests \subseteq Created
      /\ \A w \in Workers : CertifiedBy(w) \subseteq Created /\ manifests \subseteq CertifiedBy(w)
  BY CertifiedByFacts DEF CertifiedBy
<1>s. \A w \in Workers : \A j \in held[w] : ShardOfJob(j)' = ShardOfJob(j)
  BY <1>t, RequestsKept DEF TypeInv, HeldCreated
<1>0. /\ CarriesAfter(versions, manifests)
      /\ \A w \in Workers : CarriesAfter(Seen(w), CertifiedBy(w))
  BY <1>t, <1>c, CarriedOn DEF ServedInv, ErasuresCarried
<1>g. ASSUME CarriesAfter(versions', manifests'),
             \A w \in Workers : CarriesAfter(Seen(w)', CertifiedBy(w)')
      PROVE  ErasuresCarried'
  BY <1>g DEF ErasuresCarried, Carries, CarriesAfter
<1>m. ASSUME NEW V, NEW J, NEW K, K \subseteq J, CarriesAfter(V, J)
      PROVE  CarriesAfter(V, K)
  BY <1>m DEF CarriesAfter
<1>1. CASE Elsewhere
  <2>1. \A w \in Workers : Seen(w)' = Seen(w) /\ CertifiedBy(w)' = CertifiedBy(w)
    BY <1>1, <1>s DEF Elsewhere, Seen, CertifiedBy, DoneBy
  <2> QED
    BY <1>0, <1>1, <1>g, <2>1 DEF Elsewhere
<1>2. ASSUME NEW w \in Workers, Claimed(w) \/ Ended(w) PROVE ErasuresCarried'
  <2>1. tx'[w].new = {} /\ tx'[w].ok = {}
    BY <1>2, NoTxFields DEF Claimed, Ended
  <2>2. \A v \in Workers : Seen(v)' = versions' /\ CertifiedBy(v)' = manifests'
    BY <2>1 DEF OneWorker, Seen, CertifiedBy, DoneBy
  <2>3. \/ versions' = versions /\ manifests' = manifests
        \/ versions' = Seen(w) /\ manifests' = CertifiedBy(w)
    BY <1>2 DEF Claimed, Ended, Seen, CertifiedBy
  <2>4. CarriesAfter(versions', manifests')
    BY <1>0, <2>3
  <2> QED
    BY <1>g, <2>2, <2>4
<1>3. ASSUME NEW w \in Workers, UNCHANGED <<versions, held, manifests>>,
             CarriesAfter(Seen(w)', CertifiedBy(w)')
      PROVE  ErasuresCarried'
  BY <1>0, <1>3, <1>g DEF OneWorker
<1>4. ASSUME NEW w \in Workers, UNCHANGED <<versions, held, manifests>>,
             tx'[w].new = tx[w].new, tx'[w].ok = tx[w].ok
      PROVE  ErasuresCarried'
  <2>1. Seen(w)' = Seen(w) /\ CertifiedBy(w)' = CertifiedBy(w)
    BY <1>4, <1>s DEF Seen, CertifiedBy, DoneBy
  <2> QED
    BY <1>0, <1>3, <1>4, <2>1
<1>5. ASSUME NEW w \in Workers, GoesOn(w), Promotes(w), Timed(w) PROVE ErasuresCarried'
  <2>1. PICK base \in CarriedFrom(w) : tx'[w].new = tx[w].new \cup NewVersions(w, base)
    BY <1>5 DEF Promotes
  <2>2. UNCHANGED <<versions, held, manifests>>
    BY <1>5 DEF GoesOn
  <2>3. Seen(w)' = Seen(w) \cup NewVersions(w, base)
    BY <2>1, <2>2 DEF Seen
  <2>4. CertifiedBy(w)' \subseteq CertifiedBy(w) \cup {j \in Booked(w) : ShardOfJob(j) = tx[w].shard}
    BY <1>5, <1>s, <2>2 DEF Promotes, CertifiedBy, DoneBy, Booked, Booking
  <2>5. CertifiedBy(w)' \in SUBSET Certifying
    BY <2>4, CertifiedByFacts DEF Certifying
  <2>6. Carries(Seen(w) \cup NewVersions(w, base), CertifiedBy(w)')
    BY <1>5, <2>1, <2>4, <2>5, PromotionCarries DEF Promotes
  <2>7. CarriesAfter(Seen(w) \cup NewVersions(w, base), CertifiedBy(w)')
    BY <1>t, <2>5, <2>6, CarriedOn, CertifiedByFacts
  <2> QED
    BY <1>3, <2>2, <2>3, <2>7
<1>6. ASSUME NEW w \in Workers, NEW k \in Shards, Rebuilt(w, k) PROVE ErasuresCarried'
  BY <1>4, <1>6 DEF Rebuilt
<1>7. ASSUME NEW w \in Workers, GoesOn(w) PROVE ErasuresCarried'
  <2>1. CASE tx'[w].ok = tx[w].ok /\ tx'[w].new = tx[w].new
    BY <1>4, <1>7, <2>1 DEF GoesOn
  <2>2. CASE Promotes(w) /\ Timed(w)
    BY <1>5, <1>7, <2>2
  <2> QED
    BY <1>7, <2>1, <2>2 DEF GoesOn
<1> QED
  BY <1>t, <1>1, <1>2, <1>6, <1>7, StepKinds DEF Kinds

LEMMA ServedStep ==
  ASSUME OneWorker, ServedInv, [SystemNext]_sysVars
  PROVE  ServedInv'
<1>1. SystemInv /\ SystemTypeOK /\ NamesAreFresh /\ Kinds
  BY StepKinds DEF ServedInv, PromotionInv, SystemInv
<1>2. PromotionInv' /\ CertifiedIsGone'
  BY <1>1, PromotionStep, CertifiedStep DEF ServedInv
<1>3. LiveIsDigest' /\ CopiesFit'
  BY <1>1, DigestStep DEF ServedInv
<1> QED
  BY <1>1, <1>2, <1>3, TimesStep, WellNamedStep, CarriedStep DEF ServedInv

\* What the newest rows name is of their own shards and carries every recorded
\* erasure, and a file's content is what its name says.
LEMMA CarriedIsServed ==
  ASSUME ServedInv, DoneHasManifest
  PROVE  UntiedServedForgets
<1> SUFFICES ASSUME Untied(versions), NEW j \in With("done"), NEW f \in Served
             PROVE  Subject(j) \notin f.content
  BY DEF UntiedServedForgets, ServedForgets, Untied, Subject
<1>1. PICK v \in Newest(versions) : v.cks[f.shard] = f.digest
  BY DEF Served
<1>2. f \in cas /\ f.shard \in Shards /\ f.content \subseteq v.cks[f.shard]
  BY <1>1 DEF Served, CopiesFit, ServedInv, PromotionInv, SystemInv, SystemTypeOK, CasFile
<1>3. j \in manifests
  BY DEF DoneHasManifest
<1>4. Subject(j) \notin v.cks[ShardOfJob(j)]
  BY <1>1, <1>3 DEF ServedInv, ErasuresCarried, Carries
<1>5. v.cks[f.shard] \subseteq InShard(f.shard)
  BY <1>1, <1>2 DEF ServedInv, VersionsWellNamed, WellNamed, Newest
<1> QED
  BY <1>2, <1>4, <1>5 DEF InShard, ShardOfJob, Subject

\* With one worker, promotion carries every erasure forward: as long as no two
\* versions share their promoted_at, no file a gateway may serve was trained on
\* the subject of a done job, through any crashes, copies cut short, failed
\* bookkeeping and rolled back transactions.
THEOREM ErasuresAreServed ==
  ASSUME OneWorker
  PROVE  SystemSpec => []UntiedServedForgets
<1>1. ServedInv /\ [SystemNext]_sysVars => ServedInv'
  BY ServedStep
<1>2. SystemSpec => []DoneHasManifest
  BY SystemKeepsQueue, DoneJobsAreCertified, PTL DEF KeepsQueue
<1>3. ServedInv /\ DoneHasManifest => UntiedServedForgets
  BY CarriedIsServed
<1> QED
  BY <1>1, <1>2, <1>3, ServedInit, PTL DEF SystemSpec

-----------------------------------------------------------------------------
(* What is served only ever forgets *)

\* p names checkpoints of no more subjects than some row that is newest now.
Succeeds(p) == \E v \in Newest(versions) : \A k \in Shards : p.cks[k] \subseteq v.cks[k]

\* What is being promoted knows no more than any version does of its shard, and
\* the only row of a transaction would succeed a served one.
GoesForward ==
  \A w \in Workers :
    /\ tx[w].phase = "book" =>
         \A v \in versions : tx[w].digest \subseteq v.cks[tx[w].shard]
    /\ Untied(tx[w].new) => \A p \in tx[w].new : Succeeds(p)

\* A digest has only the subjects whose rows are left; the whole files the
\* versions name have all of them.
LEMMA RebuildGoesForward ==
  ASSUME ServedInv, NEW w \in Workers, NEW k \in Shards, Rebuilt(w, k), NEW v \in versions
  PROVE  Retained(w, k) \subseteq v.cks[k]
<1>1. PICK f \in cas : f.shard = k /\ f.digest = v.cks[k]
  BY DEF ServedInv, PromotionInv, AllHaveFiles, HasFiles
<1>2. InShard(k) \cap rows \subseteq f.digest
  BY <1>1 DEF ServedInv, PromotionInv, NamesAreFresh
<1> QED
  BY <1>1, <1>2 DEF Retained

LEMMA PromotionGoesForward ==
  ASSUME ServedInv, GoesForward, NEW w \in Workers, Promotes(w), Timed(w),
         UNCHANGED versions, Untied(tx'[w].new), NEW p \in tx'[w].new
  PROVE  Succeeds(p)'
<1>t. SystemTypeOK /\ TimesAgree /\ tx[w].phase = "book"
  BY DEF ServedInv, PromotionInv, SystemInv, Promotes
<1>1. PICK base \in CarriedFrom(w) : tx'[w].new = tx[w].new \cup NewVersions(w, base)
  BY DEF Promotes
<1> DEFINE q == Promotion(w, base)
<1>2. /\ NewVersions(w, base) = {q} /\ q \notin Seen(w)
      /\ q.at = StartTime(w)
      /\ \A k \in Shards : q.cks[k] = IF k = tx[w].shard THEN tx[w].digest ELSE base.cks[k]
  BY <1>t, PromotionIsInserted, PromotionFields DEF ServedInv, PromotionInv
<1> HIDE DEF q
<1>3. tx[w].new = {}
  <2>1. SUFFICES ASSUME NEW u \in tx[w].new PROVE FALSE
    OBVIOUS
  <2>2. u.at = q.at
    BY <1>t, <1>2, <2>1, StartTimeFacts
  <2>3. u \in tx'[w].new /\ q \in tx'[w].new
    BY <1>1, <1>2
  <2>4. u # q
    BY <1>2 DEF Seen
  <2> QED
    BY <2>2, <2>3, <2>4 DEF Untied
<1>4. p = q /\ base \in Newest(versions) /\ base \in versions
  BY <1>1, <1>2, <1>3 DEF CarriedFrom, Newest
<1>5. \A k \in Shards : p.cks[k] \subseteq base.cks[k]
  BY <1>t, <1>2, <1>4 DEF GoesForward
<1> QED
  BY <1>4, <1>5 DEF Succeeds, Newest

LEMMA ForwardStep ==
  ASSUME OneWorker, ServedInv, GoesForward, [SystemNext]_sysVars
  PROVE  GoesForward'
<1>k. Kinds
  BY StepKinds DEF ServedInv, PromotionInv, SystemInv
<1>s. UNCHANGED versions => \A p : Succeeds(p)' <=> Succeeds(p)
  BY DEF Succeeds, Newest
<1>1. CASE Elsewhere
  BY <1>1, <1>s DEF Elsewhere, GoesForward
<1>2. ASSUME NEW w \in Workers, Claimed(w) \/ Ended(w) PROVE GoesForward'
  BY <1>2, NoTxFields DEF Claimed, Ended, OneWorker, GoesForward
<1>3. ASSUME NEW w \in Workers, NEW k \in Shards, Rebuilt(w, k) PROVE GoesForward'
  <2>1. /\ versions' = versions /\ tx'[w].new = tx[w].new
        /\ tx'[w].shard = k /\ tx'[w].digest = Retained(w, k)
    BY <1>3 DEF Rebuilt
  <2>2. \A v \in versions' : tx'[w].digest \subseteq v.cks[tx'[w].shard]
    BY <1>3, <2>1, RebuildGoesForward
  <2>3. Untied(tx'[w].new) => \A p \in tx'[w].new : Succeeds(p)'
    BY <1>s, <2>1 DEF GoesForward
  <2> QED
    BY <2>2, <2>3 DEF OneWorker, GoesForward
<1>4. ASSUME NEW w \in Workers, GoesOn(w) PROVE GoesForward'
  <2>1. versions' = versions /\ tx'[w].phase # "book"
    BY <1>4 DEF GoesOn
  <2>2. ASSUME Untied(tx'[w].new), NEW p \in tx'[w].new PROVE Succeeds(p)'
    BY <1>4, <1>s, <2>1, <2>2, PromotionGoesForward DEF GoesOn, GoesForward
  <2> QED
    BY <2>1, <2>2 DEF OneWorker, GoesForward
<1> QED
  BY <1>k, <1>1, <1>2, <1>3, <1>4 DEF Kinds

\* A file that was just written is one that no row names yet.
LEMMA NewFilesUnnamed ==
  ASSUME ServedInv, [SystemNext]_sysVars, NEW f \in cas', f \notin cas
  PROVE  /\ f.shard \in Shards
         /\ \A v \in versions : v.cks[f.shard] # f.digest
         /\ \A w \in Workers : \A v \in tx[w].new : v.cks[f.shard] # f.digest
<1>t. SystemTypeOK /\ NamesAreFresh /\ AllHaveFiles
  BY DEF ServedInv, PromotionInv, SystemInv
<1>1. PICK w \in Workers : Wrote(w)
  BY <1>t, StepKinds DEF Kinds, Elsewhere, diskVars, Claimed, GoesOn, Ended, Rebuilt
<1>2. /\ f.shard \in Shards
      /\ \A g \in cas : ~(g.shard = f.shard /\ g.digest = f.digest)
  BY <1>t, <1>1, WroteFacts, TxFields DEF NamesAreFresh, Named, SystemTypeOK
<1> QED
  BY <1>t, <1>2 DEF AllHaveFiles, HasFiles

\* When a row of w's transaction becomes the newest, it succeeds one that was.
LEMMA NewestSucceed ==
  ASSUME ServedInv, GoesForward, [SystemNext]_sysVars, Untied(versions'),
         NEW v \in Newest(versions')
  PROVE  /\ v \in versions \/ \E w \in Workers : v \in tx[w].new
         /\ Succeeds(v)
<1>t. SystemTypeOK /\ TimesAgree
  BY DEF ServedInv, PromotionInv, SystemInv
<1>1. versions' = versions \/ \E w \in Workers : versions' = versions \cup tx[w].new
  BY <1>t, StepKinds DEF Kinds, Elsewhere, Claimed, GoesOn, Ended, Rebuilt
<1>2. CASE v \in versions
  <2>1. v \in Newest(versions)
    BY <1>1, <1>2 DEF Newest
  <2> QED
    BY <1>2, <2>1 DEF Succeeds
<1>3. ASSUME NEW w \in Workers, versions' = versions \cup tx[w].new, v \in tx[w].new
      PROVE  Succeeds(v)
  BY <1>3 DEF Untied, GoesForward
<1> QED
  BY <1>1, <1>2, <1>3 DEF Newest

LEMMA ServesLess ==
  ASSUME ServedInv, GoesForward, [SystemNext]_sysVars, Untied(versions'), NEW k \in Shards
  PROVE  Serves(k)' \subseteq Serves(k)
<1> SUFFICES ASSUME NEW f \in Served', f.shard = k PROVE f.content \subseteq Serves(k)
  BY DEF Serves
<1>1. PICK v \in Newest(versions') : v.cks[k] = f.digest
  BY DEF Served
<1>2. /\ v \in versions \/ \E w \in Workers : v \in tx[w].new
      /\ Succeeds(v)
  BY <1>1, NewestSucceed
<1>3. f \in cas
  <2>1. f \in cas'
    BY DEF Served
  <2> QED
    BY <1>1, <1>2, <2>1, NewFilesUnnamed
<1>4. PICK u \in Newest(versions) : v.cks[k] \subseteq u.cks[k]
  BY <1>2 DEF Succeeds
<1>5. PICK g \in cas : g.shard = k /\ g.digest = u.cks[k] /\ g.whole
  BY <1>4 DEF ServedInv, PromotionInv, AllHaveFiles, HasFiles, Newest
<1>6. g \in Served /\ g.content = g.digest /\ f.content \subseteq f.digest
  BY <1>3, <1>4, <1>5 DEF Served, ServedInv, CopiesFit, NamedByContent
<1>7. f.content \subseteq g.content
  BY <1>1, <1>4, <1>5, <1>6
<1> QED
  BY <1>5, <1>6, <1>7 DEF Serves

\* With one worker, and as long as no two versions share their promoted_at, the
\* served models only ever forget: what one reload of the gateway no longer knows
\* no later one knows again, whether the job that erased it was recorded or not.
THEOREM ServedOnlyForgets ==
  ASSUME OneWorker
  PROVE  SystemSpec => ServedNeverGoesBack
<1> DEFINE I == ServedInv /\ GoesForward
<1>1. SystemInit => I
  <2>1. SystemInit => GoesForward
    BY NoTxFields DEF SystemInit, GoesForward
  <2> QED
    BY <2>1, ServedInit
<1>2. I /\ [SystemNext]_sysVars => I'
  BY ServedStep, ForwardStep
<1>3. I /\ [SystemNext]_sysVars
        => [(\A u, v \in versions' : u.at = v.at => u = v) =>
              \A k \in Shards : Serves(k)' \subseteq Serves(k)]_sysVars
  BY ServesLess DEF Untied
<1> QED
  BY <1>1, <1>2, <1>3, PTL DEF SystemSpec, ServedNeverGoesBack

=============================================================================
