----------------------------- MODULE Assignment -----------------------------
(***************************************************************************)
(* How build (engine/train.py) freezes the assignment the engines start    *)
(* from: subjects to shards by churn and a stable hash (engine/sharder.py),*)
(* subjects of a shard to slices by churn and record count                 *)
(* (engine/slicer.py), then the shard files and routing.json.              *)
(*                                                                         *)
(* A subject is its rank among the subject ids.  Churn scores are integers *)
(* of any scale.  The rows of a subject are one entry of a shard file that *)
(* says how many there are.                                                *)
(***************************************************************************)
EXTENDS Integers, FiniteSets, Functions

CONSTANTS
  Subjects,       \* ranks of the subject ids
  NUM_SHARDS, HOT_SHARDS, HOT_THRESHOLD, NUM_SLICES,  \* config/settings.py
  stable_hash,    \* subject -> natural number, the same in every process
  Scores,         \* what churn_scores may return
  Counts          \* how many records a subject may own

Shards == 0 .. NUM_SHARDS - 1
Slices == 0 .. NUM_SLICES - 1

ASSUME Ranked == Subjects \subseteq Nat /\ Subjects # {} /\ IsFiniteSet(Subjects)
ASSUME Hashed == stable_hash \in [Subjects -> Nat]
\* assign_shard and assign_slices raise otherwise.
ASSUME HotAndCold ==
  /\ NUM_SHARDS \in Nat /\ HOT_SHARDS \in 1 .. NUM_SHARDS - 1
  /\ NUM_SLICES \in Nat \ {0}
ASSUME Measured ==
  Scores \subseteq Nat /\ HOT_THRESHOLD \in Nat /\ Counts \subseteq Nat \ {0}

VARIABLES
  churn,      \* [Subjects -> Scores]
  counts,     \* [Subjects -> Counts]
  shardOf,    \* shard_of_subject; empty until it is assigned
  sliceOf,    \* slice_of_subject; -1 where it is not assigned yet
  shardFile,  \* [Shards -> entries of shard{k}.npz]
  routing,    \* entries of routing.json
  pc,         \* how far build is
  shard       \* the k of the loop it is in

data == <<churn, counts>>
vars == <<data, shardOf, sliceOf, shardFile, routing, pc, shard>>

\* What a shard file or routing.json says of one subject.
Entry == [subject : Subjects, shard : Shards, slice : Slices, records : Counts]

-----------------------------------------------------------------------------
(* engine/sharder.py *)

\* A bug AssignmentTypeOK must catch: cold shards are counted from zero.
AssignShard_Overlapping(s) ==
  IF churn[s] >= HOT_THRESHOLD
  THEN stable_hash[s] % HOT_SHARDS
  ELSE stable_hash[s] % (NUM_SHARDS - HOT_SHARDS)

AssignShard(s) ==
  IF churn[s] >= HOT_THRESHOLD
  THEN stable_hash[s] % HOT_SHARDS
  ELSE HOT_SHARDS + (stable_hash[s] % (NUM_SHARDS - HOT_SHARDS))

-----------------------------------------------------------------------------
(* engine/slicer.py *)

\* A bug ChurnAscends must catch: the keys of lexsort are swapped, so that the
\* subject id is the primary one.
Before_IdFirst(s, t) == s < t

\* np.lexsort((subject_ids, churn)): churn first, then subject id.
Before(s, t) == churn[s] < churn[t] \/ (churn[s] = churn[t] /\ s < t)

InShard(k) == {s \in Subjects : shardOf[s] = k}

Records(S) == FoldFunctionOnSet(+, 0, counts, S)

\* np.cumsum over the ordered subjects, at s.
Cumulative(k, s) == Records({t \in InShard(k) : Before(t, s)} \cup {s})

\* A bug NearItsShare must catch: the count is taken as exclusive.
SliceAt_Exclusive(c, total) ==
  LET i == (c * NUM_SLICES) \div total
  IN  IF i < NUM_SLICES - 1 THEN i ELSE NUM_SLICES - 1

\* The bucket of a running record count.
SliceAt(c, total) ==
  LET i == ((c - 1) * NUM_SLICES) \div total
  IN  IF i < NUM_SLICES - 1 THEN i ELSE NUM_SLICES - 1

\* assign_slices; the empty shard has no subject to ask about.
AssignSlices(k) ==
  [s \in InShard(k) |-> SliceAt(Cumulative(k, s), Records(InShard(k)))]

-----------------------------------------------------------------------------
(* engine/train.py: build *)

Init ==
  /\ churn \in [Subjects -> Scores]
  /\ counts \in [Subjects -> Counts]
  /\ shardOf = <<>>
  /\ sliceOf = [s \in Subjects |-> -1]
  /\ shardFile = [k \in Shards |-> {}]
  /\ routing = {}
  /\ pc = "sharding"
  /\ shard = 0

\* for k in range(NUM_SHARDS), then on to the next part.
LoopTo(next) ==
  IF shard = NUM_SHARDS - 1 THEN pc' = next /\ shard' = 0
  ELSE UNCHANGED pc /\ shard' = shard + 1

AssignAll ==
  /\ pc = "sharding"
  /\ shardOf' = [s \in Subjects |-> AssignShard(s)]
  /\ pc' = "slicing"
  /\ UNCHANGED <<data, sliceOf, shardFile, routing, shard>>

SliceShard ==
  /\ pc = "slicing"
  /\ LET slices == AssignSlices(shard)
     IN  sliceOf' = [s \in Subjects |-> IF s \in DOMAIN slices THEN slices[s] ELSE sliceOf[s]]
  /\ LoopTo("saving")
  /\ UNCHANGED <<data, shardOf, shardFile, routing>>

EntryOf(s) ==
  [subject |-> s, shard |-> shardOf[s], slice |-> sliceOf[s], records |-> counts[s]]

SaveShard ==
  /\ pc = "saving"
  /\ shardFile' = [shardFile EXCEPT ![shard] = {EntryOf(s) : s \in InShard(shard)}]
  /\ LoopTo("routing")
  /\ UNCHANGED <<data, shardOf, sliceOf, routing>>

SaveRouting ==
  /\ pc = "routing"
  /\ routing' = {EntryOf(s) : s \in Subjects}
  /\ pc' = "built"
  /\ UNCHANGED <<data, shardOf, sliceOf, shardFile, shard>>

Next == AssignAll \/ SliceShard \/ SaveShard \/ SaveRouting

Spec == Init /\ [][Next]_vars

-----------------------------------------------------------------------------
(* Properties *)

\* build ends with what both engines assume: every subject in one shard and one
\* slice, hot subjects only in hot shards and cold ones only in cold shards, and
\* routing.json saying of each exactly what the shard files say.
AssignmentTypeOK ==
  /\ routing \subseteq Entry
  /\ pc = "built" =>
       /\ routing = UNION {shardFile[k] : k \in Shards}
       /\ {e.subject : e \in routing} = Subjects
       /\ Cardinality(routing) = Cardinality(Subjects)
       /\ \A e \in routing :
            /\ e \in shardFile[e.shard]
            /\ e.shard < HOT_SHARDS <=> churn[e.subject] >= HOT_THRESHOLD

\* The subjects of a shard likeliest to leave are in its last slices, where the
\* rollback is cheapest: nobody is in an earlier slice than somebody who churns
\* less, and of equal scores the smaller id goes first.
ChurnAscends ==
  pc = "built" =>
    \A s, t \in Subjects :
      /\ shardOf[s] = shardOf[t]
      /\ churn[s] < churn[t] \/ (churn[s] = churn[t] /\ s < t)
      => sliceOf[s] <= sliceOf[t]

\* The records of a slice differ from its share of the shard by less than the
\* largest subject of the shard owns.  In particular slice 0, without which the
\* shard cannot be trained, is empty only if somebody owns more than a share.
NearItsShare ==
  pc = "built" =>
    \A k \in Shards, i \in Slices :
      LET total == Records(InShard(k))
          here == Records({s \in InShard(k) : sliceOf[s] = i})
      IN  InShard(k) # {} =>
            \E big \in InShard(k) :
              /\ NUM_SLICES * (here - counts[big]) < total
              /\ NUM_SLICES * (here + counts[big]) > total

=============================================================================
