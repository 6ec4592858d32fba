----------------------------- MODULE Bootstrap ------------------------------
(***************************************************************************)
(* From the frozen assignment to a model that serves: training of every    *)
(* shard (main of engine/train.py), then scripts/load_routing.py, which    *)
(* hashes and copies the live models (engine/active.py) and commits        *)
(* subject_shard_map and v0-baseline.  All are run by hand and run again   *)
(* when they fail.                                                         *)
(*                                                                         *)
(* Training is deterministic, so a shard's model is either what its rows   *)
(* give or a file cut short.  A copy is named by its source's hash.        *)
(***************************************************************************)
EXTENDS Assignment

CONSTANT MaxCrashes    \* bound on scripts that die

ASSUME CrashBound == MaxCrashes \in Nat

VARIABLES
  script,     \* what runs after build: "none", "train", "load" or "eval"
  preproc,    \* [Shards -> a state of shard{k}_preproc.json]
  live,       \* [Shards -> a state of the last slice's checkpoint]
  cas,        \* copies: [shard, of (what was hashed), whole]
  shardMap,   \* committed subject_shard_map
  baseline,   \* committed shard_checkpoints of v0-baseline; {} or {a function}
  crashes

tables == <<shardMap, baseline>>
bootVars == <<vars, script, preproc, live, cas, tables, crashes>>

FileStates == {"missing", "torn", "whole"}

BootInit ==
  /\ Init
  /\ script = "none"
  /\ preproc = [k \in Shards |-> "missing"]
  /\ live = [k \in Shards |-> "missing"]
  /\ cas = {}
  /\ shardMap = {}
  /\ baseline = {}
  /\ crashes = 0

Build ==
  /\ Next
  /\ UNCHANGED <<script, preproc, live, cas, tables, crashes>>

\* A script is started; build is over and the other one is not running.
Begin(name) ==
  /\ pc = "built" /\ script = "none"
  /\ script' = name
  /\ UNCHANGED <<vars, preproc, live, cas, tables, crashes>>

\* On to the next shard, or to what follows the loop.
NextShard(after) ==
  /\ shard' = IF shard = NUM_SHARDS - 1 THEN 0 ELSE shard + 1
  /\ script' = IF shard = NUM_SHARDS - 1 THEN after ELSE script

Stop == script' = "none" /\ shard' = 0

\* train_shard(k): the preprocessor is fit on slice 0, and raises if it is
\* empty; then both files are written.
TrainShard ==
  /\ script = "train"
  /\ IF \E e \in shardFile[shard] : e.slice = 0
     THEN /\ preproc' = [preproc EXCEPT ![shard] = "whole"]
          /\ live' = [live EXCEPT ![shard] = "whole"]
          /\ NextShard("none")
     ELSE Stop /\ UNCHANGED <<preproc, live>>
  /\ UNCHANGED <<data, shardOf, sliceOf, shardFile, routing, pc, cas, tables, crashes>>

Exists(of) == \E f \in cas : f.shard = shard /\ f.of = of

\* promote_artifact: what is there under the name is taken for the copy.
LoadShard ==
  /\ script = "load"
  /\ IF live[shard] = "missing"
     THEN Stop /\ UNCHANGED cas
     ELSE /\ cas' = IF Exists(live[shard]) THEN cas
                    ELSE cas \cup {[shard |-> shard, of |-> live[shard], whole |-> TRUE]}
          /\ NextShard("eval")
  /\ UNCHANGED <<data, shardOf, sliceOf, shardFile, routing, pc, preproc, live, tables, crashes>>

\* The shard_checkpoints that load_routing has put together.
Checkpoints == [k \in Shards |-> live[k]]

\* A bug BaselineIsWhole must catch: the score is recorded after the commit.
EvalLoads_Afterwards == TRUE

\* record_eval, still in the transaction, loads every copy and preprocessor.
EvalLoads ==
  \A k \in Shards :
    /\ preproc[k] = "whole" /\ Checkpoints[k] = "whole"
    /\ [shard |-> k, of |-> Checkpoints[k], whole |-> TRUE] \in cas

\* The upserts and v0-baseline are committed, unless record_eval raises.
EvalAndCommit ==
  /\ script = "eval"
  /\ IF EvalLoads
     THEN /\ shardMap' = {e \in shardMap : \A r \in routing : r.subject # e.subject}
                           \cup routing
          /\ baseline' = IF baseline = {} THEN {Checkpoints} ELSE baseline
     ELSE UNCHANGED tables
  /\ Stop
  /\ UNCHANGED <<data, shardOf, sliceOf, shardFile, routing, pc, preproc, live, cas, crashes>>

\* The script dies, perhaps inside the write or copy of a file, which is
\* truncated first; an open transaction is rolled back.
Die ==
  /\ script # "none" /\ crashes < MaxCrashes
  /\ crashes' = crashes + 1
  /\ Stop
  /\ \/ UNCHANGED <<preproc, live, cas>>
     \/ /\ script = "train" /\ \E e \in shardFile[shard] : e.slice = 0
        /\ \/ preproc' = [preproc EXCEPT ![shard] = "torn"] /\ UNCHANGED live
           \/ /\ preproc' = [preproc EXCEPT ![shard] = "whole"]
              /\ live' \in {live, [live EXCEPT ![shard] = "torn"]}
        /\ UNCHANGED cas
     \/ /\ script = "load" /\ live[shard] # "missing" /\ ~Exists(live[shard])
        /\ cas' = cas \cup {[shard |-> shard, of |-> live[shard], whole |-> FALSE]}
        /\ UNCHANGED <<preproc, live>>
  /\ UNCHANGED <<data, shardOf, sliceOf, shardFile, routing, pc, tables>>

\* build itself dies and is started over: what it had assigned is forgotten,
\* what it had saved stays, a file it was writing holds nothing.
BuildDies ==
  /\ pc # "built" /\ crashes < MaxCrashes
  /\ crashes' = crashes + 1
  /\ shardOf' = <<>> /\ sliceOf' = [s \in Subjects |-> -1]
  /\ \/ UNCHANGED shardFile
     \/ pc = "saving" /\ shardFile' = [shardFile EXCEPT ![shard] = {}]
  /\ pc' = "sharding" /\ shard' = 0
  /\ UNCHANGED <<data, routing, script, preproc, live, cas, tables>>

BootNext ==
  \/ Build \/ BuildDies
  \/ Begin("train") \/ Begin("load")
  \/ TrainShard \/ LoadShard \/ EvalAndCommit
  \/ Die

BootSpec == BootInit /\ [][BootNext]_bootVars

\* Whatever dies and is run again, v0-baseline is committed only when every
\* shard has a training set for its preprocessor, and a copy that loads, of a
\* model trained to the end; and subject_shard_map then says of every subject
\* what routing.json says.
BaselineIsWhole ==
  \A cks \in baseline :
    /\ shardMap = routing /\ {e.subject : e \in shardMap} = Subjects
    /\ \A k \in Shards :
         /\ \E e \in shardFile[k] : e.slice = 0
         /\ cks[k] = "whole"
         /\ [shard |-> k, of |-> cks[k], whole |-> TRUE] \in cas

=============================================================================
