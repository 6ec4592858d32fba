--------------------------- MODULE ForgetContract ---------------------------
(***************************************************************************)
(* What a SISA engine promises its caller, whatever the shards, slices and *)
(* checkpoints look like: data only ever leaves, influence only comes back *)
(* from data that is still there, nobody leaves unasked but by a write cut *)
(* short, which costs at most the subjects of one shard, whoever still has *)
(* data is learned once no damaged file stands in the way, and a subject is *)
(* reported erased only when nothing of it is left.                        *)
(***************************************************************************)
CONSTANTS
  Subjects,
  Shard        \* the sets of subjects whose data is kept together

VARIABLES
  requested,   \* subjects whose erasure was asked for
  rows,        \* subjects with data on disk
  learned,     \* subjects that influenced some model file on disk
  damaged,     \* subjects whose data or live model a cut write left unreadable
  erased       \* subjects reported as erased

vars == <<requested, rows, learned, damaged, erased>>

Init ==
  /\ requested = {}
  /\ rows = Subjects
  /\ learned = Subjects
  /\ damaged = {}
  /\ erased = {}

\* An erasure is asked for.
Request(R) ==
  /\ requested' = requested \cup R
  /\ UNCHANGED <<rows, learned, damaged, erased>>

\* The data of some requested subjects is dropped.
DropRows(R) ==
  /\ UNCHANGED <<requested, learned, damaged, erased>>
  /\ rows' = rows \ R

\* A model file is replaced: influence comes only from what was learned before
\* or from data, and covers all data but that of the subjects still damaged.
Retrain ==
  /\ UNCHANGED <<requested, rows, erased>>
  /\ learned' \in SUBSET (learned \cup rows)
  /\ damaged' \in SUBSET damaged
  /\ rows \ damaged' \subseteq learned'

\* A write is cut short: the subjects of one shard may lose data or influence.
Damage(D) ==
  /\ damaged' = damaged \cup D
  /\ rows' \in SUBSET rows
  /\ rows \ D \subseteq rows'
  /\ learned' \in SUBSET (learned \cup rows)
  /\ rows \ damaged' \subseteq learned'
  /\ UNCHANGED <<requested, erased>>

\* Subjects of which nothing is left are reported as erased.
StrikeOff(R) ==
  /\ UNCHANGED <<requested, rows, learned, damaged>>
  /\ R \cap (rows \cup learned) = {}
  /\ erased' = erased \cup R

Next ==
  \/ \E R \in SUBSET Subjects : Request(R)
  \/ Retrain
  \/ \E D \in Shard : Damage(D)
  \/ \E R \in SUBSET requested : DropRows(R) \/ StrikeOff(R)

Spec == Init /\ [][Next]_vars

=============================================================================
