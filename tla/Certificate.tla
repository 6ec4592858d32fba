---------------------------- MODULE Certificate ----------------------------
(***************************************************************************)
(* A certificate's life: a batch is purged and its manifests are built and *)
(* signed (engine/rebuild.py, verify/manifest.py, verify/sign.py), stored  *)
(* as JSON (worker/jobs.py), fetched by an auditor (get_certificate) and   *)
(* checked with nothing but a public key (verify/verifier_cli.py).         *)
(*                                                                         *)
(* A manifest is a function over its fields.  Signatures are ideal: the    *)
(* key and the bytes that were signed.  Of JSON, what counts is that the   *)
(* depths naming a proof's siblings are integers before and strings after. *)
(***************************************************************************)
EXTENDS SparseMerkle, SortedMerkle

VARIABLE cert    \* the last signed manifest, as built; {} before the first

vars == <<present, root, cert>>

REQUIRED_FIELDS ==
  {"subject_ref", "shard", "resumed_from", "dataset_root", "absence_proof",
   "code_digest", "config_digest", "result_weights", "model_version",
   "purged_at", "completed_at"}

\* The operator's key pair, whose public key ships with the verifier, and any
\* other one.
SigningKeys == {"operator", "other"}

-----------------------------------------------------------------------------
(* verify/manifest.py and verify/sign.py *)

\* manifest.build: the fields nothing else looks at hold what the engine says.
Manifest(ref, datasetRoot, proof) ==
  [f \in REQUIRED_FIELDS |->
     CASE f = "subject_ref" -> ref
       [] f = "dataset_root" -> datasetRoot
       [] f = "absence_proof" -> proof
       [] OTHER -> "issued"]

\* Strings of digits sort by their first difference: "10" before "2".
Padded(d) == IF d < 10 THEN 100 * d ELSE IF d < 100 THEN 10 * d ELSE d
StringBefore(d, e) ==
  Padded(d) < Padded(e) \/ (Padded(d) = Padded(e) /\ d < e)

IsSparse(proof) == "scheme" \in DOMAIN proof /\ proof.scheme = "smt-256"

\* Where sort_keys=True puts the sibling at depth d.
PlaceOf(proof, d) ==
  Cardinality({e \in DOMAIN proof.siblings :
                 IF proof.keys = "strings" THEN StringBefore(e, d) ELSE e < d})

Canonical(proof) ==
  IF IsSparse(proof)
  THEN [scheme |-> "smt-256",
        siblings |-> [d \in DOMAIN proof.siblings |-> <<PlaceOf(proof, d), proof.siblings[d]>>]]
  ELSE proof

\* A bug AcceptedIsIssued must catch: only what the verifier reads is signed.
CanonicalBytes_Read(manifest) ==
  [f \in {"subject_ref", "dataset_root", "absence_proof"} |->
     IF f = "absence_proof" THEN Canonical(manifest[f]) ELSE manifest[f]]

\* canonical_bytes; the signature is not in the dict yet, or popped from it.
CanonicalBytes(manifest) ==
  [f \in DOMAIN manifest \ {"signature"} |->
     IF f = "absence_proof" THEN Canonical(manifest[f]) ELSE manifest[f]]

Signature(key, manifest) == [key |-> key, bytes |-> CanonicalBytes(manifest)]

Signed(manifest) ==
  [f \in {"signature"} \cup DOMAIN manifest |->
     IF f = "signature" THEN Signature("operator", manifest) ELSE manifest[f]]

-----------------------------------------------------------------------------
(* verify/verifier_cli.py *)

\* verify_absence: the proof says which scheme it is of.
AbsenceVerified(ref, proof, hash) ==
  IF IsSparse(proof)
  THEN VerifyAbsence(ref, proof.siblings, hash)
  ELSE VerifySortedAbsence(ref, proof, hash)

\* verify_certificate, with its first finding if it is not "VERIFIED".
Verdict(manifest, key) ==
  IF ~(REQUIRED_FIELDS \subseteq DOMAIN manifest) THEN "FIELDS MISSING"
  ELSE IF "signature" \notin DOMAIN manifest THEN "NO SIGNATURE"
  ELSE IF manifest.signature # Signature(key, manifest) THEN "SIGNATURE INVALID"
  ELSE IF ~AbsenceVerified(manifest.subject_ref, manifest.absence_proof,
                           manifest.dataset_root)
  THEN "ABSENCE PROOF INVALID"
  ELSE "VERIFIED"

-----------------------------------------------------------------------------
(* Issue and fetch *)

\* prove_absence, on a tree in memory.
SparseProof(tree, ref) ==
  [scheme |-> "smt-256", keys |-> "integers", siblings |-> ProvenSiblings(tree, ref)]

Certificate(tree, ref) == Signed(Manifest(ref, RootOf(tree), SparseProof(tree, ref)))

\* What the engines issued before the sparse tree replaced the sorted one.
LegacyCertificate(S, ref) ==
  Signed(Manifest(ref, BuildRoot(S), ProveAbsence(ref, S)))

\* manifest_json is JSONB, the response and the auditor's file are JSON.
Fetched(manifest) ==
  IF IsSparse(manifest.absence_proof)
  THEN [manifest EXCEPT !.absence_proof.keys = "strings"]
  ELSE manifest

Init ==
  /\ TreeInit
  /\ \/ cert = {}
     \/ \E ref \in Refs \ present : cert = {LegacyCertificate(present, ref)}

\* rebuild_batch_by_ref: purge, remove, and one certificate per subject.
Issue(refs) ==
  /\ RemoveBatch(refs)
  /\ \E ref \in ToSet(refs) : cert' = {Certificate(root', ref)}

Next ==
  \/ \E n \in 1 .. MaxBatch : \E refs \in [1 .. n -> present] : Issue(refs)
  \/ Rebuild /\ UNCHANGED cert

Spec == Init /\ [][Next]_vars

-----------------------------------------------------------------------------
(* Properties *)

\* Whoever is not in the shard can be proved absent from it, from a tree however
\* worn by removals, and the proof verifies.
AbsentProved ==
  \A t \in Refs \ present : AbsenceVerified(t, SparseProof(root, t), RootOf(root))

\* The proofs that prove_absence can make for t, from any shard without it.
ProofsFor[t \in Refs] ==
  {SparseProof(Build(S), t) : S \in SUBSET (Refs \ {t})}

\* No proof made for a subject over any set of other subjects, and so at any
\* other time, verifies against a root whose shard holds the subject.
PresentUnprovable ==
  \A t \in present : \A p \in ProofsFor[t] : ~AbsenceVerified(t, p, RootOf(root))

\* Whether any proof put together from S's own leaves convinces the verifier
\* that a subject of S is absent.
LegacyFooled[S \in SUBSET Refs] ==
  \E p \in ClaimedProofs(S), t \in S :
    AbsenceVerified(t, p, BuildRoot(S))

\* No choice of a sorted tree's own leaves and paths, at the indices they have or
\* at others, or a misreported size, proves the absence of one of its subjects.
LegacyUnprovable == ~LegacyFooled[present]

\* The siblings' depths are in one order as numbers and as strings.
OneOrder(proof) ==
  IsSparse(proof) =>
    \A d, e \in DOMAIN proof.siblings : d < e => StringBefore(d, e)

\* What the operator signed is accepted, under either scheme: as the engine
\* built it, and as the auditor gets it wherever JSON keeps the depths in order.
IssuedVerifies ==
  \A m \in cert :
    /\ Verdict(m, "operator") = "VERIFIED"
    /\ OneOrder(m.absence_proof) => Verdict(Fetched(m), "operator") = "VERIFIED"

\* A field's other values: another subject's, another tree's, or altered.
Others(m, f) ==
  CASE f = "subject_ref" -> Refs \ {m[f]}
    [] f = "dataset_root" -> {RootOf(root), BuildRoot(present)} \ {m[f]}
    [] f = "absence_proof" -> {SparseProof(root, t) : t \in Refs \ present} \ {m[f]}
    [] OTHER -> {"altered"}

\* What the verifier accepts is what the operator signed: no field can be lost
\* or changed, the ones the verifier never looks at included, and no other key
\* can have signed it.
AcceptedIsIssued ==
  \A m \in cert :
    /\ Verdict(m, "other") # "VERIFIED"
    /\ \A f \in DOMAIN m :
         Verdict([g \in DOMAIN m \ {f} |-> m[g]], "operator") # "VERIFIED"
    /\ \A f \in REQUIRED_FIELDS : \A value \in Others(m, f) :
         Verdict([m EXCEPT ![f] = value], "operator") # "VERIFIED"

\* "The verifier re-canonicalises the parsed object and checks the signature
\* against those bytes" (verify/manifest.py): what an auditor fetches verifies.
FetchedVerifies == \A m \in cert : Verdict(Fetched(m), "operator") = "VERIFIED"

=============================================================================
