--------------------------- MODULE MCCertificate ---------------------------
(* Certificate for TLC: six subject_refs of eleven bits that differ in the   *)
(* first, the third and the last one, so that proofs name siblings at depths *)
(* 2 and 10, and all 64 shards of them; a sorted tree of five has a last     *)
(* leaf without a sibling on two levels.                                     *)
EXTENDS Certificate

MCRefs == {0, 1, 256, 257, 1024, 1281}

=============================================================================
