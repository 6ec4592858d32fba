---------------------------- MODULE MCBootstrap ----------------------------
(* Bootstrap for TLC: five subjects over one hot and two cold shards, and    *)
(* all their scores and record counts; cold subjects are dealt out by parity. *)
EXTENDS Bootstrap

MCHash == [s \in Subjects |-> s]

=============================================================================
