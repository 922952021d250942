---------------------------- MODULE MCWireBridge ----------------------------
(* Instances of WireBridge for TLC. *)
EXTENDS WireBridge, FiniteSets

\* One batch: up to three messages and the Sync that ends it.
Batches == UNION {[1 .. n -> Messages \ {"sync"}] : n \in 0 .. 3}
OneBatch == {Append(b, "sync") : b \in Batches}
=============================================================================
