------------------------------ MODULE MCPubsub ------------------------------
(* Instances of Pubsub for TLC. *)
EXTENDS Pubsub

\* Subscribers of single keys.
OnlyKeys == [s \in Subscribers |-> {}]

=============================================================================
