---------------------------- MODULE MCPublisher ----------------------------
(* Instances of Publisher for TLC. *)
EXTENDS Publisher, TLC

CONSTANTS s1, s2

\* s1 subscribes to the whole log channel, s2 to single keys.
MCWholeChannels == (s1 :> {"log"}) @@ (s2 :> {})

============================================================================
