--------------------------- MODULE MCServeRouting ---------------------------
(***************************************************************************)
(* ServeRouting on two replicas and two queries, one at a time per replica.*)
(***************************************************************************)
EXTENDS ServeRouting
=============================================================================
