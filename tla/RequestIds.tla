----------------------------- MODULE RequestIds -----------------------------
(***************************************************************************)
(* The request ids of the Ray Client: they count up to INT32_MAX and start *)
(* again at 1 (0 marks a response that nobody waits for).                  *)
(***************************************************************************)
EXTENDS Integers

CONSTANT IdMax    \* INT32_MAX

ASSUME IdMaxAssumption == IdMax \in Nat \ {0}

ReqId == 1..IdMax

\* _next_id
Successor(id) == IF id + 1 > IdMax THEN 1 ELSE id + 1

(***************************************************************************)
(* _id_is_newer: a large distance between two ids means that the counter   *)
(* rolled over in between, and that the smaller one is the newer.          *)
(***************************************************************************)
IdIsNewer(id1, id2) ==
    LET diff == IF id1 > id2 THEN id1 - id2 ELSE id2 - id1
    IN  IF diff > IdMax \div 2 THEN id1 < id2 ELSE id1 > id2
=============================================================================
