---------------------------- MODULE MCActorTasks ----------------------------
(***************************************************************************)
(* Small instances of ActorTasks; the bounds are in the .cfg files.        *)
(***************************************************************************)
EXTENDS ActorTasks

Unlimited == -1
FirstTask == {0}

=============================================================================
