------------------------ MODULE MCPlacementGroups ------------------------
(* Instances of PlacementGroups for TLC. *)
EXTENDS PlacementGroups

==========================================================================
