------------------- MODULE PlacementGroupResourceManager -------------------
(* The bundles a raylet holds (raylet/placement_group_resource_manager.cc),  *)
(* the participant of the two-phase commit.                                  *)
(*   pg_bundles       the state of each bundle                               *)
(*   bundle_spec_map  the bundles ReturnUnusedBundle looks at                *)
EXTENDS Naturals

CONSTANT Bundle

CommitState == {"NONE", "PREPARED", "COMMITTED"}
ResourceManager == [pg_bundles : [Bundle -> CommitState],
                    bundle_spec_map : SUBSET Bundle]

NoBundles == [pg_bundles |-> [b \in Bundle |-> "NONE"], bundle_spec_map |-> {}]

Held(r) == {b \in Bundle : r.pg_bundles[b] # "NONE"}

\* The given bundles are set to a state.
Set(r, bs, s) == [b \in Bundle |-> IF b \in bs THEN s ELSE r.pg_bundles[b]]

ReturnBundle(r, b) == [r EXCEPT !.pg_bundles[b] = "NONE"]

\* Unknown and already committed bundles are skipped.
CommitBundles(r, bs) ==
    [r EXCEPT !.pg_bundles = Set(r, {b \in bs : @[b] = "PREPARED"}, "COMMITTED")]

\* Every bundle got its resources. A committed one is a stale request.
PrepareBundles(r, bs) ==
    LET prepared == {b \in bs : r.pg_bundles[b] # "COMMITTED"}
    IN  [pg_bundles |-> Set(r, prepared, "PREPARED"),
         bundle_spec_map |-> r.bundle_spec_map \cup prepared]

\* There was nothing left for b after the bundles got were prepared. A
\* reservation b already had is given up before a new one is tried.
PrepareBundlesFailed(r, got, b) ==
    [pg_bundles |-> Set(r, got \cup {b}, "NONE"),
     bundle_spec_map |-> r.bundle_spec_map \ got]

ReturnUnusedBundle_All(r, in_use) == NoBundles

ReturnUnusedBundle(r, in_use) ==
    [pg_bundles |-> Set(r, r.bundle_spec_map \ in_use, "NONE"),
     bundle_spec_map |-> r.bundle_spec_map \cap in_use]

============================================================================
