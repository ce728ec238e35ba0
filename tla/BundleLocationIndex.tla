------------------------ MODULE BundleLocationIndex ------------------------
(* The index of where the bundles of placement groups are                   *)
(* (common/bundle_location_index.cc): for each group the locations of its    *)
(* bundles, for each node the bundles on it. The two maps are updated        *)
(* separately and need not agree.                                            *)
(*   groups     the groups with an entry in placement_group_to_bundle_locations_ *)
(*   locations  the contents of those entries, as [bundle, node] pairs       *)
(*   on_node    node_to_leased_bundles_                                      *)
EXTENDS Naturals

CONSTANTS Node, Group, Index

Bundle == Group \X Index
BundlesOf(p) == {p} \X Index
Location == [bundle : Bundle, node : Node]
BundleIndex == [groups : SUBSET Group, locations : SUBSET Location,
                on_node : [Node -> SUBSET Bundle]]

On(locs, n) == {l.bundle : l \in {m \in locs : m.node = n}}

EmptyIndex == [groups |-> {}, locations |-> {}, on_node |-> [n \in Node |-> {}]]

\* insert() keeps the location of a bundle that already has one.
AddBundleLocations(ix, p, locs) ==
    [groups |-> ix.groups \cup {p},
     locations |-> ix.locations \cup
                   {l \in locs : \A m \in ix.locations : m.bundle # l.bundle},
     on_node |-> [n \in Node |-> ix.on_node[n] \cup On(locs, n)]]

\* Erase(node_id): the bundles of the node lose their location, whatever it says.
EraseNode(ix, n) ==
    [ix EXCEPT !.locations = {l \in @ : l.bundle \notin ix.on_node[n]},
               !.on_node[n] = {}]

\* Erase(placement_group_id)
ErasePlacementGroup(ix, p) ==
    LET erased == {l \in ix.locations : l.bundle[1] = p}
    IN  [groups |-> ix.groups \ {p},
         locations |-> ix.locations \ erased,
         on_node |-> [n \in Node |-> ix.on_node[n] \ On(erased, n)]]

GetBundleLocations(ix, p) == {l \in ix.locations : l.bundle[1] = p}

============================================================================
