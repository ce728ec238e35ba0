-------------------------- MODULE PlacementGroups --------------------------
(* Placement groups: the GCS reserves the bundles of a group on raylets with  *)
(* a two-phase commit. GcsPlacementGroupManager queues the groups and keeps   *)
(* them in a table, GcsPlacementGroupScheduler is the coordinator, the raylets *)
(* are the participants (PlacementGroupResourceManager). Nodes die, groups are *)
(* removed at any time and the GCS restarts from its table.                   *)
EXTENDS BundleLocationIndex, Sequences, FiniteSets, SequencesExt

CONSTANTS None,          \* no node, no group, no lease
          InitialNodes,  \* the nodes that are there at the start
          Waited,        \* the groups clients wait for
          MaxFaults      \* bound: nodes that die or are declared dead, restarts of the GCS

ASSUME ConstantsAssumption ==
    /\ InitialNodes \subseteq Node /\ Waited \subseteq Group
    /\ None \notin Node \cup Group
    /\ MaxFaults \in Nat

R == INSTANCE PlacementGroupResourceManager

VARIABLES
    \* GcsPlacementGroupManager
    registered,          \* registered_placement_groups_
    state,               \* the state of each group object
    node_of,             \* the node_id of each bundle in the group objects
    pending_first,       \* pending_placement_groups_ of rank 0, in order
    pending_later,       \* the others: how often each group is queued
    infeasible,          \* infeasible_placement_groups_
    in_progress,         \* scheduling_in_progress_id_
    register_callbacks,  \* groups in placement_group_to_register_callbacks_
    create_callbacks,    \* groups in placement_group_to_create_callbacks_
    \* GcsPlacementGroupScheduler
    leases,              \* placement_group_leasing_in_progress_
    index,               \* committed_bundle_location_index_
    releasing,           \* nodes_of_releasing_unused_bundles_
    \* the table storage
    storage,             \* operations in flight, carried out in order
    table,               \* PlacementGroupTable
    restarts,
    remove_requested,    \* history: the groups some client asked to remove
    commit_failed,       \* history: the bundles whose commit once failed
    \* the cluster
    alive,               \* alive_nodes_ of GcsNodeManager
    joined,              \* the nodes that ever registered
    up,                  \* the raylets that run
    raylets,             \* the bundles of each raylet
    requests,            \* rpcs to each raylet, handled in order
    replies              \* replies to the GCS, in any order

managerVars == <<registered, state, node_of, pending_first, pending_later,
                 infeasible, in_progress, register_callbacks, create_callbacks>>
queueVars == <<pending_first, pending_later, infeasible, in_progress>>
schedulerVars == <<leases, index, releasing>>
storageVars == <<storage, table, restarts, remove_requested, commit_failed>>
nodeVars == <<alive, joined, up>>
vars == <<managerVars, schedulerVars, storageVars, nodeVars, raylets, requests, replies>>

States == {"PENDING", "CREATED", "RESCHEDULING", "REMOVED"}
Lease == [state : {"PREPARING", "COMMITTING", "CANCELLED"},
          locations : SUBSET Location,   \* bundle_locations_
          waiting : SUBSET Node,         \* nodes whose reply is outstanding
          prepared : SUBSET Location,    \* preparing_bundle_locations_
          uncommitted : SUBSET Location] \* uncommitted_bundle_locations_
Request == [type : {"Prepare", "Commit", "Cancel", "Release"}, bundles : SUBSET Bundle]
Reply == [type : {"Prepare", "Commit", "Release"}, node : Node,
          bundles : SUBSET Bundle, ok : BOOLEAN]
Operation == [op : {"Register", "Created", "Removed", "Schedule", "Get"},
              group : Group, locations : SUBSET Location]
Entry == [state : {"NONE", "PENDING", "CREATED", "REMOVED"}, locations : SUBSET Location]

Op(o, p, locs) == [op |-> o, group |-> p, locations |-> locs]

\* The locations a group object records, given the node_of of its bundles.
Placed(p, nodes) ==
    {l \in Location : l.bundle \in BundlesOf(p) /\ nodes[l.bundle] = l.node}

----------------------------------------------------------------------------
(* Requests *)

Send(reqs, t, locs) ==
    [n \in Node |-> IF On(locs, n) = {} THEN reqs[n]
                    ELSE Append(reqs[n], [type |-> t, bundles |-> On(locs, n)])]

\* CancelResourceReserve, one request per bundle, only to nodes known to be alive.
Cancel(reqs, locs) ==
    [n \in Node |->
        IF n \notin alive THEN reqs[n]
        ELSE reqs[n] \o SetToSeq({[type |-> "Cancel", bundles |-> {b}] : b \in On(locs, n)})]

----------------------------------------------------------------------------
(* The queue of groups to schedule *)

\* AddToPendingQueue with a rank that is a time
Queued(later, p) == [later EXCEPT ![p] = @ + 1]

\* RemoveFromPendingQueue
WithoutFirst(p) == RemoveFirst(pending_first, p)
WithoutLater(p) ==
    IF p \in ToSet(pending_first) \/ pending_later[p] = 0 THEN pending_later
    ELSE [pending_later EXCEPT ![p] = @ - 1]

\* A feasible failure of a group in state s, given what the queue holds: a
\* rescheduled group goes to the front, any other one waits for its backoff.
OnPlacementGroupCreationFailed(p, s, first, later) ==
    /\ pending_first' = IF s = "RESCHEDULING" THEN Append(first, p) ELSE first
    /\ pending_later' = IF s = "RESCHEDULING" THEN later ELSE Queued(later, p)
    /\ in_progress' = None

\* Where ClusterResourceScheduler may put the unplaced bundles of a group. Which
\* node has room is not modelled: the raylets may refuse.
SchedulingResults(p) ==
    LET unplaced == {b \in BundlesOf(p) : node_of'[b] = None}
    IN  {{[bundle |-> b, node |-> f[b]] : b \in unplaced} : f \in [unplaced -> alive']}

NewLease(locs) ==
    [state |-> "PREPARING", locations |-> locs, waiting |-> {l.node : l \in locs},
     prepared |-> {}, uncommitted |-> {}]

\* No group is prepared before every node has released its unused bundles.
MayPrepare_Always == TRUE
MayPrepare == releasing' = {}

\* ScheduleUnplacedBundles for a group just taken from the queue.
ScheduleUnplacedBundles(p, first, later, infs) ==
    \/ /\ OnPlacementGroupCreationFailed(p, state'[p], first, later)
       /\ infeasible' = infs
       /\ UNCHANGED <<leases, requests>>
    \/ /\ MayPrepare
       /\ infeasible' = infs \cup {p}
       /\ pending_first' = first /\ pending_later' = later
       /\ UNCHANGED <<in_progress, leases, requests>>
    \/ /\ MayPrepare
       /\ \E locs \in SchedulingResults(p) :
            /\ leases' = [leases EXCEPT ![p] = NewLease(locs)]
            /\ requests' = Send(requests, "Prepare", locs)
       /\ in_progress' = p
       /\ infeasible' = infs
       /\ pending_first' = first /\ pending_later' = later

\* SchedulePendingPlacementGroups at the end of a handler that left the given
\* queue. Groups of rank 0 are due at once, the others when their time has come,
\* in whatever order; groups no longer registered are dropped on the way.
SchedulePendingPlacementGroups(first, later, infs) ==
    LET k == SelectInSeq(first, LAMBDA p : p \in registered')
    IN  \/ /\ in_progress # None
           /\ pending_first' = first /\ pending_later' = later /\ infeasible' = infs
           /\ UNCHANGED <<in_progress, leases, requests>>
        \/ /\ in_progress = None /\ k > 0
           /\ ScheduleUnplacedBundles(first[k], SubSeq(first, k + 1, Len(first)), later, infs)
        \/ /\ in_progress = None /\ k = 0
           /\ \E dropped \in SUBSET {p \in Group \ registered' : later[p] > 0} :
                LET rest == [p \in Group |-> IF p \in dropped THEN later[p] - 1 ELSE later[p]]
                IN  \/ /\ pending_first' = <<>> /\ pending_later' = rest /\ infeasible' = infs
                       /\ UNCHANGED <<in_progress, leases, requests>>
                    \/ \E p \in registered' :
                         /\ rest[p] > 0
                         /\ ScheduleUnplacedBundles(p, <<>>, [rest EXCEPT ![p] = @ - 1], infs)

\* Tick, and the call posted after every scheduling.
Tick ==
    /\ UNCHANGED <<registered, state, node_of, register_callbacks, create_callbacks,
                   index, releasing, storageVars, nodeVars, raylets, replies>>
    /\ SchedulePendingPlacementGroups(pending_first, pending_later, infeasible)

----------------------------------------------------------------------------
(* Requests of clients *)

\* HandleCreatePlacementGroup. A request sent again for a registered group only
\* gets a reply. A client creates a group once, again if the GCS lost it.
RegisterPlacementGroup(p) ==
    /\ p \notin registered \cup remove_requested
    /\ registered' = registered \cup {p}
    /\ state' = [state EXCEPT ![p] = "PENDING"]
    /\ register_callbacks' = register_callbacks \cup {p}
    /\ pending_later' = Queued(pending_later, p)
    /\ storage' = Append(storage, Op("Register", p, {}))
    /\ UNCHANGED <<node_of, pending_first, infeasible, in_progress, create_callbacks,
                   schedulerVars, table, restarts, remove_requested, commit_failed, nodeVars, raylets, requests, replies>>

MarkScheduleCancelled(p) ==
    IF in_progress = p THEN [leases EXCEPT ![p].state = "CANCELLED"] ELSE leases

\* The cancellations of DestroyPlacementGroupPreparedBundleResources and of
\* DestroyPlacementGroupCommittedBundleResources, which also erases the group from ix.
DestroyPrepared(reqs, p) ==
    IF leases[p] = None THEN reqs ELSE Cancel(reqs, leases[p].prepared)

DestroyCommitted(reqs, ix, p) == Cancel(reqs, GetBundleLocations(ix, p))

DestroyBundles_PreparedOnly(p) == DestroyPrepared(requests, p)

\* DestroyPlacementGroupBundleResourcesIfExists: nothing happens, not even to the
\* prepared bundles, if the group has no entry in the index.
DestroyBundles(p) ==
    IF p \notin index.groups THEN requests
    ELSE DestroyCommitted(DestroyPrepared(requests, p), index, p)

RemovePlacementGroup(p) ==
    /\ p \in registered
    /\ remove_requested' = remove_requested \cup {p}
    /\ registered' = registered \ {p}
    /\ register_callbacks' = register_callbacks \ {p}
    /\ requests' = DestroyBundles(p)
    /\ index' = ErasePlacementGroup(index, p)
    /\ leases' = MarkScheduleCancelled(p)
    /\ pending_first' = WithoutFirst(p)
    /\ pending_later' = WithoutLater(p)
    /\ infeasible' = infeasible \ {p}
    /\ state' = [state EXCEPT ![p] = "REMOVED"]
    /\ storage' = Append(storage, Op("Removed", p, {}))
    /\ UNCHANGED <<node_of, in_progress, create_callbacks, releasing, table, restarts, commit_failed,
                   nodeVars, raylets, replies>>

WaitPlacementGroup_EvenCreated(p) ==
    /\ p \in registered \cap (Waited \ create_callbacks)
    /\ create_callbacks' = create_callbacks \cup {p}
    /\ UNCHANGED <<registered, state, node_of, queueVars, register_callbacks, schedulerVars,
                   storageVars, nodeVars, raylets, requests, replies>>

\* WaitPlacementGroup: a group that is not registered is looked up in the table.
\* One of several callers waiting for the same group stands for all of them.
WaitPlacementGroup(p) ==
    /\ p \in Waited \ create_callbacks
    /\ \/ /\ p \notin registered
          /\ Op("Get", p, {}) \notin ToSet(storage)
          /\ storage' = Append(storage, Op("Get", p, {}))
          /\ UNCHANGED create_callbacks
       \/ /\ p \in registered /\ state[p] # "CREATED"
          /\ create_callbacks' = create_callbacks \cup {p}
          /\ UNCHANGED storage
    /\ UNCHANGED <<registered, state, node_of, queueVars, register_callbacks, schedulerVars,
                   table, restarts, remove_requested, commit_failed, nodeVars, raylets, requests, replies>>

----------------------------------------------------------------------------
(* The coordinator *)

AllPrepareRequestsSuccessful(l) ==
    l.prepared = l.locations /\ l.state # "CANCELLED"

OnAllBundlePrepareRequestReturned(p, l) ==
    \/ /\ ~AllPrepareRequestsSuccessful(l)
       /\ requests' = Cancel(requests, l.prepared)
       /\ leases' = [leases EXCEPT ![p] = None]
       /\ OnPlacementGroupCreationFailed(p, state[p], pending_first, pending_later)
       /\ UNCHANGED <<node_of, infeasible, storage>>
    \/ /\ AllPrepareRequestsSuccessful(l)
       /\ node_of' = [b \in Bundle |-> IF \E x \in l.prepared : x.bundle = b
                                       THEN (CHOOSE x \in l.prepared : x.bundle = b).node
                                       ELSE node_of[b]]
       /\ storage' = Append(storage, Op("Schedule", p, {}))
       /\ leases' = [leases EXCEPT ![p] = l]
       /\ UNCHANGED <<queueVars, requests>>

\* The reply to PrepareBundleResources, the group being p and the lease l once
\* MarkPrepareRequestReturned has recorded it.
PrepareReturned(r) ==
    /\ r.type = "Prepare"
    /\ \E p \in Group : r.bundles \subseteq BundlesOf(p) /\
         LET granted == {x \in leases[p].locations : r.ok /\ x.node = r.node}
             l == [leases[p] EXCEPT !.waiting = @ \ {r.node}, !.prepared = @ \cup granted]
         IN  IF l.waiting = {} THEN OnAllBundlePrepareRequestReturned(p, l)
             ELSE /\ leases' = [leases EXCEPT ![p] = l]
                  /\ UNCHANGED <<node_of, queueVars, requests, storage>>
    /\ UNCHANGED <<registered, state, index, releasing, commit_failed>>

OnPlacementGroupCreationSuccess(p, ops) ==
    /\ state' = [state EXCEPT ![p] = "CREATED"]
    /\ storage' = Append(ops, Op("Created", p, Placed(p, node_of')))
    /\ in_progress' = None

LeaseCancelled_Never(l) == FALSE
LeaseCancelled(l) == l.state = "CANCELLED"

\* Both the committed and the failed bundles of the lease l enter the index. A
\* cancelled lease is undone; the bundles that failed to commit lose their node.
OnAllBundleCommitRequestReturned(p, l, ops) ==
    LET committed == AddBundleLocations(index, p, l.prepared)
    IN  /\ leases' = [leases EXCEPT ![p] = None]
        /\ \/ /\ LeaseCancelled(l)
              /\ requests' = DestroyCommitted(requests, committed, p)
              /\ index' = ErasePlacementGroup(committed, p)
              /\ OnPlacementGroupCreationFailed(p, state[p], pending_first, pending_later)
              /\ storage' = ops
              /\ UNCHANGED <<state, node_of, commit_failed>>
           \/ /\ ~LeaseCancelled(l) /\ l.uncommitted # {}
              /\ index' = committed
              /\ node_of' = [b \in Bundle |-> IF \E x \in l.uncommitted : x.bundle = b
                                              THEN None ELSE node_of[b]]
              /\ state' = [state EXCEPT ![p] = "RESCHEDULING"]
              /\ commit_failed' = commit_failed \cup {x.bundle : x \in l.uncommitted}
              /\ OnPlacementGroupCreationFailed(p, "RESCHEDULING", pending_first, pending_later)
              /\ storage' = ops
              /\ UNCHANGED requests
           \/ /\ ~LeaseCancelled(l) /\ l.uncommitted = {}
              /\ index' = committed
              /\ UNCHANGED <<node_of, pending_first, pending_later, requests, commit_failed>>
              /\ OnPlacementGroupCreationSuccess(p, ops)
        /\ UNCHANGED infeasible

CommitRequested_All(nodes) == nodes
CommitRequested(nodes) == nodes \cap alive

\* The callback of the PlacementGroupScheduleTable. A dead node fails at once.
CommitAllBundles(p, ops) ==
    LET nodes == {x.node : x \in leases[p].prepared}
        l == [leases[p] EXCEPT !.state = IF @ = "CANCELLED" THEN @ ELSE "COMMITTING",
                               !.waiting = CommitRequested(nodes),
                               !.uncommitted = {x \in leases[p].prepared : x.node \notin alive}]
    IN  IF l.waiting = {} THEN OnAllBundleCommitRequestReturned(p, l, ops)
        ELSE /\ leases' = [leases EXCEPT ![p] = l]
             /\ requests' = Send(requests, "Commit", {x \in l.prepared : x.node \in alive})
             /\ storage' = ops
             /\ UNCHANGED <<state, node_of, queueVars, index, commit_failed>>

CommitReturned(r) ==
    /\ r.type = "Commit"
    /\ \E p \in Group : r.bundles \subseteq BundlesOf(p) /\
         LET failed == {x \in leases[p].prepared : ~r.ok /\ x.node = r.node}
             l == [leases[p] EXCEPT !.waiting = @ \ {r.node}, !.uncommitted = @ \cup failed]
         IN  IF l.waiting = {} THEN OnAllBundleCommitRequestReturned(p, l, storage)
             ELSE /\ leases' = [leases EXCEPT ![p] = l]
                  /\ UNCHANGED <<state, node_of, queueVars, index, requests, storage, commit_failed>>
    /\ UNCHANGED <<registered, releasing>>

ReleaseReturned(r) ==
    /\ r.type = "Release"
    /\ releasing' = releasing \ {r.node}
    /\ UNCHANGED <<registered, state, node_of, queueVars, leases, index, storage, requests,
                   commit_failed>>

HandleReply(r) ==
    /\ replies' = replies \ {r}
    /\ PrepareReturned(r) \/ CommitReturned(r) \/ ReleaseReturned(r)
    /\ UNCHANGED <<register_callbacks, create_callbacks, table, restarts, remove_requested,
                   nodeVars, raylets>>

----------------------------------------------------------------------------
(* The table storage completes its oldest operation and runs the callback *)

StorageDone ==
    LET o == Head(storage)
        p == o.group
        rest == Tail(storage)
        Put(s) == table' = [table EXCEPT ![p] = [state |-> s, locations |-> o.locations]]
    IN  /\ storage # <<>>
        /\ \/ /\ o.op = "Register" /\ Put("PENDING") /\ storage' = rest
              /\ register_callbacks' = register_callbacks \ {p}
              /\ UNCHANGED <<registered, state, node_of, create_callbacks, index, alive, commit_failed>>
              /\ IF p \in registered
                 THEN /\ UNCHANGED releasing
                      /\ SchedulePendingPlacementGroups(pending_first, pending_later, infeasible)
                 ELSE UNCHANGED <<queueVars, leases, releasing, requests>>
           \/ /\ o.op \in {"Created", "Removed"} /\ storage' = rest
              /\ Put(IF o.op = "Created" THEN "CREATED" ELSE "REMOVED")
              /\ create_callbacks' = create_callbacks \ {p}
              /\ UNCHANGED <<registered, state, node_of, queueVars, register_callbacks,
                             schedulerVars, alive, requests, commit_failed>>
           \/ /\ o.op = "Schedule"
              /\ CommitAllBundles(p, rest)
              /\ UNCHANGED <<table, registered, register_callbacks, create_callbacks,
                             releasing, alive>>
           \/ /\ o.op = "Get" /\ storage' = rest
              /\ create_callbacks' = IF table[p].state = "NONE" THEN create_callbacks \cup {p}
                                     ELSE create_callbacks
              /\ UNCHANGED <<table, registered, state, node_of, queueVars, register_callbacks,
                             schedulerVars, alive, requests, commit_failed>>
        /\ UNCHANGED <<restarts, remove_requested, joined, up, raylets, replies>>

----------------------------------------------------------------------------
(* Nodes *)

\* Nodes that died, or that the GCS takes for dead.
Lost == joined \ (up \cap alive)
MayFail == Cardinality(Lost) + restarts < MaxFaults
MayLose(n) == n \in Lost \/ MayFail

\* The process of a raylet dies; the GCS finds out later.
RayletDies(n) ==
    /\ n \in up /\ MayLose(n)
    /\ up' = up \ {n}
    /\ UNCHANGED <<managerVars, schedulerVars, storageVars, alive, joined, raylets,
                   requests, replies>>

Rescheduled_All(groups) == groups

\* The groups a death puts at the front of the queue.
Rescheduled(groups) == {p \in groups : state[p] # "RESCHEDULING"}

\* GetBundlesOnNode, those of registered groups; it also erases the node.
GetBundlesOnNode(n) == {b \in index.on_node[n] : b[1] \in registered}

\* GcsNodeManager::RemoveNode and OnNodeDead: no heartbeat, though the raylet may run.
OnNodeDead(n) ==
    LET bundles == GetBundlesOnNode(n)
        groups == {b[1] : b \in bundles}
    IN  /\ n \in alive /\ MayLose(n)
        /\ alive' = alive \ {n}
        /\ index' = EraseNode(index, n)
        /\ node_of' = [b \in Bundle |-> IF b \in bundles THEN None ELSE node_of[b]]
        /\ state' = [p \in Group |-> IF p \in groups THEN "RESCHEDULING" ELSE state[p]]
        /\ UNCHANGED <<registered, register_callbacks, create_callbacks, releasing,
                       storageVars, joined, up, raylets, replies>>
        /\ \E order \in SetToSeqs(Rescheduled(groups)) :
             SchedulePendingPlacementGroups(pending_first \o order, pending_later, infeasible)

\* A node registers: OnNodeAdd retries the infeasible groups.
OnNodeAdd(n) ==
    /\ n \notin joined
    /\ joined' = joined \cup {n} /\ up' = up \cup {n} /\ alive' = alive \cup {n}
    /\ UNCHANGED <<registered, state, node_of, register_callbacks, create_callbacks,
                   index, releasing, storageVars, raylets, replies>>
    /\ SchedulePendingPlacementGroups(
           pending_first,
           [p \in Group |-> pending_later[p] + IF p \in infeasible THEN 1 ELSE 0],
           {})

----------------------------------------------------------------------------
(* The raylet of a node carries out its oldest request *)

Answer(n, r, ok) ==
    IF r.type = "Cancel" THEN replies
    ELSE replies \cup {[type |-> r.type, node |-> n, bundles |-> r.bundles, ok |-> ok]}

HandlePrepareBundleResources(n, r) ==
    /\ r.type = "Prepare"
    /\ \/ /\ raylets' = [raylets EXCEPT ![n] = R!PrepareBundles(@, r.bundles)]
          /\ replies' = Answer(n, r, TRUE)
       \/ \E b \in r.bundles :
            /\ raylets[n].pg_bundles[b] # "COMMITTED"
            /\ raylets' = [raylets EXCEPT ![n] =
                   R!PrepareBundlesFailed(@, {c \in r.bundles : c[2] < b[2]}, b)]
            /\ replies' = Answer(n, r, FALSE)

HandleCommitBundleResources(n, r) ==
    /\ r.type = "Commit"
    /\ raylets' = [raylets EXCEPT ![n] = R!CommitBundles(@, r.bundles)]
    /\ replies' = Answer(n, r, TRUE)

HandleCancelResourceReserve(n, r) ==
    /\ r.type = "Cancel"
    /\ \E b \in r.bundles : raylets' = [raylets EXCEPT ![n] = R!ReturnBundle(@, b)]
    /\ replies' = Answer(n, r, TRUE)

HandleReleaseUnusedBundles(n, r) ==
    /\ r.type = "Release"
    /\ raylets' = [raylets EXCEPT ![n] = R!ReturnUnusedBundle(@, r.bundles)]
    /\ replies' = Answer(n, r, TRUE)

HandleRequest(n) ==
    /\ n \in up /\ requests[n] # <<>>
    /\ LET r == Head(requests[n])
       IN  \/ HandlePrepareBundleResources(n, r) \/ HandleCommitBundleResources(n, r)
           \/ HandleCancelResourceReserve(n, r) \/ HandleReleaseUnusedBundles(n, r)
    /\ requests' = [requests EXCEPT ![n] = Tail(@)]
    /\ UNCHANGED <<managerVars, schedulerVars, storageVars, nodeVars>>

\* The rpc to a dead raylet may fail.
RpcFails(n) ==
    /\ n \notin up /\ requests[n] # <<>>
    /\ replies' = Answer(n, Head(requests[n]), FALSE)
    /\ requests' = [requests EXCEPT ![n] = Tail(@)]
    /\ UNCHANGED <<managerVars, schedulerVars, storageVars, nodeVars, raylets>>

----------------------------------------------------------------------------
(* The GCS dies and starts again from its table. What it had sent or was about *)
(* to store is lost unless it arrived before. GcsPlacementGroupManager::Initialize *)
(* asks every node to release the bundles not in the table; the call of         *)
(* SchedulePendingPlacementGroups at its end finds that outstanding and leaves  *)
(* the queue as it is.                                                          *)

InUse == UNION {table[p].locations : p \in {q \in Group : table[q].state = "CREATED"}}

ReleaseUnusedBundles ==
    /\ releasing' = alive
    /\ requests' = [n \in Node |-> IF n \in alive
                                   THEN <<[type |-> "Release", bundles |-> On(InUse, n)]>>
                                   ELSE <<>>]

\* GcsPlacementGroupScheduler::Initialize
InitialIndex == [groups |-> {l.bundle[1] : l \in InUse}, locations |-> InUse,
                 on_node |-> [n \in Node |-> On(InUse, n)]]

Restart ==
    /\ MayFail /\ alive # {}
    /\ restarts' = restarts + 1
    /\ registered' = {p \in Group : table[p].state \in {"PENDING", "CREATED"}}
    /\ state' = [p \in Group |-> IF table[p].state = "NONE" THEN "PENDING" ELSE table[p].state]
    /\ node_of' = [b \in Bundle |-> IF \E l \in InUse : l.bundle = b
                                    THEN (CHOOSE l \in InUse : l.bundle = b).node ELSE None]
    /\ pending_first' = <<>>
    /\ pending_later' = [p \in Group |-> IF table[p].state = "PENDING" THEN 1 ELSE 0]
    /\ infeasible' = {} /\ in_progress' = None
    /\ register_callbacks' = {} /\ create_callbacks' = {}
    /\ leases' = [p \in Group |-> None]
    /\ index' = InitialIndex
    /\ ReleaseUnusedBundles
    /\ storage' = <<>> /\ replies' = {}
    /\ UNCHANGED <<table, remove_requested, commit_failed, nodeVars, raylets>>

----------------------------------------------------------------------------
Init ==
    /\ registered = {} /\ infeasible = {}
    /\ state = [p \in Group |-> "PENDING"]
    /\ node_of = [b \in Bundle |-> None]
    /\ pending_first = <<>> /\ pending_later = [p \in Group |-> 0]
    /\ in_progress = None
    /\ register_callbacks = {} /\ create_callbacks = {}
    /\ leases = [p \in Group |-> None]
    /\ index = EmptyIndex
    /\ releasing = {}
    /\ storage = <<>> /\ restarts = 0 /\ remove_requested = {} /\ commit_failed = {}
    /\ table = [p \in Group |-> [state |-> "NONE", locations |-> {}]]
    /\ alive = InitialNodes /\ joined = InitialNodes /\ up = InitialNodes
    /\ raylets = [n \in Node |-> R!NoBundles]
    /\ requests = [n \in Node |-> <<>>] /\ replies = {}

Next ==
    \/ \E p \in Group :
         RegisterPlacementGroup(p) \/ RemovePlacementGroup(p) \/ WaitPlacementGroup(p)
    \/ Tick \/ StorageDone \/ Restart
    \/ \E r \in replies : HandleReply(r)
    \/ \E n \in Node :
         \/ OnNodeDead(n) \/ OnNodeAdd(n) \/ RayletDies(n)
         \/ HandleRequest(n) \/ RpcFails(n)

Spec == Init /\ [][Next]_vars

\* Live raylets answer, replies and storage callbacks run: the event loops of the
\* GCS and of the raylets serve what is queued. Nothing is assumed of a call to a
\* raylet that is dead: it has no timeout, and may fail or never be answered.
Fairness ==
    /\ WF_vars(StorageDone)
    /\ WF_vars(\E r \in replies : HandleReply(r))
    /\ \A n \in Node : WF_vars(HandleRequest(n))

FairSpec == Spec /\ Fairness

----------------------------------------------------------------------------
(* Properties *)

\* Every variable has its type; a group is queued finitely often.
TypeOK ==
    /\ registered \subseteq Group /\ infeasible \subseteq Group
    /\ register_callbacks \subseteq Group /\ create_callbacks \subseteq Group
    /\ state \in [Group -> States]
    /\ node_of \in [Bundle -> Node \cup {None}]
    /\ pending_first \in Seq(Group) /\ pending_later \in [Group -> Nat]
    /\ in_progress \in Group \cup {None}
    /\ leases \in [Group -> Lease \cup {None}]
    /\ index \in BundleIndex
    /\ storage \in Seq(Operation) /\ table \in [Group -> Entry]
    /\ restarts \in 0..MaxFaults /\ remove_requested \subseteq Group
    /\ commit_failed \subseteq Bundle
    /\ alive \subseteq joined /\ up \subseteq joined /\ joined \subseteq Node
    /\ releasing \subseteq Node
    /\ raylets \in [Node -> R!ResourceManager]
    /\ requests \in [Node -> Seq(Request)] /\ replies \subseteq Reply

Times(p) ==
    Cardinality({i \in 1..Len(pending_first) : pending_first[i] = p}) + pending_later[p]
    + (IF p \in infeasible THEN 1 ELSE 0) + (IF in_progress = p THEN 1 ELSE 0)

\* A registered group that is not created is in exactly one place that will lead
\* to its scheduling: the queue, the infeasible groups, or the lease in progress;
\* a created one is in none. A group in no place is never created, one in two
\* places fails the RAY_CHECK of ScheduleUnplacedBundles.
NeverForgotten ==
    \A p \in registered : Times(p) = IF state[p] = "CREATED" THEN 0 ELSE 1

\* A bundle that the raylet of a live node holds is known to the GCS: a request for
\* it or its reply is on the way, its lease has it, or the index has it on that node,
\* through removals, failed or cancelled scheduling, node deaths and restarts. (Being
\* in the index under its node does not mean that a removal finds it under its group,
\* which keeps the node of a commit that failed.)
EveryBundleKnown ==
    \A n \in alive \cap up : \A b \in R!Held(raylets[n]) :
        \/ \E i \in 1..Len(requests[n]) :
              requests[n][i].type = "Release" \/ b \in requests[n][i].bundles
        \/ \E r \in replies : r.node = n /\ b \in r.bundles
        \/ leases[b[1]] # None /\ [bundle |-> b, node |-> n] \in leases[b[1]].prepared
        \/ b \in index.on_node[n]

\* A bundle is never committed on two live nodes, though it is prepared again
\* elsewhere while earlier cancellations are on the way, and after a restart. (A
\* commit that failed leaves its node in the index; if the GCS then learns of the
\* death of that node, it moves the bundle though it is committed elsewhere by now.)
CommittedOnce ==
    \A m, n \in alive \cap up : \A b \in Bundle \ commit_failed :
        /\ raylets[m].pg_bundles[b] = "COMMITTED"
        /\ raylets[n].pg_bundles[b] = "COMMITTED"
        => m = n

\* A created group has each bundle it places on a live node committed there, not
\* only prepared or cancelled by a late request of an earlier attempt. (A group that
\* a client asked to remove just before a restart may come back without bundles,
\* until the client asks again.)
CreatedIsCommitted ==
    \A p \in registered \ remove_requested : state[p] = "CREATED" =>
        \A l \in Placed(p, node_of) :
            l.node \in alive \cap up => raylets[l.node].pg_bundles[l.bundle] = "COMMITTED"

\* A caller waiting for a group waits for something still to come: the creation of
\* the group, or the storage callback that wakes the callers.
WaitersWillWake ==
    \A p \in create_callbacks :
        \/ p \in registered /\ state[p] # "CREATED"
        \/ p \notin registered /\ table[p].state = "NONE"
        \/ \E i \in 1..Len(storage) : storage[i].group = p /\ storage[i].op \in {"Created", "Removed"}

\* A removed group stays removed in the table: no scheduling that was under way at
\* the removal stores it as created again, and a restart does not revive it.
RemovedIsFinal ==
    [][\A p \in Group : table[p].state = "REMOVED" =>
          table'[p].state = "REMOVED" /\ p \notin registered']_vars

\* Scheduling a group ends, with success or failure, whatever nodes die or are taken
\* for dead meanwhile, unless it waits for a call to a raylet that died and is never
\* answered. Groups are scheduled one at a time: one that never ends blocks all others.
UnansweredCall(p) ==
    \E n \in Node \ up : \E i \in 1..Len(requests[n]) :
        requests[n][i].type \in {"Prepare", "Commit"} /\ requests[n][i].bundles \subseteq BundlesOf(p)

SchedulingEnds == \A p \in Group : in_progress = p ~> in_progress # p \/ UnansweredCall(p)

============================================================================
