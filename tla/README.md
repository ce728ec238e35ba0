# A TLA+ verification of Ray's protocols

Ray runs tasks and actors on a cluster. This directory specifies parts of it in
which several processes, callbacks or messages interleave: of the C++ core
(`src/src/ray/`) actor tasks, pubsub, object pushes and placement groups, and of
the Python code (`src/python/ray/`) the Ray Client session and the control plane
and router of Serve. It checks them with TLC on small instances and proves the
main safety properties of seven components, and one refinement, with TLAPS for
every value of the constants.
`PROJECT.json` is the index: components, runs, mutants, the map from definitions
to source lines, findings, hazards and theorems.

## The system

| part (under `src/src/ray/`, or `src/python/ray/` where marked) | state | operations | what is hard | status |
|---|---|---|---|---|
| `object_manager/push_manager` | active pushes, chunks in flight and remaining | StartPush, OnChunkComplete | duplicate requests for a half-done push, the limit | modelled, proved |
| `core_worker/transport/actor_scheduling_queue` | next sequence number, queued requests | Add, OnWaitComplete, timeout, replies | reordering, resends, arguments to wait for | modelled, proved |
| `core_worker/transport/direct_actor_task_submitter`, `sequential_actor_submit_queue`, `rpc/worker/core_worker_client` | a client queue per actor, callbacks in flight, positions | submit, resolve, push, reply, connect, disconnect, retry, time out | restart of the actor, stale notifications, retries | modelled, proved |
| `pubsub/publisher`, `pubsub/subscriber` | index, mailboxes, held polls; subscriptions, commands, poll | (un)subscribe, publish, long poll, failure, timer | independent batches and polls, timeouts, deaths | modelled, proved |
| `gcs/gcs_server/gcs_placement_group_{manager,scheduler}`, `common/bundle_location_index`, `raylet/placement_group_resource_manager` | groups, queue, leases, index, table; bundles per raylet | register, schedule, prepare, commit, cancel, remove, wait, node events, restart | two-phase reservation over failing nodes and a restarting GCS | modelled, checked |
| `util/client/dataclient.py`, `server/dataservicer.py`, `common.py` (Python) | outstanding requests, request queue, response cache, streams | blocking and asynchronous requests, acknowledge, reconnect, close | resent requests, handlers of broken streams beside the new one, ids that roll over | modelled, checked; id order proved |
| `serve/_private/deployment_state.py`, `replica.py` (Python) | target, checkpoint, replicas by state and version | deploy, delete, autoscale, update, recover, shutdown | controller crashes, failed writes, overlapping rollouts | modelled, proved |
| `serve/_private/long_poll.py`, `router.py` (Python) | snapshot ids, polls; replicas and queries in flight | notify, listen, time out, reset; update, assign, wait | colliding ids after a restart, one event shared by all waiters | modelled, proved |
| `object_manager/object_buffer_pool`, `pull_manager` | buffers and chunks, bundles of pulls, quota | create, write, abort; pull, cancel, retry | lock released during allocation, the memory limit | not modelled |
| `gcs/gcs_server/gcs_actor_{manager,scheduler}` | actors by state, creations in flight | register, create, destroy, reconstruct | death during creation | the states published, in `ActorTasks`; else not modelled |
| `core_worker/reference_count`, `task_manager`, `object_recovery_manager`, `direct_task_transport` | references, borrowers, lineage, leases | add, remove, borrow, merge, retry | borrowers of borrowers, lost messages | not modelled |
| `raylet/local_object_manager`, `dependency_manager`, `wait_manager`, `plasma/create_request_queue`, `ray_syncer` | pinned and spilled objects, waiters, requests, snapshots | pin, spill, free; wait; create; broadcast | freeing during a spill, grace periods | not modelled |
| schedulers, worker pool, GCS tables and storage, autoscaler, language front ends, other libraries | | | policies, I/O, applications | not modelled |

How they interact: a core worker submits actor tasks to another core worker; the
GCS tells it through pubsub where the actor lives. Reference counting and object
locations use the same pubsub between workers and raylets. Raylets move objects
with pull requests that lead to pushes. The GCS reserves bundles of resources on
raylets for placement groups and persists its tables, from which it restarts.
A Ray Client program outside the cluster reaches it over one gRPC data stream.
Serve's controller, an actor, reconciles replicas, which are actors too, with the
deployed targets, and announces the running ones to the routers over a long poll.

## Modules

| module | models |
|---|---|
| `PushManager` | `PushManager` and the calls `ObjectManager::PushObjectInternal` makes |
| `ActorSchedulingQueue` | the receiver of one caller's tasks in one process of the actor |
| `SequentialActorSubmitQueue` | the submit queue as operators on a record (no variables) |
| `ActorTasks` | caller, network, GCS notices and actor; contains an instance of `ActorSchedulingQueue` as `Actor` |
| `Publisher` | the publisher with arbitrary, well-behaved subscribers |
| `Pubsub` | publisher (instance `Pub`) and subscribers, with network, deaths and time |
| `BundleLocationIndex`, `PlacementGroupResourceManager` | the two data structures, as operators |
| `PlacementGroups` | GCS manager and scheduler, table storage, raylets, rpcs |
| `RequestIds`, `OrderedResponseCache` | the ids of requests and their order; the server's response cache |
| `DataClient`, `DataServicer` | the client and the server of the data stream |
| `RayClient` | both with the stream between them |
| `SessionCalls` | the abstract session: what `RayClient` promises its application |
| `ReplicaStates` | a Serve replica and its actor, as operators on a record |
| `DeploymentState` | the reconciler of one deployment, its checkpoint and its actors |
| `LongPoll`, `ReplicaSet` | host and client of the long poll; the router's replicas and queries |
| `ServeRouting` | long poll, router, replicas and a reduced controller |
| `MC*` | constants for TLC |
| `ComponentProofs` | theorems on `PushManager`, `ActorSchedulingQueue` and `RequestIds` |
| `ServeProofs`, `RoutingProofs` | theorems on `DeploymentState`; on `ServeRouting` |
| other `*Proofs` | theorems on the module of that name; `ActorOrderProofs` goes on from `ActorTasksProofs`, `PubsubDeliveryProofs` from `PubsubProofs` |

Variables have the names of the members they stand for, without the trailing
underscore; actions have the names of the handlers. Variables marked *history*
in their comments record the past for a property. Only the environment's choices
read them (a request object is delivered once, a client does not create a group
it has asked to remove); counters are read only to bound a behaviour. An operator
with a suffix (`Sent_UpToItself`) is a mutant: a plausible mistake in the code,
used by no specification.

**PushManager.** `push_info` maps a node and object to a push state. A handler
runs to completion on the raylet's event loop, so each is one action, the
scheduling loop at its end included. A request for an active push resets it and
replaces its send function; sends of the earlier one still complete. The code
visits the hash map in an unspecified order; the model takes every outcome of
the loop.

**ActorSchedulingQueue.** `Add` covers the receipt, the cancellation of requests
the client has already processed, and the hand-over of every request that became
runnable. `OnSequencingWaitTimeout` gives up the missing numbers. It is posted by
`TimerExpires` and runs later, also when the timer was cancelled or set again in
between, which the code does not check. A second expiry while a first handler is
still queued is left out.

**ActorTasks.** One caller and one actor that may crash and be restarted up to
`MaxRestarts` times. `notices` is the set of states the GCS published: each can
be seen late, more than once or after a newer one, because the code itself
discards old ones. `Crash` and `Start` publish what `ReconstructActor` and
`OnActorCreationSuccess` do. `RpcFails` is the failure of a call to a dead process, or a
lost one to a live process (bounded by `MaxFaults`).

**Publisher, Pubsub.** A message is its channel, key and number. A poll is held,
answered or lost; a poll that failed may still arrive (`late_poll`). `idle` says
that the subscriber timeout has passed, so that real time is a choice, but for
one assumption: a poll or reply is on the wire for less than that timeout. A
command batch fails only when the publisher has died, which is what the code takes
its failure to mean (`subscriber.cc:457`).
`Publisher` lets its environment do all that subscribers may do, under the
contract that nobody subscribes to a channel both as a whole and by key
(`WholeChannels`). `PublisherRefined` shows that the composed system keeps this
contract: every step of `Pubsub` is a step of `Publisher` or leaves it alone, so
what is proved of `Publisher` holds in the composition.

**PlacementGroups.** Rpcs to one raylet are handled in order, replies in any
order. An rpc fails only when the raylet is dead, and may then also never be
answered: the calls have no timeout. The GCS may take a running
raylet for dead. A storage operation takes effect together with its callback, in
the order of issue; a restart drops what is in flight and reloads the table, while
the set of alive nodes is kept. Where a bundle fits, and whether a raylet has
the resources, are free choices.

**RayClient.** The data thread, the callers and one handler per stream
(`handler[g]`, with its local variables as fields) interleave. When the stream
breaks, what is on the wire is lost, the old handler goes on until it notices,
and the next stream sends the outstanding requests again. The refinement mapping
to `SessionCalls` takes the requests made, the reads among them, the requests
executed, and the ids answered and failed.

**DeploymentState.** `update()` is one action: the control loop is a coroutine
without an await inside it. Its parts are functions from one assignment of
replicas to the next, in the order of the code (wrong versions, scaling, checks,
stops, announcement, status). What a health check or a recovery call has
reported by then (`noticed`), which deadlines have passed (`late`) and whether
slow starts are warned of (`warn`) are choices of the environment. A deployed
info may leave its version open, and then gets a code unlike any other, and may
have no `user_config`, and then a replica that is reconfigured keeps its version.
`checkpoint` is what the key-value store holds. A write that fails may have been
made all the same (`WriteFails`). `accepted` holds the target of the last call
that wrote it and returned, and those asked for since by calls that failed or
were taken for redundant. A crash keeps the actors and the checkpoint and loses
the rest.

**ReplicaSet.** The keys of `in_flight_queries` are `RunningReplicaInfo`s with an
actor handle in them, and a handle that came over the long poll equals no other.
So each announcement replaces all keys and forgets all queries in flight, also
when it names the replicas the router knows. A query that finds no room waits for
the refs in flight and for `config_updated_event`; the wait for the event is an
asyncio task that starts in a later step (`entering`, then `EventWaitStarts`).

**ServeRouting.** What runs between two awaits is one step. The controller is
reduced to changes of its RUNNING set, each with its notification; that the
reconciler does notify is `RunningIsAnnounced` of `DeploymentState`, in the
direction that matters for requests (see the observations below).

## Runs

| run | instance | what it shows |
|---|---|---|
| `push_manager` | 2 nodes, objects of 2 and 3 chunks, limit 3, 3 requests | completions find their push (`CompletionFindsPush`), the limit is kept and the counters are exact (`FlowControl`), no chunk is missed (`EveryChunkIsSent`), pushes finish (`PushesFinish`) |
| `actor_scheduling_queue` | 7 requests with 4 numbers, 3 resent | in order and once (`StartsInOrder`), one reply (`OneReplyPerRequest`), everything is answered (`EveryRequestAnswered`) |
| `actor_retries` | 2 tasks, 1 retry each, 1 restart, 1 lost call, 2 calls in flight, dependencies may fail | a pending task is in exactly one place (`PendingTaskInOnePlace`), positions never pass a pending task (`PositionsAhead`), order per incarnation (`TasksStartInOrder`, `NoOvertaking`) |
| `actor_settle` | 2 tasks, 0 or 1 retries, 1 restart, 1 call in flight | `CompletedExactly`, and every task gets a result (`EveryTaskSettles`) |
| `publisher` | 2 subscribers, 2 channels, 1 key, batch 1, buffer 2, 3 messages | the index agrees (`IndexConsistent`), no mail behind a held poll (`NoMailWhilePolling`) |
| `pubsub` | 1 subscriber, 1 channel, 1 key, 2 messages, 3 commands, 1 failed poll, deaths | `OnePoll`, `SubscriptionsAgree`, `NothingLost`, refinement of `Publisher` (`PublisherRefined`); `Delivered`, `KeySubscriptionsEnd`, `DeadForgotten` |
| `placement_groups` | 2 nodes (1 joins later), 1 group of 2 bundles, 2 faults | `EveryBundleKnown`, `CommittedOnce`, `CreatedIsCommitted`, `WaitersWillWake`, `RemovedIsFinal` |
| `placement_queue` | 2 nodes, 2 groups of 1 bundle, 1 fault | each group waits in one place (`NeverForgotten`), scheduling ends (`SchedulingEnds`) |
| `ray_client` | 2 requests of 1 or 2 chunks, ids that roll over, acknowledgement of each response, 1 broken stream, 1 competing client, close at any time | the session implements `SessionCalls` (`CallsRefined`), what is resent is still cached (`RetryIsAnswered`), every caller is answered or failed (`EveryRequestSettles`), the server forgets a closed session (`SessionEnds`) |
| `ray_client_puts` | 2 puts, the first of 2 chunks, 1 broken stream | expects a violation of `SessionSurvives`, see below |
| `serve_deployment` | a fixed version, one left open and an autoscaled one (0 to 2 replicas) without user_config, 4 tags, 4 calls, faults or crashes | `AcceptedIsTarget`, `RunningIsAnnounced`, `RolloutKeepsServing`, `Converges` |
| `serve_routing` | 2 replicas, 2 queries, 1 query at a time per replica, 1 crash, colliding snapshot ids | `BoundSinceAnnounced`, `RouterCatchesUp`, `EveryQueryAssigned` |

The bounds are the smallest with the interesting cases: two of what can be
reordered, one restart (two were not explored), limits
below the load so that queues and buffers fill, one or two faults. Two faults in
`placement_groups` allow a death followed by a restart of the GCS. In
`ray_client`, `IdMax` is 5 and the first id used is 5, so that the second request
has id 1 and the cache compares across the rollover. In `serve_deployment` four
events are enough for a deploy, a second one during its rollout, a failing actor
and a crash; four tags leave room for two replicas of each of two versions.
`FirstIds` is a single number in `serve_routing`, so that every new host starts
where the last one did and the ids collide, the worst case of the code's random
start.

The type invariants of `PushManager`, `ActorSchedulingQueue` and `Publisher`, and
`NoDoubleExecution`, `NothingSkipped`, `WorkConserving`, `NoDanglingSubscriber`,
`AnsweredOnce`, `BufferCapped` and `MailboxInOrder`, are proved and have no run.
The type invariants of `ActorTasks`, `Pubsub` and `PlacementGroups` are
definitions for use while changing the modules; no run lists them. Deadlock is
not checked where a bounded client simply stops; `publisher` checks it.

`ray_client_puts` expects a violation. A put in several chunks whose response is
lost is sent again and answered from the response cache, but its first chunks
stay in `put_request_chunk_collector`, and the next put ends the session.
`test_noisy_puts` says that such a session goes on; its puts have one chunk.

Some properties are limited on purpose. `CommittedOnce` leaves out bundles whose
commit failed before, and `CreatedIsCommitted` groups whose removal was asked for:
there the code does reach the excluded states, as their comments say.
`EveryTaskSettles` fails in the model when a call to a live actor is lost
(`MaxFaults = 1`): the late original overwrites the retry that is queued in the
actor. No text of the repository promises otherwise, so the liveness run has no
lost call. For the same reason it has no failing dependencies. `NothingLost`,
`SubscriptionsAgree` and `Delivered` hold while no poll fails at a live publisher
and the publisher does not time out a polling subscriber. `RetryIsAnswered` leaves
out responses that wait in `ready_data` for their blocked caller. `SchedulingEnds`
leaves out a group whose prepare or commit went to a raylet that is dead: nothing
bounds the wait for it. `AcceptedIsTarget` allows for redundant deploys, see the
observations. `Converges` accepts three ends that are not the target, named with
the property. `EveryQueryAssigned` says that a query that missed the event is
woken, not how soon. `serve_routing` has one query at a time per replica, so an
actor's error never stands beside a task's error (`MayHide` is empty); that case
is covered by the proof of `BoundSinceAnnounced` only.
`RouterCatchesUp` is satisfied while a new controller has announced nothing, and
`EveryQueryAssigned` while no replica is RUNNING.

## Observations

Behaviours that the models show or had to be built around. Those that quote or
cite a comment or a document contradict it; no run states them at present, so they
rest on reading the code and on the exclusions in the properties named.

- `OnClientConnected` (`sequential_actor_submit_queue.cc:83`) assumes that all
  replies of the earlier incarnation were received; `ConnectActor`
  (`direct_actor_task_submitter.cc:227`) calls it before it fails the tasks in
  flight. `PositionsAhead` holds nevertheless.
- "Last commands win" (`pubsub/README.md:42`) fails when the timer of the publisher
  (`publisher.cc:341`) erases an idle subscriber between its new subscribe command
  and the poll that follows. `SubscriptionsAgree` leaves that out.
- A node declared dead between its commit and the handling of the reply leaves a
  created group with a bundle on the dead node
  (`gcs_placement_group_manager.cc:714`), against `placement-group.rst:715`.
- The location of a failed commit stays in the index of the group
  (`gcs_placement_group_scheduler.cc:405`), so that removing the group sends the
  cancellation to the wrong node. `EveryBundleKnown` is about the index by node.
- Serve: a replica of an old version that is stopped when the number of replicas
  is right is not taken from the routers' set at once, because
  `_scale_deployment_replicas` returns False (`deployment_state.py:1220`); nor is
  one whose reconfigure fails. The stopping replica sleeps so that routers get
  the notification first (`replica.py:501`). `RunningIsAnnounced` claims the
  other direction only.
- Serve: `serve/controller.py:79` says that if a call succeeds, "the change was made
  and will be reflected in the system". `deploy` returns without a write when
  the target's info is what it is given (`deployment_state.py:1050`), and then the
  change need not be reflected: (1) while the deployment is being deleted, which
  goes on; (2) after an autoscaling whose write failed, since `autoscale` copies
  the info shallowly and leaves in it the number that was not saved; (3) after a
  write that failed towards the caller and was made all the same, if the controller
  then crashes and takes up the target of the failed call. `AcceptedIsTarget`
  accepts these outcomes.
- Serve: a replica takes a new version only with a `user_config`
  (`replica.py:206`). Under a target of the same code without one, a replica that
  has one is reconfigured again and again and never has the target's version.
- Serve: a first deploy whose checkpoint cannot be written leaves an entry without
  info, on which every control loop raises.
- Serve: a crash during a shutdown orphans the actors, since the checkpoint is
  deleted first; a crash while a replica drains brings it back as RUNNING.
- Serve: `max_concurrent_queries` (`serve/config.py:108`: "The maximum number of
  queries that will be sent to a replica of this deployment without receiving a
  response") bounds what a router has sent since the last announcement. With every
  announcement the router forgets the queries in flight (`router.py:118`) and may
  send each replica that many more. This is why `BoundSinceAnnounced` counts from
  the last announcement.
- Serve: a query that begins to wait just when the event is set, and whose event
  task starts after another query has cleared the event (`router.py:251`), sleeps
  until a ref completes or the next announcement, at the latest the one after the
  timeout of the long poll.
- Serve: `ray.get` on the finished refs of a replica stops at the first error, so
  the error of a task can hide that the actor is gone (`router.py:198`), and the
  replica stays in the set.
- Placement groups: the calls to prepare and commit have no timeout
  (`node_manager_client.h:144`, and the TODO at
  `gcs_placement_group_scheduler.cc:127`). While one to a dead raylet is not
  answered, no other group is scheduled.
- Serve: when a new controller's snapshot id equals the router's, only the reset
  after the poll's timeout gets the router the new set.

## Fairness

All fairness is weak, on what event loops, timers and the rpc layer do.
`PushManager`: the completion of a send is posted, because gRPC answers or fails
every call. `ActorSchedulingQueue`: arguments arrive, the timer fires, tasks
return. `ActorTasks`: posted handlers and timers run, messages between live
processes arrive, calls to dead ones fail, the GCS restarts the actor, and the
published states are seen. `Pubsub`: messages arrive, handlers run, calls to a
dead publisher fail, time passes. `PlacementGroups`: storage operations are done,
and requests to live raylets and replies are served; nothing is assumed of calls
to dead raylets. `RayClient`: the threads
of both processes run, the object of a get becomes ready, and a reconnection
succeeds or its grace period ends. `DeploymentState`: the control loop runs for
ever (its fair step is one in which pending health checks have answered and
deadlines have passed), and constructors and reconfigure calls return or raise.
`ServeRouting`: event loops run what is ready, a long poll times out, replicas
answer, and the control loop finds dead replicas and hears of recovering ones.
Nothing is assumed of clients, crashes or lost messages.

## Proofs

Every theorem has the form `Spec => []P` (or `[][A]_vars`) and holds for all values
of the constants that satisfy the module's named assumption. Each rests on an
inductive invariant, one lemma per action that the action keeps it, and a lemma
that combines them. "Proved" in the table above means the safety properties of the
runs; liveness is model-checked everywhere.

A large module makes the prover slow in its later steps, more so with steps for
the SMT solver than with steps for Zenon. This is why long developments are split
in two and why many leaves name Zenon although SMT would do.

- `ComponentProofs`, on `PushManager` (`PushAssumption`: objects have at least one
  chunk, the limit is positive). Shown: `TypeOK`, `CompletionFindsPush`, `FlowControl`,
  `EveryChunkIsSent`, `WorkConserving`. `CompletionFindsPush` needs the exact
  counts per push: a push is erased only when its count is zero, so nothing is
  outstanding. The counts need that sends are distinct, hence that a chunk
  outstanding for the current request is among those sent for it and that
  identifiers of requests are fresh. `Consistent` collects this as a predicate of
  the intermediate values the scheduling loop works on.
- `ComponentProofs`, on `ActorSchedulingQueue` (`RequestsAssumption`: types of the
  requests' fields). Shown: `QueueTypeOK`, `NoDoubleExecution`, `StartsInOrder`,
  `NothingSkipped`, `OneReplyPerRequest`. The strengthening says that a request
  is queued under its own number, and that the requests received are divided into
  waiting, executing, answered and superseded (`Accounted`).
- `PublisherProofs` (`PublisherAssumption`). Shown: `TypeOK`,
  `IndexConsistent`, `NoDanglingSubscriber`, `NoMailWhilePolling`,
  `AnsweredOnce`, `BufferCapped`, `MailboxInOrder`. `NoDanglingSubscriber` needs
  that nobody is both in a whole channel and in one of its keys (`KindsApart`),
  since `EraseSubscriber` stops at the first; the order of mailboxes needs that
  their messages were published (`IdsPublished`).
- `PubsubProofs`, and `PubsubDeliveryProofs` for `NothingLost`
  (`PubsubAssumption`: batches hold at least one command or message,
  `None` is neither a state of a poll nor a batch). Shown: `OnePoll`,
  `PublisherRefined`, `SubscriptionsAgree`, `NothingLost`. There is one invariant
  for each question. `PollInv` says where the poll of every subscriber is; a dead
  subscriber has none on the wire, which `OnePoll` does not say. `CommandInv` says
  that the commands queued and in flight are the subscriber's own, with one kind
  of subscription per channel; it is what `Publisher` asks of its environment, so
  the refinement follows from it step by step. With the refinement the theorems of
  `PublisherProofs` hold in the composed system. `AgreeInv` adds to
  `SubscriptionsAgree` the types of the index: `Agree` is already about the whole
  sequence of commands on the way, and each step moves a prefix of it or appends
  to it. `DeliveryInv` adds to `NothingLost` that without a failed poll no held
  poll is stale (`NoStalePoll`), because a message given to a stale one is lost.
  A batch skips emptied messages, so it is a subsequence of the mailbox; that
  batch and rest together lose no other message is `BatchSplits`.
- `ActorTasksProofs`, and `ActorOrderProofs` for the two ordering properties
  (`ActorTasksAssumption`: the ranges of the bounds). Shown:
  `PendingTaskInOnePlace`, `PositionsAhead`, `CompletedExactly`,
  `TasksStartInOrder`, `NoOvertaking`. The first three rest on `IInv`. It states
  for every task where it is (`Places`: queue, callbacks of pushes and of resends,
  posted failures, tasks to resubmit, completed out of order) and that what is
  before the reply position is settled; `Accounted` adds the converse while no
  dependency fails. `HandlePushTaskReplies` runs several callbacks at once, so the
  lemma `RepliesPlaces` is about sets of tasks that move together.
  The two ordering properties rest on `OrderInv` in addition. On every connection
  all requests, whether they wait in the client, are on the wire or were received,
  agree on the task with number zero (`OneOffset`), and all tasks before it were
  settled when the caller connected (`RequestOK`). This needs that the caller
  numbers only for the incarnation it last heard of (`Linked`), that the GCS names
  an incarnation only once it runs (`GcsOK`), and so that a new process meets no
  request older than itself. `ActorInv` is the invariant of the receiving queue
  for the requests of the incarnation that runs. `Stamped` says that
  `client_processed_up_to` stays below `next_seq_no_` while no call to a live
  process failed: the client advances it only for replies, and what was answered
  was accepted or cancelled (`Answers`). That is why `NoOvertaking` has the
  hypothesis `faults = 0`, and `TasksStartInOrder` has not.
- `ComponentProofs`, on `RequestIds` (`IdMaxAssumption`, and an odd `IdMax`, as
  `INT32_MAX` is). Shown: among the ids of any `IdMax \div 2 + 1` consecutive requests, `_id_is_newer` is
  the order in which `_next_id` handed them out (`RolloverKeepsOrder`). The proof
  gives the k-th id after another in closed form and shows that it is the
  iteration of the counter.
- `ServeProofs`, on `DeploymentState` (`TagsAssumption`, `InfosAssumption`,
  `NoneAssumption`, `NoSetAssumption`: tags are finitely many numbers, the infos
  have their types and `None` is none of the values it stands beside). Shown:
  `AcceptedIsTarget`, `RunningIsAnnounced`, `RolloutKeepsServing`. The first is
  inductive only with the checkpoint (`IInv`): what a crash would bring back
  reflects one of the accepted targets too, though not necessarily the one that
  the target reflects, since a failed call may have written; and without an entry
  there is no target. The types say that a target has a version just when there
  is something to run. The second goes through the four intermediate assignments
  of `update()`: a replica becomes RUNNING only in the checks, which then report
  it, and no other step adds one. The third needs no invariant: it is about one
  update. `max_to_stop` counts replicas that are only starting as if they could
  serve, but `pop` takes these first, so once a running one is stopped none of
  them is left and the count is right (`RolloutLeavesEnough`); a scaling down
  leaves exactly the target number (`ScaleDownKeepsTarget`).
- `RoutingProofs`, on `ServeRouting` (`MaxConcurrentAssumption`,
  `QueriesAssumption`: finitely many queries, `FirstIdsAssumption`). Shown:
  `BoundSinceAnnounced`. The strengthening `LInv` says that a query sent since the
  last announcement and still running is on the router's record of its replica
  (`RecentRecorded`), and that a record never exceeds the limit (`WithinLimit`).
  Draining could take a running query off the record, or the whole record of a
  live replica; that it does neither needs that a query is on record only where
  it was sent and that an actor's error means a dead actor (`RecordsAgree`), hence
  that everything that names a replica names one that was started, and replicas
  are not started twice (`NamesStarted`).

Only model-checked: all of `PlacementGroups` and `RayClient` (with the refinement
`CallsRefined`), and every liveness property. Liveness and `ENABLED` have no
backend here, and neither have modules with `RECURSIVE` operators. Induction over
data is out of reach as a rule; where a proof needs the numbers below a bound
(`Listing`: any set of tasks can be put in order), it takes the least
counterexample of a set instead. For the two components left no proofs have been
written; their invariants hold on the instances of the runs.

## Not modelled

Within the modelled parts: contents of messages and tasks, statistics, metrics
and names; the out-of-order queues of asynchronous and threaded actors; explicit
kill requests; the GCS's own resource accounting for bundles and the copy of the
bundle index that scheduling strategies read; the removal of groups by the death
of a job or an actor (`RemovePlacementGroup` stands for it); replies lost between
live GCS and raylet. Of the Ray Client: the init request, synchronous gets (a
channel of their own), requests that raise in the servicer, and the proxier. Of
Serve: placement of replicas, the arithmetic of the autoscaling policy, a change of
`max_concurrent_queries`, long polls for several keys, the HTTP proxy and
applications.

Known hazards that no property states:

- `direct_actor_task_submitter.cc:454`: callbacks are found by task id, so the late
  reply of a first attempt settles the retry; a test says it is ignored
  (`direct_actor_transport_test.cc:615`). `PendingTaskInOnePlace` shows that the
  task is still settled once.
- `direct_actor_task_submitter.cc:559`: `cur_pending_calls` also goes down for tasks
  resent with `skip_execution`, which nothing counted up. The model keeps the
  arithmetic and no property bounds it.
- `sequential_actor_submit_queue.cc:40`: a task whose dependencies fail leaves the
  queue without advancing `next_send_position`, and those behind it wait.
- `publisher.cc:292`: messages written to a poll that failed at the subscriber are
  lost, by the module's stated design.
- `gcs_placement_group_manager.cc:726`: RESCHEDULING is never stored, so after a
  restart the group counts as CREATED with a bundle on a dead node.
- `gcs_placement_group_scheduler.cc:189`: a prepare that was carried out and whose
  reply is lost counts as failed and is never cancelled.
- In parts without a module: `object_buffer_pool.cc:240`, `pull_manager.cc:189`,
  `gcs_actor_manager.cc:1172`, `reference_count.cc:961`,
  `local_object_manager.cc:101`.

Parts left out as a whole are listed in `PROJECT.json` with the reason: scheduling
policies are free choices in the models, storage and process management are input
and output, and most libraries on top of the core are systems of their own. The
modelled files are a small part of the repository. The Python tree alone has
about 400,000 lines, most of them libraries (RLlib, Data, Tune, Train), cloud
providers, dashboards and interfaces without concurrent state of their own; the
map covers under one percent of it, besides the C++ files of the core. Next in
value would be the object transfer (`ObjectBufferPool`, `PullManager`), the life
cycle of actors in the GCS, and the borrowing protocol of `ReferenceCounter`.
