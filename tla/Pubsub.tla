------------------------------- MODULE Pubsub -------------------------------
(***************************************************************************)
(* Ray's long-polling pubsub: one Publisher and the Subscribers of           *)
(* src/ray/pubsub/subscriber.cc that talk to it. A subscriber sends batches  *)
(* of commands, one at a time, and keeps one long poll outstanding while it  *)
(* has a subscription. Commands, polls and replies travel independently.    *)
(* The publisher may die, a subscriber may die, and a poll may fail at the   *)
(* subscriber although the publisher lives.                                 *)
(***************************************************************************)
EXTENDS Integers, Sequences

CONSTANTS
    Subscribers, Channels, Keys, All, None, CappedChannels, WholeChannels,
    BatchSize, MaxBuffered, MaxPublished,
    MaxCommandBatchSize,   \* max_command_batch_size_
    MaxOps,        \* bound: calls of Subscribe and Unsubscribe per subscriber
    MaxFaults,     \* bound: polls that fail although the publisher lives
    MayDie         \* whether publisher and subscribers may die

Entities == Keys \cup {All}
Commands == [subscribe : BOOLEAN, channel : Channels, entity : Entities]

ASSUME PubsubAssumption ==
    /\ MaxCommandBatchSize \in Nat \ {0} /\ {MaxOps, MaxFaults} \subseteq Nat
    /\ MayDie \in BOOLEAN
    /\ None \notin {"live", "stale"} /\ None \notin Seq(Commands)
    /\ BatchSize \in Nat \ {0}

VARIABLES
    subscribers, connection, mailbox, poll_reply, subscribers_to_all, entities,
    subscribers_to_key_id, pending_messages, cleared, published,
    subscription,  \* subscription_map_: per subscriber and channel, keys or All
    commands,      \* commands_: queued, not sent
    batch,         \* the command batch in flight; <<>> once all are applied
    connected,     \* publishers_connected_
    poll_sent,     \* the poll request is on the wire
    late_poll,     \* the request of a poll that failed is on the wire
    idle,          \* last_connection_update_time_ms_ is subscriber_timeout_ms_ old
    alive,         \* the publisher's process
    dead,          \* subscribers that died
    ops, faults,   \* counted for the bounds
    accepted,      \* ids of the messages queued for a subscriber, until it is erased
    received,      \* messages a subscriber was given, in order
    forgotten      \* subscribers erased by the publisher while they were polling

Pub == INSTANCE Publisher
pubVars == <<subscribers, connection, mailbox, poll_reply, subscribers_to_all, entities,
             subscribers_to_key_id, pending_messages, cleared, published>>
subVars == <<subscription, commands, batch, connected, poll_sent, late_poll>>
history == <<accepted, received, forgotten>>
vars == <<pubVars, subVars, idle, alive, dead, ops, faults, history>>

TypeOK ==
    /\ subscription \in [Subscribers -> [Channels -> SUBSET Entities]]
    /\ commands \in [Subscribers -> Seq(Commands)]
    /\ DOMAIN batch = Subscribers
    /\ \A s \in Subscribers :
          batch[s] = None \/ (batch[s] \in Seq(Commands) /\ Len(batch[s]) <= MaxCommandBatchSize)
    /\ {connected, poll_sent, late_poll, idle} \subseteq [Subscribers -> BOOLEAN]
    /\ alive \in BOOLEAN /\ dead \subseteq Subscribers /\ forgotten \subseteq Subscribers
    /\ ops \in [Subscribers -> 0..MaxOps] /\ faults \in 0..MaxFaults
    /\ accepted \in [Subscribers -> SUBSET Nat]
    /\ received \in [Subscribers -> Seq(Pub!Messages)]

Init ==
    /\ Pub!Init
    /\ subscription = [s \in Subscribers |-> [c \in Channels |-> {}]]
    /\ commands = [s \in Subscribers |-> <<>>]
    /\ batch = [s \in Subscribers |-> None]
    /\ connected = [s \in Subscribers |-> FALSE]
    /\ poll_sent = [s \in Subscribers |-> FALSE]
    /\ late_poll = [s \in Subscribers |-> FALSE]
    /\ idle = [s \in Subscribers |-> FALSE]
    /\ alive = TRUE /\ dead = {} /\ faults = 0
    /\ ops = [s \in Subscribers |-> 0]
    /\ accepted = [s \in Subscribers |-> {}]
    /\ received = [s \in Subscribers |-> <<>>]
    /\ forgotten = {}

----------------------------------------------------------------------------
\* Subscriber

SubscriptionExists(subs) == \E c \in Channels : subs[c] # {}

\* SendCommandBatchIfPossible, with the queue and the batch in flight as they
\* are then.
SendCommandBatchIfPossible(s, queue, sent) ==
    LET send == sent = None /\ queue # <<>>
        n == IF Len(queue) < MaxCommandBatchSize THEN Len(queue) ELSE MaxCommandBatchSize
    IN  /\ batch' = [batch EXCEPT ![s] = IF send THEN SubSeq(queue, 1, n) ELSE sent]
        /\ commands' = [commands EXCEPT ![s] =
              IF send THEN SubSeq(queue, n + 1, Len(queue)) ELSE queue]

\* A call of the subscriber's user.
Call(s) == s \notin dead /\ ops[s] < MaxOps /\ ops' = [ops EXCEPT ![s] = @ + 1]

\* MakeLongPollingConnectionIfNotConnected, and a poll for every subscription.
MakeLongPollingConnection_Always(s) ==
    /\ connected' = [connected EXCEPT ![s] = TRUE]
    /\ poll_sent' = [poll_sent EXCEPT ![s] = TRUE]

MakeLongPollingConnectionIfNotConnected(s) ==
    /\ connected' = [connected EXCEPT ![s] = TRUE]
    /\ poll_sent' = [poll_sent EXCEPT ![s] = @ \/ ~connected[s]]

\* SubscribeInternal.
Subscribe(s, c, e) ==
    /\ Call(s) /\ Pub!OneKind(c, e, s)
    /\ SendCommandBatchIfPossible(s,
          Append(commands[s], [subscribe |-> TRUE, channel |-> c, entity |-> e]), batch[s])
    /\ MakeLongPollingConnectionIfNotConnected(s)
    /\ subscription' = [subscription EXCEPT ![s][c] = @ \cup {e}]
    /\ UNCHANGED <<pubVars, late_poll, idle, alive, dead, faults, history>>

\* Unsubscribe and UnsubscribeChannel.
Unsubscribe(s, c, e) ==
    /\ Call(s) /\ Pub!OneKind(c, e, s)
    /\ SendCommandBatchIfPossible(s,
          Append(commands[s], [subscribe |-> FALSE, channel |-> c, entity |-> e]), batch[s])
    /\ subscription' = [subscription EXCEPT ![s][c] = @ \ {e}]
    /\ UNCHANGED <<pubVars, connected, poll_sent, late_poll, idle, alive, dead, faults, history>>

\* A subscriber that stays connected although it does not poll again.
PollAgain_StaysConnected(s, subs) ==
    /\ subscription' = [subscription EXCEPT ![s] = subs]
    /\ poll_sent' = [poll_sent EXCEPT ![s] = SubscriptionExists(subs)]
    /\ UNCHANGED connected

\* HandleLongPollingResponse polls again while a subscription is left.
PollAgain(s, subs) ==
    /\ subscription' = [subscription EXCEPT ![s] = subs]
    /\ connected' = [connected EXCEPT ![s] = SubscriptionExists(subs)]
    /\ poll_sent' = [poll_sent EXCEPT ![s] = SubscriptionExists(subs)]

\* The reply: messages are passed on, a failure message ends the subscription
\* of its key.
HandleReply(s) ==
    LET msgs == poll_reply[s][1]
        failed(c) == {msgs[i].key : i \in {j \in 1..Len(msgs) :
                                             msgs[j].failure /\ msgs[j].channel = c}}
    IN  /\ s \notin dead
        /\ Pub!ReplyTaken(s)
        /\ received' = [received EXCEPT ![s] = @ \o msgs]
        /\ PollAgain(s, [c \in Channels |-> subscription[s][c] \ failed(c)])
        /\ UNCHANGED <<commands, batch, late_poll, idle, alive, dead, ops, faults,
                       accepted, forgotten>>

\* HandlePublisherFailure for all channels: the subscriptions that are left.
HandlePublisherFailure_Keep(subs) == subs
HandlePublisherFailure(subs) == [c \in Channels |-> subs[c] \cap {All}]

\* The poll fails: subscriptions to single keys end with their failure
\* callbacks, queued commands are dropped. The request may still arrive.
HandlePollFailure(s) ==
    /\ s \notin dead /\ connected[s]
    /\ \/ ~alive /\ UNCHANGED faults
       \/ alive /\ faults < MaxFaults /\ faults' = faults + 1
    /\ \/ poll_sent[s] /\ UNCHANGED pubVars
          /\ late_poll' \in {late_poll, [late_poll EXCEPT ![s] = alive]}
       \/ ~poll_sent[s] /\ UNCHANGED late_poll
          /\ (Pub!ConnectionBroken(s) \/ Pub!ReplyTaken(s))
    /\ PollAgain(s, HandlePublisherFailure(subscription[s]))
    /\ commands' = [commands EXCEPT ![s] = <<>>]
    /\ UNCHANGED <<batch, idle, alive, dead, ops, history>>

\* The callback forgets the commands queued meanwhile.
HandleBatchReply_Drop(s) ==
    /\ s \notin dead
    /\ batch[s] = <<>> \/ (~alive /\ batch[s] # None)
    /\ SendCommandBatchIfPossible(s, <<>>, None)
    /\ UNCHANGED <<pubVars, subscription, connected, poll_sent, late_poll, idle,
                   alive, dead, ops, faults, history>>

\* The callback of a command batch, also when the batch failed with the publisher.
HandleBatchReply(s) ==
    /\ s \notin dead
    /\ batch[s] = <<>> \/ (~alive /\ batch[s] # None)
    /\ SendCommandBatchIfPossible(s, commands[s], None)
    /\ UNCHANGED <<pubVars, subscription, connected, poll_sent, late_poll, idle,
                   alive, dead, ops, faults, history>>

----------------------------------------------------------------------------
\* The publisher's process

\* PublishIfPossible and ConnectToSubscriber set last_connection_update_time_ms_.
Refresh(S) == idle' = [s \in Subscribers |-> idle[s] /\ s \notin S]
Answered == {s \in Subscribers : connection[s] # None /\ connection'[s] = None}

\* One command of HandlePubsubCommandBatch. Other calls to the publisher may
\* come between two commands; the reply is sent after the last one.
HandleCommand(s) ==
    /\ alive /\ batch[s] # None /\ batch[s] # <<>>
    /\ LET cmd == Head(batch[s])
       IN  IF cmd.subscribe THEN Pub!RegisterSubscription(cmd.channel, cmd.entity, s)
                            ELSE Pub!UnregisterSubscription(cmd.channel, cmd.entity, s)
    /\ batch' = [batch EXCEPT ![s] = Tail(@)]
    /\ UNCHANGED <<subscription, commands, connected, poll_sent, late_poll, idle, alive,
                   dead, ops, faults, history>>

HandlePoll(s) ==
    /\ alive /\ poll_sent[s]
    /\ Pub!ConnectToSubscriber(s, "live")
    /\ poll_sent' = [poll_sent EXCEPT ![s] = FALSE]
    /\ Refresh({s})
    /\ UNCHANGED <<subscription, commands, batch, connected, late_poll, alive, dead, ops,
                   faults, history>>

HandleLatePoll(s) ==
    /\ alive /\ late_poll[s]
    /\ Pub!ConnectToSubscriber(s, "stale")
    /\ late_poll' = [late_poll EXCEPT ![s] = FALSE]
    /\ Refresh({s})
    /\ UNCHANGED <<subscription, commands, batch, connected, poll_sent, alive, dead, ops,
                   faults, history>>

Publish(c, k) ==
    /\ alive
    /\ Pub!Publish(c, k) \/ Pub!PublishFailure(c, k)
    /\ Refresh(Answered)
    /\ accepted' = [s \in Subscribers |->
          IF s \in Pub!EntitySubscribers(c, All) \cup Pub!EntitySubscribers(c, k)
          THEN accepted[s] \cup {published} ELSE accepted[s]]
    /\ UNCHANGED <<subVars, alive, dead, ops, faults, received, forgotten>>

\* The timer of the publisher.
CheckDeadSubscribers ==
    LET inactive == {s \in subscribers : idle[s]}
    IN  /\ alive /\ inactive # {}
        /\ Pub!CheckDeadSubscribers(inactive)
        /\ Refresh(inactive)
        /\ forgotten' = forgotten \cup
              {s \in inactive \ dead : connected[s] /\ s \notin subscribers'}
        /\ accepted' = [s \in Subscribers |-> IF s \in subscribers' THEN accepted[s] ELSE {}]
        /\ UNCHANGED <<subVars, alive, dead, ops, faults, received>>

----------------------------------------------------------------------------
\* The environment

\* subscriber_timeout_ms_ passes. A request or reply on the wire takes less.
TimePasses(s) ==
    /\ alive /\ s \in subscribers /\ ~idle[s]
    /\ connection[s] # None \/ ~connected[s] \/ s \in dead
    /\ idle' = [idle EXCEPT ![s] = TRUE]
    /\ UNCHANGED <<pubVars, subVars, alive, dead, ops, faults, history>>

PublisherDies ==
    /\ MayDie /\ alive
    /\ alive' = FALSE
    /\ UNCHANGED <<pubVars, subVars, idle, dead, ops, faults, history>>

\* Whatever the subscriber sent may still arrive.
SubscriberDies(s) ==
    /\ MayDie /\ s \notin dead
    /\ dead' = dead \cup {s}
    /\ \/ Pub!ConnectionBroken(s) \/ Pub!ReplyTaken(s)
       \/ connection[s] # "live" /\ poll_reply[s] = <<>> /\ UNCHANGED pubVars
    /\ late_poll' = [late_poll EXCEPT ![s] = @ \/ poll_sent[s]]
    /\ poll_sent' = [poll_sent EXCEPT ![s] = FALSE]
    /\ UNCHANGED <<subscription, commands, batch, connected, idle, alive, ops, faults, history>>

Next ==
    \/ \E s \in Subscribers :
          \/ \E c \in Channels, e \in Entities : Subscribe(s, c, e) \/ Unsubscribe(s, c, e)
          \/ HandleReply(s) \/ HandlePollFailure(s) \/ HandleBatchReply(s)
          \/ HandleCommand(s) \/ HandlePoll(s) \/ HandleLatePoll(s)
          \/ TimePasses(s) \/ SubscriberDies(s)
    \/ \E c \in Channels, k \in Keys : Publish(c, k)
    \/ CheckDeadSubscribers
    \/ PublisherDies

Spec == Init /\ [][Next]_vars

\* Messages arrive, handlers run, calls to a dead publisher fail and time passes.
Fairness ==
    /\ \A s \in Subscribers :
          /\ WF_vars(HandleReply(s)) /\ WF_vars(~alive /\ HandlePollFailure(s))
          /\ WF_vars(HandleBatchReply(s)) /\ WF_vars(HandleCommand(s))
          /\ WF_vars(HandlePoll(s)) /\ WF_vars(HandleLatePoll(s)) /\ WF_vars(TimePasses(s))
    /\ WF_vars(CheckDeadSubscribers)

FairSpec == Spec /\ Fairness

----------------------------------------------------------------------------
\* The publisher, composed with its subscribers, is the one specified alone: its
\* callers keep the contract its invariants rest on.
PublisherRefined == Pub!Spec

\* "Subscriber always send a long polling connection as long as there are
\* subscribed entries": a connected subscriber has exactly one poll outstanding
\* (on the wire, held, or answered), and one that has subscriptions is connected.
OnePoll ==
    \A s \in Subscribers \ dead :
        /\ SubscriptionExists(subscription[s]) => connected[s]
        /\ connected[s] <=> (poll_sent[s] \/ connection[s] = "live" \/ poll_reply[s] # <<>>)
        /\ ~(poll_sent[s] /\ connection[s] = "live")
        /\ ~(poll_sent[s] /\ poll_reply[s] # <<>>)
        /\ ~(connection[s] = "live" /\ poll_reply[s] # <<>>)

\* Every subscription of a subscriber is known to the publisher or will be:
\* the last command on the way about it is a subscribe, or none is on the way and
\* the publisher has it. Not once a poll failed or the publisher forgot the
\* subscriber, when commands are dropped.
OnTheWay(s) == (IF batch[s] = None THEN <<>> ELSE batch[s]) \o commands[s]

Agree(s) ==
    \A c \in Channels : \A e \in subscription[s][c] :
        LET cmds == OnTheWay(s)
            about == {i \in 1..Len(cmds) : cmds[i].channel = c /\ cmds[i].entity = e}
        IN  IF about = {} THEN s \in Pub!EntitySubscribers(c, e)
            ELSE \E i \in about : cmds[i].subscribe /\ \A j \in about : j <= i

SubscriptionsAgree ==
    (alive /\ faults = 0) => \A s \in Subscribers \ (dead \cup forgotten) : Agree(s)

Incoming(s) ==
    received[s] \o (IF poll_reply[s] = <<>> THEN <<>> ELSE poll_reply[s][1]) \o mailbox[s]

\* What the publisher queued for a subscriber and did not empty is received, or
\* still on its way: nothing is lost while polls do not fail and the subscriber is
\* not erased.
NothingLost ==
    (alive /\ faults = 0) => \A s \in Subscribers \ (dead \cup forgotten) :
        \A id \in accepted[s] :
            \/ \E i \in 1..Len(Incoming(s)) : Incoming(s)[i].id = id
            \/ \E m \in cleared : m.id = id

\* A subscriber that stays subscribed gets every message queued for it.
Delivered ==
    \A s \in Subscribers, id \in 0..(MaxPublished - 1) :
        (id \in accepted[s] /\ SubscriptionExists(subscription[s])) ~>
        (\/ \E i \in 1..Len(received[s]) : received[s][i].id = id
         \/ \E m \in cleared : m.id = id
         \/ ~SubscriptionExists(subscription[s])
         \/ ~alive \/ faults > 0 \/ s \in dead \cup forgotten)

\* When the publisher dies every subscription to a single key ends (with its
\* failure callback).
KeySubscriptionsEnd ==
    \A s \in Subscribers, c \in Channels, k \in Keys :
        (~alive /\ k \in subscription[s][c]) ~> (k \notin subscription[s][c] \/ s \in dead)

\* The publisher erases a dead subscriber, also one that left a poll behind.
DeadForgotten ==
    \A s \in Subscribers : s \in dead ~> (s \notin subscribers \/ ~alive)

============================================================================
