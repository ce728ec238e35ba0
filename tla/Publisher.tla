----------------------------- MODULE Publisher -----------------------------
(***************************************************************************)
(* The publisher of Ray's long-polling pubsub (src/ray/pubsub/publisher.cc):*)
(* who is subscribed to what, one mailbox and at most one held long poll   *)
(* per subscriber. Every method runs under Publisher::mutex_ and is one    *)
(* action. A subscriber cannot tell the publisher that it gave up a poll:  *)
(* a connection is "live" while the subscriber waits for its reply and     *)
(* "stale" afterwards, a difference the publisher does not see.            *)
(***************************************************************************)
EXTENDS Integers, Sequences

CONSTANTS
    Subscribers, Channels, Keys,
    All,              \* the empty key_id: all keys of a channel
    None,
    CappedChannels,   \* channels with CappedEntityState
    WholeChannels,    \* per subscriber: channels it subscribes to with no key
    BatchSize,        \* publish_batch_size_
    MaxBuffered,      \* publisher_entity_buffer_max_bytes, messages of size one
    MaxPublished      \* bound: messages published

ASSUME PublisherAssumption ==
    /\ All \notin Keys /\ None \notin {"live", "stale"}
    /\ CappedChannels \subseteq Channels
    /\ WholeChannels \in [Subscribers -> SUBSET Channels]
    /\ BatchSize \in Nat \ {0} /\ MaxBuffered \in Nat \ {0}
    /\ MaxPublished \in Nat

Entities == Keys \cup {All}

VARIABLES
    subscribers,       \* subscribers_: the ids that have a SubscriberState
    connection,        \* long_polling_connection_ of each
    mailbox,           \* mailbox_ of each
    poll_reply,        \* the reply to the subscriber's poll on the wire: <<>> or <<messages>>
    subscribers_to_all,     \* per channel: subscribers of all entities
    entities,               \* per channel and key: subscribers of the entity
    subscribers_to_key_id,  \* per channel and subscriber: the keys
    pending_messages,       \* per channel and entity: of CappedEntityState
    cleared,           \* messages emptied by CappedEntityState::Publish
    published          \* number of messages published

indexVars == <<subscribers_to_all, entities, subscribers_to_key_id>>
vars == <<subscribers, connection, mailbox, poll_reply, indexVars,
          pending_messages, cleared, published>>

\* The copy of the id-th message that is shared by the subscribers of entity.
Messages ==
    [id : Nat, channel : Channels, key : Keys, entity : Entities, failure : BOOLEAN]

TypeOK ==
    /\ subscribers \subseteq Subscribers
    /\ connection \in [Subscribers -> {None, "live", "stale"}]
    /\ mailbox \in [Subscribers -> Seq(Messages)]
    /\ DOMAIN poll_reply = Subscribers
    /\ \A s \in Subscribers : Len(poll_reply[s]) \in {0, 1}
    /\ subscribers_to_all \in [Channels -> SUBSET Subscribers]
    /\ entities \in [Channels -> [Keys -> SUBSET Subscribers]]
    /\ subscribers_to_key_id \in [Channels -> [Subscribers -> SUBSET Keys]]
    /\ pending_messages \in [Channels -> [Entities -> Seq(Messages)]]
    /\ cleared \subseteq Messages
    /\ published \in Nat

Init ==
    /\ subscribers = {}
    /\ connection = [s \in Subscribers |-> None]
    /\ mailbox = [s \in Subscribers |-> <<>>]
    /\ poll_reply = [s \in Subscribers |-> <<>>]
    /\ subscribers_to_all = [c \in Channels |-> {}]
    /\ entities = [c \in Channels |-> [k \in Keys |-> {}]]
    /\ subscribers_to_key_id = [c \in Channels |-> [s \in Subscribers |-> {}]]
    /\ pending_messages = [c \in Channels |-> [e \in Entities |-> <<>>]]
    /\ cleared = {}
    /\ published = 0

----------------------------------------------------------------------------
\* SubscriberState

\* QueueMessage, without the PublishIfPossible that follows it.
QueueMessage(box, msgs) == box \o msgs

\* The mailbox after a batch is taken, and the batch
\* without emptied messages.
AfterBatch_All(box) == <<>>
AfterBatch(box) == SubSeq(box, BatchSize + 1, Len(box))

Increasing(f) == \A i, j \in DOMAIN f : i < j => f[i] < f[j]

Batch(box, clr) ==
    LET kept == {i \in 1..Len(box) : i <= BatchSize /\ box[i] \notin clr}
        order == CHOOSE f \in UNION {[1..n -> kept] : n \in 0..BatchSize} :
                    Increasing(f) /\ \A i \in kept : \E j \in DOMAIN f : f[j] = i
    IN  [j \in DOMAIN order |-> box[order[j]]]

\* PublishIfPossible for the subscribers of S, given all mailboxes and the
\* emptied messages as they are then.
PublishIfPossible(S, force_noop, box, clr) ==
    LET sends == {s \in S : connection[s] # None /\ (force_noop \/ box[s] # <<>>)}
    IN  /\ mailbox' = [s \in Subscribers |->
              IF s \in sends /\ ~force_noop THEN AfterBatch(box[s]) ELSE box[s]]
        /\ connection' = [s \in Subscribers |-> IF s \in sends THEN None ELSE connection[s]]
        /\ poll_reply' = [s \in Subscribers |->
              IF s \in sends /\ connection[s] = "live"
              THEN <<IF force_noop THEN <<>> ELSE Batch(box[s], clr)>>
              ELSE poll_reply[s]]

----------------------------------------------------------------------------
\* SubscriptionIndex, one per channel

AddEntry(c, e, s) ==
    IF e = All
    THEN /\ subscribers_to_all' = [subscribers_to_all EXCEPT ![c] = @ \cup {s}]
         /\ UNCHANGED <<entities, subscribers_to_key_id>>
    ELSE /\ entities' = [entities EXCEPT ![c][e] = @ \cup {s}]
         /\ subscribers_to_key_id' = [subscribers_to_key_id EXCEPT ![c][s] = @ \cup {e}]
         /\ UNCHANGED subscribers_to_all

\* An entity without subscribers is erased, with its pending messages.
ErasedEntities(c, ents) == {k \in Keys : ents[c][k] = {}}

\* EraseEntry that leaves the key in the subscriber's own set.
EraseEntry_OneWay(c, e, s) ==
    IF e = All
    THEN /\ subscribers_to_all' = [subscribers_to_all EXCEPT ![c] = @ \ {s}]
         /\ UNCHANGED <<entities, subscribers_to_key_id, pending_messages>>
    ELSE /\ entities' = [entities EXCEPT ![c][e] = @ \ {s}]
         /\ UNCHANGED <<subscribers_to_all, subscribers_to_key_id, pending_messages>>

EraseEntry(c, e, s) ==
    IF e = All
    THEN /\ subscribers_to_all' = [subscribers_to_all EXCEPT ![c] = @ \ {s}]
         /\ UNCHANGED <<entities, subscribers_to_key_id, pending_messages>>
    ELSE /\ entities' = [entities EXCEPT ![c][e] = @ \ {s}]
         /\ subscribers_to_key_id' = [subscribers_to_key_id EXCEPT ![c][s] = @ \ {e}]
         /\ pending_messages' = [pending_messages EXCEPT ![c] =
               [f \in Entities |-> IF f \in ErasedEntities(c, entities') THEN <<>> ELSE @[f]]]
         /\ UNCHANGED subscribers_to_all

\* EraseSubscriber for each subscriber of S in every channel; it looks no
\* further once the subscriber was found among those of all entities.
EraseSubscribers(S) ==
    LET byKey(c) == S \ subscribers_to_all[c]
    IN  /\ subscribers_to_all' = [c \in Channels |-> subscribers_to_all[c] \ S]
        /\ entities' = [c \in Channels |-> [k \in Keys |-> entities[c][k] \
              {s \in byKey(c) : k \in subscribers_to_key_id[c][s]}]]
        /\ subscribers_to_key_id' = [c \in Channels |-> [s \in Subscribers |->
              IF s \in byKey(c) THEN {} ELSE subscribers_to_key_id[c][s]]]
        /\ pending_messages' = [c \in Channels |-> [e \in Entities |->
              IF e \in ErasedEntities(c, entities') THEN <<>> ELSE pending_messages[c][e]]]

EntitySubscribers(c, e) == IF e = All THEN subscribers_to_all[c] ELSE entities[c][e]

----------------------------------------------------------------------------
\* EntityState

\* pending_messages_ holds weak pointers: the message lives while some mailbox
\* has it.
Live(m) == \E s \in Subscribers : \E i \in 1..Len(mailbox[s]) : mailbox[s][i] = m

\* With n messages popped, the loop of CappedEntityState::Publish ends.
LoopEnds(p, n) ==
    n = Len(p) \/ (n < Len(p) /\ Live(p[n + 1]) /\ (Len(p) - n) + 1 <= MaxBuffered)

\* The number of messages it pops, the oldest first (a set of one number).
NumPopped(p) ==
    {n \in 0..Len(p) : LoopEnds(p, n) /\ \A m \in 0..(n - 1) : ~LoopEnds(p, m)}

\* The message queued in the mailboxes of entity e's subscribers.
Copy(c, k, e, failure) ==
    [id |-> published, channel |-> c, key |-> k, entity |-> e, failure |-> failure]

\* What is queued for subscriber s, which is in one of the two entities at most.
Copies(c, k, failure, s) ==
    (IF s \in subscribers_to_all[c] THEN <<Copy(c, k, All, failure)>> ELSE <<>>)
    \o (IF s \in entities[c][k] THEN <<Copy(c, k, k, failure)>> ELSE <<>>)

\* Publish of an EntityState with subscribers: its pending messages after n were popped.
PublishEntity(c, k, e, n, failure) ==
    IF c \in CappedChannels /\ EntitySubscribers(c, e) # {}
    THEN Append(SubSeq(pending_messages[c][e], n + 1, Len(pending_messages[c][e])),
                Copy(c, k, e, failure))
    ELSE pending_messages[c][e]

Popped(c, e, n) ==
    IF c \in CappedChannels /\ EntitySubscribers(c, e) # {}
    THEN {pending_messages[c][e][i] : i \in 1..n} ELSE {}

----------------------------------------------------------------------------
\* Publisher

\* A subscriber uses one kind of subscription in a channel; SubscriberChannel
\* checks this in Unsubscribe and IsSubscribed.
OneKind(c, e, s) == (e = All) <=> c \in WholeChannels[s]

\* A poll that is held although messages wait.
ConnectToSubscriber_Holds(s, conn) ==
    /\ subscribers' = subscribers \cup {s}
    /\ connection' = [connection EXCEPT ![s] = conn]
    /\ poll_reply' = [poll_reply EXCEPT ![s] = IF connection[s] = "live" THEN << <<>> >> ELSE @]
    /\ UNCHANGED <<mailbox, indexVars, pending_messages, cleared, published>>

\* The poll held before is answered with nothing, the new one at once when the
\* mailbox has messages.
ConnectToSubscriber(s, conn) ==
    LET answered == mailbox[s] # <<>>
    IN  /\ subscribers' = subscribers \cup {s}
        /\ mailbox' = [mailbox EXCEPT ![s] = IF answered THEN AfterBatch(@) ELSE @]
        /\ connection' = [connection EXCEPT ![s] = IF answered THEN None ELSE conn]
        /\ poll_reply' = [poll_reply EXCEPT ![s] =
              IF connection[s] = "live" THEN << <<>> >>
              ELSE IF answered /\ conn = "live" THEN <<Batch(mailbox[s], cleared)>> ELSE @]
        /\ UNCHANGED <<indexVars, pending_messages, cleared, published>>

RegisterSubscription(c, e, s) ==
    /\ subscribers' = subscribers \cup {s}
    /\ AddEntry(c, e, s)
    /\ UNCHANGED <<connection, mailbox, poll_reply, pending_messages, cleared, published>>

UnregisterSubscription(c, e, s) ==
    /\ EraseEntry(c, e, s)
    /\ UNCHANGED <<subscribers, connection, mailbox, poll_reply, cleared, published>>

\* SubscriptionIndex::Publish: to the subscribers of all entities, then to the key's.
PublishMessage(c, k, failure) ==
    /\ published < MaxPublished
    /\ published' = published + 1
    /\ \E n \in NumPopped(pending_messages[c][All]), m \in NumPopped(pending_messages[c][k]) :
          /\ pending_messages' = [pending_messages EXCEPT ![c] =
                [e \in Entities |->
                   IF e = All THEN PublishEntity(c, k, All, n, failure)
                   ELSE IF e = k THEN PublishEntity(c, k, k, m, failure) ELSE @[e]]]
          /\ cleared' = cleared \cup {p \in Popped(c, All, n) \cup Popped(c, k, m) : Live(p)}
          /\ PublishIfPossible(subscribers_to_all[c] \cup entities[c][k], FALSE,
                [s \in Subscribers |-> QueueMessage(mailbox[s], Copies(c, k, failure, s))],
                cleared')
    /\ UNCHANGED <<subscribers, indexVars>>

Publish(c, k) == PublishMessage(c, k, FALSE)

\* Failures are published for single keys: SubscriberChannel::Unsubscribe checks
\* that nobody who gets one subscribes to the whole channel.
PublishFailure(c, k) ==
    /\ \A s \in Subscribers : c \notin WholeChannels[s]
    /\ PublishMessage(c, k, TRUE)

\* UnregisterSubscriberInternal for the subscribers of S, after those of noop
\* had their poll answered with nothing.
Unregister(S, noop) ==
    /\ EraseSubscribers(S)
    /\ subscribers' = subscribers \ S
    /\ PublishIfPossible(noop \cup (S \cap subscribers), TRUE,
          [s \in Subscribers |-> IF s \in S THEN <<>> ELSE mailbox[s]], cleared)
    /\ UNCHANGED <<cleared, published>>

UnregisterSubscriber(s) == Unregister({s}, {})
UnregisterAll == Unregister(subscribers, {})

\* Held polls are not released.
CheckDeadSubscribers_KeepHeld(inactive) ==
    /\ inactive \subseteq subscribers
    /\ Unregister({s \in inactive : connection[s] = None}, {})

\* The subscribers of inactive had no poll or reply for subscriber_timeout_ms_.
CheckDeadSubscribers(inactive) ==
    LET held == {s \in inactive : connection[s] # None}
    IN  /\ inactive \subseteq subscribers
        /\ Unregister(inactive \ held, held)

\* The subscriber's side of the held poll fails; the publisher is not told.
ConnectionBroken(s) ==
    /\ connection[s] = "live"
    /\ connection' = [connection EXCEPT ![s] = "stale"]
    /\ UNCHANGED <<subscribers, mailbox, poll_reply, indexVars, pending_messages,
                   cleared, published>>

\* The subscriber takes the reply off the wire, or the reply is lost.
ReplyTaken(s) ==
    /\ poll_reply[s] # <<>>
    /\ poll_reply' = [poll_reply EXCEPT ![s] = <<>>]
    /\ UNCHANGED <<subscribers, connection, mailbox, indexVars, pending_messages,
                   cleared, published>>

\* A subscriber polls again when its poll was answered or has failed; the
\* request of a failed poll may arrive late.
PollArrives(s) ==
    \/ connection[s] # "live" /\ poll_reply[s] = <<>> /\ ConnectToSubscriber(s, "live")
    \/ ConnectToSubscriber(s, "stale")

Next ==
    \/ \E s \in Subscribers :
          \/ PollArrives(s)
          \/ \E c \in Channels, e \in Entities :
                OneKind(c, e, s) /\ (RegisterSubscription(c, e, s)
                                     \/ UnregisterSubscription(c, e, s))
          \/ UnregisterSubscriber(s)
          \/ ConnectionBroken(s)
          \/ ReplyTaken(s)
    \/ \E c \in Channels, k \in Keys : Publish(c, k) \/ PublishFailure(c, k)
    \/ \E inactive \in SUBSET subscribers : CheckDeadSubscribers(inactive)
    \/ UnregisterAll

Spec == Init /\ [][Next]_vars

----------------------------------------------------------------------------
\* The two directions of a channel's index agree: the RAY_CHECKs of AddEntry
\* and EraseEntry never fail, whatever the order of commands, timeouts and
\* unregistrations.
IndexConsistent ==
    \A c \in Channels, k \in Keys, s \in Subscribers :
        k \in subscribers_to_key_id[c][s] <=> s \in entities[c][k]

\* The index holds raw pointers to SubscriberStates: everyone in it has a
\* state, although EraseSubscriber returns early once it found the subscriber
\* among those of all entities.
NoDanglingSubscriber ==
    \A c \in Channels :
        /\ subscribers_to_all[c] \subseteq subscribers
        /\ \A k \in Keys : entities[c][k] \subseteq subscribers

\* A poll is held only while there is nothing to send: no interleaving of
\* polls, publications and timeouts leaves messages waiting behind a held poll.
\* A subscriber that was erased leaves neither behind.
NoMailWhilePolling ==
    \A s \in Subscribers :
        /\ connection[s] # None => mailbox[s] = <<>>
        /\ s \notin subscribers => connection[s] = None /\ mailbox[s] = <<>>

\* A poll that the subscriber waits for is answered once: it is not held any
\* more when its reply is on the way.
AnsweredOnce == \A s \in Subscribers : connection[s] = "live" => poll_reply[s] = <<>>

\* CappedEntityState: the messages of an entity of a capped channel that are
\* buffered and not emptied are among its pending ones, and those never exceed
\* the configured size. For the subscribers of a whole channel; an entity of a
\* single key forgets its pending messages when its last subscriber leaves.
BufferCapped ==
    \A c \in CappedChannels :
        /\ \A e \in Entities : Len(pending_messages[c][e]) <= MaxBuffered
        /\ \A s \in Subscribers : \A i \in 1..Len(mailbox[s]) :
              (/\ mailbox[s][i].channel = c /\ mailbox[s][i].entity = All
               /\ mailbox[s][i] \notin cleared)
              => \E j \in 1..Len(pending_messages[c][All]) :
                    pending_messages[c][All][j] = mailbox[s][i]

\* A mailbox holds messages in the order of their publication, none twice.
MailboxInOrder ==
    \A s \in Subscribers : \A i, j \in 1..Len(mailbox[s]) :
        i < j => mailbox[s][i].id < mailbox[s][j].id

============================================================================
