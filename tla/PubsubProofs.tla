---------------------------- MODULE PubsubProofs ----------------------------
(***************************************************************************)
(* The long polls and the commands between the subscribers and the          *)
(* publisher, for every number of subscribers, channels and keys.           *)
(***************************************************************************)
EXTENDS Pubsub, TLAPS

\* Facts about sequences
LEMMA Wider ==
  ASSUME NEW S, NEW T, NEW seq \in Seq(S), S \subseteq T
  PROVE  seq \in Seq(T)
  OBVIOUS

LEMMA SameItems ==
  ASSUME NEW S, NEW p \in Seq(S), NEW q \in Seq(S), Len(p) = Len(q),
         \A i \in 1..Len(p) : p[i] = q[i]
  PROVE  p = q
  OBVIOUS

LEMMA Joined ==
  ASSUME NEW S, NEW p \in Seq(S), NEW q \in Seq(S)
  PROVE  /\ p \o q \in Seq(S) /\ Len(p \o q) = Len(p) + Len(q)
         /\ \A i \in 1..Len(p) + Len(q) : (p \o q)[i] = IF i <= Len(p) THEN p[i] ELSE q[i - Len(p)]
  OBVIOUS

LEMMA JoinedEmpty ==
  ASSUME NEW S, NEW p \in Seq(S)
  PROVE  p \o <<>> = p /\ <<>> \o p = p
  OBVIOUS

\* The commands a subscriber may send: one kind of subscription per channel.
CommandsOf(s) == {cmd \in Commands : Pub!OneKind(cmd.channel, cmd.entity, s)}

CommandInv ==
    /\ commands \in [Subscribers -> Seq(Commands)] /\ DOMAIN batch = Subscribers
    /\ \A s \in Subscribers :
          /\ commands[s] \in Seq(CommandsOf(s))
          /\ batch[s] = None \/ batch[s] \in Seq(CommandsOf(s))

PollTypes ==
    /\ subscription \in [Subscribers -> [Channels -> SUBSET Entities]]
    /\ connected \in [Subscribers -> BOOLEAN]
    /\ poll_sent \in [Subscribers -> BOOLEAN]
    /\ connection \in [Subscribers -> {None, "live", "stale"}]
    /\ DOMAIN poll_reply = Subscribers
    /\ subscribers \subseteq Subscribers /\ dead \subseteq Subscribers

\* OnePoll for one subscriber; a dead one leaves no poll on the wire but a late one.
PollOf(s) ==
    /\ SubscriptionExists(subscription[s]) => connected[s]
    /\ connected[s] <=> (poll_sent[s] \/ connection[s] = "live" \/ poll_reply[s] # <<>>)
    /\ ~(poll_sent[s] /\ connection[s] = "live")
    /\ ~(poll_sent[s] /\ poll_reply[s] # <<>>)
    /\ ~(connection[s] = "live" /\ poll_reply[s] # <<>>)

PollInv ==
    /\ PollTypes
    /\ \A s \in Subscribers : IF s \in dead THEN ~poll_sent[s] ELSE PollOf(s)

----------------------------------------------------------------------------
\* What the publisher does to the poll of a subscriber outside ConnectToSubscriber:
\* nothing, or it answers the poll it holds.
Answers(s) ==
    \/ connection'[s] = connection[s] /\ poll_reply'[s] = poll_reply[s]
    \/ /\ connection'[s] = None
       /\ IF connection[s] = "live" THEN poll_reply'[s] # <<>>
                                    ELSE poll_reply'[s] = poll_reply[s]

PollsAnswered ==
    /\ connection' \in [Subscribers -> {None, "live", "stale"}]
    /\ DOMAIN poll_reply' = Subscribers
    /\ \A s \in Subscribers : Answers(s)

\* PublishIfPossible answers a held poll at most once.
LEMMA PublishAnswers ==
  ASSUME PollTypes, NEW S, NEW force_noop, NEW box, NEW clr,
         Pub!PublishIfPossible(S, force_noop, box, clr)
  PROVE  PollsAnswered
<1> DEFINE sends == {s \in S : connection[s] # None /\ (force_noop \/ box[s] # <<>>)}
           reply(s) == <<IF force_noop THEN <<>> ELSE Pub!Batch(box[s], clr)>>
<1>1. /\ connection' = [s \in Subscribers |-> IF s \in sends THEN None ELSE connection[s]]
      /\ poll_reply' = [s \in Subscribers |->
            IF s \in sends /\ connection[s] = "live" THEN reply(s) ELSE poll_reply[s]]
  BY DEF Pub!PublishIfPossible
<1>2. \A s \in Subscribers : reply(s) # <<>>
  OBVIOUS
<1> HIDE DEF sends, reply
<1>3. /\ connection' \in [Subscribers -> {None, "live", "stale"}]
      /\ DOMAIN poll_reply' = Subscribers
  BY <1>1 DEF PollTypes
<1>4. ASSUME NEW s \in Subscribers PROVE Answers(s)
  BY <1>1, <1>2 DEF Answers
<1> QED
  BY <1>3, <1>4 DEF PollsAnswered

\* The publisher answers polls, and the subscribers do nothing.
LEMMA AnsweringKeeps ==
  ASSUME PollInv, PollsAnswered, subscribers' \subseteq Subscribers,
         UNCHANGED <<subscription, connected, poll_sent, dead>>
  PROVE  PollInv'
<1>1. PollTypes'
  BY DEF PollInv, PollTypes, PollsAnswered
<1>2. ASSUME NEW s \in Subscribers, s \notin dead PROVE PollOf(s)'
  <2>1. Answers(s) /\ PollOf(s)
    BY <1>2 DEF PollInv, PollsAnswered
  <2>2. SubscriptionExists(subscription[s])' <=> SubscriptionExists(subscription[s])
    BY DEF SubscriptionExists
  <2> QED
    BY <2>1, <2>2, PubsubAssumption DEF PollOf, Answers
<1> QED
  BY <1>1, <1>2 DEF PollInv

\* Steps that touch no poll.
LEMMA QuietKeeps ==
  ASSUME PollInv, subscribers' \subseteq Subscribers,
         UNCHANGED <<subscription, connected, poll_sent, dead, connection, poll_reply>>
  PROVE  PollInv'
<1>1. PollsAnswered
  BY DEF PollInv, PollTypes, PollsAnswered, Answers
<1> QED
  BY <1>1, AnsweringKeeps

\* A step of subscriber s that leaves the polls of the others alone.
LEMMA OneSubscriberKeeps ==
  ASSUME PollInv, NEW s \in Subscribers, PollTypes', UNCHANGED dead,
         \A t \in Subscribers \ {s} :
            /\ subscription'[t] = subscription[t] /\ connected'[t] = connected[t]
            /\ poll_sent'[t] = poll_sent[t] /\ connection'[t] = connection[t]
            /\ poll_reply'[t] = poll_reply[t],
         IF s \in dead THEN ~poll_sent'[s] ELSE PollOf(s)'
  PROVE  PollInv'
<1>1. ASSUME NEW t \in Subscribers, t # s, t \notin dead PROVE PollOf(t)'
  <2>1. PollOf(t)
    BY <1>1 DEF PollInv
  <2>2. SubscriptionExists(subscription[t])' <=> SubscriptionExists(subscription[t])
    BY <1>1 DEF SubscriptionExists
  <2> QED
    BY <1>1, <2>1, <2>2 DEF PollOf
<1>2. ASSUME NEW t \in Subscribers, t # s, t \in dead PROVE ~poll_sent'[t]
  BY <1>2 DEF PollInv
<1> QED
  BY <1>1, <1>2 DEF PollInv

LEMMA SubscribeKeepsPolls ==
  ASSUME PollInv, NEW s \in Subscribers, NEW c \in Channels, NEW e \in Entities,
         Subscribe(s, c, e)
  PROVE  PollInv'
<1>1. /\ s \notin dead
      /\ connected' = [connected EXCEPT ![s] = TRUE]
      /\ poll_sent' = [poll_sent EXCEPT ![s] = @ \/ ~connected[s]]
      /\ subscription' = [subscription EXCEPT ![s][c] = @ \cup {e}]
      /\ UNCHANGED <<connection, poll_reply, subscribers, dead>>
  BY DEF Subscribe, Call, MakeLongPollingConnectionIfNotConnected, pubVars
<1>2. PollTypes'
  BY <1>1 DEF PollInv, PollTypes
<1>3. PollOf(s)'
  BY <1>1, Zenon DEF PollInv, PollTypes, PollOf
<1> QED
  BY <1>1, <1>2, <1>3, OneSubscriberKeeps, Zenon DEF PollInv, PollTypes

LEMMA UnsubscribeKeepsPolls ==
  ASSUME PollInv, NEW s \in Subscribers, NEW c \in Channels, NEW e \in Entities,
         Unsubscribe(s, c, e)
  PROVE  PollInv'
<1>1. /\ s \notin dead
      /\ subscription' = [subscription EXCEPT ![s][c] = @ \ {e}]
      /\ UNCHANGED <<connected, poll_sent, connection, poll_reply, subscribers, dead>>
  BY DEF Unsubscribe, Call, pubVars
<1>2. PollTypes'
  BY <1>1 DEF PollInv, PollTypes
<1>3. SubscriptionExists(subscription[s])' => SubscriptionExists(subscription[s])
  BY <1>1, Zenon DEF PollInv, PollTypes, SubscriptionExists
<1>4. PollOf(s)'
  BY <1>1, <1>3, Zenon DEF PollInv, PollTypes, PollOf
<1> QED
  BY <1>1, <1>2, <1>4, OneSubscriberKeeps DEF PollInv, PollTypes

\* HandleLongPollingResponse: with no poll left behind, one is sent again exactly
\* when a subscription is left.
LEMMA PollAgainKeeps ==
  ASSUME PollInv, NEW s \in Subscribers, NEW subs \in [Channels -> SUBSET Entities],
         PollAgain(s, subs), UNCHANGED <<dead, subscribers>>, s \notin dead,
         connection' \in [Subscribers -> {None, "live", "stale"}],
         DOMAIN poll_reply' = Subscribers,
         \A t \in Subscribers \ {s} :
            connection'[t] = connection[t] /\ poll_reply'[t] = poll_reply[t],
         connection'[s] # "live", poll_reply'[s] = <<>>
  PROVE  PollInv'
<1>1. SubscriptionExists(subs) \in BOOLEAN
  BY Zenon DEF SubscriptionExists
<1>2. PollTypes'
  BY <1>1, Zenon DEF PollInv, PollTypes, PollAgain
<1>3. SubscriptionExists(subscription[s])' <=> SubscriptionExists(subs)
  BY Zenon DEF PollAgain, SubscriptionExists, PollInv, PollTypes
<1>4. PollOf(s)'
  BY <1>3, Zenon DEF PollInv, PollTypes, PollOf, PollAgain
<1> QED
  BY <1>2, <1>4, OneSubscriberKeeps, Zenon DEF PollInv, PollTypes, PollAgain

LEMMA HandleReplyKeepsPolls ==
  ASSUME PollInv, NEW s \in Subscribers, HandleReply(s)
  PROVE  PollInv'
<1>0. subscription[s] \in [Channels -> SUBSET Entities]
  BY Zenon DEF PollInv, PollTypes
<1>1. PICK subs \in [Channels -> SUBSET Entities] : PollAgain(s, subs)
  BY <1>0 DEF HandleReply
<1>2. /\ s \notin dead /\ UNCHANGED <<dead, subscribers, connection>>
      /\ poll_reply[s] # <<>> /\ poll_reply' = [poll_reply EXCEPT ![s] = <<>>]
  BY Zenon DEF HandleReply, Pub!ReplyTaken
<1>3. connection[s] # "live"
  BY <1>2, Zenon DEF PollInv, PollOf
<1> QED
  BY <1>1, <1>2, <1>3, PollAgainKeeps, Zenon DEF PollInv, PollTypes

LEMMA PollFailureKeepsPolls ==
  ASSUME PollInv, NEW s \in Subscribers, HandlePollFailure(s)
  PROVE  PollInv'
<1>1. HandlePublisherFailure(subscription[s]) \in [Channels -> SUBSET Entities]
  BY DEF HandlePublisherFailure, PollInv, PollTypes
<1>2. s \notin dead /\ PollAgain(s, HandlePublisherFailure(subscription[s])) /\ UNCHANGED dead
  BY DEF HandlePollFailure
<1>3. PollOf(s)
  BY <1>2, Zenon DEF PollInv
<1>4. CASE poll_sent[s] /\ UNCHANGED pubVars
  BY <1>1, <1>2, <1>3, <1>4, PollAgainKeeps, Zenon DEF PollInv, PollTypes, pubVars, PollOf
<1>5. CASE Pub!ConnectionBroken(s)
  <2>1. /\ connection[s] = "live" /\ connection' = [connection EXCEPT ![s] = "stale"]
        /\ UNCHANGED <<poll_reply, subscribers>>
    BY <1>5, Zenon DEF Pub!ConnectionBroken
  <2> QED
    BY <1>1, <1>2, <1>3, <2>1, PollAgainKeeps DEF PollInv, PollTypes, PollOf
<1>6. CASE Pub!ReplyTaken(s)
  <2>1. /\ poll_reply[s] # <<>> /\ poll_reply' = [poll_reply EXCEPT ![s] = <<>>]
        /\ UNCHANGED <<connection, subscribers>>
    BY <1>6 DEF Pub!ReplyTaken
  <2> QED
    BY <1>1, <1>2, <1>3, <2>1, PollAgainKeeps DEF PollInv, PollTypes, PollOf
<1> QED
  BY <1>4, <1>5, <1>6 DEF HandlePollFailure

\* A poll reaches the publisher: held or answered, and the one held before is
\* answered.
LEMMA ConnectEffect ==
  ASSUME PollTypes, NEW s \in Subscribers, NEW conn \in {"live", "stale"},
         Pub!ConnectToSubscriber(s, conn)
  PROVE  /\ connection' \in [Subscribers -> {None, "live", "stale"}]
         /\ DOMAIN poll_reply' = Subscribers /\ subscribers' \subseteq Subscribers
         /\ \A t \in Subscribers \ {s} :
               connection'[t] = connection[t] /\ poll_reply'[t] = poll_reply[t]
         /\ connection'[s] \in {None, conn}
         /\ IF connection[s] = "live" \/ (conn = "live" /\ connection'[s] = None)
            THEN poll_reply'[s] # <<>> ELSE poll_reply'[s] = poll_reply[s]
<1> DEFINE answered == mailbox[s] # <<>>
           reply == <<Pub!Batch(mailbox[s], cleared)>>
<1>1. /\ subscribers' = subscribers \cup {s}
      /\ connection' = [connection EXCEPT ![s] = IF answered THEN None ELSE conn]
      /\ poll_reply' = [poll_reply EXCEPT ![s] =
            IF connection[s] = "live" THEN << <<>> >>
            ELSE IF answered /\ conn = "live" THEN reply ELSE @]
  BY DEF Pub!ConnectToSubscriber
<1>2. reply # <<>> /\ << <<>> >> # <<>>
  OBVIOUS
<1> HIDE DEF reply, answered
<1> QED
  BY <1>1, <1>2, PubsubAssumption, Zenon DEF PollTypes

LEMMA HandlePollKeepsPolls ==
  ASSUME PollInv, NEW s \in Subscribers, HandlePoll(s)
  PROVE  PollInv'
<1>1. /\ poll_sent[s] /\ poll_sent' = [poll_sent EXCEPT ![s] = FALSE]
      /\ Pub!ConnectToSubscriber(s, "live") /\ UNCHANGED <<subscription, connected, dead>>
  BY DEF HandlePoll
<1>2. s \notin dead /\ PollOf(s)
  BY <1>1, Zenon DEF PollInv
<1>3. /\ connection' \in [Subscribers -> {None, "live", "stale"}]
      /\ DOMAIN poll_reply' = Subscribers /\ subscribers' \subseteq Subscribers
      /\ \A t \in Subscribers \ {s} :
            connection'[t] = connection[t] /\ poll_reply'[t] = poll_reply[t]
      /\ connection'[s] \in {None, "live"}
      /\ IF connection[s] = "live" \/ connection'[s] = None
         THEN poll_reply'[s] # <<>> ELSE poll_reply'[s] = poll_reply[s]
  BY <1>1, ConnectEffect DEF PollInv
<1>4. PollTypes'
  BY <1>1, <1>3, Zenon DEF PollInv, PollTypes
<1>5. SubscriptionExists(subscription[s])' <=> SubscriptionExists(subscription[s])
  BY <1>1, Zenon DEF SubscriptionExists
<1>6. PollOf(s)'
  BY <1>1, <1>2, <1>3, <1>5, PubsubAssumption, Zenon DEF PollInv, PollTypes, PollOf
<1> QED
  BY <1>1, <1>2, <1>3, <1>4, <1>6, OneSubscriberKeeps, Zenon DEF PollInv, PollTypes

LEMMA HandleLatePollKeepsPolls ==
  ASSUME PollInv, NEW s \in Subscribers, HandleLatePoll(s)
  PROVE  PollInv'
<1>1. /\ Pub!ConnectToSubscriber(s, "stale")
      /\ UNCHANGED <<subscription, connected, poll_sent, dead>>
  BY Zenon DEF HandleLatePoll
<1>2. /\ connection' \in [Subscribers -> {None, "live", "stale"}]
      /\ DOMAIN poll_reply' = Subscribers /\ subscribers' \subseteq Subscribers
      /\ \A t \in Subscribers \ {s} :
            connection'[t] = connection[t] /\ poll_reply'[t] = poll_reply[t]
      /\ connection'[s] \in {None, "stale"}
      /\ IF connection[s] = "live"
         THEN poll_reply'[s] # <<>> ELSE poll_reply'[s] = poll_reply[s]
  BY <1>1, ConnectEffect, Zenon DEF PollInv
<1>3. PollTypes'
  BY <1>1, <1>2 DEF PollInv, PollTypes
<1>4. SubscriptionExists(subscription[s])' <=> SubscriptionExists(subscription[s])
  BY <1>1, Zenon DEF SubscriptionExists
<1>5. ASSUME s \notin dead PROVE PollOf(s)'
  BY <1>1, <1>2, <1>4, <1>5, PubsubAssumption DEF PollInv, PollTypes, PollOf
<1>6. ASSUME s \in dead PROVE ~poll_sent'[s]
  BY <1>1, <1>6 DEF PollInv
<1> QED
  BY <1>1, <1>2, <1>3, <1>5, <1>6, OneSubscriberKeeps, Zenon DEF PollInv, PollTypes

LEMMA PublishKeepsPolls ==
  ASSUME PollInv, NEW c \in Channels, NEW k \in Keys, Publish(c, k)
  PROVE  PollInv'
<1>1. PICK failure \in BOOLEAN : Pub!PublishMessage(c, k, failure)
  BY Zenon DEF Publish, Pub!Publish, Pub!PublishFailure
<1>2. UNCHANGED <<subscription, connected, poll_sent, dead, subscribers>>
  BY <1>1 DEF Publish, Pub!PublishMessage, subVars
<1>3. \E S, box, clr : Pub!PublishIfPossible(S, FALSE, box, clr)
  BY <1>1, Zenon DEF Pub!PublishMessage
<1> QED
  BY <1>2, <1>3, PublishAnswers, AnsweringKeeps, Zenon DEF PollInv, PollTypes

LEMMA CheckDeadKeepsPolls ==
  ASSUME PollInv, CheckDeadSubscribers
  PROVE  PollInv'
<1>1. /\ UNCHANGED <<subscription, connected, poll_sent, dead>>
      /\ \E S, box : Pub!PublishIfPossible(S, TRUE, box, cleared)
      /\ subscribers' \subseteq subscribers
  BY Zenon DEF CheckDeadSubscribers, Pub!CheckDeadSubscribers, Pub!Unregister, subVars
<1> QED
  BY <1>1, PublishAnswers, AnsweringKeeps, Zenon DEF PollInv, PollTypes

LEMMA DeathKeepsPolls ==
  ASSUME PollInv, NEW s \in Subscribers, SubscriberDies(s)
  PROVE  PollInv'
<1>1. /\ s \notin dead /\ dead' = dead \cup {s}
      /\ poll_sent' = [poll_sent EXCEPT ![s] = FALSE]
      /\ UNCHANGED <<subscription, connected>>
  BY Zenon DEF SubscriberDies
<1>2. /\ connection' \in [Subscribers -> {None, "live", "stale"}]
      /\ DOMAIN poll_reply' = Subscribers /\ UNCHANGED subscribers
      /\ \A t \in Subscribers \ {s} :
            connection'[t] = connection[t] /\ poll_reply'[t] = poll_reply[t]
  BY DEF SubscriberDies, Pub!ConnectionBroken, Pub!ReplyTaken, pubVars, PollInv, PollTypes
<1>3. PollTypes'
  BY <1>1, <1>2, Zenon DEF PollInv, PollTypes
<1>4. ASSUME NEW t \in Subscribers, t \notin dead' PROVE PollOf(t)'
  <2>1. t # s /\ PollOf(t)
    BY <1>1, <1>4 DEF PollInv
  <2>2. SubscriptionExists(subscription[t])' <=> SubscriptionExists(subscription[t])
    BY <1>1 DEF SubscriptionExists
  <2> QED
    BY <1>1, <1>2, <2>1, <2>2 DEF PollOf, PollInv, PollTypes
<1>5. ASSUME NEW t \in dead' PROVE ~poll_sent'[t]
  BY <1>1, <1>5 DEF PollInv, PollTypes
<1> QED
  BY <1>3, <1>4, <1>5, Zenon DEF PollInv

LEMMA PollInit == Init => PollInv
<1> SUFFICES ASSUME Init PROVE PollInv
  BY Zenon
<1>1. PollTypes
  BY DEF Init, Pub!Init, PollTypes
<1>2. ASSUME NEW s \in Subscribers PROVE ~SubscriptionExists(subscription[s])
  BY DEF Init, SubscriptionExists
<1>3. ASSUME NEW s \in Subscribers PROVE PollOf(s)
  BY <1>2, PubsubAssumption, Zenon DEF Init, Pub!Init, PollOf
<1> QED
  BY <1>1, <1>3 DEF PollInv, Init

LEMMA PollStep == PollInv /\ [Next]_vars => PollInv'
<1> SUFFICES ASSUME PollInv, [Next]_vars PROVE PollInv'
  OBVIOUS
<1>0. subscribers \subseteq Subscribers
  BY DEF PollInv, PollTypes
<1>1. ASSUME NEW s \in Subscribers, NEW c \in Channels, NEW e \in Entities,
             Subscribe(s, c, e) \/ Unsubscribe(s, c, e)
      PROVE  PollInv'
  BY <1>1, SubscribeKeepsPolls, UnsubscribeKeepsPolls
<1>2. ASSUME NEW s \in Subscribers, HandleReply(s) \/ HandlePollFailure(s) PROVE PollInv'
  BY <1>2, HandleReplyKeepsPolls, PollFailureKeepsPolls, Zenon
<1>3. ASSUME NEW s \in Subscribers, HandleBatchReply(s) PROVE PollInv'
  BY <1>0, <1>3, QuietKeeps DEF HandleBatchReply, pubVars
<1>4. ASSUME NEW s \in Subscribers, HandleCommand(s) PROVE PollInv'
  <2>1. /\ subscribers' \subseteq Subscribers
        /\ UNCHANGED <<subscription, connected, poll_sent, dead, connection, poll_reply>>
    BY <1>0, <1>4, Zenon DEF HandleCommand, Pub!RegisterSubscription, Pub!UnregisterSubscription
  <2> QED
    BY <2>1, QuietKeeps
<1>5. ASSUME NEW s \in Subscribers, HandlePoll(s) \/ HandleLatePoll(s) PROVE PollInv'
  BY <1>5, HandlePollKeepsPolls, HandleLatePollKeepsPolls
<1>6. ASSUME NEW s \in Subscribers, TimePasses(s) PROVE PollInv'
  BY <1>0, <1>6, QuietKeeps DEF TimePasses, pubVars, subVars
<1>7. ASSUME NEW s \in Subscribers, SubscriberDies(s) PROVE PollInv'
  BY <1>7, DeathKeepsPolls
<1>8. ASSUME NEW c \in Channels, NEW k \in Keys, Publish(c, k) PROVE PollInv'
  BY <1>8, PublishKeepsPolls
<1>9. ASSUME CheckDeadSubscribers PROVE PollInv'
  BY <1>9, CheckDeadKeepsPolls
<1>10. ASSUME PublisherDies PROVE PollInv'
  BY <1>0, <1>10, QuietKeeps, Zenon DEF PublisherDies, pubVars, subVars
<1>11. ASSUME UNCHANGED vars PROVE PollInv'
  BY <1>0, <1>11, QuietKeeps DEF vars, pubVars, subVars
<1> QED
  BY <1>1, <1>2, <1>3, <1>4, <1>5, <1>6, <1>7, <1>8, <1>9, <1>10, <1>11 DEF Next

\* Where the long poll of each subscriber is, in every state: MakeLongPollingPubsubConnection,
\* the publisher's reply callbacks and the failure of the publisher keep it in one place.
THEOREM PollInvariance == Spec => []PollInv
  BY PollInit, PollStep, PTL DEF Spec

\* A live subscriber keeps exactly one long poll while it has a subscription, on
\* the wire, held by the publisher or answered, whatever fails or arrives late.
THEOREM OnePollEach == Spec => []OnePoll
<1>1. PollInv => OnePoll
  BY Zenon DEF PollInv, PollTypes, PollOf, OnePoll
<1> QED
  BY <1>1, PollInvariance, PTL

----------------------------------------------------------------------------
\* Commands

\* A queue is split at the batch size: nothing is lost, the rest is what a
\* subscriber may send.
LEMMA SplitQueue ==
  ASSUME NEW C, NEW q \in Seq(C), NEW n \in 0..Len(q)
  PROVE  /\ SubSeq(q, 1, n) \in Seq(C) /\ SubSeq(q, n + 1, Len(q)) \in Seq(C)
         /\ SubSeq(q, 1, n) \o SubSeq(q, n + 1, Len(q)) = q
<1> DEFINE a == SubSeq(q, 1, n)
           b == SubSeq(q, n + 1, Len(q))
<1>1. /\ a \in Seq(C) /\ Len(a) = n /\ \A i \in 1..n : a[i] = q[i]
  OBVIOUS
<1>2. /\ b \in Seq(C) /\ Len(b) = Len(q) - n /\ \A i \in 1..Len(b) : b[i] = q[n + i]
  OBVIOUS
<1> HIDE DEF a, b
<1>3. /\ a \o b \in Seq(C) /\ Len(a \o b) = Len(q)
      /\ \A i \in 1..Len(q) : (a \o b)[i] = IF i <= n THEN a[i] ELSE b[i - n]
  BY <1>1, <1>2, Joined
<1>5. ASSUME NEW i \in 1..Len(q) PROVE (a \o b)[i] = q[i]
  <2>1. CASE i <= n
    BY <1>1, <1>3, <2>1
  <2>2. CASE ~(i <= n)
    <3>1. i - n \in 1..Len(b) /\ n + (i - n) = i
      BY <1>2, <2>2
    <3> QED
      BY <1>2, <1>3, <2>2, <3>1
  <2> QED
    BY <2>1, <2>2, Zenon
<1>4. a \o b = q
  BY <1>3, <1>5, SameItems, Zenon
<1> QED
  BY <1>1, <1>2, <1>4, Zenon DEF a, b

\* SendCommandBatchIfPossible moves commands from the queue to an empty batch.
LEMMA SendKeepsCommands ==
  ASSUME CommandInv, NEW s \in Subscribers, NEW queue \in Seq(CommandsOf(s)), NEW sent,
         sent = None \/ sent \in Seq(CommandsOf(s)),
         SendCommandBatchIfPossible(s, queue, sent)
  PROVE  CommandInv'
<1> DEFINE send == sent = None /\ queue # <<>>
           n == IF Len(queue) < MaxCommandBatchSize THEN Len(queue) ELSE MaxCommandBatchSize
           b == IF send THEN SubSeq(queue, 1, n) ELSE sent
           q == IF send THEN SubSeq(queue, n + 1, Len(queue)) ELSE queue
<1>1. batch' = [batch EXCEPT ![s] = b] /\ commands' = [commands EXCEPT ![s] = q]
  BY DEF SendCommandBatchIfPossible
<1>2. n \in 0..Len(queue)
  BY PubsubAssumption
<1>3. q \in Seq(CommandsOf(s)) /\ (b = None \/ b \in Seq(CommandsOf(s)))
  BY <1>2, SplitQueue
<1>4. q \in Seq(Commands)
  BY <1>3 DEF CommandsOf
<1> HIDE DEF b, q, n
<1>5. commands' \in [Subscribers -> Seq(Commands)] /\ DOMAIN batch' = Subscribers
  BY <1>1, <1>4, Zenon DEF CommandInv
<1>6. ASSUME NEW t \in Subscribers
      PROVE  /\ commands'[t] \in Seq(CommandsOf(t))
             /\ batch'[t] = None \/ batch'[t] \in Seq(CommandsOf(t))
  BY <1>1, <1>3, Zenon DEF CommandInv
<1>7. \A t \in Subscribers : CommandsOf(t)' = CommandsOf(t)
  BY DEF CommandsOf, Pub!OneKind
<1> QED
  BY <1>5, <1>6, <1>7, Zenon DEF CommandInv

LEMMA CommandInit == Init => CommandInv
<1> SUFFICES ASSUME Init PROVE CommandInv
  OBVIOUS
<1>1. \A s \in Subscribers : commands[s] = <<>> /\ batch[s] = None
  BY Zenon DEF Init
<1>2. commands \in [Subscribers -> Seq(Commands)] /\ DOMAIN batch = Subscribers
  BY DEF Init
<1> QED
  BY <1>1, <1>2 DEF CommandInv

\* Steps that touch no command.
LEMMA CommandsUnchanged ==
  ASSUME CommandInv, UNCHANGED <<commands, batch>>
  PROVE  CommandInv'
<1>1. \A t \in Subscribers : CommandsOf(t)' = CommandsOf(t)
  BY DEF CommandsOf, Pub!OneKind
<1> QED
  BY <1>1, Zenon DEF CommandInv

\* A call of the user queues a command of its kind.
LEMMA CallKeepsCommands ==
  ASSUME CommandInv, NEW s \in Subscribers, NEW c \in Channels, NEW e \in Entities,
         NEW sub \in BOOLEAN, Pub!OneKind(c, e, s),
         SendCommandBatchIfPossible(s,
            Append(commands[s], [subscribe |-> sub, channel |-> c, entity |-> e]), batch[s])
  PROVE  CommandInv'
<1> DEFINE cmd == [subscribe |-> sub, channel |-> c, entity |-> e]
<1>1. cmd \in CommandsOf(s)
  BY Zenon DEF CommandsOf, Commands
<1> HIDE DEF cmd
<1>2. Append(commands[s], cmd) \in Seq(CommandsOf(s))
  BY <1>1 DEF CommandInv
<1> QED
  BY <1>2, SendKeepsCommands, Zenon DEF CommandInv, cmd

LEMMA HandleCommandKeepsCommands ==
  ASSUME CommandInv, NEW s \in Subscribers, HandleCommand(s)
  PROVE  CommandInv'
<1>1. /\ batch[s] # None /\ batch[s] # <<>>
      /\ batch' = [batch EXCEPT ![s] = Tail(@)] /\ UNCHANGED commands
  BY DEF HandleCommand
<1>2. batch[s] \in Seq(CommandsOf(s))
  BY <1>1 DEF CommandInv
<1>3. Tail(batch[s]) \in Seq(CommandsOf(s))
  BY <1>1, <1>2
<1>4. \A t \in Subscribers : CommandsOf(t)' = CommandsOf(t)
  BY DEF CommandsOf, Pub!OneKind
<1>5. ASSUME NEW t \in Subscribers
      PROVE  batch'[t] = None \/ batch'[t] \in Seq(CommandsOf(t))
  BY <1>1, <1>3, Zenon DEF CommandInv
<1> QED
  BY <1>1, <1>4, <1>5, Zenon DEF CommandInv

LEMMA CommandStep == CommandInv /\ [Next]_vars => CommandInv'
<1> SUFFICES ASSUME CommandInv, [Next]_vars PROVE CommandInv'
  OBVIOUS
<1>1. ASSUME NEW s \in Subscribers, NEW c \in Channels, NEW e \in Entities,
             Subscribe(s, c, e)
      PROVE  CommandInv'
  BY <1>1, CallKeepsCommands, Zenon DEF Subscribe
<1>2. ASSUME NEW s \in Subscribers, NEW c \in Channels, NEW e \in Entities,
             Unsubscribe(s, c, e)
      PROVE  CommandInv'
  BY <1>2, CallKeepsCommands, Zenon DEF Unsubscribe
<1>3. ASSUME NEW s \in Subscribers, HandlePollFailure(s) PROVE CommandInv'
  <2>1. commands' = [commands EXCEPT ![s] = <<>>] /\ UNCHANGED batch
    BY <1>3 DEF HandlePollFailure
  <2>2. \A t \in Subscribers : CommandsOf(t)' = CommandsOf(t)
    BY DEF CommandsOf, Pub!OneKind
  <2>3. <<>> \in Seq(Commands) /\ <<>> \in Seq(CommandsOf(s))
    OBVIOUS
  <2> QED
    BY <2>1, <2>2, <2>3, Zenon DEF CommandInv
<1>4. ASSUME NEW s \in Subscribers, HandleBatchReply(s) PROVE CommandInv'
  BY <1>4, SendKeepsCommands DEF HandleBatchReply, CommandInv
<1>5. ASSUME NEW s \in Subscribers, HandleCommand(s) PROVE CommandInv'
  BY <1>5, HandleCommandKeepsCommands
<1>6. ASSUME NEW s \in Subscribers,
             HandleReply(s) \/ HandlePoll(s) \/ HandleLatePoll(s) \/ TimePasses(s)
             \/ SubscriberDies(s)
      PROVE  CommandInv'
  BY <1>6, CommandsUnchanged, Zenon
     DEF HandleReply, HandlePoll, HandleLatePoll, TimePasses, SubscriberDies, subVars
<1>7. ASSUME NEW c \in Channels, NEW k \in Keys, Publish(c, k) PROVE CommandInv'
  BY <1>7, CommandsUnchanged, Zenon DEF Publish, subVars
<1>8. ASSUME CheckDeadSubscribers \/ PublisherDies \/ UNCHANGED vars PROVE CommandInv'
  BY <1>8, CommandsUnchanged DEF CheckDeadSubscribers, PublisherDies, vars, subVars
<1> QED
  BY <1>1, <1>2, <1>3, <1>4, <1>5, <1>6, <1>7, <1>8 DEF Next

\* What SendCommandBatchIfPossible queues and has in flight are sequences of the
\* subscriber's own commands.
THEOREM CommandInvariance == Spec => []CommandInv
  BY CommandInit, CommandStep, PTL DEF Spec

----------------------------------------------------------------------------
\* The publisher among its subscribers is the publisher specified alone

LEMMA PublisherInit == Init => Pub!Init
  BY DEF Init

LEMMA PublisherStutters ==
  ASSUME UNCHANGED pubVars
  PROVE  UNCHANGED Pub!vars
  BY Zenon DEF pubVars, Pub!vars, Pub!indexVars

LEMMA PublisherStep == PollInv /\ CommandInv /\ [Next]_vars => [Pub!Next]_Pub!vars
<1> SUFFICES ASSUME PollInv, CommandInv, [Next]_vars PROVE [Pub!Next]_Pub!vars
  OBVIOUS
<1>0. Entities = Pub!Entities
  BY DEF Entities, Pub!Entities
<1>1. ASSUME NEW s \in Subscribers, NEW c \in Channels, NEW e \in Entities,
             Subscribe(s, c, e) \/ Unsubscribe(s, c, e)
      PROVE  UNCHANGED Pub!vars
  BY <1>1, PublisherStutters, Zenon DEF Subscribe, Unsubscribe
<1>2. ASSUME NEW s \in Subscribers, HandleReply(s) PROVE Pub!Next
  BY <1>2, Zenon DEF HandleReply, Pub!Next
<1>3. ASSUME NEW s \in Subscribers, HandlePollFailure(s) PROVE [Pub!Next]_Pub!vars
  BY <1>3, PublisherStutters, Zenon DEF HandlePollFailure, Pub!Next
<1>4. ASSUME NEW s \in Subscribers, HandleBatchReply(s) PROVE UNCHANGED Pub!vars
  BY <1>4, PublisherStutters, Zenon DEF HandleBatchReply
<1>5. ASSUME NEW s \in Subscribers, HandleCommand(s) PROVE Pub!Next
  <2> DEFINE cmd == Head(batch[s])
  <2>1. batch[s] # None /\ batch[s] # <<>> /\ batch[s] \in Seq(CommandsOf(s))
    BY <1>5, Zenon DEF HandleCommand, CommandInv
  <2>2. cmd \in CommandsOf(s)
    BY <2>1
  <2>3. \/ Pub!RegisterSubscription(cmd.channel, cmd.entity, s)
        \/ Pub!UnregisterSubscription(cmd.channel, cmd.entity, s)
    BY <1>5, Zenon DEF HandleCommand
  <2> HIDE DEF cmd
  <2>4. /\ cmd.channel \in Channels /\ cmd.entity \in Pub!Entities
        /\ Pub!OneKind(cmd.channel, cmd.entity, s)
    BY <1>0, <2>2 DEF CommandsOf, Commands
  <2> QED
    BY <2>3, <2>4 DEF Pub!Next
<1>6. ASSUME NEW s \in Subscribers, HandlePoll(s) PROVE Pub!Next
  <2>1. connection[s] # "live" /\ poll_reply[s] = <<>>
    BY <1>6, Zenon DEF HandlePoll, PollInv, PollOf
  <2> QED
    BY <1>6, <2>1, Zenon DEF HandlePoll, Pub!PollArrives, Pub!Next
<1>7. ASSUME NEW s \in Subscribers, HandleLatePoll(s) PROVE Pub!Next
  BY <1>7 DEF HandleLatePoll, Pub!PollArrives, Pub!Next
<1>8. ASSUME NEW s \in Subscribers, TimePasses(s) PROVE UNCHANGED Pub!vars
  BY <1>8, PublisherStutters, Zenon DEF TimePasses
<1>9. ASSUME NEW s \in Subscribers, SubscriberDies(s) PROVE [Pub!Next]_Pub!vars
  BY <1>9, PublisherStutters, Zenon DEF SubscriberDies, Pub!Next
<1>10. ASSUME NEW c \in Channels, NEW k \in Keys, Publish(c, k) PROVE Pub!Next
  BY <1>10, Zenon DEF Publish, Pub!Next
<1>11. ASSUME CheckDeadSubscribers PROVE Pub!Next
  BY <1>11, Zenon DEF CheckDeadSubscribers, Pub!Next
<1>12. ASSUME PublisherDies \/ UNCHANGED vars PROVE UNCHANGED Pub!vars
  BY <1>12, PublisherStutters DEF PublisherDies, vars
<1> QED
  BY <1>1, <1>2, <1>3, <1>4, <1>5, <1>6, <1>7, <1>8, <1>9, <1>10, <1>11, <1>12 DEF Next

\* Every behaviour of the publisher among its subscribers is one of the publisher
\* specified alone: the subscribers keep the contract its invariants rest on.
THEOREM PublisherImplemented == Spec => PublisherRefined
<1>1. Init => Pub!Init
  BY PublisherInit
<1>2. PollInv /\ CommandInv /\ [Next]_vars => [Pub!Next]_Pub!vars
  BY PublisherStep, Zenon
<1> QED
  BY <1>1, <1>2, PollInvariance, CommandInvariance, PTL DEF Spec, PublisherRefined, Pub!Spec

----------------------------------------------------------------------------
\* The subscriptions that both sides have

About(cmds, c, e) == {i \in 1..Len(cmds) : cmds[i].channel = c /\ cmds[i].entity = e}

\* Whether the publisher will have the entity once it has carried out the commands.
Wanted(cmds, c, e, known) ==
    IF About(cmds, c, e) = {} THEN known
    ELSE \E i \in About(cmds, c, e) : cmds[i].subscribe /\ \A j \in About(cmds, c, e) : j <= i

LEMMA AgreeWanted ==
  ASSUME NEW s
  PROVE  Agree(s) <=> \A c \in Channels : \A e \in subscription[s][c] :
            Wanted(OnTheWay(s), c, e, s \in Pub!EntitySubscribers(c, e))
  BY Zenon DEF Agree, Wanted, About

\* A command put last decides about its own entity and about no other.
LEMMA LastCommand ==
  ASSUME NEW cmds \in Seq(Commands), NEW cmd \in Commands, NEW c, NEW e, NEW known
  PROVE  /\ ~(cmd.channel = c /\ cmd.entity = e) =>
               (Wanted(Append(cmds, cmd), c, e, known) <=> Wanted(cmds, c, e, known))
         /\ cmd.channel = c /\ cmd.entity = e /\ cmd.subscribe =>
               Wanted(Append(cmds, cmd), c, e, known)
<1> DEFINE more == Append(cmds, cmd)
<1>1. /\ Len(more) = Len(cmds) + 1 /\ Len(cmds) \in Nat /\ more[Len(cmds) + 1] = cmd
      /\ \A i \in 1..Len(cmds) : more[i] = cmds[i]
  OBVIOUS
<1> HIDE DEF more
<1>2. ASSUME ~(cmd.channel = c /\ cmd.entity = e)
      PROVE  Wanted(more, c, e, known) <=> Wanted(cmds, c, e, known)
  <2>1. \A i \in 1..Len(more) : i \in 1..Len(cmds) \/ i = Len(cmds) + 1
    BY <1>1
  <2>2. About(more, c, e) = About(cmds, c, e)
    BY <1>1, <1>2, <2>1 DEF About
  <2>3. \A i \in About(cmds, c, e) : more[i] = cmds[i]
    BY <1>1 DEF About
  <2> QED
    BY <2>2, <2>3, Zenon DEF Wanted
<1>3. ASSUME cmd.channel = c, cmd.entity = e, cmd.subscribe
      PROVE  Wanted(more, c, e, known)
  <2>1. Len(more) \in About(more, c, e)
    BY <1>1, <1>3 DEF About
  <2>2. \A j \in About(more, c, e) : j <= Len(more)
    BY <1>1 DEF About
  <2>3. more[Len(more)].subscribe
    BY <1>1, <1>3, Zenon
  <2> QED
    BY <2>1, <2>2, <2>3, Zenon DEF Wanted
<1> QED
  BY <1>2, <1>3 DEF more

\* Carrying out the first command changes what the publisher knows, not what it
\* will know in the end.
LEMMA FirstCommand ==
  ASSUME NEW cmds \in Seq(Commands), cmds # <<>>, NEW c, NEW e, NEW known \in BOOLEAN,
         Wanted(cmds, c, e, known)
  PROVE  Wanted(Tail(cmds), c, e,
                IF Head(cmds).channel = c /\ Head(cmds).entity = e
                THEN Head(cmds).subscribe ELSE known)
<1> DEFINE rest == Tail(cmds)
           mine == Head(cmds).channel = c /\ Head(cmds).entity = e
<1>1. /\ Len(cmds) \in Nat \ {0} /\ Len(rest) = Len(cmds) - 1 /\ cmds[1] = Head(cmds)
      /\ \A i \in 1..Len(rest) : rest[i] = cmds[i + 1]
  OBVIOUS
<1> HIDE DEF rest
<1>2. ASSUME NEW i \in About(rest, c, e) PROVE i \in Nat /\ i + 1 \in About(cmds, c, e)
  BY <1>1 DEF About
<1>3. ASSUME NEW i \in About(cmds, c, e), i # 1 PROVE i \in Nat /\ i - 1 \in About(rest, c, e)
  <2>1. i \in 1..Len(cmds) /\ cmds[i].channel = c /\ cmds[i].entity = e
    BY Zenon DEF About
  <2>2. i - 1 \in 1..Len(rest) /\ (i - 1) + 1 = i
    BY <1>1, <1>3, <2>1
  <2> QED
    BY <1>1, <2>1, <2>2 DEF About
<1>4. 1 \in About(cmds, c, e) <=> mine
  BY <1>1 DEF About
<1>5. CASE About(rest, c, e) = {}
  <2>1. \A i \in About(cmds, c, e) : i = 1
    BY <1>3, <1>5, Zenon
  <2>2. CASE mine
    <3>1. cmds[1].subscribe
      BY <1>4, <2>1, <2>2, Zenon DEF Wanted
    <3> QED
      BY <1>1, <1>5, <2>2, <3>1, Zenon DEF Wanted, rest
  <2>3. CASE ~mine
    <3>1. About(cmds, c, e) = {}
      BY <1>4, <2>1, <2>3
    <3> QED
      BY <1>5, <2>3, <3>1, Zenon DEF Wanted, rest
  <2> QED
    BY <2>2, <2>3
<1>6. CASE About(rest, c, e) # {}
  <2>1. PICK k \in About(rest, c, e) : TRUE
    BY <1>6, Zenon
  <2>2. About(cmds, c, e) # {}
    BY <1>2, <2>1, Zenon
  <2>3. PICK i \in About(cmds, c, e) : cmds[i].subscribe /\ \A j \in About(cmds, c, e) : j <= i
    BY <2>2, Zenon DEF Wanted
  <2>4. k + 1 <= i /\ k \in Nat /\ k >= 1
    BY <1>2, <2>1, <2>3 DEF About
  <2>5. i # 1
    BY <2>4
  <2>6. i \in Nat /\ i - 1 \in About(rest, c, e)
    BY <1>3, <2>5, Zenon
  <2>7. i - 1 \in 1..Len(rest) /\ (i - 1) + 1 = i
    BY <2>6 DEF About
  <2>8. rest[i - 1] = cmds[i]
    BY <1>1, <2>7, Zenon
  <2>9. \A j \in About(rest, c, e) : j <= i - 1
    BY <1>2, <2>3, <2>6
  <2> QED
    BY <1>6, <2>3, <2>6, <2>8, <2>9, Zenon DEF Wanted, rest
<1> QED
  BY <1>5, <1>6

LEMMA CommandTypes ==
  ASSUME CommandInv, NEW s \in Subscribers
  PROVE  commands[s] \in Seq(Commands) /\ (batch[s] = None \/ batch[s] \in Seq(Commands))
<1>1. CommandsOf(s) \subseteq Commands
  BY Zenon DEF CommandsOf
<1>2. commands[s] \in Seq(Commands) /\ (batch[s] = None \/ batch[s] \in Seq(CommandsOf(s)))
  BY Zenon DEF CommandInv
<1> QED
  BY <1>1, <1>2, Wider

LEMMA FirstOfConcat ==
  ASSUME NEW C, NEW p \in Seq(C), NEW q \in Seq(C), p # <<>>
  PROVE  /\ p \o q \in Seq(C) /\ p \o q # <<>> /\ Head(p \o q) = Head(p)
         /\ Tail(p \o q) = Tail(p) \o q
<1> DEFINE l == Tail(p \o q)
           r == Tail(p) \o q
<1>1. /\ p \o q \in Seq(C) /\ Len(p \o q) = Len(p) + Len(q) /\ Tail(p) \in Seq(C)
      /\ Len(p) \in Nat \ {0} /\ Len(q) \in Nat /\ Len(Tail(p)) = Len(p) - 1
  OBVIOUS
<1>2. p \o q # <<>> /\ Head(p \o q) = Head(p)
  BY <1>1
<1>3. l \in Seq(C) /\ r \in Seq(C) /\ Len(l) = Len(r) /\ Len(l) = Len(p) + Len(q) - 1
  BY <1>1, <1>2, Joined
<1>4. ASSUME NEW i \in 1..Len(p) + Len(q) - 1 PROVE l[i] = r[i]
  <2>1. l[i] = (p \o q)[i + 1]
    BY <1>1, <1>2
  <2>2. (p \o q)[i + 1] = IF i + 1 <= Len(p) THEN p[i + 1] ELSE q[i + 1 - Len(p)]
    BY <1>1, Joined
  <2>3. r[i] = IF i <= Len(p) - 1 THEN Tail(p)[i] ELSE q[i - (Len(p) - 1)]
    BY <1>1, Joined
  <2>4. CASE i <= Len(p) - 1
    BY <1>1, <2>1, <2>2, <2>3, <2>4
  <2>5. CASE ~(i <= Len(p) - 1)
    BY <1>1, <2>1, <2>2, <2>3, <2>5
  <2> QED
    BY <2>4, <2>5, Zenon
<1>5. l = r
  BY <1>3, <1>4, SameItems, Zenon
<1> QED
  BY <1>1, <1>2, <1>5

\* The batch and the queue together are a sequence of commands.
LEMMA OnTheWayType ==
  ASSUME CommandInv, NEW s \in Subscribers
  PROVE  OnTheWay(s) \in Seq(Commands)
  BY CommandTypes DEF OnTheWay

LEMMA AppendLast ==
  ASSUME NEW C, NEW p \in Seq(C), NEW q \in Seq(C), NEW x \in C
  PROVE  p \o Append(q, x) = Append(p \o q, x) /\ <<>> \o q = q
<1> DEFINE l == p \o Append(q, x)
           r == Append(p \o q, x)
<1>1. Append(q, x) \in Seq(C) /\ p \o q \in Seq(C)
  OBVIOUS
<1>2. l \in Seq(C) /\ r \in Seq(C) /\ Len(l) = Len(r) /\ Len(l) = Len(p) + Len(q) + 1
  BY <1>1, Joined
<1>3. ASSUME NEW i \in 1..Len(p) + Len(q) + 1 PROVE l[i] = r[i]
  <2>1. l[i] = IF i <= Len(p) THEN p[i] ELSE Append(q, x)[i - Len(p)]
    BY <1>1, Joined
  <2>2. r[i] = IF i <= Len(p) + Len(q) THEN (p \o q)[i] ELSE x
    BY <1>1, Joined
  <2> QED
    BY <2>1, <2>2
<1>4. l = r
  BY <1>2, <1>3, SameItems, Zenon
<1>5. <<>> \o q = q
  BY JoinedEmpty
<1> QED
  BY <1>4, <1>5

\* SendCommandBatchIfPossible changes where the commands are, not their order.
LEMMA SendOnTheWay ==
  ASSUME CommandInv, NEW s \in Subscribers, NEW queue \in Seq(Commands), NEW sent,
         sent = None \/ sent \in Seq(Commands),
         SendCommandBatchIfPossible(s, queue, sent)
  PROVE  /\ OnTheWay(s)' = (IF sent = None THEN <<>> ELSE sent) \o queue
         /\ \A t \in Subscribers \ {s} : OnTheWay(t)' = OnTheWay(t)
<1> DEFINE send == sent = None /\ queue # <<>>
           n == IF Len(queue) < MaxCommandBatchSize THEN Len(queue) ELSE MaxCommandBatchSize
           b == IF send THEN SubSeq(queue, 1, n) ELSE sent
           q == IF send THEN SubSeq(queue, n + 1, Len(queue)) ELSE queue
<1>1. batch' = [batch EXCEPT ![s] = b] /\ commands' = [commands EXCEPT ![s] = q]
  BY Zenon DEF SendCommandBatchIfPossible
<1>2. n \in 0..Len(queue)
  BY PubsubAssumption
<1>3. CASE send
  <2>1. b \in Seq(Commands) /\ b \o q = queue
    BY <1>2, <1>3, SplitQueue, Zenon
  <2>2. b # None /\ <<>> \o queue = queue
    BY <2>1, JoinedEmpty, PubsubAssumption, Zenon
  <2>3. batch'[s] = b /\ commands'[s] = q
    BY <1>1 DEF CommandInv
  <2>4. sent = None
    BY <1>3, Zenon
  <2> HIDE DEF b, q
  <2>5. OnTheWay(s)' = b \o q
    BY <2>2, <2>3 DEF OnTheWay
  <2>6. ASSUME NEW t \in Subscribers \ {s} PROVE OnTheWay(t)' = OnTheWay(t)
    BY <1>1, Zenon DEF OnTheWay, CommandInv
  <2> QED
    BY <2>1, <2>2, <2>4, <2>5, <2>6
<1>4. CASE ~send
  BY <1>1, <1>4, Zenon DEF OnTheWay, CommandInv
<1> QED
  BY <1>3, <1>4, Zenon

IndexTypes ==
    /\ subscribers_to_all \in [Channels -> SUBSET Subscribers]
    /\ entities \in [Channels -> [Keys -> SUBSET Subscribers]]
    /\ faults \in Nat


AgreeInv == IndexTypes /\ SubscriptionsAgree

\* A step that sends no command keeps what s agreed on, if the subscriber gives up
\* subscriptions at most and the publisher forgets none of its.
LEMMA AgreeKept ==
  ASSUME NEW s, Agree(s), OnTheWay(s)' = OnTheWay(s),
         \A c \in Channels : subscription'[s][c] \subseteq subscription[s][c],
         \A c \in Channels : \A e \in subscription[s][c] :
            s \in Pub!EntitySubscribers(c, e) => s \in Pub!EntitySubscribers(c, e)'
  PROVE  Agree(s)'
<1>1. ASSUME NEW c \in Channels, NEW e \in subscription'[s][c]
      PROVE  Wanted(OnTheWay(s)', c, e, s \in Pub!EntitySubscribers(c, e)')
  <2>1. e \in subscription[s][c]
    BY Zenon
  <2>2. Wanted(OnTheWay(s), c, e, s \in Pub!EntitySubscribers(c, e))
    BY <2>1, AgreeWanted, Zenon
  <2> QED
    BY <2>1, <2>2, Zenon DEF Wanted
<1> QED
  BY <1>1, Zenon DEF Agree, Wanted, About

\* Subscribe and Unsubscribe.
LEMMA CallAgrees ==
  ASSUME CommandInv, PollTypes, NEW s \in Subscribers, NEW c \in Channels, NEW e \in Entities,
         NEW sub \in BOOLEAN, Agree(s),
         subscription' = [subscription EXCEPT ![s][c] = IF sub THEN @ \cup {e} ELSE @ \ {e}],
         SendCommandBatchIfPossible(s,
            Append(commands[s], [subscribe |-> sub, channel |-> c, entity |-> e]), batch[s]),
         UNCHANGED <<subscribers_to_all, entities>>
  PROVE  Agree(s)'
<1> DEFINE cmd == [subscribe |-> sub, channel |-> c, entity |-> e]
<1>1. cmd \in Commands /\ cmd.channel = c /\ cmd.entity = e /\ cmd.subscribe = sub
  BY Zenon DEF Commands
<1> HIDE DEF cmd
<1>2. /\ commands[s] \in Seq(Commands) /\ (batch[s] = None \/ batch[s] \in Seq(Commands))
      /\ Append(commands[s], cmd) \in Seq(Commands)
  BY <1>1, CommandTypes
<1>3. OnTheWay(s)' = (IF batch[s] = None THEN <<>> ELSE batch[s]) \o Append(commands[s], cmd)
  BY <1>2, SendOnTheWay, ZenonT(40) DEF cmd
<1>4. OnTheWay(s)' = Append(OnTheWay(s), cmd)
  <2> DEFINE b == IF batch[s] = None THEN <<>> ELSE batch[s]
  <2>1. b \in Seq(Commands) /\ OnTheWay(s) = b \o commands[s]
    BY <1>2 DEF OnTheWay
  <2>2. OnTheWay(s)' = b \o Append(commands[s], cmd)
    BY <1>3, Zenon
  <2> HIDE DEF b
  <2>3. b \o Append(commands[s], cmd) = Append(b \o commands[s], cmd)
    <3>1. b \in Seq(Commands) /\ commands[s] \in Seq(Commands) /\ cmd \in Commands
      BY <1>1, <1>2, <2>1, Zenon
    <3> QED
      BY <3>1, AppendLast
  <2> QED
    BY <2>1, <2>2, <2>3, Zenon
<1>5. \A d \in Channels, f \in Entities :
         Pub!EntitySubscribers(d, f)' = Pub!EntitySubscribers(d, f)
  BY DEF Pub!EntitySubscribers
<1>6. ASSUME NEW d \in Channels, NEW f \in subscription'[s][d]
      PROVE  Wanted(OnTheWay(s)', d, f, s \in Pub!EntitySubscribers(d, f)')
  <2>0. /\ subscription[s][d] \in SUBSET Entities
        /\ subscription'[s][d] = IF d = c THEN IF sub THEN subscription[s][c] \cup {e}
                                                     ELSE subscription[s][c] \ {e}
                                          ELSE subscription[s][d]
    BY Zenon DEF PollTypes
  <2>1. f \in Entities /\ (f \in subscription[s][d] \/ (d = c /\ f = e /\ sub))
    BY <2>0
  <2>2. d = c /\ f = e => sub
    BY <2>0
  <2>3. CASE d = c /\ f = e
    <3>1. cmd.channel = d /\ cmd.entity = f /\ cmd.subscribe
      BY <1>1, <2>2, <2>3, Zenon
    <3>2. \A known : Wanted(Append(OnTheWay(s), cmd), d, f, known)
      BY <1>1, <3>1, OnTheWayType, LastCommand, Zenon
    <3> QED
      BY <1>4, <3>2, Zenon
  <2>4. CASE ~(d = c /\ f = e)
    <3>1. Wanted(OnTheWay(s), d, f, s \in Pub!EntitySubscribers(d, f))
      BY <2>1, <2>4, AgreeWanted, Zenon
    <3>2. Wanted(Append(OnTheWay(s), cmd), d, f, s \in Pub!EntitySubscribers(d, f))
      BY <1>1, <2>4, <3>1, OnTheWayType, LastCommand
    <3> QED
      BY <1>4, <1>5, <2>1, <3>2
  <2> QED
    BY <2>3, <2>4, Zenon
<1> QED
  BY <1>6, Zenon DEF Agree, Wanted, About

\* One command of a batch reaches the publisher.
LEMMA CommandAgrees ==
  ASSUME CommandInv, PollTypes, IndexTypes, NEW s \in Subscribers, HandleCommand(s)
  PROVE  IndexTypes' /\ \A t \in Subscribers : Agree(t) => Agree(t)'
<1> DEFINE cmd == Head(batch[s])
<1>1. /\ batch[s] # None /\ batch[s] # <<>> /\ batch' = [batch EXCEPT ![s] = Tail(@)]
      /\ UNCHANGED <<commands, subscription>>
      /\ IF cmd.subscribe THEN Pub!RegisterSubscription(cmd.channel, cmd.entity, s)
                          ELSE Pub!UnregisterSubscription(cmd.channel, cmd.entity, s)
  BY Zenon DEF HandleCommand
<1>2. batch[s] \in Seq(Commands) /\ commands[s] \in Seq(Commands)
  BY <1>1, CommandTypes, Zenon
<1>3. cmd \in Commands /\ Tail(batch[s]) \in Seq(Commands) /\ Tail(batch[s]) # None
  <2>1. cmd \in Commands /\ Tail(batch[s]) \in Seq(Commands)
    BY <1>1, <1>2
  <2> QED
    BY <2>1, PubsubAssumption, Zenon
<1>4. /\ OnTheWay(s) \in Seq(Commands) /\ OnTheWay(s) # <<>> /\ Head(OnTheWay(s)) = cmd
      /\ OnTheWay(s)' = Tail(OnTheWay(s))
  <2>1. OnTheWay(s) = batch[s] \o commands[s] /\ OnTheWay(s)' = Tail(batch[s]) \o commands[s]
    <3>1. batch'[s] = Tail(batch[s]) /\ batch'[s] # None /\ commands'[s] = commands[s]
      BY <1>1, <1>3 DEF CommandInv
    <3> QED
      BY <1>1, <3>1, Zenon DEF OnTheWay
  <2>2. LET cmds == batch[s] \o commands[s]
        IN  /\ cmds \in Seq(Commands) /\ cmds # <<>> /\ Head(cmds) = Head(batch[s])
            /\ Tail(cmds) = Tail(batch[s]) \o commands[s]
    <3>1. batch[s] # <<>>
      BY <1>1, Zenon
    <3> QED
      BY <1>2, <3>1, FirstOfConcat, ZenonT(40)
  <2> QED
    BY <2>1, <2>2, Zenon
<1> HIDE DEF cmd
<1>5. ASSUME NEW t \in Subscribers, NEW c \in Channels, NEW e \in Entities
      PROVE  t \in Pub!EntitySubscribers(c, e)' <=>
               IF t = s /\ cmd.channel = c /\ cmd.entity = e THEN cmd.subscribe
               ELSE t \in Pub!EntitySubscribers(c, e)
  <2>1. cmd.channel \in Channels /\ cmd.entity \in Entities /\ cmd.subscribe \in BOOLEAN
    BY <1>3, Zenon DEF Commands
  <2>2. CASE cmd.subscribe
    BY <1>1, <2>1, <2>2
       DEF Pub!RegisterSubscription, Pub!AddEntry, Pub!EntitySubscribers, IndexTypes, Entities
  <2>3. CASE ~cmd.subscribe
    BY <1>1, <2>1, <2>3
       DEF Pub!UnregisterSubscription, Pub!EraseEntry, Pub!EntitySubscribers, IndexTypes, Entities
  <2> QED
    BY <2>2, <2>3
<1>6. ASSUME NEW t \in Subscribers, Agree(t), t # s PROVE Agree(t)'
  <2>1. OnTheWay(t)' = OnTheWay(t)
    BY <1>1, <1>6, Zenon DEF OnTheWay, CommandInv
  <2>2. \A c \in Channels : \A e \in subscription[t][c] : e \in Entities
    BY DEF PollTypes
  <2> QED
    BY <1>1, <1>5, <1>6, <2>1, <2>2, AgreeKept, Zenon
<1>7. ASSUME Agree(s) PROVE Agree(s)'
  <2>1. ASSUME NEW c \in Channels, NEW e \in subscription[s][c]
        PROVE  Wanted(OnTheWay(s)', c, e, s \in Pub!EntitySubscribers(c, e)')
    <3> DEFINE known == s \in Pub!EntitySubscribers(c, e)
               after == IF cmd.channel = c /\ cmd.entity = e THEN cmd.subscribe ELSE known
    <3>1. Wanted(OnTheWay(s), c, e, known)
      BY <1>7, AgreeWanted, Zenon
    <3>2. known \in BOOLEAN
      OBVIOUS
    <3>3. e \in Entities
      BY DEF PollTypes
    <3>4. after <=> s \in Pub!EntitySubscribers(c, e)'
      BY <1>5, <3>3, Zenon
    <3> HIDE DEF known
    <3>5. Wanted(Tail(OnTheWay(s)), c, e, after)
      BY <1>4, <3>1, <3>2, FirstCommand, Zenon
    <3> QED
      BY <1>4, <3>4, <3>5, Zenon DEF Wanted
  <2> QED
    BY <1>1, <2>1 DEF Agree, Wanted, About
<1>8. IndexTypes'
  <2>1. cmd.channel \in Channels /\ cmd.entity \in Entities /\ UNCHANGED faults
    BY <1>3 DEF Commands, HandleCommand
  <2>2. PICK c \in Channels, e \in Entities :
           Pub!RegisterSubscription(c, e, s) \/ Pub!UnregisterSubscription(c, e, s)
    BY <1>1, <2>1, Zenon
  <2>3. CASE e = All
    BY <2>1, <2>2, <2>3 DEF Pub!RegisterSubscription, Pub!AddEntry,
       Pub!UnregisterSubscription, Pub!EraseEntry, IndexTypes
  <2>4. CASE e # All
    <3>1. /\ e \in Keys /\ UNCHANGED subscribers_to_all
          /\ \/ entities' = [entities EXCEPT ![c][e] = @ \cup {s}]
             \/ entities' = [entities EXCEPT ![c][e] = @ \ {s}]
      BY <2>2, <2>4, Zenon DEF Pub!RegisterSubscription, Pub!AddEntry,
         Pub!UnregisterSubscription, Pub!EraseEntry, Entities
    <3>2. CASE entities' = [entities EXCEPT ![c][e] = @ \cup {s}]
      BY <2>1, <3>1, <3>2 DEF IndexTypes
    <3>3. CASE entities' = [entities EXCEPT ![c][e] = @ \ {s}]
      BY <2>1, <3>1, <3>3, Zenon DEF IndexTypes
    <3> QED
      BY <3>1, <3>2, <3>3, Zenon
  <2> QED
    BY <2>3, <2>4, Zenon
<1> QED
  BY <1>6, <1>7, <1>8, Zenon

\* A step that changes neither commands nor subscriptions, and by which the
\* publisher forgets no subscription of a sound subscriber.
LEMMA NobodyForgotten ==
  ASSUME AgreeInv, PollTypes, IndexTypes', alive' => alive, faults' >= faults,
         dead \subseteq dead', forgotten \subseteq forgotten',
         UNCHANGED <<commands, batch>>,
         \A s \in Subscribers, c \in Channels : subscription'[s][c] \subseteq subscription[s][c],
         \A s \in Subscribers \ (dead' \cup forgotten') :
            \A c \in Channels, e \in Entities :
               s \in Pub!EntitySubscribers(c, e) => s \in Pub!EntitySubscribers(c, e)'
  PROVE  AgreeInv'
<1> SUFFICES ASSUME alive', faults' = 0, NEW s \in Subscribers \ (dead' \cup forgotten')
             PROVE  Agree(s)'
  BY Zenon DEF AgreeInv, SubscriptionsAgree
<1>1. faults = 0 /\ s \notin dead \cup forgotten
  BY DEF AgreeInv, IndexTypes
<1>2. Agree(s)
  BY <1>1, Zenon DEF AgreeInv, SubscriptionsAgree
<1>3. OnTheWay(s)' = OnTheWay(s)
  BY Zenon DEF OnTheWay
<1>4. \A c \in Channels : \A e \in subscription[s][c] : e \in Entities
  BY DEF PollTypes
<1> QED
  BY <1>2, <1>3, <1>4, AgreeKept, Zenon

LEMMA IndexUnchanged ==
  ASSUME UNCHANGED <<subscribers_to_all, entities>>
  PROVE  \A c, e : Pub!EntitySubscribers(c, e)' = Pub!EntitySubscribers(c, e)
  BY DEF Pub!EntitySubscribers

\* The timer erases the subscribers without a poll, and only those.
LEMMA CheckDeadAgrees ==
  ASSUME AgreeInv, PollInv, CheckDeadSubscribers
  PROVE  AgreeInv'
<1> DEFINE inactive == {s \in subscribers : idle[s]}
           held == {s \in inactive : connection[s] # None}
           S == inactive \ held
<1>1. /\ Pub!EraseSubscribers(S) /\ subscribers' = subscribers \ S
      /\ forgotten' = forgotten \cup {s \in inactive \ dead : connected[s] /\ s \notin subscribers'}
      /\ UNCHANGED <<subscription, commands, batch, connected, alive, dead, faults>>
  BY Zenon DEF CheckDeadSubscribers, Pub!CheckDeadSubscribers, Pub!Unregister, subVars
<1>2. S \subseteq Subscribers
  BY Zenon DEF PollInv, PollTypes
<1>3. IndexTypes'
  BY <1>1 DEF Pub!EraseSubscribers, AgreeInv, IndexTypes
<1>4. ASSUME NEW s \in Subscribers, s \notin S, NEW c \in Channels, NEW e \in Entities,
             s \in Pub!EntitySubscribers(c, e)
      PROVE  s \in Pub!EntitySubscribers(c, e)'
  BY <1>1, <1>4, ZenonT(40) DEF Pub!EraseSubscribers, Pub!EntitySubscribers, Entities, AgreeInv, IndexTypes
<1>5. ASSUME NEW s \in S, s \notin dead' \cup forgotten'
      PROVE  ~SubscriptionExists(subscription[s])
  <2>1. s \in Subscribers /\ s \notin dead /\ ~connected[s]
    BY <1>1, <1>2, <1>5
  <2> QED
    BY <2>1, Zenon DEF PollInv, PollOf
<1> HIDE DEF S
<1> SUFFICES ASSUME alive', faults' = 0, NEW s \in Subscribers \ (dead' \cup forgotten')
             PROVE  Agree(s)'
  BY <1>3, Zenon DEF AgreeInv, SubscriptionsAgree
<1>6. CASE s \in S
  <2>1. \A c \in Channels : subscription'[s][c] = {}
    BY <1>1, <1>5, <1>6, Zenon DEF SubscriptionExists
  <2> QED
    BY <2>1 DEF Agree
<1>7. CASE s \notin S
  <2>1. Agree(s)
    BY <1>1, Zenon DEF AgreeInv, SubscriptionsAgree
  <2>2. OnTheWay(s)' = OnTheWay(s)
    BY <1>1, Zenon DEF OnTheWay
  <2>3. \A c \in Channels : \A e \in subscription[s][c] : e \in Entities
    BY DEF PollInv, PollTypes
  <2> QED
    BY <1>1, <1>4, <1>7, <2>1, <2>2, <2>3, AgreeKept, Zenon
<1> QED
  BY <1>6, <1>7, Zenon

\* Subscribe and Unsubscribe, for all subscribers.
LEMMA CallsAgree ==
  ASSUME CommandInv, PollTypes, AgreeInv, NEW s \in Subscribers, NEW c \in Channels,
         NEW e \in Entities, NEW sub \in BOOLEAN,
         subscription' = [subscription EXCEPT ![s][c] = IF sub THEN @ \cup {e} ELSE @ \ {e}],
         SendCommandBatchIfPossible(s,
            Append(commands[s], [subscribe |-> sub, channel |-> c, entity |-> e]), batch[s]),
         UNCHANGED <<subscribers_to_all, entities, alive, faults, dead, forgotten>>,
         s \notin dead
  PROVE  AgreeInv'
<1>1. IndexTypes'
  BY DEF AgreeInv, IndexTypes
<1>2. ASSUME Agree(s) PROVE Agree(s)'
  BY <1>2, CallAgrees, Zenon
<1>3. ASSUME NEW t \in Subscribers \ {s}, Agree(t) PROVE Agree(t)'
  <2>1. subscription'[t] = subscription[t]
    BY Zenon DEF PollTypes
  <2>2. OnTheWay(t)' = OnTheWay(t)
    BY Zenon DEF SendCommandBatchIfPossible, OnTheWay, CommandInv
  <2> QED
    BY <1>3, <2>1, <2>2, IndexUnchanged, AgreeKept, Zenon
<1> QED
  BY <1>1, <1>2, <1>3, Zenon DEF AgreeInv, SubscriptionsAgree

LEMMA AgreeInit == Init => AgreeInv
<1> SUFFICES ASSUME Init PROVE AgreeInv
  OBVIOUS
<1>1. IndexTypes
  BY DEF Init, Pub!Init, IndexTypes
<1>2. \A s \in Subscribers, c \in Channels : subscription[s][c] = {}
  BY Zenon DEF Init
<1> QED
  BY <1>1, <1>2, Zenon DEF AgreeInv, SubscriptionsAgree, Agree

LEMMA AgreeStep == PollInv /\ CommandInv /\ AgreeInv /\ [Next]_vars => AgreeInv'
<1> SUFFICES ASSUME PollInv, CommandInv, AgreeInv, [Next]_vars PROVE AgreeInv'
  OBVIOUS
<1>0. PollTypes /\ IndexTypes
  BY DEF PollInv, AgreeInv
<1>1. ASSUME NEW s \in Subscribers, NEW c \in Channels, NEW e \in Entities,
             Subscribe(s, c, e)
      PROVE  AgreeInv'
  <2>1. /\ s \notin dead /\ subscription' = [subscription EXCEPT ![s][c] = @ \cup {e}]
        /\ SendCommandBatchIfPossible(s,
              Append(commands[s], [subscribe |-> TRUE, channel |-> c, entity |-> e]), batch[s])
        /\ UNCHANGED <<subscribers_to_all, entities, alive, faults, dead, forgotten>>
    BY <1>1 DEF Subscribe, Call, pubVars, history
  <2> QED
    BY <1>0, <2>1, CallsAgree, Zenon
<1>2. ASSUME NEW s \in Subscribers, NEW c \in Channels, NEW e \in Entities,
             Unsubscribe(s, c, e)
      PROVE  AgreeInv'
  <2>1. /\ s \notin dead /\ subscription' = [subscription EXCEPT ![s][c] = @ \ {e}]
        /\ SendCommandBatchIfPossible(s,
              Append(commands[s], [subscribe |-> FALSE, channel |-> c, entity |-> e]), batch[s])
        /\ UNCHANGED <<subscribers_to_all, entities, alive, faults, dead, forgotten>>
    BY <1>2, Zenon DEF Unsubscribe, Call, pubVars, history
  <2> QED
    BY <1>0, <2>1, CallsAgree, ZenonT(40)
<1>3. ASSUME NEW s \in Subscribers, HandleReply(s) PROVE AgreeInv'
  <2>1. /\ UNCHANGED <<commands, batch, alive, faults, dead, forgotten>>
        /\ UNCHANGED <<subscribers_to_all, entities>>
    BY <1>3, Zenon DEF HandleReply, Pub!ReplyTaken, Pub!indexVars
  <2>2. \A t \in Subscribers, c \in Channels : subscription'[t][c] \subseteq subscription[t][c]
    BY <1>0, <1>3, Zenon DEF HandleReply, PollAgain, PollTypes
  <2>3. IndexTypes' /\ faults' >= faults
    BY <1>0, <2>1 DEF IndexTypes
  <2> QED
    BY <1>0, <2>1, <2>2, <2>3, IndexUnchanged, NobodyForgotten, Zenon
<1>4. ASSUME NEW s \in Subscribers, HandlePollFailure(s) PROVE AgreeInv'
  <2>1. (~alive' /\ faults' = faults) \/ faults' = faults + 1
    BY <1>4, Zenon DEF HandlePollFailure
  <2>2. faults' \in Nat /\ (alive' => faults' # 0)
    BY <1>0, <2>1 DEF IndexTypes
  <2>3. UNCHANGED <<subscribers_to_all, entities>>
    BY <1>4, Zenon DEF HandlePollFailure, pubVars, Pub!ConnectionBroken, Pub!ReplyTaken, Pub!indexVars
  <2> QED
    BY <1>0, <2>2, <2>3 DEF AgreeInv, IndexTypes, SubscriptionsAgree
<1>5. ASSUME NEW s \in Subscribers, HandleBatchReply(s) PROVE AgreeInv'
  <2>1. /\ batch[s] = <<>> \/ ~alive
        /\ SendCommandBatchIfPossible(s, commands[s], None)
        /\ UNCHANGED <<subscription, subscribers_to_all, entities, alive, faults, dead, forgotten>>
    BY <1>5, Zenon DEF HandleBatchReply, pubVars, history
  <2>2. commands[s] \in Seq(Commands)
    BY CommandTypes, Zenon
  <2>3. ASSUME alive, NEW t \in Subscribers, Agree(t) PROVE Agree(t)'
    <3>1. OnTheWay(s)' = <<>> \o commands[s] /\ \A u \in Subscribers \ {s} : OnTheWay(u)' = OnTheWay(u)
      BY <2>1, <2>2, SendOnTheWay
    <3>2. OnTheWay(s) = <<>> \o commands[s]
      BY <2>1, <2>3, Zenon DEF OnTheWay
    <3>3. OnTheWay(t)' = OnTheWay(t)
      BY <3>1, <3>2, Zenon
    <3> QED
      BY <2>1, <2>3, <3>3, IndexUnchanged, AgreeKept, Zenon
  <2>4. IndexTypes'
    BY <1>0, <2>1 DEF IndexTypes
  <2> QED
    BY <2>1, <2>3, <2>4, Zenon DEF AgreeInv, SubscriptionsAgree
<1>6. ASSUME NEW s \in Subscribers, HandleCommand(s) PROVE AgreeInv'
  <2>1. UNCHANGED <<alive, faults, dead, forgotten>>
    BY <1>6 DEF HandleCommand, history
  <2>2. IndexTypes' /\ \A t \in Subscribers : Agree(t) => Agree(t)'
    BY <1>0, <1>6, CommandAgrees, Zenon
  <2> QED
    BY <2>1, <2>2, Zenon DEF AgreeInv, SubscriptionsAgree
<1>7. ASSUME NEW s \in Subscribers,
             HandlePoll(s) \/ HandleLatePoll(s) \/ TimePasses(s) \/ SubscriberDies(s)
      PROVE  AgreeInv'
  <2>1. /\ UNCHANGED <<commands, batch, alive, faults, forgotten, subscription>>
        /\ dead \subseteq dead' /\ UNCHANGED <<subscribers_to_all, entities>>
    BY <1>7, Zenon DEF HandlePoll, HandleLatePoll, TimePasses, SubscriberDies, Pub!ConnectToSubscriber,
       Pub!ConnectionBroken, Pub!ReplyTaken, Pub!indexVars, pubVars, subVars, history
  <2>2. IndexTypes' /\ faults' >= faults
    BY <1>0, <2>1 DEF IndexTypes
  <2> QED
    BY <1>0, <2>1, <2>2, IndexUnchanged, NobodyForgotten
<1>8. ASSUME NEW c \in Channels, NEW k \in Keys, Publish(c, k) PROVE AgreeInv'
  <2>1. /\ UNCHANGED <<commands, batch, alive, faults, dead, forgotten, subscription>>
        /\ UNCHANGED <<subscribers_to_all, entities>>
    <3>1. PICK failure \in BOOLEAN : Pub!PublishMessage(c, k, failure)
      BY <1>8, Zenon DEF Publish, Pub!Publish, Pub!PublishFailure
    <3> QED
      BY <1>8, <3>1, ZenonT(40) DEF Publish, Pub!PublishMessage, Pub!indexVars, subVars
  <2>2. IndexTypes' /\ faults' >= faults
    BY <1>0, <2>1 DEF IndexTypes
  <2> QED
    BY <1>0, <2>1, <2>2, IndexUnchanged, NobodyForgotten
<1>9. ASSUME CheckDeadSubscribers PROVE AgreeInv'
  BY <1>9, CheckDeadAgrees, Zenon
<1>10. ASSUME PublisherDies \/ UNCHANGED vars PROVE AgreeInv'
  <2>1. /\ UNCHANGED <<commands, batch, faults, dead, forgotten, subscription>>
        /\ UNCHANGED <<subscribers_to_all, entities>> /\ (alive' => alive)
    BY <1>10 DEF PublisherDies, vars, pubVars, subVars, history
  <2>2. IndexTypes' /\ faults' >= faults
    BY <1>0, <2>1 DEF IndexTypes
  <2> QED
    BY <1>0, <2>1, <2>2, IndexUnchanged, NobodyForgotten, Zenon
<1> QED
  BY <1>1, <1>2, <1>3, <1>4, <1>5, <1>6, <1>7, <1>8, <1>9, <1>10 DEF Next

\* Every subscription of a subscriber is one the publisher has, or will have once
\* it has carried out the commands on the way, in whatever batches they are sent.
THEOREM BothSidesAgree == Spec => []SubscriptionsAgree
<1>1. AgreeInv => SubscriptionsAgree
  BY DEF AgreeInv
<1>2. Spec => []AgreeInv
  BY AgreeInit, AgreeStep, PollInvariance, CommandInvariance, PTL DEF Spec
<1> QED
  BY <1>1, <1>2, PTL
=============================================================================
