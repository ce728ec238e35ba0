-------------------------- MODULE PublisherProofs --------------------------
(***************************************************************************)
(* The theorems about Publisher: an inductive invariant that holds          *)
(* initially and survives polls, registrations, unregistrations and         *)
(* publications. Any subscribers, channels and keys, any batch size and any *)
(* buffer size.                                                             *)
(***************************************************************************)
EXTENDS Publisher, SequenceTheorems, TLAPS


----------------------------------------------------------------------------
\* Sequences of messages.

\* What is left of a mailbox after a batch is its end.
LEMMA AfterBatchIsEnd ==
  ASSUME NEW box \in Seq(Messages)
  PROVE  /\ AfterBatch(box) \in Seq(Messages)
         /\ \A i \in 1 .. Len(AfterBatch(box)) :
               /\ i + BatchSize \in 1 .. Len(box)
               /\ AfterBatch(box)[i] = box[i + BatchSize]
<1>1. BatchSize \in Nat /\ BatchSize > 0 /\ Len(box) \in Nat
  BY PublisherAssumption
<1>2. \A i \in (BatchSize + 1) .. Len(box) : box[i] \in Messages
  BY <1>1
<1> DEFINE m == BatchSize + 1
           n == Len(box)
<1>3. m \in Int /\ n \in Int /\ \A i \in m .. n : box[i] \in Messages
  BY <1>1, <1>2
<1>4. /\ SubSeq(box, m, n) \in Seq(Messages)
      /\ Len(SubSeq(box, m, n)) = IF m <= n THEN n - m + 1 ELSE 0
      /\ \A i \in 1 .. n - m + 1 : SubSeq(box, m, n)[i] = box[m + i - 1]
  BY <1>3, SubSeqProperties
<1> QED
  BY <1>1, <1>4 DEF AfterBatch

\* Queueing appends.
LEMMA QueueMessageAppends ==
  ASSUME NEW box \in Seq(Messages), NEW msgs \in Seq(Messages)
  PROVE  /\ QueueMessage(box, msgs) \in Seq(Messages)
         /\ Len(QueueMessage(box, msgs)) = Len(box) + Len(msgs)
         /\ \A i \in 1 .. Len(box) + Len(msgs) :
               QueueMessage(box, msgs)[i] = IF i <= Len(box) THEN box[i] ELSE msgs[i - Len(box)]
  BY ConcatProperties DEF QueueMessage

\* PublishIfPossible with force_noop: polls are answered, mailboxes stay.
LEMMA NoopEffect ==
  ASSUME TypeOK, NEW S \in SUBSET Subscribers,
         NEW box \in [Subscribers -> Seq(Messages)], NEW clr,
         PublishIfPossible(S, TRUE, box, clr)
  PROVE  /\ mailbox' = box
         /\ connection' \in [Subscribers -> {None, "live", "stale"}]
         /\ DOMAIN poll_reply' = Subscribers
         /\ \A s \in Subscribers :
              /\ Len(poll_reply'[s]) \in {0, 1}
              /\ connection'[s] \in {None, connection[s]}
              /\ s \in S => connection'[s] = None
              /\ connection'[s] # None => poll_reply'[s] = poll_reply[s]
<1> DEFINE sends == {s \in S : connection[s] # None}
<1>1. /\ mailbox' = box
      /\ connection' = [s \in Subscribers |-> IF s \in sends THEN None ELSE connection[s]]
      /\ poll_reply' = [s \in Subscribers |->
              IF s \in sends /\ connection[s] = "live" THEN << <<>> >> ELSE poll_reply[s]]
  BY DEF PublishIfPossible
<1>2. \A s \in Subscribers : s \in sends <=> (s \in S /\ connection[s] # None)
  OBVIOUS
<1> HIDE DEF sends
<1>5. connection' \in [Subscribers -> {None, "live", "stale"}]
  BY <1>1 DEF TypeOK
<1>6. DOMAIN poll_reply' = Subscribers
  BY <1>1
<1>7. ASSUME NEW s \in Subscribers PROVE Len(poll_reply'[s]) \in {0, 1}
  <2>1. Len(poll_reply[s]) \in {0, 1}
    BY DEF TypeOK
  <2>2. \A x : Len(<<x>>) = 1
    OBVIOUS
  <2> QED
    BY <1>1, <2>1, <2>2
<1>8. ASSUME NEW s \in Subscribers
      PROVE  /\ connection'[s] \in {None, connection[s]}
             /\ s \in S => connection'[s] = None
             /\ connection'[s] # None => poll_reply'[s] = poll_reply[s]
  BY <1>1, <1>2
<1> QED
  BY <1>1, <1>5, <1>6, <1>7, <1>8

\* PublishIfPossible without it: a held poll takes a batch of the mailbox.
LEMMA SendEffect ==
  ASSUME TypeOK, NEW S \in SUBSET Subscribers,
         NEW box \in [Subscribers -> Seq(Messages)], NEW clr,
         PublishIfPossible(S, FALSE, box, clr)
  PROVE  /\ mailbox' \in [Subscribers -> Seq(Messages)]
         /\ connection' \in [Subscribers -> {None, "live", "stale"}]
         /\ DOMAIN poll_reply' = Subscribers
         /\ \A s \in Subscribers :
              /\ Len(poll_reply'[s]) \in {0, 1}
              /\ mailbox'[s] \in {box[s], AfterBatch(box[s])}
              /\ connection'[s] \in {None, connection[s]}
              /\ s \notin S => mailbox'[s] = box[s]
              /\ connection'[s] # None =>
                    /\ mailbox'[s] = box[s]
                    /\ poll_reply'[s] = poll_reply[s]
                    /\ s \in S => box[s] = <<>>
<1> DEFINE sends == {s \in S : connection[s] # None /\ box[s] # <<>>}
<1>1. /\ mailbox' = [s \in Subscribers |-> IF s \in sends THEN AfterBatch(box[s]) ELSE box[s]]
      /\ connection' = [s \in Subscribers |-> IF s \in sends THEN None ELSE connection[s]]
      /\ poll_reply' = [s \in Subscribers |->
              IF s \in sends /\ connection[s] = "live" THEN <<Batch(box[s], clr)>>
              ELSE poll_reply[s]]
  BY DEF PublishIfPossible
<1>2. \A s \in Subscribers : s \in sends <=> (s \in S /\ connection[s] # None /\ box[s] # <<>>)
  OBVIOUS
<1> HIDE DEF sends
<1>3. \A s \in Subscribers : AfterBatch(box[s]) \in Seq(Messages) /\ box[s] \in Seq(Messages)
  BY AfterBatchIsEnd
<1>4. mailbox' \in [Subscribers -> Seq(Messages)]
  BY <1>1, <1>3
<1>5. connection' \in [Subscribers -> {None, "live", "stale"}]
  BY <1>1 DEF TypeOK
<1>6. DOMAIN poll_reply' = Subscribers
  BY <1>1
<1>7. ASSUME NEW s \in Subscribers PROVE Len(poll_reply'[s]) \in {0, 1}
  <2>1. Len(poll_reply[s]) \in {0, 1}
    BY DEF TypeOK
  <2>2. \A x : Len(<<x>>) = 1
    OBVIOUS
  <2> QED
    BY <1>1, <2>1, <2>2
<1>8. ASSUME NEW s \in Subscribers
      PROVE  /\ mailbox'[s] \in {box[s], AfterBatch(box[s])}
             /\ connection'[s] \in {None, connection[s]}
             /\ s \notin S => mailbox'[s] = box[s]
             /\ connection'[s] # None =>
                    /\ mailbox'[s] = box[s]
                    /\ poll_reply'[s] = poll_reply[s]
                    /\ s \in S => box[s] = <<>>
  BY <1>1, <1>2, Zenon
<1> QED
  BY <1>4, <1>5, <1>6, <1>7, <1>8

----------------------------------------------------------------------------
\* The inductive invariant.

\* Nobody is among the subscribers of a channel and among those of its keys.
KindsApart ==
    \A c \in Channels, s \in Subscribers :
        IF c \in WholeChannels[s] THEN \A k \in Keys : s \notin entities[c][k]
                                  ELSE s \notin subscribers_to_all[c]

\* Messages in the mailboxes were published.
IdsPublished ==
    \A s \in Subscribers : \A i \in 1 .. Len(mailbox[s]) : mailbox[s][i].id < published

IInv == /\ TypeOK /\ KindsApart /\ IndexConsistent /\ NoDanglingSubscriber
        /\ NoMailWhilePolling /\ AnsweredOnce /\ BufferCapped
        /\ IdsPublished /\ MailboxInOrder

\* What the invariant says of one mailbox.
MailOrdered(box, top) ==
    \A i \in 1 .. Len(box) :
        box[i].id < top /\ \A j \in 1 .. Len(box) : i < j => box[i].id < box[j].id

MailCapped(box, clr, pend) ==
    \A c \in CappedChannels, i \in 1 .. Len(box) :
        (box[i].channel = c /\ box[i].entity = All /\ box[i] \notin clr)
        => \E j \in 1 .. Len(pend[c][All]) : pend[c][All][j] = box[i]

LEMMA MailParts ==
  IInv <=> /\ TypeOK /\ KindsApart /\ IndexConsistent /\ NoDanglingSubscriber
           /\ NoMailWhilePolling /\ AnsweredOnce
           /\ \A c \in CappedChannels : \A e \in Entities :
                 Len(pending_messages[c][e]) <= MaxBuffered
           /\ \A s \in Subscribers : /\ MailOrdered(mailbox[s], published)
                                     /\ MailCapped(mailbox[s], cleared, pending_messages)
  BY DEF IInv, BufferCapped, IdsPublished, MailboxInOrder, MailOrdered, MailCapped

LEMMA InitHolds == Init => IInv
<1> SUFFICES ASSUME Init PROVE IInv
  OBVIOUS
<1>1. <<>> \in Seq(Messages) /\ Len(<<>>) = 0 /\ MaxBuffered \in Nat
  BY PublisherAssumption
<1>2. TypeOK
  BY <1>1 DEF Init, TypeOK
<1>3. KindsApart /\ IndexConsistent /\ NoDanglingSubscriber
  BY DEF Init, KindsApart, IndexConsistent, NoDanglingSubscriber
<1>4. NoMailWhilePolling /\ AnsweredOnce
  BY PublisherAssumption DEF Init, NoMailWhilePolling, AnsweredOnce
<1>5. BufferCapped
  BY <1>1, PublisherAssumption DEF Init, BufferCapped
<1>6. IdsPublished /\ MailboxInOrder
  BY <1>1 DEF Init, IdsPublished, MailboxInOrder
<1> QED
  BY <1>2, <1>3, <1>4, <1>5, <1>6 DEF IInv

\* The order in a mailbox and its cap survive taking a batch.
LEMMA BatchKeeps ==
  ASSUME NEW box \in Seq(Messages), NEW top, NEW clr, NEW pend,
         MailOrdered(box, top), MailCapped(box, clr, pend)
  PROVE  MailOrdered(AfterBatch(box), top) /\ MailCapped(AfterBatch(box), clr, pend)
<1>1. \A i \in 1 .. Len(AfterBatch(box)) :
         i + BatchSize \in 1 .. Len(box) /\ AfterBatch(box)[i] = box[i + BatchSize]
  BY AfterBatchIsEnd
<1>2. BatchSize \in Nat /\ Len(AfterBatch(box)) \in Nat
  BY PublisherAssumption, AfterBatchIsEnd
<1>3. \A i, j \in 1 .. Len(AfterBatch(box)) : i < j => i + BatchSize < j + BatchSize
  BY <1>2
<1>4. MailOrdered(AfterBatch(box), top)
  BY <1>1, <1>3, Zenon DEF MailOrdered
<1>5. MailCapped(AfterBatch(box), clr, pend)
  BY <1>1, Zenon DEF MailCapped
<1> QED
  BY <1>4, <1>5

----------------------------------------------------------------------------
\* Steps.

LEMMA RegisterKeeps ==
  ASSUME IInv, NEW c \in Channels, NEW e \in Entities, NEW s \in Subscribers,
         OneKind(c, e, s), RegisterSubscription(c, e, s)
  PROVE  IInv'
<1> USE DEF IInv
<1>1. UNCHANGED <<connection, mailbox, poll_reply, pending_messages, cleared, published>>
  BY DEF RegisterSubscription
<1>2. subscribers' = subscribers \cup {s} /\ AddEntry(c, e, s)
  BY DEF RegisterSubscription
<1>3. CASE e = All
  <2>1. /\ subscribers_to_all' = [subscribers_to_all EXCEPT ![c] = @ \cup {s}]
        /\ entities' = entities /\ subscribers_to_key_id' = subscribers_to_key_id
    BY <1>2, <1>3, Zenon DEF AddEntry
  <2>2. TypeOK'
    BY <1>1, <1>2, <2>1, Zenon DEF TypeOK
  <2>3. KindsApart' /\ IndexConsistent' /\ NoDanglingSubscriber'
    BY <1>2, <1>3, <2>1
    DEF KindsApart, IndexConsistent, NoDanglingSubscriber, OneKind, TypeOK
  <2> QED
    BY <1>1, <1>2, <2>2, <2>3
    DEF NoMailWhilePolling, AnsweredOnce, BufferCapped, IdsPublished, MailboxInOrder
<1>4. CASE e # All
  <2>0. e \in Keys
    BY <1>4 DEF Entities
  <2>1. /\ entities' = [entities EXCEPT ![c][e] = @ \cup {s}]
        /\ subscribers_to_key_id' = [subscribers_to_key_id EXCEPT ![c][s] = @ \cup {e}]
        /\ subscribers_to_all' = subscribers_to_all
    BY <1>2, <1>4, Zenon DEF AddEntry
  <2>2. TypeOK'
    BY <1>1, <1>2, <2>0, <2>1 DEF TypeOK
  <2>3. KindsApart' /\ IndexConsistent' /\ NoDanglingSubscriber'
    BY <1>2, <1>4, <2>0, <2>1
    DEF KindsApart, IndexConsistent, NoDanglingSubscriber, OneKind, TypeOK
  <2> QED
    BY <1>1, <1>2, <2>2, <2>3
    DEF NoMailWhilePolling, AnsweredOnce, BufferCapped, IdsPublished, MailboxInOrder
<1> QED
  BY <1>3, <1>4

\* Erasing entities resets the pending messages of keys only.
LEMMA PendingReset ==
  ASSUME IInv, NEW E \in [Channels -> SUBSET Keys],
         pending_messages' = [c \in Channels |-> [e \in Entities |->
              IF e \in E[c] THEN <<>> ELSE pending_messages[c][e]]]
  PROVE  /\ pending_messages' \in [Channels -> [Entities -> Seq(Messages)]]
         /\ \A c \in Channels : pending_messages'[c][All] = pending_messages[c][All]
         /\ \A c \in CappedChannels : \A e \in Entities :
                 Len(pending_messages'[c][e]) <= MaxBuffered
<1>1. <<>> \in Seq(Messages) /\ Len(<<>>) = 0 /\ MaxBuffered \in Nat
  BY PublisherAssumption
<1>2. \A c \in Channels : All \in Entities /\ All \notin E[c]
  BY PublisherAssumption DEF Entities
<1>3. pending_messages \in [Channels -> [Entities -> Seq(Messages)]]
  BY Zenon DEF IInv, TypeOK
<1>4. \A c \in CappedChannels : \A e \in Entities : Len(pending_messages[c][e]) <= MaxBuffered
  BY Zenon DEF IInv, BufferCapped
<1>5. CappedChannels \subseteq Channels
  BY PublisherAssumption
<1>6. pending_messages' \in [Channels -> [Entities -> Seq(Messages)]]
  BY <1>1, <1>3, Zenon
<1>7. \A c \in Channels : pending_messages'[c][All] = pending_messages[c][All]
  BY <1>2, Zenon
<1>8. \A c \in CappedChannels : \A e \in Entities : Len(pending_messages'[c][e]) <= MaxBuffered
  BY <1>1, <1>4, <1>5
<1> QED
  BY <1>6, <1>7, <1>8

LEMMA UnregisterSubscriptionKeeps ==
  ASSUME IInv, NEW c \in Channels, NEW e \in Entities, NEW s \in Subscribers,
         UnregisterSubscription(c, e, s)
  PROVE  IInv'
<1>1. UNCHANGED <<subscribers, connection, mailbox, poll_reply, cleared, published>>
  BY DEF UnregisterSubscription
<1>2. EraseEntry(c, e, s)
  BY Zenon DEF UnregisterSubscription
<1>3. CASE e = All
  <2>1. /\ subscribers_to_all' = [subscribers_to_all EXCEPT ![c] = @ \ {s}]
        /\ entities' = entities /\ subscribers_to_key_id' = subscribers_to_key_id
        /\ pending_messages' = pending_messages
    BY <1>2, <1>3 DEF EraseEntry
  <2>2. TypeOK'
    BY <1>1, <2>1, Zenon DEF TypeOK, IInv
  <2>3. KindsApart' /\ IndexConsistent' /\ NoDanglingSubscriber'
    BY <1>1, <2>1 DEF KindsApart, IndexConsistent, NoDanglingSubscriber, TypeOK, IInv
  <2> QED
    BY <1>1, <2>1, <2>2, <2>3
    DEF NoMailWhilePolling, AnsweredOnce, BufferCapped, IdsPublished, MailboxInOrder, IInv
<1>4. CASE e # All
  <2>0. e \in Keys
    BY <1>4 DEF Entities
  <2> DEFINE E == [d \in Channels |-> IF d = c THEN ErasedEntities(c, entities') ELSE {}]
  <2>1. /\ entities' = [entities EXCEPT ![c][e] = @ \ {s}]
        /\ subscribers_to_key_id' = [subscribers_to_key_id EXCEPT ![c][s] = @ \ {e}]
        /\ subscribers_to_all' = subscribers_to_all
        /\ pending_messages' = [pending_messages EXCEPT ![c] =
               [f \in Entities |-> IF f \in ErasedEntities(c, entities') THEN <<>> ELSE @[f]]]
    BY <1>2, <1>4 DEF EraseEntry
  <2>2. E \in [Channels -> SUBSET Keys]
    BY DEF ErasedEntities
  <2>3. pending_messages' = [d \in Channels |-> [f \in Entities |->
              IF f \in E[d] THEN <<>> ELSE pending_messages[d][f]]]
    <3>1. pending_messages \in [Channels -> [Entities -> Seq(Messages)]]
      BY Zenon DEF IInv, TypeOK
    <3> HIDE DEF ErasedEntities
    <3> QED
      BY <2>1, <3>1, Zenon
  <2> HIDE DEF E
  <2>4. /\ pending_messages' \in [Channels -> [Entities -> Seq(Messages)]]
        /\ \A d \in Channels : pending_messages'[d][All] = pending_messages[d][All]
        /\ \A d \in CappedChannels : \A f \in Entities :
                 Len(pending_messages'[d][f]) <= MaxBuffered
    BY <2>2, <2>3, PendingReset, Zenon
  <2>5. TypeOK'
    BY <1>1, <2>0, <2>1, <2>4 DEF TypeOK, IInv
  <2>6. KindsApart' /\ IndexConsistent' /\ NoDanglingSubscriber'
    BY <1>1, <2>0, <2>1 DEF KindsApart, IndexConsistent, NoDanglingSubscriber, TypeOK, IInv
  <2>7. BufferCapped'
    <3>1. \A d \in CappedChannels : pending_messages'[d][All] = pending_messages[d][All]
      BY <2>4, PublisherAssumption
    <3>2. BufferCapped
      BY Zenon DEF IInv
    <3>3. ASSUME NEW d \in CappedChannels, NEW q \in Subscribers,
                 NEW i \in 1 .. Len(mailbox[q]),
                 mailbox[q][i].channel = d, mailbox[q][i].entity = All, mailbox[q][i] \notin cleared
          PROVE  \E j \in 1 .. Len(pending_messages'[d][All]) :
                    pending_messages'[d][All][j] = mailbox[q][i]
      <4>1. \E j \in 1 .. Len(pending_messages[d][All]) :
               pending_messages[d][All][j] = mailbox[q][i]
        BY <3>2, <3>3 DEF BufferCapped
      <4> QED
        BY <3>1, <4>1, Zenon
    <3> QED
      BY <1>1, <2>4, <3>3 DEF BufferCapped
  <2> QED
    BY <1>1, <2>5, <2>6, <2>7
    DEF NoMailWhilePolling, AnsweredOnce, IdsPublished, MailboxInOrder, IInv
<1> QED
  BY <1>3, <1>4

\* Erasing subscribers from the index: nothing points to them afterwards.
LEMMA EraseSubscribersKeeps ==
  ASSUME IInv, NEW S \in SUBSET Subscribers, EraseSubscribers(S), subscribers' = subscribers \ S
  PROVE  /\ subscribers_to_all' \in [Channels -> SUBSET Subscribers]
         /\ entities' \in [Channels -> [Keys -> SUBSET Subscribers]]
         /\ subscribers_to_key_id' \in [Channels -> [Subscribers -> SUBSET Keys]]
         /\ KindsApart' /\ IndexConsistent' /\ NoDanglingSubscriber'
         /\ pending_messages' \in [Channels -> [Entities -> Seq(Messages)]]
         /\ \A c \in Channels : pending_messages'[c][All] = pending_messages[c][All]
         /\ \A c \in CappedChannels : \A e \in Entities :
                 Len(pending_messages'[c][e]) <= MaxBuffered
<1> DEFINE byKey(c) == S \ subscribers_to_all[c]
           E == [c \in Channels |-> ErasedEntities(c, entities')]
<1>1. /\ subscribers_to_all' = [c \in Channels |-> subscribers_to_all[c] \ S]
      /\ entities' = [c \in Channels |-> [k \in Keys |-> entities[c][k] \
              {s \in byKey(c) : k \in subscribers_to_key_id[c][s]}]]
      /\ subscribers_to_key_id' = [c \in Channels |-> [s \in Subscribers |->
              IF s \in byKey(c) THEN {} ELSE subscribers_to_key_id[c][s]]]
      /\ pending_messages' = [c \in Channels |-> [e \in Entities |->
              IF e \in ErasedEntities(c, entities') THEN <<>> ELSE pending_messages[c][e]]]
  BY Zenon DEF EraseSubscribers
<1>2. E \in [Channels -> SUBSET Keys]
  BY Zenon DEF ErasedEntities
<1>3. pending_messages' = [c \in Channels |-> [e \in Entities |->
              IF e \in E[c] THEN <<>> ELSE pending_messages[c][e]]]
  <2> HIDE DEF ErasedEntities
  <2> QED
    BY <1>1
<1> HIDE DEF E
<1>4. /\ pending_messages' \in [Channels -> [Entities -> Seq(Messages)]]
      /\ \A c \in Channels : pending_messages'[c][All] = pending_messages[c][All]
      /\ \A c \in CappedChannels : \A e \in Entities :
                 Len(pending_messages'[c][e]) <= MaxBuffered
  BY <1>2, <1>3, PendingReset, Zenon
<1>5. /\ subscribers_to_all' \in [Channels -> SUBSET Subscribers]
      /\ entities' \in [Channels -> [Keys -> SUBSET Subscribers]]
      /\ subscribers_to_key_id' \in [Channels -> [Subscribers -> SUBSET Keys]]
  BY <1>1 DEF IInv, TypeOK
<1>6. ASSUME NEW c \in Channels, NEW k \in Keys, NEW s \in Subscribers
      PROVE  s \in entities'[c][k] <=> s \in entities[c][k] /\ s \notin S
  <2>1. s \in entities[c][k] => s \notin subscribers_to_all[c]
    BY Zenon DEF IInv, KindsApart
  <2>2. s \in entities[c][k] <=> k \in subscribers_to_key_id[c][s]
    BY Zenon DEF IInv, IndexConsistent
  <2> QED
    BY <1>1, <2>1, <2>2, Zenon
<1>7. ASSUME NEW c \in Channels, NEW k \in Keys, NEW s \in Subscribers
      PROVE  k \in subscribers_to_key_id'[c][s] <=> s \in entities[c][k] /\ s \notin S
  <2>1. s \in entities[c][k] => s \notin subscribers_to_all[c]
    BY DEF IInv, KindsApart
  <2>2. s \in entities[c][k] <=> k \in subscribers_to_key_id[c][s]
    BY DEF IInv, IndexConsistent
  <2> QED
    BY <1>1, <2>1, <2>2, Zenon
<1>8. KindsApart'
  BY <1>1, <1>6 DEF IInv, KindsApart
<1>9. IndexConsistent'
  BY <1>6, <1>7 DEF IndexConsistent
<1>10. NoDanglingSubscriber'
  <2>1. \A c \in Channels : subscribers_to_all'[c] \subseteq subscribers'
    BY <1>1 DEF IInv, NoDanglingSubscriber
  <2>2. ASSUME NEW c \in Channels, NEW k \in Keys, NEW s \in entities'[c][k]
        PROVE  s \in subscribers'
    <3>1. s \in Subscribers
      BY <1>5
    <3> QED
      BY <1>6, <3>1 DEF IInv, NoDanglingSubscriber
  <2> QED
    BY <2>1, <2>2, Zenon DEF NoDanglingSubscriber
<1> QED
  BY <1>4, <1>5, <1>8, <1>9, <1>10, Zenon

\* The mailboxes after a step keep the invariant when each is the old one,
\* its end, or empty, and the pending messages of whole channels stay.
LEMMA MailKept ==
  ASSUME IInv, pending_messages' \in [Channels -> [Entities -> Seq(Messages)]],
         \A c \in Channels : pending_messages'[c][All] = pending_messages[c][All],
         \A c \in CappedChannels : \A e \in Entities :
                 Len(pending_messages'[c][e]) <= MaxBuffered,
         cleared' = cleared, published' = published,
         \A s \in Subscribers : mailbox'[s] \in {<<>>, mailbox[s], AfterBatch(mailbox[s])}
  PROVE  /\ \A c \in CappedChannels : \A e \in Entities :
                 Len(pending_messages'[c][e]) <= MaxBuffered
         /\ \A s \in Subscribers : /\ MailOrdered(mailbox'[s], published')
                                   /\ MailCapped(mailbox'[s], cleared', pending_messages')
<1> SUFFICES ASSUME NEW s \in Subscribers
             PROVE  /\ MailOrdered(mailbox'[s], published')
                    /\ MailCapped(mailbox'[s], cleared', pending_messages')
  BY Zenon
<1>1. /\ mailbox[s] \in Seq(Messages)
      /\ MailOrdered(mailbox[s], published)
      /\ MailCapped(mailbox[s], cleared, pending_messages)
  BY MailParts DEF TypeOK
<1>2. ASSUME NEW box, MailCapped(box, cleared, pending_messages)
      PROVE  MailCapped(box, cleared, pending_messages')
  <2> SUFFICES ASSUME NEW c \in CappedChannels, NEW i \in 1 .. Len(box),
                      box[i].channel = c, box[i].entity = All, box[i] \notin cleared
               PROVE  \E j \in 1 .. Len(pending_messages'[c][All]) :
                         pending_messages'[c][All][j] = box[i]
    BY Zenon DEF MailCapped
  <2>1. \E j \in 1 .. Len(pending_messages[c][All]) : pending_messages[c][All][j] = box[i]
    BY <1>2, Zenon DEF MailCapped
  <2>2. pending_messages'[c][All] = pending_messages[c][All]
    BY PublisherAssumption, Zenon
  <2> QED
    BY <2>1, <2>2
<1>3. CASE mailbox'[s] = <<>>
  <2>1. Len(<<>>) = 0
    BY Zenon
  <2> QED
    BY <1>3, <2>1 DEF MailOrdered, MailCapped
<1>4. CASE mailbox'[s] = mailbox[s]
  BY <1>1, <1>2, <1>4, Zenon
<1>5. CASE mailbox'[s] = AfterBatch(mailbox[s])
  BY <1>1, <1>2, <1>5, BatchKeeps
<1> QED
  BY <1>3, <1>4, <1>5, Zenon

\* The same facts after the step make up the invariant.
LEMMA MailPartsNext ==
  ASSUME TypeOK', KindsApart', IndexConsistent', NoDanglingSubscriber',
         NoMailWhilePolling', AnsweredOnce',
         \A c \in CappedChannels : \A e \in Entities :
            Len(pending_messages'[c][e]) <= MaxBuffered,
         \A s \in Subscribers : /\ MailOrdered(mailbox'[s], published')
                                /\ MailCapped(mailbox'[s], cleared', pending_messages')
  PROVE  IInv'
<1>1. BufferCapped'
  BY Zenon DEF BufferCapped, MailCapped
<1>2. IdsPublished' /\ MailboxInOrder'
  BY Zenon DEF IdsPublished, MailboxInOrder, MailOrdered
<1> QED
  BY <1>1, <1>2, Zenon DEF IInv

LEMMA UnregisterKeeps ==
  ASSUME IInv, NEW S \in SUBSET Subscribers, NEW noop \in SUBSET subscribers,
         Unregister(S, noop)
  PROVE  IInv'
<1> DEFINE R == noop \cup (S \cap subscribers)
           box == [s \in Subscribers |-> IF s \in S THEN <<>> ELSE mailbox[s]]
<1>1. /\ EraseSubscribers(S) /\ subscribers' = subscribers \ S
      /\ PublishIfPossible(R, TRUE, box, cleared)
      /\ cleared' = cleared /\ published' = published
  BY Zenon DEF Unregister
<1>2. TypeOK
  BY DEF IInv
<1>3. R \in SUBSET Subscribers
  BY <1>2 DEF TypeOK
<1>4. box \in [Subscribers -> Seq(Messages)]
  <2>1. <<>> \in Seq(Messages)
    OBVIOUS
  <2> QED
    BY <1>2, <2>1 DEF TypeOK
<1>5. \A s \in Subscribers : box[s] = IF s \in S THEN <<>> ELSE mailbox[s]
  OBVIOUS
<1> HIDE DEF box
<1>6. /\ mailbox' \in [Subscribers -> Seq(Messages)]
      /\ connection' \in [Subscribers -> {None, "live", "stale"}]
      /\ DOMAIN poll_reply' = Subscribers
      /\ \A s \in Subscribers :
              /\ Len(poll_reply'[s]) \in {0, 1}
              /\ connection'[s] \in {None, connection[s]}
              /\ s \in R => connection'[s] = None
              /\ mailbox'[s] = box[s]
              /\ connection'[s] # None => poll_reply'[s] = poll_reply[s]
  <2> HIDE DEF R
  <2> QED
    BY <1>1, <1>2, <1>3, <1>4, NoopEffect, Zenon
<1>7. /\ subscribers_to_all' \in [Channels -> SUBSET Subscribers]
      /\ entities' \in [Channels -> [Keys -> SUBSET Subscribers]]
      /\ subscribers_to_key_id' \in [Channels -> [Subscribers -> SUBSET Keys]]
      /\ KindsApart' /\ IndexConsistent' /\ NoDanglingSubscriber'
      /\ pending_messages' \in [Channels -> [Entities -> Seq(Messages)]]
      /\ \A c \in Channels : pending_messages'[c][All] = pending_messages[c][All]
      /\ \A c \in CappedChannels : \A e \in Entities :
                 Len(pending_messages'[c][e]) <= MaxBuffered
  BY <1>1, EraseSubscribersKeeps, Zenon
<1>8. TypeOK'
  BY <1>1, <1>2, <1>6, <1>7, Zenon DEF TypeOK
<1>9. NoMailWhilePolling'
  <2>1. ASSUME NEW s \in Subscribers, connection'[s] # None PROVE mailbox'[s] = <<>>
    BY <1>5, <1>6, <2>1 DEF IInv, NoMailWhilePolling
  <2>2. ASSUME NEW s \in Subscribers, s \notin subscribers'
        PROVE  connection'[s] = None /\ mailbox'[s] = <<>>
    <3>1. CASE s \in S
      <4>1. s \in subscribers => s \in R
        BY <3>1
      <4>2. s \notin subscribers => connection[s] = None
        BY Zenon DEF IInv, NoMailWhilePolling
      <4> QED
        BY <1>5, <1>6, <3>1, <4>1, <4>2
    <3>2. CASE s \notin S
      BY <1>1, <1>5, <1>6, <2>2, <3>2, Zenon DEF IInv, NoMailWhilePolling
    <3> QED
      BY <3>1, <3>2, Zenon
  <2> QED
    BY <2>1, <2>2, Zenon DEF NoMailWhilePolling
<1>10. AnsweredOnce'
  BY <1>6, PublisherAssumption DEF IInv, AnsweredOnce
<1>11. \A s \in Subscribers : mailbox'[s] \in {<<>>, mailbox[s], AfterBatch(mailbox[s])}
  BY <1>5, <1>6, Zenon
<1>12. \A s \in Subscribers : /\ MailOrdered(mailbox'[s], published')
                              /\ MailCapped(mailbox'[s], cleared', pending_messages')
  BY <1>1, <1>7, <1>11, MailKept, Zenon
<1> QED
  BY <1>7, <1>8, <1>9, <1>10, <1>12, MailPartsNext

LEMMA ConnectKeeps ==
  ASSUME IInv, NEW s \in Subscribers, NEW conn \in {"live", "stale"},
         conn = "live" => connection[s] # "live" /\ poll_reply[s] = <<>>,
         ConnectToSubscriber(s, conn)
  PROVE  IInv'
<1> DEFINE answered == mailbox[s] # <<>>
<1>1. /\ subscribers' = subscribers \cup {s}
      /\ mailbox' = [mailbox EXCEPT ![s] = IF answered THEN AfterBatch(@) ELSE @]
      /\ connection' = [connection EXCEPT ![s] = IF answered THEN None ELSE conn]
      /\ poll_reply' = [poll_reply EXCEPT ![s] =
              IF connection[s] = "live" THEN << <<>> >>
              ELSE IF answered /\ conn = "live" THEN <<Batch(mailbox[s], cleared)>> ELSE @]
      /\ UNCHANGED <<indexVars, pending_messages, cleared, published>>
  BY DEF ConnectToSubscriber
<1>2. TypeOK
  BY Zenon DEF IInv
<1>3. AfterBatch(mailbox[s]) \in Seq(Messages)
  BY <1>2, AfterBatchIsEnd, Zenon DEF TypeOK
<1>4. TypeOK'
  <2>1. DOMAIN poll_reply' = Subscribers
    BY <1>1, <1>2, Zenon DEF TypeOK
  <2>2. ASSUME NEW q \in Subscribers PROVE Len(poll_reply'[q]) \in {0, 1}
    <3>1. Len(poll_reply[q]) \in {0, 1} /\ DOMAIN poll_reply = Subscribers
      BY <1>2, Zenon DEF TypeOK
    <3>2. \A x : Len(<<x>>) = 1
      BY Zenon
    <3> QED
      BY <1>1, <3>1, <3>2, Zenon
  <2> QED
    BY <1>1, <1>2, <1>3, <2>1, <2>2, Zenon DEF TypeOK, indexVars
<1>5. KindsApart' /\ IndexConsistent' /\ NoDanglingSubscriber'
  BY <1>1, Zenon DEF IInv, KindsApart, IndexConsistent, NoDanglingSubscriber, indexVars
<1>6. NoMailWhilePolling'
  BY <1>1, <1>2, Zenon DEF IInv, NoMailWhilePolling, TypeOK
<1>7. AnsweredOnce'
  <2>1. DOMAIN poll_reply = Subscribers
    BY <1>2, Zenon DEF TypeOK
  <2> SUFFICES ASSUME NEW q \in Subscribers, connection'[q] = "live"
               PROVE  poll_reply'[q] = <<>>
    BY Zenon DEF AnsweredOnce
  <2>2. CASE q = s
    <3>1. ~answered /\ conn = "live"
      BY <1>1, <1>2, <2>2, PublisherAssumption, Zenon DEF TypeOK
    <3> QED
      BY <1>1, <2>1, <2>2, <3>1, Zenon
  <2>3. CASE q # s
    BY <1>1, <1>2, <2>1, <2>3, Zenon DEF IInv, AnsweredOnce, TypeOK
  <2> QED
    BY <2>2, <2>3, Zenon
<1>8. \A q \in Subscribers : mailbox'[q] \in {<<>>, mailbox[q], AfterBatch(mailbox[q])}
  BY <1>1, <1>2, Zenon DEF TypeOK
<1>9. /\ pending_messages' \in [Channels -> [Entities -> Seq(Messages)]]
      /\ pending_messages' = pending_messages /\ cleared' = cleared /\ published' = published
  BY <1>1, <1>2 DEF TypeOK
<1>10. \A c \in CappedChannels : \A e \in Entities :
                 Len(pending_messages'[c][e]) <= MaxBuffered
  BY <1>9, Zenon DEF IInv, BufferCapped
<1>11. \A q \in Subscribers : /\ MailOrdered(mailbox'[q], published')
                              /\ MailCapped(mailbox'[q], cleared', pending_messages')
  BY <1>8, <1>9, <1>10, MailKept, Zenon
<1> QED
  BY <1>4, <1>5, <1>6, <1>7, <1>10, <1>11, MailPartsNext, Zenon

----------------------------------------------------------------------------
\* Publishing.

\* At most one copy of a message is queued for a subscriber, and only for one
\* that the index lists.
LEMMA CopiesEffect ==
  ASSUME IInv, NEW c \in Channels, NEW k \in Keys, NEW failure \in BOOLEAN, NEW s \in Subscribers
  PROVE  /\ Copies(c, k, failure, s) \in Seq(Messages)
         /\ Len(Copies(c, k, failure, s)) \in {0, 1}
         /\ Len(Copies(c, k, failure, s)) = 1 =>
              \/ /\ s \in subscribers_to_all[c]
                 /\ Copies(c, k, failure, s)[1] = Copy(c, k, All, failure)
              \/ /\ s \in entities[c][k]
                 /\ Copies(c, k, failure, s)[1] = Copy(c, k, k, failure)
         /\ s \notin subscribers_to_all[c] \cup entities[c][k] => Copies(c, k, failure, s) = <<>>
<1> DEFINE a == Copy(c, k, All, failure)
           b == Copy(c, k, k, failure)
<1>1. a \in Messages /\ b \in Messages
  BY DEF Copy, Messages, Entities, IInv, TypeOK
<1>2. ~(s \in subscribers_to_all[c] /\ s \in entities[c][k])
  BY DEF IInv, KindsApart
<1>3. Copies(c, k, failure, s) =
         (IF s \in subscribers_to_all[c] THEN <<a>> ELSE <<>>)
         \o (IF s \in entities[c][k] THEN <<b>> ELSE <<>>)
  BY Zenon DEF Copies
<1> HIDE DEF a, b
<1>4. /\ <<a>> \in Seq(Messages) /\ <<b>> \in Seq(Messages) /\ <<>> \in Seq(Messages)
      /\ Len(<<a>>) = 1 /\ Len(<<b>>) = 1 /\ <<a>>[1] = a /\ <<b>>[1] = b /\ Len(<<>>) = 0
  BY <1>1
<1>5. /\ <<a>> \o <<>> = <<a>> /\ <<>> \o <<b>> = <<b>> /\ <<>> \o <<>> = <<>>
  BY <1>4, ConcatEmptySeq, Zenon
<1>6. CASE s \in subscribers_to_all[c]
  <2>1. Copies(c, k, failure, s) = <<a>>
    BY <1>2, <1>3, <1>5, <1>6, Zenon
  <2> QED
    BY <1>4, <1>6, <2>1 DEF a
<1>7. CASE s \in entities[c][k]
  <2>1. Copies(c, k, failure, s) = <<b>>
    BY <1>2, <1>3, <1>5, <1>7, Zenon
  <2> QED
    BY <1>4, <1>7, <2>1 DEF b
<1>8. CASE s \notin subscribers_to_all[c] /\ s \notin entities[c][k]
  <2>1. Copies(c, k, failure, s) = <<>>
    BY <1>3, <1>5, <1>8, Zenon
  <2> QED
    BY <1>4, <1>8, <2>1
<1> QED
  BY <1>6, <1>7, <1>8, Zenon

\* Message x is one of the sequence q.
Holds(q, x) == \E j \in 1 .. Len(q) : q[j] = x

\* The pending messages of an entity after the publication: what was not popped
\* and the new message, within the cap.
LEMMA PublishEntityEffect ==
  ASSUME IInv, NEW c \in Channels, NEW k \in Keys, NEW e \in {All, k}, NEW failure \in BOOLEAN,
         NEW n \in NumPopped(pending_messages[c][e])
  PROVE  /\ PublishEntity(c, k, e, n, failure) \in Seq(Messages)
         /\ Popped(c, e, n) \subseteq Messages
         /\ c \in CappedChannels => Len(PublishEntity(c, k, e, n, failure)) <= MaxBuffered
         /\ c \in CappedChannels /\ EntitySubscribers(c, e) # {} =>
              /\ Holds(PublishEntity(c, k, e, n, failure), Copy(c, k, e, failure))
              /\ \A i \in 1 .. Len(pending_messages[c][e]) :
                    \/ pending_messages[c][e][i] \in Popped(c, e, n)
                    \/ Holds(PublishEntity(c, k, e, n, failure), pending_messages[c][e][i])
<1> DEFINE p == pending_messages[c][e]
           x == Copy(c, k, e, failure)
           rest == SubSeq(p, n + 1, Len(p))
           q == Append(rest, x)
<1>1. e \in Entities /\ p \in Seq(Messages)
  BY Zenon DEF Entities, IInv, TypeOK
<1>2. x \in Messages
  BY <1>1, Zenon DEF Copy, Messages, IInv, TypeOK
<1>3. n \in 0 .. Len(p) /\ LoopEnds(p, n)
  BY Zenon DEF NumPopped
<1>4. (n = Len(p) \/ (Len(p) - n) + 1 <= MaxBuffered) /\ MaxBuffered \in Nat \ {0}
  BY <1>3, PublisherAssumption, Zenon DEF LoopEnds
<1>5. c \in CappedChannels => Len(p) <= MaxBuffered
  BY <1>1 DEF IInv, BufferCapped
<1> HIDE DEF p
<1>6. \A i \in 1 .. Len(p) : p[i] \in Messages
  BY <1>1
<1>7. /\ rest \in Seq(Messages)
      /\ Len(rest) = Len(p) - n
      /\ \A i \in 1 .. Len(p) - n : rest[i] = p[n + i]
  <2>1. Len(p) \in Nat /\ n \in Nat /\ n <= Len(p)
    BY <1>1, <1>3
  <2>2. n + 1 \in Int /\ Len(p) \in Int /\ \A i \in (n + 1) .. Len(p) : p[i] \in Messages
    BY <1>6, <2>1
  <2>3. /\ rest \in Seq(Messages)
        /\ Len(rest) = IF n + 1 <= Len(p) THEN Len(p) - (n + 1) + 1 ELSE 0
        /\ \A i \in 1 .. Len(p) - (n + 1) + 1 : rest[i] = p[(n + 1) + i - 1]
    BY <2>2, SubSeqProperties
  <2> QED
    BY <2>1, <2>3
<1> HIDE DEF rest, x
<1>8. /\ q \in Seq(Messages) /\ Len(q) = Len(rest) + 1
      /\ \A i \in 1 .. Len(rest) : q[i] = rest[i]
      /\ q[Len(rest) + 1] = x
  BY <1>2, <1>7, AppendProperties
<1>9. PublishEntity(c, k, e, n, failure) =
         IF c \in CappedChannels /\ EntitySubscribers(c, e) # {} THEN q ELSE p
  BY Zenon DEF PublishEntity, p, rest, x
<1> HIDE DEF q
<1>10. Popped(c, e, n) =
         IF c \in CappedChannels /\ EntitySubscribers(c, e) # {} THEN {p[i] : i \in 1 .. n} ELSE {}
  BY Zenon DEF Popped, p
<1>11. Len(q) <= MaxBuffered
  BY <1>1, <1>3, <1>4, <1>7, <1>8
<1>12. Popped(c, e, n) \subseteq Messages
  BY <1>1, <1>3, <1>6, <1>10
<1>13. ASSUME NEW i \in 1 .. Len(p)
       PROVE  p[i] \in {p[h] : h \in 1 .. n} \/ Holds(q, p[i])
  <2>0. Len(p) \in Nat /\ n \in Nat /\ n <= Len(p)
    BY <1>1, <1>3
  <2>1. CASE i <= n
    <3>1. i \in 1 .. n
      BY <2>0, <2>1
    <3> QED
      BY <3>1
  <2>2. CASE i > n
    <3>1. i - n \in 1 .. Len(p) - n /\ n + (i - n) = i
      BY <2>0, <2>2
    <3>2. i - n \in 1 .. Len(rest) /\ i - n \in 1 .. Len(q)
      BY <2>0, <3>1, <1>7, <1>8
    <3>3. q[i - n] = p[i]
      BY <3>1, <3>2, <1>7, <1>8, Zenon
    <3> QED
      BY <3>2, <3>3, Zenon DEF Holds
  <2> QED
    BY <2>0, <2>1, <2>2
<1>14. Holds(q, x)
  <2>1. Len(rest) + 1 \in 1 .. Len(q)
    BY <1>1, <1>3, <1>7, <1>8
  <2> QED
    BY <2>1, <1>8, Zenon DEF Holds
<1> QED
  BY <1>1, <1>5, <1>8, <1>9, <1>10, <1>11, <1>12, <1>13, <1>14, Zenon DEF p, x

\* What a publication does to the emptied messages, and to the pending ones of
\* whole channels.
Emptied(c, n, clr) ==
    cleared \subseteq clr /\ \A p \in Popped(c, All, n) : Live(p) => p \in clr
PendingAfter(c, k, n, failure, pend) ==
    /\ \A d \in Channels \ {c} : pend[d][All] = pending_messages[d][All]
    /\ pend[c][All] = PublishEntity(c, k, All, n, failure)

\* The mailbox of a subscriber with the new message.
Queued(c, k, failure, s) == QueueMessage(mailbox[s], Copies(c, k, failure, s))

\* It is still in order, with nothing that is neither emptied nor pending.
LEMMA QueueKeeps ==
  ASSUME IInv, NEW c \in Channels, NEW k \in Keys, NEW failure \in BOOLEAN, NEW s \in Subscribers,
         NEW n \in NumPopped(pending_messages[c][All]), NEW clr, NEW pend,
         Emptied(c, n, clr), PendingAfter(c, k, n, failure, pend)
  PROVE  /\ Queued(c, k, failure, s) \in Seq(Messages)
         /\ MailOrdered(Queued(c, k, failure, s), published + 1)
         /\ MailCapped(Queued(c, k, failure, s), clr, pend)
         /\ s \notin subscribers_to_all[c] \cup entities[c][k] =>
               Queued(c, k, failure, s) = mailbox[s]
<1> DEFINE old == mailbox[s]
           new == Copies(c, k, failure, s)
           box == Queued(c, k, failure, s)
<1>1. /\ old \in Seq(Messages) /\ published \in Nat
      /\ MailOrdered(old, published) /\ MailCapped(old, cleared, pending_messages)
  BY MailParts, Zenon DEF TypeOK
<1>2. /\ new \in Seq(Messages) /\ Len(new) \in {0, 1}
      /\ Len(new) = 1 => \/ s \in subscribers_to_all[c] /\ new[1] = Copy(c, k, All, failure)
                         \/ s \in entities[c][k] /\ new[1] = Copy(c, k, k, failure)
      /\ s \notin subscribers_to_all[c] \cup entities[c][k] => new = <<>>
  BY CopiesEffect
<1>3. box = QueueMessage(old, new)
  BY Zenon DEF Queued
<1>4. \A i \in 1 .. Len(old) : Live(old[i])
  BY Zenon DEF Live
<1> HIDE DEF old, new, box
<1>5. /\ box \in Seq(Messages)
      /\ Len(box) = Len(old) + Len(new)
      /\ \A i \in 1 .. Len(old) + Len(new) :
            box[i] = IF i <= Len(old) THEN old[i] ELSE new[i - Len(old)]
  <2>1. old \in Seq(Messages) /\ new \in Seq(Messages)
    BY <1>1, <1>2, Zenon
  <2>2. /\ QueueMessage(old, new) \in Seq(Messages)
        /\ Len(QueueMessage(old, new)) = Len(old) + Len(new)
        /\ \A i \in 1 .. Len(old) + Len(new) :
            QueueMessage(old, new)[i] = IF i <= Len(old) THEN old[i] ELSE new[i - Len(old)]
    BY <2>1, QueueMessageAppends, Zenon
  <2> QED
    BY <1>3, <2>2, Zenon
<1>6. ASSUME NEW i \in 1 .. Len(box)
      PROVE  \/ i \in 1 .. Len(old) /\ box[i] = old[i]
             \/ i = Len(old) + 1 /\ Len(new) = 1 /\ box[i] = new[1] /\ Len(box) = i
  <2>1. Len(old) \in Nat /\ Len(new) \in {0, 1} /\ i \in Nat /\ 1 <= i /\ i <= Len(old) + Len(new)
    BY <1>1, <1>2, <1>5
  <2>2. CASE i <= Len(old)
    BY <2>1, <2>2, <1>5
  <2>3. CASE i > Len(old)
    <3>0. Len(new) = 0 \/ Len(new) = 1
      BY <2>1, Zenon
    <3>1. i = Len(old) + 1 /\ Len(new) = 1 /\ i - Len(old) = 1
      <4> DEFINE a == Len(old)
                 b == Len(new)
      <4>1. a \in Nat /\ (b = 0 \/ b = 1) /\ i \in Nat /\ i <= a + b /\ i > a
        BY <2>1, <2>3, <3>0, Zenon
      <4> HIDE DEF a, b
      <4>2. i = a + 1 /\ b = 1 /\ i - a = 1
        BY <4>1
      <4> QED
        BY <4>2, Zenon DEF a, b
    <3> QED
      BY <2>1, <2>3, <3>1, <1>5
  <2> QED
    BY <2>1, <2>2, <2>3
<1>7. Len(new) = 1 => new[1].id = published
  BY <1>2 DEF Copy
<1>8. MailOrdered(box, published + 1)
  <2>1. ASSUME NEW i \in 1 .. Len(box) PROVE box[i].id < published + 1
    <3>1. CASE i \in 1 .. Len(old) /\ box[i] = old[i]
      <4>1. old[i] \in Messages
        BY <1>1, <3>1
      <4> QED
        BY <1>1, <3>1, <4>1 DEF MailOrdered, Messages
    <3>2. CASE Len(new) = 1 /\ box[i] = new[1]
      BY <1>1, <1>7, <3>2
    <3> QED
      BY <1>6, <3>1, <3>2, Zenon
  <2>2. ASSUME NEW i \in 1 .. Len(box), NEW j \in 1 .. Len(box), i < j
        PROVE  box[i].id < box[j].id
    <3>1. i \in 1 .. Len(old) /\ box[i] = old[i]
      BY <1>1, <1>5, <1>6, <2>2
    <3>2. CASE j \in 1 .. Len(old) /\ box[j] = old[j]
      BY <1>1, <2>2, <3>1, <3>2, Zenon DEF MailOrdered
    <3>3. CASE Len(new) = 1 /\ box[j] = new[1]
      BY <1>1, <1>7, <3>1, <3>3, Zenon DEF MailOrdered
    <3> QED
      BY <1>6, <3>2, <3>3, Zenon
  <2> QED
    BY <2>1, <2>2 DEF MailOrdered
<1>9. MailCapped(box, clr, pend)
  <2> SUFFICES ASSUME NEW d \in CappedChannels, NEW i \in 1 .. Len(box),
                      box[i].channel = d, box[i].entity = All, box[i] \notin clr
               PROVE  \E j \in 1 .. Len(pend[d][All]) : pend[d][All][j] = box[i]
    BY Zenon DEF MailCapped
  <2>a. /\ cleared \subseteq clr /\ \A p \in Popped(c, All, n) : Live(p) => p \in clr
        /\ \A e \in Channels \ {c} : pend[e][All] = pending_messages[e][All]
        /\ pend[c][All] = PublishEntity(c, k, All, n, failure)
    BY Zenon DEF Emptied, PendingAfter
  <2>0. d \in Channels /\ All \in {All, k} /\ All # k
    BY PublisherAssumption
  <2>1. CASE i \in 1 .. Len(old) /\ box[i] = old[i]
    <3>1. PICK j \in 1 .. Len(pending_messages[d][All]) : pending_messages[d][All][j] = box[i]
      BY <1>1, <2>a, <2>1 DEF MailCapped
    <3>2. CASE d # c
      BY <2>a, <2>0, <3>1, <3>2, Zenon
    <3>3. CASE d = c /\ EntitySubscribers(c, All) # {}
      <4>1. box[i] \notin Popped(c, All, n)
        BY <1>4, <2>a, <2>1, Zenon
      <4>2. \/ pending_messages[c][All][j] \in Popped(c, All, n)
            \/ Holds(PublishEntity(c, k, All, n, failure), pending_messages[c][All][j])
        BY <2>0, <3>1, <3>3, PublishEntityEffect, Zenon
      <4>3. Holds(pend[c][All], box[i])
        BY <2>a, <3>1, <3>3, <4>1, <4>2, Zenon
      <4> QED
        BY <3>3, <4>3, Zenon DEF Holds
    <3>4. CASE d = c /\ EntitySubscribers(c, All) = {}
      <4>1. pend[d][All] = pending_messages[d][All]
        BY <2>a, <3>4 DEF PublishEntity
      <4> QED
        BY <3>1, <4>1, Zenon
    <3> QED
      BY <3>2, <3>3, <3>4, Zenon
  <2>2. CASE Len(new) = 1 /\ box[i] = new[1]
    <3>0. /\ Copy(c, k, All, failure).channel = c
          /\ Copy(c, k, k, failure).channel = c /\ Copy(c, k, k, failure).entity = k
      BY Zenon DEF Copy
    <3>1. box[i].channel = c /\ s \in subscribers_to_all[c] /\ box[i] = Copy(c, k, All, failure)
      BY <1>2, <2>0, <2>2, <3>0, Zenon
    <3>2. d = c /\ EntitySubscribers(c, All) # {}
      BY <3>1, Zenon DEF EntitySubscribers
    <3>3. Holds(PublishEntity(c, k, All, n, failure), Copy(c, k, All, failure))
      BY <2>0, <3>2, PublishEntityEffect, Zenon
    <3>4. Holds(pend[c][All], box[i])
      BY <2>a, <3>1, <3>3, Zenon
    <3> QED
      BY <3>2, <3>4, Zenon DEF Holds
  <2> QED
    BY <1>6, <2>1, <2>2, Zenon
<1>10. s \notin subscribers_to_all[c] \cup entities[c][k] => box = old
  BY <1>1, <1>2, <1>3, ConcatEmptySeq, Zenon DEF QueueMessage
<1> QED
  BY <1>5, <1>8, <1>9, <1>10 DEF old, box

LEMMA PublishKeeps ==
  ASSUME IInv, NEW c \in Channels, NEW k \in Keys, NEW failure \in BOOLEAN,
         PublishMessage(c, k, failure)
  PROVE  IInv'
<1> DEFINE S == subscribers_to_all[c] \cup entities[c][k]
           box == [s \in Subscribers |-> QueueMessage(mailbox[s], Copies(c, k, failure, s))]
<1>1. PICK n \in NumPopped(pending_messages[c][All]), m \in NumPopped(pending_messages[c][k]) :
          /\ pending_messages' = [pending_messages EXCEPT ![c] =
                [e \in Entities |->
                   IF e = All THEN PublishEntity(c, k, All, n, failure)
                   ELSE IF e = k THEN PublishEntity(c, k, k, m, failure) ELSE @[e]]]
          /\ cleared' = cleared \cup {p \in Popped(c, All, n) \cup Popped(c, k, m) : Live(p)}
          /\ PublishIfPossible(S, FALSE, box, cleared')
  BY Zenon DEF PublishMessage
<1>2. /\ published' = published + 1 /\ subscribers' = subscribers
      /\ subscribers_to_all' = subscribers_to_all /\ entities' = entities
      /\ subscribers_to_key_id' = subscribers_to_key_id
  BY Zenon DEF PublishMessage, indexVars
<1>3. TypeOK /\ S \in SUBSET Subscribers /\ All \in Entities /\ k \in Entities /\ All # k
  <2>1. TypeOK /\ subscribers_to_all[c] \in SUBSET Subscribers /\ entities[c][k] \in SUBSET Subscribers
    BY DEF IInv, TypeOK
  <2> QED
    BY <2>1, PublisherAssumption, Zenon DEF Entities
<1>4. /\ pending_messages' \in [Channels -> [Entities -> Seq(Messages)]]
      /\ \A d \in Channels \ {c} : pending_messages'[d] = pending_messages[d]
      /\ pending_messages'[c][All] = PublishEntity(c, k, All, n, failure)
      /\ pending_messages'[c][k] = PublishEntity(c, k, k, m, failure)
      /\ \A e \in Entities \ {All, k} : pending_messages'[c][e] = pending_messages[c][e]
  <2>1. /\ PublishEntity(c, k, All, n, failure) \in Seq(Messages)
        /\ PublishEntity(c, k, k, m, failure) \in Seq(Messages)
    BY PublishEntityEffect, Zenon
  <2> QED
    BY <1>1, <1>3, <2>1 DEF TypeOK
<1>5. ASSUME NEW d \in CappedChannels, NEW e \in Entities
      PROVE  Len(pending_messages'[d][e]) <= MaxBuffered
  <2>0. d \in Channels /\ Len(pending_messages[d][e]) <= MaxBuffered
    BY PublisherAssumption, Zenon DEF IInv, BufferCapped
  <2>1. CASE d # c
    BY <1>4, <2>0, <2>1
  <2>2. CASE d = c /\ e = All
    <3>1. Len(PublishEntity(c, k, All, n, failure)) <= MaxBuffered
      BY <2>2, PublishEntityEffect
    <3> QED
      BY <1>4, <2>2, <3>1, Zenon
  <2>3. CASE d = c /\ e = k
    <3>1. Len(PublishEntity(c, k, k, m, failure)) <= MaxBuffered
      BY <2>3, PublishEntityEffect, Zenon
    <3> QED
      BY <1>4, <2>3, <3>1, Zenon
  <2>4. CASE d = c /\ e \notin {All, k}
    BY <1>4, <2>0, <2>4
  <2> QED
    BY <2>1, <2>2, <2>3, <2>4, Zenon
<1>6. cleared' \subseteq Messages /\ cleared \subseteq cleared'
  <2>1. Popped(c, All, n) \subseteq Messages /\ Popped(c, k, m) \subseteq Messages
    BY PublishEntityEffect
  <2> QED
    BY <1>1, <1>3, <2>1, Zenon DEF TypeOK
<1>7. \A p \in Popped(c, All, n) : Live(p) => p \in cleared'
  BY <1>1, Zenon
<1>8. ASSUME NEW s \in Subscribers
      PROVE  /\ box[s] = Queued(c, k, failure, s)
             /\ box[s] \in Seq(Messages)
             /\ MailOrdered(box[s], published + 1)
             /\ MailCapped(box[s], cleared', pending_messages')
             /\ s \notin S => box[s] = mailbox[s]
  <2>1. box[s] = Queued(c, k, failure, s)
    BY Zenon DEF Queued
  <2> DEFINE clr == cleared'
             pend == pending_messages'
  <2>2. Emptied(c, n, clr) /\ PendingAfter(c, k, n, failure, pend)
    BY <1>4, <1>6, <1>7, Zenon DEF Emptied, PendingAfter
  <2> HIDE DEF box, clr, pend
  <2>3. /\ Queued(c, k, failure, s) \in Seq(Messages)
        /\ MailOrdered(Queued(c, k, failure, s), published + 1)
        /\ MailCapped(Queued(c, k, failure, s), clr, pend)
        /\ s \notin subscribers_to_all[c] \cup entities[c][k] =>
               Queued(c, k, failure, s) = mailbox[s]
    BY <2>2, QueueKeeps
  <2> QED
    BY <2>1, <2>3 DEF clr, pend
<1>9. box \in [Subscribers -> Seq(Messages)]
  <2>1. box = [s \in Subscribers |-> box[s]] /\ \A s \in Subscribers : box[s] \in Seq(Messages)
    BY <1>8
  <2> HIDE DEF box
  <2> QED
    BY <2>1, Zenon
<1>10. PublishIfPossible(S, FALSE, box, cleared')
  BY <1>1, Zenon
<1> HIDE DEF box, S
<1>11. /\ mailbox' \in [Subscribers -> Seq(Messages)]
       /\ connection' \in [Subscribers -> {None, "live", "stale"}]
       /\ DOMAIN poll_reply' = Subscribers
       /\ \A s \in Subscribers :
              /\ Len(poll_reply'[s]) \in {0, 1}
              /\ mailbox'[s] \in {box[s], AfterBatch(box[s])}
              /\ connection'[s] \in {None, connection[s]}
              /\ s \notin S => mailbox'[s] = box[s]
              /\ connection'[s] # None =>
                    /\ mailbox'[s] = box[s]
                    /\ poll_reply'[s] = poll_reply[s]
                    /\ s \in S => box[s] = <<>>
  BY <1>3, <1>9, <1>10, SendEffect, Zenon
<1>12. TypeOK'
  <2>1. /\ subscribers' \subseteq Subscribers /\ published' \in Nat
        /\ subscribers_to_all' \in [Channels -> SUBSET Subscribers]
        /\ entities' \in [Channels -> [Keys -> SUBSET Subscribers]]
        /\ subscribers_to_key_id' \in [Channels -> [Subscribers -> SUBSET Keys]]
    BY <1>2, <1>3 DEF TypeOK
  <2>2. \A s \in Subscribers : Len(poll_reply'[s]) \in {0, 1}
    BY <1>11, Zenon
  <2> QED
    BY <1>4, <1>6, <1>11, <2>1, <2>2, Zenon DEF TypeOK
<1>13. KindsApart' /\ IndexConsistent' /\ NoDanglingSubscriber'
  BY <1>2 DEF IInv, KindsApart, IndexConsistent, NoDanglingSubscriber
<1>14. NoMailWhilePolling'
  <2>1. ASSUME NEW s \in Subscribers, connection'[s] # None PROVE mailbox'[s] = <<>>
    BY <1>8, <1>11, <2>1, Zenon DEF IInv, NoMailWhilePolling
  <2>2. ASSUME NEW s \in Subscribers, s \notin subscribers'
        PROVE  connection'[s] = None /\ mailbox'[s] = <<>>
    <3>1. s \notin S
      BY <1>2, <2>2 DEF IInv, NoDanglingSubscriber, S
    <3> QED
      BY <1>2, <1>8, <1>11, <2>2, <3>1, Zenon DEF IInv, NoMailWhilePolling
  <2> QED
    BY <2>1, <2>2, Zenon DEF NoMailWhilePolling
<1>15. AnsweredOnce'
  BY <1>11, PublisherAssumption, Zenon DEF IInv, AnsweredOnce
<1>16. ASSUME NEW s \in Subscribers
       PROVE  /\ MailOrdered(mailbox'[s], published')
              /\ MailCapped(mailbox'[s], cleared', pending_messages')
  <2>1. /\ MailOrdered(AfterBatch(box[s]), published + 1)
        /\ MailCapped(AfterBatch(box[s]), cleared', pending_messages')
    BY <1>8, BatchKeeps, Zenon
  <2> QED
    BY <1>2, <1>8, <1>11, <2>1, Zenon
<1> QED
  BY <1>5, <1>12, <1>13, <1>14, <1>15, <1>16, MailPartsNext

LEMMA BrokenKeeps ==
  ASSUME IInv, NEW s \in Subscribers, ConnectionBroken(s)
  PROVE  IInv'
<1>1. /\ connection' = [connection EXCEPT ![s] = "stale"] /\ connection[s] = "live"
      /\ UNCHANGED <<subscribers, mailbox, poll_reply, subscribers_to_all, entities,
                     subscribers_to_key_id, pending_messages, cleared, published>>
  BY DEF ConnectionBroken, indexVars
<1>2. TypeOK'
  BY <1>1, Zenon DEF IInv, TypeOK
<1>3. KindsApart' /\ IndexConsistent' /\ NoDanglingSubscriber'
  BY <1>1, Zenon DEF IInv, KindsApart, IndexConsistent, NoDanglingSubscriber
<1>4. NoMailWhilePolling' /\ AnsweredOnce'
  BY <1>1, PublisherAssumption, Zenon DEF IInv, TypeOK, NoMailWhilePolling, AnsweredOnce
<1>5. BufferCapped'
  BY <1>1 DEF IInv, BufferCapped
<1>6. IdsPublished'
  BY <1>1, Zenon DEF IInv, IdsPublished
<1>7. MailboxInOrder'
  BY <1>1, Zenon DEF IInv, MailboxInOrder
<1> QED
  BY <1>2, <1>3, <1>4, <1>5, <1>6, <1>7, Zenon DEF IInv

LEMMA ReplyTakenKeeps ==
  ASSUME IInv, NEW s \in Subscribers, ReplyTaken(s)
  PROVE  IInv'
<1>1. /\ poll_reply' = [poll_reply EXCEPT ![s] = <<>>]
      /\ UNCHANGED <<subscribers, connection, mailbox, subscribers_to_all, entities,
                     subscribers_to_key_id, pending_messages, cleared, published>>
  BY Zenon DEF ReplyTaken, indexVars
<1>2. TypeOK'
  BY <1>1 DEF IInv, TypeOK
<1>3. KindsApart' /\ IndexConsistent' /\ NoDanglingSubscriber'
  BY <1>1, Zenon DEF IInv, KindsApart, IndexConsistent, NoDanglingSubscriber
<1>4. NoMailWhilePolling' /\ AnsweredOnce'
  BY <1>1, Zenon DEF IInv, TypeOK, NoMailWhilePolling, AnsweredOnce
<1>5. BufferCapped'
  BY <1>1 DEF IInv, BufferCapped
<1>6. IdsPublished'
  BY <1>1, Zenon DEF IInv, IdsPublished
<1>7. MailboxInOrder'
  BY <1>1, Zenon DEF IInv, MailboxInOrder
<1> QED
  BY <1>2, <1>3, <1>4, <1>5, <1>6, <1>7, Zenon DEF IInv

LEMMA StepKeeps == IInv /\ [Next]_vars => IInv'
<1> SUFFICES ASSUME IInv, [Next]_vars PROVE IInv'
  OBVIOUS
<1>0. subscribers \subseteq Subscribers /\ FALSE \in BOOLEAN /\ TRUE \in BOOLEAN
  BY Zenon DEF IInv, TypeOK
<1>1. ASSUME NEW s \in Subscribers, PollArrives(s) PROVE IInv'
  <2>1. CASE connection[s] # "live" /\ poll_reply[s] = <<>> /\ ConnectToSubscriber(s, "live")
    BY <2>1, ConnectKeeps, Zenon
  <2>2. CASE ConnectToSubscriber(s, "stale")
    BY <2>2, ConnectKeeps, Zenon
  <2> QED
    BY <1>1, <2>1, <2>2, Zenon DEF PollArrives
<1>2. ASSUME NEW s \in Subscribers, NEW c \in Channels, NEW e \in Entities, OneKind(c, e, s),
             RegisterSubscription(c, e, s) \/ UnregisterSubscription(c, e, s)
      PROVE  IInv'
  BY <1>2, RegisterKeeps, UnregisterSubscriptionKeeps
<1>3. ASSUME NEW s \in Subscribers, UnregisterSubscriber(s) PROVE IInv'
  <2>1. Unregister({s}, {}) /\ {s} \in SUBSET Subscribers /\ {} \in SUBSET subscribers
    BY <1>3 DEF UnregisterSubscriber
  <2> QED
    BY <2>1, UnregisterKeeps
<1>4. ASSUME NEW s \in Subscribers, ConnectionBroken(s) \/ ReplyTaken(s) PROVE IInv'
  BY <1>4, BrokenKeeps, ReplyTakenKeeps
<1>5. ASSUME NEW c \in Channels, NEW k \in Keys, Publish(c, k) \/ PublishFailure(c, k)
      PROVE  IInv'
  BY <1>0, <1>5, PublishKeeps, Zenon DEF Publish, PublishFailure
<1>6. ASSUME NEW inactive \in SUBSET subscribers, CheckDeadSubscribers(inactive) PROVE IInv'
  <2> DEFINE held == {s \in inactive : connection[s] # None}
             gone == inactive \ held
  <2>1. Unregister(gone, held) /\ gone \in SUBSET Subscribers /\ held \in SUBSET subscribers
    BY <1>0, <1>6 DEF CheckDeadSubscribers
  <2> HIDE DEF held, gone
  <2> QED
    BY <2>1, UnregisterKeeps, Zenon
<1>7. ASSUME UnregisterAll PROVE IInv'
  <2>1. Unregister(subscribers, {}) /\ subscribers \in SUBSET Subscribers
        /\ {} \in SUBSET subscribers
    BY <1>0, <1>7, Zenon DEF UnregisterAll
  <2> QED
    BY <2>1, UnregisterKeeps
<1>8. ASSUME UNCHANGED vars PROVE IInv'
  <2>1. UNCHANGED <<subscribers, connection, mailbox, poll_reply, subscribers_to_all, entities,
                    subscribers_to_key_id, pending_messages, cleared, published>>
    BY <1>8 DEF vars, indexVars
  <2>2. TypeOK'
    BY <2>1, Zenon DEF IInv, TypeOK
  <2>3. KindsApart' /\ IndexConsistent' /\ NoDanglingSubscriber'
    BY <2>1, Zenon DEF IInv, KindsApart, IndexConsistent, NoDanglingSubscriber
  <2>4. NoMailWhilePolling' /\ AnsweredOnce'
    BY <2>1, Zenon DEF IInv, NoMailWhilePolling, AnsweredOnce
  <2>5. BufferCapped' /\ IdsPublished' /\ MailboxInOrder'
    BY <2>1 DEF IInv, BufferCapped, IdsPublished, MailboxInOrder
  <2> QED
    BY <2>2, <2>3, <2>4, <2>5, Zenon DEF IInv
<1> QED
  BY <1>1, <1>2, <1>3, <1>4, <1>5, <1>6, <1>7, <1>8 DEF Next

\* Every reachable state of the publisher satisfies the inductive invariant.
THEOREM Invariance == Spec => []IInv
  BY InitHolds, StepKeeps, PTL DEF Spec

\* The state has its types; a poll has at most one reply.
THEOREM TypeCorrect == Spec => []TypeOK
<1>1. IInv => TypeOK
  BY DEF IInv
<1> QED
  BY <1>1, Invariance, PTL

\* The RAY_CHECKs of SubscriptionIndex on its two directions never fail.
THEOREM IndexAgrees == Spec => []IndexConsistent
<1>1. IInv => IndexConsistent
  BY DEF IInv
<1> QED
  BY <1>1, Invariance, PTL

\* No EntityState keeps a pointer to a SubscriberState that was erased.
THEOREM NothingDangles == Spec => []NoDanglingSubscriber
<1>1. IInv => NoDanglingSubscriber
  BY DEF IInv
<1> QED
  BY <1>1, Invariance, PTL

\* PublishIfPossible: no poll is held while its subscriber has mail.
THEOREM PollsAreAnswered == Spec => []NoMailWhilePolling
<1>1. IInv => NoMailWhilePolling
  BY DEF IInv
<1> QED
  BY <1>1, Invariance, PTL

\* PublishIfPossible and ConnectToSubscriber answer a poll once.
THEOREM PollsAnsweredOnce == Spec => []AnsweredOnce
<1>1. IInv => AnsweredOnce
  BY DEF IInv
<1> QED
  BY <1>1, Invariance, PTL

\* CappedEntityState bounds what the mailboxes hold of a channel.
THEOREM BuffersCapped == Spec => []BufferCapped
<1>1. IInv => BufferCapped
  BY DEF IInv
<1> QED
  BY <1>1, Invariance, PTL

\* QueueMessage and PublishIfPossible keep every mailbox in publication order.
THEOREM MailboxesInOrder == Spec => []MailboxInOrder
<1>1. IInv => MailboxInOrder
  BY DEF IInv
<1> QED
  BY <1>1, Invariance, PTL

============================================================================
