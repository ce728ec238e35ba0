------------------------ MODULE PubsubDeliveryProofs ------------------------
(***************************************************************************)
(* No message is lost between a publisher and a subscriber that stays,      *)
(* for every number of subscribers, channels, keys and messages.            *)
(***************************************************************************)
EXTENDS PubsubProofs, WellFoundedInduction, TLAPS

\* Messages on their way to a subscriber

\* f lists the elements of K in their order.
Lists(f, K) == Pub!Increasing(f) /\ \A i \in K : \E j \in DOMAIN f : f[j] = i

\* Every set of numbers up to m can be listed: there is no least m for which it cannot.
LEMMA Listing ==
  ASSUME NEW m \in Nat, NEW K \in SUBSET (1..m)
  PROVE  \E f \in UNION {[1..n -> K] : n \in 0..m} : Lists(f, K)
<1> DEFINE Part(k) == K \cap (1..k)
           Good(k) == \E n \in 0..k : \E f \in [1..n -> Part(k)] : Lists(f, Part(k))
           R == {ss \in Nat \X Nat : ss[1] < ss[2]}
           T == {k \in Nat : ~Good(k)}
<1>1. IsWellFoundedOn(R, Nat)
  BY NatLessThanWellFounded DEF OpToRel
<1>2. Good(0)
  <2>1. Part(0) = {}
    OBVIOUS
  <2>2. <<>> \in [1..0 -> Part(0)] /\ Lists(<<>>, Part(0))
    BY <2>1 DEF Lists, Pub!Increasing
  <2> DEFINE e == <<>>
  <2>3. 0 \in 0..0 /\ e \in [1..0 -> Part(0)] /\ Lists(e, Part(0))
    BY <2>2
  <2> HIDE DEF Part, e
  <2> QED
    BY <2>3, Zenon
<1>3. ASSUME NEW k \in Nat, k # 0, Good(k - 1) PROVE Good(k)
  <2>1. PICK n \in 0..k - 1 : \E f \in [1..n -> Part(k - 1)] : Lists(f, Part(k - 1))
    BY <1>3
  <2>2. PICK f \in [1..n -> Part(k - 1)] : Lists(f, Part(k - 1))
    BY <2>1
  <2>3. n \in Nat /\ n + 1 \in 0..k /\ n \in 0..k
    BY <1>3
  <2>4. CASE k \notin K
    <3>1. Part(k) = Part(k - 1)
      BY <2>4
    <3> HIDE DEF Part
    <3> QED
      BY <2>2, <2>3, <3>1
  <2>5. CASE k \in K
    <3> DEFINE g == [j \in 1..n + 1 |-> IF j = n + 1 THEN k ELSE f[j]]
    <3>1. Part(k) = Part(k - 1) \cup {k} /\ \A i \in Part(k - 1) : i < k
      BY <2>5
    <3>2. \A j \in 1..n : f[j] \in Part(k - 1) /\ f[j] < k /\ f[j] \in Int
      BY <3>1
    <3> HIDE DEF Part
    <3>3. g \in [1..n + 1 -> Part(k)]
      BY <2>3, <3>1, <3>2
    <3>4. Pub!Increasing(g)
      BY <2>2, <2>3, <3>2 DEF Lists, Pub!Increasing
    <3>5. \A i \in Part(k) : \E j \in DOMAIN g : g[j] = i
      <4>1. ASSUME NEW i \in Part(k - 1) PROVE \E j \in DOMAIN g : g[j] = i
        <5>1. PICK j \in 1..n : f[j] = i
          BY <2>2 DEF Lists
        <5>2. j \in 1..n + 1 /\ j # n + 1
          BY <2>3
        <5> QED
          BY <5>1, <5>2
      <4>2. g[n + 1] = k /\ n + 1 \in DOMAIN g
        BY <2>3
      <4> QED
        BY <3>1, <4>1, <4>2
    <3>6. Lists(g, Part(k))
      BY <3>4, <3>5 DEF Lists
    <3> HIDE DEF g
    <3> QED
      BY <2>3, <3>3, <3>6
  <2> QED
    BY <2>4, <2>5, Zenon
<1>4. T = {}
  <2> SUFFICES ASSUME T # {} PROVE FALSE
    BY Zenon
  <2> HIDE DEF Good
  <2>1. PICK k \in T : \A l \in T : ~(<<l, k>> \in R)
    BY <1>1, WFMin, Zenon
  <2>2. k \in Nat /\ ~Good(k) /\ k # 0
    BY <1>2
  <2>3. \A l \in T : ~(l < k)
    BY <2>1, Zenon
  <2>4. k - 1 \in Nat /\ k - 1 < k
    BY <2>2
  <2>5. Good(k - 1)
    BY <2>3, <2>4
  <2> QED
    BY <1>3, <2>2, <2>5
<1>5. Good(m)
  BY <1>4, Zenon
<1>6. Part(m) = K
  BY Zenon
<1> HIDE DEF Part
<1> QED
  BY <1>5, <1>6

Has(msgs, id) == \E i \in 1..Len(msgs) : msgs[i].id = id

\* The positions of the messages that the next batch carries.
Kept(box, clr) == {i \in 1..Len(box) : i <= BatchSize /\ box[i] \notin clr}

IsBatch(box, clr, n, f) ==
    /\ Pub!Batch(box, clr) = [j \in 1..n |-> box[f[j]]]
    /\ \A i \in Kept(box, clr) : \E j \in 1..n : f[j] = i

\* A batch is a list of the messages that are kept.
LEMMA BatchLists ==
  ASSUME NEW box \in Seq(Pub!Messages), NEW clr
  PROVE  \E n \in Nat : \E f \in [1..n -> Kept(box, clr)] : IsBatch(box, clr, n, f)
<1> DEFINE K == Kept(box, clr)
           F == UNION {[1..n -> K] : n \in 0..BatchSize}
           order == CHOOSE f \in F : Lists(f, K)
<1>1. BatchSize \in Nat /\ K \in SUBSET (1..BatchSize)
  BY PubsubAssumption DEF Kept
<1>2. Pub!Batch(box, clr) = [j \in DOMAIN order |-> box[order[j]]]
  BY DEF Pub!Batch, Lists, Kept
<1> HIDE DEF K
<1>3. order \in F /\ Lists(order, K)
  BY <1>1, Listing, Zenon
<1> HIDE DEF order
<1>4. PICK n \in 0..BatchSize : order \in [1..n -> K]
  BY <1>3
<1>5. n \in Nat /\ DOMAIN order = 1..n
  BY <1>1, <1>4
<1>6. \A i \in K : \E j \in 1..n : order[j] = i
  BY <1>3, <1>5, Zenon DEF Lists
<1>7. IsBatch(box, clr, n, order)
  BY <1>2, <1>5, <1>6, Zenon DEF IsBatch, K
<1> QED
  BY <1>4, <1>5, <1>7 DEF K

\* A batch is split off a mailbox: every message is in the batch, stays in the
\* mailbox, or was emptied.
LEMMA BatchSplits ==
  ASSUME NEW box \in Seq(Pub!Messages), NEW clr, NEW id, Has(box, id)
  PROVE  \/ Has(Pub!AfterBatch(box), id) \/ Has(Pub!Batch(box, clr), id)
         \/ \E m \in clr : m.id = id
<1> DEFINE K == Kept(box, clr)
<1>1. PICK i \in 1..Len(box) : box[i].id = id
  BY DEF Has
<1>2. Len(box) \in Nat /\ BatchSize \in Nat /\ i \in Nat
  BY PubsubAssumption
<1>3. CASE ~(i <= BatchSize)
  <2> DEFINE rest == SubSeq(box, BatchSize + 1, Len(box))
  <2>1. Len(rest) = Len(box) - BatchSize /\ \A j \in 1..Len(rest) : rest[j] = box[BatchSize + j]
    BY <1>2, <1>3
  <2> HIDE DEF rest
  <2>2. i - BatchSize \in 1..Len(rest) /\ BatchSize + (i - BatchSize) = i
    BY <1>2, <1>3, <2>1
  <2>3. rest[i - BatchSize] = box[i]
    BY <2>1, <2>2
  <2>4. Has(rest, id)
    BY <1>1, <2>2, <2>3 DEF Has
  <2> QED
    BY <2>4 DEF rest, Pub!AfterBatch
<1>4. CASE i <= BatchSize /\ box[i] \in clr
  BY <1>1, <1>4, Zenon
<1>5. CASE i <= BatchSize /\ box[i] \notin clr
  <2>1. i \in K
    BY <1>5 DEF Kept
  <2>2. PICK n \in Nat : \E f \in [1..n -> K] : IsBatch(box, clr, n, f)
    BY BatchLists
  <2>3. PICK f \in [1..n -> K] : IsBatch(box, clr, n, f)
    BY <2>2
  <2>4. PICK j \in 1..n : f[j] = i
    BY <2>1, <2>3, Zenon DEF IsBatch
  <2> DEFINE sent == [k \in 1..n |-> box[f[k]]]
  <2>5. Len(sent) = n /\ sent[j] = box[i]
    BY <2>4
  <2> HIDE DEF sent
  <2>6. Has(sent, id)
    BY <1>1, <2>4, <2>5, Zenon DEF Has
  <2> QED
    BY <2>3, <2>6 DEF sent, IsBatch
<1> QED
  BY <1>3, <1>4, <1>5

LEMMA BatchTypes ==
  ASSUME NEW box \in Seq(Pub!Messages), NEW clr
  PROVE  Pub!AfterBatch(box) \in Seq(Pub!Messages) /\ Pub!Batch(box, clr) \in Seq(Pub!Messages)
<1>1. PICK n \in Nat : \E f \in [1..n -> Kept(box, clr)] : IsBatch(box, clr, n, f)
  BY BatchLists
<1>2. PICK f \in [1..n -> Kept(box, clr)] : Pub!Batch(box, clr) = [j \in 1..n |-> box[f[j]]]
  BY <1>1, Zenon DEF IsBatch
<1>3. \A j \in 1..n : f[j] \in 1..Len(box)
  BY DEF Kept
<1>4. [j \in 1..n |-> box[f[j]]] \in Seq(Pub!Messages)
  BY <1>3
<1>5. Pub!AfterBatch(box) \in Seq(Pub!Messages)
  BY PubsubAssumption DEF Pub!AfterBatch
<1> QED
  BY <1>2, <1>4, <1>5

Replied(s) == IF poll_reply[s] = <<>> THEN <<>> ELSE poll_reply[s][1]

Coming(s, id) == Has(received[s], id) \/ Has(Replied(s), id) \/ Has(mailbox[s], id)
Emptied(id) == \E m \in cleared : m.id = id

MailTypes ==
    /\ mailbox \in [Subscribers -> Seq(Pub!Messages)]
    /\ received \in [Subscribers -> Seq(Pub!Messages)]
    /\ \A s \in Subscribers : Replied(s) \in Seq(Pub!Messages)
    /\ DOMAIN late_poll = Subscribers /\ published \in Nat /\ faults \in Nat

\* While polls do not fail the publisher holds no poll that its subscriber gave
\* up, so that a batch taken out of a mailbox becomes a reply.
NoStalePoll == \A s \in Subscribers \ dead : connection[s] # "stale" /\ ~late_poll[s]

AllArrive ==
    \A s \in Subscribers \ (dead \cup forgotten) : \A id \in accepted[s] :
        Coming(s, id) \/ Emptied(id)

DeliveryInv == MailTypes /\ ((alive /\ faults = 0) => NoStalePoll /\ AllArrive)

LEMMA HasConcat ==
  ASSUME NEW a \in Seq(Pub!Messages), NEW b \in Seq(Pub!Messages), NEW id
  PROVE  Has(a \o b, id) <=> Has(a, id) \/ Has(b, id)
<1>1. /\ Len(a \o b) = Len(a) + Len(b) /\ Len(a) \in Nat /\ Len(b) \in Nat
      /\ \A i \in 1..Len(a) : (a \o b)[i] = a[i]
      /\ \A i \in 1..Len(b) : (a \o b)[Len(a) + i] = b[i]
  BY Joined
<1> DEFINE ab == a \o b
<1> HIDE DEF ab
<1>2. ASSUME Has(ab, id) PROVE Has(a, id) \/ Has(b, id)
  <2>1. PICK i \in 1..Len(ab) : ab[i].id = id
    BY <1>2, Zenon DEF Has
  <2>2. CASE i <= Len(a)
    <3>1. i \in 1..Len(a) /\ ab[i] = a[i]
      BY <1>1, <2>2 DEF ab
    <3> QED
      BY <2>1, <3>1, Zenon DEF Has
  <2>3. CASE ~(i <= Len(a))
    <3>1. i - Len(a) \in 1..Len(b) /\ Len(a) + (i - Len(a)) = i
      BY <1>1, <2>3 DEF ab
    <3>2. ab[i] = b[i - Len(a)]
      BY <1>1, <3>1, Zenon DEF ab
    <3> QED
      BY <2>1, <3>1, <3>2, Zenon DEF Has
  <2> QED
    BY <2>2, <2>3
<1>3. ASSUME Has(a, id) PROVE Has(ab, id)
  <2>1. PICK i \in 1..Len(a) : a[i].id = id
    BY <1>3 DEF Has
  <2>2. i \in 1..Len(ab) /\ ab[i] = a[i]
    BY <1>1 DEF ab
  <2> QED
    BY <2>1, <2>2 DEF Has
<1>4. ASSUME Has(b, id) PROVE Has(ab, id)
  <2>1. PICK i \in 1..Len(b) : b[i].id = id
    BY <1>4, Zenon DEF Has
  <2>2. Len(a) + i \in 1..Len(ab) /\ ab[Len(a) + i] = b[i]
    BY <1>1 DEF ab
  <2> QED
    BY <2>1, <2>2 DEF Has
<1> QED
  BY <1>2, <1>3, <1>4 DEF ab

\* What a step has to do for every message to arrive still.
Carried(s) ==
    \A id \in accepted'[s] :
        \/ Coming(s, id)' \/ Emptied(id)'
        \/ id \in accepted[s] /\ ~Coming(s, id)

LEMMA DeliveryKept ==
  ASSUME DeliveryInv, MailTypes', (alive' /\ faults' = 0) => (alive /\ faults = 0),
         dead \subseteq dead', forgotten \subseteq forgotten', cleared \subseteq cleared',
         (alive /\ faults = 0) => NoStalePoll',
         (alive /\ faults = 0) =>
            \A s \in Subscribers \ (dead' \cup forgotten') : Carried(s)
  PROVE  DeliveryInv'
<1> SUFFICES ASSUME alive' /\ faults' = 0 PROVE AllArrive'
  BY Zenon DEF DeliveryInv
<1>1. AllArrive /\ \A s \in Subscribers \ (dead' \cup forgotten') : Carried(s)
  BY Zenon DEF DeliveryInv
<1> SUFFICES ASSUME NEW s \in Subscribers \ (dead' \cup forgotten'), NEW id \in accepted'[s]
             PROVE  Coming(s, id)' \/ Emptied(id)'
  BY Zenon DEF AllArrive
<1>2. Emptied(id) => Emptied(id)'
  BY Zenon DEF Emptied
<1>3. id \in accepted[s] => Coming(s, id) \/ Emptied(id)
  BY <1>1, Zenon DEF AllArrive
<1> QED
  BY <1>1, <1>2, <1>3, Zenon DEF Carried

\* Steps that move no message.
LEMMA DeliveryQuiet ==
  ASSUME DeliveryInv, UNCHANGED <<mailbox, received, poll_reply, late_poll, connection,
                                  published, faults, dead, forgotten, cleared, accepted>>,
         alive' => alive
  PROVE  DeliveryInv'
<1>1. \A s : Replied(s)' = Replied(s)
  BY Zenon DEF Replied
<1>2. MailTypes'
  BY <1>1, Zenon DEF DeliveryInv, MailTypes
<1>3. NoStalePoll => NoStalePoll'
  BY Zenon DEF NoStalePoll
<1>4. ASSUME NEW s \in Subscribers PROVE Carried(s)
  <2>1. \A id : Coming(s, id)' <=> Coming(s, id)
    BY <1>1, Zenon DEF Coming, Has
  <2> QED
    BY <2>1, Zenon DEF Carried
<1> QED
  BY <1>2, <1>3, <1>4, DeliveryKept, Zenon DEF DeliveryInv

LEMMA HandleReplyCarries ==
  ASSUME PollInv, DeliveryInv, NEW s \in Subscribers, HandleReply(s)
  PROVE  DeliveryInv'
<1>1. /\ poll_reply[s] # <<>> /\ poll_reply' = [poll_reply EXCEPT ![s] = <<>>]
      /\ received' = [received EXCEPT ![s] = @ \o poll_reply[s][1]]
      /\ UNCHANGED <<mailbox, late_poll, connection, published, faults, dead, forgotten,
                     cleared, accepted, alive>>
  BY Zenon DEF HandleReply, Pub!ReplyTaken
<1>2. Replied(s) = poll_reply[s][1] /\ Replied(s)' = <<>>
  BY <1>1, Zenon DEF Replied, PollInv, PollTypes
<1>3. \A t \in Subscribers \ {s} : Replied(t)' = Replied(t) /\ received'[t] = received[t]
  BY <1>1, Zenon DEF Replied, PollInv, PollTypes, DeliveryInv, MailTypes
<1>4. received'[s] = received[s] \o Replied(s)
  BY <1>1, <1>2, Zenon DEF DeliveryInv, MailTypes
<1>5. received[s] \in Seq(Pub!Messages) /\ Replied(s) \in Seq(Pub!Messages)
  BY Zenon DEF DeliveryInv, MailTypes
<1>6. received' \in [Subscribers -> Seq(Pub!Messages)]
  <2>1. received[s] \o Replied(s) \in Seq(Pub!Messages)
    BY <1>5, Joined, Zenon
  <2> DEFINE val == received[s] \o poll_reply[s][1]
  <2>2. received' = [received EXCEPT ![s] = val] /\ val \in Seq(Pub!Messages)
    BY <1>1, <1>2, <2>1, Zenon
  <2> HIDE DEF val
  <2> QED
    BY <2>2, Zenon DEF DeliveryInv, MailTypes
<1>7. MailTypes'
  <2>1. ASSUME NEW t \in Subscribers PROVE Replied(t)' \in Seq(Pub!Messages)
    <3>1. Replied(t) \in Seq(Pub!Messages) /\ <<>> \in Seq(Pub!Messages)
      BY DEF DeliveryInv, MailTypes
    <3>2. Replied(t)' = Replied(t) \/ Replied(t)' = <<>>
      BY <1>2, <1>3, Zenon
    <3> QED
      BY <3>1, <3>2, ZenonT(40)
  <2> QED
    BY <1>1, <1>6, <2>1 DEF DeliveryInv, MailTypes
<1>8. NoStalePoll => NoStalePoll'
  BY <1>1 DEF NoStalePoll
<1>9. ASSUME NEW t \in Subscribers PROVE Carried(t)
  <2>1. CASE t = s
    <3>1. \A id : Has(received[s], id) \/ Has(Replied(s), id) => Has(received'[s], id)
      BY <1>4, <1>5, HasConcat
    <3>2. \A id : Coming(s, id) => Coming(s, id)'
      BY <1>1, <3>1, Zenon DEF Coming
    <3> QED
      BY <1>1, <2>1, <3>2, Zenon DEF Carried
  <2>2. CASE t # s
    <3>1. \A id : Coming(t, id) => Coming(t, id)'
      BY <1>1, <1>3, <2>2, Zenon DEF Coming
    <3> QED
      BY <1>1, <3>1, Zenon DEF Carried
  <2> QED
    BY <2>1, <2>2, Zenon
<1> QED
  BY <1>1, <1>7, <1>8, <1>9, DeliveryKept, Zenon DEF DeliveryInv

\* A poll that fails while the publisher lives ends the promise.
LEMMA PollFailureCarries ==
  ASSUME PollInv, DeliveryInv, NEW s \in Subscribers, HandlePollFailure(s)
  PROVE  DeliveryInv'
<1>1. /\ UNCHANGED <<mailbox, published, received>>
      /\ (~alive' /\ faults' = faults) \/ faults' = faults + 1
  BY Zenon DEF HandlePollFailure, pubVars, history, Pub!ConnectionBroken, Pub!ReplyTaken
<1>2. faults' \in Nat /\ (alive' => faults' # 0)
  BY <1>1 DEF DeliveryInv, MailTypes
<1>3. DOMAIN late_poll' = Subscribers
  BY Zenon DEF HandlePollFailure, DeliveryInv, MailTypes
<1>4. ASSUME NEW t \in Subscribers PROVE Replied(t)' \in Seq(Pub!Messages)
  <2>1. poll_reply' = poll_reply \/ poll_reply' = [poll_reply EXCEPT ![s] = <<>>]
    BY Zenon DEF HandlePollFailure, pubVars, Pub!ConnectionBroken, Pub!ReplyTaken
  <2>2. poll_reply'[t] = poll_reply[t] \/ poll_reply'[t] = <<>>
    BY <2>1, Zenon DEF PollInv, PollTypes
  <2>3. Replied(t) \in Seq(Pub!Messages)
    BY DEF DeliveryInv, MailTypes
  <2> QED
    BY <2>2, <2>3 DEF Replied
<1> QED
  BY <1>1, <1>2, <1>3, <1>4, Zenon DEF DeliveryInv, MailTypes

\* The next two: a poll that is sent to the publisher, and the messages that come back.
LEMMA ConnectTypes ==
  ASSUME PollInv, MailTypes, NEW s \in Subscribers, NEW conn, Pub!ConnectToSubscriber(s, conn)
  PROVE  /\ mailbox' \in [Subscribers -> Seq(Pub!Messages)]
         /\ \A t \in Subscribers : Replied(t)' \in Seq(Pub!Messages)
         /\ \A t \in Subscribers \ {s} : mailbox'[t] = mailbox[t] /\ Replied(t)' = Replied(t)
<1> DEFINE box == mailbox[s]
           new == IF box # <<>> THEN Pub!AfterBatch(box) ELSE box
           sent == Pub!Batch(box, cleared)
<1>1. /\ mailbox' = [mailbox EXCEPT ![s] = new]
      /\ poll_reply' = [poll_reply EXCEPT ![s] =
            IF connection[s] = "live" THEN << <<>> >>
            ELSE IF box # <<>> /\ conn = "live" THEN <<sent>> ELSE poll_reply[s]]
  BY DEF Pub!ConnectToSubscriber, PollInv, PollTypes, MailTypes
<1>2. box \in Seq(Pub!Messages)
  BY DEF MailTypes
<1>3. new \in Seq(Pub!Messages) /\ sent \in Seq(Pub!Messages)
  BY <1>2, BatchTypes, Zenon
<1> HIDE DEF new, sent, box
<1>4. mailbox' \in [Subscribers -> Seq(Pub!Messages)]
  BY <1>1, <1>3, Zenon DEF MailTypes
<1>5. \A t \in Subscribers \ {s} : mailbox'[t] = mailbox[t] /\ Replied(t)' = Replied(t)
  BY <1>1, Zenon DEF MailTypes, Replied, PollInv, PollTypes
<1>6. \/ poll_reply'[s] = << <<>> >> \/ poll_reply'[s] = <<sent>>
      \/ poll_reply'[s] = poll_reply[s]
  BY <1>1 DEF PollInv, PollTypes
<1>7. Replied(s) \in Seq(Pub!Messages)
  BY Zenon DEF MailTypes
<1>8. Replied(s)' \in Seq(Pub!Messages)
  <2>1. CASE poll_reply'[s] = << <<>> >>
    <3>1. Replied(s)' = <<>>
      BY <2>1 DEF Replied
    <3> QED
      BY <3>1
  <2>2. CASE poll_reply'[s] = <<sent>>
    BY <1>3, <2>2 DEF Replied
  <2>3. CASE poll_reply'[s] = poll_reply[s]
    BY <1>7, <2>3 DEF Replied
  <2> QED
    BY <1>6, <2>1, <2>2, <2>3
<1> QED
  BY <1>4, <1>5, <1>8, Zenon DEF MailTypes

LEMMA HandlePollCarries ==
  ASSUME PollInv, DeliveryInv, NEW s \in Subscribers, HandlePoll(s)
  PROVE  DeliveryInv'
<1>1. /\ poll_sent[s] /\ Pub!ConnectToSubscriber(s, "live")
      /\ UNCHANGED <<received, late_poll, published, faults, dead, forgotten,
                     cleared, accepted, alive>>
  BY Zenon DEF HandlePoll, Pub!ConnectToSubscriber, history
<1>2. s \notin dead /\ connection[s] # "live" /\ poll_reply[s] = <<>>
  BY <1>1 DEF PollInv, PollOf
<1>3. MailTypes'
  BY <1>1, ConnectTypes, ZenonT(40) DEF DeliveryInv, MailTypes
<1>4. /\ connection' = [connection EXCEPT ![s] = IF mailbox[s] # <<>> THEN None ELSE "live"]
      /\ mailbox' = [mailbox EXCEPT ![s] =
            IF mailbox[s] # <<>> THEN Pub!AfterBatch(mailbox[s]) ELSE mailbox[s]]
      /\ poll_reply' = [poll_reply EXCEPT ![s] =
            IF mailbox[s] # <<>> THEN <<Pub!Batch(mailbox[s], cleared)>> ELSE <<>>]
  BY <1>1, <1>2, Zenon DEF Pub!ConnectToSubscriber, PollInv, PollTypes, DeliveryInv, MailTypes
<1>5. NoStalePoll => NoStalePoll'
  BY <1>1, <1>4, PubsubAssumption, Zenon DEF NoStalePoll, PollInv, PollTypes
<1>6. ASSUME NEW t \in Subscribers PROVE Carried(t)
  <2>1. CASE t # s
    <3>1. \A id : Coming(t, id) => Coming(t, id)'
      BY <1>1, <2>1, ConnectTypes, ZenonT(40) DEF DeliveryInv, Coming
    <3> QED
      BY <1>1, <3>1, ZenonT(40) DEF Carried
  <2>2. CASE t = s
    <3> DEFINE box == mailbox[s]
               sent == Pub!Batch(box, cleared)
    <3>1. ASSUME NEW id, Has(box, id)
          PROVE  Has(mailbox'[s], id) \/ Has(Replied(s)', id) \/ Emptied(id)'
      <4>1. box \in Seq(Pub!Messages) /\ box # <<>>
        BY <3>1 DEF DeliveryInv, MailTypes, Has
      <4>2. Has(Pub!AfterBatch(box), id) \/ Has(sent, id) \/ \E m \in cleared : m.id = id
        BY <3>1, <4>1, BatchSplits
      <4>3. mailbox'[s] = Pub!AfterBatch(box) /\ poll_reply'[s] = <<sent>>
        BY <1>4, <4>1, Zenon DEF DeliveryInv, MailTypes, PollInv, PollTypes
      <4> HIDE DEF sent
      <4>4. Replied(s)' = sent
        BY <4>3 DEF Replied
      <4> QED
        BY <1>1, <4>2, <4>3, <4>4, Zenon DEF Emptied
    <3>2. \A id : ~Has(Replied(s), id)
      BY <1>2 DEF Replied, Has
    <3>3. \A id : Coming(s, id) => Coming(s, id)' \/ Emptied(id)'
      BY <1>1, <3>1, <3>2, Zenon DEF Coming
    <3> QED
      BY <1>1, <2>2, <3>3, Zenon DEF Carried
  <2> QED
    BY <2>1, <2>2
<1> QED
  BY <1>1, <1>3, <1>5, <1>6, DeliveryKept, Zenon DEF DeliveryInv

\* Only a poll that failed arrives late.
LEMMA HandleLatePollCarries ==
  ASSUME PollInv, DeliveryInv, NEW s \in Subscribers, HandleLatePoll(s)
  PROVE  DeliveryInv'
<1>1. /\ late_poll[s] /\ Pub!ConnectToSubscriber(s, "stale")
      /\ late_poll' = [late_poll EXCEPT ![s] = FALSE]
      /\ UNCHANGED <<received, published, faults, dead, forgotten, cleared, accepted, alive>>
  BY Zenon DEF HandleLatePoll, Pub!ConnectToSubscriber, history
<1>2. MailTypes'
  BY <1>1, ConnectTypes, Zenon DEF DeliveryInv, MailTypes
<1>3. ASSUME NEW t \in Subscribers \ dead, NoStalePoll
      PROVE  t # s /\ connection'[t] = connection[t] /\ late_poll'[t] = late_poll[t]
  <2>1. t # s
    BY <1>1, <1>3 DEF NoStalePoll
  <2> QED
    BY <1>1, <2>1, Zenon DEF Pub!ConnectToSubscriber, PollInv, PollTypes, DeliveryInv, MailTypes
<1>4. NoStalePoll => NoStalePoll'
  BY <1>1, <1>3, ZenonT(40) DEF NoStalePoll
<1>5. ASSUME NEW t \in Subscribers \ (dead \cup forgotten), NoStalePoll PROVE Carried(t)
  <2>1. t # s
    BY <1>3, <1>5, Zenon
  <2>2. \A id : Coming(t, id) => Coming(t, id)'
    BY <1>1, <2>1, ConnectTypes, Zenon DEF DeliveryInv, Coming
  <2> QED
    BY <1>1, <2>2, Zenon DEF Carried
<1> QED
  BY <1>1, <1>2, <1>4, <1>5, DeliveryKept, Zenon DEF DeliveryInv

\* PublishIfPossible with messages: what was in a mailbox is there, in a reply, or
\* was emptied, unless the poll it answers was given up.
LEMMA PublishSplits ==
  ASSUME PollInv, MailTypes, NEW S, NEW clr, NEW box \in [Subscribers -> Seq(Pub!Messages)],
         Pub!PublishIfPossible(S, FALSE, box, clr)
  PROVE  /\ mailbox' \in [Subscribers -> Seq(Pub!Messages)]
         /\ \A s \in Subscribers : Replied(s)' \in Seq(Pub!Messages)
         /\ \A s \in Subscribers \ dead : \A id :
              /\ Has(Replied(s), id) => Has(Replied(s)', id)
              /\ Has(box[s], id) /\ connection[s] # "stale" =>
                   Has(mailbox'[s], id) \/ Has(Replied(s)', id) \/ \E m \in clr : m.id = id
<1> DEFINE sends == {s \in S : connection[s] # None /\ (FALSE \/ box[s] # <<>>)}
           rest(s) == IF s \in sends /\ ~FALSE THEN Pub!AfterBatch(box[s]) ELSE box[s]
           sent(s) == Pub!Batch(box[s], clr)
<1>1. /\ mailbox' = [s \in Subscribers |-> rest(s)]
      /\ poll_reply' = [s \in Subscribers |->
            IF s \in sends /\ connection[s] = "live" THEN <<sent(s)>> ELSE poll_reply[s]]
  BY Zenon DEF Pub!PublishIfPossible
<1>2. ASSUME NEW s \in Subscribers
      PROVE  rest(s) \in Seq(Pub!Messages) /\ sent(s) \in Seq(Pub!Messages)
  <2>1. box[s] \in Seq(Pub!Messages)
    BY Zenon
  <2>2. Pub!AfterBatch(box[s]) \in Seq(Pub!Messages) /\ sent(s) \in Seq(Pub!Messages)
    BY <2>1, BatchTypes, Zenon
  <2> HIDE DEF sent, sends
  <2> QED
    BY <2>1, <2>2
<1>3. ASSUME NEW s \in Subscribers, s \in sends
      PROVE  rest(s) = Pub!AfterBatch(box[s]) /\ connection[s] # None
  BY <1>3, Zenon
<1>4. ASSUME NEW s \in Subscribers, s \notin sends PROVE rest(s) = box[s]
  BY <1>4, Zenon
<1> HIDE DEF rest, sent, sends
<1>5. mailbox' \in [Subscribers -> Seq(Pub!Messages)]
  BY <1>1, <1>2, Zenon
<1>6. ASSUME NEW s \in Subscribers
      PROVE  IF s \in sends /\ connection[s] = "live" THEN Replied(s)' = sent(s)
             ELSE Replied(s)' = Replied(s)
  <2>1. CASE s \in sends /\ connection[s] = "live"
    <3>1. poll_reply'[s] = <<sent(s)>>
      BY <1>1, <2>1, Zenon
    <3> QED
      BY <2>1, <3>1 DEF Replied
  <2>2. CASE ~(s \in sends /\ connection[s] = "live")
    <3>1. poll_reply'[s] = poll_reply[s]
      BY <1>1, <2>2, Zenon
    <3> QED
      BY <2>2, <3>1, Zenon DEF Replied
  <2> QED
    BY <2>1, <2>2, Zenon
<1>7. ASSUME NEW s \in Subscribers PROVE Replied(s)' \in Seq(Pub!Messages)
  <2>1. Replied(s) \in Seq(Pub!Messages)
    BY Zenon DEF MailTypes
  <2> QED
    BY <1>2, <1>6, <2>1, Zenon
<1>8. ASSUME NEW s \in Subscribers \ dead, NEW id, Has(Replied(s), id)
      PROVE  Has(Replied(s)', id)
  <2>1. CASE connection[s] = "live"
    <3>1. poll_reply[s] = <<>>
      BY <2>1, Zenon DEF PollInv, PollOf
    <3> QED
      BY <1>8, <3>1 DEF Replied, Has
  <2>2. CASE connection[s] # "live"
    <3>1. Replied(s)' = Replied(s)
      BY <1>6, <2>2, Zenon
    <3> QED
      BY <1>8, <3>1, Zenon
  <2> QED
    BY <2>1, <2>2, Zenon
<1>9. ASSUME NEW s \in Subscribers \ dead, NEW id, Has(box[s], id), connection[s] # "stale"
      PROVE  Has(mailbox'[s], id) \/ Has(Replied(s)', id) \/ \E m \in clr : m.id = id
  <2>1. CASE s \in sends
    <3>1. connection[s] = "live"
      BY <1>3, <1>9, <2>1, Zenon DEF PollInv, PollTypes
    <3>2. Replied(s)' = sent(s) /\ mailbox'[s] = Pub!AfterBatch(box[s])
      BY <1>1, <1>3, <1>6, <2>1, <3>1, Zenon
    <3>3. box[s] \in Seq(Pub!Messages)
      BY Zenon
    <3>4. \/ Has(Pub!AfterBatch(box[s]), id) \/ Has(Pub!Batch(box[s], clr), id)
          \/ \E m \in clr : m.id = id
      BY <1>9, <3>3, BatchSplits
    <3> QED
      BY <3>2, <3>4, Zenon DEF sent
  <2>2. CASE s \notin sends
    <3>1. mailbox'[s] = box[s]
      BY <1>1, <1>4, <2>2, Zenon
    <3> QED
      BY <1>9, <3>1, Zenon
  <2> QED
    BY <2>1, <2>2, Zenon
<1> QED
  BY <1>5, <1>7, <1>8, <1>9, Zenon

LEMMA CopiesHold ==
  ASSUME MailTypes, NEW c \in Channels, NEW k \in Keys, NEW failure \in BOOLEAN,
         NEW s \in Subscribers
  PROVE  /\ Pub!Copies(c, k, failure, s) \in Seq(Pub!Messages)
         /\ s \in subscribers_to_all[c] \cup entities[c][k] =>
               Has(Pub!Copies(c, k, failure, s), published)
<1> DEFINE a == Pub!Copy(c, k, All, failure)
           b == Pub!Copy(c, k, k, failure)
           first == IF s \in subscribers_to_all[c] THEN <<a>> ELSE <<>>
           second == IF s \in entities[c][k] THEN <<b>> ELSE <<>>
<1>1. /\ a \in Pub!Messages /\ b \in Pub!Messages /\ a.id = published /\ b.id = published
  BY Zenon DEF Pub!Copy, Pub!Messages, Pub!Entities, MailTypes
<1>2. Pub!Copies(c, k, failure, s) = first \o second
  BY Zenon DEF Pub!Copies
<1> HIDE DEF a, b
<1>3. first \in Seq(Pub!Messages) /\ second \in Seq(Pub!Messages)
  BY <1>1
<1>4. s \in subscribers_to_all[c] => Has(first, published)
  <2> SUFFICES ASSUME s \in subscribers_to_all[c] PROVE Has(first, published)
    BY Zenon
  <2>1. Len(first) = 1 /\ first[1] = a
    BY Zenon
  <2> QED
    BY <1>1, <2>1 DEF Has
<1>5. s \in entities[c][k] => Has(second, published)
  <2> SUFFICES ASSUME s \in entities[c][k] PROVE Has(second, published)
    BY Zenon
  <2>1. Len(second) = 1 /\ second[1] = b
    BY Zenon
  <2> QED
    BY <1>1, <2>1 DEF Has
<1> HIDE DEF first, second
<1>6. first \o second \in Seq(Pub!Messages)
  BY <1>3, Joined, Zenon
<1>7. Has(first, published) \/ Has(second, published) => Has(first \o second, published)
  BY <1>3, HasConcat, Zenon
<1> QED
  BY <1>2, <1>4, <1>5, <1>6, <1>7, Zenon

LEMMA PublishCarries ==
  ASSUME PollInv, DeliveryInv, NEW c \in Channels, NEW k \in Keys, Publish(c, k)
  PROVE  DeliveryInv'
<1>1. PICK failure \in BOOLEAN : Pub!PublishMessage(c, k, failure)
  BY ZenonT(40) DEF Publish, Pub!Publish, Pub!PublishFailure
<1> DEFINE S == subscribers_to_all[c] \cup entities[c][k]
           box == [s \in Subscribers |->
                     Pub!QueueMessage(mailbox[s], Pub!Copies(c, k, failure, s))]
<1>2. /\ published' = published + 1 /\ cleared \subseteq cleared'
      /\ Pub!PublishIfPossible(S, FALSE, box, cleared')
      /\ UNCHANGED <<received, late_poll, faults, dead, forgotten, alive>>
  BY <1>1, ZenonT(40) DEF Pub!PublishMessage, Publish, subVars
<1>3. ASSUME NEW s \in Subscribers
      PROVE  /\ box[s] = mailbox[s] \o Pub!Copies(c, k, failure, s)
             /\ mailbox[s] \in Seq(Pub!Messages)
             /\ Pub!Copies(c, k, failure, s) \in Seq(Pub!Messages)
  BY CopiesHold, Zenon DEF Pub!QueueMessage, DeliveryInv, MailTypes
<1>4. box \in [Subscribers -> Seq(Pub!Messages)]
  <2>1. ASSUME NEW s \in Subscribers PROVE box[s] \in Seq(Pub!Messages)
    <3>1. mailbox[s] \o Pub!Copies(c, k, failure, s) \in Seq(Pub!Messages)
      BY <1>3, Joined
    <3> QED
      BY <1>3, <3>1, ZenonT(40)
  <2>2. box = [s \in Subscribers |-> box[s]]
    BY Zenon
  <2> HIDE DEF box
  <2> QED
    BY <2>1, <2>2, Zenon
<1>5. \A s \in Subscribers : s \in S => Has(Pub!Copies(c, k, failure, s), published)
  BY CopiesHold, Zenon DEF DeliveryInv
<1>6. \A s \in Subscribers : accepted'[s] \subseteq accepted[s] \cup (IF s \in S THEN {published} ELSE {})
  BY Zenon DEF Publish, Pub!EntitySubscribers
<1> HIDE DEF box, S
<1>7. MailTypes'
  <2>1. /\ mailbox' \in [Subscribers -> Seq(Pub!Messages)]
        /\ \A s \in Subscribers : Replied(s)' \in Seq(Pub!Messages)
    BY <1>2, <1>4, PublishSplits, Zenon DEF DeliveryInv
  <2> QED
    BY <1>2, <2>1 DEF DeliveryInv, MailTypes
<1>8. NoStalePoll => NoStalePoll'
  <2>0. PollsAnswered
    BY <1>2, PublishAnswers, Zenon DEF PollInv
  <2>1. \A s \in Subscribers : Answers(s)
    BY <2>0, Zenon DEF PollsAnswered
  <2> QED
    BY <1>2, <2>1, PubsubAssumption DEF NoStalePoll, Answers
<1>9. ASSUME NEW s \in Subscribers \ (dead \cup forgotten), NoStalePoll PROVE Carried(s)
  <2>1. connection[s] # "stale"
    BY <1>9, Zenon DEF NoStalePoll
  <2>2. ASSUME NEW id, Has(box[s], id)
        PROVE  Has(mailbox'[s], id) \/ Has(Replied(s)', id) \/ Emptied(id)'
    <3>1. Has(mailbox'[s], id) \/ Has(Replied(s)', id) \/ \E m \in cleared' : m.id = id
      BY <1>2, <1>4, <2>1, <2>2, PublishSplits, Zenon DEF DeliveryInv
    <3> QED
      BY <3>1 DEF Emptied
  <2>3. ASSUME NEW id, Has(Replied(s), id) PROVE Has(Replied(s)', id)
    BY <1>2, <1>4, <2>3, PublishSplits, Zenon DEF DeliveryInv
  <2> DEFINE new == Pub!Copies(c, k, failure, s)
  <2>4. \A id : Has(box[s], id) <=> Has(mailbox[s], id) \/ Has(new, id)
    <3>1. box[s] = mailbox[s] \o new /\ mailbox[s] \in Seq(Pub!Messages) /\ new \in Seq(Pub!Messages)
      BY <1>3, Zenon
    <3> HIDE DEF new
    <3> QED
      BY <3>1, HasConcat, ZenonT(40)
  <2>5. \A id : Coming(s, id) => Coming(s, id)' \/ Emptied(id)'
    BY <1>2, <2>2, <2>3, <2>4, ZenonT(40) DEF Coming
  <2>6. \A id : s \in S /\ id = published => Coming(s, id)' \/ Emptied(id)'
    BY <1>5, <2>2, <2>4, ZenonT(40) DEF Coming
  <2> QED
    BY <1>6, <2>5, <2>6, Zenon DEF Carried
<1> QED
  BY <1>2, <1>7, <1>8, <1>9, DeliveryKept DEF DeliveryInv

LEMMA CheckDeadCarries ==
  ASSUME PollInv, DeliveryInv, CheckDeadSubscribers
  PROVE  DeliveryInv'
<1> DEFINE inactive == {s \in subscribers : idle[s]}
           held == {s \in inactive : connection[s] # None}
           S == inactive \ held
           N == held \cup (S \cap subscribers)
           box == [s \in Subscribers |-> IF s \in S THEN <<>> ELSE mailbox[s]]
           sends == {s \in N : connection[s] # None /\ (TRUE \/ box[s] # <<>>)}
<1>1. /\ subscribers' = subscribers \ S /\ forgotten \subseteq forgotten'
      /\ accepted' = [s \in Subscribers |-> IF s \in subscribers' THEN accepted[s] ELSE {}]
      /\ UNCHANGED <<received, late_poll, published, cleared, alive, dead, faults>>
      /\ Pub!PublishIfPossible(N, TRUE, box, cleared)
  BY ZenonT(40) DEF CheckDeadSubscribers, Pub!CheckDeadSubscribers, Pub!Unregister, subVars
<1>2. /\ mailbox' = box
      /\ poll_reply' = [s \in Subscribers |->
            IF s \in sends /\ connection[s] = "live" THEN << <<>> >> ELSE poll_reply[s]]
  BY <1>1, ZenonT(40) DEF Pub!PublishIfPossible
<1>3. box \in [Subscribers -> Seq(Pub!Messages)]
  BY DEF DeliveryInv, MailTypes
<1>4. \A s \in Subscribers : s \in S \/ mailbox'[s] = mailbox[s]
  BY <1>2, ZenonT(40)
<1>5. \A s \in Subscribers : s \in S => accepted'[s] = {}
  BY <1>1, Zenon
<1> HIDE DEF sends, box, N, S
<1>6. ASSUME NEW s \in Subscribers
      PROVE  \/ connection[s] = "live" /\ Replied(s)' = <<>>
             \/ Replied(s)' = Replied(s)
  <2>1. CASE s \in sends /\ connection[s] = "live"
    <3>1. poll_reply'[s] = << <<>> >>
      BY <1>2, <2>1, Zenon
    <3> QED
      BY <2>1, <3>1 DEF Replied
  <2>2. CASE ~(s \in sends /\ connection[s] = "live")
    <3>1. poll_reply'[s] = poll_reply[s]
      BY <1>2, <2>2, Zenon
    <3> QED
      BY <3>1 DEF Replied
  <2> QED
    BY <2>1, <2>2, Zenon
<1>7. MailTypes'
  <2>1. ASSUME NEW s \in Subscribers PROVE Replied(s)' \in Seq(Pub!Messages)
    <3>1. Replied(s) \in Seq(Pub!Messages) /\ <<>> \in Seq(Pub!Messages)
      BY DEF DeliveryInv, MailTypes
    <3> QED
      BY <1>6, <3>1, Zenon
  <2> QED
    BY <1>1, <1>2, <1>3, <2>1 DEF DeliveryInv, MailTypes
<1>8. NoStalePoll => NoStalePoll'
  <2>1. PollsAnswered
    BY <1>1, PublishAnswers, Zenon DEF PollInv
  <2>2. \A s \in Subscribers : Answers(s)
    BY <2>1, Zenon DEF PollsAnswered
  <2> QED
    BY <1>1, <2>2, PubsubAssumption, Zenon DEF NoStalePoll, Answers
<1>9. ASSUME NEW s \in Subscribers \ (dead \cup forgotten) PROVE Carried(s)
  <2>1. CASE s \in S
    BY <1>5, <2>1, Zenon DEF Carried
  <2>2. CASE s \notin S
    <3>1. mailbox'[s] = mailbox[s]
      BY <1>4, <2>2, Zenon
    <3>2. connection[s] = "live" => Replied(s) = <<>>
      BY DEF PollInv, PollOf, Replied
    <3>3. Replied(s)' = Replied(s)
      BY <1>6, <3>2, Zenon
    <3>4. \A id : Coming(s, id) => Coming(s, id)'
      BY <1>1, <3>1, <3>3 DEF Coming
    <3> QED
      BY <1>1, <3>4 DEF Carried
  <2> QED
    BY <2>1, <2>2, Zenon
<1> QED
  BY <1>1, <1>7, <1>8, <1>9, DeliveryKept, ZenonT(40) DEF DeliveryInv

LEMMA SubscriberDiesCarries ==
  ASSUME PollInv, DeliveryInv, NEW s \in Subscribers, SubscriberDies(s)
  PROVE  DeliveryInv'
<1>1. /\ dead' = dead \cup {s}
      /\ poll_reply' = poll_reply \/ poll_reply' = [poll_reply EXCEPT ![s] = <<>>]
      /\ connection' = connection \/ connection' = [connection EXCEPT ![s] = "stale"]
      /\ late_poll' = [late_poll EXCEPT ![s] = @ \/ poll_sent[s]]
      /\ UNCHANGED <<mailbox, received, published, faults, forgotten, cleared, accepted, alive>>
  BY Zenon DEF SubscriberDies, Pub!ConnectionBroken, Pub!ReplyTaken, pubVars, history
<1>2. \A t \in Subscribers : Replied(t)' = Replied(t) \/ Replied(t)' = <<>>
  BY <1>1, Zenon DEF Replied, PollInv, PollTypes
<1>3. MailTypes'
  <2>1. ASSUME NEW t \in Subscribers PROVE Replied(t)' \in Seq(Pub!Messages)
    <3>1. Replied(t) \in Seq(Pub!Messages) /\ <<>> \in Seq(Pub!Messages)
      BY DEF DeliveryInv, MailTypes
    <3> QED
      BY <1>2, <3>1, ZenonT(40)
  <2> QED
    BY <1>1, <2>1 DEF DeliveryInv, MailTypes
<1>4. ASSUME NEW t \in Subscribers \ dead'
      PROVE  /\ t # s /\ t \notin dead
             /\ Replied(t)' = Replied(t) /\ connection'[t] = connection[t]
             /\ late_poll'[t] = late_poll[t]
  BY <1>1, Zenon DEF Replied, PollInv, PollTypes, DeliveryInv, MailTypes
<1>5. NoStalePoll => NoStalePoll'
  BY <1>4 DEF NoStalePoll
<1>6. ASSUME NEW t \in Subscribers \ dead' PROVE Carried(t)
  <2>1. \A id : Coming(t, id) => Coming(t, id)'
    BY <1>1, <1>4, Zenon DEF Coming
  <2> QED
    BY <1>1, <2>1, Zenon DEF Carried
<1> QED
  BY <1>1, <1>3, <1>5, <1>6, DeliveryKept, Zenon DEF DeliveryInv

LEMMA DeliveryInit == Init => DeliveryInv
<1> SUFFICES ASSUME Init PROVE DeliveryInv
  BY Zenon
<1>1. /\ mailbox = [s \in Subscribers |-> <<>>] /\ received = [s \in Subscribers |-> <<>>]
      /\ poll_reply = [s \in Subscribers |-> <<>>] /\ published = 0 /\ faults = 0
      /\ late_poll = [s \in Subscribers |-> FALSE]
      /\ connection = [s \in Subscribers |-> None]
      /\ accepted = [s \in Subscribers |-> {}]
  BY Zenon DEF Init, Pub!Init
<1>2. <<>> \in Seq(Pub!Messages)
  OBVIOUS
<1>3. \A s \in Subscribers : Replied(s) = <<>>
  BY <1>1, Zenon DEF Replied
<1>4. MailTypes
  BY <1>1, <1>2, <1>3, Zenon DEF MailTypes
<1>5. NoStalePoll
  BY <1>1, PubsubAssumption, Zenon DEF NoStalePoll
<1>6. AllArrive
  BY <1>1, Zenon DEF AllArrive
<1> QED
  BY <1>4, <1>5, <1>6, Zenon DEF DeliveryInv

LEMMA DeliveryStep == PollInv /\ DeliveryInv /\ [Next]_vars => DeliveryInv'
<1> SUFFICES ASSUME PollInv, DeliveryInv, [Next]_vars PROVE DeliveryInv'
  BY Zenon
<1>1. ASSUME NEW s \in Subscribers, NEW c \in Channels, NEW e \in Entities,
             Subscribe(s, c, e) \/ Unsubscribe(s, c, e)
      PROVE  DeliveryInv'
  BY <1>1, DeliveryQuiet DEF Subscribe, Unsubscribe, pubVars, history
<1>2. ASSUME NEW s \in Subscribers, HandleBatchReply(s) \/ TimePasses(s) PROVE DeliveryInv'
  <2>1. CASE HandleBatchReply(s)
    BY <2>1, DeliveryQuiet, Zenon DEF HandleBatchReply, pubVars, history
  <2>2. CASE TimePasses(s)
    BY <2>2, DeliveryQuiet, Zenon DEF TimePasses, pubVars, subVars, history
  <2> QED
    BY <1>2, <2>1, <2>2, Zenon
<1>3. ASSUME NEW s \in Subscribers, HandleCommand(s) PROVE DeliveryInv'
  BY <1>3, DeliveryQuiet, Zenon DEF HandleCommand, Pub!RegisterSubscription,
     Pub!UnregisterSubscription, history
<1>4. ASSUME PublisherDies \/ UNCHANGED vars PROVE DeliveryInv'
  BY <1>4, DeliveryQuiet DEF PublisherDies, vars, pubVars, subVars, history
<1> QED
  BY <1>1, <1>2, <1>3, <1>4, HandleReplyCarries, PollFailureCarries, HandlePollCarries,
     HandleLatePollCarries, SubscriberDiesCarries, PublishCarries, CheckDeadCarries DEF Next

\* What the publisher queues for a subscriber reaches it, or is emptied to keep a
\* buffer small: taking batches out of mailboxes, answering polls, timeouts and
\* subscriptions that come and go lose nothing while polls do not fail.
THEOREM NothingIsLost == Spec => []NothingLost
<1>1. DeliveryInv => NothingLost
  <2> SUFFICES ASSUME DeliveryInv, alive, faults = 0,
                      NEW s \in Subscribers \ (dead \cup forgotten), NEW id \in accepted[s]
               PROVE  Has(Incoming(s), id) \/ \E m \in cleared : m.id = id
    BY Zenon DEF NothingLost, Has
  <2>1. Coming(s, id) \/ Emptied(id)
    BY Zenon DEF DeliveryInv, AllArrive
  <2>2. /\ received[s] \in Seq(Pub!Messages) /\ Replied(s) \in Seq(Pub!Messages)
        /\ mailbox[s] \in Seq(Pub!Messages)
    BY Zenon DEF DeliveryInv, MailTypes
  <2>3. received[s] \o Replied(s) \in Seq(Pub!Messages)
    BY <2>2, Joined, Zenon
  <2>4. Has(received[s] \o Replied(s), id) <=> Has(received[s], id) \/ Has(Replied(s), id)
    BY <2>2, HasConcat
  <2>5. Has(received[s] \o Replied(s) \o mailbox[s], id) <=>
           Has(received[s] \o Replied(s), id) \/ Has(mailbox[s], id)
    BY <2>2, <2>3, HasConcat, Zenon
  <2>6. Incoming(s) = received[s] \o Replied(s) \o mailbox[s]
    BY DEF Incoming, Replied
  <2> QED
    BY <2>1, <2>4, <2>5, <2>6, Zenon DEF Coming, Emptied
<1>2. Spec => []DeliveryInv
  BY DeliveryInit, DeliveryStep, PollInvariance, PTL DEF Spec
<1> QED
  BY <1>1, <1>2, PTL

============================================================================
