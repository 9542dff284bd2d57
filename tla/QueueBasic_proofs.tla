--------------------------- MODULE QueueBasic_proofs ---------------------------
(***************************************************************************)
(* Theorems about QueueBasic, for every set of channels and consumers,     *)
(* every queue profile and every bound.                                    *)
(***************************************************************************)
EXTENDS QueueBasic, FiniteSetTheorems, TLAPS

-----------------------------------------------------------------------------
(* The operators on sequences                                              *)

\* A function on 1 .. n with values in S is a sequence over S of length n.
LEMMA FunctionIsSeq ==
    ASSUME NEW S, NEW n \in Nat, NEW f \in [1 .. n -> S]
    PROVE  f \in Seq(S) /\ Len(f) = n
OBVIOUS

\* Taking one element off a sequence keeps its type and shortens it by one.
LEMMA WithoutType ==
    ASSUME NEW S, NEW s \in Seq(S), NEW i \in 1 .. Len(s)
    PROVE  /\ Without(s, i) \in Seq(S)
           /\ Len(Without(s, i)) = Len(s) - 1
<1>1. Len(s) - 1 \in Nat
  OBVIOUS
<1>2. Without(s, i) \in [1 .. (Len(s) - 1) -> S]
  BY DEF Without
<1> QED
  BY <1>1, <1>2, FunctionIsSeq

\* Dropping an element from a list of consumers leaves a list of consumers.
LEMMA DropType ==
    ASSUME NEW S, NEW s \in Seq(S), NEW c
    PROVE  Drop(s, c) \in Seq(S)
<1>1. CASE Occurs(s, c)
  <2>1. (CHOOSE i \in 1 .. Len(s) : s[i] = c) \in 1 .. Len(s)
    BY <1>1 DEF Occurs
  <2> QED
    BY <1>1, <2>1, WithoutType DEF Drop
<1>2. CASE ~Occurs(s, c)
  BY <1>2 DEF Drop
<1> QED
  BY <1>1, <1>2

-----------------------------------------------------------------------------
(* Type correctness                                                        *)

\* The methods that name nobody are methods of the queue.
LEMMA MailType ==
    /\ Method("purge", Nobody, FALSE) \in Mail
    /\ DispatchMethod \in Mail /\ SelfDestructMethod \in Mail
BY DEF Mail, Method, DispatchMethod, SelfDestructMethod

\* The methods posted for all consumers of a channel are methods of the queue.
LEMMA PerConsumerType ==
    ASSUME TypeOK, NEW ch \in Channels, NEW m \in {"dispatch", "ack", "cancel"}
    PROVE  PerConsumer(ch, m) \in Seq(Mail)
<1>1. by_channel[ch] \in Seq(Consumers)
  BY DEF TypeOK, ChannelTypeOK
<1>2. PerConsumer(ch, m) \in [1 .. Len(by_channel[ch]) -> Mail]
  <2>1. ASSUME NEW k \in 1 .. Len(by_channel[ch])
        PROVE  /\ Method("ack", by_channel[ch][k], FALSE) \in Mail
               /\ Method("cancel", by_channel[ch][k], FALSE) \in Mail
    <3>1. by_channel[ch][k] \in Consumers
      BY <1>1
    <3> QED
      BY <3>1 DEF Mail, Method
  <2>2. DispatchMethod \in Mail
    BY MailType
  <2> QED
    BY <2>1, <2>2 DEF PerConsumer
<1> QED
  BY <1>1, <1>2, FunctionIsSeq

\* The method at the head of the mailbox names whom its kind says it names.
LEMMA HeadType ==
    ASSUME TypeOK, NEW m, Take(m)
    PROVE  /\ Tail(mailbox) \in Seq(Mail)
           /\ m \in {"publish", "get"} => Head(mailbox).who \in Channels
           /\ m \in {"consume", "cancel", "ack"} => Head(mailbox).who \in Consumers
           /\ m \in {"publish", "get", "consume"} => Head(mailbox).flag \in BOOLEAN
<1>1. Head(mailbox) \in Mail /\ Tail(mailbox) \in Seq(Mail)
  BY DEF TypeOK, Take
<1> QED
  BY <1>1 DEF Take, Mail

\* The initial state is well typed, and no delivery is under way in it.
LEMMA TypeInit == Init => TypeOK /\ SpendCovered
<1> SUFFICES ASSUME Init PROVE TypeOK /\ SpendCovered
  OBVIOUS
<1>1. NoContent \in Content
  BY DEF NoContent, Content
<1>2. TypeOK
  <2>1. locked \in BOOLEAN
    BY DEF Init
  <2>2. active \in [Channels -> BOOLEAN] /\ paused \in [Consumers -> BOOLEAN]
    BY DEF Init
  <2>3. pending \in [Consumers -> Content] /\ hand \in Content
    BY <1>1 DEF Init
  <2>4. by_channel \in [Channels -> Seq(Consumers)]
    BY DEF Init
  <2>5. mailbox \in Seq(Mail) /\ content_list \in Seq(Content) /\ consumer_list \in Seq(Consumers)
    BY DEF Init
  <2> QED
    BY <2>1, <2>2, <2>3, <2>4, <2>5 DEF Init, TypeOK, QueueTypeOK, LoopTypeOK, ConsumerTypeOK,
        ChannelTypeOK, HistoryTypeOK
<1>3. SpendCovered
  BY DEF Init, SpendCovered
<1> QED
  BY <1>2, <1>3

\* Methods posted by the clients and the exchanges.
LEMMA ClientType ==
    ASSUME TypeOK, SpendCovered,
           PostPublish \/ PostGet \/ PostPurge \/ PostDelete
    PROVE  TypeOK' /\ SpendCovered'
<1> USE DEF TypeOK
<1>1. UNCHANGED <<queueVars, loopVars, consumerVars, channelVars, historyVars>>
  BY DEF PostPublish, PostGet, PostPurge, PostDelete
<1>2. mailbox' \in Seq(Mail)
  <2>1. CASE PostPublish
    <3>1. PICK ch \in Channels, f \in BOOLEAN :
            mailbox' = Append(mailbox, Method("publish", ch, f))
      BY <2>1 DEF PostPublish, Post
    <3>2. Method("publish", ch, f) \in Mail
      BY DEF Mail, Method
    <3> QED
      BY <3>1, <3>2
  <2>2. CASE PostGet
    <3>1. PICK ch \in Channels : mailbox' = Append(mailbox, Method("get", ch, FALSE))
      BY <2>2 DEF PostGet, Post
    <3>2. Method("get", ch, FALSE) \in Mail
      BY DEF Mail, Method
    <3> QED
      BY <3>1, <3>2 DEF Method
  <2>3. CASE PostPurge
    BY <2>3, MailType DEF PostPurge, Post, Method
  <2>4. CASE PostDelete
    BY <2>4, MailType DEF PostDelete, Post
  <2> QED
    BY <2>1, <2>2, <2>3, <2>4
<1>3. QueueTypeOK' /\ LoopTypeOK' /\ ConsumerTypeOK' /\ ChannelTypeOK' /\ HistoryTypeOK'
  BY <1>1 DEF QueueTypeOK, LoopTypeOK, ConsumerTypeOK, ChannelTypeOK, HistoryTypeOK,
              queueVars, loopVars, consumerVars, channelVars, historyVars
<1>4. SpendCovered'
  BY <1>1 DEF SpendCovered, loopVars, channelVars
<1> QED
  BY <1>2, <1>3, <1>4

\* The channel's thread and the connection's thread.
LEMMA ChannelType ==
    ASSUME TypeOK, SpendCovered, NEW ch \in Channels,
           \/ ChannelAck(ch) \/ ChannelDestroy(ch) \/ ChannelUnlink(ch)
           \/ SendContent(ch) \/ EarnTest(ch)
           \/ \E on \in BOOLEAN : ChannelFlow(ch, on)
    PROVE  TypeOK' /\ SpendCovered'
<1> USE DEF TypeOK
<1>1. UNCHANGED <<queueVars, loopVars, historyVars, pending, chan_cancel, created, crediting>>
  BY DEF ChannelAck, ChannelDestroy, ChannelUnlink, SendContent, EarnTest, ChannelFlow,
         channelVars, consumerVars
<1>2. mailbox' \in Seq(Mail)
  <2>1. /\ mailbox \o PerConsumer(ch, "ack") \in Seq(Mail)
        /\ mailbox \o PerConsumer(ch, "cancel") \in Seq(Mail)
        /\ Wake(ch) \in Seq(Mail)
    BY PerConsumerType DEF Wake
  <2> QED
    BY <2>1 DEF ChannelAck, ChannelDestroy, ChannelUnlink, SendContent, EarnTest,
                ChannelFlow, mailVars
<1>3. QueueTypeOK' /\ LoopTypeOK' /\ HistoryTypeOK'
  BY <1>1 DEF QueueTypeOK, LoopTypeOK, HistoryTypeOK, queueVars, loopVars, historyVars
<1>4. ConsumerTypeOK'
  <2>1. CASE UNCHANGED consumerVars
    BY <2>1 DEF ConsumerTypeOK, consumerVars
  <2>2. CASE \E on \in BOOLEAN : ChannelFlow(ch, on)
    <3>1. PICK on \in BOOLEAN : ChannelFlow(ch, on)
      BY <2>2
    <3>2. paused' \in [Consumers -> BOOLEAN]
      BY <3>1 DEF ChannelFlow, ConsumerTypeOK
    <3> QED
      BY <1>1, <3>2 DEF ConsumerTypeOK
  <2> QED
    BY <2>1, <2>2 DEF ChannelAck, ChannelDestroy, ChannelUnlink, SendContent, EarnTest
<1>5. ChannelTypeOK'
  <2>1. CASE ChannelAck(ch)
    BY <2>1 DEF ChannelAck, ChannelTypeOK, channelVars
  <2>2. CASE ChannelDestroy(ch)
    BY <2>2 DEF ChannelDestroy, ChannelTypeOK
  <2>3. CASE ChannelUnlink(ch)
    BY <2>3 DEF ChannelUnlink, ChannelTypeOK
  <2>4. CASE SendContent(ch)
    BY <2>4 DEF SendContent, ChannelTypeOK
  <2>5. CASE EarnTest(ch)
    BY <2>5 DEF EarnTest, ChannelTypeOK
  <2>6. CASE \E on \in BOOLEAN : ChannelFlow(ch, on)
    BY <2>6 DEF ChannelFlow, ChannelTypeOK
  <2> QED
    BY <2>1, <2>2, <2>3, <2>4, <2>5, <2>6
<1>6. SpendCovered'
  <2>1. \A d \in Channels : conn'[d] = "open" => conn[d] = "open" /\ credit'[d] >= credit[d]
    <3>1. CASE UNCHANGED <<conn, credit>>
      BY <3>1 DEF ChannelTypeOK
    <3>2. CASE ChannelDestroy(ch) \/ ChannelUnlink(ch)
      <4>1. \A d \in Channels : conn'[d] = "open" => conn[d] = "open" /\ credit'[d] = credit[d]
        BY <3>2 DEF ChannelDestroy, ChannelUnlink, ChannelTypeOK
      <4> QED
        BY <4>1 DEF ChannelTypeOK
    <3>3. CASE SendContent(ch)
      BY <3>3 DEF SendContent, ChannelTypeOK
    <3> QED
      BY <3>1, <3>2, <3>3 DEF ChannelAck, EarnTest, ChannelFlow, channelVars
  <2> QED
    BY <1>1, <1>5, <2>1, ConstantsAssumption DEF SpendCovered, loopVars, ChannelTypeOK
<1> QED
  BY <1>2, <1>3, <1>4, <1>5, <1>6

\* The channel's consumers: created, cancelled by the client, refused by the queue.
LEMMA ChannelConsumerType ==
    ASSUME TypeOK, SpendCovered, NEW c \in Consumers,
           ChannelCredits(c) \/ ChannelCancel(c) \/ ChannelCancelled(c)
    PROVE  TypeOK' /\ SpendCovered'
<1> USE DEF TypeOK
<1>1. UNCHANGED <<queueVars, loopVars, consumerVars, historyVars, active, conn, flow_queue, earning>>
  BY DEF ChannelCredits, ChannelConsume, ChannelFindsZero, ChannelJoins, ChannelCancel,
         ChannelCancelled
<1>2. ChannelOf[c] \in Channels /\ Window \in Nat /\ Window >= 1
  BY ConstantsAssumption
<1>7. \/ credit' = credit
      \/ credit' = [credit EXCEPT ![ChannelOf[c]] = Window]
      \/ credit' = [credit EXCEPT ![ChannelOf[c]] = 1]
  BY DEF ChannelCredits, ChannelConsume, ChannelFindsZero, ChannelJoins, ChannelCancel,
         ChannelCancelled
<1>3. mailbox' \in Seq(Mail)
  <2>1. CASE ChannelJoins(c)
    <3>1. active[ChannelOf[c]] \in BOOLEAN
      BY <1>2 DEF ChannelTypeOK
    <3>2. Method("consume", c, active[ChannelOf[c]]) \in Mail
      BY <3>1 DEF Mail, Method
    <3> QED
      BY <2>1, <3>2 DEF ChannelJoins, Post, Method
  <2>2. CASE ChannelCancel(c)
    <3>1. Method("cancel", c, TRUE) \in Mail
      BY DEF Mail, Method
    <3> QED
      BY <2>2, <3>1 DEF ChannelCancel, Post, Method
  <2>3. CASE ChannelCancelled(c)
    BY <2>3 DEF ChannelCancelled, mailVars
  <2>4. CASE ChannelConsume(c) \/ ChannelFindsZero(c)
    BY <2>4 DEF ChannelConsume, ChannelFindsZero, mailVars
  <2> QED
    BY <2>1, <2>2, <2>3, <2>4 DEF ChannelCredits
<1>4. ChannelTypeOK'
  <2>1. by_channel' \in [Channels -> Seq(Consumers)]
    <3>1. by_channel[ChannelOf[c]] \in Seq(Consumers)
      BY <1>2 DEF ChannelTypeOK
    <3>2. Drop(by_channel[ChannelOf[c]], c) \in Seq(Consumers)
      BY <3>1, DropType
    <3>3. by_channel \in [Channels -> Seq(Consumers)]
      BY DEF ChannelTypeOK
    <3>4. Append(by_channel[ChannelOf[c]], c) \in Seq(Consumers)
      BY <3>1
    <3>5. \/ by_channel' = [by_channel EXCEPT ![ChannelOf[c]] = Append(by_channel[ChannelOf[c]], c)]
          \/ by_channel' = [by_channel EXCEPT ![ChannelOf[c]] = Drop(by_channel[ChannelOf[c]], c)]
          \/ by_channel' = by_channel
      BY DEF ChannelCredits, ChannelConsume, ChannelFindsZero, ChannelJoins, ChannelCancel,
             ChannelCancelled
    <3> QED
      BY <3>2, <3>3, <3>4, <3>5
  <2>2. credit' \in [Channels -> Nat]
    <3>1. credit \in [Channels -> Nat]
      BY DEF ChannelTypeOK
    <3> QED
      BY <1>2, <1>7, <3>1
  <2>3. chan_cancel' \subseteq Consumers /\ created' \subseteq Consumers
    BY DEF ChannelCredits, ChannelConsume, ChannelFindsZero, ChannelJoins, ChannelCancel,
           ChannelCancelled, ChannelTypeOK
  <2>4. crediting' \in [Consumers -> {"no", "set", "zero"}]
    BY DEF ChannelCredits, ChannelConsume, ChannelFindsZero, ChannelJoins, ChannelCancel,
           ChannelCancelled, ChannelTypeOK
  <2> QED
    BY <1>1, <2>1, <2>2, <2>3, <2>4 DEF ChannelTypeOK
<1>5. QueueTypeOK' /\ LoopTypeOK' /\ ConsumerTypeOK' /\ HistoryTypeOK'
  BY <1>1 DEF QueueTypeOK, LoopTypeOK, ConsumerTypeOK, HistoryTypeOK,
              queueVars, loopVars, consumerVars, historyVars
<1>6. SpendCovered'
  <2>1. \A d \in Channels : credit'[d] >= 1 \/ credit'[d] = credit[d]
    BY <1>2, <1>7 DEF ChannelTypeOK
  <2> QED
    BY <1>1, <1>4, <2>1, ConstantsAssumption DEF SpendCovered, loopVars, ChannelTypeOK
<1> QED
  BY <1>3, <1>4, <1>5, <1>6

\* The head of a non-empty list of contents is a content, and so are the rest.
LEMMA ContentHead ==
    ASSUME TypeOK, content_list # <<>>
    PROVE  /\ Head(content_list) \in Content
           /\ Head(content_list).id \in Nat
           /\ Tail(content_list) \in Seq(Content)
<1>1. content_list \in Seq(Content)
  BY DEF TypeOK, QueueTypeOK
<1>2. Head(content_list) \in Content /\ Tail(content_list) \in Seq(Content)
  BY <1>1
<1>3. Head(content_list).id \in Nat
  BY <1>2 DEF Content
<1> QED
  BY <1>2, <1>3

\* The number of each content in the list is a number.
LEMMA ContentId ==
    ASSUME TypeOK, NEW i \in 1 .. Len(content_list)
    PROVE  content_list[i] \in Content /\ content_list[i].id \in Nat
<1>1. content_list \in Seq(Content)
  BY DEF TypeOK, QueueTypeOK
<1>2. content_list[i] \in Content
  BY <1>1
<1> QED
  BY <1>2 DEF Content

\* The handler of publish.
LEMMA PublishType ==
    ASSUME TypeOK, SpendCovered, HandlePublish
    PROVE  TypeOK' /\ SpendCovered'
<1> USE DEF TypeOK
<1> DEFINE who == Head(mailbox).who
           content == [id |-> accepted + 1, producer |-> who]
           kept == IF Trimming THEN Tail(content_list) ELSE content_list
<1>1. who \in Channels /\ Tail(mailbox) \in Seq(Mail)
  BY HeadType DEF HandlePublish
<1>2. accepted \in Nat /\ content_list \in Seq(Content)
  BY DEF HistoryTypeOK, QueueTypeOK
<1>3. content \in Content
  BY <1>1, <1>2 DEF Content
<1>4. Trimming => content_list # <<>>
  BY <1>2, ConstantsAssumption DEF Trimming, Over
<1>5. kept \in Seq(Content)
  BY <1>2, <1>4, ContentHead
<1>6. mailbox' \in Seq(Mail)
  BY <1>1, MailType DEF HandlePublish
<1>7. QueueTypeOK'
  <2>1. content_list' = kept \/ content_list' = Append(kept, content)
    BY DEF HandlePublish
  <2>2. Append(kept, content) \in Seq(Content)
    <3> HIDE DEF kept, content
    <3> QED
      BY <1>3, <1>5
  <2>3. UNCHANGED <<consumer_list, locked, timers>>
    BY DEF HandlePublish
  <2>4. content_list' \in Seq(Content)
    BY <1>5, <2>1, <2>2
  <2> QED
    BY <2>3, <2>4 DEF QueueTypeOK
<1>8. LoopTypeOK' /\ ConsumerTypeOK'
  BY DEF HandlePublish, LoopTypeOK, ConsumerTypeOK, consumerVars
<1>9. ChannelTypeOK'
  <2>1. flow_queue' \in [Channels -> Nat]
    BY <1>1 DEF HandlePublish, ChannelTypeOK
  <2>2. UNCHANGED <<active, credit, conn, earning, by_channel, chan_cancel, created, crediting>>
    BY DEF HandlePublish
  <2> QED
    BY <2>1, <2>2 DEF ChannelTypeOK
<1>10. HistoryTypeOK'
  <2>1. UNCHANGED <<sent, lost>> /\ accepted' = accepted + 1
    BY DEF HandlePublish
  <2>2. settled' \subseteq Nat
    <3>1. Trimming => Head(content_list).id \in Nat
      BY <1>4, ContentHead
    <3>2. accepted + 1 \in Nat
      BY <1>2
    <3>3. settled' \subseteq settled \cup (IF Trimming THEN {Head(content_list).id} ELSE {})
                               \cup {accepted + 1}
      BY DEF HandlePublish
    <3> QED
      BY <3>1, <3>2, <3>3 DEF HistoryTypeOK
  <2> QED
    BY <2>1, <2>2 DEF HistoryTypeOK
<1>11. SpendCovered'
  BY DEF HandlePublish, SpendCovered
<1> QED
  BY <1>6, <1>7, <1>8, <1>9, <1>10, <1>11

\* The handlers of get and purge.
LEMMA GetPurgeType ==
    ASSUME TypeOK, SpendCovered, HandleGet \/ HandlePurge
    PROVE  TypeOK' /\ SpendCovered'
<1> USE DEF TypeOK
<1>1. UNCHANGED <<consumer_list, locked, timers, loopVars, consumerVars, active, credit, conn,
                  earning, by_channel, chan_cancel, created, crediting, accepted>>
  BY DEF HandleGet, HandlePurge, channelVars
<1>2. mailbox' \in Seq(Mail)
  BY HeadType DEF HandleGet, HandlePurge
<1>3. content_list' \in Seq(Content)
  <2>1. \/ content_list' = content_list
        \/ content_list # <<>> /\ content_list' = Tail(content_list)
        \/ content_list' = <<>>
    BY DEF HandleGet, HandlePurge
  <2>2. content_list \in Seq(Content) /\ <<>> \in Seq(Content)
    BY DEF QueueTypeOK
  <2> QED
    BY <2>1, <2>2, ContentHead
<1>4. QueueTypeOK' /\ LoopTypeOK' /\ ConsumerTypeOK'
  BY <1>1, <1>3 DEF QueueTypeOK, LoopTypeOK, ConsumerTypeOK, loopVars, consumerVars
<1>5. flow_queue' \in [Channels -> Nat]
  <2>1. CASE HandleGet
    <3>1. Head(mailbox).who \in Channels
      BY <2>1, HeadType DEF HandleGet
    <3>2. \/ flow_queue' = flow_queue
          \/ flow_queue' = [flow_queue EXCEPT ![Head(mailbox).who] = @ + 1]
      BY <2>1 DEF HandleGet
    <3>3. flow_queue \in [Channels -> Nat]
      BY DEF ChannelTypeOK
    <3>4. [flow_queue EXCEPT ![Head(mailbox).who] = @ + 1] \in [Channels -> Nat]
      BY <3>1, <3>3
    <3> QED
      BY <3>2, <3>3, <3>4
  <2>2. CASE HandlePurge
    BY <2>2 DEF HandlePurge, channelVars, ChannelTypeOK
  <2> QED
    BY <2>1, <2>2
<1>6. ChannelTypeOK'
  BY <1>1, <1>5 DEF ChannelTypeOK
<1>7. HistoryTypeOK'
  <2>1. CASE HandleGet
    <3>1. content_list # <<>> => Head(content_list).id \in Nat
      BY ContentHead
    <3> QED
      BY <1>1, <2>1, <3>1 DEF HandleGet, HistoryTypeOK
  <2>2. CASE HandlePurge
    <3>1. \A i \in 1 .. Len(content_list) : content_list[i].id \in Nat
      BY ContentId
    <3> QED
      BY <2>2, <3>1 DEF HandlePurge, HistoryTypeOK
  <2> QED
    BY <2>1, <2>2
<1>8. SpendCovered'
  BY <1>1 DEF SpendCovered, loopVars
<1> QED
  BY <1>2, <1>4, <1>6, <1>7, <1>8

\* The handler of consume.
LEMMA ConsumeType ==
    ASSUME TypeOK, SpendCovered, HandleConsume
    PROVE  TypeOK' /\ SpendCovered'
<1> USE DEF TypeOK
<1> DEFINE c == Head(mailbox).who
<1>1. /\ c \in Consumers /\ Tail(mailbox) \in Seq(Mail)
      /\ Head(mailbox).flag \in BOOLEAN
  BY HeadType DEF HandleConsume
<1>2. UNCHANGED <<content_list, timers, loopVars, pending, historyVars,
                  active, credit, conn, flow_queue, earning, by_channel, created, crediting>>
  BY DEF HandleConsume
<1>3. mailbox' \in Seq(Mail)
  BY <1>1, MailType DEF HandleConsume
<1>4. QueueTypeOK'
  <2>1. consumer_list' \in Seq(Consumers)
    <3>1. consumer_list' = consumer_list \/ consumer_list' = Append(consumer_list, c)
      BY DEF HandleConsume
    <3> QED
      BY <1>1, <3>1 DEF QueueTypeOK
  <2>2. locked' \in BOOLEAN
    BY DEF HandleConsume, QueueTypeOK
  <2> QED
    BY <1>2, <2>1, <2>2 DEF QueueTypeOK
<1>5. paused' \in [Consumers -> BOOLEAN]
  BY <1>1 DEF HandleConsume, ConsumerTypeOK
<1>6. chan_cancel' \subseteq Consumers
  BY <1>1 DEF HandleConsume, ChannelTypeOK
<1>7. LoopTypeOK' /\ HistoryTypeOK' /\ SpendCovered'
  BY <1>2 DEF LoopTypeOK, HistoryTypeOK, SpendCovered, loopVars, historyVars
<1>8. ConsumerTypeOK' /\ ChannelTypeOK'
  BY <1>2, <1>5, <1>6 DEF ConsumerTypeOK, ChannelTypeOK
<1> QED
  BY <1>3, <1>4, <1>7, <1>8

\* The handlers of dispatch, ack, cancel and self-destruct.
LEMMA HandlerType ==
    ASSUME TypeOK, SpendCovered,
           HandleDispatch \/ HandleAck \/ HandleCancel \/ HandleSelfDestruct
    PROVE  TypeOK' /\ SpendCovered'
<1> USE DEF TypeOK
<1>1. UNCHANGED <<consumer_list, locked, timers, hand, chosen, paused, channelVars,
                  accepted, sent, lost>>
  BY DEF HandleDispatch, HandleAck, HandleCancel, HandleSelfDestruct,
         queueVars, consumerVars, historyVars
<1>2. mailbox' \in Seq(Mail)
  BY HeadType DEF HandleDispatch, HandleAck, HandleCancel, HandleSelfDestruct
<1>3. NoContent \in Content
  BY DEF NoContent, Content
<1>4. \A d \in Consumers : pending[d] \in Content /\ pending[d].id \in Nat
  BY DEF ConsumerTypeOK, Content
<1>5. QueueTypeOK'
  <2>1. CASE UNCHANGED content_list
    BY <1>1, <2>1 DEF QueueTypeOK
  <2>2. CASE HandleCancel /\ content_list' # content_list
    <3>1. Head(mailbox).who \in Consumers
      BY <2>2, HeadType DEF HandleCancel
    <3>2. content_list' = <<pending[Head(mailbox).who]>> \o content_list
      BY <2>2 DEF HandleCancel, Requeued
    <3>3. pending[Head(mailbox).who] \in Content /\ content_list \in Seq(Content)
      BY <1>4, <3>1 DEF QueueTypeOK
    <3>4. content_list' \in Seq(Content)
      BY <3>2, <3>3
    <3> QED
      BY <1>1, <3>4 DEF QueueTypeOK
  <2> QED
    BY <2>1, <2>2 DEF HandleDispatch, HandleAck, HandleSelfDestruct, queueVars
<1>6. LoopTypeOK' /\ SpendCovered'
  <2>1. CASE HandleDispatch \/ HandleSelfDestruct
    BY <1>1, <2>1 DEF HandleDispatch, HandleSelfDestruct, LoopTypeOK, SpendCovered
  <2>2. CASE HandleAck
    BY <1>1, <2>2 DEF HandleAck, Take, LoopTypeOK, SpendCovered, loopVars
  <2>3. CASE HandleCancel
    <3>1. cancelling' \in Consumers
      BY <2>3, HeadType DEF HandleCancel
    <3>2. step' = "find" \/ step' = "finish"
      BY <2>3 DEF HandleCancel
    <3> QED
      BY <1>1, <3>1, <3>2 DEF LoopTypeOK, SpendCovered
  <2> QED
    BY <2>1, <2>2, <2>3
<1>7. ConsumerTypeOK' /\ HistoryTypeOK'
  <2>1. CASE HandleAck
    <3>1. Head(mailbox).who \in Consumers
      BY <2>1, HeadType DEF HandleAck
    <3>2. Released(Head(mailbox).who) \in [Consumers -> Content]
      BY <1>3, <3>1 DEF Released, ConsumerTypeOK
    <3>3. pending' \in [Consumers -> Content]
      BY <2>1, <3>2 DEF HandleAck, ConsumerTypeOK
    <3>4. settled' \subseteq Nat
      <4>1. settled' = settled \/ settled' = settled \cup {pending[Head(mailbox).who].id}
        BY <2>1 DEF HandleAck
      <4>2. pending[Head(mailbox).who].id \in Nat
        BY <1>4, <3>1
      <4> QED
        BY <4>1, <4>2 DEF HistoryTypeOK
    <3> QED
      BY <1>1, <3>3, <3>4 DEF ConsumerTypeOK, HistoryTypeOK
  <2>2. CASE UNCHANGED <<pending, settled>>
    BY <1>1, <2>2 DEF ConsumerTypeOK, HistoryTypeOK
  <2> QED
    BY <2>1, <2>2 DEF HandleDispatch, HandleCancel, HandleSelfDestruct, consumerVars, historyVars
<1>8. ChannelTypeOK'
  BY <1>1 DEF ChannelTypeOK, channelVars
<1> QED
  BY <1>2, <1>5, <1>6, <1>7, <1>8

\* The end of a cancel, the auto-delete timer and the stopping of the queue.
LEMMA EndType ==
    ASSUME TypeOK, SpendCovered,
           CancelFinish \/ AutoDeleteEvent \/ StopConsumer \/ StopFinish
    PROVE  TypeOK' /\ SpendCovered'
<1> USE DEF TypeOK
<1>1. UNCHANGED <<content_list, hand, chosen, paused, active, credit, conn, flow_queue, earning,
                  chan_cancel, created, crediting, accepted, sent>>
  BY DEF CancelFinish, AutoDeleteEvent, StopConsumer, StopFinish,
         queueVars, loopVars, consumerVars, channelVars, historyVars
<1>2. mailbox' \in Seq(Mail)
  BY MailType DEF CancelFinish, AutoDeleteEvent, StopConsumer, StopFinish, Post, mailVars
<1>3. NoContent \in Content
  BY DEF NoContent, Content
<1>4. \A d \in Consumers :
        /\ pending[d] \in Content /\ pending[d].id \in Nat
        /\ Released(d) \in [Consumers -> Content]
  BY <1>3 DEF ConsumerTypeOK, Content, Released
<1>5. CASE CancelFinish
  <2>1. cancelling \in Consumers
    BY <1>5 DEF CancelFinish, SpendCovered
  <2>2. consumer_list' \in Seq(Consumers)
    BY <1>5, DropType DEF CancelFinish, QueueTypeOK
  <2>3. locked' \in BOOLEAN
    BY <1>5 DEF CancelFinish
  <2>4. timers' \in Nat
    BY <1>5 DEF CancelFinish, QueueTypeOK
  <2>5. QueueTypeOK'
    BY <1>1, <2>2, <2>3, <2>4 DEF QueueTypeOK
  <2>6. ConsumerTypeOK' /\ LoopTypeOK' /\ SpendCovered'
    BY <1>1, <1>4, <1>5, <2>1 DEF CancelFinish, ConsumerTypeOK, LoopTypeOK, SpendCovered
  <2>7. LostBy(cancelling) \subseteq Nat
    BY <1>4, <2>1 DEF LostBy
  <2>8. HistoryTypeOK'
    BY <1>1, <1>5, <2>7 DEF CancelFinish, HistoryTypeOK
  <2>9. ChannelTypeOK'
    BY <1>5 DEF CancelFinish, ChannelTypeOK, channelVars
  <2> QED
    BY <1>2, <2>5, <2>6, <2>8, <2>9
<1>6. CASE AutoDeleteEvent
  BY <1>2, <1>6 DEF AutoDeleteEvent, QueueTypeOK, LoopTypeOK, ConsumerTypeOK, ChannelTypeOK,
                    HistoryTypeOK, SpendCovered, loopVars, consumerVars, channelVars, historyVars
<1>7. CASE StopConsumer
  <2>1. Head(consumer_list) \in Consumers /\ Tail(consumer_list) \in Seq(Consumers)
    BY <1>7 DEF StopConsumer, Stopped, QueueTypeOK
  <2>2. QueueTypeOK'
    BY <1>1, <1>7, <2>1 DEF StopConsumer, QueueTypeOK
  <2>3. ConsumerTypeOK' /\ LoopTypeOK' /\ SpendCovered'
    BY <1>1, <1>4, <1>7, <2>1 DEF StopConsumer, ConsumerTypeOK, LoopTypeOK, SpendCovered, loopVars
  <2>4. settled' \subseteq Nat /\ lost' = lost
    BY <1>4, <1>7, <2>1 DEF StopConsumer, HistoryTypeOK
  <2>5. by_channel' \in [Channels -> Seq(Consumers)]
    <3> DEFINE ch == ChannelOf[Head(consumer_list)]
    <3>1. ch \in Channels
      BY <2>1, ConstantsAssumption
    <3>2. by_channel \in [Channels -> Seq(Consumers)]
      BY DEF ChannelTypeOK
    <3>3. Drop(by_channel[ch], Head(consumer_list)) \in Seq(Consumers)
      BY <3>1, <3>2, DropType
    <3>4. by_channel' = [by_channel EXCEPT ![ch] = Drop(by_channel[ch], Head(consumer_list))]
      BY <1>7 DEF StopConsumer
    <3> QED
      BY <3>2, <3>3, <3>4
  <2> QED
    BY <1>1, <1>2, <2>2, <2>3, <2>4, <2>5 DEF HistoryTypeOK, ChannelTypeOK
<1>8. CASE StopFinish
  BY <1>1, <1>2, <1>8 DEF StopFinish, QueueTypeOK, LoopTypeOK, ConsumerTypeOK, ChannelTypeOK,
        HistoryTypeOK, SpendCovered, queueVars, consumerVars, channelVars, historyVars
<1> QED
  BY <1>5, <1>6, <1>7, <1>8

\* The dispatch loop: choosing a consumer for the next content.
LEMMA FindType ==
    ASSUME TypeOK, SpendCovered, DispatchFind
    PROVE  TypeOK' /\ SpendCovered'
<1> USE DEF TypeOK
<1>1. UNCHANGED <<mailVars, consumer_list, locked, timers, cancelling, consumerVars,
                  channelVars, accepted, sent, lost>>
  BY DEF DispatchFind
<1>2. mailbox' \in Seq(Mail) /\ ConsumerTypeOK' /\ ChannelTypeOK'
  BY <1>1 DEF mailVars, ConsumerTypeOK, ChannelTypeOK, consumerVars, channelVars
<1>3. QueueTypeOK'
  <2>1. \/ content_list' = content_list
        \/ content_list # <<>> /\ content_list' = Tail(content_list)
    BY DEF DispatchFind
  <2>2. content_list' \in Seq(Content)
    BY <2>1, ContentHead DEF QueueTypeOK
  <2> QED
    BY <1>1, <2>2 DEF QueueTypeOK
<1>4. HistoryTypeOK'
  <2>1. \/ settled' = settled
        \/ content_list # <<>> /\ settled' = settled \cup {Head(content_list).id}
    BY DEF DispatchFind
  <2>2. settled' \subseteq Nat
    BY <2>1, ContentHead DEF HistoryTypeOK
  <2> QED
    BY <1>1, <2>2 DEF HistoryTypeOK
<1>5. AfterLoop \in {"idle", "finish"} /\ (AfterLoop = "finish" => cancelling \in Consumers)
  BY DEF AfterLoop, LoopTypeOK
<1>6. LoopTypeOK' /\ SpendCovered'
  <2>1. CASE step' = AfterLoop /\ UNCHANGED <<hand, chosen>>
    BY <1>1, <1>5, <2>1 DEF LoopTypeOK, SpendCovered
  <2>2. CASE step' = "find" /\ UNCHANGED <<hand, chosen>>
    BY <1>1, <2>2 DEF LoopTypeOK, SpendCovered
  <2>3. CASE /\ content_list # <<>>
             /\ \E i \in 1 .. Len(consumer_list) :
                 /\ NextConsumer(Head(content_list), i)
                 /\ chosen' = consumer_list[i]
             /\ hand' = Head(content_list)
             /\ step' = "deliver"
    <3>1. PICK i \in 1 .. Len(consumer_list) :
            Takes(consumer_list[i], Head(content_list)) /\ chosen' = consumer_list[i]
      BY <2>3 DEF NextConsumer
    <3>2. chosen' \in Consumers
      BY <3>1 DEF QueueTypeOK
    <3>3. ChannelOf[chosen'] \in Channels
      BY <3>2, ConstantsAssumption
    <3>4. credit[ChannelOf[chosen']] \in Nat /\ ~(credit[ChannelOf[chosen']] < 1)
      BY <3>1, <3>3 DEF Takes, Busy, ChannelTypeOK
    <3>5. credit'[ChannelOf[chosen']] >= 1
      BY <1>1, <3>4 DEF channelVars
    <3> QED
      BY <1>1, <2>3, <3>2, <3>5, ContentHead DEF LoopTypeOK, SpendCovered
  <2> QED
    BY <2>1, <2>2, <2>3 DEF DispatchFind
<1> QED
  BY <1>2, <1>3, <1>4, <1>6

\* The dispatch loop: delivering to the consumer it chose.
LEMMA DeliverType ==
    ASSUME TypeOK, SpendCovered, DispatchDeliver
    PROVE  TypeOK' /\ SpendCovered'
<1> USE DEF TypeOK
<1>1. UNCHANGED <<mailVars, content_list, locked, timers, cancelling, paused,
                  active, conn, earning, by_channel, chan_cancel, created, crediting, accepted>>
  BY DEF DispatchDeliver
<1>2. /\ chosen \in Consumers /\ ChannelOf[chosen] \in Channels
      /\ conn[ChannelOf[chosen]] = "open" => credit[ChannelOf[chosen]] >= 1
  BY ConstantsAssumption DEF DispatchDeliver, SpendCovered
<1>3. NoContent \in Content
  BY DEF NoContent, Content
<1>4. hand \in Content /\ hand.id \in Nat
  BY DEF LoopTypeOK, Content
<1>5. LostBy(chosen) \subseteq Nat
  <2>1. pending[chosen].id \in Nat
    BY <1>2 DEF ConsumerTypeOK, Content
  <2> QED
    BY <2>1 DEF LostBy
<1>6. QueueTypeOK'
  <2>1. Drop(consumer_list, chosen) \in Seq(Consumers)
    BY DropType DEF QueueTypeOK
  <2>2. consumer_list' \in Seq(Consumers)
    BY <1>2, <2>1 DEF DispatchDeliver
  <2> QED
    BY <1>1, <2>2 DEF QueueTypeOK
<1>7. LoopTypeOK' /\ SpendCovered'
  BY <1>1, <1>3 DEF DispatchDeliver, LoopTypeOK, SpendCovered
<1>8. ConsumerTypeOK'
  <2>1. pending' = pending \/ pending' = [pending EXCEPT ![chosen] = hand]
    BY DEF DispatchDeliver
  <2>2. pending' \in [Consumers -> Content]
    BY <1>2, <1>4, <2>1 DEF ConsumerTypeOK
  <2> QED
    BY <1>1, <2>2 DEF ConsumerTypeOK
<1>9. ChannelTypeOK'
  <2>1. credit' \in [Channels -> Nat]
    BY <1>2 DEF DispatchDeliver, Spent, ChannelTypeOK
  <2>2. flow_queue' = flow_queue \/ flow_queue' = [flow_queue EXCEPT ![ChannelOf[chosen]] = @ + 1]
    BY DEF DispatchDeliver
  <2>3. flow_queue' \in [Channels -> Nat]
    <3>1. flow_queue \in [Channels -> Nat]
      BY DEF ChannelTypeOK
    <3> QED
      BY <1>2, <2>2, <3>1
  <2> QED
    BY <1>1, <2>1, <2>3 DEF ChannelTypeOK
<1>10. HistoryTypeOK'
  BY <1>1, <1>4, <1>5 DEF DispatchDeliver, HistoryTypeOK
<1> QED
  BY <1>1, <1>6, <1>7, <1>8, <1>9, <1>10 DEF mailVars

\* Every step keeps the types and the cover of the credit.
LEMMA TypeNext == TypeOK /\ SpendCovered /\ [Next]_vars => TypeOK' /\ SpendCovered'
<1> SUFFICES ASSUME TypeOK, SpendCovered, [Next]_vars
             PROVE  TypeOK' /\ SpendCovered'
  OBVIOUS
<1>1. CASE PostPublish \/ PostGet \/ PostPurge \/ PostDelete
  BY <1>1, ClientType
<1>2. CASE \E c \in Consumers : ChannelCredits(c) \/ ChannelCancel(c) \/ ChannelCancelled(c)
  BY <1>2, ChannelConsumerType
<1>3. CASE \E ch \in Channels :
            \/ ChannelAck(ch) \/ ChannelDestroy(ch) \/ ChannelUnlink(ch)
            \/ SendContent(ch) \/ EarnTest(ch)
            \/ \E on \in BOOLEAN : ChannelFlow(ch, on)
  BY <1>3, ChannelType
<1>4. CASE AutoDeleteEvent
  BY <1>4, EndType
<1>5. CASE QueueThread
  BY <1>5, PublishType, GetPurgeType, ConsumeType, HandlerType, EndType, FindType, DeliverType
     DEF QueueThread
<1>6. CASE UNCHANGED vars
  BY <1>6 DEF TypeOK, QueueTypeOK, LoopTypeOK, ConsumerTypeOK, ChannelTypeOK, HistoryTypeOK,
     SpendCovered, vars, mailVars, queueVars, loopVars, consumerVars, channelVars, historyVars
<1> QED
  BY <1>1, <1>2, <1>3, <1>4, <1>5, <1>6 DEF Next

\* The types alone are not inductive: the spend of a credit needs the test made when
\* the consumer was chosen, which SpendCovered carries across the other threads' steps.
LEMMA TypesAndSpend == Spec => [](TypeOK /\ SpendCovered)
BY TypeInit, TypeNext, PTL DEF Spec

\* Type correctness of the queue, its consumers and their channels: a credit is a
\* natural number, though DispatchDeliver takes one off a counter that other threads
\* write between its test and its use.
THEOREM TypeCorrect == Spec => []TypeOK
BY TypesAndSpend, PTL

\* A channel chosen by the dispatch loop still has a credit when the content is handed
\* to it (amq_server_channel_spend after the test in the search for a consumer).
THEOREM SpendsCovered == Spec => []SpendCovered
BY TypesAndSpend, PTL

-----------------------------------------------------------------------------
(* The limits of the queue's profile bound its list: LimitsHold.           *)

\* The consumers whose cancel waits in the mailbox m; each is cancelled once.
IsCancel(mail) == mail.method = "cancel"
Cancels(m) == {c \in Consumers : \E i \in 1 .. Len(m) : IsCancel(m[i]) /\ m[i].who = c}
OnceEach(m) ==
    \A i, j \in 1 .. Len(m) : IsCancel(m[i]) /\ IsCancel(m[j]) /\ m[i].who = m[j].who => i = j

NoRepeat(s) == \A i, j \in 1 .. Len(s) : s[i] = s[j] => i = j

\* Consumers that have left their channel's list; those among them whose cancel,
\* if any, the queue has handled.
Gone == {c \in created : ~Occurs(by_channel[ChannelOf[c]], c)}
Done == Gone \ Cancels(mailbox)

\* n contents are within the drop and trim limits, but for one per consumer of D.
Within(n, D) == \A limit \in {DropLimit, TrimLimit} \ {0} : n <= limit + Cardinality(D)

\* What LimitsHold rests on: a consumer is on the list of its own channel, once,
\* and at most one cancel is posted for it, when it leaves that list.  So each
\* content given back has a cancelled consumer of its own to answer for it.
ListsSound ==
    /\ IsFiniteSet(created)
    /\ \A ch \in Channels : NoRepeat(by_channel[ch])
    /\ \A ch \in Channels : \A c \in Consumers :
        Occurs(by_channel[ch], c) => c \in created /\ ChannelOf[c] = ch

LimitInv ==
    /\ ListsSound
    /\ Cancels(mailbox) \subseteq Gone /\ OnceEach(mailbox)
    /\ Within(Len(content_list), Done)

-----------------------------------------------------------------------------
(* Cancels in a mailbox                                                    *)

\* Methods that are not cancels are added at the end.
LEMMA CancelsOther ==
    ASSUME NEW m \in Seq(Mail), NEW p \in Seq(Mail),
           \A i \in 1 .. Len(p) : ~IsCancel(p[i])
    PROVE  Cancels(m \o p) = Cancels(m) /\ (OnceEach(m) => OnceEach(m \o p))
<1> DEFINE t == m \o p
<1>1. /\ Len(t) = Len(m) + Len(p) /\ Len(m) \in Nat /\ Len(p) \in Nat
      /\ \A i \in 1 .. Len(m) : t[i] = m[i] /\ i \in 1 .. Len(t)
      /\ \A i \in 1 .. Len(t) : i \in 1 .. Len(m) \/ (t[i] = p[i - Len(m)] /\ i - Len(m) \in 1 .. Len(p))
  OBVIOUS
<1> HIDE DEF t
<1>2. \A i \in 1 .. Len(t) : IsCancel(t[i]) => i \in 1 .. Len(m) /\ t[i] = m[i]
  BY <1>1
<1>3. Cancels(t) = Cancels(m)
  BY <1>1, <1>2 DEF Cancels
<1>4. OnceEach(m) => OnceEach(t)
  BY <1>2 DEF OnceEach
<1> QED
  BY <1>3, <1>4 DEF t

\* One method that is not a cancel is added at the end.
LEMMA CancelsAppendOther ==
    ASSUME NEW m \in Seq(Mail), NEW x \in Mail, ~IsCancel(x)
    PROVE  Cancels(Append(m, x)) = Cancels(m) /\ (OnceEach(m) => OnceEach(Append(m, x)))
<1> DEFINE t == Append(m, x)
<1>1. /\ Len(t) = Len(m) + 1 /\ Len(m) \in Nat /\ t[Len(m) + 1] = x
      /\ \A i \in 1 .. Len(m) : t[i] = m[i] /\ i \in 1 .. Len(t)
      /\ \A i \in 1 .. Len(t) : i \in 1 .. Len(m) \/ i = Len(m) + 1
  OBVIOUS
<1> HIDE DEF t
<1>2. \A i \in 1 .. Len(t) : IsCancel(t[i]) => i \in 1 .. Len(m) /\ t[i] = m[i]
  BY <1>1
<1>3. Cancels(t) = Cancels(m)
  BY <1>1, <1>2 DEF Cancels
<1>4. OnceEach(m) => OnceEach(t)
  BY <1>2 DEF OnceEach
<1> QED
  BY <1>3, <1>4 DEF t

\* Adding one method is adding a list of one.
LEMMA AppendConcat ==
    ASSUME NEW S, NEW s \in Seq(S), NEW x \in S
    PROVE  Append(s, x) = s \o <<x>> /\ <<x>> \in Seq(S) /\ Len(<<x>>) = 1 /\ <<x>>[1] = x
OBVIOUS

\* The cancels of distinct consumers, none of them cancelled yet, are added.
LEMMA CancelsMore ==
    ASSUME NEW m \in Seq(Mail), OnceEach(m), NEW p \in Seq(Mail),
           \A i \in 1 .. Len(p) : IsCancel(p[i]) /\ p[i].who \in Consumers \ Cancels(m),
           \A i, j \in 1 .. Len(p) : p[i].who = p[j].who => i = j
    PROVE  /\ Cancels(m \o p) = Cancels(m) \cup {c \in Consumers : \E i \in 1 .. Len(p) : p[i].who = c}
           /\ OnceEach(m \o p)
<1> DEFINE t == m \o p
<1>1. /\ Len(t) = Len(m) + Len(p) /\ Len(m) \in Nat /\ Len(p) \in Nat
      /\ \A i \in 1 .. Len(m) : t[i] = m[i] /\ i \in 1 .. Len(t)
      /\ \A i \in 1 .. Len(p) : t[i + Len(m)] = p[i] /\ i + Len(m) \in 1 .. Len(t)
      /\ \A i \in 1 .. Len(t) : i \in 1 .. Len(m) \/ (t[i] = p[i - Len(m)] /\ i - Len(m) \in 1 .. Len(p))
  OBVIOUS
<1> HIDE DEF t
<1>2. ASSUME NEW c \in Consumers, c \in Cancels(t)
      PROVE  c \in Cancels(m) \/ \E i \in 1 .. Len(p) : p[i].who = c
  <2>1. PICK i \in 1 .. Len(t) : IsCancel(t[i]) /\ t[i].who = c
    BY <1>2 DEF Cancels
  <2>2. CASE i \in 1 .. Len(m)
    BY <1>1, <2>1, <2>2 DEF Cancels
  <2>3. CASE t[i] = p[i - Len(m)] /\ i - Len(m) \in 1 .. Len(p)
    BY <2>1, <2>3
  <2> QED
    BY <1>1, <2>2, <2>3
<1>3. \A c \in Consumers : c \in Cancels(m) => c \in Cancels(t)
  BY <1>1 DEF Cancels
<1>4. ASSUME NEW i \in 1 .. Len(p) PROVE p[i].who \in Cancels(t)
  BY <1>1 DEF Cancels
<1>5. Cancels(t) = Cancels(m) \cup {c \in Consumers : \E i \in 1 .. Len(p) : p[i].who = c}
  BY <1>2, <1>3, <1>4 DEF Cancels
<1>6. ASSUME NEW i \in 1 .. Len(t), NEW j \in 1 .. Len(t),
             IsCancel(t[i]), IsCancel(t[j]), t[i].who = t[j].who
      PROVE  i = j
  <2>1. CASE i \in 1 .. Len(m) /\ j \in 1 .. Len(m)
    BY <1>1, <1>6, <2>1 DEF OnceEach
  <2>2. CASE i \in 1 .. Len(m) /\ t[j] = p[j - Len(m)] /\ j - Len(m) \in 1 .. Len(p)
    <3>1. t[j].who \in Cancels(m)
      BY <1>1, <1>6, <2>2 DEF Cancels
    <3> QED
      BY <2>2, <3>1
  <2>3. CASE j \in 1 .. Len(m) /\ t[i] = p[i - Len(m)] /\ i - Len(m) \in 1 .. Len(p)
    <3>1. t[i].who \in Cancels(m)
      BY <1>1, <1>6, <2>3 DEF Cancels
    <3> QED
      BY <2>3, <3>1
  <2>4. CASE /\ t[i] = p[i - Len(m)] /\ i - Len(m) \in 1 .. Len(p)
             /\ t[j] = p[j - Len(m)] /\ j - Len(m) \in 1 .. Len(p)
    <3>1. i - Len(m) = j - Len(m)
      BY <1>6, <2>4
    <3> QED
      BY <1>1, <3>1
  <2> QED
    BY <1>1, <2>1, <2>2, <2>3, <2>4
<1>7. OnceEach(t)
  BY <1>6 DEF OnceEach
<1> QED
  BY <1>5, <1>7 DEF t

\* The queue takes the first method.
LEMMA CancelsTail ==
    ASSUME NEW m \in Seq(Mail), m # <<>>, OnceEach(m)
    PROVE  /\ OnceEach(Tail(m))
           /\ ~IsCancel(Head(m)) => Cancels(Tail(m)) = Cancels(m)
           /\ IsCancel(Head(m)) => Cancels(Tail(m)) = Cancels(m) \ {Head(m).who}
<1> DEFINE t == Tail(m)
<1>1. /\ Len(m) \in Nat /\ Len(m) >= 1 /\ Len(t) = Len(m) - 1 /\ Head(m) = m[1]
      /\ \A i \in 1 .. Len(t) : t[i] = m[i + 1] /\ i + 1 \in 1 .. Len(m)
      /\ \A i \in 1 .. Len(m) : i = 1 \/ (i - 1 \in 1 .. Len(t) /\ t[i - 1] = m[i])
  OBVIOUS
<1> HIDE DEF t
<1>2. OnceEach(t)
  <2> SUFFICES ASSUME NEW i \in 1 .. Len(t), NEW j \in 1 .. Len(t),
                      IsCancel(t[i]), IsCancel(t[j]), t[i].who = t[j].who
               PROVE  i = j
    BY DEF OnceEach
  <2>1. i + 1 \in 1 .. Len(m) /\ j + 1 \in 1 .. Len(m) /\ t[i] = m[i + 1] /\ t[j] = m[j + 1]
    BY <1>1
  <2>2. i + 1 = j + 1
    BY <2>1 DEF OnceEach
  <2> QED
    BY <2>2
<1>3. Cancels(t) \subseteq Cancels(m)
  BY <1>1 DEF Cancels
<1>4. ASSUME NEW c \in Cancels(m), ~IsCancel(Head(m)) \/ c # Head(m).who
      PROVE  c \in Cancels(t)
  <2>1. PICK i \in 1 .. Len(m) : IsCancel(m[i]) /\ m[i].who = c
    BY DEF Cancels
  <2>2. i # 1
    BY <1>1, <1>4, <2>1
  <2> QED
    BY <1>1, <2>1, <2>2 DEF Cancels
<1>5. ASSUME IsCancel(Head(m)), Head(m).who \in Cancels(t) PROVE FALSE
  <2>1. PICK i \in 1 .. Len(t) : IsCancel(t[i]) /\ t[i].who = Head(m).who
    BY <1>5 DEF Cancels
  <2>2. /\ i + 1 \in 1 .. Len(m) /\ 1 \in 1 .. Len(m) /\ i + 1 # 1
        /\ IsCancel(m[i + 1]) /\ IsCancel(m[1]) /\ m[i + 1].who = m[1].who
    BY <1>1, <1>5, <2>1
  <2> QED
    BY <2>2 DEF OnceEach
<1> QED
  BY <1>2, <1>3, <1>4, <1>5 DEF t

-----------------------------------------------------------------------------
(* Consumers in a channel's list                                           *)

\* Dropping a consumer from a list without repetitions takes it, and only it, out.
LEMMA DropIs ==
    ASSUME NEW s \in Seq(Consumers), NoRepeat(s), NEW c
    PROVE  /\ NoRepeat(Drop(s, c))
           /\ \A d : Occurs(Drop(s, c), d) <=> Occurs(s, d) /\ d # c
<1>1. CASE ~Occurs(s, c)
  BY <1>1 DEF Drop
<1>2. CASE Occurs(s, c)
  <2> DEFINE k == CHOOSE i \in 1 .. Len(s) : s[i] = c
             t == Without(s, k)
  <2>1. k \in 1 .. Len(s) /\ s[k] = c
    BY <1>2 DEF Occurs
  <2> HIDE DEF k
  <2>2. Len(t) = Len(s) - 1 /\ Len(s) \in Nat
    BY <2>1, WithoutType
  <2>3. \A i \in 1 .. Len(t) : t[i] = IF i < k THEN s[i] ELSE s[i + 1]
    BY <2>2 DEF Without
  <2>4. Drop(s, c) = t
    BY <1>2 DEF Drop, k
  <2> HIDE DEF t
  <2>5. NoRepeat(t)
    <3> SUFFICES ASSUME NEW i \in 1 .. Len(t), NEW j \in 1 .. Len(t), t[i] = t[j] PROVE i = j
      BY DEF NoRepeat
    <3> DEFINE u(x) == IF x < k THEN x ELSE x + 1
    <3>1. u(i) \in 1 .. Len(s) /\ u(j) \in 1 .. Len(s) /\ s[u(i)] = s[u(j)]
      BY <2>1, <2>2, <2>3
    <3>2. u(i) = u(j)
      BY <3>1 DEF NoRepeat
    <3> QED
      BY <2>1, <2>2, <3>2
  <2>6. ASSUME NEW d, Occurs(t, d) PROVE Occurs(s, d) /\ d # c
    <3>1. PICK i \in 1 .. Len(t) : t[i] = d
      BY <2>6 DEF Occurs
    <3>2. CASE i < k
      <4>1. i \in 1 .. Len(s) /\ s[i] = d /\ i # k
        BY <2>1, <2>2, <2>3, <3>1, <3>2
      <4> QED
        BY <2>1, <4>1 DEF Occurs, NoRepeat
    <3>3. CASE ~(i < k)
      <4>1. i + 1 \in 1 .. Len(s) /\ s[i + 1] = d /\ i + 1 # k
        BY <2>1, <2>2, <2>3, <3>1, <3>3
      <4> QED
        BY <2>1, <4>1 DEF Occurs, NoRepeat
    <3> QED
      BY <3>2, <3>3
  <2>7. ASSUME NEW d, Occurs(s, d), d # c PROVE Occurs(t, d)
    <3>1. PICK i \in 1 .. Len(s) : s[i] = d
      BY <2>7 DEF Occurs
    <3>2. i # k
      BY <2>1, <2>7, <3>1
    <3>3. CASE i < k
      <4>1. i \in 1 .. Len(t) /\ t[i] = d
        BY <2>1, <2>2, <2>3, <3>1, <3>3
      <4> QED
        BY <4>1 DEF Occurs
    <3>4. CASE ~(i < k)
      <4>1. i - 1 \in 1 .. Len(t) /\ t[i - 1] = s[(i - 1) + 1] /\ (i - 1) + 1 = i
        BY <2>1, <2>2, <2>3, <3>1, <3>2, <3>4
      <4> QED
        BY <3>1, <4>1 DEF Occurs
    <3> QED
      BY <3>3, <3>4
  <2> QED
    BY <2>4, <2>5, <2>6, <2>7
<1> QED
  BY <1>1, <1>2

\* A consumer that is not in the list is added to it.
LEMMA AddIs ==
    ASSUME NEW s \in Seq(Consumers), NoRepeat(s), NEW c \in Consumers, ~Occurs(s, c)
    PROVE  /\ NoRepeat(Append(s, c))
           /\ \A d : Occurs(Append(s, c), d) <=> Occurs(s, d) \/ d = c
<1> DEFINE t == Append(s, c)
<1>1. /\ Len(t) = Len(s) + 1 /\ Len(s) \in Nat /\ t[Len(s) + 1] = c
      /\ \A i \in 1 .. Len(s) : t[i] = s[i] /\ i \in 1 .. Len(t)
      /\ \A i \in 1 .. Len(t) : i \in 1 .. Len(s) \/ i = Len(s) + 1
      /\ Len(s) + 1 \in 1 .. Len(t)
  OBVIOUS
<1> HIDE DEF t
<1>2. NoRepeat(t)
  BY <1>1 DEF NoRepeat, Occurs
<1>3. \A d : Occurs(t, d) <=> Occurs(s, d) \/ d = c
  BY <1>1 DEF Occurs
<1> QED
  BY <1>2, <1>3 DEF t

-----------------------------------------------------------------------------
(* The bound                                                               *)

\* Fewer contents, or more consumers that answer for them.
LEMMA WithinMore ==
    ASSUME NEW n \in Nat, NEW D, Within(n, D), NEW E, IsFiniteSet(E), D \subseteq E,
           NEW m \in Nat, m <= n
    PROVE  Within(m, E)
<1>1. Cardinality(D) <= Cardinality(E) /\ Cardinality(D) \in Nat /\ Cardinality(E) \in Nat
  BY FS_Subset, FS_CardinalityType
<1> QED
  BY <1>1, ConstantsAssumption DEF Within

\* One more content, and one more consumer to answer for it.
LEMMA WithinOne ==
    ASSUME NEW n \in Nat, NEW D, IsFiniteSet(D), Within(n, D), NEW c, c \notin D,
           NEW m \in Nat, m <= n + 1
    PROVE  Within(m, D \cup {c})
<1>1. Cardinality(D \cup {c}) = Cardinality(D) + 1 /\ Cardinality(D) \in Nat
  BY FS_AddElement, FS_CardinalityType
<1> QED
  BY <1>1, ConstantsAssumption DEF Within

-----------------------------------------------------------------------------
(* The bound is an invariant                                               *)

\* The types that the lemmas above ask for.
LEMMA LimitTypes ==
    ASSUME TypeOK
    PROVE  /\ mailbox \in Seq(Mail) /\ content_list \in Seq(Content)
           /\ Len(content_list) \in Nat /\ created \subseteq Consumers
           /\ by_channel \in [Channels -> Seq(Consumers)]
           /\ \A c \in Consumers : ChannelOf[c] \in Channels
BY ConstantsAssumption DEF TypeOK, QueueTypeOK, ChannelTypeOK

\* Only finitely many consumers are gone.
LEMMA GoneFinite ==
    ASSUME ListsSound
    PROVE  IsFiniteSet(Gone) /\ IsFiniteSet(Done)
<1>1. Gone \in SUBSET created /\ Done \in SUBSET created
  BY DEF Gone, Done
<1> QED
  BY <1>1, FS_Subset DEF ListsSound

\* A step that leaves the channels' lists alone and takes or posts no cancel.
LEMMA QuietLimit ==
    ASSUME TypeOK, LimitInv, UNCHANGED <<by_channel, created>>,
           Cancels(mailbox') = Cancels(mailbox), OnceEach(mailbox'),
           Within(Len(content_list'), Done)
    PROVE  LimitInv'
<1>1. Gone' = Gone
  BY DEF Gone, Occurs
<1>2. Cancels(mailbox)' = Cancels(mailbox) /\ OnceEach(mailbox)'
  BY DEF Cancels, OnceEach
<1>3. Done' = Done
  BY <1>1, <1>2 DEF Done
<1>4. ListsSound'
  BY DEF LimitInv, ListsSound, NoRepeat, Occurs
<1>5. Within(Len(content_list), Done)'
  BY <1>3 DEF Within
<1> QED
  BY <1>1, <1>2, <1>4, <1>5 DEF LimitInv

\* Such a step, when it does not touch the list of contents either.
LEMMA QuietLimitList ==
    ASSUME TypeOK, LimitInv, UNCHANGED <<by_channel, created, content_list>>,
           Cancels(mailbox') = Cancels(mailbox), OnceEach(mailbox')
    PROVE  LimitInv'
BY QuietLimit DEF LimitInv

\* The methods that are not cancels.
LEMMA NotCancels ==
    /\ ~IsCancel(DispatchMethod) /\ ~IsCancel(SelfDestructMethod)
    /\ \A who, flag : /\ ~IsCancel(Method("publish", who, flag)) /\ ~IsCancel(Method("get", who, flag))
                      /\ ~IsCancel(Method("purge", who, flag)) /\ ~IsCancel(Method("ack", who, flag))
                      /\ ~IsCancel(Method("consume", who, flag))
                      /\ IsCancel(Method("cancel", who, flag))
BY DEF IsCancel, DispatchMethod, SelfDestructMethod, Method

\* A client posts a method, or a handler posts one to its own queue.
LEMMA PostLimit ==
    ASSUME TypeOK, LimitInv, UNCHANGED <<by_channel, created, content_list>>,
           NEW x \in Mail, ~IsCancel(x),
           mailbox' = mailbox \/ mailbox' = Append(mailbox, x)
    PROVE  LimitInv'
<1>1. Cancels(mailbox') = Cancels(mailbox) /\ OnceEach(mailbox')
  BY LimitTypes, CancelsAppendOther DEF LimitInv
<1> QED
  BY <1>1, QuietLimitList

\* A channel wakes its queues or acknowledges on all its consumers.
LEMMA PerConsumerLimit ==
    ASSUME TypeOK, LimitInv, UNCHANGED <<by_channel, created, content_list>>,
           NEW ch \in Channels, NEW m \in {"dispatch", "ack"},
           mailbox' = mailbox \/ mailbox' = mailbox \o PerConsumer(ch, m)
    PROVE  LimitInv'
<1>1. PerConsumer(ch, m) \in Seq(Mail)
  BY PerConsumerType
<1>2. \A k \in 1 .. Len(PerConsumer(ch, m)) : ~IsCancel(PerConsumer(ch, m)[k])
  <2>1. Len(by_channel[ch]) \in Nat
    BY LimitTypes
  <2>2. Len(PerConsumer(ch, m)) = Len(by_channel[ch])
    BY <2>1 DEF PerConsumer
  <2> QED
    BY <2>1, <2>2, NotCancels DEF PerConsumer
<1>3. Cancels(mailbox') = Cancels(mailbox) /\ OnceEach(mailbox')
  BY <1>1, <1>2, LimitTypes, CancelsOther DEF LimitInv
<1> QED
  BY <1>3, QuietLimitList

\* The clients, and the channel and connection threads where they only post.
LEMMA ClientLimit ==
    ASSUME TypeOK, LimitInv,
           \/ PostPublish \/ PostGet \/ PostPurge \/ PostDelete
           \/ \E ch \in Channels :
               \/ ChannelAck(ch) \/ ChannelUnlink(ch) \/ SendContent(ch) \/ EarnTest(ch)
               \/ \E on \in BOOLEAN : ChannelFlow(ch, on)
    PROVE  LimitInv'
<1>1. UNCHANGED <<by_channel, created, content_list>>
  BY DEF PostPublish, PostGet, PostPurge, PostDelete, ChannelAck, ChannelUnlink,
         SendContent, EarnTest, ChannelFlow, queueVars, channelVars
<1>2. CASE PostPublish
  <2>1. PICK ch \in Channels, im \in BOOLEAN : mailbox' = Append(mailbox, Method("publish", ch, im))
    BY <1>2 DEF PostPublish, Post
  <2>2. Method("publish", ch, im) \in Mail
    BY DEF Method, Mail
  <2> QED
    BY <1>1, <2>1, <2>2, NotCancels, PostLimit
<1>3. CASE PostGet
  <2>1. PICK ch \in Channels : mailbox' = Append(mailbox, Method("get", ch, FALSE))
    BY <1>3 DEF PostGet, Post
  <2>2. Method("get", ch, FALSE) \in Mail
    BY DEF Method, Mail
  <2> QED
    BY <1>1, <2>1, <2>2, NotCancels, PostLimit
<1>4. CASE PostPurge \/ PostDelete
  BY <1>1, <1>4, NotCancels, MailType, PostLimit DEF PostPurge, PostDelete, Post
<1>5. ASSUME NEW ch \in Channels,
             \/ ChannelAck(ch) \/ ChannelUnlink(ch) \/ SendContent(ch) \/ EarnTest(ch)
             \/ \E on \in BOOLEAN : ChannelFlow(ch, on)
      PROVE  LimitInv'
  <2>1. \/ mailbox' = mailbox \/ mailbox' = mailbox \o PerConsumer(ch, "dispatch")
        \/ mailbox' = mailbox \o PerConsumer(ch, "ack")
    BY <1>5 DEF ChannelAck, ChannelUnlink, SendContent, EarnTest, ChannelFlow, mailVars, Wake
  <2> QED
    BY <1>1, <2>1, PerConsumerLimit
<1> QED
  BY <1>2, <1>3, <1>4, <1>5

\* A channel tests the credit of a consumer it creates, and passes it to the queue.
LEMMA JoinsLimit ==
    ASSUME TypeOK, LimitInv, NEW c \in Consumers, ChannelFindsZero(c) \/ ChannelJoins(c)
    PROVE  LimitInv'
<1>1. UNCHANGED <<by_channel, created, content_list>>
  BY DEF ChannelFindsZero, ChannelJoins, queueVars
<1>2. CASE ChannelFindsZero(c)
  BY <1>1, <1>2, QuietLimitList DEF ChannelFindsZero, mailVars, LimitInv
<1>3. CASE ChannelJoins(c)
  <2>1. active[ChannelOf[c]] \in BOOLEAN
    BY LimitTypes DEF TypeOK, ChannelTypeOK
  <2>2. /\ mailbox' = Append(mailbox, Method("consume", c, active[ChannelOf[c]]))
        /\ Method("consume", c, active[ChannelOf[c]]) \in Mail
    BY <1>3, <2>1 DEF ChannelJoins, Post, Method, Mail
  <2> QED
    BY <1>1, <2>2, NotCancels, PostLimit
<1> QED
  BY <1>2, <1>3

\* A channel creates a consumer: it joins its channel's list.
LEMMA ConsumeLimit ==
    ASSUME TypeOK, LimitInv, NEW c \in Consumers, ChannelConsume(c)
    PROVE  LimitInv'
<1> DEFINE ch == ChannelOf[c]
<1>1. /\ c \notin created /\ created' = created \cup {c}
      /\ by_channel' = [by_channel EXCEPT ![ch] = Append(@, c)]
      /\ mailbox' = mailbox /\ content_list' = content_list /\ ch \in Channels
  BY LimitTypes DEF ChannelConsume, mailVars, queueVars
<1>2. ~Occurs(by_channel[ch], c) /\ by_channel[ch] \in Seq(Consumers) /\ NoRepeat(by_channel[ch])
  BY <1>1, LimitTypes DEF LimitInv, ListsSound
<1>3. /\ by_channel'[ch] = Append(by_channel[ch], c)
      /\ \A e \in Channels \ {ch} : by_channel'[e] = by_channel[e]
  BY <1>1, LimitTypes
<1> HIDE DEF ch
<1>4. NoRepeat(by_channel'[ch]) /\ \A d : Occurs(by_channel'[ch], d) <=> Occurs(by_channel[ch], d) \/ d = c
  BY <1>2, <1>3, AddIs
<1>5. ListsSound'
  <2>1. IsFiniteSet(created')
    BY <1>1, FS_AddElement DEF LimitInv, ListsSound
  <2>2. \A e \in Channels : NoRepeat(by_channel'[e])
    BY <1>3, <1>4 DEF LimitInv, ListsSound
  <2>3. \A e \in Channels : \A d \in Consumers :
            Occurs(by_channel'[e], d) => d \in created' /\ ChannelOf[d] = e
    BY <1>1, <1>3, <1>4 DEF LimitInv, ListsSound, ch
  <2> QED
    BY <2>1, <2>2, <2>3 DEF ListsSound
<1>6. Gone' = Gone
  <2>1. \A d \in created : Occurs(by_channel'[ChannelOf[d]], d) <=> Occurs(by_channel[ChannelOf[d]], d)
    BY <1>1, <1>3, <1>4, LimitTypes
  <2>2. Occurs(by_channel'[ChannelOf[c]], c)
    BY <1>4 DEF ch
  <2> QED
    BY <1>1, <2>1, <2>2 DEF Gone
<1>7. Cancels(mailbox') = Cancels(mailbox) /\ OnceEach(mailbox')
  BY <1>1 DEF LimitInv
<1>8. Cancels(mailbox)' = Cancels(mailbox) /\ OnceEach(mailbox)' /\ Done' = Done
  BY <1>6, <1>7 DEF Cancels, OnceEach, Done
<1>9. Within(Len(content_list), Done)'
  BY <1>1, <1>8 DEF LimitInv, Within
<1> QED
  BY <1>5, <1>6, <1>8, <1>9 DEF LimitInv

\* A consumer leaves its channel's list, with or without a cancel to the queue.
LEMMA LeaveLimit ==
    ASSUME TypeOK, LimitInv, NEW c \in Consumers,
           UNCHANGED <<created, content_list>>,
           by_channel' = [by_channel EXCEPT ![ChannelOf[c]] = Drop(@, c)],
           \/ mailbox' = mailbox
           \/ /\ Occurs(by_channel[ChannelOf[c]], c)
              /\ mailbox' = Append(mailbox, Method("cancel", c, TRUE))
    PROVE  LimitInv'
<1> DEFINE ch == ChannelOf[c]
<1>1. ch \in Channels /\ by_channel[ch] \in Seq(Consumers) /\ NoRepeat(by_channel[ch])
  BY LimitTypes DEF LimitInv, ListsSound
<1>2. /\ by_channel'[ch] = Drop(by_channel[ch], c)
      /\ \A e \in Channels \ {ch} : by_channel'[e] = by_channel[e]
  BY <1>1, LimitTypes
<1> HIDE DEF ch
<1>3. /\ NoRepeat(by_channel'[ch])
      /\ \A d : Occurs(by_channel'[ch], d) <=> Occurs(by_channel[ch], d) /\ d # c
  BY <1>1, <1>2, DropIs
<1>4. ListsSound'
  <2>1. \A e \in Channels : NoRepeat(by_channel'[e])
    BY <1>2, <1>3 DEF LimitInv, ListsSound
  <2>2. \A e \in Channels : \A d \in Consumers :
            Occurs(by_channel'[e], d) => d \in created' /\ ChannelOf[d] = e
    BY <1>2, <1>3 DEF LimitInv, ListsSound
  <2> QED
    BY <2>1, <2>2 DEF LimitInv, ListsSound
<1>5. Gone' = Gone \cup ({c} \cap created)
  <2>1. \A d \in created \ {c} : Occurs(by_channel'[ChannelOf[d]], d) <=> Occurs(by_channel[ChannelOf[d]], d)
    BY <1>2, <1>3, LimitTypes
  <2>2. ~Occurs(by_channel'[ChannelOf[c]], c)
    BY <1>3 DEF ch
  <2> QED
    BY <2>1, <2>2 DEF Gone
<1>6. Done \subseteq Done' /\ Cancels(mailbox)' \subseteq Gone' /\ OnceEach(mailbox)'
  <2>1. CASE mailbox' = mailbox
    <3>1. Cancels(mailbox)' = Cancels(mailbox) /\ OnceEach(mailbox)'
      BY <2>1 DEF Cancels, OnceEach, LimitInv
    <3> QED
      BY <1>5, <3>1 DEF LimitInv, Done
  <2>2. CASE Occurs(by_channel[ch], c) /\ mailbox' = Append(mailbox, Method("cancel", c, TRUE))
    <3> DEFINE x == Method("cancel", c, TRUE)
               p == <<x>>
    <3>1. x \in Mail /\ IsCancel(x) /\ x.who = c
      BY NotCancels DEF Method, Mail
    <3>2. c \in created /\ c \notin Gone /\ c \notin Cancels(mailbox)
      BY <1>1, <2>2 DEF LimitInv, ListsSound, Gone, ch
    <3> HIDE DEF x
    <3>3. p \in Seq(Mail) /\ Len(p) = 1 /\ p[1] = x /\ mailbox' = mailbox \o p
      <4>1. mailbox' = Append(mailbox, x)
        BY <2>2 DEF x
      <4> QED
        BY <3>1, <4>1, LimitTypes, AppendConcat
    <3> HIDE DEF p
    <3>4. \A i \in 1 .. Len(p) : i = 1
      BY <3>3
    <3>5. /\ Cancels(mailbox \o p) =
                Cancels(mailbox) \cup {d \in Consumers : \E i \in 1 .. Len(p) : p[i].who = d}
          /\ OnceEach(mailbox \o p)
      <4>1. /\ \A i \in 1 .. Len(p) : IsCancel(p[i]) /\ p[i].who \in Consumers \ Cancels(mailbox)
            /\ \A i, j \in 1 .. Len(p) : p[i].who = p[j].who => i = j
        BY <3>1, <3>2, <3>3, <3>4
      <4> QED
        BY <3>3, <4>1, LimitTypes, CancelsMore DEF LimitInv
    <3>6. {d \in Consumers : \E i \in 1 .. Len(p) : p[i].who = d} = {c}
      BY <3>1, <3>3, <3>4
    <3>7. Cancels(mailbox)' = Cancels(mailbox) \cup {c} /\ OnceEach(mailbox)'
      BY <3>3, <3>5, <3>6 DEF Cancels, OnceEach
    <3> QED
      BY <1>5, <3>2, <3>7 DEF LimitInv, Done
  <2> QED
    BY <2>1, <2>2 DEF ch
<1>7. Within(Len(content_list), Done)'
  <2>1. IsFiniteSet(Done')
    <3>1. IsFiniteSet(created') /\ Done' \in SUBSET created'
      BY <1>4 DEF ListsSound, Done, Gone
    <3> QED
      BY <3>1, FS_Subset
  <2>2. Within(Len(content_list), Done')
    BY <1>6, <2>1, LimitTypes, WithinMore DEF LimitInv
  <2> QED
    BY <2>2 DEF Within
<1> QED
  BY <1>4, <1>6, <1>7 DEF LimitInv

\* The channel's own cancels, and the destruction of the queue's consumers.
LEMMA ChannelLimit ==
    ASSUME TypeOK, LimitInv,
           \/ \E c \in Consumers : ChannelCancel(c) \/ ChannelCancelled(c)
           \/ StopConsumer
    PROVE  LimitInv'
<1>1. ASSUME NEW c \in Consumers, ChannelCancel(c) PROVE LimitInv'
  BY <1>1, LeaveLimit DEF ChannelCancel, Post, queueVars
<1>2. ASSUME NEW c \in Consumers, ChannelCancelled(c) PROVE LimitInv'
  BY <1>2, LeaveLimit DEF ChannelCancelled, mailVars, queueVars
<1>3. CASE StopConsumer
  <2>1. Head(consumer_list) \in Consumers
    BY <1>3 DEF StopConsumer, Stopped, TypeOK, QueueTypeOK
  <2> QED
    BY <1>3, <2>1, LeaveLimit DEF StopConsumer, mailVars
<1> QED
  BY <1>1, <1>2, <1>3

\* A channel is destroyed: all its consumers leave its list, each with a cancel.
LEMMA DestroyLimit ==
    ASSUME TypeOK, LimitInv, NEW ch \in Channels, ChannelDestroy(ch)
    PROVE  LimitInv'
<1> DEFINE p == PerConsumer(ch, "cancel")
           s == by_channel[ch]
<1>1. /\ UNCHANGED <<created, content_list>> /\ mailbox' = mailbox \o p
      /\ by_channel' = [by_channel EXCEPT ![ch] = <<>>]
  BY DEF ChannelDestroy, queueVars
<1>2. s \in Seq(Consumers) /\ NoRepeat(s) /\ Len(s) \in Nat
  BY LimitTypes DEF LimitInv, ListsSound
<1>3. /\ by_channel'[ch] = <<>> /\ ~\E d : Occurs(<<>>, d)
      /\ \A e \in Channels \ {ch} : by_channel'[e] = by_channel[e]
  BY <1>1, LimitTypes DEF Occurs
<1>4. /\ p \in Seq(Mail) /\ Len(p) = Len(s)
      /\ \A i \in 1 .. Len(p) : p[i] = Method("cancel", s[i], FALSE) /\ IsCancel(p[i]) /\ p[i].who = s[i]
  <2>1. p \in Seq(Mail)
    BY PerConsumerType
  <2>2. Len(p) = Len(s)
    BY <1>2 DEF PerConsumer
  <2>3. \A i \in 1 .. Len(p) : p[i] = Method("cancel", s[i], FALSE)
    BY <1>2, <2>2 DEF PerConsumer
  <2>4. \A d : Method("cancel", d, FALSE).who = d
    BY DEF Method
  <2> HIDE DEF p, s
  <2> QED
    BY <2>1, <2>2, <2>3, <2>4, NotCancels
<1>5. \A d \in Consumers : Occurs(s, d) =>
            d \in created /\ ChannelOf[d] = ch /\ d \notin Gone /\ d \notin Cancels(mailbox)
  BY DEF LimitInv, ListsSound, Gone
<1> HIDE DEF p, s
<1>6. \A i \in 1 .. Len(s) : s[i] \in Consumers /\ Occurs(s, s[i])
  BY <1>2 DEF Occurs
<1>7. /\ Cancels(mailbox \o p) =
            Cancels(mailbox) \cup {d \in Consumers : \E i \in 1 .. Len(p) : p[i].who = d}
      /\ OnceEach(mailbox \o p)
  <2>1. \A i \in 1 .. Len(p) : IsCancel(p[i]) /\ p[i].who \in Consumers \ Cancels(mailbox)
    BY <1>4, <1>5, <1>6
  <2>2. ASSUME NEW i \in 1 .. Len(p), NEW j \in 1 .. Len(p), p[i].who = p[j].who PROVE i = j
    <3>1. i \in 1 .. Len(s) /\ j \in 1 .. Len(s) /\ s[i] = s[j]
      BY <1>4, <2>2
    <3> QED
      BY <1>2, <3>1 DEF NoRepeat
  <2> QED
    BY <1>4, <2>1, <2>2, LimitTypes, CancelsMore DEF LimitInv
<1>8. {d \in Consumers : \E i \in 1 .. Len(p) : p[i].who = d} = {d \in Consumers : Occurs(s, d)}
  BY <1>4 DEF Occurs
<1>9. Cancels(mailbox)' = Cancels(mailbox) \cup {d \in Consumers : Occurs(s, d)} /\ OnceEach(mailbox)'
  BY <1>1, <1>7, <1>8 DEF Cancels, OnceEach
<1>10. Gone' = Gone \cup {d \in Consumers : Occurs(s, d)}
  <2>1. \A d \in created : ChannelOf[d] # ch =>
            (Occurs(by_channel'[ChannelOf[d]], d) <=> Occurs(by_channel[ChannelOf[d]], d))
    BY <1>3, LimitTypes
  <2>2. \A d \in created : ChannelOf[d] = ch =>
            ~Occurs(by_channel'[ChannelOf[d]], d) /\ (Occurs(s, d) <=> d \notin Gone)
    BY <1>3 DEF Gone, s
  <2>3. \A d \in created : d \in Gone' <=> d \in Gone \/ Occurs(s, d)
    BY <1>1, <1>5, <2>1, <2>2, LimitTypes DEF Gone
  <2>4. Gone \subseteq created /\ Gone' \subseteq created /\ created \subseteq Consumers
    BY <1>1, LimitTypes DEF Gone
  <2> QED
    BY <1>5, <2>3, <2>4
<1>11. Done' = Done
  BY <1>5, <1>9, <1>10 DEF Done
<1>12. ListsSound'
  <2>1. NoRepeat(<<>>)
    BY DEF NoRepeat
  <2>2. \A e \in Channels : NoRepeat(by_channel'[e])
    BY <1>3, <2>1 DEF LimitInv, ListsSound
  <2>3. \A e \in Channels : \A d \in Consumers :
            Occurs(by_channel'[e], d) => d \in created' /\ ChannelOf[d] = e
    BY <1>1, <1>3 DEF LimitInv, ListsSound
  <2> QED
    BY <1>1, <2>2, <2>3 DEF LimitInv, ListsSound
<1>13. Within(Len(content_list), Done)'
  BY <1>1, <1>11 DEF LimitInv, Within
<1> QED
  BY <1>9, <1>10, <1>12, <1>13 DEF LimitInv

\* A publish respects the limits it tests: a full queue drops the content, or
\* trims one for it.
LEMMA PublishWithin ==
    ASSUME TypeOK, LimitInv, HandlePublish
    PROVE  Within(Len(content_list'), Done)
<1> DEFINE n == Len(content_list)
<1>1. n \in Nat /\ Within(n, Done) /\ Cardinality(Done) \in Nat /\ IsFiniteSet(Done)
  BY LimitTypes, GoneFinite, FS_CardinalityType DEF LimitInv
<1>2. PICK kept \in Seq(Content), x \in Content :
        /\ kept = IF Trimming THEN Tail(content_list) ELSE content_list
        /\ content_list' = kept \/ (~Dropping /\ content_list' = Append(kept, x))
  <2>1. Trimming => content_list # <<>>
    BY LimitTypes, ConstantsAssumption DEF Trimming, Over
  <2>2. (IF Trimming THEN Tail(content_list) ELSE content_list) \in Seq(Content)
    BY <2>1, LimitTypes
  <2>3. [id |-> accepted + 1, producer |-> Head(mailbox).who] \in Content
    <3>1. Head(mailbox).who \in Channels
      BY HeadType DEF HandlePublish
    <3>2. accepted + 1 \in Nat
      BY DEF TypeOK, HistoryTypeOK
    <3> QED
      BY <3>1, <3>2 DEF Content
  <2> QED
    BY <2>2, <2>3 DEF HandlePublish
<1>3. Len(kept) = IF Trimming THEN n - 1 ELSE n
  <2>1. Trimming => content_list # <<>>
    BY LimitTypes, ConstantsAssumption DEF Trimming, Over
  <2> QED
    BY <1>2, <2>1, LimitTypes
<1>4. Len(kept) \in Nat /\ Len(Append(kept, x)) = Len(kept) + 1
  OBVIOUS
<1>5. CASE Len(content_list') <= n
  <2>1. Len(content_list') \in Nat
    BY <1>2, <1>3, <1>4
  <2> QED
    BY <1>1, <1>5, <2>1, WithinMore
<1>6. CASE ~Dropping /\ ~Trimming /\ Len(content_list') = n + 1
  <2>1. \A limit \in {DropLimit, TrimLimit} \ {0} : n < limit
    BY <1>1, <1>6, ConstantsAssumption DEF Dropping, Trimming, Over
  <2> QED
    BY <1>1, <1>6, <2>1, ConstantsAssumption DEF Within
<1> QED
  BY <1>1, <1>2, <1>3, <1>4, <1>5, <1>6

\* The queue's thread, where it handles no cancel.
LEMMA QueueLimit ==
    ASSUME TypeOK, LimitInv,
           \/ HandlePublish \/ HandleGet \/ HandlePurge \/ HandleConsume \/ HandleDispatch
           \/ HandleAck \/ HandleSelfDestruct
    PROVE  LimitInv'
<1>1. UNCHANGED <<by_channel, created>>
  BY DEF HandlePublish, HandleGet, HandlePurge, HandleConsume, HandleDispatch, HandleAck,
         HandleSelfDestruct, channelVars
<1>2. mailbox # <<>> /\ ~IsCancel(Head(mailbox))
  BY DEF HandlePublish, HandleGet, HandlePurge, HandleConsume, HandleDispatch, HandleAck,
         HandleSelfDestruct, Take, IsCancel
<1>3. \/ mailbox' = Tail(mailbox) \/ mailbox' = Append(Tail(mailbox), SelfDestructMethod)
      \/ mailbox' = Append(Tail(mailbox), DispatchMethod)
  BY DEF HandlePublish, HandleGet, HandlePurge, HandleConsume, HandleDispatch, HandleAck,
         HandleSelfDestruct
<1>4. Tail(mailbox) \in Seq(Mail) /\ Cancels(Tail(mailbox)) = Cancels(mailbox) /\ OnceEach(Tail(mailbox))
  BY <1>2, LimitTypes, CancelsTail DEF LimitInv
<1>5. Cancels(mailbox') = Cancels(mailbox) /\ OnceEach(mailbox')
  <2>1. CASE mailbox' = Tail(mailbox)
    BY <1>4, <2>1
  <2>2. CASE mailbox' = Append(Tail(mailbox), SelfDestructMethod)
    BY <1>4, <2>2, MailType, NotCancels, CancelsAppendOther
  <2>3. CASE mailbox' = Append(Tail(mailbox), DispatchMethod)
    BY <1>4, <2>3, MailType, NotCancels, CancelsAppendOther
  <2> QED
    BY <1>3, <2>1, <2>2, <2>3
<1>6. Within(Len(content_list'), Done)
  <2>1. CASE HandlePublish
    BY <2>1, PublishWithin
  <2>2. CASE content_list' = content_list
    BY <2>2 DEF LimitInv
  <2>3. ASSUME content_list # <<>>, content_list' = Tail(content_list)
        PROVE  Within(Len(content_list'), Done)
    <3>1. Len(content_list') \in Nat /\ Len(content_list') <= Len(content_list)
      BY <2>3, LimitTypes
    <3> QED
      BY <3>1, LimitTypes, GoneFinite, WithinMore DEF LimitInv
  <2>4. CASE HandlePurge
    <3>1. Len(content_list') \in Nat /\ Len(content_list') <= Len(content_list)
      BY <2>4, LimitTypes DEF HandlePurge
    <3> QED
      BY <3>1, LimitTypes, GoneFinite, WithinMore DEF LimitInv
  <2> QED
    BY <2>1, <2>2, <2>3, <2>4 DEF HandleGet, HandleConsume, HandleDispatch, HandleAck,
       HandleSelfDestruct, queueVars
<1> QED
  BY <1>1, <1>5, <1>6, QuietLimit

\* The steps of the queue's thread that take no method.
LEMMA LoopLimit ==
    ASSUME TypeOK, LimitInv,
           AutoDeleteEvent \/ CancelFinish \/ StopFinish \/ DispatchFind \/ DispatchDeliver
    PROVE  LimitInv'
<1>1. UNCHANGED <<by_channel, created>>
  BY DEF AutoDeleteEvent, CancelFinish, StopFinish, DispatchFind, DispatchDeliver, channelVars
<1>2. CASE content_list' = content_list
  <2>1. mailbox' = mailbox \/ mailbox' = Append(mailbox, SelfDestructMethod)
    BY DEF AutoDeleteEvent, CancelFinish, StopFinish, DispatchFind, DispatchDeliver, Post, mailVars
  <2> QED
    BY <1>1, <1>2, <2>1, MailType, NotCancels, PostLimit
<1>3. CASE content_list # <<>> /\ content_list' = Tail(content_list) /\ mailbox' = mailbox
  <2>1. Len(content_list') \in Nat /\ Len(content_list') <= Len(content_list)
    BY <1>3, LimitTypes
  <2>2. Within(Len(content_list'), Done)
    BY <2>1, LimitTypes, GoneFinite, WithinMore DEF LimitInv
  <2> QED
    BY <1>1, <1>3, <2>2, QuietLimit DEF LimitInv
<1> QED
  BY <1>2, <1>3 DEF AutoDeleteEvent, CancelFinish, StopFinish, DispatchFind, DispatchDeliver,
     mailVars, queueVars

\* A cancel gives back one content at most, and has its consumer answer for it.
LEMMA CancelLimit ==
    ASSUME TypeOK, LimitInv, HandleCancel
    PROVE  LimitInv'
<1> DEFINE c == Head(mailbox).who
<1>1. /\ UNCHANGED <<by_channel, created>> /\ mailbox' = Tail(mailbox)
      /\ mailbox # <<>> /\ IsCancel(Head(mailbox))
  BY DEF HandleCancel, channelVars, Take, IsCancel
<1>2. c \in Consumers
  BY HeadType DEF HandleCancel
<1>3. c \in Cancels(mailbox)
  <2>1. 1 \in 1 .. Len(mailbox) /\ Head(mailbox) = mailbox[1]
    BY <1>1, LimitTypes
  <2> QED
    BY <1>1, <1>2, <2>1 DEF Cancels
<1>4. Cancels(mailbox)' = Cancels(mailbox) \ {c} /\ OnceEach(mailbox)'
  <2>1. Cancels(Tail(mailbox)) = Cancels(mailbox) \ {c} /\ OnceEach(Tail(mailbox))
    BY <1>1, LimitTypes, CancelsTail DEF LimitInv
  <2> QED
    BY <1>1, <2>1 DEF Cancels, OnceEach
<1>5. Gone' = Gone
  BY <1>1 DEF Gone, Occurs
<1> HIDE DEF c
<1>6. Done' = Done \cup {c} /\ c \notin Done
  BY <1>3, <1>4, <1>5 DEF LimitInv, Done
<1>7. Len(content_list') \in Nat /\ Len(content_list') <= Len(content_list) + 1
  <2>1. content_list' = content_list \/ content_list' = <<pending[c]>> \o content_list
    BY DEF HandleCancel, Requeued, c
  <2>2. pending[c] \in Content
    BY <1>2 DEF TypeOK, ConsumerTypeOK
  <2> QED
    BY <2>1, <2>2, LimitTypes
<1>8. Within(Len(content_list'), Done \cup {c})
  BY <1>6, <1>7, LimitTypes, GoneFinite, WithinOne DEF LimitInv
<1>9. Within(Len(content_list), Done)'
  BY <1>6, <1>8 DEF Within
<1>10. ListsSound'
  BY <1>1 DEF LimitInv, ListsSound, NoRepeat, Occurs
<1> QED
  BY <1>4, <1>5, <1>9, <1>10 DEF LimitInv

\* No consumer exists in the initial state.
LEMMA LimitInit == Init => LimitInv
<1> SUFFICES ASSUME Init PROVE LimitInv
  OBVIOUS
<1>1. /\ mailbox = <<>> /\ content_list = <<>> /\ created = {}
      /\ \A ch \in Channels : by_channel[ch] = <<>>
  BY DEF Init
<1>2. ListsSound
  BY <1>1, FS_EmptySet DEF ListsSound, NoRepeat, Occurs
<1>3. Cancels(mailbox) = {} /\ OnceEach(mailbox)
  BY <1>1 DEF Cancels, OnceEach
<1>4. Within(Len(content_list), Done)
  <2>1. Len(content_list) = 0 /\ Cardinality(Done) \in Nat
    BY <1>1, <1>2, GoneFinite, FS_CardinalityType
  <2> QED
    BY <2>1, ConstantsAssumption DEF Within
<1> QED
  BY <1>2, <1>3, <1>4 DEF LimitInv

\* Every step keeps the bound.
LEMMA LimitNext == TypeOK /\ LimitInv /\ [Next]_vars => LimitInv'
<1> SUFFICES ASSUME TypeOK, LimitInv, [Next]_vars PROVE LimitInv'
  OBVIOUS
<1>1. ASSUME NEW c \in Consumers, ChannelCredits(c) PROVE LimitInv'
  BY <1>1, ConsumeLimit, JoinsLimit DEF ChannelCredits
<1>2. ASSUME NEW ch \in Channels, ChannelDestroy(ch) PROVE LimitInv'
  BY <1>2, DestroyLimit
<1>3. CASE HandleCancel
  BY <1>3, CancelLimit
<1>4. CASE UNCHANGED vars
  BY <1>4, QuietLimitList DEF vars, mailVars, queueVars, channelVars, LimitInv
<1> QED
  BY <1>1, <1>2, <1>3, <1>4, ClientLimit, ChannelLimit, QueueLimit, LoopLimit DEF Next, QueueThread

\* The invariant says more than LimitsHold: a cancel still to be handled has not
\* yet used the place that LimitsHold allows its consumer.
LEMMA LimitImplies == TypeOK /\ LimitInv => LimitsHold
<1> SUFFICES ASSUME TypeOK, LimitInv PROVE LimitsHold
  OBVIOUS
<1>1. Within(Len(content_list), Gone)
  BY LimitTypes, GoneFinite, WithinMore DEF LimitInv, Done
<1> QED
  BY <1>1 DEF Within, LimitsHold, Gone

\* Whatever is published, cancelled or closed, the list never outgrows its drop
\* or trim limit by more than one content per cancelled consumer.
THEOREM ListBounded == Spec => []LimitsHold
BY TypeCorrect, LimitInit, LimitNext, LimitImplies, PTL DEF Spec
=============================================================================
