--------------------------- MODULE QueueOrder_proofs ---------------------------
(***************************************************************************)
(* First deliveries keep the order of arrival, no content is duplicated,   *)
(* and one that no client was given is kept while its connection lives:    *)
(* StrictOrder, OneHome and UnsentKept hold of QueueBasic for every        *)
(* instance.  No wake-up is lost: NoLostWakeup holds of every instance     *)
(* that satisfies WakeSure.                                                *)
(***************************************************************************)
EXTENDS QueueBasic_proofs

\* The list s keeps its order, given the number h in the loop's hand and the set
\* sn of contents already given out.
Ordered(s, h, sn) ==
    \A i \in 1 .. Len(s) : s[i].id \notin sn =>
        /\ \A j \in (i + 1) .. Len(s) : s[j].id \notin sn /\ s[i].id < s[j].id
        /\ h < s[i].id
        /\ \A id \in sn : id < s[i].id

\* The contents of s arrived among the first n.
Arrived(s, n) == \A i \in 1 .. Len(s) : s[i].id \in 1 .. n

\* What StrictOrder rests on: contents are numbered as they arrive, a consumer
\* holds only what was given out, and the loop's hand is empty outside a delivery.
Numbered ==
    /\ Arrived(content_list, accepted)
    /\ hand.id <= accepted
    /\ sent \subseteq 1 .. accepted
    /\ \A c \in Consumers : pending[c] # NoContent => pending[c].id \in sent
    /\ step # "deliver" => hand = NoContent
    /\ step = "deliver" => hand.id >= 1

OrderInv ==
    /\ Numbered
    /\ Ordered(content_list, hand.id, sent)
    /\ hand # NoContent /\ hand.id \notin sent => \A id \in sent : id < hand.id

-----------------------------------------------------------------------------
(* How the order survives each change of the list                          *)

\* The head is taken off: by a trim, or by the loop, which then has it in hand.
LEMMA TailOrdered ==
    ASSUME NEW s \in Seq(Content), s # <<>>, NEW n \in Nat, Arrived(s, n),
           NEW h \in Nat, NEW sn \in SUBSET Nat, Ordered(s, h, sn)
    PROVE  /\ Arrived(Tail(s), n)
           /\ Ordered(Tail(s), h, sn)
           /\ Ordered(Tail(s), Head(s).id, sn)
           /\ Head(s).id \in 1 .. n
           /\ Head(s).id \notin sn => \A id \in sn : id < Head(s).id
<1>1. /\ Len(Tail(s)) = Len(s) - 1 /\ Len(s) >= 1 /\ Len(s) \in Nat
      /\ \A i \in 1 .. Len(Tail(s)) : Tail(s)[i] = s[i + 1]
      /\ Head(s) = s[1]
  OBVIOUS
<1>2. \A i \in 1 .. Len(Tail(s)) : i + 1 \in 1 .. Len(s)
  BY <1>1
<1>3. Arrived(Tail(s), n) /\ Head(s).id \in 1 .. n
  BY <1>1, <1>2 DEF Arrived
<1>4. ASSUME NEW i \in 1 .. Len(Tail(s)), Tail(s)[i].id \notin sn
      PROVE  /\ \A j \in (i + 1) .. Len(Tail(s)) :
                    Tail(s)[j].id \notin sn /\ Tail(s)[i].id < Tail(s)[j].id
             /\ h < Tail(s)[i].id
             /\ Head(s).id < Tail(s)[i].id
             /\ \A id \in sn : id < Tail(s)[i].id
  <2>1. s[i + 1].id \notin sn /\ i + 1 \in 1 .. Len(s)
    BY <1>1, <1>2, <1>4
  <2>2. /\ \A j \in (i + 2) .. Len(s) : s[j].id \notin sn /\ s[i + 1].id < s[j].id
        /\ h < s[i + 1].id
        /\ \A id \in sn : id < s[i + 1].id
    BY <2>1 DEF Ordered
  <2>3. \A j \in (i + 1) .. Len(Tail(s)) :
            j + 1 \in (i + 2) .. Len(s) /\ Tail(s)[j] = s[j + 1]
    BY <1>1
  <2>4. Head(s).id < s[i + 1].id
    <3>1. 1 \in 1 .. Len(s) /\ i + 1 \in (1 + 1) .. Len(s)
      BY <1>1, <2>1
    <3>2. CASE s[1].id \in sn
      BY <1>1, <2>2, <3>2
    <3>3. CASE s[1].id \notin sn
      BY <1>1, <3>1, <3>3 DEF Ordered
    <3> QED
      BY <3>2, <3>3
  <2> QED
    BY <1>1, <2>2, <2>3, <2>4
<1>5. Head(s).id \notin sn => \A id \in sn : id < Head(s).id
  BY <1>1 DEF Ordered
<1> QED
  BY <1>3, <1>4, <1>5 DEF Ordered

\* A content arrives at the end.
LEMMA AppendOrdered ==
    ASSUME NEW s \in Seq(Content), NEW n \in Nat, Arrived(s, n),
           NEW h \in Nat, h <= n, NEW sn \in SUBSET (1 .. n), Ordered(s, h, sn),
           NEW x \in Content, x.id = n + 1
    PROVE  Arrived(Append(s, x), n + 1) /\ Ordered(Append(s, x), h, sn)
<1> DEFINE t == Append(s, x)
<1>1. /\ Len(t) = Len(s) + 1 /\ t[Len(s) + 1] = x /\ Len(s) \in Nat
      /\ \A i \in 1 .. Len(s) : t[i] = s[i]
  OBVIOUS
<1>2. \A i \in 1 .. Len(t) : i \in 1 .. Len(s) \/ i = Len(s) + 1
  BY <1>1
<1> HIDE DEF t
<1>3. \A i \in 1 .. Len(s) : s[i].id \in 1 .. n
  BY DEF Arrived
<1>4. \A i \in 1 .. Len(t) : t[i].id \in 1 .. (n + 1)
  BY <1>1, <1>2, <1>3
<1>5. \A id \in sn : id < n + 1
  OBVIOUS
<1>6. n + 1 \notin sn
  BY <1>5
<1>7. ASSUME NEW i \in 1 .. Len(t), t[i].id \notin sn
      PROVE  /\ \A j \in (i + 1) .. Len(t) : t[j].id \notin sn /\ t[i].id < t[j].id
             /\ h < t[i].id
             /\ \A id \in sn : id < t[i].id
  <2>1. CASE i = Len(s) + 1
    <3>1. \A j \in (i + 1) .. Len(t) : FALSE
      BY <1>1, <2>1
    <3> QED
      BY <1>1, <1>5, <2>1, <3>1
  <2>2. CASE i \in 1 .. Len(s)
    <3>1. t[i] = s[i] /\ s[i].id \in 1 .. n
      BY <1>1, <1>3, <2>2
    <3>2. /\ \A j \in (i + 1) .. Len(s) : s[j].id \notin sn /\ s[i].id < s[j].id
          /\ h < s[i].id
          /\ \A id \in sn : id < s[i].id
      BY <1>7, <2>2, <3>1 DEF Ordered
    <3>3. \A j \in (i + 1) .. Len(t) : j = Len(s) + 1 \/ (j \in (i + 1) .. Len(s) /\ t[j] = s[j])
      BY <1>1, <2>2
    <3> QED
      BY <1>1, <1>6, <3>1, <3>2, <3>3
  <2> QED
    BY <1>2, <2>1, <2>2
<1> QED
  BY <1>4, <1>7 DEF Ordered, Arrived, t

\* A content that was already given out is pushed back onto the head.
LEMMA PushOrdered ==
    ASSUME NEW s \in Seq(Content), NEW n \in Nat, Arrived(s, n),
           NEW h \in Nat, NEW sn \in SUBSET (1 .. n), Ordered(s, h, sn),
           NEW x \in Content, x.id \in sn
    PROVE  Arrived(<<x>> \o s, n) /\ Ordered(<<x>> \o s, h, sn)
<1> DEFINE t == <<x>> \o s
<1>1. /\ Len(t) = Len(s) + 1 /\ t[1] = x /\ Len(s) \in Nat
      /\ \A i \in 2 .. Len(t) : t[i] = s[i - 1] /\ i - 1 \in 1 .. Len(s)
  OBVIOUS
<1> HIDE DEF t
<1>2. \A i \in 1 .. Len(t) : i = 1 \/ i \in 2 .. Len(t)
  BY <1>1
<1>3. \A i \in 1 .. Len(t) : t[i].id \in 1 .. n
  BY <1>1, <1>2 DEF Arrived
<1>4. ASSUME NEW i \in 1 .. Len(t), t[i].id \notin sn
      PROVE  /\ \A j \in (i + 1) .. Len(t) : t[j].id \notin sn /\ t[i].id < t[j].id
             /\ h < t[i].id
             /\ \A id \in sn : id < t[i].id
  <2>1. i \in 2 .. Len(t) /\ t[i] = s[i - 1] /\ i - 1 \in 1 .. Len(s)
    BY <1>1, <1>2, <1>4
  <2>2. /\ \A j \in (i - 1 + 1) .. Len(s) : s[j].id \notin sn /\ s[i - 1].id < s[j].id
        /\ h < s[i - 1].id
        /\ \A id \in sn : id < s[i - 1].id
    BY <1>4, <2>1 DEF Ordered
  <2>3. \A j \in (i + 1) .. Len(t) : j - 1 \in (i - 1 + 1) .. Len(s) /\ t[j] = s[j - 1]
    BY <1>1, <2>1
  <2> QED
    BY <2>1, <2>2, <2>3
<1> QED
  BY <1>3, <1>4 DEF Ordered, Arrived, t

\* The content in hand, which precedes the list, is given out.
LEMMA GiveOrdered ==
    ASSUME NEW s \in Seq(Content), NEW n \in Nat, Arrived(s, n),
           NEW h \in Nat, NEW sn \in SUBSET (1 .. n), Ordered(s, h, sn)
    PROVE  Ordered(s, 0, sn) /\ Ordered(s, 0, sn \cup {h})
<1>1. \A i \in 1 .. Len(s) : s[i].id \in 1 .. n
  BY DEF Arrived
<1>2. Ordered(s, 0, sn)
  BY <1>1 DEF Ordered
<1>3. ASSUME NEW i \in 1 .. Len(s), s[i].id \notin sn \cup {h}
      PROVE  /\ \A j \in (i + 1) .. Len(s) : s[j].id \notin sn \cup {h} /\ s[i].id < s[j].id
             /\ 0 < s[i].id
             /\ \A id \in sn \cup {h} : id < s[i].id
  <2>1. /\ \A j \in (i + 1) .. Len(s) : s[j].id \notin sn /\ s[i].id < s[j].id
        /\ h < s[i].id
        /\ \A id \in sn : id < s[i].id
    BY <1>3 DEF Ordered
  <2>2. \A j \in (i + 1) .. Len(s) : j \in 1 .. Len(s)
    OBVIOUS
  <2> QED
    BY <1>1, <2>1, <2>2
<1> QED
  BY <1>2, <1>3 DEF Ordered

-----------------------------------------------------------------------------
(* The order is an invariant                                               *)

\* The types that the lemmas above ask for.
LEMMA OrderTypes ==
    ASSUME TypeOK, OrderInv
    PROVE  /\ content_list \in Seq(Content) /\ accepted \in Nat
           /\ hand \in Content /\ hand.id \in Nat /\ hand.id <= accepted
           /\ sent \in SUBSET (1 .. accepted) /\ sent \in SUBSET Nat
           /\ NoContent.id = 0
BY DEF TypeOK, QueueTypeOK, LoopTypeOK, HistoryTypeOK, OrderInv, Numbered, Content, NoContent

\* A step that gives nothing out and leaves the list and the loop alone.
LEMMA QuietOrder ==
    ASSUME OrderInv, UNCHANGED <<content_list, hand, accepted, sent>>,
           step' = "deliver" <=> step = "deliver",
           \A c \in Consumers : pending'[c] = NoContent \/ pending'[c] = pending[c]
    PROVE  OrderInv'
<1>1. Numbered'
  BY DEF OrderInv, Numbered, Arrived
<1>2. Ordered(content_list, hand.id, sent)'
  BY DEF OrderInv, Ordered
<1> QED
  BY <1>1, <1>2 DEF OrderInv

\* The steps that are quiet.
LEMMA QuietStep ==
    ASSUME TypeOK, SpendCovered, OrderInv,
           \/ PostPublish \/ PostGet \/ PostPurge \/ PostDelete \/ AutoDeleteEvent
           \/ \E c \in Consumers : ChannelCredits(c) \/ ChannelCancel(c) \/ ChannelCancelled(c)
           \/ \E ch \in Channels :
               \/ ChannelAck(ch) \/ ChannelDestroy(ch) \/ ChannelUnlink(ch)
               \/ SendContent(ch) \/ EarnTest(ch)
               \/ \E on \in BOOLEAN : ChannelFlow(ch, on)
           \/ HandleConsume \/ HandleDispatch \/ HandleAck \/ CancelFinish
           \/ HandleSelfDestruct \/ StopConsumer \/ StopFinish
    PROVE  OrderInv'
<1>1. UNCHANGED <<content_list, hand, accepted, sent>>
  BY DEF PostPublish, PostGet, PostPurge, PostDelete, AutoDeleteEvent,
         ChannelCredits, ChannelConsume, ChannelFindsZero, ChannelJoins, ChannelCancel,
         ChannelCancelled, ChannelAck, ChannelDestroy,
         ChannelUnlink, SendContent, EarnTest, ChannelFlow, HandleConsume, HandleDispatch,
         HandleAck, CancelFinish, HandleSelfDestruct, StopConsumer, StopFinish,
         queueVars, loopVars, historyVars
<1>2. step' = "deliver" <=> step = "deliver"
  BY DEF PostPublish, PostGet, PostPurge, PostDelete, AutoDeleteEvent,
         ChannelCredits, ChannelConsume, ChannelFindsZero, ChannelJoins, ChannelCancel,
         ChannelCancelled, ChannelAck, ChannelDestroy,
         ChannelUnlink, SendContent, EarnTest, ChannelFlow, HandleConsume, HandleDispatch,
         HandleAck, CancelFinish, HandleSelfDestruct, StopConsumer, StopFinish,
         loopVars, Take
<1>3. \A c \in Consumers : pending'[c] = NoContent \/ pending'[c] = pending[c]
  <2>1. pending \in [Consumers -> Content]
    BY DEF TypeOK, ConsumerTypeOK
  <2>2. pending' = pending \/ \E d : pending' = Released(d)
    BY DEF PostPublish, PostGet, PostPurge, PostDelete, AutoDeleteEvent,
           ChannelCredits, ChannelConsume, ChannelFindsZero, ChannelJoins, ChannelCancel,
         ChannelCancelled, ChannelAck, ChannelDestroy,
           ChannelUnlink, SendContent, EarnTest, ChannelFlow, HandleConsume, HandleDispatch,
           HandleAck, CancelFinish, HandleSelfDestruct, StopConsumer, StopFinish, consumerVars
  <2> QED
    BY <2>1, <2>2 DEF Released
<1> QED
  BY <1>1, <1>2, <1>3, QuietOrder

\* A publish numbers its content after all others; a trim takes the oldest.
LEMMA PublishOrder ==
    ASSUME TypeOK, OrderInv, HandlePublish
    PROVE  OrderInv'
<1> DEFINE content == [id |-> accepted + 1, producer |-> Head(mailbox).who]
           kept == IF Trimming THEN Tail(content_list) ELSE content_list
<1>1. UNCHANGED <<hand, sent, pending>> /\ accepted' = accepted + 1
  BY DEF HandlePublish, consumerVars
<1>2. step # "deliver" /\ step' # "deliver"
  BY DEF HandlePublish, Take
<1>3. content_list' = kept \/ content_list' = Append(kept, content)
  BY DEF HandlePublish
<1>4. content \in Content /\ content.id = accepted + 1
  <2>1. Head(mailbox).who \in Channels
    BY HeadType DEF HandlePublish
  <2> QED
    BY <2>1, OrderTypes DEF Content
<1>5. kept \in Seq(Content) /\ Arrived(kept, accepted) /\ Ordered(kept, hand.id, sent)
  <2>1. Trimming => content_list # <<>>
    BY OrderTypes, ConstantsAssumption DEF Trimming, Over
  <2>2. Arrived(content_list, accepted) /\ Ordered(content_list, hand.id, sent)
    BY DEF OrderInv, Numbered
  <2>3. CASE Trimming
    <3>1. Arrived(Tail(content_list), accepted) /\ Ordered(Tail(content_list), hand.id, sent)
      BY <2>1, <2>2, <2>3, OrderTypes, TailOrdered
    <3> QED
      BY <2>1, <2>3, <3>1, OrderTypes
  <2>4. CASE ~Trimming
    BY <2>2, <2>4, OrderTypes
  <2> QED
    BY <2>3, <2>4
<1> HIDE DEF content, kept
<1>6. Arrived(content_list', accepted + 1) /\ Ordered(content_list', hand.id, sent)
  <2>1. CASE content_list' = kept
    <3>1. Arrived(kept, accepted + 1)
      BY <1>5, OrderTypes DEF Arrived
    <3> QED
      BY <1>5, <2>1, <3>1
  <2>2. CASE content_list' = Append(kept, content)
    <3>1. Arrived(Append(kept, content), accepted + 1) /\ Ordered(Append(kept, content), hand.id, sent)
      BY <1>4, <1>5, OrderTypes, AppendOrdered
    <3> QED
      BY <2>2, <3>1
  <2> QED
    BY <1>3, <2>1, <2>2
<1>7. Numbered'
  <2>1. hand'.id <= accepted' /\ sent' \subseteq 1 .. accepted'
    BY <1>1, OrderTypes
  <2> QED
    BY <1>1, <1>2, <1>6, <2>1 DEF OrderInv, Numbered
<1> QED
  BY <1>1, <1>6, <1>7 DEF OrderInv

\* A get gives out the head; a purge empties the list.
LEMMA GetPurgeOrder ==
    ASSUME TypeOK, OrderInv, HandleGet \/ HandlePurge
    PROVE  OrderInv'
<1>1. UNCHANGED <<hand, pending, accepted, step>> /\ hand = NoContent /\ step # "deliver"
  BY DEF HandleGet, HandlePurge, Take, consumerVars, loopVars, OrderInv, Numbered
<1>2. Arrived(content_list, accepted) /\ Ordered(content_list, 0, sent)
  BY <1>1, OrderTypes DEF OrderInv, Numbered
<1>3. ASSUME content_list # <<>>
      PROVE  /\ Arrived(Tail(content_list), accepted)
             /\ Ordered(Tail(content_list), 0, sent)
             /\ Ordered(Tail(content_list), 0, sent \cup {Head(content_list).id})
             /\ Head(content_list).id \in 1 .. accepted
  <2>1. /\ Arrived(Tail(content_list), accepted)
        /\ Ordered(Tail(content_list), 0, sent)
        /\ Ordered(Tail(content_list), Head(content_list).id, sent)
        /\ Head(content_list).id \in 1 .. accepted
    BY <1>2, <1>3, OrderTypes, TailOrdered
  <2>2. Ordered(Tail(content_list), 0, sent \cup {Head(content_list).id})
    BY <1>3, <2>1, OrderTypes, ContentHead, GiveOrdered
  <2> QED
    BY <2>1, <2>2
<1>4. /\ Arrived(content_list', accepted) /\ Ordered(content_list', 0, sent')
      /\ sent \subseteq sent' /\ sent' \subseteq 1 .. accepted
  <2>1. CASE HandlePurge
    BY <2>1, OrderTypes DEF HandlePurge, Arrived, Ordered
  <2>2. CASE HandleGet
    <3>1. CASE content_list = <<>>
      BY <1>2, <2>2, <3>1, OrderTypes DEF HandleGet
    <3>2. CASE content_list # <<>>
      <4>1. /\ content_list' = Tail(content_list)
            /\ sent' = sent \/ sent' = sent \cup {Head(content_list).id}
        BY <2>2, <3>2 DEF HandleGet
      <4> QED
        BY <1>3, <3>2, <4>1, OrderTypes
    <3> QED
      BY <3>1, <3>2
  <2> QED
    BY <2>1, <2>2
<1>5. Numbered'
  BY <1>1, <1>4, OrderTypes DEF OrderInv, Numbered
<1> QED
  BY <1>1, <1>4, <1>5, OrderTypes DEF OrderInv

\* A cancel pushes back a content that was given out before.
LEMMA CancelOrder ==
    ASSUME TypeOK, OrderInv, HandleCancel
    PROVE  OrderInv'
<1> DEFINE c == Head(mailbox).who
<1>1. UNCHANGED <<hand, sent, pending, accepted>> /\ step # "deliver" /\ step' # "deliver"
  BY DEF HandleCancel, Take, consumerVars, historyVars
<1>2. c \in Consumers
  BY HeadType DEF HandleCancel
<1>3. Arrived(content_list, accepted) /\ Ordered(content_list, hand.id, sent)
  BY DEF OrderInv, Numbered
<1>4. CASE content_list' = content_list
  BY <1>1, <1>4, QuietOrder
<1>5. CASE pending[c] # NoContent /\ content_list' = <<pending[c]>> \o content_list
  <2>1. pending[c] \in Content /\ pending[c].id \in sent
    BY <1>2, <1>5 DEF TypeOK, ConsumerTypeOK, OrderInv, Numbered
  <2>2. /\ Arrived(<<pending[c]>> \o content_list, accepted)
        /\ Ordered(<<pending[c]>> \o content_list, hand.id, sent)
    BY <1>3, <2>1, OrderTypes, PushOrdered
  <2>3. Arrived(content_list', accepted') /\ Ordered(content_list', hand'.id, sent')
    BY <1>1, <1>5, <2>2
  <2>4. Numbered'
    BY <1>1, <2>3 DEF OrderInv, Numbered
  <2> QED
    BY <1>1, <2>3, <2>4 DEF OrderInv
<1> QED
  BY <1>4, <1>5 DEF HandleCancel, Requeued

\* The loop takes the head in hand, discards it or leaves it.
LEMMA FindOrder ==
    ASSUME TypeOK, OrderInv, DispatchFind
    PROVE  OrderInv'
<1>1. UNCHANGED <<sent, pending, accepted>> /\ step # "deliver" /\ hand = NoContent
  BY DEF DispatchFind, consumerVars, OrderInv, Numbered
<1>2. AfterLoop # "deliver"
  BY DEF AfterLoop
<1>3. CASE UNCHANGED <<content_list, hand>> /\ step' # "deliver"
  BY <1>1, <1>3, QuietOrder
<1>4. ASSUME content_list # <<>>
      PROVE  /\ Arrived(Tail(content_list), accepted)
             /\ Ordered(Tail(content_list), hand.id, sent)
             /\ Ordered(Tail(content_list), Head(content_list).id, sent)
             /\ Head(content_list).id \in 1 .. accepted
             /\ Head(content_list).id \notin sent =>
                    \A id \in sent : id < Head(content_list).id
  <2>1. Arrived(content_list, accepted) /\ Ordered(content_list, hand.id, sent)
    BY DEF OrderInv, Numbered
  <2> QED
    BY <1>4, <2>1, OrderTypes, TailOrdered
<1>5. CASE /\ content_list # <<>> /\ content_list' = Tail(content_list)
           /\ UNCHANGED hand /\ step' # "deliver"
  <2>1. Arrived(content_list', accepted') /\ Ordered(content_list', hand'.id, sent')
    BY <1>1, <1>4, <1>5
  <2>2. Numbered'
    BY <1>1, <1>5, <2>1 DEF OrderInv, Numbered
  <2> QED
    BY <1>1, <1>5, <2>1, <2>2 DEF OrderInv
<1>6. CASE /\ content_list # <<>> /\ content_list' = Tail(content_list)
           /\ hand' = Head(content_list) /\ step' = "deliver"
  <2>1. Arrived(content_list', accepted') /\ Ordered(content_list', hand'.id, sent')
    BY <1>1, <1>4, <1>6
  <2>2. hand'.id \in 1 .. accepted'
    BY <1>1, <1>4, <1>6
  <2>3. Numbered'
    BY <1>1, <1>6, <2>1, <2>2, OrderTypes DEF OrderInv, Numbered
  <2>4. hand'.id \notin sent' => \A id \in sent' : id < hand'.id
    BY <1>1, <1>4, <1>6
  <2> QED
    BY <2>1, <2>3, <2>4 DEF OrderInv
<1> QED
  BY <1>2, <1>3, <1>5, <1>6 DEF DispatchFind

\* The loop gives out what it has in hand.
LEMMA DeliverOrder ==
    ASSUME TypeOK, OrderInv, DispatchDeliver
    PROVE  OrderInv'
<1>1. /\ UNCHANGED <<content_list, accepted>> /\ step = "deliver" /\ step' = "find"
      /\ hand' = NoContent /\ hand'.id = 0
  BY OrderTypes DEF DispatchDeliver
<1>2. hand.id \in 1 .. accepted
  BY <1>1, OrderTypes DEF OrderInv, Numbered
<1>3. /\ sent' = sent \/ sent' = sent \cup {hand.id}
      /\ \/ pending' = pending
         \/ pending' = [pending EXCEPT ![chosen] = hand] /\ sent' = sent \cup {hand.id}
  BY DEF DispatchDeliver
<1>4. Arrived(content_list', accepted') /\ Ordered(content_list', hand'.id, sent')
  <2>1. Arrived(content_list, accepted) /\ Ordered(content_list, hand.id, sent)
    BY DEF OrderInv, Numbered
  <2>2. Ordered(content_list, 0, sent) /\ Ordered(content_list, 0, sent \cup {hand.id})
    BY <2>1, OrderTypes, GiveOrdered
  <2> QED
    BY <1>1, <1>3, <2>1, <2>2
<1>5. \A c \in Consumers : pending'[c] # NoContent => pending'[c].id \in sent'
  BY <1>3 DEF OrderInv, Numbered, TypeOK, ConsumerTypeOK
<1>6. sent' \subseteq 1 .. accepted' /\ hand'.id <= accepted'
  BY <1>1, <1>2, <1>3, OrderTypes
<1>7. Numbered'
  BY <1>1, <1>4, <1>5, <1>6 DEF Numbered
<1> QED
  BY <1>1, <1>4, <1>7 DEF OrderInv

\* Nothing has arrived in the initial state.
LEMMA OrderInit == Init => OrderInv
<1> SUFFICES ASSUME Init PROVE OrderInv
  OBVIOUS
<1>1. /\ content_list = <<>> /\ Len(content_list) = 0 /\ accepted = 0 /\ sent = {}
      /\ step = "idle" /\ hand = NoContent /\ hand.id = 0
      /\ \A c \in Consumers : pending[c] = NoContent
  BY DEF Init, NoContent
<1>2. Arrived(content_list, accepted) /\ Ordered(content_list, hand.id, sent)
  BY <1>1 DEF Arrived, Ordered
<1> QED
  BY <1>1, <1>2 DEF OrderInv, Numbered

\* Every step keeps the order.
LEMMA OrderNext == TypeOK /\ SpendCovered /\ OrderInv /\ [Next]_vars => OrderInv'
<1> SUFFICES ASSUME TypeOK, SpendCovered, OrderInv, [Next]_vars PROVE OrderInv'
  OBVIOUS
<1>1. CASE HandlePublish
  BY <1>1, PublishOrder
<1>2. CASE HandleGet \/ HandlePurge
  BY <1>2, GetPurgeOrder
<1>3. CASE HandleCancel
  BY <1>3, CancelOrder
<1>4. CASE DispatchFind
  BY <1>4, FindOrder
<1>5. CASE DispatchDeliver
  BY <1>5, DeliverOrder
<1>6. CASE UNCHANGED vars
  BY <1>6, QuietOrder DEF vars, queueVars, loopVars, consumerVars, historyVars
<1> QED
  BY <1>1, <1>2, <1>3, <1>4, <1>5, <1>6, QuietStep DEF Next, QueueThread

\* The invariant says what StrictOrder says.
LEMMA OrderImplies == OrderInv => StrictOrder
<1> SUFFICES ASSUME OrderInv PROVE StrictOrder
  OBVIOUS
<1>1. Ordered(content_list, hand.id, sent)
  BY DEF OrderInv
<1> QED
  BY <1>1 DEF OrderInv, Ordered, StrictOrder, Fresh

\* First deliveries keep the order of arrival, whatever the consumers, the
\* limits, the cancels and the gets: a content that no client has been given
\* waits behind those that came back, before those that came later, and after
\* everything already given out.
THEOREM OrderKept == Spec => []StrictOrder
BY TypesAndSpend, OrderInit, OrderNext, OrderImplies, PTL DEF Spec

-----------------------------------------------------------------------------
(* Every content has one place: OneHome.                                   *)

\* The numbers of the contents in the list s; no number is there twice.
Ids(s) == {s[i].id : i \in 1 .. Len(s)}
Distinct(s) == \A i, j \in 1 .. Len(s) : s[i].id = s[j].id => i = j

\* OneHome in terms of the set I of numbers waiting, the number h in hand, the
\* slots P of the consumers, the consumer k being cancelled, the set C of numbers
\* the queue is done with and the number n of contents that arrived.
Placed(I, h, P, C, n) ==
    \A id \in 1 .. n : id \in I \/ h = id \/ id \in C \/ \E c \in Consumers : P[c].id = id
Apart3(I, h, C) == (\A id \in I : id # h /\ id \notin C) /\ h \notin C
SlotApart(c, I, h, P, k, C) ==
    P[c] # NoContent =>
        /\ P[c].id \notin I /\ P[c].id # h /\ P[c].id \notin C
        /\ \A d \in Consumers \ {c, k} : P[d].id # P[c].id
SlotsApart(I, h, P, k, C) == \A c \in Consumers \ {k} : SlotApart(c, I, h, P, k, C)

\* What OneHome rests on besides OrderInv: the queue is done only with numbers
\* that arrived, and a cancel runs only between its handler and its finish.
HomeInv ==
    /\ Distinct(content_list)
    /\ Closed \subseteq 1 .. accepted
    /\ step \in {"idle", "stop"} => cancelling = Nobody
    /\ Placed(Ids(content_list), hand.id, pending, Closed, accepted)
    /\ Apart3(Ids(content_list), hand.id, Closed)
    /\ SlotsApart(Ids(content_list), hand.id, pending, cancelling, Closed)

-----------------------------------------------------------------------------
(* The numbers in a list                                                   *)

\* Taking the head off takes exactly its number out.
LEMMA IdsTail ==
    ASSUME NEW s \in Seq(Content), s # <<>>, Distinct(s)
    PROVE  /\ Head(s).id \in Ids(s)
           /\ Ids(Tail(s)) = Ids(s) \ {Head(s).id}
           /\ Distinct(Tail(s))
<1>1. /\ Len(s) \in Nat /\ Len(s) >= 1 /\ Len(Tail(s)) = Len(s) - 1 /\ Head(s) = s[1]
      /\ \A i \in 1 .. Len(Tail(s)) : Tail(s)[i] = s[i + 1] /\ i + 1 \in 1 .. Len(s)
  OBVIOUS
<1>2. \A i \in 1 .. Len(s) : i = 1 \/ (i - 1 \in 1 .. Len(Tail(s)) /\ Tail(s)[i - 1] = s[i])
  BY <1>1
<1>3. Head(s).id \in Ids(s)
  BY <1>1 DEF Ids
<1>4. ASSUME NEW id \in Ids(Tail(s)) PROVE id \in Ids(s) \ {Head(s).id}
  <2>1. PICK i \in 1 .. Len(Tail(s)) : id = Tail(s)[i].id
    BY <1>4 DEF Ids
  <2>2. id = s[i + 1].id /\ i + 1 \in 1 .. Len(s) /\ 1 \in 1 .. Len(s) /\ i + 1 # 1
    BY <1>1, <2>1
  <2> QED
    BY <1>1, <2>2 DEF Ids, Distinct
<1>5. ASSUME NEW id \in Ids(s) \ {Head(s).id} PROVE id \in Ids(Tail(s))
  <2>1. PICK i \in 1 .. Len(s) : id = s[i].id
    BY <1>5 DEF Ids
  <2>2. i # 1
    BY <1>1, <1>5, <2>1
  <2> QED
    BY <1>2, <2>1, <2>2 DEF Ids
<1>6. Distinct(Tail(s))
  <2> SUFFICES ASSUME NEW i \in 1 .. Len(Tail(s)), NEW j \in 1 .. Len(Tail(s)),
                      Tail(s)[i].id = Tail(s)[j].id
               PROVE  i = j
    BY DEF Distinct
  <2>1. s[i + 1].id = s[j + 1].id /\ i + 1 \in 1 .. Len(s) /\ j + 1 \in 1 .. Len(s)
    BY <1>1
  <2>2. i + 1 = j + 1
    BY <2>1 DEF Distinct
  <2> QED
    BY <2>2
<1> QED
  BY <1>3, <1>4, <1>5, <1>6

\* A content arrives at the end with a number that is not there.
LEMMA IdsAppend ==
    ASSUME NEW s \in Seq(Content), Distinct(s), NEW x \in Content, x.id \notin Ids(s)
    PROVE  Ids(Append(s, x)) = Ids(s) \cup {x.id} /\ Distinct(Append(s, x))
<1> DEFINE t == Append(s, x)
<1>1. /\ Len(t) = Len(s) + 1 /\ t[Len(s) + 1] = x /\ Len(s) \in Nat
      /\ \A i \in 1 .. Len(s) : t[i] = s[i] /\ i \in 1 .. Len(t)
  OBVIOUS
<1>2. \A i \in 1 .. Len(t) : i \in 1 .. Len(s) \/ i = Len(s) + 1
  BY <1>1
<1> HIDE DEF t
<1>3. Len(s) + 1 \in 1 .. Len(t)
  BY <1>1
<1>4. \A i \in 1 .. Len(s) : s[i].id # x.id
  BY DEF Ids
<1>5. Ids(t) = Ids(s) \cup {x.id}
  BY <1>1, <1>2, <1>3 DEF Ids
<1>6. Distinct(t)
  BY <1>1, <1>2, <1>4 DEF Distinct
<1> QED
  BY <1>5, <1>6 DEF t

\* A content goes back to the head with a number that is not there.
LEMMA IdsPush ==
    ASSUME NEW s \in Seq(Content), Distinct(s), NEW x \in Content, x.id \notin Ids(s)
    PROVE  Ids(<<x>> \o s) = Ids(s) \cup {x.id} /\ Distinct(<<x>> \o s)
<1> DEFINE t == <<x>> \o s
<1>1. /\ Len(t) = Len(s) + 1 /\ t[1] = x /\ Len(s) \in Nat
      /\ \A i \in 2 .. Len(t) : t[i] = s[i - 1] /\ i - 1 \in 1 .. Len(s)
      /\ \A i \in 1 .. Len(s) : t[i + 1] = s[i] /\ i + 1 \in 1 .. Len(t)
  OBVIOUS
<1> HIDE DEF t
<1>2. \A i \in 1 .. Len(t) : i = 1 \/ i \in 2 .. Len(t)
  BY <1>1
<1>3. 1 \in 1 .. Len(t)
  BY <1>1
<1>4. \A i \in 1 .. Len(s) : s[i].id # x.id
  BY DEF Ids
<1>5. Ids(t) = Ids(s) \cup {x.id}
  <2>1. ASSUME NEW id \in Ids(t) PROVE id \in Ids(s) \cup {x.id}
    <3>1. PICK i \in 1 .. Len(t) : id = t[i].id
      BY <2>1 DEF Ids
    <3> QED
      BY <1>1, <1>2, <3>1 DEF Ids
  <2>2. ASSUME NEW id \in Ids(s) PROVE id \in Ids(t)
    <3>1. PICK i \in 1 .. Len(s) : id = s[i].id
      BY <2>2 DEF Ids
    <3> QED
      BY <1>1, <3>1 DEF Ids
  <2>3. x.id \in Ids(t)
    BY <1>1, <1>3 DEF Ids
  <2> QED
    BY <2>1, <2>2, <2>3
<1>6. Distinct(t)
  <2> SUFFICES ASSUME NEW i \in 1 .. Len(t), NEW j \in 1 .. Len(t), t[i].id = t[j].id
               PROVE  i = j
    BY DEF Distinct
  <2>1. CASE i \in 2 .. Len(t) /\ j \in 2 .. Len(t)
    <3>1. s[i - 1].id = s[j - 1].id /\ i - 1 \in 1 .. Len(s) /\ j - 1 \in 1 .. Len(s)
      BY <1>1, <2>1
    <3>2. i - 1 = j - 1
      BY <3>1 DEF Distinct
    <3> QED
      BY <3>2
  <2>2. CASE i = 1 /\ j \in 2 .. Len(t)
    BY <1>1, <1>4, <2>2
  <2>3. CASE j = 1 /\ i \in 2 .. Len(t)
    BY <1>1, <1>4, <2>3
  <2> QED
    BY <1>2, <2>1, <2>2, <2>3
<1> QED
  BY <1>5, <1>6 DEF t

-----------------------------------------------------------------------------
(* How places survive each kind of change                                  *)

\* The numbers in X leave the list because the queue is done with them: a get, a
\* purge, a trim, a content that no consumer wants.
LEMMA PlacesClose ==
    ASSUME NEW I, NEW h, NEW P, NEW k, NEW C, NEW n \in Nat,
           Placed(I, h, P, C, n), Apart3(I, h, C), SlotsApart(I, h, P, k, C),
           NEW X \in SUBSET I
    PROVE  /\ Placed(I \ X, h, P, C \cup X, n)
           /\ Apart3(I \ X, h, C \cup X)
           /\ SlotsApart(I \ X, h, P, k, C \cup X)
<1>1. Placed(I \ X, h, P, C \cup X, n)
  BY DEF Placed
<1>2. Apart3(I \ X, h, C \cup X)
  BY DEF Apart3
<1>3. SlotsApart(I \ X, h, P, k, C \cup X)
  BY DEF SlotsApart, SlotApart
<1> QED
  BY <1>1, <1>2, <1>3

\* The slots hold nothing, or numbers that arrived.
Filled(P, n) == \A c \in Consumers : P[c] = NoContent \/ P[c].id \in 1 .. n

\* A content arrives and waits, or the queue is done with it at once.
LEMMA PlacesArrive ==
    ASSUME NEW I, NEW h, NEW P, NEW k, NEW C, NEW n \in Nat,
           Placed(I, h, P, C, n), Apart3(I, h, C), SlotsApart(I, h, P, k, C),
           I \subseteq 1 .. n, C \subseteq 1 .. n, h \in 0 .. n, Filled(P, n)
    PROVE  /\ Placed(I \cup {n + 1}, h, P, C, n + 1)
           /\ Apart3(I \cup {n + 1}, h, C)
           /\ SlotsApart(I \cup {n + 1}, h, P, k, C)
           /\ Placed(I, h, P, C \cup {n + 1}, n + 1)
           /\ Apart3(I, h, C \cup {n + 1})
           /\ SlotsApart(I, h, P, k, C \cup {n + 1})
<1>1. \A id \in 1 .. (n + 1) : id \in 1 .. n \/ id = n + 1
  OBVIOUS
<1>2. n + 1 \notin I /\ n + 1 \notin C /\ n + 1 # h
  OBVIOUS
<1>3. \A c \in Consumers : P[c] # NoContent => P[c].id # n + 1
  BY DEF Filled
<1>4. Placed(I \cup {n + 1}, h, P, C, n + 1) /\ Placed(I, h, P, C \cup {n + 1}, n + 1)
  BY <1>1 DEF Placed
<1>5. Apart3(I \cup {n + 1}, h, C) /\ Apart3(I, h, C \cup {n + 1})
  BY <1>2 DEF Apart3
<1>6. SlotsApart(I \cup {n + 1}, h, P, k, C) /\ SlotsApart(I, h, P, k, C \cup {n + 1})
  BY <1>2, <1>3 DEF SlotsApart, SlotApart
<1> QED
  BY <1>4, <1>5, <1>6

\* The loop takes a content of the list in its empty hand.
LEMMA PlacesTake ==
    ASSUME NEW I, NEW P, NEW k, NEW C, NEW n \in Nat,
           Placed(I, 0, P, C, n), Apart3(I, 0, C), SlotsApart(I, 0, P, k, C), NEW x \in I
    PROVE  /\ Placed(I \ {x}, x, P, C, n)
           /\ Apart3(I \ {x}, x, C)
           /\ SlotsApart(I \ {x}, x, P, k, C)
<1>1. Placed(I \ {x}, x, P, C, n)
  BY DEF Placed
<1>2. Apart3(I \ {x}, x, C)
  BY DEF Apart3
<1>3. SlotsApart(I \ {x}, x, P, k, C)
  BY DEF SlotsApart, SlotApart
<1> QED
  BY <1>1, <1>2, <1>3

\* The loop puts down a content that the queue is done with.
LEMMA PlacesPutDown ==
    ASSUME NEW I, NEW h, NEW P, NEW k, NEW C, NEW n \in Nat,
           Placed(I, h, P, C, n), Apart3(I, h, C), SlotsApart(I, h, P, k, C),
           I \subseteq 1 .. n, C \subseteq 1 .. n, h \in 1 .. n, Filled(P, n)
    PROVE  /\ Placed(I, 0, P, C \cup {h}, n)
           /\ Apart3(I, 0, C \cup {h})
           /\ SlotsApart(I, 0, P, k, C \cup {h})
<1>1. 0 \notin I /\ 0 \notin C /\ h # 0
  OBVIOUS
<1>2. \A c \in Consumers : P[c] # NoContent => P[c].id # 0
  BY DEF Filled
<1>3. Placed(I, 0, P, C \cup {h}, n)
  BY DEF Placed
<1>4. Apart3(I, 0, C \cup {h})
  BY <1>1 DEF Apart3
<1>5. SlotsApart(I, 0, P, k, C \cup {h})
  BY <1>2 DEF SlotsApart, SlotApart
<1> QED
  BY <1>3, <1>4, <1>5

\* What becomes of the content that consumer c lets go of: with L = {} it has
\* another place, or c holds nothing; otherwise it has none, and is lost.
LetGo(L, c, I, h, P, C) ==
    /\ L \subseteq {P[c].id}
    /\ L = {} => \/ P[c] = NoContent \/ P[c].id \in I \/ P[c].id = h \/ P[c].id \in C
                 \/ \E d \in Consumers \ {c} : P[d].id = P[c].id
    /\ L # {} => /\ P[c] # NoContent /\ P[c].id \notin I /\ P[c].id # h
                 /\ \A d \in Consumers \ {c} : P[d].id # P[c].id

\* The loop gives the content in hand to consumer c, which lets go of another.
LEMMA PlacesHold ==
    ASSUME NEW I, NEW h, NEW P \in [Consumers -> Content], NEW k, NEW C, NEW n \in Nat,
           Placed(I, h, P, C, n), Apart3(I, h, C), SlotsApart(I, h, P, k, C),
           I \subseteq 1 .. n, C \subseteq 1 .. n, h \in 1 .. n, Filled(P, n), NoContent.id = 0,
           NEW c \in Consumers, NEW x \in Content, x.id = h, NEW L, LetGo(L, c, I, h, P, C)
    PROVE  /\ Placed(I, 0, [P EXCEPT ![c] = x], C \cup L, n)
           /\ Apart3(I, 0, C \cup L)
           /\ SlotsApart(I, 0, [P EXCEPT ![c] = x], k, C \cup L)
           /\ C \cup L \subseteq 1 .. n
<1> DEFINE Q == [P EXCEPT ![c] = x]
<1>1. Q[c] = x /\ \A d \in Consumers \ {c} : Q[d] = P[d]
  OBVIOUS
<1> HIDE DEF Q
<1>2. 0 \notin I /\ 0 \notin C /\ h # 0
  OBVIOUS
<1>3. \A d \in Consumers : P[d] # NoContent => P[d].id \in 1 .. n /\ P[d].id # 0
  BY DEF Filled
<1>4. 0 \notin L /\ L \subseteq 1 .. n /\ h \notin L
  BY <1>3 DEF LetGo
<1>5. Placed(I, 0, Q, C \cup L, n)
  <2> SUFFICES ASSUME NEW id \in 1 .. n
               PROVE  id \in I \/ 0 = id \/ id \in C \cup L \/ \E d \in Consumers : Q[d].id = id
    BY DEF Placed
  <2>1. CASE id \in I \/ id \in C
    BY <2>1
  <2>2. CASE id = h
    BY <1>1, <2>2
  <2>3. CASE \E d \in Consumers \ {c} : P[d].id = id
    BY <1>1, <2>3
  <2>4. CASE id = P[c].id
    <3>1. P[c] # NoContent
      BY <2>4
    <3>2. CASE L = {}
      BY <2>1, <2>2, <2>3, <2>4, <3>1, <3>2 DEF LetGo
    <3>3. CASE L # {}
      BY <2>4, <3>3 DEF LetGo
    <3> QED
      BY <3>2, <3>3
  <2> QED
    BY <2>1, <2>2, <2>3, <2>4 DEF Placed
<1>6. Apart3(I, 0, C \cup L)
  BY <1>2, <1>4 DEF Apart3, LetGo
<1>7. ASSUME NEW d \in Consumers \ {k}, Q[d] # NoContent
      PROVE  SlotApart(d, I, 0, Q, k, C \cup L)
  <2>1. CASE d = c
    <3>1. h \notin I /\ h \notin C
      BY DEF Apart3
    <3>2. \A e \in Consumers \ {c, k} : P[e].id # h
      BY <1>2 DEF SlotsApart, SlotApart
    <3> QED
      BY <1>1, <1>2, <1>4, <2>1, <3>1, <3>2 DEF SlotApart
  <2>2. CASE d # c
    <3>1. Q[d] = P[d] /\ P[d] # NoContent /\ SlotApart(d, I, h, P, k, C)
      BY <1>1, <1>7, <2>2 DEF SlotsApart
    <3>2. P[d].id \notin L
      BY <2>2 DEF LetGo
    <3>3. P[d].id # h
      BY <3>1 DEF SlotApart
    <3>4. \A e \in Consumers \ {d, k} : Q[e].id # Q[d].id
      BY <1>1, <3>1, <3>3 DEF SlotApart
    <3> QED
      BY <1>3, <3>1, <3>2, <3>4 DEF SlotApart
  <2> QED
    BY <2>1, <2>2
<1>8. SlotsApart(I, 0, Q, k, C \cup L)
  BY <1>7 DEF SlotsApart, SlotApart
<1> QED
  BY <1>4, <1>5, <1>6, <1>8 DEF Q

\* The consumer being cancelled is emptied, and its cancel is over.
LEMMA PlacesFinish ==
    ASSUME NEW I, NEW P \in [Consumers -> Content], NEW C, NEW n \in Nat,
           NEW c \in Consumers,
           Placed(I, 0, P, C, n), Apart3(I, 0, C), SlotsApart(I, 0, P, c, C),
           I \subseteq 1 .. n, C \subseteq 1 .. n, Filled(P, n), NoContent.id = 0,
           NEW L, LetGo(L, c, I, 0, P, C)
    PROVE  /\ Placed(I, 0, [P EXCEPT ![c] = NoContent], C \cup L, n)
           /\ Apart3(I, 0, C \cup L)
           /\ SlotsApart(I, 0, [P EXCEPT ![c] = NoContent], Nobody, C \cup L)
           /\ C \cup L \subseteq 1 .. n
<1> DEFINE Q == [P EXCEPT ![c] = NoContent]
<1>1. Q[c] = NoContent /\ \A d \in Consumers \ {c} : Q[d] = P[d]
  OBVIOUS
<1> HIDE DEF Q
<1>3. \A d \in Consumers : P[d] # NoContent => P[d].id \in 1 .. n /\ P[d].id # 0
  BY DEF Filled
<1>4. 0 \notin L /\ L \subseteq 1 .. n
  BY <1>3 DEF LetGo
<1>5. Placed(I, 0, Q, C \cup L, n)
  <2> SUFFICES ASSUME NEW id \in 1 .. n
               PROVE  id \in I \/ 0 = id \/ id \in C \cup L \/ \E d \in Consumers : Q[d].id = id
    BY DEF Placed
  <2>1. CASE id \in I \/ id \in C
    BY <2>1
  <2>3. CASE \E d \in Consumers \ {c} : P[d].id = id
    BY <1>1, <2>3
  <2>4. CASE id = P[c].id
    <3>1. P[c] # NoContent /\ id # 0
      BY <2>4
    <3>2. CASE L = {}
      BY <2>1, <2>3, <2>4, <3>1, <3>2 DEF LetGo
    <3>3. CASE L # {}
      BY <2>4, <3>3 DEF LetGo
    <3> QED
      BY <3>2, <3>3
  <2> QED
    BY <2>1, <2>3, <2>4 DEF Placed
<1>6. Apart3(I, 0, C \cup L)
  BY <1>4 DEF Apart3, LetGo
<1>7. ASSUME NEW d \in Consumers, Q[d] # NoContent
      PROVE  SlotApart(d, I, 0, Q, Nobody, C \cup L)
  <2>1. d # c /\ Q[d] = P[d] /\ P[d] # NoContent /\ SlotApart(d, I, 0, P, c, C)
    BY <1>1, <1>7 DEF SlotsApart
  <2>2. P[d].id \notin L
    BY <2>1 DEF LetGo
  <2>3. \A e \in Consumers \ {d, Nobody} : Q[e].id # Q[d].id
    BY <1>1, <1>3, <2>1 DEF SlotApart
  <2> QED
    BY <2>1, <2>2, <2>3 DEF SlotApart
<1>8. SlotsApart(I, 0, Q, Nobody, C \cup L)
  BY <1>7 DEF SlotsApart, SlotApart
<1> QED
  BY <1>4, <1>5, <1>6, <1>8 DEF Q

\* The queue is done with the content of consumer c, by its acknowledgement or
\* because the queue is being destroyed, while no cancel runs.
LEMMA PlacesSettle ==
    ASSUME NEW I, NEW h, NEW P \in [Consumers -> Content], NEW C, NEW n \in Nat,
           NEW c \in Consumers, P[c] # NoContent,
           Placed(I, h, P, C, n), Apart3(I, h, C), SlotsApart(I, h, P, Nobody, C),
           Filled(P, n), NoContent.id = 0
    PROVE  /\ Placed(I, h, [P EXCEPT ![c] = NoContent], C \cup {P[c].id}, n)
           /\ Apart3(I, h, C \cup {P[c].id})
           /\ SlotsApart(I, h, [P EXCEPT ![c] = NoContent], Nobody, C \cup {P[c].id})
           /\ P[c].id \in 1 .. n
<1> DEFINE Q == [P EXCEPT ![c] = NoContent]
<1>1. Q[c] = NoContent /\ \A d \in Consumers \ {c} : Q[d] = P[d]
  OBVIOUS
<1> HIDE DEF Q
<1>2. SlotApart(c, I, h, P, Nobody, C) /\ c # Nobody
  BY ConstantsAssumption DEF SlotsApart
<1>3. \A d \in Consumers : P[d] # NoContent => P[d].id \in 1 .. n /\ P[d].id # 0
  BY DEF Filled
<1>4. Placed(I, h, Q, C \cup {P[c].id}, n)
  BY <1>1 DEF Placed
<1>5. Apart3(I, h, C \cup {P[c].id})
  BY <1>2 DEF Apart3, SlotApart
<1>6. ASSUME NEW d \in Consumers, Q[d] # NoContent
      PROVE  SlotApart(d, I, h, Q, Nobody, C \cup {P[c].id})
  <2>1. d # c /\ d # Nobody /\ Q[d] = P[d] /\ SlotApart(d, I, h, P, Nobody, C)
    BY <1>1, <1>6, ConstantsAssumption DEF SlotsApart
  <2>2. P[d].id # P[c].id
    BY <1>2, <2>1 DEF SlotApart
  <2>3. \A e \in Consumers \ {d, Nobody} : Q[e].id # Q[d].id
    BY <1>1, <1>3, <1>6, <2>1 DEF SlotApart
  <2> QED
    BY <1>6, <2>1, <2>2, <2>3 DEF SlotApart
<1>7. SlotsApart(I, h, Q, Nobody, C \cup {P[c].id})
  BY <1>6 DEF SlotsApart, SlotApart
<1> QED
  BY <1>3, <1>4, <1>5, <1>7 DEF Q

\* The cancel of consumer c begins: what c holds goes back to the list.
LEMMA PlacesBack ==
    ASSUME NEW I, NEW P, NEW C, NEW n \in Nat, NEW c \in Consumers, P[c] # NoContent,
           Placed(I, 0, P, C, n), Apart3(I, 0, C), SlotsApart(I, 0, P, Nobody, C),
           Filled(P, n)
    PROVE  /\ P[c].id \notin I
           /\ Placed(I \cup {P[c].id}, 0, P, C, n)
           /\ Apart3(I \cup {P[c].id}, 0, C)
           /\ SlotsApart(I \cup {P[c].id}, 0, P, c, C)
<1>1. SlotApart(c, I, 0, P, Nobody, C) /\ P[c].id # 0
  BY ConstantsAssumption DEF SlotsApart, Filled
<1>2. Placed(I \cup {P[c].id}, 0, P, C, n)
  BY DEF Placed
<1>3. Apart3(I \cup {P[c].id}, 0, C)
  BY <1>1 DEF Apart3, SlotApart
<1>4. ASSUME NEW d \in Consumers \ {c}, P[d] # NoContent
      PROVE  SlotApart(d, I \cup {P[c].id}, 0, P, c, C)
  <2>1. SlotApart(d, I, 0, P, Nobody, C) /\ P[d].id # P[c].id
    BY <1>1, <1>4, ConstantsAssumption DEF SlotsApart, SlotApart
  <2>2. \A e \in Consumers \ {d, c} : e \in Consumers \ {d, Nobody}
    BY ConstantsAssumption
  <2> QED
    BY <1>4, <2>1, <2>2 DEF SlotApart
<1>5. SlotsApart(I \cup {P[c].id}, 0, P, c, C)
  BY <1>4 DEF SlotsApart, SlotApart
<1> QED
  BY <1>1, <1>2, <1>3, <1>5 DEF SlotApart

-----------------------------------------------------------------------------
(* One place is an invariant                                               *)

\* The types and ranges that the lemmas above ask for.
LEMMA HomeTypes ==
    ASSUME TypeOK, OrderInv
    PROVE  /\ content_list \in Seq(Content) /\ accepted \in Nat
           /\ pending \in [Consumers -> Content]
           /\ Ids(content_list) \subseteq 1 .. accepted
           /\ hand.id \in 0 .. accepted
           /\ Filled(pending, accepted)
           /\ NoContent.id = 0
<1>1. content_list \in Seq(Content) /\ accepted \in Nat /\ pending \in [Consumers -> Content]
  BY DEF TypeOK, QueueTypeOK, HistoryTypeOK, ConsumerTypeOK
<1>2. Ids(content_list) \subseteq 1 .. accepted
  BY DEF OrderInv, Numbered, Arrived, Ids
<1>3. Filled(pending, accepted)
  BY DEF OrderInv, Numbered, Filled
<1> QED
  BY <1>1, <1>2, <1>3, OrderTypes

\* A step that moves no content.
LEMMA QuietHome ==
    ASSUME HomeInv, UNCHANGED <<content_list, hand, pending, accepted, settled, lost>>,
           UNCHANGED cancelling, step' \in {"idle", "stop"} => cancelling = Nobody
    PROVE  HomeInv'
<1>1. Closed' = Closed /\ Ids(content_list)' = Ids(content_list)
  BY DEF Closed, Ids
<1>2. Placed(Ids(content_list), hand.id, pending, Closed, accepted)'
  BY <1>1 DEF HomeInv, Placed
<1>3. Apart3(Ids(content_list), hand.id, Closed)'
  BY <1>1 DEF HomeInv, Apart3
<1>4. SlotsApart(Ids(content_list), hand.id, pending, cancelling, Closed)'
  BY <1>1 DEF HomeInv, SlotsApart, SlotApart
<1> QED
  BY <1>1, <1>2, <1>3, <1>4 DEF HomeInv, Distinct

\* The steps that move no content.
LEMMA QuietHomeStep ==
    ASSUME TypeOK, SpendCovered, HomeInv,
           \/ PostPublish \/ PostGet \/ PostPurge \/ PostDelete \/ AutoDeleteEvent
           \/ \E c \in Consumers : ChannelCredits(c) \/ ChannelCancel(c) \/ ChannelCancelled(c)
           \/ \E ch \in Channels :
               \/ ChannelAck(ch) \/ ChannelDestroy(ch) \/ ChannelUnlink(ch)
               \/ SendContent(ch) \/ EarnTest(ch)
               \/ \E on \in BOOLEAN : ChannelFlow(ch, on)
           \/ HandleConsume \/ HandleDispatch \/ HandleSelfDestruct \/ StopFinish
    PROVE  HomeInv'
<1>1. UNCHANGED <<content_list, hand, pending, accepted, settled, lost, cancelling>>
  BY DEF PostPublish, PostGet, PostPurge, PostDelete, AutoDeleteEvent,
         ChannelCredits, ChannelConsume, ChannelFindsZero, ChannelJoins, ChannelCancel,
         ChannelCancelled, ChannelAck, ChannelDestroy,
         ChannelUnlink, SendContent, EarnTest, ChannelFlow, HandleConsume, HandleDispatch,
         HandleSelfDestruct, StopFinish, queueVars, loopVars, historyVars, consumerVars
<1>2. step' = step \/ step \in {"idle", "stop"}
  BY DEF PostPublish, PostGet, PostPurge, PostDelete, AutoDeleteEvent,
         ChannelCredits, ChannelConsume, ChannelFindsZero, ChannelJoins, ChannelCancel,
         ChannelCancelled, ChannelAck, ChannelDestroy,
         ChannelUnlink, SendContent, EarnTest, ChannelFlow, HandleConsume, HandleDispatch,
         HandleSelfDestruct, StopFinish, loopVars, Take
<1>3. step' \in {"idle", "stop"} => cancelling = Nobody
  BY <1>2 DEF HomeInv
<1> QED
  BY <1>1, <1>3, QuietHome

\* A publish places its content, and closes the one it trims.
LEMMA PublishHome ==
    ASSUME TypeOK, OrderInv, HomeInv, HandlePublish
    PROVE  HomeInv'
<1> DEFINE content == [id |-> accepted + 1, producer |-> Head(mailbox).who]
           kept == IF Trimming THEN Tail(content_list) ELSE content_list
           X == IF Trimming THEN {Head(content_list).id} ELSE {}
<1>1. /\ UNCHANGED <<hand, pending, lost, cancelling>> /\ accepted' = accepted + 1
      /\ step \in {"idle", "stop"}
  BY DEF HandlePublish, consumerVars, Take
<1>2. \/ content_list' = kept /\ Closed' = (Closed \cup X) \cup {accepted + 1}
      \/ content_list' = Append(kept, content) /\ Closed' = Closed \cup X
  BY <1>1 DEF HandlePublish, Closed
<1>3. content \in Content /\ content.id = accepted + 1
  <2>1. Head(mailbox).who \in Channels
    BY HeadType DEF HandlePublish
  <2> QED
    BY <2>1, HomeTypes DEF Content
<1>4. /\ kept \in Seq(Content) /\ Distinct(kept)
      /\ Ids(kept) = Ids(content_list) \ X /\ X \subseteq Ids(content_list)
  <2>1. Trimming => content_list # <<>>
    BY OrderTypes, ConstantsAssumption DEF Trimming, Over
  <2>2. CASE Trimming
    <3>1. /\ Head(content_list).id \in Ids(content_list)
          /\ Ids(Tail(content_list)) = Ids(content_list) \ {Head(content_list).id}
          /\ Distinct(Tail(content_list))
      BY <2>1, <2>2, HomeTypes, IdsTail DEF HomeInv
    <3> QED
      BY <2>1, <2>2, <3>1, HomeTypes
  <2>3. CASE ~Trimming
    BY <2>3, HomeTypes DEF HomeInv
  <2> QED
    BY <2>2, <2>3
<1> HIDE DEF content, kept, X
<1>5. /\ Placed(Ids(kept), hand.id, pending, Closed \cup X, accepted)
      /\ Apart3(Ids(kept), hand.id, Closed \cup X)
      /\ SlotsApart(Ids(kept), hand.id, pending, cancelling, Closed \cup X)
  <2>1. /\ Placed(Ids(content_list) \ X, hand.id, pending, Closed \cup X, accepted)
        /\ Apart3(Ids(content_list) \ X, hand.id, Closed \cup X)
        /\ SlotsApart(Ids(content_list) \ X, hand.id, pending, cancelling, Closed \cup X)
    <3>1. X \in SUBSET Ids(content_list) /\ accepted \in Nat
      BY <1>4, HomeTypes
    <3> QED
      BY <3>1, PlacesClose DEF HomeInv
  <2> QED
    BY <1>4, <2>1
<1>6. Ids(kept) \subseteq 1 .. accepted /\ Closed \cup X \subseteq 1 .. accepted
  BY <1>4, HomeTypes DEF HomeInv
<1>7. /\ Placed(Ids(kept) \cup {accepted + 1}, hand.id, pending, Closed \cup X, accepted + 1)
      /\ Apart3(Ids(kept) \cup {accepted + 1}, hand.id, Closed \cup X)
      /\ SlotsApart(Ids(kept) \cup {accepted + 1}, hand.id, pending, cancelling, Closed \cup X)
      /\ Placed(Ids(kept), hand.id, pending, (Closed \cup X) \cup {accepted + 1}, accepted + 1)
      /\ Apart3(Ids(kept), hand.id, (Closed \cup X) \cup {accepted + 1})
      /\ SlotsApart(Ids(kept), hand.id, pending, cancelling, (Closed \cup X) \cup {accepted + 1})
  BY <1>5, <1>6, HomeTypes, PlacesArrive
<1>8. cancelling' = Nobody
  BY <1>1 DEF HomeInv
<1>9. CASE content_list' = kept /\ Closed' = (Closed \cup X) \cup {accepted + 1}
  <2>1. Ids(content_list)' = Ids(kept) /\ Distinct(content_list)'
    BY <1>4, <1>9 DEF Ids, Distinct
  <2>2. Closed' \subseteq 1 .. accepted'
    BY <1>1, <1>6, <1>9, HomeTypes
  <2> QED
    BY <1>1, <1>7, <1>8, <1>9, <2>1, <2>2 DEF HomeInv
<1>10. CASE content_list' = Append(kept, content) /\ Closed' = Closed \cup X
  <2>1. accepted + 1 \notin Ids(kept)
    BY <1>6, HomeTypes
  <2>2. Ids(Append(kept, content)) = Ids(kept) \cup {accepted + 1} /\ Distinct(Append(kept, content))
    BY <1>3, <1>4, <2>1, IdsAppend
  <2>3. Ids(content_list)' = Ids(kept) \cup {accepted + 1} /\ Distinct(content_list)'
    BY <1>10, <2>2 DEF Ids, Distinct
  <2>4. Closed' \subseteq 1 .. accepted'
    BY <1>1, <1>6, <1>10, HomeTypes
  <2> QED
    BY <1>1, <1>7, <1>8, <1>10, <2>3, <2>4 DEF HomeInv
<1> QED
  BY <1>2, <1>9, <1>10

\* The queue is done with the head, or with the whole list: a get, a purge, or a
\* content that the loop finds nobody wants.
LEMMA CloseHome ==
    ASSUME TypeOK, OrderInv, HomeInv, HandleGet \/ HandlePurge
    PROVE  HomeInv'
<1>1. UNCHANGED <<hand, pending, accepted, cancelling, step>>
  BY DEF HandleGet, HandlePurge, loopVars, consumerVars
<1>2. CASE content_list' = content_list /\ Closed' = Closed
  <2>1. Ids(content_list)' = Ids(content_list) /\ Distinct(content_list)'
    BY <1>2 DEF Ids, Distinct, HomeInv
  <2> QED
    BY <1>1, <1>2, <2>1 DEF HomeInv
<1>3. ASSUME NEW X \in SUBSET Ids(content_list), Closed' = Closed \cup X,
             Ids(content_list)' = Ids(content_list) \ X, Distinct(content_list)'
      PROVE  HomeInv'
  <2>1. /\ Placed(Ids(content_list) \ X, hand.id, pending, Closed \cup X, accepted)
        /\ Apart3(Ids(content_list) \ X, hand.id, Closed \cup X)
        /\ SlotsApart(Ids(content_list) \ X, hand.id, pending, cancelling, Closed \cup X)
    BY HomeTypes, PlacesClose DEF HomeInv
  <2>2. Closed' \subseteq 1 .. accepted
    BY <1>3, HomeTypes DEF HomeInv
  <2> QED
    BY <1>1, <1>3, <2>1, <2>2 DEF HomeInv
<1>4. CASE HandlePurge
  <2>1. content_list' = <<>> /\ Closed' = Closed \cup Ids(content_list)
    BY <1>4 DEF HandlePurge, Closed, Ids
  <2>2. Ids(<<>>) = {} /\ Distinct(<<>>)
    BY DEF Ids, Distinct
  <2>3. Ids(content_list)' = Ids(content_list) \ Ids(content_list) /\ Distinct(content_list)'
    BY <2>1, <2>2 DEF Ids, Distinct
  <2> QED
    BY <1>3, <2>1, <2>3
<1>5. CASE HandleGet /\ content_list # <<>>
  <2>1. content_list' = Tail(content_list) /\ Closed' = Closed \cup {Head(content_list).id}
    BY <1>5 DEF HandleGet, Closed
  <2>2. /\ Head(content_list).id \in Ids(content_list)
        /\ Ids(Tail(content_list)) = Ids(content_list) \ {Head(content_list).id}
        /\ Distinct(Tail(content_list))
    BY <1>5, HomeTypes, IdsTail DEF HomeInv
  <2>3. Ids(content_list)' = Ids(content_list) \ {Head(content_list).id} /\ Distinct(content_list)'
    BY <2>1, <2>2 DEF Ids, Distinct
  <2> QED
    BY <1>3, <2>1, <2>2, <2>3
<1>6. CASE HandleGet /\ content_list = <<>>
  <2>1. content_list' = content_list /\ Closed' = Closed
    BY <1>6 DEF HandleGet, Closed
  <2> QED
    BY <1>2, <2>1
<1> QED
  BY <1>4, <1>5, <1>6

\* An acknowledgement settles what the consumer holds.
LEMMA AckHome ==
    ASSUME TypeOK, OrderInv, HomeInv, HandleAck
    PROVE  HomeInv'
<1> DEFINE c == Head(mailbox).who
<1>1. UNCHANGED <<content_list, hand, accepted, cancelling, lost>> /\ cancelling = Nobody
  BY DEF HandleAck, queueVars, Take, HomeInv
<1>2. c \in Consumers
  BY HeadType DEF HandleAck
<1>3. CASE pending[c] = NoContent
  BY <1>1, <1>3, QuietHome DEF HandleAck
<1>4. CASE pending[c] # NoContent
  <2>1. /\ pending' = [pending EXCEPT ![c] = NoContent]
        /\ Closed' = Closed \cup {pending[c].id}
    BY <1>1, <1>4 DEF HandleAck, Released, Closed
  <2> HIDE DEF c
  <2>2. /\ Placed(Ids(content_list), hand.id, pending', Closed', accepted)
        /\ Apart3(Ids(content_list), hand.id, Closed')
        /\ SlotsApart(Ids(content_list), hand.id, pending', Nobody, Closed')
        /\ pending[c].id \in 1 .. accepted
    BY <1>1, <1>2, <1>4, <2>1, HomeTypes, PlacesSettle DEF HomeInv
  <2>3. Ids(content_list)' = Ids(content_list) /\ Distinct(content_list)'
    BY <1>1 DEF Ids, Distinct, HomeInv
  <2>4. Closed' \subseteq 1 .. accepted'
    BY <1>1, <2>1, <2>2 DEF HomeInv
  <2> QED
    BY <1>1, <2>2, <2>3, <2>4 DEF HomeInv
<1> QED
  BY <1>3, <1>4

\* The destruction of the queue settles what its consumers hold.
LEMMA StopHome ==
    ASSUME TypeOK, OrderInv, HomeInv, StopConsumer
    PROVE  HomeInv'
<1> DEFINE c == Head(consumer_list)
<1>1. /\ UNCHANGED <<content_list, hand, accepted, cancelling, lost, step>>
      /\ cancelling = Nobody
      /\ pending' = [pending EXCEPT ![c] = NoContent]
  BY DEF StopConsumer, loopVars, HomeInv, Released
<1>2. c \in Consumers
  BY DEF StopConsumer, Stopped, TypeOK, QueueTypeOK
<1>3. Ids(content_list)' = Ids(content_list) /\ Distinct(content_list)'
  BY <1>1 DEF Ids, Distinct, HomeInv
<1>4. CASE pending[c] = NoContent
  <2>1. pending' = pending /\ settled' = settled
    BY <1>1, <1>2, <1>4, HomeTypes DEF StopConsumer
  <2> QED
    BY <1>1, <2>1, QuietHome DEF HomeInv
<1>5. CASE pending[c] # NoContent
  <2>1. Closed' = Closed \cup {pending[c].id}
    BY <1>1, <1>5 DEF StopConsumer, Closed
  <2> HIDE DEF c
  <2>2. /\ Placed(Ids(content_list), hand.id, pending', Closed', accepted)
        /\ Apart3(Ids(content_list), hand.id, Closed')
        /\ SlotsApart(Ids(content_list), hand.id, pending', Nobody, Closed')
        /\ pending[c].id \in 1 .. accepted
    BY <1>1, <1>2, <1>5, <2>1, HomeTypes, PlacesSettle DEF HomeInv
  <2>3. Closed' \subseteq 1 .. accepted'
    BY <1>1, <2>1, <2>2 DEF HomeInv
  <2> QED
    BY <1>1, <1>3, <2>2, <2>3 DEF HomeInv
<1> QED
  BY <1>4, <1>5

\* A cancel gives back what the consumer holds; its slot is not counted from here on.
LEMMA CancelHome ==
    ASSUME TypeOK, OrderInv, HomeInv, HandleCancel
    PROVE  HomeInv'
<1> DEFINE c == Head(mailbox).who
<1>1. /\ UNCHANGED <<hand, pending, accepted, settled, lost>> /\ cancelling = Nobody
      /\ cancelling' = c /\ Closed' = Closed /\ hand = NoContent /\ step' \notin {"idle", "stop"}
  BY DEF HandleCancel, consumerVars, historyVars, Take, HomeInv, Closed, OrderInv, Numbered
<1>2. c \in Consumers
  BY HeadType DEF HandleCancel
<1>3. CASE pending[c] = NoContent
  <2>1. content_list' = content_list
    BY <1>3 DEF HandleCancel
  <2>2. Ids(content_list)' = Ids(content_list) /\ Distinct(content_list)'
    BY <2>1 DEF Ids, Distinct, HomeInv
  <2>3. SlotsApart(Ids(content_list), hand.id, pending, c, Closed)
    BY ConstantsAssumption, <1>1, <1>2 DEF HomeInv, SlotsApart, SlotApart
  <2> QED
    BY <1>1, <2>2, <2>3 DEF HomeInv
<1>4. CASE pending[c] # NoContent
  <2>1. content_list' = <<pending[c]>> \o content_list
    BY <1>4 DEF HandleCancel, Requeued
  <2> HIDE DEF c
  <2>2. /\ Placed(Ids(content_list), 0, pending, Closed, accepted)
        /\ Apart3(Ids(content_list), 0, Closed)
        /\ SlotsApart(Ids(content_list), 0, pending, Nobody, Closed)
    BY <1>1, HomeTypes DEF HomeInv
  <2>3. /\ pending[c].id \notin Ids(content_list)
        /\ Placed(Ids(content_list) \cup {pending[c].id}, 0, pending, Closed, accepted)
        /\ Apart3(Ids(content_list) \cup {pending[c].id}, 0, Closed)
        /\ SlotsApart(Ids(content_list) \cup {pending[c].id}, 0, pending, c, Closed)
    BY <1>2, <1>4, <2>2, HomeTypes, PlacesBack
  <2>4. pending[c] \in Content
    BY <1>2, HomeTypes
  <2>5. /\ Ids(<<pending[c]>> \o content_list) = Ids(content_list) \cup {pending[c].id}
        /\ Distinct(<<pending[c]>> \o content_list)
    BY <2>3, <2>4, HomeTypes, IdsPush DEF HomeInv
  <2>6. Ids(content_list)' = Ids(content_list) \cup {pending[c].id} /\ Distinct(content_list)'
    BY <2>1, <2>5 DEF Ids, Distinct
  <2>7. hand'.id = 0 /\ pending' = pending
    BY <1>1, HomeTypes
  <2> QED
    BY <1>1, <2>3, <2>6, <2>7 DEF HomeInv
<1> QED
  BY <1>3, <1>4

\* What LostBy adds is what the consumer lets go of.
LEMMA LostByIs ==
    ASSUME TypeOK, NEW c \in Consumers
    PROVE  LetGo(LostBy(c), c, Ids(content_list), hand.id, pending, Closed)
<1>1. (\E i \in 1 .. Len(content_list) : content_list[i].id = pending[c].id)
        <=> pending[c].id \in Ids(content_list)
  BY DEF Ids
<1> QED
  BY <1>1 DEF LetGo, LostBy, Elsewhere, Closed

\* At the end of a cancel the slot is emptied.
LEMMA FinishHome ==
    ASSUME TypeOK, SpendCovered, OrderInv, HomeInv, CancelFinish
    PROVE  HomeInv'
<1> DEFINE c == cancelling
           L == LostBy(c)
<1>1. /\ UNCHANGED <<content_list, hand, accepted, settled>> /\ c \in Consumers
      /\ pending' = [pending EXCEPT ![c] = NoContent] /\ hand = NoContent
      /\ cancelling' = Nobody /\ Closed' = Closed \cup L
  BY DEF CancelFinish, SpendCovered, Closed, OrderInv, Numbered, Released
<1>2. LetGo(L, c, Ids(content_list), 0, pending, Closed)
  BY <1>1, LostByIs, HomeTypes
<1> HIDE DEF L
<1>3. /\ Placed(Ids(content_list), 0, pending, Closed, accepted)
      /\ Apart3(Ids(content_list), 0, Closed)
      /\ SlotsApart(Ids(content_list), 0, pending, c, Closed)
  BY <1>1, HomeTypes DEF HomeInv
<1> HIDE DEF c
<1>4. /\ Placed(Ids(content_list), 0, pending', Closed \cup L, accepted)
      /\ Apart3(Ids(content_list), 0, Closed \cup L)
      /\ SlotsApart(Ids(content_list), 0, pending', Nobody, Closed \cup L)
      /\ Closed \cup L \subseteq 1 .. accepted
  BY <1>1, <1>2, <1>3, HomeTypes, PlacesFinish DEF HomeInv
<1>5. Ids(content_list)' = Ids(content_list) /\ Distinct(content_list)'
  BY <1>1 DEF Ids, Distinct, HomeInv
<1>6. hand'.id = 0
  BY <1>1, HomeTypes
<1> QED
  BY <1>1, <1>4, <1>5, <1>6 DEF HomeInv

\* The loop takes the head in hand, closes it or leaves it.
LEMMA FindHome ==
    ASSUME TypeOK, SpendCovered, OrderInv, HomeInv, DispatchFind
    PROVE  HomeInv'
<1>1. /\ UNCHANGED <<pending, accepted, lost, cancelling>> /\ hand = NoContent /\ hand.id = 0
      /\ step' \in {"idle", "stop"} => cancelling = Nobody
  BY HomeTypes DEF DispatchFind, consumerVars, AfterLoop, OrderInv, Numbered
<1>2. CASE UNCHANGED <<content_list, hand, settled>>
  BY <1>1, <1>2, QuietHome
<1>3. ASSUME content_list # <<>>, content_list' = Tail(content_list)
      PROVE  /\ Head(content_list).id \in Ids(content_list)
             /\ Ids(content_list)' = Ids(content_list) \ {Head(content_list).id}
             /\ Distinct(content_list)'
  <2>1. /\ Head(content_list).id \in Ids(content_list)
        /\ Ids(Tail(content_list)) = Ids(content_list) \ {Head(content_list).id}
        /\ Distinct(Tail(content_list))
    BY <1>3, HomeTypes, IdsTail DEF HomeInv
  <2> QED
    BY <1>3, <2>1 DEF Ids, Distinct
<1>4. CASE /\ content_list # <<>> /\ content_list' = Tail(content_list)
           /\ UNCHANGED hand /\ settled' = settled \cup {Head(content_list).id}
  <2> DEFINE X == {Head(content_list).id}
  <2>1. Closed' = Closed \cup X /\ X \in SUBSET Ids(content_list) /\ accepted \in Nat
    BY <1>1, <1>3, <1>4, HomeTypes DEF Closed
  <2>2. /\ Placed(Ids(content_list) \ X, hand.id, pending, Closed \cup X, accepted)
        /\ Apart3(Ids(content_list) \ X, hand.id, Closed \cup X)
        /\ SlotsApart(Ids(content_list) \ X, hand.id, pending, cancelling, Closed \cup X)
    BY <2>1, PlacesClose DEF HomeInv
  <2>3. Closed' \subseteq 1 .. accepted'
    BY <1>1, <2>1, HomeTypes DEF HomeInv
  <2> QED
    BY <1>1, <1>3, <1>4, <2>1, <2>2, <2>3 DEF HomeInv
<1>5. CASE /\ content_list # <<>> /\ content_list' = Tail(content_list)
           /\ hand' = Head(content_list) /\ UNCHANGED settled
  <2> DEFINE x == Head(content_list).id
  <2>1. Closed' = Closed /\ x \in Ids(content_list) /\ accepted \in Nat
    BY <1>1, <1>3, <1>5, HomeTypes DEF Closed
  <2>2. /\ Placed(Ids(content_list), 0, pending, Closed, accepted)
        /\ Apart3(Ids(content_list), 0, Closed)
        /\ SlotsApart(Ids(content_list), 0, pending, cancelling, Closed)
    BY <1>1 DEF HomeInv
  <2>3. /\ Placed(Ids(content_list) \ {x}, x, pending, Closed, accepted)
        /\ Apart3(Ids(content_list) \ {x}, x, Closed)
        /\ SlotsApart(Ids(content_list) \ {x}, x, pending, cancelling, Closed)
    BY <2>1, <2>2, PlacesTake
  <2> QED
    BY <1>1, <1>3, <1>5, <2>1, <2>3 DEF HomeInv
<1> QED
  BY <1>2, <1>4, <1>5 DEF DispatchFind

\* The loop puts down what it has in hand: with a consumer, which may let go of
\* another content, or as settled or lost.
LEMMA DeliverHome ==
    ASSUME TypeOK, SpendCovered, OrderInv, HomeInv, DispatchDeliver
    PROVE  HomeInv'
<1> DEFINE I == Ids(content_list)
           h == hand.id
           L == LostBy(chosen)
<1>1. /\ UNCHANGED <<content_list, accepted, cancelling>> /\ step' = "find"
      /\ hand' = NoContent /\ hand'.id = 0 /\ chosen \in Consumers /\ hand \in Content
  BY OrderTypes DEF DispatchDeliver, SpendCovered
<1>2. h \in 1 .. accepted
  BY HomeTypes DEF DispatchDeliver, OrderInv, Numbered
<1>3. \/ pending' = pending /\ Closed' = Closed \cup {h}
      \/ pending' = [pending EXCEPT ![chosen] = hand] /\ Closed' = Closed \cup L
  BY DEF DispatchDeliver, Closed
<1>4. Ids(content_list)' = I /\ Distinct(content_list)'
  BY <1>1 DEF Ids, Distinct, HomeInv
<1>5. LetGo(L, chosen, I, h, pending, Closed)
  BY <1>1, LostByIs
<1>6. I \subseteq 1 .. accepted /\ Closed \subseteq 1 .. accepted /\ accepted \in Nat
      /\ pending \in [Consumers -> Content] /\ Filled(pending, accepted) /\ NoContent.id = 0
  BY HomeTypes DEF HomeInv
<1>7. /\ Placed(I, h, pending, Closed, accepted)
      /\ Apart3(I, h, Closed)
      /\ SlotsApart(I, h, pending, cancelling, Closed)
  BY DEF HomeInv
<1>8. hand.id = h
  OBVIOUS
<1> HIDE DEF I, h, L
<1>9. CASE pending' = pending /\ Closed' = Closed \cup {h}
  <2>1. /\ Placed(I, 0, pending, Closed \cup {h}, accepted)
        /\ Apart3(I, 0, Closed \cup {h})
        /\ SlotsApart(I, 0, pending, cancelling, Closed \cup {h})
    BY <1>2, <1>6, <1>7, PlacesPutDown
  <2>2. Closed' \subseteq 1 .. accepted'
    BY <1>1, <1>2, <1>6, <1>9
  <2> QED
    BY <1>1, <1>4, <1>9, <2>1, <2>2 DEF HomeInv
<1>10. CASE pending' = [pending EXCEPT ![chosen] = hand] /\ Closed' = Closed \cup L
  <2>1. /\ Placed(I, 0, [pending EXCEPT ![chosen] = hand], Closed \cup L, accepted)
        /\ Apart3(I, 0, Closed \cup L)
        /\ SlotsApart(I, 0, [pending EXCEPT ![chosen] = hand], cancelling, Closed \cup L)
        /\ Closed \cup L \subseteq 1 .. accepted
    BY <1>1, <1>2, <1>5, <1>6, <1>7, <1>8, PlacesHold
  <2> QED
    BY <1>1, <1>4, <1>10, <2>1 DEF HomeInv
<1> QED
  BY <1>3, <1>9, <1>10

\* Nothing has a place in the initial state.
LEMMA HomeInit == Init => HomeInv
<1> SUFFICES ASSUME Init PROVE HomeInv
  OBVIOUS
<1>1. /\ content_list = <<>> /\ accepted = 0 /\ settled = {} /\ lost = {}
      /\ step = "idle" /\ hand = NoContent /\ cancelling = Nobody
      /\ \A c \in Consumers : pending[c] = NoContent
  BY DEF Init
<1>2. Closed = {} /\ Ids(content_list) = {} /\ Distinct(content_list) /\ 1 .. accepted = {}
  BY <1>1 DEF Closed, Ids, Distinct
<1>3. Placed({}, hand.id, pending, {}, accepted) /\ Apart3({}, hand.id, {})
  BY <1>2 DEF Placed, Apart3
<1>4. SlotsApart({}, hand.id, pending, cancelling, {})
  BY <1>1 DEF SlotsApart, SlotApart
<1> QED
  BY <1>1, <1>2, <1>3, <1>4 DEF HomeInv

\* Every step keeps one place per content.
LEMMA HomeNext == TypeOK /\ SpendCovered /\ OrderInv /\ HomeInv /\ [Next]_vars => HomeInv'
<1> SUFFICES ASSUME TypeOK, SpendCovered, OrderInv, HomeInv, [Next]_vars PROVE HomeInv'
  OBVIOUS
<1>1. CASE HandlePublish
  BY <1>1, PublishHome
<1>2. CASE HandleGet \/ HandlePurge
  BY <1>2, CloseHome
<1>3. CASE HandleAck
  BY <1>3, AckHome
<1>4. CASE HandleCancel
  BY <1>4, CancelHome
<1>5. CASE CancelFinish
  BY <1>5, FinishHome
<1>6. CASE StopConsumer
  BY <1>6, StopHome
<1>7. CASE DispatchFind
  BY <1>7, FindHome
<1>8. CASE DispatchDeliver
  BY <1>8, DeliverHome
<1>9. CASE UNCHANGED vars
  BY <1>9, QuietHome DEF vars, queueVars, loopVars, consumerVars, historyVars, HomeInv
<1> QED
  BY <1>1, <1>2, <1>3, <1>4, <1>5, <1>6, <1>7, <1>8, <1>9, QuietHomeStep DEF Next, QueueThread

\* The invariant says what OneHome says.
LEMMA HomeImplies == TypeOK /\ OrderInv /\ HomeInv => OneHome
<1> SUFFICES ASSUME TypeOK, OrderInv, HomeInv PROVE OneHome
  OBVIOUS
<1>1. \A id : InList(id) <=> id \in Ids(content_list)
  BY DEF InList, Ids
<1>2. \A id \in 1 .. accepted :
        InList(id) \/ hand.id = id \/ id \in Closed \/ \E c \in Consumers : HeldBy(c, id)
  BY <1>1 DEF HomeInv, Placed, HeldBy
<1>3. \A i \in 1 .. Len(content_list) :
        content_list[i].id # hand.id /\ content_list[i].id \notin Closed
  BY DEF HomeInv, Apart3, Ids
<1>4. \A c \in Consumers \ {cancelling} : pending[c] # NoContent =>
        /\ ~InList(pending[c].id) /\ pending[c].id # hand.id
        /\ pending[c].id \notin Closed
        /\ \A d \in Consumers \ {c, cancelling} : pending[d].id # pending[c].id
  BY <1>1 DEF HomeInv, SlotsApart, SlotApart
<1>5. hand.id \notin Closed
  BY DEF HomeInv, Apart3
<1> QED
  BY <1>2, <1>3, <1>4, <1>5 DEF HomeInv, Distinct, OneHome

\* What a consumer lets go of, it was given.
LEMMA LostBySent ==
    ASSUME OrderInv, NEW c \in Consumers
    PROVE  LostBy(c) \subseteq sent
BY DEF LostBy, OrderInv, Numbered

\* The steps that let go of a content.
LEMMA LostStep ==
    ASSUME [Next]_vars, ~HandleGet, ~CancelFinish, ~DispatchDeliver
    PROVE  lost' = lost
<1>1. CASE QueueThread
  BY <1>1 DEF QueueThread, HandlePublish, HandlePurge, HandleConsume, HandleDispatch, HandleAck,
              HandleCancel, HandleSelfDestruct, StopConsumer, StopFinish, DispatchFind,
              historyVars
<1>2. CASE UNCHANGED vars
  BY <1>2 DEF vars, historyVars
<1>3. CASE Next /\ ~QueueThread
  BY <1>3 DEF Next, PostPublish, PostGet, PostPurge, PostDelete, AutoDeleteEvent, ChannelCredits,
              ChannelConsume, ChannelFindsZero, ChannelJoins, ChannelCancel, ChannelCancelled,
              ChannelAck, ChannelDestroy, ChannelUnlink, SendContent, EarnTest, ChannelFlow,
              historyVars
<1> QED
  BY <1>1, <1>2, <1>3

\* What was given to a client stays given, and a dead connection stays dead.
LEMMA SentAndDeadStay ==
    ASSUME TypeOK, [Next]_vars
    PROVE  /\ sent \subseteq sent'
           /\ \A ch \in Channels : conn[ch] = "dead" => conn'[ch] = "dead"
<1>1. conn \in [Channels -> {"open", "closing", "dead"}]
  BY DEF TypeOK, ChannelTypeOK
<1>2. sent \subseteq sent'
  <2>1. CASE QueueThread
    BY <2>1 DEF QueueThread, HandlePublish, HandleGet, HandlePurge, HandleConsume, HandleDispatch,
                HandleAck, HandleCancel, CancelFinish, HandleSelfDestruct, StopConsumer,
                StopFinish, DispatchFind, DispatchDeliver, historyVars
  <2>2. CASE UNCHANGED vars
    BY <2>2 DEF vars, historyVars
  <2>3. CASE Next /\ ~QueueThread
    BY <2>3 DEF Next, PostPublish, PostGet, PostPurge, PostDelete, AutoDeleteEvent,
                ChannelCredits, ChannelConsume, ChannelFindsZero, ChannelJoins, ChannelCancel,
                ChannelCancelled, ChannelAck, ChannelDestroy, ChannelUnlink, SendContent,
                EarnTest, ChannelFlow, historyVars
  <2> QED
    BY <2>1, <2>2, <2>3
<1>3. \/ conn' = conn
      \/ \E ch \in Channels : ChannelDestroy(ch) \/ ChannelUnlink(ch)
  <2>1. CASE QueueThread
    BY <2>1 DEF QueueThread, HandlePublish, HandleGet, HandlePurge, HandleConsume, HandleDispatch,
                HandleAck, HandleCancel, CancelFinish, HandleSelfDestruct, StopConsumer,
                StopFinish, DispatchFind, DispatchDeliver, channelVars
  <2>2. CASE UNCHANGED vars
    BY <2>2 DEF vars, channelVars
  <2>3. CASE Next /\ ~QueueThread
    BY <2>3 DEF Next, PostPublish, PostGet, PostPurge, PostDelete, AutoDeleteEvent,
                ChannelCredits, ChannelConsume, ChannelFindsZero, ChannelJoins, ChannelCancel,
                ChannelCancelled, ChannelAck, SendContent, EarnTest, ChannelFlow, channelVars
  <2> QED
    BY <2>1, <2>2, <2>3
<1>4. ASSUME NEW ch \in Channels, ChannelDestroy(ch) \/ ChannelUnlink(ch)
      PROVE  \A d \in Channels : conn[d] = "dead" => conn'[d] = "dead"
  BY <1>1, <1>4 DEF ChannelDestroy, ChannelUnlink
<1> QED
  BY <1>2, <1>3, <1>4

\* Nothing has been let go of at first.
LEMMA UnsentInit == Init => UnsentKept
BY DEF Init, UnsentKept

\* Every step lets go only of what was given to a client, or before a dead connection.
LEMMA UnsentNext ==
    TypeOK /\ SpendCovered /\ OrderInv /\ UnsentKept /\ [Next]_vars => UnsentKept'
<1> SUFFICES ASSUME TypeOK, SpendCovered, OrderInv, UnsentKept, [Next]_vars,
                    NEW id \in lost'
             PROVE  id \in sent' \/ \E ch \in Channels : conn'[ch] = "dead"
  BY DEF UnsentKept
<1>1. CASE id \in lost
  BY <1>1, SentAndDeadStay DEF UnsentKept
<1>2. CASE CancelFinish
  <2>1. cancelling \in Consumers /\ lost' = lost \cup LostBy(cancelling)
    BY <1>2 DEF CancelFinish, SpendCovered
  <2>2. LostBy(cancelling) \subseteq sent
    BY <2>1, LostBySent
  <2> QED
    BY <1>1, <2>1, <2>2, SentAndDeadStay
<1>3. CASE DispatchDeliver
  <2>1. chosen \in Consumers /\ ChannelOf[chosen] \in Channels
    BY <1>3, ConstantsAssumption DEF DispatchDeliver, SpendCovered
  <2>2. CASE Reaches(ChannelOf[chosen])
    <3>1. lost' = lost \/ lost' = lost \cup LostBy(chosen)
      BY <1>3, <2>2 DEF DispatchDeliver
    <3>2. LostBy(chosen) \subseteq sent
      BY <2>1, LostBySent
    <3> QED
      BY <1>1, <3>1, <3>2, SentAndDeadStay
  <2>3. CASE ~Reaches(ChannelOf[chosen])
    <3>1. conn[ChannelOf[chosen]] = "dead"
      BY <2>3 DEF Reaches
    <3> QED
      BY <2>1, <3>1, SentAndDeadStay
  <2> QED
    BY <2>2, <2>3
<1>4. CASE HandleGet
  <2>1. Head(mailbox).who \in Channels
    BY <1>4, HeadType DEF HandleGet, TypeOK
  <2>2. CASE Reaches(Head(mailbox).who)
    <3>1. lost' = lost
      BY <1>4, <2>2 DEF HandleGet
    <3> QED
      BY <1>1, <3>1
  <2>3. CASE ~Reaches(Head(mailbox).who)
    <3>1. conn[Head(mailbox).who] = "dead"
      BY <2>3 DEF Reaches
    <3> QED
      BY <2>1, <3>1, SentAndDeadStay
  <2> QED
    BY <2>2, <2>3
<1>5. CASE ~HandleGet /\ ~CancelFinish /\ ~DispatchDeliver
  BY <1>1, <1>5, LostStep
<1> QED
  BY <1>2, <1>3, <1>4, <1>5

\* No content is in two places, whatever the interleaving of publish, get, ack, cancel,
\* close and self-destruct: each one waits once, or is in the dispatch loop's hand, or is
\* held by one consumer, or the queue is done with it; and a content that no client has
\* been given is let go of only when a connection has died under it.
THEOREM OnePlacePerContent == Spec => [](OneHome /\ UnsentKept)
BY TypesAndSpend, OrderInit, OrderNext, HomeInit, HomeNext, HomeImplies,
   UnsentInit, UnsentNext, PTL DEF Spec

-----------------------------------------------------------------------------
(* No content is left waiting beside a consumer that takes it: NoLostWakeup *)

\* Two events leave a queue at rest beside a content it could deliver.  A consumer
\* that the queue refuses has set the credit of its channel (amq_server_channel.icl),
\* for which nobody dispatches; and a basic.get can take the one content that no
\* consumer wanted from the head of the list (amq_queue_basic.icl).
WakeSure == ExclusiveConsumers = {} /\ (NoLocal = {} \/ "get" \notin Requests)

\* Who waits in the mailbox m to join; does it hold a dispatch; the order in which
\* a consumer is created and cancelled; no gets, if clients make none.
Consumes(m) == {c \in Consumers : \E i \in 1 .. Len(m) : m[i].method = "consume" /\ m[i].who = c}
Told(m) == \E i \in 1 .. Len(m) : m[i].method = "dispatch"
Joining(m) ==
    \A i, j \in 1 .. Len(m) :
        /\ m[i].method = "consume" /\ m[j].method \in {"consume", "cancel"} /\ m[i].who = m[j].who
        => i <= j
NoGets(m) == "get" \notin Requests => \A i \in 1 .. Len(m) : m[i].method # "get"

Listed(c) == Occurs(consumer_list, c)
Linked(c) == Occurs(by_channel[ChannelOf[c]], c)
Leaving(c) == c \in Cancels(mailbox) \/ cancelling = c

\* A consumer joins the queue once, and is in its channel's list until it leaves.
Joined(c) ==
    /\ Listed(c) \/ c \in Consumes(mailbox) \/ c \in chan_cancel \/ cancelling = c => c \in created
    /\ Listed(c) => c \notin Consumes(mailbox)
    /\ c \in Consumes(mailbox) => cancelling # c
    /\ c \in chan_cancel => ~Listed(c) /\ c \notin Consumes(mailbox)
    /\ Listed(c) \/ c \in Consumes(mailbox) => Linked(c) \/ Leaving(c)
    /\ Exclusive /\ Listed(c) => ChannelOf[c] = Owner

Orderly == Joining(mailbox) /\ NoGets(mailbox)
LoopSound ==
    /\ step \in {"idle", "stop"} => cancelling = Nobody
    /\ step = "deliver" => Listed(chosen)
Unlocked == ExclusiveConsumers = {} => ~locked

JoinInv ==
    /\ NoRepeat(consumer_list) /\ Orderly /\ LoopSound /\ Unlocked
    /\ \A c \in Consumers : Joined(c)

\* A consumer that takes the head of the list is on its way to get it: the dispatch
\* loop runs, or will be run by what is in the mailbox, by a consumer its channel is yet
\* to pass to the queue or by the test of a credit just earned, or the consumer is leaving.
Heading(c) ==
    \/ step \in {"find", "deliver"}
    \/ Told(mailbox)
    \/ \E d \in Consumes(mailbox) : ChannelOf[d] = ChannelOf[c]
    \/ ~Between(ChannelOf[c])
    \/ ChannelOf[c] \in earning /\ credit[ChannelOf[c]] = 1 /\ Linked(c)
    \/ Leaving(c)

\* A consumer that its channel has yet to pass to the queue.
Starting(c) ==
    crediting[c] # "no" =>
        /\ c \in created /\ Linked(c) /\ ~Listed(c)
        /\ c \notin Consumes(mailbox) /\ c \notin chan_cancel /\ cancelling # c
StartInv == \A c \in Consumers : Starting(c)

WakeInv ==
    content_list # <<>> /\ HaveActive(pending) =>
        \A c \in Consumers : Listed(c) /\ Takes(c, Head(content_list)) => Heading(c)

-----------------------------------------------------------------------------
(* What the mailbox tells                                                  *)

\* Methods that let nobody join are added at the end.
LEMMA GrowMail ==
    ASSUME NEW m \in Seq(Mail), NEW p \in Seq(Mail),
           \A i \in 1 .. Len(p) : p[i].method \notin {"consume", "get"}
    PROVE  /\ Consumes(m \o p) = Consumes(m)
           /\ Cancels(m) \subseteq Cancels(m \o p)
           /\ Told(m) => Told(m \o p)
           /\ \A i \in 1 .. Len(p) : p[i].method = "dispatch" => Told(m \o p)
           /\ Joining(m) => Joining(m \o p)
           /\ NoGets(m) => NoGets(m \o p)
<1> DEFINE t == m \o p
<1>1. /\ Len(t) = Len(m) + Len(p) /\ Len(m) \in Nat /\ Len(p) \in Nat
      /\ \A i \in 1 .. Len(m) : t[i] = m[i] /\ i \in 1 .. Len(t)
      /\ \A i \in 1 .. Len(p) : t[i + Len(m)] = p[i] /\ i + Len(m) \in 1 .. Len(t)
      /\ \A i \in 1 .. Len(t) : i \in 1 .. Len(m) \/ (t[i] = p[i - Len(m)] /\ i - Len(m) \in 1 .. Len(p))
  OBVIOUS
<1> HIDE DEF t
<1>2. \A i \in 1 .. Len(t) : t[i].method \in {"consume", "get"} => i \in 1 .. Len(m) /\ t[i] = m[i]
  BY <1>1
<1>3. Consumes(t) = Consumes(m)
  BY <1>1, <1>2 DEF Consumes
<1>4. Cancels(m) \subseteq Cancels(t) /\ (Told(m) => Told(t))
  BY <1>1 DEF Cancels, Told
<1>5. \A i \in 1 .. Len(p) : p[i].method = "dispatch" => Told(t)
  BY <1>1 DEF Told
<1>6. ASSUME Joining(m) PROVE Joining(t)
  <2> SUFFICES ASSUME NEW i \in 1 .. Len(t), NEW j \in 1 .. Len(t), t[i].method = "consume",
                      t[j].method \in {"consume", "cancel"}, t[i].who = t[j].who
               PROVE  i <= j
    BY DEF Joining
  <2>1. i \in 1 .. Len(m) /\ t[i] = m[i]
    BY <1>2
  <2>2. CASE j \in 1 .. Len(m)
    BY <1>1, <1>6, <2>1, <2>2 DEF Joining
  <2>3. CASE j \notin 1 .. Len(m)
    BY <1>1, <2>1, <2>3
  <2> QED
    BY <2>2, <2>3
<1>7. NoGets(m) => NoGets(t)
  BY <1>2 DEF NoGets
<1> QED
  BY <1>3, <1>4, <1>5, <1>6, <1>7 DEF t

\* One method that lets nobody join is added at the end.
LEMMA PostMail ==
    ASSUME NEW m \in Seq(Mail), NEW x \in Mail, x.method # "consume", x.method = "get" => "get" \in Requests
    PROVE  /\ Consumes(Append(m, x)) = Consumes(m)
           /\ Cancels(m) \subseteq Cancels(Append(m, x))
           /\ Told(m) \/ x.method = "dispatch" => Told(Append(m, x))
           /\ x.method = "cancel" => x.who \in Cancels(Append(m, x))
           /\ Joining(m) => Joining(Append(m, x))
           /\ NoGets(m) => NoGets(Append(m, x))
<1> DEFINE t == Append(m, x)
<1>1. /\ Len(t) = Len(m) + 1 /\ Len(m) \in Nat /\ t[Len(m) + 1] = x /\ Len(m) + 1 \in 1 .. Len(t)
      /\ \A i \in 1 .. Len(m) : t[i] = m[i] /\ i \in 1 .. Len(t)
      /\ \A i \in 1 .. Len(t) : i \in 1 .. Len(m) \/ i = Len(m) + 1
  OBVIOUS
<1> HIDE DEF t
<1>2. Consumes(t) = Consumes(m) /\ Cancels(m) \subseteq Cancels(t)
  BY <1>1 DEF Consumes, Cancels
<1>3. Told(m) \/ x.method = "dispatch" => Told(t)
  BY <1>1 DEF Told
<1>4. x.method = "cancel" => x.who \in Cancels(t)
  <2>1. x.method = "cancel" => x.who \in Consumers
    BY DEF Mail
  <2> QED
    BY <1>1, <2>1 DEF Cancels, IsCancel
<1>5. ASSUME Joining(m) PROVE Joining(t)
  BY <1>1, <1>5 DEF Joining
<1>6. NoGets(m) => NoGets(t)
  BY <1>1 DEF NoGets
<1> QED
  BY <1>2, <1>3, <1>4, <1>5, <1>6 DEF t

\* A new consumer asks to join.
LEMMA JoinMail ==
    ASSUME NEW m \in Seq(Mail), NEW x \in Mail, x.method = "consume",
           x.who \notin Consumes(m), x.who \notin Cancels(m)
    PROVE  /\ Consumes(Append(m, x)) = Consumes(m) \cup {x.who}
           /\ Cancels(m) \subseteq Cancels(Append(m, x))
           /\ Told(m) => Told(Append(m, x))
           /\ Joining(m) => Joining(Append(m, x))
           /\ NoGets(m) => NoGets(Append(m, x))
<1> DEFINE t == Append(m, x)
<1>1. /\ Len(t) = Len(m) + 1 /\ Len(m) \in Nat /\ t[Len(m) + 1] = x /\ Len(m) + 1 \in 1 .. Len(t)
      /\ \A i \in 1 .. Len(m) : t[i] = m[i] /\ i \in 1 .. Len(t)
      /\ \A i \in 1 .. Len(t) : i \in 1 .. Len(m) \/ i = Len(m) + 1
  OBVIOUS
<1> HIDE DEF t
<1>2. x.who \in Consumers
  BY DEF Mail
<1>3. Consumes(t) = Consumes(m) \cup {x.who}
  BY <1>1, <1>2 DEF Consumes
<1>4. Cancels(m) \subseteq Cancels(t) /\ (Told(m) => Told(t)) /\ (NoGets(m) => NoGets(t))
  BY <1>1 DEF Cancels, Told, NoGets
<1>5. ASSUME Joining(m) PROVE Joining(t)
  <2>1. \A i \in 1 .. Len(m) : m[i].method \in {"consume", "cancel"} => m[i].who # x.who
    BY <1>2 DEF Consumes, Cancels, IsCancel
  <2> SUFFICES ASSUME NEW i \in 1 .. Len(t), NEW j \in 1 .. Len(t), t[i].method = "consume",
                      t[j].method \in {"consume", "cancel"}, t[i].who = t[j].who
               PROVE  i <= j
    BY DEF Joining
  <2>2. CASE i \in 1 .. Len(m) /\ j \in 1 .. Len(m)
    BY <1>1, <1>5, <2>2 DEF Joining
  <2>3. CASE i \in 1 .. Len(m) /\ j = Len(m) + 1
    BY <1>1, <2>3
  <2>4. CASE i = Len(m) + 1 /\ j \in 1 .. Len(m)
    BY <1>1, <2>1, <2>4
  <2> QED
    BY <1>1, <2>2, <2>3, <2>4
<1> QED
  BY <1>3, <1>4, <1>5 DEF t

\* The queue takes the first method.
LEMMA TakeMail ==
    ASSUME NEW m \in Seq(Mail), m # <<>>, Joining(m), NoGets(m)
    PROVE  /\ Joining(Tail(m)) /\ NoGets(Tail(m))
           /\ Consumes(Tail(m)) = Consumes(m) \ (IF Head(m).method = "consume" THEN {Head(m).who} ELSE {})
           /\ Cancels(m) \subseteq Cancels(Tail(m)) \cup (IF Head(m).method = "cancel" THEN {Head(m).who} ELSE {})
           /\ Told(m) /\ Head(m).method # "dispatch" => Told(Tail(m))
           /\ Head(m).method = "consume" => Head(m).who \in Consumes(m)
           /\ Head(m).method = "cancel" => Head(m).who \in Cancels(m) /\ Head(m).who \notin Consumes(m)
           /\ Head(m).method = "get" => "get" \in Requests
<1> DEFINE t == Tail(m)
<1>1. /\ Len(m) \in Nat /\ Len(m) >= 1 /\ Len(t) = Len(m) - 1 /\ Head(m) = m[1] /\ 1 \in 1 .. Len(m)
      /\ \A i \in 1 .. Len(t) : t[i] = m[i + 1] /\ i + 1 \in 1 .. Len(m)
      /\ \A i \in 1 .. Len(m) : i = 1 \/ (i - 1 \in 1 .. Len(t) /\ t[i - 1] = m[i])
      /\ m[1] \in Mail
  OBVIOUS
<1> HIDE DEF t
<1>2. Joining(t)
  <2> SUFFICES ASSUME NEW i \in 1 .. Len(t), NEW j \in 1 .. Len(t), t[i].method = "consume",
                      t[j].method \in {"consume", "cancel"}, t[i].who = t[j].who
               PROVE  i <= j
    BY DEF Joining
  <2>1. i + 1 <= j + 1
    BY <1>1 DEF Joining
  <2> QED
    BY <2>1
<1>3. NoGets(t) /\ (Head(m).method = "get" => "get" \in Requests)
  BY <1>1 DEF NoGets
<1>4. Head(m).method \in {"consume", "cancel"} => Head(m).who \in Consumers
  BY <1>1 DEF Mail
<1>5. /\ Head(m).method = "consume" => Head(m).who \in Consumes(m) \ Consumes(t)
      /\ Head(m).method = "cancel" => Head(m).who \in Cancels(m) \ Consumes(m)
  <2>1. Head(m).method = "consume" => Head(m).who \in Consumes(m)
    BY <1>1, <1>4 DEF Consumes
  <2>2. Head(m).method = "cancel" => Head(m).who \in Cancels(m)
    BY <1>1, <1>4 DEF Cancels, IsCancel
  <2>3. ASSUME NEW i \in 1 .. Len(m), m[i].method = "consume", m[i].who = Head(m).who,
               Head(m).method \in {"consume", "cancel"}
        PROVE  i = 1
    BY <1>1, <2>3 DEF Joining
  <2>4. Head(m).method = "consume" => Head(m).who \notin Consumes(t)
    <3> SUFFICES ASSUME Head(m).method = "consume", Head(m).who \in Consumes(t) PROVE FALSE
      OBVIOUS
    <3>1. PICK i \in 1 .. Len(t) : t[i].method = "consume" /\ t[i].who = Head(m).who
      BY DEF Consumes
    <3>2. i + 1 \in 1 .. Len(m) /\ m[i + 1] = t[i] /\ i + 1 # 1
      BY <1>1
    <3> QED
      BY <2>3, <3>1, <3>2
  <2>5. Head(m).method = "cancel" => Head(m).who \notin Consumes(m)
    <3> SUFFICES ASSUME Head(m).method = "cancel", Head(m).who \in Consumes(m) PROVE FALSE
      OBVIOUS
    <3>1. PICK i \in 1 .. Len(m) : m[i].method = "consume" /\ m[i].who = Head(m).who
      BY DEF Consumes
    <3> QED
      BY <1>1, <2>3, <3>1
  <2> QED
    BY <2>1, <2>2, <2>4, <2>5
<1>6. Consumes(t) \subseteq Consumes(m)
  BY <1>1 DEF Consumes
<1>7. ASSUME NEW c \in Consumes(m), Head(m).method # "consume" \/ c # Head(m).who PROVE c \in Consumes(t)
  <2>1. PICK i \in 1 .. Len(m) : m[i].method = "consume" /\ m[i].who = c
    BY DEF Consumes
  <2> QED
    BY <1>1, <1>7, <2>1 DEF Consumes
<1>8. ASSUME NEW c \in Cancels(m), Head(m).method # "cancel" \/ c # Head(m).who PROVE c \in Cancels(t)
  <2>1. PICK i \in 1 .. Len(m) : m[i].method = "cancel" /\ m[i].who = c
    BY DEF Cancels, IsCancel
  <2> QED
    BY <1>1, <1>8, <2>1 DEF Cancels, IsCancel
<1>9. ASSUME Told(m), Head(m).method # "dispatch" PROVE Told(t)
  <2>1. PICK i \in 1 .. Len(m) : m[i].method = "dispatch"
    BY <1>9 DEF Told
  <2> QED
    BY <1>1, <1>9, <2>1 DEF Told
<1>10. Consumes(t) = Consumes(m) \ (IF Head(m).method = "consume" THEN {Head(m).who} ELSE {})
  BY <1>5, <1>6, <1>7
<1>11. Cancels(m) \subseteq Cancels(t) \cup (IF Head(m).method = "cancel" THEN {Head(m).who} ELSE {})
  BY <1>8
<1> QED
  BY <1>2, <1>3, <1>5, <1>9, <1>10, <1>11 DEF t

-----------------------------------------------------------------------------
(* Consumers join once and leave once: JoinInv                             *)

\* A step that lets nobody join and takes no cancel from the mailbox; one that
\* takes no dispatch either.
MailKept ==
    /\ Consumes(mailbox)' = Consumes(mailbox)
    /\ Cancels(mailbox) \subseteq Cancels(mailbox)'
    /\ Orderly'
ToldKept == Told(mailbox) => Told(mailbox)'

\* The types that the lemmas below ask for.
LEMMA JoinTypes ==
    ASSUME TypeOK
    PROVE  /\ mailbox \in Seq(Mail) /\ consumer_list \in Seq(Consumers)
           /\ by_channel \in [Channels -> Seq(Consumers)] /\ created \subseteq Consumers
           /\ credit \in [Channels -> Nat] /\ earning \subseteq Channels
           /\ conn \in [Channels -> {"open", "closing", "dead"}] /\ active \in [Channels -> BOOLEAN]
           /\ pending \in [Consumers -> Content] /\ paused \in [Consumers -> BOOLEAN]
           /\ \A c \in Consumers : ChannelOf[c] \in Channels
           /\ \A c \in Consumers : c # Nobody
BY ConstantsAssumption DEF TypeOK, QueueTypeOK, ChannelTypeOK, ConsumerTypeOK

\* The mailbox is left alone, or a method that lets nobody join is added.
LEMMA PostKeeps ==
    ASSUME TypeOK, Orderly, NEW x \in Mail, x.method # "consume", x.method = "get" => "get" \in Requests,
           mailbox' = mailbox \/ mailbox' = Append(mailbox, x)
    PROVE  MailKept /\ ToldKept
<1>1. CASE mailbox' = mailbox
  <2>1. Consumes(mailbox)' = Consumes(mailbox) /\ Cancels(mailbox)' = Cancels(mailbox)
    BY <1>1 DEF Consumes, Cancels
  <2>2. Orderly' /\ ToldKept
    BY <1>1 DEF Orderly, Joining, NoGets, ToldKept, Told
  <2> QED
    BY <2>1, <2>2 DEF MailKept
<1>2. CASE mailbox' = Append(mailbox, x)
  <2>1. /\ Consumes(mailbox') = Consumes(mailbox) /\ Cancels(mailbox) \subseteq Cancels(mailbox')
        /\ Told(mailbox) => Told(mailbox')
        /\ Joining(mailbox') /\ NoGets(mailbox')
    BY <1>2, JoinTypes, PostMail DEF Orderly
  <2>2. Consumes(mailbox)' = Consumes(mailbox) /\ Cancels(mailbox) \subseteq Cancels(mailbox)'
    BY <2>1 DEF Consumes, Cancels
  <2>3. Joining(mailbox)' /\ NoGets(mailbox)'
    BY <2>1 DEF Joining, NoGets
  <2>4. ToldKept
    BY <2>1 DEF ToldKept, Told
  <2> QED
    BY <2>2, <2>3, <2>4 DEF MailKept, Orderly
<1> QED
  BY <1>1, <1>2

\* A channel posts one method for each of its consumers, none of them a consume.
LEMMA PerConsumerKeeps ==
    ASSUME TypeOK, Orderly, NEW ch \in Channels, NEW m \in {"dispatch", "ack", "cancel"},
           mailbox' = mailbox \o PerConsumer(ch, m)
    PROVE  /\ MailKept /\ ToldKept
           /\ m = "dispatch" /\ by_channel[ch] # <<>> => Told(mailbox)'
           /\ m = "cancel" => \A c \in Consumers : Occurs(by_channel[ch], c) => c \in Cancels(mailbox)'
<1> DEFINE p == PerConsumer(ch, m)
<1>1. by_channel[ch] \in Seq(Consumers) /\ Len(by_channel[ch]) \in Nat
  BY JoinTypes
<1>2. p \in Seq(Mail) /\ Len(p) = Len(by_channel[ch])
  <2>1. Len(p) = Len(by_channel[ch])
    BY <1>1 DEF PerConsumer
  <2> QED
    BY <2>1, PerConsumerType
<1>3. \A k \in 1 .. Len(p) : p[k].method = m /\ (m # "dispatch" => p[k].who = by_channel[ch][k])
  BY <1>1, <1>2 DEF PerConsumer, DispatchMethod, Method
<1> HIDE DEF p
<1>4. \A i \in 1 .. Len(p) : p[i].method \notin {"consume", "get"}
  BY <1>3
<1>5. /\ Consumes(mailbox \o p) = Consumes(mailbox)
      /\ Cancels(mailbox) \subseteq Cancels(mailbox \o p)
      /\ Told(mailbox) => Told(mailbox \o p)
      /\ \A i \in 1 .. Len(p) : p[i].method = "dispatch" => Told(mailbox \o p)
      /\ Joining(mailbox) => Joining(mailbox \o p)
      /\ NoGets(mailbox) => NoGets(mailbox \o p)
  BY <1>2, <1>4, JoinTypes, GrowMail
<1>6. mailbox' = mailbox \o p
  BY DEF p
<1>7. Consumes(mailbox)' = Consumes(mailbox) /\ Cancels(mailbox) \subseteq Cancels(mailbox)'
  BY <1>5, <1>6 DEF Consumes, Cancels
<1>8. Joining(mailbox)' /\ NoGets(mailbox)'
  <2>1. Joining(mailbox') /\ NoGets(mailbox')
    BY <1>5, <1>6 DEF Orderly
  <2> QED
    BY <2>1 DEF Joining, NoGets
<1>9. ToldKept
  BY <1>5, <1>6 DEF ToldKept, Told
<1>10. m = "dispatch" /\ by_channel[ch] # <<>> => Told(mailbox)'
  <2> SUFFICES ASSUME m = "dispatch", by_channel[ch] # <<>> PROVE Told(mailbox)'
    OBVIOUS
  <2>1. 1 \in 1 .. Len(p)
    BY <1>1, <1>2
  <2>2. Told(mailbox')
    BY <1>3, <1>5, <1>6, <2>1
  <2> QED
    BY <2>2 DEF Told
<1>11. ASSUME m = "cancel", NEW c \in Consumers, Occurs(by_channel[ch], c) PROVE c \in Cancels(mailbox)'
  <2>1. PICK k \in 1 .. Len(by_channel[ch]) : by_channel[ch][k] = c
    BY <1>11 DEF Occurs
  <2>2. k \in 1 .. Len(p) /\ p[k].method = "cancel" /\ p[k].who = c
    BY <1>2, <1>3, <1>11, <2>1
  <2>3. k + Len(mailbox) \in 1 .. Len(mailbox') /\ mailbox'[k + Len(mailbox)] = p[k]
    BY <1>2, <1>6, <2>2, JoinTypes
  <2> QED
    BY <2>2, <2>3 DEF Cancels, IsCancel
<1> QED
  BY <1>7, <1>8, <1>9, <1>10, <1>11 DEF MailKept, Orderly

\* The queue takes a method that is neither a consume nor a cancel.
LEMMA TakeKeeps ==
    ASSUME TypeOK, Orderly, NEW m, Take(m), m \notin {"consume", "cancel"},
           mailbox' = Tail(mailbox) \/ mailbox' = Append(Tail(mailbox), SelfDestructMethod)
    PROVE  MailKept /\ (m # "dispatch" => ToldKept) /\ (m = "get" => "get" \in Requests)
<1> DEFINE t == Tail(mailbox)
<1>1. mailbox \in Seq(Mail) /\ mailbox # <<>> /\ Head(mailbox).method = m /\ t \in Seq(Mail)
  BY JoinTypes DEF Take
<1>2. /\ Joining(t) /\ NoGets(t) /\ Consumes(t) = Consumes(mailbox) /\ Cancels(mailbox) \subseteq Cancels(t)
      /\ Told(mailbox) /\ m # "dispatch" => Told(t)
      /\ m = "get" => "get" \in Requests
  BY <1>1, TakeMail DEF Orderly
<1>3. SelfDestructMethod \in Mail /\ SelfDestructMethod.method = "self_destruct"
  BY MailType DEF SelfDestructMethod, Method
<1> HIDE DEF t
<1>4. /\ Consumes(mailbox') = Consumes(mailbox) /\ Cancels(mailbox) \subseteq Cancels(mailbox')
      /\ Joining(mailbox') /\ NoGets(mailbox')
      /\ Told(t) => Told(mailbox')
  <2>1. CASE mailbox' = t
    BY <1>2, <2>1
  <2>2. CASE mailbox' = Append(t, SelfDestructMethod)
    <3>1. /\ Consumes(mailbox') = Consumes(t) /\ Cancels(t) \subseteq Cancels(mailbox')
          /\ Told(t) => Told(mailbox')
          /\ Joining(mailbox') /\ NoGets(mailbox')
      BY <1>1, <1>2, <1>3, <2>2, PostMail
    <3> QED
      BY <1>2, <3>1
  <2> QED
    BY <2>1, <2>2 DEF t
<1>5. Consumes(mailbox)' = Consumes(mailbox) /\ Cancels(mailbox) \subseteq Cancels(mailbox)'
  BY <1>4 DEF Consumes, Cancels
<1>6. Joining(mailbox)' /\ NoGets(mailbox)'
  BY <1>4 DEF Joining, NoGets
<1>7. m # "dispatch" => ToldKept
  BY <1>2, <1>4 DEF ToldKept, Told
<1> QED
  BY <1>2, <1>5, <1>6, <1>7 DEF MailKept, Orderly

\* A step that neither lets a consumer join nor leave.
LEMMA QuietJoin ==
    ASSUME JoinInv, MailKept, UNCHANGED <<by_channel, chan_cancel, created, cancelling>>,
           NoRepeat(consumer_list)', \A c \in Consumers : Listed(c)' <=> Listed(c),
           LoopSound', locked' = locked
    PROVE  JoinInv'
<1>1. Unlocked' /\ Orderly'
  BY DEF JoinInv, Unlocked, MailKept
<1>2. ASSUME NEW c \in Consumers PROVE Joined(c)'
  <2>1. Joined(c) /\ (Listed(c)' <=> Listed(c)) /\ (c \in Consumes(mailbox)' <=> c \in Consumes(mailbox))
    BY DEF JoinInv, MailKept
  <2>2. Linked(c)' <=> Linked(c)
    BY DEF Linked, Occurs
  <2>3. Leaving(c) => Leaving(c)'
    BY DEF Leaving, MailKept
  <2> QED
    BY <2>1, <2>2, <2>3 DEF Joined
<1> QED
  BY <1>1, <1>2 DEF JoinInv

\* Such a step, when it leaves the list alone.
LEMMA QuietJoinList ==
    ASSUME JoinInv, MailKept, UNCHANGED <<by_channel, chan_cancel, created, cancelling, consumer_list, locked>>,
           LoopSound'
    PROVE  JoinInv'
<1>1. NoRepeat(consumer_list)' /\ \A c \in Consumers : Listed(c)' <=> Listed(c)
  BY DEF JoinInv, NoRepeat, Listed, Occurs
<1> QED
  BY <1>1, QuietJoin

\* The steps of the clients, the channels and the timer that only post.
LEMMA ClientKeeps ==
    ASSUME TypeOK, JoinInv,
           \/ PostPublish \/ PostGet \/ PostPurge \/ PostDelete \/ AutoDeleteEvent
           \/ \E ch \in Channels :
               \/ ChannelAck(ch) \/ ChannelUnlink(ch) \/ SendContent(ch) \/ EarnTest(ch)
               \/ \E on \in BOOLEAN : ChannelFlow(ch, on)
    PROVE  /\ MailKept /\ ToldKept
           /\ UNCHANGED <<by_channel, chan_cancel, created, loopVars, consumer_list, locked,
                          content_list, pending>>
<1>1. UNCHANGED <<by_channel, chan_cancel, created, loopVars, consumer_list, locked, content_list, pending>>
  BY DEF PostPublish, PostGet, PostPurge, PostDelete, AutoDeleteEvent, ChannelAck, ChannelUnlink,
         SendContent, EarnTest, ChannelFlow, queueVars, channelVars, consumerVars
<1>2. Orderly
  BY DEF JoinInv
<1>3. /\ DispatchMethod \in Mail /\ DispatchMethod.method = "dispatch"
      /\ SelfDestructMethod \in Mail /\ SelfDestructMethod.method = "self_destruct"
      /\ Method("purge", Nobody, FALSE) \in Mail /\ Method("purge", Nobody, FALSE).method = "purge"
  BY MailType DEF DispatchMethod, SelfDestructMethod, Method
<1>4. CASE PostPublish
  <2>1. PICK ch \in Channels, im \in BOOLEAN : mailbox' = Append(mailbox, Method("publish", ch, im))
    BY <1>4 DEF PostPublish, Post
  <2>2. Method("publish", ch, im) \in Mail /\ Method("publish", ch, im).method = "publish"
    BY DEF Method, Mail
  <2> QED
    BY <1>1, <1>2, <2>1, <2>2, PostKeeps
<1>5. CASE PostGet
  <2>1. PICK ch \in Channels : mailbox' = Append(mailbox, Method("get", ch, FALSE))
    BY <1>5 DEF PostGet, Post
  <2>2. Method("get", ch, FALSE) \in Mail /\ Method("get", ch, FALSE).method = "get" /\ "get" \in Requests
    BY <1>5 DEF Method, Mail, PostGet
  <2> QED
    BY <1>1, <1>2, <2>1, <2>2, PostKeeps
<1>6. CASE PostPurge \/ PostDelete \/ AutoDeleteEvent
  <2>1. \/ mailbox' = mailbox \/ mailbox' = Append(mailbox, Method("purge", Nobody, FALSE))
        \/ mailbox' = Append(mailbox, SelfDestructMethod)
    BY <1>6 DEF PostPurge, PostDelete, AutoDeleteEvent, Post
  <2> QED
    BY <1>1, <1>2, <1>3, <2>1, PostKeeps
<1>7. ASSUME NEW ch \in Channels,
             \/ ChannelAck(ch) \/ ChannelUnlink(ch) \/ SendContent(ch) \/ EarnTest(ch)
             \/ \E on \in BOOLEAN : ChannelFlow(ch, on)
      PROVE  MailKept /\ ToldKept
  <2>1. \/ mailbox' = mailbox \/ mailbox' = mailbox \o PerConsumer(ch, "dispatch")
        \/ mailbox' = mailbox \o PerConsumer(ch, "ack")
    BY <1>7 DEF ChannelAck, ChannelUnlink, SendContent, EarnTest, ChannelFlow, mailVars, Wake
  <2>2. CASE mailbox' = mailbox
    BY <1>2, <1>3, <2>2, PostKeeps
  <2> QED
    BY <1>2, <2>1, <2>2, PerConsumerKeeps
<1> QED
  BY <1>1, <1>4, <1>5, <1>6, <1>7

\* The handlers that let nobody join or leave.
LEMMA HandlerKeeps ==
    ASSUME TypeOK, JoinInv,
           \/ HandlePublish \/ HandleGet \/ HandlePurge \/ HandleDispatch \/ HandleAck
           \/ HandleSelfDestruct
    PROVE  /\ MailKept /\ (~HandleDispatch => ToldKept) /\ (HandleGet => "get" \in Requests)
           /\ UNCHANGED <<by_channel, chan_cancel, created, active, credit, conn, earning,
                          cancelling, chosen, consumer_list, locked, paused>>
           /\ step = "idle"
<1>1. Orderly
  BY DEF JoinInv
<1>2. /\ UNCHANGED <<by_channel, chan_cancel, created, active, credit, conn, earning,
                     cancelling, chosen, consumer_list, locked, paused>>
      /\ step = "idle"
  BY DEF HandlePublish, HandleGet, HandlePurge, HandleDispatch, HandleAck, HandleSelfDestruct,
         queueVars, channelVars, consumerVars, loopVars, Take
<1>3. mailbox' = Tail(mailbox) \/ mailbox' = Append(Tail(mailbox), SelfDestructMethod)
  BY DEF HandlePublish, HandleGet, HandlePurge, HandleDispatch, HandleAck, HandleSelfDestruct
<1>4. CASE HandlePublish
  <2>1. Take("publish")
    BY <1>4 DEF HandlePublish
  <2>2. MailKept /\ ToldKept
    BY <1>1, <1>3, <2>1, TakeKeeps
  <2>3. ~HandleGet
    BY <2>1 DEF HandleGet, Take
  <2> QED
    BY <1>2, <2>2, <2>3
<1>5. CASE HandleGet
  <2>1. Take("get")
    BY <1>5 DEF HandleGet
  <2> QED
    BY <1>1, <1>2, <1>3, <2>1, TakeKeeps
<1>6. CASE HandleDispatch
  <2>1. Take("dispatch")
    BY <1>6 DEF HandleDispatch
  <2>2. MailKept
    BY <1>1, <1>3, <2>1, TakeKeeps
  <2>3. ~HandleGet
    BY <2>1 DEF HandleGet, Take
  <2> QED
    BY <1>2, <1>6, <2>2, <2>3
<1>7. ASSUME NEW m \in {"purge", "ack", "self_destruct"}, Take(m)
      PROVE  MailKept /\ ToldKept /\ ~HandleGet
  <2>1. MailKept /\ ToldKept
    BY <1>1, <1>3, <1>7, TakeKeeps
  <2>2. ~HandleGet
    BY <1>7 DEF HandleGet, Take
  <2> QED
    BY <2>1, <2>2
<1>8. CASE HandlePurge \/ HandleAck \/ HandleSelfDestruct
  <2>1. \E m \in {"purge", "ack", "self_destruct"} : Take(m)
    BY <1>8 DEF HandlePurge, HandleAck, HandleSelfDestruct
  <2> QED
    BY <1>2, <1>7, <2>1
<1> QED
  BY <1>4, <1>5, <1>6, <1>8

\* The steps that leave the mailbox alone.
LEMMA StillKeeps ==
    ASSUME TypeOK, JoinInv, mailbox' = mailbox
    PROVE  MailKept /\ ToldKept
<1>1. DispatchMethod \in Mail /\ DispatchMethod.method = "dispatch"
  BY MailType DEF DispatchMethod, Method
<1> QED
  BY <1>1, PostKeeps DEF JoinInv

\* The steps that only post.
LEMMA ClientJoin ==
    ASSUME TypeOK, JoinInv,
           \/ PostPublish \/ PostGet \/ PostPurge \/ PostDelete \/ AutoDeleteEvent
           \/ \E ch \in Channels :
               \/ ChannelAck(ch) \/ ChannelUnlink(ch) \/ SendContent(ch) \/ EarnTest(ch)
               \/ \E on \in BOOLEAN : ChannelFlow(ch, on)
    PROVE  JoinInv'
<1>1. /\ MailKept
      /\ UNCHANGED <<by_channel, chan_cancel, created, loopVars, consumer_list, locked>>
  BY ClientKeeps
<1>2. LoopSound'
  BY <1>1 DEF JoinInv, LoopSound, loopVars, Listed, Occurs
<1> QED
  BY <1>1, <1>2, QuietJoinList DEF loopVars

\* The handlers that let nobody join or leave, and the end of a self-destruct.
LEMMA HandlerJoin ==
    ASSUME TypeOK, JoinInv,
           \/ HandlePublish \/ HandleGet \/ HandlePurge \/ HandleDispatch \/ HandleAck
           \/ HandleSelfDestruct \/ StopFinish
    PROVE  JoinInv'
<1>1. CASE StopFinish
  <2>1. /\ UNCHANGED <<mailbox, by_channel, chan_cancel, created, cancelling, consumer_list, locked>>
        /\ step = "stop" /\ step' = "idle"
    BY <1>1 DEF StopFinish, mailVars, queueVars, channelVars
  <2>2. LoopSound'
    BY <2>1 DEF JoinInv, LoopSound
  <2> QED
    BY <2>1, <2>2, StillKeeps, QuietJoinList
<1>2. CASE \/ HandlePublish \/ HandleGet \/ HandlePurge \/ HandleDispatch \/ HandleAck
           \/ HandleSelfDestruct
  <2>1. /\ MailKept /\ step = "idle"
        /\ UNCHANGED <<by_channel, chan_cancel, created, cancelling, consumer_list, locked>>
    BY <1>2, HandlerKeeps
  <2>2. step' \in {"idle", "find", "stop"}
    BY <1>2, <2>1 DEF HandlePublish, HandleGet, HandlePurge, HandleDispatch, HandleAck,
       HandleSelfDestruct, loopVars
  <2>3. LoopSound'
    BY <2>1, <2>2 DEF JoinInv, LoopSound
  <2> QED
    BY <2>1, <2>3, QuietJoinList
<1> QED
  BY <1>1, <1>2

\* The dispatch loop: a delivery moves its consumer to the end of the list.
LEMMA LoopJoin ==
    ASSUME TypeOK, SpendCovered, JoinInv, DispatchFind \/ DispatchDeliver
    PROVE  JoinInv'
<1>1. UNCHANGED <<mailbox, by_channel, chan_cancel, created, cancelling, locked>>
  BY DEF DispatchFind, DispatchDeliver, mailVars, channelVars
<1>2. MailKept
  BY <1>1, StillKeeps
<1>3. CASE DispatchFind
  <2>1. consumer_list' = consumer_list
    BY <1>3 DEF DispatchFind
  <2>2. \/ step' = AfterLoop \/ step' = "find"
        \/ step' = "deliver" /\ \E i \in 1 .. Len(consumer_list) : chosen' = consumer_list[i]
    BY <1>3 DEF DispatchFind
  <2>3. LoopSound'
    <3>1. CASE step' = AfterLoop
      BY <1>1, <3>1 DEF LoopSound, AfterLoop
    <3>2. CASE step' = "find"
      BY <3>2 DEF LoopSound
    <3>3. CASE step' = "deliver" /\ \E i \in 1 .. Len(consumer_list) : chosen' = consumer_list[i]
      <4>1. Listed(chosen)'
        BY <2>1, <3>3 DEF Listed, Occurs
      <4> QED
        BY <3>3, <4>1 DEF LoopSound
    <3> QED
      BY <2>2, <3>1, <3>2, <3>3
  <2> QED
    BY <1>1, <1>2, <2>1, <2>3, QuietJoinList
<1>4. CASE DispatchDeliver
  <2>1. /\ chosen \in Consumers /\ Occurs(consumer_list, chosen) /\ step' = "find"
        /\ consumer_list' = Append(Drop(consumer_list, chosen), chosen)
    BY <1>4 DEF DispatchDeliver, SpendCovered, JoinInv, LoopSound, Listed
  <2> DEFINE rest == Drop(consumer_list, chosen)
  <2>2. NoRepeat(rest) /\ \A d : Occurs(rest, d) <=> Occurs(consumer_list, d) /\ d # chosen
    BY JoinTypes, DropIs DEF JoinInv
  <2>3. rest \in Seq(Consumers)
    BY JoinTypes, DropType
  <2> HIDE DEF rest
  <2>4. NoRepeat(Append(rest, chosen)) /\ \A d : Occurs(Append(rest, chosen), d) <=> Occurs(rest, d) \/ d = chosen
    BY <2>1, <2>2, <2>3, AddIs
  <2>5. NoRepeat(consumer_list') /\ \A d : Occurs(consumer_list', d) <=> Occurs(consumer_list, d)
    BY <2>1, <2>2, <2>4 DEF rest
  <2>6. NoRepeat(consumer_list)' /\ \A c \in Consumers : Listed(c)' <=> Listed(c)
    BY <2>5 DEF NoRepeat, Listed, Occurs
  <2>7. LoopSound'
    BY <2>1 DEF LoopSound
  <2> QED
    BY <1>1, <1>2, <2>6, <2>7, QuietJoin
<1> QED
  BY <1>3, <1>4

\* A consumer is dropped from its channel's list.
LEMMA LinkDropped ==
    ASSUME TypeOK, LimitInv, NEW c \in Consumers,
           by_channel' = [by_channel EXCEPT ![ChannelOf[c]] = Drop(@, c)]
    PROVE  \A d \in Consumers : Linked(d)' <=> Linked(d) /\ d # c
<1> DEFINE ch == ChannelOf[c]
<1>1. ch \in Channels /\ by_channel[ch] \in Seq(Consumers) /\ NoRepeat(by_channel[ch])
  BY JoinTypes DEF LimitInv, ListsSound
<1>2. /\ by_channel'[ch] = Drop(by_channel[ch], c)
      /\ \A e \in Channels \ {ch} : by_channel'[e] = by_channel[e]
  BY <1>1, JoinTypes
<1> HIDE DEF ch
<1>3. \A d : Occurs(by_channel'[ch], d) <=> Occurs(by_channel[ch], d) /\ d # c
  BY <1>1, <1>2, DropIs
<1>4. ASSUME NEW d \in Consumers
      PROVE  Occurs(by_channel'[ChannelOf[d]], d) <=> Occurs(by_channel[ChannelOf[d]], d) /\ d # c
  <2>1. CASE ChannelOf[d] = ch
    BY <1>3, <2>1
  <2>2. CASE ChannelOf[d] # ch
    <3>1. by_channel'[ChannelOf[d]] = by_channel[ChannelOf[d]] /\ d # c
      BY <1>2, <2>2, JoinTypes DEF ch
    <3> QED
      BY <3>1
  <2> QED
    BY <2>1, <2>2
<1> QED
  BY <1>4 DEF Linked, Occurs

\* What the channel's thread does to the consumers it knows leaves the queue alone.
LEMMA QueueStays ==
    ASSUME JoinInv, UNCHANGED <<queueVars, loopVars>>, Orderly'
    PROVE  /\ NoRepeat(consumer_list)' /\ Orderly' /\ LoopSound' /\ Unlocked'
           /\ \A c \in Consumers : Listed(c)' <=> Listed(c)
BY DEF JoinInv, NoRepeat, LoopSound, Unlocked, Listed, Occurs, queueVars, loopVars

\* The channel creates a consumer.
LEMMA ConsumeStep ==
    ASSUME TypeOK, LimitInv, JoinInv, NEW c \in Consumers, ChannelConsume(c)
    PROVE  /\ MailKept /\ ToldKept
           /\ \A d \in Consumers : Linked(d)' <=> Linked(d) \/ d = c
           /\ ~Listed(c) /\ c \notin Consumes(mailbox) /\ c \notin chan_cancel /\ cancelling # c
<1> DEFINE ch == ChannelOf[c]
<1>1. /\ ch \in Channels /\ c \notin created /\ mailbox' = mailbox
      /\ by_channel' = [by_channel EXCEPT ![ch] = Append(@, c)]
  BY JoinTypes DEF ChannelConsume, mailVars
<1>2. MailKept /\ ToldKept
  BY <1>1, StillKeeps
<1>3. c \notin Consumes(mailbox) /\ ~Listed(c) /\ c \notin chan_cancel /\ cancelling # c
  BY <1>1 DEF JoinInv, Joined
<1>4. by_channel[ch] \in Seq(Consumers) /\ ~Occurs(by_channel[ch], c) /\ NoRepeat(by_channel[ch])
  BY <1>1, JoinTypes DEF LimitInv, ListsSound
<1>5. /\ by_channel'[ch] = Append(by_channel[ch], c)
      /\ \A e \in Channels \ {ch} : by_channel'[e] = by_channel[e]
  BY <1>1, JoinTypes
<1>6. \A d : Occurs(by_channel'[ch], d) <=> Occurs(by_channel[ch], d) \/ d = c
  BY <1>4, <1>5, AddIs
<1>7. ASSUME NEW d \in Consumers
      PROVE  Occurs(by_channel'[ChannelOf[d]], d) <=> Occurs(by_channel[ChannelOf[d]], d) \/ d = c
  BY <1>5, <1>6, JoinTypes
<1>8. \A d \in Consumers : Linked(d)' <=> Linked(d) \/ d = c
  BY <1>7 DEF Linked, Occurs
<1> QED
  BY <1>2, <1>3, <1>8

\* The channel passes a consumer it has created to the queue.
LEMMA JoinsStep ==
    ASSUME TypeOK, LimitInv, JoinInv, StartInv, NEW c \in Consumers, ChannelJoins(c)
    PROVE  /\ Consumes(mailbox)' = Consumes(mailbox) \cup {c}
           /\ Cancels(mailbox) \subseteq Cancels(mailbox)' /\ ToldKept /\ Orderly'
           /\ \A d \in Consumers : Linked(d)' <=> Linked(d)
           /\ ~Listed(c) /\ c \in created /\ Linked(c)
           /\ c \notin chan_cancel /\ cancelling # c
<1> DEFINE x == Method("consume", c, active[ChannelOf[c]])
<1>1. mailbox' = Append(mailbox, x) /\ by_channel' = by_channel /\ crediting[c] # "no"
  BY DEF ChannelJoins, Post
<1>2. x \in Mail /\ x.method = "consume" /\ x.who = c
  BY JoinTypes DEF Method, Mail
<1>3. /\ c \notin Consumes(mailbox) /\ ~Listed(c) /\ c \notin chan_cancel /\ cancelling # c
      /\ c \in created /\ Linked(c)
  BY <1>1 DEF StartInv, Starting
<1>4. c \notin Cancels(mailbox)
  BY <1>3 DEF LimitInv, Gone, Linked
<1> HIDE DEF x
<1>5. Joining(mailbox) /\ NoGets(mailbox)
  BY DEF JoinInv, Orderly
<1>6. /\ Consumes(Append(mailbox, x)) = Consumes(mailbox) \cup {x.who}
      /\ Cancels(mailbox) \subseteq Cancels(Append(mailbox, x))
      /\ Told(mailbox) => Told(Append(mailbox, x))
      /\ Joining(mailbox) => Joining(Append(mailbox, x))
      /\ NoGets(mailbox) => NoGets(Append(mailbox, x))
  BY <1>2, <1>3, <1>4, JoinTypes, JoinMail
<1>7. /\ Consumes(mailbox') = Consumes(mailbox) \cup {c}
      /\ Cancels(mailbox) \subseteq Cancels(mailbox')
      /\ Told(mailbox) => Told(mailbox')
      /\ Joining(mailbox') /\ NoGets(mailbox')
  BY <1>1, <1>2, <1>5, <1>6
<1>8. Consumes(mailbox)' = Consumes(mailbox) \cup {c} /\ Cancels(mailbox) \subseteq Cancels(mailbox)'
  BY <1>7 DEF Consumes, Cancels
<1>9. ToldKept /\ Orderly'
  BY <1>7 DEF ToldKept, Told, Orderly, Joining, NoGets
<1>10. \A d \in Consumers : Linked(d)' <=> Linked(d)
  BY <1>1 DEF Linked, Occurs
<1> QED
  BY <1>3, <1>8, <1>9, <1>10

\* A consumer that the channel creates waits to join, and only once.
LEMMA ConsumeJoin ==
    ASSUME TypeOK, LimitInv, JoinInv, StartInv, NEW c \in Consumers, ChannelCredits(c)
    PROVE  JoinInv'
<1>1. /\ UNCHANGED <<queueVars, loopVars, chan_cancel>> /\ created \subseteq created'
      /\ ChannelConsume(c) => created' = created \cup {c}
  BY DEF ChannelCredits, ChannelConsume, ChannelFindsZero, ChannelJoins
<1>2. /\ Consumes(mailbox)' \subseteq Consumes(mailbox) \cup {c}
      /\ c \in Consumes(mailbox)' => c \in created' /\ Linked(c)'
      /\ Cancels(mailbox) \subseteq Cancels(mailbox)' /\ Orderly'
      /\ \A d \in Consumers : Linked(d) => Linked(d)'
      /\ c \in Consumes(mailbox)' => ~Listed(c) /\ c \notin chan_cancel /\ cancelling # c
  <2>1. CASE ChannelConsume(c)
    BY <2>1, ConsumeStep DEF MailKept
  <2>2. CASE ChannelJoins(c)
    BY <1>1, <2>2, JoinsStep
  <2>3. CASE ChannelFindsZero(c)
    <3>1. mailbox' = mailbox /\ by_channel' = by_channel
      BY <2>3 DEF ChannelFindsZero, mailVars
    <3>2. MailKept
      BY <3>1, StillKeeps
    <3>3. \A d \in Consumers : Linked(d)' <=> Linked(d)
      BY <3>1 DEF Linked, Occurs
    <3>4. c \in Consumes(mailbox) =>
              /\ c \in created /\ ~Listed(c) /\ c \notin chan_cancel /\ cancelling # c
              /\ c \notin Consumes(mailbox)
      BY <2>3 DEF ChannelFindsZero, StartInv, Starting
    <3> QED
      BY <3>2, <3>3, <3>4 DEF MailKept
  <2> QED
    BY <2>1, <2>2, <2>3 DEF ChannelCredits
<1>3. /\ NoRepeat(consumer_list)' /\ Orderly' /\ LoopSound' /\ Unlocked'
      /\ \A d \in Consumers : Listed(d)' <=> Listed(d)
  BY <1>1, <1>2, QueueStays
<1>4. ASSUME NEW d \in Consumers PROVE Joined(d)'
  <2>1. Joined(d) /\ (Listed(d)' <=> Listed(d)) /\ (Linked(d) => Linked(d)')
    BY <1>2, <1>3 DEF JoinInv
  <2>2. /\ d \in Consumes(mailbox)' => d \in Consumes(mailbox) \/ d = c
        /\ Leaving(d) => Leaving(d)'
        /\ cancelling' = cancelling /\ chan_cancel' = chan_cancel
    BY <1>1, <1>2 DEF Leaving, loopVars
  <2> QED
    BY <1>1, <1>2, <2>1, <2>2 DEF Joined
<1> QED
  BY <1>3, <1>4 DEF JoinInv

\* The client cancels a consumer.
LEMMA CancelStep ==
    ASSUME TypeOK, LimitInv, JoinInv, NEW c \in Consumers, ChannelCancel(c)
    PROVE  /\ MailKept /\ ToldKept /\ c \in Cancels(mailbox)'
           /\ \A d \in Consumers : Linked(d)' <=> Linked(d) /\ d # c
<1> DEFINE x == Method("cancel", c, TRUE)
<1>1. x \in Mail /\ x.method = "cancel" /\ x.who = c
  BY DEF Method, Mail
<1>2. mailbox' = Append(mailbox, x) /\ by_channel' = [by_channel EXCEPT ![ChannelOf[c]] = Drop(@, c)]
  BY DEF ChannelCancel, Post
<1> HIDE DEF x
<1>3. MailKept /\ ToldKept
  BY <1>1, <1>2, PostKeeps DEF JoinInv
<1>4. c \in Cancels(mailbox')
  BY <1>1, <1>2, JoinTypes, PostMail
<1>5. c \in Cancels(mailbox)'
  BY <1>4 DEF Cancels
<1> QED
  BY <1>2, <1>3, <1>5, LinkDropped

\* The channel drops a consumer that the queue has refused.
LEMMA CancelledStep ==
    ASSUME TypeOK, LimitInv, JoinInv, NEW c \in Consumers, ChannelCancelled(c)
    PROVE  /\ MailKept /\ ToldKept
           /\ ~Listed(c) /\ c \notin Consumes(mailbox)
           /\ \A d \in Consumers : Linked(d)' <=> Linked(d) /\ d # c
<1>1. /\ mailbox' = mailbox /\ by_channel' = [by_channel EXCEPT ![ChannelOf[c]] = Drop(@, c)]
      /\ c \in chan_cancel
  BY DEF ChannelCancelled, mailVars
<1> QED
  BY <1>1, StillKeeps, LinkDropped DEF JoinInv, Joined

\* The channel is destroyed.
LEMMA DestroyStep ==
    ASSUME TypeOK, LimitInv, JoinInv, NEW ch \in Channels, ChannelDestroy(ch)
    PROVE  /\ MailKept /\ ToldKept
           /\ \A d \in Consumers : Linked(d) => Linked(d)' \/ d \in Cancels(mailbox)'
<1>1. mailbox' = mailbox \o PerConsumer(ch, "cancel") /\ by_channel' = [by_channel EXCEPT ![ch] = <<>>]
  BY DEF ChannelDestroy
<1>2. /\ MailKept /\ ToldKept
      /\ \A c \in Consumers : Occurs(by_channel[ch], c) => c \in Cancels(mailbox)'
  <2>1. Orderly
    BY DEF JoinInv
  <2> QED
    BY <1>1, <2>1, PerConsumerKeeps
<1>3. ASSUME NEW d \in Consumers, Linked(d) PROVE Linked(d)' \/ d \in Cancels(mailbox)'
  <2>1. CASE ChannelOf[d] = ch
    BY <1>2, <1>3, <2>1 DEF Linked
  <2>2. CASE ChannelOf[d] # ch
    <3>1. by_channel'[ChannelOf[d]] = by_channel[ChannelOf[d]]
      BY <1>1, <2>2, JoinTypes
    <3> QED
      BY <1>3, <3>1 DEF Linked, Occurs
  <2> QED
    BY <2>1, <2>2
<1> QED
  BY <1>2, <1>3

\* A consumer leaves its channel's list.
LEMMA LeaveJoin ==
    ASSUME TypeOK, LimitInv, JoinInv,
           \/ \E c \in Consumers : ChannelCancel(c) \/ ChannelCancelled(c)
           \/ \E ch \in Channels : ChannelDestroy(ch)
    PROVE  JoinInv'
<1>1. UNCHANGED <<queueVars, loopVars, created>> /\ chan_cancel' \subseteq chan_cancel
  BY DEF ChannelCancel, ChannelCancelled, ChannelDestroy
<1>2. /\ MailKept
      /\ \A d \in Consumers :
            Linked(d) => Linked(d)' \/ d \in Cancels(mailbox)' \/ ~(Listed(d) \/ d \in Consumes(mailbox))
  <2>1. ASSUME NEW c \in Consumers, ChannelCancel(c)
        PROVE  /\ MailKept
               /\ \A d \in Consumers : Linked(d) => Linked(d)' \/ d \in Cancels(mailbox)'
    BY <2>1, CancelStep
  <2>2. ASSUME NEW c \in Consumers, ChannelCancelled(c)
        PROVE  /\ MailKept
               /\ \A d \in Consumers : Linked(d) => Linked(d)' \/ ~(Listed(d) \/ d \in Consumes(mailbox))
    BY <2>2, CancelledStep
  <2> QED
    BY <2>1, <2>2, DestroyStep
<1>3. /\ NoRepeat(consumer_list)' /\ Orderly' /\ LoopSound' /\ Unlocked'
      /\ \A d \in Consumers : Listed(d)' <=> Listed(d)
  BY <1>1, <1>2, QueueStays DEF MailKept
<1>4. ASSUME NEW d \in Consumers PROVE Joined(d)'
  <2>1. Joined(d) /\ (Listed(d)' <=> Listed(d)) /\ (d \in Consumes(mailbox)' <=> d \in Consumes(mailbox))
    BY <1>2, <1>3 DEF JoinInv, MailKept
  <2>2. /\ Leaving(d) => Leaving(d)'
        /\ d \in Cancels(mailbox)' => Leaving(d)'
        /\ cancelling' = cancelling
    BY <1>1, <1>2 DEF Leaving, loopVars, MailKept
  <2> QED
    BY <1>1, <1>2, <2>1, <2>2 DEF Joined
<1> QED
  BY <1>3, <1>4 DEF JoinInv

\* The queue takes a consume; it posts itself a dispatch if it accepts the consumer.
LEMMA TakeConsume ==
    ASSUME TypeOK, JoinInv, HandleConsume
    PROVE  LET c == Head(mailbox).who IN
           /\ c \in Consumers /\ c \in Consumes(mailbox)
           /\ Consumes(mailbox)' = Consumes(mailbox) \ {c}
           /\ Cancels(mailbox) \subseteq Cancels(mailbox)' /\ ToldKept /\ Orderly'
           /\ ~Refused(c) => Told(mailbox)'
           /\ step = "idle"
<1> DEFINE c == Head(mailbox).who
           t == Tail(mailbox)
<1>1. /\ mailbox \in Seq(Mail) /\ mailbox # <<>> /\ Head(mailbox).method = "consume" /\ t \in Seq(Mail)
      /\ c \in Consumers /\ step = "idle"
  BY JoinTypes, HeadType DEF HandleConsume, Take
<1>2. /\ mailbox' = t \/ mailbox' = Append(t, DispatchMethod)
      /\ ~Refused(c) => mailbox' = Append(t, DispatchMethod)
  BY DEF HandleConsume
<1>3. /\ Joining(t) /\ NoGets(t) /\ Consumes(t) = Consumes(mailbox) \ {c}
      /\ Cancels(mailbox) \subseteq Cancels(t) /\ (Told(mailbox) => Told(t))
      /\ c \in Consumes(mailbox)
  <2>1. Joining(mailbox) /\ NoGets(mailbox)
    BY DEF JoinInv, Orderly
  <2>2. /\ Joining(Tail(mailbox)) /\ NoGets(Tail(mailbox))
        /\ Consumes(Tail(mailbox)) = Consumes(mailbox) \ (IF Head(mailbox).method = "consume" THEN {Head(mailbox).who} ELSE {})
        /\ Cancels(mailbox) \subseteq Cancels(Tail(mailbox)) \cup (IF Head(mailbox).method = "cancel" THEN {Head(mailbox).who} ELSE {})
        /\ Told(mailbox) /\ Head(mailbox).method # "dispatch" => Told(Tail(mailbox))
        /\ Head(mailbox).method = "consume" => Head(mailbox).who \in Consumes(mailbox)
    BY <1>1, <2>1, TakeMail
  <2> QED
    BY <1>1, <2>2
<1>4. DispatchMethod \in Mail /\ DispatchMethod.method = "dispatch"
  BY MailType DEF DispatchMethod, Method
<1> HIDE DEF c, t
<1>5. /\ Consumes(mailbox') = Consumes(t) /\ Cancels(t) \subseteq Cancels(mailbox')
      /\ Told(t) => Told(mailbox')
      /\ Joining(mailbox') /\ NoGets(mailbox')
      /\ mailbox' = Append(t, DispatchMethod) => Told(mailbox')
  <2>1. CASE mailbox' = Append(t, DispatchMethod)
    BY <1>1, <1>3, <1>4, <2>1, PostMail
  <2>2. CASE mailbox' = t /\ mailbox' # Append(t, DispatchMethod)
    BY <1>3, <2>2
  <2> QED
    BY <1>2, <2>1, <2>2
<1>6. Consumes(mailbox)' = Consumes(mailbox) \ {c} /\ Cancels(mailbox) \subseteq Cancels(mailbox)'
  BY <1>3, <1>5 DEF Consumes, Cancels
<1>7. ToldKept /\ Orderly' /\ (~Refused(c) => Told(mailbox)')
  BY <1>2, <1>3, <1>5 DEF ToldKept, Told, Orderly, Joining, NoGets
<1> QED
  BY <1>1, <1>3, <1>6, <1>7 DEF c

\* The queue takes a cancel: by then the consumer has joined or was refused.
LEMMA TakeCancel ==
    ASSUME TypeOK, JoinInv, HandleCancel
    PROVE  LET c == Head(mailbox).who IN
           /\ c \in Consumers /\ c \in Cancels(mailbox) /\ c \notin Consumes(mailbox)
           /\ Consumes(mailbox)' = Consumes(mailbox)
           /\ Cancels(mailbox) \subseteq Cancels(mailbox)' \cup {c} /\ ToldKept /\ Orderly'
           /\ step = "idle"
<1> DEFINE c == Head(mailbox).who
           t == Tail(mailbox)
<1>1. /\ mailbox \in Seq(Mail) /\ mailbox # <<>> /\ Head(mailbox).method = "cancel"
      /\ c \in Consumers /\ step = "idle" /\ mailbox' = t
  BY JoinTypes, HeadType DEF HandleCancel, Take
<1>2. /\ Joining(t) /\ NoGets(t) /\ Consumes(t) = Consumes(mailbox)
      /\ Cancels(mailbox) \subseteq Cancels(t) \cup {c} /\ (Told(mailbox) => Told(t))
      /\ c \in Cancels(mailbox) /\ c \notin Consumes(mailbox)
  <2>1. Joining(mailbox) /\ NoGets(mailbox)
    BY DEF JoinInv, Orderly
  <2>2. /\ Joining(Tail(mailbox)) /\ NoGets(Tail(mailbox))
        /\ Consumes(Tail(mailbox)) = Consumes(mailbox) \ (IF Head(mailbox).method = "consume" THEN {Head(mailbox).who} ELSE {})
        /\ Cancels(mailbox) \subseteq Cancels(Tail(mailbox)) \cup (IF Head(mailbox).method = "cancel" THEN {Head(mailbox).who} ELSE {})
        /\ Told(mailbox) /\ Head(mailbox).method # "dispatch" => Told(Tail(mailbox))
        /\ Head(mailbox).method = "cancel" => Head(mailbox).who \in Cancels(mailbox) /\ Head(mailbox).who \notin Consumes(mailbox)
    BY <1>1, <2>1, TakeMail
  <2> QED
    BY <1>1, <2>2
<1> HIDE DEF c, t
<1>3. Consumes(mailbox)' = Consumes(mailbox) /\ Cancels(mailbox) \subseteq Cancels(mailbox)' \cup {c}
  BY <1>1, <1>2 DEF Consumes, Cancels
<1>4. ToldKept /\ Orderly'
  BY <1>1, <1>2 DEF ToldKept, Told, Orderly, Joining, NoGets
<1> QED
  BY <1>1, <1>2, <1>3, <1>4 DEF c

\* The queue accepts or refuses a consumer.
LEMMA AcceptJoin ==
    ASSUME TypeOK, JoinInv, HandleConsume
    PROVE  JoinInv'
<1> DEFINE c == Head(mailbox).who
<1>1. /\ c \in Consumers /\ c \in Consumes(mailbox)
      /\ Consumes(mailbox)' = Consumes(mailbox) \ {c}
      /\ Cancels(mailbox) \subseteq Cancels(mailbox)' /\ Orderly' /\ step = "idle"
  BY TakeConsume
<1>2. /\ UNCHANGED <<by_channel, created, cancelling, step, chosen>>
      /\ IF Refused(c)
         THEN chan_cancel' \subseteq chan_cancel \cup {c} /\ UNCHANGED <<consumer_list, locked>>
         ELSE /\ consumer_list' = Append(consumer_list, c) /\ chan_cancel' = chan_cancel
              /\ locked' = (locked \/ c \in ExclusiveConsumers)
  BY DEF HandleConsume, loopVars
<1> HIDE DEF c
<1>3. ~Listed(c) /\ c \in created /\ cancelling # c /\ (Linked(c) \/ Leaving(c))
  BY <1>1 DEF JoinInv, Joined
<1>4. ~Refused(c) /\ Exclusive => ChannelOf[c] = Owner
  BY DEF Refused
<1>5. /\ NoRepeat(consumer_list')
      /\ \A d : Occurs(consumer_list', d) <=> Occurs(consumer_list, d) \/ (d = c /\ ~Refused(c))
  <2>1. CASE Refused(c)
    BY <1>2, <2>1 DEF JoinInv
  <2>2. CASE ~Refused(c)
    <3>1. consumer_list \in Seq(Consumers) /\ NoRepeat(consumer_list) /\ ~Occurs(consumer_list, c)
      BY <1>3, JoinTypes DEF JoinInv, Listed
    <3>2. NoRepeat(Append(consumer_list, c)) /\ \A d : Occurs(Append(consumer_list, c), d) <=> Occurs(consumer_list, d) \/ d = c
      BY <1>1, <3>1, AddIs
    <3> QED
      BY <1>2, <2>2, <3>2
  <2> QED
    BY <2>1, <2>2
<1>6. /\ NoRepeat(consumer_list)'
      /\ \A d \in Consumers : Listed(d)' <=> Listed(d) \/ (d = c /\ ~Refused(c))
  BY <1>5 DEF NoRepeat, Listed, Occurs
<1>7. LoopSound' /\ Unlocked'
  BY <1>1, <1>2 DEF JoinInv, LoopSound, Unlocked
<1>8. ASSUME NEW d \in Consumers PROVE Joined(d)'
  <2>1. /\ Joined(d) /\ (Listed(d)' <=> Listed(d) \/ (d = c /\ ~Refused(c)))
        /\ d \in Consumes(mailbox)' <=> d \in Consumes(mailbox) /\ d # c
    BY <1>1, <1>6 DEF JoinInv
  <2>2. (Leaving(d) => Leaving(d)') /\ (Linked(d) => Linked(d)')
    BY <1>1, <1>2 DEF Leaving, Linked, Occurs
  <2>3. d \in chan_cancel' => d \in chan_cancel \/ (d = c /\ Refused(c))
    BY <1>2
  <2> QED
    BY <1>1, <1>2, <1>3, <1>4, <2>1, <2>2, <2>3 DEF Joined
<1> QED
  BY <1>1, <1>6, <1>7, <1>8 DEF JoinInv

\* The handler of cancel begins: its consumer is still listed.
LEMMA CancelJoin ==
    ASSUME TypeOK, JoinInv, LimitInv, HandleCancel
    PROVE  JoinInv'
<1> DEFINE c == Head(mailbox).who
<1>1. /\ c \in Consumers /\ c \in Cancels(mailbox) /\ c \notin Consumes(mailbox)
      /\ Consumes(mailbox)' = Consumes(mailbox)
      /\ Cancels(mailbox) \subseteq Cancels(mailbox)' \cup {c} /\ Orderly' /\ step = "idle"
  BY TakeCancel
<1>2. /\ UNCHANGED <<by_channel, created, chan_cancel, consumer_list, locked, chosen>>
      /\ cancelling' = c /\ step' \in {"find", "finish"}
  BY DEF HandleCancel, channelVars
<1> HIDE DEF c
<1>3. c \in created
  BY <1>1 DEF LimitInv, Gone
<1>4. NoRepeat(consumer_list)' /\ \A d \in Consumers : Listed(d)' <=> Listed(d)
  BY <1>2 DEF JoinInv, NoRepeat, Listed, Occurs
<1>5. LoopSound' /\ Unlocked'
  BY <1>2 DEF JoinInv, LoopSound, Unlocked
<1>6. cancelling = Nobody
  BY <1>1 DEF JoinInv, LoopSound
<1>7. ASSUME NEW d \in Consumers PROVE Joined(d)'
  <2>1. Joined(d) /\ (Listed(d)' <=> Listed(d)) /\ (d \in Consumes(mailbox)' <=> d \in Consumes(mailbox))
    BY <1>1, <1>4 DEF JoinInv
  <2>2. (Leaving(d) => Leaving(d)') /\ (Linked(d) => Linked(d)')
    BY <1>1, <1>2, <1>6, JoinTypes DEF Leaving, Linked, Occurs
  <2> QED
    BY <1>1, <1>2, <1>3, <2>1, <2>2 DEF Joined
<1> QED
  BY <1>1, <1>4, <1>5, <1>7 DEF JoinInv

\* The handler of cancel ends: its consumer leaves the list.
LEMMA FinishStep ==
    ASSUME TypeOK, SpendCovered, JoinInv, CancelFinish
    PROVE  /\ MailKept /\ ToldKept /\ cancelling \in Consumers
           /\ NoRepeat(consumer_list')
           /\ \A d : Occurs(consumer_list', d) <=> Occurs(consumer_list, d) /\ d # cancelling
<1>1. mailbox' = mailbox \/ mailbox' = Append(mailbox, SelfDestructMethod)
  BY DEF CancelFinish, Post
<1>2. SelfDestructMethod \in Mail /\ SelfDestructMethod.method = "self_destruct"
  BY MailType DEF SelfDestructMethod, Method
<1>3. MailKept /\ ToldKept
  BY <1>1, <1>2, PostKeeps DEF JoinInv
<1>4. cancelling \in Consumers /\ consumer_list' = Drop(consumer_list, cancelling)
  BY DEF CancelFinish, SpendCovered
<1>5. /\ NoRepeat(Drop(consumer_list, cancelling))
      /\ \A d : Occurs(Drop(consumer_list, cancelling), d) <=> Occurs(consumer_list, d) /\ d # cancelling
  BY JoinTypes, DropIs DEF JoinInv
<1> QED
  BY <1>3, <1>4, <1>5

\* So it has left the queue for good.
LEMMA FinishJoin ==
    ASSUME TypeOK, SpendCovered, JoinInv, CancelFinish
    PROVE  JoinInv'
<1>1. /\ MailKept /\ cancelling \in Consumers
      /\ NoRepeat(consumer_list')
      /\ \A d : Occurs(consumer_list', d) <=> Occurs(consumer_list, d) /\ d # cancelling
  BY FinishStep
<1>2. /\ UNCHANGED <<by_channel, created, chan_cancel>>
      /\ cancelling' = Nobody /\ step' = "idle" /\ locked' = FALSE
  BY DEF CancelFinish, channelVars
<1>3. NoRepeat(consumer_list)' /\ \A d \in Consumers : Listed(d)' <=> Listed(d) /\ d # cancelling
  BY <1>1 DEF NoRepeat, Listed, Occurs
<1>4. LoopSound' /\ Unlocked' /\ Orderly'
  BY <1>1, <1>2 DEF LoopSound, Unlocked, MailKept
<1>5. ASSUME NEW d \in Consumers PROVE Joined(d)'
  <2>1. /\ Joined(d) /\ (Listed(d)' <=> Listed(d) /\ d # cancelling)
        /\ d \in Consumes(mailbox)' <=> d \in Consumes(mailbox)
    BY <1>1, <1>3 DEF JoinInv, MailKept
  <2>2. (Leaving(d) /\ d # cancelling => Leaving(d)') /\ (Linked(d) => Linked(d)')
    BY <1>1, <1>2 DEF Leaving, Linked, Occurs, MailKept
  <2>3. d # Nobody
    BY JoinTypes
  <2> QED
    BY <1>2, <2>1, <2>2, <2>3 DEF Joined
<1> QED
  BY <1>3, <1>4, <1>5 DEF JoinInv

\* The queue destroys the first consumer of its list.
LEMMA StopStep ==
    ASSUME TypeOK, JoinInv, LimitInv, StopConsumer
    PROVE  LET c == Head(consumer_list) IN
           /\ c \in Consumers /\ Listed(c) /\ MailKept /\ ToldKept
           /\ NoRepeat(consumer_list')
           /\ \A d : Occurs(consumer_list', d) <=> Occurs(consumer_list, d) /\ d # c
           /\ \A d \in Consumers : Linked(d)' <=> Linked(d) /\ d # c
<1> DEFINE c == Head(consumer_list)
           t == Tail(consumer_list)
           s == consumer_list
<1>1. /\ s \in Seq(Consumers) /\ s # <<>> /\ consumer_list' = t /\ mailbox' = mailbox
      /\ by_channel' = [by_channel EXCEPT ![ChannelOf[c]] = Drop(@, c)]
  BY JoinTypes DEF StopConsumer, Stopped, mailVars
<1>2. /\ Len(s) \in Nat /\ Len(s) >= 1 /\ Len(t) = Len(s) - 1 /\ c = s[1] /\ 1 \in 1 .. Len(s)
      /\ \A i \in 1 .. Len(t) : t[i] = s[i + 1] /\ i + 1 \in 1 .. Len(s) /\ i + 1 # 1
      /\ \A i \in 1 .. Len(s) : i = 1 \/ (i - 1 \in 1 .. Len(t) /\ t[i - 1] = s[i])
      /\ c \in Consumers
  BY <1>1
<1>3. NoRepeat(s)
  BY DEF JoinInv
<1> HIDE DEF c, t
<1>4. NoRepeat(t)
  <2> SUFFICES ASSUME NEW i \in 1 .. Len(t), NEW j \in 1 .. Len(t), t[i] = t[j] PROVE i = j
    BY DEF NoRepeat
  <2>1. i + 1 = j + 1
    BY <1>2, <1>3 DEF NoRepeat
  <2> QED
    BY <2>1
<1>5. ASSUME NEW d PROVE Occurs(t, d) <=> Occurs(s, d) /\ d # c
  <2>1. ASSUME NEW i \in 1 .. Len(t), t[i] = d PROVE Occurs(s, d) /\ d # c
    <3>1. i + 1 \in 1 .. Len(s) /\ s[i + 1] = d /\ i + 1 # 1
      BY <1>2, <2>1
    <3> QED
      BY <1>2, <1>3, <3>1 DEF Occurs, NoRepeat
  <2>2. ASSUME NEW i \in 1 .. Len(s), s[i] = d, d # c PROVE Occurs(t, d)
    BY <1>2, <2>2 DEF Occurs
  <2> QED
    BY <2>1, <2>2 DEF Occurs
<1>6. Listed(c)
  BY <1>2 DEF Listed, Occurs
<1>7. MailKept /\ ToldKept
  BY <1>1, StillKeeps
<1>8. \A d \in Consumers : Linked(d)' <=> Linked(d) /\ d # c
  BY <1>1, <1>2, LinkDropped
<1> QED
  BY <1>1, <1>2, <1>4, <1>5, <1>6, <1>7, <1>8 DEF c

\* It leaves the list of the queue and that of its channel.
LEMMA StopJoin ==
    ASSUME TypeOK, JoinInv, LimitInv, StopConsumer
    PROVE  JoinInv'
<1> DEFINE c == Head(consumer_list)
<1>1. /\ c \in Consumers /\ Listed(c) /\ MailKept
      /\ NoRepeat(consumer_list')
      /\ \A d : Occurs(consumer_list', d) <=> Occurs(consumer_list, d) /\ d # c
      /\ \A d \in Consumers : Linked(d)' <=> Linked(d) /\ d # c
  BY StopStep
<1>2. UNCHANGED <<created, chan_cancel, cancelling, step, chosen, locked>> /\ step = "stop"
  BY DEF StopConsumer, loopVars
<1> HIDE DEF c
<1>3. NoRepeat(consumer_list)' /\ \A d \in Consumers : Listed(d)' <=> Listed(d) /\ d # c
  BY <1>1 DEF NoRepeat, Listed, Occurs
<1>4. LoopSound' /\ Unlocked' /\ Orderly'
  BY <1>1, <1>2 DEF JoinInv, LoopSound, Unlocked, MailKept
<1>5. ASSUME NEW d \in Consumers PROVE Joined(d)'
  <2>1. /\ Joined(d) /\ (Listed(d)' <=> Listed(d) /\ d # c)
        /\ d \in Consumes(mailbox)' <=> d \in Consumes(mailbox)
    BY <1>1, <1>3 DEF JoinInv, MailKept
  <2>2. (Leaving(d) => Leaving(d)') /\ (Linked(d)' <=> Linked(d) /\ d # c)
    BY <1>1, <1>2 DEF Leaving, MailKept
  <2>3. c \notin Consumes(mailbox)
    BY <1>1 DEF JoinInv, Joined
  <2> QED
    BY <1>2, <2>1, <2>2, <2>3 DEF Joined
<1> QED
  BY <1>3, <1>4, <1>5 DEF JoinInv

\* No consumer has joined in the initial state.
LEMMA JoinInit == Init => JoinInv
<1> SUFFICES ASSUME Init PROVE JoinInv
  OBVIOUS
<1>1. /\ mailbox = <<>> /\ consumer_list = <<>> /\ locked = FALSE /\ step = "idle"
      /\ cancelling = Nobody /\ chan_cancel = {}
  BY DEF Init
<1>2. Len(mailbox) = 0 /\ Len(consumer_list) = 0
  BY <1>1
<1>3. NoRepeat(consumer_list) /\ Orderly /\ LoopSound /\ Unlocked
  BY <1>1, <1>2 DEF NoRepeat, Orderly, Joining, NoGets, LoopSound, Unlocked
<1>4. Consumes(mailbox) = {} /\ \A c \in Consumers : ~Listed(c)
  BY <1>2 DEF Consumes, Listed, Occurs
<1>5. \A c \in Consumers : c # Nobody
  BY ConstantsAssumption
<1> QED
  BY <1>1, <1>3, <1>4, <1>5 DEF JoinInv, Joined

\* Every step keeps the order in which consumers join and leave.
LEMMA JoinNext ==
    TypeOK /\ SpendCovered /\ LimitInv /\ JoinInv /\ StartInv /\ [Next]_vars => JoinInv'
<1> SUFFICES ASSUME TypeOK, SpendCovered, LimitInv, JoinInv, StartInv, [Next]_vars PROVE JoinInv'
  OBVIOUS
<1>1. ASSUME NEW c \in Consumers, ChannelCredits(c) PROVE JoinInv'
  BY <1>1, ConsumeJoin
<1>2. CASE UNCHANGED vars
  <2>1. UNCHANGED <<mailbox, by_channel, chan_cancel, created, loopVars, consumer_list, locked>>
    BY <1>2 DEF vars, mailVars, queueVars, channelVars
  <2>2. LoopSound'
    BY <2>1 DEF JoinInv, LoopSound, loopVars, Listed, Occurs
  <2> QED
    BY <2>1, <2>2, StillKeeps, QuietJoinList DEF loopVars
<1> QED
  BY <1>1, <1>2, ClientJoin, HandlerJoin, LoopJoin, LeaveJoin, AcceptJoin, CancelJoin, FinishJoin, StopJoin
     DEF Next, QueueThread

-----------------------------------------------------------------------------
(* Whom a channel is creating, the queue does not know yet: StartInv       *)

\* Only the channels create consumers.
LEMMA CreditingStays ==
    ASSUME [Next]_vars
    PROVE  (\E c \in Consumers : ChannelCredits(c)) \/ crediting' = crediting
<1>1. ASSUME QueueThread PROVE crediting' = crediting
  BY <1>1 DEF QueueThread, HandlePublish, HandleGet, HandlePurge, HandleConsume, HandleDispatch,
     HandleAck, HandleCancel, CancelFinish, HandleSelfDestruct, StopConsumer, StopFinish,
     DispatchFind, DispatchDeliver, channelVars
<1>2. ASSUME \/ PostPublish \/ PostGet \/ PostPurge \/ PostDelete \/ AutoDeleteEvent
             \/ \E c \in Consumers : ChannelCancel(c) \/ ChannelCancelled(c)
             \/ \E ch \in Channels :
                 \/ ChannelAck(ch) \/ ChannelDestroy(ch) \/ ChannelUnlink(ch)
                 \/ SendContent(ch) \/ EarnTest(ch)
                 \/ \E on \in BOOLEAN : ChannelFlow(ch, on)
      PROVE  crediting' = crediting
  BY <1>2 DEF PostPublish, PostGet, PostPurge, PostDelete, AutoDeleteEvent, ChannelCancel,
     ChannelCancelled, ChannelAck, ChannelDestroy, ChannelUnlink, SendContent, EarnTest,
     ChannelFlow, channelVars
<1>3. CASE UNCHANGED vars
  BY <1>3 DEF vars, channelVars
<1> QED
  BY <1>1, <1>2, <1>3 DEF Next

\* A step that creates no consumer and unlinks none that is being created: who joins,
\* is refused or is cancelled comes out of the mailbox, and no cancel names such a
\* consumer, which its channel still links.
LEMMA StartKept ==
    ASSUME LimitInv, StartInv, crediting' = crediting, created' = created,
           Consumes(mailbox)' \subseteq Consumes(mailbox),
           \A d \in Consumers : Listed(d)' => Listed(d) \/ d \in Consumes(mailbox),
           chan_cancel' \subseteq chan_cancel \cup Consumes(mailbox),
           cancelling' \in {cancelling, Nobody} \cup Cancels(mailbox),
           \A d \in Consumers : crediting[d] # "no" /\ ~Listed(d) /\ Linked(d) => Linked(d)'
    PROVE  StartInv'
<1> SUFFICES ASSUME NEW c \in Consumers, crediting[c] # "no" PROVE Starting(c)'
  BY DEF StartInv, Starting
<1>1. /\ c \in created /\ Linked(c) /\ ~Listed(c)
      /\ c \notin Consumes(mailbox) /\ c \notin chan_cancel /\ cancelling # c
  BY DEF StartInv, Starting
<1>2. c \notin Cancels(mailbox)
  BY <1>1 DEF LimitInv, Gone, Linked
<1>3. c # Nobody
  BY ConstantsAssumption
<1> QED
  BY <1>1, <1>2, <1>3 DEF Starting

\* The steps of the channels that create no consumer, and those that only post.
LEMMA ClientStart ==
    ASSUME TypeOK, LimitInv, JoinInv, StartInv, crediting' = crediting,
           \/ PostPublish \/ PostGet \/ PostPurge \/ PostDelete \/ AutoDeleteEvent
           \/ \E c \in Consumers : ChannelCancel(c) \/ ChannelCancelled(c)
           \/ \E ch \in Channels :
               \/ ChannelAck(ch) \/ ChannelDestroy(ch) \/ ChannelUnlink(ch)
               \/ SendContent(ch) \/ EarnTest(ch)
               \/ \E on \in BOOLEAN : ChannelFlow(ch, on)
    PROVE  StartInv'
<1>1. CASE \/ PostPublish \/ PostGet \/ PostPurge \/ PostDelete \/ AutoDeleteEvent
           \/ \E ch \in Channels :
               \/ ChannelAck(ch) \/ ChannelUnlink(ch) \/ SendContent(ch) \/ EarnTest(ch)
               \/ \E on \in BOOLEAN : ChannelFlow(ch, on)
  <2>1. /\ MailKept
        /\ UNCHANGED <<by_channel, chan_cancel, created, loopVars, consumer_list>>
    BY <1>1, ClientKeeps
  <2>2. \A d \in Consumers : (Listed(d)' <=> Listed(d)) /\ (Linked(d)' <=> Linked(d))
    BY <2>1 DEF Listed, Linked, Occurs
  <2> QED
    BY <2>1, <2>2, StartKept DEF MailKept, loopVars
<1>2. ASSUME MailKept, UNCHANGED <<created, cancelling, consumer_list>>, chan_cancel' \subseteq chan_cancel,
             \A d \in Consumers : crediting[d] # "no" /\ ~Listed(d) /\ Linked(d) => Linked(d)'
      PROVE  StartInv'
  <2>1. \A d \in Consumers : Listed(d)' <=> Listed(d)
    BY <1>2 DEF Listed, Occurs
  <2> QED
    BY <1>2, <2>1, StartKept DEF MailKept
<1>3. ASSUME NEW c \in Consumers, ChannelCancel(c) \/ ChannelCancelled(c) PROVE StartInv'
  <2>1. MailKept /\ \A d \in Consumers : Linked(d)' <=> Linked(d) /\ d # c
    BY <1>3, CancelStep, CancelledStep
  <2>2. crediting[c] = "no"
    BY <1>3 DEF ChannelCancel, ChannelCancelled, Between
  <2>3. UNCHANGED <<created, cancelling, consumer_list>> /\ chan_cancel' \subseteq chan_cancel
    BY <1>3 DEF ChannelCancel, ChannelCancelled, loopVars, queueVars
  <2> QED
    BY <1>2, <2>1, <2>2, <2>3
<1>4. ASSUME NEW ch \in Channels, ChannelDestroy(ch) PROVE StartInv'
  <2>1. MailKept
    BY <1>4, DestroyStep
  <2>2. ASSUME NEW d \in Consumers, crediting[d] # "no", Linked(d) PROVE Linked(d)'
    <3>1. ChannelOf[d] # ch
      BY <1>4, <2>2 DEF ChannelDestroy, Between
    <3>2. by_channel'[ChannelOf[d]] = by_channel[ChannelOf[d]]
      BY <1>4, <3>1, JoinTypes DEF ChannelDestroy
    <3> QED
      BY <2>2, <3>2 DEF Linked, Occurs
  <2>3. UNCHANGED <<created, cancelling, consumer_list>> /\ chan_cancel' \subseteq chan_cancel
    BY <1>4 DEF ChannelDestroy, loopVars, queueVars
  <2> QED
    BY <1>2, <2>1, <2>2, <2>3
<1> QED
  BY <1>1, <1>3, <1>4

\* The steps of the queue's thread.
LEMMA QueueStart ==
    ASSUME TypeOK, SpendCovered, LimitInv, JoinInv, StartInv, crediting' = crediting, QueueThread
    PROVE  StartInv'
<1>1. CASE \/ HandlePublish \/ HandleGet \/ HandlePurge \/ HandleDispatch \/ HandleAck
           \/ HandleSelfDestruct
  <2>1. /\ MailKept
        /\ UNCHANGED <<by_channel, chan_cancel, created, cancelling, consumer_list>>
    BY <1>1, HandlerKeeps
  <2>2. \A d \in Consumers : (Listed(d)' <=> Listed(d)) /\ (Linked(d)' <=> Linked(d))
    BY <2>1 DEF Listed, Linked, Occurs
  <2> QED
    BY <2>1, <2>2, StartKept DEF MailKept
<1>2. CASE HandleConsume
  <2> DEFINE c == Head(mailbox).who
  <2>1. c \in Consumes(mailbox) /\ Consumes(mailbox)' = Consumes(mailbox) \ {c}
    BY <1>2, TakeConsume
  <2>2. /\ UNCHANGED <<by_channel, created, cancelling>> /\ chan_cancel' \subseteq chan_cancel \cup {c}
        /\ consumer_list' = consumer_list \/ consumer_list' = Append(consumer_list, c)
    BY <1>2 DEF HandleConsume, loopVars
  <2> HIDE DEF c
  <2>3. \A d \in Consumers : Listed(d)' => Listed(d) \/ d \in Consumes(mailbox)
    <3>1. consumer_list \in Seq(Consumers)
      BY JoinTypes
    <3>2. \A d : Occurs(consumer_list', d) => Occurs(consumer_list, d) \/ d = c
      BY <2>2, <3>1 DEF Occurs
    <3> QED
      BY <2>1, <3>2 DEF Listed, Occurs
  <2>4. \A d \in Consumers : Linked(d)' <=> Linked(d)
    BY <2>2 DEF Linked, Occurs
  <2> QED
    BY <2>1, <2>2, <2>3, <2>4, StartKept
<1>3. CASE HandleCancel
  <2> DEFINE c == Head(mailbox).who
  <2>1. c \in Cancels(mailbox) /\ Consumes(mailbox)' = Consumes(mailbox)
    BY <1>3, TakeCancel
  <2>2. UNCHANGED <<by_channel, created, chan_cancel, consumer_list>> /\ cancelling' = c
    BY <1>3 DEF HandleCancel, channelVars
  <2> HIDE DEF c
  <2>3. \A d \in Consumers : (Listed(d)' <=> Listed(d)) /\ (Linked(d)' <=> Linked(d))
    BY <2>2 DEF Listed, Linked, Occurs
  <2> QED
    BY <2>1, <2>2, <2>3, StartKept
<1>4. CASE CancelFinish
  <2>1. /\ MailKept
        /\ \A d : Occurs(consumer_list', d) <=> Occurs(consumer_list, d) /\ d # cancelling
    BY <1>4, FinishStep
  <2>2. UNCHANGED <<by_channel, created, chan_cancel>> /\ cancelling' = Nobody
    BY <1>4 DEF CancelFinish, channelVars
  <2>3. \A d \in Consumers : (Listed(d)' => Listed(d)) /\ (Linked(d)' <=> Linked(d))
    BY <2>1, <2>2 DEF Listed, Linked, Occurs
  <2> QED
    BY <2>1, <2>2, <2>3, StartKept DEF MailKept
<1>5. CASE StopConsumer
  <2> DEFINE c == Head(consumer_list)
  <2>1. /\ c \in Consumers /\ Listed(c) /\ MailKept
        /\ \A d : Occurs(consumer_list', d) <=> Occurs(consumer_list, d) /\ d # c
        /\ \A d \in Consumers : Linked(d)' <=> Linked(d) /\ d # c
    BY <1>5, StopStep
  <2>2. UNCHANGED <<created, chan_cancel, cancelling>>
    BY <1>5 DEF StopConsumer, loopVars
  <2> HIDE DEF c
  <2>3. \A d \in Consumers : Listed(d)' => Listed(d)
    BY <2>1 DEF Listed, Occurs
  <2> QED
    BY <2>1, <2>2, <2>3, StartKept DEF MailKept
<1>6. CASE StopFinish \/ DispatchFind
  <2>1. UNCHANGED <<mailbox, by_channel, created, chan_cancel, cancelling, consumer_list>>
    BY <1>6 DEF StopFinish, DispatchFind, mailVars, queueVars, channelVars
  <2>2. /\ Consumes(mailbox)' = Consumes(mailbox)
        /\ \A d \in Consumers : (Listed(d)' <=> Listed(d)) /\ (Linked(d)' <=> Linked(d))
    BY <2>1 DEF Consumes, Listed, Linked, Occurs
  <2> QED
    BY <2>1, <2>2, StartKept
<1>7. CASE DispatchDeliver
  <2>1. /\ UNCHANGED <<mailbox, by_channel, created, chan_cancel, cancelling>>
        /\ consumer_list' = Append(Drop(consumer_list, chosen), chosen)
        /\ chosen \in Consumers /\ Occurs(consumer_list, chosen)
    BY <1>7 DEF DispatchDeliver, mailVars, SpendCovered, JoinInv, LoopSound, Listed
  <2> DEFINE rest == Drop(consumer_list, chosen)
  <2>2. /\ rest \in Seq(Consumers) /\ NoRepeat(rest)
        /\ \A d : Occurs(rest, d) <=> Occurs(consumer_list, d) /\ d # chosen
    BY JoinTypes, DropType, DropIs DEF JoinInv
  <2> HIDE DEF rest
  <2>3. \A d : Occurs(Append(rest, chosen), d) <=> Occurs(rest, d) \/ d = chosen
    BY <2>1, <2>2, AddIs
  <2>4. \A d : Occurs(consumer_list', d) => Occurs(consumer_list, d)
    BY <2>1, <2>2, <2>3 DEF rest
  <2>5. /\ Consumes(mailbox)' = Consumes(mailbox)
        /\ \A d \in Consumers : (Listed(d)' => Listed(d)) /\ (Linked(d)' <=> Linked(d))
    BY <2>1, <2>4 DEF Consumes, Listed, Linked, Occurs
  <2> QED
    BY <2>1, <2>5, StartKept
<1> QED
  BY <1>1, <1>2, <1>3, <1>4, <1>5, <1>6, <1>7 DEF QueueThread

\* A channel creates a consumer, or goes on creating it.
LEMMA CreditsStart ==
    ASSUME TypeOK, LimitInv, JoinInv, StartInv, NEW c \in Consumers, ChannelCredits(c)
    PROVE  StartInv'
<1> SUFFICES ASSUME NEW d \in Consumers, crediting'[d] # "no" PROVE Starting(d)'
  BY DEF StartInv, Starting
<1>1. /\ UNCHANGED <<consumer_list, cancelling, chan_cancel>> /\ created \subseteq created'
      /\ crediting \in [Consumers -> {"no", "set", "zero"}]
  BY DEF ChannelCredits, ChannelConsume, ChannelFindsZero, ChannelJoins, queueVars, loopVars,
     TypeOK, ChannelTypeOK
<1>2. Listed(d)' <=> Listed(d)
  BY <1>1 DEF Listed, Occurs
<1>3. CASE ChannelConsume(c)
  <2>1. /\ MailKept /\ \A e \in Consumers : Linked(e)' <=> Linked(e) \/ e = c
        /\ ~Listed(c) /\ c \notin Consumes(mailbox) /\ c \notin chan_cancel /\ cancelling # c
    BY <1>3, ConsumeStep
  <2>2. created' = created \cup {c} /\ crediting' = [crediting EXCEPT ![c] = "set"]
    BY <1>3 DEF ChannelConsume
  <2>3. d = c \/ crediting[d] # "no"
    BY <1>1, <2>2
  <2> QED
    BY <1>1, <1>2, <2>1, <2>2, <2>3 DEF StartInv, Starting, MailKept
<1>4. CASE ChannelFindsZero(c)
  <2>1. UNCHANGED <<mailbox, by_channel, created>> /\ crediting[d] # "no"
    BY <1>1, <1>4 DEF ChannelFindsZero, mailVars
  <2>2. Consumes(mailbox)' = Consumes(mailbox) /\ (Linked(d)' <=> Linked(d))
    BY <2>1 DEF Consumes, Linked, Occurs
  <2> QED
    BY <1>1, <1>2, <2>1, <2>2 DEF StartInv, Starting
<1>5. CASE ChannelJoins(c)
  <2>1. /\ Consumes(mailbox)' = Consumes(mailbox) \cup {c}
        /\ \A e \in Consumers : Linked(e)' <=> Linked(e)
    BY <1>5, JoinsStep
  <2>2. d # c /\ crediting[d] # "no" /\ created' = created
    BY <1>1, <1>5 DEF ChannelJoins
  <2> QED
    BY <1>1, <1>2, <2>1, <2>2 DEF StartInv, Starting
<1> QED
  BY <1>3, <1>4, <1>5 DEF ChannelCredits

\* No channel is creating a consumer at first.
LEMMA StartInit == Init => StartInv
BY DEF Init, StartInv, Starting

\* Every step keeps the queue from knowing a consumer too early.
LEMMA StartNext ==
    TypeOK /\ SpendCovered /\ LimitInv /\ JoinInv /\ StartInv /\ [Next]_vars => StartInv'
<1> SUFFICES ASSUME TypeOK, SpendCovered, LimitInv, JoinInv, StartInv, [Next]_vars PROVE StartInv'
  OBVIOUS
<1>1. CASE \E c \in Consumers : ChannelCredits(c)
  BY <1>1, CreditsStart
<1>2. CASE ~(\E c \in Consumers : ChannelCredits(c))
  <2>1. crediting' = crediting
    BY <1>2, CreditingStays
  <2>2. CASE UNCHANGED vars
    <3>1. UNCHANGED <<mailbox, by_channel, created, chan_cancel, cancelling, consumer_list>>
      BY <2>2 DEF vars, mailVars, queueVars, loopVars, channelVars
    <3>2. /\ Consumes(mailbox)' = Consumes(mailbox)
          /\ \A d \in Consumers : (Listed(d)' <=> Listed(d)) /\ (Linked(d)' <=> Linked(d))
      BY <3>1 DEF Consumes, Listed, Linked, Occurs
    <3> QED
      BY <2>1, <3>1, <3>2, StartKept
  <2> QED
    BY <1>2, <2>1, <2>2, ClientStart, QueueStart DEF Next
<1> QED
  BY <1>1, <1>2

-----------------------------------------------------------------------------
(* Who could take the head of the list is on the way to get it: WakeInv    *)

\* The loop runs or will run, or there is nothing to deliver or nobody available.
LEMMA Attended ==
    ASSUME \/ step' \in {"find", "deliver"} \/ Told(mailbox)'
           \/ content_list' = <<>> \/ ~HaveActive(pending)'
    PROVE  WakeInv'
<1>1. CASE step' \in {"find", "deliver"} \/ Told(mailbox)'
  <2>1. \A c \in Consumers : Heading(c)'
    BY <1>1 DEF Heading
  <2> QED
    BY <2>1 DEF WakeInv
<1>2. CASE content_list' = <<>> \/ ~HaveActive(pending)'
  BY <1>2 DEF WakeInv
<1> QED
  BY <1>1, <1>2

\* Nobody who could not have taken the head of the list before can take it now, and
\* who was on the way still is.
LEMMA LessWake ==
    ASSUME WakeInv, ToldKept, Consumes(mailbox) \subseteq Consumes(mailbox)',
           credit' = credit, earning' = earning, crediting' = crediting,
           step \notin {"find", "deliver"} \/ step' = step,
           \A c \in Consumers : Listed(c)' => Listed(c),
           \A c \in Consumers : Listed(c)' /\ Leaving(c) => Leaving(c)',
           \A c \in Consumers : Listed(c)' /\ Linked(c) => Linked(c)' \/ Leaving(c)',
           content_list' # <<>> => content_list # <<>>,
           \A c \in Consumers :
               content_list' # <<>> /\ Takes(c, Head(content_list))' => Takes(c, Head(content_list)),
           HaveActive(pending)' => HaveActive(pending)
    PROVE  WakeInv'
<1> SUFFICES ASSUME (content_list # <<>>)', HaveActive(pending)',
                    NEW c \in Consumers, Listed(c)', Takes(c, Head(content_list))'
             PROVE  Heading(c)'
  BY DEF WakeInv
<1>1. content_list # <<>> /\ HaveActive(pending) /\ Listed(c) /\ Takes(c, Head(content_list))
  OBVIOUS
<1>2. Heading(c)
  BY <1>1 DEF WakeInv
<1>3. CASE step \in {"find", "deliver"} \/ Told(mailbox)
  BY <1>3 DEF Heading, ToldKept
<1>4. CASE (\E d \in Consumes(mailbox) : ChannelOf[d] = ChannelOf[c]) \/ ~Between(ChannelOf[c])
  BY <1>4 DEF Heading, Between
<1>5. CASE ChannelOf[c] \in earning /\ credit[ChannelOf[c]] = 1 /\ Linked(c)
  BY <1>5 DEF Heading
<1>6. CASE Leaving(c)
  BY <1>6 DEF Heading
<1> QED
  BY <1>2, <1>3, <1>4, <1>5, <1>6 DEF Heading

\* What a consumer takes is a matter of its channel and of the content's producer.
LEMMA TakesSame ==
    ASSUME NEW c, NEW ch, ChannelOf[c] = ch,
           conn'[ch] # "dead" => conn[ch] # "dead", active'[ch] => active[ch], credit'[ch] = credit[ch],
           content_list' = content_list,
           Takes(c, Head(content_list))'
    PROVE  Takes(c, Head(content_list))
BY DEF Takes, Busy, ChannelActive, Reaches, Local

\* Without no-local consumers, what the content is does not matter.
LEMMA TakesAny ==
    ASSUME NEW c, NoLocal = {}, UNCHANGED <<conn, active, credit>>, Takes(c, Head(content_list))'
    PROVE  Takes(c, Head(content_list))
BY DEF Takes, Busy, ChannelActive, Reaches, Local

\* Whoever is available and listed was both before.
LEMMA ActiveLess ==
    ASSUME TypeOK, TypeOK', \A c \in Consumers : Listed(c)' => Listed(c),
           \A c \in Consumers : Listed(c)' /\ ~paused'[c] /\ pending'[c] = NoContent
                                   => ~paused[c] /\ pending[c] = NoContent,
           HaveActive(pending)'
    PROVE  HaveActive(pending)
<1>1. PICK i \in 1 .. Len(consumer_list') :
         ~paused'[consumer_list'[i]] /\ pending'[consumer_list'[i]] = NoContent
  BY DEF HaveActive, Available, NoContent
<1>2. PICK c : c = consumer_list'[i]
  OBVIOUS
<1>3. c \in Consumers
  <2>1. consumer_list' \in Seq(Consumers)
    BY DEF TypeOK, QueueTypeOK
  <2> QED
    BY <1>2, <2>1
<1>4. Listed(c)'
  BY <1>2 DEF Listed, Occurs
<1>5. Listed(c) /\ ~paused[c] /\ pending[c] = NoContent
  BY <1>1, <1>2, <1>3, <1>4
<1> QED
  BY <1>5 DEF HaveActive, Available, Listed, Occurs

\* The steps that only post, and do not make anyone take or become available.
LEMMA PostWake ==
    ASSUME TypeOK, TypeOK', JoinInv, WakeInv, crediting' = crediting,
           \/ PostPublish \/ PostGet \/ PostPurge \/ PostDelete \/ AutoDeleteEvent
           \/ \E ch \in Channels : ChannelAck(ch) \/ ChannelUnlink(ch)
    PROVE  WakeInv'
<1>1. /\ MailKept /\ ToldKept
      /\ UNCHANGED <<by_channel, loopVars, consumer_list, content_list, pending>>
  BY ClientKeeps
<1>2. /\ UNCHANGED <<paused, active, credit, earning>>
      /\ \A ch \in Channels : conn'[ch] # "dead" => conn[ch] # "dead"
  <2>1. ASSUME NEW ch \in Channels, ChannelUnlink(ch)
        PROVE  /\ UNCHANGED <<paused, active, credit, earning>>
               /\ \A e \in Channels : conn'[e] # "dead" => conn[e] # "dead"
    BY <2>1, JoinTypes DEF ChannelUnlink, consumerVars
  <2>2. ASSUME NEW ch \in Channels, ChannelAck(ch)
        PROVE  /\ UNCHANGED <<paused, active, credit, earning>>
               /\ \A e \in Channels : conn'[e] # "dead" => conn[e] # "dead"
    BY <2>2 DEF ChannelAck, consumerVars, channelVars
  <2> QED
    BY <2>1, <2>2 DEF PostPublish, PostGet, PostPurge, PostDelete, AutoDeleteEvent,
       consumerVars, channelVars
<1>3. \A c \in Consumers : (Listed(c)' => Listed(c)) /\ (Linked(c) => Linked(c)')
  BY <1>1 DEF Listed, Linked, Occurs
<1>4. \A c \in Consumers : Leaving(c) => Leaving(c)'
  BY <1>1 DEF Leaving, MailKept, loopVars
<1>5. ASSUME NEW c \in Consumers, Takes(c, Head(content_list))' PROVE Takes(c, Head(content_list))
  <2>1. ChannelOf[c] \in Channels
    BY JoinTypes
  <2> QED
    BY <1>1, <1>2, <1>5, <2>1, TakesSame
<1>6. HaveActive(pending)' => HaveActive(pending)
  BY <1>1, <1>2 DEF HaveActive, Available
<1>7. (step \notin {"find", "deliver"} \/ step' = step) /\ (content_list' # <<>> => content_list # <<>>)
  BY <1>1 DEF loopVars
<1> QED
  BY <1>1, <1>2, <1>3, <1>4, <1>5, <1>6, <1>7, LessWake DEF MailKept

\* A consumer leaves its channel's list: if it is in the queue's, its cancel is posted.
LEMMA LeaveWake ==
    ASSUME TypeOK, LimitInv, JoinInv, WakeInv, crediting' = crediting,
           \/ \E c \in Consumers : ChannelCancel(c) \/ ChannelCancelled(c)
           \/ \E ch \in Channels : ChannelDestroy(ch)
    PROVE  WakeInv'
<1>1. /\ MailKept /\ ToldKept
      /\ \A d \in Consumers : Linked(d) => Linked(d)' \/ d \in Cancels(mailbox)' \/ ~Listed(d)
  <2>1. ASSUME NEW c \in Consumers, ChannelCancel(c)
        PROVE  /\ MailKept /\ ToldKept
               /\ \A d \in Consumers : Linked(d) => Linked(d)' \/ d \in Cancels(mailbox)'
    BY <2>1, CancelStep
  <2>2. ASSUME NEW c \in Consumers, ChannelCancelled(c)
        PROVE  /\ MailKept /\ ToldKept
               /\ \A d \in Consumers : Linked(d) => Linked(d)' \/ ~Listed(d)
    BY <2>2, CancelledStep
  <2> QED
    BY <2>1, <2>2, DestroyStep
<1>2. /\ UNCHANGED <<queueVars, loopVars, consumerVars, active, credit, earning>>
      /\ \A ch \in Channels : conn'[ch] # "dead" => conn[ch] # "dead"
  <2>1. ASSUME NEW ch \in Channels, ChannelDestroy(ch)
        PROVE  /\ UNCHANGED <<queueVars, loopVars, consumerVars, active, credit, earning>>
               /\ \A e \in Channels : conn'[e] # "dead" => conn[e] # "dead"
    BY <2>1, JoinTypes DEF ChannelDestroy
  <2> QED
    BY <2>1 DEF ChannelCancel, ChannelCancelled
<1>3. \A c \in Consumers : Listed(c)' <=> Listed(c)
  BY <1>2 DEF Listed, Occurs, queueVars
<1>4. \A c \in Consumers : /\ Leaving(c) => Leaving(c)'
                           /\ c \in Cancels(mailbox)' => Leaving(c)'
  BY <1>1, <1>2 DEF Leaving, MailKept, loopVars
<1>5. ASSUME NEW c \in Consumers, Takes(c, Head(content_list))' PROVE Takes(c, Head(content_list))
  <2>1. ChannelOf[c] \in Channels
    BY JoinTypes
  <2> QED
    BY <1>2, <1>5, <2>1, TakesSame DEF queueVars
<1>6. HaveActive(pending)' => HaveActive(pending)
  BY <1>2 DEF HaveActive, Available, queueVars, consumerVars
<1>7. /\ step \notin {"find", "deliver"} \/ step' = step
      /\ content_list' # <<>> => content_list # <<>>
  BY <1>2 DEF loopVars, queueVars
<1>8. \A c \in Consumers : Listed(c)' /\ Linked(c) => Linked(c)' \/ Leaving(c)'
  BY <1>1, <1>3, <1>4
<1> QED
  BY <1>1, <1>2, <1>3, <1>4, <1>5, <1>6, <1>7, <1>8, LessWake DEF MailKept

\* A consumer leaves the queue's list.
LEMMA EndWake ==
    ASSUME TypeOK, TypeOK', SpendCovered, LimitInv, JoinInv, WakeInv, crediting' = crediting,
           CancelFinish \/ StopConsumer \/ StopFinish
    PROVE  WakeInv'
<1>1. /\ UNCHANGED <<content_list, paused, active, credit, conn, earning>>
      /\ step \notin {"find", "deliver"}
  BY DEF CancelFinish, StopConsumer, StopFinish, queueVars, channelVars, consumerVars
<1>2. ASSUME NEW c, MailKept, ToldKept,
             \A d \in Consumers : Listed(d)' => Listed(d) /\ d # c,
             \A d \in Consumers : d # c => pending'[d] = pending[d],
             \A d \in Consumers : d # c /\ cancelling = d => cancelling' = d,
             \A d \in Consumers : Linked(d) /\ d # c => Linked(d)'
      PROVE  WakeInv'
  <2>1. \A d \in Consumers : Listed(d)' /\ Leaving(d) => Leaving(d)'
    BY <1>2 DEF Leaving, MailKept
  <2>2. ASSUME NEW d \in Consumers, Takes(d, Head(content_list))' PROVE Takes(d, Head(content_list))
    BY <1>1, <2>2, TakesSame
  <2>3. HaveActive(pending)' => HaveActive(pending)
    BY <1>1, <1>2, ActiveLess
  <2> QED
    BY <1>1, <1>2, <2>1, <2>2, <2>3, LessWake DEF MailKept
<1>3. CASE CancelFinish
  <2>1. /\ MailKept /\ ToldKept /\ cancelling \in Consumers
        /\ \A d : Occurs(consumer_list', d) <=> Occurs(consumer_list, d) /\ d # cancelling
    BY <1>3, FinishStep
  <2>2. by_channel' = by_channel /\ pending' = [pending EXCEPT ![cancelling] = NoContent]
    BY <1>3 DEF CancelFinish, Released, channelVars
  <2>3. \A d \in Consumers : Listed(d)' => Listed(d) /\ d # cancelling
    BY <2>1 DEF Listed, Occurs
  <2>4. \A d \in Consumers : Linked(d) => Linked(d)'
    BY <2>2 DEF Linked, Occurs
  <2>5. \A d \in Consumers : d # cancelling => pending'[d] = pending[d]
    BY <2>2, JoinTypes
  <2> QED
    BY <1>2, <2>1, <2>3, <2>4, <2>5
<1>4. CASE StopConsumer
  <2> DEFINE c == Head(consumer_list)
  <2>1. /\ c \in Consumers /\ MailKept /\ ToldKept
        /\ \A d : Occurs(consumer_list', d) <=> Occurs(consumer_list, d) /\ d # c
        /\ \A d \in Consumers : Linked(d)' <=> Linked(d) /\ d # c
    BY <1>4, StopStep
  <2>2. pending' = [pending EXCEPT ![c] = NoContent] /\ cancelling' = cancelling
    BY <1>4 DEF StopConsumer, Released, loopVars
  <2> HIDE DEF c
  <2>3. \A d \in Consumers : Listed(d)' => Listed(d) /\ d # c
    BY <2>1 DEF Listed, Occurs
  <2>4. \A d \in Consumers : d # c => pending'[d] = pending[d]
    BY <2>2, JoinTypes
  <2> QED
    BY <1>2, <2>1, <2>2, <2>3, <2>4
<1>5. CASE StopFinish
  <2>1. consumer_list' = <<>>
    BY <1>5 DEF StopFinish, Stopped, queueVars
  <2>2. ~HaveActive(pending)'
    <3>1. Len(consumer_list') = 0
      BY <2>1
    <3> QED
      BY <3>1 DEF HaveActive
  <2> QED
    BY <2>2, Attended
<1> QED
  BY <1>3, <1>4, <1>5

\* A consumer on the way to the head of the list stays on the way.
LEMMA HeadingKept ==
    ASSUME NEW d \in Consumers, Heading(d), ToldKept, Consumes(mailbox) \subseteq Consumes(mailbox)',
           ~Between(ChannelOf[d]) => Heading(d)', step' = step, Leaving(d) => Leaving(d)',
           ChannelOf[d] \in earning /\ credit[ChannelOf[d]] = 1 /\ Linked(d) => Heading(d)'
    PROVE  Heading(d)'
<1>1. CASE step \in {"find", "deliver"} \/ Told(mailbox)
  BY <1>1 DEF Heading, ToldKept
<1>2. CASE \E e \in Consumes(mailbox) : ChannelOf[e] = ChannelOf[d]
  BY <1>2 DEF Heading
<1>3. CASE Leaving(d)
  BY <1>3 DEF Heading
<1> QED
  BY <1>1, <1>2, <1>3 DEF Heading

\* A channel that is creating a consumer still is.
LEMMA BusyKept ==
    ASSUME crediting' = crediting, NEW d \in Consumers, ~Between(ChannelOf[d])
    PROVE  Heading(d)'
BY DEF Heading, Between

\* A new consumer resets the credit of its channel, and will have the queue dispatch.
LEMMA ConsumeWake ==
    ASSUME TypeOK, LimitInv, JoinInv, StartInv, WakeInv, NEW c \in Consumers, ChannelCredits(c)
    PROVE  WakeInv'
<1>1. /\ Consumes(mailbox) \subseteq Consumes(mailbox)'
      /\ ChannelJoins(c) => c \in Consumes(mailbox)'
      /\ Cancels(mailbox) \subseteq Cancels(mailbox)' /\ ToldKept
      /\ \A d \in Consumers : Linked(d)' <=> Linked(d) \/ (d = c /\ ChannelConsume(c))
  <2>1. CASE ChannelConsume(c)
    BY <2>1, ConsumeStep DEF MailKept, ChannelConsume, ChannelJoins, mailVars, Post
  <2>2. CASE ChannelJoins(c)
    BY <2>2, JoinsStep
  <2>3. CASE ChannelFindsZero(c)
    <3>1. mailbox' = mailbox /\ by_channel' = by_channel /\ crediting'[c] # "no"
      BY <2>3 DEF ChannelFindsZero, mailVars, TypeOK, ChannelTypeOK
    <3>2. /\ MailKept /\ ToldKept
          /\ \A d \in Consumers : Linked(d)' <=> Linked(d)
      BY <3>1, StillKeeps DEF Linked, Occurs
    <3>3. ~ChannelJoins(c) /\ (ChannelConsume(c) => Linked(c))
      BY <2>3, <3>1 DEF ChannelJoins, ChannelFindsZero, ChannelConsume, StartInv, Starting,
         TypeOK, ChannelTypeOK
    <3> QED
      BY <3>2, <3>3 DEF MailKept
  <2> QED
    BY <2>1, <2>2, <2>3 DEF ChannelCredits
<1>2. /\ UNCHANGED <<queueVars, loopVars, consumerVars, active, conn, earning>>
      /\ \A d \in Channels : d # ChannelOf[c] => credit'[d] = credit[d]
      /\ \A d \in Consumers : d # c => crediting'[d] = crediting[d]
      /\ ~ChannelJoins(c) => crediting'[c] # "no"
  BY JoinTypes DEF ChannelCredits, ChannelConsume, ChannelFindsZero, ChannelJoins, TypeOK, ChannelTypeOK
<1> SUFFICES ASSUME (content_list # <<>>)', HaveActive(pending)',
                    NEW d \in Consumers, Listed(d)', Takes(d, Head(content_list))'
             PROVE  Heading(d)'
  BY DEF WakeInv
<1>3. CASE ChannelOf[d] = ChannelOf[c]
  <2>1. CASE ChannelJoins(c)
    BY <1>1, <1>3, <2>1 DEF Heading
  <2>2. CASE ~ChannelJoins(c)
    <3>1. ~Between(ChannelOf[d])'
      BY <1>2, <1>3, <2>2 DEF Between
    <3> QED
      BY <3>1 DEF Heading
  <2> QED
    BY <2>1, <2>2
<1>4. CASE ChannelOf[d] # ChannelOf[c]
  <2>1. credit'[ChannelOf[d]] = credit[ChannelOf[d]] /\ UNCHANGED <<content_list, conn, active>>
    BY <1>2, <1>4, JoinTypes DEF queueVars
  <2>2. Takes(d, Head(content_list))
    BY <2>1, TakesSame
  <2>3. content_list # <<>> /\ HaveActive(pending) /\ Listed(d)
    BY <1>2 DEF HaveActive, Available, Listed, Occurs, queueVars, consumerVars
  <2>4. Heading(d)
    BY <2>2, <2>3 DEF WakeInv
  <2>5. Leaving(d) => Leaving(d)'
    BY <1>1, <1>2 DEF Leaving, loopVars
  <2>6. ChannelOf[d] \in earning /\ credit[ChannelOf[d]] = 1 /\ Linked(d) => Heading(d)'
    BY <1>1, <1>2, <2>1 DEF Heading
  <2>7. ~Between(ChannelOf[d]) => Heading(d)'
    BY <1>2, <1>4 DEF Heading, Between
  <2> QED
    BY <1>1, <1>2, <2>4, <2>5, <2>6, <2>7, HeadingKept DEF loopVars
<1> QED
  BY <1>3, <1>4

\* A credit that becomes 1 is tested; a higher one was no obstacle before.
LEMMA SendWake ==
    ASSUME TypeOK, JoinInv, WakeInv, crediting' = crediting, NEW ch \in Channels, SendContent(ch)
    PROVE  WakeInv'
<1>1. /\ MailKept /\ ToldKept
      /\ UNCHANGED <<by_channel, loopVars, consumer_list, content_list, pending>>
  BY ClientKeeps
<1>2. /\ UNCHANGED <<paused, active, conn>> /\ ch \notin earning /\ earning' = earning \cup {ch}
      /\ credit' = [credit EXCEPT ![ch] = @ + 1]
  BY DEF SendContent, consumerVars
<1> SUFFICES ASSUME (content_list # <<>>)', HaveActive(pending)',
                    NEW d \in Consumers, Listed(d)', Takes(d, Head(content_list))'
             PROVE  Heading(d)'
  BY DEF WakeInv
<1>3. /\ content_list # <<>> /\ HaveActive(pending) /\ Listed(d)
      /\ Linked(d)' <=> Linked(d)
      /\ ChannelOf[d] \in Channels /\ credit[ChannelOf[d]] \in Nat
  BY <1>1, <1>2, JoinTypes DEF HaveActive, Available, Listed, Linked, Occurs
<1>4. Leaving(d) => Leaving(d)'
  BY <1>1 DEF Leaving, MailKept, loopVars
<1>5. CASE ChannelOf[d] = ch /\ credit[ch] = 0
  <2>1. ch \in earning' /\ credit'[ch] = 1
    BY <1>2, <1>5, JoinTypes
  <2>2. CASE Linked(d)
    BY <1>3, <1>5, <2>1, <2>2 DEF Heading
  <2>3. CASE ~Linked(d)
    <3>1. Leaving(d)
      BY <1>3, <2>3 DEF JoinInv, Joined
    <3> QED
      BY <1>4, <3>1 DEF Heading
  <2> QED
    BY <2>2, <2>3
<1>6. CASE ~(ChannelOf[d] = ch /\ credit[ch] = 0)
  <2>1. Takes(d, Head(content_list))
    <3>1. CASE ChannelOf[d] # ch
      <4>1. credit'[ChannelOf[d]] = credit[ChannelOf[d]]
        BY <1>2, <1>3, <3>1, JoinTypes
      <4> QED
        BY <1>1, <1>2, <4>1, TakesSame
    <3>2. CASE ChannelOf[d] = ch
      <4>1. ~(credit[ChannelOf[d]] < 1)
        BY <1>3, <1>6, <3>2
      <4>2. ChannelActive(d)' <=> ChannelActive(d)
        BY <1>2 DEF ChannelActive, Reaches
      <4>3. ChannelActive(d) /\ ~Local(d, Head(content_list))
        BY <1>1, <4>2 DEF Takes, Busy, Local
      <4> QED
        BY <4>1, <4>3 DEF Takes, Busy
    <3> QED
      BY <3>1, <3>2
  <2>2. Heading(d)
    BY <1>3, <2>1 DEF WakeInv
  <2>3. ChannelOf[d] \in earning => credit'[ChannelOf[d]] = credit[ChannelOf[d]]
    BY <1>2, <1>3, JoinTypes
  <2>4. ChannelOf[d] \in earning /\ credit[ChannelOf[d]] = 1 /\ Linked(d) => Heading(d)'
    BY <1>2, <1>3, <2>3 DEF Heading
  <2> QED
    BY <1>1, <1>4, <2>2, <2>4, HeadingKept, BusyKept DEF MailKept, loopVars
<1> QED
  BY <1>5, <1>6

\* The test of a credit of 1 has every queue of the channel dispatch.
LEMMA EarnWake ==
    ASSUME TypeOK, JoinInv, WakeInv, crediting' = crediting, NEW ch \in Channels, EarnTest(ch)
    PROVE  WakeInv'
<1>1. /\ MailKept /\ ToldKept
      /\ UNCHANGED <<by_channel, loopVars, consumer_list, content_list, pending>>
  BY ClientKeeps
<1>2. /\ UNCHANGED <<paused, active, conn, credit>> /\ earning' = earning \ {ch}
      /\ credit[ch] = 1 => mailbox' = mailbox \o PerConsumer(ch, "dispatch")
  BY DEF EarnTest, consumerVars, Earned, Wake
<1> SUFFICES ASSUME (content_list # <<>>)', HaveActive(pending)',
                    NEW d \in Consumers, Listed(d)', Takes(d, Head(content_list))'
             PROVE  Heading(d)'
  BY DEF WakeInv
<1>3. /\ content_list # <<>> /\ HaveActive(pending) /\ Listed(d)
      /\ Linked(d)' <=> Linked(d)
  BY <1>1, <1>2 DEF HaveActive, Available, Listed, Linked, Occurs
<1>4. Takes(d, Head(content_list))
  BY <1>1, <1>2, TakesSame
<1>5. Heading(d)
  BY <1>3, <1>4 DEF WakeInv
<1>6. Leaving(d) => Leaving(d)'
  BY <1>1 DEF Leaving, MailKept, loopVars
<1>7. ASSUME ChannelOf[d] \in earning, credit[ChannelOf[d]] = 1, Linked(d) PROVE Heading(d)'
  <2>1. CASE ChannelOf[d] # ch
    BY <1>2, <1>3, <1>7, <2>1 DEF Heading
  <2>2. CASE ChannelOf[d] = ch
    <3>1. by_channel[ch] \in Seq(Consumers) /\ by_channel[ch] # <<>>
      BY <1>7, <2>2, JoinTypes DEF Linked, Occurs
    <3>2. mailbox' = mailbox \o PerConsumer(ch, "dispatch") /\ Orderly
      BY <1>2, <1>7, <2>2 DEF JoinInv
    <3>3. Told(mailbox)'
      BY <3>1, <3>2, PerConsumerKeeps
    <3> QED
      BY <3>3 DEF Heading
  <2> QED
    BY <2>1, <2>2
<1> QED
  BY <1>1, <1>5, <1>6, <1>7, HeadingKept, BusyKept DEF MailKept, loopVars

\* channel.flow on has every queue of the channel dispatch.
LEMMA FlowWake ==
    ASSUME TypeOK, TypeOK', JoinInv, WakeInv, crediting' = crediting, NEW ch \in Channels, NEW on \in BOOLEAN, ChannelFlow(ch, on)
    PROVE  WakeInv'
<1>1. /\ MailKept /\ ToldKept
      /\ UNCHANGED <<by_channel, loopVars, consumer_list, content_list, pending>>
  BY ClientKeeps
<1>2. /\ UNCHANGED <<conn, credit, earning>>
      /\ active' = [active EXCEPT ![ch] = on]
      /\ paused' = [c \in Consumers |-> IF Occurs(by_channel[ch], c) THEN ~on ELSE paused[c]]
      /\ on => mailbox' = mailbox \o PerConsumer(ch, "dispatch")
  BY DEF ChannelFlow, Wake
<1>3. CASE on /\ by_channel[ch] # <<>>
  <2>1. Orderly
    BY DEF JoinInv
  <2>2. Told(mailbox)'
    BY <1>2, <1>3, <2>1, PerConsumerKeeps
  <2> QED
    BY <2>2, Attended
<1>4. CASE ~on \/ by_channel[ch] = <<>>
  <2> SUFFICES ASSUME (content_list # <<>>)', HaveActive(pending)',
                      NEW d \in Consumers, Listed(d)', Takes(d, Head(content_list))'
               PROVE  Heading(d)'
    BY DEF WakeInv
  <2>1. /\ content_list # <<>> /\ Listed(d)
        /\ Linked(d)' <=> Linked(d)
    BY <1>1 DEF Listed, Linked, Occurs
  <2>2. HaveActive(pending)
    <3>1. \A c \in Consumers : Listed(c)' => Listed(c)
      BY <1>1 DEF Listed, Occurs
    <3>2. \A c \in Consumers : ~paused'[c] => ~paused[c]
      <4>1. by_channel[ch] = <<>> => \A c \in Consumers : ~Occurs(by_channel[ch], c)
        BY DEF Occurs
      <4> QED
        BY <1>2, <1>4, <4>1
    <3> QED
      BY <1>1, <3>1, <3>2, ActiveLess
  <2>3. Leaving(d) => Leaving(d)'
    BY <1>1 DEF Leaving, MailKept, loopVars
  <2>4. CASE ChannelOf[d] = ch /\ on
    <3>1. ~Linked(d)
      BY <1>4, <2>4 DEF Linked, Occurs
    <3>2. Leaving(d)
      BY <2>1, <3>1 DEF JoinInv, Joined
    <3> QED
      BY <2>3, <3>2 DEF Heading
  <2>5. CASE ~(ChannelOf[d] = ch /\ on)
    <3>1. active'[ChannelOf[d]] => active[ChannelOf[d]]
      BY <1>2, <2>5, JoinTypes
    <3>2. Takes(d, Head(content_list))
      BY <1>1, <1>2, <3>1, TakesSame
    <3>3. Heading(d)
      BY <2>1, <2>2, <3>2 DEF WakeInv
    <3>4. ChannelOf[d] \in earning /\ credit[ChannelOf[d]] = 1 /\ Linked(d) => Heading(d)'
      BY <1>2, <2>1 DEF Heading
    <3> QED
      BY <1>1, <2>3, <3>3, <3>4, HeadingKept, BusyKept DEF MailKept, loopVars
  <2> QED
    BY <2>4, <2>5
<1> QED
  BY <1>3, <1>4

\* The handlers that let nobody join or leave: those that free a consumer run the loop.
LEMMA HandlerWake ==
    ASSUME WakeSure, TypeOK, JoinInv, WakeInv, crediting' = crediting,
           \/ HandlePublish \/ HandleGet \/ HandlePurge \/ HandleDispatch \/ HandleAck
           \/ HandleSelfDestruct
    PROVE  WakeInv'
<1>1. /\ MailKept /\ (~HandleDispatch => ToldKept) /\ (HandleGet => "get" \in Requests)
      /\ UNCHANGED <<by_channel, chan_cancel, created, active, credit, conn, earning,
                     cancelling, chosen, consumer_list, locked, paused>>
      /\ step = "idle"
  BY HandlerKeeps
<1>2. HaveActive(pending)' <=> HaveActive(pending')
  BY <1>1 DEF HaveActive, Available
<1>3. CASE HandlePublish \/ HandleDispatch
  <2>1. pending' = pending /\ step' = IF HaveActive(pending) THEN "find" ELSE "idle"
    BY <1>3 DEF HandlePublish, HandleDispatch, consumerVars
  <2> QED
    BY <1>2, <2>1, Attended
<1>4. CASE HandlePurge
  <2>1. content_list' = <<>>
    BY <1>4 DEF HandlePurge
  <2> QED
    BY <2>1, Attended
<1>5. ASSUME HandleGet \/ HandleSelfDestruct \/ HandleAck, pending' = pending,
             content_list' # <<>> => content_list # <<>>,
             \A c \in Consumers : Takes(c, Head(content_list))' => Takes(c, Head(content_list))
      PROVE  WakeInv'
  <2>1. ~HandleDispatch
    BY <1>5 DEF HandleGet, HandleSelfDestruct, HandleAck, HandleDispatch, Take
  <2>2. \A c \in Consumers : /\ Listed(c)' => Listed(c)
                             /\ Linked(c) => Linked(c)'
                             /\ Leaving(c) => Leaving(c)'
    BY <1>1 DEF Listed, Linked, Leaving, Occurs, MailKept
  <2>3. HaveActive(pending)' => HaveActive(pending)
    BY <1>2, <1>5
  <2>4. step \notin {"find", "deliver"}
    BY <1>1
  <2> QED
    BY <1>1, <1>5, <2>1, <2>2, <2>3, <2>4, LessWake DEF MailKept
<1>6. CASE HandleGet
  <2>1. NoLocal = {}
    BY <1>1, <1>6 DEF WakeSure
  <2>2. \A c \in Consumers : Takes(c, Head(content_list))' => Takes(c, Head(content_list))
    BY <1>1, <2>1, TakesAny
  <2>3. pending' = pending /\ (content_list' # <<>> => content_list # <<>>)
    BY <1>6 DEF HandleGet, consumerVars
  <2> QED
    BY <1>5, <1>6, <2>2, <2>3
<1>7. ASSUME content_list' = content_list
      PROVE  \A c \in Consumers : Takes(c, Head(content_list))' => Takes(c, Head(content_list))
  BY <1>1, <1>7 DEF Takes, Busy, ChannelActive, Reaches, Local
<1>8. CASE HandleSelfDestruct
  <2>1. content_list' = content_list /\ pending' = pending
    BY <1>8 DEF HandleSelfDestruct, queueVars, consumerVars
  <2> QED
    BY <1>5, <1>7, <1>8, <2>1
<1>9. CASE HandleAck
  <2> DEFINE c == Head(mailbox).who
  <2>1. content_list' = content_list
    BY <1>9 DEF HandleAck, queueVars
  <2>2. CASE pending[c] = NoContent
    <3>1. pending' = pending
      BY <1>9, <2>2 DEF HandleAck
    <3> QED
      BY <1>5, <1>7, <1>9, <2>1, <3>1
  <2>3. CASE pending[c] # NoContent
    <3>1. pending' = Released(c) /\ step' = IF HaveActive(Released(c)) THEN "find" ELSE "idle"
      BY <1>9, <2>3 DEF HandleAck
    <3> HIDE DEF c
    <3>2. HaveActive(pending') => step' = "find"
      BY <3>1
    <3> QED
      BY <1>2, <3>2, Attended
  <2> QED
    BY <2>2, <2>3
<1> QED
  BY <1>3, <1>4, <1>6, <1>8, <1>9

\* A consumer that joins has the queue dispatch; one that is refused, on a queue that
\* is nobody's exclusively, has no connection any more, nor have its channel's others.
LEMMA AcceptWake ==
    ASSUME WakeSure, TypeOK, JoinInv, WakeInv, crediting' = crediting, HandleConsume
    PROVE  WakeInv'
<1> DEFINE c == Head(mailbox).who
<1>1. /\ c \in Consumers /\ Consumes(mailbox)' = Consumes(mailbox) \ {c}
      /\ Cancels(mailbox) \subseteq Cancels(mailbox)' /\ ToldKept
      /\ ~Refused(c) => Told(mailbox)'
      /\ step = "idle"
  BY TakeConsume
<1>2. /\ UNCHANGED <<content_list, step, cancelling, pending, active, credit, conn, earning, by_channel>>
      /\ Refused(c) => UNCHANGED <<consumer_list, paused>>
  BY DEF HandleConsume, loopVars
<1> HIDE DEF c
<1>3. CASE ~Refused(c)
  BY <1>1, <1>3, Attended
<1>4. CASE Refused(c)
  <2> SUFFICES ASSUME (content_list # <<>>)', HaveActive(pending)',
                      NEW d \in Consumers, Listed(d)', Takes(d, Head(content_list))'
               PROVE  Heading(d)'
    BY DEF WakeInv
  <2>1. /\ content_list # <<>> /\ HaveActive(pending) /\ Listed(d)
        /\ Takes(d, Head(content_list))
        /\ Linked(d) => Linked(d)'
    BY <1>2, <1>4 DEF HaveActive, Available, Listed, Linked, Occurs, Takes, Busy, ChannelActive, Reaches, Local
  <2>2. Heading(d)
    BY <2>1 DEF WakeInv
  <2>3. conn[ChannelOf[d]] # "dead"
    BY <2>1 DEF Takes, Busy, ChannelActive, Reaches
  <2>4. ChannelOf[c] # ChannelOf[d]
    <3>1. Exclusive /\ (ChannelOf[c] # Owner \/ conn[ChannelOf[c]] = "dead")
      BY <1>4 DEF Refused, Reaches, WakeSure, JoinInv, Unlocked
    <3>2. ChannelOf[d] = Owner
      BY <2>1, <3>1 DEF JoinInv, Joined
    <3> QED
      BY <2>3, <3>1, <3>2
  <2>5. CASE \E e \in Consumes(mailbox) : ChannelOf[e] = ChannelOf[d]
    <3>1. \E e \in Consumes(mailbox)' : ChannelOf[e] = ChannelOf[d]
      BY <1>1, <2>4, <2>5
    <3> QED
      BY <3>1 DEF Heading
  <2>6. CASE Told(mailbox)
    BY <1>1, <2>6 DEF Heading, ToldKept
  <2>7. CASE ChannelOf[d] \in earning /\ credit[ChannelOf[d]] = 1 /\ Linked(d)
    BY <1>2, <2>1, <2>7 DEF Heading
  <2>8. CASE Leaving(d)
    BY <1>1, <1>2, <2>8 DEF Heading, Leaving
  <2>9. CASE ~Between(ChannelOf[d])
    BY <2>9, BusyKept
  <2> QED
    BY <1>1, <2>2, <2>5, <2>6, <2>7, <2>8, <2>9 DEF Heading
<1> QED
  BY <1>3, <1>4

\* A cancel that returns a content runs the loop, if somebody is available.
LEMMA CancelWake ==
    ASSUME TypeOK, JoinInv, WakeInv, crediting' = crediting, HandleCancel
    PROVE  WakeInv'
<1> DEFINE c == Head(mailbox).who
<1>1. /\ c \in Consumers /\ Consumes(mailbox)' = Consumes(mailbox)
      /\ Cancels(mailbox) \subseteq Cancels(mailbox)' \cup {c} /\ ToldKept
      /\ step = "idle"
  BY TakeCancel
<1>2. /\ UNCHANGED <<consumer_list, pending, paused, active, credit, conn, earning, by_channel>>
      /\ cancelling' = c
  BY DEF HandleCancel, consumerVars, channelVars
<1>3. /\ pending[c] = NoContent => content_list' = content_list
      /\ pending[c] # NoContent => step' = IF HaveActive(pending) THEN "find" ELSE "finish"
  BY DEF HandleCancel
<1> HIDE DEF c
<1>4. HaveActive(pending)' <=> HaveActive(pending)
  BY <1>2 DEF HaveActive, Available
<1>5. CASE pending[c] # NoContent
  BY <1>3, <1>4, <1>5, Attended
<1>6. CASE pending[c] = NoContent
  <2>1. \A d \in Consumers : /\ Listed(d)' => Listed(d)
                             /\ Linked(d) => Linked(d)'
    BY <1>2 DEF Listed, Linked, Occurs
  <2>2. ASSUME NEW d \in Consumers, Leaving(d) PROVE Leaving(d)'
    <3>1. cancelling = Nobody /\ d # Nobody
      BY <1>1, JoinTypes DEF JoinInv, LoopSound
    <3> QED
      BY <1>1, <1>2, <2>2, <3>1 DEF Leaving
  <2>3. ASSUME NEW d \in Consumers, Takes(d, Head(content_list))' PROVE Takes(d, Head(content_list))
    BY <1>2, <1>3, <1>6, <2>3, TakesSame
  <2>4. step \notin {"find", "deliver"} /\ (content_list' # <<>> => content_list # <<>>)
    BY <1>1, <1>3, <1>6
  <2> QED
    BY <1>1, <1>2, <1>4, <2>1, <2>2, <2>3, <2>4, LessWake
<1> QED
  BY <1>5, <1>6

\* The loop goes on after every delivery, and ends only when nobody takes the head.
LEMMA LoopWake ==
    ASSUME TypeOK, WakeInv, DispatchFind \/ DispatchDeliver
    PROVE  WakeInv'
<1>1. CASE DispatchDeliver
  <2>1. step' = "find"
    BY <1>1 DEF DispatchDeliver
  <2> QED
    BY <2>1, Attended
<1>2. CASE DispatchFind
  <2>1. \/ step' \in {"find", "deliver"} \/ content_list' = <<>>
        \/ /\ content_list' = content_list
           /\ \A i \in 1 .. Len(consumer_list) : ~Takes(consumer_list[i], Head(content_list))
    BY <1>2 DEF DispatchFind
  <2>2. CASE step' \in {"find", "deliver"} \/ content_list' = <<>>
    BY <2>2, Attended
  <2>3. CASE /\ content_list' = content_list
             /\ \A i \in 1 .. Len(consumer_list) : ~Takes(consumer_list[i], Head(content_list))
    <3>1. UNCHANGED <<consumer_list, active, credit, conn>>
      BY <1>2 DEF DispatchFind, channelVars
    <3>2. ASSUME NEW c \in Consumers, Listed(c)', Takes(c, Head(content_list))' PROVE FALSE
      <4>1. PICK i \in 1 .. Len(consumer_list) : consumer_list[i] = c
        BY <3>1, <3>2 DEF Listed, Occurs
      <4>2. Takes(c, Head(content_list))
        BY <2>3, <3>1, <3>2, TakesSame
      <4> QED
        BY <2>3, <4>1, <4>2
    <3> QED
      BY <3>2 DEF WakeInv
  <2> QED
    BY <2>1, <2>2, <2>3
<1> QED
  BY <1>1, <1>2

\* Nothing waits at first.
LEMMA WakeInit == Init => WakeInv
BY DEF Init, WakeInv

\* Every step keeps whoever could take the head of the list on the way to get it.
LEMMA WakeNext ==
    /\ WakeSure /\ TypeOK /\ TypeOK' /\ SpendCovered /\ LimitInv /\ JoinInv /\ StartInv /\ WakeInv
    /\ [Next]_vars
    => WakeInv'
<1> SUFFICES ASSUME WakeSure, TypeOK, TypeOK', SpendCovered, LimitInv, JoinInv, StartInv, WakeInv,
                    [Next]_vars
             PROVE  WakeInv'
  OBVIOUS
<1>1. CASE UNCHANGED vars
  <2>1. UNCHANGED <<mailbox, content_list, consumer_list, step, cancelling, pending, paused,
                    active, credit, conn, earning, by_channel, crediting>>
    BY <1>1 DEF vars, mailVars, queueVars, loopVars, consumerVars, channelVars
  <2> QED
    BY <2>1 DEF WakeInv, Heading, Told, Consumes, Cancels, Leaving, Linked, Listed, Occurs,
                HaveActive, Available, Between, Takes, Busy, ChannelActive, Reaches, Local
<1>2. ASSUME NEW c \in Consumers, ChannelCredits(c) PROVE WakeInv'
  BY <1>2, ConsumeWake
<1>3. (\E c \in Consumers : ChannelCredits(c)) \/ crediting' = crediting
  BY CreditingStays
<1>4. CASE crediting' = crediting /\ ~(UNCHANGED vars) /\ ~(\E c \in Consumers : ChannelCredits(c))
  <2>1. ASSUME NEW ch \in Channels, SendContent(ch) PROVE WakeInv'
    BY <1>4, <2>1, SendWake
  <2>2. ASSUME NEW ch \in Channels, EarnTest(ch) PROVE WakeInv'
    BY <1>4, <2>2, EarnWake
  <2>3. ASSUME NEW ch \in Channels, NEW on \in BOOLEAN, ChannelFlow(ch, on) PROVE WakeInv'
    BY <1>4, <2>3, FlowWake
  <2>4. CASE QueueThread
    BY <1>4, <2>4, HandlerWake, AcceptWake, CancelWake, EndWake, LoopWake DEF QueueThread
  <2> QED
    BY <1>4, <2>1, <2>2, <2>3, <2>4, PostWake, LeaveWake DEF Next
<1> QED
  BY <1>1, <1>2, <1>3, <1>4

\* At rest nobody is on the way: nobody can take the head of the list.
LEMMA WakeAtRest == TypeOK /\ JoinInv /\ WakeInv => NoLostWakeup
<1> SUFFICES ASSUME TypeOK, JoinInv, WakeInv, step = "idle", mailbox = <<>>, earning = {},
                    \A ch \in Channels : Between(ch), content_list # <<>>, HaveActive(pending),
                    NEW i \in 1 .. Len(consumer_list), Takes(consumer_list[i], Head(content_list))
             PROVE  FALSE
  BY DEF NoLostWakeup
<1>1. PICK c : c = consumer_list[i]
  OBVIOUS
<1>2. c \in Consumers /\ c # Nobody
  BY <1>1, JoinTypes
<1>3. Listed(c)
  BY <1>1 DEF Listed, Occurs
<1>4. Heading(c)
  BY <1>1, <1>2, <1>3 DEF WakeInv
<1>5. Len(mailbox) = 0
  OBVIOUS
<1>6. ~Told(mailbox) /\ Consumes(mailbox) = {} /\ Cancels(mailbox) = {}
  BY <1>5 DEF Told, Consumes, Cancels
<1>7. ~Leaving(c)
  BY <1>2, <1>6 DEF Leaving, JoinInv, LoopSound
<1>8. Between(ChannelOf[c])
  BY <1>2, JoinTypes
<1> QED
  BY <1>4, <1>6, <1>7, <1>8 DEF Heading

\* When every thread is at rest, a queue with an available consumer has nothing that
\* one of its consumers takes, on every queue whose consumers ask for no exclusive
\* access and that is either never read by basic.get or has no no-local consumer.
THEOREM WakeupsKept == WakeSure => (Spec => []NoLostWakeup)
<1> SUFFICES ASSUME WakeSure PROVE Spec => []NoLostWakeup
  OBVIOUS
<1>1. TypeOK /\ TypeOK' /\ SpendCovered /\ LimitInv /\ JoinInv /\ StartInv /\ WakeInv /\ [Next]_vars
        => WakeInv'
  BY WakeNext
<1> QED
  BY <1>1, TypesAndSpend, LimitInit, LimitNext, JoinInit, JoinNext, StartInit, StartNext, WakeInit,
     WakeAtRest, PTL DEF Spec
=============================================================================
