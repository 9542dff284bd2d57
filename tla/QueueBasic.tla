----------------------------- MODULE QueueBasic -----------------------------
(***************************************************************************)
(* One message queue of the OpenAMQ server: amq_queue (the asynchronous    *)
(* envelope with its SMT method queue) and amq_queue_basic (the content    *)
(* and consumer lists), with the consumers and the channels they belong    *)
(* to.                                                                     *)
(*                                                                         *)
(* Four kinds of thread act on this state and interleave freely:           *)
(*   - clients and exchanges, which post methods to the queue;             *)
(*   - one thread per channel (consume, cancel, ack, flow, destroy);       *)
(*   - one thread per connection, which sends the contents handed to it    *)
(*     and earns the channel its credit back;                              *)
(*   - the queue's thread, which takes one method at a time.  The dispatch *)
(*     loop is split at the points where another thread's write can be     *)
(*     seen: choosing a consumer ("find") and delivering to it ("deliver"). *)
(***************************************************************************)
EXTENDS Naturals, Sequences, FiniteSets

CONSTANTS
    Channels,             \* channels; a connection has exactly one
    Consumers,            \* consumer objects, each created at most once
    ChannelOf,            \* the channel a consumer is created on
    NoAck,                \* consumers that need no acknowledgement
    NoLocal,              \* consumers that do not want their own messages
    ExclusiveConsumers,   \* consumers that ask for exclusive access
    Nobody,               \* neither a channel nor a consumer
    Exclusive,            \* is this a private queue?
    Owner,                \* the connection that owns a private queue
    AutoDelete,           \* is the queue deleted when unused?
    QueueTimeout,         \* is the auto-delete delayed by a timer?
    DropLimit, TrimLimit, KillLimit,  \* queue profile; 0 = no such limit
    Window,               \* configured credit window of this kind of queue (by default
                          \* 1024 for a private and 1 for a shared queue)
    Requests,             \* the kinds of request the clients make
    MaxPublish,           \* bound: contents published
    MaxMailbox            \* bound: requests waiting when a client posts one

RequestKinds == {"publish", "immediate", "get", "purge", "delete", "cancel",
                 "ack", "flow", "close"}

ASSUME ConstantsAssumption ==
    /\ ChannelOf \in [Consumers -> Channels]
    /\ NoAck \subseteq Consumers
    /\ NoLocal \subseteq Consumers
    /\ ExclusiveConsumers \subseteq Consumers
    /\ Nobody \notin Channels \cup Consumers
    /\ Exclusive \in BOOLEAN
    /\ Owner \in Channels \cup {Nobody}
    /\ AutoDelete \in BOOLEAN
    /\ QueueTimeout \in BOOLEAN
    /\ DropLimit \in Nat /\ TrimLimit \in Nat /\ KillLimit \in Nat
    /\ Window \in Nat \ {0}
    /\ Requests \subseteq RequestKinds
    /\ MaxPublish \in Nat /\ MaxMailbox \in Nat

VARIABLES
    mailbox,        \* the queue thread's method queue
    content_list,   \* contents waiting in the queue, oldest first
    consumer_list,  \* consumers attached to the queue, in round-robin order
    locked,         \* queue is taken by an exclusive consumer
    timers,         \* auto-delete timers running
    step,           \* where the queue's thread stands in its handler
    hand,           \* content popped by the dispatch loop, not yet delivered
    chosen,         \* consumer the loop found for it
    cancelling,     \* consumer whose cancel handler is running
    pending,        \* content a consumer holds until it is acknowledged
    paused,         \* consumer is paused (flow off)
    active,         \* channel.flow state
    credit,         \* channel credit
    conn,           \* "open", "closing" (destroy running) or "dead"
    flow_queue,     \* contents handed to the connection, not yet sent
    earning,        \* channels that earned a credit and have yet to test it
    by_channel,     \* consumers of each channel, in the channel's own list
    chan_cancel,    \* cancels that the queue has posted to channels
    created,        \* consumers created so far
    crediting,      \* how far the channel is with the credit of a consumer it has created:
                    \* "set" (to be tested), "zero" (found zero), or "no" (not at it)
    accepted,       \* contents that reached the queue so far
    sent,           \* contents handed to some client at least once
    settled,        \* contents the queue is done with, by decision
    lost            \* contents dropped without a decision

mailVars == <<mailbox>>
queueVars == <<content_list, consumer_list, locked, timers>>
loopVars == <<step, hand, chosen, cancelling>>
consumerVars == <<pending, paused>>
channelVars == <<active, credit, conn, flow_queue, earning, by_channel, chan_cancel, created,
                crediting>>
historyVars == <<accepted, sent, settled, lost>>
vars == <<mailVars, queueVars, loopVars, consumerVars, channelVars, historyVars>>

-----------------------------------------------------------------------------
(* Data *)

\* A content is known by its arrival number and by the connection it came from.
NoContent == [id |-> 0, producer |-> Nobody]
Content == [id : Nat, producer : Channels \cup {Nobody}]

Mail ==
    [method : {"publish", "get"}, who : Channels, flag : BOOLEAN]
        \cup [method : {"consume", "cancel", "ack"}, who : Consumers, flag : BOOLEAN]
        \cup [method : {"purge", "dispatch", "self_destruct"}, who : {Nobody}, flag : {FALSE}]

Method(m, who, flag) == [method |-> m, who |-> who, flag |-> flag]
DispatchMethod == Method("dispatch", Nobody, FALSE)
SelfDestructMethod == Method("self_destruct", Nobody, FALSE)

\* One method per consumer of a channel, in the channel's order.
PerConsumer(ch, m) ==
    [k \in 1 .. Len(by_channel[ch]) |->
        IF m = "dispatch" THEN DispatchMethod ELSE Method(m, by_channel[ch][k], FALSE)]

\* The sequence s without its i-th element; without the element c, if it is there.
Without(s, i) == [k \in 1 .. (Len(s) - 1) |-> IF k < i THEN s[k] ELSE s[k + 1]]
Occurs(s, c) == \E i \in 1 .. Len(s) : s[i] = c
MutantDrop(s, c) == s
Drop(s, c) ==
    IF Occurs(s, c) THEN Without(s, CHOOSE i \in 1 .. Len(s) : s[i] = c) ELSE s

-----------------------------------------------------------------------------
Init ==
    /\ mailbox = <<>>
    /\ content_list = <<>> /\ consumer_list = <<>>
    /\ locked = FALSE /\ timers = 0
    /\ step = "idle" /\ hand = NoContent /\ chosen = Nobody /\ cancelling = Nobody
    /\ pending = [c \in Consumers |-> NoContent]
    /\ paused = [c \in Consumers |-> FALSE]
    /\ active = [ch \in Channels |-> TRUE]
    /\ credit = [ch \in Channels |-> 0]
    /\ conn = [ch \in Channels |-> "open"]
    /\ flow_queue = [ch \in Channels |-> 0] /\ earning = {}
    /\ by_channel = [ch \in Channels |-> <<>>]
    /\ chan_cancel = {} /\ created = {}
    /\ crediting = [c \in Consumers |-> "no"]
    /\ accepted = 0 /\ sent = {} /\ settled = {} /\ lost = {}

-----------------------------------------------------------------------------
(* Parts of several actions                                                *)

\* Every queue of a channel's consumers is asked to dispatch.
MutantNoWake(ch) == mailbox
Wake(ch) == mailbox \o PerConsumer(ch, "dispatch")

\* The channel's credit has become 1: consumers that were busy no longer are.
MutantLateTest(ch) == credit[ch] = 2
Earned(ch) == credit[ch] = 1

\* amq_server_connection_link: a channel has its connection until its destroy is done.
MutantReaches(ch) == conn[ch] = "open"
Reaches(ch) == conn[ch] # "dead"

\* Consumer c lets go of the content it holds.
MutantKeeps(c) == pending
Released(c) == [pending EXCEPT ![c] = NoContent]

\* An unacknowledged content goes back to the head of the list.
MutantToTail(content) == Append(content_list, content)
Requeued(content) == <<content>> \o content_list

-----------------------------------------------------------------------------
(* Clients and exchanges: methods posted to the queue                      *)

CanPost == Len(mailbox) < MaxMailbox
Post(m) == mailbox' = Append(mailbox, m)

PostPublish ==
    /\ CanPost
    /\ accepted + Len(mailbox) < MaxPublish
    /\ \E ch \in Channels, immediate \in BOOLEAN :
        /\ conn[ch] = "open"
        /\ (IF immediate THEN "immediate" ELSE "publish") \in Requests
        /\ Post(Method("publish", ch, immediate))
    /\ UNCHANGED <<queueVars, loopVars, consumerVars, channelVars, historyVars>>

PostGet ==
    /\ CanPost /\ "get" \in Requests
    /\ \E ch \in Channels : conn[ch] = "open" /\ Post(Method("get", ch, FALSE))
    /\ UNCHANGED <<queueVars, loopVars, consumerVars, channelVars, historyVars>>

PostPurge ==
    /\ CanPost /\ "purge" \in Requests
    /\ Post(Method("purge", Nobody, FALSE))
    /\ UNCHANGED <<queueVars, loopVars, consumerVars, channelVars, historyVars>>

PostDelete ==
    /\ CanPost /\ "delete" \in Requests
    /\ Post(SelfDestructMethod)
    /\ UNCHANGED <<queueVars, loopVars, consumerVars, channelVars, historyVars>>

-----------------------------------------------------------------------------
(* The channel's thread                                                    *)

\* The channel's thread is between two methods.
Between(ch) == \A c \in Consumers : ChannelOf[c] = ch => crediting[c] = "no"

\* Creates the consumer and sets the channel's credit to the window ...
ChannelConsume(c) ==
    LET ch == ChannelOf[c] IN
    /\ CanPost
    /\ c \notin created /\ conn[ch] = "open" /\ Between(ch)
    /\ created' = created \cup {c}
    /\ by_channel' = [by_channel EXCEPT ![ch] = Append(@, c)]
    /\ credit' = [credit EXCEPT ![ch] = Window]
    /\ crediting' = [crediting EXCEPT ![c] = "set"]
    /\ UNCHANGED <<mailVars, queueVars, loopVars, consumerVars, historyVars,
                   active, conn, flow_queue, earning, chan_cancel>>

\* ... reads it again, for a window of 0; deliveries to the channel's other consumers
\* may have spent it in between ...
ChannelFindsZero(c) ==
    /\ crediting[c] = "set" /\ credit[ChannelOf[c]] = 0
    /\ crediting' = [crediting EXCEPT ![c] = "zero"]
    /\ UNCHANGED <<mailVars, queueVars, loopVars, consumerVars, historyVars,
                   active, credit, conn, flow_queue, earning, by_channel, chan_cancel, created>>

\* ... sets a credit found zero to 1, whatever it is by now, and posts to the queue.
ChannelJoins(c) ==
    LET ch == ChannelOf[c] IN
    /\ \/ crediting[c] = "set" /\ credit[ch] # 0 /\ UNCHANGED credit
       \/ crediting[c] = "zero" /\ credit' = [credit EXCEPT ![ch] = 1]
    /\ crediting' = [crediting EXCEPT ![c] = "no"]
    /\ Post(Method("consume", c, active[ch]))
    /\ UNCHANGED <<queueVars, loopVars, consumerVars, historyVars,
                   active, conn, flow_queue, earning, by_channel, chan_cancel, created>>

\* basic.cancel from the client: the channel drops the consumer from its own
\* list and passes it to the queue.
ChannelCancel(c) ==
    LET ch == ChannelOf[c] IN
    /\ CanPost /\ "cancel" \in Requests
    /\ conn[ch] = "open" /\ Between(ch) /\ Occurs(by_channel[ch], c)
    /\ by_channel' = [by_channel EXCEPT ![ch] = Drop(@, c)]
    /\ Post(Method("cancel", c, TRUE))
    /\ UNCHANGED <<queueVars, loopVars, consumerVars, historyVars,
                   active, credit, conn, flow_queue, earning, chan_cancel, created, crediting>>

\* A cancel posted by the queue, for a consumer it has refused.
ChannelCancelled(c) ==
    /\ c \in chan_cancel /\ Between(ChannelOf[c])
    /\ chan_cancel' = chan_cancel \ {c}
    /\ by_channel' = [by_channel EXCEPT ![ChannelOf[c]] = Drop(@, c)]
    /\ UNCHANGED <<mailVars, queueVars, loopVars, consumerVars, historyVars,
                   active, credit, conn, flow_queue, earning, created, crediting>>

\* basic.ack: acknowledges on every consumer of the channel, whatever the tag.
ChannelAck(ch) ==
    /\ CanPost /\ "ack" \in Requests
    /\ conn[ch] = "open" /\ Between(ch) /\ by_channel[ch] # <<>>
    /\ mailbox' = mailbox \o PerConsumer(ch, "ack")
    /\ UNCHANGED <<queueVars, loopVars, consumerVars, channelVars, historyVars>>

\* channel.flow: pauses or restarts the channel and its consumers.
ChannelFlow(ch, on) ==
    /\ CanPost /\ "flow" \in Requests
    /\ conn[ch] = "open" /\ Between(ch)
    /\ active' = [active EXCEPT ![ch] = on]
    /\ paused' = [c \in Consumers |->
                    IF Occurs(by_channel[ch], c) THEN ~on ELSE paused[c]]
    /\ mailbox' = IF on THEN Wake(ch) ELSE mailbox
    /\ UNCHANGED <<queueVars, loopVars, historyVars, pending,
                   credit, conn, flow_queue, earning, by_channel, chan_cancel, created, crediting>>

\* The channel is destroyed: first it passes its consumers to the queue ...
ChannelDestroy(ch) ==
    /\ CanPost /\ "close" \in Requests
    /\ conn[ch] = "open" /\ Between(ch)
    /\ conn' = [conn EXCEPT ![ch] = "closing"]
    /\ by_channel' = [by_channel EXCEPT ![ch] = <<>>]
    /\ mailbox' = mailbox \o PerConsumer(ch, "cancel")
    /\ UNCHANGED <<queueVars, loopVars, consumerVars, historyVars,
                   active, credit, flow_queue, earning, chan_cancel, created, crediting>>

\* ... then it drops its link to the connection.
ChannelUnlink(ch) ==
    /\ conn[ch] = "closing"
    /\ conn' = [conn EXCEPT ![ch] = "dead"]
    /\ UNCHANGED <<mailVars, queueVars, loopVars, consumerVars, historyVars,
                   active, credit, flow_queue, earning, by_channel, chan_cancel, created, crediting>>

-----------------------------------------------------------------------------
(* The connection's thread                                                 *)

\* A content has been written to the socket: the channel earns one credit ...
SendContent(ch) ==
    /\ conn[ch] = "open" /\ flow_queue[ch] > 0 /\ ch \notin earning
    /\ flow_queue' = [flow_queue EXCEPT ![ch] = @ - 1]
    /\ credit' = [credit EXCEPT ![ch] = @ + 1]
    /\ earning' = earning \cup {ch}
    /\ UNCHANGED <<mailVars, queueVars, loopVars, consumerVars, historyVars,
                   active, conn, by_channel, chan_cancel, created, crediting>>

\* ... then reads the credit again, and dispatches its queues if it is 1.
EarnTest(ch) ==
    /\ ch \in earning
    /\ earning' = earning \ {ch}
    /\ mailbox' = IF Earned(ch) THEN Wake(ch) ELSE mailbox
    /\ UNCHANGED <<queueVars, loopVars, consumerVars, historyVars,
                   active, credit, conn, flow_queue, by_channel, chan_cancel, created, crediting>>

-----------------------------------------------------------------------------
(* The queue's thread                                                      *)

Take(m) == step = "idle" /\ mailbox # <<>> /\ Head(mailbox).method = m

\* Consumer is available if it's not paused, nor has pending content.
Available(c, pend) == ~paused[c] /\ pend[c] = NoContent
HaveActive(pend) ==
    \E i \in 1 .. Len(consumer_list) : Available(consumer_list[i], pend)

\* The queue's limits, tested in this order against the size before the publish.
MutantOver(limit) == limit # 0 /\ Len(content_list) > limit
Over(limit) == limit # 0 /\ Len(content_list) >= limit
Dropping == Over(DropLimit)
Trimming == ~Dropping /\ Over(TrimLimit)
Killing == ~Dropping /\ ~Trimming /\ Over(KillLimit)

HandlePublish ==
    LET mail == Head(mailbox)
        content == [id |-> accepted + 1, producer |-> mail.who]
        kept == IF Trimming THEN Tail(content_list) ELSE content_list
        trimmed == IF Trimming THEN {Head(content_list).id} ELSE {}
        rejected == ~Dropping /\ mail.flag /\ ~HaveActive(pending)
        returns == rejected /\ Reaches(mail.who)
    IN
    /\ Take("publish")
    /\ accepted' = accepted + 1
    /\ content_list' = IF Dropping \/ rejected THEN kept ELSE Append(kept, content)
    /\ settled' = settled \cup trimmed
                          \cup (IF Dropping \/ rejected THEN {content.id} ELSE {})
    /\ flow_queue' = IF returns THEN [flow_queue EXCEPT ![mail.who] = @ + 1]
                                ELSE flow_queue
    /\ mailbox' = IF Killing THEN Append(Tail(mailbox), SelfDestructMethod)
                             ELSE Tail(mailbox)
    /\ step' = IF HaveActive(pending) THEN "find" ELSE "idle"
    /\ UNCHANGED <<consumer_list, locked, timers, hand, chosen, cancelling, consumerVars,
                   active, credit, conn, earning, by_channel, chan_cancel, created, crediting,
                   sent, lost>>

\* The content is popped even when the client that asked for it has gone.
HandleGet ==
    LET ch == Head(mailbox).who
        found == content_list # <<>>
    IN
    /\ Take("get")
    /\ mailbox' = Tail(mailbox)
    /\ content_list' = IF found THEN Tail(content_list) ELSE content_list
    /\ LET id == Head(content_list).id IN
       IF found /\ Reaches(ch)
       THEN /\ flow_queue' = [flow_queue EXCEPT ![ch] = @ + 1]
            /\ sent' = sent \cup {id}
            /\ settled' = settled \cup {id}
            /\ UNCHANGED lost
       ELSE /\ lost' = IF found THEN lost \cup {id} ELSE lost
            /\ UNCHANGED <<flow_queue, sent, settled>>
    /\ UNCHANGED <<consumer_list, locked, timers, loopVars, consumerVars,
                   active, credit, conn, earning, by_channel, chan_cancel, created, crediting,
                   accepted>>

HandlePurge ==
    /\ Take("purge")
    /\ mailbox' = Tail(mailbox)
    /\ content_list' = <<>>
    /\ settled' = settled \cup {content_list[i].id : i \in 1 .. Len(content_list)}
    /\ UNCHANGED <<consumer_list, locked, timers, loopVars, consumerVars, channelVars,
                   accepted, sent, lost>>

\* Why the queue may refuse a consumer.
Refused(c) ==
    \/ Exclusive /\ (ChannelOf[c] # Owner \/ ~Reaches(ChannelOf[c]))
    \/ c \in ExclusiveConsumers /\ consumer_list # <<>>
    \/ c \notin ExclusiveConsumers /\ locked

HandleConsume ==
    LET c == Head(mailbox).who IN
    /\ Take("consume")
    /\ IF Refused(c)
       THEN /\ chan_cancel' = IF conn[ChannelOf[c]] = "open" THEN chan_cancel \cup {c}
                                                             ELSE chan_cancel
            /\ mailbox' = Tail(mailbox)
            /\ UNCHANGED <<consumer_list, locked, paused>>
       ELSE /\ consumer_list' = Append(consumer_list, c)
            /\ locked' = (locked \/ c \in ExclusiveConsumers)
            /\ paused' = [paused EXCEPT ![c] = ~Head(mailbox).flag]
            /\ mailbox' = Append(Tail(mailbox), DispatchMethod)
            /\ UNCHANGED chan_cancel
    /\ UNCHANGED <<content_list, timers, loopVars, pending, historyVars,
                   active, credit, conn, flow_queue, earning, by_channel, created, crediting>>

HandleDispatch ==
    /\ Take("dispatch")
    /\ mailbox' = Tail(mailbox)
    /\ step' = IF HaveActive(pending) THEN "find" ELSE "idle"
    /\ UNCHANGED <<queueVars, hand, chosen, cancelling, consumerVars, channelVars,
                   historyVars>>

HandleAck ==
    LET c == Head(mailbox).who IN
    /\ Take("ack")
    /\ mailbox' = Tail(mailbox)
    /\ IF pending[c] = NoContent
       THEN UNCHANGED <<pending, step, settled>>
       ELSE /\ pending' = Released(c)
            /\ settled' = settled \cup {pending[c].id}
            /\ step' = IF HaveActive(Released(c)) THEN "find" ELSE "idle"
    /\ UNCHANGED <<queueVars, hand, chosen, cancelling, paused, channelVars,
                   accepted, sent, lost>>

\* Pushes an unacknowledged content back and dispatches; the consumer leaves the
\* queue's list only when the dispatch loop is over (CancelFinish).
HandleCancel ==
    LET c == Head(mailbox).who IN
    /\ Take("cancel")
    /\ mailbox' = Tail(mailbox)
    /\ cancelling' = c
    /\ IF pending[c] = NoContent
       THEN step' = "finish" /\ UNCHANGED content_list
       ELSE /\ content_list' = Requeued(pending[c])
            /\ step' = IF HaveActive(pending) THEN "find" ELSE "finish"
    /\ UNCHANGED <<consumer_list, locked, timers, hand, chosen, consumerVars, channelVars,
                   historyVars>>

\* Does a content have a place to be other than consumer c's pending slot?
Elsewhere(id, c) ==
    \/ \E i \in 1 .. Len(content_list) : content_list[i].id = id
    \/ hand.id = id
    \/ \E d \in Consumers \ {c} : pending[d].id = id
    \/ id \in settled

\* What is lost when consumer c lets go of the content it holds.
LostBy(c) ==
    IF pending[c] = NoContent \/ Elsewhere(pending[c].id, c) THEN {} ELSE {pending[c].id}

CancelFinish ==
    LET c == cancelling
        rest == Drop(consumer_list, c)
    IN
    /\ step = "finish"
    /\ consumer_list' = rest
    /\ pending' = Released(c)
    /\ lost' = lost \cup LostBy(c)
    /\ locked' = FALSE
    /\ IF AutoDelete /\ rest = <<>>
       THEN IF QueueTimeout
            THEN timers' = timers + 1 /\ UNCHANGED mailbox
            ELSE Post(SelfDestructMethod) /\ UNCHANGED timers
       ELSE UNCHANGED <<timers, mailbox>>
    /\ step' = "idle" /\ cancelling' = Nobody
    /\ UNCHANGED <<content_list, hand, chosen, paused, channelVars, accepted, sent, settled>>

\* The auto-delete timer: self-destruct if the queue still has no consumers.
AutoDeleteEvent ==
    /\ step = "idle" /\ timers > 0
    /\ timers' = timers - 1
    /\ mailbox' = IF consumer_list = <<>> THEN Append(mailbox, SelfDestructMethod)
                                          ELSE mailbox
    /\ UNCHANGED <<content_list, consumer_list, locked, loopVars, consumerVars,
                   channelVars, historyVars>>

\* Stops the queue: its consumers are popped one by one, each taken off all its
\* lists and destroyed with the content it holds.
HandleSelfDestruct ==
    /\ Take("self_destruct")
    /\ mailbox' = Tail(mailbox)
    /\ step' = "stop"
    /\ UNCHANGED <<queueVars, hand, chosen, cancelling, consumerVars, channelVars,
                   historyVars>>

MutantStopped == TRUE
Stopped == consumer_list = <<>>

StopConsumer ==
    LET c == Head(consumer_list) IN
    /\ step = "stop" /\ ~Stopped
    /\ consumer_list' = Tail(consumer_list)
    /\ pending' = Released(c)
    /\ settled' = IF pending[c] = NoContent THEN settled ELSE settled \cup {pending[c].id}
    /\ by_channel' = [by_channel EXCEPT ![ChannelOf[c]] = Drop(@, c)]
    /\ UNCHANGED <<mailVars, content_list, locked, timers, loopVars, paused,
                   accepted, sent, lost,
                   active, credit, conn, flow_queue, earning, chan_cancel, created, crediting>>

StopFinish ==
    /\ step = "stop" /\ Stopped
    /\ step' = "idle"
    /\ UNCHANGED <<mailVars, queueVars, hand, chosen, cancelling, consumerVars,
                   channelVars, historyVars>>

-----------------------------------------------------------------------------
(* The dispatch loop                                                       *)

ChannelActive(c) == Reaches(ChannelOf[c]) /\ active[ChannelOf[c]]
MutantBusy(c) == ~ChannelActive(c)
Busy(c) == ~ChannelActive(c) \/ credit[ChannelOf[c]] < 1
Local(c, content) == c \in NoLocal /\ ChannelOf[c] = content.producer
Takes(c, content) == ~Busy(c) /\ ~Local(c, content)

\* The first consumer in round-robin order that takes the content.  Note that
\* neither 'paused' nor 'pending' is looked at here.
NextConsumer(content, i) ==
    /\ Takes(consumer_list[i], content)
    /\ \A j \in 1 .. (i - 1) : ~Takes(consumer_list[j], content)

MutantAfterLoop == "idle"
AfterLoop == IF cancelling = Nobody THEN "idle" ELSE "finish"

\* Pops the next content and looks for its consumer: found, none for it (the
\* content is discarded), or all busy (the content is pushed back).
DispatchFind ==
    /\ step = "find"
    /\ \/ /\ content_list = <<>>
          /\ step' = AfterLoop
          /\ UNCHANGED <<content_list, hand, chosen, settled>>
       \/ /\ content_list # <<>>
          /\ \E i \in 1 .. Len(consumer_list) :
              /\ NextConsumer(Head(content_list), i)
              /\ chosen' = consumer_list[i]
          /\ hand' = Head(content_list)
          /\ content_list' = Tail(content_list)
          /\ step' = "deliver"
          /\ UNCHANGED settled
       \/ /\ content_list # <<>>
          /\ \A i \in 1 .. Len(consumer_list) : ~Takes(consumer_list[i], Head(content_list))
          /\ IF \E i \in 1 .. Len(consumer_list) : Busy(consumer_list[i])
             THEN step' = AfterLoop /\ UNCHANGED <<content_list, settled>>
             ELSE /\ content_list' = Tail(content_list)
                  /\ settled' = settled \cup {Head(content_list).id}
                  /\ UNCHANGED step
          /\ UNCHANGED <<hand, chosen>>
    /\ UNCHANGED <<mailVars, consumer_list, locked, timers, cancelling, consumerVars,
                   channelVars, accepted, sent, lost>>

\* A content is held for acknowledgement only on shared queues.
Holds(c) == ~Exclusive /\ c \notin NoAck

\* A channel whose destroy has begun no longer spends.
MutantSpendsTwice(ch) == IF conn[ch] = "open" THEN [credit EXCEPT ![ch] = @ - 2] ELSE credit
Spent(ch) == IF conn[ch] = "open" THEN [credit EXCEPT ![ch] = @ - 1] ELSE credit

DispatchDeliver ==
    LET c == chosen
        ch == ChannelOf[c]
    IN
    /\ step = "deliver"
    /\ consumer_list' = Append(Drop(consumer_list, c), c)
    /\ credit' = Spent(ch)
    /\ IF ~Reaches(ch)
       THEN /\ lost' = lost \cup {hand.id}
            /\ UNCHANGED <<pending, sent, settled, flow_queue>>
       ELSE /\ sent' = sent \cup {hand.id}
            /\ flow_queue' = [flow_queue EXCEPT ![ch] = @ + 1]
            /\ IF Holds(c)
               THEN /\ lost' = lost \cup LostBy(c)
                    /\ pending' = [pending EXCEPT ![c] = hand]
                    /\ UNCHANGED settled
               ELSE /\ settled' = settled \cup {hand.id}
                    /\ UNCHANGED <<lost, pending>>
    /\ step' = "find" /\ hand' = NoContent /\ chosen' = Nobody
    /\ UNCHANGED <<mailVars, content_list, locked, timers, cancelling, paused,
                   active, conn, earning, by_channel, chan_cancel, created, crediting,
                   accepted>>

-----------------------------------------------------------------------------
ChannelCredits(c) == ChannelConsume(c) \/ ChannelFindsZero(c) \/ ChannelJoins(c)

QueueThread ==
    \/ HandlePublish \/ HandleGet \/ HandlePurge \/ HandleConsume
    \/ HandleDispatch \/ HandleAck \/ HandleCancel \/ CancelFinish
    \/ HandleSelfDestruct \/ StopConsumer \/ StopFinish
    \/ DispatchFind \/ DispatchDeliver

Next ==
    \/ PostPublish \/ PostGet \/ PostPurge \/ PostDelete
    \/ \E c \in Consumers : ChannelCredits(c) \/ ChannelCancel(c) \/ ChannelCancelled(c)
    \/ \E ch \in Channels :
        \/ ChannelAck(ch) \/ ChannelDestroy(ch) \/ ChannelUnlink(ch)
        \/ SendContent(ch) \/ EarnTest(ch)
        \/ \E on \in BOOLEAN : ChannelFlow(ch, on)
    \/ AutoDeleteEvent
    \/ QueueThread

Spec == Init /\ [][Next]_vars

\* Work that the server's scheduler does not put off for ever: each thread takes
\* its methods, writes its contents and runs its handlers to the end.
Fairness ==
    /\ WF_vars(QueueThread)
    /\ \A ch \in Channels :
        WF_vars(SendContent(ch)) /\ WF_vars(EarnTest(ch)) /\ WF_vars(ChannelUnlink(ch))
    /\ \A c \in Consumers :
        WF_vars(ChannelCancelled(c)) /\ WF_vars(ChannelFindsZero(c) \/ ChannelJoins(c))

FairSpec == Spec /\ Fairness

-----------------------------------------------------------------------------
(* Properties                                                              *)

QueueTypeOK ==
    /\ content_list \in Seq(Content) /\ consumer_list \in Seq(Consumers)
    /\ locked \in BOOLEAN /\ timers \in Nat

LoopTypeOK ==
    /\ step \in {"idle", "find", "deliver", "finish", "stop"}
    /\ hand \in Content
    /\ chosen \in Consumers \cup {Nobody} /\ cancelling \in Consumers \cup {Nobody}

ConsumerTypeOK == pending \in [Consumers -> Content] /\ paused \in [Consumers -> BOOLEAN]

ChannelTypeOK ==
    /\ active \in [Channels -> BOOLEAN] /\ credit \in [Channels -> Nat]
    /\ conn \in [Channels -> {"open", "closing", "dead"}]
    /\ flow_queue \in [Channels -> Nat] /\ earning \subseteq Channels
    /\ by_channel \in [Channels -> Seq(Consumers)]
    /\ chan_cancel \subseteq Consumers /\ created \subseteq Consumers
    /\ crediting \in [Consumers -> {"no", "set", "zero"}]

HistoryTypeOK == accepted \in Nat /\ sent \subseteq Nat /\ settled \subseteq Nat /\ lost \subseteq Nat

\* Every variable has its type; in particular the credit, an unsigned word in the
\* code, is never taken below zero.
TypeOK ==
    /\ mailbox \in Seq(Mail) /\ QueueTypeOK /\ LoopTypeOK
    /\ ConsumerTypeOK /\ ChannelTypeOK /\ HistoryTypeOK

\* The credit that the loop tested when it chose a consumer is still there when it
\* spends it, whatever the channel did in between: the credit cannot wrap below 0.
SpendCovered ==
    /\ step = "deliver" =>
        /\ chosen \in Consumers
        /\ conn[ChannelOf[chosen]] = "open" => credit[ChannelOf[chosen]] >= 1
    /\ step = "finish" => cancelling \in Consumers

InList(id) == \E i \in 1 .. Len(content_list) : content_list[i].id = id
HeldBy(c, id) == pending[c].id = id
Closed == settled \cup lost

\* A content is never duplicated: it waits in the list once, or is in the dispatch
\* loop's hand, or is held by one consumer, or the queue is done with it (by decision,
\* or because it let go of it); so it is never both waiting and held, never held twice,
\* and never waiting or held again once the queue is done with it.  The slot of the
\* consumer being cancelled may repeat a place: it is about to be emptied.
OneHome ==
    /\ \A id \in 1 .. accepted :
        InList(id) \/ hand.id = id \/ id \in Closed \/ \E c \in Consumers : HeldBy(c, id)
    /\ \A i, j \in 1 .. Len(content_list) :
        content_list[i].id = content_list[j].id => i = j
    /\ \A i \in 1 .. Len(content_list) :
        content_list[i].id # hand.id /\ content_list[i].id \notin Closed
    /\ hand.id \notin Closed
    /\ \A c \in Consumers \ {cancelling} : pending[c] # NoContent =>
        /\ ~InList(pending[c].id) /\ pending[c].id # hand.id
        /\ pending[c].id \notin Closed
        /\ \A d \in Consumers \ {c, cancelling} : pending[d].id # pending[c].id

\* A content that no client has been given is let go of only because a connection has
\* died under a delivery or a get (amq_queue_basic.icl:361, 443).  What a client has been
\* given once may be let go of without its acknowledgement: when another content takes
\* its place with the consumer (l.367), or with a consumer that is cancelled while it
\* holds it again (l.111).
UnsentKept == \A id \in lost : id \in sent \/ \E ch \in Channels : conn[ch] = "dead"

Fresh(content) == content.id \notin sent

\* Contents not yet given to any client wait in arrival order behind the ones
\* that were given back, and every one of them arrived after every content
\* already given out: a first delivery never overtakes another.
StrictOrder ==
    /\ \A i \in 1 .. Len(content_list) : Fresh(content_list[i]) =>
        /\ \A j \in (i + 1) .. Len(content_list) :
            Fresh(content_list[j]) /\ content_list[i].id < content_list[j].id
        /\ hand.id < content_list[i].id
        /\ \A id \in sent : id < content_list[i].id
    /\ hand # NoContent /\ Fresh(hand) => \A id \in sent : id < hand.id

\* The drop and trim limits bound the list: only the one content that each
\* cancelled consumer may give back can take it past them.
LimitsHold ==
    LET cancelled == {c \in created : ~Occurs(by_channel[ChannelOf[c]], c)} IN
    \A limit \in {DropLimit, TrimLimit} \ {0} :
        Len(content_list) <= limit + Cardinality(cancelled)

\* When every thread is at rest, a queue with an available consumer has nothing
\* it could deliver: no consumer takes its head content.  No event that frees a
\* consumer is missed, whatever the order of earn, spend, flow, ack and cancel.
NoLostWakeup ==
    (/\ step = "idle" /\ mailbox = <<>> /\ earning = {} /\ \A ch \in Channels : Between(ch)
     /\ content_list # <<>> /\ HaveActive(pending)) =>
        \A i \in 1 .. Len(consumer_list) : ~Takes(consumer_list[i], Head(content_list))

\* A consumer cancelled by its client, or by the close of its channel, leaves the queue.
CancelCompletes ==
    \A c \in Consumers :
        (c \in created /\ ~Occurs(by_channel[ChannelOf[c]], c))
            ~> ~Occurs(consumer_list, c)

\* Content does not wait for ever beside a consumer that could take it.
NoStarvation ==
    []<>(\/ content_list = <<>> \/ ~HaveActive(pending)
         \/ \A i \in 1 .. Len(consumer_list) : ~Takes(consumer_list[i], Head(content_list)))

\* A queue told to destroy itself, by its client, its kill limit or its timer,
\* rids itself of its consumers even while new ones keep arriving.
SelfDestructCompletes ==
    Occurs(mailbox, SelfDestructMethod) ~> consumer_list = <<>>
=============================================================================
