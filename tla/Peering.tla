------------------------------ MODULE Peering ------------------------------
(***************************************************************************)
(* amq_peering: the client link one server keeps to another.  The peering  *)
(* object replays its bindings on the remote exchange whenever the link    *)
(* comes up, and holds the messages forwarded while it is down.            *)
(*                                                                         *)
(* Three kinds of thread take part.  The peering handles one method of its *)
(* mailbox at a time; its monitor timer is posted with high priority and   *)
(* may come before methods posted earlier.  Each connection attempt is an  *)
(* agent thread, numbered here in the order of creation; what the peering  *)
(* pushes to it is in its outbox until the remote server handles it: with  *)
(* the agent, or written and on its way.  A connection that breaks ends at *)
(* the agent first; the remote server reads on, as far as the agent wrote, *)
(* until it notices the end too, whatever newer connections do meanwhile.  *)
(* (Where it is the remote server that ends first, it handles no more, and *)
(* the agent's end is all that the peering sees.)                          *)
(***************************************************************************)
EXTENDS Naturals, Sequences, FiniteSets, SequencesExt

CONSTANTS
    Keys,          \* bindings: a routing key and its arguments
    MaxForwards,   \* bound: messages forwarded
    MaxBinds,      \* bound: bind and unbind calls
    MaxStarts,     \* bound: start calls; a stop comes between two starts
    MaxStops,      \* bound: stop calls
    MaxBreaks,     \* bound: connections lost or refused
    MaxThreads,    \* bound: connection attempts
    MaxMailbox     \* bound: methods waiting when the caller posts another

ASSUME PeeringAssumption ==
    {MaxForwards, MaxBinds, MaxStarts, MaxStops, MaxBreaks, MaxThreads, MaxMailbox}
        \subseteq Nat

VARIABLES
    enabled, connected, thread, bindings, messages,   \* the peering's fields
    timer,       \* is a monitor event pending?
    mailbox,     \* the peering's method queue
    phase,       \* of each agent thread
    outbox,      \* methods pushed to each agent thread, not yet handled by the remote server
    declared,    \* has the agent's private queue been declared at the remote server?
    remote,      \* bindings of that private queue
    received,    \* history: messages the remote server took, with the agent that sent them
    lost,        \* history: messages dropped
    stale,       \* history: an open-ok was handled after its agent thread was given up
    asked,       \* what the caller has asked to be bound
    calls        \* calls made, by kind

peering == <<enabled, connected, thread, bindings, messages, timer>>
agents == <<phase, outbox, declared, remote, received>>
vars == <<peering, agents, mailbox, lost, stale, asked, calls>>

Threads == 1 .. MaxThreads
NoThread == 0
Call == {"start", "stop", "bind", "unbind", "forward", "break"}
Phase == {"none", "setup", "confirmed", "active", "opening", "open", "stuck", "zombie"}
Alive == {"setup", "confirmed", "active", "opening", "open"}
Entry(o, a) == [op |-> o, arg |-> a]

\* The messages among the entries of a mailbox or an outbox.
Published(s) == {s[i].arg : i \in {j \in DOMAIN s : s[j].op = "publish"}}

Init ==
    /\ enabled = FALSE /\ connected = FALSE /\ thread = NoThread
    /\ bindings = <<>> /\ messages = <<>> /\ timer = FALSE
    /\ mailbox = <<>>
    /\ phase = [n \in Threads |-> "none"]
    /\ outbox = [n \in Threads |-> <<>>]
    /\ declared = [n \in Threads |-> FALSE]
    /\ remote = [n \in Threads |-> {}]
    /\ received = <<>> /\ lost = {} /\ stale = FALSE
    /\ asked = {}
    /\ calls = [c \in Call |-> 0]

-----------------------------------------------------------------------------
(* The caller: amq_federation or amq_failover                              *)

Called(c) == calls' = [calls EXCEPT ![c] = @ + 1]
Post(o, a) == Len(mailbox) < MaxMailbox /\ mailbox' = Append(mailbox, Entry(o, a))

PostStart ==
    /\ calls["start"] < MaxStarts /\ calls["start"] = calls["stop"]
    /\ Called("start")
    /\ Post("start", NoThread)
    /\ UNCHANGED <<peering, agents, lost, stale, asked>>

PostStop ==
    /\ calls["stop"] < MaxStops /\ calls["stop"] < calls["start"]
    /\ Called("stop")
    /\ Post("stop", NoThread)
    /\ UNCHANGED <<peering, agents, lost, stale, asked>>

PostBind(k) ==
    /\ calls["bind"] + calls["unbind"] < MaxBinds
    /\ Called("bind")
    /\ asked' = asked \cup {k}
    /\ Post("bind", k)
    /\ UNCHANGED <<peering, agents, lost, stale>>

PostUnbind(k) ==
    /\ calls["bind"] + calls["unbind"] < MaxBinds /\ k \in asked
    /\ Called("unbind")
    /\ asked' = asked \ {k}
    /\ Post("unbind", k)
    /\ UNCHANGED <<peering, agents, lost, stale>>

PostForward ==
    /\ calls["forward"] < MaxForwards
    /\ Called("forward")
    /\ Post("publish", calls["forward"] + 1)
    /\ UNCHANGED <<peering, agents, lost, stale, asked>>

-----------------------------------------------------------------------------
(* Handlers of the peering                                                 *)

Take(o) ==
    /\ mailbox # <<>> /\ Head(mailbox).op = o
    /\ mailbox' = Tail(mailbox)

\* A push to no thread, or to one that has ended, returns -1 and drops the methods.
Push(n, entries) ==
    IF n = NoThread \/ phase[n] = "zombie"
    THEN lost' = lost \cup Published(entries) /\ UNCHANGED outbox
    ELSE outbox' = [outbox EXCEPT ![n] = @ \o entries] /\ UNCHANGED lost

HandleStart ==
    /\ Take("start")
    /\ enabled' = TRUE /\ timer' = TRUE
    /\ UNCHANGED <<connected, thread, bindings, messages, agents, lost, stale, asked, calls>>

HandleStop ==
    /\ Take("stop")
    /\ enabled' = FALSE
    /\ UNCHANGED <<connected, thread, bindings, messages, timer, agents, lost, stale, asked, calls>>

\* s_binding_exists: the routing key and the arguments are in the list.
MutantKnown(k) == FALSE
Known(k) == Contains(bindings, k)

\* A binding that is new is sent if the link is up, and kept to be replayed.
PushBind(k) ==
    IF connected THEN Push(thread, <<Entry("bind", k)>>) ELSE UNCHANGED <<outbox, lost>>

HandleBind ==
    /\ Take("bind")
    /\ LET k == Head(mailbox).arg IN
       IF Known(k)
       THEN UNCHANGED <<bindings, outbox, lost>>
       ELSE PushBind(k) /\ bindings' = Append(bindings, k)
    /\ UNCHANGED <<enabled, connected, thread, messages, timer, phase, declared, remote, received,
                   stale, asked, calls>>

\* The code asserts that the binding is there (aborting the broker otherwise).
HandleUnbind ==
    /\ Take("unbind")
    /\ LET k == Head(mailbox).arg IN
       /\ Known(k)
       /\ IF connected THEN Push(thread, <<Entry("unbind", k)>>) ELSE UNCHANGED <<outbox, lost>>
       /\ bindings' = RemoveFirst(bindings, k)
    /\ UNCHANGED <<enabled, connected, thread, messages, timer, phase, declared, remote, received,
                   stale, asked, calls>>

\* A message is held only while the peering believes the link is down.
MutantHold(c) == Push(thread, <<Entry("publish", c)>>) /\ messages' = Append(messages, c)
MutantPushEarly(c) ==
    IF thread # NoThread
    THEN Push(thread, <<Entry("publish", c)>>) /\ UNCHANGED messages
    ELSE messages' = Append(messages, c) /\ UNCHANGED <<outbox, lost>>
HoldOrPush(c) ==
    IF connected
    THEN Push(thread, <<Entry("publish", c)>>) /\ UNCHANGED messages
    ELSE messages' = Append(messages, c) /\ UNCHANGED <<outbox, lost>>

HandleForward ==
    /\ Take("publish")
    /\ HoldOrPush(Head(mailbox).arg)
    /\ UNCHANGED <<enabled, connected, thread, bindings, timer, phase, declared, remote, received,
                   stale, asked, calls>>

\* connection.open-ok: open channel 1 on whatever agent thread there is now.
HandleConnectionOpenOk ==
    /\ Take("connection_open_ok")
    /\ stale' = (stale \/ Head(mailbox).arg # thread)
    /\ Push(thread, <<Entry("channel_open", NoThread)>>)
    /\ UNCHANGED <<peering, phase, declared, remote, received, asked, calls>>

\* What s_initialise_peering sends: the private queue and the exchange, then
\* every binding, then every message held, oldest first.
MutantReplayOrder ==
    <<Entry("declare", NoThread)>>
    \o [i \in DOMAIN bindings |-> Entry("bind", bindings[i])]
    \o [i \in DOMAIN messages |-> Entry("publish", messages[Len(messages) + 1 - i])]
Replay ==
    <<Entry("declare", NoThread)>>
    \o [i \in DOMAIN bindings |-> Entry("bind", bindings[i])]
    \o [i \in DOMAIN messages |-> Entry("publish", messages[i])]

\* channel.open-ok: s_initialise_peering, unless the peering believes it is connected.
HandleChannelOpenOk ==
    /\ Take("channel_open_ok")
    /\ stale' = (stale \/ Head(mailbox).arg # thread)
    /\ IF connected
       THEN UNCHANGED <<connected, messages, outbox, lost>>
       ELSE /\ connected' = TRUE /\ messages' = <<>>
            /\ Push(thread, Replay)
    /\ UNCHANGED <<enabled, thread, bindings, timer, phase, declared, remote, received, asked, calls>>

-----------------------------------------------------------------------------
(* The monitor event: once a second, ahead of the methods in the mailbox   *)

\* s_terminate_peering: a live agent is told to close; the peering is disconnected.
MutantDisconnected == connected
Disconnected == FALSE

MonitorTerminate ==
    /\ timer /\ thread # NoThread
    /\ ~enabled \/ phase[thread] = "zombie"
    /\ Push(thread, <<Entry("close", NoThread)>>)
    /\ thread' = NoThread /\ connected' = Disconnected
    /\ UNCHANGED <<enabled, bindings, messages, timer, mailbox, phase, declared, remote, received,
                   stale, asked, calls>>

MutantMayConnect == enabled /\ \A n \in Threads : phase[n] = "none"
MayConnect == enabled

MonitorConnect ==
    /\ timer /\ thread = NoThread /\ MayConnect
    /\ \E n \in Threads :
         /\ phase[n] = "none" /\ \A m \in 1 .. (n - 1) : phase[m] # "none"
         /\ phase' = [phase EXCEPT ![n] = "setup"]
         /\ thread' = n
    /\ UNCHANGED <<enabled, connected, bindings, messages, timer, mailbox, outbox, declared, remote,
                   received, lost, stale, asked, calls>>

-----------------------------------------------------------------------------
(* Agent threads and the remote server                                     *)

\* The connection is over at both ends: what the remote server has not handled, and
\* the private queue, are gone.
Ends(n) ==
    /\ phase' = [phase EXCEPT ![n] = "zombie"]
    /\ outbox' = [outbox EXCEPT ![n] = <<>>]
    /\ declared' = [declared EXCEPT ![n] = FALSE]
    /\ remote' = [remote EXCEPT ![n] = {}]
    /\ lost' = lost \cup Published(outbox[n])

\* The agent's input thread reads connection.open-ok and passes it to the peering
\* first, then to the agent's connection thread, whose login ends with it.
AgentOpens(n) ==
    /\ phase[n] = "setup"
    /\ phase' = [phase EXCEPT ![n] = "confirmed"]
    /\ mailbox' = Append(mailbox, Entry("connection_open_ok", n))
    /\ UNCHANGED <<peering, outbox, declared, remote, received, lost, stale, asked, calls>>

AgentActive(n) ==
    /\ phase[n] = "confirmed"
    /\ phase' = [phase EXCEPT ![n] = "active"]
    /\ UNCHANGED <<peering, outbox, declared, remote, received, mailbox, lost, stale, asked, calls>>

\* The remote server confirms the channel.
AgentChannelOpens(n) ==
    /\ phase[n] = "opening"
    /\ phase' = [phase EXCEPT ![n] = "open"]
    /\ mailbox' = Append(mailbox, Entry("channel_open_ok", n))
    /\ UNCHANGED <<peering, outbox, declared, remote, received, lost, stale, asked, calls>>

\* The connection is refused, times out or breaks: the agent thread ends and destroys
\* its socket.  Of an open channel, what it had written is still on its way.
Break(n) ==
    /\ phase[n] \in Alive /\ calls["break"] < MaxBreaks
    /\ Called("break")
    /\ IF phase[n] = "open"
       THEN /\ phase' = [phase EXCEPT ![n] = "zombie"]
            /\ UNCHANGED <<outbox, declared, remote, lost>>
       ELSE Ends(n)
    /\ UNCHANGED <<peering, mailbox, received, stale, asked>>

\* The remote server notices the end of the connection, and reads no more of what the
\* agent had written, or had been given and not written.
RemoteEnds(n) ==
    /\ phase[n] = "zombie" /\ (outbox[n] # <<>> \/ declared[n])
    /\ Ends(n)
    /\ UNCHANGED <<peering, mailbox, received, stale, asked, calls>>

Sent(n) == outbox' = [outbox EXCEPT ![n] = Tail(@)]

\* During the login only a close is expected; any other method is an event the
\* state machine does not know, and the thread never runs again.
AgentStuck(n) ==
    /\ outbox[n] # <<>> /\ phase[n] \in {"setup", "confirmed"} /\ Head(outbox[n]).op # "close"
    /\ phase' = [phase EXCEPT ![n] = "stuck"]
    /\ UNCHANGED <<peering, outbox, declared, remote, received, mailbox, lost, stale, asked, calls>>

\* The peering closes the connection, or opens a channel that is open already.
AgentCloses(n) ==
    /\ outbox[n] # <<>> /\ phase[n] \in Alive
    /\ \/ Head(outbox[n]).op = "close"
       \/ Head(outbox[n]).op = "channel_open" /\ phase[n] \in {"opening", "open"}
    /\ Ends(n)
    /\ UNCHANGED <<peering, received, mailbox, stale, asked, calls>>

AgentOpensChannel(n) ==
    /\ outbox[n] # <<>> /\ phase[n] = "active" /\ Head(outbox[n]).op = "channel_open"
    /\ phase' = [phase EXCEPT ![n] = "opening"]
    /\ Sent(n)
    /\ UNCHANGED <<peering, declared, remote, received, mailbox, lost, stale, asked, calls>>

\* A method pushed while the channel is not open is discarded.
AgentDiscards(n) ==
    /\ outbox[n] # <<>> /\ phase[n] \in {"active", "opening"}
    /\ Head(outbox[n]).op \in {"declare", "bind", "unbind", "publish"}
    /\ Sent(n)
    /\ lost' = lost \cup Published(<<Head(outbox[n])>>)
    /\ UNCHANGED <<peering, phase, declared, remote, received, mailbox, stale, asked, calls>>

\* The remote server declares the private queue, binds and unbinds it, and takes
\* messages, also those that an agent now gone has written.  A bind or unbind with no
\* queue declared closes the channel.
RemoteHandles(n) ==
    /\ outbox[n] # <<>> /\ phase[n] \in {"open", "zombie"}
    /\ Sent(n)
    /\ LET e == Head(outbox[n]) IN
       \/ /\ e.op = "declare"
          /\ declared' = [declared EXCEPT ![n] = TRUE]
          /\ UNCHANGED <<phase, remote, received>>
       \/ /\ e.op \in {"bind", "unbind"} /\ declared[n]
          /\ remote' = [remote EXCEPT ![n] = IF e.op = "bind" THEN @ \cup {e.arg} ELSE @ \ {e.arg}]
          /\ UNCHANGED <<phase, declared, received>>
       \/ /\ e.op \in {"bind", "unbind"} /\ ~declared[n] /\ phase[n] = "open"
          /\ phase' = [phase EXCEPT ![n] = "active"]
          /\ UNCHANGED <<declared, remote, received>>
       \/ /\ e.op = "publish"
          /\ received' = Append(received, [id |-> e.arg, by |-> n])
          /\ UNCHANGED <<phase, declared, remote>>
    /\ UNCHANGED <<peering, mailbox, lost, stale, asked, calls>>

-----------------------------------------------------------------------------
Caller ==
    \/ PostStart \/ PostStop \/ PostForward
    \/ \E k \in Keys : PostBind(k) \/ PostUnbind(k)

Handle ==
    \/ HandleStart \/ HandleStop \/ HandleBind \/ HandleUnbind \/ HandleForward
    \/ HandleConnectionOpenOk \/ HandleChannelOpenOk

Monitor == MonitorTerminate \/ MonitorConnect

Agent(n) ==
    \/ AgentOpens(n) \/ AgentActive(n) \/ AgentChannelOpens(n) \/ AgentStuck(n) \/ AgentCloses(n)
    \/ AgentOpensChannel(n) \/ AgentDiscards(n) \/ RemoteHandles(n)

Next ==
    \/ Caller \/ Handle \/ Monitor
    \/ \E n \in Threads : Agent(n) \/ Break(n) \/ RemoteEnds(n)

Spec == Init /\ [][Next]_vars

\* Every thread runs and the timer fires; links need not break, callers need not call.
FairSpec ==
    /\ Spec
    /\ WF_vars(Handle) /\ WF_vars(Monitor)
    /\ \A n \in Threads : WF_vars(Agent(n))

-----------------------------------------------------------------------------
(* Properties                                                              *)

MailEntry ==
    {Entry(o, NoThread) : o \in {"start", "stop"}}
    \cup {Entry(o, k) : o \in {"bind", "unbind"}, k \in Keys}
    \cup {Entry("publish", c) : c \in 1 .. MaxForwards}
    \cup {Entry(o, n) : o \in {"connection_open_ok", "channel_open_ok"}, n \in Threads}
OutEntry ==
    {Entry(o, NoThread) : o \in {"channel_open", "declare", "close"}}
    \cup {Entry(o, k) : o \in {"bind", "unbind"}, k \in Keys}
    \cup {Entry("publish", c) : c \in 1 .. MaxForwards}

\* The fields of the peering, its mailbox, the agents and the remote server's
\* view keep their types.
TypeOK ==
    /\ {enabled, connected, timer, stale} \subseteq BOOLEAN
    /\ thread \in Threads \cup {NoThread}
    /\ bindings \in Seq(Keys) /\ IsInjective(bindings)
    /\ messages \in Seq(1 .. MaxForwards)
    /\ mailbox \in Seq(MailEntry)
    /\ phase \in [Threads -> Phase]
    /\ outbox \in [Threads -> Seq(OutEntry)]
    /\ declared \in [Threads -> BOOLEAN]
    /\ remote \in [Threads -> SUBSET Keys]
    /\ received \in Seq([id : 1 .. MaxForwards, by : Threads])
    /\ lost \subseteq 1 .. MaxForwards
    /\ asked \subseteq Keys
    /\ calls \in [Call -> Nat]

\* The link is up, as both ends see it, and nothing is under way on it.
Settled ==
    /\ connected /\ thread # NoThread
    /\ phase[thread] \in {"active", "open"} /\ outbox[thread] = <<>>
    /\ \A i \in DOMAIN mailbox : mailbox[i].op \notin {"connection_open_ok", "channel_open_ok"}

Agrees == phase[thread] = "open" /\ declared[thread] /\ remote[thread] = ToSet(bindings)

\* When the link is up and nothing is under way, the remote queue is bound exactly
\* as the peering's list says, after any sequence of binds, unbinds, breaks and
\* reconnections (amq_peering.icl:346-355, 390-404, 649-656), unless the peering has
\* handled an open-ok of an agent thread it had already given up.
BindingsAgree == Settled /\ ~stale => Agrees

InTransit(n) == Published(outbox[n])
Arrived == {received[i].id : i \in DOMAIN received}

\* A message the peering has handled is in exactly one place: held, on its way
\* through one agent, received once, or dropped (amq_peering.icl:440-447, 657-662).
OnePlace ==
    LET places == [c \in 1 .. MaxForwards |->
            {<<"held", i>> : i \in {j \in DOMAIN messages : messages[j] = c}}
            \cup {<<"received", i>> : i \in {j \in DOMAIN received : received[j].id = c}}
            \cup {<<"mailbox", i>> : i \in {j \in DOMAIN mailbox : mailbox[j] = Entry("publish", c)}}
            \cup {<<n, i>> : n \in {m \in Threads : c \in InTransit(m)}, i \in {0}}
            \cup {<<"lost", i>> : i \in {j \in {0} : c \in lost}}]
    IN \A c \in 1 .. calls["forward"] : Cardinality(places[c]) = 1

\* The remote server receives the messages of one connection in the order they were
\* forwarded, across the switch from held to sent (amq_peering.icl:657-662); and whatever
\* comes over a connection was forwarded before all that comes over a later one, although
\* it may arrive after it.
ReceivedInOrder ==
    \A i, j \in DOMAIN received :
        received[i].by < received[j].by \/ (received[i].by = received[j].by /\ i < j)
            => received[i].id < received[j].id

\* Nothing is dropped unless a connection broke or was closed (amq_peering.icl:440-447).
DropsNeedBreak == lost # {} => calls["break"] > 0 \/ calls["stop"] > 0

\* The agent thread was told to open a channel before its login had ended.
Stuck == thread # NoThread /\ phase[thread] = "stuck"

\* All the connection attempts the bound allows were made, and the last has ended.
Exhausted == thread = NoThread /\ \A n \in Threads : phase[n] # "none"

\* A peering that stays enabled ends up connected, with its bindings in force and no
\* message held: the monitor reconnects after every break (amq_peering.icl:573-596).
\* The two exceptions are an untimely open-ok and an agent thread that is stuck; the third
\* is the bound on connection attempts.
Recovers ==
    <>[]enabled => <>[](stale \/ Stuck \/ Exhausted \/ (Settled /\ Agrees /\ messages = <<>>))

=============================================================================
