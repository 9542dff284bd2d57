# OpenAMQ broker: TLA+ verification project

Models of the OpenAMQ message broker (`src/server`) and of the kernel that runs its
threads (`src/tooling/base2/smt`), checked with TLC on small instances. The safety
properties of the delivery core, the failover pair, the peering, the exchange (with
its refinement of a routing table) and the kernel are also proved with TLAPS, for
every value of the constants.

## The system

OpenAMQ is a C server generated from object descriptions (`.icl`), protocol
descriptions (`.asl`) and a threading library (SMT). An SMT object declared with
"async function" methods has a *method queue*: a call posts a message
(`smt_method_send`) and the object's thread handles one message at a time, in the
order posted. Queues, exchanges, channels and connections are such objects.
Methods of kind "function" run in the caller's thread under the object's lock, or
under no lock at all.

| Component | State | Operations | Talks to |
|---|---|---|---|
| `amq_queue_basic` (delivery engine) | `content_list`, `consumer_list`, delivery tag | publish, dispatch, get, purge, consumer ack, cancel, stop | spends channel credit, hands contents to connection threads, posts channel cancels |
| `amq_queue` (the queue object) | `locked`, `feed_on`, auto-delete timer, limits | asynchronous wrappers of the above, consume, self destruct, auto-delete event | broker tables, console |
| `amq_server_channel`, `amq_consumer` | `active`, `credit`, per-channel consumer list; `paused`, `pending_content` | consume, cancel, ack, flow, earn, destroy | posts to queues; earn is called by the connection's thread |
| `amq_exchange*`, `amq_binding` | bindings, key hash, index, queue sets | bind, unbind, publish, per-type compile and match | posts publish to queues, forwards to the federation |
| `amq_broker`, `amq_queue_connection`, `amq_connection_queue` | tables of queues and exchanges, exclusive queues of a connection | declare, delete, unbind all | all of the above |
| `amq_failover` | FSM state, time the peer was last heard | send state, execute, monitor event | a peering to the other server; `connection.open` |
| `amq_peering` | connected, bindings to replay, held messages | start, stop, bind, unbind, forward, monitor event | a peer agent thread to another server |
| `amq_federation` | a peering for one exchange | bindings and messages forwarded | exchange, peering |
| SMT kernel (`smt_thread`, `smt_os_thread`, ...) | status, method queue and requests of each thread; thread queue, waiting list, status and pipe of each OS thread; count of active OS threads | send a method, raise a signal, wake, run, block, shut down | runs every agent above |
| `amq_lease` | the thread that uses a direct-mode lease | acquire, sink | queue or exchange |
| console, RestMS resources, configuration, client API, Zyre, shell | management and access | | |

What is hard here:

* four threads touch a delivery (queue, channel, connection, exchange), and the
  credit counter and the consumer's `paused` flag are shared without a lock;
* a consumer is in two lists kept by two threads, and its cancel crosses them;
* the cancel of a consumer runs a dispatch inside itself;
* flow state and "no consumers left" are read by one handler and used by a later one;
* two servers decide which of them serves, on notifications that may be old;
* an exchange keeps the same bindings in a list, a hash, bitmaps, per-queue lists and
  the parent server, and a publish trusts bitmaps computed long before;
* the kernel has no lock around "nothing to do, so sleep": a caller and an OS thread
  settle it by swapping status words, and each swap can go either way.

What makes the parts correct: no content is in two places, and one that no client has
been given does not disappear unless the broker decides so; first deliveries keep the
order of arrival; a queue at rest has nothing it could deliver; a credit is never spent
that is not there; limits bound the queue; cancels and self-destructs finish; two servers never both refuse
applications, and one takes over from a dead one; an exchange routes as its table of
bindings says; no wake-up of a thread or of an OS thread is lost, every method is
handled in order, and a shutdown comes to an end.

## Modules

| Module | Models |
|---|---|
| `QueueBasic` | one queue, its consumers, their channels and connections |
| `MCQueueBasic` | instances for TLC: two consumers, each with a channel of its own or both on one |
| `QueueBasic_proofs` | proves `TypeOK`, `SpendCovered`, `LimitsHold` |
| `QueueOrder_proofs` | proves `StrictOrder`, `OneHome` with `UnsentKept`, `NoLostWakeup` |
| `Failover` | the pair of servers of `amq_failover` |
| `MCFailover` | the pair as model values |
| `Failover_proofs` | proves `TypeOK`, `NoDualSlaves` |
| `Peering` | a peering, its agent threads and the remote server's side of the link |
| `MCPeering` | one binding, two messages, a break and a restart |
| `Peering_proofs` | proves `TypeOK`, `ReceivedInOrder`, `OnePlace`, `BindingsAgree`, `DropsNeedBreak` |
| `TopicMatch` | topic patterns and what they match |
| `RoutingTable` | what an exchange promises: the abstract specification |
| `Exchange` | an exchange of any type, its bindings, their removal and its federation; implements `RoutingTable` |
| `MCExchange` | each exchange type with a federation type, two queues; the word-by-word reading of a topic pattern |
| `Exchange_proofs` | proves `TypeOK`, `IndexLive`, `ListsAgree`, `UpstreamAgrees`, `AssertionHolds` and the refinement `ImplementsTable` |
| `Scheduler` | the multithreaded SMT kernel |
| `MCScheduler` | instances of it |
| `Scheduler_proofs` | proves `CountExact` |
| `SchedulerWake_proofs` | proves `TypeOK`, `NoLostThread`, `NoLostWakeup`, `QuietAtZero`, `MethodsOrdered` |
| `SequenceLemmas` | what the proofs share: induction over a loop's rounds, facts about sequences |

### QueueBasic

State. `mailbox` is the queue's method queue. `content_list`, `consumer_list`,
`locked` and `timers` are the queue's own fields. `step`, `hand`, `chosen` and
`cancelling` say where the queue's thread stands inside a handler: the dispatch
loop is split into `DispatchFind` (pop a content and look for a consumer, reading
each channel's flow and credit) and `DispatchDeliver` (spend, hold, send), so the
other threads run between the test and the use. `pending` and `paused` belong to
consumers; `active`, `credit`, `conn`, `flow_queue`, `earning`, `by_channel` and
`chan_cancel` to channels. `accepted`, `sent`, `settled` and `lost` are history:
which contents arrived, were given to a client, were disposed of by a decision
(acknowledged, purged, trimmed, returned...), or were let go of without one.

Actions.

* Clients and exchanges: `PostPublish`, `PostGet`, `PostPurge`, `PostDelete`.
* Channel thread: a consume is `ChannelConsume` (creates the consumer, sets the credit
  to the window), `ChannelFindsZero` and `ChannelJoins` (reads the credit again, sets
  one it has found zero to 1, and posts the consume with the flow it read), with the
  queue's thread spending in between (`crediting` says how far it is). Then
  `ChannelCancel`, `ChannelCancelled` (the cancel a queue posts), `ChannelAck`,
  `ChannelFlow`, `ChannelDestroy`, `ChannelUnlink`.
* Connection thread: `SendContent` (one content leaves the flow queue and the credit
  is incremented) and `EarnTest` (the counter is read again, and at exactly 1 every
  queue of the channel is told to dispatch). They are two steps, as in the code.
* Queue thread: one `Handle...` action per method, `CancelFinish` after the cancel's
  nested dispatch, `AutoDeleteEvent`, and `StopConsumer`/`StopFinish` for the
  self-destruct, which pops consumers one at a time.

The code lets go of a content without a decision in four places, and the model does the
same: a delivery to a connection that has died (l.361), a get from one (l.443), a delivery
to a consumer that still holds another content (l.367), and the dispatch inside a cancel
that gives the returned content back to the cancelled consumer (l.111). `lost` collects
them all, so `OneHome` by itself says that no content is *duplicated*; that a content
survives until a client has been given it, or a connection has died, is `UnsentKept`.
What a client has been given once may be let go of unacknowledged: no property promises
that it is kept, because the code does not keep it.

A content is an arrival number and its producer. Names, tags, sizes, statistics
and the console are left out. A channel has its own connection.

### Failover

Each server has the FSM state, `silent` (the peer was last heard longer ago than
the timeout), `deciding` (a connection thread found the peer silent and has yet to
set the state: `amq_failover_execute` holds no lock), `linked` and `inbox` (the
peering that carries the other's notifications, in order) and the number of
starts. `steady` says that the network has settled: links break and running peers go
unheard only before (`Settle`). A crash loses the process's state and any suffix of
what it had sent; what the peer's peering object has already queued is still handled.
The two `assert (0)` on two masters and two slaves end the process.

Nothing is persisted in this broker, so a restart is a fresh start.

### Peering

`enabled`, `connected`, `thread`, `bindings` and `messages` are the fields of
`amq_peering`, `mailbox` its method queue; the monitor event is not in the mailbox,
because the timer posts it with high priority and it may overtake what is there.
Each connection attempt is an agent thread with a `phase` and an `outbox` of the
methods pushed to it. `declared` and `remote` are what the remote server keeps for
that connection: the private queue and its bindings, gone with the connection.
`received` (each message with the connection it came over) and `lost` are history; so is
`stale`, which records that an open-ok was
handled after its agent thread had been given up.

Actions: `Post...` are the calls of a federation or failover agent, `Handle...` the
peering's methods, `MonitorTerminate` and `MonitorConnect` the two branches of the
monitor event, `Agent...` and `RemoteHandles` the life of a connection, `Break` its
loss. The agent's two threads are told of the login's end in two steps (`AgentOpens`,
`AgentActive`), as in the code. `Break` is what this end of the connection sees: the agent
thread ends and the monitor may begin the next connection, while what was written to an
open channel is still on its way. The remote server handles it late (`RemoteHandles`),
beside what a newer connection brings, until it notices the end (`RemoteEnds`), with which
the rest is gone. A refused or unfinished login, and a close that the agent sends, end both
sides at once: nothing but the login has been written on the former, and the latter is read
in order. Sending and remote handling are one step: the network only delays, or drops
everything that follows. Messages that the remote server sends
back go straight to the caller's callback, and are left out, as are hard errors of
the remote server, which shut the broker down.

### RoutingTable and Exchange

`RoutingTable` has two variables of substance: the set of triples (queue, key,
arguments) that are bound, and the last message with the queues it went to. `MayReach`
is the set of queues with a binding that asks for the message. The code promises less
than that every one of them gets it, and `MustReach` says exactly how much less: a
direct key or a fanout exchange bound with several sets of arguments, and a wildcard
whose topic was once bound by its plain name, are the cases where a queue may be missed.

`Exchange` is the code: bindings by number (`binding`, `binding_list`), the hash by
routing key, the per-queue lists that unbind and delete start from, the index of the
topic, regexp and headers types with its bitmaps (`indexed`, `bindset`), and
`upstream`, the bindings the federation's peering holds. The peering's calls are
inlined: they are handled in the order they are posted, and only the order of binds and
unbinds matters here. Connection threads look a queue up (`Search`) and post later; the
broker's deletion runs in between. One handler per method: `HandleBind` (with the
type's compile), `HandleUnbind`, `HandleDelete`, `HandlePublish` (with the type's
match). `ImplementsTable` is the refinement: `bound` is read off the queue sets of the
live bindings, the other variables map to themselves, and a step that changes neither
(a look-up, a post, a deletion ordered) is a stutter.

Topic matching is an operator on sequences of words (`TopicMatches`), as the regular
expression the code builds works: a part of the key for each word of the pattern. The
words are of letters, digits and underscores, which `\w` matches; the code's own meaning
of `#`, after a dot that stays in the expression, is kept. `MCExchange` has a second
reading, recursive and word by word, in which `*` is one level and `#` is "zero or more
levels" as the comment at `amq_exchange_topic.icl:204` says. Under it a queue gets no
message it should not (`NoStrayMessage`); that it misses those of the bare prefix is
among the behaviours listed below. What a regular expression given by a client matches
is a parameter, since a library decides it. A headers match is modelled by its hit
counts. Left out: the system exchange (it calls back into the
server and keeps no state), delivery to a direct-mode lease, the management objects,
and the channel error of a service exchange that mixes exclusive and shared queues. A
full index and a binding's invalid arguments are assertions in the code
(`ipr_index.icl:62`, `amq_binding.icl:108`) that stop the server, so a bind that fails to
compile leaves no state behind and is no action. A headers table names each field once:
`HeaderKeys` is a set where the code counts, and the two agree under this assumption only.

### Scheduler

The generated C of the kernel is in the repository (`smt_*.c`), and the model follows
it in its multithreaded build. A thread has a `status` (newborn, sleeping, waiting,
pending, active, zombie), the queue callers post to and the list its methods are
collected into by priority, one blocking request at most, and the flags a signal or a
shutdown sets. An OS thread has the locked `thread_queue` others put threads into, the
private `waiting_list` with its insertion point for high priorities, a `pipe` that
interrupts its poll, and a `pc` in `s_execute`. `active_count` is
`s_os_thread_active_count`, whose zero lets `smt_wait` return.

Callers are threads outside the model: `Send`, `RaiseSignal` and `ShutDown` begin a
call, and the wake that follows is one action per shared access (`WakeThread` for the
two compare-and-swaps of the thread's status, `QueueThread`, `WakeCount`, `WakeSwap`,
`WakeSignal`, `WakeUncount`, `WakePipe`). The OS thread's loop is cut at the same
grain: clear the queue, pop, publish the new status, clear again, commit or back out,
poll, wait, count in, swap, run. `Manager...` is the dialog manager the generator
writes into every agent, `Continue`, `Park`, `Sleep` and `Recheck` are
`smt_thread_continue`.

`smt_shut_down` is one call of many steps, kept as a list of jobs: the walk of the list of
new threads (`ShutDownWalk`), the flag and the wake of each thread it comes to
(`ShutDownNewborn` and the wake's own steps), then each OS thread (`ShutDownOSThread`),
then leaving the count. The walk is of the live list, in order of `Birth`: it takes the
successor of its cursor before it looks at the cursor, and if an OS thread has adopted the
cursor meanwhile it goes on in that OS thread's list, where every thread is left alone, or
ends. The new threads it has not come to are then passed over: `missed` is the set of
them, and it can be non-empty at the end. A thread that an OS thread is just moving
between the lists may be flagged or not (`Between`). Agents
that are created while the engine shuts down are left out.

Steps that are merged, and why that is sound: what an OS thread does to its own lists
goes with the shared access before it; marking a popped thread active goes with the
pop, since the outcome of a caller's swap on it is the same before and after; the two
attempts on PENDING and NEWBORN are one step, since a thread gets from the one to the
other only through WAITING and ACTIVE, so that two failures could as well have been met
together there. OS threads share only the
count, so one OS thread meets every race; the specification allows any number.

No agent of the repository makes a monitor request, so the statuses POLLING and WAKING
of a thread and the waking list never occur and are left out. So are the main thread's
wait in `smt_wait` (`QuietAtZero` states what it relies on), the strategy that assigns
a newborn thread to an OS thread (any may be chosen), and file requests.

## Runs

| Run | Shows |
|---|---|
| `queue_acks` | shared queue, acknowledgements, cancels, closing channels: `TypeOK`, `OneHome`, `UnsentKept`, `StrictOrder`, `NoLostWakeup` |
| `queue_limits` | two consumers on one channel, trim limit with get, purge and returned contents: `SpendCovered`, `StrictOrder`, `LimitsHold` |
| `queue_auto` | private auto-deleted queue, drop and kill limits, timer: `LimitsHold`, `CancelCompletes`, `SelfDestructCompletes` |
| `queue_live` | fair threads with channel.flow, no-local, no-ack and immediate: `NoLostWakeup`, `CancelCompletes`, `NoStarvation` |
| `failover_pair` | crashes, restarts, races and a network that breaks links until it settles: `TypeOK`, `NoDualSlaves`, `Converges`, `TakesOver` |
| `peering_link` | binds, unbinds and messages over a link that breaks, stops and restarts: `TypeOK`, `BindingsAgree`, `OnePlace`, `ReceivedInOrder`, `DropsNeedBreak`, `Recovers` |
| `exchange_table` | every exchange type under binds, unbinds, deletions and publishes: `TypeOK`, `ListsAgree`, `UpstreamAgrees`, `AssertionHolds`, `IndexLive`, `ImplementsTable`, `NoStrayMessage` |
| `smt_wakeup` | two callers, two threads of different priority, a signal and a blocking request: `TypeOK`, `NoLostThread`, `NoLostWakeup`, `CountExact`, `MethodsOrdered`, `Served` |
| `smt_stop` | a shutdown, at any moment of a call and of the OS thread's loop, of two threads that may be adopted while their list is walked: `NoLostWakeup`, `QuietAtZero`, `Stops` |
| `failover_masters` | violated: `NoDualMasters` |
| `exchange_topic` | violated: `RoutesAll` |
| `smt_entry` | violated: `EntryListed` |

The violated runs state what the documentation or a comment says; each is a finding
in `PROJECT.json` with the line that says it.

Bounds. Two channels and two consumers are the least with which a round robin, a
busy consumer beside a free one, and a channel closing under another's delivery can
happen. Three contents let one be held, one be in hand and
one wait. `MaxMailbox` bounds only what clients add: what the broker posts to itself
always gets in, as in the code. `Window` is 1, the smallest the code allows
(`amq_server_channel.icl:149`), which makes every delivery exhaust it. A pair of
servers starts up to two times each, with two notifications in flight, which is enough
for a notification to outlive its sender; the proof needs no such bound. A peering
has one binding (bound, bound again or unbound), two messages, so that one can
overtake the other, and two connection attempts, enough to recover from a break or from
a stop and a restart; both may happen, and `Recovers` then asks for nothing once the
attempts are used up (`Exhausted`). Safety after any number of attempts is proved. Its
caller
posts to an empty mailbox only: the peering's agents are what it races with. An
exchange has two queues, three bindings at a time and four or five requests, enough for
a key to be bound with two sets of arguments, unbound, bound again and published; one of
the queues is deleted while a connection thread holds it. The kernel has one OS thread
with two threads: in `smt_wakeup` with two calls besides the signal and one blocking
request, so that a call can meet the OS thread at every point of its way to sleep, and a
second call the state the first leaves; in `smt_stop` with one call, the signal and the
shutdown, so that one thread can be adopted while the walk stands on it and the other be
passed over. `smt_stop` has no blocking request, which would make it too large; that
`NoLostWakeup` and `QuietAtZero` also hold with them is proved, and that the engine comes
to rest (`Stops`) is checked without them only. `smt_entry` needs three threads and four
calls.
Deadlock is not checked: when the bounded clients have nothing left to ask, a
server is at rest.

Fairness. `QueueBasic!FairSpec` lets every thread of the broker run (the SMT
scheduler is round robin and handlers do not block) and every connection send what
it was given; clients are never obliged to do anything. `Failover!FairSpec` adds
that timers fire, the peering's monitor retries each second, and applications that
cannot connect keep trying (the takeover is triggered by them). `Converges` asks that
the network has settled at some point and both servers stay up from some point on;
nothing is asked of what happened before. `Peering!FairSpec` lets the peering and each
agent thread run and the timer fire; breaks are bounded, so the link is eventually left
alone, and a remote server that is not down answers. `Scheduler!Spec` lets each OS thread and each
call that has begun go on, as the operating system does; no request of a thread has to
end (`Served` excepts a thread whose request never does), and no caller has to call.

## Proofs

Every theorem holds for any sets of queues, channels, consumers, threads, keys and
messages, and any limits and bounds, allowed by the assumption on the constants of its
module (`ConstantsAssumption`, `ExchangeAssumption`, `ThreadsAssumption` and the like),
which TLC evaluates in the runs. Each invariant is proved one action at a time.

### The queue

`TypeCorrect` and `SpendsCovered` come from one induction (`TypesAndSpend`). Types alone
are not inductive: `Spent` subtracts one from a credit, which stays a natural number only
because the channel chosen by `DispatchFind` still has credit when `DispatchDeliver`
comes. `SpendCovered` says so, and survives because the other threads only raise the
credit.

`OrderKept` proves `StrictOrder`. `OrderInv` adds that arrival numbers never exceed
`accepted` (`Numbered`), without which a new content could not be placed after the ones
given out, and states the order over the list, the content in hand and the set `sent`
(`Ordered`). Four lemmas say how the order survives the operations on the list: taking
the head, appending, pushing a content already given out, and giving out the one in
hand; each handler is a combination of them.

`OnePlacePerContent` proves `OneHome` and `UnsentKept`: no content is in two places, and
one that no client has been given is let go of only when a connection has died under it.
`HomeInv` states the places as sets of numbers: the list has no number twice
(`Distinct`), every number that arrived is in the list, in hand, in a consumer's slot or
closed (`Placed`), the first two and the closed are apart (`Apart3`), and so is each slot
from them and from the other slots (`SlotsApart`). The slot of the consumer being
cancelled is excepted: its content has gone back to the list, and the slot is emptied
only when the nested dispatch has ended. `lost` grows in three steps only (`LostStep`): a
get and a delivery let go of a fresh content only when a connection is dead, and what a
delivery replaces, or a cancel drops, has been sent.

`ListBounded` proves `LimitsHold`. A cancelled consumer may take the list one past a
limit, once. `LimitInv` counts the allowance where it is used up: the cancels in the
mailbox are of consumers that have left their channel (`Cancels` within `Gone`), each
once, and the list exceeds the limit by at most the number of consumers whose cancel has
been handled (`Within(Len(content_list), Done)`).

`WakeupsKept` proves the queue's `NoLostWakeup`, by two invariants. `JoinInv` follows a
consumer through its life: it is created once, waits once in the mailbox to join, with
its consume before its cancel, is listed once, and until its cancel is posted it stays in
its channel's own list, the list through which the channel wakes its queues. `WakeInv`
extends the property to every state: whoever is listed and takes the head of the list is
on the way to get it (`Heading`), because the loop runs, a dispatch is in the mailbox, a
consumer of its channel waits to join, a credit that has just become 1 is yet to be
tested, or it is leaving. The case that decides is a credit raised from 0 to 1 while the
queue's thread spends: the test sees another value than 1 only if something else has
raised or spent the credit, and each of these is another way to `Heading`.

The theorem has a hypothesis, `WakeSure`: no consumer asks for exclusive access, and there
are no gets or no no-local consumers. Both are needed, because the code does miss a
dispatch without them (the last list of this file, `amq_server_channel.icl:146` and
`amq_queue_basic.icl:442`). The runs `queue_acks` and `queue_live`, which check the same
property, satisfy it.

### The failover pair

`NeverBothPassive` proves `NoDualSlaves` for any number of starts and of notifications in
flight. Two passive servers are not excluded by the states alone: what decides is the
news still queued for each. A server *yields* if it is passive, or is pending with an
"active" somewhere in its queue. `FailoverInv` says that the two servers never both yield
(`OneYields`): an "active" is only sent by a server that is active, which does not yield
and can come to yield only through a restart that empties its queue. For that, a server
that is down has no link and an empty queue (`Clean`). `NotTold` covers the assertion on
a passive peer: no "passive" is queued behind the "active" that makes a server yield,
because its sender would have been yielding at the same time.

### The peering

`FlowInv` follows the messages: what was received or dropped, is on a connection, is held
by the peering and is still in its mailbox are in this order (`FlowOrder`), and each
message is in exactly one of these places (`FlowPlace`). It gives `OrderKept`
(`ReceivedInOrder`) and `OnePlaceEach` (`OnePlace`). A connection that has ended at this
end may still deliver beside a newer one, so the order in which messages *arrive* is kept
within a connection only; across connections `FlowOrder` says that all a connection sends,
or has sent (`Sends`), is older than all the next one sends. It holds because only the
youngest agent thread is ever given messages, and one not yet created has sent none
(`Latest`).

`LinkInv` follows the link: the current agent thread is in one of six stages of the login
(`Stage`), each with exactly the open-ok it has posted and the methods it was given, or
it has ended; once the peering is connected, the remote bindings will be the peering's
own after what is on the way has been handled (`Running`, `Bound`). It gives
`BindingsKept` (`BindingsAgree`), and, with `Calm`, that nothing is lost and no stale
open-ok comes up before a break or a stop, `DropsExplained` (`DropsNeedBreak`).

### The exchange

`TableInv` relates the ways to a binding: the list has each live binding once, the hash
at most one for each key, the per-queue lists only bindings with such a queue attached,
and the bitmaps only bits of live bindings. It gives `TypeCorrect` and `IndexKept`
(`IndexLive`). `UpInv` gives `UpstreamKept` and `AssertionKept`: a key that was bound with
one set of arguments only has its binding hashed (`HashComplete`), which is why the unbind
that is sent upstream finds what the bind has sent.

`TableImplemented` proves that the exchange implements `RoutingTable`, step by step. What
may be reached is sound because every bit is that of a binding which accepts the key
(`Sound`, `HeadersIndexed`), a compiled index being used long after it was filled. What must
be reached needs the bitmaps to be complete: every regular expression is in every
index it matches, a topic without wildcards has its own bit, an index of a topic that
was never bound has every wildcard that matches it (`RegexpIndexed`, `PlainIndexed`,
`WildIndexed`), and the wildcards are in front of the list, where the filling of a new index
stops (`WildFirst`).

`ListsKept` and `TableImplemented` have the hypothesis `DistinctNames`: no two queue
objects share a name. The list of bindings is kept by queue name, and the deletion of one
queue empties it for both, so that the bindings of the other are left without an entry.
A broker has two objects of one name only while a deleted queue is still known to a
connection thread; the runs have distinct names too.

### The kernel

`CountIsExact` proves that the count of active OS threads is what the statuses, the
program counters and the calls in progress say it is, each caller and each OS thread
contributing its weight (`CountInv`): a wake-up that two callers attempt is counted once.

`KernelInv` is one invariant for the rest. For every OS thread (`Good`): a thread is once
in its lists and only in those of its own OS thread, the one it runs is active, each
thread is where its status says (`Found`: a waiting thread is in a list or brought to one,
a sleeping thread with something to do is being rechecked or woken), and an OS thread that
is not active has work in its queue or a shutdown request only while a caller is on the
way to it, and sleeps or polls for good only with nobody about to signal or write
(`WakeSound`). For the callers: what they carry is brought home, a new thread is brought
to a single OS thread (`NewSound`), and after a shutdown has begun every thread knows of it,
will be told, or was missed by the walk (`StopSound`). For the walk that means: the new
threads born before its cursor are flagged or about to be (`Passed`), the rest are still
before it, and every OS thread is told after the walk (`JobsOrdered`), so that a thread
adopted in between is told by its OS thread. `WakeupsKept`, `ThreadsKept` and `RestAtZero`
follow from it; `RestAtZero` promises nothing of the threads in `missed`, which are really
left at rest and untold.

`OrderKept` proves `MethodsOrdered`. `MethodInv` says that the list of a thread is ordered by
priority and then by number, that its queue holds numbers in order and younger than those
of the list at the same priority, and that all are at most the number of calls. The loop
that collects the queue into the list is a recursive function; that it keeps this is
proved by induction over its rounds.

### Loops

What a handler computes in a loop is a recursive function or a set in the models, and the
theorems about such loops rest on `NatInd`: a set of natural numbers that has 0 and the
successor of each member is `Nat`. `RecExists` shows that the functions exist. The
library's own induction rules take an operator as a parameter, which the provers cannot
instantiate.

### Model-checked only

* Every liveness property (`CancelCompletes`, `SelfDestructCompletes`, `NoStarvation`,
  `Converges`, `TakesOver`, `Recovers`, `Served`, `Stops`): fairness and ENABLED are out of
  the prover's reach.
* `NoStrayMessage`: its reference reading of a pattern is a RECURSIVE operator.
  `TableImplemented` covers the same publish with the model's own matching.
* The three properties that are violated.

## Not modelled, and the plan

Done: the delivery core, the failover pair, the peering, the exchange with its routing
table and the kernel, with the safety properties of each proved.

Left, in this order:

1. A channel with consumers on several queues: credit shared by several queue
   threads, as a module of its own; consumer tags and their reuse.
2. Queue life cycle in the broker's tables: declare, delete, declare again while the
   old object is still handling methods; the exclusive queues of a connection.
3. Direct-mode leases; an abstract lossy, ordered link that `Peering` implements.

Out of scope: the console's statistics and XML, configuration, the generated
protocol dialogue and framing, regular-expression matching (a library), the client
API, the Zyre gateway (a separate process), load tests, and the generators
themselves.

Behaviour seen in the source and worth knowing, beyond the findings:

* `amq_queue_basic.icl:443`: a basic.get takes the content off the list before it finds
  the client's connection gone, and lets go of it then; so does a delivery (l.361) to a
  connection that dies after the consumer was chosen.
* `amq_queue_basic.icl:111`: the dispatch inside a cancel can give the content that was
  just returned "for redelivery" (l.109) back to the consumer being cancelled, which is
  still listed, and it is then released with that consumer (l.112).
* `amq_queue.icl:483`: any cancel unlocks the queue, also that of a consumer that was
  refused, so a second consumer can join an exclusive one.
* `amq_queue_basic.icl:442`: a basic.get that removes a head which blocked the dispatch
  leaves the contents behind it waiting until the next event of the queue.
* `amq_server_channel.icl:146`: a consume sets the channel's credit anew before the queue
  decides on the consumer. When the queue refuses it (it is taken exclusively, or has
  consumers and the new one asks for exclusive access) nothing is dispatched, and contents
  wait beside the channel's other consumers until the next event of the queue.
* `amq_peering.icl:631`: an open-ok handled after the monitor event has given its agent
  thread up sets `connected` with no thread; the next connection then replays no
  binding, though l.45 says the peering will. `BindingsAgree` excuses these states.
* `amq_server.asl:220`: a bind whose queue was deleted after the look-up binds the dead
  queue, and nothing unbinds it.
* `amq_exchange.icl:486`, `599`: a fanout bind drops the routing key and the unbind does
  not, so an unbind with a key finds nothing.
* `amq_exchange.icl:508`: a direct key bound with two sets of arguments is hashed to one
  of the two bindings; the other gets no messages, and an unbind may miss it. A fanout
  exchange serves only the first binding of its list (`amq_exchange_fanout.icl`).
* `amq_exchange_headers.icl:151`: a message whose headers table names a field twice is
  counted twice for it, and may match a binding that asks for two fields;
  `doc_tech-asl.txt:1631` says that only the first instance of a name counts.
* `amq_exchange_topic.icl:218`: the dot before `#` stays in the expression, so `a.#` does
  not cover `a`. The comment of l.204 says "zero or more levels", and the example at
  `doc_matching.txt:204` has a wildcard match the bare prefix.
* `smt_thread.c:1063`: a signal raised between the test and the change to PENDING is not
  looked at until the request ends.
* `smt_thread.c:1302`: the walk of the new threads reads the list without its lock, while
  OS threads take threads off it. When a thread is adopted while the walk stands on it,
  the new threads behind it are never told and rest for ever, though
  `smt_os_thread.icl:407` says that smt_shut_down requests "all threads to shut down".
  The model takes each read of the list for one step.
* `smt_os_thread.c:1712`: an OS thread told to shut down on its way to sleep leaves the
  count before it notices, so the count can pass through zero; `QuietAtZero` excepts it.
* A caller that has won a thread's status and not yet raised the count is not counted, so
  `smt_wait` may return although a thread has just been woken.

* `amq_queue_basic.icl:225`: the connection was unlinked, and so nulled, at l.184;
  the branch that kills the client of a private queue is never taken, and the queue
  destroys itself instead.
* `amq_queue_basic.icl:344`: the loop's condition is computed once, so a consumer that
  holds an unacknowledged content can be given another, which replaces the first: the
  broker forgets a content the client has not acknowledged.
* `amq_queue_basic.icl:110`: contents given back are pushed in the order of the
  cancels, so redeliveries can overtake each other; `StrictOrder` is therefore about
  first deliveries.
* `amq_queue.icl:430`: a consume handled after a channel.flow sets `paused` from the
  flow as it was when the consume was posted.
* `amq_server_channel.icl:145`: a second consumer resets the credit, so the contents
  in flight can exceed the window.
* `amq_failover.icl:180`: a pending primary that has taken applications keeps them when
  it becomes passive; `doc_clustering.txt:481` says they are disconnected.
* `asl_client_agent.gsl:1540`: the peering hears of a connection's open-ok before the
  agent's connection thread does; in a multithreaded build its channel.open may come
  too early, and the agent then hangs for ever (`Recovers` excepts this case).
* `amq_federation.icl:185`: a service federation passes on only exclusive bindings but
  unbinds every one, which fails the assertion at `amq_peering.icl:401`.
* `amq_peering.icl:298`: every start arms one more monitor timer, and none is cancelled.
* After a break, or a stop and a start, messages of the old connection may arrive after
  those of the new one; `ReceivedInOrder` is therefore about the arrivals of each
  connection, and about which messages each connection is given.
