------------------------------ MODULE Exchange ------------------------------
(***************************************************************************)
(* One exchange (amq_exchange, its type's class and amq_binding), the       *)
(* connection threads that look queues up and post to it, the broker that   *)
(* deletes queues, and what the exchange tells its federation.              *)
(*                                                                         *)
(* The exchange is an asynchronous object: mailbox is its method queue and  *)
(* one request is handled at a time.  A binding is known by its number in   *)
(* binding_index; 0 stands for no binding.                                  *)
(***************************************************************************)
EXTENDS TopicMatch, FiniteSets, FiniteSetsExt, SequencesExt

CONSTANTS
    Kinds,                \* pairs of an exchange type and a federation type to explore
    Threads,              \* connection threads
    Queues, NameOf,       \* queue objects, and the name each is declared under
    Exclusive,            \* the queues declared exclusive
    NoQueue,
    BindPairs,            \* for each type, the <<key, arguments>> clients bind and unbind
    Messages,             \* for each type, the messages published
    IndexKeys,            \* routing keys and header fields that can be indexed
    PcreMatches,          \* the pairs <<pattern, key>> that the regexp library matches
    MaxPosts,             \* bound: for each type, the requests posted
    MaxBindings, MaxDeletes, MaxMailbox   \* bounds: bindings, deletions, requests waiting

ASSUME ExchangeAssumption ==
    /\ NameOf \in [Queues -> {NameOf[q] : q \in Queues}]
    /\ Exclusive \subseteq Queues
    /\ NoQueue \notin Queues
    /\ {MaxBindings, MaxDeletes, MaxMailbox} \subseteq Nat
    /\ \A k \in Kinds :
        /\ k = <<k[1], k[2]>> /\ MaxPosts[k[1]] \in Nat
        /\ k[1] \in {"direct", "fanout", "topic", "regexp", "headers"}
        /\ \A p \in BindPairs[k[1]] : p = <<p[1], p[2]>>

VARIABLES
    extype, fedtype,  \* set when the exchange is created
    table,            \* the broker's queue_table
    declared,         \* queues created so far
    found,            \* the queue a connection thread has looked up and not yet used
    deletes,          \* the broker's method queue: queues to delete
    removed,          \* queues whose deletion the broker has handled
    mailbox,          \* the exchange's method queue
    posts, orders,    \* requests and deletions posted so far
    binding,          \* the bindings by number (binding_index)
    binding_list,     \* their numbers, in list order
    binding_hash,     \* the binding hashed under each routing key
    queue_bindings,   \* for each queue name, the bindings of the queue
    indexed, bindset, \* keys with an amq_index, and its bitmap of bindings
    upstream,         \* the bindings held by the federation's peering
    aborted,          \* an assertion has failed
    compiled,         \* history: the pairs <<key, arguments>> ever compiled
    routed            \* the last message published and where it went

outside == <<table, declared, found, deletes, removed, posts, orders>>
routes == <<binding, binding_list, binding_hash, queue_bindings, indexed, bindset,
            upstream, aborted, compiled>>
vars == <<extype, fedtype, outside, mailbox, routes, routed>>

Names == {NameOf[q] : q \in Queues}
Numbers == 1 .. MaxBindings
NoRoute == [message |-> <<>>, to |-> {}, up |-> FALSE, returned |-> FALSE]

NoBinding == [live |-> FALSE]
NewBinding(key, args, exclusive) ==
    [live |-> TRUE, key |-> key, args |-> args, exclusive |-> exclusive, queues |-> {}]

Live == {b \in Numbers : binding[b].live}
Pair(b) == <<binding[b].key, binding[b].args>>

\* The keys under which bindings are hashed.
BoundKeys == {Empty} \cup {p[1] : p \in BindPairs[extype]}

Init ==
    /\ \E k \in Kinds : extype = k[1] /\ fedtype = k[2]
    /\ table = [n \in Names |-> NoQueue]
    /\ declared = {}
    /\ found = [t \in Threads |-> NoQueue]
    /\ deletes = <<>>
    /\ removed = {}
    /\ mailbox = <<>>
    /\ posts = 0
    /\ orders = 0
    /\ binding = [b \in Numbers |-> NoBinding]
    /\ binding_list = <<>>
    /\ binding_hash = [k \in BoundKeys |-> 0]
    /\ queue_bindings = [n \in Names |-> <<>>]
    /\ indexed = {}
    /\ bindset = [k \in IndexKeys |-> {}]
    /\ upstream = {}
    /\ aborted = FALSE
    /\ compiled = {}
    /\ routed = NoRoute

-----------------------------------------------------------------------------
(***************************************************************************)
(* Connection threads and the broker.  A thread handling queue.bind or      *)
(* queue.unbind searches the queue table and then posts to the exchange:    *)
(* another thread may run in between.                                       *)
(***************************************************************************)
Declare(q) ==
    /\ ~aborted
    /\ q \notin declared
    /\ table[NameOf[q]] = NoQueue
    /\ table' = [table EXCEPT ![NameOf[q]] = q]
    /\ declared' = declared \cup {q}
    /\ UNCHANGED <<extype, fedtype, found, deletes, removed, mailbox, posts, orders, routes, routed>>

Search(t, n) ==
    /\ ~aborted
    /\ posts < MaxPosts[extype]
    /\ found[t] = NoQueue
    /\ table[n] # NoQueue
    /\ found' = [found EXCEPT ![t] = table[n]]
    /\ UNCHANGED <<extype, fedtype, table, declared, deletes, removed, mailbox, posts, orders, routes, routed>>

Post(request) ==
    /\ ~aborted
    /\ posts < MaxPosts[extype]
    /\ Len(mailbox) < MaxMailbox
    /\ mailbox' = Append(mailbox, request)
    /\ posts' = posts + 1
    /\ UNCHANGED <<extype, fedtype, table, declared, deletes, removed, orders, routes, routed>>

PostBind(t, p) ==
    /\ found[t] # NoQueue
    /\ found' = [found EXCEPT ![t] = NoQueue]
    /\ Post([op |-> "bind", queue |-> found[t], key |-> p[1], args |-> p[2]])

PostUnbind(t, p) ==
    /\ found[t] # NoQueue
    /\ found' = [found EXCEPT ![t] = NoQueue]
    /\ Post([op |-> "unbind", queue |-> found[t], key |-> p[1], args |-> p[2]])

PostPublish(m) ==
    /\ UNCHANGED found
    /\ Post([op |-> "publish", message |-> m])

\* A queue that destructs itself (queue.delete, auto-delete, a killed connection)
\* asks the broker to delete it; it may do so more than once.
SelfDestruct(q) ==
    /\ ~aborted
    /\ q \in declared
    /\ orders < MaxDeletes
    /\ deletes' = Append(deletes, q)
    /\ orders' = orders + 1
    /\ UNCHANGED <<extype, fedtype, table, declared, found, removed, mailbox, posts, routes, routed>>

BrokerDeleteQueue ==
    /\ ~aborted
    /\ deletes # <<>>
    /\ LET q == Head(deletes) IN
        /\ mailbox' = Append(mailbox, [op |-> "delete", queue |-> q])
        /\ table' = [table EXCEPT ![NameOf[q]] = IF @ = q THEN NoQueue ELSE @]
        /\ removed' = removed \cup {q}
    /\ deletes' = Tail(deletes)
    /\ UNCHANGED <<extype, fedtype, declared, found, posts, orders, routes, routed>>

-----------------------------------------------------------------------------
(***************************************************************************)
(* What the federation does when it is told of bindings: it adds to and     *)
(* removes from the bindings its peering holds for the parent.              *)
(***************************************************************************)
\* Every federation forwards the bindings of exclusive queues only.
MutantForwardsBinding(exclusive) ==
    fedtype \in {"subscriber", "fanout", "service"} /\ exclusive

ForwardsBinding(exclusive) ==
    fedtype \in {"subscriber", "fanout"} \/ (fedtype = "service" /\ exclusive)

\* Unbinds are forwarded by the federations that forward every bind.
MutantForwardsUnbinding == fedtype \in {"subscriber", "fanout"}

ForwardsUnbinding == fedtype \in {"subscriber", "fanout", "service"}

BindingCreated(key, args, exclusive) ==
    upstream' = upstream \cup (IF ForwardsBinding(exclusive) THEN {<<key, args>>} ELSE {})

\* amq_peering_unbind asserts that the binding it is asked to remove is there.
BindingsDestroyed(gone) ==
    /\ upstream' = IF ForwardsUnbinding THEN upstream \ {Pair(b) : b \in gone} ELSE upstream
    /\ aborted' = /\ ForwardsUnbinding
                  /\ \E b \in gone : \/ Pair(b) \notin upstream
                                     \/ \E c \in gone \ {b} : Pair(c) = Pair(b)

-----------------------------------------------------------------------------
(***************************************************************************)
(* Bind.                                                                    *)
(***************************************************************************)
IsWild(key) == extype = "topic" /\ IsWildcard(key)

Accepted(key, topic) ==
    IF extype = "regexp" THEN <<key, topic>> \in PcreMatches ELSE TopicMatches(key, topic)

\* A headers binding is indexed under its fields, or under a key that all messages hit.
MatchAll == <<"*">>
FieldKeys(args) == IF args.fields = {} THEN {MatchAll} ELSE args.fields

ASSUME IndexAssumption ==
    /\ {MatchAll, Blank, Empty} \subseteq IndexKeys
    /\ IndexKeys \subseteq Seq(STRING)
    /\ \A k \in Kinds :
        /\ \A p \in BindPairs[k[1]] :
            /\ k[1] = "topic" /\ ~IsWildcard(p[1]) => p[1] \in IndexKeys
            /\ k[1] = "headers" => p[2].fields \subseteq IndexKeys
        /\ k[1] \in {"topic", "regexp"} => \A m \in Messages[k[1]] : m.key \in IndexKeys

\* Arguments and headers are finite sets of pairs of a name and a value.  A name occurs
\* once in a message, so the number of its fields that hit is that of the keys that do.
ASSUME HeadersAssumption ==
    \A k \in Kinds : k[1] = "headers" =>
        /\ \A p \in BindPairs[k[1]] :
            /\ p[2].all \in BOOLEAN /\ IsFiniteSet(p[2].fields)
            /\ \A f \in p[2].fields : f = <<f[1], f[2]>>
        /\ \A m \in Messages[k[1]] :
            /\ \A h \in m.headers : h = <<h[1], h[2]>>
            /\ \A g, h \in m.headers : g[1] = h[1] => g = h

\* A wildcard is not compiled into the indices that exist already.
MutantCompiledKeys(key, args) ==
    CASE extype = "headers"              -> FieldKeys(args)
      [] extype = "topic" /\ ~IsWild(key) -> {key}
      [] OTHER                           -> {}

\* The index keys a new binding is compiled into.
CompiledKeys(key, args) ==
    CASE extype = "headers"               -> FieldKeys(args)
      [] extype = "topic" /\ ~IsWild(key) -> {key}
      [] IsWild(key) \/ extype = "regexp" -> {k \in indexed : Accepted(key, k)}
      [] OTHER                            -> {}

Compile(b, key, args) ==
    LET keys == CompiledKeys(key, args) IN
        /\ indexed' = indexed \cup keys
        /\ bindset' = [k \in IndexKeys |-> IF k \in keys THEN bindset[k] \cup {b} ELSE bindset[k]]

\* The binding a bind request names: the hash tells whether the key is known at all,
\* the list holds the binding with the same key and arguments.
SameBindings(key, args) ==
    {i \in DOMAIN binding_list : Pair(binding_list[i]) = <<key, args>>}

ExistingBinding(key, args) ==
    IF binding_hash[key] # 0 /\ SameBindings(key, args) # {}
    THEN binding_list[Min(SameBindings(key, args))]
    ELSE 0

\* The binding is added to the queue's list only when the list is new.
MutantAttachQueue(b, record, q) ==
    /\ binding' = [binding EXCEPT ![b] = [record EXCEPT !.queues = @ \cup {q}]]
    /\ queue_bindings' = [queue_bindings EXCEPT ![NameOf[q]] = IF @ = <<>> THEN <<b>> ELSE @]

\* amq_binding_bind_queue and the list of the queue's bindings.
AttachQueue(b, record, q) ==
    /\ binding' = [binding EXCEPT ![b] = [record EXCEPT !.queues = @ \cup {q}]]
    /\ queue_bindings' = [queue_bindings EXCEPT ![NameOf[q]] =
                            IF b \in Range(@) THEN @ ELSE Append(@, b)]

\* A new binding takes a free number; the lowest stands for the one that the object's
\* address hashes to, numbers being only names.  The compile does not fail: a full index
\* and arguments that cannot be read stop the server before it, on the assertions of
\* ipr_index_insert and amq_binding_new.
CreateBinding(b, key, args, q) ==
    /\ binding[b] = NoBinding
    /\ \A c \in 1 .. b - 1 : binding[c] # NoBinding
    /\ BindingCreated(key, args, q \in Exclusive)
    /\ binding_hash' = [binding_hash EXCEPT ![key] = IF @ = 0 THEN b ELSE @]
    /\ binding_list' = IF IsWild(key) THEN <<b>> \o binding_list ELSE Append(binding_list, b)
    /\ Compile(b, key, args)
    /\ compiled' = compiled \cup {<<key, args>>}
    /\ AttachQueue(b, NewBinding(key, args, q \in Exclusive), q)

Request(op) == ~aborted /\ mailbox # <<>> /\ Head(mailbox).op = op /\ mailbox' = Tail(mailbox)

BoundKey(key) == IF extype = "fanout" THEN Empty ELSE key

HandleBind ==
    /\ Request("bind")
    /\ LET r   == Head(mailbox)
           key == BoundKey(r.key)
           old == ExistingBinding(key, r.args) IN
        \/ /\ old = 0
           /\ \E b \in Numbers : CreateBinding(b, key, r.args, r.queue)
        \/ /\ old # 0
           /\ AttachQueue(old, binding[old], r.queue)
           /\ UNCHANGED <<binding_list, binding_hash, indexed, bindset, upstream, compiled>>
    /\ UNCHANGED <<extype, fedtype, outside, aborted, routed>>

-----------------------------------------------------------------------------
(***************************************************************************)
(* Unbind.  Only the direct exchange destroys a binding that has become     *)
(* empty, together with whatever the hash holds under its key.              *)
(***************************************************************************)
\* The bindings that are left in the list, in their order.
Without(list, gone) ==
    LET kept[n \in 0 .. Len(list)] ==
            IF n = 0 THEN <<>>
            ELSE IF list[n] \in gone THEN kept[n - 1] ELSE Append(kept[n - 1], list[n])
    IN  kept[Len(list)]

\* The hash entry of a destroyed binding is left behind.
MutantKeepHash(bs, q) ==
    LET gone == {b \in bs : extype = "direct" /\ binding[b].queues \subseteq {q}} IN
        /\ binding' = [b \in Numbers |->
                        IF b \in gone THEN NoBinding
                        ELSE IF b \in bs THEN [binding[b] EXCEPT !.queues = @ \ {q}]
                        ELSE binding[b]]
        /\ binding_list' = Without(binding_list, gone)
        /\ BindingsDestroyed(gone)
        /\ UNCHANGED <<binding_hash, indexed, bindset, compiled>>

\* Every type of exchange destroys an empty binding, and none clears its index bits.
MutantDestroyEmpty(bs, q) ==
    LET gone == {b \in bs : binding[b].queues \subseteq {q}} IN
        /\ binding' = [b \in Numbers |->
                        IF b \in gone THEN NoBinding
                        ELSE IF b \in bs THEN [binding[b] EXCEPT !.queues = @ \ {q}]
                        ELSE binding[b]]
        /\ binding_list' = Without(binding_list, gone)
        /\ binding_hash' = [k \in BoundKeys |->
                                IF \E b \in gone : binding[b].key = k THEN 0 ELSE binding_hash[k]]
        /\ BindingsDestroyed(gone)
        /\ UNCHANGED <<indexed, bindset, compiled>>

DetachQueue(bs, q) ==
    LET gone == {b \in bs : extype = "direct" /\ binding[b].queues \subseteq {q}} IN
        /\ binding' = [b \in Numbers |->
                        IF b \in gone THEN NoBinding
                        ELSE IF b \in bs THEN [binding[b] EXCEPT !.queues = @ \ {q}]
                        ELSE binding[b]]
        /\ binding_list' = Without(binding_list, gone)
        /\ binding_hash' = [k \in BoundKeys |->
                                IF \E b \in gone : binding[b].key = k THEN 0 ELSE binding_hash[k]]
        /\ BindingsDestroyed(gone)
        /\ UNCHANGED <<indexed, bindset, compiled>>

\* The place of the binding in the queue's list that has the key and the arguments.
Unbindable(q, key, args) ==
    {i \in DOMAIN queue_bindings[NameOf[q]] :
        Pair(queue_bindings[NameOf[q]][i]) = <<key, args>>}

HandleUnbind ==
    /\ Request("unbind")
    /\ LET r  == Head(mailbox)
           n  == NameOf[r.queue]
           at == Unbindable(r.queue, r.key, r.args) IN
        \/ /\ at = {}
           /\ UNCHANGED routes
        \/ /\ at # {}
           /\ DetachQueue({queue_bindings[n][Min(at)]}, r.queue)
           /\ queue_bindings' = [queue_bindings EXCEPT ![n] = RemoveAt(@, Min(at))]
    /\ UNCHANGED <<extype, fedtype, outside, routed>>

HandleDelete ==
    /\ Request("delete")
    /\ LET q == Head(mailbox).queue IN
        /\ DetachQueue(Range(queue_bindings[NameOf[q]]), q)
        /\ queue_bindings' = [queue_bindings EXCEPT ![NameOf[q]] = <<>>]
    /\ UNCHANGED <<extype, fedtype, outside, routed>>

-----------------------------------------------------------------------------
(***************************************************************************)
(* Publish.                                                                 *)
(***************************************************************************)
PublishedKey(m) == IF extype = "topic" /\ m.key = Empty THEN Blank ELSE m.key

\* The bindings a new index is compiled from: a topic exchange stops at the first
\* binding of the list that is no wildcard.
Scanned ==
    {binding_list[i] : i \in {j \in DOMAIN binding_list :
        extype = "topic" => \A h \in 1 .. j : IsWild(binding[binding_list[h]].key)}}

IndexKey(k) ==
    IF k \in indexed
    THEN UNCHANGED <<indexed, bindset>>
    ELSE /\ indexed' = indexed \cup {k}
         /\ bindset' = [bindset EXCEPT ![k] = {b \in Scanned : Accepted(binding[b].key, k)}]

\* The hits of a binding of a headers exchange: one for each of its fields that the
\* message has, by presence or by value.
HeaderKeys(m) ==
    {MatchAll} \cup m.headers \cup {<<h[1], "any value">> : h \in m.headers}

HitCount(b, m) == Cardinality({k \in HeaderKeys(m) \cap indexed : b \in bindset[k]})

HeadersHit(b, m) ==
    LET args == binding[b].args IN
        IF args.all THEN HitCount(b, m) = Cardinality(FieldKeys(args)) ELSE HitCount(b, m) > 0

\* The bindings whose queues are collected.
Hits(m) ==
    CASE extype = "direct"  -> {binding_hash[k] : k \in BoundKeys \cap {m.key}} \ {0}
      [] extype = "fanout"  -> {binding_list[i] : i \in DOMAIN binding_list \cap {1}}
      [] extype = "headers" -> {b \in Live : HeadersHit(b, m)}
      [] OTHER              -> bindset'[PublishedKey(m)]

Collected(m) == UNION {binding[b].queues : b \in Hits(m)}

HandlePublish ==
    /\ Request("publish")
    /\ LET m    == Head(mailbox).message
           held == fedtype = "fanout" /\ m.local
           to   == IF held THEN {} ELSE Collected(m)
           up   == \/ fedtype = "publisher" \/ held
                   \/ fedtype \in {"locator", "service"} /\ to = {} IN
        /\ IF extype \in {"topic", "regexp"} /\ ~held
           THEN IndexKey(PublishedKey(m))
           ELSE UNCHANGED <<indexed, bindset>>
        /\ routed' = [message |-> m, to |-> to, up |-> up,
                      returned |-> to = {} /\ ~up /\ m.mandatory /\ m.local]
    /\ UNCHANGED <<extype, fedtype, outside, binding, binding_list, binding_hash,
                   queue_bindings, upstream, aborted, compiled>>

-----------------------------------------------------------------------------
Next ==
    \/ \E q \in Queues : Declare(q) \/ SelfDestruct(q)
    \/ \E t \in Threads, n \in Names : Search(t, n)
    \/ \E t \in Threads, p \in BindPairs[extype] : PostBind(t, p) \/ PostUnbind(t, p)
    \/ \E m \in Messages[extype] : PostPublish(m)
    \/ BrokerDeleteQueue
    \/ HandleBind \/ HandleUnbind \/ HandleDelete \/ HandlePublish

Spec == Init /\ [][Next]_vars

-----------------------------------------------------------------------------
(***************************************************************************)
(* Properties.                                                              *)
(***************************************************************************)
AllPairs == UNION {BindPairs[k[1]] : k \in Kinds}
AllMessages == UNION {Messages[k[1]] : k \in Kinds}

\* Type invariant: the shapes of the exchange's tables, and numbers that are in range.
TypeOK ==
    /\ <<extype, fedtype>> \in Kinds
    /\ table \in [Names -> Queues \cup {NoQueue}]
    /\ found \in [Threads -> Queues \cup {NoQueue}]
    /\ declared \subseteq Queues /\ removed \subseteq Queues
    /\ deletes \in Seq(Queues)
    /\ \A b \in Live : /\ Pair(b) \in compiled
                       /\ binding[b].queues \subseteq declared
    /\ Range(binding_list) = Live /\ IsInjective(binding_list)
    /\ binding_hash \in [BoundKeys -> Live \cup {0}]
    /\ queue_bindings \in [Names -> Seq(Live)]
    /\ indexed \subseteq IndexKeys
    /\ bindset \in [IndexKeys -> SUBSET Numbers]

\* The bindings in force, for the refinement: which queues are attached to which bindings.
Bound == UNION {{<<q, binding[b].key, binding[b].args>> : q \in binding[b].queues} : b \in Live}

Table == INSTANCE RoutingTable WITH
    bound <- Bound,
    Pairs <- AllPairs \cup {<<Empty, p[2]>> : p \in AllPairs},
    Messages <- AllMessages

\* Refinement: seen through the attached queues, every bind, unbind, deletion and publish
\* handled by the exchange is a step of the routing table: hash, lists and bitmaps send a
\* message to the queues the table names, and return or forward it when there are none.
ImplementsTable == Table!Spec

\* Every key was bound with one set of arguments only.
PlainKeys == \A p, r \in compiled : p[1] = r[1] => p = r

\* The per-queue list that unbind and delete work from holds exactly the bindings the
\* queue is attached to, also when a bind is handled after the queue's deletion.
ListsAgree ==
    \A q \in Queues : Range(queue_bindings[NameOf[q]]) = {b \in Live : q \in binding[b].queues}

\* The parent server is asked for exactly the bindings that exist and are to be
\* forwarded: what binding_created and binding_destroyed tell the federation balances.
UpstreamAgrees ==
    ~aborted /\ PlainKeys => upstream = {Pair(b) : b \in {c \in Live : ForwardsBinding(binding[c].exclusive)}}

\* amq_peering_unbind's assertion fails only for a service federation, which is not told
\* of non-exclusive bindings, or when a key was bound with two sets of arguments.
AssertionHolds == aborted => fedtype = "service" \/ ~PlainKeys

\* A bit of an index names a binding that still exists: the publish of the topic and
\* regexp exchanges asserts it and reads the binding's queues.
IndexLive == \A k \in indexed : bindset[k] \subseteq Live

\* A topic message reaches every queue that has a binding matching its key.
RoutesAll == [][HandlePublish => \/ Table!HeldBack(routed'.message)
                                 \/ routed'.to = Table!MayReach(routed'.message)]_vars
=============================================================================
