---------------------------- MODULE RoutingTable ----------------------------
(***************************************************************************)
(* What an exchange promises: a table of bindings, and for every message    *)
(* the queues it goes to, computed from the table alone.  No hash, index,   *)
(* binding object or list of the implementation appears here.               *)
(*                                                                         *)
(* The promise of the code is weaker than "every queue with a binding that  *)
(* matches": MustReach says which of them cannot be missed.                 *)
(***************************************************************************)
EXTENDS TopicMatch

CONSTANTS
    Kinds,                   \* pairs of an exchange type and a federation type
    Queues, Pairs,           \* queues, and the pairs <<key, arguments>> of bindings
    Messages, NoRoute,       \* messages, and the value of routed before the first one
    PcreMatches              \* the pairs <<pattern, key>> that the regexp library matches

VARIABLES
    extype, fedtype,  \* kind of the exchange and of its federation
    bound,            \* triples <<queue, key, arguments>>
    compiled,         \* pairs <<key, arguments>> that were ever bound
    routed            \* the last message and where it went

(***************************************************************************)
(* A field of bind arguments is a pair <<name, value>>; the value Any asks  *)
(* for presence only.  Headers of a message are a set of such pairs.        *)
(***************************************************************************)
Any == "any value"

FieldHolds(field, headers) ==
    \E h \in headers : h[1] = field[1] /\ field[2] \in {Any, h[2]}

HeadersMatch(args, headers) ==
    \/ args.fields = {}
    \/ args.all /\ \A f \in args.fields : FieldHolds(f, headers)
    \/ ~args.all /\ \E f \in args.fields : FieldHolds(f, headers)

\* A message published without a routing key is matched as a blank one.
Topic(key) == IF key = Empty THEN Blank ELSE key

\* The binding <<key, args>> asks for message m.
Accepts(key, args, m) ==
    CASE extype = "direct"  -> key = m.key
      [] extype = "fanout"  -> TRUE
      [] extype = "topic"   -> TopicMatches(key, Topic(m.key))
      [] extype = "regexp"  -> <<key, m.key>> \in PcreMatches
      [] extype = "headers" -> HeadersMatch(args, m.headers)

MayReach(m) == {t[1] : t \in {u \in bound : Accepts(u[2], u[3], m)}}

\* One set of arguments was used for all bindings in a set of pairs.
SameArguments(pairs) == \A p, r \in pairs : p[2] = r[2]

(***************************************************************************)
(* The queues that get the message for certain: in a direct exchange while  *)
(* the key is bound with one set of arguments, in a fanout exchange while   *)
(* all bindings have the same arguments, in a topic exchange the wildcard   *)
(* bindings only if the message's key was never bound as a plain topic.     *)
(***************************************************************************)
MustReach(m) ==
    CASE extype = "direct" ->
            IF SameArguments({p \in compiled : p[1] = m.key}) THEN MayReach(m) ELSE {}
      [] extype = "fanout" ->
            IF SameArguments(compiled) THEN MayReach(m) ELSE {}
      [] extype = "topic" ->
            {t[1] : t \in {u \in bound :
                /\ Accepts(u[2], u[3], m)
                /\ IsWildcard(u[2]) => \A p \in compiled : p[1] # Topic(m.key)}}
      [] OTHER -> MayReach(m)

\* A fanout federation sends what a local application publishes to the parent only.
HeldBack(m) == fedtype = "fanout" /\ m.local

Forwarded(m, to) ==
    \/ fedtype = "publisher"
    \/ HeldBack(m)
    \/ fedtype \in {"locator", "service"} /\ to = {}

Init ==
    /\ <<extype, fedtype>> \in Kinds
    /\ bound = {}
    /\ compiled = {}
    /\ routed = NoRoute

Bind(q, key, args) ==
    /\ bound' = bound \cup {<<q, key, args>>}
    /\ compiled' = compiled \cup {<<key, args>>}
    /\ UNCHANGED <<extype, fedtype, routed>>

\* A key of a direct exchange bound with two sets of arguments may stay bound.
Unbind(q, key, args) ==
    /\ \/ bound' = bound \ {<<q, key, args>>}
       \/ /\ extype = "direct"
          /\ ~SameArguments({p \in compiled : p[1] = key})
          /\ bound' = bound
    /\ UNCHANGED <<extype, fedtype, compiled, routed>>

DeleteQueue(q) ==
    /\ bound' = {t \in bound : t[1] # q}
    /\ UNCHANGED <<extype, fedtype, compiled, routed>>

\* The message reaches all queues of MustReach and perhaps more of MayReach; if it
\* reaches none and is not forwarded, a mandatory message goes back to its sender.
Publish(m) ==
    /\ \E to \in SUBSET MayReach(m) :
        /\ IF HeldBack(m) THEN to = {} ELSE MustReach(m) \subseteq to
        /\ routed' = [message  |-> m,
                      to       |-> to,
                      up       |-> Forwarded(m, to),
                      returned |-> m.mandatory /\ m.local /\ to = {} /\ ~Forwarded(m, to)]
    /\ UNCHANGED <<extype, fedtype, bound, compiled>>

Next ==
    \/ \E q \in Queues, p \in Pairs : Bind(q, p[1], p[2]) \/ Unbind(q, p[1], p[2])
    \/ \E q \in Queues : DeleteQueue(q)
    \/ \E m \in Messages : Publish(m)

vars == <<extype, fedtype, bound, compiled, routed>>

Spec == Init /\ [][Next]_vars
=============================================================================
