----------------------------- MODULE MCExchange -----------------------------
(***************************************************************************)
(* An exchange of each type with two queues, a few keys and arguments.      *)
(***************************************************************************)
EXTENDS Exchange

CONSTANTS q1, q2, t1

None == [fields |-> {}, all |-> TRUE]
Fields(fields, all) == [fields |-> fields, all |-> all]

a == <<"a">>
ab == <<"a", "b">>

MCBindPairs ==
    [direct  |-> {<<a, None>>, <<a, Fields({<<"x", "1">>}, TRUE)>>},
     fanout  |-> {<<Empty, None>>, <<a, None>>, <<Empty, Fields({<<"x", "1">>}, TRUE)>>},
     topic   |-> {<<a, None>>, <<<<"*">>, None>>, <<<<"a", "#">>, None>>},
     regexp  |-> {<<a, None>>, <<<<"*">>, None>>},
     headers |-> {<<Empty, None>>, <<Empty, Fields({<<"x", "1">>, <<"y", "any value">>}, TRUE)>>,
                  <<Empty, Fields({<<"x", "1">>, <<"y", "2">>}, FALSE)>>}]

Message(key, headers, local, mandatory) ==
    [key |-> key, headers |-> headers, local |-> local, mandatory |-> mandatory]

Plain(keys) == {Message(k, {}, TRUE, TRUE) : k \in keys}

MCMessages ==
    [direct  |-> Plain({a}) \cup {Message(a, {}, FALSE, FALSE)},
     fanout  |-> Plain({a}) \cup {Message(a, {}, FALSE, FALSE)},
     topic   |-> Plain({a, ab, Empty}),
     regexp  |-> Plain({a, ab}),
     headers |-> {Message(Empty, h, TRUE, TRUE) :
                    h \in {{}, {<<"x", "1">>, <<"y", "3">>}, {<<"y", "2">>}}}]

MCIndexKeys ==
    {a, ab, Empty, Blank, MatchAll} \cup ({"x", "y"} \X {"1", "2", "3", "any value"})

MCPcreMatches == {<<a, a>>, <<a, ab>>, <<<<"*">>, ab>>}
MCKinds ==
    {<<"direct", "service">>, <<"direct", "subscriber">>, <<"fanout", "fanout">>,
     <<"topic", "none">>, <<"regexp", "publisher">>, <<"headers", "locator">>}

TopicOnly == {<<"topic", "none">>}

MCMaxPosts == [direct |-> 5, fanout |-> 4, topic |-> 4, regexp |-> 4, headers |-> 4]

OwnNames == q1 :> "orders" @@ q2 :> "prices"

(***************************************************************************)
(* The reading of a topic pattern in the comments of the source, word by    *)
(* word: "*" stands for one level of the name and "#" for zero or more.     *)
(***************************************************************************)
RECURSIVE Reads(_, _)
Reads(pattern, key) ==
    IF pattern = <<>> THEN key = <<>>
    ELSE \/ Head(pattern) = Multiple /\ Reads(Tail(pattern), key)
         \/ /\ key # <<>>
            /\ \/ Head(pattern) = Multiple /\ Reads(pattern, Tail(key))
               \/ Head(pattern) \in {Single, Head(key)} /\ Reads(Tail(pattern), Tail(key))

\* In a topic exchange a queue gets a message only if one of its patterns, read word by
\* word, covers the message's routing key (stale bitmaps would send it elsewhere).
NoStrayMessage ==
    [][HandlePublish /\ extype = "topic" =>
        \A q \in routed'.to : \E t \in Bound : /\ t[1] = q
                                              /\ Reads(t[2], PublishedKey(routed'.message))]_vars

=============================================================================
