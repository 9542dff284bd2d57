---------------------------- MODULE TopicMatch -----------------------------
(***************************************************************************)
(* The wildcard patterns of the topic exchange, as amq_exchange_topic turns *)
(* them into regular expressions.  A routing key is a sequence of words,    *)
(* the parts between its dots; a pattern is a key in which "*" and "#" are  *)
(* wildcards.  The empty key is the sequence of one empty word; a message   *)
(* published without a key is matched as one blank word.                    *)
(***************************************************************************)
EXTENDS Naturals, Sequences

Empty == <<"">>
Blank == <<" ">>
Single == "*"
Multiple == "#"

\* The result of s_topic_to_regexp: the key holds a wildcard.
IsWildcard(key) == \E i \in DOMAIN key : key[i] \in {Single, Multiple}

\* A single-level wildcard that runs over the dots.
MutantPartMatches(word, words) ==
    CASE word = Single   -> Len(words) > 0
      [] word = Multiple -> \/ words = Blank
                            \/ Len(words) > 0 /\ \A i \in DOMAIN words : words[i] # " "
      [] OTHER           -> words = <<word>>

\* What the regular expression of one word of the pattern matches: S_WILDCARD_SINGLE
\* is a blank or one word, S_WILDCARD_MULTIPLE a blank or words separated by dots,
\* each possibly empty; any other word matches itself.  The words of the keys are
\* made of letters, digits and underscores, as the topic names of the source are: a
\* word with another character is one that neither expression matches.  The dot before
\* a wildcard stays in the expression, so "a.#" does not match "a", where the comment
\* of s_topic_to_regexp reads "zero or more levels".
PartMatches(word, words) ==
    CASE word = Single   -> Len(words) = 1
      [] word = Multiple -> \/ words = Blank
                            \/ Len(words) > 0 /\ \A i \in DOMAIN words : words[i] # " "
      [] OTHER           -> words = <<word>>

\* ipr_regexp_match of the anchored expression: the key is cut into one part for
\* each word of the pattern (the dots between the words match the key's dots).
TopicMatches(pattern, key) ==
    \E cut \in [0 .. Len(pattern) -> 0 .. Len(key)] :
        /\ cut[0] = 0
        /\ cut[Len(pattern)] = Len(key)
        /\ \A i \in 1 .. Len(pattern) :
            /\ cut[i - 1] <= cut[i]
            /\ PartMatches(pattern[i], SubSeq(key, cut[i - 1] + 1, cut[i]))
=============================================================================
