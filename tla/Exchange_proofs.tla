-------------------------- MODULE Exchange_proofs ---------------------------
(***************************************************************************)
(* Proofs about the exchange, for any sets of queues, connection threads,  *)
(* keys, arguments and messages, and every kind of exchange.               *)
(***************************************************************************)
EXTENDS Exchange, SequenceLemmas, FiniteSetTheorems

-----------------------------------------------------------------------------
(* The tables of the exchange *)

ArgSet == {p[2] : p \in BindPairs[extype]}
BindingSet ==
  [live : {TRUE}, key : BoundKeys, args : ArgSet, exclusive : BOOLEAN, queues : SUBSET declared]
Asks(o, q, p) == [op |-> o, queue |-> q, key |-> p[1], args |-> p[2]]
Publishes(m) == [op |-> "publish", message |-> m]
Deletes(q) == [op |-> "delete", queue |-> q]
Requests ==
  {Asks(o, q, p) : o \in {"bind", "unbind"}, q \in declared, p \in BindPairs[extype]}
  \cup {Publishes(m) : m \in Messages[extype]} \cup {Deletes(q) : q \in declared}

\* Whoever holds a queue holds one that was declared.
Handed ==
  /\ <<extype, fedtype>> \in Kinds
  /\ declared \subseteq Queues /\ removed \subseteq Queues
  /\ table \in [Names -> declared \cup {NoQueue}]
  /\ found \in [Threads -> declared \cup {NoQueue}]
  /\ deletes \in Seq(declared)
  /\ mailbox \in Seq(Requests)

\* The bindings, and the two ways to find them: the list has each of them once, the
\* hash at most one for each key.
Bindings ==
  /\ binding \in [Numbers -> BindingSet \cup {NoBinding}]
  /\ \A b \in Live : Pair(b) \in compiled
  /\ binding_list \in Seq(Numbers) /\ IsInjective(binding_list) /\ ToSet(binding_list) = Live
  /\ binding_hash \in [BoundKeys -> Numbers \cup {0}]
  /\ \A k \in BoundKeys : binding_hash[k] # 0 =>
        binding_hash[k] \in Live /\ binding[binding_hash[k]].key = k

\* A binding in the list of a queue name has a queue of that name attached.
Listed ==
  /\ queue_bindings \in [Names -> Seq(Numbers)]
  /\ \A n \in Names : IsInjective(queue_bindings[n])
  /\ \A n \in Names : \A b \in ToSet(queue_bindings[n]) :
        b \in Live /\ \E q \in binding[b].queues : NameOf[q] = n

Indices ==
  /\ indexed \subseteq IndexKeys /\ bindset \in [IndexKeys -> SUBSET Numbers]
  /\ \A k \in IndexKeys : bindset[k] \subseteq Live
  /\ \A k \in IndexKeys : extype = "direct" \/ k \notin indexed => bindset[k] = {}

TableInv == Handed /\ Bindings /\ Listed /\ Indices

\* A key that was bound with one set of arguments only has one binding, the one hashed.
OneArgs(k) == \A p, r \in compiled : p[1] = k /\ r[1] = k => p = r
HashComplete == \A b \in Live : OneArgs(binding[b].key) => binding_hash[binding[b].key] = b
Attached == \A q \in Queues : \A b \in Live : q \in binding[b].queues => b \in ToSet(queue_bindings[NameOf[q]])
UpInv == HashComplete /\ UpstreamAgrees /\ AssertionHolds

-----------------------------------------------------------------------------
(* Sequences and the requests in the mailbox *)

(* The bindings that are left in a list. *)
LEMMA WithoutIs ==
  ASSUME NEW S, NEW list \in Seq(S), NEW gone
  PROVE  /\ Without(list, gone) \in Seq(S)
         /\ ToSet(Without(list, gone)) = ToSet(list) \ gone
         /\ IsInjective(list) => IsInjective(Without(list, gone))
         /\ gone = {} => Without(list, gone) = list
<1> DEFINE n == Len(list)
           Step(v, i) == IF list[i] \in gone THEN v ELSE Append(v, list[i])
           G == [vi \in Seq(S) \X (1..n) |-> Step(vi[1], vi[2])]
           First(m) == {list[j] : j \in 1..m}
<1>0. n \in Nat /\ <<>> \in Seq(S) /\ \A i \in 1..n : list[i] \in S
  BY ElementIs
<1>1. ASSUME NEW v \in Seq(S), NEW i \in 1..n
      PROVE  /\ Step(v, i) \in Seq(S)
             /\ ToSet(Step(v, i)) = ToSet(v) \cup ({list[i]} \ gone)
             /\ IsInjective(v) /\ list[i] \notin ToSet(v) => IsInjective(Step(v, i))
  <2>1. CASE list[i] \in gone
    BY <2>1
  <2>2. CASE list[i] \notin gone
    <3>1. list[i] \in S
      BY <1>0
    <3>2. /\ Append(v, list[i]) \in Seq(S) /\ ToSet(Append(v, list[i])) = ToSet(v) \cup {list[i]}
          /\ IsInjective(v) /\ list[i] \notin ToSet(v) => IsInjective(Append(v, list[i]))
      BY <3>1, AppendSet
    <3> QED BY <2>2, <3>2
  <2> QED BY <2>1, <2>2
<1>1a. ASSUME NEW v, NEW i \in 1..n, gone = {} PROVE Step(v, i) = Append(v, list[i])
  BY <1>1a
<1> HIDE DEF Step
<1>2. Stays(G, Seq(S), n)
  BY <1>1 DEF Stays
<1> HIDE DEF n, G
<1>3. PICK f : Iterates(f, G, Seq(S), n, <<>>)
  BY <1>0, <1>2, RecExists
<1>4. /\ f \in [0..n -> Seq(S)] /\ f[0] = <<>>
      /\ \A i \in 1..n : f[i] = G[<<f[i - 1], i>>]
  BY <1>3 DEF Iterates
<1>5. \A i \in 1..n : f[i] = Step(f[i - 1], i)
  <2> TAKE i \in 1..n
  <2>1. f[i - 1] \in Seq(S)
    BY <1>0, <1>4
  <2>2. <<f[i - 1], i>> \in Seq(S) \X (1..n)
    BY <2>1
  <2> QED BY <1>4, <2>2 DEF G
<1> DEFINE P(h) == h = [i \in 0..n |-> IF i = 0 THEN <<>> ELSE Step(h[i - 1], i)]
<1>6. P(f)
  BY <1>0, <1>4, <1>5
<1> DEFINE A == CHOOSE h : P(h)
<1>7. P(A)
  BY <1>6
<1>8. Without(list, gone) = A[n]
  BY DEF Without, n, Step
<1> HIDE DEF A
<1> DEFINE T == {m \in Nat : m <= n =>
                    /\ A[m] \in Seq(S)
                    /\ ToSet(A[m]) = First(m) \ gone
                    /\ IsInjective(list) => IsInjective(A[m])
                    /\ gone = {} => A[m] = SubSeq(list, 1, m)}
<1>9. 0 \in T
  <2>1. A[0] = <<>> /\ First(0) = {}
    BY <1>0, <1>7
  <2>2. ToSet(<<>>) = {} /\ IsInjective(<<>>)
    BY DEF ToSet, IsInjective
  <2>3. SubSeq(list, 1, 0) = <<>>
    OBVIOUS
  <2> QED BY <1>0, <2>1, <2>2, <2>3
<1>10. ASSUME NEW m \in T PROVE m + 1 \in T
  <2> SUFFICES ASSUME m + 1 <= n
               PROVE  /\ A[m + 1] \in Seq(S)
                      /\ ToSet(A[m + 1]) = First(m + 1) \ gone
                      /\ IsInjective(list) => IsInjective(A[m + 1])
                      /\ gone = {} => A[m + 1] = SubSeq(list, 1, m + 1)
    OBVIOUS
  <2>1. /\ m + 1 \in 1..n /\ m + 1 \in 0..n /\ (m + 1) - 1 = m /\ m + 1 # 0
        /\ m <= n /\ m \in Nat
    BY <1>0
  <2>2. /\ A[m] \in Seq(S)
        /\ ToSet(A[m]) = First(m) \ gone
        /\ IsInjective(list) => IsInjective(A[m])
        /\ gone = {} => A[m] = SubSeq(list, 1, m)
    BY <2>1
  <2>3. A[m + 1] = Step(A[m], m + 1)
    BY <1>7, <2>1
  <2>4. First(m + 1) = First(m) \cup {list[m + 1]}
    <3>1. 1..(m + 1) = (1..m) \cup {m + 1}
      BY <2>1
    <3> QED BY <3>1
  <2>5. IsInjective(list) => list[m + 1] \notin First(m)
    <3>1. IsInjective(list) => \A i, j \in 1..n : list[i] = list[j] => i = j
      BY InjectiveIs DEF n
    <3> QED BY <1>0, <2>1, <3>1
  <2>6. gone = {} => Append(SubSeq(list, 1, m), list[m + 1]) = SubSeq(list, 1, m + 1)
    <3> DEFINE u == SubSeq(list, 1, m)
               w == SubSeq(list, 1, m + 1)
    <3>1. u \in Seq(S) /\ Len(u) = m /\ \A i \in 1..m : u[i] = list[i]
      BY <1>0, <2>1 DEF n
    <3>2. w \in Seq(S) /\ Len(w) = m + 1 /\ \A i \in 1..(m + 1) : w[i] = list[i]
      BY <1>0, <2>1 DEF n
    <3>3. list[m + 1] \in S
      BY <1>0, <2>1
    <3> HIDE DEF u, w
    <3>4. /\ Append(u, list[m + 1]) \in Seq(S) /\ Len(Append(u, list[m + 1])) = m + 1
          /\ Append(u, list[m + 1])[m + 1] = list[m + 1]
          /\ \A i \in 1..m : Append(u, list[m + 1])[i] = u[i]
      BY <3>1, <3>3, AppendIs
    <3>5. \A i \in 1..(m + 1) : Append(u, list[m + 1])[i] = w[i]
      BY <2>1, <3>1, <3>2, <3>4
    <3>6. Append(u, list[m + 1]) = w
      BY <3>2, <3>4, <3>5, SeqEqual
    <3> QED BY <3>6 DEF u, w
  <2> HIDE DEF T, First
  <2>7. /\ A[m + 1] \in Seq(S) /\ ToSet(A[m + 1]) = ToSet(A[m]) \cup ({list[m + 1]} \ gone)
        /\ IsInjective(A[m]) /\ list[m + 1] \notin ToSet(A[m]) => IsInjective(A[m + 1])
    BY <1>1, <2>1, <2>2, <2>3
  <2>8. ToSet(A[m + 1]) = First(m + 1) \ gone
    BY <2>2, <2>4, <2>7
  <2>9. IsInjective(list) => IsInjective(A[m + 1])
    BY <2>2, <2>5, <2>7
  <2>10. gone = {} => A[m + 1] = SubSeq(list, 1, m + 1)
    BY <1>1a, <2>1, <2>2, <2>3, <2>6
  <2> QED BY <2>7, <2>8, <2>9, <2>10
<1>11. n \in T
  <2> HIDE DEF T
  <2>1. T \in SUBSET Nat
    BY DEF T
  <2> QED BY <1>0, <1>9, <1>10, <2>1, NatInd
<1>12. First(n) = ToSet(list)
  BY ToSetIs DEF n, ToSet
<1>13. SubSeq(list, 1, n) = list
  BY DEF n
<1> HIDE DEF First
<1> QED BY <1>0, <1>8, <1>11, <1>12, <1>13

(* What a request in the mailbox is. *)
LEMMA RequestIs ==
  ASSUME NEW r \in Requests
  PROVE  /\ r.op \in {"bind", "unbind"} =>
              /\ r.queue \in declared
              /\ \E p \in BindPairs[extype] : r.key = p[1] /\ r.args = p[2]
         /\ r.op = "publish" => r.message \in Messages[extype]
         /\ r.op = "delete" => r.queue \in declared
  BY DEF Requests, Asks, Publishes, Deletes

(* The requests of queues declared so far stay requests. *)
LEMMA RequestsGrow ==
  ASSUME declared \subseteq declared', extype' = extype
  PROVE  Requests \subseteq Requests'
<1>1. ASSUME NEW o \in {"bind", "unbind"}, NEW q \in declared, NEW p \in BindPairs[extype]
      PROVE  Asks(o, q, p) \in Requests'
  <2>1. q \in declared' /\ p \in BindPairs[extype']
    OBVIOUS
  <2> QED BY <2>1 DEF Requests
<1>2. ASSUME NEW m \in Messages[extype]
      PROVE  Publishes(m) \in Requests'
  BY DEF Requests
<1>3. ASSUME NEW q \in declared PROVE Deletes(q) \in Requests'
  BY DEF Requests
<1> QED BY <1>1, <1>2, <1>3 DEF Requests

(* A longer set of elements. *)
LEMMA SeqSub ==
  ASSUME NEW S, NEW T, S \subseteq T, NEW s \in Seq(S)
  PROVE  s \in Seq(T)
  OBVIOUS

(* Queues are handed on only after they were declared. *)
LEMMA HandedNext ==
  ASSUME Handed, Next
  PROVE  Handed' /\ declared \subseteq declared' /\ UNCHANGED <<extype, fedtype>>
<1>0. /\ <<extype, fedtype>> \in Kinds
      /\ declared \subseteq Queues /\ removed \subseteq Queues
      /\ table \in [Names -> declared \cup {NoQueue}]
      /\ found \in [Threads -> declared \cup {NoQueue}]
      /\ deletes \in Seq(declared)
      /\ mailbox \in Seq(Requests)
  BY DEF Handed
<1>0a. \A q \in Queues : NameOf[q] \in Names
  BY DEF Names
<1>1. ASSUME NEW q \in Queues, Declare(q)
      PROVE  Handed' /\ declared \subseteq declared' /\ UNCHANGED <<extype, fedtype>>
  <2>1. /\ declared' = declared \cup {q} /\ table' = [table EXCEPT ![NameOf[q]] = q]
        /\ UNCHANGED <<extype, fedtype, found, deletes, removed, mailbox>>
    BY <1>1 DEF Declare
  <2>2. Requests \subseteq Requests'
    BY <2>1, RequestsGrow
  <2>3. mailbox' \in Seq(Requests')
    BY <1>0, <2>1, <2>2, SeqSub
  <2>4. deletes' \in Seq(declared')
    BY <1>0, <2>1, SeqSub
  <2>5. table' \in [Names -> declared' \cup {NoQueue}]
    BY <1>0, <1>0a, <2>1
  <2>6. found' \in [Threads -> declared' \cup {NoQueue}]
    BY <1>0, <2>1
  <2> QED BY <1>0, <2>1, <2>3, <2>4, <2>5, <2>6 DEF Handed
<1>2. ASSUME UNCHANGED <<extype, fedtype, declared>>
      PROVE  Requests' = Requests
  BY <1>2 DEF Requests
<1>3. ASSUME NEW q \in Queues, SelfDestruct(q)
      PROVE  Handed' /\ declared \subseteq declared' /\ UNCHANGED <<extype, fedtype>>
  <2>1. /\ q \in declared /\ deletes' = Append(deletes, q)
        /\ UNCHANGED <<extype, fedtype, table, declared, found, removed, mailbox>>
    BY <1>3 DEF SelfDestruct
  <2>2. deletes' \in Seq(declared)
    BY <1>0, <2>1
  <2> QED BY <1>0, <1>2, <2>1, <2>2 DEF Handed
<1>4. ASSUME NEW t \in Threads, NEW n \in Names, Search(t, n)
      PROVE  Handed' /\ declared \subseteq declared' /\ UNCHANGED <<extype, fedtype>>
  <2>1. /\ found' = [found EXCEPT ![t] = table[n]]
        /\ UNCHANGED <<extype, fedtype, table, declared, deletes, removed, mailbox>>
    BY <1>4 DEF Search
  <2>2. found' \in [Threads -> declared \cup {NoQueue}]
    BY <1>0, <2>1
  <2> QED BY <1>0, <1>2, <2>1, <2>2 DEF Handed
<1>5. ASSUME NEW r \in Requests, Post(r), found' \in [Threads -> declared \cup {NoQueue}]
      PROVE  Handed' /\ declared \subseteq declared' /\ UNCHANGED <<extype, fedtype>>
  <2>1. /\ mailbox' = Append(mailbox, r)
        /\ UNCHANGED <<extype, fedtype, table, declared, deletes, removed>>
    BY <1>5 DEF Post
  <2>2. mailbox' \in Seq(Requests)
    BY <1>0, <2>1
  <2> QED BY <1>0, <1>2, <1>5, <2>1, <2>2 DEF Handed
<1>6. ASSUME NEW t \in Threads, NEW p \in BindPairs[extype], NEW o \in {"bind", "unbind"},
             found[t] # NoQueue, found' = [found EXCEPT ![t] = NoQueue],
             Post(Asks(o, found[t], p))
      PROVE  Handed' /\ declared \subseteq declared' /\ UNCHANGED <<extype, fedtype>>
  <2>1. PICK q \in declared : q = found[t]
    BY <1>0, <1>6
  <2>2. PICK r \in Requests : r = Asks(o, q, p)
    BY DEF Requests
  <2>3. found' \in [Threads -> declared \cup {NoQueue}]
    BY <1>0, <1>6
  <2> QED BY <1>5, <1>6, <2>1, <2>2, <2>3
<1>7. ASSUME NEW t \in Threads, NEW p \in BindPairs[extype], PostBind(t, p) \/ PostUnbind(t, p)
      PROVE  Handed' /\ declared \subseteq declared' /\ UNCHANGED <<extype, fedtype>>
  BY <1>6, <1>7 DEF PostBind, PostUnbind, Asks
<1>8. ASSUME NEW m \in Messages[extype], PostPublish(m)
      PROVE  Handed' /\ declared \subseteq declared' /\ UNCHANGED <<extype, fedtype>>
  <2>1. PICK r \in Requests : r = Publishes(m)
    BY DEF Requests
  <2> QED BY <1>0, <1>5, <1>8, <2>1 DEF PostPublish, Publishes
<1>9. CASE BrokerDeleteQueue
  <2>1. PICK q : q = Head(deletes)
    OBVIOUS
  <2>2. /\ deletes # <<>> /\ deletes' = Tail(deletes) /\ removed' = removed \cup {q}
        /\ mailbox' = Append(mailbox, Deletes(q))
        /\ table' = [table EXCEPT ![NameOf[q]] = IF @ = q THEN NoQueue ELSE @]
        /\ UNCHANGED <<extype, fedtype, declared, found>>
    BY <1>9, <2>1 DEF BrokerDeleteQueue, Deletes
  <2>3. q \in declared /\ deletes' \in Seq(declared)
    BY <1>0, <2>1, <2>2, TailIs
  <2>4. Deletes(q) \in Requests
    BY <2>3 DEF Requests
  <2>5. mailbox' \in Seq(Requests)
    BY <1>0, <2>2, <2>4
  <2>6. NameOf[q] \in Names
    BY <1>0, <1>0a, <2>3
  <2>7. table' \in [Names -> declared \cup {NoQueue}]
    BY <1>0, <2>2, <2>6
  <2>8. removed' \subseteq Queues
    BY <1>0, <2>2, <2>3
  <2> QED BY <1>0, <1>2, <2>2, <2>3, <2>5, <2>7, <2>8 DEF Handed
<1>10. CASE HandleBind \/ HandleUnbind \/ HandleDelete \/ HandlePublish
  <2>1. /\ mailbox # <<>> /\ mailbox' = Tail(mailbox) /\ UNCHANGED <<extype, fedtype, outside>>
    BY <1>10 DEF HandleBind, HandleUnbind, HandleDelete, HandlePublish, Request
  <2>2. UNCHANGED <<extype, fedtype, table, declared, found, deletes, removed>>
    BY <2>1 DEF outside
  <2>3. mailbox' \in Seq(Requests)
    BY <1>0, <2>1, TailIs
  <2> QED BY <1>0, <1>2, <2>2, <2>3 DEF Handed
<1> QED BY <1>1, <1>3, <1>4, <1>7, <1>8, <1>9, <1>10 DEF Next

-----------------------------------------------------------------------------
(* What bind, unbind and delete do to the tables *)

(* The smallest number of a set. *)
LEMMA MinIs ==
  ASSUME NEW S \in SUBSET Nat, S # {}
  PROVE  Min(S) \in S
<1>1. \E x \in S : \A y \in S : x <= y
  BY LeastNat
<1> QED BY <1>1 DEF Min

(* A number is that of a binding, or of none. *)
LEMMA BindingIs ==
  ASSUME binding \in [Numbers -> BindingSet \cup {NoBinding}], NEW b \in Numbers
  PROVE  /\ b \in Live <=> binding[b] \in BindingSet
         /\ b \notin Live <=> binding[b] = NoBinding
<1>1. NoBinding.live = FALSE
  BY DEF NoBinding
<1>2. \A r \in BindingSet : r.live = TRUE
  BY DEF BindingSet
<1>3. binding[b] \in BindingSet \/ binding[b] = NoBinding
  OBVIOUS
<1> QED BY <1>1, <1>2, <1>3 DEF Live

(* What is read of a binding. *)
LEMMA LiveIs ==
  ASSUME binding \in [Numbers -> BindingSet \cup {NoBinding}], NEW b \in Live
  PROVE  /\ b \in Numbers /\ b \in Nat /\ b # 0 /\ binding[b] \in BindingSet
         /\ binding[b].key \in BoundKeys /\ binding[b].args \in ArgSet
         /\ binding[b].exclusive \in BOOLEAN /\ binding[b].queues \subseteq declared
<1>1. b \in Numbers /\ b \in Nat /\ b # 0
  BY ExchangeAssumption DEF Live, Numbers
<1>2. binding[b] \in BindingSet
  BY <1>1, BindingIs
<1> QED BY <1>1, <1>2 DEF BindingSet

(* The binding a request names. *)
LEMMA ExistingIs ==
  ASSUME Bindings, NEW key, NEW args
  PROVE  /\ ExistingBinding(key, args) = 0 =>
              binding_hash[key] = 0 \/ \A b \in Live : Pair(b) # <<key, args>>
         /\ ExistingBinding(key, args) # 0 =>
              /\ ExistingBinding(key, args) \in Live
              /\ Pair(ExistingBinding(key, args)) = <<key, args>>
<1>0. /\ binding_list \in Seq(Numbers) /\ ToSet(binding_list) = Live
      /\ binding \in [Numbers -> BindingSet \cup {NoBinding}]
  BY DEF Bindings
<1>1. SameBindings(key, args) = {i \in 1..Len(binding_list) : Pair(binding_list[i]) = <<key, args>>}
  BY <1>0 DEF SameBindings
<1>2. \A b : b \in Live <=> \E i \in 1..Len(binding_list) : binding_list[i] = b
  BY <1>0, ToSetIs
<1>3. CASE binding_hash[key] # 0 /\ SameBindings(key, args) # {}
  <2>1. PICK i : i = Min(SameBindings(key, args))
    OBVIOUS
  <2>2. SameBindings(key, args) \in SUBSET Nat
    BY <1>0, <1>1
  <2>3. i \in SameBindings(key, args)
    BY <1>3, <2>1, <2>2, MinIs
  <2>4. ExistingBinding(key, args) = binding_list[i]
    BY <1>3, <2>1 DEF ExistingBinding
  <2>5. binding_list[i] \in Live /\ Pair(binding_list[i]) = <<key, args>>
    BY <1>1, <1>2, <2>3
  <2>6. binding_list[i] # 0
    BY <1>0, <2>5, LiveIs
  <2> QED BY <2>4, <2>5, <2>6
<1>4. CASE ~(binding_hash[key] # 0 /\ SameBindings(key, args) # {})
  <2>1. ExistingBinding(key, args) = 0
    BY <1>4 DEF ExistingBinding
  <2>2. SameBindings(key, args) = {} => \A b \in Live : Pair(b) # <<key, args>>
    BY <1>1, <1>2
  <2> QED BY <1>4, <2>1, <2>2
<1> QED BY <1>3, <1>4

(* The key and the arguments of a bind request. *)
LEMMA BoundKeyIs ==
  ASSUME NEW r \in Requests, r.op = "bind"
  PROVE  BoundKey(r.key) \in BoundKeys /\ r.args \in ArgSet /\ r.queue \in declared
<1>1. r.queue \in declared
  BY RequestIs
<1>2. PICK p \in BindPairs[extype] : r.key = p[1] /\ r.args = p[2]
  BY RequestIs
<1>3. r.key \in BoundKeys /\ r.args \in ArgSet
  BY <1>2 DEF BoundKeys, ArgSet
<1>4. Empty \in BoundKeys
  BY Zenon DEF BoundKeys
<1> QED BY <1>1, <1>3, <1>4 DEF BoundKey

(* A queue is attached to a binding, old or new. *)
LEMMA AttachIs ==
  ASSUME binding \in [Numbers -> BindingSet \cup {NoBinding}], NEW b \in Numbers,
         NEW record \in BindingSet, NEW q \in declared, AttachQueue(b, record, q)
  PROVE  /\ binding' \in [Numbers -> BindingSet \cup {NoBinding}]
         /\ Live' = Live \cup {b}
         /\ binding'[b].key = record.key /\ binding'[b].args = record.args
         /\ binding'[b].exclusive = record.exclusive
         /\ binding'[b].queues = record.queues \cup {q}
         /\ \A c \in Numbers : c # b => binding'[c] = binding[c]
<1>1. PICK new : new = [record EXCEPT !.queues = @ \cup {q}]
  OBVIOUS
<1>2. /\ new \in BindingSet /\ new.live = TRUE /\ new.key = record.key /\ new.args = record.args
      /\ new.exclusive = record.exclusive /\ new.queues = record.queues \cup {q}
  BY <1>1 DEF BindingSet
<1>3. binding' = [binding EXCEPT ![b] = new]
  BY <1>1 DEF AttachQueue
<1>4. /\ binding' \in [Numbers -> BindingSet \cup {NoBinding}] /\ binding'[b] = new
      /\ \A c \in Numbers : c # b => binding'[c] = binding[c]
  BY <1>2, <1>3
<1>5. Live' = {c \in Numbers : binding'[c].live}
  BY DEF Live, Numbers
<1>6. Live' = Live \cup {b}
  BY <1>2, <1>4, <1>5 DEF Live
<1> QED BY <1>2, <1>4, <1>6

(* The list of the queue's name, after a binding was attached. *)
LEMMA AttachListed ==
  ASSUME Listed, Handed, binding \in [Numbers -> BindingSet \cup {NoBinding}], NEW b \in Numbers,
         NEW record \in BindingSet, NEW q \in declared, AttachQueue(b, record, q),
         b \in Live => record = binding[b]
  PROVE  /\ Listed'
         /\ \A n \in Names : n # NameOf[q] => queue_bindings'[n] = queue_bindings[n]
         /\ ToSet(queue_bindings'[NameOf[q]]) = ToSet(queue_bindings[NameOf[q]]) \cup {b}
<1>0. /\ queue_bindings \in [Names -> Seq(Numbers)] /\ NameOf[q] \in Names
      /\ \A n \in Names : IsInjective(queue_bindings[n])
      /\ \A n \in Names : \A c \in ToSet(queue_bindings[n]) :
            c \in Live /\ \E p \in binding[c].queues : NameOf[p] = n
  BY DEF Listed, Handed, Names
<1>1. PICK s : s = queue_bindings[NameOf[q]]
  OBVIOUS
<1>2. s \in Seq(Numbers) /\ IsInjective(s) /\ Range(s) = ToSet(s)
  BY <1>0, <1>1 DEF Range, ToSet
<1>3. PICK u : u = IF b \in ToSet(s) THEN s ELSE Append(s, b)
  OBVIOUS
<1>4. u \in Seq(Numbers) /\ IsInjective(u) /\ ToSet(u) = ToSet(s) \cup {b}
  <2>1. CASE b \in ToSet(s)
    BY <1>2, <1>3, <2>1
  <2>2. CASE b \notin ToSet(s)
    BY <1>2, <1>3, <2>2, AppendSet
  <2> QED BY <2>1, <2>2
<1>5. queue_bindings' = [queue_bindings EXCEPT ![NameOf[q]] = u]
  BY <1>1, <1>2, <1>3 DEF AttachQueue
<1>6. /\ queue_bindings' \in [Names -> Seq(Numbers)] /\ queue_bindings'[NameOf[q]] = u
      /\ \A n \in Names : n # NameOf[q] => queue_bindings'[n] = queue_bindings[n]
  BY <1>0, <1>4, <1>5
<1>7. /\ Live' = Live \cup {b} /\ binding'[b].queues = record.queues \cup {q}
      /\ \A c \in Numbers : c # b => binding'[c] = binding[c]
  BY AttachIs
<1>8. ASSUME NEW n \in Names, NEW c \in ToSet(queue_bindings'[n])
      PROVE  c \in Live' /\ \E p \in binding'[c].queues : NameOf[p] = n
  <2>1. CASE n = NameOf[q] /\ c = b
    BY <1>7, <2>1
  <2>2. CASE ~(n = NameOf[q] /\ c = b)
    <3>1. c \in ToSet(queue_bindings[n])
      BY <1>1, <1>4, <1>6, <2>2
    <3>2. PICK p \in binding[c].queues : NameOf[p] = n /\ c \in Live
      BY <1>0, <3>1
    <3>3. p \in binding'[c].queues
      <4>1. CASE c = b
        BY <1>7, <3>2, <4>1
      <4>2. CASE c # b
        BY <1>7, <3>2, <4>2 DEF Live
      <4> QED BY <4>1, <4>2
    <3> QED BY <1>7, <3>2, <3>3
  <2> QED BY <2>1, <2>2
<1>9. \A n \in Names : IsInjective(queue_bindings'[n])
  BY <1>0, <1>4, <1>6
<1>10. Listed'
  BY <1>6, <1>8, <1>9 DEF Listed, Names, Numbers
<1> QED BY <1>1, <1>4, <1>6, <1>10

(* The bindings that are destroyed when a queue is detached. *)
Gone(bs, q) == {b \in bs : extype = "direct" /\ binding[b].queues \subseteq {q}}

(* A queue is detached from some bindings. *)
LEMMA DetachIs ==
  ASSUME Bindings, NEW bs \in SUBSET Live, NEW q, DetachQueue(bs, q), UNCHANGED <<extype, declared>>
  PROVE  /\ Live' = Live \ Gone(bs, q)
         /\ \A b \in Live' :
              /\ binding'[b].key = binding[b].key /\ binding'[b].args = binding[b].args
              /\ binding'[b].exclusive = binding[b].exclusive
              /\ b \notin bs => binding'[b].queues = binding[b].queues
              /\ b \in bs => binding'[b].queues = binding[b].queues \ {q}
         /\ Bindings'
<1>0. /\ binding \in [Numbers -> BindingSet \cup {NoBinding}]
      /\ \A b \in Live : Pair(b) \in compiled
      /\ binding_list \in Seq(Numbers) /\ IsInjective(binding_list) /\ ToSet(binding_list) = Live
      /\ binding_hash \in [BoundKeys -> Numbers \cup {0}]
      /\ \A k \in BoundKeys : binding_hash[k] # 0 =>
            binding_hash[k] \in Live /\ binding[binding_hash[k]].key = k
  BY DEF Bindings
<1>1. PICK gone : gone = Gone(bs, q)
  OBVIOUS
<1>2. /\ binding' = [b \in Numbers |->
                      IF b \in gone THEN NoBinding
                      ELSE IF b \in bs THEN [binding[b] EXCEPT !.queues = @ \ {q}]
                      ELSE binding[b]]
      /\ binding_list' = Without(binding_list, gone)
      /\ binding_hash' = [k \in BoundKeys |->
                            IF \E b \in gone : binding[b].key = k THEN 0 ELSE binding_hash[k]]
      /\ compiled' = compiled
  BY <1>1 DEF DetachQueue, Gone
<1>3. gone \subseteq bs /\ bs \subseteq Live /\ Live \subseteq Numbers
  BY <1>1 DEF Gone, Live
<1>4. /\ BindingSet' = BindingSet /\ BoundKeys' = BoundKeys /\ Numbers' = Numbers
      /\ NoBinding' = NoBinding
  BY DEF BindingSet, BoundKeys, ArgSet, Numbers, NoBinding
<1>5. ASSUME NEW b \in Live
      PROVE  /\ [binding[b] EXCEPT !.queues = @ \ {q}] \in BindingSet
             /\ [binding[b] EXCEPT !.queues = @ \ {q}].key = binding[b].key
             /\ [binding[b] EXCEPT !.queues = @ \ {q}].args = binding[b].args
             /\ [binding[b] EXCEPT !.queues = @ \ {q}].exclusive = binding[b].exclusive
             /\ [binding[b] EXCEPT !.queues = @ \ {q}].queues = binding[b].queues \ {q}
             /\ [binding[b] EXCEPT !.queues = @ \ {q}].live = TRUE
  <2>1. binding[b] \in BindingSet
    BY <1>0, LiveIs
  <2> QED BY <2>1 DEF BindingSet
<1>6. /\ \A b \in gone : binding'[b] = NoBinding
      /\ \A b \in bs \ gone : binding'[b] = [binding[b] EXCEPT !.queues = @ \ {q}]
      /\ \A b \in Numbers \ bs : binding'[b] = binding[b]
      /\ DOMAIN binding' = Numbers
  BY <1>2, <1>3
<1>7. binding' \in [Numbers -> BindingSet \cup {NoBinding}]
  <2>1. ASSUME NEW b \in Numbers PROVE binding'[b] \in BindingSet \cup {NoBinding}
    <3>1. CASE b \in gone
      BY <1>6, <3>1
    <3>2. CASE b \in bs \ gone
      BY <1>3, <1>5, <1>6, <3>2
    <3>3. CASE b \notin bs
      BY <1>0, <1>6, <3>3
    <3> QED BY <1>3, <3>1, <3>2, <3>3
  <2>2. binding' = [b \in Numbers |-> binding'[b]]
    BY <1>2
  <2> QED BY <2>1, <2>2
<1>8. Live' = Live \ gone
  <2>1. Live' = {b \in Numbers : binding'[b].live}
    BY <1>4 DEF Live
  <2>2. \A b \in gone : ~binding'[b].live
    BY <1>6 DEF NoBinding
  <2>3. \A b \in bs \ gone : binding'[b].live
    BY <1>3, <1>5, <1>6
  <2>4. \A b \in Numbers \ bs : binding'[b].live = binding[b].live
    BY <1>6
  <2> QED BY <1>3, <2>1, <2>2, <2>3, <2>4 DEF Live
<1>9. ASSUME NEW b \in Live'
      PROVE  /\ binding'[b].key = binding[b].key /\ binding'[b].args = binding[b].args
             /\ binding'[b].exclusive = binding[b].exclusive
             /\ b \notin bs => binding'[b].queues = binding[b].queues
             /\ b \in bs => binding'[b].queues = binding[b].queues \ {q}
  <2>1. b \in Live /\ b \notin gone /\ b \in Numbers
    BY <1>3, <1>8
  <2>2. CASE b \in bs
    BY <1>5, <1>6, <2>1, <2>2
  <2>3. CASE b \notin bs
    BY <1>6, <2>1, <2>3
  <2> QED BY <2>2, <2>3
<1>10. \A b \in Live' : Pair(b)' \in compiled'
  <2>1. \A b \in Live' : Pair(b)' = Pair(b) /\ b \in Live
    BY <1>8, <1>9 DEF Pair
  <2> QED BY <1>0, <1>2, <2>1
<1>11. /\ binding_list' \in Seq(Numbers) /\ IsInjective(binding_list') /\ ToSet(binding_list') = Live'
  <2>1. /\ Without(binding_list, gone) \in Seq(Numbers)
        /\ ToSet(Without(binding_list, gone)) = ToSet(binding_list) \ gone
        /\ IsInjective(binding_list) => IsInjective(Without(binding_list, gone))
    BY <1>0, WithoutIs
  <2> QED BY <1>0, <1>2, <1>8, <2>1
<1>12. binding_hash' \in [BoundKeys -> Numbers \cup {0}]
  BY <1>0, <1>2
<1>13. ASSUME NEW k \in BoundKeys, binding_hash'[k] # 0
       PROVE  binding_hash'[k] \in Live' /\ binding'[binding_hash'[k]].key = k
  <2>1. binding_hash'[k] = binding_hash[k] /\ ~\E b \in gone : binding[b].key = k
    BY <1>2, <1>13
  <2>2. binding_hash[k] \in Live /\ binding[binding_hash[k]].key = k
    BY <1>0, <1>13, <2>1
  <2>3. binding_hash[k] \in Live'
    BY <1>8, <2>1, <2>2
  <2> QED BY <1>9, <2>1, <2>2, <2>3
<1>14. Bindings'
  BY <1>4, <1>7, <1>10, <1>11, <1>12, <1>13 DEF Bindings
<1> QED BY <1>1, <1>8, <1>9, <1>14

(* The lists of the queue names, after a queue was detached from bindings that its
   name's list had and has no more. *)
LEMMA DetachListed ==
  ASSUME Bindings, Listed, NEW q \in Queues, NEW bs \in SUBSET ToSet(queue_bindings[NameOf[q]]),
         DetachQueue(bs, q), UNCHANGED <<extype, declared>>,
         queue_bindings' \in [Names -> Seq(Numbers)],
         \A n \in Names : n # NameOf[q] => queue_bindings'[n] = queue_bindings[n],
         IsInjective(queue_bindings'[NameOf[q]]),
         ToSet(queue_bindings'[NameOf[q]]) = ToSet(queue_bindings[NameOf[q]]) \ bs
  PROVE  Listed'
<1>0. /\ NameOf[q] \in Names
      /\ \A n \in Names : IsInjective(queue_bindings[n])
      /\ \A n \in Names : \A c \in ToSet(queue_bindings[n]) :
            c \in Live /\ \E p \in binding[c].queues : NameOf[p] = n
  BY DEF Listed, Names
<1>1. bs \in SUBSET Live
  BY <1>0
<1>2. /\ Live' = Live \ Gone(bs, q)
      /\ \A b \in Live' :
            /\ b \notin bs => binding'[b].queues = binding[b].queues
            /\ b \in bs => binding'[b].queues = binding[b].queues \ {q}
  <2>1. /\ Live' = Live \ Gone(bs, q)
        /\ \A b \in Live' :
              /\ binding'[b].key = binding[b].key /\ binding'[b].args = binding[b].args
              /\ binding'[b].exclusive = binding[b].exclusive
              /\ b \notin bs => binding'[b].queues = binding[b].queues
              /\ b \in bs => binding'[b].queues = binding[b].queues \ {q}
        /\ Bindings'
    BY <1>1, DetachIs, Zenon
  <2> QED BY <2>1
<1>3. ASSUME NEW n \in Names, NEW b \in ToSet(queue_bindings'[n])
      PROVE  b \in Live' /\ \E p \in binding'[b].queues : NameOf[p] = n
  <2>1. b \in ToSet(queue_bindings[n]) /\ (n = NameOf[q] => b \notin bs)
    BY <1>0, <1>3
  <2>2. PICK p \in binding[b].queues : NameOf[p] = n /\ b \in Live
    BY <1>0, <2>1
  <2>3. b \in bs => p # q
    BY <2>1, <2>2
  <2>4. b \notin Gone(bs, q)
    BY <2>2, <2>3 DEF Gone
  <2> QED BY <1>2, <2>2, <2>3, <2>4
<1>4. \A n \in Names : IsInjective(queue_bindings'[n])
  BY <1>0
<1> QED BY <1>3, <1>4 DEF Listed, Names, Numbers

-----------------------------------------------------------------------------
(* The steps of the exchange, seen from its tables *)

BindOld(b, q) ==
  /\ AttachQueue(b, binding[b], q)
  /\ UNCHANGED <<extype, fedtype, declared, binding_list, binding_hash, indexed, bindset, upstream,
                 aborted, compiled, routed>>

BindNew(b, key, args, q) ==
  /\ \E p \in BindPairs[extype] : key = BoundKey(p[1]) /\ args = p[2]
  /\ ExistingBinding(key, args) = 0
  /\ CreateBinding(b, key, args, q)
  /\ UNCHANGED <<extype, fedtype, declared, aborted, routed>>

Unlist(bs, q) ==
  /\ ~aborted
  /\ DetachQueue(bs, q)
  /\ queue_bindings' \in [Names -> Seq(Numbers)]
  /\ \A n \in Names : n # NameOf[q] => queue_bindings'[n] = queue_bindings[n]
  /\ IsInjective(queue_bindings'[NameOf[q]])
  /\ ToSet(queue_bindings'[NameOf[q]]) = ToSet(queue_bindings[NameOf[q]]) \ bs
  /\ UNCHANGED <<extype, fedtype, declared, routed>>
  /\ bs = ToSet(queue_bindings[NameOf[q]]) \/ \E b \in bs : bs = {b}

Same == UNCHANGED <<extype, fedtype, routes>>

(* Every step is one of these, or publishes. *)
LEMMA Moves ==
  ASSUME TableInv, Next
  PROVE  \/ Same /\ UNCHANGED routed
         \/ \E q \in declared, b \in Live : BindOld(b, q)
         \/ \E q \in declared, b \in Numbers, key \in BoundKeys, args \in ArgSet : BindNew(b, key, args, q)
         \/ \E q \in declared : \E bs \in SUBSET ToSet(queue_bindings[NameOf[q]]) : Unlist(bs, q)
         \/ HandlePublish
<1>0. Handed /\ Bindings /\ Listed
  BY DEF TableInv
<1>1. /\ mailbox \in Seq(Requests) /\ declared \subseteq Queues
      /\ queue_bindings \in [Names -> Seq(Numbers)] /\ \A n \in Names : IsInjective(queue_bindings[n])
      /\ \A q \in declared : NameOf[q] \in Names
  BY <1>0 DEF Handed, Listed, Names
<1>2. ASSUME NEW o, Request(o)
      PROVE  mailbox # <<>> /\ Head(mailbox) \in Requests /\ Head(mailbox).op = o /\ ~aborted
  BY <1>1, <1>2, TailIs DEF Request
<1>3. CASE HandleBind
  <2>1. PICK r : r = Head(mailbox)
    OBVIOUS
  <2>2. r \in Requests /\ r.op = "bind"
    BY <1>2, <1>3, <2>1 DEF HandleBind
  <2>3. PICK key, args, q : key = BoundKey(r.key) /\ args = r.args /\ q = r.queue
    OBVIOUS
  <2>4. key \in BoundKeys /\ args \in ArgSet /\ q \in declared
    BY <2>2, <2>3, BoundKeyIs
  <2>5. UNCHANGED <<extype, fedtype, declared, aborted, routed>>
    BY <1>3 DEF HandleBind, outside
  <2>6. \/ /\ ExistingBinding(key, args) = 0
           /\ \E b \in Numbers : CreateBinding(b, key, args, q)
        \/ /\ ExistingBinding(key, args) # 0
           /\ AttachQueue(ExistingBinding(key, args), binding[ExistingBinding(key, args)], q)
           /\ UNCHANGED <<binding_list, binding_hash, indexed, bindset, upstream, compiled>>
    BY <1>3, <2>1, <2>3 DEF HandleBind
  <2>7. CASE ExistingBinding(key, args) = 0
    <3>1. \E p \in BindPairs[extype] : key = BoundKey(p[1]) /\ args = p[2]
      BY <2>2, <2>3, RequestIs
    <3> QED BY <2>4, <2>5, <2>6, <2>7, <3>1 DEF BindNew
  <2>8. CASE ExistingBinding(key, args) # 0
    <3>1. PICK b \in Live : b = ExistingBinding(key, args)
      BY <1>0, <2>8, ExistingIs
    <3> QED BY <2>4, <2>5, <2>6, <2>8, <3>1 DEF BindOld
  <2> QED BY <2>7, <2>8
<1>4. CASE HandleUnbind
  <2>1. PICK r : r = Head(mailbox)
    OBVIOUS
  <2>2. r \in Requests /\ r.op = "unbind" /\ ~aborted
    BY <1>2, <1>4, <2>1 DEF HandleUnbind
  <2>3. PICK q, at : q = r.queue /\ at = Unbindable(q, r.key, r.args)
    OBVIOUS
  <2>4. q \in declared /\ NameOf[q] \in Names
    BY <1>1, <2>2, <2>3, RequestIs
  <2>5. UNCHANGED <<extype, fedtype, declared, routed>>
    BY <1>4 DEF HandleUnbind, outside
  <2>6. \/ at = {} /\ UNCHANGED routes
        \/ /\ at # {} /\ DetachQueue({queue_bindings[NameOf[q]][Min(at)]}, q)
           /\ queue_bindings' = [queue_bindings EXCEPT ![NameOf[q]] = RemoveAt(@, Min(at))]
    BY <1>4, <2>1, <2>3 DEF HandleUnbind
  <2>7. CASE at = {}
    BY <2>5, <2>6, <2>7 DEF Same
  <2>8. CASE at # {}
    <3>1. PICK s : s = queue_bindings[NameOf[q]]
      OBVIOUS
    <3>2. s \in Seq(Numbers) /\ IsInjective(s)
      BY <1>1, <2>4, <3>1
    <3>3. at \subseteq 1..Len(s) /\ at \in SUBSET Nat
      BY <2>3, <3>1, <3>2 DEF Unbindable
    <3>4. PICK i \in 1..Len(s) : i = Min(at)
      BY <2>8, <3>3, MinIs
    <3>5. PICK b, u : b = s[i] /\ u = RemoveAt(s, i)
      OBVIOUS
    <3>6. /\ u \in Seq(Numbers) /\ IsInjective(u) /\ ToSet(u) = ToSet(s) \ {b}
      BY <3>2, <3>5, RemoveAtSet
    <3>7. b \in ToSet(s)
      BY <3>2, <3>5, ToSetIs
    <3>8. DetachQueue({b}, q) /\ queue_bindings' = [queue_bindings EXCEPT ![NameOf[q]] = u]
      BY <2>6, <2>8, <3>1, <3>4, <3>5
    <3>9. /\ queue_bindings' \in [Names -> Seq(Numbers)] /\ queue_bindings'[NameOf[q]] = u
          /\ \A n \in Names : n # NameOf[q] => queue_bindings'[n] = queue_bindings[n]
      BY <1>1, <2>4, <3>6, <3>8
    <3>10. PICK bs \in SUBSET ToSet(s) : bs = {b}
      BY <3>7
    <3>11. Unlist(bs, q)
      BY <2>2, <2>5, <3>1, <3>6, <3>8, <3>9, <3>10 DEF Unlist
    <3> QED BY <2>4, <3>1, <3>11
  <2> QED BY <2>7, <2>8
<1>5. CASE HandleDelete
  <2>1. PICK q : q = Head(mailbox).queue
    OBVIOUS
  <2>2. q \in declared /\ NameOf[q] \in Names /\ ~aborted
    BY <1>1, <1>2, <1>5, <2>1, RequestIs DEF HandleDelete
  <2>3. UNCHANGED <<extype, fedtype, declared, routed>>
    BY <1>5 DEF HandleDelete, outside
  <2>4. PICK bs \in SUBSET ToSet(queue_bindings[NameOf[q]]) : bs = ToSet(queue_bindings[NameOf[q]])
    OBVIOUS
  <2>5. bs = Range(queue_bindings[NameOf[q]])
    BY <2>4 DEF Range, ToSet
  <2>6. DetachQueue(bs, q) /\ queue_bindings' = [queue_bindings EXCEPT ![NameOf[q]] = <<>>]
    BY <1>5, <2>1, <2>5 DEF HandleDelete
  <2>7. <<>> \in Seq(Numbers) /\ IsInjective(<<>>) /\ ToSet(<<>>) = {}
    BY DEF ToSet, IsInjective
  <2>8. /\ queue_bindings' \in [Names -> Seq(Numbers)] /\ queue_bindings'[NameOf[q]] = <<>>
        /\ \A n \in Names : n # NameOf[q] => queue_bindings'[n] = queue_bindings[n]
    BY <1>1, <2>2, <2>6, <2>7
  <2>9. Unlist(bs, q)
    BY <2>2, <2>3, <2>4, <2>6, <2>7, <2>8 DEF Unlist
  <2> QED BY <2>2, <2>9
<1>6. CASE (\E q \in Queues : Declare(q) \/ SelfDestruct(q)) \/ (\E t \in Threads, n \in Names : Search(t, n))
           \/ BrokerDeleteQueue
  BY <1>6 DEF Declare, SelfDestruct, Search, BrokerDeleteQueue, Same
<1>7. CASE \/ \E t \in Threads, p \in BindPairs[extype] : PostBind(t, p) \/ PostUnbind(t, p)
           \/ \E m \in Messages[extype] : PostPublish(m)
  BY <1>7 DEF PostBind, PostUnbind, PostPublish, Post, Same
<1> QED BY <1>3, <1>4, <1>5, <1>6, <1>7 DEF Next

(* What is assumed of the keys that can be indexed, for the kind of this exchange. *)
LEMMA IndexKeysAre ==
  ASSUME Handed
  PROVE  /\ MatchAll \in IndexKeys /\ Blank \in IndexKeys /\ Empty \in IndexKeys
         /\ \A p \in BindPairs[extype] :
              /\ extype = "topic" /\ ~IsWildcard(p[1]) => p[1] \in IndexKeys
              /\ extype = "headers" => p[2].fields \subseteq IndexKeys
         /\ extype \in {"topic", "regexp"} => \A m \in Messages[extype] : m.key \in IndexKeys
<1>1. PICK k : k = <<extype, fedtype>>
  OBVIOUS
<1>2. k \in Kinds /\ k[1] = extype
  BY <1>1 DEF Handed
<1>3. MatchAll \in IndexKeys /\ Blank \in IndexKeys /\ Empty \in IndexKeys
  BY IndexAssumption, Zenon
<1>4. /\ \A p \in BindPairs[k[1]] :
            /\ k[1] = "topic" /\ ~IsWildcard(p[1]) => p[1] \in IndexKeys
            /\ k[1] = "headers" => p[2].fields \subseteq IndexKeys
      /\ k[1] \in {"topic", "regexp"} => \A m \in Messages[k[1]] : m.key \in IndexKeys
  BY <1>2, IndexAssumption, Zenon
<1> QED BY <1>2, <1>3, <1>4

(* The keys a binding is compiled into. *)
LEMMA CompiledIs ==
  ASSUME Handed, indexed \subseteq IndexKeys, NEW key \in BoundKeys, NEW args \in ArgSet
  PROVE  /\ CompiledKeys(key, args) \subseteq IndexKeys
         /\ extype = "headers" => CompiledKeys(key, args) = FieldKeys(args)
         /\ extype = "topic" /\ ~IsWildcard(key) => CompiledKeys(key, args) = {key}
         /\ extype = "topic" /\ IsWildcard(key) =>
              CompiledKeys(key, args) = {k \in indexed : Accepted(key, k)}
         /\ extype = "regexp" => CompiledKeys(key, args) = {k \in indexed : Accepted(key, k)}
         /\ extype \notin {"headers", "topic", "regexp"} => CompiledKeys(key, args) = {}
<1>1. PICK p \in BindPairs[extype] : args = p[2]
  BY DEF ArgSet
<1>2. CASE extype = "headers"
  <2>1. CompiledKeys(key, args) = FieldKeys(args)
    BY <1>2 DEF CompiledKeys, IsWild
  <2>2. FieldKeys(args) \subseteq IndexKeys
    BY <1>1, <1>2, IndexKeysAre DEF FieldKeys
  <2> QED BY <1>2, <2>1, <2>2
<1>3. CASE extype = "topic" /\ ~IsWildcard(key)
  <2>0. extype = "topic" /\ extype # "headers" /\ ~IsWild(key)
    BY <1>3 DEF IsWild
  <2>1. CompiledKeys(key, args) = {key}
    BY <2>0 DEF CompiledKeys
  <2>2. key = Empty \/ \E r \in BindPairs[extype] : key = r[1]
    BY Zenon DEF BoundKeys
  <2>3. /\ Empty \in IndexKeys
        /\ \A r \in BindPairs[extype] : extype = "topic" /\ ~IsWildcard(r[1]) => r[1] \in IndexKeys
    BY IndexKeysAre
  <2>4. key \in IndexKeys
    BY <1>3, <2>2, <2>3, Zenon
  <2> QED BY <1>3, <2>1, <2>4
<1>4. CASE extype = "topic" /\ IsWildcard(key)
  <2>1. CompiledKeys(key, args) = {k \in indexed : Accepted(key, k)}
    BY <1>4 DEF CompiledKeys, IsWild
  <2> QED BY <1>4, <2>1
<1>5. CASE extype = "regexp"
  <2>1. CompiledKeys(key, args) = {k \in indexed : Accepted(key, k)}
    BY <1>5 DEF CompiledKeys, IsWild
  <2> QED BY <1>5, <2>1
<1>6. CASE extype \notin {"headers", "topic", "regexp"}
  <2>1. CompiledKeys(key, args) = {}
    BY <1>6 DEF CompiledKeys, IsWild
  <2> QED BY <1>6, <2>1
<1> QED BY <1>2, <1>3, <1>4, <1>5, <1>6

(* A binding is created. *)
LEMMA CreateIs ==
  ASSUME TableInv, NEW q \in declared, NEW b \in Numbers, NEW key \in BoundKeys, NEW args \in ArgSet,
         BindNew(b, key, args, q)
  PROVE  /\ b \notin Live /\ Live' = Live \cup {b}
         /\ binding'[b].key = key /\ binding'[b].args = args
         /\ binding'[b].exclusive = (q \in Exclusive) /\ binding'[b].queues = {q}
         /\ \A c \in Live : binding'[c] = binding[c]
         /\ Bindings' /\ Listed' /\ Indices'
<1>0. Handed /\ Bindings /\ Listed /\ Indices
  BY DEF TableInv
<1>1. /\ binding \in [Numbers -> BindingSet \cup {NoBinding}]
      /\ \A c \in Live : Pair(c) \in compiled
      /\ binding_list \in Seq(Numbers) /\ IsInjective(binding_list) /\ ToSet(binding_list) = Live
      /\ binding_hash \in [BoundKeys -> Numbers \cup {0}]
      /\ \A k \in BoundKeys : binding_hash[k] # 0 =>
            binding_hash[k] \in Live /\ binding[binding_hash[k]].key = k
  BY <1>0 DEF Bindings
<1>2. /\ binding[b] = NoBinding /\ Compile(b, key, args) /\ compiled' = compiled \cup {<<key, args>>}
      /\ binding_hash' = [binding_hash EXCEPT ![key] = IF @ = 0 THEN b ELSE @]
      /\ binding_list' = IF IsWild(key) THEN <<b>> \o binding_list ELSE Append(binding_list, b)
      /\ UNCHANGED <<extype, declared>>
  BY DEF BindNew, CreateBinding
<1>3. PICK record : record = NewBinding(key, args, q \in Exclusive)
  OBVIOUS
<1>4. /\ record \in BindingSet /\ record.key = key /\ record.args = args
      /\ record.exclusive = (q \in Exclusive) /\ record.queues = {}
  BY <1>3 DEF NewBinding, BindingSet
<1>5. AttachQueue(b, record, q)
  BY <1>3 DEF BindNew, CreateBinding
<1>6. b \notin Live
  BY <1>1, <1>2, BindingIs
<1>7. /\ binding' \in [Numbers -> BindingSet \cup {NoBinding}]
      /\ Live' = Live \cup {b}
      /\ binding'[b].key = record.key /\ binding'[b].args = record.args
      /\ binding'[b].exclusive = record.exclusive
      /\ binding'[b].queues = record.queues \cup {q}
      /\ \A c \in Numbers : c # b => binding'[c] = binding[c]
  BY <1>1, <1>4, <1>5, AttachIs
<1>8. \A c \in Live : binding'[c] = binding[c] /\ c # b /\ c \in Numbers
  BY <1>6, <1>7 DEF Live
<1>9. Listed'
  BY <1>0, <1>1, <1>4, <1>5, <1>6, AttachListed
<1>10. /\ BindingSet' = BindingSet /\ BoundKeys' = BoundKeys /\ Numbers' = Numbers
       /\ NoBinding' = NoBinding
  BY <1>2 DEF BindingSet, BoundKeys, ArgSet, Numbers, NoBinding
<1>11. ASSUME NEW c \in Live' PROVE Pair(c)' \in compiled'
  <2>1. CASE c = b
    BY <1>2, <1>4, <1>7, <2>1 DEF Pair
  <2>2. CASE c # b
    <3>1. c \in Live /\ binding'[c] = binding[c]
      BY <1>7, <1>8, <2>2
    <3>2. Pair(c)' = Pair(c)
      BY <3>1 DEF Pair
    <3> QED BY <1>1, <1>2, <3>1, <3>2
  <2> QED BY <2>1, <2>2
<1>12. binding_list' \in Seq(Numbers) /\ IsInjective(binding_list') /\ ToSet(binding_list') = Live'
  <2>1. CASE IsWild(key)
    BY <1>1, <1>2, <1>6, <1>7, <2>1, ConsSet
  <2>2. CASE ~IsWild(key)
    BY <1>1, <1>2, <1>6, <1>7, <2>2, AppendSet
  <2> QED BY <2>1, <2>2
<1>13. binding_hash' \in [BoundKeys -> Numbers \cup {0}]
  BY <1>1, <1>2
<1>14. ASSUME NEW k \in BoundKeys, binding_hash'[k] # 0
       PROVE  binding_hash'[k] \in Live' /\ binding'[binding_hash'[k]].key = k
  <2>1. CASE k = key /\ binding_hash[k] = 0
    <3>1. binding_hash'[k] = b
      BY <1>1, <1>2, <2>1
    <3> QED BY <1>4, <1>7, <2>1, <3>1
  <2>2. CASE ~(k = key /\ binding_hash[k] = 0)
    <3>1. binding_hash'[k] = binding_hash[k]
      BY <1>1, <1>2, <2>2
    <3>2. binding_hash[k] \in Live /\ binding[binding_hash[k]].key = k
      BY <1>1, <1>14, <3>1
    <3> QED BY <1>7, <1>8, <3>1, <3>2
  <2> QED BY <2>1, <2>2
<1>15. Bindings'
  BY <1>7, <1>10, <1>11, <1>12, <1>13, <1>14 DEF Bindings
<1>16. Indices'
  <2>0. /\ indexed \subseteq IndexKeys /\ bindset \in [IndexKeys -> SUBSET Numbers]
        /\ \A k \in IndexKeys : bindset[k] \subseteq Live
        /\ \A k \in IndexKeys : extype = "direct" \/ k \notin indexed => bindset[k] = {}
    BY <1>0 DEF Indices
  <2>1. PICK keys : keys = CompiledKeys(key, args)
    OBVIOUS
  <2>2. /\ indexed' = indexed \cup keys
        /\ bindset' = [k \in IndexKeys |-> IF k \in keys THEN bindset[k] \cup {b} ELSE bindset[k]]
    BY <1>2, <2>1 DEF Compile
  <2>3. keys \subseteq IndexKeys /\ (extype = "direct" => keys = {})
    BY <1>0, <2>0, <2>1, CompiledIs
  <2>4. bindset' \in [IndexKeys -> SUBSET Numbers]
    BY <2>0, <2>2
  <2>5. \A k \in IndexKeys : bindset'[k] \subseteq Live'
    BY <1>7, <2>0, <2>2
  <2>6. \A k \in IndexKeys : extype' = "direct" \/ k \notin indexed' => bindset'[k] = {}
    BY <1>2, <2>0, <2>2, <2>3
  <2> QED BY <1>10, <2>0, <2>2, <2>3, <2>4, <2>5, <2>6 DEF Indices
<1> QED BY <1>4, <1>6, <1>7, <1>8, <1>9, <1>15, <1>16

(* The bindings a new index is compiled from exist. *)
LEMMA ScannedIs ==
  ASSUME Bindings
  PROVE  Scanned \subseteq Live
<1>1. binding_list \in Seq(Numbers) /\ ToSet(binding_list) = Live
  BY DEF Bindings
<1>2. \A b : b \in Live <=> \E i \in 1..Len(binding_list) : binding_list[i] = b
  BY <1>1, ToSetIs
<1>3. DOMAIN binding_list = 1..Len(binding_list)
  BY <1>1
<1> QED BY <1>2, <1>3 DEF Scanned

(* A message is published. *)
LEMMA PublishIs ==
  ASSUME TableInv, HandlePublish
  PROVE  /\ UNCHANGED <<extype, fedtype, declared, binding, binding_list, binding_hash,
                        queue_bindings, upstream, aborted, compiled>>
         /\ Head(mailbox).message \in Messages[extype]
         /\ \/ UNCHANGED <<indexed, bindset>>
            \/ /\ extype \in {"topic", "regexp"}
               /\ PublishedKey(Head(mailbox).message) \in IndexKeys
               /\ IndexKey(PublishedKey(Head(mailbox).message))
<1>1. PICK m : m = Head(mailbox).message
  OBVIOUS
<1>2. mailbox # <<>> /\ mailbox \in Seq(Requests) /\ Head(mailbox).op = "publish" /\ Handed
  BY DEF HandlePublish, Request, TableInv, Handed
<1>3. m \in Messages[extype]
  BY <1>1, <1>2, TailIs, RequestIs
<1>4. /\ UNCHANGED <<extype, fedtype, declared, binding, binding_list, binding_hash,
                     queue_bindings, upstream, aborted, compiled>>
  BY DEF HandlePublish, outside
<1>5. \/ UNCHANGED <<indexed, bindset>>
      \/ extype \in {"topic", "regexp"} /\ IndexKey(PublishedKey(m))
  BY <1>1 DEF HandlePublish
<1>6. extype \in {"topic", "regexp"} => PublishedKey(m) \in IndexKeys
  <2> SUFFICES ASSUME extype \in {"topic", "regexp"} PROVE PublishedKey(m) \in IndexKeys
    OBVIOUS
  <2>1. Blank \in IndexKeys /\ m.key \in IndexKeys
    BY <1>2, <1>3, IndexKeysAre
  <2> QED BY <2>1 DEF PublishedKey
<1> QED BY <1>1, <1>3, <1>4, <1>5, <1>6

(* Every step of the system preserves the invariant of the tables. *)
LEMMA TableNext == TableInv /\ [Next]_vars => TableInv'
<1> SUFFICES ASSUME TableInv, [Next]_vars PROVE TableInv'
  OBVIOUS
<1>0. Handed /\ Bindings /\ Listed /\ Indices
  BY DEF TableInv
<1>1. ASSUME UNCHANGED <<binding, binding_list, binding_hash, compiled, extype>>,
             declared \subseteq declared'
      PROVE  Bindings'
  <2>1. /\ BoundKeys' = BoundKeys /\ NoBinding' = NoBinding /\ Numbers' = Numbers /\ ArgSet' = ArgSet
        /\ Live' = Live /\ \A b : Pair(b)' = Pair(b)
    BY <1>1 DEF BoundKeys, NoBinding, Numbers, ArgSet, Live, Pair
  <2>2. BindingSet \subseteq BindingSet'
    <3>1. \A r \in BindingSet : r \in BindingSet'
      BY <1>1, <2>1 DEF BindingSet
    <3> QED BY <3>1
  <2>3. binding' \in [Numbers -> BindingSet' \cup {NoBinding}]
    BY <1>0, <1>1, <2>2 DEF Bindings
  <2> QED BY <1>0, <1>1, <2>1, <2>3 DEF Bindings
<1>2. ASSUME UNCHANGED <<binding, queue_bindings>> PROVE Listed'
  BY <1>0, <1>2 DEF Listed, Live, Numbers, Names
<1>3. ASSUME UNCHANGED <<binding, indexed, bindset, extype>> PROVE Indices'
  BY <1>0, <1>3 DEF Indices, Live, Numbers
<1>4. CASE Next
  <2>0. Handed' /\ declared \subseteq declared' /\ UNCHANGED <<extype, fedtype>>
    BY <1>0, <1>4, HandedNext
  <2>1. CASE Same
    BY <1>1, <1>2, <1>3, <2>0, <2>1 DEF Same, routes, TableInv
  <2>2. ASSUME NEW q \in declared, NEW b \in Live, BindOld(b, q) PROVE TableInv'
    <3>1. /\ AttachQueue(b, binding[b], q)
          /\ UNCHANGED <<extype, declared, binding_list, binding_hash, indexed, bindset, compiled>>
      BY <2>2 DEF BindOld
    <3>2. binding \in [Numbers -> BindingSet \cup {NoBinding}]
      BY <1>0 DEF Bindings
    <3>3. b \in Numbers /\ binding[b] \in BindingSet
      BY <3>2, LiveIs
    <3>4. /\ binding' \in [Numbers -> BindingSet \cup {NoBinding}]
          /\ Live' = Live \cup {b}
          /\ binding'[b].key = binding[b].key /\ binding'[b].args = binding[b].args
          /\ binding'[b].exclusive = binding[b].exclusive
          /\ binding'[b].queues = binding[b].queues \cup {q}
          /\ \A c \in Numbers : c # b => binding'[c] = binding[c]
      BY <3>1, <3>2, <3>3, AttachIs
    <3>5. Live' = Live
      BY <3>4
    <3>6. Listed'
      BY <1>0, <3>1, <3>2, <3>3, AttachListed
    <3>7. Indices'
      BY <1>0, <3>1, <3>5 DEF Indices, Numbers
    <3>8. \A c \in Live : binding'[c].key = binding[c].key /\ Pair(c)' = Pair(c)
      BY <3>4 DEF Pair, Live
    <3>9. /\ BindingSet' = BindingSet /\ BoundKeys' = BoundKeys /\ Numbers' = Numbers
          /\ NoBinding' = NoBinding
      BY <3>1 DEF BindingSet, BoundKeys, ArgSet, Numbers, NoBinding
    <3>10. Bindings'
      BY <1>0, <3>1, <3>4, <3>5, <3>8, <3>9 DEF Bindings
    <3> QED BY <2>0, <3>6, <3>7, <3>10 DEF TableInv
  <2>3. ASSUME NEW q \in declared, NEW b \in Numbers, NEW key \in BoundKeys, NEW args \in ArgSet,
               BindNew(b, key, args, q)
        PROVE  TableInv'
    BY <2>0, <2>3, CreateIs DEF TableInv
  <2>4. ASSUME NEW q \in declared, NEW bs \in SUBSET ToSet(queue_bindings[NameOf[q]]), Unlist(bs, q)
        PROVE  TableInv'
    <3>1. /\ DetachQueue(bs, q)
          /\ queue_bindings' \in [Names -> Seq(Numbers)]
          /\ \A n \in Names : n # NameOf[q] => queue_bindings'[n] = queue_bindings[n]
          /\ IsInjective(queue_bindings'[NameOf[q]])
          /\ ToSet(queue_bindings'[NameOf[q]]) = ToSet(queue_bindings[NameOf[q]]) \ bs
          /\ UNCHANGED <<extype, declared>>
      BY <2>4 DEF Unlist
    <3>2. q \in Queues /\ NameOf[q] \in Names
      BY <1>0 DEF Handed, Names
    <3>3. Listed'
      BY <1>0, <3>1, <3>2, DetachListed, Zenon
    <3>4. bs \in SUBSET Live
      BY <1>0, <3>2 DEF Listed
    <3>5. Live' = Live \ Gone(bs, q) /\ Bindings'
      BY <1>0, <3>1, <3>4, DetachIs
    <3>6. UNCHANGED <<indexed, bindset>>
      BY <3>1 DEF DetachQueue
    <3>7. \A k \in IndexKeys : bindset[k] \subseteq Live'
      BY <1>0, <3>5 DEF Indices, Gone
    <3>8. Indices'
      BY <1>0, <2>0, <3>6, <3>7 DEF Indices, Numbers
    <3> QED BY <2>0, <3>3, <3>5, <3>8 DEF TableInv
  <2>5. CASE HandlePublish
    <3>1. PICK k : k = PublishedKey(Head(mailbox).message)
      OBVIOUS
    <3>2. /\ UNCHANGED <<extype, declared, binding, binding_list, binding_hash, queue_bindings, compiled>>
          /\ \/ UNCHANGED <<indexed, bindset>>
             \/ extype \in {"topic", "regexp"} /\ k \in IndexKeys /\ IndexKey(k)
      BY <2>5, <3>1, PublishIs
    <3>3. Bindings' /\ Listed'
      BY <1>1, <1>2, <3>2
    <3>4. CASE UNCHANGED <<indexed, bindset>>
      BY <1>3, <2>0, <3>2, <3>3, <3>4 DEF TableInv
    <3>5. CASE extype \in {"topic", "regexp"} /\ k \in IndexKeys /\ IndexKey(k) /\ k \notin indexed
      <4>1. PICK new : new = {b \in Scanned : Accepted(binding[b].key, k)}
        OBVIOUS
      <4>2. indexed' = indexed \cup {k} /\ bindset' = [bindset EXCEPT ![k] = new]
        BY <3>5, <4>1 DEF IndexKey
      <4>3. new \subseteq Live /\ Live \subseteq Numbers
        BY <1>0, <4>1, ScannedIs DEF Live
      <4>4. /\ indexed \subseteq IndexKeys /\ bindset \in [IndexKeys -> SUBSET Numbers]
            /\ \A j \in IndexKeys : bindset[j] \subseteq Live
            /\ \A j \in IndexKeys : extype = "direct" \/ j \notin indexed => bindset[j] = {}
        BY <1>0 DEF Indices
      <4>5. Live' = Live /\ Numbers' = Numbers
        BY <3>2 DEF Live, Numbers
      <4>6. bindset' \in [IndexKeys -> SUBSET Numbers]
        BY <4>2, <4>3, <4>4
      <4>7. \A j \in IndexKeys : bindset'[j] \subseteq Live
        BY <4>2, <4>3, <4>4
      <4>8. \A j \in IndexKeys : extype' = "direct" \/ j \notin indexed' => bindset'[j] = {}
        BY <3>2, <3>5, <4>2, <4>4
      <4>9. Indices'
        BY <3>5, <4>2, <4>4, <4>5, <4>6, <4>7, <4>8 DEF Indices
      <4> QED BY <2>0, <3>3, <4>9 DEF TableInv
    <3> QED BY <3>2, <3>4, <3>5 DEF IndexKey
  <2> QED BY <1>4, <2>1, <2>2, <2>3, <2>4, <2>5, Moves
<1>5. CASE UNCHANGED vars
  <2>1. UNCHANGED <<extype, fedtype, table, declared, found, deletes, removed, mailbox, routes>>
    BY <1>5 DEF vars, outside
  <2>2. Handed'
    <3>1. Requests' = Requests
      BY <2>1 DEF Requests
    <3> QED BY <1>0, <2>1, <3>1 DEF Handed, Names
  <2> QED BY <1>1, <1>2, <1>3, <2>1, <2>2 DEF routes, TableInv
<1> QED BY <1>4, <1>5

(* A new exchange has no bindings. *)
LEMMA TableInit == Init => TableInv
<1> SUFFICES ASSUME Init PROVE TableInv
  OBVIOUS
<1>1. Handed
  <2>1. <<extype, fedtype>> \in Kinds
    <3>1. PICK k \in Kinds : extype = k[1] /\ fedtype = k[2]
      BY DEF Init
    <3> QED BY <3>1, ExchangeAssumption
  <2>2. <<>> \in Seq(declared) /\ <<>> \in Seq(Requests)
    OBVIOUS
  <2> QED BY <2>1, <2>2 DEF Init, Handed
<1>2. Live = {}
  BY DEF Init, Live, NoBinding
<1>3. ToSet(<<>>) = {} /\ IsInjective(<<>>) /\ <<>> \in Seq(Numbers)
  BY DEF ToSet, IsInjective
<1>4. Bindings
  BY <1>2, <1>3 DEF Init, Bindings
<1>5. Listed
  BY <1>2, <1>3 DEF Init, Listed
<1>6. Indices
  BY <1>2 DEF Init, Indices
<1> QED BY <1>1, <1>4, <1>5, <1>6 DEF TableInv

(* The tables keep their shape in every behaviour. *)
LEMMA TablesKept == Spec => []TableInv
<1> QED BY TableInit, TableNext, PTL DEF Spec

(* The shapes of the exchange's tables, and numbers that are in range: a binding that is
   in the list, the hash, the list of a queue or a bitmap was created and not destroyed
   (amq_exchange.icl, amq_binding.icl). *)
THEOREM TypeCorrect == Spec => []TypeOK
<1>1. TableInv => TypeOK
  <2> SUFFICES ASSUME TableInv PROVE TypeOK
    OBVIOUS
  <2>1. /\ <<extype, fedtype>> \in Kinds
        /\ declared \subseteq Queues /\ removed \subseteq Queues
        /\ table \in [Names -> declared \cup {NoQueue}]
        /\ found \in [Threads -> declared \cup {NoQueue}]
        /\ deletes \in Seq(declared)
    BY DEF TableInv, Handed
  <2>2. deletes \in Seq(Queues)
    BY <2>1, SeqSub
  <2>3. /\ binding \in [Numbers -> BindingSet \cup {NoBinding}]
        /\ \A b \in Live : Pair(b) \in compiled
        /\ binding_list \in Seq(Numbers) /\ IsInjective(binding_list) /\ ToSet(binding_list) = Live
        /\ binding_hash \in [BoundKeys -> Numbers \cup {0}]
        /\ \A k \in BoundKeys : binding_hash[k] # 0 => binding_hash[k] \in Live
    BY DEF TableInv, Bindings
  <2>4. \A b \in Live : binding[b].queues \subseteq declared
    BY <2>3, LiveIs
  <2>5. Range(binding_list) = Live
    BY <2>3 DEF Range, ToSet
  <2>6. binding_hash \in [BoundKeys -> Live \cup {0}]
    BY <2>3
  <2>7. queue_bindings \in [Names -> Seq(Live)]
    <3>1. ASSUME NEW n \in Names PROVE queue_bindings[n] \in Seq(Live)
      <4>1. queue_bindings[n] \in Seq(Numbers) /\ \A b \in ToSet(queue_bindings[n]) : b \in Live
        BY DEF TableInv, Listed
      <4>2. \A i \in 1..Len(queue_bindings[n]) : queue_bindings[n][i] \in Live
        BY <4>1, ToSetIs
      <4> QED BY <4>1, <4>2
    <3>2. queue_bindings \in [Names -> Seq(Numbers)]
      BY DEF TableInv, Listed
    <3> QED BY <3>1, <3>2
  <2>8. indexed \subseteq IndexKeys /\ bindset \in [IndexKeys -> SUBSET Numbers]
    BY DEF TableInv, Indices
  <2>9. table \in [Names -> Queues \cup {NoQueue}] /\ found \in [Threads -> Queues \cup {NoQueue}]
    BY <2>1
  <2> QED BY <2>1, <2>2, <2>3, <2>4, <2>5, <2>6, <2>7, <2>8, <2>9 DEF TypeOK
<1> QED BY <1>1, TablesKept, PTL

(* A bit of an index names a binding that still exists, so the publish of the topic,
   regexp and headers exchanges never reads a destroyed one: the direct exchange, which
   destroys bindings, compiles no index (amq_exchange_topic.icl, amq_exchange_headers.icl). *)
THEOREM IndexKept == Spec => []IndexLive
<1>1. TableInv => IndexLive
  BY DEF TableInv, Indices, IndexLive
<1> QED BY <1>1, TablesKept, PTL

-----------------------------------------------------------------------------
(* What the queue's list has *)

DistinctNames == \A p, q \in Queues : NameOf[p] = NameOf[q] => p = q

(* A queue that is attached to a binding has it in its list, if no two queues share a name. *)
LEMMA AttachedNext ==
  ASSUME DistinctNames, TableInv, Attached, [Next]_vars
  PROVE  Attached'
<1>0. Handed /\ Bindings /\ Listed /\ binding \in [Numbers -> BindingSet \cup {NoBinding}]
      /\ declared \subseteq Queues
  BY DEF TableInv, Bindings, Handed
<1>1. ASSUME UNCHANGED <<binding, queue_bindings>> PROVE Attached'
  BY <1>1 DEF Attached, Live, Numbers
<1>2. ASSUME NEW q \in declared, NEW b \in Numbers, NEW record \in BindingSet,
             AttachQueue(b, record, q), \A p \in record.queues : b \in Live /\ p \in binding[b].queues,
             b \in Live => record = binding[b]
      PROVE  Attached'
  <2>1. /\ Live' = Live \cup {b} /\ binding'[b].queues = record.queues \cup {q}
        /\ \A c \in Numbers : c # b => binding'[c] = binding[c]
    BY <1>0, <1>2, AttachIs
  <2>2. /\ \A n \in Names : n # NameOf[q] => queue_bindings'[n] = queue_bindings[n]
        /\ ToSet(queue_bindings'[NameOf[q]]) = ToSet(queue_bindings[NameOf[q]]) \cup {b}
    BY <1>0, <1>2, AttachListed
  <2>3. ASSUME NEW p \in Queues, NEW c \in Live', p \in binding'[c].queues
        PROVE  c \in ToSet(queue_bindings'[NameOf[p]])
    <3>1. NameOf[p] \in Names
      BY DEF Names
    <3>2. CASE c = b /\ p = q
      BY <2>2, <3>2
    <3>3. CASE ~(c = b /\ p = q)
      <4>1. c \in Live /\ p \in binding[c].queues
        <5>1. CASE c = b
          BY <1>2, <2>1, <2>3, <3>3, <5>1
        <5>2. CASE c # b
          BY <2>1, <2>3, <5>2 DEF Live
        <5> QED BY <5>1, <5>2
      <4>2. c \in ToSet(queue_bindings[NameOf[p]])
        BY <4>1 DEF Attached
      <4> QED BY <2>2, <3>1, <4>2
    <3> QED BY <3>2, <3>3
  <2> QED BY <2>3 DEF Attached
<1>3. ASSUME NEW q \in declared, NEW b \in Live, BindOld(b, q) PROVE Attached'
  <2>1. b \in Numbers /\ binding[b] \in BindingSet
    BY <1>0, LiveIs
  <2> QED BY <1>2, <1>3, <2>1 DEF BindOld
<1>4. ASSUME NEW q \in declared, NEW b \in Numbers, NEW key \in BoundKeys, NEW args \in ArgSet,
             BindNew(b, key, args, q)
      PROVE  Attached'
  <2>1. PICK record : record = NewBinding(key, args, q \in Exclusive)
    OBVIOUS
  <2>2. record \in BindingSet /\ record.queues = {}
    BY <2>1 DEF NewBinding, BindingSet
  <2>3. AttachQueue(b, record, q)
    BY <1>4, <2>1 DEF BindNew, CreateBinding
  <2>4. b \notin Live
    BY <1>4, CreateIs
  <2> QED BY <1>2, <2>2, <2>3, <2>4
<1>5. ASSUME NEW q \in declared, NEW bs \in SUBSET ToSet(queue_bindings[NameOf[q]]), Unlist(bs, q)
      PROVE  Attached'
  <2>1. /\ DetachQueue(bs, q) /\ UNCHANGED <<extype, declared>>
        /\ \A n \in Names : n # NameOf[q] => queue_bindings'[n] = queue_bindings[n]
        /\ ToSet(queue_bindings'[NameOf[q]]) = ToSet(queue_bindings[NameOf[q]]) \ bs
    BY <1>5 DEF Unlist
  <2>2. q \in Queues /\ NameOf[q] \in Names
    BY <1>0 DEF Names
  <2>3. bs \in SUBSET Live
    BY <1>0, <2>2 DEF Listed
  <2>4. /\ Live' = Live \ Gone(bs, q)
        /\ \A b \in Live' : /\ b \notin bs => binding'[b].queues = binding[b].queues
                            /\ b \in bs => binding'[b].queues = binding[b].queues \ {q}
    <3>1. /\ Live' = Live \ Gone(bs, q)
          /\ \A b \in Live' :
                /\ binding'[b].key = binding[b].key /\ binding'[b].args = binding[b].args
                /\ binding'[b].exclusive = binding[b].exclusive
                /\ b \notin bs => binding'[b].queues = binding[b].queues
                /\ b \in bs => binding'[b].queues = binding[b].queues \ {q}
          /\ Bindings'
      BY <1>0, <2>1, <2>3, DetachIs, Zenon
    <3> QED BY <3>1
  <2>5. ASSUME NEW p \in Queues, NEW b \in Live', p \in binding'[b].queues
        PROVE  b \in ToSet(queue_bindings'[NameOf[p]])
    <3>1. b \in Live /\ p \in binding[b].queues /\ (b \in bs => p # q)
      BY <2>4, <2>5
    <3>2. b \in ToSet(queue_bindings[NameOf[p]]) /\ NameOf[p] \in Names
      BY <3>1 DEF Attached, Names
    <3>3. CASE p = q
      BY <2>1, <3>1, <3>2, <3>3
    <3>4. CASE p # q
      BY <2>1, <2>2, <3>2, <3>4 DEF DistinctNames
    <3> QED BY <3>3, <3>4
  <2> QED BY <2>5 DEF Attached
<1>6. CASE Next
  <2>1. CASE Same
    BY <1>1, <2>1 DEF Same, routes
  <2>2. CASE HandlePublish
    BY <1>1, <2>2, PublishIs
  <2> QED BY <1>3, <1>4, <1>5, <1>6, <2>1, <2>2, Moves
<1>7. CASE UNCHANGED vars
  BY <1>1, <1>7 DEF vars, routes
<1> QED BY <1>6, <1>7

(* As long as no two queues share a name, the list that unbind and delete work from has
   exactly the bindings its queue is attached to, so neither leaves a binding behind that
   still routes to a deleted queue (amq_exchange.icl, amq_queue_bindings.icl). *)
THEOREM ListsKept == DistinctNames => (Spec => []ListsAgree)
<1> SUFFICES ASSUME DistinctNames PROVE Spec => []ListsAgree
  OBVIOUS
<1>1. Init => Attached
  BY DEF Init, Attached, Live, NoBinding
<1>2. TableInv /\ Attached /\ [Next]_vars => Attached'
  BY AttachedNext
<1>3. TableInv /\ Attached => ListsAgree
  <2> SUFFICES ASSUME TableInv, Attached, NEW q \in Queues
               PROVE  Range(queue_bindings[NameOf[q]]) = {b \in Live : q \in binding[b].queues}
    BY DEF ListsAgree
  <2>1. NameOf[q] \in Names /\ Range(queue_bindings[NameOf[q]]) = ToSet(queue_bindings[NameOf[q]])
    BY DEF Names, Range, ToSet
  <2>2. ASSUME NEW b \in ToSet(queue_bindings[NameOf[q]]) PROVE b \in Live /\ q \in binding[b].queues
    <3>1. PICK p \in binding[b].queues : NameOf[p] = NameOf[q] /\ b \in Live
      BY <2>1 DEF TableInv, Listed
    <3>2. binding[b].queues \subseteq Queues
      BY <3>1, LiveIs DEF TableInv, Bindings, Handed
    <3> QED BY <3>1, <3>2 DEF DistinctNames
  <2> QED BY <2>1, <2>2 DEF Attached
<1> QED BY <1>1, <1>2, <1>3, TablesKept, PTL DEF Spec

-----------------------------------------------------------------------------
(* What the federation is told *)

(* Nothing told yet. *)
LEMMA UpInit == Init => UpInv
<1> SUFFICES ASSUME Init PROVE UpInv
  OBVIOUS
<1>1. Live = {} /\ upstream = {} /\ aborted = FALSE
  BY DEF Init, Live, NoBinding
<1> QED BY <1>1 DEF UpInv, HashComplete, UpstreamAgrees, AssertionHolds

(* Steps that leave the bindings alone. *)
LEMMA UpSame ==
  ASSUME UpInv, UNCHANGED <<fedtype, upstream, aborted, compiled, binding_hash>>,
         Live' = Live,
         \A b \in Live : /\ binding'[b].key = binding[b].key /\ binding'[b].args = binding[b].args
                         /\ binding'[b].exclusive = binding[b].exclusive
  PROVE  UpInv'
<1>1. \A b \in Live : Pair(b)' = Pair(b)
  BY DEF Pair
<1>2. PlainKeys' = PlainKeys /\ \A k : OneArgs(k)' = OneArgs(k)
  BY DEF PlainKeys, OneArgs
<1>3. \A b \in Live : ForwardsBinding(binding[b].exclusive)' = ForwardsBinding(binding[b].exclusive)
  BY DEF ForwardsBinding
<1>4. HashComplete'
  BY <1>2 DEF UpInv, HashComplete, OneArgs
<1>5. UpstreamAgrees'
  <2>1. PICK U, V : /\ U = {Pair(b) : b \in {c \in Live : ForwardsBinding(binding[c].exclusive)}}
                    /\ V = {Pair(b) : b \in {c \in Live : ForwardsBinding(binding[c].exclusive)}}'
    OBVIOUS
  <2>2. U = V
    BY <1>1, <1>3, <2>1
  <2>3. ~aborted /\ PlainKeys => upstream = U
    BY <2>1 DEF UpInv, UpstreamAgrees
  <2> QED BY <1>2, <2>1, <2>2, <2>3 DEF UpstreamAgrees
<1>6. AssertionHolds'
  BY <1>2 DEF UpInv, AssertionHolds
<1> QED BY <1>4, <1>5, <1>6 DEF UpInv

(* A binding is created and the federation is told of it. *)
LEMMA UpCreate ==
  ASSUME TableInv, UpInv, NEW q \in declared, NEW b \in Numbers, NEW key \in BoundKeys,
         NEW args \in ArgSet, BindNew(b, key, args, q)
  PROVE  UpInv'
<1>0. /\ Bindings /\ HashComplete /\ UpstreamAgrees /\ AssertionHolds
      /\ \A c \in Live : Pair(c) \in compiled /\ binding[c].key \in BoundKeys /\ c # 0
      /\ binding_hash \in [BoundKeys -> Numbers \cup {0}]
      /\ binding_hash[key] # 0 => binding_hash[key] \in Live /\ binding[binding_hash[key]].key = key
  BY LiveIs DEF TableInv, UpInv, Bindings
<1>1. /\ b \notin Live /\ Live' = Live \cup {b}
      /\ binding'[b].key = key /\ binding'[b].args = args
      /\ binding'[b].exclusive = (q \in Exclusive)
      /\ \A c \in Live : binding'[c] = binding[c]
  BY CreateIs
<1>2. /\ ExistingBinding(key, args) = 0 /\ compiled' = compiled \cup {<<key, args>>}
      /\ binding_hash' = [binding_hash EXCEPT ![key] = IF @ = 0 THEN b ELSE @]
      /\ BindingCreated(key, args, q \in Exclusive)
      /\ UNCHANGED <<extype, fedtype, aborted>>
  BY DEF BindNew, CreateBinding
<1>3. \A k : OneArgs(k)' => OneArgs(k)
  BY <1>2 DEF OneArgs
<1>4. ASSUME OneArgs(key)' PROVE binding_hash[key] = 0
  <2> SUFFICES ASSUME binding_hash[key] # 0 PROVE FALSE
    OBVIOUS
  <2>1. PICK c \in Live : c = binding_hash[key] /\ binding[c].key = key
    BY <1>0
  <2>2. Pair(c) \in compiled' /\ <<key, args>> \in compiled' /\ Pair(c)[1] = key
    BY <1>0, <1>2, <2>1 DEF Pair
  <2>3. Pair(c) = <<key, args>>
    BY <1>4, <2>2 DEF OneArgs
  <2> QED BY <1>0, <1>2, <2>3, ExistingIs
<1>5. HashComplete'
  <2> SUFFICES ASSUME NEW c \in Live', NEW k, k = binding'[c].key, OneArgs(k)'
               PROVE  binding_hash'[k] = c
    BY DEF HashComplete, OneArgs
  <2>1. CASE c = b
    <3>1. k = key
      BY <1>1, <2>1
    <3>2. binding_hash[key] = 0
      BY <1>4, <3>1
    <3> QED BY <1>0, <1>2, <2>1, <3>1, <3>2
  <2>2. CASE c # b
    <3>1. c \in Live /\ binding[c].key = k /\ OneArgs(k)
      BY <1>1, <1>3, <2>2
    <3>2. binding_hash[k] = c /\ k \in BoundKeys /\ c # 0
      BY <1>0, <3>1 DEF HashComplete
    <3> QED BY <1>0, <1>2, <3>2
  <2> QED BY <2>1, <2>2
<1>6. PlainKeys' => PlainKeys
  BY <1>2 DEF PlainKeys
<1>7. UpstreamAgrees'
  <2> SUFFICES ASSUME ~aborted', PlainKeys'
               PROVE  upstream' = {Pair(c) : c \in {d \in Live : ForwardsBinding(binding[d].exclusive)}}'
    BY DEF UpstreamAgrees
  <2>1. upstream = {Pair(c) : c \in {d \in Live : ForwardsBinding(binding[d].exclusive)}}
    BY <1>0, <1>2, <1>6 DEF UpstreamAgrees
  <2>2. upstream' = upstream \cup (IF ForwardsBinding(q \in Exclusive) THEN {<<key, args>>} ELSE {})
    BY <1>2 DEF BindingCreated
  <2>3. \A x : ForwardsBinding(x)' = ForwardsBinding(x)
    BY <1>2 DEF ForwardsBinding
  <2>4. /\ Pair(b)' = <<key, args>>
        /\ \A c \in Live : Pair(c)' = Pair(c)
    BY <1>1 DEF Pair
  <2>5. /\ ForwardsBinding(binding[b].exclusive)' = ForwardsBinding(q \in Exclusive)
        /\ \A c \in Live : ForwardsBinding(binding[c].exclusive)' = ForwardsBinding(binding[c].exclusive)
    BY <1>1, <1>2 DEF ForwardsBinding
  <2>6. ASSUME NEW x PROVE x \in upstream' <=> \E c \in Live' : ForwardsBinding(binding[c].exclusive)' /\ x = Pair(c)'
    BY <1>1, <2>1, <2>2, <2>4, <2>5
  <2> QED BY <2>6
<1>8. AssertionHolds'
  BY <1>0, <1>2, <1>6 DEF AssertionHolds
<1> QED BY <1>5, <1>7, <1>8 DEF UpInv

(* Bindings are destroyed and the federation is told of it. *)
LEMMA UpDestroy ==
  ASSUME TableInv, UpInv, NEW q, NEW bs \in SUBSET Live, DetachQueue(bs, q), ~aborted,
         UNCHANGED <<extype, fedtype, declared>>
  PROVE  UpInv'
<1>0. /\ Bindings /\ HashComplete /\ UpstreamAgrees
      /\ \A c \in Live : Pair(c) \in compiled /\ binding[c].key \in BoundKeys
      /\ binding_hash \in [BoundKeys -> Numbers \cup {0}]
  BY LiveIs DEF TableInv, UpInv, Bindings
<1>1. PICK gone : gone = Gone(bs, q)
  OBVIOUS
<1>2. /\ binding_hash' = [k \in BoundKeys |->
                            IF \E b \in gone : binding[b].key = k THEN 0 ELSE binding_hash[k]]
      /\ BindingsDestroyed(gone) /\ compiled' = compiled /\ gone \subseteq Live
  BY <1>1 DEF DetachQueue, Gone
<1>3. /\ Live' = Live \ gone
      /\ \A b \in Live' : /\ binding'[b].key = binding[b].key /\ binding'[b].args = binding[b].args
                          /\ binding'[b].exclusive = binding[b].exclusive
  <2>1. /\ Live' = Live \ Gone(bs, q)
        /\ \A b \in Live' :
             /\ binding'[b].key = binding[b].key /\ binding'[b].args = binding[b].args
             /\ binding'[b].exclusive = binding[b].exclusive
             /\ b \notin bs => binding'[b].queues = binding[b].queues
             /\ b \in bs => binding'[b].queues = binding[b].queues \ {q}
        /\ Bindings'
    BY <1>0, DetachIs, Zenon
  <2> QED BY <1>1, <2>1
<1>4. PlainKeys' = PlainKeys /\ \A k : OneArgs(k)' = OneArgs(k)
  BY <1>2 DEF PlainKeys, OneArgs
<1>5. HashComplete'
  <2> SUFFICES ASSUME NEW c \in Live', NEW k, k = binding'[c].key, OneArgs(k)'
               PROVE  binding_hash'[k] = c
    BY DEF HashComplete, OneArgs
  <2>1. c \in Live /\ c \notin gone /\ binding[c].key = k
    BY <1>3
  <2>2. OneArgs(k)
    BY <1>4
  <2>3. \A d \in Live : binding[d].key = k => binding_hash[k] = d
    BY <1>0, <2>2 DEF HashComplete
  <2>4. ~\E d \in gone : binding[d].key = k
    BY <1>2, <2>1, <2>3
  <2> QED BY <1>0, <1>2, <2>1, <2>3, <2>4
<1>6. ASSUME PlainKeys, NEW c \in Live, NEW d \in Live, Pair(c) = Pair(d) PROVE c = d
  <2>1. binding[c].key = binding[d].key
    BY <1>6 DEF Pair
  <2>2. OneArgs(binding[c].key)
    BY <1>6 DEF OneArgs, PlainKeys
  <2> QED BY <1>0, <2>1, <2>2 DEF HashComplete
<1>7. PlainKeys => upstream = {Pair(b) : b \in {c \in Live : ForwardsBinding(binding[c].exclusive)}}
  BY <1>0 DEF UpstreamAgrees
<1>8. /\ upstream' = IF ForwardsUnbinding THEN upstream \ {Pair(b) : b \in gone} ELSE upstream
      /\ aborted' = /\ ForwardsUnbinding
                    /\ \E b \in gone : \/ Pair(b) \notin upstream
                                       \/ \E c \in gone \ {b} : Pair(c) = Pair(b)
  BY <1>2 DEF BindingsDestroyed
<1>9. UpstreamAgrees'
  <2> SUFFICES ASSUME PlainKeys'
               PROVE  upstream' = {Pair(c) : c \in {d \in Live : ForwardsBinding(binding[d].exclusive)}}'
    BY DEF UpstreamAgrees
  <2>1. \A c \in Live' : /\ Pair(c)' = Pair(c) /\ c \in Live /\ c \notin gone
                         /\ ForwardsBinding(binding[c].exclusive)' = ForwardsBinding(binding[c].exclusive)
    BY <1>3 DEF Pair, ForwardsBinding
  <2>2. PlainKeys
    BY <1>4
  <2>3. CASE ForwardsUnbinding
    <3>1. ASSUME NEW x
          PROVE  x \in upstream' <=> \E c \in Live' : ForwardsBinding(binding[c].exclusive)' /\ x = Pair(c)'
      <4>1. x \in upstream' <=> x \in upstream /\ \A b \in gone : x # Pair(b)
        BY <1>8, <2>3
      <4>2. x \in upstream <=> \E c \in Live : ForwardsBinding(binding[c].exclusive) /\ x = Pair(c)
        BY <1>7, <2>2
      <4> QED BY <1>2, <1>3, <1>6, <2>1, <2>2, <4>1, <4>2
    <3> QED BY <3>1
  <2>4. CASE ~ForwardsUnbinding
    <3>1. \A x : ~ForwardsBinding(x)
      BY <2>4 DEF ForwardsUnbinding, ForwardsBinding
    <3>2. \A x : ~ForwardsBinding(x)'
      BY <3>1 DEF ForwardsBinding
    <3>3. upstream' = {}
      BY <1>7, <1>8, <2>2, <2>4, <3>1
    <3>4. \A c \in Live' : ~ForwardsBinding(binding[c].exclusive)'
      BY <2>1, <3>1
    <3> QED BY <3>3, <3>4
  <2> QED BY <2>3, <2>4
<1>10. AssertionHolds'
  <2> SUFFICES ASSUME aborted', PlainKeys, fedtype # "service" PROVE FALSE
    BY <1>4 DEF AssertionHolds
  <2>1. PICK b \in gone : \/ Pair(b) \notin upstream
                          \/ \E c \in gone \ {b} : Pair(c) = Pair(b)
    BY <1>8
  <2>2. ForwardsBinding(binding[b].exclusive)
    BY <1>8 DEF ForwardsUnbinding, ForwardsBinding
  <2>3. Pair(b) \in upstream
    BY <1>2, <1>7, <2>2
  <2> QED BY <1>2, <1>6, <2>1, <2>3
<1> QED BY <1>5, <1>9, <1>10 DEF UpInv

(* Every step of the system preserves what the federation knows. *)
LEMMA UpNext == TableInv /\ UpInv /\ [Next]_vars => UpInv'
<1> SUFFICES ASSUME TableInv, UpInv, [Next]_vars PROVE UpInv'
  OBVIOUS
<1>0. Handed /\ Bindings /\ Listed /\ binding \in [Numbers -> BindingSet \cup {NoBinding}]
  BY DEF TableInv, Bindings
<1>1. ASSUME UNCHANGED <<fedtype, upstream, aborted, compiled, binding_hash, binding>> PROVE UpInv'
  <2>1. Live' = Live
    BY <1>1 DEF Live, Numbers
  <2> QED BY <1>1, <2>1, UpSame
<1>2. ASSUME NEW q \in declared, NEW b \in Live, BindOld(b, q) PROVE UpInv'
  <2>1. b \in Numbers /\ binding[b] \in BindingSet
    BY <1>0, LiveIs
  <2>2. /\ Live' = Live \cup {b}
        /\ binding'[b].key = binding[b].key /\ binding'[b].args = binding[b].args
        /\ binding'[b].exclusive = binding[b].exclusive
        /\ \A c \in Numbers : c # b => binding'[c] = binding[c]
    BY <1>0, <1>2, <2>1, AttachIs DEF BindOld
  <2>3. \A c \in Live : /\ binding'[c].key = binding[c].key /\ binding'[c].args = binding[c].args
                        /\ binding'[c].exclusive = binding[c].exclusive
    BY <2>2 DEF Live
  <2>4. Live' = Live
    BY <2>2
  <2> QED BY <1>2, <2>3, <2>4, UpSame DEF BindOld
<1>3. ASSUME NEW q \in declared, NEW bs \in SUBSET ToSet(queue_bindings[NameOf[q]]), Unlist(bs, q)
      PROVE  UpInv'
  <2>1. NameOf[q] \in Names
    BY <1>0 DEF Handed, Names
  <2>2. bs \in SUBSET Live
    BY <1>0, <2>1 DEF Listed
  <2>3. DetachQueue(bs, q) /\ ~aborted /\ UNCHANGED <<extype, fedtype, declared>>
    BY <1>3 DEF Unlist
  <2> QED BY <2>2, <2>3, UpDestroy
<1>4. CASE Next
  <2>1. CASE Same
    BY <1>1, <2>1 DEF Same, routes
  <2>2. CASE HandlePublish
    BY <1>1, <2>2, PublishIs
  <2> QED BY <1>2, <1>3, <1>4, <2>1, <2>2, Moves, UpCreate
<1>5. CASE UNCHANGED vars
  BY <1>1, <1>5 DEF vars, routes
<1> QED BY <1>4, <1>5

(* What the federation knows, in every behaviour. *)
LEMMA UpKept == Spec => []UpInv
<1> QED BY UpInit, UpNext, TablesKept, PTL DEF Spec

(* The parent server is asked for exactly the bindings that exist and are to be forwarded,
   as long as no key was bound with two sets of arguments: each binding is told once when
   it is created and once when it is destroyed (amq_exchange.icl, amq_federation.icl). *)
THEOREM UpstreamKept == Spec => []UpstreamAgrees
<1>1. UpInv => UpstreamAgrees
  BY DEF UpInv
<1> QED BY <1>1, UpKept, PTL

(* The assertion of amq_peering_unbind fails only for a service federation, or when a key
   was bound with two sets of arguments. *)
THEOREM AssertionKept == Spec => []AssertionHolds
<1>1. UpInv => AssertionHolds
  BY DEF UpInv
<1> QED BY <1>1, UpKept, PTL

-----------------------------------------------------------------------------
(* The routing table *)

(* What is bound, read off the bindings. *)
LEMMA BoundIs ==
  ASSUME NEW t
  PROVE  t \in Bound <=> \E b \in Live : \E q \in binding[b].queues : t = <<q, binding[b].key, binding[b].args>>
BY DEF Bound

(* A word that is no wildcard matches itself. *)
LEMMA PartPlain ==
  ASSUME NEW word, word # Single, word # Multiple, NEW words
  PROVE  PartMatches(word, words) <=> words = <<word>>
BY Zenon DEF PartMatches

(* A topic without wildcards matches itself... *)
LEMMA PlainItself ==
  ASSUME NEW key \in Seq(STRING), ~IsWildcard(key)
  PROVE  TopicMatches(key, key)
<1>1. PICK cut : cut = [i \in 0 .. Len(key) |-> i]
  OBVIOUS
<1>2. Len(key) \in Nat /\ cut \in [0 .. Len(key) -> 0 .. Len(key)] /\ cut[0] = 0 /\ cut[Len(key)] = Len(key)
  BY <1>1
<1>3. ASSUME NEW i \in 1 .. Len(key)
      PROVE  cut[i - 1] <= cut[i] /\ PartMatches(key[i], SubSeq(key, cut[i - 1] + 1, cut[i]))
  <2>1. cut[i - 1] + 1 = i /\ cut[i] = i /\ cut[i - 1] <= cut[i]
    BY <1>1
  <2>2. SubSeq(key, i, i) = <<key[i]>>
    <3>1. PICK s, e : s = SubSeq(key, i, i) /\ e = <<key[i]>>
      OBVIOUS
    <3>2. s \in Seq(STRING) /\ Len(s) = 1 /\ s[1] = key[i]
      BY <3>1
    <3>3. e \in Seq(STRING) /\ Len(e) = 1 /\ e[1] = key[i]
      BY <3>1
    <3>4. s = e
      BY <3>2, <3>3
    <3> QED BY <3>1, <3>4
  <2>3. key[i] # Single /\ key[i] # Multiple
    BY DEF IsWildcard
  <2> QED BY <2>1, <2>2, <2>3, PartPlain
<1> QED BY <1>2, <1>3 DEF TopicMatches

(* ... and nothing else. *)
LEMMA PlainOnly ==
  ASSUME NEW key \in Seq(STRING), NEW topic \in Seq(STRING), ~IsWildcard(key), TopicMatches(key, topic)
  PROVE  key = topic
<1>1. PICK cut \in [0 .. Len(key) -> 0 .. Len(topic)] :
        /\ cut[0] = 0
        /\ cut[Len(key)] = Len(topic)
        /\ \A i \in 1 .. Len(key) :
             /\ cut[i - 1] <= cut[i]
             /\ PartMatches(key[i], SubSeq(topic, cut[i - 1] + 1, cut[i]))
  BY DEF TopicMatches
<1>2. ASSUME NEW i \in 1 .. Len(key)
      PROVE  cut[i] = cut[i - 1] + 1 /\ topic[cut[i]] = key[i]
  <2>1. PICK m, n : m = cut[i - 1] /\ n = cut[i]
    OBVIOUS
  <2>2. m \in 0 .. Len(topic) /\ n \in 0 .. Len(topic) /\ m <= n
    <3>1. i \in 0 .. Len(key) /\ i - 1 \in 0 .. Len(key)
      OBVIOUS
    <3>2. cut[i - 1] <= cut[i]
      BY <1>1
    <3>3. cut[i - 1] \in 0 .. Len(topic) /\ cut[i] \in 0 .. Len(topic)
      BY <1>1, <3>1
    <3> QED BY <2>1, <3>2, <3>3
  <2>3. key[i] # Single /\ key[i] # Multiple
    BY DEF IsWildcard
  <2>4. PartMatches(key[i], SubSeq(topic, m + 1, n))
    BY <1>1, <2>1
  <2>5. SubSeq(topic, m + 1, n) = <<key[i]>>
    BY <2>3, <2>4, PartPlain
  <2>6. Len(SubSeq(topic, m + 1, n)) = 1 /\ SubSeq(topic, m + 1, n)[1] = key[i]
    BY <2>5
  <2>7. n = m + 1
    BY <2>2, <2>6
  <2>8. SubSeq(topic, m + 1, n)[1] = topic[m + 1]
    BY <2>2, <2>7
  <2> QED BY <2>1, <2>6, <2>7, <2>8
<1>3. \A i \in Nat : i <= Len(key) => cut[i] = i
  <2>1. PICK T : T = {i \in Nat : i <= Len(key) => cut[i] = i}
    OBVIOUS
  <2>2. 0 \in T
    BY <1>1, <2>1
  <2>3. ASSUME NEW i \in T PROVE i + 1 \in T
    <3>1. CASE i + 1 <= Len(key)
      <4>1. i \in Nat /\ cut[i] = i /\ i + 1 \in 1 .. Len(key)
        BY <2>1, <3>1
      <4>2. cut[i + 1] = cut[i + 1 - 1] + 1
        BY <1>2, <4>1
      <4> QED BY <2>1, <4>1, <4>2
    <3>2. CASE ~(i + 1 <= Len(key))
      BY <2>1, <3>2
    <3> QED BY <3>1, <3>2
  <2>4. T \in SUBSET Nat
    BY <2>1
  <2>5. T = Nat
    BY <2>2, <2>3, <2>4, NatInd
  <2> QED BY <2>1, <2>5
<1>4. Len(key) = Len(topic) /\ Len(key) \in Nat
  BY <1>1, <1>3
<1>5. \A i \in 1 .. Len(key) : key[i] = topic[i]
  BY <1>2, <1>3
<1> QED BY <1>4, <1>5

-----------------------------------------------------------------------------
(* The indices are complete *)

\* Only what clients ask for is compiled; a fanout exchange drops the key.
CompiledAsked ==
  \A c \in compiled : \E p \in BindPairs[extype] : c = <<BoundKey(p[1]), p[2]>>

\* Outside the direct exchange a pair has one binding, and its key is hashed.
Unique ==
  extype # "direct" => \A b \in Live : /\ binding_hash[binding[b].key] # 0
                                       /\ \A c \in Live : Pair(b) = Pair(c) => b = c

\* A headers binding has its bit under its fields and nowhere else.
HeadersIndexed ==
  extype = "headers" => \A b \in Live : /\ FieldKeys(binding[b].args) \subseteq indexed
                                        /\ \A k \in IndexKeys : b \in bindset[k] <=> k \in FieldKeys(binding[b].args)

\* A bit of a topic or regexp index is that of a binding that accepts the key.
Sound ==
  extype \in {"topic", "regexp"} => \A k \in indexed : \A b \in bindset[k] : Accepted(binding[b].key, k)

RegexpIndexed ==
  extype = "regexp" => \A k \in indexed : \A b \in Live : Accepted(binding[b].key, k) => b \in bindset[k]

\* A topic without wildcards has its index, with the bit of its binding.
PlainIndexed ==
  extype = "topic" => /\ \A p \in compiled : ~IsWildcard(p[1]) => p[1] \in indexed
                      /\ \A b \in Live : ~IsWildcard(binding[b].key) => b \in bindset[binding[b].key]

\* The index of a topic that was never bound has every wildcard that matches it.
WildIndexed ==
  extype = "topic" => \A k \in indexed : \A b \in Live :
    IsWildcard(binding[b].key) /\ Accepted(binding[b].key, k) /\ (\A p \in compiled : p[1] # k) => b \in bindset[k]

\* The wildcards are at the front of the list, where a new index looks for them.
WildFirst ==
  extype = "topic" => \A i, j \in 1 .. Len(binding_list) :
    i < j /\ IsWildcard(binding[binding_list[j]].key) => IsWildcard(binding[binding_list[i]].key)

RouteInv ==
  /\ CompiledAsked /\ Unique /\ HeadersIndexed /\ Sound
  /\ RegexpIndexed /\ PlainIndexed /\ WildIndexed /\ WildFirst

(* No bindings, no indices. *)
LEMMA RouteInit == Init => RouteInv
<1> SUFFICES ASSUME Init PROVE RouteInv
  OBVIOUS
<1>1. Live = {} /\ indexed = {} /\ compiled = {} /\ Len(binding_list) = 0
  BY DEF Init, Live, NoBinding
<1> QED BY <1>1 DEF RouteInv, CompiledAsked, Unique, HeadersIndexed, Sound, RegexpIndexed, PlainIndexed,
                    WildIndexed, WildFirst

(* Steps that create no binding and no index, and destroy bindings of a direct exchange only. *)
LEMMA RouteSame ==
  ASSUME TableInv, RouteInv, UNCHANGED <<extype, compiled, indexed, bindset>>,
         extype # "direct" => /\ Live' = Live /\ UNCHANGED <<binding_list, binding_hash>>
                              /\ \A b \in Live : /\ binding'[b].key = binding[b].key
                                                 /\ binding'[b].args = binding[b].args
  PROVE  RouteInv'
<1>0. /\ \A k \in IndexKeys : bindset[k] \subseteq Live
      /\ indexed \subseteq IndexKeys
      /\ \A i \in 1 .. Len(binding_list) : binding_list[i] \in Live
  BY ToSetIs DEF TableInv, Indices, Bindings
<1>1. CompiledAsked'
  BY DEF RouteInv, CompiledAsked, BoundKey
<1>2. CASE extype = "direct"
  <2>1. extype' = "direct"
    BY <1>2
  <2> QED BY <1>1, <2>1 DEF RouteInv, Unique, HeadersIndexed, Sound, RegexpIndexed, PlainIndexed,
                            WildIndexed, WildFirst
<1>3. CASE extype # "direct"
  <2>1. /\ Live' = Live /\ binding_list' = binding_list /\ binding_hash' = binding_hash
        /\ extype' = extype /\ indexed' = indexed /\ bindset' = bindset /\ compiled' = compiled
        /\ \A b \in Live : binding'[b].key = binding[b].key /\ binding'[b].args = binding[b].args
    BY <1>3
  <2>2. \A b \in Live : Pair(b)' = Pair(b)
    BY <2>1 DEF Pair
  <2>3. \A k, t : Accepted(k, t)' = Accepted(k, t)
    BY <2>1 DEF Accepted
  <2>4. \A a : FieldKeys(a)' = FieldKeys(a)
    BY DEF FieldKeys
  <2>5. Unique'
    BY <2>1, <2>2 DEF RouteInv, Unique
  <2>6. HeadersIndexed'
    BY <2>1, <2>4 DEF RouteInv, HeadersIndexed
  <2>7. Sound'
    BY <1>0, <2>1, <2>3 DEF RouteInv, Sound
  <2>8. RegexpIndexed'
    BY <2>1, <2>3 DEF RouteInv, RegexpIndexed
  <2>9. PlainIndexed'
    BY <2>1 DEF RouteInv, PlainIndexed
  <2>10. WildIndexed'
    BY <2>1, <2>3 DEF RouteInv, WildIndexed
  <2>11. WildFirst'
    BY <1>0, <2>1 DEF RouteInv, WildFirst
  <2> QED BY <1>1, <2>5, <2>6, <2>7, <2>8, <2>9, <2>10, <2>11 DEF RouteInv
<1> QED BY <1>2, <1>3

(* A binding is created and compiled into the indices there are. *)
LEMMA RouteCreate ==
  ASSUME TableInv, RouteInv, NEW q \in declared, NEW b \in Numbers, NEW key \in BoundKeys,
         NEW args \in ArgSet, BindNew(b, key, args, q)
  PROVE  RouteInv'
<1>0. /\ Handed /\ Bindings /\ indexed \subseteq IndexKeys /\ bindset \in [IndexKeys -> SUBSET Numbers]
      /\ \A k \in IndexKeys : bindset[k] \subseteq Live
      /\ \A k \in IndexKeys : k \notin indexed => bindset[k] = {}
      /\ binding_hash \in [BoundKeys -> Numbers \cup {0}]
      /\ \A c \in Live : binding[c].key \in BoundKeys /\ c # 0
      /\ binding_list \in Seq(Numbers) /\ ToSet(binding_list) = Live
      /\ \A i \in 1 .. Len(binding_list) : binding_list[i] \in Live
  BY LiveIs, ToSetIs DEF TableInv, Indices, Bindings
<1>1. /\ b \notin Live /\ Live' = Live \cup {b} /\ b # 0
      /\ binding'[b].key = key /\ binding'[b].args = args
      /\ \A c \in Live : binding'[c] = binding[c]
  BY CreateIs DEF Numbers
<1>2. /\ ExistingBinding(key, args) = 0 /\ compiled' = compiled \cup {<<key, args>>}
      /\ binding_hash' = [binding_hash EXCEPT ![key] = IF @ = 0 THEN b ELSE @]
      /\ binding_list' = IF IsWild(key) THEN <<b>> \o binding_list ELSE Append(binding_list, b)
      /\ extype' = extype
  BY DEF BindNew, CreateBinding
<1>3. PICK keys : keys = CompiledKeys(key, args)
  OBVIOUS
<1>4. /\ indexed' = indexed \cup keys
      /\ bindset' = [k \in IndexKeys |-> IF k \in keys THEN bindset[k] \cup {b} ELSE bindset[k]]
  BY <1>3 DEF BindNew, CreateBinding, Compile
<1>5. /\ keys \subseteq IndexKeys
      /\ extype = "headers" => keys = FieldKeys(args)
      /\ extype = "topic" /\ ~IsWildcard(key) => keys = {key}
      /\ extype = "topic" /\ IsWildcard(key) => keys = {k \in indexed : Accepted(key, k)}
      /\ extype = "regexp" => keys = {k \in indexed : Accepted(key, k)}
  BY <1>0, <1>3, CompiledIs
<1>6. /\ \A k, t : Accepted(k, t)' = Accepted(k, t)
      /\ \A a : FieldKeys(a)' = FieldKeys(a)
  BY <1>2 DEF Accepted, FieldKeys
<1>7. \A k \in IndexKeys : \A c \in Live : c \in bindset'[k] <=> c \in bindset[k]
  BY <1>1, <1>4
<1>8. \A k \in IndexKeys : b \in bindset'[k] <=> k \in keys
  BY <1>0, <1>1, <1>4
<1>9. CompiledAsked'
  <2>1. PICK p \in BindPairs[extype] : key = BoundKey(p[1]) /\ args = p[2]
    BY DEF BindNew
  <2>2. \A k : BoundKey(k)' = BoundKey(k)
    BY <1>2 DEF BoundKey
  <2>3. \A c \in compiled' : c \in compiled \/ c = <<BoundKey(p[1]), p[2]>>
    BY <1>2, <2>1
  <2> QED BY <1>2, <2>2, <2>3 DEF RouteInv, CompiledAsked
<1>10. Unique'
  <2> SUFFICES ASSUME extype # "direct", NEW c \in Live'
               PROVE  /\ binding_hash'[binding'[c].key] # 0
                      /\ \A d \in Live' : Pair(c)' = Pair(d)' => c = d
    BY <1>2 DEF Unique
  <2>1. \A d \in Live : Pair(d)' = Pair(d) /\ binding'[d].key = binding[d].key
    BY <1>1 DEF Pair
  <2>2. Pair(b)' = <<key, args>> /\ binding'[b].key = key
    BY <1>1 DEF Pair
  <2>3. \A d \in Live : binding_hash[binding[d].key] # 0
    BY DEF RouteInv, Unique
  <2>4. \A d \in Live : Pair(d) # <<key, args>>
    <3>1. binding_hash[key] = 0 \/ \A d \in Live : Pair(d) # <<key, args>>
      BY <1>0, <1>2, ExistingIs
    <3> QED BY <2>3, <3>1 DEF Pair
  <2>5. \A d \in Live' : binding_hash'[binding'[d].key] # 0
    BY <1>0, <1>1, <1>2, <2>1, <2>2, <2>3
  <2>6. \A d \in Live' : Pair(c)' = Pair(d)' => c = d
    BY <1>1, <2>1, <2>2, <2>4 DEF RouteInv, Unique
  <2> QED BY <2>5, <2>6
<1>11. HeadersIndexed'
  <2> SUFFICES ASSUME extype = "headers", NEW c \in Live', NEW f, f = FieldKeys(binding'[c].args)
               PROVE  f \subseteq indexed' /\ \A k \in IndexKeys : c \in bindset'[k] <=> k \in f
    BY <1>2, <1>6 DEF HeadersIndexed
  <2>1. CASE c = b
    BY <1>1, <1>4, <1>5, <1>8, <2>1
  <2>2. CASE c # b
    <3>1. c \in Live /\ f = FieldKeys(binding[c].args)
      BY <1>1, <2>2
    <3>2. f \subseteq indexed /\ \A k \in IndexKeys : c \in bindset[k] <=> k \in f
      BY <3>1 DEF RouteInv, HeadersIndexed
    <3> QED BY <1>4, <1>7, <3>1, <3>2
  <2> QED BY <2>1, <2>2
<1>12. Sound'
  <2> SUFFICES ASSUME extype \in {"topic", "regexp"}, NEW k \in indexed', NEW c \in bindset'[k]
               PROVE  Accepted(binding'[c].key, k)
    BY <1>2, <1>6 DEF Sound
  <2>0. k \in IndexKeys
    BY <1>0, <1>4, <1>5
  <2>1. CASE c = b
    <3>1. k \in keys
      BY <1>8, <2>0, <2>1
    <3>2. CASE extype = "topic" /\ ~IsWildcard(key)
      <4>1. k = key /\ k \in Seq(STRING)
        BY <1>5, <2>0, <3>1, <3>2, IndexAssumption
      <4>2. TopicMatches(key, k)
        BY <3>2, <4>1, PlainItself
      <4> QED BY <1>1, <2>1, <3>2, <4>2 DEF Accepted
    <3>3. CASE ~(extype = "topic" /\ ~IsWildcard(key))
      BY <1>1, <1>5, <2>1, <3>1, <3>3
    <3> QED BY <3>2, <3>3
  <2>2. CASE c # b
    <3>1. c \in bindset[k]
      BY <1>4, <2>0, <2>2
    <3>2. c \in Live /\ k \in indexed
      BY <1>0, <2>0, <3>1
    <3>3. Accepted(binding[c].key, k)
      BY <3>1, <3>2 DEF RouteInv, Sound
    <3> QED BY <1>1, <3>2, <3>3
  <2> QED BY <2>1, <2>2
<1>13. RegexpIndexed'
  <2> SUFFICES ASSUME extype = "regexp", NEW k \in indexed', NEW c \in Live', Accepted(binding'[c].key, k)
               PROVE  c \in bindset'[k]
    BY <1>2, <1>6 DEF RegexpIndexed
  <2>0. k \in IndexKeys /\ k \in indexed
    BY <1>0, <1>4, <1>5
  <2>1. CASE c = b
    BY <1>1, <1>5, <1>8, <2>0, <2>1
  <2>2. CASE c # b
    BY <1>1, <1>7, <2>0, <2>2 DEF RouteInv, RegexpIndexed
  <2> QED BY <2>1, <2>2
<1>14. PlainIndexed'
  <2> SUFFICES ASSUME extype = "topic"
               PROVE  /\ \A p \in compiled' : ~IsWildcard(p[1]) => p[1] \in indexed'
                      /\ \A c \in Live' : ~IsWildcard(binding'[c].key) => c \in bindset'[binding'[c].key]
    BY <1>2 DEF PlainIndexed
  <2>1. ASSUME NEW p \in compiled', ~IsWildcard(p[1]) PROVE p[1] \in indexed'
    BY <1>2, <1>4, <1>5, <2>1 DEF RouteInv, PlainIndexed
  <2>2. ASSUME NEW c \in Live', ~IsWildcard(binding'[c].key) PROVE c \in bindset'[binding'[c].key]
    <3>1. CASE c = b
      BY <1>1, <1>5, <1>8, <2>2, <3>1
    <3>2. CASE c # b
      <4>1. c \in Live /\ binding'[c].key = binding[c].key
        BY <1>1, <3>2
      <4>2. c \in bindset[binding[c].key] /\ Pair(c) \in compiled
        BY <1>0, <2>2, <4>1 DEF RouteInv, PlainIndexed, Bindings
      <4>3. binding[c].key \in indexed
        BY <2>2, <4>1, <4>2 DEF RouteInv, PlainIndexed, Pair
      <4>4. binding[c].key \in IndexKeys
        BY <1>0, <4>3
      <4> QED BY <1>7, <4>1, <4>2, <4>4
    <3> QED BY <3>1, <3>2
  <2> QED BY <2>1, <2>2
<1>15. WildIndexed'
  <2> SUFFICES ASSUME extype = "topic", NEW k \in indexed', NEW c \in Live', IsWildcard(binding'[c].key),
                      Accepted(binding'[c].key, k), \A p \in compiled' : p[1] # k
               PROVE  c \in bindset'[k]
    BY <1>2 DEF WildIndexed, Accepted
  <2>1. k # key /\ \A p \in compiled : p[1] # k
    <3>1. PICK c0 \in compiled' : c0 = <<key, args>>
      BY <1>2
    <3>2. c0[1] = key
      BY <3>1
    <3> QED BY <1>2, <3>2
  <2>2. k \in indexed /\ k \in IndexKeys
    BY <1>0, <1>4, <1>5, <2>1
  <2>3. CASE c = b
    BY <1>1, <1>5, <1>8, <2>2, <2>3
  <2>4. CASE c # b
    <3>1. c \in Live /\ binding'[c].key = binding[c].key
      BY <1>1, <2>4
    <3>2. c \in bindset[k]
      BY <2>1, <2>2, <3>1 DEF RouteInv, WildIndexed
    <3> QED BY <1>7, <2>2, <3>1, <3>2
  <2> QED BY <2>3, <2>4
<1>16. WildFirst'
  <2> SUFFICES ASSUME extype = "topic", NEW i \in 1 .. Len(binding_list'), NEW j \in 1 .. Len(binding_list'),
                      i < j, IsWildcard(binding'[binding_list'[j]].key)
               PROVE  IsWildcard(binding'[binding_list'[i]].key)
    BY <1>2 DEF WildFirst
  <2>0. \A g, h \in 1 .. Len(binding_list) :
          g < h /\ IsWildcard(binding[binding_list[h]].key) => IsWildcard(binding[binding_list[g]].key)
    BY DEF RouteInv, WildFirst
  <2>1. CASE IsWildcard(key)
    <3>1. PICK e \in Seq(Numbers) : e = <<b>>
      <4>1. <<b>> \in Seq(Numbers)
        OBVIOUS
      <4> QED BY <4>1
    <3>2. Len(e) = 1 /\ e[1] = b
      BY <3>1
    <3>3. binding_list' = e \o binding_list
      BY <1>2, <2>1, <3>1 DEF IsWild
    <3>4. PICK l \in Seq(Numbers) : l = binding_list
      BY <1>0
    <3>5. /\ e \o l \in Seq(Numbers) /\ Len(e \o l) = Len(e) + Len(l)
          /\ \A g \in 1..Len(e) : (e \o l)[g] = e[g]
          /\ \A g \in (Len(e) + 1)..(Len(e) + Len(l)) : (e \o l)[g] = l[g - Len(e)]
      BY ConcatIs
    <3>6. binding_list'[1] = b /\ Len(binding_list) \in Nat /\ Len(binding_list') = 1 + Len(binding_list)
      BY <3>2, <3>3, <3>4, <3>5
    <3>8. \A g \in 2 .. 1 + Len(binding_list) : binding_list'[g] = binding_list[g - 1]
      BY <3>2, <3>3, <3>4, <3>5, <3>6
    <3>9. CASE i = 1
      BY <1>1, <2>1, <3>6, <3>9
    <3>10. CASE i # 1
      <4>1. PICK g, h \in 1 .. Len(binding_list) : g = i - 1 /\ h = j - 1
        BY <3>6, <3>10
      <4>2. binding_list'[i] = binding_list[g] /\ binding_list'[j] = binding_list[h] /\ g < h
        BY <3>6, <3>8, <3>10, <4>1
      <4>3. binding_list[g] \in Live /\ binding_list[h] \in Live
        BY <1>0
      <4>4. /\ binding'[binding_list'[j]] = binding[binding_list[h]]
            /\ binding'[binding_list'[i]] = binding[binding_list[g]]
        BY <1>1, <4>2, <4>3
      <4> QED BY <2>0, <4>2, <4>4
    <3> QED BY <3>9, <3>10
  <2>2. CASE ~IsWildcard(key)
    <3>1. binding_list' = Append(binding_list, b)
      BY <1>2, <2>2 DEF IsWild
    <3>2. /\ Len(binding_list) \in Nat /\ Len(binding_list') = Len(binding_list) + 1
          /\ binding_list'[Len(binding_list) + 1] = b
          /\ \A g \in 1 .. Len(binding_list) : binding_list'[g] = binding_list[g]
      BY <1>0, <3>1, AppendIs
    <3>3. j # Len(binding_list) + 1
      BY <1>1, <2>2, <3>2
    <3>4. i \in 1 .. Len(binding_list) /\ j \in 1 .. Len(binding_list)
      BY <3>2, <3>3
    <3>5. binding_list[i] \in Live /\ binding_list[j] \in Live
      BY <1>0, <3>4
    <3>6. /\ binding'[binding_list'[j]] = binding[binding_list[j]]
          /\ binding'[binding_list'[i]] = binding[binding_list[i]]
      BY <1>1, <3>2, <3>4, <3>5
    <3> QED BY <2>0, <3>4, <3>6
  <2> QED BY <2>1, <2>2
<1> QED BY <1>9, <1>10, <1>11, <1>12, <1>13, <1>14, <1>15, <1>16 DEF RouteInv

(* A new index looks at all the bindings it has to. *)
LEMMA ScannedAll ==
  ASSUME TableInv, RouteInv, NEW b \in Live, extype = "topic" => IsWildcard(binding[b].key)
  PROVE  b \in Scanned
<1>1. binding_list \in Seq(Numbers) /\ ToSet(binding_list) = Live
  BY DEF TableInv, Bindings
<1>2. PICK j \in 1 .. Len(binding_list) : binding_list[j] = b
  BY <1>1, ToSetIs
<1>3. DOMAIN binding_list = 1 .. Len(binding_list)
  BY <1>1
<1>4. ASSUME extype = "topic" PROVE \A h \in 1 .. j : IsWild(binding[binding_list[h]].key)
  <2> SUFFICES ASSUME NEW h \in 1 .. j PROVE IsWildcard(binding[binding_list[h]].key)
    BY <1>4 DEF IsWild
  <2>1. h \in 1 .. Len(binding_list) /\ (h < j \/ h = j)
    BY <1>1
  <2> QED BY <1>2, <1>4, <2>1 DEF RouteInv, WildFirst
<1> QED BY <1>2, <1>3, <1>4 DEF Scanned

(* A message is published, and its key gets an index. *)
LEMMA RoutePublish ==
  ASSUME TableInv, RouteInv, HandlePublish
  PROVE  RouteInv'
<1>0. /\ indexed \subseteq IndexKeys /\ bindset \in [IndexKeys -> SUBSET Numbers]
      /\ \A j \in IndexKeys : bindset[j] \subseteq Live
      /\ \A c \in Live : Pair(c) \in compiled
  BY DEF TableInv, Indices, Bindings
<1>1. PICK k : k = PublishedKey(Head(mailbox).message)
  OBVIOUS
<1>2. /\ UNCHANGED <<extype, binding, binding_list, binding_hash, compiled>>
      /\ \/ UNCHANGED <<indexed, bindset>>
         \/ extype \in {"topic", "regexp"} /\ k \in IndexKeys /\ IndexKey(k)
  BY <1>1, PublishIs
<1>3. Live' = Live
  BY <1>2 DEF Live, Numbers
<1>4. CASE UNCHANGED <<indexed, bindset>>
  BY <1>2, <1>3, <1>4, RouteSame
<1>5. CASE extype \in {"topic", "regexp"} /\ k \in IndexKeys /\ IndexKey(k) /\ k \notin indexed
  <2>1. PICK new : new = {b \in Scanned : Accepted(binding[b].key, k)}
    OBVIOUS
  <2>2. indexed' = indexed \cup {k} /\ bindset' = [bindset EXCEPT ![k] = new]
    BY <1>5, <2>1 DEF IndexKey
  <2>3. bindset'[k] = new /\ \A j \in indexed : bindset'[j] = bindset[j]
    BY <1>0, <1>5, <2>2
  <2>4. \A key, t : Accepted(key, t)' = Accepted(key, t)
    BY <1>2 DEF Accepted
  <2>5. /\ extype' = extype /\ binding' = binding /\ binding_list' = binding_list
        /\ binding_hash' = binding_hash /\ compiled' = compiled
    BY <1>2
  <2>6. CompiledAsked' /\ Unique' /\ HeadersIndexed' /\ WildFirst'
    <3>1. CompiledAsked'
      BY <2>5 DEF RouteInv, CompiledAsked, BoundKey
    <3>2. Unique'
      BY <1>3, <2>5 DEF RouteInv, Unique, Pair
    <3>3. HeadersIndexed'
      BY <1>5, <2>5 DEF HeadersIndexed
    <3>4. WildFirst'
      BY <2>5 DEF RouteInv, WildFirst
    <3> QED BY <3>1, <3>2, <3>3, <3>4
  <2>7. Sound'
    BY <2>1, <2>2, <2>3, <2>4, <2>5 DEF RouteInv, Sound
  <2>8. RegexpIndexed'
    <3> SUFFICES ASSUME extype = "regexp", NEW j \in indexed', NEW c \in Live, Accepted(binding[c].key, j)
                 PROVE  c \in bindset'[j]
      BY <1>3, <2>4, <2>5 DEF RegexpIndexed
    <3>1. CASE j = k
      BY <2>1, <2>3, <3>1, ScannedAll
    <3>2. CASE j # k
      BY <2>2, <2>3, <3>2 DEF RouteInv, RegexpIndexed
    <3> QED BY <3>1, <3>2
  <2>9. PlainIndexed'
    <3> SUFFICES ASSUME extype = "topic"
                 PROVE  /\ \A p \in compiled : ~IsWildcard(p[1]) => p[1] \in indexed'
                        /\ \A c \in Live : ~IsWildcard(binding[c].key) => c \in bindset'[binding[c].key]
      BY <1>3, <2>5 DEF PlainIndexed
    <3>1. \A p \in compiled : ~IsWildcard(p[1]) => p[1] \in indexed
      BY DEF RouteInv, PlainIndexed
    <3>2. ASSUME NEW c \in Live, ~IsWildcard(binding[c].key) PROVE c \in bindset'[binding[c].key]
      <4>1. binding[c].key \in indexed /\ c \in bindset[binding[c].key]
        BY <1>0, <3>1, <3>2 DEF Pair, RouteInv, PlainIndexed
      <4> QED BY <2>3, <4>1
    <3> QED BY <2>2, <3>1, <3>2
  <2>10. WildIndexed'
    <3> SUFFICES ASSUME extype = "topic", NEW j \in indexed', NEW c \in Live, IsWildcard(binding[c].key),
                        Accepted(binding[c].key, j), \A p \in compiled : p[1] # j
                 PROVE  c \in bindset'[j]
      BY <1>3, <2>4, <2>5 DEF WildIndexed
    <3>1. CASE j = k
      BY <2>1, <2>3, <3>1, ScannedAll
    <3>2. CASE j # k
      BY <2>2, <2>3, <3>2 DEF RouteInv, WildIndexed
    <3> QED BY <3>1, <3>2
  <2> QED BY <2>6, <2>7, <2>8, <2>9, <2>10 DEF RouteInv
<1> QED BY <1>2, <1>4, <1>5 DEF IndexKey

(* Every step of the system keeps the indices complete. *)
LEMMA RouteNext == TableInv /\ RouteInv /\ [Next]_vars => RouteInv'
<1> SUFFICES ASSUME TableInv, RouteInv, [Next]_vars PROVE RouteInv'
  OBVIOUS
<1>0. Handed /\ Bindings /\ Listed /\ binding \in [Numbers -> BindingSet \cup {NoBinding}]
      /\ binding_list \in Seq(Numbers) /\ binding_hash \in [BoundKeys -> Numbers \cup {0}]
  BY DEF TableInv, Bindings
<1>1. ASSUME UNCHANGED <<extype, compiled, indexed, bindset, binding_list, binding_hash, binding>> PROVE RouteInv'
  <2>1. Live' = Live
    BY <1>1 DEF Live, Numbers
  <2> QED BY <1>1, <2>1, RouteSame
<1>2. ASSUME NEW q \in declared, NEW b \in Live, BindOld(b, q) PROVE RouteInv'
  <2>1. b \in Numbers /\ binding[b] \in BindingSet
    BY <1>0, LiveIs
  <2>2. /\ Live' = Live \cup {b}
        /\ binding'[b].key = binding[b].key /\ binding'[b].args = binding[b].args
        /\ \A c \in Numbers : c # b => binding'[c] = binding[c]
    BY <1>0, <1>2, <2>1, AttachIs DEF BindOld
  <2>3. \A c \in Live : binding'[c].key = binding[c].key /\ binding'[c].args = binding[c].args
    BY <2>2 DEF Live
  <2>4. Live' = Live
    BY <2>2
  <2> QED BY <1>2, <2>3, <2>4, RouteSame DEF BindOld
<1>3. ASSUME NEW q \in declared, NEW bs \in SUBSET ToSet(queue_bindings[NameOf[q]]), Unlist(bs, q)
      PROVE  RouteInv'
  <2>1. NameOf[q] \in Names
    BY <1>0 DEF Handed, Names
  <2>2. bs \in SUBSET Live
    BY <1>0, <2>1 DEF Listed
  <2>3. DetachQueue(bs, q) /\ UNCHANGED <<extype, declared>>
    BY <1>3 DEF Unlist
  <2>4. /\ Live' = Live \ Gone(bs, q)
        /\ \A b \in Live' :
             /\ binding'[b].key = binding[b].key /\ binding'[b].args = binding[b].args
             /\ binding'[b].exclusive = binding[b].exclusive
             /\ b \notin bs => binding'[b].queues = binding[b].queues
             /\ b \in bs => binding'[b].queues = binding[b].queues \ {q}
        /\ Bindings'
    BY <1>0, <2>2, <2>3, DetachIs, Zenon
  <2>5. PICK gone : gone = Gone(bs, q)
    OBVIOUS
  <2>6. /\ binding_list' = Without(binding_list, gone)
        /\ binding_hash' = [k \in BoundKeys |->
                              IF \E b \in gone : binding[b].key = k THEN 0 ELSE binding_hash[k]]
        /\ UNCHANGED <<indexed, bindset, compiled>>
    BY <2>3, <2>5 DEF DetachQueue, Gone
  <2>7. ASSUME extype # "direct"
        PROVE  /\ Live' = Live /\ UNCHANGED <<binding_list, binding_hash>>
               /\ \A b \in Live : binding'[b].key = binding[b].key /\ binding'[b].args = binding[b].args
    <3>1. gone = {}
      BY <2>5, <2>7 DEF Gone
    <3>2. binding_list' = binding_list
      BY <1>0, <2>6, <3>1, WithoutIs
    <3>3. binding_hash' = binding_hash
      BY <1>0, <2>6, <3>1
    <3> QED BY <2>4, <2>5, <3>1, <3>2, <3>3
  <2> QED BY <2>3, <2>6, <2>7, RouteSame
<1>4. CASE Next
  <2>1. CASE Same
    BY <1>1, <2>1 DEF Same, routes
  <2>2. CASE HandlePublish
    BY <2>2, RoutePublish
  <2> QED BY <1>2, <1>3, <1>4, <2>1, <2>2, Moves, RouteCreate
<1>5. CASE UNCHANGED vars
  BY <1>1, <1>5 DEF vars, routes
<1> QED BY <1>4, <1>5

-----------------------------------------------------------------------------
(* The exchange implements its routing table *)

(* The routing table reads keys as the exchange does. *)
LEMMA SameReading ==
  /\ \A pattern, key : Table!TopicMatches(pattern, key) <=> TopicMatches(pattern, key)
  /\ \A key : Table!IsWildcard(key) <=> IsWildcard(key)
  /\ Table!Empty = Empty /\ Table!Blank = Blank
<1>1. \A word, words : Table!PartMatches(word, words) <=> PartMatches(word, words)
  BY Zenon DEF PartMatches, Single, Multiple, Blank, Table!PartMatches, Table!Single, Table!Multiple, Table!Blank
<1>2. \A key : Table!IsWildcard(key) <=> IsWildcard(key)
  BY DEF Table!IsWildcard, IsWildcard, Single, Multiple, Table!Single, Table!Multiple
<1>3. \A pattern, key : Table!TopicMatches(pattern, key) <=> TopicMatches(pattern, key)
  BY <1>1 DEF Table!TopicMatches, TopicMatches
<1>4. Table!Empty = Empty /\ Table!Blank = Blank
  BY Zenon DEF Table!Empty, Empty, Table!Blank, Blank
<1> QED BY <1>2, <1>3, <1>4

TablePairs == AllPairs \cup {<<Empty, p[2]>> : p \in AllPairs}

(* What is compiled is a pair of the routing table; in a fanout exchange its key is empty. *)
LEMMA CompiledPairs ==
  ASSUME TableInv, RouteInv, NEW c \in compiled
  PROVE  /\ c \in TablePairs /\ c = <<c[1], c[2]>>
         /\ extype = "fanout" => c[1] = Empty
<1>1. PICK p \in BindPairs[extype] : c = <<BoundKey(p[1]), p[2]>>
  BY DEF RouteInv, CompiledAsked
<1>2. PICK k \in Kinds : k[1] = extype
  <2>1. <<extype, fedtype>> \in Kinds
    BY DEF TableInv, Handed
  <2> QED BY <2>1
<1>3. p \in AllPairs /\ p = <<p[1], p[2]>>
  BY <1>2, ExchangeAssumption DEF AllPairs
<1>4. CASE extype = "fanout"
  <2>1. c = <<Empty, p[2]>>
    BY <1>1, <1>4 DEF BoundKey
  <2>2. c \in TablePairs
    BY <1>3, <2>1 DEF TablePairs
  <2> QED BY <2>1, <2>2
<1>5. CASE extype # "fanout"
  <2>1. c = p
    BY <1>1, <1>3, <1>5 DEF BoundKey
  <2>2. c \in TablePairs
    BY <1>3, <2>1 DEF TablePairs
  <2> QED BY <1>1, <1>5, <2>2
<1> QED BY <1>4, <1>5

(* A bind of the routing table. *)
LEMMA BindMaps ==
  ASSUME NEW q \in Queues, NEW c \in TablePairs,
         \A t : t \in Bound' <=> t \in Bound \/ t = <<q, c[1], c[2]>>,
         compiled' = compiled \cup {<<c[1], c[2]>>}, UNCHANGED <<extype, fedtype, routed>>
  PROVE  Table!Next
<1>1. Bound' = Bound \cup {<<q, c[1], c[2]>>}
  OBVIOUS
<1>2. Table!Bind(q, c[1], c[2])
  BY <1>1 DEF Table!Bind
<1> QED BY <1>2 DEF Table!Next, TablePairs

(* A queue is attached to a binding that exists. *)
LEMMA OldMaps ==
  ASSUME TableInv, RouteInv, NEW q \in declared, NEW b \in Live, BindOld(b, q)
  PROVE  Table!Next
<1>0. Bindings /\ binding \in [Numbers -> BindingSet \cup {NoBinding}] /\ q \in Queues
  BY DEF TableInv, Bindings, Handed
<1>1. b \in Numbers /\ binding[b] \in BindingSet
  BY <1>0, LiveIs
<1>2. /\ Live' = Live \cup {b}
      /\ binding'[b].key = binding[b].key /\ binding'[b].args = binding[b].args
      /\ binding'[b].queues = binding[b].queues \cup {q}
      /\ \A c \in Numbers : c # b => binding'[c] = binding[c]
  BY <1>0, <1>1, AttachIs DEF BindOld
<1>3. Live' = Live /\ \A c \in Live : c # b => binding'[c] = binding[c]
  BY <1>2 DEF Live
<1>4. PICK c \in compiled : c = Pair(b)
  BY <1>0 DEF Bindings
<1>5. c \in TablePairs /\ c = <<c[1], c[2]>> /\ c[1] = binding[b].key /\ c[2] = binding[b].args
  BY <1>4, CompiledPairs DEF Pair
<1>6. \A t : t \in Bound <=> \E d \in Live : \E p \in binding[d].queues : t = <<p, binding[d].key, binding[d].args>>
  BY BoundIs
<1>7. \A t : t \in Bound' <=> \E d \in Live' : \E p \in binding'[d].queues : t = <<p, binding'[d].key, binding'[d].args>>
  BY DEF Bound
<1>8. ASSUME NEW t PROVE t \in Bound' <=> t \in Bound \/ t = <<q, c[1], c[2]>>
  <2>1. ASSUME t \in Bound' PROVE t \in Bound \/ t = <<q, c[1], c[2]>>
    <3>1. PICK d \in Live : \E p \in binding'[d].queues : t = <<p, binding'[d].key, binding'[d].args>>
      BY <1>3, <1>7, <2>1
    <3>2. PICK p \in binding'[d].queues : t = <<p, binding'[d].key, binding'[d].args>>
      BY <3>1
    <3>3. CASE p \in binding[d].queues
      <4>1. t = <<p, binding[d].key, binding[d].args>>
        BY <1>2, <1>3, <3>2
      <4> QED BY <1>6, <3>3, <4>1
    <3>4. CASE p \notin binding[d].queues
      <4>1. d = b /\ p = q
        BY <1>2, <1>3, <3>2, <3>4
      <4> QED BY <1>2, <1>5, <3>2, <4>1
    <3> QED BY <3>3, <3>4
  <2>2. ASSUME t \in Bound PROVE t \in Bound'
    <3>1. PICK d \in Live : \E p \in binding[d].queues : t = <<p, binding[d].key, binding[d].args>>
      BY <1>6, <2>2
    <3>2. PICK p \in binding[d].queues : t = <<p, binding[d].key, binding[d].args>>
      BY <3>1
    <3>3. p \in binding'[d].queues /\ t = <<p, binding'[d].key, binding'[d].args>>
      BY <1>2, <1>3, <3>2
    <3> QED BY <1>3, <1>7, <3>3
  <2>3. ASSUME t = <<q, c[1], c[2]>> PROVE t \in Bound'
    <3>1. q \in binding'[b].queues /\ t = <<q, binding'[b].key, binding'[b].args>>
      BY <1>2, <1>5, <2>3
    <3> QED BY <1>3, <1>7, <3>1
  <2> QED BY <2>1, <2>2, <2>3
<1>9. compiled' = compiled \cup {<<c[1], c[2]>>} /\ UNCHANGED <<extype, fedtype, routed>>
  BY <1>4, <1>5 DEF BindOld
<1> QED BY <1>0, <1>5, <1>8, <1>9, BindMaps

(* A queue is attached to a new binding. *)
LEMMA NewMaps ==
  ASSUME TableInv, RouteInv, NEW q \in declared, NEW b \in Numbers, NEW key \in BoundKeys,
         NEW args \in ArgSet, BindNew(b, key, args, q)
  PROVE  Table!Next
<1>0. q \in Queues
  BY DEF TableInv, Handed
<1>1. /\ b \notin Live /\ Live' = Live \cup {b}
      /\ binding'[b].key = key /\ binding'[b].args = args /\ binding'[b].queues = {q}
      /\ \A c \in Live : binding'[c] = binding[c]
  BY CreateIs
<1>2. compiled' = compiled \cup {<<key, args>>} /\ UNCHANGED <<extype, fedtype, routed>>
  BY DEF BindNew, CreateBinding
<1>3. PICK c : c = <<key, args>> /\ c[1] = key /\ c[2] = args
  <2>1. <<key, args>>[1] = key /\ <<key, args>>[2] = args
    OBVIOUS
  <2> QED BY <2>1
<1>4. c \in TablePairs
  <2>1. PICK p \in BindPairs[extype] : key = BoundKey(p[1]) /\ args = p[2]
    BY DEF BindNew
  <2>2. PICK k \in Kinds : k[1] = extype
    <3>1. <<extype, fedtype>> \in Kinds
      BY DEF TableInv, Handed
    <3> QED BY <3>1
  <2>3. p \in AllPairs /\ p = <<p[1], p[2]>>
    BY <2>2, ExchangeAssumption DEF AllPairs
  <2>4. CASE extype = "fanout"
    <3>1. c = <<Empty, p[2]>>
      BY <1>3, <2>1, <2>4 DEF BoundKey
    <3> QED BY <2>3, <3>1 DEF TablePairs
  <2>5. CASE extype # "fanout"
    <3>1. c = p
      BY <1>3, <2>1, <2>3, <2>5 DEF BoundKey
    <3> QED BY <2>3, <3>1 DEF TablePairs
  <2> QED BY <2>4, <2>5
<1>6. \A t : t \in Bound <=> \E d \in Live : \E p \in binding[d].queues : t = <<p, binding[d].key, binding[d].args>>
  BY BoundIs
<1>7. \A t : t \in Bound' <=> \E d \in Live' : \E p \in binding'[d].queues : t = <<p, binding'[d].key, binding'[d].args>>
  BY DEF Bound
<1>8. ASSUME NEW t PROVE t \in Bound' <=> t \in Bound \/ t = <<q, c[1], c[2]>>
  <2>1. (\E p \in binding'[b].queues : t = <<p, binding'[b].key, binding'[b].args>>) <=> t = <<q, c[1], c[2]>>
    BY <1>1, <1>3
  <2>2. ASSUME NEW d \in Live
        PROVE  (\E p \in binding'[d].queues : t = <<p, binding'[d].key, binding'[d].args>>)
               <=> (\E p \in binding[d].queues : t = <<p, binding[d].key, binding[d].args>>)
    BY <1>1
  <2> QED BY <1>1, <1>6, <1>7, <2>1, <2>2
<1> QED BY <1>0, <1>2, <1>3, <1>4, <1>8, BindMaps

(* What is bound after a queue was detached from some bindings. *)
LEMMA DetachBound ==
  ASSUME TableInv, NEW q, NEW bs \in SUBSET Live, DetachQueue(bs, q), UNCHANGED <<extype, declared>>, NEW t
  PROVE  t \in Bound' <=> \E b \in Live : \E p \in binding[b].queues :
                            /\ t = <<p, binding[b].key, binding[b].args>>
                            /\ ~(b \in bs /\ p = q)
<1>1. /\ Live' = Live \ Gone(bs, q)
      /\ \A b \in Live' :
           /\ binding'[b].key = binding[b].key /\ binding'[b].args = binding[b].args
           /\ binding'[b].exclusive = binding[b].exclusive
           /\ b \notin bs => binding'[b].queues = binding[b].queues
           /\ b \in bs => binding'[b].queues = binding[b].queues \ {q}
      /\ Bindings'
  BY DetachIs, Zenon DEF TableInv
<1>2. t \in Bound' <=> \E d \in Live' : \E p \in binding'[d].queues : t = <<p, binding'[d].key, binding'[d].args>>
  BY DEF Bound
<1>3. ASSUME t \in Bound'
      PROVE  \E b \in Live : \E p \in binding[b].queues :
               t = <<p, binding[b].key, binding[b].args>> /\ ~(b \in bs /\ p = q)
  <2>1. PICK b \in Live' : \E p \in binding'[b].queues : t = <<p, binding'[b].key, binding'[b].args>>
    BY <1>2, <1>3
  <2>2. PICK p \in binding'[b].queues : t = <<p, binding'[b].key, binding'[b].args>>
    BY <2>1
  <2>3. b \in Live /\ p \in binding[b].queues /\ ~(b \in bs /\ p = q)
    BY <1>1, <2>2
  <2>4. t = <<p, binding[b].key, binding[b].args>>
    BY <1>1, <2>2
  <2> QED BY <2>3, <2>4
<1>4. ASSUME NEW b \in Live, NEW p \in binding[b].queues,
             t = <<p, binding[b].key, binding[b].args>>, ~(b \in bs /\ p = q)
      PROVE  t \in Bound'
  <2>1. b \notin Gone(bs, q)
    BY <1>4 DEF Gone
  <2>2. b \in Live' /\ p \in binding'[b].queues
    BY <1>1, <1>4, <2>1
  <2>3. t = <<p, binding'[b].key, binding'[b].args>>
    BY <1>1, <1>4, <2>2
  <2> QED BY <1>2, <2>2, <2>3
<1> QED BY <1>3, <1>4

(* A queue is detached from one binding, or from all it is attached to. *)
LEMMA UnlistMaps ==
  ASSUME TableInv, UpInv, RouteInv, Attached, NEW q \in declared,
         NEW bs \in SUBSET ToSet(queue_bindings[NameOf[q]]), Unlist(bs, q)
  PROVE  Table!Next
<1>0. q \in Queues /\ NameOf[q] \in Names /\ Bindings /\ Listed
  BY DEF TableInv, Handed, Names
<1>1. bs \in SUBSET Live
  BY <1>0 DEF Listed
<1>2. DetachQueue(bs, q) /\ UNCHANGED <<extype, fedtype, declared, routed, compiled>>
  BY DEF Unlist, DetachQueue
<1>3. \A t : t \in Bound' <=> \E b \in Live : \E p \in binding[b].queues :
                                /\ t = <<p, binding[b].key, binding[b].args>>
                                /\ ~(b \in bs /\ p = q)
  BY <1>1, <1>2, DetachBound
<1>4. \A t : t \in Bound <=> \E b \in Live : \E p \in binding[b].queues : t = <<p, binding[b].key, binding[b].args>>
  BY BoundIs
<1>5. CASE bs = ToSet(queue_bindings[NameOf[q]])
  <2>1. \A b \in Live : q \in binding[b].queues => b \in bs
    BY <1>0, <1>5 DEF Attached
  <2>2. ASSUME NEW t PROVE t \in Bound' <=> t \in Bound /\ t[1] # q
    <3>1. ASSUME t \in Bound' PROVE t \in Bound /\ t[1] # q
      <4>1. PICK b \in Live : \E p \in binding[b].queues :
                                t = <<p, binding[b].key, binding[b].args>> /\ ~(b \in bs /\ p = q)
        BY <1>3, <3>1
      <4>2. PICK p \in binding[b].queues : t = <<p, binding[b].key, binding[b].args>> /\ ~(b \in bs /\ p = q)
        BY <4>1
      <4>3. p # q /\ t[1] = p
        BY <2>1, <4>2
      <4> QED BY <1>4, <4>2, <4>3
    <3>2. ASSUME t \in Bound, t[1] # q PROVE t \in Bound'
      <4>1. PICK b \in Live : \E p \in binding[b].queues : t = <<p, binding[b].key, binding[b].args>>
        BY <1>4, <3>2
      <4>2. PICK p \in binding[b].queues : t = <<p, binding[b].key, binding[b].args>>
        BY <4>1
      <4>3. p # q
        BY <3>2, <4>2
      <4> QED BY <1>3, <4>2, <4>3
    <3> QED BY <3>1, <3>2
  <2>3. Bound' = {t \in Bound : t[1] # q}
    BY <2>2
  <2>4. Table!DeleteQueue(q)
    BY <1>2, <2>3 DEF Table!DeleteQueue
  <2> QED BY <1>0, <2>4 DEF Table!Next
<1>6. CASE \E b \in bs : bs = {b}
  <2>1. PICK b \in Live : bs = {b}
    BY <1>1, <1>6
  <2>2. PICK c \in compiled : c = Pair(b)
    BY <1>0 DEF Bindings
  <2>3. c \in TablePairs /\ c[1] = binding[b].key /\ c[2] = binding[b].args
    BY <2>2, CompiledPairs DEF Pair
  <2>4. PICK t : t = <<q, c[1], c[2]>>
    OBVIOUS
  <2>5. ASSUME NEW x \in Bound' PROVE x \in Bound
    BY <1>3, <1>4
  <2>6. ASSUME NEW x \in Bound, x # t PROVE x \in Bound'
    <3>1. PICK d \in Live : \E p \in binding[d].queues : x = <<p, binding[d].key, binding[d].args>>
      BY <1>4
    <3>2. PICK p \in binding[d].queues : x = <<p, binding[d].key, binding[d].args>>
      BY <3>1
    <3>3. ~(d \in bs /\ p = q)
      BY <2>1, <2>3, <2>4, <2>6, <3>2
    <3> QED BY <1>3, <3>2, <3>3
  <2>7. CASE t \notin Bound'
    <3>1. \A x : x \in Bound' <=> x \in Bound /\ x # t
      BY <2>5, <2>6, <2>7
    <3>2. Bound' = Bound \ {<<q, c[1], c[2]>>}
      BY <2>4, <3>1
    <3>3. Table!Unbind(q, c[1], c[2])
      BY <1>2, <3>2 DEF Table!Unbind
    <3> QED BY <1>0, <2>3, <3>3 DEF Table!Next, TablePairs
  <2>8. CASE t \in Bound'
    <3>1. Bound' = Bound
      BY <2>5, <2>6, <2>8
    <3>2. PICK d \in Live : \E p \in binding[d].queues :
                              t = <<p, binding[d].key, binding[d].args>> /\ ~(d \in bs /\ p = q)
      BY <1>3, <2>8
    <3>3. d # b /\ binding[d].key = c[1] /\ binding[d].args = c[2]
      BY <2>1, <2>4, <3>2
    <3>4. Pair(d) = Pair(b) /\ binding[d].key = binding[b].key
      BY <2>3, <3>3 DEF Pair
    <3>5. extype = "direct"
      BY <3>3, <3>4 DEF RouteInv, Unique
    <3>6. ~Table!SameArguments({p \in compiled : p[1] = c[1]})
      <4> SUFFICES ASSUME Table!SameArguments({p \in compiled : p[1] = c[1]}) PROVE FALSE
        OBVIOUS
      <4>1. \A p, r \in compiled : p[1] = c[1] /\ r[1] = c[1] => p[2] = r[2]
        BY DEF Table!SameArguments
      <4>2. \A p \in compiled : p = <<p[1], p[2]>>
        BY CompiledPairs
      <4>3. OneArgs(binding[b].key)
        <5>1. ASSUME NEW p \in compiled, NEW r \in compiled, p[1] = c[1], r[1] = c[1] PROVE p = r
          <6>1. p[2] = r[2]
            BY <4>1, <5>1
          <6> QED BY <4>2, <5>1, <6>1
        <5> QED BY <2>3, <5>1 DEF OneArgs
      <4>4. binding_hash[binding[b].key] = b /\ binding_hash[binding[b].key] = d
        BY <3>4, <4>3 DEF UpInv, HashComplete
      <4> QED BY <3>3, <4>4
    <3>7. Table!Unbind(q, c[1], c[2])
      BY <1>2, <3>1, <3>5, <3>6 DEF Table!Unbind
    <3> QED BY <1>0, <2>3, <3>7 DEF Table!Next, TablePairs
  <2> QED BY <2>7, <2>8
<1> QED BY <1>5, <1>6 DEF Unlist

(* The queues that may get a message, read off the bindings. *)
LEMMA ReachIs ==
  ASSUME NEW m, NEW q
  PROVE  q \in Table!MayReach(m) <=>
           \E b \in Live : q \in binding[b].queues /\ Table!Accepts(binding[b].key, binding[b].args, m)
<1>1. ASSUME q \in Table!MayReach(m)
      PROVE  \E b \in Live : q \in binding[b].queues /\ Table!Accepts(binding[b].key, binding[b].args, m)
  <2>1. PICK u \in Bound : Table!Accepts(u[2], u[3], m) /\ q = u[1]
    BY <1>1 DEF Table!MayReach
  <2>2. PICK b \in Live : \E p \in binding[b].queues : u = <<p, binding[b].key, binding[b].args>>
    BY BoundIs
  <2>3. u[1] \in binding[b].queues /\ u[2] = binding[b].key /\ u[3] = binding[b].args
    BY <2>2
  <2> QED BY <2>1, <2>3
<1>2. ASSUME NEW b \in Live, q \in binding[b].queues, Table!Accepts(binding[b].key, binding[b].args, m)
      PROVE  q \in Table!MayReach(m)
  <2>1. PICK u : u = <<q, binding[b].key, binding[b].args>>
    OBVIOUS
  <2>2. u \in Bound /\ u[1] = q /\ u[2] = binding[b].key /\ u[3] = binding[b].args
    BY <1>2, <2>1, BoundIs
  <2> QED BY <1>2, <2>2 DEF Table!MayReach
<1> QED BY <1>1, <1>2

(* The message goes where it should: to queues of bindings that accept it, and to all of
   those that cannot be missed. *)
Routes(m) ==
  /\ \A h \in Hits(m) : h \in Live /\ Table!Accepts(binding[h].key, binding[h].args, m)
  /\ Table!MustReach(m) \subseteq Collected(m)

(* A direct exchange. *)
LEMMA DirectRoutes ==
  ASSUME TableInv, UpInv, RouteInv, extype = "direct", NEW m
  PROVE  Routes(m)
<1>0. /\ \A k \in BoundKeys : binding_hash[k] # 0 => binding_hash[k] \in Live /\ binding[binding_hash[k]].key = k
      /\ \A b \in Live : binding[b].key \in BoundKeys /\ Pair(b) \in compiled /\ b # 0
  BY LiveIs DEF TableInv, Bindings
<1>1. Hits(m) = {binding_hash[k] : k \in BoundKeys \cap {m.key}} \ {0}
  BY DEF Hits
<1>2. \A key, args : Table!Accepts(key, args, m) <=> key = m.key
  BY DEF Table!Accepts
<1>3. ASSUME NEW h \in Hits(m) PROVE h \in Live /\ Table!Accepts(binding[h].key, binding[h].args, m)
  <2>1. m.key \in BoundKeys /\ h = binding_hash[m.key] /\ h # 0
    BY <1>1
  <2> QED BY <1>0, <1>2, <2>1
<1>4. ASSUME NEW q \in Table!MustReach(m) PROVE q \in Collected(m)
  <2>1. Table!MustReach(m) = IF Table!SameArguments({p \in compiled : p[1] = m.key}) THEN Table!MayReach(m) ELSE {}
    BY DEF Table!MustReach
  <2>2. Table!SameArguments({p \in compiled : p[1] = m.key}) /\ q \in Table!MayReach(m)
    BY <2>1
  <2>3. PICK b \in Live : q \in binding[b].queues /\ Table!Accepts(binding[b].key, binding[b].args, m)
    BY <2>2, ReachIs
  <2>4. binding[b].key = m.key
    BY <1>2, <2>3
  <2>5. \A p \in compiled : p = <<p[1], p[2]>>
    BY CompiledPairs
  <2>6. OneArgs(m.key)
    <3>1. ASSUME NEW p \in compiled, NEW r \in compiled, p[1] = m.key, r[1] = m.key PROVE p = r
      <4>1. p[2] = r[2]
        BY <2>2, <3>1 DEF Table!SameArguments
      <4> QED BY <2>5, <3>1, <4>1
    <3> QED BY <3>1 DEF OneArgs
  <2>7. binding_hash[m.key] = b
    BY <2>4, <2>6 DEF UpInv, HashComplete
  <2>8. b \in Hits(m)
    BY <1>0, <1>1, <2>4, <2>7
  <2> QED BY <2>3, <2>8 DEF Collected
<1> QED BY <1>3, <1>4 DEF Routes

(* A fanout exchange. *)
LEMMA FanoutRoutes ==
  ASSUME TableInv, UpInv, RouteInv, extype = "fanout", NEW m
  PROVE  Routes(m)
<1>0. binding_list \in Seq(Numbers) /\ ToSet(binding_list) = Live /\ \A b \in Live : Pair(b) \in compiled
  BY DEF TableInv, Bindings
<1>1. Hits(m) = {binding_list[i] : i \in DOMAIN binding_list \cap {1}}
  BY DEF Hits
<1>2. \A key, args : Table!Accepts(key, args, m)
  BY DEF Table!Accepts
<1>3. \A b : b \in Live <=> \E i \in 1 .. Len(binding_list) : binding_list[i] = b
  BY <1>0, ToSetIs
<1>4. DOMAIN binding_list = 1 .. Len(binding_list) /\ Len(binding_list) \in Nat
  BY <1>0
<1>5. ASSUME NEW h \in Hits(m) PROVE h \in Live /\ Table!Accepts(binding[h].key, binding[h].args, m)
  BY <1>1, <1>2, <1>3, <1>4
<1>6. ASSUME NEW q \in Table!MustReach(m) PROVE q \in Collected(m)
  <2>1. Table!MustReach(m) = IF Table!SameArguments(compiled) THEN Table!MayReach(m) ELSE {}
    BY DEF Table!MustReach
  <2>2. Table!SameArguments(compiled) /\ q \in Table!MayReach(m)
    BY <2>1
  <2>3. PICK b \in Live : q \in binding[b].queues
    BY <2>2, ReachIs
  <2>4. \A p \in compiled : p = <<p[1], p[2]>> /\ p[1] = Empty
    BY CompiledPairs
  <2>5. ASSUME NEW p \in compiled, NEW r \in compiled PROVE p = r
    <3>1. p[2] = r[2] /\ p[1] = r[1]
      BY <2>2, <2>4 DEF Table!SameArguments
    <3> QED BY <2>4, <3>1
  <2>6. \A d \in Live : Pair(d) = Pair(b)
    BY <1>0, <2>5
  <2>7. \A d \in Live : d = b
    BY <2>6 DEF RouteInv, Unique
  <2>8. PICK i \in 1 .. Len(binding_list) : binding_list[i] = b
    BY <1>3
  <2>9. 1 \in 1 .. Len(binding_list)
    BY <1>4, <2>8
  <2>10. binding_list[1] = b
    BY <1>3, <2>7, <2>9
  <2>11. b \in Hits(m)
    BY <1>1, <1>4, <2>9, <2>10
  <2> QED BY <2>3, <2>11 DEF Collected
<1> QED BY <1>5, <1>6 DEF Routes

(* A topic exchange, once the key of the message has its index. *)
LEMMA TopicRoutes ==
  ASSUME TableInv, RouteInv, TableInv', RouteInv', extype = "topic",
         UNCHANGED <<extype, binding, compiled>>, NEW m, PublishedKey(m) \in indexed'
  PROVE  Routes(m)
<1>1. PICK k : k = PublishedKey(m)
  OBVIOUS
<1>2. Hits(m) = bindset'[k]
  BY <1>1 DEF Hits
<1>3. Live' = Live /\ indexed' \subseteq IndexKeys /\ k \in IndexKeys /\ bindset'[k] \subseteq Live
  <2>1. Live' = Live
    BY DEF Live, Numbers
  <2>2. indexed' \subseteq IndexKeys /\ \A j \in IndexKeys : bindset'[j] \subseteq Live'
    BY DEF TableInv, Indices
  <2> QED BY <1>1, <2>1, <2>2
<1>4. Table!Topic(m.key) = k
  BY <1>1, SameReading DEF Table!Topic, PublishedKey
<1>5. \A key, args : Table!Accepts(key, args, m) <=> TopicMatches(key, k)
  BY <1>4, SameReading DEF Table!Accepts
<1>6. /\ \A key, t : Accepted(key, t) <=> TopicMatches(key, t)
      /\ \A key, t : Accepted(key, t)' <=> TopicMatches(key, t)
  BY DEF Accepted
<1>7. ASSUME NEW h \in Hits(m) PROVE h \in Live /\ Table!Accepts(binding[h].key, binding[h].args, m)
  <2>1. Accepted(binding[h].key, k)'
    BY <1>1, <1>2 DEF RouteInv, Sound
  <2>2. TopicMatches(binding[h].key, k)
    BY <2>1 DEF Accepted
  <2> QED BY <1>2, <1>3, <1>5, <2>2
<1>8. ASSUME NEW q \in Table!MustReach(m) PROVE q \in Collected(m)
  <2>1. Table!MustReach(m) = {t[1] : t \in {u \in Bound :
            /\ Table!Accepts(u[2], u[3], m)
            /\ Table!IsWildcard(u[2]) => \A p \in compiled : p[1] # Table!Topic(m.key)}}
    BY DEF Table!MustReach
  <2>2. PICK u \in Bound : /\ Table!Accepts(u[2], u[3], m) /\ q = u[1]
                           /\ IsWildcard(u[2]) => \A p \in compiled : p[1] # k
    BY <1>4, <2>1, SameReading
  <2>3. PICK b \in Live : \E p \in binding[b].queues : u = <<p, binding[b].key, binding[b].args>>
    BY BoundIs
  <2>4. q \in binding[b].queues /\ u[2] = binding[b].key
    BY <2>2, <2>3
  <2>5. TopicMatches(binding[b].key, k)
    BY <1>5, <2>2, <2>4
  <2>6. b \in bindset'[k]
    <3>1. CASE IsWildcard(binding[b].key)
      <4>1. \A p \in compiled' : p[1] # k
        BY <2>2, <2>4, <3>1
      <4>2. Accepted(binding[b].key, k)'
        BY <2>5 DEF Accepted
      <4>3. b \in Live' /\ IsWildcard(binding'[b].key) /\ extype' = "topic"
        BY <1>3, <3>1
      <4> QED BY <1>1, <4>1, <4>2, <4>3 DEF RouteInv, WildIndexed
    <3>2. CASE ~IsWildcard(binding[b].key)
      <4>1. Pair(b) \in compiled
        BY DEF TableInv, Bindings
      <4>2. binding[b].key \in indexed
        BY <3>2, <4>1 DEF RouteInv, PlainIndexed, Pair
      <4>3. binding[b].key \in Seq(STRING) /\ k \in Seq(STRING)
        BY <1>3, <4>2, IndexAssumption DEF TableInv, Indices
      <4>4. binding[b].key = k
        BY <2>5, <3>2, <4>3, PlainOnly
      <4>5. b \in bindset'[binding'[b].key]
        BY <1>3, <3>2 DEF RouteInv, PlainIndexed
      <4> QED BY <4>4, <4>5
    <3> QED BY <3>1, <3>2
  <2> QED BY <1>2, <2>4, <2>6 DEF Collected
<1> QED BY <1>7, <1>8 DEF Routes

(* A regexp exchange, once the key of the message has its index. *)
LEMMA RegexpRoutes ==
  ASSUME TableInv, RouteInv, TableInv', RouteInv', extype = "regexp",
         UNCHANGED <<extype, binding, compiled>>, NEW m, PublishedKey(m) \in indexed'
  PROVE  Routes(m)
<1>1. PICK k : k = PublishedKey(m) /\ k = m.key
  BY DEF PublishedKey
<1>2. Hits(m) = bindset'[k]
  BY <1>1 DEF Hits
<1>3. Live' = Live /\ bindset'[k] \subseteq Live
  <2>1. Live' = Live
    BY DEF Live, Numbers
  <2>2. indexed' \subseteq IndexKeys /\ \A j \in IndexKeys : bindset'[j] \subseteq Live'
    BY DEF TableInv, Indices
  <2> QED BY <1>1, <2>1, <2>2
<1>4. \A key, args : Table!Accepts(key, args, m) <=> <<key, k>> \in PcreMatches
  BY <1>1 DEF Table!Accepts
<1>5. ASSUME NEW h \in Hits(m) PROVE h \in Live /\ Table!Accepts(binding[h].key, binding[h].args, m)
  <2>1. Accepted(binding[h].key, k)'
    BY <1>1, <1>2 DEF RouteInv, Sound
  <2>2. <<binding[h].key, k>> \in PcreMatches
    BY <2>1 DEF Accepted
  <2> QED BY <1>2, <1>3, <1>4, <2>2
<1>6. ASSUME NEW q \in Table!MustReach(m) PROVE q \in Collected(m)
  <2>1. Table!MustReach(m) = Table!MayReach(m)
    BY DEF Table!MustReach
  <2>2. PICK b \in Live : q \in binding[b].queues /\ Table!Accepts(binding[b].key, binding[b].args, m)
    BY <2>1, ReachIs
  <2>3. Accepted(binding[b].key, k)'
    BY <1>4, <2>2 DEF Accepted
  <2>4. b \in bindset'[k]
    BY <1>1, <1>3, <2>3 DEF RouteInv, RegexpIndexed
  <2> QED BY <1>2, <2>2, <2>4 DEF Collected
<1> QED BY <1>5, <1>6 DEF Routes

(* The fields of a binding that a message has are the keys it hits. *)
LEMMA FieldsHit ==
  ASSUME NEW m, \A h \in m.headers : h = <<h[1], h[2]>>, NEW f, f = <<f[1], f[2]>>
  PROVE  /\ f \in HeaderKeys(m) <=> Table!FieldHolds(f, m.headers)
         /\ f # MatchAll /\ MatchAll \in HeaderKeys(m)
<1>1. PICK any : /\ any = Table!Any
                 /\ HeaderKeys(m) = {MatchAll} \cup m.headers \cup {<<h[1], any>> : h \in m.headers}
  BY Zenon DEF HeaderKeys, Table!Any
<1>2. Table!FieldHolds(f, m.headers) <=> \E h \in m.headers : h[1] = f[1] /\ (f[2] = any \/ f[2] = h[2])
  BY <1>1, Zenon DEF Table!FieldHolds
<1>3. f # MatchAll
  <2>1. Len(f) = 2 /\ Len(MatchAll) = 1
    BY DEF MatchAll
  <2> QED BY <2>1
<1>4. ASSUME f \in HeaderKeys(m) PROVE Table!FieldHolds(f, m.headers)
  <2>1. CASE f \in m.headers
    BY <1>2, <2>1
  <2>2. CASE f \notin m.headers
    <3>1. PICK h \in m.headers : f = <<h[1], any>>
      BY <1>1, <1>3, <1>4, <2>2
    <3>2. f[1] = h[1] /\ f[2] = any
      BY <3>1
    <3> QED BY <1>2, <3>2
  <2> QED BY <2>1, <2>2
<1>5. ASSUME Table!FieldHolds(f, m.headers) PROVE f \in HeaderKeys(m)
  <2>1. PICK h \in m.headers : h[1] = f[1] /\ (f[2] = any \/ f[2] = h[2])
    BY <1>2, <1>5
  <2>2. CASE f[2] = any
    <3>1. f = <<h[1], any>>
      BY <2>1, <2>2
    <3> QED BY <1>1, <3>1
  <2>3. CASE f[2] = h[2]
    <3>1. h = <<h[1], h[2]>>
      OBVIOUS
    <3>2. f = h
      BY <2>1, <2>3, <3>1
    <3> QED BY <1>1, <3>2
  <2> QED BY <2>1, <2>2, <2>3
<1> QED BY <1>1, <1>3, <1>4, <1>5

(* Counting hits is matching headers. *)
LEMMA HitsMatch ==
  ASSUME TableInv, RouteInv, extype = "headers", NEW m \in Messages[extype], NEW b \in Live
  PROVE  HeadersHit(b, m) <=> Table!HeadersMatch(binding[b].args, m.headers)
<1>1. PICK args, F, H : args = binding[b].args /\ F = FieldKeys(args) /\ H = HeaderKeys(m)
  OBVIOUS
<1>2. args \in ArgSet /\ F \subseteq indexed /\ indexed \subseteq IndexKeys
      /\ \A k \in IndexKeys : b \in bindset[k] <=> k \in F
  BY <1>1, LiveIs DEF TableInv, Bindings, Indices, RouteInv, HeadersIndexed
<1>3. /\ args.all \in BOOLEAN /\ IsFiniteSet(args.fields)
      /\ \A f \in args.fields : f = <<f[1], f[2]>>
      /\ \A h \in m.headers : h = <<h[1], h[2]>>
  <2>1. PICK k \in Kinds : k[1] = extype
    <3>1. <<extype, fedtype>> \in Kinds
      BY DEF TableInv, Handed
    <3> QED BY <3>1
  <2>2. PICK p \in BindPairs[extype] : args = p[2]
    BY <1>2 DEF ArgSet
  <2>3. /\ \A r \in BindPairs[k[1]] :
             /\ r[2].all \in BOOLEAN /\ IsFiniteSet(r[2].fields)
             /\ \A f \in r[2].fields : f = <<f[1], f[2]>>
        /\ \A n \in Messages[k[1]] : \A h \in n.headers : h = <<h[1], h[2]>>
    BY <2>1, HeadersAssumption
  <2>4. p \in BindPairs[k[1]] /\ m \in Messages[k[1]]
    BY <2>1, <2>2
  <2> QED BY <2>2, <2>3, <2>4
<1>4. PICK G : G = {k \in H \cap indexed : b \in bindset[k]}
  OBVIOUS
<1>5. G = H \cap F
  BY <1>2, <1>4
<1>6. IsFiniteSet(F) /\ IsFiniteSet(G) /\ G \subseteq F
  <2>1. IsFiniteSet({MatchAll})
    BY FS_Singleton
  <2>2. IsFiniteSet(F)
    BY <1>1, <1>3, <2>1 DEF FieldKeys
  <2> QED BY <1>5, <2>2, FS_Subset
<1>7. Cardinality(G) \in Nat /\ (Cardinality(G) = Cardinality(F) <=> G = F) /\ (Cardinality(G) = 0 <=> G = {})
  BY <1>6, FS_CardinalityType, FS_Subset, FS_EmptySet
<1>8. HeadersHit(b, m) <=> IF args.all THEN F \subseteq H ELSE H \cap F # {}
  <2>1. HeadersHit(b, m) <=> IF args.all THEN Cardinality(G) = Cardinality(F) ELSE Cardinality(G) > 0
    BY <1>1, <1>4 DEF HeadersHit, HitCount
  <2> QED BY <1>3, <1>5, <1>7, <2>1
<1>9. Table!HeadersMatch(args, m.headers) <=>
        \/ args.fields = {}
        \/ args.all /\ \A f \in args.fields : Table!FieldHolds(f, m.headers)
        \/ ~args.all /\ \E f \in args.fields : Table!FieldHolds(f, m.headers)
  BY DEF Table!HeadersMatch
<1>10. \A f \in args.fields : f \in H <=> Table!FieldHolds(f, m.headers)
  BY <1>1, <1>3, FieldsHit
<1>11. MatchAll \in H
  BY <1>1, Zenon DEF HeaderKeys
<1>12. CASE args.fields = {}
  <2>1. F = {MatchAll}
    BY <1>1, <1>12 DEF FieldKeys
  <2> QED BY <1>1, <1>8, <1>9, <1>11, <1>12, <2>1
<1>13. CASE args.fields # {}
  <2>1. F = args.fields
    BY <1>1, <1>13 DEF FieldKeys
  <2> QED BY <1>1, <1>3, <1>8, <1>9, <1>10, <1>13, <2>1
<1> QED BY <1>12, <1>13

(* A headers exchange. *)
LEMMA HeadersRoutes ==
  ASSUME TableInv, RouteInv, extype = "headers", NEW m \in Messages[extype]
  PROVE  Routes(m)
<1>1. Hits(m) = {b \in Live : HeadersHit(b, m)}
  BY DEF Hits
<1>2. \A key, args : Table!Accepts(key, args, m) <=> Table!HeadersMatch(args, m.headers)
  BY DEF Table!Accepts
<1>3. \A b \in Live : b \in Hits(m) <=> Table!Accepts(binding[b].key, binding[b].args, m)
  BY <1>1, <1>2, HitsMatch
<1>4. ASSUME NEW q \in Table!MustReach(m) PROVE q \in Collected(m)
  <2>1. Table!MustReach(m) = Table!MayReach(m)
    BY DEF Table!MustReach
  <2>2. PICK b \in Live : q \in binding[b].queues /\ Table!Accepts(binding[b].key, binding[b].args, m)
    BY <2>1, ReachIs
  <2> QED BY <1>3, <2>2 DEF Collected
<1> QED BY <1>1, <1>3, <1>4 DEF Routes

Held(m) == fedtype = "fanout" /\ m.local
SentUp(m, to) ==
  \/ fedtype = "publisher" \/ Held(m)
  \/ fedtype \in {"locator", "service"} /\ to = {}

(* A message published is a message routed by the table. *)
LEMMA PublishMaps ==
  ASSUME TableInv, UpInv, RouteInv, Next, HandlePublish
  PROVE  Table!Next
<1>1. PICK m : m = Head(mailbox).message
  OBVIOUS
<1>2. m \in Messages[extype] /\ UNCHANGED <<extype, fedtype, binding, compiled>>
  BY <1>1, PublishIs
<1>3. TableInv' /\ RouteInv'
  BY TableNext, RouteNext
<1>4. PICK k \in Kinds : k[1] = extype
  <2>1. <<extype, fedtype>> \in Kinds
    BY DEF TableInv, Handed
  <2> QED BY <2>1
<1>5. extype \in {"direct", "fanout", "topic", "regexp", "headers"}
  BY <1>4, ExchangeAssumption
<1>6. m \in AllMessages
  BY <1>2, <1>4 DEF AllMessages
<1>7. PICK to : to = IF Held(m) THEN {} ELSE Collected(m)
  OBVIOUS
<1>8. /\ IF extype \in {"topic", "regexp"} /\ ~Held(m)
         THEN IndexKey(PublishedKey(m))
         ELSE UNCHANGED <<indexed, bindset>>
      /\ routed' = [message |-> m, to |-> to, up |-> SentUp(m, to),
                    returned |-> to = {} /\ ~SentUp(m, to) /\ m.mandatory /\ m.local]
  BY <1>1, <1>7 DEF HandlePublish, Held, SentUp
<1>9. ASSUME ~Held(m) PROVE Routes(m)
  <2>1. CASE extype \in {"topic", "regexp"}
    <3>1. PublishedKey(m) \in indexed'
      BY <1>8, <1>9, <2>1 DEF IndexKey
    <3> QED BY <1>2, <1>3, <2>1, <3>1, TopicRoutes, RegexpRoutes
  <2> QED BY <1>2, <1>5, <2>1, DirectRoutes, FanoutRoutes, HeadersRoutes
<1>10. /\ Table!HeldBack(m) <=> Held(m)
       /\ Table!Forwarded(m, to) = SentUp(m, to)
  BY DEF Table!HeldBack, Table!Forwarded, Held, SentUp
<1>11. to \in SUBSET Table!MayReach(m)
  <2>1. ASSUME ~Held(m), NEW q \in to PROVE q \in Table!MayReach(m)
    <3>1. PICK h \in Hits(m) : q \in binding[h].queues
      BY <1>7, <2>1 DEF Collected
    <3> QED BY <1>9, <2>1, <3>1, ReachIs DEF Routes
  <2> QED BY <1>7, <2>1
<1>12. IF Table!HeldBack(m) THEN to = {} ELSE Table!MustReach(m) \subseteq to
  BY <1>7, <1>9, <1>10 DEF Routes
<1>13. routed' = [message |-> m, to |-> to, up |-> Table!Forwarded(m, to),
                  returned |-> m.mandatory /\ m.local /\ to = {} /\ ~Table!Forwarded(m, to)]
  BY <1>8, <1>10
<1>14. Bound' = Bound
  BY <1>2 DEF Bound, Live, Numbers
<1>15. Table!Publish(m)
  BY <1>2, <1>11, <1>12, <1>13, <1>14 DEF Table!Publish
<1> QED BY <1>6, <1>15 DEF Table!Next

(* The exchange implements the routing table, for every type of exchange and federation:
   whatever the order of binds, unbinds, deletions and publishes, hash, lists and bitmaps
   send a message to queues that have a binding for it, and to all of those that the table
   says cannot be missed (amq_exchange.icl and the classes of the exchange types).  Two
   queues that share a name are left out: a deletion of one would unbind both. *)
THEOREM TableImplemented == DistinctNames => (Spec => ImplementsTable)
<1> SUFFICES ASSUME DistinctNames PROVE Spec => ImplementsTable
  OBVIOUS
<1>1. Init => Attached
  BY DEF Init, Attached, Live, NoBinding
<1>2. TableInv /\ Attached /\ [Next]_vars => Attached'
  BY AttachedNext
<1>3. Init => Table!Init
  <2> SUFFICES ASSUME Init PROVE Table!Init
    OBVIOUS
  <2>1. Live = {}
    BY DEF Init, Live, NoBinding
  <2>2. Bound = {}
    BY <2>1 DEF Bound
  <2>3. <<extype, fedtype>> \in Kinds
    BY TableInit DEF TableInv, Handed
  <2> QED BY <2>2, <2>3 DEF Init, Table!Init
<1>4. TableInv /\ UpInv /\ RouteInv /\ Attached /\ [Next]_vars => [Table!Next]_(Table!vars)
  <2> SUFFICES ASSUME TableInv, UpInv, RouteInv, Attached, [Next]_vars
               PROVE  Table!Next \/ UNCHANGED Table!vars
    OBVIOUS
  <2>1. ASSUME UNCHANGED <<extype, fedtype, binding, compiled, routed>> PROVE UNCHANGED Table!vars
    <3>1. Bound' = Bound
      BY <2>1 DEF Bound, Live, Numbers
    <3> QED BY <2>1, <3>1 DEF Table!vars
  <2>2. CASE Next
    <3>1. CASE Same /\ UNCHANGED routed
      BY <2>1, <3>1 DEF Same, routes
    <3>2. CASE HandlePublish
      BY <2>2, <3>2, PublishMaps
    <3> QED BY <2>2, <3>1, <3>2, Moves, OldMaps, NewMaps, UnlistMaps
  <2>3. CASE UNCHANGED vars
    BY <2>1, <2>3 DEF vars, routes
  <2> QED BY <2>2, <2>3
<1>5. RouteInv /\ TableInv /\ [Next]_vars => RouteInv'
  BY RouteNext
<1> QED BY <1>1, <1>2, <1>3, <1>4, <1>5, RouteInit, TablesKept, UpKept, PTL DEF Spec, ImplementsTable, Table!Spec

=============================================================================
