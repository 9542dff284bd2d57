--------------------------- MODULE SequenceLemmas ---------------------------
(***************************************************************************)
(* What the proofs of several components use: induction over the rounds of *)
(* a loop, with a set for the induction hypothesis (NatInd), and the       *)
(* operators of SequencesExt that the models are built from.               *)
(***************************************************************************)
EXTENDS Naturals, Sequences, FiniteSets, SequencesExt, SequenceTheorems,
        WellFoundedInduction, TLAPS

(* Every nonempty set of natural numbers has a least element. *)
LEMMA LeastNat ==
  ASSUME NEW T \in SUBSET Nat, T # {}
  PROVE  \E n \in T : \A m \in T : n <= m
<1>1. PICK x \in T : \A y \in T : ~ (<<y, x>> \in OpToRel(<, Nat))
  BY NatLessThanWellFounded, WFMin
<1>2. \A y \in T : ~(y < x)
  BY <1>1 DEF OpToRel
<1> QED BY <1>2

(* Induction over the natural numbers, for a set. *)
LEMMA NatInd ==
  ASSUME NEW T \in SUBSET Nat, 0 \in T, \A n \in T : n + 1 \in T
  PROVE  T = Nat
<1> SUFFICES ASSUME Nat \ T # {} PROVE FALSE
  OBVIOUS
<1>1. PICK n \in Nat \ T : \A m \in Nat \ T : n <= m
  BY LeastNat
<1>2. n # 0 /\ n - 1 \in Nat
  BY <1>1
<1>3. n - 1 \in T
  BY <1>1, <1>2
<1> QED BY <1>1, <1>3

(* A loop of n rounds over the values V, with step function G. *)
Stays(G, V, n) == \A v \in V, i \in 1..n : G[<<v, i>>] \in V
Iterates(f, G, V, n, v0) ==
    /\ f \in [0..n -> V] /\ f[0] = v0
    /\ \A i \in 1..n : f[i] = G[<<f[i - 1], i>>]

(* The values after each round exist. *)
LEMMA RecExists ==
  ASSUME NEW V, NEW n \in Nat, NEW v0 \in V, NEW G, Stays(G, V, n)
  PROVE  \E f : Iterates(f, G, V, n, v0)
<1> DEFINE T == {m \in Nat : m <= n => \E f : Iterates(f, G, V, m, v0)}
<1>1. 0 \in T
  <2> DEFINE f == [i \in 0..0 |-> v0]
  <2>1. Iterates(f, G, V, 0, v0)
    BY DEF Iterates
  <2> QED BY <2>1
<1>2. ASSUME NEW m \in T PROVE m + 1 \in T
  <2>1. m \in Nat /\ m + 1 \in Nat /\ (m + 1 <= n => m <= n)
    OBVIOUS
  <2>2. SUFFICES ASSUME m + 1 <= n PROVE \E f : Iterates(f, G, V, m + 1, v0)
    BY <2>1
  <2>3. PICK f : Iterates(f, G, V, m, v0)
    BY <2>1, <2>2
  <2> DEFINE g == [i \in 0..(m + 1) |-> IF i = m + 1 THEN G[<<f[m], m + 1>>] ELSE f[i]]
  <2>4. f \in [0..m -> V] /\ f[0] = v0 /\ \A i \in 1..m : f[i] = G[<<f[i - 1], i>>]
    BY <2>3 DEF Iterates
  <2>5. f[m] \in V /\ m + 1 \in 1..n
    BY <2>1, <2>2, <2>4
  <2>6. G[<<f[m], m + 1>>] \in V
    BY <2>5 DEF Stays
  <2>7. g \in [0..(m + 1) -> V] /\ g[0] = v0
    BY <2>1, <2>4, <2>6
  <2>8. ASSUME NEW i \in 1..(m + 1) PROVE g[i] = G[<<g[i - 1], i>>]
    <3>1. CASE i = m + 1
      <4>1. g[i] = G[<<f[m], m + 1>>] /\ i - 1 = m /\ g[m] = f[m]
        BY <2>1, <3>1
      <4> QED BY <3>1, <4>1
    <3>2. CASE i # m + 1
      <4>1. i \in 1..m /\ i \in 0..(m + 1) /\ i - 1 \in 0..(m + 1) /\ i - 1 # m + 1
        BY <2>1, <3>2
      <4>2. g[i] = f[i] /\ g[i - 1] = f[i - 1]
        BY <3>2, <4>1
      <4> QED BY <2>4, <4>1, <4>2
    <3> QED BY <3>1, <3>2
  <2> HIDE DEF g
  <2>9. Iterates(g, G, V, m + 1, v0)
    BY <2>7, <2>8 DEF Iterates
  <2> QED BY <2>9
<1>3. n \in T
  <2> HIDE DEF T
  <2>1. T \in SUBSET Nat
    BY DEF T
  <2> QED BY <1>1, <1>2, <2>1, NatInd
<1> QED BY <1>3

-----------------------------------------------------------------------------
(* Sequences, and sequences without repetitions. *)

(* The elements of a sequence. *)
LEMMA ToSetIs ==
  ASSUME NEW S, NEW s \in Seq(S)
  PROVE  ToSet(s) \subseteq S /\ \A x : x \in ToSet(s) <=> \E i \in 1..Len(s) : s[i] = x
  BY DEF ToSet

(* An element of a sequence. *)
LEMMA ElementIs ==
  ASSUME NEW S, NEW s \in Seq(S), NEW i \in 1..Len(s)
  PROVE  s[i] \in S
  OBVIOUS

(* One more element at the end. *)
LEMMA AppendIs ==
  ASSUME NEW S, NEW s \in Seq(S), NEW e \in S
  PROVE  /\ Append(s, e) \in Seq(S) /\ Len(Append(s, e)) = Len(s) + 1
         /\ Append(s, e)[Len(s) + 1] = e
         /\ \A i \in 1..Len(s) : Append(s, e)[i] = s[i]
  OBVIOUS

(* The first element, and the rest. *)
LEMMA TailIs ==
  ASSUME NEW S, NEW s \in Seq(S), s # <<>>
  PROVE  /\ Head(s) \in S /\ Tail(s) \in Seq(S) /\ Head(s) = s[1]
         /\ Len(s) \in Nat /\ Len(s) >= 1 /\ Len(Tail(s)) = Len(s) - 1
         /\ \A i \in 1..(Len(s) - 1) : Tail(s)[i] = s[i + 1]
  OBVIOUS

(* One sequence after another. *)
LEMMA ConcatIs ==
  ASSUME NEW S, NEW a \in Seq(S), NEW b \in Seq(S)
  PROVE  /\ a \o b \in Seq(S) /\ Len(a \o b) = Len(a) + Len(b)
         /\ \A i \in 1..Len(a) : (a \o b)[i] = a[i]
         /\ \A i \in (Len(a) + 1)..(Len(a) + Len(b)) : (a \o b)[i] = b[i - Len(a)]
  OBVIOUS

(* One element taken out. *)
LEMMA RemoveAtIs ==
  ASSUME NEW S, NEW s \in Seq(S), NEW k \in 1..Len(s)
  PROVE  /\ RemoveAt(s, k) \in Seq(S) /\ Len(RemoveAt(s, k)) = Len(s) - 1
         /\ \A i \in 1..(Len(s) - 1) : RemoveAt(s, k)[i] = IF i < k THEN s[i] ELSE s[i + 1]
<1> DEFINE a == SubSeq(s, 1, k - 1)
           b == SubSeq(s, k + 1, Len(s))
<1>1. a \in Seq(S) /\ Len(a) = k - 1 /\ \A i \in 1..(k - 1) : a[i] = s[i]
  OBVIOUS
<1>2. b \in Seq(S) /\ Len(b) = Len(s) - k /\ \A i \in 1..(Len(s) - k) : b[i] = s[k + i]
  OBVIOUS
<1>3. RemoveAt(s, k) = a \o b
  BY DEF RemoveAt
<1> HIDE DEF a, b
<1>4. a \o b \in Seq(S) /\ Len(a \o b) = Len(a) + Len(b)
  BY <1>1, <1>2, ConcatIs
<1>5. ASSUME NEW i \in 1..(Len(s) - 1)
      PROVE  (a \o b)[i] = IF i < k THEN s[i] ELSE s[i + 1]
  <2>1. CASE i < k
    <3>1. i \in 1..(k - 1) /\ i \in 1..Len(a)
      BY <1>1, <2>1
    <3> QED BY <1>1, <1>2, <2>1, <3>1, ConcatIs
  <2>2. CASE ~(i < k)
    <3>1. /\ i \in (Len(a) + 1)..(Len(a) + Len(b))
          /\ i - Len(a) \in 1..(Len(s) - k) /\ k + (i - Len(a)) = i + 1
      BY <1>1, <1>2, <2>2
    <3>2. (a \o b)[i] = b[i - Len(a)]
      BY <1>1, <1>2, <3>1, ConcatIs
    <3> QED BY <1>2, <2>2, <3>1, <3>2
  <2> QED BY <2>1, <2>2
<1>6. Len(a) + Len(b) = Len(s) - 1
  BY <1>1, <1>2
<1> QED BY <1>3, <1>4, <1>5, <1>6

(* One element put in. *)
LEMMA InsertAtIs ==
  ASSUME NEW S, NEW s \in Seq(S), NEW k \in 1..(Len(s) + 1), NEW e \in S
  PROVE  /\ InsertAt(s, k, e) \in Seq(S) /\ Len(InsertAt(s, k, e)) = Len(s) + 1
         /\ \A i \in 1..(Len(s) + 1) :
               InsertAt(s, k, e)[i] = IF i < k THEN s[i] ELSE IF i = k THEN e ELSE s[i - 1]
<1> DEFINE a == SubSeq(s, 1, k - 1)
           b == SubSeq(s, k, Len(s))
           d == <<e>>
           c == a \o d
<1>1. a \in Seq(S) /\ Len(a) = k - 1 /\ \A i \in 1..(k - 1) : a[i] = s[i]
  OBVIOUS
<1>2. /\ b \in Seq(S) /\ Len(b) = Len(s) + 1 - k
      /\ \A i \in 1..(Len(s) + 1 - k) : b[i] = s[k + i - 1]
  OBVIOUS
<1>3. d \in Seq(S) /\ Len(d) = 1 /\ d[1] = e
  OBVIOUS
<1>4. InsertAt(s, k, e) = c \o b
  BY DEF InsertAt
<1> HIDE DEF a, b, d, c
<1>5. c \in Seq(S) /\ Len(c) = Len(a) + Len(d)
  BY <1>1, <1>3, ConcatIs DEF c
<1>6. Len(c) = k
  BY <1>1, <1>3, <1>5
<1>7. ASSUME NEW i \in 1..k PROVE c[i] = IF i < k THEN s[i] ELSE e
  <2>1. CASE i < k
    <3>1. i \in 1..(k - 1) /\ i \in 1..Len(a)
      BY <1>1, <2>1
    <3> QED BY <1>1, <1>3, <2>1, <3>1, ConcatIs DEF c
  <2>2. CASE i = k
    <3>1. i \in (Len(a) + 1)..(Len(a) + Len(d)) /\ i - Len(a) = 1
      BY <1>1, <1>3, <2>2
    <3>2. (a \o d)[i] = d[i - Len(a)]
      BY <1>1, <1>3, <3>1, ConcatIs
    <3> QED BY <1>3, <2>2, <3>1, <3>2 DEF c
  <2> QED BY <2>1, <2>2
<1>8. c \o b \in Seq(S) /\ Len(c \o b) = Len(c) + Len(b)
  BY <1>2, <1>5, ConcatIs
<1>9. ASSUME NEW i \in 1..(Len(s) + 1)
      PROVE  (c \o b)[i] = IF i < k THEN s[i] ELSE IF i = k THEN e ELSE s[i - 1]
  <2>1. CASE i <= k
    <3>1. i \in 1..k /\ i \in 1..Len(c)
      BY <1>6, <2>1
    <3>2. (c \o b)[i] = c[i]
      BY <1>2, <1>5, <3>1, ConcatIs
    <3>3. c[i] = IF i < k THEN s[i] ELSE e
      BY <1>7, <3>1
    <3>4. CASE i < k
      BY <3>2, <3>3, <3>4
    <3>5. CASE i = k
      BY <3>2, <3>3, <3>5
    <3>6. i < k \/ i = k
      BY <2>1
    <3> QED BY <3>4, <3>5, <3>6
  <2>2. CASE i > k
    <3>1. /\ i \in (Len(c) + 1)..(Len(c) + Len(b))
          /\ i - Len(c) \in 1..(Len(s) + 1 - k) /\ k + (i - Len(c)) - 1 = i - 1
      BY <1>2, <1>6, <2>2
    <3>2. (c \o b)[i] = b[i - Len(c)]
      BY <1>2, <1>5, <3>1, ConcatIs
    <3> QED BY <1>2, <2>2, <3>1, <3>2
  <2>3. i <= k \/ i > k
    OBVIOUS
  <2> QED BY <2>1, <2>2, <2>3
<1>10. Len(c) + Len(b) = Len(s) + 1
  BY <1>2, <1>6
<1> QED BY <1>4, <1>8, <1>9, <1>10

(* A sequence without repetitions, by its indices. *)
LEMMA InjectiveIs ==
  ASSUME NEW S, NEW s \in Seq(S)
  PROVE  IsInjective(s) <=> \A i, j \in 1..Len(s) : s[i] = s[j] => i = j
  BY DEF IsInjective

(* Without the first occurrence of an element. *)
LEMMA RemoveFirstIs ==
  ASSUME NEW S, NEW s \in Seq(S), NEW e
  PROVE  /\ RemoveFirst(s, e) \in Seq(S)
         /\ ToSet(RemoveFirst(s, e)) \subseteq ToSet(s)
         /\ \A x \in ToSet(s) : x # e => x \in ToSet(RemoveFirst(s, e))
         /\ IsInjective(s) => /\ IsInjective(RemoveFirst(s, e))
                              /\ e \notin ToSet(RemoveFirst(s, e))
<1> DEFINE I == {i \in 1..Len(s) : s[i] = e}
           r == RemoveFirst(s, e)
<1>1. CASE I = {}
  <2>1. r = s
    BY <1>1 DEF RemoveFirst
  <2>2. e \notin ToSet(s)
    BY <1>1, ToSetIs
  <2> QED BY <2>1, <2>2
<1>2. CASE I # {}
  <2>1. PICK k \in I : \A j \in I : k <= j
    <3>1. I \in SUBSET Nat
      OBVIOUS
    <3> HIDE DEF I
    <3> QED BY <1>2, <3>1, LeastNat
  <2>2. Min(I) \in I
    <3> HIDE DEF I
    <3> QED BY <2>1 DEF Min
  <2>3. SelectInSeq(s, LAMBDA v : v = e) = Min(I)
    BY <1>2 DEF SelectInSeq
  <2>4. r = RemoveAt(s, Min(I))
    BY <1>2, <2>3 DEF RemoveFirst
  <2> DEFINE m == Min(I)
  <2>5. m \in 1..Len(s) /\ s[m] = e
    BY <2>2
  <2> HIDE DEF m
  <2>6. r = RemoveAt(s, m)
    BY <2>4 DEF m
  <2> HIDE DEF r, I
  <2>7. /\ r \in Seq(S) /\ Len(r) = Len(s) - 1
        /\ \A i \in 1..(Len(s) - 1) : r[i] = IF i < m THEN s[i] ELSE s[i + 1]
    BY <2>5, <2>6, RemoveAtIs
  <2>8. ToSet(r) \subseteq ToSet(s)
    <3> SUFFICES ASSUME NEW x \in ToSet(r) PROVE x \in ToSet(s)
      OBVIOUS
    <3>1. PICK i \in 1..(Len(s) - 1) : r[i] = x
      BY <2>7, ToSetIs
    <3>2. x = s[i] \/ x = s[i + 1]
      BY <2>7, <3>1
    <3>3. i \in 1..Len(s) /\ i + 1 \in 1..Len(s)
      OBVIOUS
    <3> QED BY <3>2, <3>3, ToSetIs
  <2>9. ASSUME NEW x \in ToSet(s), x # e PROVE x \in ToSet(r)
    <3>1. PICK i \in 1..Len(s) : s[i] = x
      BY ToSetIs
    <3>2. i # m
      BY <2>5, <2>9, <3>1
    <3>3. CASE i < m
      <4>1. i \in 1..(Len(s) - 1) /\ r[i] = x
        BY <2>5, <2>7, <3>1, <3>3
      <4> QED BY <2>7, <4>1, ToSetIs
    <3>4. CASE i > m
      <4>1. i - 1 \in 1..(Len(s) - 1) /\ ~(i - 1 < m) /\ (i - 1) + 1 = i
        BY <2>5, <3>4
      <4>2. r[i - 1] = x
        BY <2>7, <3>1, <4>1
      <4> QED BY <2>7, <4>1, <4>2, ToSetIs
    <3> QED BY <2>5, <3>2, <3>3, <3>4
  <2>10. ASSUME IsInjective(s) PROVE IsInjective(r) /\ e \notin ToSet(r)
    <3>0. \A i, j \in 1..Len(s) : s[i] = s[j] => i = j
      BY <2>10, InjectiveIs
    <3> DEFINE At(i) == IF i < m THEN i ELSE i + 1
    <3>1. \A i \in 1..(Len(s) - 1) : At(i) \in 1..Len(s) /\ r[i] = s[At(i)] /\ At(i) # m
      BY <2>5, <2>7
    <3>2. \A i, j \in 1..(Len(s) - 1) : At(i) = At(j) => i = j
      BY <2>5
    <3> HIDE DEF At
    <3>3. \A i, j \in 1..(Len(s) - 1) : r[i] = r[j] => i = j
      BY <3>0, <3>1, <3>2
    <3>4. IsInjective(r)
      BY <2>7, <3>3, InjectiveIs
    <3>5. e \notin ToSet(r)
      <4> SUFFICES ASSUME e \in ToSet(r) PROVE FALSE
        OBVIOUS
      <4>1. PICK i \in 1..(Len(s) - 1) : r[i] = e
        BY <2>7, ToSetIs
      <4> QED BY <2>5, <3>0, <3>1, <4>1
    <3> QED BY <3>4, <3>5
  <2> QED BY <2>7, <2>8, <2>9, <2>10 DEF r
<1> QED BY <1>1, <1>2

(* An element put in. *)
LEMMA InsertAtSet ==
  ASSUME NEW S, NEW s \in Seq(S), NEW k \in 1..(Len(s) + 1), NEW e \in S
  PROVE  /\ ToSet(InsertAt(s, k, e)) = ToSet(s) \cup {e}
         /\ IsInjective(s) /\ e \notin ToSet(s) => IsInjective(InsertAt(s, k, e))
<1> DEFINE r == InsertAt(s, k, e)
<1>1. /\ r \in Seq(S) /\ Len(r) = Len(s) + 1
      /\ \A i \in 1..(Len(s) + 1) :
            r[i] = IF i < k THEN s[i] ELSE IF i = k THEN e ELSE s[i - 1]
  BY InsertAtIs
<1> HIDE DEF r
<1>2. ToSet(r) \subseteq ToSet(s) \cup {e}
  <2> SUFFICES ASSUME NEW x \in ToSet(r), x # e PROVE x \in ToSet(s)
    OBVIOUS
  <2>1. PICK i \in 1..(Len(s) + 1) : r[i] = x
    BY <1>1, ToSetIs
  <2>2. CASE i < k
    <3>1. i \in 1..Len(s) /\ s[i] = x
      BY <1>1, <2>1, <2>2
    <3> QED BY <3>1, ToSetIs
  <2>3. CASE i > k
    <3>1. i - 1 \in 1..Len(s) /\ s[i - 1] = x
      BY <1>1, <2>1, <2>3
    <3> QED BY <3>1, ToSetIs
  <2> QED BY <1>1, <2>1, <2>2, <2>3
<1>3. e \in ToSet(r)
  <2>1. k \in 1..Len(r) /\ r[k] = e
    BY <1>1
  <2> QED BY <1>1, <2>1, ToSetIs
<1>4. ASSUME NEW x \in ToSet(s) PROVE x \in ToSet(r)
  <2>1. PICK i \in 1..Len(s) : s[i] = x
    BY ToSetIs
  <2>2. CASE i < k
    <3>1. i \in 1..Len(r) /\ r[i] = x
      BY <1>1, <2>1, <2>2
    <3> QED BY <1>1, <3>1, ToSetIs
  <2>3. CASE i >= k
    <3>1. i + 1 \in 1..(Len(s) + 1) /\ ~(i + 1 < k) /\ i + 1 # k /\ (i + 1) - 1 = i
      BY <2>3
    <3>2. i + 1 \in 1..Len(r) /\ r[i + 1] = x
      BY <1>1, <2>1, <3>1
    <3> QED BY <1>1, <3>2, ToSetIs
  <2> QED BY <2>2, <2>3
<1>5. ASSUME IsInjective(s), e \notin ToSet(s) PROVE IsInjective(r)
  <2>0. \A i, j \in 1..Len(s) : s[i] = s[j] => i = j
    BY <1>5, InjectiveIs
  <2>1. \A i \in 1..Len(s) : s[i] # e
    BY <1>5, ToSetIs
  <2> DEFINE At(i) == IF i < k THEN i ELSE i - 1
  <2>2. \A i \in 1..(Len(s) + 1) : i # k => At(i) \in 1..Len(s) /\ r[i] = s[At(i)]
    BY <1>1
  <2>3. \A i, j \in 1..(Len(s) + 1) : i # k /\ j # k /\ At(i) = At(j) => i = j
    OBVIOUS
  <2> HIDE DEF At
  <2>4. r[k] = e
    BY <1>1
  <2>5. \A i, j \in 1..(Len(s) + 1) : r[i] = r[j] => i = j
    BY <2>0, <2>1, <2>2, <2>3, <2>4
  <2> QED BY <1>1, <2>5, InjectiveIs
<1> QED BY <1>2, <1>3, <1>4, <1>5 DEF r

(* An element put at the end. *)
LEMMA AppendSet ==
  ASSUME NEW S, NEW s \in Seq(S), NEW e \in S
  PROVE  /\ Append(s, e) \in Seq(S) /\ ToSet(Append(s, e)) = ToSet(s) \cup {e}
         /\ IsInjective(s) /\ e \notin ToSet(s) => IsInjective(Append(s, e))
<1> DEFINE r == Append(s, e)
<1>1. /\ r \in Seq(S) /\ Len(r) = Len(s) + 1 /\ r[Len(s) + 1] = e
      /\ \A i \in 1..Len(s) : r[i] = s[i]
  OBVIOUS
<1> HIDE DEF r
<1>2. ToSet(r) = ToSet(s) \cup {e}
  <2>1. \A x : x \in ToSet(r) <=> \E i \in 1..(Len(s) + 1) : r[i] = x
    BY <1>1, ToSetIs
  <2>2. \A x : x \in ToSet(s) <=> \E i \in 1..Len(s) : s[i] = x
    BY ToSetIs
  <2> QED BY <1>1, <2>1, <2>2
<1>3. ASSUME IsInjective(s), e \notin ToSet(s) PROVE IsInjective(r)
  <2>0. \A i, j \in 1..Len(s) : s[i] = s[j] => i = j
    BY <1>3, InjectiveIs
  <2>1. \A i \in 1..Len(s) : s[i] # e
    BY <1>3, ToSetIs
  <2>2. \A i, j \in 1..(Len(s) + 1) : r[i] = r[j] => i = j
    BY <1>1, <2>0, <2>1
  <2> QED BY <1>1, <2>2, InjectiveIs
<1> QED BY <1>1, <1>2, <1>3 DEF r

(* Without the first element. *)
LEMMA TailSet ==
  ASSUME NEW S, NEW s \in Seq(S), s # <<>>
  PROVE  /\ Head(s) \in S /\ Tail(s) \in Seq(S)
         /\ ToSet(s) = ToSet(Tail(s)) \cup {Head(s)}
         /\ IsInjective(s) => IsInjective(Tail(s)) /\ Head(s) \notin ToSet(Tail(s))
<1> DEFINE r == Tail(s)
<1>1. /\ r \in Seq(S) /\ Len(r) = Len(s) - 1 /\ Head(s) = s[1] /\ Len(s) >= 1
      /\ \A i \in 1..Len(r) : r[i] = s[i + 1]
  OBVIOUS
<1> HIDE DEF r
<1>2. Head(s) \in S /\ 1 \in 1..Len(s)
  BY <1>1
<1>3. ToSet(s) = ToSet(r) \cup {Head(s)}
  <2>1. \A x : x \in ToSet(r) <=> \E i \in 1..(Len(s) - 1) : r[i] = x
    BY <1>1, ToSetIs
  <2>2. \A x : x \in ToSet(s) <=> \E i \in 1..Len(s) : s[i] = x
    BY ToSetIs
  <2>3. ASSUME NEW x \in ToSet(s), x # Head(s) PROVE x \in ToSet(r)
    <3>1. PICK i \in 1..Len(s) : s[i] = x
      BY <2>2
    <3>2. i - 1 \in 1..Len(r) /\ (i - 1) + 1 = i
      BY <1>1, <2>3, <3>1
    <3>3. r[i - 1] = x
      BY <1>1, <3>1, <3>2
    <3> QED BY <1>1, <2>1, <3>2, <3>3
  <2>4. ASSUME NEW x \in ToSet(r) PROVE x \in ToSet(s)
    <3>1. PICK i \in 1..(Len(s) - 1) : r[i] = x
      BY <2>1
    <3>2. i + 1 \in 1..Len(s) /\ s[i + 1] = x
      BY <1>1, <3>1
    <3> QED BY <2>2, <3>2
  <2> QED BY <1>1, <1>2, <2>2, <2>3, <2>4
<1>4. ASSUME IsInjective(s) PROVE IsInjective(r) /\ Head(s) \notin ToSet(r)
  <2>0. \A i, j \in 1..Len(s) : s[i] = s[j] => i = j
    BY <1>4, InjectiveIs
  <2>1. \A i, j \in 1..Len(r) : r[i] = r[j] => i = j
    BY <1>1, <2>0
  <2>2. \A i \in 1..Len(r) : r[i] # Head(s)
    BY <1>1, <1>2, <2>0
  <2> QED BY <1>1, <2>1, <2>2, InjectiveIs, ToSetIs
<1> QED BY <1>1, <1>2, <1>3, <1>4 DEF r

(* The elements that are left when one is removed by its place. *)
LEMMA RemoveAtSet ==
  ASSUME NEW S, NEW s \in Seq(S), IsInjective(s), NEW k \in 1..Len(s)
  PROVE  /\ RemoveAt(s, k) \in Seq(S) /\ IsInjective(RemoveAt(s, k))
         /\ ToSet(RemoveAt(s, k)) = ToSet(s) \ {s[k]}
<1>1. PICK r : r = RemoveAt(s, k)
  OBVIOUS
<1>2. /\ r \in Seq(S) /\ Len(r) = Len(s) - 1 /\ Len(s) \in Nat
      /\ \A i \in 1..(Len(s) - 1) : r[i] = IF i < k THEN s[i] ELSE s[i + 1]
  BY <1>1, RemoveAtIs
<1>3. \A i, j \in 1..Len(s) : s[i] = s[j] => i = j
  BY InjectiveIs
<1>4. ASSUME NEW i \in 1..Len(r)
      PROVE  \E j \in 1..Len(s) : r[i] = s[j] /\ j = (IF i < k THEN i ELSE i + 1)
  <2>1. CASE i < k
    BY <1>2, <2>1
  <2>2. CASE ~(i < k)
    BY <1>2, <2>2
  <2> QED BY <2>1, <2>2
<1>5. ASSUME NEW i \in 1..Len(r), NEW j \in 1..Len(r), r[i] = r[j] PROVE i = j
  <2>1. PICK a \in 1..Len(s) : r[i] = s[a] /\ a = (IF i < k THEN i ELSE i + 1)
    BY <1>4
  <2>2. PICK b \in 1..Len(s) : r[j] = s[b] /\ b = (IF j < k THEN j ELSE j + 1)
    BY <1>4
  <2>3. a = b
    BY <1>3, <1>5, <2>1, <2>2
  <2> QED BY <1>2, <2>1, <2>2, <2>3
<1>6. IsInjective(r)
  BY <1>2, <1>5, InjectiveIs
<1>7. ASSUME NEW x \in ToSet(r) PROVE x \in ToSet(s) \ {s[k]}
  <2>1. PICK i \in 1..Len(r) : r[i] = x
    BY <1>2, ToSetIs
  <2>2. PICK j \in 1..Len(s) : r[i] = s[j] /\ j = (IF i < k THEN i ELSE i + 1)
    BY <1>4
  <2>3. j # k
    BY <1>2, <2>2
  <2>4. s[j] # s[k]
    BY <1>3, <2>3
  <2> QED BY <2>1, <2>2, <2>4, ToSetIs
<1>8. ASSUME NEW x \in ToSet(s) \ {s[k]} PROVE x \in ToSet(r)
  <2>1. PICK j \in 1..Len(s) : s[j] = x /\ j # k
    BY ToSetIs
  <2>2. CASE j < k
    <3>1. j \in 1..(Len(s) - 1) /\ j \in 1..Len(r) /\ r[j] = s[j]
      BY <1>2, <2>1, <2>2
    <3> QED BY <1>2, <2>1, <3>1, ToSetIs
  <2>3. CASE ~(j < k)
    <3>1. /\ j - 1 \in 1..(Len(s) - 1) /\ j - 1 \in 1..Len(r) /\ ~(j - 1 < k) /\ (j - 1) + 1 = j
      BY <1>2, <2>1, <2>3
    <3>2. r[j - 1] = s[j]
      BY <1>2, <3>1
    <3> QED BY <1>2, <2>1, <3>1, <3>2, ToSetIs
  <2> QED BY <2>2, <2>3
<1> QED BY <1>1, <1>2, <1>6, <1>7, <1>8

(* A sequence with one element put in front. *)
LEMMA ConsSet ==
  ASSUME NEW S, NEW s \in Seq(S), NEW e \in S
  PROVE  /\ <<e>> \o s \in Seq(S) /\ ToSet(<<e>> \o s) = ToSet(s) \cup {e}
         /\ IsInjective(s) /\ e \notin ToSet(s) => IsInjective(<<e>> \o s)
<1>1. PICK u \in Seq(S) : u = <<e>> /\ Len(u) = 1 /\ u[1] = e
  <2>1. <<e>> \in Seq(S) /\ Len(<<e>>) = 1 /\ <<e>>[1] = e
    OBVIOUS
  <2> QED BY <2>1
<1>2. PICK r : r = u \o s
  OBVIOUS
<1>3. /\ r \in Seq(S) /\ Len(r) = 1 + Len(s) /\ Len(s) \in Nat
      /\ \A i \in 1..1 : r[i] = u[i]
      /\ \A i \in (1 + 1)..(1 + Len(s)) : r[i] = s[i - 1]
  BY <1>1, <1>2, ConcatIs
<1>4. r[1] = e /\ \A i \in 2..(1 + Len(s)) : r[i] = s[i - 1] /\ i - 1 \in 1..Len(s)
  BY <1>1, <1>3
<1>5. \A x \in ToSet(r) : x \in ToSet(s) \cup {e}
  <2> SUFFICES ASSUME NEW x \in ToSet(r) PROVE x \in ToSet(s) \cup {e}
    OBVIOUS
  <2>1. PICK i \in 1..Len(r) : r[i] = x
    BY <1>3, ToSetIs
  <2>2. CASE i = 1
    BY <1>4, <2>1, <2>2
  <2>3. CASE i # 1
    <3>1. i \in 2..(1 + Len(s))
      BY <1>3, <2>3
    <3> QED BY <1>4, <2>1, <3>1, ToSetIs
  <2> QED BY <2>2, <2>3
<1>6. e \in ToSet(r) /\ \A x \in ToSet(s) : x \in ToSet(r)
  <2>1. 1 \in 1..Len(r)
    BY <1>3
  <2>2. e \in ToSet(r)
    BY <1>3, <1>4, <2>1, ToSetIs
  <2>3. ASSUME NEW x \in ToSet(s) PROVE x \in ToSet(r)
    <3>1. PICK i \in 1..Len(s) : s[i] = x
      BY ToSetIs
    <3>2. i + 1 \in 2..(1 + Len(s)) /\ i + 1 \in 1..Len(r) /\ (i + 1) - 1 = i
      BY <1>3
    <3>3. r[i + 1] = x
      BY <1>4, <3>1, <3>2
    <3> QED BY <1>3, <3>2, <3>3, ToSetIs
  <2> QED BY <2>2, <2>3
<1>7. ASSUME IsInjective(s), e \notin ToSet(s) PROVE IsInjective(r)
  <2>1. /\ \A i, j \in 1..Len(s) : s[i] = s[j] => i = j
        /\ \A i \in 1..Len(s) : s[i] # e
    BY <1>7, InjectiveIs, ToSetIs
  <2>2. ASSUME NEW i \in 1..Len(r), NEW j \in 1..Len(r), r[i] = r[j] PROVE i = j
    <3>1. (i = 1 \/ i \in 2..(1 + Len(s))) /\ (j = 1 \/ j \in 2..(1 + Len(s)))
      BY <1>3
    <3>2. CASE i = 1 /\ j = 1
      BY <3>2
    <3>3. CASE i = 1 /\ j \in 2..(1 + Len(s))
      BY <1>4, <2>1, <2>2, <3>3
    <3>4. CASE i \in 2..(1 + Len(s)) /\ j = 1
      BY <1>4, <2>1, <2>2, <3>4
    <3>5. CASE i \in 2..(1 + Len(s)) /\ j \in 2..(1 + Len(s))
      <4>1. i - 1 = j - 1
        BY <1>4, <2>1, <2>2, <3>5
      <4> QED BY <4>1, <3>5
    <3> QED BY <3>1, <3>2, <3>3, <3>4, <3>5
  <2> QED BY <1>3, <2>2, InjectiveIs
<1> QED BY <1>1, <1>2, <1>3, <1>5, <1>6, <1>7

=============================================================================
