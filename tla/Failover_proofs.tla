-------------------------- MODULE Failover_proofs --------------------------
(***************************************************************************)
(* The pair is never left with two passive servers: proved for any number  *)
(* of starts, any number of notifications in flight, and a network that is *)
(* or is not steady.                                                       *)
(***************************************************************************)
EXTENDS Failover, TLAPS

\* A server that is not running has no link, and nothing is queued for it.
Clean == \A p \in Peers : ~up[p] => ~linked[p] /\ inbox[p] = <<>>

\* A server that is passive, or is going to be when it handles what is queued for it.
Yielding(p) ==
    /\ up[p]
    /\ \/ state[p] = "passive"
       \/ state[p] = "pending" /\ \E i \in 1 .. Len(inbox[p]) : inbox[p][i] = "active"

\* The two servers do not both yield.
OneYields == \A p, q \in Peers : p # q => ~(Yielding(p) /\ Yielding(q))

\* A server that yields has not been told, after what makes it yield, that its peer
\* has yielded too.
NotTold ==
    \A p \in Peers :
        /\ state[p] = "passive" => \A i \in 1 .. Len(inbox[p]) : inbox[p][i] # "passive"
        /\ state[p] = "pending" =>
            \A i, j \in 1 .. Len(inbox[p]) :
                inbox[p][i] = "active" /\ inbox[p][j] = "passive" => j < i

FailoverInv == TypeOK /\ Clean /\ OneYields /\ NotTold

-----------------------------------------------------------------------------
\* The other server is the only other one.
LEMMA OtherPeer ==
    ASSUME NEW p \in Peers
    PROVE  /\ Other(p) \in Peers /\ Other(p) # p
           /\ \A q \in Peers : q = p \/ q = Other(p)
  BY FailoverAssumption DEF Other

\* What is left of a sequence after its head is taken: the rest, moved by one.
LEMMA TailIs ==
    ASSUME NEW S, NEW s \in Seq(S), s # <<>>
    PROVE  /\ Head(s) = s[1] /\ Head(s) \in S /\ Tail(s) \in Seq(S)
           /\ Len(s) \in Nat /\ 1 \in 1 .. Len(s) /\ Len(Tail(s)) = Len(s) - 1
           /\ \A i \in 1 .. Len(Tail(s)) : i + 1 \in 1 .. Len(s) /\ Tail(s)[i] = s[i + 1]
  OBVIOUS

\* What a broken connection leaves of what was in flight: a prefix.
LEMMA PrefixIs ==
    ASSUME NEW S, NEW s \in Seq(S), NEW n \in 0 .. Len(s)
    PROVE  /\ SubSeq(s, 1, n) \in Seq(S) /\ Len(SubSeq(s, 1, n)) = n
           /\ \A i \in 1 .. n : i \in 1 .. Len(s) /\ SubSeq(s, 1, n)[i] = s[i]
  OBVIOUS

\* One more notification goes behind the others.
LEMMA AppendIs ==
    ASSUME NEW S, NEW s \in Seq(S), NEW e \in S
    PROVE  /\ Append(s, e) \in Seq(S) /\ Len(Append(s, e)) = Len(s) + 1 /\ Len(s) \in Nat
           /\ \A i \in 1 .. Len(s) : i \in 1 .. Len(Append(s, e)) /\ Append(s, e)[i] = s[i]
           /\ Append(s, e)[Len(s) + 1] = e
  OBVIOUS

\* The reactions of amq_failover_execute: only a pending server that hears of an active
\* one becomes passive, and no server becomes pending.
LEMMA ReactionIs ==
    ASSUME NEW p \in Peers, NEW s \in HaState, NEW t \in HaState
    PROVE  LET r == Reaction(p)[s][t] IN
           /\ r \in HaState \cup {"abort"}
           /\ r = "passive" => s = "passive" \/ (s = "pending" /\ t = "active")
           /\ r = "pending" => s = "pending" /\ t # "active"
           /\ s = "passive" /\ t = "passive" => r = "abort"
  BY DEF Reaction, HaState

-----------------------------------------------------------------------------
\* Two servers that have not been started yet.
LEMMA InitFailover == Init => FailoverInv
  BY FailoverAssumption DEF Init, FailoverInv, TypeOK, Clean, OneYields, Yielding, NotTold, HaState

\* A server that disappears takes its links and its queue with it, and leaves its peer a
\* part of what it has sent.
LEMMA GoneFailover ==
    ASSUME FailoverInv, NEW p \in Peers, Gone(p), UNCHANGED state
    PROVE  FailoverInv'
  <1> DEFINE o == Other(p)
  <1>0. o \in Peers /\ o # p /\ \A q \in Peers : q = p \/ q = o
    BY OtherPeer
  <1>1. PICK n \in 0 .. Len(inbox[o]) :
          inbox' = [inbox EXCEPT ![p] = <<>>, ![o] = SubSeq(@, 1, n)]
    BY DEF Gone
  <1>2. inbox[o] \in Seq(HaState)
    BY <1>0 DEF FailoverInv, TypeOK
  <1>3. /\ SubSeq(inbox[o], 1, n) \in Seq(HaState) /\ Len(SubSeq(inbox[o], 1, n)) = n
        /\ \A i \in 1 .. n : i \in 1 .. Len(inbox[o]) /\ SubSeq(inbox[o], 1, n)[i] = inbox[o][i]
    BY <1>2, PrefixIs
  <1> HIDE DEF o
  <1>4. inbox'[p] = <<>> /\ inbox'[o] = SubSeq(inbox[o], 1, n)
    BY <1>0, <1>1 DEF FailoverInv, TypeOK
  <1>5. TypeOK'
    <2>1. inbox' \in [Peers -> Seq(HaState)]
      <3>1. <<>> \in Seq(HaState)
        OBVIOUS
      <3>2. [inbox EXCEPT ![p] = <<>>] \in [Peers -> Seq(HaState)]
        BY <3>1 DEF FailoverInv, TypeOK
      <3>3. inbox' = [[inbox EXCEPT ![p] = <<>>] EXCEPT ![o] = SubSeq(inbox[o], 1, n)]
        BY <1>0, <1>1 DEF FailoverInv, TypeOK
      <3> QED BY <3>2, <3>3, <1>3
    <2>2. up' \in [Peers -> BOOLEAN] /\ linked' \in [Peers -> BOOLEAN] /\ deciding' \in [Peers -> BOOLEAN]
      BY DEF FailoverInv, TypeOK, Gone
    <2>3. /\ state' \in [Peers -> HaState] /\ silent' \in [Peers -> BOOLEAN]
          /\ starts' \in [Peers -> Nat] /\ steady' \in BOOLEAN
      BY DEF FailoverInv, TypeOK, Gone
    <2> QED BY <2>1, <2>2, <2>3 DEF TypeOK
  <1>6. Clean'
    <2>1. SUFFICES ASSUME NEW q \in Peers, ~up'[q]
                   PROVE  ~linked'[q] /\ inbox'[q] = <<>>
      BY DEF Clean
    <2>2. ~linked'[q]
      BY DEF Gone
    <2>3. CASE q = p
      BY <2>2, <2>3, <1>4
    <2>4. CASE q = o
      <3>1. ~up[o]
        BY <2>1, <2>4, <1>0 DEF Gone, FailoverInv, TypeOK
      <3>2. inbox[o] = <<>>
        BY <3>1, <1>0 DEF FailoverInv, Clean
      <3> QED BY <3>2, <2>2, <2>4, <1>4, <1>3
    <2> QED BY <2>3, <2>4, <1>0
  <1>7. OneYields'
    <2>1. ~up'[p]
      BY DEF Gone, FailoverInv, TypeOK
    <2> QED BY <2>1, <1>0 DEF OneYields, Yielding
  <1>8. NotTold'
    <2>1. SUFFICES ASSUME NEW q \in Peers
                   PROVE  /\ state'[q] = "passive" => \A i \in 1 .. Len(inbox'[q]) : inbox'[q][i] # "passive"
                          /\ state'[q] = "pending" =>
                              \A i, j \in 1 .. Len(inbox'[q]) :
                                  inbox'[q][i] = "active" /\ inbox'[q][j] = "passive" => j < i
      BY DEF NotTold
    <2>2. CASE q = p
      BY <2>2, <1>4
    <2>3. CASE q = o
      BY <2>3, <1>4, <1>3, <1>0 DEF FailoverInv, NotTold
    <2> QED BY <2>2, <2>3, <1>0
  <1> QED BY <1>5, <1>6, <1>7, <1>8 DEF FailoverInv

\* A notification handled: its sender is no longer news, and the state follows it.
LEMMA ReceiveFailover ==
    ASSUME FailoverInv, NEW p \in Peers, Receive(p)
    PROVE  FailoverInv'
  <1> DEFINE o == Other(p)
             next == Reaction(p)[state[p]][Head(inbox[p])]
  <1>1. CASE next = "abort"
    <2>1. Gone(p) /\ UNCHANGED state
      BY <1>1 DEF Receive
    <2> QED BY <2>1, GoneFailover
  <1>2. CASE next # "abort"
    <2>0. o \in Peers /\ o # p /\ \A q \in Peers : q = p \/ q = o
      BY OtherPeer
    <2>1. /\ up[p] /\ inbox[p] # <<>>
          /\ state' = [state EXCEPT ![p] = next]
          /\ silent' = [silent EXCEPT ![p] = FALSE]
          /\ inbox' = [inbox EXCEPT ![p] = Tail(@)]
          /\ UNCHANGED <<up, deciding, linked, starts, steady>>
      BY <1>2 DEF Receive
    <2>2. inbox[p] \in Seq(HaState) /\ state[p] \in HaState
      BY DEF FailoverInv, TypeOK
    <2>3. /\ Head(inbox[p]) = inbox[p][1] /\ Head(inbox[p]) \in HaState
          /\ Tail(inbox[p]) \in Seq(HaState) /\ Len(inbox[p]) \in Nat /\ 1 \in 1 .. Len(inbox[p])
          /\ Len(Tail(inbox[p])) = Len(inbox[p]) - 1
          /\ \A i \in 1 .. Len(Tail(inbox[p])) :
                i + 1 \in 1 .. Len(inbox[p]) /\ Tail(inbox[p])[i] = inbox[p][i + 1]
      BY <2>1, <2>2, TailIs
    <2>4. /\ next \in HaState
          /\ next = "passive" =>
              state[p] = "passive" \/ (state[p] = "pending" /\ inbox[p][1] = "active")
          /\ next = "pending" => state[p] = "pending" /\ inbox[p][1] # "active"
      BY <1>2, <2>2, <2>3, ReactionIs
    <2> HIDE DEF o, next
    <2>5. /\ inbox'[p] = Tail(inbox[p]) /\ inbox'[o] = inbox[o]
          /\ state'[p] = next /\ state'[o] = state[o] /\ up' = up
      <3>1. inbox'[p] = Tail(inbox[p]) /\ inbox'[o] = inbox[o]
        BY <2>0, <2>1 DEF FailoverInv, TypeOK
      <3>2. state'[p] = next /\ state'[o] = state[o]
        BY <2>0, <2>1 DEF FailoverInv, TypeOK
      <3> QED BY <3>1, <3>2, <2>1
    <2>6. TypeOK'
      <3>1. inbox' \in [Peers -> Seq(HaState)]
        BY <2>1, <2>3 DEF FailoverInv, TypeOK
      <3>2. state' \in [Peers -> HaState]
        BY <2>1, <2>4 DEF FailoverInv, TypeOK
      <3>3. silent' \in [Peers -> BOOLEAN]
        BY <2>1 DEF FailoverInv, TypeOK
      <3> QED BY <3>1, <3>2, <3>3, <2>1 DEF FailoverInv, TypeOK
    <2>7. Clean'
      BY <2>0, <2>1, <2>5 DEF FailoverInv, Clean
    <2>8. OneYields'
      <3>1. Yielding(p)' => Yielding(p)
        BY <2>3, <2>4, <2>5 DEF Yielding
      <3>2. Yielding(o)' => Yielding(o)
        BY <2>5 DEF Yielding
      <3>3. OneYields
        BY DEF FailoverInv
      <3> QED BY <3>1, <3>2, <3>3, <2>0 DEF OneYields
    <2>9. NotTold'
      <3>1. NotTold
        BY DEF FailoverInv
      <3>2. state'[p] = "passive" => \A i \in 1 .. Len(inbox'[p]) : inbox'[p][i] # "passive"
        BY <3>1, <2>3, <2>4, <2>5 DEF NotTold
      <3>3. state'[p] = "pending" =>
                \A i, j \in 1 .. Len(inbox'[p]) :
                    inbox'[p][i] = "active" /\ inbox'[p][j] = "passive" => j < i
        BY <3>1, <2>3, <2>4, <2>5 DEF NotTold
      <3>4. /\ state'[o] = "passive" => \A i \in 1 .. Len(inbox'[o]) : inbox'[o][i] # "passive"
            /\ state'[o] = "pending" =>
                \A i, j \in 1 .. Len(inbox'[o]) :
                    inbox'[o][i] = "active" /\ inbox'[o][j] = "passive" => j < i
        BY <3>1, <2>0, <2>5 DEF NotTold
      <3> QED BY <3>2, <3>3, <3>4, <2>0 DEF NotTold
    <2> QED BY <2>6, <2>7, <2>8, <2>9 DEF FailoverInv
  <1> QED BY <1>1, <1>2

\* A notification sent: an "active" comes from a server that does not yield, and a
\* "passive" from one that does, so the peer does not.
LEMMA MonitorFailover ==
    ASSUME FailoverInv, NEW p \in Peers, Monitor(p)
    PROVE  FailoverInv'
  <1> DEFINE o == Other(p)
  <1>0. o \in Peers /\ o # p /\ \A q \in Peers : q = p \/ q = o
    BY OtherPeer
  <1>1. /\ up[p] /\ linked[o]
        /\ inbox' = [inbox EXCEPT ![o] = Append(@, state[p])]
        /\ UNCHANGED <<up, state, silent, deciding, linked, starts, steady>>
    BY DEF Monitor
  <1>2. inbox[o] \in Seq(HaState) /\ state[p] \in HaState
    BY <1>0 DEF FailoverInv, TypeOK
  <1>3. /\ Append(inbox[o], state[p]) \in Seq(HaState) /\ Len(inbox[o]) \in Nat
        /\ Len(Append(inbox[o], state[p])) = Len(inbox[o]) + 1
        /\ \A i \in 1 .. Len(inbox[o]) : Append(inbox[o], state[p])[i] = inbox[o][i]
        /\ Append(inbox[o], state[p])[Len(inbox[o]) + 1] = state[p]
    BY <1>2, AppendIs
  <1> HIDE DEF o
  <1>4. /\ inbox'[o] = Append(inbox[o], state[p]) /\ inbox'[p] = inbox[p]
        /\ state' = state /\ up' = up /\ linked' = linked
    BY <1>0, <1>1 DEF FailoverInv, TypeOK
  <1>5. TypeOK'
    <2>1. inbox' \in [Peers -> Seq(HaState)]
      BY <1>0, <1>1, <1>3 DEF FailoverInv, TypeOK
    <2> QED BY <2>1, <1>1 DEF FailoverInv, TypeOK
  <1>6. Clean'
    BY <1>0, <1>1, <1>4 DEF FailoverInv, Clean
  <1>7. OneYields'
    <2>1. Yielding(p)' => Yielding(p)
      BY <1>4 DEF Yielding
    <2>2. Yielding(o)' => Yielding(o) \/ state[p] = "active"
      BY <1>3, <1>4 DEF Yielding
    <2>3. state[p] = "active" => ~Yielding(p)
      BY DEF Yielding
    <2>4. OneYields
      BY DEF FailoverInv
    <2> QED BY <2>1, <2>2, <2>3, <2>4, <1>0 DEF OneYields
  <1>8. NotTold'
    <2>1. NotTold /\ OneYields
      BY DEF FailoverInv
    <2>2. up[o]
      BY <1>0, <1>1 DEF FailoverInv, Clean
    <2>3. state[p] = "passive" => ~Yielding(o)
      BY <2>1, <1>0, <1>1 DEF OneYields, Yielding
    <2>4. state'[o] = "passive" => \A i \in 1 .. Len(inbox'[o]) : inbox'[o][i] # "passive"
      BY <2>1, <2>2, <2>3, <1>0, <1>3, <1>4 DEF NotTold, Yielding
    <2>5. state'[o] = "pending" =>
                \A i, j \in 1 .. Len(inbox'[o]) :
                    inbox'[o][i] = "active" /\ inbox'[o][j] = "passive" => j < i
      BY <2>1, <2>2, <2>3, <1>0, <1>3, <1>4 DEF NotTold, Yielding
    <2>6. /\ state'[p] = "passive" => \A i \in 1 .. Len(inbox'[p]) : inbox'[p][i] # "passive"
          /\ state'[p] = "pending" =>
              \A i, j \in 1 .. Len(inbox'[p]) :
                  inbox'[p][i] = "active" /\ inbox'[p][j] = "passive" => j < i
      BY <2>1, <1>0, <1>4 DEF NotTold
    <2> QED BY <2>4, <2>5, <2>6, <1>0 DEF NotTold
  <1> QED BY <1>5, <1>6, <1>7, <1>8 DEF FailoverInv

\* A link that breaks loses a suffix of what it carried.
LEMMA BreakFailover ==
    ASSUME FailoverInv, NEW p \in Peers, Break(p)
    PROVE  FailoverInv'
  <1>1. PICK n \in 0 .. Len(inbox[p]) : inbox' = [inbox EXCEPT ![p] = SubSeq(@, 1, n)]
    BY DEF Break
  <1>2. inbox[p] \in Seq(HaState)
    BY DEF FailoverInv, TypeOK
  <1>3. /\ SubSeq(inbox[p], 1, n) \in Seq(HaState) /\ Len(SubSeq(inbox[p], 1, n)) = n
        /\ \A i \in 1 .. n : i \in 1 .. Len(inbox[p]) /\ SubSeq(inbox[p], 1, n)[i] = inbox[p][i]
    BY <1>2, PrefixIs
  <1>4. /\ linked[p] /\ linked' = [linked EXCEPT ![p] = FALSE]
        /\ UNCHANGED <<up, state, silent, deciding, starts, steady>>
    BY DEF Break
  <1>5. inbox'[p] = SubSeq(inbox[p], 1, n) /\ \A q \in Peers : q # p => inbox'[q] = inbox[q]
    BY <1>1 DEF FailoverInv, TypeOK
  <1>6. TypeOK'
    <2>1. inbox' \in [Peers -> Seq(HaState)]
      BY <1>1, <1>3 DEF FailoverInv, TypeOK
    <2>2. linked' \in [Peers -> BOOLEAN]
      BY <1>4 DEF FailoverInv, TypeOK
    <2> QED BY <2>1, <2>2, <1>4 DEF FailoverInv, TypeOK
  <1>7. Clean'
    <2>1. up[p]
      BY <1>4 DEF FailoverInv, Clean
    <2>2. \A q \in Peers : q # p => linked'[q] = linked[q]
      BY <1>4 DEF FailoverInv, TypeOK
    <2> QED BY <2>1, <2>2, <1>4, <1>5 DEF FailoverInv, Clean
  <1>8. OneYields'
    <2>1. ASSUME NEW q \in Peers PROVE Yielding(q)' => Yielding(q)
      BY <1>3, <1>4, <1>5 DEF Yielding
    <2>2. OneYields
      BY DEF FailoverInv
    <2> QED BY <2>1, <2>2 DEF OneYields
  <1>9. NotTold'
    BY <1>3, <1>4, <1>5 DEF FailoverInv, NotTold
  <1> QED BY <1>6, <1>7, <1>8, <1>9 DEF FailoverInv

\* The steps that touch no notification.
LEMMA OtherFailover ==
    ASSUME FailoverInv, NEW p \in Peers,
           \/ Start(p) \/ Connect(p) \/ Expire(p) \/ OpenDecide(p) \/ OpenTakeOver(p) \/ Settle
    PROVE  FailoverInv'
  <1>1. CASE Start(p)
    <2>1. /\ ~up[p] /\ up' = [up EXCEPT ![p] = TRUE]
          /\ state' = [state EXCEPT ![p] = "pending"]
          /\ silent' = [silent EXCEPT ![p] = TRUE]
          /\ starts' = [starts EXCEPT ![p] = @ + 1]
          /\ UNCHANGED <<deciding, linked, inbox, steady>>
      BY <1>1 DEF Start, StartState
    <2>2. inbox[p] = <<>> /\ Len(inbox[p]) = 0
      BY <2>1 DEF FailoverInv, Clean
    <2>3. TypeOK'
      <3>1. up' \in [Peers -> BOOLEAN] /\ silent' \in [Peers -> BOOLEAN]
        BY <2>1 DEF FailoverInv, TypeOK
      <3>2. state' \in [Peers -> HaState] /\ starts' \in [Peers -> Nat]
        BY <2>1 DEF FailoverInv, TypeOK, HaState
      <3> QED BY <3>1, <3>2, <2>1 DEF FailoverInv, TypeOK
    <2>4. /\ state'[p] = "pending" /\ inbox' = inbox
          /\ \A q \in Peers : q # p => state'[q] = state[q] /\ up'[q] = up[q]
      BY <2>1 DEF FailoverInv, TypeOK
    <2>5. Clean'
      <3>1. up'[p] /\ linked' = linked
        BY <2>1 DEF FailoverInv, TypeOK
      <3> QED BY <3>1, <2>4 DEF FailoverInv, Clean
    <2>6. OneYields'
      <3>1. ~Yielding(p)'
        BY <2>2, <2>4 DEF Yielding
      <3>2. ASSUME NEW q \in Peers, q # p PROVE Yielding(q)' => Yielding(q)
        BY <3>2, <2>4 DEF Yielding
      <3>3. OneYields
        BY DEF FailoverInv
      <3> QED BY <3>1, <3>2, <3>3 DEF OneYields
    <2>7. NotTold'
      BY <2>2, <2>4 DEF FailoverInv, NotTold
    <2> QED BY <2>3, <2>5, <2>6, <2>7 DEF FailoverInv
  <1>2. CASE Connect(p)
    <2>1. /\ up[p] /\ linked' = [linked EXCEPT ![p] = TRUE]
          /\ UNCHANGED <<up, state, silent, deciding, inbox, starts, steady>>
      BY <1>2 DEF Connect
    <2>2. TypeOK'
      <3>1. linked' \in [Peers -> BOOLEAN]
        BY <2>1 DEF FailoverInv, TypeOK
      <3> QED BY <3>1, <2>1 DEF FailoverInv, TypeOK
    <2>3. Clean'
      <3>1. \A q \in Peers : q # p => linked'[q] = linked[q]
        BY <2>1 DEF FailoverInv, TypeOK
      <3> QED BY <3>1, <2>1 DEF FailoverInv, Clean
    <2>4. OneYields' /\ NotTold'
      BY <2>1 DEF FailoverInv, OneYields, Yielding, NotTold
    <2> QED BY <2>2, <2>3, <2>4 DEF FailoverInv
  <1>3. CASE Expire(p) \/ OpenDecide(p) \/ Settle
    <2>1. UNCHANGED <<up, state, linked, inbox, starts>>
      BY <1>3 DEF Expire, OpenDecide, Settle
    <2>2. TypeOK'
      <3>1. silent' \in [Peers -> BOOLEAN]
        BY <1>3 DEF Expire, OpenDecide, Settle, FailoverInv, TypeOK
      <3>2. deciding' \in [Peers -> BOOLEAN]
        BY <1>3 DEF Expire, OpenDecide, Settle, FailoverInv, TypeOK
      <3>3. steady' \in BOOLEAN
        BY <1>3 DEF Expire, OpenDecide, Settle, FailoverInv, TypeOK
      <3> QED BY <3>1, <3>2, <3>3, <2>1 DEF FailoverInv, TypeOK
    <2>3. Clean' /\ OneYields' /\ NotTold'
      BY <2>1 DEF FailoverInv, Clean, OneYields, Yielding, NotTold
    <2> QED BY <2>2, <2>3 DEF FailoverInv
  <1>4. CASE OpenTakeOver(p)
    <2>1. /\ deciding' = [deciding EXCEPT ![p] = FALSE]
          /\ state' = [state EXCEPT ![p] = "active"]
          /\ UNCHANGED <<up, silent, linked, inbox, starts, steady>>
      BY <1>4 DEF OpenTakeOver
    <2>2. TypeOK'
      <3>1. deciding' \in [Peers -> BOOLEAN]
        BY <2>1 DEF FailoverInv, TypeOK
      <3>2. state' \in [Peers -> HaState]
        BY <2>1 DEF FailoverInv, TypeOK, HaState
      <3> QED BY <3>1, <3>2, <2>1 DEF FailoverInv, TypeOK
    <2>3. state'[p] = "active" /\ \A q \in Peers : q # p => state'[q] = state[q]
      BY <2>1 DEF FailoverInv, TypeOK
    <2>4. Clean'
      BY <2>1 DEF FailoverInv, Clean
    <2>5. OneYields'
      <3>1. ~Yielding(p)'
        BY <2>3 DEF Yielding
      <3>2. ASSUME NEW q \in Peers, q # p PROVE Yielding(q)' => Yielding(q)
        BY <3>2, <2>1, <2>3 DEF Yielding
      <3>3. OneYields
        BY DEF FailoverInv
      <3> QED BY <3>1, <3>2, <3>3 DEF OneYields
    <2>6. NotTold'
      BY <2>1, <2>3 DEF FailoverInv, NotTold
    <2> QED BY <2>2, <2>4, <2>5, <2>6 DEF FailoverInv
  <1> QED BY <1>1, <1>2, <1>3, <1>4

\* A passive server in FailoverInv yields, so its peer does not, and nothing queued for
\* it says "passive".
LEMMA FailoverSafe == FailoverInv => NoDualSlaves
  <1> SUFFICES ASSUME FailoverInv PROVE NoDualSlaves
    OBVIOUS
  <1>1. \E p \in Peers : ~(up[p] /\ state[p] = "passive")
    <2>1. Primary \in Peers /\ Other(Primary) \in Peers /\ Other(Primary) # Primary
      BY FailoverAssumption, OtherPeer
    <2>2. ~(Yielding(Primary) /\ Yielding(Other(Primary)))
      BY <2>1 DEF FailoverInv, OneYields
    <2> QED BY <2>1, <2>2 DEF Yielding
  <1>2. ASSUME NEW p \in Peers, state[p] = "passive", inbox[p] # <<>>
        PROVE  Head(inbox[p]) # "passive"
    <2>1. inbox[p] \in Seq(HaState)
      BY DEF FailoverInv, TypeOK
    <2>2. Head(inbox[p]) = inbox[p][1] /\ 1 \in 1 .. Len(inbox[p])
      BY <2>1, <1>2, TailIs
    <2> QED BY <2>2, <1>2 DEF FailoverInv, NotTold
  <1> QED BY <1>1, <1>2 DEF NoDualSlaves

\* The servers' states, their links and the notifications in flight, whatever crashes,
\* restarts, breaks or arrives late, and however often.
LEMMA InvariantKept == Spec => []FailoverInv
  <1>1. FailoverInv /\ [Next]_vars => FailoverInv'
    <2> SUFFICES ASSUME FailoverInv, [Next]_vars PROVE FailoverInv'
      OBVIOUS
    <2>1. ASSUME NEW p \in Peers, Crash(p) PROVE FailoverInv'
      BY <2>1, GoneFailover DEF Crash
    <2>2. CASE UNCHANGED vars
      BY <2>2 DEF vars, FailoverInv, TypeOK, Clean, OneYields, Yielding, NotTold
    <2>3. CASE Settle
      BY <2>3, OtherFailover, FailoverAssumption
    <2>4. ASSUME NEW p \in Peers,
                 \/ Start(p) \/ Connect(p) \/ Monitor(p) \/ Receive(p) \/ Crash(p) \/ Break(p)
                 \/ Expire(p) \/ OpenDecide(p) \/ OpenTakeOver(p)
          PROVE  FailoverInv'
      BY <2>1, <2>4, MonitorFailover, ReceiveFailover, BreakFailover, OtherFailover
    <2> QED BY <2>2, <2>3, <2>4 DEF Next
  <1> QED BY InitFailover, <1>1, PTL DEF Spec

\* Type correctness: a server is in one of the four states of the FSM and what is queued
\* for it are notifications of a state, also after a crash in the middle of any exchange.
THEOREM TypeCorrect == Spec => []TypeOK
  <1>1. FailoverInv => TypeOK
    BY DEF FailoverInv
  <1> QED BY InvariantKept, <1>1, PTL

\* The two servers of amq_failover are never both passive, and the assertion that ends a
\* passive server which hears of a passive peer is never reached.
THEOREM NeverBothPassive == Spec => []NoDualSlaves
  BY InvariantKept, FailoverSafe, PTL
=============================================================================
