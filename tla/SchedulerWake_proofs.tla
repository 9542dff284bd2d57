------------------------ MODULE SchedulerWake_proofs ------------------------
(***************************************************************************)
(* Proofs about the SMT kernel, continued: no wake-up is lost, neither of  *)
(* an OS thread nor of a thread, at a count of zero the engine rests, and  *)
(* the methods of a thread keep their order.                               *)
(*                                                                         *)
(* Some lists of the model are the result of a loop, written as recursive  *)
(* functions.  What a loop does is proved by induction over its rounds     *)
(* (NatInd of SequenceLemmas).                                             *)
(***************************************************************************)
EXTENDS Scheduler_proofs, SequenceLemmas

-----------------------------------------------------------------------------
(* The waiting list of an OS thread. *)

WaitSet == [list : Seq(Threads), entry : Threads \cup {Nobody}]

(* A thread joins the waiting list. *)
LEMMA InsertWaitingIs ==
  ASSUME NEW w \in WaitSet, NEW t \in Threads
  PROVE  /\ InsertWaiting(w, t) \in WaitSet
         /\ ToSet(InsertWaiting(w, t).list) = ToSet(w.list) \cup {t}
         /\ IsInjective(w.list) => IsInjective(InsertWaiting(w, t).list)
<1>1. w.list \in Seq(Threads) /\ w.entry \in Threads \cup {Nobody}
  BY DEF WaitSet
<1>2. CASE t \in ToSet(w.list)
  BY <1>2 DEF InsertWaiting
<1>3. CASE t \notin ToSet(w.list)
  <2>1. CASE t \in HighThreads /\ w.entry # Nobody
    <3> DEFINE k == Position(w.list, w.entry)
    <3>1. k \in 1..(Len(w.list) + 1)
      <4>1. \E i \in 1..(Len(w.list) + 1) :
               w.entry \in ToSet(w.list) => i <= Len(w.list) /\ w.list[i] = w.entry
        <5>1. CASE w.entry \in ToSet(w.list)
          <6>1. PICK i \in 1..Len(w.list) : w.list[i] = w.entry
            BY <1>1, <5>1, ToSetIs
          <6>2. i \in 1..(Len(w.list) + 1) /\ i <= Len(w.list)
            BY <1>1
          <6> QED BY <6>1, <6>2
        <5>2. CASE w.entry \notin ToSet(w.list)
          <6>1. 1 \in 1..(Len(w.list) + 1)
            BY <1>1
          <6> QED BY <5>2, <6>1
        <5> QED BY <5>1, <5>2
      <4> QED BY <4>1 DEF Position
    <3> HIDE DEF k
    <3>2. InsertWaiting(w, t) = [w EXCEPT !.list = InsertAt(w.list, k, t)]
      BY <1>3, <2>1 DEF InsertWaiting, k
    <3>3. InsertAt(w.list, k, t) \in Seq(Threads)
      BY <1>1, <3>1, InsertAtIs
    <3>4. /\ ToSet(InsertAt(w.list, k, t)) = ToSet(w.list) \cup {t}
          /\ IsInjective(w.list) => IsInjective(InsertAt(w.list, k, t))
      BY <1>1, <1>3, <3>1, InsertAtSet
    <3>5. InsertWaiting(w, t) \in WaitSet /\ InsertWaiting(w, t).list = InsertAt(w.list, k, t)
      BY <3>2, <3>3 DEF WaitSet
    <3> QED BY <3>4, <3>5
  <2>2. CASE ~(t \in HighThreads /\ w.entry # Nobody)
    <3>1. /\ Append(w.list, t) \in Seq(Threads)
          /\ ToSet(Append(w.list, t)) = ToSet(w.list) \cup {t}
          /\ IsInjective(w.list) => IsInjective(Append(w.list, t))
      BY <1>1, <1>3, AppendSet
    <3>2. InsertWaiting(w, t) \in WaitSet /\ InsertWaiting(w, t).list = Append(w.list, t)
      <4>1. CASE t \in HighThreads
        BY <1>3, <2>2, <3>1, <4>1 DEF InsertWaiting, WaitSet
      <4>2. CASE t \notin HighThreads
        <5>1. InsertWaiting(w, t) =
                 [list |-> Append(w.list, t),
                  entry |-> IF w.entry = Nobody THEN t ELSE w.entry]
          BY <1>3, <4>2 DEF InsertWaiting
        <5> QED BY <1>1, <3>1, <5>1 DEF WaitSet
      <4> QED BY <4>1, <4>2
    <3> QED BY <3>1, <3>2
  <2> QED BY <2>1, <2>2
<1> QED BY <1>2, <1>3

(* The first thread leaves the waiting list. *)
LEMMA PopWaitingIs ==
  ASSUME NEW w \in WaitSet, w.list # <<>>
  PROVE  PopWaiting(w) \in WaitSet /\ PopWaiting(w).list = Tail(w.list)
<1>1. w.list \in Seq(Threads) /\ w.entry \in Threads \cup {Nobody}
  BY DEF WaitSet
<1>2. Tail(w.list) \in Seq(Threads)
  BY <1>1
<1>3. Len(w.list) > 1 => w.list[2] \in Threads
  BY <1>1
<1> DEFINE n == IF Head(w.list) \in HighThreads THEN w.entry
                ELSE IF Len(w.list) > 1 THEN w.list[2] ELSE Nobody
<1>4. n \in Threads \cup {Nobody}
  BY <1>1, <1>3
<1>5. PopWaiting(w) = [list |-> Tail(w.list), entry |-> n]
  BY DEF PopWaiting
<1> HIDE DEF n
<1> QED BY <1>2, <1>4, <1>5 DEF WaitSet

(* The list and its entry belong together. *)
LEMMA ActivateOne ==
  ASSUME NEW w \in WaitSet, NEW t \in Threads
  PROVE  LET v == InsertWaiting([w EXCEPT !.list = RemoveFirst(@, t)], t)
         IN /\ v \in WaitSet /\ ToSet(v.list) = ToSet(w.list) \cup {t}
            /\ IsInjective(w.list) => IsInjective(v.list)
<1> DEFINE u == [w EXCEPT !.list = RemoveFirst(w.list, t)]
<1>1. w.list \in Seq(Threads)
  BY DEF WaitSet
<1>2. /\ RemoveFirst(w.list, t) \in Seq(Threads)
      /\ ToSet(RemoveFirst(w.list, t)) \subseteq ToSet(w.list)
      /\ \A x \in ToSet(w.list) : x # t => x \in ToSet(RemoveFirst(w.list, t))
      /\ IsInjective(w.list) => IsInjective(RemoveFirst(w.list, t))
  BY <1>1, RemoveFirstIs
<1>3. u \in WaitSet /\ u.list = RemoveFirst(w.list, t)
  BY <1>2 DEF WaitSet
<1> HIDE DEF u
<1>4. /\ InsertWaiting(u, t) \in WaitSet
      /\ ToSet(InsertWaiting(u, t).list) = ToSet(u.list) \cup {t}
      /\ IsInjective(u.list) => IsInjective(InsertWaiting(u, t).list)
  BY <1>3, InsertWaitingIs
<1>5. ToSet(u.list) \cup {t} = ToSet(w.list) \cup {t}
  BY <1>2, <1>3
<1> QED BY <1>2, <1>3, <1>4, <1>5 DEF u

(* The threads that smt_thread_activate puts into the waiting list. *)
Moved(ts, i) == {ts[j] : j \in {k \in 1..i : status[ts[k]] # "active"}}

(***************************************************************************)
(* After the loop of activations the waiting list holds what it held and   *)
(* every thread that is not executing, each once.                          *)
(***************************************************************************)
LEMMA ActivatedIs ==
  ASSUME NEW w \in WaitSet, NEW ts \in Seq(Threads)
  PROVE  /\ Activated(w, ts) \in WaitSet
         /\ ToSet(Activated(w, ts).list) =
               ToSet(w.list) \cup {t \in ToSet(ts) : status[t] # "active"}
         /\ IsInjective(w.list) => IsInjective(Activated(w, ts).list)
<1> DEFINE n == Len(ts)
           Step(v, i) == IF status[ts[i]] = "active" THEN v
                         ELSE InsertWaiting([v EXCEPT !.list = RemoveFirst(@, ts[i])], ts[i])
           G == [vi \in WaitSet \X (1..n) |-> Step(vi[1], vi[2])]
<1>0. n \in Nat /\ \A i \in 1..n : ts[i] \in Threads
  OBVIOUS
<1>1. ASSUME NEW v \in WaitSet, NEW i \in 1..n
      PROVE  /\ Step(v, i) \in WaitSet
             /\ ToSet(Step(v, i).list) =
                   ToSet(v.list) \cup (IF status[ts[i]] = "active" THEN {} ELSE {ts[i]})
             /\ IsInjective(v.list) => IsInjective(Step(v, i).list)
  <2>1. CASE status[ts[i]] = "active"
    BY <2>1
  <2>2. CASE status[ts[i]] # "active"
    <3>1. ts[i] \in Threads
      BY <1>0
    <3> QED BY <2>2, <3>1, ActivateOne
  <2> QED BY <2>1, <2>2
<1> HIDE DEF Step
<1>2. Stays(G, WaitSet, n)
  BY <1>1 DEF Stays
<1> HIDE DEF n, G
<1>3. PICK f : Iterates(f, G, WaitSet, n, w)
  BY <1>0, <1>2, RecExists
<1>4. /\ f \in [0..n -> WaitSet] /\ f[0] = w
      /\ \A i \in 1..n : f[i] = G[<<f[i - 1], i>>]
  BY <1>3 DEF Iterates
<1>5. \A i \in 1..n : f[i] = Step(f[i - 1], i)
  <2> TAKE i \in 1..n
  <2>1. f[i - 1] \in WaitSet
    BY <1>0, <1>4
  <2>2. <<f[i - 1], i>> \in WaitSet \X (1..n)
    BY <2>1
  <2> QED BY <1>4, <2>2 DEF G
<1> DEFINE P(h) == h = [i \in 0..n |-> IF i = 0 THEN w ELSE Step(h[i - 1], i)]
<1>6. P(f)
  BY <1>0, <1>4, <1>5
<1> DEFINE A == CHOOSE h : P(h)
<1>7. P(A)
  BY <1>6
<1>8. Activated(w, ts) = A[n]
  BY DEF Activated, n, Step
<1> HIDE DEF A
<1> DEFINE T == {m \in Nat : m <= n =>
                    /\ A[m] \in WaitSet
                    /\ ToSet(A[m].list) = ToSet(w.list) \cup Moved(ts, m)
                    /\ IsInjective(w.list) => IsInjective(A[m].list)}
<1>9. 0 \in T
  <2>1. A[0] = w /\ Moved(ts, 0) = {}
    BY <1>0, <1>7 DEF Moved
  <2> QED BY <2>1
<1>10. ASSUME NEW m \in T PROVE m + 1 \in T
  <2> SUFFICES ASSUME m + 1 <= n
               PROVE  /\ A[m + 1] \in WaitSet
                      /\ ToSet(A[m + 1].list) = ToSet(w.list) \cup Moved(ts, m + 1)
                      /\ IsInjective(w.list) => IsInjective(A[m + 1].list)
    OBVIOUS
  <2>1. /\ m + 1 \in 1..n /\ m + 1 \in 0..n /\ (m + 1) - 1 = m /\ m + 1 # 0
        /\ m <= n /\ m \in Nat
    BY <1>0
  <2>2. /\ A[m] \in WaitSet
        /\ ToSet(A[m].list) = ToSet(w.list) \cup Moved(ts, m)
        /\ IsInjective(w.list) => IsInjective(A[m].list)
    BY <2>1
  <2>3. A[m + 1] = Step(A[m], m + 1)
    BY <1>7, <2>1
  <2>4. Moved(ts, m + 1) = Moved(ts, m) \cup (IF status[ts[m + 1]] = "active" THEN {}
                                               ELSE {ts[m + 1]})
    <3>1. 1..(m + 1) = (1..m) \cup {m + 1}
      BY <2>1
    <3> QED BY <3>1 DEF Moved
  <2> HIDE DEF T
  <2> QED BY <1>1, <2>1, <2>2, <2>3, <2>4
<1>11. n \in T
  <2> HIDE DEF T
  <2>1. T \in SUBSET Nat
    BY DEF T
  <2> QED BY <1>0, <1>9, <1>10, <2>1, NatInd
<1>12. Moved(ts, n) = {t \in ToSet(ts) : status[t] # "active"}
  <2>1. \A x : x \in ToSet(ts) <=> \E i \in 1..n : ts[i] = x
    BY ToSetIs DEF n
  <2> QED BY <2>1 DEF Moved
<1> QED BY <1>0, <1>8, <1>11, <1>12

(* The threads that smt_thread_wake puts into the thread queue. *)
Woken(ts, i) == {ts[j] : j \in {k \in 1..i : status[ts[k]] \in {"sleeping", "pending"}}}

(* What the same loop leaves in the thread queue. *)
LEMMA RequeuedIs ==
  ASSUME NEW q \in Seq(Threads), NEW ts \in Seq(Threads)
  PROVE  /\ Requeued(q, ts) \in Seq(Threads)
         /\ ToSet(Requeued(q, ts)) =
               ToSet(q) \cup {t \in ToSet(ts) : status[t] \in {"sleeping", "pending"}}
         /\ IsInjective(q) => IsInjective(Requeued(q, ts))
<1> DEFINE n == Len(ts)
           V == Seq(Threads)
           Step(v, i) == IF status[ts[i]] \in {"sleeping", "pending"}
                         THEN Append(RemoveFirst(v, ts[i]), ts[i]) ELSE v
           G == [vi \in V \X (1..n) |-> Step(vi[1], vi[2])]
<1>0. n \in Nat /\ \A i \in 1..n : ts[i] \in Threads
  OBVIOUS
<1>1. ASSUME NEW v \in Seq(Threads), NEW i \in 1..n
      PROVE  /\ Step(v, i) \in Seq(Threads)
             /\ ToSet(Step(v, i)) =
                   ToSet(v) \cup (IF status[ts[i]] \in {"sleeping", "pending"}
                                  THEN {ts[i]} ELSE {})
             /\ IsInjective(v) => IsInjective(Step(v, i))
  <2>1. CASE status[ts[i]] \notin {"sleeping", "pending"}
    BY <2>1
  <2>2. CASE status[ts[i]] \in {"sleeping", "pending"}
    <3> DEFINE r == RemoveFirst(v, ts[i])
    <3>1. ts[i] \in Threads
      BY <1>0
    <3>2. /\ r \in Seq(Threads) /\ ToSet(r) \subseteq ToSet(v)
          /\ \A x \in ToSet(v) : x # ts[i] => x \in ToSet(r)
          /\ IsInjective(v) => IsInjective(r) /\ ts[i] \notin ToSet(r)
      BY RemoveFirstIs
    <3>3. Step(v, i) = Append(r, ts[i])
      BY <2>2
    <3> HIDE DEF r, Step
    <3>4. /\ Append(r, ts[i]) \in Seq(Threads)
          /\ ToSet(Append(r, ts[i])) = ToSet(r) \cup {ts[i]}
          /\ IsInjective(r) /\ ts[i] \notin ToSet(r) => IsInjective(Append(r, ts[i]))
      BY <3>1, <3>2, AppendSet
    <3> QED BY <2>2, <3>2, <3>3, <3>4
  <2> QED BY <2>1, <2>2
<1> HIDE DEF Step
<1>2. Stays(G, V, n)
  BY <1>1 DEF Stays
<1> HIDE DEF n, G
<1>3. PICK f : Iterates(f, G, V, n, q)
  BY <1>0, <1>2, RecExists
<1>4. /\ f \in [0..n -> V] /\ f[0] = q
      /\ \A i \in 1..n : f[i] = G[<<f[i - 1], i>>]
  BY <1>3 DEF Iterates
<1>5. \A i \in 1..n : f[i] = Step(f[i - 1], i)
  <2> TAKE i \in 1..n
  <2>1. f[i - 1] \in V
    BY <1>0, <1>4
  <2>2. <<f[i - 1], i>> \in V \X (1..n)
    BY <2>1
  <2> QED BY <1>4, <2>2 DEF G
<1> DEFINE P(h) == h = [i \in 0..n |-> IF i = 0 THEN q ELSE Step(h[i - 1], i)]
<1>6. P(f)
  BY <1>0, <1>4, <1>5
<1> DEFINE A == CHOOSE h : P(h)
<1>7. P(A)
  BY <1>6
<1>8. Requeued(q, ts) = A[n]
  <2>1. A = CHOOSE h : h = [i \in 0..n |->
               IF i = 0 THEN q
               ELSE IF status[ts[i]] \in {"sleeping", "pending"}
               THEN Append(RemoveFirst(h[i - 1], ts[i]), ts[i])
               ELSE h[i - 1]]
    BY DEF Step
  <2> QED BY <2>1 DEF Requeued, n
<1> HIDE DEF A
<1> DEFINE T == {m \in Nat : m <= n =>
                    /\ A[m] \in Seq(Threads)
                    /\ ToSet(A[m]) = ToSet(q) \cup Woken(ts, m)
                    /\ IsInjective(q) => IsInjective(A[m])}
<1>9. 0 \in T
  <2>1. A[0] = q /\ Woken(ts, 0) = {}
    BY <1>0, <1>7 DEF Woken
  <2> QED BY <2>1
<1>10. ASSUME NEW m \in T PROVE m + 1 \in T
  <2> SUFFICES ASSUME m + 1 <= n
               PROVE  /\ A[m + 1] \in Seq(Threads)
                      /\ ToSet(A[m + 1]) = ToSet(q) \cup Woken(ts, m + 1)
                      /\ IsInjective(q) => IsInjective(A[m + 1])
    OBVIOUS
  <2>1. /\ m + 1 \in 1..n /\ m + 1 \in 0..n /\ (m + 1) - 1 = m /\ m + 1 # 0
        /\ m <= n /\ m \in Nat
    BY <1>0
  <2>2. /\ A[m] \in Seq(Threads)
        /\ ToSet(A[m]) = ToSet(q) \cup Woken(ts, m)
        /\ IsInjective(q) => IsInjective(A[m])
    BY <2>1
  <2>3. A[m + 1] = Step(A[m], m + 1)
    BY <1>7, <2>1
  <2>4. Woken(ts, m + 1) = Woken(ts, m) \cup
            (IF status[ts[m + 1]] \in {"sleeping", "pending"} THEN {ts[m + 1]} ELSE {})
    <3>1. 1..(m + 1) = (1..m) \cup {m + 1}
      BY <2>1
    <3> QED BY <3>1 DEF Woken
  <2>5. /\ A[m + 1] \in Seq(Threads)
        /\ ToSet(A[m + 1]) =
              ToSet(A[m]) \cup (IF status[ts[m + 1]] \in {"sleeping", "pending"}
                               THEN {ts[m + 1]} ELSE {})
        /\ IsInjective(A[m]) => IsInjective(A[m + 1])
    BY <1>1, <2>1, <2>2, <2>3
  <2> QED BY <2>2, <2>4, <2>5
<1>11. n \in T
  <2> HIDE DEF T
  <2>1. T \in SUBSET Nat
    BY DEF T
  <2> QED BY <1>0, <1>9, <1>10, <2>1, NatInd
<1>12. Woken(ts, n) = {t \in ToSet(ts) : status[t] \in {"sleeping", "pending"}}
  <2>1. \A x : x \in ToSet(ts) <=> \E i \in 1..n : ts[i] = x
    BY ToSetIs DEF n
  <2> QED BY <2>1 DEF Woken
<1> QED BY <1>0, <1>8, <1>11, <1>12

-----------------------------------------------------------------------------
(* The inductive invariant, in its parts. *)

(* The places at which an OS thread has a thread it runs or has just run. *)
RunPlaces == {"clear running", "dec run", "manager", "continue", "park", "sleep",
              "recheck"}

ThreadsTyped ==
    /\ status \in [Threads -> Statuses]
    /\ blocked \in [Threads -> BOOLEAN] /\ signal_raised \in [Threads -> BOOLEAN]
    /\ shutdown_request \in [Threads -> BOOLEAN]
    /\ shutting_down \in [Threads -> BOOLEAN]
ListsTyped ==
    /\ thread_queue \in [OSThreads -> Seq(Threads)]
    /\ waiting_list \in [OSThreads -> Seq(Threads)]
    /\ list_entry \in [OSThreads -> Threads \cup {Nobody}]
    /\ current \in [OSThreads -> Threads \cup {Nobody}]
    /\ pipe \in [OSThreads -> Nat] /\ os_shutdown \in [OSThreads -> BOOLEAN]

(* Each thread is once in a list... *)
Once(o) == IsInjective(thread_queue[o]) /\ IsInjective(waiting_list[o])

(* ... and only in the lists of its OS thread, once it has one. *)
AtHome(o) ==
    /\ \A t \in ToSet(waiting_list[o]) : home[t] = o
    /\ \A t \in ToSet(thread_queue[o]) : home[t] \in {o, Nobody}
    /\ current[o] # Nobody => home[current[o]] = o

(* The thread an OS thread runs is active until it is put to sleep. *)
RunSound(o) ==
    /\ pc[o] \in RunPlaces => current[o] # Nobody
    /\ pc[o] \notin RunPlaces \cup {"shutdown"} => current[o] = Nobody
    /\ current[o] # Nobody /\ pc[o] # "recheck" => status[current[o]] = "active"
    /\ pc[o] = "recheck" => status[current[o]] \in {"sleeping", "waiting"}
    /\ pc[o] = "park" => blocked[current[o]]
    /\ pc[o] \in {"park", "sleep", "recheck"} => ~shutdown_request[current[o]]

(* Caller c is about to put thread t into a queue, or to try its status. *)
Brings(c, t) == call[c].stage = "queue" /\ call[c].thread = t
Brought(t) == \E c \in Callers : Brings(c, t)
Called(t) == \E c \in Callers : call[c].stage = "cas" /\ call[c].thread = t

(* Where a thread of OS thread o is found in each of its states. *)
Found(o, t) ==
    /\ status[t] = "waiting" => \/ t \in ToSet(waiting_list[o])
                                \/ t \in ToSet(thread_queue[o])
                                \/ Brought(t)
    /\ status[t] = "active" => current[o] = t
    /\ status[t] = "sleeping" /\ Activity(t) => \/ pc[o] = "recheck" /\ current[o] = t
                                                \/ Called(t)
    /\ status[t] = "pending" => blocked[t]
    /\ status[t] \in {"active", "zombie"} => t \notin ToSet(waiting_list[o])
    /\ status[t] = "zombie" => ~blocked[t]

(* A caller who will still swap the status of the OS thread, signal or write. *)
OnTheWay(o) == \E c \in Callers : call[c].os = o /\ call[c].stage \in {"inc", "swap"}
Signals(o) == \E c \in Callers : call[c].os = o /\ call[c].stage = "signal"
Writes(o) == \E c \in Callers : call[c].os = o /\ call[c].stage \in {"dec pipe", "pipe"}

(* The queue has been cleared since the status was changed... *)
Committed == {"commit polling", "commit sleeping", "clear idle", "poll", "wait",
              "cond", "asleep", "inc", "swap"}
(* ... and the shutdown request looked at. *)
Idling == {"clear idle", "poll", "wait", "cond", "asleep"}

(* What an OS thread that is not active can rely on. *)
WakeSound(o) ==
    /\ os_status[o] = "sleeping" => /\ pc[o] \notin {"clear polling", "commit polling", "wait"}
                                    /\ Requests(o) = {}
    /\ pc[o] \in Committed /\ os_status[o] # "active" /\ thread_queue[o] # <<>> => OnTheWay(o)
    /\ pc[o] \in Idling /\ os_status[o] # "active" /\ os_shutdown[o] => OnTheWay(o)
    /\ pc[o] \in {"cond", "asleep", "wait"} => waiting_list[o] = <<>>
    /\ os_status[o] = "sleeping" /\ pc[o] \notin {"clear sleeping", "commit sleeping"}
       /\ waiting_list[o] # <<>> => OnTheWay(o)
    /\ pc[o] = "asleep" => os_status[o] = "sleeping" \/ Signals(o)
    /\ pc[o] = "wait" => os_status[o] = "polling" \/ pipe[o] > 0 \/ Writes(o)

Good(o) == /\ Once(o) /\ AtHome(o) /\ RunSound(o) /\ WakeSound(o)
           /\ \A t \in Threads : home[t] = o => Found(o, t)

(* A thread is brought to its OS thread; one without is new, or on its way *)
(* to a single one.                                                        *)
BroughtHome == \A c \in Callers : call[c].stage = "queue" =>
                   home[call[c].thread] \in {call[c].os, Nobody}
Homeless(t) ==
    /\ ~blocked[t] /\ status[t] \in {"newborn", "waiting"}
    /\ status[t] = "newborn" <=>
          ~Brought(t) /\ \A o \in OSThreads : t \notin ToSet(thread_queue[o])
    /\ \A o, p \in OSThreads : t \in ToSet(thread_queue[o]) /\ t \in ToSet(thread_queue[p])
                                  => o = p
    /\ \A c, d \in Callers : Brings(c, t) /\ Brings(d, t) => c = d
    /\ \A o \in OSThreads : ~(t \in ToSet(thread_queue[o]) /\ Brought(t))
NewSound == \A t \in Threads : home[t] = Nobody => Homeless(t)

(* A shutdown: the thread knows of it, or will be told. *)
Warned(t) == shutting_down[t] \/ shutdown_request[t] \/ status[t] = "zombie"
Due(do, of) == \E c \in Callers : \E i \in 1..Len(call[c].jobs) :
                  call[c].jobs[i].do = do /\ call[c].jobs[i].of = of
Flags(c, t) == /\ call[c].stage \in {"cas", "cas2"} /\ call[c].thread = t
               /\ call[c].jobs # <<>>
Flagged(t) == \E c \in Callers : Flags(c, t)
Walking == \E of : Due("walk", of)
Hears(t) == \/ Warned(t) \/ t \in missed
            \/ home[t] = Nobody /\ (Due("flag", t) \/ Walking)
            \/ home[t] # Nobody /\ (os_shutdown[home[t]] \/ Due("os", home[t]))
Heard(t) == shutdown_request[t] => \/ status[t] \in {"waiting", "active", "zombie"}
                                   \/ status[t] = "newborn" /\ Flagged(t)

(* The walk has flagged, or is about to, the new threads before its cursor. *)
Passed == \A u \in Threads : Due("walk", u) =>
              \A t \in NewThreads : Birth[t] < Birth[u] => Warned(t) \/ Due("flag", t)

(* A stopper tells every OS thread after it has flagged the new threads, and *)
(* leaves when it has told them.                                             *)
JobsOrdered(js) ==
    \A i \in 1..Len(js) :
       /\ js[i].do \in {"walk", "flag"} =>
             \A o \in OSThreads : \E j \in i..Len(js) : js[j].do = "os" /\ js[j].of = o
       /\ js[i].do = "leave" => i = Len(js)

Telling == (stopped => \A t \in Threads : Hears(t)) /\ Passed

StopSound ==
    /\ Telling
    /\ \A t \in Threads : Heard(t)
    /\ \A c \in Callers : JobsOrdered(call[c].jobs)

(* The inductive invariant. *)
KernelInv == /\ CountInv /\ ThreadsTyped /\ ListsTyped
             /\ \A o \in OSThreads : Good(o)
             /\ BroughtHome /\ NewSound /\ StopSound

-----------------------------------------------------------------------------
(* The steps of one OS thread: what they leave alone. *)

OSFrame(o) ==
    /\ call' = call /\ stopped' = stopped /\ missed' = missed
    /\ \A p \in OSThreads : p # o =>
          /\ os_status'[p] = os_status[p] /\ pc'[p] = pc[p] /\ pipe'[p] = pipe[p]
          /\ os_shutdown'[p] = os_shutdown[p] /\ current'[p] = current[p]
          /\ thread_queue'[p] = thread_queue[p] /\ waiting_list'[p] = waiting_list[p]

Same(t) == /\ home'[t] = home[t] /\ status'[t] = status[t] /\ blocked'[t] = blocked[t]
           /\ shutdown_request'[t] = shutdown_request[t]
           /\ shutting_down'[t] = shutting_down[t]
           /\ Activity(t)' <=> Activity(t)

ThreadFrame(o) ==
    \A t \in Threads :
        /\ home'[t] # o => Same(t)
        /\ home'[t] # home[t] => /\ home[t] = Nobody /\ home'[t] = o
                                 /\ t \in ToSet(thread_queue[o])
        /\ home'[t] # o => (t \in ToSet(thread_queue'[o]) <=> t \in ToSet(thread_queue[o]))

(* What remains to be shown of a step of OS thread o. *)
Kept(o) ==
    /\ ThreadsTyped' /\ ListsTyped' /\ OSFrame(o) /\ ThreadFrame(o) /\ Good(o)'
    /\ \A t \in Threads : home'[t] = o => /\ stopped => Hears(t)'
                                          /\ Heard(t)'

(* The parts of what callers do are kept when the calls are. *)
LEMMA CallsKept ==
  ASSUME call' = call
  PROVE  /\ \A t : Brought(t)' <=> Brought(t)
         /\ \A t : Called(t)' <=> Called(t)
         /\ \A t : Flagged(t)' <=> Flagged(t)
         /\ \A c, t : Brings(c, t)' <=> Brings(c, t)
         /\ \A o : OnTheWay(o)' <=> OnTheWay(o)
         /\ \A o : Signals(o)' <=> Signals(o)
         /\ \A o : Writes(o)' <=> Writes(o)
         /\ \A do, of : Due(do, of)' <=> Due(do, of)
         /\ Walking' <=> Walking
  BY DEF Brought, Called, Flagged, Flags, Brings, OnTheWay, Signals, Writes, Due, Walking

(* The other OS threads. *)
LEMMA OthersGood ==
  ASSUME KernelInv, NEW o \in OSThreads, OSFrame(o), ThreadFrame(o),
         NEW p \in OSThreads, p # o
  PROVE  Good(p)'
<1>0. /\ os_status'[p] = os_status[p] /\ pc'[p] = pc[p] /\ pipe'[p] = pipe[p]
      /\ os_shutdown'[p] = os_shutdown[p] /\ current'[p] = current[p]
      /\ thread_queue'[p] = thread_queue[p] /\ waiting_list'[p] = waiting_list[p]
      /\ call' = call
  BY DEF OSFrame
<1>1. /\ Once(p) /\ AtHome(p) /\ RunSound(p) /\ WakeSound(p)
      /\ \A t \in Threads : home[t] = p => Found(p, t)
  BY DEF KernelInv, Good
<1>2. p # Nobody /\ o # Nobody
  BY ThreadsAssumption
<1>3. /\ ToSet(waiting_list[p]) \subseteq Threads /\ ToSet(thread_queue[p]) \subseteq Threads
      /\ current[p] \in Threads \cup {Nobody}
  BY ToSetIs DEF KernelInv, ListsTyped
<1>4. \A t \in Threads : home[t] = p => home'[t] = p /\ Same(t)
  BY <1>2 DEF ThreadFrame
<1>5. \A t \in Threads : home'[t] = p => home[t] = p
  BY DEF ThreadFrame, Same
<1>6. Once(p)'
  BY <1>0, <1>1 DEF Once
<1>7. AtHome(p)'
  <2>1. ASSUME NEW t \in ToSet(thread_queue[p]) PROVE home'[t] \in {p, Nobody}
    <3>1. t \in Threads /\ home[t] \in {p, Nobody}
      BY <1>1, <1>3 DEF AtHome
    <3>2. CASE home[t] = p
      BY <1>4, <3>1, <3>2
    <3>3. CASE home[t] = Nobody
      <4>1. t \notin ToSet(thread_queue[o])
        BY <3>1, <3>3 DEF KernelInv, NewSound, Homeless
      <4> QED BY <3>1, <3>3, <4>1 DEF ThreadFrame
    <3> QED BY <3>1, <3>2, <3>3
  <2> QED BY <1>0, <1>1, <1>3, <1>4, <2>1 DEF AtHome
<1>8. RunSound(p)'
  <2>1. CASE current[p] = Nobody
    BY <1>0, <1>1, <2>1 DEF RunSound, RunPlaces
  <2>2. CASE current[p] # Nobody
    <3>1. Same(current[p])
      BY <1>1, <1>3, <1>4, <2>2 DEF AtHome
    <3> QED BY <1>0, <1>1, <2>2, <3>1 DEF RunSound, Same
  <2> QED BY <2>1, <2>2
<1>9. WakeSound(p)'
  <2>1. Requests(p)' \subseteq Requests(p)
    BY <1>4, <1>5 DEF Requests, Same
  <2> QED BY <1>0, <1>1, <2>1, CallsKept DEF WakeSound
<1>10. ASSUME NEW t \in Threads, home'[t] = p PROVE Found(p, t)'
  BY <1>0, <1>1, <1>4, <1>5, <1>10, CallsKept DEF Found, Same
<1> QED BY <1>6, <1>7, <1>8, <1>9, <1>10 DEF Good

(* It is enough to look at the OS thread that takes the step. *)
LEMMA KeptKeeps ==
  ASSUME KernelInv, NEW o \in OSThreads, Kept(o), CountInv'
  PROVE  KernelInv'
<1>0. OSFrame(o) /\ ThreadFrame(o) /\ Good(o)' /\ ThreadsTyped' /\ ListsTyped'
  BY DEF Kept
<1>1. \A p \in OSThreads : Good(p)'
  BY <1>0, OthersGood
<1>2. o # Nobody /\ call' = call /\ stopped' = stopped /\ missed' = missed
  BY <1>0, ThreadsAssumption DEF OSFrame
<1>3. BroughtHome'
  <2> SUFFICES ASSUME NEW c \in Callers, call[c].stage = "queue"
               PROVE  home'[call[c].thread] \in {call[c].os, Nobody}
    BY <1>2 DEF BroughtHome
  <2> DEFINE t == call[c].thread
  <2>1. t \in Threads /\ home[t] \in {call[c].os, Nobody}
    BY DEF KernelInv, CountInv, CallsSound, CallSound, BroughtHome
  <2>2. CASE home'[t] = home[t]
    BY <2>1, <2>2
  <2>3. CASE home'[t] # home[t]
    <3>1. home[t] = Nobody /\ t \in ToSet(thread_queue[o])
      BY <1>0, <2>1, <2>3 DEF ThreadFrame
    <3>2. Brought(t)
      BY DEF Brought, Brings
    <3> HIDE DEF t
    <3> QED BY <2>1, <3>1, <3>2 DEF KernelInv, NewSound, Homeless
  <2> QED BY <2>2, <2>3
<1>4. NewSound'
  <2> SUFFICES ASSUME NEW t \in Threads, home'[t] = Nobody PROVE Homeless(t)'
    BY DEF NewSound
  <2>1. Same(t) /\ (t \in ToSet(thread_queue'[o]) <=> t \in ToSet(thread_queue[o]))
    BY <1>0, <1>2 DEF ThreadFrame
  <2>2. \A p \in OSThreads : t \in ToSet(thread_queue'[p]) <=> t \in ToSet(thread_queue[p])
    BY <1>0, <2>1 DEF OSFrame
  <2>3. Homeless(t)
    BY <2>1 DEF KernelInv, NewSound, Same
  <2> QED BY <1>2, <2>1, <2>2, <2>3, CallsKept DEF Homeless, Same
<1>5. StopSound'
  <2>1. ASSUME NEW t \in Threads, home'[t] # o, stopped PROVE Hears(t)'
    <3>1. Same(t) /\ Hears(t)
      BY <1>0, <2>1 DEF ThreadFrame, KernelInv, StopSound, Telling
    <3>2. Warned(t)' <=> Warned(t)
      BY <3>1 DEF Warned, Same
    <3>3. home[t] # Nobody => os_shutdown'[home[t]] = os_shutdown[home[t]]
      BY <1>0, <2>1, <3>1 DEF Same, OSFrame, KernelInv, CountInv, OSTyped
    <3> QED BY <1>2, <3>1, <3>2, <3>3, CallsKept DEF Hears, Same
  <2>2. ASSUME NEW t \in Threads, home'[t] # o PROVE Heard(t)'
    BY <1>0, <1>2, <2>2, CallsKept DEF ThreadFrame, Same, Heard, KernelInv, StopSound
  <2>3. \A t \in Threads : home'[t] = o => (stopped => Hears(t)') /\ Heard(t)'
    BY DEF Kept
  <2>4. \A c \in Callers : JobsOrdered(call[c].jobs)'
    BY <1>2 DEF KernelInv, StopSound, JobsOrdered
  <2>5. Passed'
    <3> SUFFICES ASSUME NEW u \in Threads, Due("walk", u)',
                        NEW t \in Threads, home'[t] = Nobody, Birth[t] < Birth[u]
                 PROVE  Warned(t)' \/ Due("flag", t)'
      BY DEF Passed, NewThreads
    <3>1. Same(t)
      BY <1>0, <1>2 DEF ThreadFrame
    <3>2. t \in NewThreads /\ Due("walk", u)
      BY <1>2, <3>1, CallsKept DEF Same, NewThreads
    <3>3. Warned(t) \/ Due("flag", t)
      BY <3>2 DEF KernelInv, StopSound, Telling, Passed
    <3> QED BY <1>2, <3>1, <3>3, CallsKept DEF Same, Warned
  <2> QED BY <1>2, <2>1, <2>2, <2>3, <2>4, <2>5 DEF StopSound, Telling
<1> QED BY <1>0, <1>1, <1>3, <1>4, <1>5 DEF KernelInv

(* The threads of an OS thread keep what they know of a shutdown. *)
LEMMA HearsKept ==
  ASSUME KernelInv, NEW t \in Threads, call' = call, home'[t] = home[t], missed' = missed,
         \A o : os_shutdown[o] => os_shutdown'[o], Warned(t) => Warned(t)', stopped
  PROVE  Hears(t)'
  BY CallsKept DEF KernelInv, StopSound, Telling, Hears

(* A step that changes the place of an OS thread and nothing of a thread. *)
LEMMA PlaceStep ==
  ASSUME KernelInv, NEW o \in OSThreads, NEW p, Goto(o, p), pc[o] # "recheck",
         UNCHANGED <<threadVars, thread_queue, waiting_list, list_entry, pipe,
                     os_shutdown, current, call, stopped, missed>>,
         NEW s, os_status' = [os_status EXCEPT ![o] = s],
         RunSound(o)', WakeSound(o)'
  PROVE  Kept(o)
<1>0. UNCHANGED <<status, home, reply_queue, reply_list, blocked, module,
                  signal_raised, shutdown_request, shutting_down>>
  BY DEF threadVars
<1>1. ThreadsTyped' /\ ListsTyped'
  BY <1>0 DEF KernelInv, ThreadsTyped, ListsTyped
<1>2. OSFrame(o)
  BY DEF OSFrame, Goto, KernelInv, CountInv, OSTyped
<1>3. \A t : Activity(t)' <=> Activity(t)
  BY <1>0 DEF Activity
<1>4. ThreadFrame(o)
  BY <1>0, <1>3 DEF ThreadFrame, Same
<1>5. Good(o)
  BY DEF KernelInv
<1>6. Once(o)' /\ AtHome(o)'
  BY <1>0, <1>5 DEF Good, Once, AtHome
<1>7. ASSUME NEW t \in Threads, home[t] = o PROVE Found(o, t)'
  BY <1>0, <1>3, <1>5, <1>7, CallsKept DEF Good, Found
<1>8. ASSUME NEW t \in Threads PROVE (stopped => Hears(t)') /\ Heard(t)'
  <2>1. Warned(t)' <=> Warned(t)
    BY <1>0 DEF Warned
  <2>2. Heard(t)
    BY DEF KernelInv, StopSound
  <2> QED BY <1>0, <2>1, <2>2, CallsKept, HearsKept DEF Heard
<1>9. Good(o)'
  BY <1>0, <1>6, <1>7 DEF Good
<1> QED BY <1>1, <1>2, <1>4, <1>8, <1>9 DEF Kept

(* What is known of the place an OS thread has reached. *)
LEMMA GoodIs ==
  ASSUME KernelInv, NEW o \in OSThreads
  PROVE  /\ Once(o) /\ AtHome(o) /\ RunSound(o) /\ WakeSound(o) /\ o # Nobody
         /\ \A t \in Threads : home[t] = o => Found(o, t)
         /\ pc[o] \in Places /\ os_status[o] \in OSStatuses
         /\ os_status[o] = "sleeping" => pc[o] \in Resting
         /\ pc \in [OSThreads -> Places] /\ os_status \in [OSThreads -> OSStatuses]
         /\ current[o] \in Threads \cup {Nobody} /\ pipe[o] \in Nat
         /\ waiting_list[o] \in Seq(Threads) /\ thread_queue[o] \in Seq(Threads)
         /\ ToSet(waiting_list[o]) \subseteq Threads
         /\ ToSet(thread_queue[o]) \subseteq Threads
<1>1. waiting_list[o] \in Seq(Threads) /\ thread_queue[o] \in Seq(Threads)
  BY DEF KernelInv, ListsTyped
<1>2. /\ ToSet(waiting_list[o]) \subseteq Threads
      /\ ToSet(thread_queue[o]) \subseteq Threads
  BY <1>1, ToSetIs
<1>3. /\ current[o] \in Threads \cup {Nobody} /\ pipe[o] \in Nat
  BY DEF KernelInv, ListsTyped
<1>4. /\ Once(o) /\ AtHome(o) /\ RunSound(o) /\ WakeSound(o) /\ o # Nobody
      /\ \A t \in Threads : home[t] = o => Found(o, t)
  BY ThreadsAssumption DEF KernelInv, Good
<1> QED BY <1>1, <1>2, <1>3, <1>4 DEF KernelInv, CountInv, OSTyped, Marked

(* The steps that change the place, or the status of the OS thread. *)
LEMMA PlaceSteps ==
  ASSUME KernelInv, NEW o \in OSThreads,
         ClearDone(o) \/ Retire(o) \/ CondWait(o) \/ CountIn(o) \/ SwapIn(o)
         \/ CountOut(o)
  PROVE  Kept(o)
<1> DEFINE G == /\ RunSound(o) /\ WakeSound(o) /\ pc[o] \in Places
                /\ os_status[o] \in OSStatuses
                /\ (os_status[o] = "sleeping" => pc[o] \in Resting)
                /\ os_status \in [OSThreads -> OSStatuses] /\ pc \in [OSThreads -> Places]
<1>0. G
  BY GoodIs
<1> DEFINE U == UNCHANGED <<threadVars, thread_queue, waiting_list, list_entry, pipe,
                            os_shutdown, current, call, stopped, missed>>
<1>s. U => /\ UNCHANGED <<thread_queue, waiting_list, pipe, os_shutdown, current, call,
                          status, blocked, shutdown_request>>
           /\ Requests(o)' = Requests(o)
  BY DEF threadVars, Requests
<1>1. CASE ClearDone(o)
  <2>1. /\ Goto(o, AfterClear[pc[o]]) /\ U /\ os_status' = os_status
        /\ pc[o] \in {"clear polling", "clear sleeping", "clear idle"}
        /\ thread_queue[o] = <<>>
    BY <1>1, Tables DEF ClearDone, Cleared
  <2>2. pc'[o] = AfterClear[pc[o]]
    BY <1>0, <2>1 DEF Goto
  <2>3. RunSound(o)'
    BY <1>0, <1>s, <2>1, <2>2, Tables DEF RunSound, RunPlaces
  <2>4. WakeSound(o)'
    BY <1>0, <1>s, <2>1, <2>2, Tables, CallsKept DEF WakeSound, Committed, Idling
  <2>5. os_status' = [os_status EXCEPT ![o] = os_status[o]]
    BY <1>0, <2>1
  <2>6. pc[o] # "recheck"
    BY <2>1
  <2> QED BY <2>1, <2>3, <2>4, <2>5, <2>6, PlaceStep
<1>2. CASE Retire(o)
  <2> DEFINE kind == IF Requests(o) # {} THEN "polling" ELSE "sleeping"
             p == IF kind = "polling" THEN "clear polling" ELSE "clear sleeping"
  <2>1. /\ Goto(o, p) /\ U /\ os_status' = [os_status EXCEPT ![o] = kind]
        /\ pc[o] = "choose"
    BY <1>2 DEF Retire
  <2>2. pc'[o] = p /\ os_status'[o] = kind
    BY <1>0, <2>1 DEF Goto
  <2>3. RunSound(o)'
    BY <1>0, <1>s, <2>1, <2>2 DEF RunSound, RunPlaces
  <2>4. WakeSound(o)'
    BY <1>0, <1>s, <2>1, <2>2, CallsKept DEF WakeSound, Committed, Idling
  <2>6. pc[o] # "recheck"
    BY <2>1
  <2> QED BY <2>1, <2>3, <2>4, <2>6, PlaceStep
<1>3. CASE CondWait(o)
  <2> DEFINE p == IF os_status[o] = "sleeping" THEN "asleep" ELSE "inc"
  <2>1. /\ Goto(o, p) /\ U /\ os_status' = os_status /\ pc[o] = "cond"
    BY <1>3 DEF CondWait
  <2>2. pc'[o] = p
    BY <1>0, <2>1 DEF Goto
  <2>3. RunSound(o)'
    BY <1>0, <1>s, <2>1, <2>2 DEF RunSound, RunPlaces
  <2>4. WakeSound(o)'
    BY <1>0, <1>s, <2>1, <2>2, CallsKept DEF WakeSound, Committed, Idling
  <2>5. os_status' = [os_status EXCEPT ![o] = os_status[o]]
    BY <1>0, <2>1
  <2>6. pc[o] # "recheck"
    BY <2>1
  <2> QED BY <2>1, <2>3, <2>4, <2>5, <2>6, PlaceStep
<1>4. CASE CountIn(o)
  <2>1. /\ Goto(o, "swap") /\ U /\ os_status' = os_status /\ pc[o] = "inc"
    BY <1>4 DEF CountIn
  <2>2. pc'[o] = "swap"
    BY <1>0, <2>1 DEF Goto
  <2>3. RunSound(o)'
    BY <1>0, <1>s, <2>1, <2>2 DEF RunSound, RunPlaces
  <2>4. WakeSound(o)'
    BY <1>0, <1>s, <2>1, <2>2, CallsKept DEF WakeSound, Committed, Idling
  <2>5. os_status' = [os_status EXCEPT ![o] = os_status[o]]
    BY <1>0, <2>1
  <2>6. pc[o] # "recheck"
    BY <2>1
  <2> QED BY <2>1, <2>3, <2>4, <2>5, <2>6, PlaceStep
<1>5. CASE SwapIn(o)
  <2> DEFINE p == IF os_status[o] = "sleeping" THEN "clear awake" ELSE "dec awake"
  <2>1. /\ Goto(o, p) /\ U /\ os_status' = [os_status EXCEPT ![o] = "active"]
        /\ pc[o] = "swap"
    BY <1>5 DEF SwapIn
  <2>2. pc'[o] = p /\ os_status'[o] = "active"
    BY <1>0, <2>1 DEF Goto
  <2>3. RunSound(o)'
    BY <1>0, <1>s, <2>1, <2>2 DEF RunSound, RunPlaces
  <2>4. WakeSound(o)'
    BY <1>0, <1>s, <2>1, <2>2, CallsKept DEF WakeSound, Committed, Idling
  <2>6. pc[o] # "recheck"
    BY <2>1
  <2> QED BY <2>1, <2>3, <2>4, <2>6, PlaceStep
<1>6. CASE CountOut(o)
  <2>1. /\ Goto(o, AfterCountOut[pc[o]]) /\ U /\ os_status' = os_status
        /\ pc[o] \in {"dec awake", "dec run"}
    BY <1>6, Tables DEF CountOut
  <2>2. pc'[o] = AfterCountOut[pc[o]]
    BY <1>0, <2>1 DEF Goto
  <2>3. RunSound(o)'
    BY <1>0, <1>s, <2>1, <2>2, Tables DEF RunSound, RunPlaces
  <2>4. WakeSound(o)'
    BY <1>0, <1>s, <2>1, <2>2, Tables, CallsKept DEF WakeSound, Committed, Idling, Resting
  <2>5. os_status' = [os_status EXCEPT ![o] = os_status[o]]
    BY <1>0, <2>1
  <2>6. pc[o] # "recheck"
    BY <2>1
  <2> QED BY <2>1, <2>3, <2>4, <2>5, <2>6, PlaceStep
<1> QED BY <1>1, <1>2, <1>3, <1>4, <1>5, <1>6

(* Away from the places of an idle OS thread there is little to rely on. *)
LEMMA BusySound ==
  ASSUME KernelInv, NEW o \in OSThreads, NEW p, pc'[o] = p,
         p \notin Committed \cup Resting \cup {"clear polling"}, os_status'[o] # "sleeping"
  PROVE  WakeSound(o)'
  BY DEF WakeSound, Committed, Idling, Resting

(* The first waiting thread is taken. *)
LEMMA TakeStep ==
  ASSUME KernelInv, NEW o \in OSThreads, NEW p \in {"clear running", "dec run", "manager", "shutdown"},
         Take(o, p), LookUnchanged, current[o] = Nobody,
         NEW s, s # "sleeping", os_status' = [os_status EXCEPT ![o] = s]
  PROVE  Kept(o)
<1> DEFINE t == Head(waiting_list[o])
           w == PopWaiting(Waiting(o))
<1>0. /\ UNCHANGED <<home, reply_queue, reply_list, blocked, module, signal_raised,
                     shutdown_request, shutting_down, thread_queue, pipe, os_shutdown,
                     call, stopped, missed>>
      /\ waiting_list[o] # <<>>
  BY DEF LookUnchanged, Take
<1>1. /\ Once(o) /\ AtHome(o) /\ RunSound(o) /\ o # Nobody
      /\ \A x \in Threads : home[x] = o => Found(o, x)
      /\ waiting_list[o] \in Seq(Threads) /\ thread_queue[o] \in Seq(Threads)
      /\ ToSet(waiting_list[o]) \subseteq Threads
  BY GoodIs
<1>2. /\ t \in Threads /\ Tail(waiting_list[o]) \in Seq(Threads)
      /\ ToSet(waiting_list[o]) = ToSet(Tail(waiting_list[o])) \cup {t}
      /\ IsInjective(Tail(waiting_list[o])) /\ t \notin ToSet(Tail(waiting_list[o]))
  BY <1>0, <1>1, TailSet DEF Once
<1>3. Waiting(o) \in WaitSet /\ Waiting(o).list = waiting_list[o]
  BY DEF Waiting, WaitSet, KernelInv, ListsTyped
<1>4. w \in WaitSet /\ w.list = Tail(waiting_list[o])
  BY <1>0, <1>3, PopWaitingIs
<1>5. w.list \in Seq(Threads) /\ w.entry \in Threads \cup {Nobody}
  BY <1>4 DEF WaitSet
<1>6. /\ current' = [current EXCEPT ![o] = t] /\ status' = [status EXCEPT ![t] = "active"]
      /\ waiting_list' = [waiting_list EXCEPT ![o] = w.list]
      /\ list_entry' = [list_entry EXCEPT ![o] = w.entry]
      /\ pc' = [pc EXCEPT ![o] = p]
  BY DEF Take, SetWaiting, Goto
<1> HIDE DEF t, w
<1>7. ThreadsTyped'
  BY <1>0, <1>2, <1>6 DEF KernelInv, ThreadsTyped, Statuses
<1>8. ListsTyped'
  BY <1>0, <1>2, <1>5, <1>6 DEF KernelInv, ListsTyped
<1>9. /\ pc'[o] = p /\ current'[o] = t /\ waiting_list'[o] = Tail(waiting_list[o])
      /\ os_status'[o] = s /\ status'[t] = "active" /\ home[t] = o
      /\ \A x \in Threads : x # t => status'[x] = status[x]
  BY <1>1, <1>2, <1>4, <1>6 DEF KernelInv, CountInv, OSTyped, ThreadsTyped, ListsTyped, AtHome
<1>10. OSFrame(o)
  BY <1>0, <1>6 DEF OSFrame, KernelInv, CountInv, OSTyped, ListsTyped
<1>11. \A x : Activity(x)' <=> Activity(x)
  BY <1>0 DEF Activity
<1>12. ThreadFrame(o)
  BY <1>0, <1>9, <1>11 DEF ThreadFrame, Same
<1>13. Once(o)' /\ AtHome(o)'
  BY <1>0, <1>1, <1>2, <1>9 DEF Once, AtHome
<1>14. RunSound(o)'
  BY <1>0, <1>1, <1>2, <1>9, ThreadsAssumption DEF RunSound, RunPlaces
<1>15. WakeSound(o)'
  BY <1>9, BusySound DEF Committed, Resting
<1>16. ASSUME NEW x \in Threads, home[x] = o PROVE Found(o, x)'
  <2>1. CASE x = t
    BY <1>2, <1>9, <2>1 DEF Found
  <2>2. CASE x # t
    <3>1. Found(o, x) /\ status'[x] = status[x] /\ blocked'[x] = blocked[x]
      BY <1>0, <1>1, <1>9, <1>16, <2>2
    <3>2. status[x] # "active"
      <4> SUFFICES ASSUME status[x] = "active" PROVE FALSE
        OBVIOUS
      <4>1. current[o] = x
        BY <3>1 DEF Found
      <4> QED BY <4>1, ThreadsAssumption
    <3>3. pc[o] # "recheck"
      BY <1>1 DEF RunSound, RunPlaces
    <3> QED BY <1>0, <1>2, <1>9, <1>11, <2>2, <3>1, <3>2, <3>3, CallsKept DEF Found
  <2> QED BY <2>1, <2>2
<1>17. ASSUME NEW x \in Threads PROVE (stopped => Hears(x)') /\ Heard(x)'
  <2>1. Warned(x) => Warned(x)'
    <3>1. status[x] = "zombie" => x # t
      BY <1>1, <1>2, <1>9 DEF Found
    <3> QED BY <1>0, <1>9, <3>1 DEF Warned
  <2>2. Heard(x)
    BY DEF KernelInv, StopSound
  <2>3. Heard(x)'
    <3>1. CASE x = t
      BY <1>9, <3>1 DEF Heard
    <3>2. CASE x # t
      BY <1>0, <1>9, <2>2, <3>2, CallsKept DEF Heard
    <3> QED BY <3>1, <3>2
  <2> QED BY <1>0, <2>1, <2>3, HearsKept
<1>18. Good(o)'
  BY <1>0, <1>13, <1>14, <1>15, <1>16 DEF Good
<1> QED BY <1>7, <1>8, <1>10, <1>12, <1>17, <1>18 DEF Kept

(* The steps that look for a thread. *)
LEMMA TakeSteps ==
  ASSUME KernelInv, NEW o \in OSThreads,
         Choose(o) \/ CommitPolling(o) \/ CommitSleeping(o) \/ Pick(o)
  PROVE  Kept(o)
<1>0. /\ RunSound(o) /\ WakeSound(o) /\ os_status[o] \in OSStatuses
      /\ (os_status[o] = "sleeping" => pc[o] \in Resting)
      /\ os_status \in [OSThreads -> OSStatuses] /\ pc \in [OSThreads -> Places]
  BY GoodIs
<1>1. /\ LookUnchanged
      /\ UNCHANGED <<home, reply_queue, reply_list, blocked, module, signal_raised,
                     shutdown_request, shutting_down, thread_queue, pipe, os_shutdown,
                     call, stopped, missed>>
  BY DEF Choose, CommitPolling, CommitSleeping, Pick, LookUnchanged
<1>2. pc[o] \in {"clear", "commit polling", "commit sleeping", "clear awake"}
  BY DEF Choose, CommitPolling, CommitSleeping, Pick, Cleared
<1>3. current[o] = Nobody
  BY <1>0, <1>2 DEF RunSound, RunPlaces
<1>4. os_status' = [os_status EXCEPT ![o] = os_status[o]] <=> os_status' = os_status
  BY <1>0
<1>5. ASSUME NEW p, TakeNone(o, p), os_status' = os_status,
             p \in {"choose", "inc", "clear idle", "shutdown", "clear"},
             WakeSound(o)'
      PROVE  Kept(o)
  <2>1. Goto(o, p) /\ UNCHANGED <<threadVars, thread_queue, waiting_list, list_entry,
                                  pipe, os_shutdown, current, call, stopped, missed>>
    BY <1>1, <1>5 DEF TakeNone, threadVars
  <2>2. pc'[o] = p /\ current'[o] = Nobody
    BY <1>0, <1>3, <2>1 DEF Goto
  <2>3. RunSound(o)'
    BY <1>5, <2>2 DEF RunSound, RunPlaces
  <2>4. pc[o] # "recheck"
    BY <1>2
  <2> QED BY <1>4, <1>5, <2>1, <2>3, <2>4, PlaceStep
<1>6. CASE Choose(o)
  <2>1. pc[o] = "clear" /\ os_status' = os_status /\ os_status[o] # "sleeping"
    BY <1>0, <1>6 DEF Choose, Cleared, Resting
  <2>2. CASE Take(o, "clear running")
    BY <1>1, <1>3, <1>4, <2>1, <2>2, TakeStep
  <2>3. CASE TakeNone(o, "choose")
    <3>1. pc'[o] = "choose" /\ os_status'[o] # "sleeping"
      BY <1>0, <2>1, <2>3 DEF TakeNone, Goto
    <3>2. WakeSound(o)'
      BY <3>1, BusySound DEF Committed, Resting
    <3> QED BY <1>5, <2>1, <2>3, <3>2
  <2> QED BY <1>6, <2>2, <2>3 DEF Choose
<1>7. CASE CommitPolling(o)
  <2>1. pc[o] = "commit polling"
    BY <1>7 DEF CommitPolling
  <2>2. CASE Take(o, "clear running") /\ os_status' = [os_status EXCEPT ![o] = "active"]
    BY <1>1, <1>3, <2>1, <2>2, TakeStep
  <2>3. CASE TakeNone(o, IdlePlace(o)) /\ os_status' = os_status
    <3>1. pc'[o] = IdlePlace(o) /\ os_status'[o] # "sleeping"
          /\ IdlePlace(o) \in {"inc", "clear idle"} /\ waiting_list' = waiting_list
      BY <1>0, <2>1, <2>3 DEF TakeNone, Goto, IdlePlace, WakeSound
    <3>2. WakeSound(o)'
      BY <1>0, <1>1, <2>1, <2>3, <3>1, CallsKept DEF WakeSound, IdlePlace, Committed, Idling
    <3> QED BY <1>5, <2>3, <3>1, <3>2
  <2> QED BY <1>7, <2>2, <2>3 DEF CommitPolling
<1>8. CASE CommitSleeping(o)
  <2> DEFINE p == IF os_status[o] = "sleeping" THEN "clear running" ELSE "dec run"
  <2>1. pc[o] = "commit sleeping"
    BY <1>8 DEF CommitSleeping
  <2>2. CASE Take(o, p) /\ os_status' = [os_status EXCEPT ![o] = "active"]
    <3>1. p \in {"clear running", "dec run", "manager", "shutdown"}
      OBVIOUS
    <3> QED BY <1>1, <1>3, <2>1, <2>2, <3>1, TakeStep
  <2>3. CASE TakeNone(o, IdlePlace(o)) /\ os_status' = os_status
    <3>1. /\ pc'[o] = IdlePlace(o) /\ IdlePlace(o) \in {"inc", "clear idle"}
          /\ waiting_list' = waiting_list /\ waiting_list[o] = <<>>
      BY <1>0, <2>1, <2>3 DEF TakeNone, Goto, IdlePlace
    <3>2. Requests(o)' = Requests(o)
      BY <1>1 DEF Requests
    <3>3. WakeSound(o)'
      BY <1>0, <1>1, <2>1, <2>3, <3>1, <3>2, CallsKept
         DEF WakeSound, IdlePlace, Committed, Idling
    <3> QED BY <1>5, <2>3, <3>1, <3>3
  <2> QED BY <1>8, <2>2, <2>3 DEF CommitSleeping
<1>9. CASE Pick(o)
  <2>1. pc[o] = "clear awake" /\ os_status' = os_status /\ os_status[o] # "sleeping"
    BY <1>0, <1>9 DEF Pick, Cleared, Resting
  <2>2. CASE Take(o, Onward(o, TRUE))
    <3>1. Onward(o, TRUE) \in {"clear running", "dec run", "manager", "shutdown"}
      BY DEF Onward
    <3> QED BY <1>1, <1>3, <1>4, <2>1, <2>2, <3>1, TakeStep
  <2>3. CASE TakeNone(o, Onward(o, FALSE))
    <3>1. /\ pc'[o] = Onward(o, FALSE) /\ os_status'[o] # "sleeping"
          /\ Onward(o, FALSE) \in {"clear", "shutdown"}
      BY <1>0, <2>1, <2>3 DEF TakeNone, Goto, Onward
    <3>2. WakeSound(o)'
      BY <3>1, BusySound DEF Committed, Resting
    <3> QED BY <1>5, <2>1, <2>3, <3>1, <3>2
  <2> QED BY <1>9, <2>2, <2>3 DEF Pick
<1> QED BY <1>6, <1>7, <1>8, <1>9

(* The loop of activations, for threads of the OS thread's own. *)
Activates(o, ts) ==
    /\ ts \in Seq(Threads)
    /\ \A t \in ToSet(ts) : home[t] = o /\ status[t] # "zombie"
    /\ blocked' = [t \in Threads |-> blocked[t] /\ t \notin ToSet(ts)]
    /\ status' = ActivatedStatus(ts)
    /\ SetWaiting(o, Activated(Waiting(o), ts))
    /\ UNCHANGED <<home, reply_queue, reply_list, module, signal_raised,
                   shutting_down, os_status, current, call, stopped, missed>>

(* The effect on the waiting list. *)
LEMMA ActivatesIs ==
  ASSUME KernelInv, NEW o \in OSThreads, NEW ts, Activates(o, ts)
  PROVE  /\ waiting_list' \in [OSThreads -> Seq(Threads)]
         /\ list_entry' \in [OSThreads -> Threads \cup {Nobody}]
         /\ \A p \in OSThreads : p # o => waiting_list'[p] = waiting_list[p]
         /\ ToSet(waiting_list'[o]) =
               ToSet(waiting_list[o]) \cup {t \in ToSet(ts) : status[t] # "active"}
         /\ IsInjective(waiting_list'[o])
         /\ ToSet(ts) \subseteq Threads
<1> DEFINE w == Activated(Waiting(o), ts)
<1>1. ts \in Seq(Threads) /\ SetWaiting(o, w)
  BY DEF Activates
<1>2. Waiting(o) \in WaitSet /\ Waiting(o).list = waiting_list[o]
  BY DEF Waiting, WaitSet, KernelInv, ListsTyped
<1>3. /\ w \in WaitSet
      /\ ToSet(w.list) = ToSet(waiting_list[o]) \cup {t \in ToSet(ts) : status[t] # "active"}
      /\ IsInjective(waiting_list[o]) => IsInjective(w.list)
  BY <1>1, <1>2, ActivatedIs
<1> HIDE DEF w
<1>4. w.list \in Seq(Threads) /\ w.entry \in Threads \cup {Nobody}
  BY <1>3 DEF WaitSet
<1>5. /\ waiting_list' = [waiting_list EXCEPT ![o] = w.list]
      /\ list_entry' = [list_entry EXCEPT ![o] = w.entry]
  BY <1>1 DEF SetWaiting
<1>6. Once(o) /\ waiting_list \in [OSThreads -> Seq(Threads)]
      /\ list_entry \in [OSThreads -> Threads \cup {Nobody}]
  BY GoodIs DEF KernelInv, ListsTyped
<1>7. ToSet(ts) \subseteq Threads
  BY <1>1, ToSetIs
<1> QED BY <1>3, <1>4, <1>5, <1>6, <1>7 DEF Once

(* Such a loop, with what comes before and after it. *)
LEMMA ActivateStep ==
  ASSUME KernelInv, NEW o \in OSThreads, NEW ts, Activates(o, ts),
         NEW p, Goto(o, p), WakeSound(o)',
         pc[o] # "recheck", p \notin {"park", "sleep", "recheck"},
         p \in RunPlaces => current[o] # Nobody,
         p \notin RunPlaces \cup {"shutdown"} => current[o] = Nobody,
         NEW q \in Seq(Threads), thread_queue' = [thread_queue EXCEPT ![o] = q],
         IsInjective(q), ToSet(thread_queue[o]) \subseteq ToSet(q),
         ToSet(q) \subseteq ToSet(thread_queue[o]) \cup ToSet(ts),
         shutdown_request' \in [Threads -> BOOLEAN],
         \A t \in Threads : t \notin ToSet(ts) => shutdown_request'[t] = shutdown_request[t],
         NEW k \in Nat, pipe' = [pipe EXCEPT ![o] = k],
         NEW b \in BOOLEAN, os_shutdown' = [os_shutdown EXCEPT ![o] = b],
         \A t \in Threads : home[t] = o /\ stopped => Hears(t)'
  PROVE  Kept(o)
<1>0. UNCHANGED <<home, reply_queue, reply_list, module, signal_raised,
                  shutting_down, os_status, current, call, stopped, missed>>
  BY DEF Activates
<1>1. /\ waiting_list' \in [OSThreads -> Seq(Threads)]
      /\ list_entry' \in [OSThreads -> Threads \cup {Nobody}]
      /\ \A x \in OSThreads : x # o => waiting_list'[x] = waiting_list[x]
      /\ ToSet(waiting_list'[o]) =
            ToSet(waiting_list[o]) \cup {t \in ToSet(ts) : status[t] # "active"}
      /\ IsInjective(waiting_list'[o])
      /\ ToSet(ts) \subseteq Threads
  BY ActivatesIs
<1>2. /\ Once(o) /\ AtHome(o) /\ RunSound(o) /\ o # Nobody
      /\ \A t \in Threads : home[t] = o => Found(o, t)
      /\ current[o] \in Threads \cup {Nobody}
  BY GoodIs
<1>3. \A t \in ToSet(ts) : home[t] = o /\ status[t] # "zombie" /\ t \in Threads
  BY <1>1 DEF Activates
<1>4. /\ \A t \in Threads : blocked'[t] = (blocked[t] /\ t \notin ToSet(ts))
      /\ blocked' \in [Threads -> BOOLEAN]
  BY DEF Activates, KernelInv, ThreadsTyped
<1>5. /\ \A t \in Threads : status'[t] = IF t \in ToSet(ts) /\ status[t] # "active"
                                         THEN "waiting" ELSE status[t]
      /\ status' \in [Threads -> Statuses]
  BY DEF Activates, ActivatedStatus, KernelInv, ThreadsTyped, Statuses
<1>6. ThreadsTyped'
  BY <1>0, <1>4, <1>5 DEF KernelInv, ThreadsTyped
<1>7. ListsTyped'
  BY <1>0, <1>1 DEF KernelInv, ListsTyped
<1>8. OSFrame(o)
  BY <1>0, <1>1 DEF OSFrame, Goto, KernelInv, CountInv, OSTyped, ListsTyped
<1>9. ASSUME NEW t \in Threads, t \notin ToSet(ts) PROVE Same(t)
  <2>1. blocked'[t] = blocked[t]
    BY <1>4, <1>9 DEF KernelInv, ThreadsTyped
  <2>2. Activity(t)' <=> Activity(t)
    BY <1>0, <1>9 DEF Activity
  <2> QED BY <1>0, <1>5, <1>9, <2>1, <2>2 DEF Same
<1>a. thread_queue'[o] = q /\ pc'[o] = p /\ current'[o] = current[o]
  BY <1>0 DEF Goto, KernelInv, CountInv, OSTyped, ListsTyped
<1>10. ThreadFrame(o)
  BY <1>0, <1>3, <1>9, <1>a DEF ThreadFrame
<1>11. Once(o)' /\ AtHome(o)'
  BY <1>0, <1>1, <1>2, <1>3, <1>a DEF Once, AtHome
<1>12. RunSound(o)'
  <2>1. CASE current[o] = Nobody
    BY <1>a, <2>1 DEF RunSound, RunPlaces
  <2>2. CASE current[o] # Nobody
    <3>1. status[current[o]] = "active" /\ current[o] \in Threads
      BY <1>2, <2>2 DEF RunSound
    <3>2. status'[current[o]] = "active"
      BY <1>5, <3>1
    <3> QED BY <1>a, <2>2, <3>2 DEF RunSound
  <2> QED BY <2>1, <2>2
<1>13. ASSUME NEW t \in Threads, home[t] = o PROVE Found(o, t)'
  <2>1. Found(o, t)
    BY <1>2, <1>13
  <2>2. CASE t \in ToSet(ts)
    <3>1. CASE status[t] = "active"
      <4>1. status'[t] = "active" /\ current[o] = t /\ t \notin ToSet(waiting_list[o])
        BY <1>5, <2>1, <3>1 DEF Found
      <4> QED BY <1>1, <1>a, <3>1, <4>1 DEF Found
    <3>2. CASE status[t] # "active"
      <4>1. status'[t] = "waiting" /\ t \in ToSet(waiting_list'[o])
        BY <1>1, <1>5, <2>2, <3>2
      <4> QED BY <4>1 DEF Found
    <3> QED BY <3>1, <3>2
  <2>3. CASE t \notin ToSet(ts)
    <3>1. Same(t)
      BY <1>9, <2>3
    <3>2. t \in ToSet(waiting_list'[o]) <=> t \in ToSet(waiting_list[o])
      BY <1>1, <2>3
    <3> QED BY <1>0, <1>a, <2>1, <2>3, <3>1, <3>2, CallsKept DEF Found, Same
  <2> QED BY <2>2, <2>3
<1>14. ASSUME NEW t \in Threads PROVE Heard(t)'
  <2>1. Heard(t)
    BY DEF KernelInv, StopSound
  <2>2. CASE t \in ToSet(ts)
    BY <1>5, <2>2 DEF Heard
  <2>3. CASE t \notin ToSet(ts)
    BY <1>0, <1>9, <2>1, <2>3, CallsKept DEF Heard, Same
  <2> QED BY <2>2, <2>3
<1>15. Good(o)'
  BY <1>0, <1>11, <1>12, <1>13 DEF Good
<1> QED BY <1>0, <1>6, <1>7, <1>8, <1>10, <1>14, <1>15 DEF Kept

(* The threads whose requests end are the OS thread's own. *)
LEMMA CompletionsIs ==
  ASSUME KernelInv, NEW o \in OSThreads, NEW ts \in Completions(o)
  PROVE  /\ ts \in Seq(Threads) /\ ToSet(ts) \subseteq Requests(o)
         /\ \A t \in ToSet(ts) : home[t] = o /\ status[t] # "zombie"
<1>1. PICK D \in SUBSET Requests(o) : ts \in SetToSeqs(D)
  BY DEF Completions
<1>2. D \subseteq Threads /\ IsFiniteSet(D)
  BY ThreadsAssumption, FS_Subset DEF Requests
<1>3. ts \in Seq(D)
  BY <1>1, <1>2, SeqsOfSet
<1>4. ts \in Seq(Threads) /\ ToSet(ts) \subseteq D
  BY <1>2, <1>3, ToSetIs
<1>5. \A t \in Requests(o) : home[t] = o /\ status[t] # "zombie"
  BY GoodIs DEF Requests, Found
<1> QED BY <1>1, <1>4, <1>5

(* The steps that poll. *)
LEMMA PollSteps ==
  ASSUME KernelInv, NEW o \in OSThreads,
         Poll(o) \/ WaitPipe(o) \/ WaitRequest(o) \/ Sweep(o) \/ ManagerPoll(o)
  PROVE  Kept(o)
<1>1. PICK ts \in Completions(o) : Complete(o, ts) /\ (Poll(o) =>
         Goto(o, IF os_status[o] = "active" \/ waiting_list'[o] # <<>>
                 THEN "inc" ELSE IF Requests(o) # {} THEN "wait" ELSE "cond"))
  BY DEF Poll, WaitPipe, WaitRequest, Sweep, ManagerPoll
<1>2. PollUnchanged
  BY DEF Poll, WaitPipe, WaitRequest, Sweep, ManagerPoll
<1>3. UNCHANGED <<home, reply_queue, reply_list, module, signal_raised,
                  shutdown_request, shutting_down, os_status, thread_queue,
                  os_shutdown, current, active_count, call, stopped, missed, made>>
  BY <1>2 DEF PollUnchanged
<1>4. /\ ts \in Seq(Threads) /\ ToSet(ts) \subseteq Requests(o)
      /\ \A t \in ToSet(ts) : home[t] = o /\ status[t] # "zombie"
  BY CompletionsIs
<1>5. Activates(o, ts)
  BY <1>1, <1>3, <1>4 DEF Activates, Complete
<1>6. /\ RunSound(o) /\ WakeSound(o) /\ Once(o) /\ os_status[o] \in OSStatuses
      /\ (os_status[o] = "sleeping" => pc[o] \in Resting)
      /\ pc \in [OSThreads -> Places] /\ pipe[o] \in Nat /\ thread_queue[o] \in Seq(Threads)
      /\ current[o] \in Threads \cup {Nobody}
  BY GoodIs
<1>7. /\ thread_queue' = [thread_queue EXCEPT ![o] = thread_queue[o]]
      /\ os_shutdown' = [os_shutdown EXCEPT ![o] = os_shutdown[o]]
      /\ os_shutdown[o] \in BOOLEAN /\ shutdown_request' \in [Threads -> BOOLEAN]
  BY <1>3 DEF KernelInv, ListsTyped, ThreadsTyped
<1>8. ASSUME NEW t \in Threads, stopped PROVE Hears(t)'
  <2>1. Warned(t) => Warned(t)'
    <3>1. status[t] = "zombie" => t \notin ToSet(ts)
      BY <1>4
    <3>2. status[t] = "zombie" => status'[t] = "zombie"
      BY <1>5, <3>1 DEF Activates, ActivatedStatus
    <3> QED BY <1>3, <3>2 DEF Warned
  <2> QED BY <1>3, <1>8, <2>1, HearsKept
<1>9. Requests(o)' \subseteq Requests(o)
  BY <1>1, <1>3 DEF Requests, Complete
<1>10. Requests(o) = {} => waiting_list'[o] = waiting_list[o]
  <2> SUFFICES ASSUME Requests(o) = {} PROVE waiting_list'[o] = waiting_list[o]
    OBVIOUS
  <2>1. ToSet(ts) = {}
    BY <1>4
  <2>a. Len(ts) \in Nat /\ \A i \in 1..Len(ts) : ts[i] \in ToSet(ts)
    BY <1>4, ToSetIs
  <2>2. Len(ts) = 0 /\ Len(ts) \in Nat
    <3> SUFFICES ASSUME Len(ts) # 0 PROVE FALSE
      BY <2>a
    <3>1. 1 \in 1..Len(ts)
      BY <2>a
    <3> QED BY <2>1, <2>a, <3>1
  <2> DEFINE P(h) == h = [i \in 0..Len(ts) |->
                 IF i = 0 THEN Waiting(o)
                 ELSE IF status[ts[i]] = "active" THEN h[i - 1]
                 ELSE InsertWaiting([h[i - 1] EXCEPT !.list = RemoveFirst(@, ts[i])], ts[i])]
             A == CHOOSE h : P(h)
             f == [i \in {0} |-> Waiting(o)]
  <2>3. P(f)
    <3>1. 0..Len(ts) = {0}
      BY <2>2
    <3> QED BY <3>1
  <2>4. P(A)
    BY <2>3
  <2>5. A[0] = Waiting(o)
    <3> HIDE DEF A
    <3>1. 0 \in 0..Len(ts)
      BY <2>2
    <3> QED BY <2>4, <3>1
  <2>6. Activated(Waiting(o), ts) = A[0]
    BY <2>2 DEF Activated
  <2>7. waiting_list'[o] = Waiting(o).list
    BY <1>1, <2>5, <2>6 DEF Complete, SetWaiting, KernelInv, ListsTyped
  <2> QED BY <2>7 DEF Waiting
<1>11. CASE Poll(o)
  <2> DEFINE p == IF os_status[o] = "active" \/ waiting_list'[o] # <<>>
                  THEN "inc" ELSE IF Requests(o) # {} THEN "wait" ELSE "cond"
             k == IF pipe[o] > 0 THEN pipe[o] - 1 ELSE 0
  <2>1. /\ pc[o] = "poll" /\ Goto(o, p) /\ pipe' = [pipe EXCEPT ![o] = k] /\ k \in Nat
    BY <1>1, <1>6, <1>11 DEF Poll
  <2>2. pc'[o] = p /\ pipe'[o] = k /\ current[o] = Nobody
    BY <1>6, <2>1 DEF Goto, RunSound, RunPlaces, KernelInv, ListsTyped
  <2>3. p \in {"inc", "wait", "cond"} /\ p \notin RunPlaces
    BY DEF RunPlaces
  <2>4. WakeSound(o)'
    <3>1. CASE os_status[o] = "sleeping"
      <4>1. Requests(o) = {} /\ waiting_list'[o] = waiting_list[o]
        BY <1>6, <1>10, <3>1 DEF WakeSound
      <4>2. Requests(o)' = {}
        BY <1>9, <4>1
      <4> QED BY <1>3, <1>6, <2>1, <2>2, <3>1, <4>1, <4>2, CallsKept
              DEF WakeSound, Committed, Idling
    <3>2. CASE os_status[o] = "active"
      BY <1>3, <2>2, <3>2 DEF WakeSound
    <3>3. CASE os_status[o] = "polling"
      BY <1>3, <1>6, <2>1, <2>2, <3>3, CallsKept DEF WakeSound, Committed, Idling
    <3> QED BY <1>6, <3>1, <3>2, <3>3 DEF OSStatuses
  <2> HIDE DEF p, k
  <2> QED BY <1>3, <1>5, <1>6, <1>7, <1>8, <2>1, <2>2, <2>3, <2>4, ActivateStep DEF Once
<1>12. CASE WaitPipe(o) \/ WaitRequest(o)
  <2>1. PICK k \in Nat : pipe' = [pipe EXCEPT ![o] = k]
    <3>1. CASE WaitPipe(o)
      <4>1. pipe' = [pipe EXCEPT ![o] = pipe[o] - 1] /\ pipe[o] > 0
        BY <3>1 DEF WaitPipe
      <4>2. pipe[o] - 1 \in Nat
        BY <1>6, <4>1
      <4> QED BY <4>1, <4>2
    <3>2. CASE WaitRequest(o)
      BY <1>6, <3>2 DEF WaitRequest, KernelInv, ListsTyped
    <3> QED BY <1>12, <3>1, <3>2
  <2>2. pc[o] = "wait" /\ Goto(o, "inc")
    BY <1>12 DEF WaitPipe, WaitRequest
  <2>3. pc'[o] = "inc" /\ current[o] = Nobody
    BY <1>6, <2>2 DEF Goto, RunSound, RunPlaces
  <2>4. os_status[o] # "sleeping"
    BY <1>6, <2>2 DEF WakeSound
  <2>5. WakeSound(o)'
    BY <1>3, <1>6, <2>2, <2>3, <2>4, CallsKept DEF WakeSound, Committed, Idling
  <2>6. "inc" \notin RunPlaces
    BY DEF RunPlaces
  <2> QED BY <1>3, <1>5, <1>6, <1>7, <1>8, <2>1, <2>2, <2>3, <2>5, <2>6, ActivateStep DEF Once
<1>13. CASE Sweep(o)
  <2> DEFINE p == Onward(o, TRUE)
  <2>1. pc[o] = "clear running" /\ Goto(o, p) /\ pipe' = [pipe EXCEPT ![o] = pipe[o]]
    BY <1>13 DEF Sweep, Cleared, KernelInv, ListsTyped
  <2>2. p \in {"shutdown", "manager"}
    BY DEF Onward
  <2> HIDE DEF p
  <2>3. pc'[o] = p /\ current[o] # Nobody
    BY <1>6, <2>1 DEF Goto, RunSound, RunPlaces
  <2>4. os_status'[o] # "sleeping"
    BY <1>3, <1>6, <2>1 DEF Resting
  <2>5. WakeSound(o)'
    BY <2>2, <2>3, <2>4, BusySound DEF Committed, Resting
  <2>6. p \in RunPlaces \cup {"shutdown"} /\ p \notin {"park", "sleep", "recheck"}
    BY <2>2 DEF RunPlaces
  <2> QED BY <1>3, <1>5, <1>6, <1>7, <1>8, <2>1, <2>3, <2>5, <2>6, ActivateStep DEF Once
<1>14. CASE ManagerPoll(o)
  <2> DEFINE k == IF pipe[o] > 0 THEN pipe[o] - 1 ELSE 0
  <2>1. /\ pc[o] = "manager" /\ pc' = pc /\ pipe' = [pipe EXCEPT ![o] = k] /\ k \in Nat
    BY <1>6, <1>14 DEF ManagerPoll
  <2>2. Goto(o, "manager") /\ pc'[o] = "manager" /\ current[o] # Nobody
    BY <1>6, <2>1 DEF Goto, RunSound, RunPlaces
  <2>4. os_status'[o] # "sleeping"
    BY <1>3, <1>6, <2>1 DEF Resting
  <2>5. WakeSound(o)'
    BY <2>2, <2>4, BusySound DEF Committed, Resting
  <2>6. "manager" \in RunPlaces \cup {"shutdown"}
    BY DEF RunPlaces
  <2> HIDE DEF k
  <2> QED BY <1>3, <1>5, <1>6, <1>7, <1>8, <2>1, <2>2, <2>5, <2>6, ActivateStep DEF Once
<1> QED BY <1>11, <1>12, <1>13, <1>14

(* An enumeration of a finite set leaves nothing out. *)
LEMMA SeqsOfSetAll ==
  ASSUME NEW S, IsFiniteSet(S), NEW q \in SetToSeqs(S)
  PROVE  q \in Seq(S) /\ ToSet(q) = S
<1> DEFINE n == Cardinality(S)
<1>1. n \in Nat
  BY FS_CardinalityType
<1>2. q \in [1..n -> S] /\ \A i, j \in 1..n : i # j => q[i] # q[j]
  BY DEF SetToSeqs
<1>3. q \in Injection(1..n, S)
  BY <1>2 DEF Injection, IsInjective
<1>4. Cardinality(1..n) = n
  BY <1>1, FS_Interval
<1>5. q \in Surjection(1..n, S)
  BY <1>3, <1>4, FS_Injection
<1>6. q \in Seq(S) /\ Len(q) = n
  BY SeqsOfSet
<1>7. \A x : x \in ToSet(q) <=> \E i \in 1..n : q[i] = x
  BY <1>6, ToSetIs
<1>8. \A x \in S : \E i \in 1..n : q[i] = x
  BY <1>5 DEF Surjection
<1>9. \A i \in 1..n : q[i] \in S
  BY <1>2
<1> HIDE DEF n
<1> QED BY <1>6, <1>7, <1>8, <1>9

(* The OS thread notes its shutdown request. *)
LEMMA NoteSteps ==
  ASSUME KernelInv, NEW o \in OSThreads, NoteShutdown(o)
  PROVE  Kept(o)
<1> DEFINE D == {t \in Threads : home[t] = o /\ status[t] # "zombie"}
           p == IF current[o] = Nobody THEN "clear" ELSE "manager"
<1>1. PICK ts \in SetToSeqs(D) :
          /\ shutdown_request' = [t \in Threads |-> shutdown_request[t] \/ t \in ToSet(ts)]
          /\ blocked' = [t \in Threads |-> blocked[t] /\ t \notin ToSet(ts)]
          /\ thread_queue' = [thread_queue EXCEPT ![o] = Requeued(thread_queue[o], ts)]
          /\ status' = ActivatedStatus(ts)
          /\ SetWaiting(o, Activated(Waiting(o), ts))
  BY DEF NoteShutdown
<1>2. /\ pc[o] = "shutdown" /\ os_shutdown' = [os_shutdown EXCEPT ![o] = FALSE]
      /\ Goto(o, p)
      /\ UNCHANGED <<home, reply_queue, reply_list, module, signal_raised,
                     shutting_down, os_status, pipe, current, call, stopped, missed>>
  BY DEF NoteShutdown
<1>3. D \in SUBSET Threads /\ IsFiniteSet(D)
  BY ThreadsAssumption, FS_Subset
<1>4. ts \in Seq(D) /\ ToSet(ts) = D
  BY <1>3, SeqsOfSetAll
<1>5. ts \in Seq(Threads)
  BY <1>3, <1>4
<1>6. Activates(o, ts)
  BY <1>1, <1>2, <1>4, <1>5 DEF Activates
<1> DEFINE q == Requeued(thread_queue[o], ts)
<1>7. /\ RunSound(o) /\ Once(o) /\ (os_status[o] = "sleeping" => pc[o] \in Resting)
      /\ pc \in [OSThreads -> Places] /\ thread_queue[o] \in Seq(Threads)
      /\ current[o] \in Threads \cup {Nobody} /\ pipe[o] \in Nat
  BY GoodIs
<1>8. /\ q \in Seq(Threads)
      /\ ToSet(q) = ToSet(thread_queue[o])
                    \cup {t \in ToSet(ts) : status[t] \in {"sleeping", "pending"}}
      /\ IsInjective(q)
  BY <1>5, <1>7, RequeuedIs DEF Once
<1> HIDE DEF q
<1>9. ToSet(thread_queue[o]) \subseteq ToSet(q)
      /\ ToSet(q) \subseteq ToSet(thread_queue[o]) \cup ToSet(ts)
  BY <1>8
<1>10. pc'[o] = p /\ os_status'[o] # "sleeping"
  BY <1>2, <1>7 DEF Goto, Resting
<1>11. WakeSound(o)'
  BY <1>10, BusySound DEF Committed, Resting
<1>12. /\ shutdown_request' \in [Threads -> BOOLEAN]
       /\ \A t \in Threads : t \notin ToSet(ts) => shutdown_request'[t] = shutdown_request[t]
       /\ \A t \in ToSet(ts) : shutdown_request'[t]
  BY <1>1, <1>4 DEF KernelInv, ThreadsTyped
<1>13. pipe' = [pipe EXCEPT ![o] = pipe[o]]
  BY <1>2 DEF KernelInv, ListsTyped
<1>14. ASSUME NEW t \in Threads, home[t] = o PROVE Hears(t)'
  <2>1. CASE status[t] = "zombie"
    <3>1. t \notin ToSet(ts)
      BY <1>4, <2>1
    <3>2. status'[t] = "zombie"
      BY <1>1, <2>1, <3>1 DEF ActivatedStatus
    <3> QED BY <3>2 DEF Hears, Warned
  <2>2. CASE status[t] # "zombie"
    <3>1. shutdown_request'[t]
      BY <1>4, <1>12, <1>14, <2>2
    <3> QED BY <3>1 DEF Hears, Warned
  <2> QED BY <2>1, <2>2
<1>15. /\ pc[o] # "recheck" /\ p \notin {"park", "sleep", "recheck"}
       /\ p \in RunPlaces => current[o] # Nobody
       /\ p \notin RunPlaces \cup {"shutdown"} => current[o] = Nobody
  BY <1>2 DEF RunPlaces
<1>16. thread_queue' = [thread_queue EXCEPT ![o] = q]
  BY <1>1 DEF q
<1> HIDE DEF D, p
<1> QED BY <1>2, <1>6, <1>7, <1>8, <1>9, <1>11, <1>12, <1>13, <1>14, <1>15, <1>16,
           ActivateStep

(* A thread of the queue is looked at. *)
LEMMA ClearSteps ==
  ASSUME KernelInv, NEW o \in OSThreads, ClearQueues(o)
  PROVE  Kept(o)
<1> DEFINE t == Head(thread_queue[o])
           q == Tail(thread_queue[o])
           dropped == status[t] \in {"zombie", "active"}
<1>0. /\ pc[o] \in Clearing /\ thread_queue[o] # <<>>
      /\ thread_queue' = [thread_queue EXCEPT ![o] = q]
      /\ UNCHANGED <<reply_queue, reply_list, blocked, module, signal_raised,
                     shutdown_request, shutting_down, os_status, pipe,
                     os_shutdown, pc, current, call, stopped, missed>>
  BY DEF ClearQueues
<1>1. /\ Once(o) /\ AtHome(o) /\ RunSound(o) /\ WakeSound(o) /\ o # Nobody
      /\ \A x \in Threads : home[x] = o => Found(o, x)
      /\ waiting_list[o] \in Seq(Threads) /\ thread_queue[o] \in Seq(Threads)
      /\ os_status[o] = "sleeping" => pc[o] \in Resting
      /\ current[o] \in Threads \cup {Nobody}
  BY GoodIs
<1>2. /\ t \in Threads /\ q \in Seq(Threads)
      /\ ToSet(thread_queue[o]) = ToSet(q) \cup {t}
      /\ IsInjective(q) /\ t \notin ToSet(q)
  BY <1>0, <1>1, TailSet DEF Once
<1> DEFINE w == InsertWaiting(Waiting(o), t)
<1>3. \/ dropped /\ UNCHANGED <<status, home, waiting_list, list_entry>>
      \/ /\ ~dropped /\ home' = [home EXCEPT ![t] = o]
         /\ status' = [status EXCEPT ![t] = IF home[t] # o \/ Activity(t) THEN status[t]
                                            ELSE "waiting"]
         /\ SetWaiting(o, w)
  BY DEF ClearQueues
<1> HIDE DEF q, t
<1>4. thread_queue'[o] = q /\ home[t] \in {o, Nobody}
  BY <1>0, <1>1, <1>2 DEF KernelInv, ListsTyped, AtHome
<1>5. \A x : Activity(x)' <=> Activity(x)
  BY <1>0 DEF Activity
<1>6. home[t] = Nobody => Homeless(t) /\ status[t] = "waiting" /\ ~blocked[t]
  BY <1>2 DEF KernelInv, NewSound, Homeless
<1>7. pc[o] # "recheck" /\ pc[o] \notin {"park", "sleep", "recheck"}
  BY <1>0 DEF Clearing
<1>8. CASE dropped /\ UNCHANGED <<status, home, waiting_list, list_entry>>
  <2>1. home[t] = o
    BY <1>4, <1>6, <1>8
  <2>2. ThreadsTyped' /\ ListsTyped'
    BY <1>0, <1>2, <1>8 DEF KernelInv, ThreadsTyped, ListsTyped
  <2>3. OSFrame(o)
    BY <1>0, <1>8 DEF OSFrame, KernelInv, ListsTyped
  <2>4. \A x \in Threads : Same(x)
    BY <1>0, <1>5, <1>8 DEF Same
  <2>5. ThreadFrame(o)
    BY <1>2, <1>4, <1>8, <2>1, <2>4 DEF ThreadFrame
  <2>6. Once(o)' /\ AtHome(o)' /\ RunSound(o)'
    BY <1>0, <1>1, <1>2, <1>4, <1>8 DEF Once, AtHome, RunSound
  <2>7. WakeSound(o)'
    <3>1. Requests(o)' = Requests(o)
      BY <1>0, <1>8 DEF Requests
    <3> QED BY <1>0, <1>1, <1>8, <3>1, CallsKept DEF WakeSound
  <2>8. ASSUME NEW x \in Threads, home[x] = o PROVE Found(o, x)'
    <3>1. Found(o, x)
      BY <1>1, <2>8
    <3>2. CASE x = t
      <4>1. status[x] \notin {"waiting", "sleeping", "pending"}
        BY <1>8, <3>2
      <4> QED BY <1>0, <1>8, <3>1, <4>1 DEF Found
    <3>3. CASE x # t
      <4>1. x \in ToSet(thread_queue[o]) => x \in ToSet(q)
        BY <1>2, <3>3
      <4> QED BY <1>0, <1>4, <1>5, <1>8, <3>1, <4>1, CallsKept DEF Found
    <3> QED BY <3>2, <3>3
  <2>9. ASSUME NEW x \in Threads PROVE (stopped => Hears(x)') /\ Heard(x)'
    <3>1. Warned(x)' <=> Warned(x)
      BY <1>0, <1>8 DEF Warned
    <3>2. Heard(x)
      BY DEF KernelInv, StopSound
    <3> QED BY <1>0, <1>8, <3>1, <3>2, CallsKept, HearsKept DEF Heard
  <2>10. Good(o)'
    BY <1>8, <2>6, <2>7, <2>8 DEF Good
  <2> QED BY <2>2, <2>3, <2>5, <2>9, <2>10 DEF Kept
<1>9. CASE /\ ~dropped /\ home' = [home EXCEPT ![t] = o]
           /\ status' = [status EXCEPT ![t] = IF home[t] # o \/ Activity(t) THEN status[t]
                                              ELSE "waiting"]
           /\ SetWaiting(o, w)
  <2>0. Waiting(o) \in WaitSet /\ Waiting(o).list = waiting_list[o]
    BY DEF Waiting, WaitSet, KernelInv, ListsTyped
  <2>1. /\ w \in WaitSet /\ ToSet(w.list) = ToSet(waiting_list[o]) \cup {t}
        /\ IsInjective(w.list)
    BY <1>1, <1>2, <2>0, InsertWaitingIs DEF Once
  <2>2. w.list \in Seq(Threads) /\ w.entry \in Threads \cup {Nobody}
    BY <2>1 DEF WaitSet
  <2>3. /\ waiting_list' = [waiting_list EXCEPT ![o] = w.list]
        /\ list_entry' = [list_entry EXCEPT ![o] = w.entry]
    BY <1>9 DEF SetWaiting
  <2> HIDE DEF w
  <2>4. ThreadsTyped' /\ ListsTyped'
    BY <1>0, <1>2, <1>9, <2>2, <2>3 DEF KernelInv, ThreadsTyped, ListsTyped, Statuses
  <2>5. OSFrame(o) /\ waiting_list'[o] = w.list
    BY <1>0, <2>3 DEF OSFrame, KernelInv, ListsTyped
  <2>6. /\ home'[t] = o /\ status'[t] \in {status[t], "waiting"}
        /\ (home[t] # o => status'[t] = status[t])
        /\ \A x \in Threads : x # t => home'[x] = home[x] /\ status'[x] = status[x]
    BY <1>2, <1>9 DEF KernelInv, ThreadsTyped, CountInv, OSTyped
  <2>7. ThreadFrame(o)
    <3>1. ASSUME NEW x \in Threads, x # t PROVE Same(x)
      BY <1>0, <1>5, <2>6, <3>1 DEF Same
    <3> QED BY <1>2, <1>4, <2>6, <3>1 DEF ThreadFrame, Same
  <2>8. Once(o)' /\ AtHome(o)'
    <3>1. Once(o)'
      BY <1>2, <1>4, <2>1, <2>5 DEF Once
    <3>2. \A x \in ToSet(waiting_list'[o]) : home'[x] = o
      <4> TAKE x \in ToSet(waiting_list'[o])
      <4>1. x = t \/ x \in ToSet(waiting_list[o])
        BY <2>1, <2>5
      <4>2. x \in Threads
        BY <1>1, <1>2, <4>1, ToSetIs
      <4> QED BY <1>1, <2>6, <4>1, <4>2 DEF AtHome
    <3>3. \A x \in ToSet(thread_queue'[o]) : home'[x] \in {o, Nobody}
      <4> TAKE x \in ToSet(thread_queue'[o])
      <4>1. x \in ToSet(thread_queue[o]) /\ x \in Threads
        BY <1>1, <1>2, <1>4, ToSetIs
      <4> QED BY <1>1, <2>6, <4>1 DEF AtHome
    <3>4. current[o] # Nobody => home'[current[o]] = o
      BY <1>1, <2>6 DEF AtHome
    <3> QED BY <1>0, <3>1, <3>2, <3>3, <3>4 DEF AtHome
  <2>9. RunSound(o)'
    <3>1. CASE current[o] = Nobody
      BY <1>0, <1>1, <1>7, <3>1 DEF RunSound
    <3>2. CASE current[o] # Nobody
      <4>1. status[current[o]] = "active" /\ current[o] \in Threads
        BY <1>1, <1>7, <3>2 DEF RunSound
      <4>2. status'[current[o]] = "active"
        BY <1>9, <2>6, <4>1
      <4> QED BY <1>0, <1>1, <1>7, <3>2, <4>2 DEF RunSound
    <3> QED BY <3>1, <3>2
  <2>10. WakeSound(o)'
    <3>1. Requests(o)' \subseteq Requests(o)
      BY <1>0, <1>4, <1>6, <2>6 DEF Requests
    <3>2. pc[o] \notin {"cond", "asleep", "wait", "swap", "inc", "poll", "commit polling",
                        "commit sleeping"}
      BY <1>0 DEF Clearing
    <3>3. pc[o] = "clear idle" /\ os_status[o] # "active" => OnTheWay(o)
      BY <1>0, <1>1 DEF WakeSound, Committed
    <3>4. os_status[o] = "sleeping" => pc[o] \in {"clear sleeping", "clear idle"}
      BY <1>1, <3>2 DEF Resting
    <3> QED BY <1>0, <1>1, <3>1, <3>2, <3>3, <3>4, CallsKept DEF WakeSound, Committed, Idling
  <2>11. ASSUME NEW x \in Threads, home'[x] = o PROVE Found(o, x)'
    <3>1. CASE x = t
      <4>1. t \in ToSet(waiting_list'[o])
        BY <2>1, <2>5
      <4>2. status'[t] \notin {"active", "zombie"}
        BY <1>9, <2>6
      <4>3. CASE home[t] = o
        <5>1. Found(o, t)
          BY <1>1, <1>2, <4>3
        <5> QED BY <1>0, <1>5, <1>7, <2>6, <3>1, <4>1, <4>2, <5>1, CallsKept DEF Found
      <4>4. CASE home[t] = Nobody
        BY <1>1, <1>6, <2>6, <3>1, <4>1, <4>2, <4>4 DEF Found
      <4> QED BY <1>4, <4>3, <4>4
    <3>2. CASE x # t
      <4>1. Found(o, x) /\ status'[x] = status[x] /\ blocked'[x] = blocked[x]
        BY <1>0, <1>1, <2>6, <2>11, <3>2
      <4>2. /\ x \in ToSet(thread_queue[o]) <=> x \in ToSet(thread_queue'[o])
            /\ x \in ToSet(waiting_list[o]) <=> x \in ToSet(waiting_list'[o])
        BY <1>2, <1>4, <2>1, <2>5, <3>2
      <4> QED BY <1>0, <1>5, <1>7, <4>1, <4>2, CallsKept DEF Found
    <3> QED BY <3>1, <3>2
  <2>12. ASSUME NEW x \in Threads PROVE Heard(x)'
    <3>1. Heard(x)
      BY DEF KernelInv, StopSound
    <3>2. CASE x = t
      BY <1>0, <2>6, <3>1, <3>2, CallsKept DEF Heard
    <3>3. CASE x # t
      BY <1>0, <2>6, <3>1, <3>3, CallsKept DEF Heard
    <3> QED BY <3>2, <3>3
  <2>13. ASSUME NEW x \in Threads, stopped PROVE Hears(x)'
    <3>0. Warned(x) => Warned(x)'
      BY <1>0, <1>9, <2>6 DEF Warned
    <3>1. CASE home'[x] = home[x]
      BY <1>0, <2>13, <3>0, <3>1, HearsKept
    <3>2. CASE home'[x] # home[x]
      <4>1. x = t /\ home[t] = Nobody
        BY <1>4, <2>6, <3>2
      <4>2. Hears(x)
        BY <2>13 DEF KernelInv, StopSound, Telling
      <4>3. CASE Due("flag", x) \/ Walking
        <5>0. PICK c \in Callers : \E i \in 1..Len(call[c].jobs) :
                 call[c].jobs[i].do \in {"walk", "flag"}
          BY <4>3 DEF Due, Walking
        <5>1. PICK i \in 1..Len(call[c].jobs) : call[c].jobs[i].do \in {"walk", "flag"}
          BY <5>0
        <5>2. JobsOrdered(call[c].jobs)
          BY DEF KernelInv, StopSound
        <5>3. PICK j \in i..Len(call[c].jobs) :
                 call[c].jobs[j].do = "os" /\ call[c].jobs[j].of = o
          BY <5>1, <5>2 DEF JobsOrdered
        <5>4. j \in 1..Len(call[c].jobs)
          BY <5>1, <5>3
        <5>5. Due("os", o)
          BY <5>3, <5>4 DEF Due
        <5> QED BY <1>0, <1>1, <2>6, <4>1, <5>5, CallsKept DEF Hears
      <4> QED BY <1>0, <3>0, <4>1, <4>2, <4>3 DEF Hears
    <3> QED BY <3>1, <3>2
  <2>14. Good(o)'
    BY <2>8, <2>9, <2>10, <2>11 DEF Good
  <2> QED BY <2>4, <2>5, <2>7, <2>12, <2>13, <2>14 DEF Kept
<1> QED BY <1>3, <1>8, <1>9

(* A step that changes the thread t which OS thread o runs. *)
OwnFrame(o, t) ==
    /\ UNCHANGED <<home, os_status, pipe, os_shutdown, call, stopped, missed>>
    /\ \A x \in Threads : x # t => Same(x)
    /\ \A p \in OSThreads : p # o =>
          /\ pc'[p] = pc[p] /\ current'[p] = current[p]
          /\ thread_queue'[p] = thread_queue[p] /\ waiting_list'[p] = waiting_list[p]
    /\ \A x \in Threads : x # t =>
          /\ x \in ToSet(thread_queue'[o]) <=> x \in ToSet(thread_queue[o])
          /\ x \in ToSet(waiting_list'[o]) <=> x \in ToSet(waiting_list[o])

(* It is enough to look at this thread. *)
LEMMA OwnStep ==
  ASSUME KernelInv, NEW o \in OSThreads, pc[o] \in RunPlaces, NEW t, t = current[o],
         OwnFrame(o, t), ThreadsTyped', ListsTyped', Once(o)', RunSound(o)',
         current'[o] \in {t, Nobody}, pc'[o] \in {"clear", "continue", "recheck"},
         Found(o, t)', Heard(t)', Warned(t) => Warned(t)'
  PROVE  Kept(o)
<1>0. /\ AtHome(o) /\ RunSound(o) /\ o # Nobody
      /\ \A x \in Threads : home[x] = o => Found(o, x)
      /\ (os_status[o] = "sleeping" => pc[o] \in Resting)
      /\ current[o] \in Threads \cup {Nobody}
      /\ ToSet(waiting_list[o]) \subseteq Threads
      /\ ToSet(thread_queue[o]) \subseteq Threads
  BY GoodIs
<1>1. t \in Threads /\ home[t] = o
  BY <1>0 DEF RunSound, AtHome
<1>2. UNCHANGED <<home, os_status, pipe, os_shutdown, call, stopped, missed>>
  BY DEF OwnFrame
<1>3. OSFrame(o)
  BY <1>2 DEF OSFrame, OwnFrame
<1>4. ThreadFrame(o)
  BY <1>1, <1>2 DEF ThreadFrame, OwnFrame
<1>5. AtHome(o)'
  <2>1. /\ ToSet(waiting_list'[o]) \subseteq Threads
        /\ ToSet(thread_queue'[o]) \subseteq Threads
    BY ToSetIs DEF ListsTyped
  <2> QED BY <1>0, <1>1, <1>2, <2>1 DEF AtHome, OwnFrame
<1>6. WakeSound(o)'
  <2>1. os_status'[o] # "sleeping"
    BY <1>0, <1>2 DEF Resting, RunPlaces
  <2> QED BY <2>1, BusySound DEF Committed, Resting
<1>7. ASSUME NEW x \in Threads, home[x] = o, x # t PROVE Found(o, x)'
  <2>1. Found(o, x) /\ Same(x)
    BY <1>0, <1>7 DEF OwnFrame
  <2>2. status[x] # "active"
    BY <1>7, <2>1 DEF Found
  <2>3. /\ x \in ToSet(thread_queue'[o]) <=> x \in ToSet(thread_queue[o])
        /\ x \in ToSet(waiting_list'[o]) <=> x \in ToSet(waiting_list[o])
    BY <1>7 DEF OwnFrame
  <2> QED BY <1>2, <1>7, <2>1, <2>2, <2>3, CallsKept DEF Found, Same
<1>8. ASSUME NEW x \in Threads PROVE (stopped => Hears(x)') /\ Heard(x)'
  <2>1. CASE x = t
    BY <1>2, <2>1, HearsKept
  <2>2. CASE x # t
    <3>1. Same(x) /\ Heard(x)
      BY <2>2 DEF OwnFrame, KernelInv, StopSound
    <3>2. Warned(x) => Warned(x)'
      BY <3>1 DEF Same, Warned
    <3> QED BY <1>2, <3>1, <3>2, HearsKept, CallsKept DEF Heard, Same
  <2> QED BY <2>1, <2>2
<1>9. Good(o)'
  BY <1>2, <1>5, <1>6, <1>7 DEF Good
<1> QED BY <1>3, <1>4, <1>8, <1>9 DEF Kept

(* What is known of the thread that runs. *)
LEMMA RunningIs ==
  ASSUME KernelInv, NEW o \in OSThreads, pc[o] \in RunPlaces
  PROVE  /\ current[o] \in Threads /\ home[current[o]] = o /\ current[o] # Nobody
         /\ pc[o] # "recheck" => /\ status[current[o]] = "active"
                                 /\ current[o] \notin ToSet(waiting_list[o])
         /\ os_status[o] # "sleeping"
         /\ Found(o, current[o]) /\ Once(o) /\ RunSound(o)
         /\ thread_queue[o] \in Seq(Threads) /\ waiting_list[o] \in Seq(Threads)
<1>1. /\ AtHome(o) /\ RunSound(o) /\ Once(o)
      /\ \A x \in Threads : home[x] = o => Found(o, x)
      /\ (os_status[o] = "sleeping" => pc[o] \in Resting)
      /\ current[o] \in Threads \cup {Nobody}
      /\ thread_queue[o] \in Seq(Threads) /\ waiting_list[o] \in Seq(Threads)
  BY GoodIs
<1>2. current[o] \in Threads /\ home[current[o]] = o /\ current[o] # Nobody
  BY <1>1 DEF RunSound, AtHome
<1>3. os_status[o] # "sleeping"
  BY <1>1 DEF Resting, RunPlaces
<1>4. Found(o, current[o])
  BY <1>1, <1>2
<1> QED BY <1>1, <1>2, <1>3, <1>4 DEF RunSound, Found

(* The thread is changed by what it runs, and no other is. *)
LEMMA RunStep ==
  ASSUME KernelInv, NEW o \in OSThreads, pc[o] = "manager", NEW t, t = current[o],
         UNCHANGED <<home, os_status, waiting_list, list_entry, pipe, os_shutdown,
                     call, stopped, missed>>,
         ManagerFlags(t), Finish(o, t) \/ Block(o, t) \/ Stop(o, t),
         \A x \in Threads : x # t => /\ reply_list'[x] = reply_list[x]
                                     /\ reply_queue'[x] = reply_queue[x]
  PROVE  Kept(o)
<1>0. pc[o] \in RunPlaces
  BY DEF RunPlaces
<1>1. /\ t \in Threads /\ home[t] = o /\ t # Nobody /\ status[t] = "active"
      /\ t \notin ToSet(waiting_list[o]) /\ Once(o)
      /\ thread_queue[o] \in Seq(Threads)
  BY <1>0, RunningIs
<1>2. pc \in [OSThreads -> Places]
  BY GoodIs
<1>3. /\ shutting_down' = [shutting_down EXCEPT ![t] = shutting_down[t] \/ shutdown_request[t]]
      /\ shutdown_request' = [shutdown_request EXCEPT ![t] = FALSE]
      /\ signal_raised' = [signal_raised EXCEPT ![t] = FALSE]
  BY DEF ManagerFlags
<1>4. \E m : module' = [module EXCEPT ![t] = m]
  BY DEF Finish, Block, Stop
<1>5. \E b \in BOOLEAN : blocked' = [blocked EXCEPT ![t] = b]
  BY DEF Finish, Block, Stop
<1>6. (shutting_down[t] \/ shutdown_request[t]) \in BOOLEAN
  OBVIOUS
<1>7. /\ shutting_down' \in [Threads -> BOOLEAN]
      /\ shutdown_request' \in [Threads -> BOOLEAN] /\ signal_raised' \in [Threads -> BOOLEAN]
  BY <1>1, <1>3, <1>6 DEF KernelInv, ThreadsTyped
<1>8. blocked' \in [Threads -> BOOLEAN] /\ \A x \in Threads : x # t => blocked'[x] = blocked[x]
  BY <1>1, <1>5 DEF KernelInv, ThreadsTyped
<1>9. /\ ~shutdown_request'[t]
      /\ shutting_down'[t] = (shutting_down[t] \/ shutdown_request[t])
      /\ \A x \in Threads : x # t => /\ shutting_down'[x] = shutting_down[x]
                                     /\ shutdown_request'[x] = shutdown_request[x]
                                     /\ signal_raised'[x] = signal_raised[x]
  BY <1>1, <1>3 DEF KernelInv, ThreadsTyped
<1>10. ASSUME NEW x \in Threads, x # t PROVE Activity(x)' <=> Activity(x)
  <2>1. module'[x] = module[x]
    BY <1>4, <1>10
  <2> QED BY <1>9, <1>10, <2>1 DEF Activity
<1>11. Warned(t) => Warned(t)'
  BY <1>1, <1>9 DEF Warned
<1>12. Heard(t)'
  BY <1>9 DEF Heard
<1>13. CASE Finish(o, t) \/ Block(o, t)
  <2>1. UNCHANGED <<status, thread_queue, current>> /\ Goto(o, "continue")
    BY <1>13 DEF Finish, Block
  <2>2. pc'[o] = "continue" /\ \A p \in OSThreads : p # o => pc'[p] = pc[p]
    BY <1>2, <2>1 DEF Goto
  <2>3. ThreadsTyped'
    BY <1>7, <1>8, <2>1 DEF KernelInv, ThreadsTyped
  <2>4. ListsTyped'
    BY <2>1 DEF KernelInv, ListsTyped
  <2>5. OwnFrame(o, t)
    BY <1>8, <1>9, <1>10, <2>1, <2>2 DEF OwnFrame, Same
  <2>6. Once(o)'
    BY <1>1, <2>1 DEF Once
  <2>7. RunSound(o)'
    BY <1>1, <2>1, <2>2 DEF RunSound, RunPlaces
  <2>8. Found(o, t)'
    BY <1>1, <2>1 DEF Found
  <2>9. current'[o] = t
    BY <2>1
  <2> QED BY <1>0, <1>11, <1>12, <2>2, <2>3, <2>4, <2>5, <2>6, <2>7, <2>8, <2>9, OwnStep
<1>14. CASE Stop(o, t)
  <2> DEFINE q == RemoveFirst(thread_queue[o], t)
  <2>1. /\ status' = [status EXCEPT ![t] = "zombie"]
        /\ blocked' = [blocked EXCEPT ![t] = FALSE]
        /\ thread_queue' = [thread_queue EXCEPT ![o] = q]
        /\ current' = [current EXCEPT ![o] = Nobody] /\ Goto(o, "clear")
    BY <1>14 DEF Stop, Leave
  <2>2. /\ q \in Seq(Threads) /\ ToSet(q) \subseteq ToSet(thread_queue[o])
        /\ \A x \in ToSet(thread_queue[o]) : x # t => x \in ToSet(q)
        /\ IsInjective(q)
    BY <1>1, RemoveFirstIs DEF Once
  <2> HIDE DEF q
  <2>3. pc'[o] = "clear" /\ \A p \in OSThreads : p # o => pc'[p] = pc[p]
    BY <1>2, <2>1 DEF Goto
  <2>4. status' \in [Threads -> Statuses]
    BY <1>1, <2>1 DEF KernelInv, ThreadsTyped, Statuses
  <2>5. ThreadsTyped'
    BY <1>7, <1>8, <2>4 DEF ThreadsTyped
  <2>6. ListsTyped'
    BY <2>1, <2>2 DEF KernelInv, ListsTyped
  <2>7. /\ thread_queue'[o] = q /\ current'[o] = Nobody
        /\ \A p \in OSThreads : p # o => thread_queue'[p] = thread_queue[p]
                                         /\ current'[p] = current[p]
    BY <2>1 DEF KernelInv, ListsTyped
  <2>8. /\ status'[t] = "zombie" /\ ~blocked'[t]
        /\ \A x \in Threads : x # t => status'[x] = status[x]
    BY <1>1, <2>1 DEF KernelInv, ThreadsTyped
  <2>9. OwnFrame(o, t)
    BY <1>8, <1>9, <1>10, <2>2, <2>3, <2>7, <2>8 DEF OwnFrame, Same
  <2>10. Once(o)'
    BY <1>1, <2>2, <2>7 DEF Once
  <2>11. RunSound(o)'
    BY <2>3, <2>7 DEF RunSound, RunPlaces
  <2>12. Found(o, t)'
    BY <1>1, <2>8 DEF Found
  <2> QED BY <1>0, <1>11, <1>12, <2>3, <2>5, <2>6, <2>7, <2>9, <2>10, <2>11, <2>12, OwnStep
<1> QED BY <1>13, <1>14

(* The dialog manager runs the thread. *)
LEMMA ManagerSteps ==
  ASSUME KernelInv, NEW o \in OSThreads,
         ManagerPending(o) \/ ManagerEvent(o) \/ ManagerMethod(o) \/ ManagerEmpty(o)
  PROVE  Kept(o)
<1>0. pc[o] = "manager" /\ pc[o] \in RunPlaces
  <2>1. pc[o] = "manager"
    BY DEF ManagerPending, ManagerEvent, ManagerMethod, ManagerEmpty
  <2> QED BY <2>1 DEF RunPlaces
<1>1. PICK t : t = current[o]
  OBVIOUS
<1>2. UNCHANGED <<home, os_status, waiting_list, list_entry, pipe, os_shutdown,
                  call, stopped, missed>>
  BY DEF ManagerPending, ManagerEvent, ManagerMethod, ManagerEmpty, ManagerUnchanged
<1>3. /\ pc \in [OSThreads -> Places] /\ os_status \in [OSThreads -> OSStatuses]
      /\ t # Nobody /\ status[t] = "active" /\ os_status[o] # "sleeping"
  BY <1>0, <1>1, GoodIs, RunningIs
<1>4. CASE ManagerPending(o)
  <2>1. Goto(o, "continue") /\ UNCHANGED <<threadVars, thread_queue, current>>
    BY <1>4 DEF ManagerPending
  <2>2. pc'[o] = "continue" /\ current'[o] = t /\ status' = status
    BY <1>1, <1>3, <2>1 DEF Goto, threadVars
  <2>3. RunSound(o)'
    BY <1>3, <2>2 DEF RunSound, RunPlaces
  <2>4. WakeSound(o)'
    <3>1. os_status'[o] # "sleeping"
      BY <1>2, <1>3
    <3> QED BY <2>2, <3>1 DEF WakeSound, Committed, Idling
  <2>5. os_status' = [os_status EXCEPT ![o] = os_status[o]] /\ pc[o] # "recheck"
    BY <1>0, <1>2, <1>3
  <2> QED BY <1>2, <2>1, <2>3, <2>4, <2>5, PlaceStep
<1>5. ASSUME NEW list, NEW queue, Keep(t, list, queue)
      PROVE  \A x \in Threads : x # t => /\ reply_list'[x] = reply_list[x]
                                         /\ reply_queue'[x] = reply_queue[x]
  BY <1>5 DEF Keep
<1>6. CASE ManagerEvent(o)
  <2>1. ManagerFlags(t) /\ Execute(o, t, reply_list[t], reply_queue[t])
    BY <1>1, <1>6 DEF ManagerEvent
  <2>2. /\ Finish(o, t) \/ Block(o, t) \/ Stop(o, t)
        /\ \E list, queue : Keep(t, list, queue)
    BY <2>1 DEF Execute
  <2> QED BY <1>0, <1>1, <1>2, <1>5, <2>1, <2>2, RunStep
<1>7. CASE ManagerMethod(o)
  <2>1. ManagerFlags(t) /\ Execute(o, t, Tail(Collected(t)), <<>>)
    BY <1>1, <1>7 DEF ManagerMethod
  <2>2. /\ Finish(o, t) \/ Block(o, t) \/ Stop(o, t)
        /\ \E list, queue : Keep(t, list, queue)
    BY <2>1 DEF Execute
  <2> QED BY <1>0, <1>1, <1>2, <1>5, <2>1, <2>2, RunStep
<1>8. CASE ManagerEmpty(o)
  <2>1. ManagerFlags(t) /\ Finish(o, t) /\ UNCHANGED <<reply_list, reply_queue>>
    BY <1>1, <1>8 DEF ManagerEmpty
  <2> QED BY <1>0, <1>1, <1>2, <2>1, RunStep
<1> QED BY <1>4, <1>6, <1>7, <1>8

(* Places of an OS thread that has a thread to run, and that has none. *)
LEMMA PlacesAre ==
  /\ \A p \in {"manager", "continue", "park", "sleep", "recheck"} : p \in RunPlaces
  /\ "clear" \notin RunPlaces
<1>1. \A p \in {"manager", "continue", "park", "sleep", "recheck"} : p \in RunPlaces
  BY Zenon DEF RunPlaces
<1>2. "clear" \notin RunPlaces
  BY Zenon DEF RunPlaces
<1> QED BY <1>1, <1>2

(* At these an OS thread is not idle. *)
LEMMA AwaySound ==
  ASSUME NEW o \in OSThreads, NEW p \in {"park", "sleep"}, pc'[o] = p,
         os_status'[o] # "sleeping"
  PROVE  WakeSound(o)'
  BY Zenon DEF WakeSound, Committed, Idling

(* The thread that has run gets another status, and may join the waiting list. *)
LEMMA StatusStep ==
  ASSUME KernelInv, NEW o \in OSThreads, pc[o] \in RunPlaces, NEW t, t = current[o],
         ContinueUnchanged, NEW s \in Statuses, status' = [status EXCEPT ![t] = s],
         NEW w \in WaitSet, SetWaiting(o, w), IsInjective(w.list),
         \A x \in Threads : x # t => (x \in ToSet(w.list) <=> x \in ToSet(waiting_list[o])),
         NEW p, Goto(o, p), p \in {"clear", "recheck"},
         NEW u \in {t, Nobody}, current' = [current EXCEPT ![o] = u],
         RunSound(o)', Found(o, t)', Heard(t)', status[t] # "zombie"
  PROVE  Kept(o)
<1>0. UNCHANGED <<home, reply_queue, reply_list, blocked, module, signal_raised,
                  shutdown_request, shutting_down, os_status, thread_queue, pipe,
                  os_shutdown, call, stopped, missed>>
  BY DEF ContinueUnchanged
<1>1. /\ t \in Threads /\ Once(o) /\ pc \in [OSThreads -> Places]
  BY RunningIs, GoodIs
<1>2. w.list \in Seq(Threads) /\ w.entry \in Threads \cup {Nobody}
  BY DEF WaitSet
<1>3. /\ waiting_list' = [waiting_list EXCEPT ![o] = w.list]
      /\ list_entry' = [list_entry EXCEPT ![o] = w.entry]
      /\ pc' = [pc EXCEPT ![o] = p]
  BY DEF SetWaiting, Goto
<1>4. status' \in [Threads -> Statuses] /\ \A x \in Threads : x # t => status'[x] = status[x]
  BY <1>1 DEF KernelInv, ThreadsTyped
<1>5. ThreadsTyped'
  BY <1>0, <1>4 DEF KernelInv, ThreadsTyped
<1>6. u \in Threads \cup {Nobody}
  BY <1>1
<1>7. ListsTyped'
  BY <1>0, <1>2, <1>3, <1>6 DEF KernelInv, ListsTyped
<1>8. /\ pc'[o] = p /\ waiting_list'[o] = w.list /\ current'[o] = u
      /\ \A q \in OSThreads : q # o => /\ pc'[q] = pc[q] /\ current'[q] = current[q]
                                       /\ waiting_list'[q] = waiting_list[q]
  BY <1>1, <1>3 DEF KernelInv, ListsTyped
<1>9. \A x : Activity(x)' <=> Activity(x)
  BY <1>0 DEF Activity
<1>10. OwnFrame(o, t)
  BY <1>0, <1>4, <1>8, <1>9 DEF OwnFrame, Same
<1>11. Once(o)'
  BY <1>0, <1>1, <1>8 DEF Once
<1>12. Warned(t) => Warned(t)'
  BY <1>0 DEF Warned
<1> QED BY <1>5, <1>7, <1>8, <1>10, <1>11, <1>12, OwnStep

(* A thread with something left to do joins the waiting list. *)
LEMMA RequeueStep ==
  ASSUME KernelInv, NEW o \in OSThreads, pc[o] \in RunPlaces, NEW t, t = current[o],
         ContinueUnchanged, Requeue(o, t), status[t] # "zombie"
  PROVE  Kept(o)
<1>0. PICK w : w = InsertWaiting(Waiting(o), t)
  OBVIOUS
<1>1. /\ t \in Threads /\ Once(o) /\ pc \in [OSThreads -> Places]
  BY RunningIs, GoodIs
<1>2. Waiting(o) \in WaitSet /\ Waiting(o).list = waiting_list[o]
  BY DEF Waiting, WaitSet, KernelInv, ListsTyped
<1>3. /\ w \in WaitSet /\ ToSet(w.list) = ToSet(waiting_list[o]) \cup {t}
      /\ IsInjective(w.list)
  BY <1>0, <1>1, <1>2, InsertWaitingIs DEF Once
<1>4. /\ status' = [status EXCEPT ![t] = "waiting"] /\ SetWaiting(o, w)
      /\ current' = [current EXCEPT ![o] = Nobody] /\ Goto(o, "clear")
  BY <1>0 DEF Requeue, Leave
<1>5. waiting_list'[o] = w.list
  BY <1>4 DEF SetWaiting, KernelInv, ListsTyped
<1>6. status'[t] = "waiting"
  BY <1>1, <1>4 DEF KernelInv, ThreadsTyped
<1>7. pc'[o] = "clear" /\ current'[o] = Nobody
  BY <1>1, <1>4 DEF Goto, KernelInv, ListsTyped
<1>8. RunSound(o)'
  BY <1>7, PlacesAre DEF RunSound
<1>9. Found(o, t)'
  BY <1>3, <1>5, <1>6 DEF Found
<1>10. Heard(t)'
  BY <1>6 DEF Heard
<1>11. "waiting" \in Statuses
  BY DEF Statuses
<1> QED BY <1>3, <1>4, <1>8, <1>9, <1>10, <1>11, StatusStep

(* What becomes of a thread that has run. *)
LEMMA ContinueSteps ==
  ASSUME KernelInv, NEW o \in OSThreads,
         Continue(o) \/ Park(o) \/ Sleep(o) \/ Recheck(o)
  PROVE  Kept(o)
<1>0. ContinueUnchanged /\ pc[o] \in {"continue", "park", "sleep", "recheck"}
  BY DEF Continue, Park, Sleep, Recheck
<1>1. PICK t : t = current[o]
  OBVIOUS
<1>2. pc[o] \in RunPlaces
  BY <1>0, PlacesAre
<1>3. /\ t \in Threads /\ t # Nobody /\ Found(o, t) /\ Once(o) /\ RunSound(o)
      /\ os_status[o] # "sleeping"
      /\ pc[o] # "recheck" => status[t] = "active" /\ t \notin ToSet(waiting_list[o])
      /\ pc \in [OSThreads -> Places] /\ os_status \in [OSThreads -> OSStatuses]
  BY <1>1, <1>2, RunningIs, GoodIs
<1>4. UNCHANGED <<home, reply_queue, reply_list, blocked, module, signal_raised,
                  shutdown_request, shutting_down, os_status, thread_queue, pipe,
                  os_shutdown, call, stopped, missed>>
  BY <1>0 DEF ContinueUnchanged
<1>5. PICK w : w = Waiting(o)
  OBVIOUS
<1>6. /\ w \in WaitSet /\ w.list = waiting_list[o] /\ IsInjective(w.list)
      /\ \A x \in Threads : x # t => (x \in ToSet(w.list) <=> x \in ToSet(waiting_list[o]))
  <2>1. w \in WaitSet /\ w.list = waiting_list[o]
    BY <1>5 DEF Waiting, WaitSet, KernelInv, ListsTyped
  <2> QED BY <1>3, <2>1 DEF Once
<1>7. UNCHANGED <<waiting_list, list_entry>> => SetWaiting(o, w)
  BY <1>5 DEF Waiting, SetWaiting, KernelInv, ListsTyped
<1>8. {"pending", "sleeping", "waiting"} \subseteq Statuses
  BY DEF Statuses
<1>9. CASE Continue(o)
  <2>1. CASE ~Parks(t) /\ Activity(t)
    <3>1. Requeue(o, t) /\ status[t] # "zombie"
      BY <1>1, <1>3, <1>9, <2>1 DEF Continue
    <3> QED BY <1>0, <1>1, <1>2, <3>1, RequeueStep
  <2>2. CASE ~(~Parks(t) /\ Activity(t))
    <3>0. PICK p : p = IF Parks(t) THEN "park" ELSE "sleep"
      OBVIOUS
    <3>1. Goto(o, p) /\ UNCHANGED <<status, waiting_list, list_entry, current>>
      BY <1>1, <1>9, <2>2, <3>0 DEF Continue
    <3>2. pc'[o] = p /\ current'[o] = t /\ status'[t] = status[t]
      BY <1>1, <1>3, <3>1 DEF Goto
    <3>3. pc[o] = "continue"
      BY <1>9 DEF Continue
    <3>4. /\ p \in {"park", "sleep"} /\ (p = "park" => blocked[t])
          /\ ~shutdown_request[t]
      BY <2>2, <3>0 DEF Parks, Activity
    <3>5. RunSound(o)'
      BY <1>3, <1>4, <3>2, <3>3, <3>4, PlacesAre DEF RunSound
    <3>6. WakeSound(o)'
      <4>1. os_status'[o] # "sleeping"
        BY <1>3, <1>4
      <4> QED BY <3>2, <3>4, <4>1, AwaySound
    <3>7. os_status' = [os_status EXCEPT ![o] = os_status[o]] /\ pc[o] # "recheck"
      BY <1>3, <1>4, <3>3
    <3>8. UNCHANGED <<threadVars, thread_queue, waiting_list, list_entry, pipe,
                      os_shutdown, current, call, stopped, missed>>
      BY <1>4, <3>1 DEF threadVars
    <3> QED BY <3>1, <3>5, <3>6, <3>7, <3>8, PlaceStep
  <2> QED BY <2>1, <2>2
<1>10. CASE Park(o)
  <2>1. /\ status' = [status EXCEPT ![t] = "pending"] /\ pc[o] = "park"
        /\ current' = [current EXCEPT ![o] = Nobody] /\ Goto(o, "clear")
        /\ UNCHANGED <<waiting_list, list_entry>>
    BY <1>1, <1>10 DEF Park, Leave
  <2>2. blocked[t] /\ ~shutdown_request[t] /\ status[t] # "zombie"
    BY <1>1, <1>3, <2>1 DEF RunSound
  <2>3. pc'[o] = "clear" /\ current'[o] = Nobody
    BY <1>3, <2>1 DEF Goto, KernelInv, ListsTyped
  <2>4. status'[t] = "pending"
    BY <1>3, <2>1 DEF KernelInv, ThreadsTyped
  <2>5. RunSound(o)'
    BY <2>3 DEF RunSound, RunPlaces
  <2>6. Found(o, t)'
    BY <1>4, <2>2, <2>4 DEF Found
  <2>7. Heard(t)'
    BY <1>4, <2>2 DEF Heard
  <2> QED BY <1>0, <1>1, <1>2, <1>6, <1>7, <1>8, <2>1, <2>2, <2>5, <2>6, <2>7, StatusStep
<1>11. CASE Sleep(o)
  <2>1. /\ status' = [status EXCEPT ![t] = "sleeping"] /\ pc[o] = "sleep"
        /\ UNCHANGED current /\ Goto(o, "recheck")
        /\ UNCHANGED <<waiting_list, list_entry>>
    BY <1>1, <1>11 DEF Sleep
  <2>2. ~shutdown_request[t] /\ status[t] # "zombie"
    BY <1>1, <1>3, <2>1 DEF RunSound
  <2>3. /\ pc'[o] = "recheck" /\ current'[o] = t
        /\ current' = [current EXCEPT ![o] = t]
    BY <1>1, <1>3, <2>1 DEF Goto, KernelInv, ListsTyped
  <2>4. status'[t] = "sleeping"
    BY <1>3, <2>1 DEF KernelInv, ThreadsTyped
  <2>5. RunSound(o)'
    BY <1>3, <1>4, <2>2, <2>3, <2>4, PlacesAre DEF RunSound
  <2>6. Found(o, t)'
    BY <1>4, <2>3, <2>4 DEF Found
  <2>7. Heard(t)'
    BY <1>4, <2>2 DEF Heard
  <2> QED BY <1>0, <1>1, <1>2, <1>6, <1>7, <1>8, <2>1, <2>2, <2>3, <2>5, <2>6, <2>7, StatusStep
<1>12. CASE Recheck(o)
  <2>1. /\ pc[o] = "recheck" /\ ~shutdown_request[t] /\ status[t] \in {"sleeping", "waiting"}
    BY <1>1, <1>3, <1>12 DEF RunSound, Recheck
  <2>2. CASE Activity(t) /\ status[t] = "sleeping"
    <3>1. Requeue(o, t) /\ status[t] # "zombie"
      BY <1>1, <1>3, <1>12, <2>2 DEF Recheck
    <3> QED BY <1>0, <1>1, <1>2, <3>1, RequeueStep
  <2>3. CASE ~(Activity(t) /\ status[t] = "sleeping")
    <3>1. /\ current' = [current EXCEPT ![o] = Nobody] /\ Goto(o, "clear")
          /\ UNCHANGED <<status, waiting_list, list_entry>>
      BY <1>1, <1>12, <2>3 DEF Recheck, Leave
    <3>2. pc'[o] = "clear" /\ current'[o] = Nobody
      BY <1>3, <3>1 DEF Goto, KernelInv, ListsTyped
    <3>3. PICK s : s = status[t]
      OBVIOUS
    <3>4. s \in Statuses /\ status' = [status EXCEPT ![t] = s] /\ s # "zombie"
      BY <1>3, <1>8, <2>1, <3>1, <3>3 DEF KernelInv, ThreadsTyped
    <3>5. RunSound(o)'
      BY <3>2 DEF RunSound, RunPlaces
    <3>6. Activity(t)' <=> Activity(t)
      BY <1>4 DEF Activity
    <3>7. Found(o, t)'
      BY <1>3, <1>4, <2>1, <2>3, <3>1, <3>6, CallsKept DEF Found
    <3>8. Heard(t)'
      BY <1>4, <2>1 DEF Heard
    <3> QED BY <1>0, <1>1, <1>2, <1>6, <1>7, <3>1, <3>3, <3>4, <3>5, <3>7, <3>8, StatusStep
  <2> QED BY <2>2, <2>3
<1> QED BY <1>9, <1>10, <1>11, <1>12

-----------------------------------------------------------------------------
(* The steps of a caller. *)

(* What a step of caller c to standing k makes of what callers do. *)
LEMMA CallPreds ==
  ASSUME CallsTyped, NEW c \in Callers, NEW k, call' = [call EXCEPT ![c] = k]
  PROVE  /\ \A t : Called(t) => Called(t)' \/ (call[c].stage = "cas" /\ call[c].thread = t)
         /\ \A t : k.stage = "cas" /\ k.thread = t => Called(t)'
         /\ \A t : Flagged(t) => Flagged(t)' \/ Flags(c, t)
         /\ \A t : k.stage \in {"cas", "cas2"} /\ k.thread = t /\ k.jobs # <<>> => Flagged(t)'
         /\ \A t : \A d \in Callers : d # c => (Brings(d, t)' <=> Brings(d, t))
         /\ \A t : Brings(c, t)' <=> k.stage = "queue" /\ k.thread = t
<1>1. call'[c] = k /\ \A d \in Callers : d # c => call'[d] = call[d]
  BY DEF CallsTyped
<1>2. \A t : Called(t) => Called(t)' \/ (call[c].stage = "cas" /\ call[c].thread = t)
  BY <1>1 DEF Called
<1>3. \A t : k.stage = "cas" /\ k.thread = t => Called(t)'
  BY <1>1 DEF Called
<1>4. \A t : Flagged(t) => Flagged(t)' \/ Flags(c, t)
  BY <1>1 DEF Flagged, Flags
<1>5. \A t : k.stage \in {"cas", "cas2"} /\ k.thread = t /\ k.jobs # <<>> => Flagged(t)'
  BY <1>1 DEF Flagged, Flags
<1>6. /\ \A t : \A d \in Callers : d # c => (Brings(d, t)' <=> Brings(d, t))
      /\ \A t : Brings(c, t)' <=> k.stage = "queue" /\ k.thread = t
  BY <1>1 DEF Brings
<1> QED BY <1>2, <1>3, <1>4, <1>5, <1>6

(* The same for the calls that are about an OS thread. *)
LEMMA OSCallPreds ==
  ASSUME CallsTyped, NEW c \in Callers, NEW k, call' = [call EXCEPT ![c] = k]
  PROVE  /\ \A o : OnTheWay(o) => OnTheWay(o)' \/ (call[c].os = o /\ call[c].stage \in {"inc", "swap"})
         /\ k.stage \in {"inc", "swap"} => OnTheWay(k.os)'
         /\ \A o : Signals(o) => Signals(o)' \/ (call[c].os = o /\ call[c].stage = "signal")
         /\ k.stage = "signal" => Signals(k.os)'
         /\ \A o : Writes(o) => Writes(o)' \/ (call[c].os = o /\ call[c].stage \in {"dec pipe", "pipe"})
         /\ k.stage \in {"dec pipe", "pipe"} => Writes(k.os)'
<1>1. call'[c] = k /\ \A d \in Callers : d # c => call'[d] = call[d]
  BY DEF CallsTyped
<1>2. \A o : OnTheWay(o) => OnTheWay(o)' \/ (call[c].os = o /\ call[c].stage \in {"inc", "swap"})
  BY <1>1 DEF OnTheWay
<1>3. k.stage \in {"inc", "swap"} => OnTheWay(k.os)'
  BY <1>1 DEF OnTheWay
<1>4. \A o : Signals(o) => Signals(o)' \/ (call[c].os = o /\ call[c].stage = "signal")
  BY <1>1 DEF Signals
<1>5. k.stage = "signal" => Signals(k.os)'
  BY <1>1 DEF Signals
<1>6. \A o : Writes(o) => Writes(o)' \/ (call[c].os = o /\ call[c].stage \in {"dec pipe", "pipe"})
  BY <1>1, Zenon DEF Writes
<1>7. k.stage \in {"dec pipe", "pipe"} => Writes(k.os)'
  BY <1>1, Zenon DEF Writes
<1> QED BY <1>2, <1>3, <1>4, <1>5, <1>6, <1>7, Zenon

(* A stopper has a job of this kind among those left to it. *)
Left(js, do, of) == \E i \in 1..Len(js) : js[i].do = do /\ js[i].of = of

(* What is due is left to one of the callers. *)
LEMMA DuePreds ==
  ASSUME CallsTyped, NEW c \in Callers, NEW k, call' = [call EXCEPT ![c] = k]
  PROVE  /\ \A do, of : Due(do, of) => Due(do, of)' \/ Left(call[c].jobs, do, of)
         /\ \A do, of : Left(k.jobs, do, of) => Due(do, of)'
         /\ \A do, of : Due(do, of)' => Due(do, of) \/ Left(k.jobs, do, of)
         /\ \A do, of : Left(call[c].jobs, do, of) => Due(do, of)
<1>1. call'[c] = k /\ \A d \in Callers : d # c => call'[d] = call[d]
  BY DEF CallsTyped
<1>2. \A do, of : Due(do, of)' <=> \E d \in Callers : Left(call'[d].jobs, do, of)
  BY DEF Due, Left
<1>3. \A do, of : Due(do, of) <=> \E d \in Callers : Left(call[d].jobs, do, of)
  BY DEF Due, Left
<1> QED BY <1>1, <1>2, <1>3

(* What is left of the jobs after the first of them. *)
LEMMA LeftTail ==
  ASSUME NEW js \in Seq(JobSet), js # <<>>, JobsOrdered(js)
  PROVE  /\ \A do, of : Left(js, do, of) => \/ Left(Tail(js), do, of)
                                            \/ Head(js).do = do /\ Head(js).of = of
         /\ \A do, of : Left(Tail(js), do, of) => Left(js, do, of)
         /\ Left(js, Head(js).do, Head(js).of)
         /\ JobsOrdered(Tail(js))
         /\ Head(js).do \in {"walk", "flag"} => \A o \in OSThreads : Left(js, "os", o)
         /\ Head(js).do = "leave" => Len(js) = 1
<1>1. /\ Len(js) \in Nat /\ Len(js) > 0 /\ Head(js) = js[1]
      /\ Tail(js) \in Seq(JobSet) /\ Len(Tail(js)) = Len(js) - 1
      /\ \A i \in 1..Len(Tail(js)) : Tail(js)[i] = js[i + 1]
  OBVIOUS
<1> DEFINE tl == Tail(js)
<1>a. /\ Len(tl) = Len(js) - 1 /\ Len(tl) \in Nat
      /\ \A i \in 1..Len(tl) : tl[i] = js[i + 1]
  BY <1>1
<1> HIDE DEF tl
<1>2. ASSUME NEW do, NEW of, Left(js, do, of)
      PROVE  Left(tl, do, of) \/ (Head(js).do = do /\ Head(js).of = of)
  <2>1. PICK i \in 1..Len(js) : js[i].do = do /\ js[i].of = of
    BY <1>2 DEF Left
  <2>2. CASE i = 1
    BY <1>1, <2>1, <2>2
  <2>3. CASE i # 1
    <3>1. i - 1 \in 1..Len(tl) /\ (i - 1) + 1 = i
      BY <1>1, <1>a, <2>3
    <3>2. tl[i - 1] = js[i]
      BY <1>a, <3>1
    <3> QED BY <2>1, <3>1, <3>2 DEF Left
  <2> QED BY <2>2, <2>3
<1>b. ASSUME NEW do, NEW of, Left(tl, do, of) PROVE Left(js, do, of)
  <2>1. PICK i \in 1..Len(tl) : tl[i].do = do /\ tl[i].of = of
    BY <1>b DEF Left
  <2>2. i + 1 \in 1..Len(js) /\ tl[i] = js[i + 1]
    BY <1>1, <1>a
  <2> QED BY <2>1, <2>2 DEF Left
<1>3. ASSUME NEW i \in 1..Len(tl), tl[i].do \in {"walk", "flag"}, NEW o \in OSThreads
      PROVE  \E j \in i..Len(tl) : tl[j].do = "os" /\ tl[j].of = o
  <2>1. i + 1 \in 1..Len(js) /\ tl[i] = js[i + 1]
    BY <1>1, <1>a
  <2>2. \E j \in (i + 1)..Len(js) : js[j].do = "os" /\ js[j].of = o
    BY <1>3, <2>1 DEF JobsOrdered
  <2>3. PICK j \in (i + 1)..Len(js) : js[j].do = "os" /\ js[j].of = o
    BY <2>2
  <2>4. j - 1 \in i..Len(tl) /\ j - 1 \in 1..Len(tl) /\ (j - 1) + 1 = j
    BY <1>1, <1>a, <2>3
  <2>5. tl[j - 1] = js[j]
    BY <1>a, <2>4
  <2> QED BY <2>3, <2>4, <2>5
<1>4. ASSUME NEW i \in 1..Len(tl), tl[i].do = "leave" PROVE i = Len(tl)
  <2>1. i + 1 \in 1..Len(js) /\ tl[i] = js[i + 1]
    BY <1>1, <1>a
  <2>2. i + 1 = Len(js)
    BY <1>4, <2>1 DEF JobsOrdered
  <2>3. i \in Nat /\ Len(js) \in Nat /\ Len(tl) = Len(js) - 1
    BY <1>1, <1>a
  <2> QED BY <2>2, <2>3
<1>5. JobsOrdered(tl)
  BY <1>3, <1>4 DEF JobsOrdered
<1>6. PICK n \in 1..Len(js) : n = 1 /\ js[n] = Head(js)
  BY <1>1
<1>7. ASSUME Head(js).do \in {"walk", "flag"}, NEW o \in OSThreads PROVE Left(js, "os", o)
  <2>1. PICK j \in n..Len(js) : js[j].do = "os" /\ js[j].of = o
    BY <1>6, <1>7 DEF JobsOrdered
  <2>2. j \in 1..Len(js)
    BY <1>1, <1>6
  <2> QED BY <2>1, <2>2 DEF Left
<1>8. Head(js).do = "leave" => Len(js) = 1
  <2>1. Head(js).do = "leave" => n = Len(js)
    BY <1>6 DEF JobsOrdered
  <2> QED BY <1>6, <2>1
<1>9. Left(js, Head(js).do, Head(js).of)
  BY <1>6 DEF Left
<1> QED BY <1>2, <1>b, <1>5, <1>7, <1>8, <1>9 DEF tl

(* The end of a wake-up: what is left to a stopper stays so. *)
JobsKept(js, ks) ==
    \A do \in {"walk", "flag", "os"} : \A of : Left(js, do, of) <=> Left(ks, do, of)

(* Nothing is forgotten of a shutdown when the stopper's jobs are kept and *)
(* what was warned stays so.                                               *)
LEMMA TellingKept ==
  ASSUME KernelInv, NEW c \in Callers, NEW k, call' = [call EXCEPT ![c] = k],
         home' = home, UNCHANGED <<stopped, missed>>, JobsKept(call[c].jobs, k.jobs),
         \A o \in OSThreads : os_shutdown[o] => os_shutdown'[o],
         \A t \in Threads : Warned(t) => Warned(t)'
  PROVE  Telling'
<1>1. /\ \A do, of : Due(do, of) => Due(do, of)' \/ Left(call[c].jobs, do, of)
      /\ \A do, of : Left(k.jobs, do, of) => Due(do, of)'
      /\ \A do, of : Due(do, of)' => Due(do, of) \/ Left(k.jobs, do, of)
      /\ \A do, of : Left(call[c].jobs, do, of) => Due(do, of)
  BY DuePreds DEF KernelInv, CountInv
<1>2. ASSUME NEW do \in {"walk", "flag", "os"}, NEW of PROVE Due(do, of)' <=> Due(do, of)
  BY <1>1 DEF JobsKept
<1>3. /\ \A of : Due("walk", of)' <=> Due("walk", of)
      /\ \A of : Due("flag", of)' <=> Due("flag", of)
      /\ \A of : Due("os", of)' <=> Due("os", of)
      /\ Walking' <=> Walking
  BY <1>2 DEF Walking
<1>4. /\ Telling /\ stopped' = stopped /\ missed' = missed
      /\ \A t \in Threads : home[t] \in OSThreads \cup {Nobody}
  BY DEF KernelInv, StopSound, CountInv, OSTyped
<1>5. ASSUME stopped, NEW t \in Threads PROVE Hears(t)'
  <2>1. Hears(t)
    BY <1>4, <1>5 DEF Telling
  <2> QED BY <1>3, <1>4, <2>1 DEF Hears
<1>6. Passed'
  <2> SUFFICES ASSUME NEW u \in Threads, Due("walk", u)', NEW t \in NewThreads,
                      Birth[t] < Birth[u]
               PROVE  Warned(t)' \/ Due("flag", t)'
    BY DEF Passed, NewThreads
  <2>1. Due("walk", u) /\ t \in Threads
    BY <1>3 DEF NewThreads
  <2>2. Warned(t) \/ Due("flag", t)
    BY <1>4, <2>1 DEF Telling, Passed
  <2> QED BY <1>3, <2>1, <2>2
<1> QED BY <1>4, <1>5, <1>6 DEF Telling

(* The standing a wake-up ends in. *)
LEMMA ReturnIs ==
  ASSUME KernelInv, NEW c \in Callers, Return(c)
  PROVE  \E k : /\ call' = [call EXCEPT ![c] = k] /\ k.stage \in {"idle", "next", "cas"}
                /\ JobsOrdered(k.jobs) /\ JobsKept(call[c].jobs, k.jobs)
<1>0. PICK js : js = call[c].jobs
  OBVIOUS
<1>1. js \in Seq(JobSet) /\ JobsOrdered(js)
  BY <1>0 DEF KernelInv, CountInv, CallsTyped, CallSet, StopSound
<1>2. CASE js # <<>> /\ Head(js).do = "wake"
  <2>1. PICK k : k = [stage |-> "cas", thread |-> Head(js).of, os |-> Nobody,
                      jobs |-> Tail(js)]
    OBVIOUS
  <2>2. call' = [call EXCEPT ![c] = k]
    BY <1>0, <1>2, <2>1 DEF Return
  <2>3. k.stage = "cas" /\ k.jobs = Tail(js)
    BY <2>1
  <2>4. /\ \A do, of : Left(js, do, of) => \/ Left(Tail(js), do, of)
                                           \/ Head(js).do = do /\ Head(js).of = of
        /\ \A do, of : Left(Tail(js), do, of) => Left(js, do, of)
        /\ JobsOrdered(Tail(js))
    BY <1>1, <1>2, LeftTail
  <2>5. JobsKept(js, Tail(js))
    BY <1>2, <2>4 DEF JobsKept
  <2> QED BY <1>0, <2>2, <2>3, <2>4, <2>5
<1>3. CASE ~(js # <<>> /\ Head(js).do = "wake")
  <2>1. PICK k : k = [Idle EXCEPT !.stage = IF js = <<>> THEN @ ELSE "next", !.jobs = js]
    OBVIOUS
  <2>2. call' = [call EXCEPT ![c] = k]
    BY <1>0, <1>3, <2>1 DEF Return
  <2>3. k.stage \in {"idle", "next"} /\ k.jobs = js
    BY <2>1 DEF Idle
  <2> QED BY <1>0, <1>1, <2>2, <2>3 DEF JobsKept
<1> QED BY <1>2, <1>3

(* A step of a caller that changes no thread and no list. *)
CallerFrame == UNCHANGED <<threadVars, thread_queue, waiting_list, list_entry, current>>

(* It is enough to look at the OS threads, and at what is left to be told. *)
LEMMA CallerStep ==
  ASSUME KernelInv, CountInv', NEW c \in Callers, NEW k, call' = [call EXCEPT ![c] = k],
         CallerFrame, pipe' \in [OSThreads -> Nat], os_shutdown' \in [OSThreads -> BOOLEAN],
         call[c].stage # "queue", k.stage # "queue",
         \A t \in Threads : Called(t) => Called(t)' \/ status[t] # "sleeping",
         \A t \in Threads : Flagged(t) => Flagged(t)' \/ status[t] # "newborn",
         \A o \in OSThreads : \/ pc'[o] = pc[o]
                              \/ pc[o] = "asleep" /\ pc'[o] = "cond",
         \A o \in OSThreads : WakeSound(o)', JobsOrdered(k.jobs), Telling'
  PROVE  KernelInv'
<1>0. /\ UNCHANGED <<status, home, reply_queue, reply_list, blocked, module,
                     signal_raised, shutdown_request, shutting_down>>
      /\ UNCHANGED <<thread_queue, waiting_list, list_entry, current>>
      /\ CallsTyped
  BY DEF CallerFrame, threadVars, KernelInv, CountInv
<1>1. ThreadsTyped'
  BY <1>0 DEF KernelInv, ThreadsTyped
<1>2. ListsTyped'
  BY <1>0 DEF KernelInv, ListsTyped
<1>3. \A t : Activity(t)' <=> Activity(t)
  BY <1>0 DEF Activity
<1>4. \A t : \A d \in Callers : Brings(d, t)' <=> Brings(d, t)
  <2>1. /\ \A t : \A d \in Callers : d # c => (Brings(d, t)' <=> Brings(d, t))
        /\ \A t : Brings(c, t)' <=> k.stage = "queue" /\ k.thread = t
    BY <1>0, CallPreds
  <2>2. \A t : ~Brings(c, t)
    BY DEF Brings
  <2> QED BY <2>1, <2>2
<1>5. \A t : Brought(t)' <=> Brought(t)
  BY <1>4 DEF Brought
<1>6. ASSUME NEW o \in OSThreads PROVE Good(o)'
  <2>0. Once(o) /\ AtHome(o) /\ RunSound(o) /\ \A t \in Threads : home[t] = o => Found(o, t)
    BY GoodIs
  <2>1. Once(o)' /\ AtHome(o)'
    BY <1>0, <2>0 DEF Once, AtHome
  <2>2. RunSound(o)'
    <3>1. CASE pc'[o] = pc[o]
      BY <1>0, <2>0, <3>1 DEF RunSound
    <3>2. CASE pc[o] = "asleep" /\ pc'[o] = "cond"
      <4>1. "asleep" \notin RunPlaces /\ "cond" \notin RunPlaces
        BY Zenon DEF RunPlaces
      <4> QED BY <1>0, <2>0, <3>2, <4>1 DEF RunSound
    <3> QED BY <3>1, <3>2
  <2>3. ASSUME NEW t \in Threads, home[t] = o PROVE Found(o, t)'
    <3>1. Found(o, t) /\ (Called(t) => Called(t)' \/ status[t] # "sleeping")
      BY <2>0, <2>3
    <3>2. pc[o] = "recheck" => pc'[o] = "recheck"
      OBVIOUS
    <3> QED BY <1>0, <1>3, <1>5, <3>1, <3>2 DEF Found
  <2> QED BY <1>0, <2>1, <2>2, <2>3 DEF Good
<1>7. BroughtHome'
  <2> SUFFICES ASSUME NEW d \in Callers, call'[d].stage = "queue"
               PROVE  home'[call'[d].thread] \in {call'[d].os, Nobody}
    BY DEF BroughtHome
  <2>1. call'[c] = k /\ \A e \in Callers : e # c => call'[e] = call[e]
    BY <1>0 DEF CallsTyped
  <2>2. call'[d] = call[d]
    BY <2>1
  <2> QED BY <1>0, <2>2 DEF KernelInv, BroughtHome
<1>8. NewSound'
  <2> SUFFICES ASSUME NEW t \in Threads, home[t] = Nobody PROVE Homeless(t)'
    BY <1>0 DEF NewSound
  <2>1. Homeless(t)
    BY DEF KernelInv, NewSound
  <2> QED BY <1>0, <1>4, <1>5, <2>1 DEF Homeless
<1>9. StopSound'
  <2>1. ASSUME NEW t \in Threads PROVE Heard(t)'
    <3>1. Heard(t) /\ (Flagged(t) => Flagged(t)' \/ status[t] # "newborn")
      BY DEF KernelInv, StopSound
    <3> QED BY <1>0, <3>1 DEF Heard
  <2>2. ASSUME NEW d \in Callers PROVE JobsOrdered(call'[d].jobs)
    <3>1. call'[c] = k /\ \A e \in Callers : e # c => call'[e] = call[e]
      BY <1>0 DEF CallsTyped
    <3> QED BY <3>1 DEF KernelInv, StopSound
  <2>3. \A d \in Callers : JobsOrdered(call[d].jobs)'
    BY <2>2 DEF JobsOrdered
  <2> QED BY <2>1, <2>3 DEF StopSound
<1> QED BY <1>1, <1>2, <1>6, <1>7, <1>8, <1>9 DEF KernelInv

(* A caller goes on with the wake-up it is in. *)
LEMMA EnterIs ==
  ASSUME KernelInv, NEW c \in Callers, NEW s, Enter(c, s)
  PROVE  \E k : /\ call' = [call EXCEPT ![c] = k] /\ k.stage = s
                /\ k.thread = call[c].thread /\ k.os = call[c].os /\ k.jobs = call[c].jobs
                /\ JobsOrdered(k.jobs) /\ JobsKept(call[c].jobs, k.jobs)
<1>1. PICK k : k = [call[c] EXCEPT !.stage = s]
  OBVIOUS
<1>2. call[c] \in CallSet /\ call \in [Callers -> CallSet]
  BY DEF KernelInv, CountInv, CallsTyped
<1>3. call' = [call EXCEPT ![c] = k]
  BY <1>1, <1>2 DEF Enter
<1>4. /\ k.stage = s /\ k.thread = call[c].thread /\ k.os = call[c].os
      /\ k.jobs = call[c].jobs
  BY <1>1, <1>2 DEF CallSet
<1> QED BY <1>3, <1>4 DEF KernelInv, StopSound, JobsKept

(* What an OS thread relies on, when its threads and its lists stay. *)
LEMMA WakeSame ==
  ASSUME KernelInv, NEW o \in OSThreads,
         Requests(o)' = Requests(o), waiting_list'[o] = waiting_list[o],
         thread_queue'[o] = thread_queue[o] \/ OnTheWay(o)',
         os_status'[o] = os_status[o], pc'[o] = pc[o], os_shutdown'[o] = os_shutdown[o],
         pipe'[o] = pipe[o], OnTheWay(o) => OnTheWay(o)', Signals(o) => Signals(o)',
         Writes(o) => Writes(o)'
  PROVE  WakeSound(o)'
<1>2. WakeSound(o)
  BY GoodIs
<1>3. (os_status[o] = "sleeping" => /\ pc[o] \notin {"clear polling", "commit polling", "wait"}
                                    /\ Requests(o) = {})'
  BY <1>2, Zenon DEF WakeSound
<1>4. (pc[o] \in Committed /\ os_status[o] # "active" /\ thread_queue[o] # <<>> => OnTheWay(o))'
  BY <1>2, Zenon DEF WakeSound
<1>5. (pc[o] \in Idling /\ os_status[o] # "active" /\ os_shutdown[o] => OnTheWay(o))'
  BY <1>2, Zenon DEF WakeSound
<1>6. (pc[o] \in {"cond", "asleep", "wait"} => waiting_list[o] = <<>>)'
  BY <1>2, Zenon DEF WakeSound
<1>7. (os_status[o] = "sleeping" /\ pc[o] \notin {"clear sleeping", "commit sleeping"}
       /\ waiting_list[o] # <<>> => OnTheWay(o))'
  BY <1>2, Zenon DEF WakeSound
<1>8. (pc[o] = "asleep" => os_status[o] = "sleeping" \/ Signals(o))'
  BY <1>2, Zenon DEF WakeSound
<1>9. (pc[o] = "wait" => os_status[o] = "polling" \/ pipe[o] > 0 \/ Writes(o))'
  BY <1>2, Zenon DEF WakeSound
<1> QED BY <1>3, <1>4, <1>5, <1>6, <1>7, <1>8, <1>9, Zenon DEF WakeSound

(* What an OS thread relies on stays so when nobody turns back. *)
LEMMA WakeKept ==
  ASSUME KernelInv, NEW o \in OSThreads, CallerFrame,
         os_status'[o] = os_status[o], pc'[o] = pc[o], os_shutdown'[o] = os_shutdown[o],
         pipe'[o] = pipe[o], OnTheWay(o) => OnTheWay(o)', Signals(o) => Signals(o)',
         Writes(o) => Writes(o)'
  PROVE  WakeSound(o)'
<1>1. Requests(o)' = Requests(o) /\ UNCHANGED <<thread_queue, waiting_list>>
  BY DEF CallerFrame, threadVars, Requests
<1> QED BY <1>1, WakeSame

(* The steps of smt_os_thread_wake that leave the OS thread alone, and those of *)
(* a smt_thread_wake that lost.                                                 *)
LEMMA PlainCall ==
  ASSUME KernelInv, CountInv', NEW c \in Callers, NEW k, call' = [call EXCEPT ![c] = k],
         CallerFrame, UNCHANGED <<os_status, pc, pipe, os_shutdown, stopped, missed>>,
         call[c].stage # "queue", k.stage # "queue",
         call[c].stage \in {"inc", "swap"} => k.stage \in {"inc", "swap"} /\ k.os = call[c].os,
         call[c].stage # "signal",
         \A o \in OSThreads : Writes(o) => Writes(o)',
         call[c].stage = "cas" => status[call[c].thread] # "sleeping",
         call[c].stage = "cas" => k.stage = "cas2" /\ k.thread = call[c].thread
                                  /\ k.jobs = call[c].jobs,
         call[c].stage = "cas2" => status[call[c].thread] # "newborn",
         JobsOrdered(k.jobs), JobsKept(call[c].jobs, k.jobs)
  PROVE  KernelInv'
<1>0. CallsTyped /\ pipe' \in [OSThreads -> Nat] /\ os_shutdown' \in [OSThreads -> BOOLEAN]
  BY DEF KernelInv, CountInv, ListsTyped
<1>1. \A t \in Threads : Called(t) => Called(t)' \/ status[t] # "sleeping"
  BY <1>0, CallPreds
<1>2. \A t \in Threads : Flagged(t) => Flagged(t)' \/ status[t] # "newborn"
  <2> SUFFICES ASSUME NEW t \in Threads, Flags(c, t)
               PROVE  Flagged(t)' \/ status[t] # "newborn"
    BY <1>0, CallPreds
  <2>1. CASE call[c].stage = "cas"
    <3>1. k.stage \in {"cas", "cas2"} /\ k.thread = t /\ k.jobs # <<>>
      BY <2>1 DEF Flags
    <3> QED BY <1>0, <3>1, CallPreds
  <2>2. CASE call[c].stage = "cas2"
    BY <2>2 DEF Flags
  <2> QED BY <2>1, <2>2 DEF Flags
<1>3. ASSUME NEW o \in OSThreads PROVE WakeSound(o)'
  <2>1. OnTheWay(o) => OnTheWay(o)'
    BY <1>0, OSCallPreds, Zenon
  <2>2. Signals(o) => Signals(o)'
    BY <1>0, OSCallPreds, Zenon
  <2>3. Writes(o) => Writes(o)'
    OBVIOUS
  <2> QED BY <2>1, <2>2, <2>3, WakeKept
<1>4. Telling'
  <2>1. home' = home /\ \A t \in Threads : Warned(t) => Warned(t)'
    BY DEF CallerFrame, threadVars, Warned
  <2> QED BY <2>1, TellingKept
<1> QED BY <1>0, <1>1, <1>2, <1>3, <1>4, CallerStep

(* The steps of a wake-up that change nothing but the caller. *)
LEMMA PlainCalls ==
  ASSUME KernelInv, CountInv', NEW c \in Callers,
         \/ WakeThread(c) /\ status[call[c].thread] \notin Tried[call[c].stage]
         \/ WakeCount(c) \/ WakeUncount(c)
  PROVE  KernelInv'
<1>0. /\ CallsTyped
      /\ CallerFrame /\ UNCHANGED <<os_status, pc, pipe, os_shutdown, stopped, missed>>
  <2>1. CASE WakeThread(c) /\ status[call[c].thread] \notin Tried[call[c].stage]
    <3>1. UNCHANGED <<home, reply_queue, reply_list, blocked, module, signal_raised,
                      shutdown_request, shutting_down, osVars, stopped, missed>>
      BY <2>1 DEF WakeThread
    <3>2. UNCHANGED status
      BY <2>1 DEF WakeThread
    <3> QED BY <3>1, <3>2 DEF CallerFrame, threadVars, osVars, KernelInv, CountInv
  <2>2. CASE WakeCount(c)
    BY <2>2 DEF WakeCount, CallerFrame, threadVars, osVars, KernelInv, CountInv
  <2>3. CASE WakeUncount(c)
    <3>1. UNCHANGED <<threadVars, osVars, stopped, missed>>
      BY <2>3, Zenon DEF WakeUncount
    <3> QED BY <3>1 DEF CallerFrame, threadVars, osVars, KernelInv, CountInv
  <2> QED BY <2>1, <2>2, <2>3
<1>1. CASE WakeThread(c) /\ status[call[c].thread] \notin Tried[call[c].stage]
  <2>0. /\ call[c].stage \in {"cas", "cas2"} /\ Tried["cas"] = {"sleeping"}
        /\ Tried["cas2"] = {"pending", "newborn"}
    BY <1>1 DEF WakeThread, Tried
  <2>1. ASSUME NEW k, call' = [call EXCEPT ![c] = k], k.stage \in {"idle", "next", "cas", "cas2"}
        PROVE  \A o \in OSThreads : Writes(o) => Writes(o)'
    BY <1>0, <2>0, <2>1, OSCallPreds, Zenon
  <2>2. CASE call[c].stage = "cas"
    <3>1. Enter(c, "cas2") /\ status[call[c].thread] # "sleeping"
      BY <1>1, <2>0, <2>2 DEF WakeThread
    <3>2. PICK k : /\ call' = [call EXCEPT ![c] = k] /\ k.stage = "cas2"
                   /\ k.thread = call[c].thread /\ k.jobs = call[c].jobs
                   /\ JobsOrdered(k.jobs) /\ JobsKept(call[c].jobs, k.jobs)
      BY <3>1, EnterIs
    <3>3. \A o \in OSThreads : Writes(o) => Writes(o)'
      BY <2>1, <3>2
    <3> QED BY <1>0, <2>2, <3>1, <3>2, <3>3, PlainCall
  <2>3. CASE call[c].stage = "cas2"
    <3>1. Return(c) /\ status[call[c].thread] # "newborn"
      BY <1>1, <2>0, <2>3 DEF WakeThread
    <3>2. PICK k : /\ call' = [call EXCEPT ![c] = k] /\ k.stage \in {"idle", "next", "cas"}
                   /\ JobsOrdered(k.jobs) /\ JobsKept(call[c].jobs, k.jobs)
      BY <3>1, ReturnIs
    <3>3. \A o \in OSThreads : Writes(o) => Writes(o)'
      BY <2>1, <3>2
    <3> QED BY <1>0, <2>3, <3>1, <3>2, <3>3, PlainCall
  <2> QED BY <2>0, <2>2, <2>3
<1>2. CASE WakeCount(c)
  <2>1. call[c].stage = "inc" /\ Enter(c, "swap")
    BY <1>2 DEF WakeCount
  <2>2. PICK k : /\ call' = [call EXCEPT ![c] = k] /\ k.stage = "swap" /\ k.os = call[c].os
                 /\ JobsOrdered(k.jobs) /\ JobsKept(call[c].jobs, k.jobs)
    BY <2>1, EnterIs
  <2>3. \A o \in OSThreads : Writes(o) => Writes(o)'
    BY <1>0, <2>1, <2>2, OSCallPreds, Zenon
  <2> QED BY <1>0, <2>1, <2>2, <2>3, PlainCall
<1>3. CASE WakeUncount(c) /\ call[c].stage = "dec"
  <2>1. Return(c)
    BY <1>3 DEF WakeUncount
  <2>2. PICK k : /\ call' = [call EXCEPT ![c] = k] /\ k.stage \in {"idle", "next", "cas"}
                 /\ JobsOrdered(k.jobs) /\ JobsKept(call[c].jobs, k.jobs)
    BY <2>1, ReturnIs
  <2>3. \A o \in OSThreads : Writes(o) => Writes(o)'
    BY <1>0, <1>3, <2>2, OSCallPreds, Zenon
  <2> QED BY <1>0, <1>3, <2>2, <2>3, PlainCall
<1>4. CASE WakeUncount(c) /\ call[c].stage # "dec"
  <2>1. Enter(c, "pipe") /\ call[c].stage = "dec pipe"
    BY <1>4, Zenon DEF WakeUncount
  <2>0. Enter(c, "pipe")
    BY <2>1, Zenon
  <2>2. PICK k : /\ call' = [call EXCEPT ![c] = k] /\ k.stage = "pipe" /\ k.os = call[c].os
                 /\ JobsOrdered(k.jobs) /\ JobsKept(call[c].jobs, k.jobs)
    BY <2>0, EnterIs
  <2>3. ASSUME NEW o \in OSThreads, Writes(o) PROVE Writes(o)'
    <3>1. Writes(o)' \/ (call[c].os = o /\ call[c].stage \in {"dec pipe", "pipe"})
      BY <1>0, <2>2, <2>3, OSCallPreds, Zenon
    <3>2. call[c].os = o => Writes(o)'
      <4>1. call'[c] = k
        BY <1>0, <2>2 DEF CallsTyped
      <4> QED BY <2>2, <4>1, Zenon DEF Writes
    <3> QED BY <3>1, <3>2, Zenon
  <2>4. /\ call[c].stage \notin {"queue", "inc", "swap", "signal", "cas", "cas2"}
    BY <2>1, Zenon
  <2>5. k.stage # "queue"
    BY <2>2
  <2> QED BY <1>0, <2>2, <2>3, <2>4, <2>5, PlainCall
<1> QED BY <1>1, <1>2, <1>3, <1>4

(* What an active OS thread can rely on. *)
LEMMA ActiveSound ==
  ASSUME KernelInv, NEW o \in OSThreads, CallerFrame, os_status'[o] = "active",
         pc'[o] = pc[o], pc[o] = "asleep" => Signals(o)',
         pc[o] = "wait" => pipe'[o] > 0 \/ Writes(o)'
  PROVE  WakeSound(o)'
<1>1. UNCHANGED <<thread_queue, waiting_list>>
  BY DEF CallerFrame
<1>2. pc[o] \in {"cond", "asleep", "wait"} => waiting_list[o] = <<>>
  BY GoodIs, Zenon DEF WakeSound
<1>3. os_status'[o] # "sleeping"
  OBVIOUS
<1>4. (pc[o] \in {"cond", "asleep", "wait"} => waiting_list[o] = <<>>)'
  BY <1>1, <1>2
<1> QED BY <1>3, <1>4, Zenon DEF WakeSound

(* A caller who wakes an OS thread knows which. *)
LEMMA WokenOS ==
  ASSUME KernelInv, NEW c \in Callers, call[c].stage \in {"queue", "swap", "signal", "pipe"}
  PROVE  call[c].os \in OSThreads
<1>1. CallSound(call[c])
  BY DEF KernelInv, CountInv, CallsSound
<1> QED BY <1>1, Zenon DEF CallSound

(* The swap of the status: the waker goes on to the signal or to the pipe. *)
LEMMA SwapCall ==
  ASSUME KernelInv, CountInv', NEW c \in Callers, WakeSwap(c)
  PROVE  KernelInv'
<1>1. PICK o : o = call[c].os
  OBVIOUS
<1>2. o \in OSThreads /\ CallsTyped /\ os_status \in [OSThreads -> OSStatuses]
  <2>1. call[c].stage = "swap"
    BY Zenon DEF WakeSwap
  <2> QED BY <1>1, <2>1, WokenOS DEF KernelInv, CountInv, OSTyped
<1>3. PICK s : s = CASE os_status[o] = "sleeping" -> "signal"
                     [] os_status[o] = "polling" -> "dec pipe"
                     [] OTHER -> "dec"
  BY Zenon
<1>4. /\ s \notin {"queue", "cas", "cas2"}
      /\ os_status[o] = "sleeping" => s = "signal"
      /\ os_status[o] = "polling" => s \in {"dec pipe", "pipe"}
  BY <1>3, Zenon
<1>5. /\ os_status' = [os_status EXCEPT ![o] = "active"] /\ Enter(c, s)
      /\ call[c].stage = "swap"
  BY <1>1, <1>3, Zenon DEF WakeSwap
<1>6. CallerFrame /\ UNCHANGED <<pipe, os_shutdown, pc, stopped, missed>>
  BY Zenon DEF WakeSwap, CallerFrame
<1>7. PICK k : /\ call' = [call EXCEPT ![c] = k] /\ k.stage = s
               /\ k.os = o /\ JobsOrdered(k.jobs) /\ JobsKept(call[c].jobs, k.jobs)
  BY <1>1, <1>5, EnterIs
<1>8. /\ k.stage = "signal" => Signals(o)'
      /\ k.stage \in {"dec pipe", "pipe"} => Writes(o)'
  <2>1. call'[c] = k
    BY <1>2, <1>7 DEF CallsTyped
  <2> QED BY <1>7, <2>1, Zenon DEF Signals, Writes
<1>9. ASSUME NEW p \in OSThreads PROVE WakeSound(p)'
  <2>1. Signals(p) => Signals(p)'
    BY <1>2, <1>5, <1>7, OSCallPreds, Zenon
  <2>2. Writes(p) => Writes(p)'
    BY <1>2, <1>5, <1>7, OSCallPreds, Zenon
  <2>3. CASE p # o
    <3>1. OnTheWay(p) => OnTheWay(p)'
      BY <1>1, <1>2, <1>7, <2>3, OSCallPreds, Zenon
    <3>2. os_status'[p] = os_status[p]
      BY <1>2, <1>5, <2>3
    <3> QED BY <1>6, <2>1, <2>2, <3>1, <3>2, WakeKept
  <2>4. CASE p = o
    <3>1. os_status'[p] = "active" /\ pc'[p] = pc[p] /\ pipe'[p] = pipe[p]
      BY <1>2, <1>5, <1>6, <2>4
    <3>2. pc[p] = "asleep" => os_status[p] = "sleeping" \/ Signals(p)
      BY GoodIs, Zenon DEF WakeSound
    <3>3. pc[p] = "wait" => os_status[p] = "polling" \/ pipe[p] > 0 \/ Writes(p)
      BY GoodIs, Zenon DEF WakeSound
    <3>4. pc[p] = "asleep" => Signals(p)'
      BY <1>4, <1>7, <1>8, <2>1, <2>4, <3>2, Zenon
    <3>5. pc[p] = "wait" => pipe'[p] > 0 \/ Writes(p)'
      BY <1>4, <1>7, <1>8, <2>2, <2>4, <3>1, <3>3, Zenon
    <3> QED BY <1>6, <3>1, <3>4, <3>5, ActiveSound
  <2> QED BY <2>3, <2>4
<1>10. Telling'
  <2>1. home' = home /\ \A t \in Threads : Warned(t) => Warned(t)'
    BY <1>6 DEF CallerFrame, threadVars, Warned
  <2> QED BY <1>6, <1>7, <2>1, TellingKept
<1>11. pipe' \in [OSThreads -> Nat] /\ os_shutdown' \in [OSThreads -> BOOLEAN]
  BY <1>6 DEF KernelInv, ListsTyped
<1>12. \A t \in Threads : Called(t) => Called(t)'
  BY <1>2, <1>5, <1>7, CallPreds
<1>13. \A t \in Threads : Flagged(t) => Flagged(t)'
  BY <1>2, <1>5, <1>7, CallPreds DEF Flags
<1>14. call[c].stage # "queue" /\ k.stage # "queue"
  BY <1>4, <1>5, <1>7, Zenon
<1> QED BY <1>6, <1>7, <1>9, <1>10, <1>11, <1>12, <1>13, <1>14, CallerStep

(* The signal on the condition variable, and the byte written to the pipe. *)
LEMMA SignalCalls ==
  ASSUME KernelInv, CountInv', NEW c \in Callers, WakeSignal(c) \/ WakePipe(c)
  PROVE  KernelInv'
<1>1. PICK o : o = call[c].os
  OBVIOUS
<1>2. /\ o \in OSThreads /\ CallsTyped /\ pc \in [OSThreads -> Places]
      /\ pipe \in [OSThreads -> Nat]
  <2>1. call[c].stage \in {"signal", "pipe"}
    BY DEF WakeSignal, WakePipe
  <2> QED BY <1>1, <2>1, WokenOS DEF KernelInv, CountInv, OSTyped, ListsTyped
<1>3. /\ call[c].stage \in {"signal", "pipe"}
      /\ CallerFrame /\ UNCHANGED <<os_status, os_shutdown, stopped, missed>> /\ Return(c)
  BY DEF WakeSignal, WakePipe, CallerFrame
<1>4. PICK k : /\ call' = [call EXCEPT ![c] = k] /\ k.stage \in {"idle", "next", "cas"}
               /\ JobsOrdered(k.jobs) /\ JobsKept(call[c].jobs, k.jobs)
  BY <1>3, ReturnIs
<1>5. \A t \in Threads : Called(t) => Called(t)'
  BY <1>2, <1>3, <1>4, CallPreds
<1>6. \A t \in Threads : Flagged(t) => Flagged(t)'
  BY <1>2, <1>3, <1>4, CallPreds DEF Flags
<1>7. Telling'
  <2>1. home' = home /\ \A t \in Threads : Warned(t) => Warned(t)'
    BY <1>3 DEF CallerFrame, threadVars, Warned
  <2> QED BY <1>3, <1>4, <2>1, TellingKept
<1>8. ASSUME NEW p \in OSThreads PROVE OnTheWay(p) => OnTheWay(p)'
  BY <1>2, <1>3, <1>4, OSCallPreds, Zenon
<1>9. os_shutdown' \in [OSThreads -> BOOLEAN]
  BY <1>3 DEF KernelInv, ListsTyped
<1>10. call[c].stage # "queue" /\ k.stage # "queue"
  BY <1>3, <1>4
<1>11. CASE WakeSignal(c)
  <2>1. /\ pc' = [pc EXCEPT ![o] = IF pc[o] = "asleep" THEN "cond" ELSE pc[o]]
        /\ pipe' = pipe /\ call[c].stage = "signal"
    BY <1>1, <1>11 DEF WakeSignal
  <2>2. pc'[o] = IF pc[o] = "asleep" THEN "cond" ELSE pc[o]
    BY <1>2, <2>1
  <2>3. \A p \in OSThreads : p # o => pc'[p] = pc[p]
    BY <1>2, <2>1
  <2>4. ASSUME NEW p \in OSThreads PROVE WakeSound(p)'
    <3>1. Writes(p) => Writes(p)'
      BY <1>2, <1>4, <2>1, OSCallPreds, Zenon
    <3>2. CASE p # o
      <4>1. Signals(p) => Signals(p)'
        BY <1>1, <1>2, <1>4, <3>2, OSCallPreds, Zenon
      <4> QED BY <1>3, <1>8, <2>1, <2>3, <3>1, <3>2, <4>1, WakeKept
    <3>3. CASE p = o
      <4>1. Requests(p)' = Requests(p) /\ UNCHANGED <<thread_queue, waiting_list>>
        BY <1>3 DEF CallerFrame, threadVars, Requests
      <4>2. WakeSound(p)
        BY GoodIs
      <4>3. CASE pc[p] = "asleep"
        <5>1. pc'[p] = "cond"
          BY <2>2, <3>3, <4>3
        <5>2. /\ os_status[p] = "sleeping" => Requests(p) = {}
              /\ os_status[p] # "active" /\ thread_queue[p] # <<>> => OnTheWay(p)
              /\ os_status[p] # "active" /\ os_shutdown[p] => OnTheWay(p)
              /\ waiting_list[p] = <<>>
          BY <4>2, <4>3, Zenon DEF WakeSound, Committed, Idling
        <5>3. /\ os_status'[p] = os_status[p] /\ os_shutdown'[p] = os_shutdown[p]
              /\ waiting_list'[p] = waiting_list[p] /\ thread_queue'[p] = thread_queue[p]
          BY <1>3, <4>1
        <5> QED BY <1>8, <4>1, <5>1, <5>2, <5>3, Zenon DEF WakeSound
      <4>4. CASE pc[p] # "asleep"
        <5>1. pc'[p] = pc[p] /\ os_status'[p] = os_status[p] /\ os_shutdown'[p] = os_shutdown[p]
              /\ waiting_list'[p] = waiting_list[p] /\ thread_queue'[p] = thread_queue[p]
              /\ pipe'[p] = pipe[p]
          BY <1>3, <2>1, <2>2, <3>3, <4>1, <4>4
        <5> QED BY <1>8, <3>1, <4>1, <4>2, <4>4, <5>1, Zenon DEF WakeSound
      <4> QED BY <4>3, <4>4
    <3> QED BY <3>2, <3>3
  <2>5. ASSUME NEW p \in OSThreads
        PROVE  pc'[p] = pc[p] \/ (pc[p] = "asleep" /\ pc'[p] = "cond")
    <3>1. CASE p = o
      BY <2>2, <3>1
    <3>2. CASE p # o
      BY <2>3, <3>2
    <3> QED BY <3>1, <3>2
  <2> QED BY <1>2, <1>3, <1>4, <1>5, <1>6, <1>7, <1>9, <1>10, <2>1, <2>4, <2>5, CallerStep
<1>12. CASE WakePipe(c)
  <2>1. /\ pipe' = [pipe EXCEPT ![o] = pipe[o] + 1] /\ pc' = pc
        /\ call[c].stage = "pipe"
    BY <1>1, <1>12 DEF WakePipe
  <2>2. /\ pipe' \in [OSThreads -> Nat] /\ pipe'[o] > 0
        /\ \A p \in OSThreads : p # o => pipe'[p] = pipe[p]
    <3>1. pipe[o] + 1 \in Nat /\ pipe[o] + 1 > 0
      BY <1>2
    <3> QED BY <1>2, <2>1, <3>1
  <2>3. ASSUME NEW p \in OSThreads PROVE WakeSound(p)'
    <3>1. Signals(p) => Signals(p)'
      BY <1>2, <1>4, <2>1, OSCallPreds, Zenon
    <3>2. CASE p # o
      <4>1. Writes(p) => Writes(p)'
        BY <1>1, <1>2, <1>4, <3>2, OSCallPreds, Zenon
      <4> QED BY <1>3, <1>8, <2>1, <2>2, <3>1, <3>2, <4>1, WakeKept
    <3>3. CASE p = o
      <4>1. Requests(p)' = Requests(p) /\ UNCHANGED <<thread_queue, waiting_list>>
        BY <1>3 DEF CallerFrame, threadVars, Requests
      <4>2. WakeSound(p)
        BY GoodIs
      <4>3. /\ pc'[p] = pc[p] /\ os_status'[p] = os_status[p] /\ os_shutdown'[p] = os_shutdown[p]
            /\ waiting_list'[p] = waiting_list[p] /\ thread_queue'[p] = thread_queue[p]
            /\ pipe'[p] > 0
        BY <1>3, <2>1, <2>2, <3>3, <4>1
      <4> QED BY <1>8, <3>1, <4>1, <4>2, <4>3, Zenon DEF WakeSound
    <3> QED BY <3>2, <3>3
  <2> QED BY <1>2, <1>3, <1>4, <1>5, <1>6, <1>7, <1>9, <1>10, <2>1, <2>2, <2>3, CallerStep
<1> QED BY <1>11, <1>12

(* The places of the jobs behind a new one. *)
LEMMA JobsCons ==
  ASSUME NEW js \in Seq(JobSet), NEW j \in JobSet, NEW ks, ks = Cons(j, js)
  PROVE  /\ Len(ks) = Len(js) + 1 /\ ks[1] = j /\ Len(js) \in Nat
         /\ \A i \in 1..Len(js) : ks[i + 1] = js[i]
         /\ \A i \in 2..(Len(js) + 1) : ks[i] = js[i - 1] /\ i - 1 \in 1..Len(js)
<1>1. /\ Cons(j, js) \in Seq(JobSet) /\ Cons(j, js) # <<>>
      /\ Len(Cons(j, js)) = Len(js) + 1 /\ Cons(j, js)[1] = j
      /\ \A i \in 1..Len(js) : Cons(j, js)[i + 1] = js[i]
      /\ \A i \in 2..(Len(js) + 1) : Cons(j, js)[i] = js[i - 1] /\ i - 1 \in 1..Len(js)
      /\ Head(Cons(j, js)) = j
  BY ConsIs
<1> QED BY <1>1

(* A job put in front of the others is left as well. *)
LEMMA LeftCons ==
  ASSUME NEW js \in Seq(JobSet), NEW j \in JobSet
  PROVE  \A do, of : Left(Cons(j, js), do, of) <=> \/ j.do = do /\ j.of = of
                                                  \/ Left(js, do, of)
<1>0. PICK ks : ks = Cons(j, js)
  OBVIOUS
<1>1. /\ Len(ks) = Len(js) + 1 /\ ks[1] = j /\ Len(js) \in Nat
      /\ \A i \in 1..Len(js) : ks[i + 1] = js[i]
      /\ \A i \in 2..(Len(js) + 1) : ks[i] = js[i - 1] /\ i - 1 \in 1..Len(js)
  BY <1>0, JobsCons
<1>2. ASSUME NEW do, NEW of, Left(ks, do, of)
      PROVE  (j.do = do /\ j.of = of) \/ Left(js, do, of)
  <2>1. PICK i \in 1..Len(ks) : ks[i].do = do /\ ks[i].of = of
    BY <1>2 DEF Left
  <2>2. CASE i = 1
    BY <1>1, <2>1, <2>2
  <2>3. CASE i # 1
    <3>1. i \in 2..(Len(js) + 1)
      BY <1>1, <2>3
    <3> QED BY <1>1, <2>1, <3>1 DEF Left
  <2> QED BY <2>2, <2>3
<1>3. ASSUME NEW do, NEW of, Left(js, do, of) PROVE Left(ks, do, of)
  <2>1. PICK i \in 1..Len(js) : js[i].do = do /\ js[i].of = of
    BY <1>3 DEF Left
  <2>2. i + 1 \in 1..Len(ks) /\ ks[i + 1] = js[i]
    BY <1>1
  <2> QED BY <2>1, <2>2 DEF Left
<1>4. ASSUME NEW do, NEW of, j.do = do, j.of = of PROVE Left(ks, do, of)
  <2>1. 1 \in 1..Len(ks)
    BY <1>1
  <2> QED BY <1>1, <1>4, <2>1 DEF Left
<1> QED BY <1>0, <1>2, <1>3, <1>4

(* It keeps the order, when there is still every OS thread to tell. *)
LEMMA OrderedCons ==
  ASSUME NEW js \in Seq(JobSet), JobsOrdered(js), NEW j \in JobSet, j.do # "leave",
         j.do \in {"walk", "flag"} => \A o \in OSThreads : Left(js, "os", o)
  PROVE  JobsOrdered(Cons(j, js))
<1>0. PICK ks : ks = Cons(j, js)
  OBVIOUS
<1>1. /\ Len(ks) = Len(js) + 1 /\ ks[1] = j /\ Len(js) \in Nat
      /\ \A i \in 1..Len(js) : ks[i + 1] = js[i]
      /\ \A i \in 2..(Len(js) + 1) : ks[i] = js[i - 1] /\ i - 1 \in 1..Len(js)
  BY <1>0, JobsCons
<1>2. ASSUME NEW i \in 1..Len(ks), ks[i].do \in {"walk", "flag"}, NEW o \in OSThreads
      PROVE  \E m \in i..Len(ks) : ks[m].do = "os" /\ ks[m].of = o
  <2>1. CASE i = 1
    <3>1. PICK n \in 1..Len(js) : js[n].do = "os" /\ js[n].of = o
      BY <1>1, <1>2, <2>1 DEF Left
    <3>2. n + 1 \in i..Len(ks) /\ ks[n + 1] = js[n]
      BY <1>1, <2>1
    <3> QED BY <3>1, <3>2
  <2>2. CASE i # 1
    <3>1. i \in 2..(Len(js) + 1)
      BY <1>1, <2>2
    <3>2. ks[i] = js[i - 1] /\ i - 1 \in 1..Len(js)
      BY <1>1, <3>1
    <3>3. PICK n \in (i - 1)..Len(js) : js[n].do = "os" /\ js[n].of = o
      BY <1>2, <3>2 DEF JobsOrdered
    <3>4. n \in 1..Len(js) /\ n + 1 \in i..Len(ks)
      BY <1>1, <3>1, <3>2
    <3>5. ks[n + 1] = js[n]
      BY <1>1, <3>4
    <3> QED BY <3>3, <3>4, <3>5
  <2> QED BY <2>1, <2>2
<1>3. ASSUME NEW i \in 1..Len(ks), ks[i].do = "leave" PROVE i = Len(ks)
  <2>1. i # 1
    BY <1>1, <1>3
  <2>2. i \in 2..(Len(js) + 1)
    BY <1>1, <2>1
  <2>3. ks[i] = js[i - 1] /\ i - 1 \in 1..Len(js)
    BY <1>1, <2>2
  <2>4. i - 1 = Len(js)
    BY <1>3, <2>3 DEF JobsOrdered
  <2> QED BY <1>1, <2>2, <2>4
<1>4. JobsOrdered(ks)
  BY <1>2, <1>3 DEF JobsOrdered
<1> QED BY <1>0, <1>4

(* A visit adds the flag of the thread it is for. *)
LEMMA VisitLeft ==
  ASSUME NEW js \in Seq(JobSet), JobsOrdered(js), NEW t \in Threads \cup {Nobody},
         \A o \in OSThreads : Left(js, "os", o)
  PROVE  /\ JobsOrdered(Visit(t, js))
         /\ \A of : Left(Visit(t, js), "walk", of) <=> Left(js, "walk", of)
         /\ \A of : Left(Visit(t, js), "os", of) <=> Left(js, "os", of)
         /\ \A of : Left(js, "flag", of) => Left(Visit(t, js), "flag", of)
         /\ t # Nobody => Left(Visit(t, js), "flag", t)
<1>1. CASE t = Nobody
  <2>1. Visit(t, js) = js
    BY <1>1 DEF Visit
  <2> QED BY <1>1, <2>1
<1>2. CASE t # Nobody
  <2>1. PICK f, w : f = [do |-> "flag", of |-> t] /\ w = [do |-> "wake", of |-> t]
    OBVIOUS
  <2>2. /\ f \in JobSet /\ f.do = "flag" /\ f.of = t
        /\ w \in JobSet /\ w.do = "wake"
    BY <1>2, <2>1 DEF JobSet
  <2>3. PICK ks : ks = Cons(w, js)
    OBVIOUS
  <2>4. /\ ks \in Seq(JobSet) /\ JobsOrdered(ks)
        /\ \A do, of : Left(ks, do, of) <=> (w.do = do /\ w.of = of) \/ Left(js, do, of)
    BY <2>2, <2>3, ConsIs, LeftCons, OrderedCons
  <2>5. PICK ls : ls = Cons(f, ks)
    OBVIOUS
  <2>6. \A o \in OSThreads : Left(ks, "os", o)
    BY <2>4
  <2>7. /\ JobsOrdered(ls)
        /\ \A do, of : Left(ls, do, of) <=> (f.do = do /\ f.of = of) \/ Left(ks, do, of)
    BY <2>2, <2>4, <2>5, <2>6, LeftCons, OrderedCons
  <2>8. Visit(t, js) = ls
    BY <1>2, <2>1, <2>3, <2>5 DEF Visit
  <2> QED BY <2>2, <2>4, <2>7, <2>8
<1> QED BY <1>1, <1>2

(* The jobs of a shutdown name every OS thread there is. *)
LEMMA JobsListed ==
  ASSUME NEW os \in Seq(OSThreads), ToSet(os) = OSThreads
  PROVE  /\ Left(Jobs(os), "walk", Nobody)
         /\ \A of : Left(Jobs(os), "walk", of) => of = Nobody
         /\ \A o \in OSThreads : Left(Jobs(os), "os", o)
         /\ JobsOrdered(Jobs(os))
<1>0. PICK js, first : js = OSJobs(os) /\ first = [do |-> "walk", of |-> Nobody]
  OBVIOUS
<1>1. /\ js \in Seq(JobSet) /\ Len(js) = Len(os) + 1 /\ Len(os) \in Nat
      /\ \A i \in 1..Len(os) : js[i] = [do |-> "os", of |-> os[i]]
      /\ js[Len(os) + 1] = [do |-> "leave", of |-> Nobody]
  BY <1>0, OSJobsAre
<1>2. /\ \A i \in 1..Len(os) : js[i].do = "os" /\ js[i].of = os[i]
      /\ js[Len(os) + 1].do = "leave"
  <2>1. ASSUME NEW i \in 1..Len(os) PROVE js[i].do = "os" /\ js[i].of = os[i]
    <3>1. js[i] = [do |-> "os", of |-> os[i]]
      BY <1>1
    <3> QED BY <3>1
  <2>2. js[Len(os) + 1].do = "leave"
    <3>1. js[Len(os) + 1] = [do |-> "leave", of |-> Nobody]
      BY <1>1
    <3> QED BY <3>1
  <2> QED BY <2>1, <2>2
<1>3. \A o \in OSThreads : Left(js, "os", o)
  <2> TAKE o \in OSThreads
  <2>1. PICK i \in 1..Len(os) : os[i] = o
    BY ToSetIs
  <2>2. i \in 1..Len(js)
    BY <1>1
  <2> QED BY <1>2, <2>1, <2>2 DEF Left
<1>4. \A i \in 1..Len(js) : /\ js[i].do # "walk" /\ js[i].do # "flag"
                            /\ js[i].do = "leave" => i = Len(js)
  <2> TAKE i \in 1..Len(js)
  <2>1. i \in 1..Len(os) \/ i = Len(os) + 1
    BY <1>1
  <2>2. CASE i \in 1..Len(os)
    BY <1>2, <2>2
  <2>3. CASE i = Len(os) + 1
    BY <1>1, <1>2, <2>3
  <2> QED BY <2>1, <2>2, <2>3
<1>5. JobsOrdered(js) /\ \A of : ~Left(js, "walk", of)
  <2>1. JobsOrdered(js)
    BY <1>4 DEF JobsOrdered
  <2>2. ASSUME NEW of PROVE ~Left(js, "walk", of)
    BY <1>4 DEF Left
  <2> QED BY <2>1, <2>2
<1>6. first \in JobSet /\ first.do = "walk" /\ first.of = Nobody
  BY <1>0 DEF JobSet
<1>7. Jobs(os) = Cons(first, js)
  BY <1>0, JobsShape
<1>8. JobsOrdered(Cons(first, js))
  BY <1>1, <1>3, <1>5, <1>6, OrderedCons
<1>9. \A do, of : Left(Cons(first, js), do, of) <=> (first.do = do /\ first.of = of) \/ Left(js, do, of)
  BY <1>1, <1>6, LeftCons
<1> QED BY <1>3, <1>5, <1>6, <1>7, <1>8, <1>9

(* When smt_shut_down begins everything is still to be told. *)
LEMMA BeginTells ==
  ASSUME KernelInv, NEW c \in Callers, NEW k, call' = [call EXCEPT ![c] = k],
         call[c].jobs = <<>>, NEW os \in Seq(OSThreads), ToSet(os) = OSThreads,
         k.jobs = Jobs(os), UNCHANGED <<status, home, shutdown_request, shutting_down>>
  PROVE  Telling'
<1>1. /\ \A do, of : Due(do, of) => Due(do, of)' \/ Left(call[c].jobs, do, of)
      /\ \A do, of : Left(k.jobs, do, of) => Due(do, of)'
      /\ \A do, of : Due(do, of)' => Due(do, of) \/ Left(k.jobs, do, of)
  BY DuePreds DEF KernelInv, CountInv
<1>2. /\ Left(k.jobs, "walk", Nobody)
      /\ \A of : Left(k.jobs, "walk", of) => of = Nobody
      /\ \A o \in OSThreads : Left(k.jobs, "os", o)
  BY JobsListed
<1>3. \A do, of : ~Left(call[c].jobs, do, of)
  BY DEF Left
<1>4. /\ \A t \in Threads : home[t] \in OSThreads \cup {Nobody}
      /\ \A t : Warned(t)' <=> Warned(t)
  BY DEF KernelInv, CountInv, OSTyped, Warned
<1>5. ASSUME NEW t \in Threads PROVE Hears(t)'
  <2>1. Walking' /\ \A o \in OSThreads : Due("os", o)'
    BY <1>1, <1>2 DEF Walking
  <2> QED BY <1>4, <2>1 DEF Hears
<1>6. Passed'
  <2> SUFFICES ASSUME NEW u \in Threads, Due("walk", u)', NEW t \in NewThreads,
                      Birth[t] < Birth[u]
               PROVE  Warned(t)' \/ Due("flag", t)'
    BY DEF Passed, NewThreads
  <2>1. Due("walk", u)
    BY <1>1, <1>2, ThreadsAssumption
  <2>2. Warned(t) \/ Due("flag", t)
    BY <2>1 DEF KernelInv, StopSound, Telling, Passed
  <2> QED BY <1>1, <1>3, <1>4, <2>2
<1> QED BY <1>5, <1>6 DEF Telling

(* The walk goes on, ends, or strays: no thread is forgotten but those missed. *)
LEMMA WalkTells ==
  ASSUME KernelInv, NEW c \in Callers, ShutDownWalk(c), call[c].jobs # <<>>,
         JobsSound(call[c].jobs),
         UNCHANGED <<status, home, shutdown_request, shutting_down, stopped>>
  PROVE  /\ Telling'
         /\ \E ks : JobsOrdered(ks) /\ call' = [call EXCEPT ![c].jobs = ks]
<1>0. PICK js, t, rest : js = call[c].jobs /\ t = Head(js).of /\ rest = Tail(js)
  OBVIOUS
<1>1. /\ js \in Seq(JobSet) /\ JobsOrdered(js) /\ js # <<>> /\ JobsSound(js)
      /\ call[c] \in CallSet /\ CallsTyped
  BY <1>0 DEF KernelInv, CountInv, CallsTyped, CallSet, StopSound
<1>2. /\ Head(js).do = "walk" /\ t \in Threads \cup {Nobody}
      /\ rest \in Seq(JobSet) /\ rest # <<>> /\ JobsSound(rest)
      /\ \E ks \in Seq(JobSet) :
            /\ ks # <<>> /\ JobsSound(ks) /\ call' = [call EXCEPT ![c].jobs = ks]
            /\ \/ /\ ks = Visit(t, rest)
                  /\ t # Nobody /\ t \notin NewThreads
                  /\ missed' = {s \in NewThreads : ~shutdown_request[s]}
               \/ /\ ks = Visit(t, rest)
                  /\ t = Nobody \/ t \in NewThreads
                  /\ Behind(t) = {} /\ missed' = missed
               \/ /\ t = Nobody \/ t \in NewThreads
                  /\ missed' = missed
                  /\ \E s \in Foremost(Behind(t)) :
                        ks = Visit(t, Cons([do |-> "walk", of |-> s], rest))
  <2>1. /\ Head(js).do = "walk" /\ Head(js).of \in Threads \cup {Nobody}
        /\ Tail(js) \in Seq(JobSet) /\ Tail(js) # <<>> /\ JobsSound(Tail(js))
        /\ \E ks \in Seq(JobSet) :
              /\ ks # <<>> /\ JobsSound(ks) /\ call' = [call EXCEPT ![c].jobs = ks]
              /\ \/ /\ ks = Visit(Head(js).of, Tail(js))
                    /\ Head(js).of # Nobody /\ Head(js).of \notin NewThreads
                    /\ missed' = {s \in NewThreads : ~shutdown_request[s]}
                 \/ /\ ks = Visit(Head(js).of, Tail(js))
                    /\ Head(js).of = Nobody \/ Head(js).of \in NewThreads
                    /\ Behind(Head(js).of) = {} /\ missed' = missed
                 \/ /\ Head(js).of = Nobody \/ Head(js).of \in NewThreads
                    /\ missed' = missed
                    /\ \E s \in Foremost(Behind(Head(js).of)) :
                          ks = Visit(Head(js).of, Cons([do |-> "walk", of |-> s], Tail(js)))
    BY <1>0, <1>1, WalkIs
  <2> QED BY <1>0, <2>1, Zenon
<1>3. PICK ks \in Seq(JobSet) :
            /\ ks # <<>> /\ JobsSound(ks) /\ call' = [call EXCEPT ![c].jobs = ks]
            /\ \/ /\ ks = Visit(t, rest)
                  /\ t # Nobody /\ t \notin NewThreads
                  /\ missed' = {s \in NewThreads : ~shutdown_request[s]}
               \/ /\ ks = Visit(t, rest)
                  /\ t = Nobody \/ t \in NewThreads
                  /\ Behind(t) = {} /\ missed' = missed
               \/ /\ t = Nobody \/ t \in NewThreads
                  /\ missed' = missed
                  /\ \E s \in Foremost(Behind(t)) :
                        ks = Visit(t, Cons([do |-> "walk", of |-> s], rest))
  BY <1>2
<1>4. /\ \A do, of : Left(js, do, of) => \/ Left(rest, do, of)
                                         \/ Head(js).do = do /\ Head(js).of = of
      /\ \A do, of : Left(rest, do, of) => Left(js, do, of)
      /\ Left(js, "walk", t) /\ JobsOrdered(rest)
      /\ \A o \in OSThreads : Left(js, "os", o)
  BY <1>0, <1>1, <1>2, LeftTail
<1>5. /\ \A o \in OSThreads : Left(rest, "os", o)
      /\ \A of : Left(js, "flag", of) => Left(rest, "flag", of)
  BY <1>2, <1>4
<1>6. PICK k : k = [call[c] EXCEPT !.jobs = ks]
  OBVIOUS
<1>7. call' = [call EXCEPT ![c] = k] /\ k.jobs = ks
  BY <1>1, <1>3, <1>6 DEF CallSet
<1>8. /\ \A do, of : Due(do, of) => Due(do, of)' \/ Left(js, do, of)
      /\ \A do, of : Left(ks, do, of) => Due(do, of)'
      /\ \A do, of : Due(do, of)' => Due(do, of) \/ Left(ks, do, of)
      /\ \A do, of : Left(js, do, of) => Due(do, of)
  BY <1>0, <1>1, <1>7, DuePreds
<1>9. /\ \A x \in Threads : home[x] \in OSThreads \cup {Nobody}
      /\ \A x : Warned(x)' <=> Warned(x)
      /\ Passed /\ NewThreads' = NewThreads
  BY DEF KernelInv, CountInv, OSTyped, Warned, StopSound, Telling, NewThreads
<1>10. ASSUME \A of : Left(rest, "flag", of) => Left(ks, "flag", of),
              \A o \in OSThreads : Left(ks, "os", o),
              t # Nobody => Left(ks, "flag", t)
       PROVE  /\ \A of : Due("flag", of) => Due("flag", of)'
              /\ \A o \in OSThreads : Due("os", o)'
              /\ \A x \in NewThreads :
                    x \notin Behind(t) /\ (t = Nobody \/ t \in NewThreads)
                       => Warned(x) \/ Due("flag", x)'
              /\ \A u \in Threads : Due("walk", u) =>
                    \A x \in NewThreads : Birth[x] < Birth[u] => Warned(x) \/ Due("flag", x)'
  <2>1. \A of : Due("flag", of) => Due("flag", of)'
    BY <1>5, <1>8, <1>10
  <2>2. \A o \in OSThreads : Due("os", o)'
    BY <1>8, <1>10
  <2>3. \A u \in Threads : Due("walk", u) =>
           \A x \in NewThreads : Birth[x] < Birth[u] => Warned(x) \/ Due("flag", x)'
    BY <1>9, <2>1 DEF Passed
  <2>4. ASSUME NEW x \in NewThreads, x \notin Behind(t), t = Nobody \/ t \in NewThreads
        PROVE  Warned(x) \/ Due("flag", x)'
    <3>1. t \in Threads /\ x \in Threads /\ ~(Birth[t] < Birth[x]) /\ t # Nobody
      BY <1>2, <2>4 DEF Behind, NewThreads
    <3>2. CASE x = t
      BY <1>8, <1>10, <3>1, <3>2
    <3>3. CASE x # t
      <4>1. Birth[x] \in Nat /\ Birth[t] \in Nat /\ Birth[x] # Birth[t]
        BY <3>1, <3>3, ThreadsAssumption DEF IsInjective
      <4>2. Birth[x] < Birth[t]
        BY <3>1, <4>1
      <4> QED BY <1>4, <1>8, <2>3, <3>1, <4>2
    <3> QED BY <3>2, <3>3
  <2> QED BY <2>1, <2>2, <2>3, <2>4
<1>11. ASSUME ks = Visit(t, rest),
              \A x \in NewThreads : Warned(x) \/ Due("flag", x)' \/ x \in missed'
       PROVE  Telling' /\ JobsOrdered(ks)
  <2>1. /\ JobsOrdered(ks)
        /\ \A of : Left(ks, "walk", of) <=> Left(rest, "walk", of)
        /\ \A o \in OSThreads : Left(ks, "os", o)
        /\ \A of : Left(rest, "flag", of) => Left(ks, "flag", of)
        /\ t # Nobody => Left(ks, "flag", t)
    BY <1>2, <1>4, <1>5, <1>11, VisitLeft
  <2>2. /\ \A o \in OSThreads : Due("os", o)'
        /\ \A u \in Threads : Due("walk", u) =>
              \A x \in NewThreads : Birth[x] < Birth[u] => Warned(x) \/ Due("flag", x)'
    BY <1>10, <2>1
  <2>3. \A u \in Threads : Due("walk", u)' => Due("walk", u)
    BY <1>4, <1>8, <2>1
  <2>4. Passed'
    BY <1>9, <2>2, <2>3 DEF Passed
  <2>5. ASSUME NEW x \in Threads PROVE Hears(x)'
    <3>1. home[x] = Nobody => x \in NewThreads
      BY DEF NewThreads
    <3> QED BY <1>9, <1>11, <2>2, <3>1 DEF Hears
  <2> QED BY <2>1, <2>4, <2>5 DEF Telling
<1>12. ASSUME ks = Visit(t, rest), t # Nobody, t \notin NewThreads,
              missed' = {s \in NewThreads : ~shutdown_request[s]}
       PROVE  Telling' /\ JobsOrdered(ks)
  <2>1. \A x \in NewThreads : Warned(x) \/ x \in missed'
    BY <1>12 DEF Warned
  <2> QED BY <1>3, <1>11, <1>12, <2>1
<1>13. ASSUME ks = Visit(t, rest), t = Nobody \/ t \in NewThreads,
              Behind(t) = {}, missed' = missed
       PROVE  Telling' /\ JobsOrdered(ks)
  <2>1. /\ \A o \in OSThreads : Left(ks, "os", o)
        /\ \A of : Left(rest, "flag", of) => Left(ks, "flag", of)
        /\ t # Nobody => Left(ks, "flag", t)
    BY <1>2, <1>4, <1>5, <1>13, VisitLeft
  <2>2. \A x \in NewThreads : Warned(x) \/ Due("flag", x)'
    BY <1>10, <1>13, <2>1
  <2> QED BY <1>3, <1>11, <1>13, <2>2
<1>14. ASSUME t = Nobody \/ t \in NewThreads, missed' = missed, NEW s \in Foremost(Behind(t)),
              ks = Visit(t, Cons([do |-> "walk", of |-> s], rest))
       PROVE  Telling' /\ JobsOrdered(ks)
  <2>0. /\ s \in Threads /\ \A x \in Behind(t) : Birth[s] <= Birth[x]
        /\ \A x \in Threads : Birth[x] \in Nat
    BY ThreadsAssumption DEF Foremost, Behind, NewThreads
  <2>1. PICK w : w = [do |-> "walk", of |-> s]
    OBVIOUS
  <2>2. w \in JobSet /\ w.do = "walk" /\ w.of = s
    BY <2>0, <2>1 DEF JobSet
  <2>3. PICK ls : ls = Cons(w, rest)
    OBVIOUS
  <2>4. ls \in Seq(JobSet) /\ JobsOrdered(ls)
    BY <1>2, <1>4, <1>5, <2>2, <2>3, ConsIs, OrderedCons
  <2>5. \A do, of : Left(ls, do, of) <=> (w.do = do /\ w.of = of) \/ Left(rest, do, of)
    BY <1>2, <2>2, <2>3, LeftCons
  <2>6. \A o \in OSThreads : Left(ls, "os", o)
    BY <1>5, <2>5
  <2>7. ks = Visit(t, ls)
    BY <1>14, <2>1, <2>3
  <2>8. /\ JobsOrdered(ks)
        /\ \A of : Left(ks, "walk", of) <=> Left(ls, "walk", of)
        /\ \A of : Left(ks, "os", of) <=> Left(ls, "os", of)
        /\ \A of : Left(ls, "flag", of) => Left(ks, "flag", of)
        /\ t # Nobody => Left(ks, "flag", t)
    BY <1>2, <2>4, <2>6, <2>7, VisitLeft
  <2>9. /\ \A of : Left(ks, "walk", of) <=> of = s \/ Left(rest, "walk", of)
        /\ \A o \in OSThreads : Left(ks, "os", o)
        /\ \A of : Left(rest, "flag", of) => Left(ks, "flag", of)
    BY <2>2, <2>5, <2>6, <2>8
  <2>10. /\ \A o \in OSThreads : Due("os", o)'
         /\ \A x \in NewThreads : x \notin Behind(t) => Warned(x) \/ Due("flag", x)'
         /\ \A u \in Threads : Due("walk", u) =>
               \A x \in NewThreads : Birth[x] < Birth[u] => Warned(x) \/ Due("flag", x)'
    BY <1>10, <1>14, <2>8, <2>9
  <2>11. \A u \in Threads : Due("walk", u)' => u = s \/ Due("walk", u)
    BY <1>4, <1>8, <2>9
  <2>12. \A x \in NewThreads : Birth[x] < Birth[s] => Warned(x) \/ Due("flag", x)'
    <3> SUFFICES ASSUME NEW x \in NewThreads, Birth[x] < Birth[s], x \in Behind(t)
                 PROVE  FALSE
      BY <2>10
    <3>1. x \in Threads /\ Birth[s] <= Birth[x]
      BY <2>0 DEF NewThreads
    <3> QED BY <2>0, <3>1
  <2>13. Passed'
    BY <1>9, <2>10, <2>11, <2>12 DEF Passed
  <2>14. Walking'
    BY <1>8, <2>9 DEF Walking
  <2>15. ASSUME NEW x \in Threads PROVE Hears(x)'
    BY <1>9, <2>10, <2>14 DEF Hears
  <2>16. Telling'
    BY <2>13, <2>15 DEF Telling
  <2> QED BY <2>8, <2>16
<1>15. Telling' /\ JobsOrdered(ks)
  BY <1>3, <1>12, <1>13, <1>14, Zenon
<1> QED BY <1>3, <1>15

(* What a flag that is not raised leaves to do. *)
Skips(c) == /\ ShutDownNewborn(c) /\ home[Head(call[c].jobs).of] # Nobody
            /\ call' = [call EXCEPT ![c].jobs = Tail(Tail(call[c].jobs))]
            /\ UNCHANGED shutdown_request

(* smt_shut_down begins, goes on with its walk, tells an OS thread, finds a *)
(* thread adopted, or leaves.                                               *)
LEMMA StopCalls ==
  ASSUME KernelInv, CountInv', NEW c \in Callers,
         \/ ShutDown(c) \/ ShutDownWalk(c) \/ ShutDownOSThread(c) \/ ShutDownLeave(c)
         \/ Skips(c)
  PROVE  KernelInv'
<1>0. /\ call[c] \in CallSet /\ CallsTyped /\ CallSound(call[c])
      /\ call \in [Callers -> CallSet] /\ JobsOrdered(call[c].jobs)
  BY DEF KernelInv, CountInv, CallsTyped, CallsSound, StopSound
<1>1. PICK js : js = call[c].jobs
  OBVIOUS
<1>2. /\ call[c].stage \in {"idle", "next"} /\ CallerFrame
      /\ UNCHANGED <<pipe, os_status, pc>>
  <2>1. CASE ShutDown(c)
    BY <2>1 DEF ShutDown, CallerFrame, osVars
  <2>2. CASE ShutDownOSThread(c)
    BY <2>2 DEF ShutDownOSThread, Job, CallerFrame
  <2>3. CASE ShutDownLeave(c)
    BY <2>3 DEF ShutDownLeave, Job, CallerFrame, osVars
  <2>4. CASE Skips(c)
    BY <2>4 DEF Skips, ShutDownNewborn, Job, CallerFrame, threadVars, osVars
  <2>5. CASE ShutDownWalk(c)
    BY <2>5 DEF ShutDownWalk, Job, CallerFrame, osVars
  <2> QED BY <2>1, <2>2, <2>3, <2>4, <2>5
<1>3. /\ js \in Seq(JobSet) /\ JobsSound(js) /\ JobsOrdered(js)
      /\ call[c].stage = "next" => js # <<>>
  <2>1. js \in Seq(JobSet) /\ JobsOrdered(js)
    BY <1>0, <1>1 DEF CallSet
  <2>2. JobsSound(js) /\ (call[c].stage = "next" => js # <<>>)
    BY <1>0, <1>1, Zenon DEF CallSound
  <2> QED BY <2>1, <2>2
<1>4. pipe' \in [OSThreads -> Nat]
  BY <1>2 DEF KernelInv, ListsTyped
<1>5. ASSUME NEW k, call' = [call EXCEPT ![c] = k]
      PROVE  /\ \A t \in Threads : Called(t) => Called(t)'
             /\ \A t \in Threads : Flagged(t) => Flagged(t)'
             /\ \A o \in OSThreads : OnTheWay(o) => OnTheWay(o)'
             /\ \A o \in OSThreads : Signals(o) => Signals(o)'
             /\ \A o \in OSThreads : Writes(o) => Writes(o)'
  <2>1. \A t \in Threads : Called(t) => Called(t)'
    BY <1>0, <1>2, <1>5, CallPreds
  <2>2. \A t \in Threads : Flagged(t) => Flagged(t)'
    BY <1>0, <1>2, <1>5, CallPreds DEF Flags
  <2>3. /\ \A o \in OSThreads : OnTheWay(o) => OnTheWay(o)'
        /\ \A o \in OSThreads : Signals(o) => Signals(o)'
        /\ \A o \in OSThreads : Writes(o) => Writes(o)'
    BY <1>0, <1>2, <1>5, OSCallPreds, Zenon
  <2> QED BY <2>1, <2>2, <2>3
<1>6. ASSUME NEW k, call' = [call EXCEPT ![c] = k], UNCHANGED os_shutdown,
             k.stage # "queue", JobsOrdered(k.jobs), Telling'
      PROVE  KernelInv'
  <2>1. \A o \in OSThreads : WakeSound(o)'
    BY <1>2, <1>5, <1>6, WakeKept
  <2>2. os_shutdown' \in [OSThreads -> BOOLEAN]
    BY <1>6 DEF KernelInv, ListsTyped
  <2> QED BY <1>2, <1>4, <1>5, <1>6, <2>1, <2>2, CallerStep
<1>7. /\ UNCHANGED <<status, home, shutdown_request, shutting_down>>
      /\ \A t \in Threads : home[t] \in OSThreads \cup {Nobody}
  BY <1>2 DEF CallerFrame, threadVars, KernelInv, CountInv, OSTyped
<1>8. CASE ShutDown(c)
  <2>1. PICK os \in SetToSeqs(OSThreads) :
             call' = [call EXCEPT ![c].stage = "next", ![c].jobs = Jobs(os)]
    BY <1>8 DEF ShutDown
  <2>2. UNCHANGED os_shutdown /\ call[c].stage = "idle"
    BY <1>8 DEF ShutDown, osVars
  <2>3. call[c].jobs = <<>>
    BY <1>0, <2>2, Zenon DEF CallSound
  <2>5. os \in Seq(OSThreads) /\ ToSet(os) = OSThreads
    BY Finite, SeqsOfSetAll
  <2>7. PICK ks : ks = Jobs(os)
    OBVIOUS
  <2>8. JobsOrdered(ks)
    BY <2>5, <2>7, JobsListed
  <2>9. PICK k : k = [call[c] EXCEPT !.stage = "next", !.jobs = ks]
    OBVIOUS
  <2>10. call' = [call EXCEPT ![c] = k] /\ k.jobs = ks /\ k.stage = "next"
    BY <1>0, <2>1, <2>7, <2>9 DEF CallSet
  <2>11. k.jobs = Jobs(os)
    BY <2>7, <2>10
  <2>12. Telling'
    BY <1>7, <2>3, <2>5, <2>10, <2>11, BeginTells
  <2> QED BY <1>6, <2>2, <2>8, <2>10, <2>12
<1>9. CASE ShutDownOSThread(c)
  <2>1. /\ call[c].stage = "next" /\ Head(js).do = "os"
        /\ os_shutdown' = [os_shutdown EXCEPT ![Head(js).of] = TRUE]
        /\ call' = [call EXCEPT ![c].stage = "swap", ![c].os = Head(js).of,
                                ![c].jobs = Tail(js)]
        /\ UNCHANGED <<stopped, missed>>
    BY <1>0, <1>1, <1>9 DEF ShutDownOSThread, Job
  <2>2. PICK o : o = Head(js).of
    OBVIOUS
  <2>3. o \in OSThreads
    <3>1. JobTyped(Head(js))
      BY <1>3, <2>1, TailJobs
    <3> QED BY <2>1, <2>2, <3>1 DEF JobTyped
  <2>4. /\ \A do, of : Left(js, do, of) => \/ Left(Tail(js), do, of)
                                           \/ Head(js).do = do /\ Head(js).of = of
        /\ \A do, of : Left(Tail(js), do, of) => Left(js, do, of)
        /\ JobsOrdered(Tail(js))
    BY <1>3, <2>1, LeftTail
  <2>5. PICK k : k = [call[c] EXCEPT !.stage = "swap", !.os = o, !.jobs = Tail(js)]
    OBVIOUS
  <2>6. /\ call' = [call EXCEPT ![c] = k] /\ k.jobs = Tail(js) /\ k.stage = "swap"
        /\ k.os = o
    BY <1>0, <2>1, <2>2, <2>5 DEF CallSet
  <2>7. /\ os_shutdown' \in [OSThreads -> BOOLEAN] /\ os_shutdown'[o]
        /\ \A p \in OSThreads : p # o => os_shutdown'[p] = os_shutdown[p]
    BY <2>1, <2>2, <2>3 DEF KernelInv, ListsTyped
  <2>8. OnTheWay(o)'
    <3>1. call'[c] = k
      BY <1>0, <2>6
    <3> QED BY <2>6, <3>1 DEF OnTheWay
  <2>9. ASSUME NEW p \in OSThreads PROVE WakeSound(p)'
    <3>1. CASE p # o
      BY <1>2, <1>5, <2>6, <2>7, <3>1, WakeKept
    <3>2. CASE p = o
      <4>1. Requests(p)' = Requests(p) /\ UNCHANGED <<thread_queue, waiting_list>>
        BY <1>2 DEF CallerFrame, threadVars, Requests
      <4>2. WakeSound(p)
        BY GoodIs
      <4>3. OnTheWay(p)' /\ (Signals(p) => Signals(p)') /\ (Writes(p) => Writes(p)')
        BY <1>5, <2>6, <2>8, <3>2
      <4> QED BY <1>2, <4>1, <4>2, <4>3, Zenon DEF WakeSound
    <3> QED BY <3>1, <3>2
  <2>a. /\ \A of : Left(js, "walk", of) <=> Left(k.jobs, "walk", of)
        /\ \A of : Left(js, "flag", of) <=> Left(k.jobs, "flag", of)
        /\ \A of : Left(js, "os", of) => Left(k.jobs, "os", of) \/ of = o
    BY <2>1, <2>2, <2>4, <2>6
  <2>b. /\ \A do, of : Due(do, of) => Due(do, of)' \/ Left(js, do, of)
        /\ \A do, of : Left(k.jobs, do, of) => Due(do, of)'
        /\ \A do, of : Due(do, of)' => Due(do, of) \/ Left(k.jobs, do, of)
        /\ \A do, of : Left(js, do, of) => Due(do, of)
    BY <1>0, <1>1, <2>6, DuePreds
  <2>10. /\ \A of : Due("walk", of)' <=> Due("walk", of)
         /\ \A of : Due("flag", of)' <=> Due("flag", of)
         /\ \A of : Due("os", of) => Due("os", of)' \/ of = o
         /\ Walking' <=> Walking
    BY <2>a, <2>b DEF Walking
  <2>11. ASSUME NEW t \in Threads, stopped PROVE Hears(t)'
    <3>1. Hears(t) /\ (Warned(t)' <=> Warned(t))
      BY <1>7, <2>11 DEF KernelInv, StopSound, Telling, Warned
    <3> QED BY <1>7, <2>1, <2>7, <2>10, <3>1 DEF Hears
  <2>c. Passed'
    <3>1. Passed /\ NewThreads' = NewThreads /\ \A t : Warned(t)' <=> Warned(t)
      BY <1>7 DEF KernelInv, StopSound, Telling, Warned, NewThreads
    <3> QED BY <2>10, <3>1 DEF Passed
  <2>12. call[c].stage # "queue" /\ k.stage # "queue"
    BY <2>1, <2>6
  <2>13. Telling'
    BY <2>1, <2>11, <2>c DEF Telling
  <2>14. JobsOrdered(k.jobs)
    BY <2>4, <2>6
  <2> QED BY <1>2, <1>4, <1>5, <2>6, <2>7, <2>9, <2>12, <2>13, <2>14, CallerStep
<1>10. CASE ShutDownLeave(c)
  <2>1. /\ call[c].stage = "next" /\ Head(js).do = "leave"
        /\ call' = [call EXCEPT ![c] = Idle] /\ UNCHANGED <<os_shutdown, stopped, missed>>
    BY <1>1, <1>10 DEF ShutDownLeave, Job, osVars
  <2>2. Idle.stage = "idle" /\ Idle.jobs = <<>>
    BY DEF Idle
  <2>3. Len(js) = 1 /\ js[1] = Head(js)
    BY <1>3, <2>1, LeftTail
  <2>4. \A of : ~Left(js, "walk", of) /\ ~Left(js, "flag", of) /\ ~Left(js, "os", of)
    BY <2>1, <2>3 DEF Left
  <2>a. \A do, of : ~Left(Idle.jobs, do, of)
    BY <2>2 DEF Left
  <2>5. JobsKept(js, Idle.jobs)
    BY <2>4, <2>a DEF JobsKept
  <2>6. JobsOrdered(Idle.jobs)
    BY <2>2 DEF JobsOrdered
  <2>7. Telling'
    <3>1. \A t \in Threads : Warned(t) => Warned(t)'
      BY <1>7 DEF Warned
    <3> QED BY <1>1, <1>7, <2>1, <2>5, <3>1, TellingKept
  <2> QED BY <1>6, <2>1, <2>2, <2>6, <2>7
<1>11. CASE Skips(c)
  <2>1. /\ call[c].stage = "next" /\ Head(js).do = "flag" /\ home[Head(js).of] # Nobody
        /\ call' = [call EXCEPT ![c].jobs = Tail(Tail(js))]
        /\ UNCHANGED <<os_shutdown, stopped, missed>>
    BY <1>1, <1>11 DEF Skips, ShutDownNewborn, Job, osVars
  <2>2. /\ \A do, of : Left(js, do, of) => \/ Left(Tail(js), do, of)
                                           \/ Head(js).do = do /\ Head(js).of = of
        /\ \A do, of : Left(Tail(js), do, of) => Left(js, do, of)
        /\ JobsOrdered(Tail(js))
    BY <1>3, <2>1, LeftTail
  <2>3. /\ Tail(js) \in Seq(JobSet) /\ Tail(js) # <<>> /\ Head(Tail(js)).do = "wake"
    BY <1>3, <2>1, TailJobs
  <2>4. /\ \A do, of : Left(Tail(js), do, of) => \/ Left(Tail(Tail(js)), do, of)
                                                 \/ Head(Tail(js)).do = do /\ Head(Tail(js)).of = of
        /\ \A do, of : Left(Tail(Tail(js)), do, of) => Left(Tail(js), do, of)
        /\ JobsOrdered(Tail(Tail(js)))
    BY <2>2, <2>3, LeftTail
  <2>5. PICK k : k = [call[c] EXCEPT !.jobs = Tail(Tail(js))]
    OBVIOUS
  <2>6. /\ call' = [call EXCEPT ![c] = k] /\ k.jobs = Tail(Tail(js)) /\ k.stage = "next"
    BY <1>0, <2>1, <2>5 DEF CallSet
  <2>7. /\ \A of : Left(js, "walk", of) <=> Left(k.jobs, "walk", of)
        /\ \A of : Left(js, "flag", of) => Left(k.jobs, "flag", of) \/ of = Head(js).of
        /\ \A of : Left(js, "os", of) => Left(k.jobs, "os", of)
    BY <2>1, <2>2, <2>3, <2>4, <2>6
  <2>b. /\ \A do, of : Due(do, of) => Due(do, of)' \/ Left(js, do, of)
        /\ \A do, of : Left(k.jobs, do, of) => Due(do, of)'
        /\ \A do, of : Due(do, of)' => Due(do, of) \/ Left(k.jobs, do, of)
        /\ \A do, of : Left(js, do, of) => Due(do, of)
    BY <1>0, <1>1, <2>6, DuePreds
  <2>8. /\ \A of : Due("walk", of)' <=> Due("walk", of)
        /\ \A of : Due("flag", of) => Due("flag", of)' \/ of = Head(js).of
        /\ \A of : Due("os", of) => Due("os", of)'
        /\ Walking' <=> Walking
    BY <2>7, <2>b DEF Walking
  <2>9. ASSUME NEW t \in Threads, stopped PROVE Hears(t)'
    <3>1. Hears(t) /\ (Warned(t)' <=> Warned(t))
      BY <1>7, <2>9 DEF KernelInv, StopSound, Telling, Warned
    <3> QED BY <1>7, <2>1, <2>8, <3>1 DEF Hears
  <2>10. Passed'
    <3>1. Passed /\ NewThreads' = NewThreads /\ \A t : Warned(t)' <=> Warned(t)
      BY <1>7 DEF KernelInv, StopSound, Telling, Warned, NewThreads
    <3>2. Head(js).of \notin NewThreads
      BY <2>1 DEF NewThreads
    <3> QED BY <2>8, <3>1, <3>2 DEF Passed
  <2>11. Telling'
    BY <2>1, <2>9, <2>10 DEF Telling
  <2> QED BY <1>6, <2>1, <2>4, <2>6, <2>11
<1>12. CASE ShutDownWalk(c)
  <2>1. call[c].stage = "next" /\ UNCHANGED <<os_shutdown, stopped>>
    BY <1>12 DEF ShutDownWalk, Job, osVars
  <2>2. /\ Telling'
        /\ \E ks : JobsOrdered(ks) /\ call' = [call EXCEPT ![c].jobs = ks]
    BY <1>1, <1>3, <1>7, <1>12, <2>1, WalkTells
  <2>3. PICK ks : JobsOrdered(ks) /\ call' = [call EXCEPT ![c].jobs = ks]
    BY <2>2
  <2>4. PICK k : k = [call[c] EXCEPT !.jobs = ks]
    OBVIOUS
  <2>5. /\ call' = [call EXCEPT ![c] = k] /\ k.jobs = ks /\ k.stage = "next"
    BY <1>0, <2>1, <2>3, <2>4 DEF CallSet
  <2> QED BY <1>6, <2>1, <2>2, <2>3, <2>5
<1> QED BY <1>8, <1>9, <1>10, <1>11, <1>12

-----------------------------------------------------------------------------
(* The steps of a caller that change a thread or a queue. *)

(* What the steps that give a thread something to do leave alone. *)
RaiseFrame == UNCHANGED <<status, home, blocked, shutting_down, os_status, thread_queue,
                          waiting_list, list_entry, pipe, os_shutdown, pc, current>>

(* A thread is given something to do, and the caller is about to wake it. *)
LEMMA RaiseStep ==
  ASSUME KernelInv, CountInv', NEW c \in Callers, NEW k, NEW t \in Threads,
         call' = [call EXCEPT ![c] = k], RaiseFrame,
         call[c].stage \in {"idle", "next"}, k.stage = "cas", k.thread = t,
         signal_raised' \in [Threads -> BOOLEAN], shutdown_request' \in [Threads -> BOOLEAN],
         \A s \in Threads : s # t => (Activity(s)' <=> Activity(s)),
         \A s \in Threads : s # t => shutdown_request'[s] = shutdown_request[s],
         shutdown_request[t] => shutdown_request'[t],
         shutdown_request'[t] # shutdown_request[t] =>
            (home[t] = Nobody \/ Between(t)) /\ k.jobs # <<>>,
         JobsOrdered(k.jobs), Telling'
  PROVE  KernelInv'
<1>0. /\ UNCHANGED <<status, home, blocked, shutting_down>>
      /\ UNCHANGED <<os_status, thread_queue, waiting_list, list_entry, pipe, os_shutdown,
                     pc, current>>
      /\ CallsTyped
  BY DEF RaiseFrame, KernelInv, CountInv
<1>1. ThreadsTyped' /\ ListsTyped'
  BY <1>0 DEF KernelInv, ThreadsTyped, ListsTyped
<1>2. /\ \A s : Called(s) => Called(s)'
      /\ \A s : Flagged(s) => Flagged(s)'
      /\ Called(t)' /\ (k.jobs # <<>> => Flagged(t)')
      /\ \A s : \A d \in Callers : Brings(d, s)' <=> Brings(d, s)
  <2>1. (\A s : Called(s) => Called(s)') /\ Called(t)' /\ (k.jobs # <<>> => Flagged(t)')
    BY <1>0, CallPreds
  <2>2. \A s : Flagged(s) => Flagged(s)'
    BY <1>0, CallPreds DEF Flags
  <2>3. \A s : \A d \in Callers : Brings(d, s)' <=> Brings(d, s)
    <3>1. /\ \A s : \A d \in Callers : d # c => (Brings(d, s)' <=> Brings(d, s))
          /\ \A s : Brings(c, s)' <=> k.stage = "queue" /\ k.thread = s
      BY <1>0, CallPreds
    <3>2. \A s : ~Brings(c, s)
      BY DEF Brings
    <3> QED BY <3>1, <3>2
  <2> QED BY <2>1, <2>2, <2>3
<1>3. \A s : Brought(s)' <=> Brought(s)
  BY <1>2 DEF Brought
<1>4. ASSUME NEW o \in OSThreads
      PROVE  /\ OnTheWay(o) => OnTheWay(o)'
             /\ Signals(o) => Signals(o)'
             /\ Writes(o) => Writes(o)'
  BY <1>0, OSCallPreds, Zenon
<1>5. ASSUME NEW o \in OSThreads PROVE Good(o)'
  <2>0. /\ Once(o) /\ AtHome(o) /\ RunSound(o)
        /\ \A s \in Threads : home[s] = o => Found(o, s)
    BY GoodIs
  <2>1. Once(o)' /\ AtHome(o)'
    BY <1>0, <2>0 DEF Once, AtHome
  <2>2. RunSound(o)'
    <3>2. pc[o] \in {"park", "sleep", "recheck"} => current[o] # Nobody
      <4>1. {"park", "sleep", "recheck"} \subseteq RunPlaces
        BY Zenon DEF RunPlaces
      <4> QED BY <2>0, <4>1 DEF RunSound
    <3>1. pc[o] \in {"park", "sleep", "recheck"} =>
             shutdown_request'[current[o]] = shutdown_request[current[o]]
      <4>1. current[o] # Nobody => home[current[o]] = o /\ current[o] \in Threads
        BY <2>0 DEF AtHome, KernelInv, ListsTyped
      <4>2. o # Nobody
        BY ThreadsAssumption
      <4>3. pc[o] \in Clearing => pc[o] \notin {"park", "sleep", "recheck"}
        BY Zenon DEF Clearing
      <4>4. Between(t) => pc[home[t]] \in Clearing
        BY DEF Between
      <4> QED BY <3>2, <4>1, <4>2, <4>3, <4>4
    <3> QED BY <1>0, <2>0, <3>1, <3>2 DEF RunSound
  <2>3. WakeSound(o)'
    <3>1. Requests(o)' = Requests(o)
      BY <1>0 DEF Requests
    <3> QED BY <1>0, <1>4, <3>1, WakeSame
  <2>4. ASSUME NEW s \in Threads, home[s] = o PROVE Found(o, s)'
    <3>1. Found(o, s)
      BY <2>0, <2>4
    <3>2. (Called(s) => Called(s)') /\ (Activity(s)' => Activity(s) \/ Called(s)')
      BY <1>2
    <3> QED BY <1>0, <1>3, <3>1, <3>2 DEF Found
  <2> QED BY <1>0, <2>1, <2>2, <2>3, <2>4 DEF Good
<1>6. BroughtHome'
  <2> SUFFICES ASSUME NEW d \in Callers, call'[d].stage = "queue"
               PROVE  home'[call'[d].thread] \in {call'[d].os, Nobody}
    BY DEF BroughtHome
  <2>1. call'[c] = k /\ \A e \in Callers : e # c => call'[e] = call[e]
    BY <1>0 DEF CallsTyped
  <2>2. call'[d] = call[d]
    BY <2>1
  <2> QED BY <1>0, <2>2 DEF KernelInv, BroughtHome
<1>7. NewSound'
  <2> SUFFICES ASSUME NEW s \in Threads, home[s] = Nobody PROVE Homeless(s)'
    BY <1>0 DEF NewSound
  <2>1. Homeless(s)
    BY DEF KernelInv, NewSound
  <2> QED BY <1>0, <1>2, <1>3, <2>1 DEF Homeless
<1>8. ASSUME NEW s \in Threads PROVE Heard(s)'
  <2>1. Heard(s)
    BY DEF KernelInv, StopSound
  <2>2. CASE shutdown_request'[s] => shutdown_request[s]
    BY <1>0, <1>2, <2>1, <2>2 DEF Heard
  <2>3. CASE ~(shutdown_request'[s] => shutdown_request[s])
    <3>1. s = t /\ (home[t] = Nobody \/ Between(t)) /\ k.jobs # <<>>
      BY <2>3
    <3>2. status[t] \in {"newborn", "waiting"}
      BY <3>1 DEF KernelInv, NewSound, Homeless, Between
    <3> QED BY <1>0, <1>2, <3>1, <3>2 DEF Heard
  <2> QED BY <2>2, <2>3
<1>9. \A d \in Callers : JobsOrdered(call[d].jobs)'
  <2>1. call'[c] = k /\ \A e \in Callers : e # c => call'[e] = call[e]
    BY <1>0 DEF CallsTyped
  <2>2. \A d \in Callers : JobsOrdered(call'[d].jobs)
    BY <2>1 DEF KernelInv, StopSound
  <2> QED BY <2>2 DEF JobsOrdered
<1>10. StopSound'
  BY <1>8, <1>9 DEF StopSound
<1> QED BY <1>1, <1>5, <1>6, <1>7, <1>10 DEF KernelInv

(* A method is posted, a signal raised, a new thread told to shut down. *)
LEMMA RaiseCalls ==
  ASSUME KernelInv, CountInv', NEW c \in Callers, NEW t \in Threads,
         \/ Send(c, t) /\ status[t] # "zombie"
         \/ RaiseSignal(c, t)
         \/ /\ ShutDownNewborn(c) /\ t = Head(call[c].jobs).of
            /\ home[t] = Nobody \/ Between(t)
            /\ shutdown_request' = [shutdown_request EXCEPT ![t] = TRUE]
            /\ call' = [call EXCEPT ![c].stage = "cas", ![c].thread = t,
                                    ![c].jobs = Tail(call[c].jobs)]
  PROVE  KernelInv'
<1>0. /\ call[c] \in CallSet /\ call \in [Callers -> CallSet]
      /\ signal_raised \in [Threads -> BOOLEAN] /\ shutdown_request \in [Threads -> BOOLEAN]
      /\ JobsOrdered(call[c].jobs) /\ CallSound(call[c])
  BY DEF KernelInv, CountInv, CallsTyped, CallsSound, ThreadsTyped, StopSound
<1>1. CASE (Send(c, t) /\ status[t] # "zombie") \/ RaiseSignal(c, t)
  <2>1. /\ call[c].stage = "idle" /\ UNCHANGED <<shutdown_request, module, reply_list, stopped, missed>>
        /\ RaiseFrame /\ call' = [call EXCEPT ![c].stage = "cas", ![c].thread = t]
    BY <1>1 DEF Send, RaiseSignal, RaiseFrame, osVars
  <2>2. /\ signal_raised' \in [Threads -> BOOLEAN]
        /\ \A s \in Threads : s # t => (Activity(s)' <=> Activity(s))
    <3>1. CASE Send(c, t) /\ status[t] # "zombie"
      <4>1. /\ UNCHANGED signal_raised
            /\ \E m : reply_queue' = [reply_queue EXCEPT ![t] = Append(@, m)]
        BY <3>1 DEF Send
      <4>2. \A s \in Threads : s # t => reply_queue'[s] = reply_queue[s]
        BY <4>1
      <4> QED BY <1>0, <2>1, <4>1, <4>2 DEF Activity
    <3>2. CASE RaiseSignal(c, t)
      <4>1. /\ UNCHANGED reply_queue
            /\ signal_raised' = [signal_raised EXCEPT ![t] = TRUE]
        BY <3>2 DEF RaiseSignal
      <4>2. /\ signal_raised' \in [Threads -> BOOLEAN]
            /\ \A s \in Threads : s # t => signal_raised'[s] = signal_raised[s]
        BY <1>0, <4>1
      <4> QED BY <2>1, <4>1, <4>2 DEF Activity
    <3> QED BY <1>1, <3>1, <3>2
  <2>3. PICK k : k = [call[c] EXCEPT !.stage = "cas", !.thread = t]
    OBVIOUS
  <2>4. /\ call' = [call EXCEPT ![c] = k] /\ k.stage = "cas" /\ k.thread = t
        /\ k.jobs = call[c].jobs
    BY <1>0, <2>1, <2>3 DEF CallSet
  <2>5. JobsKept(call[c].jobs, k.jobs)
    BY <2>4 DEF JobsKept
  <2>6. home' = home /\ os_shutdown' = os_shutdown /\ \A s \in Threads : Warned(s) => Warned(s)'
    BY <2>1 DEF Warned, RaiseFrame
  <2>7. Telling'
    BY <2>1, <2>4, <2>5, <2>6, TellingKept
  <2>8. shutdown_request' \in [Threads -> BOOLEAN]
    BY <1>0, <2>1
  <2>9. /\ RaiseFrame /\ call[c].stage \in {"idle", "next"}
        /\ JobsOrdered(k.jobs) /\ shutdown_request' = shutdown_request
    BY <1>0, <2>1, <2>4
  <2> QED BY <2>2, <2>4, <2>7, <2>8, <2>9, RaiseStep
<1>2. CASE /\ ShutDownNewborn(c) /\ t = Head(call[c].jobs).of
           /\ home[t] = Nobody \/ Between(t)
           /\ shutdown_request' = [shutdown_request EXCEPT ![t] = TRUE]
           /\ call' = [call EXCEPT ![c].stage = "cas", ![c].thread = t,
                                   ![c].jobs = Tail(call[c].jobs)]
  <2>0. PICK js : js = call[c].jobs
    OBVIOUS
  <2>1. /\ call[c].stage = "next" /\ Head(js).do = "flag"
        /\ shutdown_request' = [shutdown_request EXCEPT ![t] = TRUE]
        /\ call' = [call EXCEPT ![c].stage = "cas", ![c].thread = t, ![c].jobs = Tail(js)]
        /\ RaiseFrame
        /\ UNCHANGED <<signal_raised, module, reply_list, reply_queue, stopped, missed>>
    BY <1>2, <2>0 DEF ShutDownNewborn, Job, RaiseFrame, osVars
  <2>2. js \in Seq(JobSet) /\ JobsOrdered(js)
    BY <1>0, <2>0 DEF CallSet
  <2>3. JobsSound(js) /\ js # <<>>
    BY <1>0, <2>0, <2>1, Zenon DEF CallSound
  <2>4. /\ \A do, of : Left(js, do, of) => \/ Left(Tail(js), do, of)
                                           \/ Head(js).do = do /\ Head(js).of = of
        /\ \A do, of : Left(Tail(js), do, of) => Left(js, do, of)
        /\ JobsOrdered(Tail(js)) /\ Tail(js) # <<>>
    BY <2>1, <2>2, <2>3, LeftTail, TailJobs
  <2>5. PICK k : k = [call[c] EXCEPT !.stage = "cas", !.thread = t, !.jobs = Tail(js)]
    OBVIOUS
  <2>6. /\ call' = [call EXCEPT ![c] = k] /\ k.stage = "cas" /\ k.thread = t
        /\ k.jobs = Tail(js)
    BY <1>0, <2>1, <2>5 DEF CallSet
  <2>7. /\ shutdown_request' \in [Threads -> BOOLEAN] /\ shutdown_request'[t]
        /\ \A s \in Threads : s # t => shutdown_request'[s] = shutdown_request[s]
    BY <1>0, <2>1
  <2>8. \A s \in Threads : s # t => (Activity(s)' <=> Activity(s))
    BY <2>1, <2>7 DEF Activity
  <2>9. home' = home /\ os_shutdown' = os_shutdown /\ \A s \in Threads : Warned(s) => Warned(s)'
    BY <2>1, <2>7 DEF Warned, RaiseFrame
  <2>a. /\ \A of : Left(js, "walk", of) <=> Left(k.jobs, "walk", of)
        /\ \A of : Left(js, "flag", of) => Left(k.jobs, "flag", of) \/ of = t
        /\ \A of : Left(js, "os", of) => Left(k.jobs, "os", of)
    BY <1>2, <2>0, <2>1, <2>4, <2>6
  <2>b. /\ \A do, of : Due(do, of) => Due(do, of)' \/ Left(js, do, of)
        /\ \A do, of : Left(k.jobs, do, of) => Due(do, of)'
        /\ \A do, of : Due(do, of)' => Due(do, of) \/ Left(k.jobs, do, of)
        /\ \A do, of : Left(js, do, of) => Due(do, of)
    BY <1>0, <2>0, <2>6, DuePreds DEF CallsTyped
  <2>c. /\ \A of : Due("walk", of)' <=> Due("walk", of)
        /\ \A of : Due("flag", of) => Due("flag", of)' \/ of = t
        /\ \A of : Due("os", of) => Due("os", of)'
        /\ Walking' <=> Walking
    BY <2>a, <2>b DEF Walking
  <2>d. Warned(t)'
    BY <2>7 DEF Warned
  <2>10. ASSUME NEW s \in Threads, stopped PROVE Hears(s)'
    <3>1. Hears(s)
      BY <2>10 DEF KernelInv, StopSound, Telling
    <3> QED BY <2>1, <2>9, <2>c, <2>d, <3>1 DEF Hears
  <2>e. Passed'
    <3>1. Passed /\ NewThreads' = NewThreads /\ NewThreads \subseteq Threads
      BY <2>9 DEF KernelInv, StopSound, Telling, NewThreads
    <3> QED BY <2>9, <2>c, <2>d, <3>1 DEF Passed
  <2>11. signal_raised' \in [Threads -> BOOLEAN]
    BY <1>0, <2>1
  <2>12. /\ RaiseFrame /\ call[c].stage \in {"idle", "next"}
         /\ JobsOrdered(k.jobs) /\ k.jobs # <<>> /\ (home[t] = Nobody \/ Between(t))
    BY <1>2, <2>1, <2>4, <2>6
  <2>13. Telling'
    BY <2>1, <2>10, <2>e DEF Telling
  <2> QED BY <2>6, <2>7, <2>8, <2>11, <2>12, <2>13, RaiseStep
<1> QED BY <1>1, <1>2

(* The wake-up that wins a thread: its status is changed, the queue comes next. *)
LEMMA WinCall ==
  ASSUME KernelInv, CountInv', NEW c \in Callers, WakeThread(c),
         status[call[c].thread] \in Tried[call[c].stage]
  PROVE  KernelInv'
<1>0. /\ call[c] \in CallSet /\ call \in [Callers -> CallSet] /\ CallsTyped
      /\ JobsOrdered(call[c].jobs) /\ CallSound(call[c])
      /\ status \in [Threads -> Statuses]
  BY DEF KernelInv, CountInv, CallsTyped, CallsSound, ThreadsTyped, StopSound
<1>1. call[c].stage \in {"cas", "cas2"}
  BY DEF WakeThread, Tried
<1>2. PICK t : t = call[c].thread
  OBVIOUS
<1>3. t \in Threads
  BY <1>0, <1>1, <1>2, Zenon DEF CallSound
<1>4. status[t] \in {"sleeping", "pending", "newborn"}
  BY <1>1, <1>2 DEF Tried
<1>5. /\ status' = [status EXCEPT ![t] = "waiting"]
      /\ \E o \in IF home[t] = Nobody THEN OSThreads ELSE {home[t]} :
            call' = [call EXCEPT ![c].stage = "queue", ![c].os = o]
      /\ UNCHANGED <<home, reply_queue, reply_list, blocked, module, signal_raised,
                     shutdown_request, shutting_down, osVars, stopped, missed>>
  BY <1>2 DEF WakeThread
<1>6. PICK o \in IF home[t] = Nobody THEN OSThreads ELSE {home[t]} :
            call' = [call EXCEPT ![c].stage = "queue", ![c].os = o]
  BY <1>5
<1>7. home[t] \in {o, Nobody}
  BY <1>6
<1>8. PICK k : k = [call[c] EXCEPT !.stage = "queue", !.os = o]
  OBVIOUS
<1>9. /\ call' = [call EXCEPT ![c] = k] /\ k.stage = "queue" /\ k.thread = t
      /\ k.jobs = call[c].jobs /\ k.os = o
  BY <1>0, <1>2, <1>6, <1>8 DEF CallSet
<1>10. /\ status' \in [Threads -> Statuses] /\ status'[t] = "waiting"
       /\ \A s \in Threads : s # t => status'[s] = status[s]
  BY <1>0, <1>3, <1>5 DEF Statuses
<1>11. /\ UNCHANGED <<home, blocked, shutdown_request, shutting_down, signal_raised>>
       /\ UNCHANGED <<os_status, thread_queue, waiting_list, list_entry, pipe, os_shutdown,
                      pc, current, stopped, missed>>
       /\ \A s : Activity(s)' <=> Activity(s)
  BY <1>5 DEF osVars, Activity
<1>12. ThreadsTyped' /\ ListsTyped'
  BY <1>10, <1>11 DEF KernelInv, ThreadsTyped, ListsTyped
<1>13. /\ \A s : Called(s) => Called(s)' \/ s = t
       /\ \A s : Flagged(s) => Flagged(s)' \/ s = t
       /\ \A s : \A d \in Callers : s # t \/ d # c => (Brings(d, s)' <=> Brings(d, s))
       /\ Brings(c, t)'
  <2>1. /\ \A s : Called(s) => Called(s)' \/ s = t
        /\ \A s : Flagged(s) => Flagged(s)' \/ s = t
    BY <1>0, <1>2, <1>9, CallPreds DEF Flags
  <2>2. /\ \A s : \A d \in Callers : d # c => (Brings(d, s)' <=> Brings(d, s))
        /\ \A s : Brings(c, s)' <=> k.stage = "queue" /\ k.thread = s
    BY <1>0, <1>9, CallPreds
  <2>3. \A s : ~Brings(c, s)
    BY <1>1 DEF Brings
  <2> QED BY <1>9, <2>1, <2>2, <2>3
<1>14. /\ \A s : Brought(s) => Brought(s)'
       /\ \A s : s # t => (Brought(s)' <=> Brought(s))
       /\ Brought(t)'
  <2>1. \A s : ~Brings(c, s)
    BY <1>1 DEF Brings
  <2> QED BY <1>13, <2>1 DEF Brought
<1>15. ASSUME NEW p \in OSThreads
       PROVE  /\ OnTheWay(p) => OnTheWay(p)'
              /\ Signals(p) => Signals(p)'
              /\ Writes(p) => Writes(p)'
  BY <1>0, <1>1, <1>9, OSCallPreds, Zenon
<1>16. ASSUME NEW p \in OSThreads PROVE Good(p)'
  <2>0. /\ Once(p) /\ AtHome(p) /\ RunSound(p)
        /\ \A s \in Threads : home[s] = p => Found(p, s)
        /\ current[p] \in Threads \cup {Nobody}
    BY GoodIs
  <2>1. Once(p)' /\ AtHome(p)'
    BY <1>11, <2>0 DEF Once, AtHome
  <2>2. RunSound(p)'
    <3>1. CASE current[p] = t
      <4>1. pc[p] = "recheck"
        BY <1>3, <1>4, <2>0, <3>1, ThreadsAssumption DEF RunSound
      <4> QED BY <1>3, <1>10, <1>11, <2>0, <3>1, <4>1, ThreadsAssumption, PlacesAre DEF RunSound
    <3>2. CASE current[p] # t /\ current[p] # Nobody
      BY <1>10, <1>11, <2>0, <3>2 DEF RunSound
    <3>3. CASE current[p] = Nobody
      <4>1. pc[p] # "recheck"
        BY <2>0, <3>3, PlacesAre DEF RunSound
      <4> QED BY <1>11, <2>0, <3>3, <4>1 DEF RunSound
    <3> QED BY <3>1, <3>2, <3>3
  <2>3. WakeSound(p)'
    <3>1. Requests(p)' = Requests(p)
      BY <1>11 DEF Requests
    <3> QED BY <1>11, <1>15, <3>1, WakeSame
  <2>4. ASSUME NEW s \in Threads, home[s] = p PROVE Found(p, s)'
    <3>1. Found(p, s)
      BY <2>0, <2>4
    <3>2. CASE s = t
      BY <1>10, <1>11, <1>14, <3>2 DEF Found
    <3>3. CASE s # t
      BY <1>10, <1>11, <1>13, <1>14, <3>1, <3>3 DEF Found
    <3> QED BY <3>2, <3>3
  <2> QED BY <1>11, <2>1, <2>2, <2>3, <2>4 DEF Good
<1>17. call'[c] = k /\ \A e \in Callers : e # c => call'[e] = call[e]
  BY <1>0, <1>9 DEF CallsTyped
<1>18. BroughtHome'
  <2> SUFFICES ASSUME NEW d \in Callers, call'[d].stage = "queue"
               PROVE  home'[call'[d].thread] \in {call'[d].os, Nobody}
    BY DEF BroughtHome
  <2>1. CASE d = c
    BY <1>7, <1>9, <1>11, <1>17, <2>1
  <2>2. CASE d # c
    BY <1>11, <1>17, <2>2 DEF KernelInv, BroughtHome
  <2> QED BY <2>1, <2>2
<1>19. NewSound'
  <2> SUFFICES ASSUME NEW s \in Threads, home[s] = Nobody PROVE Homeless(s)'
    BY <1>11 DEF NewSound
  <2>1. Homeless(s)
    BY DEF KernelInv, NewSound
  <2>2. CASE s # t
    BY <1>10, <1>11, <1>13, <1>14, <2>1, <2>2 DEF Homeless
  <2>3. CASE s = t
    <3>1. status[t] = "newborn"
      BY <1>4, <2>1, <2>3 DEF Homeless
    <3>2. ~Brought(t) /\ \A p \in OSThreads : t \notin ToSet(thread_queue[p])
      BY <2>1, <2>3, <3>1 DEF Homeless
    <3>3. \A d \in Callers : Brings(d, t)' => d = c
      BY <1>13, <3>2 DEF Brought
    <3> QED BY <1>10, <1>11, <1>14, <2>1, <2>3, <3>2, <3>3 DEF Homeless
  <2> QED BY <2>2, <2>3
<1>20. ASSUME NEW s \in Threads PROVE Heard(s)'
  <2>1. Heard(s)
    BY DEF KernelInv, StopSound
  <2>2. CASE s = t
    BY <1>10, <2>2 DEF Heard
  <2>3. CASE s # t
    BY <1>10, <1>11, <1>13, <2>1, <2>3 DEF Heard
  <2> QED BY <2>2, <2>3
<1>21. \A d \in Callers : JobsOrdered(call[d].jobs)'
  <2>1. \A d \in Callers : JobsOrdered(call'[d].jobs)
    BY <1>0, <1>9, <1>17 DEF KernelInv, StopSound
  <2> QED BY <2>1 DEF JobsOrdered
<1>22. Telling'
  <2>1. \A s \in Threads : Warned(s) => Warned(s)'
    BY <1>4, <1>10, <1>11 DEF Warned
  <2>2. JobsKept(call[c].jobs, k.jobs)
    BY <1>9 DEF JobsKept
  <2> QED BY <1>9, <1>11, <2>1, <2>2, TellingKept
<1>23. StopSound'
  BY <1>11, <1>20, <1>21, <1>22 DEF StopSound
<1> QED BY <1>12, <1>16, <1>18, <1>19, <1>23 DEF KernelInv

(* The thread that was won joins the queue of the OS thread. *)
LEMMA QueueCall ==
  ASSUME KernelInv, CountInv', NEW c \in Callers, QueueThread(c)
  PROVE  KernelInv'
<1>0. /\ call[c] \in CallSet /\ call \in [Callers -> CallSet] /\ CallsTyped
      /\ CallSound(call[c]) /\ call[c].stage = "queue" /\ Enter(c, "inc")
  BY DEF KernelInv, CountInv, CallsTyped, CallsSound, QueueThread
<1>1. PICK t : t = call[c].thread
  OBVIOUS
<1>2. PICK o : o = call[c].os
  OBVIOUS
<1>3. t \in Threads
  BY <1>0, <1>1, Zenon DEF CallSound
<1>4. o \in OSThreads
  BY <1>0, <1>2, WokenOS
<1>5. Brings(c, t) /\ Brought(t) /\ home[t] \in {o, Nobody}
  BY <1>0, <1>1, <1>2 DEF Brings, Brought, KernelInv, BroughtHome
<1>6. PICK k : /\ call' = [call EXCEPT ![c] = k] /\ k.stage = "inc"
               /\ k.thread = call[c].thread /\ k.os = call[c].os
               /\ JobsOrdered(k.jobs) /\ JobsKept(call[c].jobs, k.jobs)
  BY <1>0, EnterIs
<1>7. /\ UNCHANGED <<status, home, blocked, shutdown_request, shutting_down, signal_raised>>
      /\ UNCHANGED <<os_status, waiting_list, list_entry, pipe, os_shutdown, pc, current, stopped, missed>>
      /\ \A s : Activity(s)' <=> Activity(s)
  BY DEF QueueThread, threadVars, Activity
<1>8. PICK q : q = Append(RemoveFirst(thread_queue[o], t), t)
  OBVIOUS
<1>9. /\ q \in Seq(Threads) /\ IsInjective(q)
      /\ ToSet(q) = ToSet(thread_queue[o]) \cup {t}
  <2>1. thread_queue[o] \in Seq(Threads) /\ IsInjective(thread_queue[o])
    BY <1>4, GoodIs DEF Once
  <2>2. PICK r : r = RemoveFirst(thread_queue[o], t)
    OBVIOUS
  <2>3. /\ r \in Seq(Threads) /\ ToSet(r) \subseteq ToSet(thread_queue[o])
        /\ \A x \in ToSet(thread_queue[o]) : x # t => x \in ToSet(r)
        /\ IsInjective(r) /\ t \notin ToSet(r)
    BY <2>1, <2>2, RemoveFirstIs
  <2>4. q = Append(r, t)
    BY <1>8, <2>2
  <2>5. /\ q \in Seq(Threads) /\ ToSet(q) = ToSet(r) \cup {t} /\ IsInjective(q)
    BY <1>3, <2>3, <2>4, AppendSet
  <2> QED BY <2>3, <2>5
<1>10. thread_queue' = [thread_queue EXCEPT ![o] = q]
  BY <1>1, <1>2, <1>8 DEF QueueThread
<1>11. /\ thread_queue' \in [OSThreads -> Seq(Threads)] /\ thread_queue'[o] = q
       /\ \A p \in OSThreads : p # o => thread_queue'[p] = thread_queue[p]
  BY <1>4, <1>9, <1>10 DEF KernelInv, ListsTyped
<1>12. ThreadsTyped' /\ ListsTyped'
  BY <1>7, <1>11 DEF KernelInv, ThreadsTyped, ListsTyped
<1>13. call'[c] = k /\ \A e \in Callers : e # c => call'[e] = call[e]
  BY <1>0, <1>6 DEF CallsTyped
<1>14. /\ \A s : Called(s) => Called(s)'
       /\ \A s : Flagged(s) => Flagged(s)'
       /\ \A s : \A d \in Callers : d # c => (Brings(d, s)' <=> Brings(d, s))
       /\ \A s : ~Brings(c, s)'
       /\ \A s : s # t => ~Brings(c, s)
  <2>1. \A s : s # t => ~Brings(c, s)
    BY <1>1 DEF Brings
  <2> QED BY <1>0, <1>6, <2>1, CallPreds DEF Flags
<1>15. \A s : s # t => (Brought(s)' <=> Brought(s))
  BY <1>14 DEF Brought
<1>16. /\ \A p \in OSThreads : OnTheWay(p) => OnTheWay(p)'
       /\ \A p \in OSThreads : Signals(p) => Signals(p)'
       /\ \A p \in OSThreads : Writes(p) => Writes(p)'
  BY <1>0, <1>6, OSCallPreds, Zenon
<1>17. OnTheWay(o)'
  BY <1>2, <1>6, <1>13 DEF OnTheWay
<1>18. ASSUME NEW p \in OSThreads PROVE Good(p)'
  <2>0. /\ Once(p) /\ AtHome(p) /\ RunSound(p)
        /\ \A s \in Threads : home[s] = p => Found(p, s)
    BY GoodIs
  <2>1. Once(p)'
    BY <1>7, <1>9, <1>11, <2>0 DEF Once
  <2>2. AtHome(p)'
    BY <1>5, <1>7, <1>9, <1>11, <2>0 DEF AtHome
  <2>3. RunSound(p)'
    BY <1>7, <2>0 DEF RunSound
  <2>4. WakeSound(p)'
    <3>1. Requests(p)' = Requests(p)
      BY <1>7 DEF Requests
    <3>2. thread_queue'[p] = thread_queue[p] \/ OnTheWay(p)'
      BY <1>11, <1>17
    <3> QED BY <1>7, <1>16, <3>1, <3>2, WakeSame
  <2>5. ASSUME NEW s \in Threads, home[s] = p PROVE Found(p, s)'
    <3>1. Found(p, s)
      BY <2>0, <2>5
    <3>2. CASE s = t
      <4>1. p = o /\ t \in ToSet(thread_queue'[p])
        BY <1>5, <1>9, <1>11, <2>5, <3>2, GoodIs
      <4> QED BY <1>7, <1>14, <3>1, <3>2, <4>1 DEF Found
    <3>3. CASE s # t
      <4>1. s \in ToSet(thread_queue[p]) => s \in ToSet(thread_queue'[p])
        BY <1>9, <1>11
      <4> QED BY <1>7, <1>14, <1>15, <3>1, <3>3, <4>1 DEF Found
    <3> QED BY <3>2, <3>3
  <2> QED BY <1>7, <2>1, <2>2, <2>3, <2>4, <2>5 DEF Good
<1>19. BroughtHome'
  <2> SUFFICES ASSUME NEW d \in Callers, call'[d].stage = "queue"
               PROVE  home'[call'[d].thread] \in {call'[d].os, Nobody}
    BY DEF BroughtHome
  <2>1. call'[d] = call[d]
    BY <1>6, <1>13
  <2> QED BY <1>7, <2>1 DEF KernelInv, BroughtHome
<1>20. NewSound'
  <2> SUFFICES ASSUME NEW s \in Threads, home[s] = Nobody PROVE Homeless(s)'
    BY <1>7 DEF NewSound
  <2>1. Homeless(s)
    BY DEF KernelInv, NewSound
  <2>2. CASE s # t
    <3>1. \A p \in OSThreads : s \in ToSet(thread_queue'[p]) <=> s \in ToSet(thread_queue[p])
      BY <1>9, <1>11, <2>2
    <3>2. \A d \in Callers : Brings(d, s)' <=> Brings(d, s)
      BY <1>14, <2>2
    <3> QED BY <1>7, <1>15, <2>1, <2>2, <3>1, <3>2 DEF Homeless
  <2>3. CASE s = t
    <3>1. /\ status[t] # "newborn" /\ \A p \in OSThreads : t \notin ToSet(thread_queue[p])
          /\ \A d \in Callers : Brings(d, t) => d = c
      BY <1>5, <2>1, <2>3 DEF Homeless
    <3>2. ~Brought(t)'
      BY <1>14, <3>1 DEF Brought
    <3>3. \A p \in OSThreads : t \in ToSet(thread_queue'[p]) <=> p = o
      BY <1>9, <1>11, <3>1
    <3>4. \A d \in Callers : ~Brings(d, t)'
      BY <3>2 DEF Brought
    <3> QED BY <1>4, <1>7, <2>1, <2>3, <3>1, <3>2, <3>3, <3>4 DEF Homeless
  <2> QED BY <2>2, <2>3
<1>21. ASSUME NEW s \in Threads PROVE Heard(s)'
  BY <1>7, <1>14 DEF Heard, KernelInv, StopSound
<1>22. \A d \in Callers : JobsOrdered(call[d].jobs)'
  <2>1. \A d \in Callers : JobsOrdered(call'[d].jobs)
    BY <1>6, <1>13 DEF KernelInv, StopSound
  <2> QED BY <2>1 DEF JobsOrdered
<1>23. Telling'
  <2>1. \A s \in Threads : Warned(s) => Warned(s)'
    BY <1>7 DEF Warned
  <2> QED BY <1>6, <1>7, <2>1, TellingKept
<1>24. StopSound'
  BY <1>7, <1>21, <1>22, <1>23 DEF StopSound
<1> QED BY <1>12, <1>18, <1>19, <1>20, <1>24 DEF KernelInv

-----------------------------------------------------------------------------
(* The invariant is inductive. *)

(* A step that changes nothing of the kernel. *)
LEMMA KernelStays ==
  ASSUME KernelInv, CountInv', UNCHANGED vars
  PROVE  KernelInv'
<1>0. /\ UNCHANGED <<status, home, reply_queue, reply_list, blocked, module,
                     signal_raised, shutdown_request, shutting_down>>
      /\ UNCHANGED <<os_status, thread_queue, waiting_list, list_entry, pipe,
                     os_shutdown, pc, current, stopped, missed>>
      /\ call' = call
  BY DEF vars, threadVars, osVars
<1>1. ThreadsTyped' /\ ListsTyped'
  BY <1>0 DEF KernelInv, ThreadsTyped, ListsTyped
<1>2. \A t : Activity(t)' <=> Activity(t)
  BY <1>0 DEF Activity
<1>3. ASSUME NEW o \in OSThreads PROVE Good(o)'
  <2>0. /\ Once(o) /\ AtHome(o) /\ RunSound(o)
        /\ \A s \in Threads : home[s] = o => Found(o, s)
    BY GoodIs
  <2>1. Once(o)' /\ AtHome(o)'
    BY <1>0, <2>0 DEF Once, AtHome
  <2>2. RunSound(o)'
    BY <1>0, <2>0 DEF RunSound
  <2>3. WakeSound(o)'
    <3>1. Requests(o)' = Requests(o)
      BY <1>0 DEF Requests
    <3>2. /\ OnTheWay(o) => OnTheWay(o)'
          /\ Signals(o) => Signals(o)'
          /\ Writes(o) => Writes(o)'
      BY <1>0, CallsKept
    <3> QED BY <1>0, <3>1, <3>2, WakeSame
  <2>4. \A s \in Threads : home[s] = o => Found(o, s)'
    BY <1>0, <1>2, <2>0, CallsKept DEF Found
  <2> QED BY <1>0, <2>1, <2>2, <2>3, <2>4 DEF Good
<1>4. BroughtHome'
  BY <1>0 DEF KernelInv, BroughtHome
<1>5. NewSound'
  <2>1. \A t : /\ Brought(t)' <=> Brought(t)
               /\ \A c : Brings(c, t)' <=> Brings(c, t)
    BY <1>0, CallsKept
  <2> QED BY <1>0, <2>1 DEF KernelInv, NewSound, Homeless
<1>6. StopSound'
  <2>1. \A t \in Threads : Heard(t)'
    BY <1>0, CallsKept DEF KernelInv, StopSound, Heard
  <2>2. stopped => \A t \in Threads : Hears(t)'
    <3>1. \A t : Warned(t)' <=> Warned(t)
      BY <1>0 DEF Warned
    <3> QED BY <1>0, <3>1, CallsKept DEF KernelInv, StopSound, Telling, Hears
  <2>4. Passed'
    <3>1. (\A t : Warned(t)' <=> Warned(t)) /\ NewThreads' = NewThreads
      BY <1>0 DEF Warned, NewThreads
    <3> QED BY <1>0, <3>1, CallsKept DEF KernelInv, StopSound, Telling, Passed
  <2>3. \A c \in Callers : JobsOrdered(call[c].jobs)'
    BY <1>0 DEF KernelInv, StopSound, JobsOrdered
  <2> QED BY <1>0, <2>1, <2>2, <2>3, <2>4 DEF StopSound, Telling
<1> QED BY <1>1, <1>3, <1>4, <1>5, <1>6 DEF KernelInv

(* A method for a destroyed thread is refused. *)
LEMMA RefusedCall ==
  ASSUME KernelInv, CountInv', NEW c \in Callers, NEW t \in Threads, Send(c, t),
         status[t] = "zombie"
  PROVE  KernelInv'
<1>1. /\ call[c].stage = "idle" /\ call' = call /\ CallerFrame
      /\ UNCHANGED <<os_status, pc, pipe, os_shutdown, stopped, missed>>
  BY DEF Send, CallerFrame, threadVars, osVars
<1>2. PICK k : k = call[c]
  OBVIOUS
<1>3. /\ call' = [call EXCEPT ![c] = k] /\ k.stage = "idle"
      /\ JobsOrdered(k.jobs) /\ JobsKept(call[c].jobs, k.jobs)
  BY <1>1, <1>2 DEF KernelInv, CountInv, CallsTyped, StopSound, JobsKept
<1>4. \A o \in OSThreads : Writes(o) => Writes(o)'
  BY <1>1, CallsKept
<1> QED BY <1>1, <1>3, <1>4, PlainCall

(* The invariant holds at first. *)
LEMMA KernelInit == Init => KernelInv
<1> SUFFICES ASSUME Init PROVE KernelInv
  OBVIOUS
<1>0. /\ \A c \in Callers : call[c] = Idle /\ Idle.stage = "idle" /\ Idle.jobs = <<>>
      /\ \A o \in OSThreads : /\ thread_queue[o] = <<>> /\ waiting_list[o] = <<>>
                              /\ current[o] = Nobody /\ pc[o] = "clear"
                              /\ os_status[o] = "active" /\ ~os_shutdown[o]
      /\ \A t \in Threads : /\ status[t] = "newborn" /\ home[t] = Nobody /\ ~blocked[t]
                            /\ ~shutdown_request[t]
      /\ ~stopped
  BY DEF Init, Idle
<1>1. ThreadsTyped
  BY DEF Init, ThreadsTyped, Statuses
<1>2. ListsTyped
  BY DEF Init, ListsTyped
<1>3. ToSet(<<>>) = {} /\ IsInjective(<<>>)
  BY DEF ToSet, IsInjective
<1>4. ASSUME NEW o \in OSThreads PROVE Good(o)
  <2>1. Once(o) /\ AtHome(o)
    BY <1>0, <1>3 DEF Once, AtHome
  <2>2. RunSound(o)
    BY <1>0, PlacesAre DEF RunSound
  <2>3. WakeSound(o)
    <3>1. os_status[o] = "active" /\ pc[o] = "clear"
      BY <1>0
    <3> QED BY <3>1, Zenon DEF WakeSound
  <2>4. o # Nobody
    BY ThreadsAssumption
  <2>5. \A t \in Threads : home[t] # o
    BY <1>0, <2>4
  <2> QED BY <2>1, <2>2, <2>3, <2>5 DEF Good
<1>5. BroughtHome
  BY <1>0 DEF BroughtHome
<1>6. NewSound
  <2>1. \A t : ~Brought(t) /\ \A c \in Callers : ~Brings(c, t)
    BY <1>0 DEF Brought, Brings
  <2> QED BY <1>0, <1>3, <2>1 DEF NewSound, Homeless
<1>7. StopSound
  <2>1. \A do, of : ~Due(do, of)
    BY <1>0 DEF Due
  <2> QED BY <1>0, <2>1 DEF StopSound, Telling, Passed, Heard, JobsOrdered
<1> QED BY <1>1, <1>2, <1>4, <1>5, <1>6, <1>7, CountInit DEF KernelInv

(* Every step keeps the invariant. *)
LEMMA KernelNext == KernelInv /\ [Next]_vars => KernelInv'
<1> SUFFICES ASSUME KernelInv, [Next]_vars PROVE KernelInv'
  OBVIOUS
<1>0. CountInv'
  BY CountNext DEF KernelInv
<1>1. ASSUME NEW c \in Senders, NEW t \in Threads, Send(c, t) PROVE KernelInv'
  BY <1>0, <1>1, RaiseCalls, RefusedCall DEF Callers
<1>2. ASSUME NEW c \in Senders, NEW t \in SignalThreads, RaiseSignal(c, t)
      PROVE  KernelInv'
  BY <1>0, <1>2, RaiseCalls, ThreadsAssumption DEF Callers
<1>3. ASSUME NEW c \in Stoppers, ShutDown(c) PROVE KernelInv'
  BY <1>0, <1>3, StopCalls DEF Callers
<1>4. ASSUME NEW c \in Callers, Wake(c) PROVE KernelInv'
  <2>1. CASE WakeThread(c)
    BY <1>0, <2>1, PlainCalls, WinCall
  <2>2. CASE QueueThread(c)
    BY <1>0, <2>2, QueueCall
  <2>3. CASE WakeCount(c) \/ WakeUncount(c)
    BY <1>0, <2>3, PlainCalls
  <2>4. CASE WakeSwap(c) \/ WakeSignal(c) \/ WakePipe(c)
    BY <1>0, <2>4, SwapCall, SignalCalls
  <2> QED BY <1>4, <2>1, <2>2, <2>3, <2>4 DEF Wake
<1>5. ASSUME NEW c \in Callers, ShuttingDown(c) PROVE KernelInv'
  <2>1. CASE ShutDownNewborn(c)
    <3> DEFINE t == Head(call[c].jobs).of
               rest == Tail(call[c].jobs)
    <3>1. \/ /\ home[t] = Nobody \/ Between(t)
             /\ shutdown_request' = [shutdown_request EXCEPT ![t] = TRUE]
             /\ call' = [call EXCEPT ![c].stage = "cas", ![c].thread = t, ![c].jobs = rest]
          \/ /\ home[t] # Nobody /\ call' = [call EXCEPT ![c].jobs = Tail(rest)]
             /\ UNCHANGED shutdown_request
      BY <2>1 DEF ShutDownNewborn
    <3>2. t \in Threads
      <4>1. call[c].jobs \in Seq(JobSet) /\ CallSound(call[c])
        BY DEF KernelInv, CountInv, CallsTyped, CallSet, CallsSound
      <4>2. call[c].stage = "next" /\ Head(call[c].jobs).do = "flag"
        BY <2>1 DEF ShutDownNewborn, Job
      <4>3. JobsSound(call[c].jobs) /\ call[c].jobs # <<>>
        BY <4>1, <4>2, Zenon DEF CallSound
      <4>4. JobTyped(Head(call[c].jobs))
        BY <4>1, <4>3, TailJobs
      <4> QED BY <4>2, <4>4 DEF JobTyped
    <3>3. CASE /\ home[t] = Nobody \/ Between(t)
               /\ shutdown_request' = [shutdown_request EXCEPT ![t] = TRUE]
               /\ call' = [call EXCEPT ![c].stage = "cas", ![c].thread = t, ![c].jobs = rest]
      BY <1>0, <2>1, <3>2, <3>3, RaiseCalls
    <3>4. CASE /\ home[t] # Nobody /\ call' = [call EXCEPT ![c].jobs = Tail(rest)]
               /\ UNCHANGED shutdown_request
      <4>1. Skips(c)
        BY <2>1, <3>4 DEF Skips
      <4> QED BY <1>0, <4>1, StopCalls
    <3> QED BY <3>1, <3>3, <3>4
  <2>2. CASE ShutDownWalk(c) \/ ShutDownOSThread(c) \/ ShutDownLeave(c)
    BY <1>0, <2>2, StopCalls
  <2> QED BY <1>5, <2>1, <2>2 DEF ShuttingDown
<1>6. ASSUME NEW o \in OSThreads, OSStep(o) \/ WaitRequest(o) PROVE KernelInv'
  <2>1. Kept(o)
    BY <1>6, PlaceSteps, TakeSteps, PollSteps, NoteSteps, ClearSteps, ManagerSteps,
       ContinueSteps DEF OSStep
  <2> QED BY <1>0, <2>1, KeptKeeps
<1>7. CASE UNCHANGED vars
  BY <1>0, <1>7, KernelStays
<1> QED BY <1>1, <1>2, <1>3, <1>4, <1>5, <1>6, <1>7 DEF Next

-----------------------------------------------------------------------------

(* No wake-up of an OS thread is lost, in a state of the invariant. *)
LEMMA KernelWakes == KernelInv => NoLostWakeup
<1> SUFFICES ASSUME KernelInv, NEW o \in OSThreads,
                    pc[o] = "asleep" \/ (pc[o] = "wait" /\ pipe[o] = 0)
             PROVE  /\ waiting_list[o] = <<>>
                    /\ thread_queue[o] # <<>> \/ os_shutdown[o] => Coming(o)
  BY DEF NoLostWakeup
<1>1. WakeSound(o)
  BY GoodIs
<1>2. ~(pc[o] = "wait" /\ pipe[o] > 0)
  OBVIOUS
<1>3. OnTheWay(o) \/ Signals(o) \/ Writes(o) => Coming(o)
  BY Zenon DEF OnTheWay, Signals, Writes, Coming
<1>4. waiting_list[o] = <<>>
  BY <1>1, Zenon DEF WakeSound
<1>5. CASE os_status[o] # "active"
  <2>1. pc[o] \in Committed /\ pc[o] \in Idling
    BY Zenon DEF Committed, Idling
  <2> QED BY <1>1, <1>3, <1>4, <1>5, <2>1, Zenon DEF WakeSound
<1>6. CASE os_status[o] = "active"
  <2>1. Signals(o) \/ Writes(o)
    BY <1>1, <1>2, <1>6, Zenon DEF WakeSound
  <2> QED BY <1>3, <1>4, <2>1
<1> QED BY <1>5, <1>6

(***************************************************************************)
(* An OS thread that blocks in s_execute, on its condition variable or in  *)
(* a poll with an empty pipe, has no thread ready to run, and a thread in  *)
(* its queue or a shutdown request only while a caller of                  *)
(* smt_os_thread_wake is on the way to wake it.                            *)
(***************************************************************************)
THEOREM WakeupsKept == Spec => []NoLostWakeup
  BY KernelInit, KernelNext, KernelWakes, PTL DEF Spec

(* No wake-up of a thread is lost, in a state of the invariant. *)
LEMMA KernelFinds == KernelInv => NoLostThread
<1> SUFFICES ASSUME KernelInv, NEW t \in Threads
             PROVE  /\ status[t] \in {"waiting", "active"} => Ready(t)
                    /\ status[t] = "sleeping" /\ Activity(t) => Ready(t) \/ Trying(t)
                    /\ status[t] = "pending" => blocked[t] \/ Ready(t)
  BY DEF NoLostThread
<1>1. Brought(t) => Ready(t)
  BY DEF Brought, Brings, Ready, Queueing
<1>2. Called(t) => Trying(t)
  BY DEF Called, Trying, Tried
<1>3. home[t] \in OSThreads \cup {Nobody}
  BY DEF KernelInv, CountInv, OSTyped
<1>4. CASE home[t] = Nobody
  <2>1. Homeless(t)
    BY <1>4 DEF KernelInv, NewSound
  <2> QED BY <1>1, <2>1 DEF Homeless, Ready
<1>5. ASSUME NEW o \in OSThreads, home[t] = o
      PROVE  /\ status[t] \in {"waiting", "active"} => Ready(t)
             /\ status[t] = "sleeping" /\ Activity(t) => Ready(t) \/ Trying(t)
             /\ status[t] = "pending" => blocked[t] \/ Ready(t)
  <2>1. Found(o, t)
    BY <1>5, GoodIs
  <2> QED BY <1>1, <1>2, <2>1 DEF Found, Ready
<1> QED BY <1>3, <1>4, <1>5

(***************************************************************************)
(* A thread marked as waiting or active is in a list of an OS thread, runs *)
(* on one, or is about to be queued by the caller who won its status; a    *)
(* thread that sleeps with a method, a signal or a shutdown to handle has  *)
(* a caller of smt_thread_wake who has yet to try its status, or is looked *)
(* at again; a pending one waits for a request.                            *)
(***************************************************************************)
THEOREM ThreadsKept == Spec => []NoLostThread
  BY KernelInit, KernelNext, KernelFinds, PTL DEF Spec

(* At a count of zero everybody sleeps, and no call is under way. *)
LEMMA ZeroCount ==
  ASSUME CountInv, active_count = 0
  PROVE  /\ \A o \in OSThreads : os_status[o] = "sleeping" /\ pc[o] \notin Extra
         /\ \A c \in Callers : call[c].stage # "swap" /\ call[c].jobs = <<>>
<1>1. /\ IsFiniteSet(AwakeOS) /\ IsFiniteSet(ExtraOS)
      /\ IsFiniteSet(InWake) /\ IsFiniteSet(InStop)
  <2>1. AwakeOS \subseteq OSThreads /\ ExtraOS \subseteq OSThreads
    BY DEF AwakeOS, ExtraOS
  <2>2. InWake \subseteq Callers /\ InStop \subseteq Callers
    BY Zenon DEF InWake, InStop
  <2> QED BY <2>1, <2>2, Finite, FS_Subset
<1>2. /\ Cardinality(AwakeOS) \in Nat /\ Cardinality(ExtraOS) \in Nat
      /\ Cardinality(InWake) \in Nat /\ Cardinality(InStop) \in Nat
  BY <1>1, FS_CardinalityType
<1>3. active_count = OSPart + CallPart
  BY Parts DEF CountInv
<1>4. /\ Cardinality(AwakeOS) = 0 /\ Cardinality(ExtraOS) = 0
      /\ Cardinality(InWake) = 0 /\ Cardinality(InStop) = 0
  BY <1>2, <1>3 DEF OSPart, CallPart
<1>5. AwakeOS = {} /\ ExtraOS = {} /\ InWake = {} /\ InStop = {}
  BY <1>1, <1>4, FS_EmptySet
<1>6. \A o \in OSThreads : os_status[o] = "sleeping" /\ pc[o] \notin Extra
  BY <1>5 DEF AwakeOS, ExtraOS
<1>7. \A c \in Callers : call[c].stage # "swap"
  BY <1>5, Zenon DEF InWake
<1>8. \A c \in Callers : call[c].jobs = <<>>
  BY <1>5 DEF InStop
<1> QED BY <1>6, <1>7, <1>8

(* Where an OS thread is that sleeps and has left the count. *)
LEMMA RestIs ==
  ASSUME NEW p \in Resting, p \notin Extra
  PROVE  /\ p \in Committed /\ p \notin RunPlaces \cup {"shutdown"}
         /\ p \notin {"clear sleeping", "commit sleeping"}
<1>1. p \in {"clear idle", "poll", "wait", "cond", "asleep", "inc"}
  BY Zenon DEF Resting, Extra
<1>2. p \in Committed
  BY <1>1, Zenon DEF Committed
<1>3. p \notin RunPlaces \cup {"shutdown"}
  BY <1>1, Zenon DEF RunPlaces
<1>4. p \notin {"clear sleeping", "commit sleeping"}
  BY Zenon DEF Extra
<1> QED BY <1>2, <1>3, <1>4, Zenon

(* The engine is at rest when the count is zero, in a state of the invariant. *)
LEMMA KernelRests == KernelInv => QuietAtZero
<1> SUFFICES ASSUME KernelInv, AtZero
             PROVE  /\ \A o \in OSThreads : /\ os_status[o] = "sleeping"
                                            /\ current[o] = Nobody
                                            /\ thread_queue[o] = <<>> /\ waiting_list[o] = <<>>
                    /\ \A t \in Threads : status[t] \notin {"waiting", "active"}
                    /\ ShutDownOver => \A t \in Threads \ missed :
                                          shutting_down[t] \/ status[t] = "zombie"
  BY DEF QuietAtZero, ShutDownOver
<1>0. active_count = 0 /\ \A c \in Callers : call[c].stage \notin {"queue", "inc"}
  BY DEF AtZero
<1>1. /\ \A o \in OSThreads : os_status[o] = "sleeping" /\ pc[o] \notin Extra
      /\ \A c \in Callers : call[c].stage # "swap" /\ call[c].jobs = <<>>
  BY <1>0, ZeroCount DEF KernelInv
<1>2. (\A t : ~Brought(t) /\ ~Flagged(t)) /\ \A o : ~OnTheWay(o)
  BY <1>0, <1>1 DEF Brought, Brings, Flagged, Flags, OnTheWay
<1>3. ASSUME NEW o \in OSThreads
      PROVE  current[o] = Nobody /\ thread_queue[o] = <<>> /\ waiting_list[o] = <<>>
  <2>1. /\ RunSound(o) /\ WakeSound(o) /\ os_status[o] = "sleeping"
        /\ pc[o] \in Resting /\ pc[o] \notin Extra
    BY <1>1, GoodIs
  <2>2. /\ pc[o] \in Committed /\ pc[o] \notin RunPlaces \cup {"shutdown"}
        /\ pc[o] \notin {"clear sleeping", "commit sleeping"}
    BY <2>1, RestIs, Zenon
  <2>3. current[o] = Nobody
    BY <2>1, <2>2, Zenon DEF RunSound
  <2>4. thread_queue[o] = <<>> /\ waiting_list[o] = <<>>
    BY <1>2, <2>1, <2>2, Zenon DEF WakeSound
  <2> QED BY <2>3, <2>4
<1>4. ToSet(<<>>) = {}
  BY DEF ToSet
<1>5. ASSUME NEW t \in Threads PROVE status[t] \notin {"waiting", "active"}
  <2>1. home[t] \in OSThreads \cup {Nobody}
    BY DEF KernelInv, CountInv, OSTyped
  <2>2. CASE home[t] = Nobody
    <3>1. Homeless(t)
      BY <2>2 DEF KernelInv, NewSound
    <3> QED BY <1>2, <1>3, <1>4, <3>1 DEF Homeless
  <2>3. ASSUME NEW o \in OSThreads, home[t] = o PROVE status[t] \notin {"waiting", "active"}
    <3>1. Found(o, t) /\ t # Nobody
      BY <2>3, GoodIs, ThreadsAssumption
    <3> QED BY <1>2, <1>3, <1>4, <3>1 DEF Found
  <2> QED BY <2>1, <2>2, <2>3
<1>6. ASSUME ShutDownOver, NEW t \in Threads \ missed
      PROVE  shutting_down[t] \/ status[t] = "zombie"
  <2>1. Hears(t) /\ Heard(t) /\ home[t] \in OSThreads \cup {Nobody}
    BY <1>6 DEF KernelInv, StopSound, Telling, CountInv, OSTyped, ShutDownOver
  <2>2. ~Walking /\ \A do, of : ~Due(do, of)
    BY <1>1 DEF Due, Walking
  <2>3. Warned(t)
    BY <1>6, <2>1, <2>2 DEF Hears, ShutDownOver
  <2> QED BY <1>2, <1>5, <2>1, <2>3 DEF Warned, Heard
<1> QED BY <1>1, <1>3, <1>5, <1>6

(***************************************************************************)
(* What smt_wait relies on: when the count of active OS threads is zero    *)
(* and no caller is about to count itself, every OS thread sleeps with     *)
(* empty lists, no thread waits or runs, and after a smt_shut_down that    *)
(* every OS thread has noticed every thread has been told or is gone, but  *)
(* for the new ones that its walk of their list has passed over.           *)
(***************************************************************************)
THEOREM RestAtZero == Spec => []QuietAtZero
  BY KernelInit, KernelNext, KernelRests, PTL DEF Spec

-----------------------------------------------------------------------------
(* Methods keep their order: MethodsOrdered. *)

(* A list of methods as the manager is to take them. *)
InOrder(s) ==
    \A i, j \in 1..Len(s) : i < j => /\ s[i].from = s[j].from => s[i].num < s[j].num
                                     /\ s[j].from \in Timers => s[i].from \in Timers

(* A set of natural numbers with a bound has a greatest element. *)
LEMMA MaxIs ==
  ASSUME NEW n \in Nat, NEW T \in SUBSET (0..n), T # {}
  PROVE  Max(T) \in T /\ \A y \in T : y <= Max(T)
<1> DEFINE R == {n - y : y \in T}
<1>1. R \in SUBSET Nat /\ R # {}
  <2>1. \A y \in T : y \in 0..n /\ n - y \in Nat
    OBVIOUS
  <2> QED BY <2>1
<1>2. PICK r \in R : \A q \in R : r <= q
  BY <1>1, LeastNat
<1>3. PICK x \in T : r = n - x
  BY <1>2
<1>4. \A y \in T : x >= y
  <2> TAKE y \in T
  <2>1. r <= n - y
    BY <1>2
  <2> QED BY <1>3, <2>1
<1>5. Max(T) \in T /\ \A y \in T : Max(T) >= y
  <2>1. \E z \in T : \A y \in T : z >= y
    BY <1>4
  <2> QED BY <2>1 DEF Max
<1>6. \A y \in T : y \in 0..n /\ y \in Nat
  OBVIOUS
<1>7. Max(T) \in Nat
  BY <1>5, <1>6
<1> QED BY <1>5, <1>6, <1>7

(* A younger method m takes place p of a list, behind every method it may not *)
(* overtake and before those of a lower priority.                             *)
LEMMA PlaceMethod ==
  ASSUME NEW s \in Seq(Methods), InOrder(s), NEW m \in Methods,
         \A i \in 1..Len(s) : s[i].num < m.num,
         NEW p \in 1..(Len(s) + 1),
         \A i \in 1..Len(s) : i < p => (m.from \in Timers => s[i].from \in Timers),
         \A i \in 1..Len(s) : i >= p => m.from \in Timers /\ s[i].from \notin Timers
  PROVE  /\ InsertAt(s, p, m) \in Seq(Methods) /\ InOrder(InsertAt(s, p, m))
         /\ \A i \in 1..Len(InsertAt(s, p, m)) :
               InsertAt(s, p, m)[i] = m \/ \E j \in 1..Len(s) : InsertAt(s, p, m)[i] = s[j]
<1>1. PICK r : r = InsertAt(s, p, m)
  OBVIOUS
<1>2. r \in Seq(Methods) /\ Len(r) = Len(s) + 1
  BY <1>1, InsertAtIs
<1>3. Len(s) \in Nat /\ p \in Nat /\ Len(r) \in Nat
  BY <1>2
<1>4. ASSUME NEW i \in 1..Len(r)
      PROVE  \/ i < p /\ i \in 1..Len(s) /\ r[i] = s[i]
             \/ i = p /\ r[i] = m
             \/ i > p /\ i - 1 \in 1..Len(s) /\ i - 1 >= p /\ r[i] = s[i - 1]
  <2>1. i \in 1..(Len(s) + 1)
    BY <1>2
  <2>2. CASE i < p
    <3>1. InsertAt(s, p, m)[i] = s[i]
      BY <2>1, <2>2, InsertAtIs
    <3> QED BY <1>1, <1>3, <2>1, <2>2, <3>1
  <2>3. CASE i = p
    <3>1. InsertAt(s, p, m)[i] = m
      BY <2>1, <2>3, InsertAtIs
    <3> QED BY <1>1, <2>3, <3>1
  <2>4. CASE i > p
    <3>1. InsertAt(s, p, m)[i] = s[i - 1]
      BY <1>3, <2>1, <2>4, InsertAtIs
    <3> QED BY <1>1, <1>3, <2>1, <2>4, <3>1
  <2> QED BY <1>3, <2>1, <2>2, <2>3, <2>4
<1>5. InOrder(r)
  <2> SUFFICES ASSUME NEW i \in 1..Len(r), NEW j \in 1..Len(r), i < j
               PROVE  /\ r[i].from = r[j].from => r[i].num < r[j].num
                      /\ r[j].from \in Timers => r[i].from \in Timers
    BY DEF InOrder
  <2>0. i \in Int /\ j \in Int
    BY <1>3
  <2>1. CASE i < p /\ i \in 1..Len(s) /\ r[i] = s[i]
    <3>1. CASE j < p /\ j \in 1..Len(s) /\ r[j] = s[j]
      BY <2>1, <3>1 DEF InOrder
    <3>2. CASE j = p /\ r[j] = m
      BY <2>1, <3>2
    <3>3. CASE j > p /\ j - 1 \in 1..Len(s) /\ j - 1 >= p /\ r[j] = s[j - 1]
      <4>1. i < j - 1
        BY <1>3, <2>0, <2>1, <3>3
      <4> QED BY <2>1, <3>3, <4>1 DEF InOrder
    <3> QED BY <1>4, <3>1, <3>2, <3>3
  <2>2. CASE i = p /\ r[i] = m
    <3>1. j > p /\ j - 1 \in 1..Len(s) /\ j - 1 >= p /\ r[j] = s[j - 1]
      BY <1>3, <1>4, <2>0, <2>2
    <3>2. m.from \in Timers /\ s[j - 1].from \notin Timers
      BY <3>1
    <3> QED BY <2>2, <3>1, <3>2
  <2>3. CASE i > p /\ i - 1 \in 1..Len(s) /\ i - 1 >= p /\ r[i] = s[i - 1]
    <3>1. j > p /\ j - 1 \in 1..Len(s) /\ r[j] = s[j - 1]
      BY <1>3, <1>4, <2>0, <2>3
    <3>2. i - 1 < j - 1
      BY <2>0
    <3> QED BY <2>3, <3>1, <3>2 DEF InOrder
  <2> QED BY <1>4, <2>1, <2>2, <2>3
<1>6. \A i \in 1..Len(r) : r[i] = m \/ \E j \in 1..Len(s) : r[i] = s[j]
  BY <1>4
<1> QED BY <1>1, <1>2, <1>5, <1>6

(* Where a method goes: after the last one that is not of a lower priority. *)
LEMMA InsertPoint ==
  ASSUME NEW s \in Seq(Methods), NEW m \in Methods
  PROVE  \E p \in 1..(Len(s) + 1) :
            /\ InsertMethod(s, m) = InsertAt(s, p, m)
            /\ p > 1 /\ m.from \in Timers => s[p - 1].from \in Timers
            /\ \A i \in 1..Len(s) : i >= p => m.from \in Timers /\ s[i].from \notin Timers
<1> DEFINE T == {i \in 1..Len(s) : m.from \in Timers => s[i].from \in Timers} \cup {0}
<1>1. PICK k \in 0..Len(s) : k = Max(T) /\ k \in T /\ \A y \in T : y <= k
  <2>1. Len(s) \in Nat /\ T \in SUBSET (0..Len(s)) /\ T # {}
    OBVIOUS
  <2> HIDE DEF T
  <2>2. Max(T) \in T /\ \A y \in T : y <= Max(T)
    BY <2>1, MaxIs
  <2> QED BY <2>1, <2>2
<1>2. PICK p \in 1..(Len(s) + 1) : p = k + 1
  <2>1. Len(s) \in Nat /\ k + 1 \in 1..(Len(s) + 1)
    BY <1>1
  <2> QED BY <2>1
<1>3. InsertMethod(s, m) = InsertAt(s, p, m)
  BY <1>1, <1>2 DEF InsertMethod
<1>4. p > 1 /\ m.from \in Timers => s[p - 1].from \in Timers
  <2>1. p - 1 = k /\ (p > 1 => k # 0)
    BY <1>1, <1>2
  <2> QED BY <1>1, <2>1
<1>5. \A i \in 1..Len(s) : i >= p => m.from \in Timers /\ s[i].from \notin Timers
  <2> TAKE i \in 1..Len(s)
  <2>1. i \in T => i <= k
    BY <1>1
  <2>2. i >= p => i \notin T
    BY <1>1, <1>2, <2>1
  <2> QED BY <2>2
<1> HIDE DEF T
<1> QED BY <1>3, <1>4, <1>5

(* A younger method joins the list: it comes after every method that is not of *)
(* a lower priority, and so after all of its sender.                           *)
LEMMA InsertMethodIs ==
  ASSUME NEW s \in Seq(Methods), NEW m \in Methods
  PROVE  /\ InsertMethod(s, m) \in Seq(Methods)
         /\ InOrder(s) /\ (\A i \in 1..Len(s) : s[i].num < m.num) =>
              /\ InOrder(InsertMethod(s, m))
              /\ \A i \in 1..Len(InsertMethod(s, m)) :
                    \/ InsertMethod(s, m)[i] = m
                    \/ \E j \in 1..Len(s) : InsertMethod(s, m)[i] = s[j]
<1>1. PICK p \in 1..(Len(s) + 1) :
            /\ InsertMethod(s, m) = InsertAt(s, p, m)
            /\ p > 1 /\ m.from \in Timers => s[p - 1].from \in Timers
            /\ \A i \in 1..Len(s) : i >= p => m.from \in Timers /\ s[i].from \notin Timers
  BY InsertPoint
<1>2. InsertMethod(s, m) \in Seq(Methods)
  <2>1. InsertAt(s, p, m) \in Seq(Methods)
    BY InsertAtIs
  <2> QED BY <1>1, <2>1
<1>3. ASSUME InOrder(s), \A i \in 1..Len(s) : s[i].num < m.num
      PROVE  /\ InOrder(InsertAt(s, p, m))
             /\ \A i \in 1..Len(InsertAt(s, p, m)) :
                   InsertAt(s, p, m)[i] = m \/ \E j \in 1..Len(s) : InsertAt(s, p, m)[i] = s[j]
  <2>1. \A i \in 1..Len(s) : i < p => (m.from \in Timers => s[i].from \in Timers)
    <3> TAKE i \in 1..Len(s)
    <3> SUFFICES ASSUME i < p, m.from \in Timers PROVE s[i].from \in Timers
      OBVIOUS
    <3>1. p > 1 /\ p - 1 \in 1..Len(s) /\ (i = p - 1 \/ i < p - 1)
      OBVIOUS
    <3>2. s[p - 1].from \in Timers
      BY <1>1, <3>1
    <3> QED BY <1>3, <3>1, <3>2 DEF InOrder
  <2> QED BY <1>1, <1>3, <2>1, PlaceMethod
<1> QED BY <1>1, <1>2, <1>3

(* A list s and a queue q behind it: the queue is in the order of posting, and *)
(* everything in the list was posted before.                                   *)
Younger(s, q) ==
    /\ \A i \in 1..Len(s), j \in 1..Len(q) : s[i].num < q[j].num
    /\ \A i, j \in 1..Len(q) : i < j => q[i].num < q[j].num

(* The methods of r are of the list s and of the first n of the queue q. *)
TakenFrom(r, s, q, n) ==
    \A i \in 1..Len(r) : \/ \E j \in 1..Len(s) : r[i] = s[j]
                         \/ \E j \in 1..n : r[i] = q[j]

(* All that is in the queue is collected into the list. *)
LEMMA CollectedIs ==
  ASSUME NEW t, NEW s \in Seq(Methods), NEW q \in Seq(Methods),
         s = reply_list[t], q = reply_queue[t], InOrder(s), Younger(s, q)
  PROVE  /\ Collected(t) \in Seq(Methods) /\ InOrder(Collected(t))
         /\ TakenFrom(Collected(t), s, q, Len(q))
<1> DEFINE n == Len(q)
           V == Seq(Methods)
           Step(v, i) == InsertMethod(v, q[i])
           G == [vi \in V \X (1..n) |-> Step(vi[1], vi[2])]
<1>0. n \in Nat /\ \A i \in 1..n : q[i] \in Methods
  OBVIOUS
<1>1. ASSUME NEW v \in V, NEW i \in 1..n PROVE Step(v, i) \in V
  BY <1>0, InsertMethodIs
<1> HIDE DEF Step
<1>2. Stays(G, V, n)
  BY <1>1 DEF Stays
<1> HIDE DEF n, G
<1>3. PICK f : Iterates(f, G, V, n, s)
  BY <1>0, <1>2, RecExists
<1>4. /\ f \in [0..n -> V] /\ f[0] = s
      /\ \A i \in 1..n : f[i] = G[<<f[i - 1], i>>]
  BY <1>3 DEF Iterates
<1>5. \A i \in 1..n : f[i] = Step(f[i - 1], i)
  <2> TAKE i \in 1..n
  <2>1. f[i - 1] \in V
    BY <1>0, <1>4
  <2>2. <<f[i - 1], i>> \in V \X (1..n)
    BY <2>1
  <2> QED BY <1>4, <2>2 DEF G
<1> DEFINE P(h) == h = [i \in 0..n |-> IF i = 0 THEN s ELSE Step(h[i - 1], i)]
<1>6. P(f)
  BY <1>0, <1>4, <1>5
<1> DEFINE A == CHOOSE h : P(h)
<1>7. P(A)
  BY <1>6
<1>8. Collected(t) = A[n]
  <2>1. A = CHOOSE h : h = [i \in 0..n |-> IF i = 0 THEN s ELSE InsertMethod(h[i - 1], q[i])]
    BY DEF Step
  <2> QED BY <2>1 DEF Collected, n
<1> HIDE DEF A
<1> DEFINE T == {m \in Nat : m <= n => /\ A[m] \in V /\ InOrder(A[m])
                                       /\ TakenFrom(A[m], s, q, m)}
<1>9. 0 \in T
  <2>1. A[0] = s
    BY <1>0, <1>7
  <2>2. TakenFrom(s, s, q, 0)
    BY DEF TakenFrom
  <2> QED BY <2>1, <2>2
<1>10. ASSUME NEW m \in T PROVE m + 1 \in T
  <2> SUFFICES ASSUME m + 1 <= n
               PROVE  /\ A[m + 1] \in V /\ InOrder(A[m + 1])
                      /\ TakenFrom(A[m + 1], s, q, m + 1)
    OBVIOUS
  <2>1. /\ m + 1 \in 1..n /\ m + 1 \in 0..n /\ (m + 1) - 1 = m /\ m + 1 # 0
        /\ m <= n /\ m \in Nat
    BY <1>0
  <2>2. A[m] \in V /\ InOrder(A[m]) /\ TakenFrom(A[m], s, q, m)
    BY <2>1
  <2>3. PICK x \in Methods : x = q[m + 1]
    BY <1>0, <2>1
  <2>4. A[m + 1] = InsertMethod(A[m], x)
    BY <1>7, <2>1, <2>3 DEF Step
  <2>5. \A i \in 1..Len(A[m]) : A[m][i].num < x.num
    <3> TAKE i \in 1..Len(A[m])
    <3>1. CASE \E j \in 1..Len(s) : A[m][i] = s[j]
      BY <2>1, <2>3, <3>1 DEF Younger, n
    <3>2. ASSUME NEW j \in 1..m, A[m][i] = q[j] PROVE A[m][i].num < x.num
      <4>1. j \in 1..n /\ j < m + 1
        BY <1>0, <2>1
      <4> QED BY <2>1, <2>3, <3>2, <4>1 DEF Younger, n
    <3> QED BY <2>2, <3>1, <3>2 DEF TakenFrom
  <2>6. PICK a \in V : a = A[m]
    BY <2>2
  <2>7. PICK b : b = InsertMethod(a, x)
    OBVIOUS
  <2>8. b \in V /\ InOrder(b)
        /\ \A i \in 1..Len(b) : b[i] = x \/ \E j \in 1..Len(a) : b[i] = a[j]
    BY <2>2, <2>5, <2>6, <2>7, InsertMethodIs
  <2>9. TakenFrom(b, s, q, m + 1)
    <3> SUFFICES ASSUME NEW i \in 1..Len(b)
                 PROVE  \/ \E j \in 1..Len(s) : b[i] = s[j]
                        \/ \E j \in 1..(m + 1) : b[i] = q[j]
      BY DEF TakenFrom
    <3>1. CASE b[i] = x
      <4>1. m + 1 \in 1..(m + 1)
        BY <2>1
      <4> QED BY <2>3, <3>1, <4>1
    <3>2. ASSUME NEW k \in 1..Len(a), b[i] = a[k]
          PROVE  \/ \E j \in 1..Len(s) : b[i] = s[j]
                 \/ \E j \in 1..(m + 1) : b[i] = q[j]
      <4>1. \/ \E j \in 1..Len(s) : a[k] = s[j]
            \/ \E j \in 1..m : a[k] = q[j]
        BY <2>2, <2>6 DEF TakenFrom
      <4>2. \A j \in 1..m : j \in 1..(m + 1)
        BY <2>1
      <4> QED BY <3>2, <4>1, <4>2
    <3> QED BY <2>8, <3>1, <3>2
  <2> QED BY <2>4, <2>6, <2>7, <2>8, <2>9
<1>11. n \in T
  <2> HIDE DEF T
  <2>1. T \in SUBSET Nat
    BY DEF T
  <2> QED BY <1>0, <1>9, <1>10, <2>1, NatInd
<1>12. A[n] \in V /\ InOrder(A[n]) /\ TakenFrom(A[n], s, q, n)
  BY <1>0, <1>11
<1> QED BY <1>8, <1>12 DEF n

(* A list and a queue of a thread after n calls. *)
QueueSound(s, q, n) ==
    /\ InOrder(s) /\ Younger(s, q)
    /\ \A i \in 1..Len(s) : s[i].num <= n
    /\ \A i \in 1..Len(q) : q[i].num <= n

MadeSet == [calls : Nat, signals : Nat, blocks : Nat]
Modules == {"start", "inside", "done"}

(* The inductive invariant of the method queues. *)
MethodInv ==
    /\ made \in MadeSet /\ module \in [Threads -> Modules]
    /\ reply_list \in [Threads -> Seq(Methods)] /\ reply_queue \in [Threads -> Seq(Methods)]
    /\ \A t \in Threads : QueueSound(reply_list[t], reply_queue[t], made.calls)

(* A method number is a natural number. *)
LEMMA NumIs ==
  ASSUME NEW s \in Seq(Methods), NEW i \in 1..Len(s)
  PROVE  s[i].num \in Nat
<1>1. s[i] \in Methods
  BY ElementIs
<1> QED BY <1>1 DEF Methods

(* More calls leave the queues as they are. *)
LEMMA MoreCalls ==
  ASSUME NEW s \in Seq(Methods), NEW q \in Seq(Methods), NEW n \in Nat, NEW k \in Nat,
         n <= k, QueueSound(s, q, n)
  PROVE  QueueSound(s, q, k)
<1>1. \A i \in 1..Len(s) : s[i].num <= k
  <2> TAKE i \in 1..Len(s)
  <2>1. s[i].num \in Nat /\ s[i].num <= n
    BY NumIs DEF QueueSound
  <2> QED BY <2>1
<1>2. \A i \in 1..Len(q) : q[i].num <= k
  <2> TAKE i \in 1..Len(q)
  <2>1. q[i].num \in Nat /\ q[i].num <= n
    BY NumIs DEF QueueSound
  <2> QED BY <2>1
<1> QED BY <1>1, <1>2 DEF QueueSound

(* A call posts a method with the next number. *)
LEMMA PostMethod ==
  ASSUME NEW s \in Seq(Methods), NEW q \in Seq(Methods), NEW n \in Nat,
         QueueSound(s, q, n), NEW m \in Methods, m.num = n + 1
  PROVE  Append(q, m) \in Seq(Methods) /\ QueueSound(s, Append(q, m), n + 1)
<1>1. PICK r : r = Append(q, m)
  OBVIOUS
<1>2. /\ r \in Seq(Methods) /\ Len(r) = Len(q) + 1 /\ r[Len(q) + 1] = m
      /\ \A i \in 1..Len(q) : r[i] = q[i]
  <2>1. /\ Append(q, m) \in Seq(Methods) /\ Len(Append(q, m)) = Len(q) + 1
        /\ Append(q, m)[Len(q) + 1] = m
        /\ \A i \in 1..Len(q) : Append(q, m)[i] = q[i]
    BY AppendIs
  <2> QED BY <1>1, <2>1
<1>3. Len(q) \in Nat /\ Len(s) \in Nat
  OBVIOUS
<1>4. /\ \A i \in 1..Len(s) : s[i].num \in Nat /\ s[i].num <= n
      /\ \A i \in 1..Len(q) : q[i].num \in Nat /\ q[i].num <= n
  BY NumIs DEF QueueSound
<1>5. \A i \in 1..Len(r) : \/ i \in 1..Len(q) /\ r[i] = q[i]
                           \/ i = Len(q) + 1 /\ r[i].num = n + 1
  <2> TAKE i \in 1..Len(r)
  <2>1. i \in 1..Len(q) \/ i = Len(q) + 1
    BY <1>2, <1>3
  <2>2. CASE i \in 1..Len(q)
    <3>1. r[i] = q[i]
      BY <1>2, <2>2
    <3> QED BY <2>2, <3>1
  <2>3. CASE i = Len(q) + 1
    BY <1>2, <2>3
  <2> QED BY <2>1, <2>2, <2>3
<1>6. \A i \in 1..Len(s), j \in 1..Len(r) : s[i].num < r[j].num
  <2> TAKE i \in 1..Len(s), j \in 1..Len(r)
  <2>1. CASE j \in 1..Len(q) /\ r[j] = q[j]
    BY <2>1 DEF QueueSound, Younger
  <2>2. CASE r[j].num = n + 1
    BY <1>4, <2>2
  <2> QED BY <1>5, <2>1, <2>2
<1>7. \A i, j \in 1..Len(r) : i < j => r[i].num < r[j].num
  <2> SUFFICES ASSUME NEW i \in 1..Len(r), NEW j \in 1..Len(r), i < j
               PROVE  r[i].num < r[j].num
    OBVIOUS
  <2>1. i \in 1..Len(q) /\ r[i] = q[i]
    BY <1>2, <1>3, <1>5
  <2>2. CASE j \in 1..Len(q) /\ r[j] = q[j]
    BY <2>1, <2>2 DEF QueueSound, Younger
  <2>3. CASE r[j].num = n + 1
    BY <1>4, <2>1, <2>3
  <2> QED BY <1>5, <2>2, <2>3
<1>8. \A i \in 1..Len(r) : r[i].num <= n + 1
  <2> TAKE i \in 1..Len(r)
  <2>1. CASE i \in 1..Len(q) /\ r[i] = q[i]
    BY <1>4, <2>1
  <2>2. CASE r[i].num = n + 1
    BY <2>2
  <2> QED BY <1>5, <2>1, <2>2
<1>9. \A i \in 1..Len(s) : s[i].num <= n + 1
  BY <1>4
<1> QED BY <1>1, <1>2, <1>6, <1>7, <1>8, <1>9 DEF QueueSound, Younger

(* The manager takes the first of the methods collected. *)
LEMMA TakeMethod ==
  ASSUME NEW t, NEW s \in Seq(Methods), NEW q \in Seq(Methods), NEW n \in Nat,
         s = reply_list[t], q = reply_queue[t], QueueSound(s, q, n), Collected(t) # <<>>
  PROVE  Tail(Collected(t)) \in Seq(Methods) /\ QueueSound(Tail(Collected(t)), <<>>, n)
<1>1. PICK a : a = Collected(t)
  OBVIOUS
<1>2. a \in Seq(Methods) /\ InOrder(a) /\ TakenFrom(a, s, q, Len(q)) /\ a # <<>>
  BY <1>1, CollectedIs DEF QueueSound
<1>3. PICK r : r = Tail(a)
  OBVIOUS
<1>4. /\ r \in Seq(Methods) /\ Len(a) \in Nat /\ Len(r) = Len(a) - 1
      /\ \A i \in 1..(Len(a) - 1) : r[i] = a[i + 1]
  BY <1>2, <1>3, TailIs
<1>5. ASSUME NEW i \in 1..Len(r) PROVE i + 1 \in 1..Len(a) /\ r[i] = a[i + 1]
  <2>1. i \in 1..(Len(a) - 1) /\ i + 1 \in 1..Len(a)
    BY <1>4
  <2> QED BY <1>4, <2>1
<1>6. InOrder(r)
  <2> SUFFICES ASSUME NEW i \in 1..Len(r), NEW j \in 1..Len(r), i < j
               PROVE  /\ r[i].from = r[j].from => r[i].num < r[j].num
                      /\ r[j].from \in Timers => r[i].from \in Timers
    BY DEF InOrder
  <2>1. i + 1 < j + 1
    BY <1>4
  <2> QED BY <1>2, <1>5, <2>1 DEF InOrder
<1>7. ASSUME NEW i \in 1..Len(r) PROVE r[i].num <= n
  <2>1. \/ \E j \in 1..Len(s) : a[i + 1] = s[j]
        \/ \E j \in 1..Len(q) : a[i + 1] = q[j]
    BY <1>2, <1>5 DEF TakenFrom
  <2> QED BY <1>5, <2>1 DEF QueueSound
<1>8. Younger(r, <<>>) /\ \A i \in 1..Len(<<>>) : <<>>[i].num <= n
  BY DEF Younger
<1> QED BY <1>1, <1>3, <1>4, <1>6, <1>7, <1>8 DEF QueueSound

(* An empty list and an empty queue. *)
LEMMA NoMethods ==
  ASSUME NEW n
  PROVE  <<>> \in Seq(Methods) /\ QueueSound(<<>>, <<>>, n)
  BY DEF QueueSound, InOrder, Younger

(* Steps that leave the methods alone. *)
MethodsAlone == made' = made /\ reply_list' = reply_list /\ reply_queue' = reply_queue
                /\ module' = module

(* Every step but those of a caller that begins and of the manager. *)
LEMMA OthersAlone ==
  ASSUME \/ \E c \in Stoppers : ShutDown(c)
         \/ \E c \in Callers : Wake(c) \/ ShuttingDown(c)
         \/ \E o \in OSThreads :
               \/ ClearQueues(o) \/ ClearDone(o) \/ Choose(o) \/ Retire(o)
               \/ CommitPolling(o) \/ CommitSleeping(o)
               \/ Poll(o) \/ WaitPipe(o) \/ CondWait(o) \/ CountIn(o) \/ SwapIn(o)
               \/ CountOut(o) \/ Pick(o) \/ Sweep(o) \/ NoteShutdown(o)
               \/ ManagerPending(o) \/ ManagerPoll(o)
               \/ Continue(o) \/ Park(o) \/ Sleep(o) \/ Recheck(o) \/ WaitRequest(o)
         \/ UNCHANGED vars
  PROVE  MethodsAlone
<1>1. ASSUME NEW c \in Stoppers, ShutDown(c) PROVE MethodsAlone
  BY <1>1 DEF ShutDown, threadVars, MethodsAlone
<1>2. ASSUME NEW c \in Callers, Wake(c) PROVE MethodsAlone
  BY <1>2, Zenon DEF Wake, WakeThread, QueueThread, WakeCount, WakeSwap, WakeSignal, WakeUncount,
              WakePipe, threadVars, MethodsAlone
<1>3. ASSUME NEW c \in Callers, ShuttingDown(c) PROVE MethodsAlone
  BY <1>3, Zenon DEF ShuttingDown, ShutDownWalk, ShutDownNewborn, ShutDownOSThread,
              ShutDownLeave, threadVars, MethodsAlone
<1>4. ASSUME NEW o \in OSThreads,
             \/ ClearQueues(o) \/ ClearDone(o) \/ Choose(o) \/ Retire(o)
             \/ CommitPolling(o) \/ CommitSleeping(o)
      PROVE  MethodsAlone
  BY <1>4, Zenon DEF ClearQueues, ClearDone, Choose, Retire, CommitPolling, CommitSleeping,
              LookUnchanged, threadVars, MethodsAlone
<1>5. ASSUME NEW o \in OSThreads,
             \/ Poll(o) \/ WaitPipe(o) \/ CondWait(o) \/ CountIn(o) \/ SwapIn(o)
             \/ CountOut(o) \/ Pick(o) \/ Sweep(o) \/ NoteShutdown(o)
      PROVE  MethodsAlone
  BY <1>5, Zenon DEF Poll, WaitPipe, CondWait, CountIn, SwapIn, CountOut, Pick, Sweep, NoteShutdown,
              LookUnchanged, PollUnchanged, threadVars, MethodsAlone
<1>6. ASSUME NEW o \in OSThreads,
             \/ ManagerPending(o) \/ ManagerPoll(o)
             \/ Continue(o) \/ Park(o) \/ Sleep(o) \/ Recheck(o) \/ WaitRequest(o)
      PROVE  MethodsAlone
  BY <1>6, Zenon DEF ManagerPending, ManagerPoll, Continue, Park, Sleep, Recheck, WaitRequest,
              PollUnchanged, ContinueUnchanged, ManagerUnchanged, threadVars, MethodsAlone
<1>7. CASE UNCHANGED vars
  BY <1>7 DEF vars, threadVars, MethodsAlone
<1> QED BY <1>1, <1>2, <1>3, <1>4, <1>5, <1>6, <1>7

(* The methods are kept when nothing touches them. *)
LEMMA AloneKeeps == MethodInv /\ MethodsAlone => MethodInv'
  BY DEF MethodInv, MethodsAlone

(* A method is posted, or refused by a thread that is gone. *)
LEMMA SendKeeps ==
  ASSUME MethodInv, NEW c \in Senders, NEW t \in Threads, Send(c, t)
  PROVE  MethodInv'
<1>1. PICK n \in Nat : n = made.calls
  BY DEF MethodInv, MadeSet
<1>2. made' \in MadeSet /\ made'.calls = n + 1 /\ n < MaxCalls
  <2>1. made' = [made EXCEPT !.calls = n + 1] /\ n < MaxCalls
    BY <1>1 DEF Send
  <2>2. n + 1 \in Nat /\ made \in MadeSet
    BY DEF MethodInv
  <2> QED BY <2>1, <2>2 DEF MadeSet
<1>3. reply_list' = reply_list /\ module' = module
  BY DEF Send
<1>4. ASSUME NEW u \in Threads, reply_queue'[u] = reply_queue[u]
      PROVE  QueueSound(reply_list'[u], reply_queue'[u], made'.calls)
  <2>1. /\ reply_list[u] \in Seq(Methods) /\ reply_queue[u] \in Seq(Methods)
        /\ QueueSound(reply_list[u], reply_queue[u], n)
    BY <1>1 DEF MethodInv
  <2>2. n + 1 \in Nat /\ n <= n + 1
    OBVIOUS
  <2>3. QueueSound(reply_list[u], reply_queue[u], n + 1)
    BY <2>1, <2>2, MoreCalls
  <2> QED BY <1>2, <1>3, <1>4, <2>3
<1>5. CASE status[t] = "zombie"
  <2>1. reply_queue' = reply_queue
    BY <1>5 DEF Send
  <2> QED BY <1>2, <1>3, <1>4, <2>1 DEF MethodInv
<1>6. CASE status[t] # "zombie"
  <2>1. PICK m : m = [from |-> c, num |-> n + 1]
    OBVIOUS
  <2>2. m \in Methods /\ m.num = n + 1
    <3>1. n + 1 \in 1..MaxCalls
      BY <1>2, ThreadsAssumption
    <3> QED BY <2>1, <3>1 DEF Methods
  <2>3. reply_queue' = [reply_queue EXCEPT ![t] = Append(@, m)]
    BY <1>1, <1>6, <2>1 DEF Send
  <2>4. /\ reply_list[t] \in Seq(Methods) /\ reply_queue[t] \in Seq(Methods)
        /\ QueueSound(reply_list[t], reply_queue[t], n)
        /\ reply_queue \in [Threads -> Seq(Methods)]
    BY <1>1 DEF MethodInv
  <2>5. /\ Append(reply_queue[t], m) \in Seq(Methods)
        /\ QueueSound(reply_list[t], Append(reply_queue[t], m), n + 1)
    BY <2>2, <2>4, PostMethod
  <2>6. /\ reply_queue' \in [Threads -> Seq(Methods)]
        /\ reply_queue'[t] = Append(reply_queue[t], m)
        /\ \A u \in Threads : u # t => reply_queue'[u] = reply_queue[u]
    BY <2>3, <2>4, <2>5
  <2>7. ASSUME NEW u \in Threads
        PROVE  QueueSound(reply_list'[u], reply_queue'[u], made'.calls)
    BY <1>2, <1>3, <1>4, <2>5, <2>6
  <2> QED BY <1>2, <1>3, <2>6, <2>7 DEF MethodInv
<1> QED BY <1>5, <1>6

(* A signal counts as a call. *)
LEMMA SignalKeeps ==
  ASSUME MethodInv, NEW c \in Senders, NEW t \in SignalThreads, RaiseSignal(c, t)
  PROVE  MethodInv'
<1>1. PICK n \in Nat : n = made.calls
  BY DEF MethodInv, MadeSet
<1>2. made' \in MadeSet /\ made'.calls = n + 1
  <2>1. made' = [made EXCEPT !.calls = n + 1, !.signals = @ + 1]
    BY <1>1 DEF RaiseSignal
  <2>2. n + 1 \in Nat /\ made \in MadeSet /\ made.signals + 1 \in Nat
    BY DEF MethodInv, MadeSet
  <2> QED BY <2>1, <2>2 DEF MadeSet
<1>3. reply_list' = reply_list /\ reply_queue' = reply_queue /\ module' = module
  BY DEF RaiseSignal
<1>4. ASSUME NEW u \in Threads
      PROVE  QueueSound(reply_list[u], reply_queue[u], n + 1)
  <2>1. /\ reply_list[u] \in Seq(Methods) /\ reply_queue[u] \in Seq(Methods)
        /\ QueueSound(reply_list[u], reply_queue[u], n)
    BY <1>1 DEF MethodInv
  <2>2. n + 1 \in Nat /\ n <= n + 1
    OBVIOUS
  <2> QED BY <2>1, <2>2, MoreCalls
<1> QED BY <1>2, <1>3, <1>4 DEF MethodInv

(* The manager runs a thread with the methods list and queue left to it. *)
LEMMA ExecuteKeeps ==
  ASSUME MethodInv, NEW o, NEW t, NEW list \in Seq(Methods), NEW queue \in Seq(Methods),
         t \in Threads => QueueSound(list, queue, made.calls),
         Execute(o, t, list, queue)
  PROVE  MethodInv'
<1>1. made' \in MadeSet /\ made'.calls = made.calls
  <2>1. made \in MadeSet
    BY DEF MethodInv
  <2>2. CASE made' = made
    BY <2>1, <2>2
  <2>3. CASE made' = [made EXCEPT !.blocks = @ + 1]
    BY <2>1, <2>3 DEF MadeSet
  <2> QED BY <2>2, <2>3 DEF Execute, Finish, Block, Stop
<1>2. module' \in [Threads -> Modules]
  <2>1. module \in [Threads -> Modules]
    BY DEF MethodInv
  <2>2. PICK p \in Modules : module' = [module EXCEPT ![t] = p]
    BY DEF Execute, Finish, Block, Stop, Modules
  <2> QED BY <2>1, <2>2
<1>3. <<>> \in Seq(Methods) /\ QueueSound(<<>>, <<>>, made.calls)
  BY NoMethods
<1>4. PICK l \in Seq(Methods), q \in Seq(Methods) :
         /\ t \in Threads => QueueSound(l, q, made.calls)
         /\ Keep(t, l, q)
  BY <1>3 DEF Execute
<1>5. /\ reply_list \in [Threads -> Seq(Methods)] /\ reply_queue \in [Threads -> Seq(Methods)]
      /\ \A u \in Threads : QueueSound(reply_list[u], reply_queue[u], made.calls)
  BY DEF MethodInv
<1>6. /\ reply_list' \in [Threads -> Seq(Methods)] /\ reply_queue' \in [Threads -> Seq(Methods)]
      /\ t \in Threads => reply_list'[t] = l /\ reply_queue'[t] = q
      /\ \A u \in Threads : u # t => reply_list'[u] = reply_list[u]
                                     /\ reply_queue'[u] = reply_queue[u]
  BY <1>4, <1>5 DEF Keep
<1>7. ASSUME NEW u \in Threads PROVE QueueSound(reply_list'[u], reply_queue'[u], made'.calls)
  BY <1>1, <1>4, <1>5, <1>6
<1> QED BY <1>1, <1>2, <1>6, <1>7 DEF MethodInv

(* The steps of the manager; the thread it runs is one of its own. *)
LEMMA ManagerKeeps ==
  ASSUME MethodInv, NEW o \in OSThreads, current[o] \in Threads \cup {Nobody},
         pc[o] = "manager" => current[o] \in Threads,
         ManagerEvent(o) \/ ManagerMethod(o) \/ ManagerEmpty(o)
  PROVE  MethodInv'
<1>1. PICK t \in Threads : t = current[o]
  BY DEF ManagerEvent, ManagerMethod, ManagerEmpty
<1>2. PICK s \in Seq(Methods) : s = reply_list[t]
  BY DEF MethodInv
<1>3. PICK q \in Seq(Methods) : q = reply_queue[t]
  BY DEF MethodInv
<1>4. PICK n \in Nat : n = made.calls
  BY DEF MethodInv, MadeSet
<1>5. QueueSound(s, q, n)
  BY <1>2, <1>3, <1>4 DEF MethodInv
<1>6. CASE ManagerEvent(o)
  <2>1. Execute(o, t, s, q)
    BY <1>1, <1>2, <1>3, <1>6 DEF ManagerEvent
  <2> QED BY <1>4, <1>5, <2>1, ExecuteKeeps
<1>7. CASE ManagerMethod(o)
  <2>1. Collected(t) # <<>> /\ Execute(o, t, Tail(Collected(t)), <<>>)
    BY <1>1, <1>7 DEF ManagerMethod
  <2>2. Tail(Collected(t)) \in Seq(Methods) /\ QueueSound(Tail(Collected(t)), <<>>, n)
    BY <1>2, <1>3, <1>5, <2>1, TakeMethod
  <2>3. <<>> \in Seq(Methods)
    BY NoMethods
  <2> QED BY <1>4, <2>1, <2>2, <2>3, ExecuteKeeps
<1>8. CASE ManagerEmpty(o)
  <2>1. /\ reply_list' = reply_list /\ reply_queue' = reply_queue /\ made' = made
        /\ module' = [module EXCEPT ![t] = "done"]
    BY <1>1, <1>8 DEF ManagerEmpty, Finish
  <2>2. module' \in [Threads -> Modules]
    BY <2>1 DEF MethodInv, Modules
  <2> QED BY <2>1, <2>2 DEF MethodInv
<1> QED BY <1>6, <1>7, <1>8

(* At the start nothing is posted. *)
LEMMA MethodInit == Init => MethodInv
<1> SUFFICES ASSUME Init PROVE MethodInv
  OBVIOUS
<1>1. made \in MadeSet
  BY DEF Init, MadeSet
<1>2. module \in [Threads -> Modules]
  BY DEF Init, Modules
<1>3. \A t \in Threads : reply_list[t] = <<>> /\ reply_queue[t] = <<>>
  BY DEF Init
<1>4. reply_list \in [Threads -> Seq(Methods)] /\ reply_queue \in [Threads -> Seq(Methods)]
  BY DEF Init
<1>5. \A n : QueueSound(<<>>, <<>>, n)
  BY NoMethods
<1> QED BY <1>1, <1>2, <1>3, <1>4, <1>5 DEF MethodInv

(* Every step keeps the order of the methods. *)
LEMMA MethodNext == KernelInv /\ MethodInv /\ [Next]_vars => MethodInv'
<1> SUFFICES ASSUME KernelInv, MethodInv, [Next]_vars PROVE MethodInv'
  OBVIOUS
<1>1. ASSUME NEW c \in Senders, NEW t \in Threads, Send(c, t) PROVE MethodInv'
  BY <1>1, SendKeeps
<1>2. ASSUME NEW c \in Senders, NEW t \in SignalThreads, RaiseSignal(c, t) PROVE MethodInv'
  BY <1>2, SignalKeeps
<1>3. ASSUME NEW o \in OSThreads, ManagerEvent(o) \/ ManagerMethod(o) \/ ManagerEmpty(o)
      PROVE  MethodInv'
  <2>1. RunSound(o) /\ current[o] \in Threads \cup {Nobody}
    BY GoodIs
  <2>2. pc[o] = "manager" => current[o] \in Threads
    <3>1. pc[o] = "manager" => pc[o] \in RunPlaces
      BY Zenon DEF RunPlaces
    <3> QED BY <2>1, <3>1, Zenon DEF RunSound
  <2> QED BY <1>3, <2>1, <2>2, ManagerKeeps
<1>4. ASSUME \/ \E c \in Stoppers : ShutDown(c)
             \/ \E c \in Callers : Wake(c) \/ ShuttingDown(c)
             \/ UNCHANGED vars
      PROVE  MethodInv'
  BY <1>4, OthersAlone, AloneKeeps
<1>5. ASSUME NEW o \in OSThreads, OSStep(o) \/ WaitRequest(o) PROVE MethodInv'
  <2>1. CASE ManagerEvent(o) \/ ManagerMethod(o) \/ ManagerEmpty(o)
    BY <1>3, <2>1
  <2>2. CASE \/ ClearQueues(o) \/ ClearDone(o) \/ Choose(o) \/ Retire(o)
             \/ CommitPolling(o) \/ CommitSleeping(o)
             \/ Poll(o) \/ WaitPipe(o) \/ CondWait(o) \/ CountIn(o) \/ SwapIn(o)
             \/ CountOut(o) \/ Pick(o) \/ Sweep(o) \/ NoteShutdown(o)
             \/ ManagerPending(o) \/ ManagerPoll(o)
             \/ Continue(o) \/ Park(o) \/ Sleep(o) \/ Recheck(o) \/ WaitRequest(o)
    <3>1. MethodsAlone
      BY <2>2, OthersAlone
    <3> QED BY <3>1, AloneKeeps
  <2> QED BY <1>5, <2>1, <2>2 DEF OSStep
<1> QED BY <1>1, <1>2, <1>4, <1>5 DEF Next

(* What the manager would take now is in order. *)
LEMMA MethodsAre == MethodInv => MethodsOrdered
<1> SUFFICES ASSUME MethodInv, NEW t \in Threads PROVE InOrder(Collected(t))
  BY DEF InOrder, MethodsOrdered
<1>1. /\ reply_list[t] \in Seq(Methods) /\ reply_queue[t] \in Seq(Methods)
      /\ InOrder(reply_list[t]) /\ Younger(reply_list[t], reply_queue[t])
  BY DEF MethodInv, QueueSound
<1> QED BY <1>1, CollectedIs

(* The invariants type every variable. *)
LEMMA TypesAre == KernelInv /\ MethodInv => TypeOK
<1> SUFFICES ASSUME KernelInv, MethodInv PROVE TypeOK
  OBVIOUS
<1>1. /\ status \in [Threads -> Statuses] /\ home \in [Threads -> OSThreads \cup {Nobody}]
      /\ os_status \in [OSThreads -> {"active", "polling", "sleeping"}]
      /\ pipe \in [OSThreads -> Nat]
  BY DEF KernelInv, ThreadsTyped, ListsTyped, CountInv, OSTyped, OSStatuses
<1>2. \A f \in {blocked, signal_raised, shutdown_request, shutting_down} :
         f \in [Threads -> BOOLEAN]
  BY DEF KernelInv, ThreadsTyped
<1>3. \A t \in Threads : /\ ToSet(reply_queue[t]) \subseteq Methods
                         /\ ToSet(reply_list[t]) \subseteq Methods
  <2> TAKE t \in Threads
  <2>1. reply_queue[t] \in Seq(Methods) /\ reply_list[t] \in Seq(Methods)
    BY DEF MethodInv
  <2> QED BY <2>1, ToSetIs
<1>4. module \in [Threads -> {"start", "inside", "done"}]
  BY DEF MethodInv, Modules
<1>5. \A o \in OSThreads :
         /\ ToSet(thread_queue[o]) \subseteq Threads
         /\ ToSet(waiting_list[o]) \subseteq Threads
         /\ IsInjective(thread_queue[o]) /\ IsInjective(waiting_list[o])
         /\ current[o] \in Threads \cup {Nobody}
  BY GoodIs DEF Once
<1>6. active_count \in Nat
  <2>1. CountExact
    BY DEF KernelInv, CountInv
  <2> QED BY <2>1, Parts
<1> QED BY <1>1, <1>2, <1>3, <1>4, <1>5, <1>6 DEF TypeOK

(* Both invariants hold, and so do the types. *)
LEMMA KernelAndMethods == Spec => [](KernelInv /\ MethodInv)
  BY KernelInit, KernelNext, MethodInit, MethodNext, PTL DEF Spec

(***************************************************************************)
(* Type correctness of the kernel: a thread is at most once in a list, the *)
(* count of active OS threads, decremented without a lock, and the bytes   *)
(* in a pipe are natural numbers.                                          *)
(***************************************************************************)
THEOREM TypeCorrect == Spec => []TypeOK
  BY KernelAndMethods, TypesAre, PTL

(***************************************************************************)
(* However many callers post to a thread and however its methods are       *)
(* collected (smt_thread_clear_method_queue, round after round), those of  *)
(* one sender are taken in the order posted, and those of high priority    *)
(* before all others.                                                      *)
(***************************************************************************)
THEOREM OrderKept == Spec => []MethodsOrdered
  BY KernelAndMethods, MethodsAre, PTL
=============================================================================
