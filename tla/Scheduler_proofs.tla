-------------------------- MODULE Scheduler_proofs --------------------------
(***************************************************************************)
(* Proofs about the SMT kernel: the count of active OS threads, by which   *)
(* smt_wait tells that the engine has come to rest, is exact in every      *)
(* reachable state, for any number of threads, OS threads and callers.     *)
(*                                                                         *)
(* The count alone is not inductive.  The decrement of a call that ends    *)
(* needs the call to have been counted once, so the invariant says what a  *)
(* stopper still has to do (its jobs end in "leave"); the swap of a waker  *)
(* needs to know at which places of s_execute an OS thread may be marked   *)
(* as sleeping.                                                            *)
(***************************************************************************)
EXTENDS Scheduler, FiniteSetTheorems, SequenceTheorems, TLAPS

OSStatuses == {"active", "polling", "sleeping"}

(* The places at which an OS thread may be marked as sleeping. *)
Resting == {"clear sleeping", "commit sleeping", "clear idle", "poll", "wait",
            "cond", "asleep", "inc", "swap"}

Places == Clearing \cup Resting
          \cup {"choose", "commit polling", "dec awake", "dec run", "shutdown",
                "manager", "continue", "park", "sleep", "recheck"}

(* The places with an increment more than the status of the OS thread says. *)
Extra == {"clear sleeping", "commit sleeping", "swap", "dec awake", "dec run"}

Bit(b) == IF b THEN 1 ELSE 0

(* What an OS thread and a caller add to the count. *)
Weight(s, p) == Bit(s # "sleeping") + Bit(p \in Extra)
CallWeight(k) == Bit(k.stage \in {"swap", "dec", "dec pipe"}) + Bit(k.jobs # <<>>)

Stages == {"idle", "cas", "cas2", "queue", "inc", "swap", "signal", "dec",
           "dec pipe", "pipe", "next"}

JobSet == [do : {"walk", "flag", "wake", "os", "leave"},
           of : Threads \cup OSThreads \cup {Nobody}]
CallSet == [stage : Stages, thread : Threads \cup {Nobody},
            os : OSThreads \cup {Nobody}, jobs : Seq(JobSet)]

(* What each job is about. *)
JobTyped(j) == /\ j.do \in {"flag", "wake"} => j.of \in Threads
               /\ j.do = "walk" => j.of \in Threads \cup {Nobody}
               /\ j.do = "os" => j.of \in OSThreads

(* The jobs a stopper has left: the last one is to leave the count. *)
JobsSound(js) ==
    /\ js # <<>> => js[Len(js)].do = "leave"
    /\ \A i \in 1..Len(js) :
          /\ JobTyped(js[i])
          /\ js[i].do = "flag" => i < Len(js) /\ js[i + 1].do = "wake"

CallSound(k) ==
    /\ JobsSound(k.jobs)
    /\ k.stage = "idle" => k.jobs = <<>>
    /\ k.stage = "next" => k.jobs # <<>>
    /\ k.stage \in {"cas", "cas2", "queue"} => k.thread \in Threads
    /\ k.stage \in {"queue", "inc", "swap", "signal", "dec", "dec pipe", "pipe"}
          => k.os \in OSThreads

OSTyped == /\ os_status \in [OSThreads -> OSStatuses]
           /\ pc \in [OSThreads -> Places]
           /\ home \in [Threads -> OSThreads \cup {Nobody}]
CallsTyped == call \in [Callers -> CallSet]
CallsSound == \A c \in Callers : CallSound(call[c])
Marked == \A o \in OSThreads : os_status[o] = "sleeping" => pc[o] \in Resting

(* The inductive invariant. *)
CountInv == OSTyped /\ CallsTyped /\ CallsSound /\ Marked /\ CountExact

-----------------------------------------------------------------------------

(* The callers are finitely many, and so are the OS threads. *)
LEMMA Finite == IsFiniteSet(Callers) /\ IsFiniteSet(OSThreads)
  BY ThreadsAssumption, FS_Union DEF Callers

(* A subset of a finite set that changes at one element. *)
LEMMA CardinalityMoves ==
  ASSUME NEW S, IsFiniteSet(S), NEW A \in SUBSET S, NEW B \in SUBSET S,
         NEW x \in S, A \ {x} = B \ {x}
  PROVE  /\ Cardinality(A) \in Nat
         /\ Cardinality(B) = Cardinality(A) + Bit(x \in B) - Bit(x \in A)
<1>1. IsFiniteSet(A) /\ IsFiniteSet(B)
  BY FS_Subset
<1>2. /\ Cardinality(A) \in Nat /\ Cardinality(B) \in Nat
  BY <1>1, FS_CardinalityType
<1>3. CASE x \in A /\ x \in B
  <2>1. A = B
    BY <1>3
  <2> QED BY <1>2, <1>3, <2>1 DEF Bit
<1>4. CASE x \notin A /\ x \notin B
  <2>1. A = B
    BY <1>4
  <2> QED BY <1>2, <1>4, <2>1 DEF Bit
<1>5. CASE x \in A /\ x \notin B
  <2>1. B = A \ {x}
    BY <1>5
  <2>2. Cardinality(B) = Cardinality(A) - 1
    BY <1>1, <1>5, <2>1, FS_RemoveElement
  <2> QED BY <1>2, <1>5, <2>2 DEF Bit
<1>6. CASE x \notin A /\ x \in B
  <2>1. B = A \cup {x}
    BY <1>6
  <2>2. Cardinality(B) = Cardinality(A) + 1
    BY <1>1, <1>6, <2>1, FS_AddElement
  <2> QED BY <1>2, <1>6, <2>2 DEF Bit
<1> QED BY <1>3, <1>4, <1>5, <1>6

(* The two halves of the count. *)
AwakeOS == {o \in OSThreads : os_status[o] # "sleeping"}
ExtraOS == {o \in OSThreads : pc[o] \in Extra}
InWake == {c \in Callers : call[c].stage \in {"swap", "dec", "dec pipe"}}
InStop == {c \in Callers : call[c].jobs # <<>>}
OSPart == Cardinality(AwakeOS) + Cardinality(ExtraOS)
CallPart == Cardinality(InWake) + Cardinality(InStop)

(* Both halves are natural numbers, and the count is their sum. *)
LEMMA Parts ==
  /\ OSPart \in Nat /\ CallPart \in Nat
  /\ CountExact <=> active_count = OSPart + CallPart
<1>1. IsFiniteSet(AwakeOS) /\ IsFiniteSet(ExtraOS)
  BY Finite, FS_Subset DEF AwakeOS, ExtraOS
<1>2. IsFiniteSet(InWake) /\ IsFiniteSet(InStop)
  BY Finite, FS_Subset DEF InWake, InStop
<1>3. /\ Cardinality(AwakeOS) \in Nat /\ Cardinality(ExtraOS) \in Nat
      /\ Cardinality(InWake) \in Nat /\ Cardinality(InStop) \in Nat
  BY <1>1, <1>2, FS_CardinalityType
<1>4. CountExact <=> active_count = Cardinality(AwakeOS) + Cardinality(ExtraOS)
                                    + Cardinality(InWake) + Cardinality(InStop)
  BY DEF CountExact, AwakeOS, ExtraOS, InWake, InStop, Extra
<1> QED BY <1>3, <1>4 DEF OSPart, CallPart

(* The same of the next state. *)
LEMMA PartsNext == CountExact' <=> active_count' = OSPart' + CallPart'
<1>1. IsFiniteSet(AwakeOS') /\ IsFiniteSet(ExtraOS')
  BY Finite, FS_Subset DEF AwakeOS, ExtraOS
<1>2. IsFiniteSet(InWake') /\ IsFiniteSet(InStop')
  BY Finite, FS_Subset DEF InWake, InStop
<1>3. /\ Cardinality(AwakeOS') \in Nat /\ Cardinality(ExtraOS') \in Nat
      /\ Cardinality(InWake') \in Nat /\ Cardinality(InStop') \in Nat
  BY <1>1, <1>2, FS_CardinalityType
<1>4. CountExact' <=> active_count' = Cardinality(AwakeOS') + Cardinality(ExtraOS')
                                      + Cardinality(InWake') + Cardinality(InStop')
  BY DEF CountExact, AwakeOS, ExtraOS, InWake, InStop, Extra
<1> QED BY <1>3, <1>4 DEF OSPart, CallPart

(* A step that changes one OS thread changes the count by its weights. *)
LEMMA OSPartMoves ==
  ASSUME OSTyped, NEW o \in OSThreads, NEW s, NEW p,
         os_status' = [os_status EXCEPT ![o] = s], pc' = [pc EXCEPT ![o] = p]
  PROVE  OSPart' = OSPart + Weight(s, p) - Weight(os_status[o], pc[o])
<1>1. /\ AwakeOS \in SUBSET OSThreads /\ AwakeOS' \in SUBSET OSThreads
      /\ ExtraOS \in SUBSET OSThreads /\ ExtraOS' \in SUBSET OSThreads
  BY DEF AwakeOS, ExtraOS
<1>2. /\ AwakeOS \ {o} = AwakeOS' \ {o}
      /\ o \in AwakeOS' <=> s # "sleeping"
      /\ o \in AwakeOS <=> os_status[o] # "sleeping"
  BY DEF AwakeOS, OSTyped
<1>3. /\ ExtraOS \ {o} = ExtraOS' \ {o}
      /\ o \in ExtraOS' <=> p \in Extra
      /\ o \in ExtraOS <=> pc[o] \in Extra
  BY DEF ExtraOS, OSTyped
<1>4. /\ Cardinality(AwakeOS) \in Nat
      /\ Cardinality(AwakeOS') = Cardinality(AwakeOS) + Bit(o \in AwakeOS')
                                 - Bit(o \in AwakeOS)
  BY <1>1, <1>2, Finite, CardinalityMoves
<1>5. /\ Cardinality(ExtraOS) \in Nat
      /\ Cardinality(ExtraOS') = Cardinality(ExtraOS) + Bit(o \in ExtraOS')
                                 - Bit(o \in ExtraOS)
  BY <1>1, <1>3, Finite, CardinalityMoves
<1>6. OSPart' = Cardinality(AwakeOS') + Cardinality(ExtraOS')
  BY DEF OSPart
<1> QED BY <1>2, <1>3, <1>4, <1>5, <1>6 DEF OSPart, Weight, Bit

(* The same for a step of one caller. *)
LEMMA CallPartMoves ==
  ASSUME CallsTyped, NEW c \in Callers, NEW k, call' = [call EXCEPT ![c] = k]
  PROVE  CallPart' = CallPart + CallWeight(k) - CallWeight(call[c])
<1>1. /\ InWake \in SUBSET Callers /\ InWake' \in SUBSET Callers
      /\ InStop \in SUBSET Callers /\ InStop' \in SUBSET Callers
  BY DEF InWake, InStop
<1>2. InWake \ {c} = InWake' \ {c} /\ InStop \ {c} = InStop' \ {c}
  BY DEF InWake, InStop, CallsTyped
<1>3. /\ c \in InWake' <=> k.stage \in {"swap", "dec", "dec pipe"}
      /\ c \in InWake <=> call[c].stage \in {"swap", "dec", "dec pipe"}
      /\ c \in InStop' <=> k.jobs # <<>>
      /\ c \in InStop <=> call[c].jobs # <<>>
  BY DEF InWake, InStop, CallsTyped
<1>4. /\ Cardinality(InWake) \in Nat
      /\ Cardinality(InWake') = Cardinality(InWake) + Bit(c \in InWake')
                                - Bit(c \in InWake)
  BY <1>1, <1>2, Finite, CardinalityMoves
<1>5. /\ Cardinality(InStop) \in Nat
      /\ Cardinality(InStop') = Cardinality(InStop) + Bit(c \in InStop')
                                - Bit(c \in InStop)
  BY <1>1, <1>2, Finite, CardinalityMoves
<1>6. CallPart' = Cardinality(InWake') + Cardinality(InStop')
  BY DEF CallPart
<1>7. /\ Bit(c \in InWake') = Bit(k.stage \in {"swap", "dec", "dec pipe"})
      /\ Bit(c \in InStop') = Bit(k.jobs # <<>>)
      /\ Bit(c \in InWake) = Bit(call[c].stage \in {"swap", "dec", "dec pipe"})
      /\ Bit(c \in InStop) = Bit(call[c].jobs # <<>>)
  BY <1>3 DEF Bit
<1>8. /\ Bit(c \in InWake') \in Int /\ Bit(c \in InStop') \in Int
      /\ Bit(c \in InWake) \in Int /\ Bit(c \in InStop) \in Int
  BY DEF Bit
<1>9. /\ CallWeight(k) = Bit(c \in InWake') + Bit(c \in InStop')
      /\ CallWeight(call[c]) = Bit(c \in InWake) + Bit(c \in InStop)
  BY <1>7 DEF CallWeight
<1> QED BY <1>4, <1>5, <1>6, <1>8, <1>9 DEF CallPart

-----------------------------------------------------------------------------
(* The steps of an OS thread. *)

(* OS thread o goes to place p with status s; the count follows. *)
OSMoves(o, s, p) ==
    /\ call' = call
    /\ home' \in [Threads -> OSThreads \cup {Nobody}]
    /\ s \in OSStatuses /\ p \in Places
    /\ s = "sleeping" => p \in Resting
    /\ os_status' = [os_status EXCEPT ![o] = s]
    /\ pc' = [pc EXCEPT ![o] = p]
    /\ active_count' = active_count + Weight(s, p) - Weight(os_status[o], pc[o])

(* Such a step keeps the invariant. *)
LEMMA OSMovesKeep ==
  ASSUME CountInv, NEW o \in OSThreads, NEW s, NEW p, OSMoves(o, s, p)
  PROVE  CountInv'
<1>1. OSTyped' /\ Marked'
  BY DEF CountInv, OSTyped, Marked, OSMoves
<1>2. CallsTyped' /\ CallsSound'
  BY DEF CountInv, CallsTyped, CallsSound, OSMoves
<1>3. OSPart' = OSPart + Weight(s, p) - Weight(os_status[o], pc[o])
  BY OSPartMoves DEF CountInv, OSMoves
<1>4. CallPart' = CallPart
  BY DEF OSMoves, CallPart, InWake, InStop
<1>5. Weight(s, p) \in Int /\ Weight(os_status[o], pc[o]) \in Int
  BY DEF Weight, Bit
<1>6. active_count' = OSPart' + CallPart'
  BY <1>3, <1>4, <1>5, Parts DEF CountInv, OSMoves
<1>7. CountExact' <=> active_count' = OSPart' + CallPart'
  BY PartsNext
<1> QED BY <1>1, <1>2, <1>6, <1>7 DEF CountInv

(* The values of a weight. *)
LEMMA WeightIs ==
  ASSUME NEW s, NEW p
  PROVE  /\ Weight(s, p) \in 0..2
         /\ s # "sleeping" /\ p \in Extra => Weight(s, p) = 2
         /\ s # "sleeping" /\ p \notin Extra => Weight(s, p) = 1
         /\ s = "sleeping" /\ p \in Extra => Weight(s, p) = 1
         /\ s = "sleeping" /\ p \notin Extra => Weight(s, p) = 0
  BY DEF Weight, Bit

(* To know that a step is of this kind. *)
LEMMA ChangeMoves ==
  ASSUME CountInv, NEW o \in OSThreads, NEW s \in OSStatuses, NEW p \in Places,
         os_status' = [os_status EXCEPT ![o] = s], Goto(o, p),
         call' = call, home' \in [Threads -> OSThreads \cup {Nobody}],
         active_count' + Weight(os_status[o], pc[o]) = active_count + Weight(s, p),
         active_count' \in Int,
         s = "sleeping" => p \in Resting
  PROVE  OSMoves(o, s, p)
<1>1. active_count \in Int
  BY Parts DEF CountInv
<1>2. Weight(os_status[o], pc[o]) \in Int /\ Weight(s, p) \in Int
  BY DEF Weight, Bit
<1>3. active_count' = active_count + Weight(s, p) - Weight(os_status[o], pc[o])
  BY <1>1, <1>2
<1> QED BY <1>3 DEF OSMoves, Goto

(* A step between two places without an extra increment. *)
LEMMA PlainMoves ==
  ASSUME CountInv, NEW o \in OSThreads, NEW p \in Places,
         Goto(o, p), UNCHANGED <<os_status, active_count, call>>,
         home' \in [Threads -> OSThreads \cup {Nobody}],
         p \in Extra <=> pc[o] \in Extra,
         os_status[o] = "sleeping" => p \in Resting
  PROVE  OSMoves(o, os_status[o], p)
<1>1. os_status' = [os_status EXCEPT ![o] = os_status[o]] /\ os_status[o] \in OSStatuses
  BY DEF CountInv, OSTyped
<1>2. Weight(os_status[o], p) = Weight(os_status[o], pc[o])
  BY DEF Weight, Bit
<1>3. active_count' = active_count /\ active_count' \in Int
  BY Parts DEF CountInv
<1> QED BY <1>1, <1>2, <1>3, ChangeMoves

(* A step that gives up an extra increment. *)
LEMMA DropMoves ==
  ASSUME CountInv, NEW o \in OSThreads, NEW p \in Places,
         Goto(o, p), UNCHANGED <<os_status, call>>,
         home' \in [Threads -> OSThreads \cup {Nobody}],
         active_count' = active_count - 1, pc[o] \in Extra, p \notin Extra,
         os_status[o] = "sleeping" => p \in Resting
  PROVE  OSMoves(o, os_status[o], p)
<1>1. os_status' = [os_status EXCEPT ![o] = os_status[o]] /\ os_status[o] \in OSStatuses
  BY DEF CountInv, OSTyped
<1>2. active_count \in Int
  BY Parts DEF CountInv
<1>3. \/ Weight(os_status[o], pc[o]) = 2 /\ Weight(os_status[o], p) = 1
      \/ Weight(os_status[o], pc[o]) = 1 /\ Weight(os_status[o], p) = 0
  BY WeightIs
<1>4. /\ active_count' + Weight(os_status[o], pc[o]) = active_count + Weight(os_status[o], p)
      /\ active_count' \in Int
  BY <1>2, <1>3
<1> QED BY <1>1, <1>4, ChangeMoves

(* Where the calls of s_clear_queues and the decrements lead. *)
LEMMA Tables ==
  /\ DOMAIN AfterClear = {"clear polling", "clear sleeping", "clear idle"}
  /\ AfterClear["clear polling"] = "commit polling"
  /\ AfterClear["clear sleeping"] = "commit sleeping"
  /\ AfterClear["clear idle"] = "poll"
  /\ DOMAIN AfterCountOut = {"dec awake", "dec run"}
  /\ AfterCountOut["dec awake"] = "clear awake"
  /\ AfterCountOut["dec run"] = "clear running"
  /\ DOMAIN Tried = {"cas", "cas2"}
  BY DEF AfterClear, AfterCountOut, Tried

(* The steps that look for a thread to run. *)
LEMMA LookSteps ==
  ASSUME CountInv, NEW o \in OSThreads,
         ClearQueues(o) \/ ClearDone(o) \/ Choose(o) \/ Retire(o) \/ Pick(o)
  PROVE  \E s, p : OSMoves(o, s, p)
<1> USE DEF Places, Resting, Extra, Clearing
<1>0. home \in [Threads -> OSThreads \cup {Nobody}] /\ os_status[o] \in OSStatuses
      /\ pc[o] \in Places /\ (os_status[o] = "sleeping" => pc[o] \in Resting)
  BY DEF CountInv, OSTyped, Marked
<1>1. CASE ClearQueues(o)
  <2>1. home' \in [Threads -> OSThreads \cup {Nobody}]
    BY <1>0, <1>1 DEF ClearQueues
  <2>2. Goto(o, pc[o]) /\ UNCHANGED <<os_status, active_count, call>>
    BY <1>1 DEF ClearQueues, Goto, CountInv, OSTyped
  <2> QED BY <1>0, <2>1, <2>2, PlainMoves
<1>2. CASE ClearDone(o)
  <2>1. PICK p \in {"commit polling", "commit sleeping", "poll"} :
           /\ Goto(o, p) /\ (p \in Extra <=> pc[o] \in Extra)
           /\ os_status[o] = "sleeping" => p \in Resting
    BY <1>0, <1>2, Tables DEF ClearDone
  <2>2. UNCHANGED <<os_status, active_count, call, home>>
    BY <1>2 DEF ClearDone, threadVars
  <2> QED BY <1>0, <2>1, <2>2, PlainMoves
<1>3. CASE Choose(o)
  <2>1. PICK p \in {"clear running", "choose"} : Goto(o, p)
    BY <1>3 DEF Choose, Take, TakeNone
  <2>2. UNCHANGED <<os_status, active_count, call, home>> /\ pc[o] = "clear"
    BY <1>3 DEF Choose, LookUnchanged, Cleared
  <2> QED BY <1>0, <2>1, <2>2, PlainMoves
<1>4. CASE Retire(o)
  <2>1. pc[o] = "choose" /\ os_status[o] # "sleeping"
    BY <1>0, <1>4 DEF Retire
  <2>2. UNCHANGED <<active_count, call, home>>
    BY <1>4 DEF Retire, threadVars
  <2>3. active_count' = active_count /\ active_count' \in Int
    BY <2>2, Parts DEF CountInv
  <2>4. CASE Requests(o) # {}
    <3>1. /\ os_status' = [os_status EXCEPT ![o] = "polling"]
          /\ Goto(o, "clear polling")
      BY <1>4, <2>4 DEF Retire
    <3>2. Weight("polling", "clear polling") = Weight(os_status[o], pc[o])
      BY <2>1 DEF Weight, Bit
    <3>3. OSMoves(o, "polling", "clear polling")
      BY <1>0, <2>2, <2>3, <3>1, <3>2, ChangeMoves DEF OSStatuses
    <3> QED BY <3>3
  <2>5. CASE Requests(o) = {}
    <3>1. /\ os_status' = [os_status EXCEPT ![o] = "sleeping"]
          /\ Goto(o, "clear sleeping")
      BY <1>4, <2>5 DEF Retire
    <3>2. Weight("sleeping", "clear sleeping") = Weight(os_status[o], pc[o])
      BY <2>1 DEF Weight, Bit
    <3>3. OSMoves(o, "sleeping", "clear sleeping")
      BY <1>0, <2>2, <2>3, <3>1, <3>2, ChangeMoves DEF OSStatuses
    <3> QED BY <3>3
  <2> QED BY <2>4, <2>5
<1>5. CASE Pick(o)
  <2>1. PICK p \in {"shutdown", "manager", "clear"} : Goto(o, p)
    BY <1>5 DEF Pick, Take, TakeNone, Onward
  <2>2. UNCHANGED <<os_status, active_count, call, home>> /\ pc[o] = "clear awake"
    BY <1>5 DEF Pick, LookUnchanged, Cleared
  <2> QED BY <1>0, <2>1, <2>2, PlainMoves
<1> QED BY <1>1, <1>2, <1>3, <1>4, <1>5

(* The steps to and from the sleep, where the count changes. *)
LEMMA CountSteps ==
  ASSUME CountInv, NEW o \in OSThreads,
         \/ CommitPolling(o) \/ CommitSleeping(o) \/ CountIn(o) \/ SwapIn(o)
         \/ CountOut(o)
  PROVE  \E s, p : OSMoves(o, s, p)
<1> USE DEF Places, Resting, Extra, Clearing
<1>0. home \in [Threads -> OSThreads \cup {Nobody}] /\ os_status[o] \in OSStatuses
      /\ pc[o] \in Places /\ (os_status[o] = "sleeping" => pc[o] \in Resting)
  BY DEF CountInv, OSTyped, Marked
<1>a. active_count \in Int
  BY Parts DEF CountInv
<1>b. os_status = [os_status EXCEPT ![o] = os_status[o]]
  BY DEF CountInv, OSTyped
<1>c. "active" \in OSStatuses
  BY DEF OSStatuses
<1>1. CASE CommitPolling(o)
  <2>1. UNCHANGED <<active_count, call, home>> /\ pc[o] = "commit polling"
    BY <1>1 DEF CommitPolling, LookUnchanged
  <2>2. CASE Take(o, "clear running") /\ os_status' = [os_status EXCEPT ![o] = "active"]
    <3>1. Weight("active", "clear running") = Weight(os_status[o], pc[o])
      BY <1>0, <2>1 DEF Weight, Bit
    <3>2. Goto(o, "clear running")
      BY <2>2 DEF Take
    <3>3. OSMoves(o, "active", "clear running")
      BY <1>0, <1>a, <1>c, <2>1, <2>2, <3>1, <3>2, ChangeMoves
    <3> QED BY <3>3
  <2>3. CASE TakeNone(o, IdlePlace(o)) /\ UNCHANGED os_status
    <3>1. PICK p \in {"inc", "clear idle"} : Goto(o, p)
      BY <2>3 DEF TakeNone, IdlePlace
    <3> QED BY <1>0, <2>1, <2>3, <3>1, PlainMoves
  <2> QED BY <1>1, <2>2, <2>3 DEF CommitPolling
<1>2. CASE CommitSleeping(o)
  <2>1. UNCHANGED <<call, home>> /\ pc[o] = "commit sleeping"
    BY <1>2 DEF CommitSleeping, LookUnchanged
  <2>2. CASE /\ Take(o, IF os_status[o] = "sleeping" THEN "clear running"
                        ELSE "dec run")
             /\ os_status' = [os_status EXCEPT ![o] = "active"]
             /\ UNCHANGED active_count
    <3>1. PICK p \in {"clear running", "dec run"} :
             /\ Goto(o, p)
             /\ p = IF os_status[o] = "sleeping" THEN "clear running" ELSE "dec run"
      BY <2>2 DEF Take
    <3>2. Weight("active", p) = Weight(os_status[o], pc[o])
      <4>1. pc[o] \in Extra /\ (p \in Extra <=> os_status[o] # "sleeping")
        BY <2>1, <3>1
      <4> HIDE DEF Extra
      <4> QED BY <4>1, WeightIs
    <3>3. OSMoves(o, "active", p)
      BY <1>0, <1>a, <1>c, <2>1, <2>2, <3>1, <3>2, ChangeMoves
    <3> QED BY <3>3
  <2>3. CASE /\ TakeNone(o, IdlePlace(o))
             /\ active_count' = active_count - 1
             /\ UNCHANGED os_status
    <3>1. PICK p \in {"inc", "clear idle"} : Goto(o, p)
      BY <2>3 DEF TakeNone, IdlePlace
    <3>2. pc[o] \in Extra /\ p \notin Extra
      BY <2>1, <3>1
    <3>3. active_count' = active_count - 1
      BY <2>3
    <3>4. OSMoves(o, os_status[o], p)
      BY <1>0, <2>1, <2>3, <3>1, <3>2, <3>3, DropMoves
    <3> QED BY <3>4
  <2> QED BY <1>2, <2>2, <2>3 DEF CommitSleeping
<1>3. CASE CountIn(o)
  <2>1. /\ UNCHANGED <<call, home, os_status>> /\ pc[o] = "inc"
        /\ active_count' = active_count + 1 /\ Goto(o, "swap")
    BY <1>3 DEF CountIn, threadVars
  <2>2. /\ Weight(os_status[o], "swap") = Weight(os_status[o], pc[o]) + 1
        /\ Weight(os_status[o], pc[o]) \in Int
    BY <2>1 DEF Weight, Bit
  <2>3. active_count' + Weight(os_status[o], pc[o]) = active_count + Weight(os_status[o], "swap")
        /\ active_count' \in Int
    BY <1>a, <2>1, <2>2
  <2>4. OSMoves(o, os_status[o], "swap")
    BY <1>0, <1>b, <2>1, <2>3, ChangeMoves
  <2> QED BY <2>4
<1>4. CASE SwapIn(o)
  <2>1. /\ UNCHANGED <<call, home, active_count>> /\ pc[o] = "swap"
        /\ os_status' = [os_status EXCEPT ![o] = "active"]
    BY <1>4 DEF SwapIn, threadVars
  <2>2. PICK p \in {"clear awake", "dec awake"} :
           /\ Goto(o, p)
           /\ p = IF os_status[o] = "sleeping" THEN "clear awake" ELSE "dec awake"
    BY <1>4 DEF SwapIn
  <2>3. Weight("active", p) = Weight(os_status[o], pc[o])
    <3>1. pc[o] \in Extra /\ (p \in Extra <=> os_status[o] # "sleeping")
      BY <2>1, <2>2
    <3> HIDE DEF Extra
    <3> QED BY <3>1, WeightIs
  <2>4. OSMoves(o, "active", p)
    BY <1>0, <1>a, <1>c, <2>1, <2>2, <2>3, ChangeMoves
  <2> QED BY <2>4
<1>5. CASE CountOut(o)
  <2>1. /\ UNCHANGED <<call, home, os_status>> /\ pc[o] \in {"dec awake", "dec run"}
        /\ active_count' = active_count - 1
    BY <1>5, Tables DEF CountOut, threadVars
  <2>2. PICK p \in {"clear awake", "clear running"} : Goto(o, p)
    BY <1>5, Tables DEF CountOut
  <2>3. pc[o] \in Extra /\ p \notin Extra
    BY <2>1, <2>2
  <2>4. active_count' = active_count - 1
    BY <2>1
  <2>5. OSMoves(o, os_status[o], p)
    BY <1>0, <2>1, <2>2, <2>3, <2>4, DropMoves
  <2> QED BY <2>5
<1> QED BY <1>1, <1>2, <1>3, <1>4, <1>5

(* The steps that poll, wait or run a thread: the count does not change. *)
LEMMA RunSteps ==
  ASSUME CountInv, NEW o \in OSThreads,
         \/ Poll(o) \/ WaitPipe(o) \/ WaitRequest(o) \/ CondWait(o) \/ Sweep(o)
         \/ NoteShutdown(o) \/ ManagerPending(o) \/ ManagerEvent(o) \/ ManagerPoll(o)
         \/ ManagerMethod(o) \/ ManagerEmpty(o) \/ Continue(o) \/ Park(o)
         \/ Sleep(o) \/ Recheck(o)
  PROVE  \E s, p : OSMoves(o, s, p)
<1> DEFINE Quiet == {"clear", "clear running", "shutdown", "manager", "continue",
                     "park", "sleep", "recheck"}
<1>0. /\ home \in [Threads -> OSThreads \cup {Nobody}] /\ os_status[o] \in OSStatuses
      /\ os_status[o] = "sleeping" => pc[o] \in Resting
      /\ pc \in [OSThreads -> Places]
  BY DEF CountInv, OSTyped, Marked
<1>1. UNCHANGED <<os_status, active_count, call, home>>
  BY DEF Poll, WaitPipe, WaitRequest, CondWait, Sweep, NoteShutdown, ManagerPending,
         ManagerEvent, ManagerPoll, ManagerMethod, ManagerEmpty, Continue, Park,
         Sleep, Recheck, threadVars, PollUnchanged, ManagerUnchanged,
         ContinueUnchanged
<1>2. CASE Poll(o) \/ WaitPipe(o) \/ WaitRequest(o) \/ CondWait(o)
  <2>1. /\ pc[o] \in {"poll", "wait", "cond"}
        /\ \E p \in {"inc", "wait", "cond", "asleep"} : Goto(o, p)
    BY <1>2 DEF Poll, WaitPipe, WaitRequest, CondWait
  <2>2. PICK p \in {"inc", "wait", "cond", "asleep"} : Goto(o, p)
    BY <2>1
  <2> QED BY <1>0, <1>1, <2>1, <2>2, PlainMoves DEF Places, Resting, Extra
<1>3. CASE \/ Sweep(o) \/ NoteShutdown(o) \/ ManagerPending(o) \/ ManagerEvent(o)
           \/ ManagerPoll(o) \/ ManagerMethod(o) \/ ManagerEmpty(o) \/ Continue(o)
           \/ Park(o) \/ Sleep(o) \/ Recheck(o)
  <2>1. pc[o] \in Quiet
    BY <1>3 DEF Sweep, Cleared, NoteShutdown, ManagerPending, ManagerEvent,
                ManagerPoll, ManagerMethod, ManagerEmpty, Continue, Park, Sleep,
                Recheck
  <2>2. \E p \in Quiet : Goto(o, p)
    <3>1. CASE Sweep(o)
      BY <3>1 DEF Sweep, Onward
    <3>2. CASE NoteShutdown(o)
      BY <3>2 DEF NoteShutdown
    <3>3. CASE ManagerPending(o) \/ ManagerEmpty(o)
      BY <3>3 DEF ManagerPending, ManagerEmpty, Finish
    <3>4. CASE ManagerEvent(o) \/ ManagerMethod(o)
      <4>1. Goto(o, "continue") \/ Goto(o, "clear")
        BY <3>4 DEF ManagerEvent, ManagerMethod, Execute, Finish, Block, Stop, Leave
      <4> QED BY <4>1
    <3>5. CASE ManagerPoll(o)
      <4>1. Goto(o, "manager")
        BY <1>0, <3>5 DEF ManagerPoll, Goto
      <4> QED BY <4>1
    <3>6. CASE Continue(o) \/ Park(o) \/ Sleep(o) \/ Recheck(o)
      <4>1. \/ Goto(o, "clear") \/ Goto(o, "park") \/ Goto(o, "sleep")
            \/ Goto(o, "recheck")
        BY <3>6 DEF Continue, Park, Sleep, Recheck, Requeue, Leave
      <4> QED BY <4>1
    <3> QED BY <1>3, <3>1, <3>2, <3>3, <3>4, <3>5, <3>6
  <2>3. PICK p \in Quiet : Goto(o, p)
    BY <2>2
  <2>4. p \in Places /\ p \notin Extra /\ pc[o] \notin Extra /\ pc[o] \notin Resting
    BY <2>1, <2>3 DEF Places, Resting, Extra, Clearing
  <2> QED BY <1>0, <1>1, <2>3, <2>4, PlainMoves
<1> QED BY <1>2, <1>3

-----------------------------------------------------------------------------
(* The steps of a caller. *)

(* Caller c comes to stand at k. *)
CallMoves(c, k) == /\ k \in CallSet /\ CallSound(k)
                   /\ call' = [call EXCEPT ![c] = k]

(* The values of a caller's weight. *)
LEMMA CallWeightIs ==
  ASSUME NEW k
  PROVE  /\ CallWeight(k) \in 0..2
         /\ k.stage \in {"swap", "dec", "dec pipe"} /\ k.jobs # <<>> => CallWeight(k) = 2
         /\ k.stage \in {"swap", "dec", "dec pipe"} /\ k.jobs = <<>> => CallWeight(k) = 1
         /\ k.stage \notin {"swap", "dec", "dec pipe"} /\ k.jobs # <<>> => CallWeight(k) = 1
         /\ k.stage \notin {"swap", "dec", "dec pipe"} /\ k.jobs = <<>> => CallWeight(k) = 0
<1> DEFINE A == k.stage \in {"swap", "dec", "dec pipe"}
           B == k.jobs # <<>>
<1>1. A \in BOOLEAN /\ B \in BOOLEAN
  OBVIOUS
<1>2. CallWeight(k) = Bit(A) + Bit(B)
  BY DEF CallWeight
<1>3. k.jobs = <<>> <=> ~B
  OBVIOUS
<1>4. k.stage \in {"swap", "dec", "dec pipe"} <=> A
  OBVIOUS
<1> HIDE DEF A, B
<1>5. /\ A => Bit(A) = 1
      /\ ~A => Bit(A) = 0
      /\ B => Bit(B) = 1
      /\ ~B => Bit(B) = 0
  BY <1>1 DEF Bit
<1>6. /\ CallWeight(k) \in 0..2
      /\ A /\ B => CallWeight(k) = 2
      /\ A /\ ~B => CallWeight(k) = 1
      /\ ~A /\ B => CallWeight(k) = 1
      /\ ~A /\ ~B => CallWeight(k) = 0
  BY <1>1, <1>2, <1>5
<1> QED BY <1>3, <1>4, <1>6

(* It is a number. *)
LEMMA CallWeightType == \A k : CallWeight(k) \in Int
<1> TAKE k
<1>1. CallWeight(k) \in 0..2
  BY CallWeightIs
<1> QED BY <1>1

(* Such a step keeps the invariant if the count follows. *)
LEMMA CallMovesKeep ==
  ASSUME CountInv, NEW c \in Callers, NEW k, CallMoves(c, k), OSTyped', Marked',
         NEW m \in Int, OSPart' = OSPart + m,
         active_count' = active_count + m + CallWeight(k) - CallWeight(call[c])
  PROVE  CountInv'
<1>1. CallsTyped' /\ CallsSound'
  BY DEF CountInv, CallsTyped, CallsSound, CallMoves
<1>2. CallPart' = CallPart + CallWeight(k) - CallWeight(call[c])
  BY CallPartMoves DEF CountInv, CallMoves
<1>3. CallWeight(k) \in Int /\ CallWeight(call[c]) \in Int
  BY CallWeightType
<1>4. active_count' = OSPart' + CallPart'
  BY <1>2, <1>3, Parts DEF CountInv
<1> QED BY <1>1, <1>4, PartsNext DEF CountInv

(* When nothing but the caller changes. *)
LEMMA CallOnlyKeep ==
  ASSUME CountInv, NEW c \in Callers, NEW k, CallMoves(c, k),
         UNCHANGED <<os_status, pc, home>>,
         active_count' = active_count + CallWeight(k) - CallWeight(call[c])
  PROVE  CountInv'
<1>1. OSTyped' /\ Marked'
  BY DEF CountInv, OSTyped, Marked
<1>2. OSPart' = OSPart /\ OSPart \in Int /\ active_count \in Int
  BY Parts DEF OSPart, AwakeOS, ExtraOS, CountInv
<1>3. CallWeight(k) \in Int /\ CallWeight(call[c]) \in Int
  BY CallWeightType
<1>4. OSPart' = OSPart + 0
  BY <1>2
<1>5. active_count' = active_count + 0 + CallWeight(k) - CallWeight(call[c])
  BY <1>2, <1>3
<1> QED BY <1>1, <1>4, <1>5, CallMovesKeep

(* What is left of a stopper's jobs after the first of them. *)
LEMMA TailJobs ==
  ASSUME NEW js \in Seq(JobSet), js # <<>>, JobsSound(js)
  PROVE  /\ Head(js) \in JobSet /\ Tail(js) \in Seq(JobSet) /\ JobsSound(Tail(js))
         /\ Head(js).do # "leave" => Tail(js) # <<>>
         /\ JobTyped(Head(js))
         /\ Head(js).do = "flag" => Head(Tail(js)).do = "wake"
<1>1. /\ Len(js) \in Nat /\ Len(js) > 0 /\ Head(js) = js[1] /\ js[1] \in JobSet
      /\ Tail(js) \in Seq(JobSet) /\ Len(Tail(js)) = Len(js) - 1
      /\ \A i \in 1..Len(Tail(js)) : Tail(js)[i] = js[i + 1]
  OBVIOUS
<1>2. \A i \in 1..Len(Tail(js)) :
         /\ JobTyped(Tail(js)[i])
         /\ Tail(js)[i].do = "flag" => i < Len(Tail(js)) /\ Tail(js)[i + 1].do = "wake"
  <2> SUFFICES ASSUME NEW i \in 1..Len(Tail(js))
               PROVE  /\ JobTyped(Tail(js)[i])
                      /\ Tail(js)[i].do = "flag" => i < Len(Tail(js)) /\ Tail(js)[i + 1].do = "wake"
    OBVIOUS
  <2>1. i + 1 \in 1..Len(js) /\ Tail(js)[i] = js[i + 1]
    BY <1>1
  <2>2. js[i + 1].do = "flag" => i + 1 < Len(js) /\ js[i + 1 + 1].do = "wake"
    BY <2>1 DEF JobsSound
  <2>3. i + 1 < Len(js) => i + 1 \in 1..Len(Tail(js))
    BY <1>1, <2>1
  <2>4. js[i + 1].do = "flag" => i < Len(Tail(js)) /\ Tail(js)[i + 1].do = "wake"
    BY <1>1, <2>2, <2>3
  <2> QED BY <2>1, <2>4 DEF JobsSound
<1>3. Tail(js) # <<>> => Tail(js)[Len(Tail(js))].do = "leave"
  <2>1. SUFFICES ASSUME Tail(js) # <<>> PROVE Tail(js)[Len(Tail(js))].do = "leave"
    OBVIOUS
  <2>2. Len(Tail(js)) \in 1..Len(Tail(js)) /\ Len(Tail(js)) + 1 = Len(js)
    BY <1>1, <2>1
  <2> QED BY <1>1, <2>2 DEF JobsSound
<1>e. Tail(js) = <<>> <=> Len(Tail(js)) = 0
  <2>1. Tail(js) \in Seq(JobSet)
    BY <1>1
  <2> QED BY <2>1, EmptySeq
<1>4. Head(js).do # "leave" => Tail(js) # <<>>
  <2>1. SUFFICES ASSUME Head(js).do # "leave", Tail(js) = <<>> PROVE FALSE
    OBVIOUS
  <2>2. Len(js) = 1
    BY <1>1, <1>e, <2>1
  <2>3. js[Len(js)].do = "leave"
    BY DEF JobsSound
  <2> QED BY <1>1, <2>1, <2>2, <2>3
<1>5. 1 \in 1..Len(js)
  BY <1>1
<1>6. Head(js).do = "flag" => Head(Tail(js)).do = "wake"
  <2>1. SUFFICES ASSUME Head(js).do = "flag" PROVE Head(Tail(js)).do = "wake"
    OBVIOUS
  <2>2. 1 < Len(js) /\ js[1 + 1].do = "wake"
    BY <1>1, <1>5, <2>1 DEF JobsSound
  <2>3. Len(Tail(js)) > 0
    BY <1>1, <2>2
  <2>4. Tail(js) # <<>> /\ 1 \in 1..Len(Tail(js))
    BY <1>1, <1>e, <2>3
  <2> QED BY <1>1, <2>2, <2>4
<1>7. JobTyped(Head(js))
  BY <1>1, <1>5 DEF JobsSound
<1> QED BY <1>1, <1>2, <1>3, <1>4, <1>6, <1>7 DEF JobsSound

(* A job put in front of the others. *)
LEMMA ConsIs ==
  ASSUME NEW S, NEW js \in Seq(S), NEW j \in S
  PROVE  /\ Cons(j, js) \in Seq(S) /\ Cons(j, js) # <<>>
         /\ Len(Cons(j, js)) = Len(js) + 1 /\ Cons(j, js)[1] = j
         /\ \A i \in 1..Len(js) : Cons(j, js)[i + 1] = js[i]
         /\ \A i \in 2..(Len(js) + 1) : Cons(j, js)[i] = js[i - 1] /\ i - 1 \in 1..Len(js)
         /\ Head(Cons(j, js)) = j
<1>1. /\ <<j>> \o js \in Seq(S) /\ Len(<<j>> \o js) = Len(js) + 1
      /\ (<<j>> \o js)[1] = j /\ Len(js) \in Nat
      /\ \A i \in 1..Len(js) : (<<j>> \o js)[i + 1] = js[i]
  OBVIOUS
<1>2. \A i \in 2..(Len(js) + 1) : i - 1 \in 1..Len(js) /\ (i - 1) + 1 = i
  BY <1>1
<1>3. \A i \in 2..(Len(js) + 1) : (<<j>> \o js)[i] = js[i - 1] /\ i - 1 \in 1..Len(js)
  BY <1>1, <1>2
<1>4. <<j>> \o js # <<>> /\ Head(<<j>> \o js) = (<<j>> \o js)[1]
  BY <1>1
<1> QED BY <1>1, <1>3, <1>4 DEF Cons

(* A flag may only be put before a wake. *)
LEMMA ConsJobs ==
  ASSUME NEW js \in Seq(JobSet), js # <<>>, JobsSound(js), NEW j \in JobSet,
         JobTyped(j), j.do = "flag" => Head(js).do = "wake"
  PROVE  /\ Cons(j, js) \in Seq(JobSet) /\ Cons(j, js) # <<>> /\ JobsSound(Cons(j, js))
         /\ Head(Cons(j, js)) = j
<1>0. PICK ks : ks = Cons(j, js)
  OBVIOUS
<1>a. /\ Cons(j, js) \in Seq(JobSet) /\ Cons(j, js) # <<>>
      /\ Len(Cons(j, js)) = Len(js) + 1 /\ Cons(j, js)[1] = j
      /\ \A i \in 1..Len(js) : Cons(j, js)[i + 1] = js[i]
      /\ \A i \in 2..(Len(js) + 1) : Cons(j, js)[i] = js[i - 1] /\ i - 1 \in 1..Len(js)
      /\ Head(Cons(j, js)) = j
  BY ConsIs
<1>1. /\ ks \in Seq(JobSet) /\ ks # <<>> /\ Len(ks) = Len(js) + 1 /\ ks[1] = j
      /\ \A i \in 1..Len(js) : ks[i + 1] = js[i]
      /\ \A i \in 2..(Len(js) + 1) : ks[i] = js[i - 1] /\ i - 1 \in 1..Len(js)
      /\ Head(ks) = j
  BY <1>0, <1>a
<1>2. Len(js) \in Nat /\ Len(js) > 0 /\ Head(js) = js[1] /\ Len(js) \in 1..Len(js)
  OBVIOUS
<1>3. ks[Len(ks)].do = "leave"
  <2>1. ks[Len(js) + 1] = js[Len(js)]
    BY <1>1, <1>2
  <2> QED BY <1>1, <2>1 DEF JobsSound
<1>4. ASSUME NEW i \in 1..Len(ks)
      PROVE  JobTyped(ks[i]) /\ (ks[i].do = "flag" => i < Len(ks) /\ ks[i + 1].do = "wake")
  <2>1. CASE i = 1
    <3>1. 1 < Len(ks) /\ ks[1 + 1] = js[1]
      BY <1>1, <1>2
    <3> QED BY <1>1, <1>2, <2>1, <3>1
  <2>2. CASE i # 1
    <3>1. i \in 2..(Len(js) + 1) /\ i - 1 \in 1..Len(js) /\ ks[i] = js[i - 1]
      BY <1>1, <1>2, <2>2
    <3>2. /\ JobTyped(js[i - 1])
          /\ js[i - 1].do = "flag" => i - 1 < Len(js) /\ js[(i - 1) + 1].do = "wake"
      BY <3>1 DEF JobsSound
    <3>3. (i - 1) + 1 = i /\ (i - 1 < Len(js) => i \in 1..Len(js) /\ i < Len(ks))
      BY <1>1, <1>2, <3>1
    <3>4. i \in 1..Len(js) => ks[i + 1] = js[i]
      BY <1>1
    <3> QED BY <3>1, <3>2, <3>3, <3>4
  <2> QED BY <2>1, <2>2
<1> QED BY <1>0, <1>1, <1>3, <1>4 DEF JobsSound

InWakeStages == {"swap", "dec", "dec pipe"}
OSStages == {"queue", "inc", "swap", "signal", "dec", "dec pipe", "pipe"}

(* The weights of two standings whose jobs are both done or both not. *)
LEMMA WeightMoves ==
  ASSUME NEW j, NEW k, k.jobs = <<>> <=> j.jobs = <<>>
  PROVE  /\ (j.stage \in InWakeStages <=> k.stage \in InWakeStages)
               => CallWeight(k) = CallWeight(j)
         /\ j.stage \notin InWakeStages /\ k.stage \in InWakeStages
               => CallWeight(k) = CallWeight(j) + 1
         /\ j.stage \in InWakeStages /\ k.stage \notin InWakeStages
               => CallWeight(k) = CallWeight(j) - 1
<1>1. /\ k.stage \in InWakeStages /\ k.jobs # <<>> => CallWeight(k) = 2
      /\ k.stage \in InWakeStages /\ k.jobs = <<>> => CallWeight(k) = 1
      /\ k.stage \notin InWakeStages /\ k.jobs # <<>> => CallWeight(k) = 1
      /\ k.stage \notin InWakeStages /\ k.jobs = <<>> => CallWeight(k) = 0
  BY CallWeightIs DEF InWakeStages
<1>2. /\ j.stage \in InWakeStages /\ j.jobs # <<>> => CallWeight(j) = 2
      /\ j.stage \in InWakeStages /\ j.jobs = <<>> => CallWeight(j) = 1
      /\ j.stage \notin InWakeStages /\ j.jobs # <<>> => CallWeight(j) = 1
      /\ j.stage \notin InWakeStages /\ j.jobs = <<>> => CallWeight(j) = 0
  BY CallWeightIs DEF InWakeStages
<1> DEFINE JW == j.stage \in InWakeStages
           KW == k.stage \in InWakeStages
           JE == j.jobs = <<>>
           KE == k.jobs = <<>>
<1>3. /\ KW /\ ~KE => CallWeight(k) = 2
      /\ KW /\ KE => CallWeight(k) = 1
      /\ ~KW /\ ~KE => CallWeight(k) = 1
      /\ ~KW /\ KE => CallWeight(k) = 0
      /\ JW /\ ~JE => CallWeight(j) = 2
      /\ JW /\ JE => CallWeight(j) = 1
      /\ ~JW /\ ~JE => CallWeight(j) = 1
      /\ ~JW /\ JE => CallWeight(j) = 0
  BY <1>1, <1>2
<1>4. JE <=> KE
  OBVIOUS
<1> HIDE DEF JW, KW, JE, KE
<1>5. /\ (JW <=> KW) => CallWeight(k) = CallWeight(j)
      /\ ~JW /\ KW => CallWeight(k) = CallWeight(j) + 1
      /\ JW /\ ~KW => CallWeight(k) = CallWeight(j) - 1
  BY <1>3, <1>4
<1> QED BY <1>5 DEF JW, KW

(* A caller that goes on with the wake-up it is in. *)
LEMMA EnterMoves ==
  ASSUME CountInv, NEW c \in Callers, NEW stage \in Stages, Enter(c, stage),
         stage \notin {"idle", "next"},
         stage \in {"cas", "cas2", "queue"} => call[c].thread \in Threads,
         stage \in OSStages => call[c].os \in OSThreads
  PROVE  \E k : /\ CallMoves(c, k) /\ k.stage = stage
                /\ k.jobs = <<>> <=> call[c].jobs = <<>>
<1> DEFINE k == [call[c] EXCEPT !.stage = stage]
<1>1. call[c] \in CallSet /\ CallSound(call[c])
  BY DEF CountInv, CallsTyped, CallsSound
<1>2. /\ k \in CallSet /\ k.stage = stage /\ k.jobs = call[c].jobs
      /\ k.thread = call[c].thread /\ k.os = call[c].os
  BY <1>1 DEF CallSet
<1>3. CallSound(k)
  BY <1>1, <1>2 DEF CallSound, OSStages
<1>4. call' = [call EXCEPT ![c] = k]
  BY DEF Enter, CountInv, CallsTyped
<1> QED BY <1>2, <1>3, <1>4 DEF CallMoves

(* The end of a wake-up. *)
LEMMA ReturnMoves ==
  ASSUME CountInv, NEW c \in Callers, Return(c)
  PROVE  \E k : /\ CallMoves(c, k) /\ k.stage \in {"idle", "next", "cas"}
                /\ k.jobs = <<>> <=> call[c].jobs = <<>>
<1> DEFINE jobs == call[c].jobs
<1>1. jobs \in Seq(JobSet) /\ JobsSound(jobs)
  BY DEF CountInv, CallsTyped, CallsSound, CallSound, CallSet
<1>2. CASE jobs # <<>> /\ Head(jobs).do = "wake"
  <2> DEFINE k == [stage |-> "cas", thread |-> Head(jobs).of, os |-> Nobody,
                   jobs |-> Tail(jobs)]
  <2>1. /\ Head(jobs).of \in Threads /\ Tail(jobs) \in Seq(JobSet)
        /\ JobsSound(Tail(jobs)) /\ Tail(jobs) # <<>>
    BY <1>1, <1>2, TailJobs DEF JobTyped
  <2>2. k \in CallSet
    BY <2>1 DEF CallSet, Stages
  <2>3. CallSound(k)
    BY <2>1 DEF CallSound
  <2>4. call' = [call EXCEPT ![c] = k]
    BY <1>2 DEF Return
  <2>5. k.stage = "cas" /\ (k.jobs = <<>> <=> jobs = <<>>)
    BY <1>2, <2>1
  <2> HIDE DEF k
  <2> QED BY <2>2, <2>3, <2>4, <2>5 DEF CallMoves
<1>3. CASE ~(jobs # <<>> /\ Head(jobs).do = "wake")
  <2> DEFINE k == [Idle EXCEPT !.stage = IF jobs = <<>> THEN @ ELSE "next",
                               !.jobs = jobs]
  <2>1. call' = [call EXCEPT ![c] = k]
    BY <1>3 DEF Return
  <2>2. /\ k.stage = IF jobs = <<>> THEN "idle" ELSE "next"
        /\ k.thread = Nobody /\ k.os = Nobody /\ k.jobs = jobs
    BY DEF Idle
  <2>3. k \in CallSet
    BY <1>1 DEF Idle, CallSet, Stages
  <2> HIDE DEF k
  <2>4. CallSound(k)
    BY <1>1, <2>2 DEF CallSound
  <2> QED BY <2>1, <2>2, <2>3, <2>4 DEF CallMoves
<1> QED BY <1>2, <1>3

(* A wake-up step that leaves the count alone. *)
LEMMA QuietCallKeep ==
  ASSUME CountInv, NEW c \in Callers, NEW k, CallMoves(c, k),
         k.jobs = <<>> <=> call[c].jobs = <<>>,
         k.stage \in InWakeStages <=> call[c].stage \in InWakeStages,
         UNCHANGED <<os_status, pc, home, active_count>>
  PROVE  CountInv'
<1>1. CallWeight(k) = CallWeight(call[c])
  BY WeightMoves
<1>2. active_count \in Int /\ CallWeight(call[c]) \in Int
  BY CallWeightType, Parts DEF CountInv
<1> QED BY <1>1, <1>2, CallOnlyKeep

(* An enumeration of a finite set is a sequence of its elements. *)
LEMMA SeqsOfSet ==
  ASSUME NEW S, IsFiniteSet(S), NEW q \in SetToSeqs(S)
  PROVE  q \in Seq(S) /\ Len(q) = Cardinality(S)
<1>1. Cardinality(S) \in Nat
  BY FS_CardinalityType
<1>2. q \in [1..Cardinality(S) -> S]
  BY DEF SetToSeqs
<1> QED BY <1>1, <1>2

(* The jobs that come after the walk: the OS threads, and to leave. *)
OSJobs(os) == Append([i \in 1..Len(os) |-> [do |-> "os", of |-> os[i]]],
                     [do |-> "leave", of |-> Nobody])

(* Their shape. *)
LEMMA OSJobsAre ==
  ASSUME NEW os \in Seq(OSThreads)
  PROVE  /\ OSJobs(os) \in Seq(JobSet) /\ OSJobs(os) # <<>>
         /\ Len(OSJobs(os)) = Len(os) + 1 /\ Len(os) \in Nat
         /\ \A i \in 1..Len(os) : OSJobs(os)[i] = [do |-> "os", of |-> os[i]]
         /\ OSJobs(os)[Len(os) + 1] = [do |-> "leave", of |-> Nobody]
         /\ JobsSound(OSJobs(os))
<1> DEFINE f == [i \in 1..Len(os) |-> [do |-> "os", of |-> os[i]]]
           last == [do |-> "leave", of |-> Nobody]
<1>1. Len(os) \in Nat /\ \A i \in 1..Len(os) : os[i] \in OSThreads
  OBVIOUS
<1>2. last \in JobSet /\ \A i \in 1..Len(os) : [do |-> "os", of |-> os[i]] \in JobSet
  BY <1>1 DEF JobSet
<1>3. f \in Seq(JobSet) /\ Len(f) = Len(os)
  BY <1>1, <1>2
<1>4. \A i \in 1..Len(os) : f[i] = [do |-> "os", of |-> os[i]]
  OBVIOUS
<1> HIDE DEF f, last
<1>5. /\ Append(f, last) \in Seq(JobSet) /\ Len(Append(f, last)) = Len(os) + 1
      /\ \A i \in 1..Len(os) : Append(f, last)[i] = f[i]
      /\ Append(f, last)[Len(os) + 1] = last
  BY <1>2, <1>3
<1>6. OSJobs(os) = Append(f, last)
  BY DEF OSJobs, f, last
<1>7. last.do = "leave" /\ last = [do |-> "leave", of |-> Nobody]
  BY DEF last
<1>8. PICK ks : ks = OSJobs(os)
  OBVIOUS
<1>9. /\ ks \in Seq(JobSet) /\ Len(ks) = Len(os) + 1 /\ ks[Len(os) + 1] = last
      /\ \A i \in 1..Len(os) : ks[i] = [do |-> "os", of |-> os[i]]
  BY <1>4, <1>5, <1>6, <1>8
<1>10. ks # <<>>
  BY <1>1, <1>9
<1>11. ASSUME NEW i \in 1..Len(ks) PROVE JobTyped(ks[i]) /\ ks[i].do # "flag"
  <2>1. CASE i \in 1..Len(os)
    <3>0. ks[i] = [do |-> "os", of |-> os[i]] /\ os[i] \in OSThreads
      BY <1>1, <1>9, <2>1
    <3>1. ks[i].do = "os" /\ ks[i].of = os[i]
      BY <3>0
    <3> QED BY <3>0, <3>1 DEF JobTyped
  <2>2. CASE i = Len(os) + 1
    BY <1>7, <1>9, <2>2 DEF JobTyped
  <2> QED BY <1>1, <1>9, <2>1, <2>2
<1>12. JobsSound(ks)
  BY <1>7, <1>9, <1>11 DEF JobsSound
<1> QED BY <1>1, <1>7, <1>8, <1>9, <1>10, <1>12

(* The jobs of a shutdown: a flag comes only with a wake, the end is to leave. *)
LEMMA JobsShape ==
  ASSUME NEW os \in Seq(OSThreads)
  PROVE  /\ Jobs(os) \in Seq(JobSet) /\ Jobs(os) # <<>> /\ JobsSound(Jobs(os))
         /\ Jobs(os) = Cons([do |-> "walk", of |-> Nobody], OSJobs(os))
<1>1. Jobs(os) = Cons([do |-> "walk", of |-> Nobody], OSJobs(os))
  BY DEF Jobs, OSJobs
<1>2. /\ [do |-> "walk", of |-> Nobody] \in JobSet
      /\ JobTyped([do |-> "walk", of |-> Nobody])
      /\ [do |-> "walk", of |-> Nobody].do # "flag"
  BY DEF JobSet, JobTyped
<1> QED BY <1>1, <1>2, OSJobsAre, ConsJobs

(* The jobs of a visit. *)
LEMMA VisitJobs ==
  ASSUME NEW js \in Seq(JobSet), js # <<>>, JobsSound(js), NEW t \in Threads \cup {Nobody}
  PROVE  /\ Visit(t, js) \in Seq(JobSet) /\ Visit(t, js) # <<>> /\ JobsSound(Visit(t, js))
<1>1. CASE t = Nobody
  BY <1>1 DEF Visit
<1>2. CASE t # Nobody
  <2>1. PICK f, w : f = [do |-> "flag", of |-> t] /\ w = [do |-> "wake", of |-> t]
    OBVIOUS
  <2>2. /\ f \in JobSet /\ JobTyped(f) /\ f.do = "flag"
        /\ w \in JobSet /\ JobTyped(w) /\ w.do = "wake"
    BY <1>2, <2>1 DEF JobSet, JobTyped
  <2>3. PICK ks : ks = Cons(w, js)
    OBVIOUS
  <2>4. ks \in Seq(JobSet) /\ ks # <<>> /\ JobsSound(ks) /\ Head(ks) = w
    BY <2>2, <2>3, ConsJobs
  <2>5. Cons(f, ks) \in Seq(JobSet) /\ Cons(f, ks) # <<>> /\ JobsSound(Cons(f, ks))
    BY <2>2, <2>4, ConsJobs
  <2>6. Visit(t, js) = Cons(f, ks)
    BY <1>2, <2>1, <2>3 DEF Visit
  <2> QED BY <2>5, <2>6
<1> QED BY <1>1, <1>2

(* The walk goes on, and what it leaves to do. *)
LEMMA WalkIs ==
  ASSUME NEW c \in Callers, ShutDownWalk(c), NEW js \in Seq(JobSet), js = call[c].jobs,
         js # <<>>, JobsSound(js)
  PROVE  /\ Head(js).do = "walk" /\ Head(js).of \in Threads \cup {Nobody}
         /\ Tail(js) \in Seq(JobSet) /\ Tail(js) # <<>> /\ JobsSound(Tail(js))
         /\ \E ks \in Seq(JobSet) :
               /\ ks # <<>> /\ JobsSound(ks) /\ call' = [call EXCEPT ![c].jobs = ks]
               /\ \/ /\ ks = Visit(Head(js).of, Tail(js))
                     /\ Head(js).of # Nobody /\ Head(js).of \notin NewThreads
                     /\ missed' = {s \in NewThreads : ~shutdown_request[s]}
                  \/ /\ ks = Visit(Head(js).of, Tail(js))
                     /\ Head(js).of = Nobody \/ Head(js).of \in NewThreads
                     /\ Behind(Head(js).of) = {} /\ missed' = missed
                  \/ /\ Head(js).of = Nobody \/ Head(js).of \in NewThreads
                     /\ missed' = missed
                     /\ \E s \in Foremost(Behind(Head(js).of)) :
                           ks = Visit(Head(js).of, Cons([do |-> "walk", of |-> s], Tail(js)))
<1>1. PICK t, rest : t = Head(js).of /\ rest = Tail(js)
  OBVIOUS
<1>2. Head(js).do = "walk"
  BY DEF ShutDownWalk, Job
<1>3. t \in Threads \cup {Nobody} /\ rest \in Seq(JobSet) /\ rest # <<>> /\ JobsSound(rest)
  BY <1>1, <1>2, TailJobs DEF JobTyped
<1>4. \/ /\ t # Nobody /\ t \notin NewThreads
         /\ call' = [call EXCEPT ![c].jobs = Visit(t, rest)]
         /\ missed' = {s \in NewThreads : ~shutdown_request[s]}
      \/ /\ t = Nobody \/ t \in NewThreads
         /\ missed' = missed
         /\ \/ Behind(t) = {} /\ call' = [call EXCEPT ![c].jobs = Visit(t, rest)]
            \/ \E s \in Foremost(Behind(t)) :
                  call' = [call EXCEPT ![c].jobs = Visit(t, Cons([do |-> "walk", of |-> s], rest))]
  BY <1>1, Zenon DEF ShutDownWalk
<1>5. Visit(t, rest) \in Seq(JobSet) /\ Visit(t, rest) # <<>> /\ JobsSound(Visit(t, rest))
  BY <1>3, VisitJobs
<1>6. ASSUME NEW s \in Foremost(Behind(t))
      PROVE  LET ks == Visit(t, Cons([do |-> "walk", of |-> s], rest))
             IN ks \in Seq(JobSet) /\ ks # <<>> /\ JobsSound(ks)
  <2>1. s \in Threads
    BY DEF Foremost, Behind, NewThreads
  <2>2. PICK w : w = [do |-> "walk", of |-> s]
    OBVIOUS
  <2>3. w \in JobSet /\ JobTyped(w) /\ w.do # "flag"
    BY <2>1, <2>2 DEF JobSet, JobTyped
  <2>4. Cons(w, rest) \in Seq(JobSet) /\ Cons(w, rest) # <<>> /\ JobsSound(Cons(w, rest))
    BY <1>3, <2>3, ConsJobs
  <2> QED BY <1>3, <2>2, <2>4, VisitJobs
<1>7. CASE /\ t # Nobody /\ t \notin NewThreads
           /\ call' = [call EXCEPT ![c].jobs = Visit(t, rest)]
           /\ missed' = {s \in NewThreads : ~shutdown_request[s]}
  BY <1>1, <1>2, <1>3, <1>5, <1>7, Zenon
<1>8. CASE /\ t = Nobody \/ t \in NewThreads
           /\ missed' = missed /\ Behind(t) = {}
           /\ call' = [call EXCEPT ![c].jobs = Visit(t, rest)]
  BY <1>1, <1>2, <1>3, <1>5, <1>8, Zenon
<1>9. CASE /\ t = Nobody \/ t \in NewThreads
           /\ missed' = missed
           /\ \E s \in Foremost(Behind(t)) :
                 call' = [call EXCEPT ![c].jobs = Visit(t, Cons([do |-> "walk", of |-> s], rest))]
  <2>1. PICK s \in Foremost(Behind(t)) :
           call' = [call EXCEPT ![c].jobs = Visit(t, Cons([do |-> "walk", of |-> s], rest))]
    BY <1>9
  <2>2. PICK ks : ks = Visit(t, Cons([do |-> "walk", of |-> s], rest))
    OBVIOUS
  <2>3. ks \in Seq(JobSet) /\ ks # <<>> /\ JobsSound(ks)
    BY <1>6, <2>2
  <2> QED BY <1>1, <1>2, <1>3, <1>9, <2>1, <2>2, <2>3, Zenon
<1> QED BY <1>4, <1>7, <1>8, <1>9, Zenon

(* The steps of smt_method_send and of the signal handler. *)
LEMMA SendSteps ==
  ASSUME CountInv, NEW c \in Callers, NEW t \in Threads,
         Send(c, t) \/ RaiseSignal(c, t)
  PROVE  CountInv'
<1>0. call[c] \in CallSet /\ CallSound(call[c])
  BY DEF CountInv, CallsTyped, CallsSound
<1>1. UNCHANGED <<os_status, pc, home, active_count>> /\ call[c].stage = "idle"
  BY DEF Send, RaiseSignal, osVars
<1>2. CASE call' = call
  BY <1>1, <1>2 DEF CountInv, OSTyped, CallsTyped, CallsSound, Marked, CountExact
<1>3. CASE call' = [call EXCEPT ![c].stage = "cas", ![c].thread = t]
  <2> DEFINE k == [call[c] EXCEPT !.stage = "cas", !.thread = t]
  <2>1. call' = [call EXCEPT ![c] = k]
    BY <1>3 DEF CountInv, CallsTyped
  <2>2. k \in CallSet /\ k.stage = "cas" /\ k.thread = t /\ k.jobs = call[c].jobs
    BY <1>0 DEF CallSet, Stages
  <2> HIDE DEF k
  <2>3. CallSound(k)
    BY <1>0, <2>2 DEF CallSound
  <2> QED BY <1>1, <2>1, <2>2, <2>3, QuietCallKeep DEF CallMoves, InWakeStages
<1> QED BY <1>2, <1>3 DEF Send, RaiseSignal

(* The steps of smt_thread_wake and of smt_os_thread_wake. *)
LEMMA WakeSteps ==
  ASSUME CountInv, NEW c \in Callers, Wake(c)
  PROVE  CountInv'
<1>0. call[c] \in CallSet /\ CallSound(call[c])
  BY DEF CountInv, CallsTyped, CallsSound
<1>a. active_count \in Int /\ CallWeight(call[c]) \in Int
  BY CallWeightType, Parts DEF CountInv
<1>1. CASE WakeThread(c)
  <2>0. UNCHANGED <<os_status, pc, home, active_count>> /\ call[c].stage \in {"cas", "cas2"}
    BY <1>1, Tables DEF WakeThread, osVars
  <2>1. CASE \E o \in IF home[call[c].thread] = Nobody THEN OSThreads
                      ELSE {home[call[c].thread]} :
                call' = [call EXCEPT ![c].stage = "queue", ![c].os = o]
    <3>1. PICK o \in IF home[call[c].thread] = Nobody THEN OSThreads
                     ELSE {home[call[c].thread]} :
                call' = [call EXCEPT ![c].stage = "queue", ![c].os = o]
      BY <2>1
    <3>2. call[c].thread \in Threads /\ o \in OSThreads
      BY <1>0, <2>0, <3>1 DEF CallSound, CountInv, OSTyped
    <3> DEFINE k == [call[c] EXCEPT !.stage = "queue", !.os = o]
    <3>3. call' = [call EXCEPT ![c] = k]
      BY <3>1 DEF CountInv, CallsTyped
    <3>4. /\ k \in CallSet /\ k.stage = "queue" /\ k.thread = call[c].thread
          /\ k.os = o /\ k.jobs = call[c].jobs
      BY <1>0, <3>2 DEF CallSet, Stages
    <3> HIDE DEF k
    <3>5. CallSound(k)
      BY <1>0, <3>2, <3>4 DEF CallSound
    <3> QED BY <2>0, <3>3, <3>4, <3>5, QuietCallKeep DEF CallMoves, InWakeStages
  <2>2. CASE Enter(c, "cas2")
    <3>1. PICK k : /\ CallMoves(c, k) /\ k.stage = "cas2"
                   /\ k.jobs = <<>> <=> call[c].jobs = <<>>
      BY <1>0, <2>0, <2>2, EnterMoves DEF CallSound, Stages, OSStages
    <3> QED BY <2>0, <3>1, QuietCallKeep DEF InWakeStages
  <2>3. CASE Return(c)
    <3>1. PICK k : /\ CallMoves(c, k) /\ k.stage \in {"idle", "next", "cas"}
                   /\ k.jobs = <<>> <=> call[c].jobs = <<>>
      BY <2>3, ReturnMoves
    <3> QED BY <2>0, <3>1, QuietCallKeep DEF InWakeStages
  <2> QED BY <1>1, <2>1, <2>2, <2>3 DEF WakeThread
<1>2. CASE QueueThread(c)
  <2>1. PICK k : /\ CallMoves(c, k) /\ k.stage = "inc"
                 /\ k.jobs = <<>> <=> call[c].jobs = <<>>
    BY <1>0, <1>2, EnterMoves DEF QueueThread, CallSound, Stages, OSStages
  <2>2. UNCHANGED <<os_status, pc, home, active_count>> /\ call[c].stage = "queue"
    BY <1>2 DEF QueueThread, threadVars
  <2> QED BY <2>1, <2>2, QuietCallKeep DEF InWakeStages
<1>3. CASE WakeCount(c)
  <2>1. PICK k : /\ CallMoves(c, k) /\ k.stage = "swap"
                 /\ k.jobs = <<>> <=> call[c].jobs = <<>>
    BY <1>0, <1>3, EnterMoves DEF WakeCount, CallSound, Stages, OSStages
  <2>2. /\ UNCHANGED <<os_status, pc, home>> /\ call[c].stage = "inc"
        /\ active_count' = active_count + 1
    BY <1>3 DEF WakeCount, threadVars, osVars
  <2>3. CallWeight(k) = CallWeight(call[c]) + 1
    BY <2>1, <2>2, WeightMoves DEF InWakeStages
  <2>4. active_count' = active_count + CallWeight(k) - CallWeight(call[c])
    BY <1>a, <2>2, <2>3
  <2> QED BY <2>1, <2>2, <2>4, CallOnlyKeep
<1>4. CASE WakeSwap(c)
  <2> DEFINE o == call[c].os
             stage == CASE os_status[o] = "sleeping" -> "signal"
                        [] os_status[o] = "polling" -> "dec pipe"
                        [] OTHER -> "dec"
  <2>1. o \in OSThreads /\ call[c].stage = "swap"
    BY <1>0, <1>4 DEF WakeSwap, CallSound
  <2>2. stage \in {"signal", "dec pipe", "dec"}
        /\ (stage = "signal" <=> os_status[o] = "sleeping")
    OBVIOUS
  <2>3. Enter(c, stage)
    BY <1>4 DEF WakeSwap
  <2>4. /\ os_status' = [os_status EXCEPT ![o] = "active"]
        /\ UNCHANGED <<pc, home, active_count>>
    BY <1>4 DEF WakeSwap, threadVars
  <2> HIDE DEF stage
  <2>a. /\ stage \in Stages /\ stage \notin {"idle", "next"}
        /\ stage \notin {"cas", "cas2", "queue"}
    BY <2>2 DEF Stages
  <2>5. PICK k : /\ CallMoves(c, k) /\ k.stage = stage
                 /\ k.jobs = <<>> <=> call[c].jobs = <<>>
    BY <2>1, <2>3, <2>a, EnterMoves
  <2> HIDE DEF o
  <2>6. OSTyped' /\ Marked'
    BY <2>1, <2>4 DEF CountInv, OSTyped, Marked, OSStatuses
  <2>7. pc' = [pc EXCEPT ![o] = pc[o]]
    BY <2>4 DEF CountInv, OSTyped
  <2>8. OSPart' = OSPart + Weight("active", pc[o]) - Weight(os_status[o], pc[o])
    BY <2>1, <2>4, <2>7, OSPartMoves DEF CountInv
  <2>9. OSPart \in Int
    BY Parts
  <2>10. CASE stage = "signal"
    <3>1. Weight("active", pc[o]) = Weight(os_status[o], pc[o]) + 1
          /\ Weight(os_status[o], pc[o]) \in Int
      BY <2>2, <2>10, WeightIs
    <3>2. OSPart' = OSPart + 1
      BY <2>8, <2>9, <3>1
    <3>3. CallWeight(k) = CallWeight(call[c]) - 1
      BY <2>1, <2>5, <2>10, WeightMoves DEF InWakeStages
    <3>4. active_count' = active_count + 1 + CallWeight(k) - CallWeight(call[c])
      BY <1>a, <2>4, <3>3
    <3> QED BY <2>5, <2>6, <3>2, <3>4, CallMovesKeep
  <2>11. CASE stage # "signal"
    <3>1. Weight("active", pc[o]) = Weight(os_status[o], pc[o])
          /\ Weight(os_status[o], pc[o]) \in Int
      <4>1. os_status[o] # "sleeping"
        BY <2>2, <2>11
      <4>2. CASE pc[o] \in Extra
        BY <4>1, <4>2, WeightIs
      <4>3. CASE pc[o] \notin Extra
        BY <4>1, <4>3, WeightIs
      <4> QED BY <4>2, <4>3
    <3>2. OSPart' = OSPart + 0
      BY <2>8, <2>9, <3>1
    <3>3. CallWeight(k) = CallWeight(call[c])
      BY <2>1, <2>2, <2>5, <2>11, WeightMoves DEF InWakeStages
    <3>4. active_count' = active_count + 0 + CallWeight(k) - CallWeight(call[c])
      BY <1>a, <2>4, <3>3
    <3> QED BY <2>5, <2>6, <3>2, <3>4, CallMovesKeep
  <2> QED BY <2>10, <2>11
<1>5. CASE WakeSignal(c)
  <2> DEFINE o == call[c].os
  <2>1. o \in OSThreads /\ call[c].stage = "signal"
    BY <1>0, <1>5 DEF WakeSignal, CallSound
  <2>2. /\ pc' = [pc EXCEPT ![o] = IF pc[o] = "asleep" THEN "cond" ELSE pc[o]]
        /\ UNCHANGED <<os_status, home, active_count>> /\ Return(c)
    BY <1>5 DEF WakeSignal, threadVars
  <2> HIDE DEF o
  <2>3. OSTyped' /\ Marked'
    BY <2>1, <2>2 DEF CountInv, OSTyped, Marked, Places, Resting
  <2>4. AwakeOS' = AwakeOS /\ ExtraOS' = ExtraOS
    BY <2>1, <2>2 DEF AwakeOS, ExtraOS, Extra, CountInv, OSTyped
  <2>5. OSPart' = OSPart + 0
    BY <2>4, Parts DEF OSPart
  <2>6. PICK k : /\ CallMoves(c, k) /\ k.stage \in {"idle", "next", "cas"}
                 /\ k.jobs = <<>> <=> call[c].jobs = <<>>
    BY <2>2, ReturnMoves
  <2>7. CallWeight(k) = CallWeight(call[c])
    BY <2>1, <2>6, WeightMoves DEF InWakeStages
  <2>8. active_count' = active_count + 0 + CallWeight(k) - CallWeight(call[c])
    BY <1>a, <2>2, <2>7
  <2> QED BY <2>3, <2>5, <2>6, <2>8, CallMovesKeep
<1>6. CASE WakeUncount(c)
  <2>1. /\ UNCHANGED <<os_status, pc, home>> /\ call[c].stage \in {"dec", "dec pipe"}
        /\ active_count' = active_count - 1
    BY <1>6 DEF WakeUncount, threadVars, osVars
  <2>2. PICK k : /\ CallMoves(c, k) /\ k.stage \in {"idle", "next", "cas", "pipe"}
                 /\ k.jobs = <<>> <=> call[c].jobs = <<>>
    <3>1. CASE Return(c)
      BY <3>1, ReturnMoves
    <3>2. CASE Enter(c, "pipe")
      <4>1. "pipe" \in Stages /\ call[c].os \in OSThreads
        BY <1>0, <2>1 DEF Stages, CallSound
      <4>2. \E k : /\ CallMoves(c, k) /\ k.stage = "pipe"
                   /\ k.jobs = <<>> <=> call[c].jobs = <<>>
        BY <3>2, <4>1, EnterMoves
      <4> QED BY <4>2
    <3> QED BY <1>6, <3>1, <3>2 DEF WakeUncount
  <2>3. CallWeight(k) = CallWeight(call[c]) - 1
    BY <2>1, <2>2, WeightMoves DEF InWakeStages
  <2>a. active_count' = active_count - 1
    BY <2>1
  <2>4. active_count' = active_count + CallWeight(k) - CallWeight(call[c])
    BY <1>a, <2>a, <2>3
  <2> QED BY <2>1, <2>2, <2>4, CallOnlyKeep
<1>7. CASE WakePipe(c)
  <2>1. UNCHANGED <<os_status, pc, home, active_count>> /\ call[c].stage = "pipe"
        /\ Return(c)
    BY <1>7 DEF WakePipe, threadVars
  <2>2. PICK k : /\ CallMoves(c, k) /\ k.stage \in {"idle", "next", "cas"}
                 /\ k.jobs = <<>> <=> call[c].jobs = <<>>
    BY <2>1, ReturnMoves
  <2> QED BY <2>1, <2>2, QuietCallKeep DEF InWakeStages
<1> QED BY <1>1, <1>2, <1>3, <1>4, <1>5, <1>6, <1>7 DEF Wake

(* The steps of smt_shut_down. *)
LEMMA StopSteps ==
  ASSUME CountInv, NEW c \in Callers, ShutDown(c) \/ ShuttingDown(c)
  PROVE  CountInv'
<1>0. call[c] \in CallSet /\ CallSound(call[c]) /\ call[c].jobs \in Seq(JobSet)
  BY DEF CountInv, CallsTyped, CallsSound, CallSet
<1>a. active_count \in Int /\ CallWeight(call[c]) \in Int
  BY CallWeightType, Parts DEF CountInv
<1>1. CASE ShutDown(c)
  <2>1. PICK os \in SetToSeqs(OSThreads) :
             call' = [call EXCEPT ![c].stage = "next", ![c].jobs = Jobs(os)]
    BY <1>1 DEF ShutDown
  <2>2. /\ UNCHANGED <<os_status, pc, home>> /\ call[c].stage = "idle"
        /\ active_count' = active_count + 1
    BY <1>1 DEF ShutDown, threadVars, osVars
  <2>4. os \in Seq(OSThreads)
    BY Finite, SeqsOfSet
  <2> DEFINE js == Jobs(os)
             k == [call[c] EXCEPT !.stage = "next", !.jobs = js]
  <2>6. js \in Seq(JobSet) /\ js # <<>> /\ JobsSound(js)
    BY <2>4, JobsShape
  <2> HIDE DEF js
  <2>7. call' = [call EXCEPT ![c] = k]
    BY <2>1 DEF CountInv, CallsTyped, js
  <2>8. k \in CallSet /\ k.stage = "next" /\ k.jobs = js
    BY <1>0, <2>6 DEF CallSet, Stages
  <2> HIDE DEF k
  <2>9. CallSound(k)
    BY <2>6, <2>8 DEF CallSound
  <2>10. call[c].jobs = <<>>
    BY <1>0, <2>2 DEF CallSound
  <2>11. CallWeight(k) = 1 /\ CallWeight(call[c]) = 0
    BY <2>2, <2>6, <2>8, <2>10, CallWeightIs
  <2>12. active_count' = active_count + CallWeight(k) - CallWeight(call[c])
    BY <1>a, <2>2, <2>11
  <2> QED BY <2>2, <2>7, <2>8, <2>9, <2>12, CallOnlyKeep DEF CallMoves
<1>w. CASE ShutDownWalk(c)
  <2>1. PICK js : js = call[c].jobs
    OBVIOUS
  <2>2. /\ UNCHANGED <<os_status, pc, home, active_count>> /\ call[c].stage = "next"
    BY <1>w DEF ShutDownWalk, Job, threadVars, osVars
  <2>3. js \in Seq(JobSet) /\ js # <<>> /\ JobsSound(js)
    BY <1>0, <2>1, <2>2 DEF CallSound
  <2>4. PICK ks \in Seq(JobSet) :
           ks # <<>> /\ JobsSound(ks) /\ call' = [call EXCEPT ![c].jobs = ks]
    BY <1>w, <2>1, <2>3, WalkIs
  <2>5. PICK k : k = [call[c] EXCEPT !.jobs = ks]
    OBVIOUS
  <2>6. call' = [call EXCEPT ![c] = k]
    BY <2>4, <2>5 DEF CountInv, CallsTyped
  <2>7. k \in CallSet /\ k.stage = "next" /\ k.jobs = ks
    BY <1>0, <2>2, <2>5 DEF CallSet, Stages
  <2>8. CallSound(k)
    BY <2>4, <2>7 DEF CallSound
  <2>9. k.jobs = <<>> <=> call[c].jobs = <<>>
    BY <2>1, <2>3, <2>4, <2>7
  <2> QED BY <2>2, <2>6, <2>7, <2>8, <2>9, QuietCallKeep DEF CallMoves, InWakeStages
<1>2. CASE ShutDownNewborn(c)
  <2> DEFINE js == call[c].jobs
  <2>1. /\ UNCHANGED <<os_status, pc, home, active_count>> /\ call[c].stage = "next"
        /\ Head(js).do = "flag"
    BY <1>2 DEF ShutDownNewborn, Job, osVars
  <2>2. js \in Seq(JobSet) /\ js # <<>> /\ JobsSound(js)
    BY <1>0, <2>1 DEF CallSound
  <2>3. /\ Tail(js) \in Seq(JobSet) /\ JobsSound(Tail(js)) /\ Tail(js) # <<>>
        /\ Head(js).of \in Threads /\ Head(Tail(js)).do = "wake"
    BY <2>1, <2>2, TailJobs DEF JobTyped
  <2>4. /\ Tail(Tail(js)) \in Seq(JobSet) /\ JobsSound(Tail(Tail(js)))
        /\ Tail(Tail(js)) # <<>>
    BY <2>3, TailJobs
  <2>5. CASE call' = [call EXCEPT ![c].stage = "cas", ![c].thread = Head(js).of,
                                  ![c].jobs = Tail(@)]
    <3> DEFINE k == [call[c] EXCEPT !.stage = "cas", !.thread = Head(js).of,
                                    !.jobs = Tail(js)]
    <3>1. call' = [call EXCEPT ![c] = k]
      BY <2>5 DEF CountInv, CallsTyped
    <3>2. /\ k \in CallSet /\ k.stage = "cas" /\ k.thread = Head(js).of
          /\ k.jobs = Tail(js)
      BY <1>0, <2>3 DEF CallSet, Stages
    <3> HIDE DEF k
    <3>3. CallSound(k)
      BY <2>3, <3>2 DEF CallSound
    <3> QED BY <2>1, <2>2, <2>3, <3>1, <3>2, <3>3, QuietCallKeep DEF CallMoves, InWakeStages
  <2>6. CASE call' = [call EXCEPT ![c].jobs = Tail(Tail(@))]
    <3> DEFINE k == [call[c] EXCEPT !.jobs = Tail(Tail(js))]
    <3>1. call' = [call EXCEPT ![c] = k]
      BY <2>6 DEF CountInv, CallsTyped
    <3>2. k \in CallSet /\ k.stage = "next" /\ k.jobs = Tail(Tail(js))
      BY <1>0, <2>1, <2>4 DEF CallSet, Stages
    <3> HIDE DEF k
    <3>3. CallSound(k)
      BY <2>4, <3>2 DEF CallSound
    <3> QED BY <2>1, <2>2, <2>4, <3>1, <3>2, <3>3, QuietCallKeep DEF CallMoves, InWakeStages
  <2> QED BY <1>2, <2>5, <2>6 DEF ShutDownNewborn
<1>3. CASE ShutDownOSThread(c)
  <2> DEFINE js == call[c].jobs
             k == [call[c] EXCEPT !.stage = "swap", !.os = Head(js).of,
                                  !.jobs = Tail(js)]
  <2>1. /\ UNCHANGED <<os_status, pc, home>> /\ call[c].stage = "next"
        /\ Head(js).do = "os" /\ active_count' = active_count + 1
    BY <1>3 DEF ShutDownOSThread, Job, threadVars
  <2>2. js \in Seq(JobSet) /\ js # <<>> /\ JobsSound(js)
    BY <1>0, <2>1 DEF CallSound
  <2>3. /\ Tail(js) \in Seq(JobSet) /\ JobsSound(Tail(js)) /\ Tail(js) # <<>>
        /\ Head(js).of \in OSThreads
    BY <2>1, <2>2, TailJobs DEF JobTyped
  <2>4. call' = [call EXCEPT ![c] = k]
    BY <1>3 DEF ShutDownOSThread, CountInv, CallsTyped
  <2>5. /\ k \in CallSet /\ k.stage = "swap" /\ k.os = Head(js).of
        /\ k.jobs = Tail(js)
    BY <1>0, <2>3 DEF CallSet, Stages
  <2> HIDE DEF k
  <2>6. CallSound(k)
    BY <2>3, <2>5 DEF CallSound
  <2>7. k.jobs = <<>> <=> call[c].jobs = <<>>
    BY <2>2, <2>3, <2>5
  <2>8. CallWeight(k) = CallWeight(call[c]) + 1
    BY <2>1, <2>5, <2>7, WeightMoves DEF InWakeStages
  <2>9. active_count' = active_count + CallWeight(k) - CallWeight(call[c])
    BY <1>a, <2>1, <2>8
  <2> QED BY <2>1, <2>4, <2>5, <2>6, <2>9, CallOnlyKeep DEF CallMoves
<1>4. CASE ShutDownLeave(c)
  <2>1. /\ UNCHANGED <<os_status, pc, home>> /\ call[c].stage = "next"
        /\ call' = [call EXCEPT ![c] = Idle]
    BY <1>4 DEF ShutDownLeave, Job, threadVars, osVars
  <2>2. active_count' = active_count - 1
    BY <1>4 DEF ShutDownLeave
  <2>3. Idle \in CallSet /\ Idle.stage = "idle" /\ Idle.jobs = <<>>
    BY DEF Idle, CallSet, Stages
  <2>4. CallSound(Idle)
    BY DEF Idle, CallSound, JobsSound
  <2>5. call[c].jobs # <<>>
    BY <1>0, <2>1 DEF CallSound
  <2>6. CallWeight(Idle) = 0 /\ CallWeight(call[c]) = 1
    BY <2>1, <2>3, <2>5, CallWeightIs
  <2>7. active_count' = active_count + CallWeight(Idle) - CallWeight(call[c])
    BY <1>a, <2>2, <2>6
  <2> QED BY <2>1, <2>3, <2>4, <2>7, CallOnlyKeep DEF CallMoves
<1> QED BY <1>1, <1>w, <1>2, <1>3, <1>4 DEF ShuttingDown

(* No OS thread sleeps at the start and no caller has called. *)
LEMMA CountInit == Init => CountInv
<1> SUFFICES ASSUME Init PROVE CountInv
  OBVIOUS
<1>1. Idle \in CallSet /\ CallSound(Idle) /\ Idle.stage = "idle" /\ Idle.jobs = <<>>
  BY DEF Idle, CallSet, Stages, CallSound, JobsSound
<1>2. CallsTyped /\ CallsSound
  BY <1>1 DEF Init, CallsTyped, CallsSound
<1>3. OSTyped /\ Marked
  BY DEF Init, OSTyped, Marked, OSStatuses, Places, Clearing
<1>4. AwakeOS = OSThreads /\ ExtraOS = {}
  BY DEF Init, AwakeOS, ExtraOS, Extra
<1>5. InWake = {} /\ InStop = {}
  BY <1>1 DEF Init, InWake, InStop
<1>6. Cardinality({}) = 0 /\ Cardinality(OSThreads) \in Nat
  BY Finite, FS_EmptySet, FS_CardinalityType
<1>7. active_count = OSPart + CallPart
  BY <1>4, <1>5, <1>6 DEF Init, OSPart, CallPart
<1> QED BY <1>2, <1>3, <1>7, Parts DEF CountInv

(* Every step keeps the invariant. *)
LEMMA CountNext == CountInv /\ [Next]_vars => CountInv'
<1> SUFFICES ASSUME CountInv, [Next]_vars PROVE CountInv'
  OBVIOUS
<1>1. ASSUME NEW c \in Senders, NEW t \in Threads, Send(c, t) PROVE CountInv'
  BY <1>1, SendSteps DEF Callers
<1>2. ASSUME NEW c \in Senders, NEW t \in SignalThreads, RaiseSignal(c, t)
      PROVE  CountInv'
  BY <1>2, SendSteps, ThreadsAssumption DEF Callers
<1>3. ASSUME NEW c \in Stoppers, ShutDown(c) PROVE CountInv'
  BY <1>3, StopSteps DEF Callers
<1>4. ASSUME NEW c \in Callers, Wake(c) \/ ShuttingDown(c) PROVE CountInv'
  BY <1>4, WakeSteps, StopSteps
<1>5. ASSUME NEW o \in OSThreads, OSStep(o) \/ WaitRequest(o) PROVE CountInv'
  <2>1. \E s, p : OSMoves(o, s, p)
    BY <1>5, LookSteps, CountSteps, RunSteps DEF OSStep
  <2> QED BY <2>1, OSMovesKeep
<1>6. CASE UNCHANGED vars
  BY <1>6 DEF vars, threadVars, osVars, CountInv, OSTyped, CallsTyped, CallsSound,
              Marked, CountExact
<1> QED BY <1>1, <1>2, <1>3, <1>4, <1>5, <1>6 DEF Next

(***************************************************************************)
(* The count of active OS threads that smt_os_thread_wake and s_execute    *)
(* keep without a lock, by increments that may be taken back, is exact in  *)
(* every reachable state.                                                  *)
(***************************************************************************)
THEOREM CountIsExact == Spec => []CountExact
<1>1. CountInv => CountExact
  BY DEF CountInv
<1> QED BY <1>1, CountInit, CountNext, PTL DEF Spec
=============================================================================
