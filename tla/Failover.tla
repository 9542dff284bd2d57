------------------------------ MODULE Failover ------------------------------
(***************************************************************************)
(* The high-availability pair: two servers, each with an amq_failover      *)
(* agent that publishes its state on its own amq.status exchange, hears    *)
(* the other's state through a peering, and decides whether the server     *)
(* takes applications.                                                     *)
(*                                                                         *)
(* Time is abstracted to what the agent asks of it: has the peer been      *)
(* silent for longer than the failover timeout?  The agent's functions     *)
(* hold no lock, so a connection thread that has found the peer silent     *)
(* ("deciding") may act after the peer has been heard again.               *)
(***************************************************************************)
EXTENDS Naturals, Sequences

CONSTANTS
    Peers,        \* the two servers
    Primary,      \* the one configured with --backup; the other has --primary
    Reliable,     \* is the network steady from the start?
    MaxStarts,    \* bound: starts of each server
    MaxInbox      \* bound: notifications in flight to each server

ASSUME FailoverAssumption ==
    /\ Primary \in Peers
    /\ \E q \in Peers : q # Primary /\ Peers = {Primary, q}
    /\ Reliable \in BOOLEAN
    /\ MaxStarts \in Nat /\ MaxInbox \in Nat

VARIABLES
    up,         \* is the server process running?
    state,      \* state of the failover FSM
    silent,     \* is last_peer_time older than the timeout?
    deciding,   \* a connection thread has found the peer silent, and not yet acted
    linked,     \* is the peering to the other server open and subscribed?
    inbox,      \* state notifications on their way from the other server
    starts,     \* times the server was started
    steady      \* no link breaks any more, and a running peer is heard in time

vars == <<up, state, silent, deciding, linked, inbox, starts, steady>>

HaState == {"pending", "active", "passive"}
Other(p) == CHOOSE q \in Peers : q # p

Init ==
    /\ up = [p \in Peers |-> FALSE]
    /\ state = [p \in Peers |-> "pending"]
    /\ silent = [p \in Peers |-> TRUE]
    /\ deciding = [p \in Peers |-> FALSE]
    /\ linked = [p \in Peers |-> FALSE]
    /\ inbox = [p \in Peers |-> <<>>]
    /\ starts = [p \in Peers |-> 0]
    /\ steady = Reliable

-----------------------------------------------------------------------------
(* The state machine                                                       *)

\* A server that starts is pending, and has never heard its peer.
MutantStartState(p) == "passive"
MutantUninitialised(p) == "0"
StartState(p) == "pending"

\* What server p in state s becomes when it hears that its peer is in state t.
MutantReaction(p) ==
    [pending |-> [pending |-> "pending", active |-> "passive", passive |-> "pending"],
     active  |-> [pending |-> "active",  active |-> "abort",   passive |-> "active"],
     passive |-> [pending |-> "active",  active |-> "passive", passive |-> "abort"]]

Reaction(p) ==
    [pending |-> [pending |-> IF p = Primary THEN "active" ELSE "pending",
                  active  |-> "passive",
                  passive |-> "pending"],
     active  |-> [pending |-> "active",  active |-> "abort",   passive |-> "active"],
     passive |-> [pending |-> "active",  active |-> "passive", passive |-> "abort"]]

-----------------------------------------------------------------------------
Start(p) ==
    /\ ~up[p] /\ starts[p] < MaxStarts
    /\ up' = [up EXCEPT ![p] = TRUE]
    /\ state' = [state EXCEPT ![p] = StartState(p)]
    /\ silent' = [silent EXCEPT ![p] = TRUE]
    /\ starts' = [starts EXCEPT ![p] = @ + 1]
    /\ UNCHANGED <<deciding, linked, inbox, steady>>

\* The peering of p to the other server opens, and subscribes to its state.
Connect(p) ==
    /\ up[p] /\ up[Other(p)] /\ ~linked[p]
    /\ linked' = [linked EXCEPT ![p] = TRUE]
    /\ UNCHANGED <<up, state, silent, deciding, inbox, starts, steady>>

\* The monitor timer: p publishes its state; with no subscriber it is discarded.
Monitor(p) ==
    /\ up[p] /\ linked[Other(p)] /\ Len(inbox[Other(p)]) < MaxInbox
    /\ inbox' = [inbox EXCEPT ![Other(p)] = Append(@, state[p])]
    /\ UNCHANGED <<up, state, silent, deciding, linked, starts, steady>>

\* Server p is gone, with its connections; what was in flight to its peer may
\* arrive in part.
Gone(p) ==
    /\ up' = [up EXCEPT ![p] = FALSE]
    /\ linked' = [q \in Peers |-> FALSE]
    /\ deciding' = [deciding EXCEPT ![p] = FALSE]
    /\ \E n \in 0 .. Len(inbox[Other(p)]) :
        inbox' = [inbox EXCEPT ![p] = <<>>, ![Other(p)] = SubSeq(@, 1, n)]
    /\ UNCHANGED <<silent, starts, steady>>

Crash(p) == up[p] /\ Gone(p) /\ UNCHANGED state

\* The content handler: the peer is alive, and its state drives the FSM, which
\* aborts the process on two masters or two slaves.
Receive(p) ==
    /\ up[p] /\ inbox[p] # <<>>
    /\ LET next == Reaction(p)[state[p]][Head(inbox[p])] IN
       \/ /\ next # "abort"
          /\ state' = [state EXCEPT ![p] = next]
          /\ silent' = [silent EXCEPT ![p] = FALSE]
          /\ inbox' = [inbox EXCEPT ![p] = Tail(@)]
          /\ UNCHANGED <<up, deciding, linked, starts, steady>>
       \/ /\ next = "abort"
          /\ Gone(p) /\ UNCHANGED state

\* A link breaks.
Break(p) ==
    /\ ~steady /\ linked[p]
    /\ linked' = [linked EXCEPT ![p] = FALSE]
    /\ \E n \in 0 .. Len(inbox[p]) : inbox' = [inbox EXCEPT ![p] = SubSeq(@, 1, n)]
    /\ UNCHANGED <<up, state, silent, deciding, starts, steady>>

\* The failover timeout passes since the peer was last heard.
Expire(p) ==
    /\ up[p] /\ ~silent[p]
    /\ steady => ~up[Other(p)] /\ inbox[p] = <<>>
    /\ silent' = [silent EXCEPT ![p] = TRUE]
    /\ UNCHANGED <<up, state, deciding, linked, inbox, starts, steady>>

\* Does server p take an application that asks for a connection?  An active server
\* does, and a pending one if it is the primary; the others keep their state.
Accepts(p) == state[p] = "active" \/ (state[p] = "pending" /\ p = Primary)

\* The peer counts as dead once it has been silent for the failover timeout.
MutantPeerDead(p) == ~silent[p]
PeerDead(p) == silent[p]

\* An application asks a passive server whose peer is dead ...
OpenDecide(p) ==
    /\ up[p] /\ state[p] = "passive" /\ PeerDead(p) /\ ~deciding[p]
    /\ deciding' = [deciding EXCEPT ![p] = TRUE]
    /\ UNCHANGED <<up, state, silent, linked, inbox, starts, steady>>

\* ... which then takes over, and accepts it.
OpenTakeOver(p) ==
    /\ deciding[p]
    /\ deciding' = [deciding EXCEPT ![p] = FALSE]
    /\ state' = [state EXCEPT ![p] = "active"]
    /\ UNCHANGED <<up, silent, linked, inbox, starts, steady>>

\* The network settles.
Settle ==
    /\ ~steady
    /\ steady' = TRUE
    /\ UNCHANGED <<up, state, silent, deciding, linked, inbox, starts>>

Next ==
    \/ \E p \in Peers :
        \/ Start(p) \/ Connect(p) \/ Monitor(p) \/ Receive(p) \/ Crash(p) \/ Break(p) \/ Expire(p)
        \/ OpenDecide(p) \/ OpenTakeOver(p)
    \/ Settle

Spec == Init /\ [][Next]_vars

\* A running server's threads run, its timers fire and its peering is retried;
\* applications that cannot connect keep trying.  Nobody has to restart a server.
Fairness == \A p \in Peers :
    /\ WF_vars(Connect(p)) /\ WF_vars(Monitor(p)) /\ WF_vars(Receive(p))
    /\ WF_vars(Expire(p)) /\ WF_vars(OpenDecide(p)) /\ WF_vars(OpenTakeOver(p))

FairSpec == Spec /\ Fairness

-----------------------------------------------------------------------------
\* Every field of the two agents holds a value of its type; the FSM state in
\* particular is one of the three the switch of amq_failover_execute handles.
TypeOK ==
    /\ up \in [Peers -> BOOLEAN] /\ state \in [Peers -> HaState]
    /\ silent \in [Peers -> BOOLEAN] /\ deciding \in [Peers -> BOOLEAN]
    /\ linked \in [Peers -> BOOLEAN] /\ inbox \in [Peers -> Seq(HaState)]
    /\ starts \in [Peers -> Nat] /\ steady \in BOOLEAN

\* "No way to have two passives": two running servers are never both passive, and
\* the assertion on a passive peer is never reached, whatever crashes, restarts,
\* links break and notifications arrive late.
NoDualSlaves ==
    /\ \E p \in Peers : ~(up[p] /\ state[p] = "passive")
    /\ \A p \in Peers : up[p] /\ state[p] = "passive" /\ inbox[p] # <<>> =>
        Head(inbox[p]) # "passive"

AllUp == \A p \in Peers : up[p]
Paired == \E p \in Peers : state[p] = "active" /\ state[Other(p)] = "passive"

\* Neither the start-up order nor what a bad network has done before matters: two
\* servers that keep running on a network that has settled end up as one active and
\* one passive, since two masters that hear each other do not keep running.
Converges == <>[](AllUp /\ steady) => <>[]Paired

\* A passive server whose peer has died comes to accept applications, if it stays
\* up and they keep asking.
TakesOver ==
    \A p \in Peers :
        (up[p] /\ state[p] = "passive" /\ ~up[Other(p)])
            ~> (Accepts(p) \/ up[Other(p)] \/ ~up[p])

(* Claims of the documentation that the code does not keep                  *)

DualMasters == \A p \in Peers : up[p] /\ state[p] = "active"

\* "For both servers to become active, we need a network configuration in which
\* the servers cannot see each other."
NoDualMasters == ~DualMasters
=============================================================================
