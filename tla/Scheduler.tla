----------------------------- MODULE Scheduler -----------------------------
(***************************************************************************)
(* The multithreaded SMT kernel that runs every agent of the server        *)
(* (tooling/base2/smt): threads with a method queue each, a fixed set of   *)
(* OS threads that execute them, and the callers that post methods, raise  *)
(* signals or shut the engine down from any other OS thread.               *)
(*                                                                         *)
(* A step is one access to what is shared: a compare-and-swap of a         *)
(* thread's status, a swap of an OS thread's status, one operation on a    *)
(* locked queue, on the pipe, on a condition variable or on the count of   *)
(* active OS threads.  What an OS thread does between two of them touches  *)
(* its private lists only and belongs to the step.  So does marking a      *)
(* thread it has popped as active: every access of others that might come  *)
(* in between might as well come before or after.                          *)
(*                                                                         *)
(* No agent issues a monitor request, so no thread is ever POLLING or      *)
(* WAKING and every waking list is empty.  A thread has at most one        *)
(* blocking request, a socket request or a timer without an event.         *)
(***************************************************************************)
EXTENDS Naturals, Sequences, SequencesExt, FiniteSets

CONSTANTS
    Threads,        \* smt_thread_t: one per agent object
    HighThreads,    \* those of SMT_PRIORITY_HIGH: the connection threads
    SignalThreads,  \* those registered with smt_signal
    OSThreads,      \* smt_os_thread_t
    Senders,        \* whoever posts methods and raises signals
    Timers,         \* those of them that post with SMT_PRIORITY_HIGH
    Stoppers,       \* whoever calls smt_shut_down
    Nobody,         \* a null pointer
    Birth,          \* the order the threads were created in
    MaxCalls,       \* bound: methods posted and signals raised
    MaxSignals,     \* bound: signals raised
    MaxBlocks       \* bound: blocking requests made

ASSUME ThreadsAssumption ==
    /\ HighThreads \subseteq Threads /\ SignalThreads \subseteq Threads
    /\ Timers \subseteq Senders
    /\ Nobody \notin Threads \cup OSThreads
    /\ \A set \in {Threads, OSThreads, Senders, Stoppers} : IsFiniteSet(set)
    /\ MaxCalls \in Nat
    /\ Birth \in [Threads -> Nat] /\ IsInjective(Birth)

VARIABLES
    status,         \* [Threads -> state of the thread]
    home,           \* [Threads -> the OS thread whose thread_list holds it]
    reply_queue,    \* [Threads -> methods posted and not yet collected]
    reply_list,     \* [Threads -> methods collected, by priority]
    blocked,        \* [Threads -> pending_count # 0]
    module,         \* [Threads -> where the dialog stands]
    signal_raised,
    shutdown_request,
    shutting_down,
    os_status,      \* [OSThreads -> status of the OS thread]
    thread_queue,   \* [OSThreads -> threads woken by anyone]
    waiting_list,   \* [OSThreads -> threads ready to run]
    list_entry,     \* [OSThreads -> waiting_list_entry: its first normal thread]
    pipe,           \* [OSThreads -> bytes written and not read]
    os_shutdown,    \* [OSThreads -> shutdown_request of the OS thread]
    pc,             \* [OSThreads -> where s_execute stands]
    current,        \* [OSThreads -> the thread being executed]
    active_count,   \* s_os_thread_active_count
    call,           \* [Callers -> where each caller stands]
    stopped,        \* smt_shut_down has been called
    missed,         \* history: the new threads it has passed over
    made            \* what the bounds have used up

threadVars == <<status, home, reply_queue, reply_list, blocked, module,
                signal_raised, shutdown_request, shutting_down>>
osVars == <<os_status, thread_queue, waiting_list, list_entry, pipe,
            os_shutdown, pc, current>>
vars == <<threadVars, osVars, active_count, call, stopped, missed, made>>

Callers == Senders \cup Stoppers
Methods == [from : Senders, num : 1..MaxCalls]
Idle == [stage |-> "idle", thread |-> Nobody, os |-> Nobody, jobs |-> <<>>]

Init ==
    /\ status = [t \in Threads |-> "newborn"]
    /\ home = [t \in Threads |-> Nobody]
    /\ reply_queue = [t \in Threads |-> <<>>]
    /\ reply_list = [t \in Threads |-> <<>>]
    /\ blocked = [t \in Threads |-> FALSE]
    /\ module = [t \in Threads |-> "start"]
    /\ signal_raised = [t \in Threads |-> FALSE]
    /\ shutdown_request = [t \in Threads |-> FALSE]
    /\ shutting_down = [t \in Threads |-> FALSE]
    /\ os_status = [o \in OSThreads |-> "active"]
    /\ thread_queue = [o \in OSThreads |-> <<>>]
    /\ waiting_list = [o \in OSThreads |-> <<>>]
    /\ list_entry = [o \in OSThreads |-> Nobody]
    /\ pipe = [o \in OSThreads |-> 0]
    /\ os_shutdown = [o \in OSThreads |-> FALSE]
    /\ pc = [o \in OSThreads |-> "clear"]
    /\ current = [o \in OSThreads |-> Nobody]
    /\ active_count = Cardinality(OSThreads)
    /\ call = [c \in Callers |-> Idle]
    /\ stopped = FALSE /\ missed = {}
    /\ made = [calls |-> 0, signals |-> 0, blocks |-> 0]

---------------------------------------------------------------------------
(* The places of s_execute that call s_clear_queues. *)
Clearing == {"clear", "clear polling", "clear sleeping", "clear idle",
             "clear awake", "clear running"}

(* What a thread has to do, and what an OS thread has to wait for. *)

Activity(t) ==
    \/ signal_raised[t] \/ shutdown_request[t]
    \/ module[t] # "done"
    \/ reply_list[t] # <<>> \/ reply_queue[t] # <<>>

Requests(o) == {t \in Threads : home[t] = o /\ blocked[t]}

(***************************************************************************)
(* The waiting list and its insertion point for threads of high priority,  *)
(* as one value [list, entry].                                             *)
(***************************************************************************)
Waiting(o) == [list |-> waiting_list[o], entry |-> list_entry[o]]

(* Without t in the list the code aborts: the place is then any. *)
Position(s, t) == CHOOSE i \in 1..(Len(s) + 1) :
                     t \in ToSet(s) => i <= Len(s) /\ s[i] = t

MutantInsertWaiting(w, t) ==
    [list |-> Append(w.list, t),
     entry |-> IF w.entry = Nobody /\ t \notin HighThreads THEN t ELSE w.entry]

InsertWaiting(w, t) ==
    IF t \in ToSet(w.list) THEN w
    ELSE IF t \in HighThreads
    THEN [w EXCEPT !.list = IF w.entry = Nobody THEN Append(@, t)
                            ELSE InsertAt(@, Position(@, w.entry), t)]
    ELSE [list |-> Append(w.list, t),
          entry |-> IF w.entry = Nobody THEN t ELSE w.entry]

PopWaiting(w) ==
    [list |-> Tail(w.list),
     entry |-> IF Head(w.list) \in HighThreads THEN w.entry
               ELSE IF Len(w.list) > 1 THEN w.list[2] ELSE Nobody]

SetWaiting(o, w) ==
    /\ waiting_list' = [waiting_list EXCEPT ![o] = w.list]
    /\ list_entry' = [list_entry EXCEPT ![o] = w.entry]

(***************************************************************************)
(* smt_thread_activate for the threads ts of one OS thread, in that order: *)
(* each goes to the end of the waiting list unless it is executing.        *)
(***************************************************************************)
Activated(w, ts) ==
    LET after[i \in 0..Len(ts)] ==
          IF i = 0 THEN w
          ELSE IF status[ts[i]] = "active" THEN after[i - 1]
          ELSE InsertWaiting([after[i - 1] EXCEPT !.list = RemoveFirst(@, ts[i])],
                             ts[i])
    IN after[Len(ts)]

(* smt_thread_wake for the same threads: what it leaves in the thread queue. *)
Requeued(queue, ts) ==
    LET after[i \in 0..Len(ts)] ==
          IF i = 0 THEN queue
          ELSE IF status[ts[i]] \in {"sleeping", "pending"}
          THEN Append(RemoveFirst(after[i - 1], ts[i]), ts[i])
          ELSE after[i - 1]
    IN after[Len(ts)]

ActivatedStatus(ts) ==
    [t \in Threads |-> IF t \in ToSet(ts) /\ status[t] # "active"
                       THEN "waiting" ELSE status[t]]

---------------------------------------------------------------------------
(* The callers: smt_method_send, the signal handler, smt_thread_wake. *)

Enter(c, stage) == call' = [call EXCEPT ![c].stage = stage]

(* The end of a wake-up: the caller is done, or goes on with its shutdown. *)
Return(c) ==
    LET jobs == call[c].jobs
    IN call' = [call EXCEPT ![c] =
                   IF jobs # <<>> /\ Head(jobs).do = "wake"
                   THEN [stage |-> "cas", thread |-> Head(jobs).of,
                         os |-> Nobody, jobs |-> Tail(jobs)]
                   ELSE [Idle EXCEPT !.stage = IF jobs = <<>> THEN @ ELSE "next",
                                     !.jobs = jobs]]

(***************************************************************************)
(* smt_method_send: the method enters the queue first, then the trigger    *)
(* wakes the thread.  A destroyed thread's queue refuses it.               *)
(***************************************************************************)
Send(c, t) ==
    /\ call[c].stage = "idle" /\ made.calls < MaxCalls
    /\ made' = [made EXCEPT !.calls = @ + 1]
    /\ LET m == [from |-> c, num |-> made.calls + 1]
       IN IF status[t] = "zombie"
          THEN UNCHANGED <<reply_queue, call>>
          ELSE /\ reply_queue' = [reply_queue EXCEPT ![t] = Append(@, m)]
               /\ call' = [call EXCEPT ![c].stage = "cas", ![c].thread = t]
    /\ UNCHANGED <<status, home, reply_list, blocked, module, signal_raised,
                   shutdown_request, shutting_down, osVars, active_count,
                   stopped, missed>>

(***************************************************************************)
(* smt_signal_handler, run by whichever OS thread the signal interrupts.   *)
(***************************************************************************)
RaiseSignal(c, t) ==
    /\ call[c].stage = "idle"
    /\ made.calls < MaxCalls /\ made.signals < MaxSignals
    /\ status[t] # "zombie"
    /\ made' = [made EXCEPT !.calls = @ + 1, !.signals = @ + 1]
    /\ signal_raised' = [signal_raised EXCEPT ![t] = TRUE]
    /\ call' = [call EXCEPT ![c].stage = "cas", ![c].thread = t]
    /\ UNCHANGED <<status, home, reply_queue, reply_list, blocked, module,
                   shutdown_request, shutting_down, osVars, active_count,
                   stopped, missed>>

(***************************************************************************)
(* smt_thread_wake: the status is tried against SLEEPING, then against     *)
(* PENDING and NEWBORN, with a compare-and-swap each.  The caller who wins *)
(* one of them queues the thread; the others leave.  The last two are one  *)
(* step: a thread never becomes newborn again, so a lost try for NEWBORN   *)
(* might as well have come right after the try that won.                   *)
(***************************************************************************)
Tried == [stage \in {"cas", "cas2"} |->
             IF stage = "cas" THEN {"sleeping"} ELSE {"pending", "newborn"}]

WakeThread(c) ==
    /\ call[c].stage \in DOMAIN Tried
    /\ LET t == call[c].thread
           stage == call[c].stage
       IN \/ /\ status[t] \in Tried[stage]
             /\ status' = [status EXCEPT ![t] = "waiting"]
             /\ \E o \in IF home[t] = Nobody THEN OSThreads ELSE {home[t]} :
                   call' = [call EXCEPT ![c].stage = "queue", ![c].os = o]
          \/ /\ status[t] \notin Tried[stage]
             /\ IF stage = "cas" THEN Enter(c, "cas2") ELSE Return(c)
             /\ UNCHANGED status
    /\ UNCHANGED <<home, reply_queue, reply_list, blocked, module,
                   signal_raised, shutdown_request, shutting_down, osVars,
                   active_count, made, stopped, missed>>

(***************************************************************************)
(* The woken thread joins the OS thread's queue, moving to its end if it   *)
(* is there already.                                                       *)
(***************************************************************************)
QueueThread(c) ==
    /\ call[c].stage = "queue"
    /\ LET t == call[c].thread
           o == call[c].os
       IN thread_queue' = [thread_queue EXCEPT ![o] = Append(RemoveFirst(@, t), t)]
    /\ Enter(c, "inc")
    /\ UNCHANGED <<threadVars, os_status, waiting_list, list_entry, pipe,
                   os_shutdown, pc, current, active_count, made, stopped, missed>>

MutantWakeCount(c) ==
    /\ call[c].stage = "inc" /\ Enter(c, "swap")
    /\ UNCHANGED <<threadVars, osVars, active_count, made, stopped, missed>>

(***************************************************************************)
(* smt_os_thread_wake: increment the count, swap the status, then signal,  *)
(* or take the increment back and write to the pipe.                       *)
(***************************************************************************)
WakeCount(c) ==
    /\ call[c].stage = "inc"
    /\ active_count' = active_count + 1
    /\ Enter(c, "swap")
    /\ UNCHANGED <<threadVars, osVars, made, stopped, missed>>

WakeSwap(c) ==
    /\ call[c].stage = "swap"
    /\ LET o == call[c].os IN
       /\ os_status' = [os_status EXCEPT ![o] = "active"]
       /\ Enter(c, CASE os_status[o] = "sleeping" -> "signal"
                     [] os_status[o] = "polling" -> "dec pipe"
                     [] OTHER -> "dec")
    /\ UNCHANGED <<threadVars, thread_queue, waiting_list, list_entry, pipe,
                   os_shutdown, pc, current, active_count, made, stopped, missed>>

MutantWakeSignal(c) ==
    /\ call[c].stage = "signal" /\ Return(c)
    /\ UNCHANGED <<threadVars, osVars, active_count, stopped, missed, made>>

WakeSignal(c) ==
    /\ call[c].stage = "signal"
    /\ LET o == call[c].os
       IN pc' = [pc EXCEPT ![o] = IF @ = "asleep" THEN "cond" ELSE @]
    /\ Return(c)
    /\ UNCHANGED <<threadVars, os_status, thread_queue, waiting_list,
                   list_entry, pipe, os_shutdown, current, active_count,
                   stopped, missed, made>>

MutantWakeUncount(c) ==
    /\ call[c].stage \in {"dec", "dec pipe"}
    /\ IF call[c].stage = "dec" THEN Return(c) ELSE Enter(c, "pipe")
    /\ UNCHANGED <<threadVars, osVars, active_count, stopped, missed, made>>

WakeUncount(c) ==
    /\ call[c].stage \in {"dec", "dec pipe"}
    /\ active_count' = active_count - 1
    /\ IF call[c].stage = "dec" THEN Return(c) ELSE Enter(c, "pipe")
    /\ UNCHANGED <<threadVars, osVars, stopped, missed, made>>

WakePipe(c) ==
    /\ call[c].stage = "pipe"
    /\ pipe' = [pipe EXCEPT ![call[c].os] = @ + 1]
    /\ Return(c)
    /\ UNCHANGED <<threadVars, os_status, thread_queue, waiting_list,
                   list_entry, os_shutdown, pc, current, active_count,
                   stopped, missed, made>>

---------------------------------------------------------------------------
(* smt_shut_down. *)

(***************************************************************************)
(* What there is to do, the next thing first: walk the list of the threads *)
(* that no OS thread has adopted, then flag and wake each OS thread, then  *)
(* leave the count.                                                        *)
(***************************************************************************)
Jobs(os) ==
    Cons([do |-> "walk", of |-> Nobody],
         Append([i \in 1..Len(os) |-> [do |-> "os", of |-> os[i]]],
                [do |-> "leave", of |-> Nobody]))

(* smt_shut_down counts itself as active before anything else. *)
ShutDown(c) ==
    /\ call[c].stage = "idle" /\ ~stopped
    /\ stopped' = TRUE
    /\ active_count' = active_count + 1
    /\ \E os \in SetToSeqs(OSThreads) :
          call' = [call EXCEPT ![c].stage = "next", ![c].jobs = Jobs(os)]
    /\ UNCHANGED <<threadVars, osVars, missed, made>>

Job(c, do) == call[c].stage = "next" /\ Head(call[c].jobs).do = do

(***************************************************************************)
(* The list of the new threads: list_first without a cursor, list_next     *)
(* behind the thread that is the cursor.                                   *)
(***************************************************************************)
NewThreads == {t \in Threads : home[t] = Nobody}
Behind(t) == {s \in NewThreads : t # Nobody => Birth[t] < Birth[s]}
Foremost(ts) == {t \in ts : \A s \in ts : Birth[t] <= Birth[s]}

(* The cursor's thread is flagged and woken, and woken again. *)
Visit(t, rest) ==
    IF t = Nobody THEN rest
    ELSE Cons([do |-> "flag", of |-> t], Cons([do |-> "wake", of |-> t], rest))

(***************************************************************************)
(* The walk takes its next thread from the list before it looks at the one *)
(* it has come to.  If that one has been adopted meanwhile the list is the *)
(* OS thread's, where the walk ends without finding anything to do: the    *)
(* new threads it has not come to are passed over.                         *)
(***************************************************************************)
ShutDownWalk(c) ==
    /\ Job(c, "walk")
    /\ LET t == Head(call[c].jobs).of
           rest == Tail(call[c].jobs)
           strayed == t # Nobody /\ t \notin NewThreads
           Then(jobs) == call' = [call EXCEPT ![c].jobs = jobs]
       IN \/ /\ strayed /\ Then(Visit(t, rest))
             /\ missed' = {s \in NewThreads : ~shutdown_request[s]}
          \/ /\ ~strayed /\ UNCHANGED missed
             /\ \/ Behind(t) = {} /\ Then(Visit(t, rest))
                \/ \E s \in Foremost(Behind(t)) :
                      Then(Visit(t, Cons([do |-> "walk", of |-> s], rest)))
    /\ UNCHANGED <<threadVars, osVars, active_count, stopped, made>>

(***************************************************************************)
(* A thread is started unless it is in the list of an OS thread.  One that *)
(* an OS thread is just adopting may be between the lists.                 *)
(***************************************************************************)
Between(t) == /\ home[t] # Nobody /\ pc[home[t]] \in Clearing
              /\ status[t] = "waiting" /\ t \in ToSet(waiting_list[home[t]])

ShutDownNewborn(c) ==
    /\ Job(c, "flag")
    /\ LET t == Head(call[c].jobs).of
           rest == Tail(call[c].jobs)
       IN \/ /\ home[t] = Nobody \/ Between(t)
             /\ shutdown_request' = [shutdown_request EXCEPT ![t] = TRUE]
             /\ call' = [call EXCEPT ![c].stage = "cas", ![c].thread = t,
                                     ![c].jobs = rest]
          \/ /\ home[t] # Nobody
             /\ call' = [call EXCEPT ![c].jobs = Tail(rest)]
             /\ UNCHANGED shutdown_request
    /\ UNCHANGED <<status, home, reply_queue, reply_list, blocked, module,
                   signal_raised, shutting_down, osVars, active_count,
                   stopped, missed, made>>

(* The flag, and the first step of smt_os_thread_wake: the call is counted. *)
ShutDownOSThread(c) ==
    /\ Job(c, "os")
    /\ LET o == Head(call[c].jobs).of IN
       /\ os_shutdown' = [os_shutdown EXCEPT ![o] = TRUE]
       /\ call' = [call EXCEPT ![c].stage = "swap", ![c].os = o,
                               ![c].jobs = Tail(@)]
    /\ active_count' = active_count + 1
    /\ UNCHANGED <<threadVars, os_status, thread_queue, waiting_list,
                   list_entry, pipe, pc, current, stopped, missed, made>>

ShutDownLeave(c) ==
    /\ Job(c, "leave")
    /\ active_count' = active_count - 1
    /\ call' = [call EXCEPT ![c] = Idle]
    /\ UNCHANGED <<threadVars, osVars, stopped, missed, made>>

---------------------------------------------------------------------------
(* An OS thread: s_execute. *)

Goto(o, place) == pc' = [pc EXCEPT ![o] = place]

(* Where some of the calls of s_clear_queues go on. *)
AfterClear == [place \in {"clear polling", "clear idle", "clear sleeping"} |->
                  CASE place = "clear polling" -> "commit polling"
                    [] place = "clear idle" -> "poll"
                    [] place = "clear sleeping" -> "commit sleeping"]

(***************************************************************************)
(* s_clear_queues: one thread of the queue joins the waiting list.  A      *)
(* destroyed or executing thread is dropped; a new one becomes this OS     *)
(* thread's own; one with nothing to do is marked as waiting all the same. *)
(***************************************************************************)
ClearQueues(o) ==
    /\ pc[o] \in Clearing /\ thread_queue[o] # <<>>
    /\ LET t == Head(thread_queue[o]) IN
       /\ thread_queue' = [thread_queue EXCEPT ![o] = Tail(@)]
       /\ IF status[t] \in {"zombie", "active"}
          THEN UNCHANGED <<status, home, waiting_list, list_entry>>
          ELSE /\ home' = [home EXCEPT ![t] = o]
               /\ status' = [status EXCEPT ![t] =
                                IF home[t] # o \/ Activity(t) THEN @
                                ELSE "waiting"]
               /\ SetWaiting(o, InsertWaiting(Waiting(o), t))
    /\ UNCHANGED <<reply_queue, reply_list, blocked, module, signal_raised,
                   shutdown_request, shutting_down, os_status, pipe,
                   os_shutdown, pc, current, active_count, call, stopped, missed, made>>

(* The pop that finds the queue empty. *)
Cleared(o, place) == pc[o] = place /\ thread_queue[o] = <<>>

ClearDone(o) ==
    /\ pc[o] \in DOMAIN AfterClear /\ Cleared(o, pc[o])
    /\ Goto(o, AfterClear[pc[o]])
    /\ UNCHANGED <<threadVars, os_status, thread_queue, waiting_list,
                   list_entry, pipe, os_shutdown, current, active_count, call,
                   stopped, missed, made>>

(* The first waiting thread is popped and made active. *)
Take(o, place) ==
    /\ waiting_list[o] # <<>>
    /\ current' = [current EXCEPT ![o] = Head(waiting_list[o])]
    /\ status' = [status EXCEPT ![Head(waiting_list[o])] = "active"]
    /\ SetWaiting(o, PopWaiting(Waiting(o)))
    /\ Goto(o, place)

TakeNone(o, place) ==
    /\ waiting_list[o] = <<>>
    /\ Goto(o, place)
    /\ UNCHANGED <<current, status, waiting_list, list_entry>>

(* What the steps that look for a thread leave alone. *)
LookUnchanged ==
    UNCHANGED <<home, reply_queue, reply_list, blocked, module, signal_raised,
                shutdown_request, shutting_down, thread_queue, pipe,
                os_shutdown, call, stopped, missed, made>>

(***************************************************************************)
(* The top of the loop.  Without a thread to run the status changes next,  *)
(* and what was queued since the last pop is caught after that.            *)
(***************************************************************************)
Choose(o) ==
    /\ Cleared(o, "clear")
    /\ Take(o, "clear running") \/ TakeNone(o, "choose")
    /\ UNCHANGED <<os_status, active_count>> /\ LookUnchanged

Retire(o) ==
    /\ pc[o] = "choose"
    /\ LET kind == IF Requests(o) # {} THEN "polling" ELSE "sleeping" IN
       /\ os_status' = [os_status EXCEPT ![o] = kind]
       /\ Goto(o, IF kind = "polling" THEN "clear polling" ELSE "clear sleeping")
    /\ UNCHANGED <<threadVars, thread_queue, waiting_list, list_entry, pipe,
                   os_shutdown, current, active_count, call, stopped, missed, made>>

MutantIdlePlace(o) == "clear idle"

(* A shutdown request skips the polling and the wait. *)
IdlePlace(o) == IF os_shutdown[o] THEN "inc" ELSE "clear idle"

(* The queue has been cleared again: is there a thread after all? *)
CommitPolling(o) ==
    /\ pc[o] = "commit polling"
    /\ \/ /\ Take(o, "clear running")
          /\ os_status' = [os_status EXCEPT ![o] = "active"]
       \/ TakeNone(o, IdlePlace(o)) /\ UNCHANGED os_status
    /\ UNCHANGED active_count /\ LookUnchanged

MutantCommitSleeping(o) ==
    /\ pc[o] = "commit sleeping"
    /\ \/ /\ Take(o, "clear running")
          /\ os_status' = [os_status EXCEPT ![o] = "active"]
          /\ UNCHANGED active_count
       \/ /\ TakeNone(o, IdlePlace(o))
          /\ active_count' = active_count - 1
          /\ UNCHANGED os_status
    /\ LookUnchanged

(***************************************************************************)
(* The same for an OS thread about to sleep.  It leaves the count only     *)
(* now, so that the count cannot reach zero too soon; with a thread found  *)
(* it stays, and takes back a waker's increment if there was one.          *)
(***************************************************************************)
CommitSleeping(o) ==
    /\ pc[o] = "commit sleeping"
    /\ \/ /\ Take(o, IF os_status[o] = "sleeping" THEN "clear running"
                     ELSE "dec run")
          /\ os_status' = [os_status EXCEPT ![o] = "active"]
          /\ UNCHANGED active_count
       \/ /\ TakeNone(o, IdlePlace(o))
          /\ active_count' = active_count - 1
          /\ UNCHANGED os_status
    /\ LookUnchanged

(***************************************************************************)
(* Requests that end, by activity on the socket or because their time is   *)
(* up, activate their threads in any order.                                *)
(***************************************************************************)
Completions(o) == UNION {SetToSeqs(ts) : ts \in SUBSET Requests(o)}

Complete(o, ts) ==
    /\ blocked' = [t \in Threads |-> blocked[t] /\ t \notin ToSet(ts)]
    /\ status' = ActivatedStatus(ts)
    /\ SetWaiting(o, Activated(Waiting(o), ts))

PollUnchanged ==
    UNCHANGED <<home, reply_queue, reply_list, module, signal_raised,
                shutdown_request, shutting_down, os_status, thread_queue,
                os_shutdown, current, active_count, call, stopped, missed, made>>

(* The poll that does not block; it reads one byte of the pipe. *)
Poll(o) ==
    /\ pc[o] = "poll"
    /\ \E ts \in Completions(o) :
          /\ Complete(o, ts)
          /\ Goto(o, IF os_status[o] = "active" \/ waiting_list'[o] # <<>>
                     THEN "inc"
                     ELSE IF Requests(o) # {} THEN "wait" ELSE "cond")
    /\ pipe' = [pipe EXCEPT ![o] = IF @ > 0 THEN @ - 1 ELSE 0]
    /\ PollUnchanged

(* The wait ends by a byte in the pipe, or by a request that ends. *)
WaitPipe(o) ==
    /\ pc[o] = "wait" /\ pipe[o] > 0
    /\ \E ts \in Completions(o) : Complete(o, ts)
    /\ pipe' = [pipe EXCEPT ![o] = @ - 1]
    /\ Goto(o, "inc")
    /\ PollUnchanged

WaitRequest(o) ==
    /\ pc[o] = "wait" /\ pipe[o] = 0
    /\ \E ts \in Completions(o) \ {<<>>} : Complete(o, ts)
    /\ Goto(o, "inc")
    /\ UNCHANGED pipe /\ PollUnchanged

(* The wait on the condition variable, left once the status has changed. *)
CondWait(o) ==
    /\ pc[o] = "cond"
    /\ Goto(o, IF os_status[o] = "sleeping" THEN "asleep" ELSE "inc")
    /\ UNCHANGED <<threadVars, os_status, thread_queue, waiting_list,
                   list_entry, pipe, os_shutdown, current, active_count, call,
                   stopped, missed, made>>

(* Back from the wait: increment, swap, and decrement if it was too much. *)
CountIn(o) ==
    /\ pc[o] = "inc"
    /\ active_count' = active_count + 1
    /\ Goto(o, "swap")
    /\ UNCHANGED <<threadVars, os_status, thread_queue, waiting_list,
                   list_entry, pipe, os_shutdown, current, call, stopped, missed, made>>

SwapIn(o) ==
    /\ pc[o] = "swap"
    /\ os_status' = [os_status EXCEPT ![o] = "active"]
    /\ Goto(o, IF os_status[o] = "sleeping" THEN "clear awake" ELSE "dec awake")
    /\ UNCHANGED <<threadVars, thread_queue, waiting_list, list_entry, pipe,
                   os_shutdown, current, active_count, call, stopped, missed, made>>

AfterCountOut == [place \in {"dec awake", "dec run"} |->
                     IF place = "dec awake" THEN "clear awake" ELSE "clear running"]

CountOut(o) ==
    /\ pc[o] \in DOMAIN AfterCountOut
    /\ active_count' = active_count - 1
    /\ Goto(o, AfterCountOut[pc[o]])
    /\ UNCHANGED <<threadVars, os_status, thread_queue, waiting_list,
                   list_entry, pipe, os_shutdown, current, call, stopped, missed, made>>

(* A shutdown request of the OS thread is seen before anything is run. *)
Onward(o, running) == CASE os_shutdown[o] -> "shutdown"
                        [] running /\ ~os_shutdown[o] -> "manager"
                        [] OTHER -> "clear"

Pick(o) ==
    /\ Cleared(o, "clear awake")
    /\ Take(o, Onward(o, TRUE)) \/ TakeNone(o, Onward(o, FALSE))
    /\ UNCHANGED <<os_status, active_count>> /\ LookUnchanged

(* The poll of an OS thread that has a thread to run: timers only. *)
Sweep(o) ==
    /\ Cleared(o, "clear running")
    /\ \E ts \in Completions(o) : Complete(o, ts)
    /\ Goto(o, Onward(o, TRUE))
    /\ UNCHANGED pipe /\ PollUnchanged

(***************************************************************************)
(* Every thread of the OS thread is told to shut down, its requests are    *)
(* purged, and it is activated unless it is the one about to run.  The     *)
(* call of smt_thread_wake leaves an entry in the thread queue for those   *)
(* that were asleep or pending.                                            *)
(***************************************************************************)
NoteShutdown(o) ==
    /\ pc[o] = "shutdown"
    /\ os_shutdown' = [os_shutdown EXCEPT ![o] = FALSE]
    /\ \E ts \in SetToSeqs({t \in Threads : home[t] = o /\ status[t] # "zombie"}) :
          /\ shutdown_request' = [t \in Threads |-> \/ shutdown_request[t]
                                                    \/ t \in ToSet(ts)]
          /\ blocked' = [t \in Threads |-> blocked[t] /\ t \notin ToSet(ts)]
          /\ thread_queue' = [thread_queue EXCEPT ![o] = Requeued(@, ts)]
          /\ status' = ActivatedStatus(ts)
          /\ SetWaiting(o, Activated(Waiting(o), ts))
    /\ Goto(o, IF current[o] = Nobody THEN "clear" ELSE "manager")
    /\ UNCHANGED <<home, reply_queue, reply_list, module, signal_raised,
                   shutting_down, os_status, pipe, current, active_count, call,
                   stopped, missed, made>>

---------------------------------------------------------------------------
(* The dialog manager of an agent, as the code generator writes it. *)

MutantInsertMethod(list, m) ==
    LET before == {i \in 1..Len(list) : m.from \notin Timers /\ list[i].from \in Timers}
    IN InsertAt(list, Max(before \cup {0}) + 1, m)

(***************************************************************************)
(* smt_thread_clear_method_queue: a method goes after the last one that is *)
(* not of a lower priority.                                                *)
(***************************************************************************)
InsertMethod(list, m) ==
    LET before == {i \in 1..Len(list) : m.from \in Timers => list[i].from \in Timers}
    IN InsertAt(list, Max(before \cup {0}) + 1, m)

Collected(t) ==
    LET after[i \in 0..Len(reply_queue[t])] ==
          IF i = 0 THEN reply_list[t]
          ELSE InsertMethod(after[i - 1], reply_queue[t][i])
    IN after[Len(reply_queue[t])]

(* A shutdown comes first and ends a signal; either one purges requests. *)
Told(t) == shutdown_request[t] /\ ~shutting_down[t]
Interrupted(t) == Told(t) \/ signal_raised[t]
Purged(t) == shutdown_request[t] \/ signal_raised[t]

ManagerFlags(t) ==
    /\ shutting_down' = [shutting_down EXCEPT ![t] = @ \/ shutdown_request[t]]
    /\ shutdown_request' = [shutdown_request EXCEPT ![t] = FALSE]
    /\ signal_raised' = [signal_raised EXCEPT ![t] = FALSE]

(* What the agent's actions come to: the event is finished... *)
Finish(o, t) ==
    /\ module' = [module EXCEPT ![t] = "done"]
    /\ blocked' = [blocked EXCEPT ![t] = FALSE]
    /\ Goto(o, "continue")
    /\ UNCHANGED <<status, thread_queue, current, made>>

(* ... or a request is made that the next action has to wait for... *)
Block(o, t) ==
    /\ made.blocks < MaxBlocks
    /\ made' = [made EXCEPT !.blocks = @ + 1]
    /\ module' = [module EXCEPT ![t] = "inside"]
    /\ blocked' = [blocked EXCEPT ![t] = TRUE]
    /\ Goto(o, "continue")
    /\ UNCHANGED <<status, thread_queue, current>>

(* The OS thread is done with the thread it has run. *)
Leave(o) == /\ current' = [current EXCEPT ![o] = Nobody]
            /\ Goto(o, "clear")

(* ... or the thread ends: it is destroyed and leaves every container. *)
Stop(o, t) ==
    /\ status' = [status EXCEPT ![t] = "zombie"]
    /\ module' = [module EXCEPT ![t] = "done"]
    /\ blocked' = [blocked EXCEPT ![t] = FALSE]
    /\ thread_queue' = [thread_queue EXCEPT ![o] = RemoveFirst(@, t)]
    /\ Leave(o)
    /\ UNCHANGED made

Keep(t, list, queue) ==
    /\ reply_list' = [reply_list EXCEPT ![t] = list]
    /\ reply_queue' = [reply_queue EXCEPT ![t] = queue]

Execute(o, t, list, queue) ==
    \/ (Finish(o, t) \/ Block(o, t)) /\ Keep(t, list, queue)
    \/ Stop(o, t) /\ Keep(t, <<>>, <<>>)

ManagerUnchanged ==
    UNCHANGED <<home, os_status, waiting_list, list_entry, pipe, os_shutdown,
                active_count, call, stopped, missed>>

(* A thread woken at the wrong moment goes back to its pending request. *)
ManagerPending(o) ==
    /\ pc[o] = "manager"
    /\ blocked[current[o]] /\ ~Purged(current[o])
    /\ Goto(o, "continue")
    /\ UNCHANGED <<threadVars, thread_queue, current, made>>
    /\ ManagerUnchanged

(* The shutdown or signal event, or the rest of an event begun before. *)
ManagerEvent(o) ==
    /\ pc[o] = "manager"
    /\ LET t == current[o] IN
       /\ ~blocked[t] \/ Purged(t)
       /\ Interrupted(t) \/ module[t] = "inside"
       /\ ManagerFlags(t)
       /\ Execute(o, t, reply_list[t], reply_queue[t])
    /\ ManagerUnchanged

(***************************************************************************)
(* Before it collects new methods a thread that shares its OS thread with  *)
(* the requests of another may poll for them ("a crude load-balance").     *)
(***************************************************************************)
ManagerPoll(o) ==
    /\ pc[o] = "manager"
    /\ LET t == current[o] IN
       /\ ~blocked[t] /\ ~Interrupted(t) /\ module[t] # "inside"
       /\ reply_queue[t] # <<>>
    /\ \E ts \in Completions(o) : Complete(o, ts)
    /\ pipe' = [pipe EXCEPT ![o] = IF @ > 0 THEN @ - 1 ELSE 0]
    /\ UNCHANGED pc /\ PollUnchanged

(* The next method, in the order of priority and arrival. *)
ManagerMethod(o) ==
    /\ pc[o] = "manager"
    /\ LET t == current[o] IN
       /\ ~blocked[t] /\ ~Interrupted(t) /\ module[t] # "inside"
       /\ Collected(t) # <<>>
       /\ ManagerFlags(t)
       /\ Execute(o, t, Tail(Collected(t)), <<>>)
    /\ ManagerUnchanged

ManagerEmpty(o) ==
    /\ pc[o] = "manager"
    /\ LET t == current[o] IN
       /\ ~blocked[t] /\ ~Interrupted(t) /\ module[t] # "inside"
       /\ Collected(t) = <<>>
       /\ ManagerFlags(t)
       /\ Finish(o, t)
    /\ UNCHANGED <<reply_list, reply_queue>> /\ ManagerUnchanged

---------------------------------------------------------------------------
(* smt_thread_continue: what becomes of a thread that has run. *)

ContinueUnchanged ==
    UNCHANGED <<home, reply_queue, reply_list, blocked, module, signal_raised,
                shutdown_request, shutting_down, os_status, thread_queue, pipe,
                os_shutdown, active_count, call, stopped, missed, made>>

Parks(t) == blocked[t] /\ ~shutdown_request[t] /\ ~signal_raised[t]

Requeue(o, t) ==
    /\ status' = [status EXCEPT ![t] = "waiting"]
    /\ SetWaiting(o, InsertWaiting(Waiting(o), t))
    /\ Leave(o)

Continue(o) ==
    /\ pc[o] = "continue"
    /\ LET t == current[o] IN
       IF ~Parks(t) /\ Activity(t)
       THEN Requeue(o, t)
       ELSE /\ Goto(o, IF Parks(t) THEN "park" ELSE "sleep")
            /\ UNCHANGED <<status, waiting_list, list_entry, current>>
    /\ ContinueUnchanged

(* The test was made before: what was raised since is not looked at again. *)
Park(o) ==
    /\ pc[o] = "park"
    /\ status' = [status EXCEPT ![current[o]] = "pending"]
    /\ Leave(o)
    /\ UNCHANGED <<waiting_list, list_entry>> /\ ContinueUnchanged

(* A sleeping thread is: once the status is set, the test is made again. *)
Sleep(o) ==
    /\ pc[o] = "sleep"
    /\ status' = [status EXCEPT ![current[o]] = "sleeping"]
    /\ Goto(o, "recheck")
    /\ UNCHANGED <<waiting_list, list_entry, current>> /\ ContinueUnchanged

MutantRecheck(o) ==
    /\ pc[o] = "recheck" /\ Leave(o)
    /\ UNCHANGED <<status, waiting_list, list_entry>> /\ ContinueUnchanged

Recheck(o) ==
    /\ pc[o] = "recheck"
    /\ LET t == current[o] IN
       IF Activity(t) /\ status[t] = "sleeping"
       THEN Requeue(o, t)
       ELSE Leave(o) /\ UNCHANGED <<status, waiting_list, list_entry>>
    /\ ContinueUnchanged

---------------------------------------------------------------------------

Wake(c) == WakeThread(c) \/ QueueThread(c) \/ WakeCount(c) \/ WakeSwap(c)
           \/ WakeSignal(c) \/ WakeUncount(c) \/ WakePipe(c)

ShuttingDown(c) == ShutDownWalk(c) \/ ShutDownNewborn(c)
                   \/ ShutDownOSThread(c) \/ ShutDownLeave(c)

OSStep(o) ==
    \/ ClearQueues(o) \/ ClearDone(o) \/ Choose(o) \/ Retire(o)
    \/ CommitPolling(o) \/ CommitSleeping(o)
    \/ Poll(o) \/ WaitPipe(o) \/ CondWait(o) \/ CountIn(o) \/ SwapIn(o)
    \/ CountOut(o) \/ Pick(o) \/ Sweep(o) \/ NoteShutdown(o)
    \/ ManagerPending(o) \/ ManagerEvent(o) \/ ManagerPoll(o) \/ ManagerMethod(o)
    \/ ManagerEmpty(o) \/ Continue(o) \/ Park(o) \/ Sleep(o) \/ Recheck(o)

Next ==
    \/ \E c \in Senders : \/ \E t \in Threads : Send(c, t)
                          \/ \E t \in SignalThreads : RaiseSignal(c, t)
    \/ \E c \in Stoppers : ShutDown(c)
    \/ \E c \in Callers : Wake(c) \/ ShuttingDown(c)
    \/ \E o \in OSThreads : OSStep(o) \/ WaitRequest(o)

(***************************************************************************)
(* Every OS thread goes on while it can, and so does a call that has       *)
(* begun: the operating system schedules all of them.  Nothing makes a     *)
(* caller call or a request come to an end.                                *)
(***************************************************************************)
Fairness ==
    /\ \A o \in OSThreads : WF_vars(OSStep(o))
    /\ \A c \in Callers : WF_vars(Wake(c) \/ ShuttingDown(c))

Spec == Init /\ [][Next]_vars /\ Fairness

---------------------------------------------------------------------------
(* Properties *)

Statuses == {"newborn", "sleeping", "waiting", "pending", "active", "zombie"}

(* The types, and in every list each thread once. *)
TypeOK ==
    /\ status \in [Threads -> Statuses]
    /\ home \in [Threads -> OSThreads \cup {Nobody}]
    /\ \A t \in Threads : /\ ToSet(reply_queue[t]) \subseteq Methods
                          /\ ToSet(reply_list[t]) \subseteq Methods
    /\ \A f \in {blocked, signal_raised, shutdown_request, shutting_down} :
          f \in [Threads -> BOOLEAN]
    /\ module \in [Threads -> {"start", "inside", "done"}]
    /\ os_status \in [OSThreads -> {"active", "polling", "sleeping"}]
    /\ \A o \in OSThreads :
          /\ ToSet(thread_queue[o]) \subseteq Threads
          /\ ToSet(waiting_list[o]) \subseteq Threads
          /\ IsInjective(thread_queue[o]) /\ IsInjective(waiting_list[o])
          /\ current[o] \in Threads \cup {Nobody}
    /\ pipe \in [OSThreads -> Nat]
    /\ active_count \in Nat

(* The stages in which a caller has yet to try the thread's status. *)
Trying(t) == \E c \in Callers : /\ call[c].thread = t
                                /\ call[c].stage \in DOMAIN Tried
Queueing(t) == \E c \in Callers : call[c].thread = t /\ call[c].stage = "queue"
Ready(t) == \/ \E o \in OSThreads : \/ t \in ToSet(waiting_list[o])
                                    \/ t \in ToSet(thread_queue[o])
                                    \/ current[o] = t
            \/ Queueing(t)

(***************************************************************************)
(* No wake-up of a thread is lost.  A thread that is marked as waiting is  *)
(* in a list an OS thread will look at, or its waker is about to put it    *)
(* there; a thread asleep with something to do has a caller who has not    *)
(* tried its status yet, or is being looked at again.                      *)
(***************************************************************************)
NoLostThread ==
    \A t \in Threads :
        /\ status[t] \in {"waiting", "active"} => Ready(t)
        /\ status[t] = "sleeping" /\ Activity(t) => Ready(t) \/ Trying(t)
        /\ status[t] = "pending" => blocked[t] \/ Ready(t)

(***************************************************************************)
(* No wake-up of an OS thread is lost.  One that blocks, on its condition  *)
(* variable or in a poll with nothing in the pipe, has no thread in its    *)
(* queue and no shutdown request unless a caller is on the way to the      *)
(* signal or to the pipe.                                                  *)
(***************************************************************************)
Coming(o) == \E c \in Callers :
    /\ call[c].os = o
    /\ call[c].stage \in {"inc", "swap", "signal", "dec pipe", "pipe"}

NoLostWakeup ==
    \A o \in OSThreads :
        pc[o] = "asleep" \/ (pc[o] = "wait" /\ pipe[o] = 0) =>
            /\ waiting_list[o] = <<>>
            /\ thread_queue[o] # <<>> \/ os_shutdown[o] => Coming(o)

(***************************************************************************)
(* The count of active OS threads is exact through every exchange of       *)
(* increments: it is the OS threads that do not sleep, those about to      *)
(* sleep that have not yet left it, the ones on their way in or out, and   *)
(* the callers between their increment and its end.                        *)
(***************************************************************************)
CountExact ==
    active_count =
        Cardinality({o \in OSThreads : os_status[o] # "sleeping"})
        + Cardinality({o \in OSThreads :
                          pc[o] \in {"clear sleeping", "commit sleeping", "swap",
                                     "dec awake", "dec run"}})
        + Cardinality({c \in Callers : call[c].stage \in {"swap", "dec", "dec pipe"}})
        + Cardinality({c \in Callers : call[c].jobs # <<>>})

(***************************************************************************)
(* What smt_wait relies on: with the count at zero and no caller between   *)
(* a won status and its increment, every OS thread is on its way to or in  *)
(* its sleep, no thread waits or runs, and if the engine was shut down and *)
(* no OS thread has yet to notice it, every thread has been told or is     *)
(* gone, but for the new ones that the walk of smt_shut_down passed over.  *)
(* (An OS thread may have yet to notice: one that goes to sleep just after *)
(* it was told to shut down leaves the count before it looks.)             *)
(***************************************************************************)
AtZero == /\ active_count = 0
          /\ \A c \in Callers : call[c].stage \notin {"queue", "inc"}

ShutDownOver == AtZero /\ stopped /\ \A o \in OSThreads : ~os_shutdown[o]

QuietAtZero ==
    /\ AtZero => /\ \A o \in OSThreads :
                       /\ os_status[o] = "sleeping" /\ current[o] = Nobody
                       /\ thread_queue[o] = <<>> /\ waiting_list[o] = <<>>
                 /\ \A t \in Threads : status[t] \notin {"waiting", "active"}
    /\ ShutDownOver => \A t \in Threads \ missed :
                          shutting_down[t] \/ status[t] = "zombie"

(***************************************************************************)
(* Methods are handled in order.  As the manager would take them now,      *)
(* those of one sender come as they were posted, and those of high         *)
(* priority before all others.                                             *)
(***************************************************************************)
MethodsOrdered ==
    \A t \in Threads :
        LET all == Collected(t) IN
        \A i, j \in 1..Len(all) : i < j =>
            /\ all[i].from = all[j].from => all[i].num < all[j].num
            /\ all[j].from \in Timers => all[i].from \in Timers

(***************************************************************************)
(* The insertion point of an OS thread is a thread of its waiting list:    *)
(* smt_thread_waiting_list_pop is documented as "maintaining the after     *)
(* pointers", and an insertion before a thread that is in no list aborts.  *)
(***************************************************************************)
EntryListed ==
    \A o \in OSThreads : list_entry[o] # Nobody => list_entry[o] \in ToSet(waiting_list[o])

(***************************************************************************)
(* Every method is handled: a thread's queue is empty again and again,     *)
(* unless one of its own requests never ends.                              *)
(***************************************************************************)
Served ==
    \A t \in Threads : \/ []<>(reply_list[t] = <<>> /\ reply_queue[t] = <<>>)
                       \/ <>[]blocked[t]

(***************************************************************************)
(* A shutdown brings the engine to rest, unless a thread makes a request   *)
(* after it was told and that request never ends.                          *)
(***************************************************************************)
Stops == (stopped ~> active_count = 0) \/ \E t \in Threads : <>[]blocked[t]
============================================================================
