----------------------------- MODULE WorkLoop -----------------------------
(***************************************************************************)
(* How a daemon gets its work: the task queue (cTask.c), the timer queue   *)
(* and its kernel timer (cTimer.c), the cache thread with its wait queue   *)
(* (cThread.c), the netfilter hook that feeds it, and the loading and      *)
(* unloading of the module (module.c).  The routing daemon has the same    *)
(* files (task_queue.c, timer_queue.c, aodv_thread.c); its hooks also set  *)
(* timers and its handlers also delete them.                               *)
(*                                                                         *)
(* Four contexts interleave: the thread, the hook and the kernel timer     *)
(* (both softirqs), and insmod or rmmod.  A step is what one of them does  *)
(* under one lock, or between two of them.  What a handler does to caches  *)
(* and routes is the other modules' subject; here it is what it does to    *)
(* the timers.                                                             *)
(***************************************************************************)
EXTENDS Integers, Sequences

CONSTANTS
    SMP,         \* TRUE: contexts run in parallel; FALSE: one processor
    Routing,     \* TRUE: the routing daemon; FALSE: the caching daemon
    ThreadFirst, \* TRUE: a new thread runs before insmod goes on
    Unload,      \* TRUE: rmmod may happen
    AmpleWait,   \* TRUE: the second kill_cache waits is long enough for the
                 \* thread to do all it can do unless it is woken
    Delay,       \* Delay[kind]: WAIT_..._TIME or FLUSH_INTERVAL, in clock ticks
    MaxPackets,  \* bound: packets that arrive
    MaxTime      \* bound: the clock, and the time of the last timer

ASSUME WorkLoopAssumption ==
    /\ SMP \in BOOLEAN /\ Routing \in BOOLEAN /\ ThreadFirst \in BOOLEAN /\ Unload \in BOOLEAN
    /\ AmpleWait \in BOOLEAN
    /\ Delay \in [{"oneshot", "TASK_CLEAN_UP"} -> Nat] /\ MaxPackets \in Nat
    /\ MaxTime \in Nat /\ Delay["TASK_CLEAN_UP"] <= MaxTime

VARIABLES
    now,         \* getcurrtime()
    task_q,      \* what the next pointers lead to from task_q on, newest first
    task_end,    \* the id of the task task_end points to, NULL if none
    timer_queue, \* the list of timers, each with its time
    expires,     \* when the pending kernel timer expires, Off if not pending
    kill_thread, \* the flag kill_cache sets
    thread, hook, timer,  \* where each context is,
    rmmod,       \* and how far insmod or rmmod is
    made,        \* tasks made so far; the ids are 1 .. made
    packets,     \* packets that have arrived
    \* Observers: read by the properties only.
    handled,     \* ids in the order the thread took them
    queued,      \* ids in the order they entered the task queue
    freed,       \* ids in the order they were given to kfree
    readded      \* add_timer was called for a pending timer

vars == <<now, task_q, task_end, timer_queue, expires, kill_thread, thread, hook, timer,
          rmmod, made, packets, handled, queued, freed, readded>>

NULL == 0
Off == -1
Kinds == {"packet", "oneshot", "TASK_CLEAN_UP"}

\* A cTask: what it is for, and when it was made or is due.
Task == [id : 1 .. made, kind : Kinds, time : 0 .. MaxTime]

\* A context that holds timer_lock for reading is about to set the timer.
Readers == {c \in {thread, hook, timer, rmmod} : c.pc = "arm"}

\* The module is in memory and the machine has not panicked.
Running == rmmod.pc # "gone" /\ thread.pc # "panic"

\* On one processor softirqs run to completion before the thread or rmmod
\* goes on, and the timer lock keeps interrupts off.
SoftirqRuns == SMP \/ Readers = {}
ProcessRuns(c) ==
    Running /\ (SMP \/ (hook.pc = "idle" /\ timer.pc = "idle" /\ Readers \subseteq {c}))

-----------------------------------------------------------------------------
(* The two queues.                                                         *)

\* Mutant: task_end is not set for the first task.
queue_taskMutant(t) == /\ task_q' = <<t>> \o task_q
                       /\ queued' = Append(queued, t.id)
                       /\ UNCHANGED task_end

\* A task goes in at the head of the list, in its own critical section.
queue_task(t) == /\ task_q' = <<t>> \o task_q
                 /\ task_end' = IF task_end = NULL THEN t.id ELSE task_end
                 /\ queued' = Append(queued, t.id)

\* wake_up_interruptible: nothing happens unless the thread sleeps already.
\* A wait queue the thread has not initialised yet holds a null pointer.
kick_cache == thread' = [thread EXCEPT !.pc = CASE @ = "asleep" -> "woken"
                                                [] @ = "start"  -> "panic"
                                                [] OTHER        -> @]

\* The thread takes the i-th task of the list.
TakeAt(i) == thread' = [thread EXCEPT !.pc = "handle", !.task = task_q[i]]

\* Mutant: the newest task is taken.
get_taskMutant == /\ task_q # <<>> /\ TakeAt(1)
                  /\ task_q' = Tail(task_q)
                  /\ task_end' = IF Len(task_q) = 1 THEN NULL ELSE task_end

\* Mutant: the head is not reset when the last task is taken.
KeepHeadMutant == \E i \in DOMAIN task_q :
                      /\ task_q[i].id = task_end /\ TakeAt(i)
                      /\ task_end' = IF i = 1 THEN NULL ELSE task_q[i - 1].id
                      /\ UNCHANGED task_q

\* The task task_end points to is taken, task_end moves to the one before it.
\* The head is reset with the last task only: until then the next pointers
\* lead on from task_end into tasks that have been taken.
get_task == \E i \in DOMAIN task_q :
                /\ task_q[i].id = task_end /\ TakeAt(i)
                /\ IF i = 1
                   THEN task_q' = <<>> /\ task_end' = NULL
                   ELSE task_end' = task_q[i - 1].id /\ UNCHANGED task_q

\* Mutant: the list is not searched, a new timer goes to the front.
queue_timerMutant(t) == timer_queue' = <<t>> \o timer_queue

\* The walk passes the timers that expire earlier than t; t goes in before the
\* one the walk stops at, or at the end.
queue_timer(t) ==
    \E k \in 1 .. Len(timer_queue) + 1 :
        /\ \A j \in 1 .. k - 1 : timer_queue[j].time < t.time
        /\ k <= Len(timer_queue) => timer_queue[k].time >= t.time
        /\ timer_queue' = [j \in 1 .. Len(timer_queue) + 1 |->
                             IF j < k THEN timer_queue[j] ELSE IF j = k THEN t ELSE timer_queue[j - 1]]

\* Mutant: timer_pending is not asked.
update_readMutant(c, next) ==
    IF timer_queue = <<>>
    THEN expires' = Off /\ c' = [c EXCEPT !.pc = next]
    ELSE c' = [c EXCEPT !.pc = "arm", !.pending = FALSE] /\ UNCHANGED expires

\* update_timer_queue for context c, first half: nothing to time, or the
\* lock is held and timer_pending has been read.
update_read(c, next) ==
    IF timer_queue = <<>>
    THEN expires' = Off /\ c' = [c EXCEPT !.pc = next]
    ELSE c' = [c EXCEPT !.pc = "arm", !.pending = (expires # Off)] /\ UNCHANGED expires

\* Second half: add_timer or mod_timer.  What is overdue expires at once.
update_arm(c, next) ==
    /\ expires' = IF timer_queue[1].time < now THEN now ELSE timer_queue[1].time
    /\ readded' = (readded \/ (~c.pending /\ expires # Off))
    /\ c' = [c EXCEPT !.pc = next, !.pending = FALSE]

-----------------------------------------------------------------------------

Init ==
    /\ now = 0
    /\ task_q = <<>> /\ task_end = NULL
    /\ timer_queue = <<>> /\ expires = Off
    /\ kill_thread = FALSE
    /\ thread = [pc |-> "none", task |-> NULL, pending |-> FALSE]
    /\ hook = [pc |-> "idle", pending |-> FALSE]
    /\ timer = [pc |-> "idle", curr |-> 0, pending |-> FALSE]
    /\ rmmod = [pc |-> "insmod", pending |-> FALSE]
    /\ made = 0 /\ packets = 0
    /\ handled = <<>> /\ queued = <<>> /\ freed = <<>> /\ readded = FALSE

\* A step of insmod or rmmod.
LoaderStep(from, to) == rmmod.pc = from /\ ProcessRuns(rmmod) /\ rmmod' = [rmmod EXCEPT !.pc = to]

\* init_module starts the thread ...
startup_cache ==
    /\ LoaderStep("insmod", "started")
    /\ thread' = [thread EXCEPT !.pc = "start"]
    /\ UNCHANGED <<now, task_q, task_end, timer_queue, expires, kill_thread, hook, timer,
                   made, packets, handled, queued, freed, readded>>

\* ... registers the hook ...
RegisterHook ==
    /\ ThreadFirst => thread.pc # "start"
    /\ LoaderStep("started", "hooked")
    /\ UNCHANGED <<now, task_q, task_end, timer_queue, expires, kill_thread, thread, hook, timer,
                   made, packets, handled, queued, freed, readded>>

\* ... and sets the first timer.
FirstTimer ==
    /\ LoaderStep("hooked", "update") /\ Readers = {}
    /\ queue_timer([id |-> made + 1, kind |-> "TASK_CLEAN_UP", time |-> now + Delay["TASK_CLEAN_UP"]])
    /\ made' = made + 1
    /\ UNCHANGED <<now, task_q, task_end, expires, kill_thread, thread, hook, timer,
                   packets, handled, queued, freed, readded>>

InsmodUpdate ==
    /\ ProcessRuns(rmmod)
    /\ \/ rmmod.pc = "update" /\ update_read(rmmod, "loaded") /\ UNCHANGED readded
       \/ rmmod.pc = "arm" /\ update_arm(rmmod, "loaded")
    /\ UNCHANGED <<now, task_q, task_end, timer_queue, kill_thread, thread, hook, timer,
                   made, packets, handled, queued, freed>>

-----------------------------------------------------------------------------
(* Packets and the kernel timer.                                           *)

Hooked == Running /\ rmmod.pc \in {"hooked", "update", "arm", "loaded"}

\* A packet comes to one of the daemon's hooks.
HookBegins ==
    /\ hook.pc = "idle" /\ Hooked /\ packets < MaxPackets
    /\ SoftirqRuns /\ (SMP \/ timer.pc = "idle")
    /\ packets' = packets + 1 /\ made' = made + 1

\* input_handler: insert_task puts a packet's task in the queue ...
insert_task ==
    /\ HookBegins
    /\ queue_task([id |-> made + 1, kind |-> "packet", time |-> now])
    /\ hook' = [hook EXCEPT !.pc = "kick"]
    /\ UNCHANGED <<now, timer_queue, expires, kill_thread, thread, timer, rmmod, handled, freed, readded>>

\* ... and then kicks the thread.
HookKick ==
    /\ hook.pc = "kick" /\ Running
    /\ kick_cache
    /\ hook' = [hook EXCEPT !.pc = "idle"]
    /\ UNCHANGED <<now, task_q, task_end, timer_queue, expires, kill_thread, timer, rmmod,
                   made, packets, handled, queued, freed, readded>>

\* output_handler: gen_rreq sets a timer for the request it sends.
insert_rreq_timer ==
    /\ Routing /\ HookBegins /\ Readers = {} /\ now + Delay["oneshot"] <= MaxTime
    /\ queue_timer([id |-> made + 1, kind |-> "oneshot", time |-> now + Delay["oneshot"]])
    /\ hook' = [hook EXCEPT !.pc = "update"]
    /\ UNCHANGED <<now, task_q, task_end, expires, kill_thread, thread, timer, rmmod, handled, queued, freed, readded>>

HookUpdate ==
    /\ Running /\ (SMP \/ timer.pc = "idle")
    /\ \/ hook.pc = "update" /\ update_read(hook, "idle") /\ UNCHANGED readded
       \/ hook.pc = "arm" /\ update_arm(hook, "idle")
    /\ UNCHANGED <<now, task_q, task_end, timer_queue, kill_thread, thread, timer, rmmod,
                   made, packets, handled, queued, freed>>

\* The kernel timer expires: timer_queue_signal reads the clock.
TimerExpires ==
    /\ timer.pc = "idle" /\ Running /\ SoftirqRuns /\ (SMP \/ hook.pc # "kick")
    /\ expires # Off /\ expires <= now
    /\ expires' = Off
    /\ timer' = [timer EXCEPT !.pc = "due", !.curr = now]
    /\ UNCHANGED <<now, task_q, task_end, timer_queue, kill_thread, thread, hook, rmmod,
                   made, packets, handled, queued, freed, readded>>

\* One turn of its loop: first_timer_due takes the head of the list out, under
\* the write lock, and insert_task_from_timer queues it.
first_timer_due ==
    /\ timer.pc = "due" /\ Running /\ Readers = {}
    /\ IF timer_queue # <<>> /\ timer_queue[1].time <= timer.curr
       THEN /\ timer_queue' = Tail(timer_queue)
            /\ queue_task(timer_queue[1])
            /\ timer' = [timer EXCEPT !.pc = "kick"]
       ELSE /\ timer' = [timer EXCEPT !.pc = "update", !.curr = 0]
            /\ UNCHANGED <<timer_queue, task_q, task_end, queued>>
    /\ UNCHANGED <<now, expires, kill_thread, thread, hook, rmmod, made, packets, handled, freed, readded>>

TimerKick ==
    /\ timer.pc = "kick" /\ Running
    /\ kick_cache
    /\ timer' = [timer EXCEPT !.pc = "due"]
    /\ UNCHANGED <<now, task_q, task_end, timer_queue, expires, kill_thread, hook, rmmod,
                   made, packets, handled, queued, freed, readded>>

\* Mutant: timer_queue_signal returns without update_timer_queue.
TimerUpdateMutant ==
    /\ timer.pc = "update" /\ Running
    /\ timer' = [timer EXCEPT !.pc = "idle"]
    /\ UNCHANGED <<now, task_q, task_end, timer_queue, expires, kill_thread, thread, hook, rmmod,
                   made, packets, handled, queued, freed, readded>>

\* timer_queue_signal ends with update_timer_queue.
TimerUpdate ==
    /\ Running
    /\ \/ timer.pc = "update" /\ update_read(timer, "idle") /\ UNCHANGED readded
       \/ timer.pc = "arm" /\ update_arm(timer, "idle")
    /\ UNCHANGED <<now, task_q, task_end, timer_queue, kill_thread, thread, hook, rmmod,
                   made, packets, handled, queued, freed>>

-----------------------------------------------------------------------------
(* The thread: cache().                                                    *)

\* It begins by initialising its wait queue and the flag.
ThreadStart ==
    /\ thread.pc = "start" /\ ProcessRuns(thread)
    /\ thread' = [thread EXCEPT !.pc = "check"]
    /\ kill_thread' = FALSE
    /\ UNCHANGED <<now, task_q, task_end, timer_queue, expires, hook, timer, rmmod,
                   made, packets, handled, queued, freed, readded>>

\* The test of kill_thread before and after the sleep.
CheckKill ==
    /\ thread.pc \in {"check", "woken"} /\ ProcessRuns(thread)
    /\ thread' = [thread EXCEPT !.pc = IF kill_thread THEN "exit"
                                       ELSE IF @ = "check" THEN "tosleep" ELSE "get"]
    /\ UNCHANGED <<now, task_q, task_end, timer_queue, expires, kill_thread, hook, timer, rmmod,
                   made, packets, handled, queued, freed, readded>>

\* interruptible_sleep_on: from here on a kick is noticed.
Sleep ==
    /\ thread.pc = "tosleep" /\ ProcessRuns(thread)
    /\ thread' = [thread EXCEPT !.pc = "asleep"]
    /\ UNCHANGED <<now, task_q, task_end, timer_queue, expires, kill_thread, hook, timer, rmmod,
                   made, packets, handled, queued, freed, readded>>

TakeTask ==
    /\ thread.pc = "get" /\ ProcessRuns(thread)
    /\ IF task_end = NULL
       THEN thread' = [thread EXCEPT !.pc = "check"] /\ UNCHANGED <<task_q, task_end, handled>>
       ELSE get_task /\ handled' = Append(handled, thread'.task.id)
    /\ UNCHANGED <<now, timer_queue, expires, kill_thread, hook, timer, rmmod,
                   made, packets, queued, freed, readded>>

\* The timer a handler of a task may set.
Sets(kind) == IF kind = "packet" THEN "oneshot" ELSE "TASK_CLEAN_UP"

\* The handler has returned: the task is freed.
FreeTask == freed' = IF thread'.pc = "get" THEN Append(freed, thread.task.id) ELSE freed

\* A handler: TASK_CLEAN_UP always sets the next timer, a packet may set one.
Handle ==
    LET new == Sets(thread.task.kind)
        due == now + Delay[new]
    IN
    /\ thread.pc \in {"handle", "deleted"} /\ ProcessRuns(thread)
    /\ \/ /\ thread.task.kind # "oneshot" /\ due <= MaxTime /\ Readers = {}
          /\ queue_timer([id |-> made + 1, kind |-> new, time |-> due])
          /\ made' = made + 1
          /\ thread' = [thread EXCEPT !.pc = "update"]
       \/ /\ thread.task.kind # "TASK_CLEAN_UP" \/ due > MaxTime
          /\ thread.pc = "handle"
          /\ thread' = [thread EXCEPT !.pc = "get"]
          /\ UNCHANGED <<timer_queue, made>>
    /\ FreeTask
    /\ UNCHANGED <<now, task_q, task_end, expires, kill_thread, hook, timer, rmmod,
                   packets, handled, queued, readded>>

\* A handler of the routing daemon deletes a timer.  It may set another one,
\* and then it calls update_timer_queue.
delete_timer ==
    /\ Routing /\ thread.pc = "handle" /\ thread.task.kind = "packet"
    /\ ProcessRuns(thread) /\ Readers = {}
    /\ \E k \in DOMAIN timer_queue :
         /\ timer_queue[k].kind = "oneshot"
         /\ timer_queue' = [j \in 1 .. Len(timer_queue) - 1 |-> timer_queue[IF j < k THEN j ELSE j + 1]]
    /\ thread' = [thread EXCEPT !.pc = "deleted"]
    /\ UNCHANGED <<now, task_q, task_end, expires, kill_thread, hook, timer, rmmod,
                   made, packets, handled, queued, freed, readded>>

\* delete_timer did not find the timer, but what follows it does not ask.
NoneDeleted == Routing /\ thread.pc = "handle" /\ thread.task.kind = "packet"

ThreadUpdate ==
    /\ ProcessRuns(thread)
    /\ \/ /\ thread.pc \in {"deleted", "update"} \/ NoneDeleted
          /\ update_read(thread, "get") /\ UNCHANGED readded
       \/ thread.pc = "arm" /\ update_arm(thread, "get")
    /\ FreeTask
    /\ UNCHANGED <<now, task_q, task_end, timer_queue, kill_thread, hook, timer, rmmod,
                   made, packets, handled, queued>>

-----------------------------------------------------------------------------
(* rmmod: cleanup_module.                                                  *)

\* nf_unregister_hook waits for the hook.
UnregisterHook ==
    /\ Unload /\ LoaderStep("loaded", "unhooked") /\ hook.pc = "idle"
    /\ UNCHANGED <<now, task_q, task_end, timer_queue, expires, kill_thread, thread, hook, timer,
                   made, packets, handled, queued, freed, readded>>

\* del_timer does not wait for timer_queue_signal.
DelTimer ==
    /\ LoaderStep("unhooked", "untimed")
    /\ expires' = Off
    /\ UNCHANGED <<now, task_q, task_end, timer_queue, kill_thread, thread, hook, timer,
                   made, packets, handled, queued, freed, readded>>

kill_cache ==
    /\ LoaderStep("untimed", "waiting")
    /\ kill_thread' = TRUE
    /\ kick_cache
    /\ UNCHANGED <<now, task_q, task_end, timer_queue, expires, hook, timer,
                   made, packets, handled, queued, freed, readded>>

\* The second is over: cleanup_task_queue frees what the next pointers lead to,
\* task_end stays.
cleanup_task_queue ==
    /\ LoaderStep("waiting", "gone")
    /\ AmpleWait => thread.pc \in {"asleep", "exit"} /\ timer.pc = "idle"
    /\ task_q' = <<>>
    /\ freed' = freed \o [k \in DOMAIN task_q |-> task_q[k].id]
    /\ UNCHANGED <<now, task_end, timer_queue, expires, kill_thread, thread, hook, timer,
                   made, packets, handled, queued, readded>>

\* Bound: the clock starts with the first timer.
Tick ==
    /\ now < MaxTime /\ Running
    /\ rmmod.pc \notin {"insmod", "started", "hooked"}
    /\ now' = now + 1
    /\ UNCHANGED <<task_q, task_end, timer_queue, expires, kill_thread, thread, hook, timer, rmmod,
                   made, packets, handled, queued, freed, readded>>

InsmodStep == startup_cache \/ RegisterHook \/ FirstTimer \/ InsmodUpdate
HookStep   == insert_task \/ HookKick \/ insert_rreq_timer \/ HookUpdate
TimerStep  == TimerExpires \/ first_timer_due \/ TimerKick \/ TimerUpdate
ThreadStep == ThreadStart \/ CheckKill \/ Sleep \/ TakeTask \/ Handle \/ delete_timer \/ ThreadUpdate
RmmodStep  == UnregisterHook \/ DelTimer \/ kill_cache \/ cleanup_task_queue

Next == InsmodStep \/ HookStep \/ TimerStep \/ ThreadStep \/ RmmodStep \/ Tick

Spec == Init /\ [][Next]_vars

\* Time passes, the kernel runs pending softirqs and schedules a thread that
\* is not asleep.  Nobody has to send a packet or unload the module.
Fairness == /\ WF_vars(Tick) /\ WF_vars(InsmodStep) /\ WF_vars(HookKick \/ HookUpdate)
            /\ WF_vars(TimerStep) /\ WF_vars(ThreadStep)

FairSpec == Spec /\ Fairness

-----------------------------------------------------------------------------
(* Properties.                                                             *)

\* Every variable has its type, and until the module is gone there is a task
\* to take exactly while there is a head: get_task never meets what it calls
\* an error, a head without a tail.
TypeOK ==
    /\ task_q \in Seq(Task) /\ timer_queue \in Seq(Task)
    /\ rmmod.pc # "gone" => (task_end = NULL <=> task_q = <<>>)
    /\ expires \in Off .. MaxTime /\ now \in 0 .. MaxTime
    /\ thread.pc \in {"none", "start", "panic", "check", "tosleep", "asleep", "woken", "get", "handle",
                      "deleted", "update", "arm", "exit"}
    /\ thread.pc \in {"handle", "deleted", "update", "arm"} => thread.task \in Task
    /\ hook.pc \in {"idle", "kick", "update", "arm"}
    /\ timer.pc \in {"idle", "due", "kick", "update", "arm"}
    /\ rmmod.pc \in {"insmod", "started", "hooked", "update", "arm", "loaded",
                    "unhooked", "untimed", "waiting", "gone"}
    /\ kill_thread \in BOOLEAN /\ readded \in BOOLEAN

\* Tasks are handled once each and in the order in which they were queued,
\* whichever context queued them: those that wait are the ones from task_q to
\* task_end.
InOrder ==
    rmmod.pc # "gone" =>
        \E n \in 0 .. Len(task_q) :
            /\ task_end = IF n = 0 THEN NULL ELSE task_q[n].id
            /\ queued = handled \o [i \in 1 .. n |-> task_q[n + 1 - i].id]

\* The thread is between taking a task and finding the queue empty.
Draining == thread.pc \in {"get", "handle", "deleted", "update", "arm"}

\* cleanup_task_queue follows pointers that may lead into tasks the thread has
\* freed.  Unless it comes while the thread drains the queue, each task that
\* ever was in it is freed, and freed once, by the thread or by the clean-up.
FreedOnce ==
    ~Draining =>
        /\ \A i, j \in DOMAIN freed : freed[i] = freed[j] => i = j
        /\ rmmod.pc = "gone" => {freed[i] : i \in DOMAIN freed} = {queued[i] : i \in DOMAIN queued}

\* Whenever nobody is about to set the timer it is set, and for no later than
\* the first entry due: no entry can be forgotten.
Armed ==
    (/\ rmmod.pc \notin {"untimed", "waiting", "gone"}
     /\ timer.pc = "idle" /\ \A c \in {thread, hook, rmmod} : c.pc \notin {"update", "arm"})
        => \A k \in DOMAIN timer_queue :
              expires # Off /\ (expires <= timer_queue[k].time \/ expires <= now)

\* add_timer is only called for a timer that is not pending, which is what
\* update_timer_queue asks before it calls it.
AddNotPending == ~readded

\* A timer that is set goes off: its entry leaves the timer queue.
TimersFire ==
    \A i \in 1 .. MaxPackets * 2 + MaxTime :
        (\E k \in DOMAIN timer_queue : timer_queue[k].id = i)
            ~> (\A k \in DOMAIN timer_queue : timer_queue[k].id # i)

\* Queuing a task wakes the thread up.  Of all tasks TASK_CLEAN_UP needs this
\* most: it sets its own next timer, so none follows one that is not handled.
CleanUpHandled ==
    \A i \in 1 .. MaxPackets * 2 + MaxTime :
        (\E k \in DOMAIN task_q : task_q[k].id = i /\ task_q[k].kind = "TASK_CLEAN_UP")
            ~> (\E k \in DOMAIN handled : handled[k] = i)

\* kill_cache waits for the thread to die: cleanup_module frees the queues
\* after that.
DeadBeforeCleanup == rmmod.pc = "gone" => thread.pc = "exit"
=============================================================================
