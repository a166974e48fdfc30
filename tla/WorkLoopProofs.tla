--------------------------- MODULE WorkLoopProofs ---------------------------
(***************************************************************************)
(* Proofs about the work loop, for every number of packets, every delay    *)
(* and every interleaving: the type invariant, that the kernel timer is    *)
(* set for the first entry (Armed), that tasks are handled in the order    *)
(* they were queued (InOrder), that what was queued is freed once although *)
(* the list's next pointers outlive what they point to (FreedOnce) and, on *)
(* one processor, that add_timer is only called for a timer that is not    *)
(* pending (AddNotPending).                                                *)
(***************************************************************************)
EXTENDS WorkLoop, SequenceTheorems, TLAPS

(***************************************************************************)
(* The inductive invariants.                                               *)
(***************************************************************************)

ThreadPcs == {"none", "start", "panic", "check", "tosleep", "asleep", "woken",
              "get", "handle", "deleted", "update", "arm", "exit"}
HookPcs   == {"idle", "kick", "update", "arm"}
TimerPcs  == {"idle", "due", "kick", "update", "arm"}
LoaderPcs == {"insmod", "started", "hooked", "update", "arm", "loaded",
              "unhooked", "untimed", "waiting", "gone"}

\* The queues, what has passed through them, and whether there is a tail.
Queues ==
    /\ task_q \in Seq(Task) /\ timer_queue \in Seq(Task)
    /\ made \in Nat /\ handled \in Seq(Nat) /\ queued \in Seq(Nat) /\ freed \in Seq(Nat)
Tailed == rmmod.pc # "gone" => (task_end = NULL <=> task_q = <<>>)

\* The thread has a task in its hand.
InHand == thread.pc \in {"handle", "deleted", "update", "arm"}

\* The contexts: the fields each has, where it is, and the task in the
\* thread's hand.
Contexts ==
    /\ thread = [pc |-> thread.pc, task |-> thread.task, pending |-> thread.pending]
    /\ hook = [pc |-> hook.pc, pending |-> hook.pending]
    /\ timer = [pc |-> timer.pc, curr |-> timer.curr, pending |-> timer.pending]
    /\ rmmod = [pc |-> rmmod.pc, pending |-> rmmod.pending]
    /\ thread.pc \in ThreadPcs /\ hook.pc \in HookPcs /\ timer.pc \in TimerPcs /\ rmmod.pc \in LoaderPcs
    /\ InHand => thread.task \in Task
    /\ rmmod.pc = "insmod" => thread.pc = "none"

\* The clock waits for the first timer.
Clock ==
    /\ expires \in Off .. MaxTime /\ now \in 0 .. MaxTime
    /\ rmmod.pc \in {"insmod", "started", "hooked"} => now = 0

Flags == kill_thread \in BOOLEAN /\ readded \in BOOLEAN

\* Whoever is about to set the kernel timer holds the lock the queue's writers
\* need, so the entry it is set for is still there.
ArmHasTimer == \A c \in {thread, hook, timer, rmmod} : c.pc = "arm" => timer_queue # <<>>

TInv == Queues /\ Tailed /\ Contexts /\ Clock /\ Flags /\ ArmHasTimer

\* queue_timer keeps the list in the order of the times.
Sorted == \A i, j \in DOMAIN timer_queue : i < j => timer_queue[i].time <= timer_queue[j].time

\* A task has one number: it enters the task queue once, and it is in the timer
\* queue once, before that.
OnceQueued ==
    /\ \A i \in DOMAIN queued : queued[i] <= made
    /\ \A i, j \in DOMAIN queued : queued[i] = queued[j] => i = j
    /\ \A i, j \in DOMAIN timer_queue : timer_queue[i].id = timer_queue[j].id => i = j
    /\ \A i \in DOMAIN queued, j \in DOMAIN timer_queue : queued[i] # timer_queue[j].id

\* The next pointers lead back through the last tasks queued, newest first.
\* The thread takes them in the order of queued, and task_end is the first it
\* has not taken; those after it in the list are taken already.
Linked ==
    rmmod.pc # "gone" =>
        /\ Len(handled) <= Len(queued) /\ Len(queued) <= Len(handled) + Len(task_q)
        /\ Len(task_q) <= Len(queued)
        /\ \A i \in 1 .. Len(handled) : handled[i] = queued[i]
        /\ \A j \in 1 .. Len(task_q) : task_q[j].id = queued[Len(queued) + 1 - j]
        /\ IF Len(queued) = Len(handled)
           THEN task_end = NULL /\ Len(task_q) = 0
           ELSE task_end = task_q[Len(queued) - Len(handled)].id

\* The thread frees what it has handled, and while it does not drain the queue
\* the list holds nothing it has taken.
Released ==
    rmmod.pc # "gone" =>
        /\ InHand => Len(handled) > 0 /\ thread.task.id = handled[Len(handled)]
        /\ Len(freed) = Len(handled) - IF InHand THEN 1 ELSE 0
        /\ \A i \in 1 .. Len(freed) : freed[i] = handled[i]
        /\ ~Draining => Len(queued) = Len(handled) + Len(task_q)
FreedAll == rmmod.pc = "gone" => FreedOnce
QInv == OnceQueued /\ Linked /\ Released /\ FreedAll

\* On one processor nobody gets between the reading of timer_pending and the
\* setting of the timer: neither a softirq nor the other process.
Exclusive ==
    /\ thread.pc = "arm" => hook.pc = "idle" /\ timer.pc = "idle" /\ rmmod.pc # "arm"
    /\ rmmod.pc = "arm" => hook.pc = "idle" /\ timer.pc = "idle"
    /\ hook.pc = "arm" => timer.pc = "idle"
ReadStands == \A c \in {thread, hook, timer, rmmod} : c.pc = "arm" => (c.pending <=> expires # Off)
UpInv == Exclusive /\ ReadStands /\ AddNotPending

(***************************************************************************)
(* Lemmas about sequences and about the queues' operations.                *)
(***************************************************************************)

\* A sequence over a set is one over any larger set.
LEMMA SeqOfSubset ==
    ASSUME NEW S, NEW T, S \subseteq T, NEW q \in Seq(S)
    PROVE  q \in Seq(T)
OBVIOUS

\* What a walk to position k makes of the timer queue.
LEMMA QueueTimer ==
    ASSUME NEW S, timer_queue \in Seq(S), NEW t \in S, queue_timer(t)
    PROVE  /\ timer_queue' \in Seq(S) /\ Len(timer_queue') = Len(timer_queue) + 1
           /\ \E k \in 1 .. Len(timer_queue) + 1 :
                /\ \A j \in 1 .. k - 1 : timer_queue'[j] = timer_queue[j] /\ timer_queue[j].time < t.time
                /\ timer_queue'[k] = t
                /\ \A j \in k + 1 .. Len(timer_queue) + 1 : timer_queue'[j] = timer_queue[j - 1]
                /\ k <= Len(timer_queue) => timer_queue[k].time >= t.time
<1>1. PICK k \in 1 .. Len(timer_queue) + 1 :
        /\ \A j \in 1 .. k - 1 : timer_queue[j].time < t.time
        /\ k <= Len(timer_queue) => timer_queue[k].time >= t.time
        /\ timer_queue' = [j \in 1 .. Len(timer_queue) + 1 |->
                             IF j < k THEN timer_queue[j] ELSE IF j = k THEN t ELSE timer_queue[j - 1]]
  BY DEF queue_timer
<1>2. timer_queue' \in Seq(S) /\ Len(timer_queue') = Len(timer_queue) + 1
  BY <1>1
<1>3. \A j \in 1 .. k - 1 : timer_queue'[j] = timer_queue[j] /\ timer_queue[j].time < t.time
  BY <1>1
<1>4. timer_queue'[k] = t
  BY <1>1
<1>5. \A j \in k + 1 .. Len(timer_queue) + 1 : timer_queue'[j] = timer_queue[j - 1]
  BY <1>1
<1> QED
  BY <1>1, <1>2, <1>3, <1>4, <1>5

(***************************************************************************)
(* The type invariant.                                                     *)
(***************************************************************************)

\* A larger number of tasks made only adds possible tasks.
LEMMA TaskGrows ==
    ASSUME made \in Nat
    PROVE  (made' = made => Task' = Task) /\ (made' = made + 1 => Task \subseteq Task')
<1>1. made' = made => Task' = Task
  BY DEF Task
<1>2. made' = made + 1 => Task \subseteq Task'
  BY DEF Task
<1> QED BY <1>1, <1>2

\* queue_task: the new task is the head, and there is a tail.
LEMMA PushTask ==
    ASSUME NEW S, task_q \in Seq(S), NEW t \in S, queued \in Seq(Nat), t.id \in Nat, queue_task(t),
           \A u \in S : u.id # NULL
    PROVE  task_q' \in Seq(S) /\ queued' \in Seq(Nat) /\ task_end' # NULL /\ task_q' # <<>>
<1>1. task_q' = <<t>> \o task_q /\ task_end' = (IF task_end = NULL THEN t.id ELSE task_end)
      /\ queued' = Append(queued, t.id)
  BY DEF queue_task
<1>2. task_q' \in Seq(S) /\ Len(task_q') = Len(task_q) + 1
  BY <1>1
<1>3. task_q' # <<>>
  BY <1>2
<1>4. task_end' # NULL
  BY <1>1
<1>5. queued' \in Seq(Nat)
  BY <1>1
<1> QED BY <1>2, <1>3, <1>4, <1>5

\* delete_timer: the list without its k-th entry.
LEMMA RemoveSeq ==
    ASSUME NEW S, NEW q \in Seq(S), NEW k \in DOMAIN q
    PROVE  /\ [j \in 1 .. Len(q) - 1 |-> q[IF j < k THEN j ELSE j + 1]] \in Seq(S)
           /\ Len([j \in 1 .. Len(q) - 1 |-> q[IF j < k THEN j ELSE j + 1]]) = Len(q) - 1
<1>1. Len(q) \in Nat \ {0}
  OBVIOUS
<1>2. \A j \in 1 .. Len(q) - 1 : q[IF j < k THEN j ELSE j + 1] \in S
  BY <1>1
<1> QED BY <1>1, <1>2

\* update_timer_queue sets the kernel timer within the bound.
LEMMA ArmInRange ==
    ASSUME TInv, timer_queue # <<>>
    PROVE  (IF timer_queue[1].time < now THEN now ELSE timer_queue[1].time) \in 0 .. MaxTime
<1>1. timer_queue[1] \in Task
  BY DEF TInv, Queues
<1> QED BY <1>1 DEF TInv, Clock, Task

\* The next task to be made is one.
LEMMA NewTask ==
    ASSUME made \in Nat, made' = made + 1, NEW kind \in Kinds, NEW time \in 0 .. MaxTime
    PROVE  [id |-> made + 1, kind |-> kind, time |-> time] \in Task'
<1>1. made + 1 \in 1 .. made'
  OBVIOUS
<1> QED BY <1>1 DEF Task

\* Ids count from 1, so none is taken for the null pointer.
LEMMA TaskIds ==
    ASSUME NEW m \in Nat
    PROVE  \A u \in [id : 1 .. m, kind : Kinds, time : 0 .. MaxTime] :
              u.id \in Nat /\ u.id # NULL /\ u.id <= m /\ u.time \in Nat
BY DEF NULL

\* What the thread frees is the task in its hand.
LEMMA FreeTaskType ==
    ASSUME TInv, FreeTask, InHand
    PROVE  freed' \in Seq(Nat)
<1>1. made \in Nat /\ thread.task \in Task /\ freed \in Seq(Nat)
  BY DEF TInv, Queues, Contexts, InHand
<1>2. thread.task.id \in Nat
  BY <1>1, TaskIds DEF Task
<1> QED BY <1>1, <1>2 DEF FreeTask

\* Every step of every context keeps the types.
LEMMA TypeStep == TInv /\ [Next]_vars => TInv'
<1> SUFFICES ASSUME TInv, [Next]_vars PROVE TInv'
  OBVIOUS
<1> USE WorkLoopAssumption, TaskGrows
<1>1. CASE startup_cache
  <2>1. Queues' /\ Tailed' /\ Clock' /\ Flags'
    BY <1>1 DEF startup_cache, LoaderStep, TInv, Queues, Tailed, Contexts, Clock, Flags, ArmHasTimer
  <2>2. Contexts' /\ ArmHasTimer'
    BY <1>1 DEF startup_cache, LoaderStep, TInv, Queues, Tailed, Contexts, InHand, Clock, Flags, ArmHasTimer, ThreadPcs, HookPcs, TimerPcs, LoaderPcs
  <2> QED BY <2>1, <2>2 DEF TInv
<1>2. CASE RegisterHook
  <2>1. Queues' /\ Tailed' /\ Clock' /\ Flags'
    BY <1>2 DEF RegisterHook, LoaderStep, TInv, Queues, Tailed, Contexts, Clock, Flags, ArmHasTimer
  <2>2. Contexts' /\ ArmHasTimer'
    BY <1>2 DEF RegisterHook, LoaderStep, TInv, Queues, Tailed, Contexts, InHand, Clock, Flags, ArmHasTimer, ThreadPcs, HookPcs, TimerPcs, LoaderPcs
  <2> QED BY <2>1, <2>2 DEF TInv
<1>3. CASE FirstTimer
  <2> DEFINE t == [id |-> made + 1, kind |-> "TASK_CLEAN_UP", time |-> now + Delay["TASK_CLEAN_UP"]]
  <2>1. t \in Task'
    <3>1. made \in Nat /\ made' = made + 1 /\ now + Delay["TASK_CLEAN_UP"] \in 0 .. MaxTime
      BY <1>3 DEF FirstTimer, LoaderStep, TInv, Queues, Clock
    <3> QED BY <3>1, NewTask DEF Kinds
  <2>2. queue_timer(t) /\ made' = made + 1 /\ UNCHANGED <<task_q, handled, queued, freed>>
    BY <1>3 DEF FirstTimer, LoaderStep
  <2>3. task_q \in Seq(Task') /\ timer_queue \in Seq(Task') /\ made' \in Nat
    BY <2>2, SeqOfSubset DEF TInv, Queues
  <2> HIDE DEF t
  <2>4. timer_queue' \in Seq(Task') /\ Len(timer_queue') = Len(timer_queue) + 1
    BY <2>1, <2>2, <2>3, QueueTimer
  <2>5. Queues'
    BY <2>2, <2>3, <2>4 DEF TInv, Queues
  <2>6. Tailed' /\ Clock' /\ Flags'
    BY <1>3 DEF FirstTimer, LoaderStep, TInv, Queues, Tailed, Contexts, Clock, Flags, ArmHasTimer
  <2>7. Contexts'
    BY <1>3 DEF FirstTimer, LoaderStep, TInv, Queues, Tailed, Contexts, InHand, Clock, Flags, ArmHasTimer, ThreadPcs, HookPcs, TimerPcs, LoaderPcs
  <2>8. ArmHasTimer'
    BY <2>3, <2>4 DEF ArmHasTimer
  <2> QED BY <2>5, <2>6, <2>7, <2>8 DEF TInv
<1>4. CASE InsmodUpdate
  <2>1. CASE rmmod.pc = "arm" /\ update_arm(rmmod, "loaded")
    <3>1. timer_queue # <<>>
      BY <2>1 DEF TInv, ArmHasTimer
    <3>2. expires' \in 0 .. MaxTime
      BY <2>1, <3>1, ArmInRange DEF update_arm
    <3>3. readded' \in BOOLEAN
      BY <2>1, Zenon DEF update_arm
    <3>4. Queues' /\ Tailed' /\ Clock' /\ Flags'
      <4>1. Queues' /\ Tailed'
        BY <1>4, <2>1, <3>2, <3>3 DEF InsmodUpdate, update_arm, TInv, Queues, Tailed
      <4>2. Clock' /\ Flags'
        BY <1>4, <2>1, <3>2, <3>3 DEF InsmodUpdate, update_arm, TInv, Off, Clock, Flags
      <4> QED BY <4>1, <4>2
    <3>5. Contexts' /\ ArmHasTimer'
      BY <1>4, <2>1 DEF InsmodUpdate, update_arm, TInv, Queues, Tailed, Contexts, InHand, Clock, Flags, ArmHasTimer, ThreadPcs, HookPcs, TimerPcs, LoaderPcs
    <3> QED BY <3>4, <3>5 DEF TInv
  <2>2. CASE rmmod.pc = "update" /\ update_read(rmmod, "loaded") /\ UNCHANGED readded
    <3>1. expires' \in {expires, Off}
      BY <2>2 DEF update_read
    <3>3. Queues' /\ Tailed' /\ Clock' /\ Flags'
      <4>1. rmmod.pc = "update" /\ rmmod'.pc \in {"arm", "loaded"}
        BY <2>2 DEF update_read, TInv, Contexts
      <4>2. Queues' /\ Flags'
        BY <1>4, <2>2 DEF InsmodUpdate, TInv, Queues, Flags
      <4>3. Tailed' /\ Clock'
        BY <1>4, <3>1, <4>1 DEF InsmodUpdate, Off, TInv, Tailed, Clock
      <4> QED BY <4>2, <4>3
    <3>2. Contexts' /\ ArmHasTimer'
      BY <1>4, <2>2 DEF InsmodUpdate, update_read, TInv, Queues, Tailed, Contexts, InHand, Clock, Flags, ArmHasTimer, ThreadPcs, HookPcs, TimerPcs, LoaderPcs
    <3> QED BY <3>2, <3>3 DEF TInv
  <2> QED BY <1>4, <2>1, <2>2 DEF InsmodUpdate
<1>5. CASE insert_task
  <2> DEFINE t == [id |-> made + 1, kind |-> "packet", time |-> now]
  <2>1. t \in Task'
    <3>1. made \in Nat /\ made' = made + 1 /\ now \in 0 .. MaxTime
      BY <1>5 DEF insert_task, HookBegins, TInv, Queues, Clock
    <3> QED BY <3>1, NewTask DEF Kinds
  <2>2. queue_task(t) /\ made' = made + 1 /\ UNCHANGED <<timer_queue, handled, freed, rmmod>> /\ rmmod.pc # "gone"
    BY <1>5 DEF insert_task, HookBegins, Hooked, Running
  <2>3. task_q \in Seq(Task') /\ timer_queue \in Seq(Task') /\ made' \in Nat /\ (\A u \in Task' : u.id \in Nat /\ u.id # NULL)
    <3>1. task_q \in Seq(Task') /\ timer_queue \in Seq(Task') /\ made' \in Nat
      BY <2>2, SeqOfSubset DEF TInv, Queues
    <3> QED BY <3>1, TaskIds DEF Task
  <2> HIDE DEF t
  <2>4. task_q' \in Seq(Task') /\ queued' \in Seq(Nat) /\ task_end' # NULL /\ task_q' # <<>>
    <3>1. t.id \in Nat
      BY <2>1, <2>3
    <3> QED BY <2>1, <2>2, <2>3, <3>1, PushTask DEF TInv, Queues, Tailed
  <2>5. Queues' /\ Tailed'
    BY <2>2, <2>3, <2>4 DEF TInv, Queues, Tailed
  <2>6. Clock' /\ Flags'
    BY <1>5 DEF insert_task, HookBegins, TInv, Queues, Tailed, Contexts, Clock, Flags, ArmHasTimer
  <2>7. Contexts' /\ ArmHasTimer'
    BY <1>5, ZenonT(60) DEF insert_task, HookBegins, TInv, Queues, Tailed, Contexts, InHand, Clock, Flags, ArmHasTimer, ThreadPcs, HookPcs, TimerPcs, LoaderPcs
  <2> QED BY <2>5, <2>6, <2>7 DEF TInv
<1>6. CASE HookKick
  <2>1. Queues' /\ Tailed' /\ Clock' /\ Flags'
    BY <1>6 DEF HookKick, kick_cache, TInv, Queues, Tailed, Contexts, Clock, Flags, ArmHasTimer
  <2>2. Contexts' /\ ArmHasTimer'
    BY <1>6, ZenonT(60) DEF HookKick, kick_cache, TInv, Queues, Tailed, Contexts, InHand, Clock, Flags, ArmHasTimer, ThreadPcs, HookPcs, TimerPcs, LoaderPcs
  <2> QED BY <2>1, <2>2 DEF TInv
<1>7. CASE insert_rreq_timer
  <2> DEFINE t == [id |-> made + 1, kind |-> "oneshot", time |-> now + Delay["oneshot"]]
  <2>1. t \in Task'
    <3>1. made \in Nat /\ made' = made + 1 /\ now + Delay["oneshot"] \in 0 .. MaxTime
      BY <1>7 DEF insert_rreq_timer, HookBegins, TInv, Queues, Clock
    <3> QED BY <3>1, NewTask DEF Kinds
  <2>2. queue_timer(t) /\ made' = made + 1 /\ UNCHANGED <<task_q, handled, queued, freed>>
    BY <1>7 DEF insert_rreq_timer, HookBegins
  <2>3. task_q \in Seq(Task') /\ timer_queue \in Seq(Task') /\ made' \in Nat
    BY <2>2, SeqOfSubset DEF TInv, Queues
  <2> HIDE DEF t
  <2>4. timer_queue' \in Seq(Task') /\ Len(timer_queue') = Len(timer_queue) + 1
    BY <2>1, <2>2, <2>3, QueueTimer
  <2>5. Queues'
    BY <2>2, <2>3, <2>4 DEF TInv, Queues
  <2>6. Tailed' /\ Clock' /\ Flags'
    BY <1>7 DEF insert_rreq_timer, HookBegins, TInv, Queues, Tailed, Contexts, Clock, Flags, ArmHasTimer
  <2>7. Contexts'
    BY <1>7 DEF insert_rreq_timer, HookBegins, TInv, Queues, Tailed, Contexts, InHand, Clock, Flags, ArmHasTimer, ThreadPcs, HookPcs, TimerPcs, LoaderPcs
  <2>8. ArmHasTimer'
    BY <2>3, <2>4 DEF ArmHasTimer
  <2> QED BY <2>5, <2>6, <2>7, <2>8 DEF TInv
<1>8. CASE HookUpdate
  <2>1. CASE hook.pc = "arm" /\ update_arm(hook, "idle")
    <3>1. timer_queue # <<>>
      BY <2>1 DEF TInv, ArmHasTimer
    <3>2. expires' \in 0 .. MaxTime
      BY <2>1, <3>1, ArmInRange DEF update_arm
    <3>3. readded' \in BOOLEAN
      BY <2>1, Zenon DEF update_arm
    <3>4. Queues' /\ Tailed' /\ Clock' /\ Flags'
      <4>1. Queues' /\ Tailed'
        BY <1>8, <2>1, <3>2, <3>3 DEF HookUpdate, update_arm, TInv, Queues, Tailed
      <4>2. Clock' /\ Flags'
        BY <1>8, <2>1, <3>2, <3>3 DEF HookUpdate, update_arm, TInv, Off, Clock, Flags
      <4> QED BY <4>1, <4>2
    <3>5. Contexts' /\ ArmHasTimer'
      BY <1>8, <2>1, ZenonT(60) DEF HookUpdate, update_arm, TInv, Queues, Tailed, Contexts, InHand, Clock, Flags, ArmHasTimer, ThreadPcs, HookPcs, TimerPcs, LoaderPcs
    <3> QED BY <3>4, <3>5 DEF TInv
  <2>2. CASE hook.pc = "update" /\ update_read(hook, "idle") /\ UNCHANGED readded
    <3>1. expires' \in {expires, Off}
      BY <2>2 DEF update_read
    <3>3. Queues' /\ Tailed' /\ Clock' /\ Flags'
      BY <1>8, <2>2, <3>1 DEF HookUpdate, update_read, Off, TInv, Queues, Tailed, Contexts, Clock, Flags, ArmHasTimer
    <3>2. Contexts' /\ ArmHasTimer'
      BY <1>8, <2>2, ZenonT(60) DEF HookUpdate, update_read, TInv, Queues, Tailed, Contexts, InHand, Clock, Flags, ArmHasTimer, ThreadPcs, HookPcs, TimerPcs, LoaderPcs
    <3> QED BY <3>2, <3>3 DEF TInv
  <2> QED BY <1>8, <2>1, <2>2 DEF HookUpdate
<1>9. CASE TimerExpires
  <2>1. Queues' /\ Tailed' /\ Clock' /\ Flags'
    BY <1>9 DEF TimerExpires, Off, TInv, Queues, Tailed, Contexts, Clock, Flags, ArmHasTimer
  <2>2. Contexts' /\ ArmHasTimer'
    BY <1>9 DEF TimerExpires, Off, TInv, Queues, Tailed, Contexts, InHand, Clock, Flags, ArmHasTimer, ThreadPcs, HookPcs, TimerPcs, LoaderPcs
  <2> QED BY <2>1, <2>2 DEF TInv
<1>10. CASE first_timer_due
  <2>1. CASE ~(timer_queue # <<>> /\ timer_queue[1].time <= timer.curr)
    <3>1. Queues' /\ Tailed' /\ Clock' /\ Flags'
      BY <1>10, <2>1 DEF first_timer_due, TInv, Queues, Tailed, Clock, Flags
    <3>2. Contexts' /\ ArmHasTimer'
      BY <1>10, <2>1 DEF first_timer_due, TInv, Queues, Contexts, InHand, ArmHasTimer, TimerPcs
    <3> QED BY <3>1, <3>2 DEF TInv
  <2>2. CASE timer_queue # <<>> /\ timer_queue[1].time <= timer.curr
    <3> DEFINE t == timer_queue[1]
    <3>1. t \in Task /\ t.id \in Nat /\ \A u \in Task : u.id # NULL
      <4>1. made \in Nat /\ t \in Task
        BY <2>2 DEF TInv, Queues
      <4> QED BY <4>1, TaskIds DEF Task
    <3>2. queue_task(t) /\ timer_queue' = Tail(timer_queue) /\ rmmod.pc # "gone" /\ UNCHANGED <<made, handled, freed, rmmod>>
      BY <1>10, <2>2 DEF first_timer_due, Running
    <3> HIDE DEF t
    <3>3. task_q' \in Seq(Task) /\ queued' \in Seq(Nat) /\ task_end' # NULL /\ task_q' # <<>>
      BY <3>1, <3>2, PushTask DEF TInv, Queues, Tailed
    <3>4. timer_queue' \in Seq(Task)
      BY <2>2, <3>2 DEF TInv, Queues
    <3>5. Queues' /\ Tailed'
      BY <3>2, <3>3, <3>4 DEF TInv, Queues, Tailed
    <3>6. Clock' /\ Flags'
      BY <1>10 DEF first_timer_due, TInv, Clock, Flags
    <3>7. Contexts'
      BY <1>10, <2>2, <3>2 DEF first_timer_due, TInv, Queues, Contexts, InHand, TimerPcs
    <3>8. ArmHasTimer'
      BY <1>10, <2>2 DEF first_timer_due, Readers, TInv, Contexts, ArmHasTimer
    <3> QED BY <3>5, <3>6, <3>7, <3>8 DEF TInv
  <2> QED BY <2>1, <2>2
<1>11. CASE TimerKick
  <2>1. Queues' /\ Tailed' /\ Clock' /\ Flags'
    BY <1>11 DEF TimerKick, kick_cache, TInv, Queues, Tailed, Contexts, Clock, Flags, ArmHasTimer
  <2>2. Contexts' /\ ArmHasTimer'
    BY <1>11, ZenonT(60) DEF TimerKick, kick_cache, TInv, Queues, Tailed, Contexts, InHand, Clock, Flags, ArmHasTimer, ThreadPcs, HookPcs, TimerPcs, LoaderPcs
  <2> QED BY <2>1, <2>2 DEF TInv
<1>12. CASE TimerUpdate
  <2>1. CASE timer.pc = "arm" /\ update_arm(timer, "idle")
    <3>1. timer_queue # <<>>
      BY <2>1 DEF TInv, ArmHasTimer
    <3>2. expires' \in 0 .. MaxTime
      BY <2>1, <3>1, ArmInRange DEF update_arm
    <3>3. readded' \in BOOLEAN
      BY <2>1, Zenon DEF update_arm
    <3>4. Queues' /\ Tailed' /\ Clock' /\ Flags'
      <4>1. Queues' /\ Tailed'
        BY <1>12, <2>1, <3>2, <3>3 DEF TimerUpdate, update_arm, TInv, Queues, Tailed
      <4>2. Clock' /\ Flags'
        BY <1>12, <2>1, <3>2, <3>3 DEF TimerUpdate, update_arm, TInv, Off, Clock, Flags
      <4> QED BY <4>1, <4>2
    <3>5. Contexts' /\ ArmHasTimer'
      BY <1>12, <2>1 DEF TimerUpdate, update_arm, TInv, Queues, Tailed, Contexts, InHand, Clock, Flags, ArmHasTimer, ThreadPcs, HookPcs, TimerPcs, LoaderPcs
    <3> QED BY <3>4, <3>5 DEF TInv
  <2>2. CASE timer.pc = "update" /\ update_read(timer, "idle") /\ UNCHANGED readded
    <3>1. expires' \in {expires, Off}
      BY <2>2 DEF update_read
    <3>3. Queues' /\ Tailed' /\ Clock' /\ Flags'
      BY <1>12, <2>2, <3>1 DEF TimerUpdate, update_read, Off, TInv, Queues, Tailed, Contexts, Clock, Flags, ArmHasTimer
    <3>2. Contexts' /\ ArmHasTimer'
      BY <1>12, <2>2, ZenonT(60) DEF TimerUpdate, update_read, TInv, Queues, Tailed, Contexts, InHand, Clock, Flags, ArmHasTimer, ThreadPcs, HookPcs, TimerPcs, LoaderPcs
    <3> QED BY <3>2, <3>3 DEF TInv
  <2> QED BY <1>12, <2>1, <2>2 DEF TimerUpdate
<1>13. CASE ThreadStart
  <2>1. Queues' /\ Tailed' /\ Clock' /\ Flags'
    BY <1>13 DEF ThreadStart, TInv, Queues, Tailed, Contexts, Clock, Flags, ArmHasTimer
  <2>2. Contexts' /\ ArmHasTimer'
    BY <1>13 DEF ThreadStart, TInv, Queues, Tailed, Contexts, InHand, Clock, Flags, ArmHasTimer, ThreadPcs, HookPcs, TimerPcs, LoaderPcs
  <2> QED BY <2>1, <2>2 DEF TInv
<1>14. CASE CheckKill
  <2>1. Queues' /\ Tailed' /\ Clock' /\ Flags'
    BY <1>14 DEF CheckKill, TInv, Queues, Tailed, Contexts, Clock, Flags, ArmHasTimer
  <2>2. Contexts' /\ ArmHasTimer'
    BY <1>14, ZenonT(60) DEF CheckKill, TInv, Queues, Tailed, Contexts, InHand, Clock, Flags, ArmHasTimer, ThreadPcs, HookPcs, TimerPcs, LoaderPcs
  <2> QED BY <2>1, <2>2 DEF TInv
<1>15. CASE Sleep
  <2>1. Queues' /\ Tailed' /\ Clock' /\ Flags'
    BY <1>15 DEF Sleep, TInv, Queues, Tailed, Contexts, Clock, Flags, ArmHasTimer
  <2>2. Contexts' /\ ArmHasTimer'
    BY <1>15 DEF Sleep, TInv, Queues, Tailed, Contexts, InHand, Clock, Flags, ArmHasTimer, ThreadPcs, HookPcs, TimerPcs, LoaderPcs
  <2> QED BY <2>1, <2>2 DEF TInv
<1>16. CASE TakeTask
  <2>1. CASE task_end = NULL
    <3>1. Queues' /\ Tailed' /\ Clock' /\ Flags'
      BY <1>16, <2>1 DEF TakeTask, TInv, Queues, Tailed, Clock, Flags
    <3>2. Contexts' /\ ArmHasTimer'
      BY <1>16, <2>1 DEF TakeTask, TInv, Queues, Contexts, InHand, ArmHasTimer, ThreadPcs
    <3> QED BY <3>1, <3>2 DEF TInv
  <2>2. CASE get_task /\ handled' = Append(handled, thread'.task.id)
    <3>1. PICK i \in DOMAIN task_q :
            /\ thread' = [thread EXCEPT !.pc = "handle", !.task = task_q[i]]
            /\ IF i = 1 THEN task_q' = <<>> /\ task_end' = NULL
                        ELSE task_end' = task_q[i - 1].id /\ UNCHANGED task_q
      BY <2>2 DEF get_task, TakeAt
    <3>2. /\ made \in Nat /\ i \in 1 .. Len(task_q) /\ Len(task_q) \in Nat /\ task_q \in Seq(Task)
          /\ \A j \in DOMAIN task_q : task_q[j] \in Task /\ task_q[j].id \in Nat /\ task_q[j].id # NULL
      <4>1. made \in Nat /\ i \in 1 .. Len(task_q) /\ Len(task_q) \in Nat /\ task_q \in Seq(Task)
        BY DEF TInv, Queues
      <4>2. \A u \in Task : u.id \in Nat /\ u.id # NULL
        BY <4>1, TaskIds DEF Task
      <4> QED BY <4>1, <4>2
    <3>3. task_q' \in Seq(Task) /\ (task_end' = NULL <=> task_q' = <<>>)
      <4>1. CASE i = 1
        BY <4>1, <3>1
      <4>2. CASE i # 1
        <5>1. i - 1 \in DOMAIN task_q /\ task_q # <<>>
          BY <4>2, <3>2
        <5> QED BY <5>1, <4>2, <3>1, <3>2
      <4> QED BY <4>1, <4>2
    <3>4. thread'.pc = "handle" /\ thread'.task = task_q[i]
      BY <3>1 DEF TInv, Contexts
    <3>5. thread.pc = "get" /\ UNCHANGED <<now, timer_queue, expires, kill_thread, hook, timer, rmmod, made, queued, freed, readded>>
      BY <1>16 DEF TakeTask
    <3>6. handled' \in Seq(Nat)
      BY <2>2, <3>2, <3>4 DEF TInv, Queues
    <3>7. Queues'
      BY <3>2, <3>3, <3>5, <3>6 DEF TInv, Queues, Task
    <3>8. Tailed'
      BY <3>3 DEF Tailed
    <3>9. Clock' /\ Flags'
      BY <3>5 DEF TInv, Clock, Flags
    <3>10. Contexts'
      BY <3>1, <3>2, <3>4, <3>5 DEF TInv, Queues, Contexts, InHand, ThreadPcs
    <3>11. ArmHasTimer'
      BY <3>4, <3>5 DEF TInv, ArmHasTimer
    <3> QED BY <3>7, <3>8, <3>9, <3>10, <3>11 DEF TInv
  <2> QED BY <1>16, <2>1, <2>2 DEF TakeTask
<1>17. CASE Handle
  <2>f. freed' \in Seq(Nat) /\ UNCHANGED <<task_q, handled, queued>>
    BY <1>17, FreeTaskType DEF Handle, InHand
  <2>1. CASE UNCHANGED <<timer_queue, made>>
    <3>1. Queues' /\ Tailed' /\ Clock' /\ Flags'
      BY <1>17, <2>1, <2>f DEF Handle, TInv, Queues, Tailed, Clock, Flags, Task
    <3>2. Contexts' /\ ArmHasTimer'
      BY <1>17, <2>1 DEF Handle, TInv, Queues, Contexts, InHand, ArmHasTimer, ThreadPcs
    <3> QED BY <3>1, <3>2 DEF TInv
  <2>2. CASE made' = made + 1
    <3> DEFINE new == Sets(thread.task.kind)
               t == [id |-> made + 1, kind |-> new, time |-> now + Delay[new]]
    <3>1. t \in Task'
      <4>1. made \in Nat /\ new \in {"oneshot", "TASK_CLEAN_UP"} /\ now \in 0 .. MaxTime
        BY <1>17, <2>2 DEF Handle, Sets, TInv, Queues, Clock
      <4>2. now + Delay[new] <= MaxTime
        BY <1>17, <2>2, <4>1 DEF Handle
      <4> HIDE DEF new
      <4>3. new \in Kinds /\ now + Delay[new] \in 0 .. MaxTime
        BY <4>1, <4>2 DEF Kinds
      <4> QED BY <2>2, <4>1, <4>3, NewTask
    <3>2. queue_timer(t)
      BY <1>17, <2>2 DEF Handle, TInv, Queues
    <3>3. task_q \in Seq(Task') /\ timer_queue \in Seq(Task') /\ made' \in Nat
      BY <2>2, SeqOfSubset DEF TInv, Queues
    <3> HIDE DEF t
    <3>4. timer_queue' \in Seq(Task') /\ Len(timer_queue') = Len(timer_queue) + 1
      BY <3>1, <3>2, <3>3, QueueTimer
    <3>5. Queues'
      BY <2>2, <2>f, <3>2, <3>3, <3>4 DEF TInv, Queues
    <3>6. Tailed' /\ Clock' /\ Flags'
      BY <1>17 DEF Handle, TInv, Tailed, Clock, Flags
    <3>7. Contexts'
      BY <1>17, <2>2 DEF Handle, TInv, Queues, Contexts, InHand, ThreadPcs
    <3>8. ArmHasTimer'
      BY <3>3, <3>4 DEF ArmHasTimer
    <3> QED BY <3>5, <3>6, <3>7, <3>8 DEF TInv
  <2> QED BY <1>17, <2>1, <2>2 DEF Handle
<1>18. CASE delete_timer
  <2>1. PICK k \in DOMAIN timer_queue :
          timer_queue' = [j \in 1 .. Len(timer_queue) - 1 |-> timer_queue[IF j < k THEN j ELSE j + 1]]
    BY <1>18 DEF delete_timer
  <2>2. timer_queue' \in Seq(Task)
    BY <2>1, RemoveSeq DEF TInv, Queues
  <2>3. Queues' /\ Tailed' /\ Clock' /\ Flags'
    BY <1>18, <2>2 DEF delete_timer, TInv, Queues, Tailed, Clock, Flags
  <2>4. Contexts'
    BY <1>18 DEF delete_timer, TInv, Queues, Contexts, InHand, ThreadPcs, Task
  <2>5. ArmHasTimer'
    BY <1>18 DEF delete_timer, Readers, TInv, Contexts, ArmHasTimer
  <2> QED BY <2>3, <2>4, <2>5 DEF TInv
<1>19. CASE ThreadUpdate
  <2>h. InHand
    BY <1>19 DEF ThreadUpdate, NoneDeleted, InHand
  <2>f. freed' \in Seq(Nat) /\ UNCHANGED <<task_q, task_end, timer_queue, handled, queued, made, rmmod>>
    BY <1>19, <2>h, FreeTaskType DEF ThreadUpdate
  <2>g. Queues' /\ Tailed'
    BY <2>f DEF TInv, Queues, Tailed, Task
  <2>1. CASE thread.pc = "arm" /\ update_arm(thread, "get")
    <3>1. timer_queue # <<>>
      BY <2>1 DEF TInv, ArmHasTimer
    <3>2. expires' \in 0 .. MaxTime
      BY <2>1, <3>1, ArmInRange DEF update_arm
    <3>3. readded' \in BOOLEAN
      BY <2>1, Zenon DEF update_arm
    <3>4. Clock' /\ Flags'
      BY <1>19, <2>1, <3>2, <3>3 DEF ThreadUpdate, update_arm, TInv, Off, Clock, Flags
    <3>5. Contexts' /\ ArmHasTimer'
      BY <1>19, <2>1 DEF ThreadUpdate, update_arm, TInv, Queues, Contexts, InHand, ArmHasTimer, ThreadPcs, HookPcs, TimerPcs, LoaderPcs
    <3> QED BY <2>g, <3>4, <3>5 DEF TInv
  <2>2. CASE update_read(thread, "get") /\ UNCHANGED readded
    <3>1. expires' \in {expires, Off}
      BY <2>2 DEF update_read
    <3>3. Clock' /\ Flags'
      BY <1>19, <2>2, <3>1 DEF ThreadUpdate, Off, TInv, Clock, Flags
    <3>2. Contexts' /\ ArmHasTimer'
      <4>1. UNCHANGED <<timer_queue, hook, timer, rmmod, made>>
        BY <1>19 DEF ThreadUpdate
      <4>2. CASE timer_queue = <<>> /\ thread' = [thread EXCEPT !.pc = "get"]
        BY <2>h, <4>1, <4>2 DEF TInv, Contexts, InHand, ArmHasTimer, ThreadPcs, Task
      <4>3. CASE timer_queue # <<>> /\ thread' = [thread EXCEPT !.pc = "arm", !.pending = (expires # Off)]
        BY <2>h, <4>1, <4>3 DEF TInv, Contexts, InHand, ArmHasTimer, ThreadPcs, Task
      <4> QED BY <2>2, <4>2, <4>3, Zenon DEF update_read
    <3> QED BY <2>g, <3>2, <3>3 DEF TInv
  <2> QED BY <1>19, <2>1, <2>2 DEF ThreadUpdate
<1>20. CASE UnregisterHook
  <2>1. Queues' /\ Tailed' /\ Clock' /\ Flags'
    BY <1>20 DEF UnregisterHook, LoaderStep, TInv, Queues, Tailed, Contexts, Clock, Flags, ArmHasTimer
  <2>2. Contexts' /\ ArmHasTimer'
    BY <1>20 DEF UnregisterHook, LoaderStep, TInv, Queues, Tailed, Contexts, InHand, Clock, Flags, ArmHasTimer, ThreadPcs, HookPcs, TimerPcs, LoaderPcs
  <2> QED BY <2>1, <2>2 DEF TInv
<1>21. CASE DelTimer
  <2>1. Queues' /\ Tailed' /\ Clock' /\ Flags'
    BY <1>21 DEF DelTimer, LoaderStep, Off, TInv, Queues, Tailed, Contexts, Clock, Flags, ArmHasTimer
  <2>2. Contexts' /\ ArmHasTimer'
    BY <1>21 DEF DelTimer, LoaderStep, Off, TInv, Queues, Tailed, Contexts, InHand, Clock, Flags, ArmHasTimer, ThreadPcs, HookPcs, TimerPcs, LoaderPcs
  <2> QED BY <2>1, <2>2 DEF TInv
<1>22. CASE kill_cache
  <2>1. Queues' /\ Tailed' /\ Clock' /\ Flags'
    BY <1>22 DEF kill_cache, LoaderStep, kick_cache, TInv, Queues, Tailed, Contexts, Clock, Flags, ArmHasTimer
  <2>2. Contexts' /\ ArmHasTimer'
    BY <1>22 DEF kill_cache, LoaderStep, kick_cache, TInv, Queues, Tailed, Contexts, InHand, Clock, Flags, ArmHasTimer, ThreadPcs, HookPcs, TimerPcs, LoaderPcs
  <2> QED BY <2>1, <2>2 DEF TInv
<1>23. CASE cleanup_task_queue
  <2>1. \A k \in DOMAIN task_q : task_q[k].id \in Nat
    <3>1. made \in Nat /\ \A k \in DOMAIN task_q : task_q[k] \in Task
      BY DEF TInv, Queues
    <3> QED BY <3>1, TaskIds DEF Task
  <2>2. [k \in DOMAIN task_q |-> task_q[k].id] \in Seq(Nat)
    <3>1. Len(task_q) \in Nat /\ DOMAIN task_q = 1 .. Len(task_q)
      BY DEF TInv, Queues
    <3> QED BY <2>1, <3>1
  <2>3. freed' \in Seq(Nat)
    BY <1>23, <2>2, ConcatProperties DEF cleanup_task_queue, TInv, Queues
  <2>4. Queues' /\ Tailed' /\ Clock' /\ Flags'
    BY <1>23, <2>3 DEF cleanup_task_queue, LoaderStep, TInv, Queues, Tailed, Contexts, Clock, Flags, Task
  <2>5. Contexts' /\ ArmHasTimer'
    BY <1>23 DEF cleanup_task_queue, LoaderStep, TInv, Queues, Contexts, InHand, ArmHasTimer, ThreadPcs, HookPcs, TimerPcs, LoaderPcs
  <2> QED BY <2>4, <2>5 DEF TInv
<1>24. CASE Tick
  <2>1. Queues' /\ Tailed' /\ Clock' /\ Flags'
    BY <1>24 DEF Tick, TInv, Queues, Tailed, Contexts, Clock, Flags, ArmHasTimer
  <2>2. Contexts' /\ ArmHasTimer'
    BY <1>24 DEF Tick, TInv, Queues, Tailed, Contexts, InHand, Clock, Flags, ArmHasTimer, ThreadPcs, HookPcs, TimerPcs, LoaderPcs
  <2> QED BY <2>1, <2>2 DEF TInv
<1>25. CASE UNCHANGED vars
  BY <1>25 DEF vars, TInv, Queues, Tailed, Contexts, InHand, Clock, Flags, ArmHasTimer
<1> QED BY <1>1, <1>2, <1>3, <1>4, <1>5, <1>6, <1>7, <1>8, <1>9, <1>10, <1>11, <1>12, <1>13, <1>14, <1>15, <1>16, <1>17, <1>18, <1>19, <1>20, <1>21, <1>22, <1>23, <1>24, <1>25 DEF Next, InsmodStep, HookStep, TimerStep, ThreadStep, RmmodStep

\* So they always hold.
LEMMA TypeInvariant == Spec => []TInv
<1>1. Init => TInv
  <2>1. Init => Queues
    BY DEF Init, Queues
  <2>2. Init => Tailed /\ Clock /\ Contexts /\ ArmHasTimer
    BY WorkLoopAssumption DEF Init, Tailed, Clock, Contexts, InHand, ArmHasTimer, Off, ThreadPcs, HookPcs, TimerPcs, LoaderPcs
  <2>3. Init => Flags
    BY Zenon DEF Init, Flags
  <2> QED BY <2>1, <2>2, <2>3 DEF TInv
<1> QED BY <1>1, TypeStep, PTL DEF Spec

\* Every variable has its type, the tail pointer is the last task of the list
\* until the module is gone, and no timer is later than the bound.
THEOREM TypeCorrect == Spec => []TypeOK
<1>1. TInv => TypeOK
  BY DEF TInv, TypeOK, Queues, Tailed, Contexts, InHand, Clock, Flags, ThreadPcs, HookPcs, TimerPcs, LoaderPcs
<1> QED BY <1>1, TypeInvariant, PTL

(***************************************************************************)
(* What a step may do to the two queues.  Everything the properties say of *)
(* them follows from these seven moves.                                    *)
(***************************************************************************)

Kept     == UNCHANGED <<task_q, task_end, timer_queue, handled, queued, made>>
NewTimer == \E t \in Task' : /\ t.id = made + 1 /\ made' = made + 1 /\ queue_timer(t)
                             /\ UNCHANGED <<task_q, task_end, handled, queued>>
NewWork  == \E t \in Task' : /\ t.id = made + 1 /\ made' = made + 1 /\ queue_task(t)
                             /\ UNCHANGED <<timer_queue, handled>>
Due      == /\ timer_queue # <<>> /\ queue_task(timer_queue[1]) /\ timer_queue' = Tail(timer_queue)
            /\ UNCHANGED <<handled, made>>
Deleted  == /\ \E k \in DOMAIN timer_queue :
                 timer_queue' = [j \in 1 .. Len(timer_queue) - 1 |-> timer_queue[IF j < k THEN j ELSE j + 1]]
            /\ UNCHANGED <<task_q, task_end, handled, queued, made>>
Taken    == /\ \E i \in DOMAIN task_q : /\ task_q[i].id = task_end
                                        /\ IF i = 1 THEN task_q' = <<>> /\ task_end' = NULL
                                                    ELSE task_end' = task_q[i - 1].id /\ UNCHANGED task_q
                                        /\ handled' = Append(handled, task_q[i].id)
            /\ UNCHANGED <<timer_queue, queued, made>>
Freed    == task_q' = <<>> /\ rmmod'.pc = "gone" /\ UNCHANGED <<timer_queue, queued, made>>

\* The seven things a step may do with the queues.
LEMMA QueueMoves ==
    ASSUME TInv, [Next]_vars
    PROVE  Kept \/ NewTimer \/ NewWork \/ Due \/ Deleted \/ Taken \/ Freed
<1> USE WorkLoopAssumption
<1>t. made \in Nat /\ now \in 0 .. MaxTime
  BY DEF TInv, Queues, Clock
<1>1. CASE startup_cache
  BY <1>1 DEF startup_cache, Kept
<1>2. CASE RegisterHook
  BY <1>2 DEF RegisterHook, Kept
<1>3. CASE FirstTimer
  <2>1. now + Delay["TASK_CLEAN_UP"] \in 0 .. MaxTime /\ made' = made + 1 /\ UNCHANGED <<task_q, task_end, handled, queued>>
    BY <1>3, <1>t DEF FirstTimer, LoaderStep, TInv, Clock
  <2>2. [id |-> made + 1, kind |-> "TASK_CLEAN_UP", time |-> now + Delay["TASK_CLEAN_UP"]] \in Task'
    BY <1>t, <2>1, NewTask DEF Kinds
  <2> QED BY <1>3, <2>1, <2>2 DEF FirstTimer, NewTimer
<1>4. CASE InsmodUpdate
  BY <1>4 DEF InsmodUpdate, Kept
<1>5. CASE insert_task
  <2>1. made' = made + 1
    BY <1>5 DEF insert_task, HookBegins
  <2>2. [id |-> made + 1, kind |-> "packet", time |-> now] \in Task'
    BY <1>t, <2>1, NewTask DEF Kinds
  <2> QED BY <1>5, <2>1, <2>2 DEF insert_task, NewWork
<1>6. CASE HookKick
  BY <1>6 DEF HookKick, Kept
<1>7. CASE insert_rreq_timer
  <2>1. now + Delay["oneshot"] \in 0 .. MaxTime /\ made' = made + 1 /\ UNCHANGED <<task_q, task_end, handled, queued>>
    BY <1>7, <1>t DEF insert_rreq_timer, HookBegins
  <2>2. [id |-> made + 1, kind |-> "oneshot", time |-> now + Delay["oneshot"]] \in Task'
    BY <1>t, <2>1, NewTask DEF Kinds
  <2> QED BY <1>7, <2>1, <2>2 DEF insert_rreq_timer, NewTimer
<1>8. CASE HookUpdate
  BY <1>8 DEF HookUpdate, Kept
<1>9. CASE TimerExpires
  BY <1>9 DEF TimerExpires, Kept
<1>10. CASE first_timer_due
  BY <1>10 DEF first_timer_due, Due, Kept
<1>11. CASE TimerKick
  BY <1>11 DEF TimerKick, Kept
<1>12. CASE TimerUpdate
  BY <1>12 DEF TimerUpdate, Kept
<1>13. CASE ThreadStart
  BY <1>13 DEF ThreadStart, Kept
<1>14. CASE CheckKill
  BY <1>14 DEF CheckKill, Kept
<1>15. CASE Sleep
  BY <1>15 DEF Sleep, Kept
<1>16. CASE TakeTask
  <2>1. CASE task_end = NULL
    BY <1>16, <2>1 DEF TakeTask, Kept
  <2>2. CASE get_task /\ handled' = Append(handled, thread'.task.id)
    <3>1. PICK i \in DOMAIN task_q :
            /\ task_q[i].id = task_end
            /\ thread' = [thread EXCEPT !.pc = "handle", !.task = task_q[i]]
            /\ IF i = 1 THEN task_q' = <<>> /\ task_end' = NULL
                        ELSE task_end' = task_q[i - 1].id /\ UNCHANGED task_q
      BY <2>2 DEF get_task, TakeAt
    <3>2. thread'.task = task_q[i]
      BY <3>1 DEF TInv, Contexts
    <3> QED BY <1>16, <2>2, <3>1, <3>2 DEF TakeTask, Taken
  <2> QED BY <1>16, <2>1, <2>2 DEF TakeTask
<1>17. CASE Handle
  <2>1. CASE UNCHANGED <<timer_queue, made>>
    BY <1>17, <2>1 DEF Handle, Kept
  <2>2. CASE made' = made + 1
    <3> DEFINE new == Sets(thread.task.kind)
    <3>1. new \in {"oneshot", "TASK_CLEAN_UP"} /\ new \in Kinds /\ now + Delay[new] \in Nat
      BY <1>t DEF Sets, Kinds
    <3>2. now + Delay[new] <= MaxTime /\ UNCHANGED <<task_q, task_end, handled, queued>>
          /\ queue_timer([id |-> made + 1, kind |-> new, time |-> now + Delay[new]])
      BY <1>17, <2>2, <1>t DEF Handle
    <3> HIDE DEF new
    <3>3. [id |-> made + 1, kind |-> new, time |-> now + Delay[new]] \in Task'
      BY <1>t, <2>2, <3>1, <3>2, NewTask
    <3> QED BY <2>2, <3>2, <3>3 DEF NewTimer
  <2> QED BY <1>17, <2>1, <2>2 DEF Handle
<1>18. CASE delete_timer
  BY <1>18 DEF delete_timer, Deleted
<1>19. CASE ThreadUpdate
  BY <1>19 DEF ThreadUpdate, Kept
<1>20. CASE UnregisterHook
  BY <1>20 DEF UnregisterHook, Kept
<1>21. CASE DelTimer
  BY <1>21 DEF DelTimer, Kept
<1>22. CASE kill_cache
  BY <1>22 DEF kill_cache, Kept
<1>23. CASE cleanup_task_queue
  BY <1>23 DEF cleanup_task_queue, LoaderStep, Freed, TInv, Contexts
<1>24. CASE Tick
  BY <1>24 DEF Tick, Kept
<1>25. CASE UNCHANGED vars
  BY <1>25 DEF vars, Kept
<1> QED BY <1>1, <1>2, <1>3, <1>4, <1>5, <1>6, <1>7, <1>8, <1>9, <1>10, <1>11, <1>12, <1>13, <1>14, <1>15, <1>16, <1>17, <1>18, <1>19, <1>20, <1>21, <1>22, <1>23, <1>24, <1>25 DEF Next, InsmodStep, HookStep, TimerStep, ThreadStep, RmmodStep

(***************************************************************************)
(* The timer queue stays sorted.                                           *)
(***************************************************************************)

\* queue_timer puts a timer before the first later one.
LEMMA SortedStep ==
    ASSUME TInv, Sorted, [Next]_vars
    PROVE  Sorted'
<1>1. CASE NewTimer
  <2>1. PICK t \in Task' : queue_timer(t) /\ made' = made + 1
    BY <1>1 DEF NewTimer
  <2>2. made \in Nat /\ timer_queue \in Seq(Task')
    BY <2>1, TaskGrows, SeqOfSubset DEF TInv, Queues
  <2>3. /\ timer_queue' \in Seq(Task') /\ Len(timer_queue') = Len(timer_queue) + 1
        /\ \E k \in 1 .. Len(timer_queue) + 1 :
             /\ \A j \in 1 .. k - 1 : timer_queue'[j] = timer_queue[j] /\ timer_queue[j].time < t.time
             /\ timer_queue'[k] = t
             /\ \A j \in k + 1 .. Len(timer_queue) + 1 : timer_queue'[j] = timer_queue[j - 1]
             /\ k <= Len(timer_queue) => timer_queue[k].time >= t.time
    BY <2>1, <2>2, QueueTimer
  <2> DEFINE q == timer_queue
             r == timer_queue'
             n == Len(q)
  <2>4. /\ n \in Nat /\ t.time \in Nat /\ DOMAIN r = 1 .. n + 1
        /\ \A j \in 1 .. n : q[j].time \in Nat
        /\ \A i, j \in 1 .. n : i < j => q[i].time <= q[j].time
    <3>1. \A u \in Task' : u.time \in Nat
      BY WorkLoopAssumption DEF Task
    <3>2. \A j \in 1 .. Len(timer_queue) : timer_queue[j] \in Task'
      BY <2>2
    <3>3. DOMAIN timer_queue = 1 .. Len(timer_queue)
      BY <2>2
    <3>4. DOMAIN timer_queue' = 1 .. Len(timer_queue) + 1 /\ Len(timer_queue) \in Nat
      BY <2>2, <2>3
    <3>5. \A i, j \in 1 .. Len(timer_queue) : i < j => timer_queue[i].time <= timer_queue[j].time
      BY <3>3 DEF Sorted
    <3> QED BY <3>1, <3>2, <3>4, <3>5
  <2>5. PICK k \in 1 .. n + 1 :
          /\ \A j \in 1 .. k - 1 : r[j] = q[j] /\ q[j].time < t.time
          /\ r[k] = t
          /\ \A j \in k + 1 .. n + 1 : r[j] = q[j - 1]
          /\ k <= n => q[k].time >= t.time
    BY <2>3
  <2> HIDE DEF q, r, n
  <2>6. \A i, j \in 1 .. n + 1 : i < j => r[i].time <= r[j].time
    <3> SUFFICES ASSUME NEW i \in 1 .. n + 1, NEW j \in 1 .. n + 1, i < j
                 PROVE  r[i].time <= r[j].time
      OBVIOUS
    <3>1. CASE j < k
      BY <3>1, <2>4, <2>5
    <3>2. CASE j = k
      BY <3>2, <2>4, <2>5
    <3>3. CASE j > k /\ i < k
      <4>1. r[i] = q[i] /\ r[j] = q[j - 1] /\ i \in 1 .. n /\ j - 1 \in 1 .. n /\ (i < j - 1 \/ i = j - 1)
        BY <3>3, <2>4, <2>5
      <4> QED BY <4>1, <2>4
    <3>4. CASE j > k /\ i = k
      <4>1. k \in 1 .. n /\ k <= n /\ j \in k + 1 .. n + 1 /\ j - 1 \in 1 .. n /\ (k < j - 1 \/ k = j - 1)
        BY <3>4, <2>4
      <4>2. r[i] = t /\ r[j] = q[j - 1] /\ q[k].time >= t.time
        BY <3>4, <4>1, <2>5
      <4>3. q[k].time \in Nat /\ q[j - 1].time \in Nat
        BY <4>1, <2>4
      <4>4. q[k].time <= q[j - 1].time
        BY <4>1, <4>3, <2>4
      <4> QED BY <4>2, <4>3, <4>4, <2>4
    <3>5. CASE j > k /\ i > k
      <4>1. r[i] = q[i - 1] /\ r[j] = q[j - 1] /\ i - 1 \in 1 .. n /\ j - 1 \in 1 .. n /\ i - 1 < j - 1
        BY <3>5, <2>4, <2>5
      <4> QED BY <4>1, <2>4
    <3> QED BY <3>1, <3>2, <3>3, <3>4, <3>5, <2>4
  <2> QED BY <2>4, <2>6 DEF Sorted, q, r, n
<1>2. CASE Due
  <2>1. /\ DOMAIN timer_queue = 1 .. Len(timer_queue) /\ DOMAIN timer_queue' = 1 .. Len(timer_queue) - 1
        /\ \A i \in 1 .. Len(timer_queue) - 1 : i + 1 \in DOMAIN timer_queue /\ timer_queue'[i] = timer_queue[i + 1]
    BY <1>2 DEF Due, TInv, Queues
  <2> SUFFICES ASSUME NEW i \in DOMAIN timer_queue', NEW j \in DOMAIN timer_queue', i < j
               PROVE  timer_queue'[i].time <= timer_queue'[j].time
    BY DEF Sorted
  <2>2. Len(timer_queue) \in Nat /\ i + 1 < j + 1 /\ i + 1 \in DOMAIN timer_queue /\ j + 1 \in DOMAIN timer_queue
    BY <2>1 DEF TInv, Queues
  <2>3. timer_queue[i + 1].time <= timer_queue[j + 1].time
    BY <2>2 DEF Sorted
  <2> QED BY <2>1, <2>3
<1>3. CASE Deleted
  <2>1. PICK k \in DOMAIN timer_queue :
          timer_queue' = [j \in 1 .. Len(timer_queue) - 1 |-> timer_queue[IF j < k THEN j ELSE j + 1]]
    BY <1>3 DEF Deleted
  <2>2. Len(timer_queue) \in Nat /\ DOMAIN timer_queue = 1 .. Len(timer_queue) /\ DOMAIN timer_queue' = 1 .. Len(timer_queue) - 1
    BY <2>1 DEF TInv, Queues
  <2> SUFFICES ASSUME NEW i \in DOMAIN timer_queue', NEW j \in DOMAIN timer_queue', i < j
               PROVE  timer_queue'[i].time <= timer_queue'[j].time
    BY DEF Sorted
  <2> DEFINE f(x) == IF x < k THEN x ELSE x + 1
  <2>3. f(i) \in DOMAIN timer_queue /\ f(j) \in DOMAIN timer_queue /\ f(i) < f(j)
    BY <2>2
  <2>4. timer_queue'[i] = timer_queue[f(i)] /\ timer_queue'[j] = timer_queue[f(j)]
    BY <2>1, <2>2
  <2> QED BY <2>3, <2>4 DEF Sorted
<1>4. CASE UNCHANGED timer_queue
  BY <1>4 DEF Sorted
<1> QED BY <1>1, <1>2, <1>3, <1>4, QueueMoves DEF Kept, NewWork, Taken, Freed

(***************************************************************************)
(* The kernel timer is set.                                                *)
(***************************************************************************)

\* Nobody is on the way to setting the kernel timer, and del_timer is not done.
Quiet == /\ rmmod.pc \notin {"untimed", "waiting", "gone"}
         /\ timer.pc = "idle" /\ \A c \in {thread, hook, rmmod} : c.pc \notin {"update", "arm"}

\* What update_timer_queue sets is no later than any entry, or overdue.
LEMMA ArmFirst ==
    ASSUME TInv, Sorted, timer_queue # <<>>, now' = now, timer_queue' = timer_queue,
           expires' = IF timer_queue[1].time < now THEN now ELSE timer_queue[1].time
    PROVE  Armed'
<1>1. /\ DOMAIN timer_queue = 1 .. Len(timer_queue) /\ Len(timer_queue) \in Nat \ {0}
      /\ \A k \in DOMAIN timer_queue : timer_queue[k].time \in Nat
  <2>1. timer_queue \in Seq(Task)
    BY DEF TInv, Queues
  <2>2. \A u \in Task : u.time \in Nat
    BY WorkLoopAssumption DEF Task
  <2> QED BY <2>1, <2>2
<1>2. \A k \in DOMAIN timer_queue : timer_queue[1].time <= timer_queue[k].time
  <2> SUFFICES ASSUME NEW k \in DOMAIN timer_queue PROVE timer_queue[1].time <= timer_queue[k].time
    OBVIOUS
  <2>1. CASE k = 1
    BY <2>1, <1>1
  <2>2. CASE k # 1
    BY <2>2, <1>1 DEF Sorted
  <2> QED BY <2>1, <2>2
<1>3. now \in Nat
  BY WorkLoopAssumption DEF TInv, Clock
<1>4. ASSUME NEW k \in DOMAIN timer_queue'
      PROVE  expires' # Off /\ (expires' <= timer_queue'[k].time \/ expires' <= now')
  BY <1>1, <1>2, <1>3 DEF Off
<1> QED BY <1>4 DEF Armed

\* Every step keeps the timer set for what is first in the list.
LEMMA ArmedStep ==
    ASSUME TInv, Sorted, Armed, [Next]_vars
    PROVE  Armed'
<1> USE WorkLoopAssumption
<1>a. Armed' <=> (Quiet' => \A k \in DOMAIN timer_queue' :
                     expires' # Off /\ (expires' <= timer_queue'[k].time \/ expires' <= now'))
  BY DEF Armed, Quiet
<1>k. ASSUME Quiet' => Quiet, UNCHANGED <<timer_queue, expires, now>>
      PROVE  Armed'
  BY <1>k, <1>a DEF Armed, Quiet
<1>1. CASE startup_cache
  <2>1. Quiet' => Quiet
    BY <1>1 DEF startup_cache, LoaderStep, Quiet, TInv, Contexts
  <2> QED BY <1>1, <2>1, <1>k DEF startup_cache, LoaderStep
<1>2. CASE RegisterHook
  <2>1. Quiet' => Quiet
    BY <1>2 DEF RegisterHook, LoaderStep, Quiet, TInv, Contexts
  <2> QED BY <1>2, <2>1, <1>k DEF RegisterHook, LoaderStep
<1>3. CASE FirstTimer
  <2>1. rmmod'.pc = "update"
    BY <1>3 DEF FirstTimer, LoaderStep, TInv, Contexts
  <2> QED BY <2>1, <1>a DEF Quiet
<1>4. CASE InsmodUpdate
  <2>1. CASE rmmod.pc = "arm" /\ update_arm(rmmod, "loaded")
    <3>1. timer_queue # <<>>
      BY <2>1 DEF TInv, ArmHasTimer
    <3> QED BY <1>4, <2>1, <3>1, ArmFirst DEF InsmodUpdate, update_arm
  <2>2. CASE rmmod.pc = "update" /\ update_read(rmmod, "loaded") /\ timer_queue = <<>>
    BY <1>4, <2>2 DEF InsmodUpdate, Armed
  <2>3. CASE rmmod.pc = "update" /\ update_read(rmmod, "loaded") /\ timer_queue # <<>>
    <3>1. rmmod'.pc = "arm"
      BY <2>3 DEF update_read, TInv, Contexts
    <3> QED BY <3>1, <1>a DEF Quiet
  <2> QED BY <1>4, <2>1, <2>2, <2>3 DEF InsmodUpdate
<1>5. CASE insert_task
  <2>1. Quiet' => Quiet
    BY <1>5 DEF insert_task, HookBegins, Quiet, TInv, Contexts
  <2> QED BY <1>5, <2>1, <1>k DEF insert_task, HookBegins
<1>6. CASE HookKick
  <2>1. Quiet' => Quiet
    BY <1>6 DEF HookKick, kick_cache, Quiet, TInv, Contexts
  <2> QED BY <1>6, <2>1, <1>k DEF HookKick, kick_cache
<1>7. CASE insert_rreq_timer
  <2>1. hook'.pc = "update"
    BY <1>7 DEF insert_rreq_timer, TInv, Contexts
  <2> QED BY <2>1, <1>a DEF Quiet
<1>8. CASE HookUpdate
  <2>1. CASE hook.pc = "arm" /\ update_arm(hook, "idle")
    <3>1. timer_queue # <<>>
      BY <2>1 DEF TInv, ArmHasTimer
    <3> QED BY <1>8, <2>1, <3>1, ArmFirst DEF HookUpdate, update_arm
  <2>2. CASE hook.pc = "update" /\ update_read(hook, "idle") /\ timer_queue = <<>>
    BY <1>8, <2>2 DEF HookUpdate, Armed
  <2>3. CASE hook.pc = "update" /\ update_read(hook, "idle") /\ timer_queue # <<>>
    <3>1. hook'.pc = "arm"
      BY <2>3 DEF update_read, TInv, Contexts
    <3> QED BY <3>1, <1>a DEF Quiet
  <2> QED BY <1>8, <2>1, <2>2, <2>3 DEF HookUpdate
<1>9. CASE TimerExpires
  <2>1. timer'.pc = "due"
    BY <1>9 DEF TimerExpires, TInv, Contexts
  <2> QED BY <2>1, <1>a DEF Quiet
<1>10. CASE first_timer_due
  <2>1. timer'.pc \in {"kick", "update"}
    BY <1>10 DEF first_timer_due, TInv, Contexts
  <2> QED BY <2>1, <1>a DEF Quiet
<1>11. CASE TimerKick
  <2>1. Quiet' => Quiet
    BY <1>11 DEF TimerKick, kick_cache, Quiet, TInv, Contexts
  <2> QED BY <1>11, <2>1, <1>k DEF TimerKick, kick_cache
<1>12. CASE TimerUpdate
  <2>1. CASE timer.pc = "arm" /\ update_arm(timer, "idle")
    <3>1. timer_queue # <<>>
      BY <2>1 DEF TInv, ArmHasTimer
    <3> QED BY <1>12, <2>1, <3>1, ArmFirst DEF TimerUpdate, update_arm
  <2>2. CASE timer.pc = "update" /\ update_read(timer, "idle") /\ timer_queue = <<>>
    BY <1>12, <2>2 DEF TimerUpdate, Armed
  <2>3. CASE timer.pc = "update" /\ update_read(timer, "idle") /\ timer_queue # <<>>
    <3>1. timer'.pc = "arm"
      BY <2>3 DEF update_read, TInv, Contexts
    <3> QED BY <3>1, <1>a DEF Quiet
  <2> QED BY <1>12, <2>1, <2>2, <2>3 DEF TimerUpdate
<1>13. CASE ThreadStart
  <2>1. Quiet' => Quiet
    BY <1>13 DEF ThreadStart, Quiet, TInv, Contexts
  <2> QED BY <1>13, <2>1, <1>k DEF ThreadStart
<1>14. CASE CheckKill
  <2>1. Quiet' => Quiet
    BY <1>14 DEF CheckKill, Quiet, TInv, Contexts
  <2> QED BY <1>14, <2>1, <1>k DEF CheckKill
<1>15. CASE Sleep
  <2>1. Quiet' => Quiet
    BY <1>15 DEF Sleep, Quiet, TInv, Contexts
  <2> QED BY <1>15, <2>1, <1>k DEF Sleep
<1>16. CASE TakeTask
  <2>1. Quiet' => Quiet
    BY <1>16 DEF TakeTask, get_task, TakeAt, Quiet, TInv, Contexts
  <2> QED BY <1>16, <2>1, <1>k DEF TakeTask, get_task
<1>17. CASE Handle
  <2>1. CASE UNCHANGED <<timer_queue, made>>
    <3>1. Quiet' => Quiet
      BY <1>17, <2>1 DEF Handle, Quiet
    <3> QED BY <1>17, <2>1, <3>1, <1>k DEF Handle
  <2>2. CASE made' = made + 1
    <3>1. made' # made
      BY <2>2 DEF TInv, Queues
    <3>2. thread' = [thread EXCEPT !.pc = "update"]
      BY <1>17, <3>1 DEF Handle
    <3>3. thread'.pc = "update"
      BY <3>2 DEF TInv, Contexts
    <3> QED BY <3>3, <1>a DEF Quiet
  <2> QED BY <1>17, <2>1, <2>2 DEF Handle
<1>18. CASE delete_timer
  <2>1. Quiet' => Quiet
    BY <1>18 DEF delete_timer, Quiet, TInv, Contexts
  <2>2. PICK k \in DOMAIN timer_queue :
          timer_queue' = [j \in 1 .. Len(timer_queue) - 1 |-> timer_queue[IF j < k THEN j ELSE j + 1]]
    BY <1>18 DEF delete_timer
  <2>3. Len(timer_queue) \in Nat /\ DOMAIN timer_queue = 1 .. Len(timer_queue) /\ DOMAIN timer_queue' = 1 .. Len(timer_queue) - 1
    BY <2>2 DEF TInv, Queues
  <2>4. \A i \in DOMAIN timer_queue' : (IF i < k THEN i ELSE i + 1) \in DOMAIN timer_queue
    BY <2>3
  <2>5. \A i \in DOMAIN timer_queue' : timer_queue'[i] = timer_queue[IF i < k THEN i ELSE i + 1]
    BY <2>2, <2>3
  <2> QED BY <1>18, <1>a, <2>1, <2>4, <2>5 DEF delete_timer, Armed, Quiet
<1>19. CASE ThreadUpdate
  <2>1. CASE thread.pc = "arm" /\ update_arm(thread, "get")
    <3>1. timer_queue # <<>>
      BY <2>1 DEF TInv, ArmHasTimer
    <3> QED BY <1>19, <2>1, <3>1, ArmFirst DEF ThreadUpdate, update_arm
  <2>2. CASE update_read(thread, "get") /\ timer_queue = <<>>
    BY <1>19, <2>2 DEF ThreadUpdate, Armed
  <2>3. CASE update_read(thread, "get") /\ timer_queue # <<>>
    <3>1. thread'.pc = "arm"
      BY <2>3 DEF update_read, TInv, Contexts
    <3> QED BY <3>1, <1>a DEF Quiet
  <2> QED BY <1>19, <2>1, <2>2, <2>3 DEF ThreadUpdate
<1>20. CASE UnregisterHook
  <2>1. Quiet' => Quiet
    BY <1>20 DEF UnregisterHook, LoaderStep, Quiet, TInv, Contexts
  <2> QED BY <1>20, <2>1, <1>k DEF UnregisterHook, LoaderStep
<1>21. CASE DelTimer
  <2>1. rmmod'.pc = "untimed"
    BY <1>21 DEF DelTimer, LoaderStep, TInv, Contexts
  <2> QED BY <2>1, <1>a DEF Quiet
<1>22. CASE kill_cache
  <2>1. rmmod'.pc = "waiting"
    BY <1>22 DEF kill_cache, LoaderStep, kick_cache, TInv, Contexts
  <2> QED BY <2>1, <1>a DEF Quiet
<1>23. CASE cleanup_task_queue
  <2>1. rmmod'.pc = "gone"
    BY <1>23 DEF cleanup_task_queue, LoaderStep, TInv, Contexts
  <2> QED BY <2>1, <1>a DEF Quiet
<1>24. CASE Tick
  <2>1. Quiet' => Quiet
    BY <1>24 DEF Tick, Quiet
  <2>2. now \in Nat /\ now' = now + 1 /\ expires \in Int /\ UNCHANGED <<timer_queue, expires>>
    BY <1>24 DEF Tick, TInv, Clock, Off
  <2> QED BY <1>a, <2>1, <2>2 DEF Armed, Quiet
<1>25. CASE UNCHANGED vars
  BY <1>25 DEF vars, Armed
<1> QED BY <1>1, <1>2, <1>3, <1>4, <1>5, <1>6, <1>7, <1>8, <1>9, <1>10, <1>11, <1>12, <1>13, <1>14, <1>15, <1>16, <1>17, <1>18, <1>19, <1>20, <1>21, <1>22, <1>23, <1>24, <1>25 DEF Next, InsmodStep, HookStep, TimerStep, ThreadStep, RmmodStep

\* Whenever nobody is about to set the kernel timer it is set, and for no later
\* than the first entry: update_timer_queue forgets none, whatever the hook,
\* the thread, insmod and the timer itself do in between.
THEOREM TimerArmed == Spec => []Armed
<1>1. Init => Sorted /\ Armed
  BY DEF Init, Sorted, Armed
<1>2. TInv /\ Sorted /\ Armed /\ [Next]_vars => Sorted' /\ Armed'
  BY SortedStep, ArmedStep
<1> QED BY <1>1, <1>2, TypeInvariant, PTL DEF Spec

(***************************************************************************)
(* Tasks are handled once each, in the order they were queued.             *)
(***************************************************************************)

\* The two lists, as functions, and their ids.
LEMMA Lists ==
    ASSUME TInv
    PROVE  /\ made \in Nat /\ Len(task_q) \in Nat /\ DOMAIN task_q = 1 .. Len(task_q)
           /\ Len(timer_queue) \in Nat /\ DOMAIN timer_queue = 1 .. Len(timer_queue)
           /\ \A i \in DOMAIN task_q : task_q[i].id \in Nat /\ task_q[i].id # NULL
           /\ \A i \in DOMAIN timer_queue : timer_queue[i].id \in Nat /\ timer_queue[i].id <= made
<1>1. made \in Nat /\ task_q \in Seq(Task) /\ timer_queue \in Seq(Task)
  BY DEF TInv, Queues
<1>2. \A u \in Task : u.id \in Nat /\ u.id # NULL /\ u.id <= made
  BY <1>1, TaskIds DEF Task
<1> QED BY <1>1, <1>2

\* What has passed through them, as functions.
LEMMA Logs ==
    ASSUME TInv
    PROVE  /\ Len(queued) \in Nat /\ DOMAIN queued = 1 .. Len(queued)
           /\ Len(handled) \in Nat /\ DOMAIN handled = 1 .. Len(handled)
           /\ Len(freed) \in Nat /\ DOMAIN freed = 1 .. Len(freed)
           /\ \A i \in 1 .. Len(queued) : queued[i] \in Nat
BY DEF TInv, Queues

\* All of them as sequences.
LEMMA Seqs ==
    ASSUME TInv
    PROVE  /\ task_q \in Seq(Task) /\ timer_queue \in Seq(Task)
           /\ queued \in Seq(Nat) /\ handled \in Seq(Nat) /\ freed \in Seq(Nat)
BY DEF TInv, Queues

\* A task pushed on the list, place by place.
LEMMA Pushed ==
    ASSUME NEW S, NEW q \in Seq(S), NEW t
    PROVE  /\ Len(<<t>> \o q) = Len(q) + 1 /\ (<<t>> \o q)[1] = t
           /\ \A i \in 2 .. Len(q) + 1 : (<<t>> \o q)[i] = q[i - 1]
<1> DEFINE T == S \cup {t}
<1>1. q \in Seq(T) /\ <<t>> \in Seq(T) /\ Len(<<t>>) = 1
  BY SeqOfSubset
<1> HIDE DEF T
<1>2. /\ Len(<<t>> \o q) = 1 + Len(q)
      /\ \A i \in 1 .. 1 + Len(q) : (<<t>> \o q)[i] = IF i <= 1 THEN <<t>>[i] ELSE q[i - 1]
  BY <1>1, ConcatProperties
<1>3. Len(q) \in Nat
  OBVIOUS
<1> QED BY <1>2, <1>3

\* queue_task, place by place.
LEMMA QueueTask ==
    ASSUME TInv, NEW t, t.id \in Nat, queue_task(t)
    PROVE  /\ Len(task_q') = Len(task_q) + 1 /\ task_q'[1] = t
           /\ \A i \in 2 .. Len(task_q) + 1 : task_q'[i] = task_q[i - 1]
           /\ Len(queued') = Len(queued) + 1 /\ DOMAIN queued' = 1 .. Len(queued) + 1
           /\ queued'[Len(queued) + 1] = t.id
           /\ \A i \in 1 .. Len(queued) : queued'[i] = queued[i]
<1>1. task_q' = <<t>> \o task_q /\ queued' = Append(queued, t.id) /\ task_q \in Seq(Task) /\ queued \in Seq(Nat)
  BY Seqs DEF queue_task
<1>2. /\ Len(queued') = Len(queued) + 1 /\ DOMAIN queued' = 1 .. Len(queued) + 1
      /\ queued'[Len(queued) + 1] = t.id
      /\ \A i \in 1 .. Len(queued) : queued'[i] = queued[i]
  BY <1>1
<1> QED BY <1>1, <1>2, Pushed

\* A new task has a new number; a task that becomes due changes queues.
LEMMA OnceQueuedStep ==
    ASSUME TInv, OnceQueued, [Next]_vars
    PROVE  OnceQueued'
<1> DEFINE n == Len(queued)
           m == Len(timer_queue)
<1>n. n \in Nat /\ m \in Nat /\ made \in Nat /\ DOMAIN queued = 1 .. n /\ DOMAIN timer_queue = 1 .. m
  BY Lists, Logs
<1>q. \A i \in 1 .. n : queued[i] \in Nat /\ queued[i] <= made
  BY Logs DEF OnceQueued
<1>t. \A j \in 1 .. m : timer_queue[j].id \in Nat /\ timer_queue[j].id <= made
  BY Lists
<1>1. CASE NewTimer
  <2>1. PICK t \in Task' : t.id = made + 1 /\ queue_timer(t) /\ made' = made + 1 /\ UNCHANGED queued
    BY <1>1 DEF NewTimer
  <2>2. made \in Nat /\ timer_queue \in Seq(Task')
    BY <2>1, TaskGrows, SeqOfSubset DEF TInv, Queues
  <2>3. DOMAIN timer_queue' = 1 .. m + 1 /\
        \E k \in 1 .. m + 1 :
             /\ \A j \in 1 .. k - 1 : timer_queue'[j] = timer_queue[j]
             /\ timer_queue'[k] = t
             /\ \A j \in k + 1 .. m + 1 : timer_queue'[j] = timer_queue[j - 1]
    <3> DEFINE S == Task'
    <3>1. timer_queue \in Seq(S) /\ t \in S /\ queue_timer(t)
      BY <2>1, <2>2
    <3> HIDE DEF S
    <3>2. timer_queue' \in Seq(S) /\ Len(timer_queue') = m + 1
      BY <3>1, QueueTimer
    <3>3. DOMAIN timer_queue' = 1 .. m + 1
      BY <3>2
    <3>4. \E k \in 1 .. m + 1 :
             /\ \A j \in 1 .. k - 1 : timer_queue'[j] = timer_queue[j] /\ timer_queue[j].time < t.time
             /\ timer_queue'[k] = t
             /\ \A j \in k + 1 .. m + 1 : timer_queue'[j] = timer_queue[j - 1]
             /\ k <= m => timer_queue[k].time >= t.time
      BY <3>1, QueueTimer
    <3> QED BY <3>3, <3>4
  <2>4. PICK k \in 1 .. m + 1 :
             /\ \A j \in 1 .. k - 1 : timer_queue'[j] = timer_queue[j]
             /\ timer_queue'[k] = t
             /\ \A j \in k + 1 .. m + 1 : timer_queue'[j] = timer_queue[j - 1]
    BY <2>3
  <2> DEFINE f(j) == IF j < k THEN j ELSE j - 1
  <2>5. \A j \in 1 .. m + 1 : j # k => timer_queue'[j] = timer_queue[f(j)] /\ f(j) \in DOMAIN timer_queue
    BY <1>n, <2>4
  <2>6. \A i, j \in 1 .. m + 1 : i # k /\ j # k /\ f(i) = f(j) => i = j
    BY <1>n
  <2> HIDE DEF f
  <2>7. \A j \in 1 .. m + 1 : j # k => timer_queue'[j].id # t.id
    BY <1>n, <1>t, <2>1, <2>5
  <2>8. \A i, j \in DOMAIN timer_queue' : timer_queue'[i].id = timer_queue'[j].id => i = j
    BY <2>3, <2>4, <2>5, <2>6, <2>7 DEF OnceQueued
  <2>9. ASSUME NEW i \in DOMAIN queued, NEW j \in DOMAIN timer_queue'
        PROVE  queued[i] # timer_queue'[j].id
    <3>1. CASE j = k
      <4>1. queued[i] \in Nat /\ queued[i] <= made
        BY <1>n, <1>q
      <4> QED BY <3>1, <4>1, <2>1, <2>2, <2>4
    <3>2. CASE j # k
      BY <3>2, <2>3, <2>5 DEF OnceQueued
    <3> QED BY <3>1, <3>2
  <2>10. \A i \in DOMAIN queued' : queued'[i] <= made'
    <3>1. \A i \in DOMAIN queued : queued[i] \in Nat /\ queued[i] <= made
      BY <1>n, <1>q
    <3> QED BY <3>1, <2>1, <2>2
  <2> QED BY <2>1, <2>8, <2>9, <2>10 DEF OnceQueued
<1>2. CASE NewWork
  <2>1. PICK t \in Task' : t.id = made + 1 /\ queue_task(t) /\ made' = made + 1 /\ UNCHANGED timer_queue
    BY <1>2 DEF NewWork
  <2>2. t.id \in Nat /\ made \in Nat
    BY <1>n, <2>1
  <2>3. DOMAIN queued' = 1 .. n + 1 /\ queued'[n + 1] = t.id /\ \A i \in 1 .. n : queued'[i] = queued[i]
    BY <2>1, <2>2, QueueTask
  <2>4. \A i \in 1 .. n : queued[i] \in Nat /\ queued[i] <= made
    BY <1>q
  <2>5. \A i \in DOMAIN queued' : queued'[i] <= made'
    <3>1. \A i \in DOMAIN queued' : i = n + 1 \/ i \in 1 .. n
      BY <1>n, <2>3
    <3> HIDE DEF n
    <3> QED BY <2>1, <2>2, <2>3, <2>4, <3>1
  <2>6. \A i, j \in DOMAIN queued' : queued'[i] = queued'[j] => i = j
    <3>1. \A i, j \in 1 .. n : queued[i] = queued[j] => i = j
      BY <1>n DEF OnceQueued
    <3>2. \A i \in DOMAIN queued' : i = n + 1 \/ i \in 1 .. n
      BY <1>n, <2>3
    <3> HIDE DEF n
    <3> QED BY <3>1, <3>2, <2>1, <2>2, <2>3, <2>4
  <2>7. \A i \in DOMAIN queued', j \in DOMAIN timer_queue : queued'[i] # timer_queue[j].id
    <3>1. \A i \in 1 .. n, j \in DOMAIN timer_queue : queued[i] # timer_queue[j].id
      BY <1>n DEF OnceQueued
    <3>2. \A i \in DOMAIN queued' : i = n + 1 \/ i \in 1 .. n
      BY <1>n, <2>3
    <3>3. \A j \in DOMAIN timer_queue : timer_queue[j].id \in Nat /\ timer_queue[j].id <= made
      BY <1>n, <1>t
    <3> HIDE DEF n
    <3> QED BY <3>1, <3>2, <3>3, <2>1, <2>2, <2>3
  <2> QED BY <2>1, <2>5, <2>6, <2>7 DEF OnceQueued
<1>3. CASE Due
  <2> DEFINE t == timer_queue[1]
  <2>1. queue_task(t) /\ timer_queue' = Tail(timer_queue) /\ timer_queue # <<>> /\ made' = made
    BY <1>3 DEF Due
  <2>2. /\ 1 \in DOMAIN timer_queue /\ DOMAIN timer_queue' = 1 .. m - 1
        /\ \A j \in 1 .. m - 1 : j + 1 \in DOMAIN timer_queue /\ j + 1 # 1 /\ timer_queue'[j] = timer_queue[j + 1]
    BY <2>1 DEF TInv, Queues
  <2>3. t.id \in Nat /\ t.id <= made
    BY <1>n, <1>t, <2>2
  <2>4. \A i \in 1 .. n : queued[i] # t.id
    BY <1>n, <2>2 DEF OnceQueued
  <2>5. \A j \in 1 .. m - 1 : timer_queue'[j].id # t.id
    BY <2>2 DEF OnceQueued
  <2> HIDE DEF t
  <2>6. DOMAIN queued' = 1 .. n + 1 /\ queued'[n + 1] = t.id /\ \A i \in 1 .. n : queued'[i] = queued[i]
    BY <2>1, <2>3, QueueTask
  <2>7. \A i \in DOMAIN queued' : i = n + 1 \/ i \in 1 .. n
    BY <1>n, <2>6
  <2>8. \A i \in 1 .. n : queued[i] <= made
    BY <1>q
  <2>9. \A i, j \in 1 .. n : queued[i] = queued[j] => i = j
    BY <1>n DEF OnceQueued
  <2>10. \A i \in 1 .. n, j \in DOMAIN timer_queue : queued[i] # timer_queue[j].id
    BY <1>n DEF OnceQueued
  <2>11. ASSUME NEW i \in DOMAIN timer_queue', NEW j \in DOMAIN timer_queue', timer_queue'[i].id = timer_queue'[j].id PROVE i = j
    <3>1. i + 1 = j + 1
      BY <2>2, <2>11 DEF OnceQueued
    <3>2. i \in Nat /\ j \in Nat
      BY <1>n, <2>2
    <3> QED BY <3>1, <3>2
  <2> HIDE DEF n
  <2>12. \A i \in DOMAIN queued' : queued'[i] <= made'
    BY <2>1, <2>3, <2>6, <2>7, <2>8
  <2>13. \A i, j \in DOMAIN queued' : queued'[i] = queued'[j] => i = j
    BY <2>4, <2>6, <2>7, <2>9
  <2>14. \A i \in DOMAIN queued', j \in DOMAIN timer_queue' : queued'[i] # timer_queue'[j].id
    BY <2>2, <2>5, <2>6, <2>7, <2>10
  <2> QED BY <2>11, <2>12, <2>13, <2>14 DEF OnceQueued
<1>4. CASE Deleted
  <2>1. PICK k \in DOMAIN timer_queue :
          /\ timer_queue' = [j \in 1 .. m - 1 |-> timer_queue[IF j < k THEN j ELSE j + 1]]
          /\ UNCHANGED <<queued, made>>
    BY <1>4 DEF Deleted
  <2> DEFINE f(j) == IF j < k THEN j ELSE j + 1
  <2>2. DOMAIN timer_queue' = 1 .. m - 1 /\ \A j \in 1 .. m - 1 : timer_queue'[j] = timer_queue[f(j)] /\ f(j) \in DOMAIN timer_queue
    BY <1>n, <2>1
  <2>3. \A i, j \in 1 .. m - 1 : f(i) = f(j) => i = j
    BY <1>n, <2>1
  <2> HIDE DEF f
  <2> QED BY <2>1, <2>2, <2>3, SMTT(20) DEF OnceQueued
<1>5. CASE Taken \/ Kept \/ Freed
  BY <1>5 DEF Taken, Kept, Freed, OnceQueued
<1> QED BY <1>1, <1>2, <1>3, <1>4, <1>5, QueueMoves

\* The module is not loaded again: nothing happens after rmmod.
LEMMA GoneForGood == [Next]_vars => (rmmod.pc = "gone" => UNCHANGED vars)
<1> SUFFICES ASSUME [Next]_vars, rmmod.pc = "gone" PROVE UNCHANGED vars
  OBVIOUS
<1>1. CASE startup_cache
  BY <1>1 DEF startup_cache, LoaderStep, ProcessRuns, Running
<1>2. CASE RegisterHook
  BY <1>2 DEF RegisterHook, LoaderStep, ProcessRuns, Running
<1>3. CASE FirstTimer
  BY <1>3 DEF FirstTimer, LoaderStep, ProcessRuns, Running
<1>4. CASE InsmodUpdate
  BY <1>4 DEF InsmodUpdate, ProcessRuns, Running
<1>5. CASE insert_task
  BY <1>5 DEF insert_task, HookBegins, Hooked, Running
<1>6. CASE HookKick
  BY <1>6 DEF HookKick, Running
<1>7. CASE insert_rreq_timer
  BY <1>7 DEF insert_rreq_timer, HookBegins, Hooked, Running
<1>8. CASE HookUpdate
  BY <1>8 DEF HookUpdate, Running
<1>9. CASE TimerExpires
  BY <1>9 DEF TimerExpires, Running
<1>10. CASE first_timer_due
  BY <1>10 DEF first_timer_due, Running
<1>11. CASE TimerKick
  BY <1>11 DEF TimerKick, Running
<1>12. CASE TimerUpdate
  BY <1>12 DEF TimerUpdate, Running
<1>13. CASE ThreadStart
  BY <1>13 DEF ThreadStart, ProcessRuns, Running
<1>14. CASE CheckKill
  BY <1>14 DEF CheckKill, ProcessRuns, Running
<1>15. CASE Sleep
  BY <1>15 DEF Sleep, ProcessRuns, Running
<1>16. CASE TakeTask
  BY <1>16 DEF TakeTask, ProcessRuns, Running
<1>17. CASE Handle
  BY <1>17 DEF Handle, ProcessRuns, Running
<1>18. CASE delete_timer
  BY <1>18 DEF delete_timer, ProcessRuns, Running
<1>19. CASE ThreadUpdate
  BY <1>19 DEF ThreadUpdate, ProcessRuns, Running
<1>20. CASE UnregisterHook
  BY <1>20 DEF UnregisterHook, LoaderStep, ProcessRuns, Running
<1>21. CASE DelTimer
  BY <1>21 DEF DelTimer, LoaderStep, ProcessRuns, Running
<1>22. CASE kill_cache
  BY <1>22 DEF kill_cache, LoaderStep, ProcessRuns, Running
<1>23. CASE cleanup_task_queue
  BY <1>23 DEF cleanup_task_queue, LoaderStep, ProcessRuns, Running
<1>24. CASE Tick
  BY <1>24 DEF Tick, Running
<1>25. CASE UNCHANGED vars
  BY <1>25
<1> QED BY <1>1, <1>2, <1>3, <1>4, <1>5, <1>6, <1>7, <1>8, <1>9, <1>10, <1>11, <1>12, <1>13, <1>14, <1>15, <1>16, <1>17, <1>18, <1>19, <1>20, <1>21, <1>22, <1>23, <1>24, <1>25 DEF Next, InsmodStep, HookStep, TimerStep, ThreadStep, RmmodStep

\* What arrives is put last, what is handled was first, and what is handled
\* stays in the list until the last task is taken.
LEMMA LinkedStep ==
    ASSUME TInv, OnceQueued, Linked, [Next]_vars
    PROVE  Linked'
<1> SUFFICES ASSUME rmmod'.pc # "gone" PROVE Linked'
  BY DEF Linked
<1>1. rmmod.pc # "gone"
  BY GoneForGood DEF vars
<1> DEFINE q == Len(queued)
           h == Len(handled)
           l == Len(task_q)
<1>2. /\ h <= q /\ q <= h + l /\ l <= q
      /\ \A i \in 1 .. h : handled[i] = queued[i]
      /\ \A j \in 1 .. l : task_q[j].id = queued[q + 1 - j]
      /\ q = h => task_end = NULL /\ l = 0
      /\ q # h => task_end = task_q[q - h].id
  BY <1>1 DEF Linked
<1>3. q \in Nat /\ h \in Nat /\ l \in Nat
  BY Lists, Logs
<1>p. ASSUME NEW t, t.id \in Nat, queue_task(t), UNCHANGED handled
      PROVE  Linked'
  <2>1. /\ Len(task_q') = l + 1 /\ task_q'[1] = t /\ \A i \in 2 .. l + 1 : task_q'[i] = task_q[i - 1]
        /\ Len(queued') = q + 1 /\ queued'[q + 1] = t.id /\ \A i \in 1 .. q : queued'[i] = queued[i]
        /\ Len(handled') = h /\ handled' = handled
    BY <1>p, QueueTask
  <2>2. task_end' = IF task_end = NULL THEN t.id ELSE task_end
    BY <1>p DEF queue_task
  <2>3. \A i \in 1 .. h : handled'[i] = queued'[i]
    BY <1>2, <1>3, <2>1
  <2>4. ASSUME NEW j \in 1 .. l + 1 PROVE task_q'[j].id = queued'[q + 2 - j]
    <3>1. CASE j = 1
      BY <1>3, <2>1, <3>1
    <3>2. CASE j # 1
      <4>1. j \in 2 .. l + 1 /\ j - 1 \in 1 .. l /\ q + 1 - (j - 1) = q + 2 - j /\ q + 2 - j \in 1 .. q
        BY <1>2, <1>3, <3>2
      <4> QED BY <1>2, <2>1, <4>1
    <3> QED BY <3>1, <3>2
  <2>5. task_end' = task_q'[q + 1 - h].id
    <3>1. CASE q = h
      BY <1>2, <1>3, <2>1, <2>2, <3>1
    <3>2. CASE q # h
      <4>1. q - h \in 1 .. l /\ q + 1 - h \in 2 .. l + 1 /\ (q + 1 - h) - 1 = q - h
        BY <1>2, <1>3, <3>2
      <4>2. task_end # NULL
        BY <1>2, <3>2, <4>1, Lists, Logs
      <4> QED BY <1>2, <2>1, <2>2, <3>2, <4>1, <4>2
    <3> QED BY <3>1, <3>2
  <2>6. h <= q + 1 /\ q + 1 <= h + (l + 1) /\ l + 1 <= q + 1 /\ q + 1 # h
    BY <1>2, <1>3
  <2> HIDE DEF q, h, l
  <2>7. \A j \in 1 .. l + 1 : task_q'[j].id = queued'[(q + 1) + 1 - j]
    BY <1>3, <2>4
  <2> QED BY <1>3, <2>1, <2>3, <2>5, <2>6, <2>7 DEF Linked
<1>5. CASE NewWork
  <2>1. PICK t : t.id = made + 1 /\ queue_task(t) /\ UNCHANGED handled
    BY <1>5 DEF NewWork
  <2> QED BY <1>p, <2>1, Lists, Logs
<1>6. CASE Due
  <2>1. queue_task(timer_queue[1]) /\ UNCHANGED handled /\ timer_queue[1].id \in Nat
    BY <1>6, Lists, Logs DEF Due
  <2> QED BY <1>p, <2>1
<1>7. CASE Taken
  <2>1. PICK i \in DOMAIN task_q :
          /\ task_q[i].id = task_end
          /\ IF i = 1 THEN task_q' = <<>> /\ task_end' = NULL
                      ELSE task_end' = task_q[i - 1].id /\ UNCHANGED task_q
          /\ handled' = Append(handled, task_q[i].id) /\ UNCHANGED queued
    BY <1>7 DEF Taken
  <2>2. i \in 1 .. l /\ task_q[i].id \in Nat /\ task_q[i].id # NULL
    BY <2>1, Lists, Logs
  <2>3. q # h /\ q - h \in 1 .. l
    BY <1>2, <1>3, <2>1, <2>2
  <2>4. i = q - h
    <3>1. task_q[i].id = queued[q + 1 - i] /\ task_q[q - h].id = queued[q + 1 - (q - h)]
      BY <1>2, <2>2, <2>3
    <3>2. q + 1 - i \in DOMAIN queued /\ q + 1 - (q - h) \in DOMAIN queued
      <4>1. q + 1 - i \in 1 .. q /\ q + 1 - (q - h) \in 1 .. q
        BY <1>2, <1>3, <2>2, <2>3
      <4> QED BY <4>1, Logs
    <3>3. q + 1 - i = q + 1 - (q - h)
      BY <1>2, <2>1, <2>3, <3>1, <3>2 DEF OnceQueued
    <3> QED BY <1>3, <2>2, <3>3
  <2>5. Len(handled') = h + 1 /\ handled'[h + 1] = task_q[i].id /\ \A k \in 1 .. h : handled'[k] = handled[k]
    BY <2>1, <2>2, Logs, Seqs, AppendProperties
  <2>6. task_q[i].id = queued[h + 1]
    <3>1. q + 1 - i = h + 1
      BY <1>3, <2>4
    <3> QED BY <1>2, <2>2, <3>1
  <2>7. \A k \in 1 .. h + 1 : handled'[k] = queued'[k]
    <3>1. \A k \in 1 .. h + 1 : k = h + 1 \/ k \in 1 .. h
      BY <1>3
    <3> HIDE DEF h
    <3> QED BY <1>2, <2>1, <2>5, <2>6, <3>1
  <2>8. CASE i = 1
    <3>1. q = h + 1 /\ task_q' = <<>> /\ task_end' = NULL /\ Len(task_q') = 0
      BY <1>3, <2>1, <2>4, <2>8
    <3> HIDE DEF q, h, l
    <3>2. Len(queued') = q /\ queued' = queued
      BY <2>1 DEF q
    <3> QED BY <1>3, <2>5, <2>7, <3>1, <3>2 DEF Linked
  <2>9. CASE i # 1
    <3>1. q # h + 1 /\ q - (h + 1) = i - 1 /\ h + 1 <= q /\ q <= (h + 1) + l
      BY <1>2, <1>3, <2>2, <2>3, <2>4, <2>9
    <3>2. Len(queued') = q /\ queued' = queued /\ Len(task_q') = l /\ task_q' = task_q /\ task_end' = task_q[i - 1].id
      BY <2>1, <2>9
    <3> HIDE DEF q, h, l
    <3> QED BY <1>2, <1>3, <2>5, <2>7, <3>1, <3>2 DEF Linked
  <2> QED BY <2>8, <2>9
<1>8. CASE Kept \/ NewTimer \/ Deleted
  BY <1>1, <1>8 DEF Kept, NewTimer, Deleted, Linked
<1>9. CASE Freed
  BY <1>9 DEF Freed
<1> QED BY <1>5, <1>6, <1>7, <1>8, <1>9, QueueMoves

\* What a step may do with the task in the thread's hand: nothing, take one,
\* return from its handler, or begin or end a round of the loop.
Stays    == /\ (InHand' <=> InHand) /\ (Draining' <=> Draining) /\ UNCHANGED <<handled, freed>>
            /\ InHand => thread'.task = thread.task
Takes    == /\ thread.pc = "get" /\ thread'.pc = "handle" /\ UNCHANGED <<freed, queued>>
            /\ handled' = Append(handled, thread'.task.id)
Finishes == /\ InHand /\ thread'.pc = "get" /\ UNCHANGED <<handled, task_q, queued>>
            /\ freed' = Append(freed, thread.task.id)
Rounds   == /\ ~InHand /\ ~InHand' /\ UNCHANGED <<task_q, queued, handled, freed>>
            /\ Draining' \/ (thread.pc = "get" /\ task_end = NULL)

\* Every step but the last of rmmod is one of these.
LEMMA ThreadMoves ==
    ASSUME TInv, [Next]_vars, rmmod'.pc # "gone"
    PROVE  Stays \/ Takes \/ Finishes \/ Rounds
<1>1. CASE UNCHANGED <<thread, handled, freed>>
  BY <1>1 DEF Stays, InHand, Draining
<1>2. CASE kick_cache /\ UNCHANGED <<handled, freed>>
  BY <1>2, Zenon DEF kick_cache, Stays, InHand, Draining, TInv, Contexts
<1>3. CASE startup_cache
  BY <1>3 DEF startup_cache, LoaderStep, Stays, InHand, Draining, TInv, Contexts
<1>4. CASE ThreadStart
  BY <1>4 DEF ThreadStart, Stays, InHand, Draining, TInv, Contexts
<1>5. CASE CheckKill
  <2>1. thread'.pc \in {"exit", "tosleep", "get"} /\ thread.pc \in {"check", "woken"}
    BY <1>5 DEF CheckKill, TInv, Contexts
  <2> QED BY <1>5, <2>1 DEF CheckKill, Stays, Rounds, InHand, Draining
<1>6. CASE Sleep
  BY <1>6 DEF Sleep, Stays, InHand, Draining, TInv, Contexts
<1>7. CASE TakeTask
  <2>1. CASE task_end = NULL
    BY <1>7, <2>1 DEF TakeTask, Rounds, InHand, TInv, Contexts
  <2>2. CASE task_end # NULL
    <3>1. get_task /\ handled' = Append(handled, thread'.task.id) /\ thread.pc = "get" /\ UNCHANGED <<freed, queued>>
      BY <1>7, <2>2 DEF TakeTask
    <3>2. thread'.pc = "handle"
      BY <3>1 DEF get_task, TakeAt, TInv, Contexts
    <3> QED BY <3>1, <3>2 DEF Takes
  <2> QED BY <2>1, <2>2
<1>8. CASE Handle
  <2>1. thread.pc \in {"handle", "deleted"} /\ UNCHANGED <<task_q, handled, queued>> /\ FreeTask
    BY <1>8 DEF Handle
  <2>2. thread'.pc \in {"update", "get"} /\ thread'.task = thread.task
    BY <1>8 DEF Handle, TInv, Contexts
  <2> QED BY <2>1, <2>2 DEF FreeTask, Stays, Finishes, InHand, Draining
<1>9. CASE delete_timer
  BY <1>9 DEF delete_timer, Stays, InHand, Draining, TInv, Contexts
<1>10. CASE ThreadUpdate
  <2>1. thread.pc \in {"handle", "deleted", "update", "arm"} /\ UNCHANGED <<task_q, handled, queued>> /\ FreeTask
    BY <1>10 DEF ThreadUpdate, NoneDeleted
  <2>2. thread'.pc \in {"arm", "get"} /\ thread'.task = thread.task
    <3>1. CASE update_arm(thread, "get")
      BY <3>1 DEF update_arm, TInv, Contexts
    <3>2. CASE update_read(thread, "get")
      BY <3>2 DEF update_read, TInv, Contexts
    <3> QED BY <1>10, <3>1, <3>2 DEF ThreadUpdate
  <2> QED BY <2>1, <2>2 DEF FreeTask, Stays, Finishes, InHand, Draining
<1>11. CASE cleanup_task_queue
  BY <1>11 DEF cleanup_task_queue, LoaderStep, TInv, Contexts
<1>12. CASE first_timer_due
  BY <1>1, <1>12 DEF first_timer_due
<1>13. CASE InsmodUpdate \/ HookUpdate \/ TimerUpdate
  BY <1>1, <1>13 DEF InsmodUpdate, HookUpdate, TimerUpdate
<1>14. CASE RegisterHook \/ FirstTimer \/ insert_task \/ insert_rreq_timer \/ TimerExpires
  BY <1>1, <1>14 DEF RegisterHook, FirstTimer, insert_task, insert_rreq_timer, TimerExpires
<1>15. CASE HookKick \/ TimerKick \/ kill_cache
  BY <1>2, <1>15 DEF HookKick, TimerKick, kill_cache
<1>16. CASE UnregisterHook \/ DelTimer \/ Tick \/ UNCHANGED vars
  BY <1>1, <1>16 DEF UnregisterHook, DelTimer, Tick, vars
<1> QED BY <1>3, <1>4, <1>5, <1>6, <1>7, <1>8, <1>9, <1>10, <1>11, <1>12, <1>13, <1>14, <1>15, <1>16 DEF Next, InsmodStep, HookStep, TimerStep, ThreadStep, RmmodStep

\* The thread frees each task once, after it has handled it, and it leaves its
\* loop only when the list is empty.
LEMMA ReleasedStep ==
    ASSUME TInv, Linked, Released, [Next]_vars
    PROVE  Released'
<1> SUFFICES ASSUME rmmod'.pc # "gone" PROVE Released'
  BY DEF Released
<1>1. rmmod.pc # "gone"
  BY GoneForGood DEF vars
<1>2. /\ InHand => Len(handled) > 0 /\ thread.task.id = handled[Len(handled)]
      /\ Len(freed) = Len(handled) - IF InHand THEN 1 ELSE 0
      /\ \A i \in 1 .. Len(freed) : freed[i] = handled[i]
      /\ ~Draining => Len(queued) = Len(handled) + Len(task_q)
  BY <1>1 DEF Released
<1>3. Len(queued) \in Nat /\ Len(handled) \in Nat /\ Len(task_q) \in Nat /\ Len(freed) \in Nat
      /\ handled \in Seq(Nat) /\ freed \in Seq(Nat)
  BY Lists, Logs, Seqs
<1>q. ASSUME UNCHANGED handled, ~Draining
      PROVE  Len(queued') = Len(handled') + Len(task_q')
  <2>p. ASSUME NEW t, t.id \in Nat, queue_task(t) PROVE Len(queued') = Len(handled') + Len(task_q')
    <3>1. Len(task_q') = Len(task_q) + 1 /\ Len(queued') = Len(queued) + 1
      BY <2>p, QueueTask
    <3>2. Len(queued) = Len(handled) + Len(task_q) /\ handled' = handled
      BY <1>q, <1>2
    <3> QED BY <1>3, <3>1, <3>2
  <2>1. CASE NewWork
    <3>1. PICK t : t.id = made + 1 /\ queue_task(t)
      BY <2>1 DEF NewWork
    <3> QED BY <2>p, <3>1, Lists, Logs
  <2>2. CASE Due
    <3>1. queue_task(timer_queue[1]) /\ timer_queue[1].id \in Nat
      BY <2>2, Lists, Logs DEF Due
    <3> QED BY <2>p, <3>1
  <2>3. CASE Kept \/ NewTimer \/ Deleted
    BY <1>q, <1>2, <2>3 DEF Kept, NewTimer, Deleted
  <2>4. ~Taken
    <3> SUFFICES ASSUME Taken PROVE FALSE
      OBVIOUS
    <3>1. PICK i \in DOMAIN task_q : handled' = Append(handled, task_q[i].id)
      BY DEF Taken
    <3>2. task_q[i].id \in Nat
      BY Lists, Logs
    <3>3. Len(handled') = Len(handled) + 1
      BY <1>3, <3>1, <3>2
    <3> QED BY <1>q, <1>3, <3>3
  <2>5. ~Freed
    BY DEF Freed
  <2> QED BY <2>1, <2>2, <2>3, <2>4, <2>5, QueueMoves
<1>4. CASE Stays
  <2>1. InHand' => thread'.task.id = handled'[Len(handled')] /\ Len(handled') > 0
    BY <1>2, <1>4 DEF Stays
  <2>2. Len(freed') = Len(handled') - IF InHand' THEN 1 ELSE 0
    BY <1>2, <1>4 DEF Stays
  <2>3. \A i \in 1 .. Len(freed') : freed'[i] = handled'[i]
    BY <1>2, <1>4 DEF Stays
  <2>4. ~Draining' => Len(queued') = Len(handled') + Len(task_q')
    BY <1>q, <1>4 DEF Stays
  <2> QED BY <2>1, <2>2, <2>3, <2>4 DEF Released
<1>5. CASE Takes
  <2> DEFINE x == thread'.task.id
  <2>1. ~InHand /\ InHand' /\ Draining' /\ handled' = Append(handled, x) /\ freed' = freed
    BY <1>5 DEF Takes, InHand, Draining
  <2>2. x \in Nat
    <3>1. TInv'
      BY TypeStep
    <3>2. made' \in Nat /\ thread'.task \in Task'
      BY <2>1, <3>1 DEF TInv, Queues, Contexts
    <3> QED BY <3>2, TaskIds DEF Task
  <2> HIDE DEF x
  <2>3. Len(handled') = Len(handled) + 1 /\ handled'[Len(handled) + 1] = x /\ \A i \in 1 .. Len(handled) : handled'[i] = handled[i]
    BY <1>3, <2>1, <2>2, AppendProperties
  <2>4. Len(freed') = Len(handled') - 1 /\ Len(freed') = Len(handled)
    BY <1>2, <1>3, <2>1, <2>3
  <2>5. \A i \in 1 .. Len(freed') : freed'[i] = handled'[i]
    BY <1>2, <2>1, <2>3, <2>4
  <2>6. Len(handled') > 0 /\ thread'.task.id = handled'[Len(handled')]
    BY <1>3, <2>3 DEF x
  <2> QED BY <2>1, <2>4, <2>5, <2>6 DEF Released
<1>6. CASE Finishes
  <2> DEFINE x == thread.task.id
  <2>1. InHand /\ ~InHand' /\ Draining' /\ freed' = Append(freed, x) /\ handled' = handled
    BY <1>6 DEF Finishes, InHand, Draining
  <2>2. x = handled[Len(handled)] /\ Len(handled) > 0 /\ x \in Nat /\ Len(freed) = Len(handled) - 1
    BY <1>2, <1>3, <2>1
  <2> HIDE DEF x
  <2>3. Len(freed') = Len(freed) + 1 /\ freed'[Len(freed) + 1] = x /\ \A i \in 1 .. Len(freed) : freed'[i] = freed[i]
    BY <1>3, <2>1, <2>2, AppendProperties
  <2>4. Len(freed') = Len(handled')
    BY <1>3, <2>1, <2>2, <2>3
  <2>5. ASSUME NEW i \in 1 .. Len(freed') PROVE freed'[i] = handled'[i]
    <3>1. i = Len(freed) + 1 \/ i \in 1 .. Len(freed)
      BY <1>3, <2>3
    <3>2. Len(freed) + 1 = Len(handled)
      BY <1>3, <2>2
    <3> QED BY <1>2, <2>1, <2>2, <2>3, <3>1, <3>2
  <2> QED BY <1>3, <2>1, <2>4, <2>5 DEF Released
<1>7. CASE Rounds
  <2>1. /\ ~InHand /\ ~InHand' /\ UNCHANGED <<task_q, queued, handled, freed>>
        /\ Draining' \/ (thread.pc = "get" /\ task_end = NULL)
    BY <1>7 DEF Rounds
  <2>2. ASSUME ~Draining' PROVE Len(queued) = Len(handled) + Len(task_q)
    <3>1. task_q = <<>>
      BY <1>1, <2>1, <2>2 DEF TInv, Tailed
    <3>2. Len(task_q) = 0
      BY <3>1
    <3> QED BY <1>1, <1>3, <3>2 DEF Linked
  <2> QED BY <1>2, <2>1, <2>2 DEF Released
<1> QED BY <1>4, <1>5, <1>6, <1>7, ThreadMoves

\* Before the clean-up the thread has freed a beginning of queued.
LEMMA FreedBefore ==
    ASSUME TInv, OnceQueued, Linked, Released, rmmod.pc # "gone"
    PROVE  /\ \A i \in DOMAIN freed : i \in DOMAIN queued /\ freed[i] = queued[i]
           /\ FreedOnce
<1>f. /\ Len(freed) = Len(handled) - IF InHand THEN 1 ELSE 0
      /\ \A i \in 1 .. Len(freed) : freed[i] = handled[i]
  BY DEF Released
<1>l. /\ Len(handled) <= Len(queued)
      /\ \A i \in 1 .. Len(handled) : handled[i] = queued[i]
  BY DEF Linked
<1>n. /\ Len(freed) \in Nat /\ Len(handled) \in Nat /\ Len(queued) \in Nat
      /\ DOMAIN freed = 1 .. Len(freed) /\ DOMAIN queued = 1 .. Len(queued)
  BY Logs
<1>1. Len(freed) <= Len(handled)
  BY <1>f, <1>n
<1>2. \A i \in DOMAIN freed : i \in DOMAIN queued /\ freed[i] = queued[i]
  BY <1>f, <1>l, <1>n, <1>1
<1>3. \A i, j \in DOMAIN freed : freed[i] = freed[j] => i = j
  BY <1>2 DEF OnceQueued
<1> QED BY <1>2, <1>3 DEF FreedOnce

\* The only way out is the clean-up, after the second has passed.
LEMMA LastStep ==
    ASSUME TInv, [Next]_vars, rmmod.pc # "gone", rmmod'.pc = "gone"
    PROVE  /\ freed' = freed \o [k \in DOMAIN task_q |-> task_q[k].id] /\ UNCHANGED <<thread, queued>>
           /\ AmpleWait => thread.pc \in {"asleep", "exit"}
<1>1. CASE cleanup_task_queue
  BY <1>1 DEF cleanup_task_queue
<1>2. CASE UNCHANGED rmmod
  BY <1>2
<1>3. CASE startup_cache \/ RegisterHook \/ FirstTimer \/ UnregisterHook \/ DelTimer \/ kill_cache
  BY <1>3 DEF startup_cache, RegisterHook, FirstTimer, UnregisterHook, DelTimer, kill_cache, LoaderStep, TInv, Contexts
<1>4. CASE InsmodUpdate
  BY <1>4 DEF InsmodUpdate, update_read, update_arm, TInv, Contexts
<1>5. CASE HookStep
  BY <1>2, <1>5 DEF HookStep, insert_task, HookKick, insert_rreq_timer, HookUpdate
<1>6. CASE TimerStep
  BY <1>2, <1>6 DEF TimerStep, TimerExpires, first_timer_due, TimerKick, TimerUpdate
<1>7. CASE ThreadStep
  BY <1>2, <1>7 DEF ThreadStep, ThreadStart, CheckKill, Sleep, TakeTask, Handle, delete_timer, ThreadUpdate
<1>8. CASE Tick \/ UNCHANGED vars
  BY <1>2, <1>8 DEF Tick, vars
<1> QED BY <1>1, <1>3, <1>4, <1>5, <1>6, <1>7, <1>8 DEF Next, InsmodStep, RmmodStep

\* The clean-up comes while the thread does not drain the queue: what the list
\* holds is what the thread has not freed.
LEMMA FreedAllStep ==
    ASSUME TInv, QInv, [Next]_vars
    PROVE  FreedAll'
<1>1. CASE rmmod'.pc # "gone"
  BY <1>1 DEF FreedAll
<1>2. CASE UNCHANGED vars
  BY <1>2 DEF vars, QInv, FreedAll, FreedOnce, Draining
<1>3. CASE rmmod'.pc = "gone" /\ rmmod.pc # "gone"
  <2> SUFFICES ASSUME ~Draining' PROVE FreedOnce'
    BY DEF FreedAll, FreedOnce
  <2>1. freed' = freed \o [k \in DOMAIN task_q |-> task_q[k].id] /\ UNCHANGED <<thread, queued>>
    BY <1>3, LastStep
  <2> DEFINE q == Len(queued)
             h == Len(handled)
             r == [k \in DOMAIN task_q |-> task_q[k].id]
             f(i) == IF i <= h THEN i ELSE q + 1 + h - i
  <2>2. ~Draining /\ ~InHand
    BY <2>1 DEF Draining, InHand
  <2>3. q = h + Len(task_q) /\ Len(freed) = h /\ q \in Nat /\ h \in Nat /\ Len(task_q) \in Nat
    <3>1. Len(freed) = h - 0 /\ q = h + Len(task_q)
      BY <1>3, <2>2 DEF QInv, Released
    <3>2. q \in Nat /\ h \in Nat /\ Len(task_q) \in Nat
      BY Lists, Logs
    <3> QED BY <3>1, <3>2
  <2>4. r \in Seq(Nat) /\ Len(r) = Len(task_q) /\ \A k \in 1 .. Len(task_q) : r[k] = task_q[k].id
    BY Lists, Logs
  <2> HIDE DEF r
  <2>5. Len(freed') = q /\ DOMAIN freed' = 1 .. q
        /\ \A i \in 1 .. q : freed'[i] = IF i <= h THEN freed[i] ELSE r[i - h]
    <3>1. Len(freed') = Len(freed) + Len(r) /\ freed' \in Seq(Nat)
          /\ \A i \in 1 .. Len(freed) + Len(r) : freed'[i] = IF i <= Len(freed) THEN freed[i] ELSE r[i - Len(freed)]
      BY <2>1, <2>4, Logs, Seqs, ConcatProperties DEF r
    <3> QED BY <2>3, <2>4, <3>1
  <2>6. ASSUME NEW i \in 1 .. q PROVE freed'[i] = queued[f(i)] /\ f(i) \in 1 .. q
    <3>1. CASE i <= h
      <4>1. freed[i] = queued[i]
        BY <1>3, <2>3, <3>1, Lists, Logs, FreedBefore DEF QInv
      <4> QED BY <2>5, <3>1, <4>1
    <3>2. CASE ~(i <= h)
      <4>1. i - h \in 1 .. Len(task_q) /\ q + 1 - (i - h) = f(i) /\ f(i) \in 1 .. q
        BY <2>3, <3>2
      <4>2. task_q[i - h].id = queued[q + 1 - (i - h)]
        BY <1>3, <4>1 DEF QInv, Linked
      <4> QED BY <2>4, <2>5, <3>2, <4>1, <4>2
    <3> QED BY <3>1, <3>2
  <2>7. \A i, j \in 1 .. q : f(i) = f(j) => i = j
    BY <2>3
  <2>8. \A j \in 1 .. q : f(f(j)) = j
    BY <2>3
  <2>9. DOMAIN queued = 1 .. q /\ \A i, j \in 1 .. q : queued[i] = queued[j] => i = j
    BY Lists, Logs DEF QInv, OnceQueued
  <2> HIDE DEF f, q, h
  <2>10. \A i, j \in DOMAIN freed' : freed'[i] = freed'[j] => i = j
    BY <2>5, <2>6, <2>7, <2>9
  <2>11. \A i \in DOMAIN queued : f(i) \in DOMAIN freed' /\ freed'[f(i)] = queued[i]
    BY <2>5, <2>6, <2>8, <2>9
  <2>12. \A i \in DOMAIN freed' : f(i) \in DOMAIN queued /\ freed'[i] = queued[f(i)]
    BY <2>5, <2>6, <2>9
  <2>13. {freed'[i] : i \in DOMAIN freed'} = {queued[i] : i \in DOMAIN queued}
    BY <2>11, <2>12
  <2>14. queued' = queued
    BY <2>1
  <2> QED BY <2>10, <2>13, <2>14 DEF FreedOnce
<1> QED BY <1>1, <1>2, <1>3, GoneForGood

\* The four together are inductive.
LEMMA QInvariant == Spec => []QInv
<1>1. Init => QInv
  <2> SUFFICES ASSUME Init PROVE QInv
    OBVIOUS
  <2>1. /\ task_q = <<>> /\ queued = <<>> /\ handled = <<>> /\ freed = <<>> /\ timer_queue = <<>>
        /\ thread.pc = "none" /\ task_end = NULL /\ rmmod.pc # "gone"
    BY DEF Init
  <2>2. OnceQueued /\ FreedAll
    BY <2>1 DEF OnceQueued, FreedAll
  <2>3. Linked /\ Released
    BY <2>1 DEF Linked, Released, InHand
  <2> QED BY <2>2, <2>3 DEF QInv
<1>2. TInv /\ QInv /\ [Next]_vars => QInv'
  <2> SUFFICES ASSUME TInv, QInv, [Next]_vars PROVE QInv'
    OBVIOUS
  <2>1. OnceQueued' /\ Linked' /\ Released'
    BY OnceQueuedStep, LinkedStep, ReleasedStep DEF QInv
  <2>2. FreedAll'
    BY FreedAllStep
  <2> QED BY <2>1, <2>2 DEF QInv
<1> QED BY <1>1, <1>2, TypeInvariant, PTL DEF Spec

\* The thread takes tasks in the order in which the hook and the timer queued
\* them, each once and none left out: the walk to the tail of the list ends at
\* the oldest task.
THEOREM HandledInOrder == Spec => []InOrder
<1>1. ASSUME TInv, QInv PROVE InOrder
  <2> SUFFICES ASSUME rmmod.pc # "gone" PROVE InOrder
    BY DEF InOrder
  <2> DEFINE q == Len(queued)
             h == Len(handled)
             n == q - h
             a == [i \in 1 .. n |-> task_q[n + 1 - i].id]
  <2>1. /\ h <= q /\ n <= Len(task_q)
        /\ \A i \in 1 .. h : handled[i] = queued[i]
        /\ \A j \in 1 .. Len(task_q) : task_q[j].id = queued[q + 1 - j]
        /\ task_end = IF n = 0 THEN NULL ELSE task_q[n].id
    <3>1. /\ h <= q /\ q <= h + Len(task_q)
          /\ \A i \in 1 .. h : handled[i] = queued[i]
          /\ \A j \in 1 .. Len(task_q) : task_q[j].id = queued[q + 1 - j]
          /\ IF q = h THEN task_end = NULL ELSE task_end = task_q[n].id
      BY <1>1 DEF QInv, Linked
    <3>2. q \in Nat /\ h \in Nat /\ Len(task_q) \in Nat
      BY <1>1, Lists, Logs
    <3>3. n <= Len(task_q) /\ (q = h <=> n = 0)
      BY <3>1, <3>2
    <3> HIDE DEF n, q, h
    <3> QED BY <3>1, <3>3
  <2>2. q \in Nat /\ h \in Nat /\ n \in Nat /\ n \in 0 .. Len(task_q) /\ q = h + n
    <3>1. q \in Nat /\ h \in Nat /\ Len(task_q) \in Nat
      BY <1>1, Lists, Logs
    <3> QED BY <2>1, <3>1
  <2>3. a \in Seq(Nat) /\ Len(a) = n /\ \A i \in 1 .. n : a[i] = task_q[n + 1 - i].id
    <3>1. \A i \in 1 .. n : task_q[n + 1 - i].id \in Nat
      <4>1. \A j \in 1 .. Len(task_q) : task_q[j].id \in Nat
        BY <1>1, Lists
      <4>2. \A i \in 1 .. n : n + 1 - i \in 1 .. Len(task_q)
        BY <1>1, <2>1, <2>2, Lists
      <4> QED BY <4>1, <4>2
    <3> HIDE DEF n
    <3> QED BY <2>2, <3>1
  <2>4. \A i \in 1 .. n : a[i] = queued[h + i]
    <3>1. \A i \in 1 .. n : n + 1 - i \in 1 .. Len(task_q) /\ q + 1 - (n + 1 - i) = h + i
      BY <2>1, <2>2
    <3> HIDE DEF n, a
    <3> QED BY <2>1, <2>3, <3>1
  <2> HIDE DEF a
  <2>5. handled \o a \in Seq(Nat) /\ Len(handled \o a) = h + n
        /\ \A i \in 1 .. h + n : (handled \o a)[i] = IF i <= h THEN handled[i] ELSE a[i - h]
    BY <1>1, <2>3, Logs, Seqs, ConcatProperties
  <2>6. ASSUME NEW i \in 1 .. q PROVE queued[i] = (handled \o a)[i]
    <3>1. CASE i <= h
      BY <2>1, <2>2, <2>5, <3>1
    <3>2. CASE ~(i <= h)
      <4>1. i - h \in 1 .. n /\ h + (i - h) = i
        BY <2>2, <3>2
      <4> QED BY <2>2, <2>4, <2>5, <3>2, <4>1
    <3> QED BY <3>1, <3>2
  <2>7. queued = handled \o a
    BY <1>1, <2>2, <2>5, <2>6, Logs, Seqs, SeqEqual
  <2> QED BY <2>1, <2>2, <2>7 DEF InOrder, a
<1> QED BY <1>1, QInvariant, TypeInvariant, PTL

\* Every task that was in the task queue is freed once, by the thread or by
\* cleanup_task_queue, unless the clean-up meets the thread inside its loop.
THEOREM FreedByOne == Spec => []FreedOnce
<1>1. TInv /\ QInv => FreedOnce
  BY FreedBefore DEF QInv, FreedAll
<1> QED BY <1>1, QInvariant, TypeInvariant, PTL

\* With a second that is long enough it never does: what was queued is freed
\* when the module is gone, and nothing is freed twice, then or before.
THEOREM CleanUnlink ==
    ASSUME AmpleWait
    PROVE  Spec => [](rmmod.pc = "gone" => ~Draining /\ FreedOnce)
<1> DEFINE Calm == rmmod.pc = "gone" => ~Draining
<1>1. Init => Calm
  BY DEF Init
<1>2. TInv /\ Calm /\ [Next]_vars => Calm'
  <2> SUFFICES ASSUME TInv, Calm, [Next]_vars, rmmod'.pc = "gone" PROVE ~Draining'
    OBVIOUS
  <2>1. CASE rmmod.pc = "gone"
    BY <2>1, GoneForGood DEF vars, Draining
  <2>2. CASE rmmod.pc # "gone"
    BY <2>2, LastStep DEF Draining
  <2> QED BY <2>1, <2>2
<1>3. TInv /\ QInv => FreedOnce
  BY FreedBefore DEF QInv, FreedAll
<1> QED BY <1>1, <1>2, <1>3, QInvariant, TypeInvariant, PTL DEF Spec

(***************************************************************************)
(* One processor.                                                          *)
(***************************************************************************)

\* Between the read of timer_pending and add_timer no other context runs.
LEMMA UpStep ==
    ASSUME ~SMP, TInv, UpInv, [Next]_vars
    PROVE  UpInv'
<1>1. CASE startup_cache
  <2>1. Exclusive'
    BY <1>1 DEF startup_cache, LoaderStep, ProcessRuns, Readers, UpInv, Exclusive, TInv, Contexts, ArmHasTimer
  <2>2. ReadStands'
    BY <1>1 DEF startup_cache, LoaderStep, ProcessRuns, Readers, UpInv, Exclusive, ReadStands, TInv, Contexts, ArmHasTimer
  <2>3. AddNotPending'
    BY <1>1 DEF startup_cache, LoaderStep, ProcessRuns, UpInv, AddNotPending, ReadStands
  <2> QED BY <2>1, <2>2, <2>3 DEF UpInv
<1>2. CASE RegisterHook
  <2>1. Exclusive'
    BY <1>2 DEF RegisterHook, LoaderStep, ProcessRuns, Readers, UpInv, Exclusive, TInv, Contexts, ArmHasTimer
  <2>2. ReadStands'
    BY <1>2 DEF RegisterHook, LoaderStep, ProcessRuns, Readers, UpInv, Exclusive, ReadStands, TInv, Contexts, ArmHasTimer
  <2>3. AddNotPending'
    BY <1>2 DEF RegisterHook, LoaderStep, ProcessRuns, UpInv, AddNotPending, ReadStands
  <2> QED BY <2>1, <2>2, <2>3 DEF UpInv
<1>3. CASE FirstTimer
  <2>1. Exclusive'
    BY <1>3 DEF FirstTimer, LoaderStep, ProcessRuns, Readers, UpInv, Exclusive, TInv, Contexts, ArmHasTimer
  <2>2. ReadStands'
    BY <1>3 DEF FirstTimer, LoaderStep, ProcessRuns, Readers, UpInv, Exclusive, ReadStands, TInv, Contexts, ArmHasTimer
  <2>3. AddNotPending'
    BY <1>3 DEF FirstTimer, LoaderStep, ProcessRuns, UpInv, AddNotPending, ReadStands
  <2> QED BY <2>1, <2>2, <2>3 DEF UpInv
<1>4. CASE InsmodUpdate
  <2>1. Exclusive'
    BY <1>4 DEF InsmodUpdate, ProcessRuns, update_read, update_arm, Readers, UpInv, Exclusive, TInv, Contexts, ArmHasTimer
  <2>2. ReadStands'
    BY <1>4 DEF InsmodUpdate, ProcessRuns, update_read, update_arm, Readers, UpInv, Exclusive, ReadStands, TInv, Contexts, ArmHasTimer
  <2>3. AddNotPending'
    BY <1>4 DEF InsmodUpdate, ProcessRuns, update_read, update_arm, UpInv, AddNotPending, ReadStands
  <2> QED BY <2>1, <2>2, <2>3 DEF UpInv
<1>5. CASE insert_task
  <2>1. Exclusive'
    BY <1>5 DEF insert_task, HookBegins, SoftirqRuns, Readers, UpInv, Exclusive, TInv, Contexts, ArmHasTimer
  <2>2. ReadStands'
    BY <1>5 DEF insert_task, HookBegins, SoftirqRuns, Readers, UpInv, Exclusive, ReadStands, TInv, Contexts, ArmHasTimer
  <2>3. AddNotPending'
    BY <1>5 DEF insert_task, HookBegins, SoftirqRuns, UpInv, AddNotPending, ReadStands
  <2> QED BY <2>1, <2>2, <2>3 DEF UpInv
<1>6. CASE HookKick
  <2>1. Exclusive'
    BY <1>6 DEF HookKick, kick_cache, Readers, UpInv, Exclusive, TInv, Contexts, ArmHasTimer
  <2>2. ReadStands'
    BY <1>6 DEF HookKick, kick_cache, Readers, UpInv, Exclusive, ReadStands, TInv, Contexts, ArmHasTimer
  <2>3. AddNotPending'
    BY <1>6 DEF HookKick, kick_cache, UpInv, AddNotPending, ReadStands
  <2> QED BY <2>1, <2>2, <2>3 DEF UpInv
<1>7. CASE insert_rreq_timer
  <2>1. Exclusive'
    BY <1>7 DEF insert_rreq_timer, HookBegins, SoftirqRuns, Readers, UpInv, Exclusive, TInv, Contexts, ArmHasTimer
  <2>2. ReadStands'
    BY <1>7 DEF insert_rreq_timer, HookBegins, SoftirqRuns, Readers, UpInv, Exclusive, ReadStands, TInv, Contexts, ArmHasTimer
  <2>3. AddNotPending'
    BY <1>7 DEF insert_rreq_timer, HookBegins, SoftirqRuns, UpInv, AddNotPending, ReadStands
  <2> QED BY <2>1, <2>2, <2>3 DEF UpInv
<1>8. CASE HookUpdate
  <2>1. Exclusive'
    BY <1>8 DEF HookUpdate, update_read, update_arm, Readers, UpInv, Exclusive, TInv, Contexts, ArmHasTimer
  <2>2. ReadStands'
    BY <1>8 DEF HookUpdate, update_read, update_arm, Readers, UpInv, Exclusive, ReadStands, TInv, Contexts, ArmHasTimer
  <2>3. AddNotPending'
    BY <1>8 DEF HookUpdate, update_read, update_arm, UpInv, AddNotPending, ReadStands
  <2> QED BY <2>1, <2>2, <2>3 DEF UpInv
<1>9. CASE TimerExpires
  <2>1. Exclusive'
    BY <1>9 DEF TimerExpires, SoftirqRuns, Readers, UpInv, Exclusive, TInv, Contexts, ArmHasTimer
  <2>2. ReadStands'
    BY <1>9 DEF TimerExpires, SoftirqRuns, Readers, UpInv, Exclusive, ReadStands, TInv, Contexts, ArmHasTimer
  <2>3. AddNotPending'
    BY <1>9 DEF TimerExpires, SoftirqRuns, UpInv, AddNotPending, ReadStands
  <2> QED BY <2>1, <2>2, <2>3 DEF UpInv
<1>10. CASE first_timer_due
  <2>1. Exclusive'
    BY <1>10 DEF first_timer_due, Readers, UpInv, Exclusive, TInv, Contexts, ArmHasTimer
  <2>2. ReadStands'
    BY <1>10 DEF first_timer_due, Readers, UpInv, Exclusive, ReadStands, TInv, Contexts, ArmHasTimer
  <2>3. AddNotPending'
    BY <1>10 DEF first_timer_due, UpInv, AddNotPending, ReadStands
  <2> QED BY <2>1, <2>2, <2>3 DEF UpInv
<1>11. CASE TimerKick
  <2>1. Exclusive'
    BY <1>11 DEF TimerKick, kick_cache, Readers, UpInv, Exclusive, TInv, Contexts, ArmHasTimer
  <2>2. ReadStands'
    BY <1>11 DEF TimerKick, kick_cache, Readers, UpInv, Exclusive, ReadStands, TInv, Contexts, ArmHasTimer
  <2>3. AddNotPending'
    BY <1>11 DEF TimerKick, kick_cache, UpInv, AddNotPending, ReadStands
  <2> QED BY <2>1, <2>2, <2>3 DEF UpInv
<1>12. CASE TimerUpdate
  <2>1. Exclusive'
    BY <1>12 DEF TimerUpdate, update_read, update_arm, Readers, UpInv, Exclusive, TInv, Contexts, ArmHasTimer
  <2>2. ReadStands'
    BY <1>12 DEF TimerUpdate, update_read, update_arm, Readers, UpInv, Exclusive, ReadStands, TInv, Contexts, ArmHasTimer
  <2>3. AddNotPending'
    BY <1>12 DEF TimerUpdate, update_read, update_arm, UpInv, AddNotPending, ReadStands
  <2> QED BY <2>1, <2>2, <2>3 DEF UpInv
<1>13. CASE ThreadStart
  <2>1. Exclusive'
    BY <1>13 DEF ThreadStart, ProcessRuns, Readers, UpInv, Exclusive, TInv, Contexts, ArmHasTimer
  <2>2. ReadStands'
    BY <1>13 DEF ThreadStart, ProcessRuns, Readers, UpInv, Exclusive, ReadStands, TInv, Contexts, ArmHasTimer
  <2>3. AddNotPending'
    BY <1>13 DEF ThreadStart, ProcessRuns, UpInv, AddNotPending, ReadStands
  <2> QED BY <2>1, <2>2, <2>3 DEF UpInv
<1>14. CASE CheckKill
  <2>1. Exclusive'
    BY <1>14 DEF CheckKill, ProcessRuns, Readers, UpInv, Exclusive, TInv, Contexts, ArmHasTimer
  <2>2. ReadStands'
    BY <1>14 DEF CheckKill, ProcessRuns, Readers, UpInv, Exclusive, ReadStands, TInv, Contexts, ArmHasTimer
  <2>3. AddNotPending'
    BY <1>14 DEF CheckKill, ProcessRuns, UpInv, AddNotPending, ReadStands
  <2> QED BY <2>1, <2>2, <2>3 DEF UpInv
<1>15. CASE Sleep
  <2>1. Exclusive'
    BY <1>15 DEF Sleep, ProcessRuns, Readers, UpInv, Exclusive, TInv, Contexts, ArmHasTimer
  <2>2. ReadStands'
    BY <1>15 DEF Sleep, ProcessRuns, Readers, UpInv, Exclusive, ReadStands, TInv, Contexts, ArmHasTimer
  <2>3. AddNotPending'
    BY <1>15 DEF Sleep, ProcessRuns, UpInv, AddNotPending, ReadStands
  <2> QED BY <2>1, <2>2, <2>3 DEF UpInv
<1>16. CASE TakeTask
  <2>1. Exclusive'
    BY <1>16 DEF TakeTask, get_task, TakeAt, ProcessRuns, Readers, UpInv, Exclusive, TInv, Contexts, ArmHasTimer
  <2>2. ReadStands'
    BY <1>16 DEF TakeTask, get_task, TakeAt, ProcessRuns, Readers, UpInv, Exclusive, ReadStands, TInv, Contexts, ArmHasTimer
  <2>3. AddNotPending'
    BY <1>16 DEF TakeTask, get_task, TakeAt, ProcessRuns, UpInv, AddNotPending, ReadStands
  <2> QED BY <2>1, <2>2, <2>3 DEF UpInv
<1>17. CASE Handle
  <2>1. Exclusive'
    BY <1>17 DEF Handle, ProcessRuns, Readers, UpInv, Exclusive, TInv, Contexts, ArmHasTimer
  <2>2. ReadStands'
    BY <1>17 DEF Handle, ProcessRuns, Readers, UpInv, Exclusive, ReadStands, TInv, Contexts, ArmHasTimer
  <2>3. AddNotPending'
    BY <1>17 DEF Handle, ProcessRuns, UpInv, AddNotPending, ReadStands
  <2> QED BY <2>1, <2>2, <2>3 DEF UpInv
<1>18. CASE delete_timer
  <2>1. Exclusive'
    BY <1>18 DEF delete_timer, ProcessRuns, Readers, UpInv, Exclusive, TInv, Contexts, ArmHasTimer
  <2>2. ReadStands'
    BY <1>18 DEF delete_timer, ProcessRuns, Readers, UpInv, Exclusive, ReadStands, TInv, Contexts, ArmHasTimer
  <2>3. AddNotPending'
    BY <1>18 DEF delete_timer, ProcessRuns, UpInv, AddNotPending, ReadStands
  <2> QED BY <2>1, <2>2, <2>3 DEF UpInv
<1>19. CASE ThreadUpdate
  <2>1. Exclusive'
    BY <1>19 DEF ThreadUpdate, ProcessRuns, update_read, update_arm, Readers, UpInv, Exclusive, TInv, Contexts, ArmHasTimer
  <2>2. ReadStands'
    BY <1>19 DEF ThreadUpdate, ProcessRuns, update_read, update_arm, Readers, UpInv, Exclusive, ReadStands, TInv, Contexts, ArmHasTimer
  <2>3. AddNotPending'
    BY <1>19 DEF ThreadUpdate, ProcessRuns, update_read, update_arm, UpInv, AddNotPending, ReadStands
  <2> QED BY <2>1, <2>2, <2>3 DEF UpInv
<1>20. CASE UnregisterHook
  <2>1. Exclusive'
    BY <1>20 DEF UnregisterHook, LoaderStep, ProcessRuns, Readers, UpInv, Exclusive, TInv, Contexts, ArmHasTimer
  <2>2. ReadStands'
    BY <1>20 DEF UnregisterHook, LoaderStep, ProcessRuns, Readers, UpInv, Exclusive, ReadStands, TInv, Contexts, ArmHasTimer
  <2>3. AddNotPending'
    BY <1>20 DEF UnregisterHook, LoaderStep, ProcessRuns, UpInv, AddNotPending, ReadStands
  <2> QED BY <2>1, <2>2, <2>3 DEF UpInv
<1>21. CASE DelTimer
  <2>1. Exclusive'
    BY <1>21 DEF DelTimer, LoaderStep, ProcessRuns, Readers, UpInv, Exclusive, TInv, Contexts, ArmHasTimer
  <2>2. ReadStands'
    BY <1>21 DEF DelTimer, LoaderStep, ProcessRuns, Readers, UpInv, Exclusive, ReadStands, TInv, Contexts, ArmHasTimer
  <2>3. AddNotPending'
    BY <1>21 DEF DelTimer, LoaderStep, ProcessRuns, UpInv, AddNotPending, ReadStands
  <2> QED BY <2>1, <2>2, <2>3 DEF UpInv
<1>22. CASE kill_cache
  <2>1. Exclusive'
    BY <1>22 DEF kill_cache, LoaderStep, ProcessRuns, kick_cache, Readers, UpInv, Exclusive, TInv, Contexts, ArmHasTimer
  <2>2. ReadStands'
    BY <1>22 DEF kill_cache, LoaderStep, ProcessRuns, kick_cache, Readers, UpInv, Exclusive, ReadStands, TInv, Contexts, ArmHasTimer
  <2>3. AddNotPending'
    BY <1>22 DEF kill_cache, LoaderStep, ProcessRuns, kick_cache, UpInv, AddNotPending, ReadStands
  <2> QED BY <2>1, <2>2, <2>3 DEF UpInv
<1>23. CASE cleanup_task_queue
  <2>1. Exclusive'
    BY <1>23 DEF cleanup_task_queue, LoaderStep, ProcessRuns, Readers, UpInv, Exclusive, TInv, Contexts, ArmHasTimer
  <2>2. ReadStands'
    BY <1>23 DEF cleanup_task_queue, LoaderStep, ProcessRuns, Readers, UpInv, Exclusive, ReadStands, TInv, Contexts, ArmHasTimer
  <2>3. AddNotPending'
    BY <1>23 DEF cleanup_task_queue, LoaderStep, ProcessRuns, UpInv, AddNotPending, ReadStands
  <2> QED BY <2>1, <2>2, <2>3 DEF UpInv
<1>24. CASE Tick
  <2>1. Exclusive'
    BY <1>24 DEF Tick, Readers, UpInv, Exclusive, TInv, Contexts, ArmHasTimer
  <2>2. ReadStands'
    BY <1>24 DEF Tick, Readers, UpInv, Exclusive, ReadStands, TInv, Contexts, ArmHasTimer
  <2>3. AddNotPending'
    BY <1>24 DEF Tick, UpInv, AddNotPending, ReadStands
  <2> QED BY <2>1, <2>2, <2>3 DEF UpInv
<1>25. CASE UNCHANGED vars
  BY <1>25 DEF vars, UpInv, Exclusive, ReadStands, AddNotPending
<1> QED BY <1>1, <1>2, <1>3, <1>4, <1>5, <1>6, <1>7, <1>8, <1>9, <1>10, <1>11, <1>12, <1>13, <1>14, <1>15, <1>16, <1>17, <1>18, <1>19, <1>20, <1>21, <1>22, <1>23, <1>24, <1>25 DEF Next, InsmodStep, HookStep, TimerStep, ThreadStep, RmmodStep

\* On one processor update_timer_queue calls add_timer only when the timer is
\* not pending: the lock it holds keeps the timer from expiring and everybody
\* else from setting it after timer_pending was read.
THEOREM AddTimerOnce == ASSUME ~SMP PROVE Spec => []AddNotPending
<1>1. Init => UpInv
  BY DEF Init, UpInv, Exclusive, ReadStands, AddNotPending
<1>2. TInv /\ UpInv /\ [Next]_vars => UpInv'
  BY UpStep
<1>3. UpInv => AddNotPending
  BY DEF UpInv
<1> QED BY <1>1, <1>2, <1>3, TypeInvariant, PTL DEF Spec

=============================================================================
