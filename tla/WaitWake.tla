------------------------------ MODULE WaitWake ------------------------------
(***************************************************************************)
(* The kernel's wait/wake protocol: threads of one process that block in   *)
(* sys_wait on system objects and timeouts (uspace/sys_cpu.rs,             *)
(* uspace/process.rs), the wake side of SysObject with its lock-free list  *)
(* of woken objects (uspace/sysobject.rs), and the part of the scheduler   *)
(* that runs resume jobs and timers (sched/).                              *)
(*                                                                         *)
(* A step is one critical section or one atomic operation; neighbouring    *)
(* operations that no other actor can tell apart are one step.             *)
(***************************************************************************)
EXTENDS Naturals

CONSTANTS
  Threads,     \* threads of the waiting process
  Objects,     \* SysObjects the process has handles to
  IrqObjects,  \* those that only interrupt handlers wake (USER_IRQ_WAITERS)
  DoneObjects, \* those that stand for a process's completion
  Cpus,        \* CPUs: they run the threads, the jobs, the timers
  Wakers,      \* kernel callers of SysObject::wake / Thread::post_wake
  Irqs,        \* interrupt contexts calling SysObject::wake_irq
  Timeouts,    \* timeout arguments in use: subset of TimeoutKinds
  MaxWakes,    \* bound: wakes of one object
  MaxQueued,   \* bound: direct wakes of one thread
  MaxTimers,   \* bound: timers ever created
  Nil          \* no thread / no object / null pointer

\* "none": no timeout; "now": 0, as NaN (yield); "later": a future instant;
\* "poll": 0 with CAP_IO_MANAGER (non-blocking wait of sys-io);
\* "kill": the wait of sys_kill for its victim: no timeout, and done() unread.
TimeoutKinds == {"none", "now", "later", "poll", "kill"}

Actors == Wakers \cup Irqs \cup Cpus

NotWoken == "not woken"   \* next_woken = 0; Nil stands for 0 + 1

ASSUME Distinct ==
  /\ Nil \notin Threads \cup Objects \cup Actors
  /\ NotWoken \notin Objects \cup {Nil}
  /\ Wakers \cap Irqs = {} /\ Wakers \cap Cpus = {} /\ Irqs \cap Cpus = {}
ASSUME Bounds ==
  MaxWakes \in Nat /\ MaxQueued \in Nat /\ MaxTimers \in Nat
ASSUME Kinds ==
  /\ Timeouts \subseteq TimeoutKinds
  /\ IrqObjects \subseteq Objects /\ DoneObjects \subseteq Objects \ IrqObjects

VARIABLES
  obj,           \* SysObject, with the process's WaitObject::wake_count for it
  woken_objects, \* WOKEN_OBJECTS, the head of the list of woken objects
  status,        \* Thread::status
  thr,           \* the other fields of Thread, and the locals of its sys_wait
  upc,           \* where the thread is in sys_wait
  resume_jobs,   \* posted job_fn_resume_in_kernel, per thread
  user_jobs,     \* posted job_fn_resume_in_userspace, per thread
  running,       \* the thread each CPU is executing
  timers,        \* armed timers [cpu, thread, id]
  timer_job,     \* the expired timer whose job the CPU is running
  next_timer,    \* Timer::new's NEXT_ID
  act,           \* wake(), wake_irq(), post_wake(), process_wake_events()
  expired        \* history: the timers that expired

vars == <<obj, woken_objects, status, thr, upc, resume_jobs, user_jobs, running,
          timers, timer_job, next_timer, act, expired>>

Statuses == {"Running", "Preempted", "Syscall", "InWait", "Runnable"}
UserPcs  == {"user", "register", "check", "timeout", "pause", "parked",
             "resume", "woke", "consume"}
ActorPcs == {"idle", "count", "trylock", "unlock", "unlock_take", "take",
             "release", "deliver", "post", "irq_trylock", "link", "cas"}
TimerRecs == [cpu : Cpus, thread : Threads, id : Nat]

NoTimerJob == [thread |-> Nil, id |-> 0, owned |-> FALSE]
NewObject == [wake_counter |-> 0, done |-> FALSE, wake_event_lock |-> FALSE,
              next_woken |-> NotWoken, waiting_threads |-> {}, wake_count |-> 0]
NewThread == [wakers |-> {}, wakes_queued |-> 0, wakes_taken |-> 0,
              timed_out |-> FALSE, timer_id |-> 0, wait_objects |-> {},
              \* locals: handles, those left, the current one, timeout,
              \* the wake_counts copied, the timer of this wait (history)
              handles |-> {}, todo |-> {}, cur |-> Nil, timeout |-> "none",
              seen |-> [o \in Objects |-> 0], my_timer |-> 0]
NewActor == [pc |-> "idle", obj |-> Nil, link |-> Nil, threads |-> {}]

Init ==
  /\ obj = [o \in Objects |-> NewObject]
  /\ woken_objects = Nil
  /\ status = [t \in Threads |-> "Preempted"]
  /\ thr = [t \in Threads |-> NewThread]
  /\ upc = [t \in Threads |-> "user"]
  /\ resume_jobs = [t \in Threads |-> 0]
  /\ user_jobs = [t \in Threads |-> 1]
  /\ running = [c \in Cpus |-> Nil]
  /\ timers = {}
  /\ timer_job = [c \in Cpus |-> NoTimerJob]
  /\ next_timer = 1
  /\ act = [a \in Actors |-> NewActor]
  /\ expired = {}

\* The scheduler loop of c is between two jobs.
Free(c) == running[c] = Nil /\ timer_job[c] = NoTimerJob /\ act[c].pc = "idle"
-----------------------------------------------------------------------------
(***************************************************************************)
(* The waiting thread.                                                     *)
(***************************************************************************)

\* sys_wait enters the kernel (on_syscall_enter) and looks its handles up:
\* process.get_object() returns a copy of each handle's wake_count.
SysWait(t, S, to) ==
  /\ upc[t] = "user" /\ status[t] = "Running"
  /\ to = "kill" => \E o \in DoneObjects : S = {o}
  /\ to = "later" => next_timer <= MaxTimers
  /\ to \in {"now", "poll"} => thr[t].wakes_queued < MaxQueued
  /\ status' = [status EXCEPT ![t] = "Syscall"]
  /\ upc' = [upc EXCEPT ![t] = IF S = {} THEN "timeout" ELSE "register"]
  /\ thr' = [thr EXCEPT ![t] = [@ EXCEPT
               !.handles = S, !.todo = S, !.timeout = to,
               !.seen = [o \in Objects |-> obj[o].wake_count]]]
  /\ UNCHANGED <<obj, woken_objects, resume_jobs, user_jobs, running, timers,
                 timer_job, next_timer, act, expired>>

\* First half of the loop body: add_waiting_thread.
AddWaitingThread(t) ==
  /\ upc[t] = "register"
  /\ \E o \in thr[t].todo :
       /\ obj' = [obj EXCEPT ![o].waiting_threads = @ \cup {t}]
       /\ thr' = [thr EXCEPT ![t].cur = o]
  /\ upc' = [upc EXCEPT ![t] = "check"]
  /\ UNCHANGED <<woken_objects, status, resume_jobs, user_jobs, running, timers,
                 timer_job, next_timer, act, expired>>

\* The handle has unconsumed wakes.  (Mutant: done unread.)
HasWake_NoDone(t, o) == thr[t].seen[o] < obj[o].wake_counter
HasWake(t, o) ==
  \/ thr[t].seen[o] < obj[o].wake_counter
  \/ obj[o].done /\ thr[t].timeout # "kill"

\* Second half: unconsumed wakes make the thread its own waker; after the
\* last handle, add_wait_objects.
CheckWakeCount(t) ==
  LET o == thr[t].cur
      rest == thr[t].todo \ {o}
  IN  /\ upc[t] = "check"
      /\ thr' = [thr EXCEPT ![t] = [@ EXCEPT
                   !.wakers = thr[t].wakers \cup {p \in {o} : HasWake(t, p)},
                   !.todo = rest, !.cur = Nil,
                   !.wait_objects =
                     IF rest = {} THEN thr[t].handles ELSE thr[t].wait_objects]]
      /\ upc' = [upc EXCEPT ![t] = IF rest = {} THEN "timeout" ELSE "register"]
      /\ UNCHANGED <<obj, woken_objects, status, resume_jobs, user_jobs, running,
                     timers, timer_job, next_timer, act, expired>>

\* "timers are always created for the current CPU to avoid wait/wake races".
TimerCpus(c) == {c}

\* new_timeout: an instant of 0 is a wake of the thread by itself (its status
\* is Syscall, so nothing is posted); else a timer on the CPU it runs on.
NewTimeout(t, c) ==
  /\ upc[t] = "timeout" /\ running[c] = t
  /\ upc' = [upc EXCEPT ![t] = "pause"]
  /\ \/ /\ thr[t].timeout \in {"none", "kill"}
        /\ UNCHANGED <<thr, timers, next_timer>>
     \/ /\ thr[t].timeout \in {"now", "poll"}
        /\ thr' = [thr EXCEPT ![t].wakes_queued = @ + 1]
        /\ UNCHANGED <<timers, next_timer>>
     \/ /\ thr[t].timeout = "later"
        /\ thr' = [thr EXCEPT ![t] = [@ EXCEPT !.timer_id = next_timer,
                                               !.my_timer = next_timer]]
        /\ \E d \in TimerCpus(c) :
             timers' = timers \cup {[cpu |-> d, thread |-> t, id |-> next_timer]}
        /\ next_timer' = next_timer + 1
  /\ UNCHANGED <<obj, woken_objects, status, resume_jobs, user_jobs, running,
                 timer_job, act, expired>>

\* No wake has arrived since the last wait.
NothingQueued_NoCount(t) == thr[t].wakers = {}
NothingQueued(t) ==
  thr[t].wakers = {} /\ thr[t].wakes_taken = thr[t].wakes_queued

\* tcb.pause() switches to the scheduler's stack, which runs on_thread_paused
\* under the status lock: block, or stay runnable if a wake has arrived.
OnThreadPaused(t, c) ==
  /\ upc[t] = "pause" /\ thr[t].timeout # "poll" /\ running[c] = t
  /\ running' = [running EXCEPT ![c] = Nil]
  /\ upc' = [upc EXCEPT ![t] = "parked"]
  /\ IF NothingQueued(t)
     THEN /\ status' = [status EXCEPT ![t] = "InWait"]
          /\ UNCHANGED resume_jobs
     ELSE /\ status' = [status EXCEPT ![t] = "Runnable"]
          /\ resume_jobs' = [resume_jobs EXCEPT ![t] = @ + 1]
  /\ UNCHANGED <<obj, woken_objects, thr, user_jobs, timers, timer_job,
                 next_timer, act, expired>>
-----------------------------------------------------------------------------
(***************************************************************************)
(* Resuming it.                                                            *)
(***************************************************************************)

\* clear_wait_objects_on_wake, the thread's side: the list it is left with.
\* (Mutant: the list is kept.)
WaitObjectsOnWake_Keep(t) == thr[t].wait_objects
WaitObjectsOnWake(t) == {}

\* clear_wait_objects_on_wake, the objects' side: remove_waiting_thread.
RemoveWaiting(t) ==
  obj' = [o \in Objects |->
            IF o \in thr[t].wait_objects
            THEN [obj[o] EXCEPT !.waiting_threads = @ \ {t}] ELSE obj[o]]

\* The thread's record th once it has taken its wakes: wakes_taken :=
\* wakes_queued, timed_out := false, the wakers moved to todo.
TakeQueued(th) ==
  [th EXCEPT !.wakes_taken = th.wakes_queued, !.timed_out = FALSE,
             !.todo = th.wakers, !.wakers = {}]

\* The I/O manager's non-blocking wait: take_wakers.
TakeWakers(t) ==
  /\ upc[t] = "pause" /\ thr[t].timeout = "poll"
  /\ RemoveWaiting(t)
  /\ thr' = [thr EXCEPT ![t] = [TakeQueued(thr[t]) EXCEPT
                                  !.wait_objects = WaitObjectsOnWake(t)]]
  /\ upc' = [upc EXCEPT ![t] = "consume"]
  /\ UNCHANGED <<woken_objects, status, resume_jobs, user_jobs, running, timers,
                 timer_job, next_timer, act, expired>>

\* cancel_timeout: the thread's timer_id.  (Mutant: the id is kept.)
TimerIdOnCancel_Keep(t) == thr[t].timer_id
TimerIdOnCancel(t) == 0

\* A CPU runs job_fn_resume_in_kernel: cancel_timeout, then (next step)
\* clear_wait_objects_on_wake and the switch to the thread.
ResumeInKernel(t, c) ==
  /\ Free(c) /\ resume_jobs[t] > 0
  /\ resume_jobs' = [resume_jobs EXCEPT ![t] = @ - 1]
  /\ running' = [running EXCEPT ![c] = t]
  /\ timers' = {r \in timers : r.id # thr[t].timer_id}
  /\ thr' = [thr EXCEPT ![t].timer_id = TimerIdOnCancel(t)]
  /\ upc' = [upc EXCEPT ![t] = "resume"]
  /\ UNCHANGED <<obj, woken_objects, status, user_jobs, timer_job, next_timer,
                 act, expired>>

ResumeWaiter(t) ==
  /\ upc[t] = "resume"
  /\ RemoveWaiting(t)
  /\ thr' = [thr EXCEPT ![t].wait_objects = WaitObjectsOnWake(t)]
  /\ upc' = [upc EXCEPT ![t] = "woke"]
  /\ UNCHANGED <<woken_objects, status, resume_jobs, user_jobs, running, timers,
                 timer_job, next_timer, act, expired>>

\* Thread::wait() after tcb.pause() returns; else panic!("bad status").
WaitWoke(t) ==
  /\ upc[t] = "woke" /\ status[t] = "Runnable"
  /\ status' = [status EXCEPT ![t] = "Syscall"]
  /\ thr' = [thr EXCEPT ![t] = TakeQueued(thr[t])]
  /\ upc' = [upc EXCEPT ![t] = "consume"]
  /\ UNCHANGED <<obj, woken_objects, resume_jobs, user_jobs, running, timers,
                 timer_job, next_timer, act, expired>>

\* process_wake for every waker taken, then on_syscall_exit.
ProcessWake(t) ==
  /\ upc[t] = "consume"
  /\ obj' = [o \in Objects |->
               IF o \in thr[t].todo
               THEN [obj[o] EXCEPT !.wake_count = obj[o].wake_counter] ELSE obj[o]]
  /\ thr' = [thr EXCEPT ![t] = [@ EXCEPT
               !.handles = {}, !.todo = {}, !.timeout = "none",
               !.seen = [o \in Objects |-> 0], !.my_timer = 0]]
  /\ upc' = [upc EXCEPT ![t] = "user"]
  /\ status' = [status EXCEPT ![t] = "Running"]
  /\ UNCHANGED <<woken_objects, resume_jobs, user_jobs, running, timers, timer_job,
                 next_timer, act, expired>>

\* A timer interrupt takes a thread in userspace off its CPU
\* (on_thread_descheduled(Preempted)).
Preempt(t, c) ==
  /\ upc[t] = "user" /\ status[t] = "Running" /\ running[c] = t
  /\ running' = [running EXCEPT ![c] = Nil]
  /\ status' = [status EXCEPT ![t] = "Preempted"]
  /\ user_jobs' = [user_jobs EXCEPT ![t] = @ + 1]
  /\ UNCHANGED <<obj, woken_objects, thr, upc, resume_jobs, timers, timer_job,
                 next_timer, act, expired>>

\* Else panic!("Unexpected thread status").
ResumeInUserspace(t, c) ==
  /\ Free(c) /\ user_jobs[t] > 0 /\ status[t] = "Preempted"
  /\ user_jobs' = [user_jobs EXCEPT ![t] = @ - 1]
  /\ running' = [running EXCEPT ![c] = t]
  /\ status' = [status EXCEPT ![t] = "Running"]
  /\ UNCHANGED <<obj, woken_objects, thr, upc, resume_jobs, timers, timer_job,
                 next_timer, act, expired>>
-----------------------------------------------------------------------------
(***************************************************************************)
(* Timers.  A CPU pops an expired timer of its own and runs its job, which *)
(* first claims the thread's timer_id and then takes the status lock.      *)
(***************************************************************************)

TimerPop(c) ==
  /\ Free(c)
  /\ \E r \in timers :
       /\ r.cpu = c
       /\ timers' = timers \ {r}
       /\ timer_job' = [timer_job EXCEPT
                          ![c] = [thread |-> r.thread, id |-> r.id, owned |-> FALSE]]
       /\ expired' = expired \cup {r.id}
  /\ UNCHANGED <<obj, woken_objects, status, thr, upc, resume_jobs, user_jobs,
                 running, next_timer, act>>

\* job_fn_wake_by_timeout's compare_exchange of timer_id.
ClaimTimeout(c) ==
  LET j == timer_job[c] IN
  /\ j.thread # Nil /\ ~j.owned
  /\ IF thr[j.thread].timer_id = j.id
     THEN /\ thr' = [thr EXCEPT ![j.thread].timer_id = 0]
          /\ timer_job' = [timer_job EXCEPT ![c].owned = TRUE]
     ELSE /\ timer_job' = [timer_job EXCEPT ![c] = NoTimerJob]
          /\ UNCHANGED thr
  /\ UNCHANGED <<obj, woken_objects, status, upc, resume_jobs, user_jobs, running,
                 timers, next_timer, act, expired>>

\* The match on the thread's status shared by wake_by_timeout,
\* wake_by_object and post_wake.  (Mutants: a Runnable thread is posted again; a
\* thread whose timer has been claimed is left to the timer.)
Wakeable_Twice(t) == status[t] \in {"InWait", "Runnable"}
Wakeable_Unclaimed(t) ==
  status[t] = "InWait" /\ (thr[t].timeout = "later" => thr[t].timer_id # 0)
Wakeable(t) == status[t] = "InWait"

MakeRunnable(t) ==
  IF Wakeable(t)
  THEN /\ status' = [status EXCEPT ![t] = "Runnable"]
       /\ resume_jobs' = [resume_jobs EXCEPT ![t] = @ + 1]
  ELSE UNCHANGED <<status, resume_jobs>>

\* wake_by_timeout.
WakeByTimeout(c) ==
  LET t == timer_job[c].thread IN
  /\ t # Nil /\ timer_job[c].owned
  /\ timer_job' = [timer_job EXCEPT ![c] = NoTimerJob]
  /\ MakeRunnable(t)
  /\ thr' = [thr EXCEPT ![t].timed_out = @ \/ Wakeable(t)]
  /\ UNCHANGED <<obj, woken_objects, upc, user_jobs, running, timers, next_timer,
                 act, expired>>
-----------------------------------------------------------------------------
(***************************************************************************)
(* SysObject::wake, called from syscalls and kernel jobs.                  *)
(***************************************************************************)

\* What no step of an actor changes.
ActorFrame == UNCHANGED <<upc, user_jobs, running, timers, timer_job, next_timer,
                          expired>>

\* wake_counter.fetch_add.
Count(a, o, next) ==
  /\ obj' = [obj EXCEPT ![o].wake_counter = @ + 1]
  /\ act' = [act EXCEPT ![a] = [@ EXCEPT !.pc = next, !.obj = o]]

Wake(w, o) ==
  /\ \/ act[w].pc = "idle" /\ obj[o].wake_counter < MaxWakes
     \/ act[w].pc = "count" /\ act[w].obj = o
  /\ Count(w, o, "trylock")
  /\ ActorFrame /\ UNCHANGED <<woken_objects, status, thr, resume_jobs>>

\* The last thread of a process exits: mark_done, then wake.
MarkDone(w, o) ==
  /\ act[w].pc = "idle" /\ o \in DoneObjects /\ ~obj[o].done
  /\ obj' = [obj EXCEPT ![o].done = TRUE]
  /\ act' = [act EXCEPT ![w] = [@ EXCEPT !.pc = "count", !.obj = o]]
  /\ ActorFrame /\ UNCHANGED <<woken_objects, status, thr, resume_jobs>>

\* The try-lock fails: somebody else is waking the object.
GiveUp(a) ==
  /\ obj[act[a].obj].wake_event_lock
  /\ act' = [act EXCEPT ![a] = [@ EXCEPT !.pc = "idle", !.obj = Nil]]
  /\ UNCHANGED obj

\* is_woken: the object is on its way to take_woken already.
IsWoken_Never(o) == FALSE
IsWoken(o) == obj[o].next_woken # NotWoken

WakeTryLock(w) ==
  LET o == act[w].obj IN
  /\ act[w].pc = "trylock"
  /\ \/ GiveUp(w)
     \/ /\ ~obj[o].wake_event_lock /\ IsWoken(o)
        /\ obj' = [obj EXCEPT ![o].wake_event_lock = TRUE]
        /\ act' = [act EXCEPT ![w].pc = "unlock"]
     \/ /\ ~obj[o].wake_event_lock /\ ~IsWoken(o)
        /\ obj' = [obj EXCEPT ![o] = [@ EXCEPT !.wake_event_lock = TRUE,
                                               !.next_woken = Nil]]
        /\ act' = [act EXCEPT ![w].pc = "unlock_take"]
  /\ ActorFrame /\ UNCHANGED <<woken_objects, status, thr, resume_jobs>>

\* Both unlocks of wake() and the one of wake_irq().
WakeUnlock(a) ==
  /\ \/ /\ act[a].pc = "unlock"
        /\ act' = [act EXCEPT ![a] = [@ EXCEPT !.pc = "idle", !.obj = Nil]]
     \/ /\ act[a].pc = "unlock_take"
        /\ act' = [act EXCEPT ![a].pc = "take"]
  /\ obj' = [obj EXCEPT ![act[a].obj].wake_event_lock = FALSE]
  /\ ActorFrame /\ UNCHANGED <<woken_objects, status, thr, resume_jobs>>

\* The mark of o once it is taken: next_woken = 0.  (Mutant: it is kept.)
MarkOnTake_Kept(o) == obj[o].next_woken
MarkOnTake(o) == NotWoken

\* take_woken: spin for the lock, take the link and the waiting threads.
TakeWoken(a) ==
  LET o == act[a].obj IN
  /\ act[a].pc = "take" /\ ~obj[o].wake_event_lock
  /\ obj' = [obj EXCEPT ![o] = [@ EXCEPT !.wake_event_lock = TRUE,
                                         !.next_woken = MarkOnTake(o),
                                         !.waiting_threads = {}]]
  /\ act' = [act EXCEPT ![a] = [@ EXCEPT !.pc = "release",
                                         !.link = obj[o].next_woken,
                                         !.threads = obj[o].waiting_threads]]
  /\ ActorFrame /\ UNCHANGED <<woken_objects, status, thr, resume_jobs>>

TakeUnlock(a) ==
  /\ act[a].pc = "release"
  /\ obj' = [obj EXCEPT ![act[a].obj].wake_event_lock = FALSE]
  /\ act' = [act EXCEPT ![a].pc = "deliver"]
  /\ ActorFrame /\ UNCHANGED <<woken_objects, status, thr, resume_jobs>>

\* The handle put on the thread's list of wakers.  (Mutant: the next object's.)
WakerHandle_Next(a) == act[a].link
WakerHandle(a) == act[a].obj

\* wake_by_object for one of the threads taken.
WakeByObject(a, t) ==
  /\ act[a].pc = "deliver" /\ t \in act[a].threads
  /\ act' = [act EXCEPT ![a].threads = @ \ {t}]
  /\ thr' = [thr EXCEPT ![t].wakers = @ \cup {WakerHandle(a)}]
  /\ MakeRunnable(t)
  /\ ActorFrame /\ UNCHANGED <<obj, woken_objects>>

\* All threads woken: wake() returns, process_wake_events goes on.
Delivered(a) ==
  /\ act[a].pc = "deliver" /\ act[a].threads = {}
  /\ act' = [act EXCEPT ![a] = [@ EXCEPT
               !.pc = IF act[a].link = Nil THEN "idle" ELSE "take",
               !.obj = act[a].link, !.link = Nil]]
  /\ ActorFrame /\ UNCHANGED <<obj, woken_objects, status, thr, resume_jobs>>

\* Thread::post_wake: wakes_queued is raised before the status lock is taken.
PostWake(w, t) ==
  /\ act[w].pc = "idle" /\ thr[t].wakes_queued < MaxQueued
  /\ thr' = [thr EXCEPT ![t].wakes_queued = @ + 1]
  /\ act' = [act EXCEPT ![w] = [@ EXCEPT !.pc = "post", !.threads = {t}]]
  /\ ActorFrame /\ UNCHANGED <<obj, woken_objects, status, resume_jobs>>

PostWakeLocked(w, t) ==
  /\ act[w].pc = "post" /\ t \in act[w].threads
  /\ act' = [act EXCEPT ![w] = [@ EXCEPT !.pc = "idle", !.threads = {}]]
  /\ MakeRunnable(t)
  /\ ActorFrame /\ UNCHANGED <<obj, woken_objects, thr>>
-----------------------------------------------------------------------------
(***************************************************************************)
(* SysObject::wake_irq: the object is pushed on the list of woken objects, *)
(* which the scheduler loops drain.                                        *)
(***************************************************************************)

WakeIrq(i, o) ==
  /\ act[i].pc = "idle" /\ obj[o].wake_counter < MaxWakes
  /\ Count(i, o, "irq_trylock")
  /\ ActorFrame /\ UNCHANGED <<woken_objects, status, thr, resume_jobs>>

IrqTryLock(i) ==
  LET o == act[i].obj IN
  /\ act[i].pc = "irq_trylock"
  /\ \/ GiveUp(i)
     \/ /\ ~obj[o].wake_event_lock
        /\ obj' = [obj EXCEPT ![o].wake_event_lock = TRUE]
        /\ act' = [act EXCEPT ![i].pc = IF IsWoken(o) THEN "unlock" ELSE "link"]
  /\ ActorFrame /\ UNCHANGED <<woken_objects, status, thr, resume_jobs>>

\* on_object_woke: read the head, link the object to it ...
LinkWoken(i) ==
  /\ act[i].pc = "link"
  /\ obj' = [obj EXCEPT ![act[i].obj].next_woken = woken_objects]
  /\ act' = [act EXCEPT ![i] = [@ EXCEPT !.pc = "cas", !.link = woken_objects]]
  /\ ActorFrame /\ UNCHANGED <<woken_objects, status, thr, resume_jobs>>

\* ... and swing the head, or start over if it has moved.  (Mutant: it is swung
\* whether it has moved or not.)
HeadUnmoved_Assumed(i) == TRUE
HeadUnmoved(i) == woken_objects = act[i].link

CasWoken(i) ==
  /\ act[i].pc = "cas"
  /\ \/ /\ HeadUnmoved(i)
        /\ woken_objects' = act[i].obj
        /\ act' = [act EXCEPT ![i] = [@ EXCEPT !.pc = "unlock", !.link = Nil]]
     \/ /\ ~HeadUnmoved(i)
        /\ act' = [act EXCEPT ![i].pc = "link"]
        /\ UNCHANGED woken_objects
  /\ ActorFrame /\ UNCHANGED <<obj, status, thr, resume_jobs>>

\* process_wake_events, at the top of every iteration of the scheduler loop.
ProcessWakeEvents(c) ==
  /\ Free(c) /\ woken_objects # Nil
  /\ woken_objects' = Nil
  /\ act' = [act EXCEPT ![c] = [@ EXCEPT !.pc = "take", !.obj = woken_objects]]
  /\ ActorFrame /\ UNCHANGED <<obj, status, thr, resume_jobs>>
-----------------------------------------------------------------------------
\* A step of thread t inside sys_wait, on the CPU that runs it.
ThreadStep(t) ==
  \/ AddWaitingThread(t) \/ CheckWakeCount(t)
  \/ \E c \in Cpus : NewTimeout(t, c) \/ OnThreadPaused(t, c)
  \/ TakeWakers(t) \/ ResumeWaiter(t) \/ WaitWoke(t) \/ ProcessWake(t)

\* A step of wake(), wake_irq(), post_wake() or process_wake_events()
\* once it has started.
ActorStep(a) ==
  \/ \E o \in Objects : act[a].pc = "count" /\ Wake(a, o)
  \/ WakeTryLock(a) \/ WakeUnlock(a) \/ TakeWoken(a) \/ TakeUnlock(a)
  \/ \E t \in Threads : WakeByObject(a, t) \/ PostWakeLocked(a, t)
  \/ Delivered(a)
  \/ IrqTryLock(a) \/ LinkWoken(a) \/ CasWoken(a)

\* What callers may do at any time.
Environment ==
  \/ \E t \in Threads, S \in SUBSET Objects, to \in Timeouts : SysWait(t, S, to)
  \/ \E w \in Wakers, o \in Objects \ IrqObjects : Wake(w, o) \/ MarkDone(w, o)
  \/ \E w \in Wakers, t \in Threads : PostWake(w, t)
  \/ \E i \in Irqs, o \in IrqObjects : WakeIrq(i, o)

Next ==
  \/ Environment
  \/ \E t \in Threads : ThreadStep(t)
  \/ \E a \in Actors : ActorStep(a)
  \/ \E t \in Threads, c \in Cpus :
       Preempt(t, c) \/ ResumeInKernel(t, c) \/ ResumeInUserspace(t, c)
  \/ \E c \in Cpus : \/ TimerPop(c) \/ ClaimTimeout(c) \/ WakeByTimeout(c)
                     \/ ProcessWakeEvents(c)

\* Threads in the kernel and wakes in progress run on CPUs, hence finish.  The
\* 20 ms tick preempts userspace, and the scheduler loop serves jobs, timers
\* and wake events in turn: each is reached again and again (SF).  No fairness
\* on Environment: nobody has to wait or to wake.
Fairness ==
  /\ \A t \in Threads : WF_vars(ThreadStep(t))
  /\ \A a \in Actors : SF_vars(ActorStep(a))
  /\ \A t \in Threads : WF_vars(\E c \in Cpus : Preempt(t, c))
  /\ \A t \in Threads :
       SF_vars(\E c \in Cpus : ResumeInKernel(t, c) \/ ResumeInUserspace(t, c))
  /\ \A c \in Cpus : /\ SF_vars(TimerPop(c))
                     /\ WF_vars(ClaimTimeout(c) \/ WakeByTimeout(c))
                     /\ SF_vars(ProcessWakeEvents(c))

Spec == Init /\ [][Next]_vars
FairSpec == Spec /\ Fairness
-----------------------------------------------------------------------------
ObjectType == [wake_counter : Nat, done : BOOLEAN, wake_event_lock : BOOLEAN,
               next_woken : Objects \cup {Nil, NotWoken},
               waiting_threads : SUBSET Threads, wake_count : Nat]
ThreadType == [wakers : SUBSET Objects, wakes_queued : Nat, wakes_taken : Nat,
               timed_out : BOOLEAN, timer_id : Nat, wait_objects : SUBSET Objects,
               handles : SUBSET Objects, todo : SUBSET Objects,
               cur : Objects \cup {Nil}, timeout : TimeoutKinds,
               seen : [Objects -> Nat], my_timer : Nat]
ActorType  == [pc : ActorPcs, obj : Objects \cup {Nil, NotWoken},
               link : Objects \cup {Nil, NotWoken}, threads : SUBSET Threads]

\* Every variable has its type.
TypeOK ==
  /\ obj \in [Objects -> ObjectType]
  /\ woken_objects \in Objects \cup {Nil}
  /\ status \in [Threads -> Statuses]
  /\ thr \in [Threads -> ThreadType]
  /\ upc \in [Threads -> UserPcs]
  /\ resume_jobs \in [Threads -> Nat]
  /\ user_jobs \in [Threads -> Nat]
  /\ running \in [Cpus -> Threads \cup {Nil}]
  /\ timers \subseteq TimerRecs
  /\ timer_job \in [Cpus -> [thread : Threads \cup {Nil}, id : Nat, owned : BOOLEAN]]
  /\ next_timer \in Nat
  /\ act \in [Actors -> ActorType]
  /\ expired \subseteq Nat

OnCpu(t) == \E c \in Cpus : running[c] = t

\* process.rs resumes a thread wherever a job for it is popped, without
\* looking at its status ("@self is not currently running").  So a thread
\* must have at most one way to run: on one CPU, or by one posted job.
OneWayToRun ==
  \A t \in Threads :
    /\ \A c, d \in Cpus : running[c] = t /\ running[d] = t => c = d
    /\ OnCpu(t) => resume_jobs[t] = 0 /\ user_jobs[t] = 0
    /\ resume_jobs[t] + user_jobs[t] <= 1

\* The asserts and panics on the waiting side: wait() is resumed only as
\* Runnable, resume_in_userspace only as Preempted, add_wait_objects finds the
\* list empty and new_timeout finds no timer.
WaitAsserts ==
  \A t \in Threads :
    /\ upc[t] \in {"resume", "woke"} => status[t] = "Runnable"
    /\ user_jobs[t] > 0 => status[t] = "Preempted"
    /\ upc[t] \in {"register", "check"} => thr[t].wait_objects = {}
    /\ upc[t] \in {"user", "register", "check", "timeout"} => thr[t].timer_id = 0

\* The woken list: whoever is about to take_woken finds the object marked
\* (next_woken - 1 cannot underflow), wake() finds no link behind its object
\* (assert_eq!(next, 0)), and no object is taken by two at once.
WokenListSound ==
  \A a \in Actors :
    /\ act[a].pc \in {"unlock_take", "take"} => IsWoken(act[a].obj)
    /\ a \in Wakers /\ act[a].pc \in {"release", "deliver"} => act[a].link = Nil
    /\ \A b \in Actors \ {a} :
         ~ /\ {act[a].pc, act[b].pc} \subseteq {"unlock_take", "take"}
           /\ act[a].obj = act[b].obj

\* Somebody will take o without looking for it: the head of the list is o, or
\* an actor has o in its hand, before take_woken or while it links it.
Held(o) ==
  \/ woken_objects = o
  \/ \E a \in Actors :
       \/ act[a].obj = o /\ act[a].pc \in {"unlock_take", "take", "link", "cas"}
       \/ act[a].link = o /\ act[a].pc \in {"release", "deliver"}

\* A marked object is never out of reach: wake() and wake_irq() leave an object
\* alone that is marked, so one that no list led to would never be woken again.
\* Every set of marked objects is entered from outside, by somebody who holds
\* a member of it or by the link of a marked object that is not in it.
MarkedIsReachable ==
  \A S \in SUBSET {o \in Objects : IsWoken(o)} :
    S # {} => \E o \in S : \/ Held(o)
                           \/ \E p \in Objects \ S : obj[p].next_woken = o

\* Nobody is waking o and o is not on the woken list.
Quiet(o) ==
  (\A a \in Actors : act[a].obj # o) /\ obj[o].next_woken = NotWoken

Asleep(t, o) == status[t] = "InWait" /\ o \in thr[t].wait_objects

\* "Each wake increments the counter; each waiter stores the last delivered
\* wake counter value, thus ensuring that wake events are not lost"
\* (sysobject.rs): once all wakes of o have run, no thread sleeps on o with a
\* wake that its process has not consumed.
NoLostWake ==
  \A t \in Threads, o \in Objects :
    Asleep(t, o) /\ Quiet(o) => obj[o].wake_count = obj[o].wake_counter

\* "Some objects wake once and then always stay woken, e.g. process
\* completions": nobody sleeps on an object that is done and quiet.
DoneStaysWoken ==
  \A t \in Threads, o \in Objects : Asleep(t, o) /\ Quiet(o) => ~obj[o].done

\* wake_by_timeout reports a timeout to the wait that armed the timer: a wait
\* returns timed_out only if its own timer has expired.
TimeoutIsOwn ==
  \A t \in Threads : thr[t].timed_out => thr[t].my_timer \in expired

\* A wait with a timer ends, however the timer races with other wakes.
TimedWaitEnds ==
  \A t \in Threads :
    status[t] = "InWait" /\ thr[t].my_timer # 0 ~> status[t] # "InWait"

\* A direct wake of a thread (post_wake) is not lost: a thread with wakes
\* queued and not taken does not stay asleep.
QueuedWakeEnds ==
  \A t \in Threads :
    status[t] = "InWait" /\ thr[t].wakes_queued # thr[t].wakes_taken
      ~> status[t] # "InWait"

\* An object that is marked delivers its wake: a thread that is registered on it
\* does not stay asleep.  wake() and wake_irq() of an object that is marked
\* already return at once and leave their wake to whoever takes it.
MarkedWakeEnds ==
  \A t \in Threads, o \in Objects :
    status[t] = "InWait" /\ t \in obj[o].waiting_threads /\ IsWoken(o)
      ~> status[t] # "InWait"
=============================================================================
