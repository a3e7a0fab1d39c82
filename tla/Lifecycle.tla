----------------------------- MODULE Lifecycle -----------------------------
(***************************************************************************)
(* The life of one process and its threads (uspace/process.rs): creation,  *)
(* start, syscalls, preemption, faults, exit, kill, and the debugger's     *)
(* pause and resume.                                                       *)
(*                                                                         *)
(* A step is one critical section of Process::status or Thread::status.    *)
(* What a thread waits for, and who wakes it, is the subject of WaitWake:  *)
(* here a wait may be ended by any wake.  The loop of post_kill over the   *)
(* threads of a process runs under the lock of Process::status and is one  *)
(* step.                                                                   *)
(***************************************************************************)
EXTENDS Integers

CONSTANTS
  Threads,         \* thread ids
  Main,            \* the id of the process's main thread
  Codes,           \* exit codes; "0" and "max" (u64::MAX) are among them
  Events,          \* what happens around the process: subset of AllEvents
  DebugAssertions, \* is this a build with debug_assertions?
  MaxJobs          \* bound: start jobs of a thread pending at once

\* "kill": the process is killed by handle; "die": by pid, by a peer or after
\* its parent; "early": even before its main thread was first woken; "rewake":
\* post_wake of a thread that has a start job already; "oom": no memory for a
\* kernel stack; "pagefault": a bad address in user code; "exception": another
\* CPU exception there; "guard": the guard word of the thread's user TCB is
\* overwritten; "debug": a debugger is attached.
AllEvents ==
  {"kill", "die", "early", "rewake", "oom", "pagefault", "exception", "guard",
   "debug"}

LiveKinds == {"Running", "Preempted", "Runnable", "Syscall", "InWait"}
Reasons == {"GPF", "PageFault", "MainThreadExited", "ProcessKilled"}

ASSUME Constants ==
  /\ Main \in Threads
  /\ {"0", "max"} \subseteq Codes
  /\ Events \subseteq AllEvents
  /\ DebugAssertions \in BOOLEAN
  /\ MaxJobs \in Nat \ {0}

\* ThreadStatus and ProcessStatus: a variant and its payload.
Status(tag, arg) == [tag |-> tag, arg |-> arg]
Plain(tag) == Status(tag, "")
Live(l) == Status("Live", l)
PausedDebuggee(l) == Status("PausedDebuggee", l)
Killed(r) == Status("Killed", r)

Absent == Plain("Absent")     \* no such thread yet

ThreadStatuses ==
  {Absent} \cup {Plain(tag) : tag \in {"Created", "Finished", "Error"}}
  \cup {Live(l) : l \in LiveKinds} \cup {PausedDebuggee(l) : l \in LiveKinds}
  \cup {Status("Exited", c) : c \in Codes} \cup {Killed(r) : r \in Reasons}

ProcessStatuses ==
  {Plain(tag) : tag \in {"Created", "Running", "PausedDebuggee", "Error",
                         "Killed"}}
  \cup {Status("Exiting", c) : c \in Codes}
  \cup {Status("Exited", c) : c \in Codes}

\* Jobs on the scheduler's queues, and how far a running job has come:
\* "start": job_fn_start; "checked", "failed": do_start after the section on
\* the process; "kernel", "user": job_fn_resume_in_kernel / _in_userspace;
\* "exited": Thread::on_thread_exited, as a job or called directly;
\* "process", "last": the two sections of Process::on_thread_exited.
Jobs == {"start", "checked", "failed", "kernel", "user", "exited", "process",
         "last"}

\* Where the thread's own code is.  "off": not started, or gone for good;
\* "starting": before on_thread_starting; "spawning", "spawned": inside
\* spawn_thread; "returning": the syscall has nothing left to do; "pausing":
\* calls tcb.pause(), on_thread_paused not yet run; "woke": resumed in
\* Thread::wait, its status not yet looked at; "excepted": thrown off the CPU by
\* an exception, KilledGpf not yet handled; "segfaulted": thrown off it by a
\* failed check of the guard word, KilledSf not yet handled.
OnCpu == {"starting", "user", "kernel", "spawning", "spawned", "returning",
          "pausing", "woke", "excepted", "segfaulted"}
Places == OnCpu \cup {"off", "paused", "preempted"}

VARIABLES
  process, \* [status, paused_debuggee, active_threads, self_object]
  threads, \* Process::threads
  thread,  \* per thread [status, objects, pc, pause_at, child, posted, last]
  jobs     \* per thread, how many jobs of each kind

vars == <<process, threads, thread, jobs>>

NewThread ==
  [status |-> Absent, objects |-> FALSE, pc |-> "off", pause_at |-> "wait",
   child |-> Main, posted |-> FALSE, last |-> Absent]

\* Process::new, with Thread::new for the main thread.
Init ==
  /\ process = [status |-> Plain("Created"), paused_debuggee |-> FALSE,
                active_threads |-> 1, self_object |-> TRUE]
  /\ threads = {Main}
  /\ thread = [[t \in Threads |-> NewThread] EXCEPT
                 ![Main] = [@ EXCEPT !.status = Plain("Created"),
                                     !.objects = TRUE]]
  /\ jobs = [t \in Threads |-> [j \in Jobs |-> 0]]

Dead(s) == s.tag \in {"Finished", "Exited", "Error", "Killed"}

Posted(js, t, j) == [js EXCEPT ![t] = [@ EXCEPT ![j] = @ + 1]]
Taken(js, t, j) == [js EXCEPT ![t] = [@ EXCEPT ![j] = @ - 1]]

\* The thread's next status and place; everything else stays.
Goes(t, s, pc) ==
  /\ thread' = [thread EXCEPT ![t] = [@ EXCEPT !.status = s, !.pc = pc]]
  /\ UNCHANGED <<process, threads>>

\* The thread has left its CPU for good: on_thread_exited is called or posted.
Leaves(t, s) == Goes(t, s, "off") /\ jobs' = Posted(jobs, t, "exited")

----------------------------------------------------------------------------
(* Starting a thread *)

\* post_start, from Process::start, spawn_thread or post_wake.
PostStart(t) ==
  /\ thread' = [thread EXCEPT ![t] = [@ EXCEPT !.posted = TRUE]]
  /\ jobs' = Posted(jobs, t, "start")
  /\ UNCHANGED <<process, threads>>

\* post_wake of a Created thread.  The parent's first wake of the main thread
\* is what starts a process.
WakeCreated(t) ==
  /\ thread[t].status = Plain("Created")
  /\ \/ t = Main /\ ~thread[t].posted
     \/ /\ "rewake" \in Events /\ t \in threads
        /\ jobs[t]["start"] + jobs[t]["checked"] + jobs[t]["failed"] < MaxJobs
  /\ PostStart(t)

\* do_start, the section on the process's status.
DoStartProcess(t) ==
  /\ jobs[t]["start"] > 0
  /\ \/ /\ process.status.tag \in {"Created", "Running"}
        /\ jobs' = Posted(Taken(jobs, t, "start"), t, "checked")
        /\ UNCHANGED process
     \/ /\ process.status.tag \in {"Created", "Running"}
        /\ "oom" \in Events
        /\ process' = [process EXCEPT !.status = Plain("Error")]
        /\ jobs' = Posted(Taken(jobs, t, "start"), t, "failed")
     \/ /\ process.status.tag \notin {"Created", "Running"}
        /\ jobs' = Posted(Taken(jobs, t, "start"), t, "failed")
        /\ UNCHANGED process
  /\ UNCHANGED <<threads, thread>>

DoStartError(t) ==
  /\ jobs[t]["failed"] > 0
  /\ jobs' = Posted(Taken(jobs, t, "failed"), t, "exited")
  /\ Goes(t, Plain("Error"), thread[t].pc)

\* do_start, the section on the thread's status.
DoStartThread(t) ==
  /\ jobs[t]["checked"] > 0
  /\ \/ /\ thread[t].status = Plain("Created")
        /\ jobs' = Taken(jobs, t, "checked")
        /\ Goes(t, Live("Running"), "starting")
     \/ /\ thread[t].status.tag = "Killed"
        /\ jobs' = Posted(Taken(jobs, t, "checked"), t, "exited")
        /\ UNCHANGED <<process, threads, thread>>

OnThreadStarting(t) ==
  /\ thread[t].pc = "starting"
  /\ \/ /\ process.status.tag \in {"Created", "Running"}
        /\ process' = [process EXCEPT !.status = Plain("Running")]
        /\ thread' = [thread EXCEPT ![t] = [@ EXCEPT !.pc = "user"]]
        /\ UNCHANGED <<threads, jobs>>
     \/ /\ process.status.tag = "Exiting"
        /\ Leaves(t, Killed("ProcessKilled"))

----------------------------------------------------------------------------
(* Syscalls *)

\* Thread::die of a thread that was killed while it ran, then KilledOther.
Die(t) ==
  /\ thread[t].status.tag = "Killed"
  /\ thread[t].status.arg \in {"MainThreadExited", "ProcessKilled"}
  /\ Leaves(t, thread[t].status)

Pauses(t, l, at) ==
  /\ thread' = [thread EXCEPT ![t] =
                  [@ EXCEPT !.status = PausedDebuggee(l), !.pc = "pausing",
                            !.pause_at = at]]
  /\ UNCHANGED <<process, threads, jobs>>

\* The guard word of the user TCB is checked before the status is looked at.
OnSyscallEnter(t) ==
  /\ thread[t].pc = "user"
  /\ \/ /\ thread[t].status = Live("Running")
        /\ IF process.paused_debuggee
             THEN Pauses(t, "Syscall", "enter")
             ELSE Goes(t, Live("Syscall"), "kernel") /\ UNCHANGED jobs
     \/ Die(t)
     \/ /\ "guard" \in Events
        /\ Goes(t, thread[t].status, "segfaulted") /\ UNCHANGED jobs

OnSyscallExit(t) ==
  /\ thread[t].pc \in {"kernel", "returning"}
  /\ \/ /\ thread[t].status = Live("Syscall")
        /\ IF process.paused_debuggee
             THEN Pauses(t, "Running", "exit")
             ELSE Goes(t, Live("Running"), "user") /\ UNCHANGED jobs
     \/ Die(t)

\* SysCpu::OP_EXIT, and OP_PUT of SELF (finish): a thread that is already dead
\* in one of the ways of kept keeps its status.
Leave(t, s, kept) ==
  /\ thread[t].pc = "kernel"
  /\ \/ thread[t].status.tag = "Live" /\ Leaves(t, s)
     \/ thread[t].status.tag \in kept /\ Leaves(t, thread[t].status)
Exit(t, c) == Leave(t, Status("Exited", c), {"Error", "Killed"})
Finish(t) == Leave(t, Plain("Finished"), {"Error", "Killed", "Exited"})

\* spawn_thread: Thread::new, the section on the process, post_start.
SpawnNew(t, c) ==
  /\ thread[t].pc = "kernel"
  /\ thread[c].status = Absent
  /\ thread' = [thread EXCEPT
       ![t] = [@ EXCEPT !.pc = "spawning", !.child = c],
       ![c] = [@ EXCEPT !.status = Plain("Created"), !.objects = TRUE]]
  /\ process' = [process EXCEPT !.active_threads = @ + 1]
  /\ UNCHANGED <<threads, jobs>>

CanSpawn_Always(ps) == ps.tag \in {"Running", "Exiting"}
CanSpawn(ps) == ps = Plain("Running")

SpawnInsert(t) ==
  /\ thread[t].pc = "spawning"
  /\ LET ok == CanSpawn(process.status) IN
       /\ threads' = IF ok THEN threads \cup {thread[t].child} ELSE threads
       /\ thread' = [thread EXCEPT ![t] =
                       [@ EXCEPT !.pc = IF ok THEN "spawned" ELSE "returning"]]
  /\ UNCHANGED <<process, jobs>>

SpawnPostStart(t) ==
  /\ thread[t].pc = "spawned"
  /\ thread' = [thread EXCEPT ![t] = [@ EXCEPT !.pc = "returning"],
                              ![thread[t].child] = [@ EXCEPT !.posted = TRUE]]
  /\ jobs' = Posted(jobs, thread[t].child, "start")
  /\ UNCHANGED <<process, threads>>

----------------------------------------------------------------------------
(* Waiting, and getting off a CPU *)

\* Thread::wait calls tcb.pause().
Wait(t) ==
  /\ thread[t].pc = "kernel"
  /\ thread' = [thread EXCEPT ![t] =
                  [@ EXCEPT !.pc = "pausing", !.pause_at = "wait"]]
  /\ UNCHANGED <<process, threads, jobs>>

OnThreadPaused(t) ==
  /\ thread[t].pc = "pausing"
  /\ \/ /\ thread[t].status = Live("Syscall")
        /\ Goes(t, Live("InWait"), "paused") /\ UNCHANGED jobs
     \/ /\ thread[t].status = Live("Syscall")
        /\ jobs' = Posted(jobs, t, "kernel")
        /\ Goes(t, Live("Runnable"), "paused")
     \/ /\ thread[t].status.tag = "PausedDebuggee"
        /\ Goes(t, thread[t].status, "paused") /\ UNCHANGED jobs
     \/ thread[t].status.tag = "Killed" /\ Leaves(t, thread[t].status)

\* post_wake, wake_by_object or wake_by_timeout of a waiting thread.
Wakeable_Paused(t) == thread[t].pc = "paused"
Wakeable(t) == thread[t].status = Live("InWait")

Wake(t) ==
  /\ Wakeable(t)
  /\ jobs' = Posted(jobs, t, "kernel")
  /\ Goes(t, Live("Runnable"), thread[t].pc)

\* "@self is not currently running": tcb.resume() needs the context that
\* pause() saved.
ResumeInKernel(t) ==
  /\ jobs[t]["kernel"] > 0
  /\ thread[t].pc = "paused"
  /\ jobs' = Taken(jobs, t, "kernel")
  /\ Goes(t, thread[t].status, CASE thread[t].pause_at = "wait" -> "woke"
                                 [] thread[t].pause_at = "enter" -> "kernel"
                                 [] thread[t].pause_at = "exit" -> "user")

WaitWoke(t) ==
  /\ thread[t].pc = "woke"
  /\ \/ /\ thread[t].status = Live("Runnable")
        /\ Goes(t, Live("Syscall"), "returning") /\ UNCHANGED jobs
     \/ Die(t)

\* A timer tick or another interrupt, or a page fault that fix_pagefault
\* repairs, in user code.
Preempt(t) ==
  /\ thread[t].pc = "user"
  /\ \/ /\ thread[t].status = Live("Running")
        /\ process.paused_debuggee
        /\ Goes(t, PausedDebuggee("Preempted"), "preempted") /\ UNCHANGED jobs
     \/ /\ thread[t].status = Live("Running")
        /\ ~process.paused_debuggee
        /\ jobs' = Posted(jobs, t, "user")
        /\ Goes(t, Live("Preempted"), "preempted")
     \/ thread[t].status.tag = "Killed" /\ Leaves(t, thread[t].status)

ResumeInUserspace(t) ==
  /\ jobs[t]["user"] > 0
  /\ \/ /\ thread[t].status = Live("Preempted")
        /\ jobs' = Taken(jobs, t, "user")
        /\ IF process.paused_debuggee
             THEN Goes(t, PausedDebuggee("Preempted"), "preempted")
             ELSE Goes(t, Live("Running"), "user")
     \/ /\ thread[t].status.tag = "Killed"
        /\ jobs' = Taken(jobs, t, "user")
        /\ UNCHANGED <<process, threads, thread>>

\* A page fault that cannot be repaired.
PageFault(t) ==
  /\ "pagefault" \in Events
  /\ thread[t].pc = "user"
  /\ \/ thread[t].status = Live("Running") /\ Leaves(t, Killed("PageFault"))
     \/ thread[t].status.tag = "Killed" /\ Leaves(t, thread[t].status)

\* Any other exception in user code: the thread is thrown off the CPU, and
\* on_thread_descheduled gets KilledGpf.
Exception(t) ==
  /\ "exception" \in Events
  /\ thread[t].pc = "user"
  /\ Goes(t, thread[t].status, "excepted")
  /\ UNCHANGED jobs

KilledGpf(t) ==
  /\ thread[t].pc = "excepted"
  /\ \/ thread[t].status = Live("Running") /\ Leaves(t, Killed("GPF"))
     \/ /\ thread[t].status = Killed("ProcessKilled")
        /\ Leaves(t, thread[t].status)

----------------------------------------------------------------------------
(* Killing *)

\* post_kill of every thread of ts.
KilledStatus_NotInSyscall(s, reason) ==
  IF Dead(s) \/ s = Live("Syscall") THEN s ELSE Killed(reason)
KilledStatus(s, reason) == IF Dead(s) THEN s ELSE Killed(reason)

KillJob_NotInWait(s) == IF s = Live("Preempted") THEN {"exited"} ELSE {}
KillJob_Running(s) ==
  CASE s = Live("InWait") -> {"kernel"}
    [] s \in {Live("Preempted"), Live("Running")} -> {"exited"}
    [] OTHER -> {}
KillJob(s) ==
  CASE s = Live("InWait") -> {"kernel"}
    [] s = Live("Preempted") -> {"exited"}
    [] OTHER -> {}

PostKill(js, ts, reason) ==
  /\ thread' = [t \in Threads |->
       IF t \in ts
         THEN [thread[t] EXCEPT
                 !.status = KilledStatus(thread[t].status, reason)]
         ELSE thread[t]]
  /\ jobs' = [t \in Threads |-> [j \in Jobs |->
       IF t \in ts /\ j \in KillJob(thread[t].status)
         THEN js[t][j] + 1 ELSE js[t][j]]]

\* Process::kill, by handle (of a paused debuggee it is todo!()), and
\* Process::die: by pid, by a peer, or after the parent is gone.
KillBy(event, tags) ==
  /\ event \in Events
  /\ "early" \in Events \/ thread[Main].posted
  /\ process.status.tag \in tags
  /\ process' = [process EXCEPT !.status = Status("Exiting", "max")]
  /\ PostKill(jobs, threads, "ProcessKilled")
  /\ UNCHANGED threads
Kill == KillBy("kill", {"Created", "Running"})
ProcessDie == KillBy("die", {"Created", "Running", "PausedDebuggee"})

----------------------------------------------------------------------------
(* Exiting *)

\* The Weak<Thread> of a job no longer upgrades.
Dropped(t) == t \notin threads /\ (t = Main => ~process.self_object)

\* Thread::on_thread_exited up to the call of Process::on_thread_exited.
OnThreadExited(t) ==
  /\ jobs[t]["exited"] > 0
  /\ \/ /\ Dropped(t)
        /\ jobs' = Taken(jobs, t, "exited")
        /\ UNCHANGED <<process, threads, thread>>
     \/ /\ ~Dropped(t) /\ thread[t].objects
        /\ Dead(thread[t].status)
        /\ thread' = [thread EXCEPT ![t] =
             [@ EXCEPT !.objects = FALSE, !.last = thread[t].status]]
        /\ jobs' = Posted(Taken(jobs, t, "exited"), t, "process")
        /\ UNCHANGED <<process, threads>>

\* The process status that the exit of t with status s asks for.
ExitCode_Payload(s) == IF s.tag = "Finished" THEN "0" ELSE s.arg
ExitCode(s) == CASE s.tag = "Finished" -> "0"
                 [] s.tag = "Exited" -> s.arg
                 [] OTHER -> "max"

Exiting_Overwrite(ps, s) == Status("Exiting", ExitCode(s))
Exiting(ps, s) ==
  IF ps.tag = "Exiting" THEN ps ELSE Status("Exiting", ExitCode(s))

\* Process::on_thread_exited, the first section.
MayLoseThread ==
  process.status.tag \in {"Running", "Exiting"} \/ ~DebugAssertions

ProcessThreadExited(t) ==
  LET last == thread[t].last
      rest == threads \ {t}
      ends == rest # {} /\ (t = Main \/ last.tag # "Finished")
  IN
  /\ jobs[t]["process"] > 0
  /\ MayLoseThread /\ t \in threads
  /\ threads' = rest
  /\ process' = [process EXCEPT
       !.active_threads = @ - 1,
       !.status = IF ends THEN Exiting(@, last) ELSE @]
  /\ PostKill(IF rest = {} THEN Posted(Taken(jobs, t, "process"), t, "last")
                           ELSE Taken(jobs, t, "process"),
              IF ends THEN rest ELSE {},
              IF t = Main THEN "MainThreadExited" ELSE "ProcessKilled")

\* The second section, when no thread is left.
FinalStatus(ps, main) ==
  CASE ps.tag = "Exiting" -> Status("Exited", ps.arg)
    [] ps.tag = "Error" -> ps
    [] ps.tag = "Running" /\ main.tag = "Killed" -> Plain("Killed")
    [] OTHER -> Status("Exited", ExitCode(main))

MayFinish ==
  \/ process.status.tag \in {"Exiting", "Error"}
  \/ /\ process.status.tag = "Running"
     /\ thread[Main].status.tag \in {"Finished", "Exited", "Killed"}

ProcessExited(t) ==
  /\ jobs[t]["last"] > 0
  /\ MayFinish
  /\ process' = [process EXCEPT
       !.self_object = FALSE,
       !.status = FinalStatus(@, thread[Main].status)]
  /\ jobs' = Taken(jobs, t, "last")
  /\ UNCHANGED <<threads, thread>>

----------------------------------------------------------------------------
(* The debugger *)

DbgPause ==
  /\ "debug" \in Events
  /\ process.status.tag = "Running"
  /\ process' = [process EXCEPT !.status = Plain("PausedDebuggee"),
                                !.paused_debuggee = TRUE]
  /\ UNCHANGED <<threads, thread, jobs>>

DbgResume ==
  /\ process.status.tag = "PausedDebuggee"
  /\ process' = [process EXCEPT !.status = Plain("Running"),
                                !.paused_debuggee = FALSE]
  /\ UNCHANGED <<threads, thread, jobs>>

\* dbg_resume_thread and resume_debuggee.
DbgResumeThread(t) ==
  LET s == thread[t].status IN
  /\ process.status.tag = "Running" /\ t \in threads
  /\ s.tag = "PausedDebuggee"
  /\ \/ /\ s.arg \in {"Running", "Syscall"}
        /\ jobs' = Posted(jobs, t, "kernel")
        /\ Goes(t, Live(s.arg), thread[t].pc)
     \/ /\ s.arg = "Preempted"
        /\ jobs' = Posted(jobs, t, "user")
        /\ Goes(t, Live(s.arg), thread[t].pc)

----------------------------------------------------------------------------
(* The assertions, unwraps and panics of the handlers above: the statuses they
   are not written for.  The kernel stops there. *)

ThreadPanics(t) ==
  LET s == thread[t].status  pc == thread[t].pc  j == jobs[t] IN
  \/ j["checked"] > 0 /\ s.tag \notin {"Created", "Killed"}
  \/ /\ pc = "starting"
     /\ process.status.tag \notin {"Created", "Running", "Exiting"}
  \/ pc = "user" /\ s # Live("Running") /\ s.tag # "Killed"
  \/ /\ pc \in {"kernel", "returning"}
     /\ s # Live("Syscall") /\ s.tag # "Killed"
  \/ /\ pc = "pausing" /\ s # Live("Syscall")
     /\ s.tag \notin {"PausedDebuggee", "Killed"}
  \/ j["kernel"] > 0 /\ pc # "paused"
  \/ pc = "woke" /\ s # Live("Runnable") /\ s.tag # "Killed"
  \/ j["user"] > 0 /\ s # Live("Preempted") /\ s.tag # "Killed"
  \/ pc \in {"user", "kernel", "returning", "woke"} /\ s.tag = "Killed"
       /\ s.arg \notin {"MainThreadExited", "ProcessKilled"}
  \/ pc = "excepted" /\ s \notin {Live("Running"), Killed("ProcessKilled")}
  \/ pc = "segfaulted" /\ s # Live("Syscall")
  \/ s \in {PausedDebuggee("Runnable"), PausedDebuggee("InWait")}

ExitPanics(t) ==
  \/ /\ jobs[t]["exited"] > 0 /\ ~Dropped(t)
     /\ ~thread[t].objects \/ ~Dead(thread[t].status)
  \/ jobs[t]["process"] > 0 /\ ~(MayLoseThread /\ t \in threads)
  \/ jobs[t]["last"] > 0 /\ ~MayFinish

Panics == \E t \in Threads : ThreadPanics(t) \/ ExitPanics(t)

----------------------------------------------------------------------------
\* The kernel's own steps: they happen without anyone asking for them.
KernelStep(t) ==
  \/ DoStartProcess(t) \/ DoStartError(t) \/ DoStartThread(t)
  \/ OnThreadStarting(t) \/ SpawnInsert(t) \/ SpawnPostStart(t)
  \/ OnThreadPaused(t) \/ ResumeInKernel(t) \/ WaitWoke(t)
  \/ ResumeInUserspace(t) \/ KilledGpf(t)
  \/ OnThreadExited(t) \/ ProcessThreadExited(t) \/ ProcessExited(t)

\* What the thread's program chooses to do, or runs into.
UserStep(t) ==
  \/ OnSyscallEnter(t) \/ Finish(t) \/ Wait(t)
  \/ \E c \in Codes : Exit(t, c)
  \/ \E c \in Threads : SpawnNew(t, c)
  \/ PageFault(t) \/ Exception(t)

Environment ==
  \/ \E t \in Threads : WakeCreated(t) \/ Wake(t) \/ DbgResumeThread(t)
  \/ Kill \/ ProcessDie \/ DbgPause \/ DbgResume

Next ==
  /\ ~Panics
  /\ \/ \E t \in Threads : \/ KernelStep(t) \/ UserStep(t)
                           \/ OnSyscallExit(t) \/ Preempt(t)
     \/ Environment

Spec == Init /\ [][Next]_vars

\* A thread's jobs are run, its syscalls return unless they end in another
\* way, and in user code it meets a timer tick: each thread that has something
\* of this to do gets on with one of them.  (After a panic nothing runs, so
\* this is for configurations in which nothing panics.)
Fairness ==
  \A t \in Threads : WF_vars(KernelStep(t) \/ OnSyscallExit(t) \/ Preempt(t))

FairSpec == Spec /\ Fairness

----------------------------------------------------------------------------
(* Properties *)

TypeOK ==
  /\ process \in [status : ProcessStatuses, paused_debuggee : BOOLEAN,
                  active_threads : Int, self_object : BOOLEAN]
  /\ threads \subseteq Threads
  /\ thread \in [Threads ->
       [status : ThreadStatuses, objects : BOOLEAN, pc : Places,
        pause_at : {"wait", "enter", "exit"}, child : Threads,
        posted : BOOLEAN, last : ThreadStatuses]]
  /\ jobs \in [Threads -> [Jobs -> Nat]]

\* A process whose threads only run, fault on bad addresses, exit and are killed
\* never brings a handler of process.rs to a status that its panic!, unwrap or
\* assert excludes, in whatever order exits and kills overtake the starts,
\* waits and preemptions of the other threads.  (A second start, a CPU
\* exception, a failed guard check, a debugger and, with debug_assertions,
\* missing memory do reach a panic.)
NoPanic == Events \subseteq {"kill", "die", "pagefault"} => ~Panics

\* How many owners a thread has: the CPU that runs it, or a job that will run
\* or bury it.  A resume_in_userspace job that was overtaken by a kill does
\* nothing, so it owns nothing.
Owners(t) ==
  (IF thread[t].pc \in OnCpu THEN 1 ELSE 0)
  + (IF thread[t].status = Live("Preempted") THEN jobs[t]["user"] ELSE 0)
  + jobs[t]["start"] + jobs[t]["checked"] + jobs[t]["failed"]
  + jobs[t]["kernel"] + jobs[t]["exited"] + jobs[t]["process"]

\* Nothing will run the thread until someone wakes, starts or resumes it.
Parked(t) ==
  \/ thread[t].status \in {Live("InWait"), PausedDebuggee("Preempted")}
  \/ thread[t].status.tag = "PausedDebuggee" /\ thread[t].pc = "paused"
  \/ ~thread[t].posted

\* on_thread_exited is neither called twice nor forgotten (the worry of the
\* comment in post_kill): every thread of the process that is not parked has
\* exactly one owner.
OneOwner ==
  \A t \in threads : Owners(t) = (IF Parked(t) THEN 0 ELSE 1)

\* A process that is on its way out has no thread that is not on its way out:
\* kill and main-thread exit reach every thread, spawn_thread adds no more.
ExitingIsFinal ==
  process.status.tag = "Exiting" => \A t \in threads : Dead(thread[t].status)

\* When waiters are told that the process is done, no thread of it runs, waits
\* or will be resumed.
ExitedIsQuiet ==
  ~process.self_object =>
    /\ threads = {}
    /\ \A t \in Threads : thread[t].pc \in {"off", "preempted"}
                          /\ jobs[t]["start"] + jobs[t]["kernel"] = 0

\* The first reason to exit decides the exit code, whoever exits or kills
\* later; and a finished process stays finished.
ExitCodeIsKept ==
  [][/\ process.status.tag = "Exiting" =>
          process'.status \in {process.status,
                               Status("Exited", process.status.arg)}
     /\ process.status.tag \in {"Exited", "Killed"} =>
          process'.status = process.status]_vars

\* Thread::status: a dead thread never lives again.
DeadIsForever ==
  [][\A t \in Threads : Dead(thread[t].status) => Dead(thread'[t].status)]_vars

\* resume_in_kernel: "@self is not currently running", so tcb.resume() finds
\* the context that pause() saved.
ResumeOnlyPaused ==
  \A t \in Threads : jobs[t]["kernel"] > 0 => thread[t].pc = "paused"

\* KProcessStats::process_dropped asserts that a process that is gone has no
\* active threads.
NoActiveThreadsLeft == ~process.self_object => process.active_threads = 0

\* A process that was killed, or whose main thread left, does finish.
ExitCompletes == process.status.tag = "Exiting" ~> ~process.self_object

\* ProcessStatus: the threads of a PausedDebuggee process all pause.
DebuggeePauses ==
  process.status.tag = "PausedDebuggee" ~>
    \/ process.status.tag # "PausedDebuggee"
    \/ \A t \in threads : thread[t].status.tag # "Live"

\* The transitions that the comment above LiveThreadStatus allows.
AllowedTransitions ==
  {<<"Running", "Preempted">>, <<"Running", "Syscall">>,
   <<"Preempted", "Running">>, <<"Syscall", "Running">>,
   <<"Syscall", "InWait">>, <<"Syscall", "Runnable">>,
   <<"InWait", "Runnable">>, <<"Runnable", "Running">>}
LiveTransitions ==
  [][\A t \in Threads :
       LET s == thread[t].status  n == thread'[t].status IN
       s.tag = "Live" /\ n.tag = "Live" /\ s # n
         => <<s.arg, n.arg>> \in AllowedTransitions]_vars
============================================================================
