--------------------------- MODULE WaitWakeProofs ---------------------------
(***************************************************************************)
(* The theorems about WaitWake, for any number of threads, objects, CPUs,  *)
(* wakers and interrupt contexts: the types, the soundness of the          *)
(* lock-free list of woken objects, and that a thread never has two ways   *)
(* to run.                                                                 *)
(***************************************************************************)
EXTENDS WaitWake, TLAPS

(***************************************************************************)
(* The woken list.  A reference to an object is held by the head of the    *)
(* list, by an actor on its way to take_woken (its object) or past it (its *)
(* link), or by the next_woken of an object that is on the list.           *)
(***************************************************************************)

LockPcs == {"unlock", "unlock_take", "release", "link", "cas"}
TakePcs == {"unlock_take", "take"}
LinkPcs == {"release", "deliver"}
WakerPcs == {"idle", "count", "trylock", "unlock", "unlock_take", "take",
             "release", "deliver", "post"}

\* o is being pushed: its next_woken is not published yet.
InPush(o) == \E a \in Actors : act[a].pc \in {"link", "cas"} /\ act[a].obj = o

ActorRef(a) == IF act[a].pc \in TakePcs THEN act[a].obj
               ELSE IF act[a].pc \in LinkPcs THEN act[a].link ELSE Nil
ObjectRef(o) == IF IsWoken(o) /\ ~InPush(o) THEN obj[o].next_woken ELSE Nil

\* A reference is null or leads to an object that is marked and not being pushed.
GoodRef(r) == r = Nil \/ (r \in Objects /\ IsWoken(r) /\ ~InPush(r))

\* What an actor's pc says of its locals.
ActorOk(a) ==
  /\ act[a].pc \notin {"idle", "post"} => act[a].obj \in Objects
  /\ a \in Wakers => act[a].pc \in WakerPcs
  /\ a \in Wakers /\ act[a].pc \in LinkPcs => act[a].link = Nil
  /\ a \in Wakers /\ act[a].pc \in TakePcs => obj[act[a].obj].next_woken = Nil
  /\ act[a].pc = "cas" => /\ obj[act[a].obj].next_woken = act[a].link
                          /\ act[a].link \in Objects \cup {Nil}

ActorInv == \A a \in Actors : ActorOk(a)

\* wake_event_lock has one holder.
LockInv ==
  \A a \in Actors : act[a].pc \in LockPcs =>
    /\ obj[act[a].obj].wake_event_lock
    /\ \A b \in Actors \ {a} : act[b].pc \in LockPcs => act[b].obj # act[a].obj

\* References are good ...
RefInv ==
  /\ GoodRef(woken_objects)
  /\ \A a \in Actors : GoodRef(ActorRef(a))
  /\ \A o \in Objects : GoodRef(ObjectRef(o))

\* ... and no two of them lead to the same object.
UniqueInv ==
  /\ \A a \in Actors : ActorRef(a) = woken_objects => woken_objects = Nil
  /\ \A o \in Objects : ObjectRef(o) = woken_objects => woken_objects = Nil
  /\ \A a, b \in Actors : ActorRef(a) = ActorRef(b) => a = b \/ ActorRef(a) = Nil
  /\ \A o, p \in Objects : ObjectRef(o) = ObjectRef(p) => o = p \/ ObjectRef(o) = Nil
  /\ \A a \in Actors, o \in Objects : ActorRef(a) = ObjectRef(o) => ObjectRef(o) = Nil

ListInv == ActorInv /\ LockInv /\ RefInv /\ UniqueInv

(***************************************************************************)
(* Ways to run.                                                            *)
(***************************************************************************)

NoJobs(t) == resume_jobs[t] = 0 /\ user_jobs[t] = 0

OneCpu(t) == \A c, d \in Cpus : running[c] = t /\ running[d] = t => c = d

\* Where a thread is in sys_wait decides its status, its CPU and its jobs.
Way(t) ==
  \/ upc[t] = "user" /\ status[t] = "Running" /\ OnCpu(t) /\ NoJobs(t)
  \/ /\ upc[t] = "user" /\ status[t] = "Preempted" /\ ~OnCpu(t)
     /\ resume_jobs[t] = 0 /\ user_jobs[t] = 1
  \/ /\ upc[t] \in {"register", "check", "timeout", "pause", "consume"}
     /\ status[t] = "Syscall" /\ OnCpu(t) /\ NoJobs(t)
  \/ upc[t] = "parked" /\ status[t] = "InWait" /\ ~OnCpu(t) /\ NoJobs(t)
  \/ /\ upc[t] = "parked" /\ status[t] = "Runnable" /\ ~OnCpu(t)
     /\ resume_jobs[t] = 1 /\ user_jobs[t] = 0
  \/ /\ upc[t] \in {"resume", "woke"}
     /\ status[t] = "Runnable" /\ OnCpu(t) /\ NoJobs(t)

RunInv == \A t \in Threads : OneCpu(t) /\ Way(t)

\* What a thread's place in sys_wait says of its fields.
WaitInv ==
  \A t \in Threads :
    /\ upc[t] = "check" => thr[t].cur \in Objects
    /\ upc[t] \notin {"timeout", "pause", "parked", "resume"} => thr[t].wait_objects = {}
    /\ upc[t] \notin {"pause", "parked"} => thr[t].timer_id = 0
    /\ thr[t].timeout = "poll" => thr[t].timer_id = 0
-----------------------------------------------------------------------------

\* The initial state has its type.
LEMMA TypeInit == ASSUME Init PROVE TypeOK
  BY Bounds DEF Init, TypeOK, NewObject, NewThread, NewActor, NoTimerJob, ObjectType,
     ThreadType, ActorType, Statuses, UserPcs, ActorPcs, TimerRecs, TimeoutKinds

\* The types of a thread's fields.
LEMMA ThreadFields ==
  ASSUME TypeOK, NEW t \in Threads
  PROVE  /\ thr[t] \in ThreadType
         /\ thr[t].wakers \in SUBSET Objects /\ thr[t].todo \in SUBSET Objects
         /\ thr[t].handles \in SUBSET Objects /\ thr[t].wait_objects \in SUBSET Objects
         /\ thr[t].wakes_queued \in Nat /\ thr[t].wakes_queued + 1 \in Nat
         /\ thr[t].timer_id \in Nat /\ thr[t].cur \in Objects \cup {Nil}
  BY DEF TypeOK, ThreadType

\* The record of one thread is replaced.
LEMMA ThreadUpdate ==
  ASSUME TypeOK, NEW t \in Threads, NEW r \in ThreadType
  PROVE  [thr EXCEPT ![t] = r] \in [Threads -> ThreadType]
  BY DEF TypeOK

\* Leaving the lists of waiting threads keeps the objects' type.
LEMMA RemoveWaitingType ==
  ASSUME TypeOK, NEW t \in Threads, RemoveWaiting(t)
  PROVE  obj' \in [Objects -> ObjectType]
  <1>1. ASSUME NEW o \in Objects
        PROVE  [obj[o] EXCEPT !.waiting_threads = @ \ {t}] \in ObjectType
    BY SMTT(90) DEF TypeOK, ObjectType
  <1>2. ASSUME NEW o \in Objects PROVE obj[o] \in ObjectType
    BY DEF TypeOK
  <1> QED BY <1>1, <1>2 DEF RemoveWaiting

\* The steps of sys_wait keep the types.
LEMMA TypeThread ==
  ASSUME TypeOK, WaitInv, NEW t \in Threads, ThreadStep(t)
  PROVE  TypeOK'
  <1> DEFINE th == thr[t]
  <1>0. /\ th \in ThreadType
        /\ th.wakers \in SUBSET Objects /\ th.todo \in SUBSET Objects
        /\ th.handles \in SUBSET Objects /\ th.wait_objects \in SUBSET Objects
        /\ th.wakes_queued \in Nat /\ th.wakes_queued + 1 \in Nat
        /\ th.cur \in Objects \cup {Nil}
    BY ThreadFields
  <1>u. ASSUME NEW r \in ThreadType
        PROVE  [thr EXCEPT ![t] = r] \in [Threads -> ThreadType]
    BY ThreadUpdate
  <1> HIDE DEF th
  <1>1. CASE AddWaitingThread(t)
    <2>1. PICK o \in th.todo :
            /\ obj' = [obj EXCEPT ![o].waiting_threads = @ \cup {t}]
            /\ thr' = [thr EXCEPT ![t].cur = o]
      BY ZenonT(90), <1>1 DEF AddWaitingThread, th
    <2>2. o \in Objects
      BY <1>0, <2>1
    <2>0. [obj[o] EXCEPT !.waiting_threads = @ \cup {t}] \in ObjectType
      BY SMTT(90), <2>2 DEF TypeOK, ObjectType
    <2>5. obj' \in [Objects -> ObjectType]
      BY ZenonT(90), <2>0, <2>1 DEF TypeOK
    <2>3. [th EXCEPT !.cur = o] \in ThreadType
      BY <1>0, <2>2 DEF ThreadType
    <2>4. thr' \in [Threads -> ThreadType]
      BY <1>u, <2>1, <2>3 DEF th
    <2> QED BY <1>1, <2>4, <2>5 DEF AddWaitingThread, TypeOK, UserPcs
  <1>2. CASE CheckWakeCount(t)
    <2> DEFINE o == th.cur
               w == th.wakers \cup {p \in {o} : HasWake(t, p)}
               rest == th.todo \ {o}
               wo == IF rest = {} THEN th.handles ELSE th.wait_objects
    <2>1. o \in Objects
      BY <1>2 DEF CheckWakeCount, WaitInv, th
    <2>2. w \in SUBSET Objects /\ rest \in SUBSET Objects /\ wo \in SUBSET Objects
      BY <1>0, <2>1
    <2> HIDE DEF o, w, rest, wo
    <2>3. [th EXCEPT !.wakers = w, !.todo = rest, !.cur = Nil,
                     !.wait_objects = wo] \in ThreadType
      BY ZenonT(90), <1>0, <2>2 DEF ThreadType
    <2>4. thr' = [thr EXCEPT ![t] = [th EXCEPT !.wakers = w, !.todo = rest,
                                               !.cur = Nil, !.wait_objects = wo]]
      BY <1>2 DEF CheckWakeCount, th, o, w, rest, wo
    <2>5. thr' \in [Threads -> ThreadType]
      BY <1>u, <2>3, <2>4
    <2> QED BY <1>2, <2>5 DEF CheckWakeCount, TypeOK, UserPcs
  <1>3. ASSUME NEW c \in Cpus, NewTimeout(t, c) PROVE TypeOK'
    <2>1. next_timer \in Nat
      BY DEF TypeOK
    <2>2. /\ [th EXCEPT !.wakes_queued = th.wakes_queued + 1] \in ThreadType
          /\ [th EXCEPT !.timer_id = next_timer, !.my_timer = next_timer] \in ThreadType
      BY ZenonT(90), <1>0, <2>1 DEF ThreadType
    <2>3. thr' \in [Threads -> ThreadType]
      BY SMTT(90), <1>u, <1>3, <2>2 DEF NewTimeout, th, TypeOK
    <2>4. timers' \subseteq TimerRecs /\ next_timer' \in Nat
      BY <1>3, <2>1 DEF NewTimeout, TimerCpus, TimerRecs, TypeOK
    <2> QED BY ZenonT(90), <1>3, <2>3, <2>4 DEF NewTimeout, TypeOK, UserPcs
  <1>4. ASSUME NEW c \in Cpus, OnThreadPaused(t, c) PROVE TypeOK'
    BY <1>4 DEF OnThreadPaused, TypeOK, UserPcs, Statuses
  <1>5. CASE TakeWakers(t)
    <2>1. [TakeQueued(th) EXCEPT !.wait_objects = {}] \in ThreadType
      BY ZenonT(90), <1>0 DEF ThreadType, TakeQueued
    <2>2. thr' \in [Threads -> ThreadType]
      BY <1>u, <1>5, <2>1 DEF TakeWakers, WaitObjectsOnWake, th
    <2>3. obj' \in [Objects -> ObjectType]
      BY <1>5, RemoveWaitingType DEF TakeWakers
    <2> QED BY <1>5, <2>2, <2>3 DEF TakeWakers, TypeOK, UserPcs
  <1>6. CASE ResumeWaiter(t)
    <2>1. [th EXCEPT !.wait_objects = {}] \in ThreadType
      BY <1>0 DEF ThreadType
    <2>2. thr' \in [Threads -> ThreadType]
      BY <1>u, <1>6, <2>1 DEF ResumeWaiter, WaitObjectsOnWake, th
    <2>3. obj' \in [Objects -> ObjectType]
      BY <1>6, RemoveWaitingType DEF ResumeWaiter
    <2> QED BY <1>6, <2>2, <2>3 DEF ResumeWaiter, TypeOK, UserPcs
  <1>7. CASE WaitWoke(t)
    <2>1. TakeQueued(th) \in ThreadType
      BY ZenonT(90), <1>0 DEF ThreadType, TakeQueued
    <2>2. thr' \in [Threads -> ThreadType]
      BY <1>u, <1>7, <2>1 DEF WaitWoke, th
    <2> QED BY <1>7, <2>2 DEF WaitWoke, TypeOK, UserPcs, Statuses
  <1>8. CASE ProcessWake(t)
    <2>1. [th EXCEPT !.handles = {}, !.todo = {}, !.timeout = "none",
                     !.seen = [o \in Objects |-> 0], !.my_timer = 0] \in ThreadType
      BY ZenonT(90), <1>0 DEF ThreadType, TimeoutKinds
    <2>2. thr' \in [Threads -> ThreadType]
      BY <1>u, <1>8, <2>1 DEF ProcessWake, th
    <2>3. ASSUME NEW o \in Objects
          PROVE  /\ obj[o] \in ObjectType
                 /\ [obj[o] EXCEPT !.wake_count = obj[o].wake_counter] \in ObjectType
      BY SMTT(90) DEF TypeOK, ObjectType
    <2>4. obj' \in [Objects -> ObjectType]
      BY <1>8, <2>3 DEF ProcessWake
    <2> QED BY <1>8, <2>2, <2>4 DEF ProcessWake, TypeOK, UserPcs, Statuses
  <1> QED BY <1>1, <1>2, <1>3, <1>4, <1>5, <1>6, <1>7, <1>8 DEF ThreadStep

\* The types of an actor's fields.
LEMMA ActorFields ==
  ASSUME TypeOK, NEW a \in Actors
  PROVE  /\ act[a] \in ActorType
         /\ act[a].link \in Objects \cup {Nil, NotWoken}
         /\ act[a].threads \in SUBSET Threads
  BY DEF TypeOK, ActorType

\* The record of one object is replaced.
LEMMA ObjectUpdate ==
  ASSUME TypeOK, NEW o \in Objects, NEW r \in ObjectType
  PROVE  [obj EXCEPT ![o] = r] \in [Objects -> ObjectType]
  BY DEF TypeOK

\* The record of one actor is replaced.
LEMMA ActorUpdate ==
  ASSUME TypeOK, NEW a \in Actors, NEW r \in ActorType
  PROVE  [act EXCEPT ![a] = r] \in [Actors -> ActorType]
  BY DEF TypeOK

\* The types of an object's fields.
LEMMA ObjectFields ==
  ASSUME TypeOK, NEW o \in Objects
  PROVE  /\ obj[o] \in ObjectType
         /\ obj[o].wake_counter \in Nat /\ obj[o].wake_counter + 1 \in Nat
         /\ obj[o].next_woken \in Objects \cup {Nil, NotWoken}
         /\ obj[o].waiting_threads \in SUBSET Threads
  BY DEF TypeOK, ObjectType

\* Taking or releasing wake_event_lock keeps the objects' type.
LEMMA LockType ==
  ASSUME TypeOK, NEW o \in Objects, NEW b \in BOOLEAN
  PROVE  [obj EXCEPT ![o].wake_event_lock = b] \in [Objects -> ObjectType]
  <1>1. [obj[o] EXCEPT !.wake_event_lock = b] \in ObjectType
    BY ObjectFields DEF ObjectType
  <1> QED BY <1>1, ObjectUpdate

\* An actor moves on.
LEMMA PcType ==
  ASSUME TypeOK, NEW a \in Actors, NEW p \in ActorPcs
  PROVE  [act EXCEPT ![a].pc = p] \in [Actors -> ActorType]
  <1>1. [act[a] EXCEPT !.pc = p] \in ActorType
    BY ActorFields DEF ActorType
  <1> QED BY <1>1, ActorUpdate

\* An actor moves on with an object.
LEMMA PcObjType ==
  ASSUME TypeOK, NEW a \in Actors, NEW p \in ActorPcs, NEW o \in Objects \cup {Nil}
  PROVE  [act EXCEPT ![a] = [@ EXCEPT !.pc = p, !.obj = o]] \in [Actors -> ActorType]
  <1>1. [act[a] EXCEPT !.pc = p, !.obj = o] \in ActorType
    BY ZenonT(90), ActorFields DEF ActorType
  <1> QED BY <1>1, ActorUpdate

\* An actor moves on with a link of the woken list.
LEMMA PcLinkType ==
  ASSUME TypeOK, NEW a \in Actors, NEW p \in ActorPcs, NEW o \in Objects \cup {Nil}
  PROVE  [act EXCEPT ![a] = [@ EXCEPT !.pc = p, !.link = o]] \in [Actors -> ActorType]
  <1>1. [act[a] EXCEPT !.pc = p, !.link = o] \in ActorType
    BY ZenonT(90), ActorFields DEF ActorType
  <1> QED BY <1>1, ActorUpdate

\* The count of a wake keeps the types.
LEMMA CountType ==
  ASSUME TypeOK, NEW a \in Actors, NEW o \in Objects, NEW p \in ActorPcs, Count(a, o, p)
  PROVE  obj' \in [Objects -> ObjectType] /\ act' \in [Actors -> ActorType]
  <1>1. [obj[o] EXCEPT !.wake_counter = obj[o].wake_counter + 1] \in ObjectType
    BY ObjectFields DEF ObjectType
  <1>2. obj' \in [Objects -> ObjectType]
    BY SMTT(90), <1>1, ObjectUpdate DEF Count
  <1> QED BY ZenonT(90), <1>2, PcObjType DEF Count

\* A wake that gives up keeps the types.
LEMMA GiveUpType ==
  ASSUME TypeOK, NEW a \in Actors, GiveUp(a)
  PROVE  obj' = obj /\ act' \in [Actors -> ActorType]
  BY ZenonT(90), PcObjType DEF GiveUp, ActorPcs

\* Posting the job of a woken thread keeps the types.
LEMMA MakeRunnableType ==
  ASSUME TypeOK, NEW t \in Threads, MakeRunnable(t)
  PROVE  status' \in [Threads -> Statuses] /\ resume_jobs' \in [Threads -> Nat]
  BY SMTT(90) DEF TypeOK, MakeRunnable, Statuses

\* A step of a waker, an interrupt or a CPU's process_wake_events keeps the types.
LEMMA TypeActor ==
  ASSUME TypeOK, ActorInv, NEW a \in Actors, ActorStep(a)
  PROVE  TypeOK'
  <1>p. ActorPcs = {"idle", "count", "trylock", "unlock", "unlock_take", "take",
                    "release", "deliver", "post", "irq_trylock", "link", "cas"}
    BY DEF ActorPcs
  <1>o. act[a].pc \notin {"idle", "post"} => act[a].obj \in Objects
    BY DEF ActorInv, ActorOk
  <1>1. ASSUME NEW o \in Objects, Wake(a, o) PROVE TypeOK'
    BY <1>1, <1>p, CountType DEF Wake, ActorFrame, TypeOK
  <1>2. CASE WakeTryLock(a)
    <2>1. act[a].obj \in Objects
      BY <1>2, <1>o DEF WakeTryLock
    <2>2. [obj[act[a].obj] EXCEPT !.wake_event_lock = TRUE, !.next_woken = Nil] \in ObjectType
      BY ZenonT(90), <2>1, ObjectFields DEF ObjectType
    <2>3. obj' \in [Objects -> ObjectType] /\ act' \in [Actors -> ActorType]
      <3>1. CASE GiveUp(a)
        BY <3>1, GiveUpType DEF TypeOK
      <3>2. CASE ~GiveUp(a)
        <4>1. /\ [obj EXCEPT ![act[a].obj].wake_event_lock = TRUE] \in [Objects -> ObjectType]
              /\ [obj EXCEPT ![act[a].obj] = [obj[act[a].obj] EXCEPT
                    !.wake_event_lock = TRUE, !.next_woken = Nil]] \in [Objects -> ObjectType]
          BY ZenonT(90), <2>1, <2>2, LockType, ObjectUpdate
        <4>2. /\ [act EXCEPT ![a].pc = "unlock"] \in [Actors -> ActorType]
              /\ [act EXCEPT ![a].pc = "unlock_take"] \in [Actors -> ActorType]
          BY ZenonT(90), <1>p, PcType
        <4> QED BY <1>2, <3>2, <4>1, <4>2 DEF WakeTryLock
      <3> QED BY <3>1, <3>2
    <2> QED BY <1>2, <2>3 DEF WakeTryLock, ActorFrame, TypeOK
  <1>3. CASE WakeUnlock(a)
    <2>1. act[a].obj \in Objects
      BY <1>3, <1>o DEF WakeUnlock
    <2>2. obj' \in [Objects -> ObjectType] /\ act' \in [Actors -> ActorType]
      <3>1. [obj EXCEPT ![act[a].obj].wake_event_lock = FALSE] \in [Objects -> ObjectType]
        BY ZenonT(90), <2>1, LockType
      <3>2. /\ [act EXCEPT ![a].pc = "take"] \in [Actors -> ActorType]
            /\ [act EXCEPT ![a] = [@ EXCEPT !.pc = "idle", !.obj = Nil]]
                 \in [Actors -> ActorType]
        BY ZenonT(90), <1>p, PcType, PcObjType
      <3> QED BY <1>3, <3>1, <3>2 DEF WakeUnlock
    <2> QED BY <1>3, <2>2 DEF WakeUnlock, ActorFrame, TypeOK
  <1>4. CASE TakeWoken(a)
    <2> DEFINE o == act[a].obj
    <2>1. o \in Objects
      BY <1>4, <1>o DEF TakeWoken
    <2>2. [obj[o] EXCEPT !.wake_event_lock = TRUE, !.next_woken = NotWoken,
                         !.waiting_threads = {}] \in ObjectType
      BY ZenonT(90), <2>1, ObjectFields DEF ObjectType
    <2>3. [act[a] EXCEPT !.pc = "release", !.link = obj[o].next_woken,
                         !.threads = obj[o].waiting_threads] \in ActorType
      BY ZenonT(90), <1>p, <2>1, ActorFields, ObjectFields DEF ActorType
    <2>4. obj' \in [Objects -> ObjectType] /\ act' \in [Actors -> ActorType]
      BY <1>4, <2>1, <2>2, <2>3, ObjectUpdate, ActorUpdate DEF TakeWoken, MarkOnTake
    <2> QED BY <1>4, <2>4 DEF TakeWoken, ActorFrame, TypeOK
  <1>5. CASE TakeUnlock(a)
    <2>1. act[a].obj \in Objects
      BY SMTT(90), <1>5, <1>o DEF TakeUnlock
    <2>2. obj' \in [Objects -> ObjectType] /\ act' \in [Actors -> ActorType]
      BY ZenonT(90), <1>5, <1>p, <2>1, LockType, PcType DEF TakeUnlock
    <2> QED BY <1>5, <2>2 DEF TakeUnlock, ActorFrame, TypeOK
  <1>6. ASSUME NEW t \in Threads, WakeByObject(a, t) PROVE TypeOK'
    <2>1. [act[a] EXCEPT !.threads = act[a].threads \ {t}] \in ActorType
      BY ActorFields DEF ActorType
    <2>2. act' \in [Actors -> ActorType]
      BY <1>6, <2>1, ActorUpdate DEF WakeByObject
    <2>3. thr[t].wakers \cup {act[a].obj} \in SUBSET Objects
      BY <1>6, <1>o, ThreadFields DEF WakeByObject
    <2>4. [thr[t] EXCEPT !.wakers = thr[t].wakers \cup {act[a].obj}] \in ThreadType
      BY <2>3, ThreadFields DEF ThreadType
    <2>5. thr' \in [Threads -> ThreadType]
      BY <1>6, <2>4, ThreadUpdate DEF WakeByObject, WakerHandle
    <2> QED BY <1>6, <2>2, <2>5, MakeRunnableType DEF WakeByObject, ActorFrame, TypeOK
  <1>7. ASSUME NEW t \in Threads, PostWakeLocked(a, t) PROVE TypeOK'
    <2>1. [act[a] EXCEPT !.pc = "idle", !.threads = {}] \in ActorType
      BY ZenonT(90), <1>p, ActorFields DEF ActorType
    <2>2. act' \in [Actors -> ActorType]
      BY <1>7, <2>1, ActorUpdate DEF PostWakeLocked
    <2> QED BY <1>7, <2>2, MakeRunnableType DEF PostWakeLocked, ActorFrame, TypeOK
  <1>8. CASE Delivered(a)
    <2> DEFINE p == IF act[a].link = Nil THEN "idle" ELSE "take"
    <2>0. p \in ActorPcs
      BY <1>p
    <2> HIDE DEF p
    <2>1. [act[a] EXCEPT !.pc = p, !.obj = act[a].link, !.link = Nil] \in ActorType
      BY ZenonT(90), <2>0, ActorFields DEF ActorType
    <2>2. act' \in [Actors -> ActorType]
      BY <1>8, <2>1, ActorUpdate DEF Delivered, p
    <2> QED BY <1>8, <2>2 DEF Delivered, ActorFrame, TypeOK
  <1>9. CASE IrqTryLock(a)
    <2>1. act[a].obj \in Objects
      BY <1>9, <1>o DEF IrqTryLock
    <2>2. obj' \in [Objects -> ObjectType] /\ act' \in [Actors -> ActorType]
      <3>1. CASE GiveUp(a)
        BY <3>1, GiveUpType DEF TypeOK
      <3>2. CASE ~GiveUp(a)
        <4>1. [obj EXCEPT ![act[a].obj].wake_event_lock = TRUE] \in [Objects -> ObjectType]
          BY ZenonT(90), <2>1, LockType
        <4>2. /\ [act EXCEPT ![a].pc = "unlock"] \in [Actors -> ActorType]
              /\ [act EXCEPT ![a].pc = "link"] \in [Actors -> ActorType]
          BY ZenonT(90), <1>p, PcType
        <4> QED BY <1>9, <3>2, <4>1, <4>2 DEF IrqTryLock
      <3> QED BY <3>1, <3>2
    <2> QED BY <1>9, <2>2 DEF IrqTryLock, ActorFrame, TypeOK
  <1>10. CASE LinkWoken(a)
    <2>1. act[a].obj \in Objects /\ woken_objects \in Objects \cup {Nil}
      BY <1>10, <1>o DEF LinkWoken, TypeOK
    <2>2. [obj[act[a].obj] EXCEPT !.next_woken = woken_objects] \in ObjectType
      BY SMTT(90), <2>1, ObjectFields DEF ObjectType
    <2>3. obj' \in [Objects -> ObjectType] /\ act' \in [Actors -> ActorType]
      BY ZenonT(90), <1>10, <1>p, <2>1, <2>2, ObjectUpdate, PcLinkType DEF LinkWoken
    <2> QED BY <1>10, <2>3 DEF LinkWoken, ActorFrame, TypeOK
  <1>11. CASE CasWoken(a)
    <2>1. act' \in [Actors -> ActorType]
      <3>1. /\ [act EXCEPT ![a].pc = "link"] \in [Actors -> ActorType]
            /\ [act EXCEPT ![a] = [@ EXCEPT !.pc = "unlock", !.link = Nil]]
                 \in [Actors -> ActorType]
        BY ZenonT(90), <1>p, PcType, PcLinkType
      <3> QED BY SMTT(90), <1>11, <3>1 DEF CasWoken
    <2>2. woken_objects' \in Objects \cup {Nil}
      BY <1>11, <1>o DEF CasWoken, TypeOK
    <2> QED BY <1>11, <2>1, <2>2 DEF CasWoken, ActorFrame, TypeOK
  <1> QED BY <1>1, <1>2, <1>3, <1>4, <1>5, <1>6, <1>7, <1>8, <1>9, <1>10, <1>11
          DEF ActorStep

\* A new call of sys_wait, wake, mark_done, post_wake or wake_irq keeps the types.
LEMMA TypeEnvironment ==
  ASSUME TypeOK, Environment
  PROVE  TypeOK'
  <1>p. {"count", "trylock", "irq_trylock", "post"} \subseteq ActorPcs
    BY DEF ActorPcs
  <1>1. ASSUME NEW t \in Threads, NEW S \in SUBSET Objects, NEW to \in Timeouts,
               SysWait(t, S, to)
        PROVE  TypeOK'
    <2> DEFINE seen == [o \in Objects |-> obj[o].wake_count]
               th == [thr[t] EXCEPT !.handles = S, !.todo = S, !.timeout = to, !.seen = seen]
    <2>1. seen \in [Objects -> Nat] /\ to \in TimeoutKinds
      BY Kinds DEF TypeOK, ObjectType
    <2>2. thr' = [thr EXCEPT ![t] = th]
      BY <1>1 DEF SysWait
    <2> HIDE DEF seen
    <2>5. thr[t] \in ThreadType
      BY ThreadFields
    <2>4. th \in ThreadType
      BY ONLY ZenonT(90), <2>1, <2>5, S \in SUBSET Objects DEF ThreadType
    <2> HIDE DEF th
    <2>3. thr' \in [Threads -> ThreadType]
      BY <2>2, <2>4, ThreadUpdate
    <2> QED BY <1>1, <2>3 DEF SysWait, TypeOK, UserPcs, Statuses
  <1>2. ASSUME NEW w \in Wakers, NEW o \in Objects, Wake(w, o) PROVE TypeOK'
    BY <1>2, <1>p, CountType DEF Wake, ActorFrame, TypeOK, Actors
  <1>3. ASSUME NEW w \in Wakers, NEW o \in Objects, MarkDone(w, o) PROVE TypeOK'
    <2>1. [obj[o] EXCEPT !.done = TRUE] \in ObjectType
      BY ZenonT(90), ObjectFields DEF ObjectType
    <2>2. obj' \in [Objects -> ObjectType]
      BY <1>3, <2>1, ObjectUpdate DEF MarkDone
    <2>3. act' \in [Actors -> ActorType]
      BY ZenonT(90), <1>3, <1>p, PcObjType DEF MarkDone, Actors
    <2> QED BY <1>3, <2>2, <2>3 DEF MarkDone, ActorFrame, TypeOK
  <1>4. ASSUME NEW w \in Wakers, NEW t \in Threads, PostWake(w, t) PROVE TypeOK'
    <2>1. [thr[t] EXCEPT !.wakes_queued = thr[t].wakes_queued + 1] \in ThreadType
      BY ThreadFields DEF ThreadType
    <2>2. thr' \in [Threads -> ThreadType]
      BY <1>4, <2>1, ThreadUpdate DEF PostWake
    <2>3. w \in Actors
      BY DEF Actors
    <2>4. [act[w] EXCEPT !.pc = "post", !.threads = {t}] \in ActorType
      BY ZenonT(90), <1>p, <2>3, ActorFields DEF ActorType
    <2>5. act' \in [Actors -> ActorType]
      BY <1>4, <2>3, <2>4, ActorUpdate DEF PostWake
    <2> QED BY <1>4, <2>2, <2>5 DEF PostWake, ActorFrame, TypeOK
  <1>5. ASSUME NEW i \in Irqs, NEW o \in Objects, WakeIrq(i, o) PROVE TypeOK'
    BY <1>5, <1>p, CountType DEF WakeIrq, ActorFrame, TypeOK, Actors
  <1> QED BY <1>1, <1>2, <1>3, <1>4, <1>5, Kinds DEF Environment

\* A step of a CPU keeps the types.
LEMMA TypeCpu ==
  ASSUME TypeOK, NEW c \in Cpus,
         \/ TimerPop(c) \/ ClaimTimeout(c) \/ WakeByTimeout(c) \/ ProcessWakeEvents(c)
         \/ \E t \in Threads :
              Preempt(t, c) \/ ResumeInKernel(t, c) \/ ResumeInUserspace(t, c)
  PROVE  TypeOK'
  <1>1. CASE TimerPop(c)
    <2>1. PICK r \in timers :
            /\ timers' = timers \ {r}
            /\ timer_job' = [timer_job EXCEPT
                 ![c] = [thread |-> r.thread, id |-> r.id, owned |-> FALSE]]
            /\ expired' = expired \cup {r.id}
      BY ZenonT(90), <1>1 DEF TimerPop
    <2>2. r \in TimerRecs /\ r.thread \in Threads /\ r.id \in Nat
      BY SMTT(60) DEF TypeOK, TimerRecs
    <2>3. timer_job' \in [Cpus -> [thread : Threads \cup {Nil}, id : Nat, owned : BOOLEAN]]
      BY <2>1, <2>2 DEF TypeOK
    <2> QED BY ZenonT(90), <1>1, <2>1, <2>2, <2>3 DEF TimerPop, TypeOK
  <1>2. CASE ClaimTimeout(c)
    <2> DEFINE j == timer_job[c]
    <2>1. j \in [thread : Threads \cup {Nil}, id : Nat, owned : BOOLEAN]
      BY DEF TypeOK
    <2>2. j.thread \in Threads
      BY <1>2, <2>1 DEF ClaimTimeout
    <2>3. [thr[j.thread] EXCEPT !.timer_id = 0] \in ThreadType
      BY <2>2, ThreadFields DEF ThreadType
    <2>4. [thr EXCEPT ![j.thread] = [thr[j.thread] EXCEPT !.timer_id = 0]]
            \in [Threads -> ThreadType]
      BY <2>2, <2>3, ThreadUpdate
    <2>5. thr' \in [Threads -> ThreadType]
      BY <1>2, <2>4 DEF ClaimTimeout, TypeOK
    <2>6. timer_job' \in [Cpus -> [thread : Threads \cup {Nil}, id : Nat, owned : BOOLEAN]]
      <3>1. /\ [j EXCEPT !.owned = TRUE] \in [thread : Threads \cup {Nil}, id : Nat, owned : BOOLEAN]
            /\ NoTimerJob \in [thread : Threads \cup {Nil}, id : Nat, owned : BOOLEAN]
        BY ZenonT(90), <2>1 DEF NoTimerJob
      <3> QED BY ZenonT(90), <1>2, <3>1 DEF ClaimTimeout, TypeOK
    <2> QED BY <1>2, <2>5, <2>6 DEF ClaimTimeout, TypeOK
  <1>3. CASE WakeByTimeout(c)
    <2> DEFINE t == timer_job[c].thread
    <2>1. t \in Threads
      BY SMTT(60), <1>3 DEF WakeByTimeout, TypeOK
    <2>2. thr[t].timed_out \in BOOLEAN /\ Wakeable(t) \in BOOLEAN
      BY SMTT(90), <2>1, ThreadFields DEF ThreadType, Wakeable
    <2>3. [thr[t] EXCEPT !.timed_out = thr[t].timed_out \/ Wakeable(t)] \in ThreadType
      BY <2>1, <2>2, ThreadFields, SMTT(90) DEF ThreadType
    <2>4. thr' \in [Threads -> ThreadType]
      BY <1>3, <2>1, <2>3, ThreadUpdate DEF WakeByTimeout
    <2>5. timer_job' \in [Cpus -> [thread : Threads \cup {Nil}, id : Nat, owned : BOOLEAN]]
      BY <1>3 DEF WakeByTimeout, TypeOK, NoTimerJob
    <2>6. status' \in [Threads -> Statuses] /\ resume_jobs' \in [Threads -> Nat]
      BY <1>3, <2>1, MakeRunnableType DEF WakeByTimeout
    <2> QED BY <1>3, <2>4, <2>5, <2>6 DEF WakeByTimeout, TypeOK
  <1>4. CASE ProcessWakeEvents(c)
    <2>1. c \in Actors /\ "take" \in ActorPcs /\ woken_objects \in Objects
      BY SMTT(90), <1>4 DEF ProcessWakeEvents, Actors, ActorPcs, TypeOK
    <2>2. act' \in [Actors -> ActorType]
      BY ZenonT(90), <1>4, <2>1, PcObjType DEF ProcessWakeEvents
    <2> QED BY <1>4, <2>2 DEF ProcessWakeEvents, ActorFrame, TypeOK
  <1>5. ASSUME NEW t \in Threads, Preempt(t, c) PROVE TypeOK'
    BY <1>5 DEF Preempt, TypeOK, Statuses
  <1>6. ASSUME NEW t \in Threads, ResumeInKernel(t, c) PROVE TypeOK'
    <2>1. [thr[t] EXCEPT !.timer_id = 0] \in ThreadType
      BY ThreadFields DEF ThreadType
    <2>2. thr' \in [Threads -> ThreadType]
      BY <1>6, <2>1, ThreadUpdate DEF ResumeInKernel, TimerIdOnCancel
    <2> QED BY <1>6, <2>2 DEF ResumeInKernel, TypeOK, UserPcs
  <1>7. ASSUME NEW t \in Threads, ResumeInUserspace(t, c) PROVE TypeOK'
    BY <1>7 DEF ResumeInUserspace, TypeOK, Statuses
  <1> QED BY <1>1, <1>2, <1>3, <1>4, <1>5, <1>6, <1>7

\* Every step keeps the types.
LEMMA TypeStep ==
  ASSUME TypeOK, ActorInv, WaitInv, [Next]_vars
  PROVE  TypeOK'
  <1>1. CASE UNCHANGED vars
    BY <1>1 DEF vars, TypeOK
  <1> QED BY <1>1, TypeThread, TypeActor, TypeEnvironment, TypeCpu DEF Next

\* What the steps of others do to a thread: they may clear its timer_id.
Undisturbed(t) ==
  /\ upc'[t] = upc[t] /\ thr'[t].cur = thr[t].cur
  /\ thr'[t].wait_objects = thr[t].wait_objects /\ thr'[t].timeout = thr[t].timeout
  /\ thr'[t].timer_id \in {thr[t].timer_id, 0}

\* Steps of others leave the locals of a wait alone.
LEMMA UndisturbedByOthers ==
  ASSUME TypeOK, NEW t \in Threads, [Next]_vars,
         ~ThreadStep(t), \A c \in Cpus : ~ResumeInKernel(t, c),
         \A S \in SUBSET Objects, to \in Timeouts : ~SysWait(t, S, to)
  PROVE  Undisturbed(t)
  <1>t. thr \in [Threads -> ThreadType] /\ upc \in [Threads -> UserPcs]
    BY DEF TypeOK
  <1>0. ASSUME upc' = upc, thr' = thr PROVE Undisturbed(t)
    BY <1>0 DEF Undisturbed
  <1>1. ASSUME NEW u \in Threads, u # t, ThreadStep(u) PROVE Undisturbed(t)
    <2>1. upc'[t] = upc[t] /\ thr'[t] = thr[t]
      BY <1>1, <1>t DEF ThreadStep, AddWaitingThread, CheckWakeCount, NewTimeout,
         OnThreadPaused, TakeWakers, ResumeWaiter, WaitWoke, ProcessWake
    <2> QED BY SMTT(90), <2>1 DEF Undisturbed
  <1>2. ASSUME NEW a \in Actors, ActorStep(a) PROVE Undisturbed(t)
    <2>1. ASSUME NEW u \in Threads, WakeByObject(a, u) PROVE Undisturbed(t)
      <3>1. PICK x : thr' = [thr EXCEPT ![u] = [thr[u] EXCEPT !.wakers = x]]
        BY ZenonT(90), <2>1 DEF WakeByObject
      <3> QED BY <1>t, <2>1, <3>1 DEF WakeByObject, ActorFrame, ThreadType, Undisturbed
    <2>2. (\A u \in Threads : ~WakeByObject(a, u)) => upc' = upc /\ thr' = thr
      BY ZenonT(90), <1>2 DEF ActorStep, Wake, WakeTryLock, WakeUnlock, TakeWoken, TakeUnlock,
         Delivered, PostWakeLocked, IrqTryLock, LinkWoken, CasWoken, ActorFrame
    <2> QED BY <1>0, <2>1, <2>2
  <1>3. CASE Environment
    <2>1. ASSUME NEW u \in Threads \ {t}, NEW S \in SUBSET Objects, NEW to \in Timeouts,
                 SysWait(u, S, to)
          PROVE  Undisturbed(t)
      BY ZenonT(90), <1>t, <2>1 DEF SysWait, Undisturbed
    <2>2. ASSUME NEW w \in Wakers, NEW u \in Threads, PostWake(w, u) PROVE Undisturbed(t)
      <3>1. PICK x : thr' = [thr EXCEPT ![u] = [thr[u] EXCEPT !.wakes_queued = x]]
        BY ZenonT(90), <2>2 DEF PostWake
      <3> QED BY <1>t, <2>2, <3>1 DEF PostWake, ActorFrame, ThreadType, Undisturbed
    <2> QED BY ZenonT(90), <1>3, <1>0, <2>1, <2>2 DEF Environment, Wake, MarkDone, WakeIrq, ActorFrame
  <1>4. ASSUME NEW c \in Cpus, \/ TimerPop(c) \/ ClaimTimeout(c) \/ WakeByTimeout(c)
                               \/ ProcessWakeEvents(c)
        PROVE Undisturbed(t)
    <2> DEFINE j == timer_job[c].thread
    <2>1. CASE ClaimTimeout(c)
      <3>1. /\ upc' = upc
            /\ \/ thr' = thr
               \/ thr' = [thr EXCEPT ![j] = [thr[j] EXCEPT !.timer_id = 0]]
        BY <2>1 DEF ClaimTimeout
      <3> HIDE DEF j
      <3> QED BY <1>t, <3>1 DEF ThreadType, Undisturbed
    <2>2. CASE WakeByTimeout(c)
      <3>1. upc' = upc /\ \E x : thr' = [thr EXCEPT ![j] = [thr[j] EXCEPT !.timed_out = x]]
        BY ZenonT(90), <2>2 DEF WakeByTimeout
      <3> HIDE DEF j
      <3> QED BY <1>t, <3>1 DEF ThreadType, Undisturbed
    <2> QED BY <1>4, <1>0, <2>1, <2>2 DEF TimerPop, ProcessWakeEvents, ActorFrame
  <1>5. ASSUME NEW c \in Cpus, NEW u \in Threads,
               \/ Preempt(u, c) \/ ResumeInUserspace(u, c)
               \/ u # t /\ ResumeInKernel(u, c)
        PROVE Undisturbed(t)
    BY <1>5, <1>t DEF Preempt, ResumeInKernel, ResumeInUserspace, Undisturbed
  <1>6. CASE UNCHANGED vars
    BY SMTT(60), <1>6, <1>0 DEF vars
  <1> QED BY <1>1, <1>2, <1>3, <1>4, <1>5, <1>6 DEF Next, Environment

\* Every step keeps the locals of the waits tied to their places.
LEMMA WaitStep ==
  ASSUME TypeOK, WaitInv, [Next]_vars
  PROVE  WaitInv'
  <1> SUFFICES ASSUME NEW t \in Threads
               PROVE  /\ upc'[t] = "check" => thr'[t].cur \in Objects
                      /\ upc'[t] \notin {"timeout", "pause", "parked", "resume"}
                           => thr'[t].wait_objects = {}
                      /\ upc'[t] \notin {"pause", "parked"} => thr'[t].timer_id = 0
                      /\ thr'[t].timeout = "poll" => thr'[t].timer_id = 0
    BY DEF WaitInv
  <1>t. /\ thr \in [Threads -> ThreadType] /\ upc \in [Threads -> UserPcs]
        /\ thr[t] \in ThreadType /\ thr[t].todo \in SUBSET Objects
    BY ThreadFields DEF TypeOK
  <1>i. /\ upc[t] \notin {"timeout", "pause", "parked", "resume"} => thr[t].wait_objects = {}
        /\ upc[t] \notin {"pause", "parked"} => thr[t].timer_id = 0
        /\ thr[t].timeout = "poll" => thr[t].timer_id = 0
        /\ upc[t] = "check" => thr[t].cur \in Objects
    BY DEF WaitInv
  <1>1. CASE Undisturbed(t)
    BY <1>1, <1>i DEF Undisturbed
  <1>2. ASSUME NEW S \in SUBSET Objects, NEW to \in Timeouts, SysWait(t, S, to)
        PROVE  /\ upc'[t] \in {"timeout", "register"}
               /\ thr'[t].wait_objects = {} /\ thr'[t].timer_id = 0
    <2>1. /\ upc' = [upc EXCEPT ![t] = IF S = {} THEN "timeout" ELSE "register"]
          /\ upc[t] = "user"
          /\ \E s : thr' = [thr EXCEPT ![t] = [thr[t] EXCEPT !.handles = S, !.todo = S,
                                                 !.timeout = to, !.seen = s]]
      BY ZenonT(90), <1>2 DEF SysWait
    <2> QED BY SMTT(90), <1>t, <1>i, <2>1 DEF ThreadType
  <1>3. ASSUME NEW c \in Cpus, ResumeInKernel(t, c)
        PROVE  upc'[t] = "resume" /\ thr'[t].timer_id = 0
    BY <1>t, <1>3 DEF ResumeInKernel, TimerIdOnCancel, ThreadType
  <1>4. CASE AddWaitingThread(t)
    <2>1. PICK o \in thr[t].todo : thr' = [thr EXCEPT ![t] = [thr[t] EXCEPT !.cur = o]]
      BY ZenonT(90), <1>4 DEF AddWaitingThread
    <2>2. /\ thr'[t].cur \in Objects /\ thr'[t].wait_objects = thr[t].wait_objects
          /\ thr'[t].timer_id = thr[t].timer_id /\ thr'[t].timeout = thr[t].timeout
      BY <1>t, <2>1 DEF ThreadType
    <2>3. upc[t] = "register"
      BY <1>4 DEF AddWaitingThread
    <2> QED BY <1>i, <2>2, <2>3
  <1>5. CASE CheckWakeCount(t)
    <2>1. PICK x, r, w : /\ thr' = [thr EXCEPT ![t] = [thr[t] EXCEPT !.wakers = x, !.todo = r,
                                      !.cur = Nil, !.wait_objects = w]]
                         /\ r # {} => w = thr[t].wait_objects
                         /\ upc' = [upc EXCEPT ![t] = IF r = {} THEN "timeout" ELSE "register"]
      BY ZenonT(90), <1>5 DEF CheckWakeCount
    <2>2. /\ thr'[t].wait_objects = w
          /\ thr'[t].timer_id = thr[t].timer_id /\ thr'[t].timeout = thr[t].timeout
      BY <1>t, <2>1 DEF ThreadType
    <2>3. upc[t] = "check" /\ upc'[t] = IF r = {} THEN "timeout" ELSE "register"
      BY <1>5, <1>t, <2>1 DEF CheckWakeCount
    <2> QED BY <1>i, <2>1, <2>2, <2>3
  <1>6. ASSUME NEW c \in Cpus, NewTimeout(t, c)
        PROVE  upc'[t] = "pause" /\ (thr'[t].timeout = "poll" => thr'[t].timer_id = 0)
    <2>1. upc'[t] = "pause" /\ thr[t].timer_id = 0
      BY <1>6, <1>t, <1>i DEF NewTimeout
    <2>2. CASE thr[t].timeout = "later"
      <3>1. thr' = [thr EXCEPT ![t] = [thr[t] EXCEPT !.timer_id = next_timer,
                                                    !.my_timer = next_timer]]
        BY <1>6, <2>2 DEF NewTimeout
      <3> QED BY <1>t, <2>1, <2>2, <3>1 DEF ThreadType
    <2>3. CASE thr[t].timeout # "later"
      <3>1. thr' = thr \/ \E x : thr' = [thr EXCEPT ![t] = [thr[t] EXCEPT !.wakes_queued = x]]
        BY <1>6, <2>3 DEF NewTimeout
      <3> QED BY <1>t, <2>1, <3>1 DEF ThreadType
    <2> QED BY <2>2, <2>3
  <1>7. ASSUME NEW c \in Cpus, OnThreadPaused(t, c)
        PROVE  upc'[t] = "parked" /\ (thr'[t].timeout = "poll" => thr'[t].timer_id = 0)
    BY <1>7, <1>t, <1>i DEF OnThreadPaused
  <1>8. CASE TakeWakers(t)
    <2>1. PICK q, r : thr' = [thr EXCEPT ![t] = [[thr[t] EXCEPT !.wakes_taken = q,
            !.timed_out = FALSE, !.todo = r, !.wakers = {}] EXCEPT !.wait_objects = {}]]
      BY ZenonT(90), <1>8 DEF TakeWakers, TakeQueued, WaitObjectsOnWake
    <2>2. /\ thr'[t].wait_objects = {} /\ thr'[t].timer_id = thr[t].timer_id
          /\ thr'[t].timeout = thr[t].timeout
      BY <1>t, <2>1 DEF ThreadType
    <2>3. upc'[t] = "consume" /\ thr[t].timeout = "poll"
      BY <1>8, <1>t DEF TakeWakers
    <2> QED BY SMTT(90), <1>i, <2>2, <2>3
  <1>9. CASE ResumeWaiter(t)
    <2>1. thr' = [thr EXCEPT ![t] = [thr[t] EXCEPT !.wait_objects = {}]]
      BY <1>9 DEF ResumeWaiter, WaitObjectsOnWake
    <2>2. thr'[t].wait_objects = {} /\ thr'[t].timer_id = thr[t].timer_id
      BY <1>t, <2>1 DEF ThreadType
    <2>3. upc[t] = "resume" /\ upc'[t] = "woke"
      BY <1>9, <1>t DEF ResumeWaiter
    <2> QED BY <1>i, <2>2, <2>3
  <1>10. CASE WaitWoke(t)
    <2>1. PICK q, r : thr' = [thr EXCEPT ![t] = [thr[t] EXCEPT !.wakes_taken = q,
            !.timed_out = FALSE, !.todo = r, !.wakers = {}]]
      BY ZenonT(90), <1>10 DEF WaitWoke, TakeQueued
    <2>2. /\ thr'[t].wait_objects = thr[t].wait_objects
          /\ thr'[t].timer_id = thr[t].timer_id
      BY <1>t, <2>1 DEF ThreadType
    <2>3. upc[t] = "woke" /\ upc'[t] = "consume"
      BY <1>10, <1>t DEF WaitWoke
    <2> QED BY SMTT(90), <1>i, <2>2, <2>3
  <1>11. CASE ProcessWake(t)
    <2>1. PICK s : thr' = [thr EXCEPT ![t] = [thr[t] EXCEPT !.handles = {}, !.todo = {},
                             !.timeout = "none", !.seen = s, !.my_timer = 0]]
      BY ZenonT(90), <1>11 DEF ProcessWake
    <2>2. /\ thr'[t].wait_objects = thr[t].wait_objects
          /\ thr'[t].timer_id = thr[t].timer_id
      BY <1>t, <2>1 DEF ThreadType
    <2>3. upc[t] = "consume" /\ upc'[t] = "user"
      BY <1>11, <1>t DEF ProcessWake
    <2> QED BY SMTT(90), <1>i, <2>2, <2>3
  <1> QED BY <1>1, <1>2, <1>3, <1>4, <1>5, <1>6, <1>7, <1>8, <1>9, <1>10, <1>11,
             UndisturbedByOthers DEF ThreadStep
-----------------------------------------------------------------------------
\* The woken list is empty at the start.
LEMMA ListInit == ASSUME Init PROVE ListInv
  <1>1. /\ \A a \in Actors : act[a].pc = "idle" /\ act[a].obj = Nil /\ act[a].link = Nil
        /\ \A o \in Objects : obj[o].next_woken = NotWoken
        /\ woken_objects = Nil
    BY DEF Init, NewActor, NewObject
  <1>2. /\ \A a \in Actors : ActorRef(a) = Nil
        /\ \A o \in Objects : ObjectRef(o) = Nil
    BY <1>1 DEF ActorRef, ObjectRef, TakePcs, LinkPcs, IsWoken
  <1>3. ActorInv
    BY <1>1 DEF ActorInv, ActorOk, WakerPcs, LinkPcs, TakePcs
  <1>4. LockInv
    BY <1>1 DEF LockInv, LockPcs
  <1> QED BY <1>1, <1>2, <1>3, <1>4 DEF ListInv, RefInv, UniqueInv, GoodRef

\* What the invariant of the list depends on.
SameList ==
  /\ woken_objects' = woken_objects
  /\ \A o \in Objects : /\ obj'[o].next_woken = obj[o].next_woken
                        /\ obj'[o].wake_event_lock = obj[o].wake_event_lock

SameActors == \A a \in Actors : /\ act'[a].pc = act[a].pc
                                /\ act'[a].obj = act[a].obj
                                /\ act'[a].link = act[a].link

\* Only a's locals change; only o changes.
OthersSame(a) == \A b \in Actors \ {a} : act'[b] = act[b]
OtherObjectsSame(o) == \A p \in Objects \ {o} : obj'[p] = obj[p]

\* A step of one actor leaves the others alone.
LEMMA ActorEffect ==
  ASSUME TypeOK, NEW a \in Actors, NEW r, act' = [act EXCEPT ![a] = r]
  PROVE  act'[a] = r /\ OthersSame(a)
  BY DEF TypeOK, OthersSame

\* A step on one object leaves the others alone.
LEMMA ObjectEffect ==
  ASSUME TypeOK, NEW o \in Objects, NEW r, obj' = [obj EXCEPT ![o] = r]
  PROVE  obj'[o] = r /\ OtherObjectsSame(o)
  BY SMTT(60) DEF TypeOK, OtherObjectsSame

\* A step that changes no reference and neither marks nor pushes an object.
LEMMA RefsSame ==
  ASSUME RefInv, UniqueInv, woken_objects' = woken_objects,
         \A a \in Actors : ActorRef(a)' = ActorRef(a),
         \A o \in Objects : /\ InPush(o)' <=> InPush(o)
                            /\ obj'[o].next_woken = obj[o].next_woken
  PROVE  RefInv' /\ UniqueInv'
  <1>1. \A o \in Objects : IsWoken(o)' <=> IsWoken(o)
    BY DEF IsWoken
  <1>2. \A o \in Objects : ObjectRef(o)' = ObjectRef(o)
    BY <1>1 DEF ObjectRef
  <1>3. \A r : GoodRef(r) => GoodRef(r)'
    BY <1>1 DEF GoodRef
  <1> QED BY <1>2, <1>3 DEF RefInv, UniqueInv

\* A step that leaves the list and the actors alone.
LEMMA ListFrame ==
  ASSUME ListInv, SameList, SameActors
  PROVE  ListInv'
  <1>1. \A a \in Actors : ActorRef(a)' = ActorRef(a)
    BY DEF ActorRef, SameActors
  <1>2. \A o \in Objects : InPush(o)' <=> InPush(o)
    BY DEF InPush, SameActors
  <1>3. RefInv' /\ UniqueInv'
    BY SMTT(60), <1>1, <1>2, RefsSame DEF ListInv, SameList
  <1>4. ActorInv'
    BY SMTT(60) DEF ListInv, ActorInv, ActorOk, SameActors, SameList, LinkPcs, TakePcs
  <1>5. LockInv'
    BY <1>4 DEF ListInv, LockInv, ActorInv, ActorOk, SameActors, SameList, LockPcs
  <1> QED BY <1>3, <1>4, <1>5 DEF ListInv

FreePcs == {"idle", "count", "trylock", "post", "irq_trylock"}

\* Actor a moves without touching the list.
LEMMA FreeMove ==
  ASSUME ListInv, SameList, NEW a \in Actors, OthersSame(a),
         act[a].pc \in FreePcs, act'[a].pc \in FreePcs,
         act'[a].pc \notin {"idle", "post"} => act'[a].obj \in Objects,
         a \in Wakers => act'[a].pc # "irq_trylock"
  PROVE  ListInv'
  <1>1. \A b \in Actors : ActorRef(b)' = ActorRef(b)
    BY DEF ActorRef, OthersSame, FreePcs, TakePcs, LinkPcs
  <1>2. \A o \in Objects : InPush(o)' <=> InPush(o)
    BY DEF InPush, OthersSame, FreePcs
  <1>3. RefInv' /\ UniqueInv'
    BY SMTT(90), <1>1, <1>2, RefsSame DEF ListInv, SameList
  <1>4. ActorInv'
    BY SMTT(90) DEF ListInv, ActorInv, ActorOk, OthersSame, SameList, FreePcs, WakerPcs, LinkPcs, TakePcs
  <1>5. LockInv'
    BY <1>4 DEF ListInv, LockInv, ActorInv, ActorOk, OthersSame, SameList, LockPcs, FreePcs
  <1> QED BY <1>3, <1>4, <1>5 DEF ListInv

\* The lock of o is taken or released by a, which moves without changing
\* its reference.
LEMMA LockMove ==
  ASSUME ListInv, NEW a \in Actors, NEW o \in Objects, OthersSame(a), OtherObjectsSame(o),
         woken_objects' = woken_objects, obj'[o].next_woken = obj[o].next_woken,
         act[a].obj = o, act[a].link = act'[a].link,
         \/ /\ act[a].pc \in {"trylock", "irq_trylock"} /\ act'[a].pc = "unlock"
            /\ act'[a].obj = o /\ ~obj[o].wake_event_lock /\ obj'[o].wake_event_lock
         \/ act[a].pc = "unlock" /\ act'[a].pc = "idle"
         \/ act[a].pc = "unlock_take" /\ act'[a].pc = "take" /\ act'[a].obj = o
         \/ act[a].pc = "release" /\ act'[a].pc = "deliver" /\ act'[a].obj = o
  PROVE  ListInv'
  <1>1. \A b \in Actors : ActorRef(b)' = ActorRef(b)
    BY SMTT(60) DEF ActorRef, OthersSame, TakePcs, LinkPcs
  <1>2. \A p \in Objects : InPush(p)' <=> InPush(p)
    BY SMTT(60) DEF InPush, OthersSame
  <1>3. RefInv' /\ UniqueInv'
    BY SMTT(90), <1>1, <1>2, RefsSame DEF ListInv, OtherObjectsSame
  <1>4. ActorInv'
    BY SMTT(90) DEF ListInv, ActorInv, ActorOk, OthersSame, OtherObjectsSame, WakerPcs, LinkPcs, TakePcs
  <1>5. \A b \in Actors \ {a} : act[b].pc \in LockPcs => act[b].obj # o
    BY SMTT(60) DEF ListInv, LockInv, LockPcs
  <1>6. \A b \in Actors \ {a} : act'[b].pc \in LockPcs =>
          act'[b].obj \in Objects \ {o} /\ obj'[act'[b].obj] = obj[act[b].obj]
    BY SMTT(90), <1>5 DEF ListInv, ActorInv, ActorOk, LockPcs, OthersSame, OtherObjectsSame
  <1>7. LockInv'
    BY <1>5, <1>6 DEF ListInv, LockInv, OthersSame, LockPcs
  <1> QED BY SMTT(60), <1>3, <1>4, <1>7 DEF ListInv

\* wake() marks an unmarked object: its reference is new.
LEMMA ListMark ==
  ASSUME TypeOK, ListInv, NEW a \in Actors, WakeTryLock(a), act'[a].pc = "unlock_take"
  PROVE  ListInv'
  <1>0. act[a].pc = "trylock"
    BY SMTT(60) DEF WakeTryLock
  <1>o. PICK o \in Objects : act[a].obj = o
    BY <1>0 DEF ListInv, ActorInv, ActorOk
  <1>1. /\ ~obj[o].wake_event_lock /\ ~IsWoken(o)
        /\ obj'[o].wake_event_lock /\ obj'[o].next_woken = Nil
        /\ OtherObjectsSame(o)
        /\ OthersSame(a) /\ woken_objects' = woken_objects
        /\ act'[a].obj = o /\ act'[a].link = act[a].link
    <2>1. /\ obj \in [Objects -> ObjectType] /\ act \in [Actors -> ActorType]
          /\ act[a] \in ActorType /\ obj[o] \in ObjectType
      BY DEF TypeOK
    <2>2. /\ ~obj[o].wake_event_lock /\ ~IsWoken(o)
          /\ obj' = [obj EXCEPT ![o] = [obj[o] EXCEPT !.wake_event_lock = TRUE,
                                                     !.next_woken = Nil]]
          /\ act' = [act EXCEPT ![a].pc = "unlock_take"]
          /\ woken_objects' = woken_objects
      <3>1. /\ act' # [act EXCEPT ![a].pc = "unlock"]
            /\ act' # [act EXCEPT ![a] = [@ EXCEPT !.pc = "idle", !.obj = Nil]]
        BY ZenonT(90), <2>1 DEF ActorType
      <3> QED BY <1>o, <3>1 DEF WakeTryLock, GiveUp
    <2>3. act'[a] = [act[a] EXCEPT !.pc = "unlock_take"] /\ OthersSame(a)
      BY ZenonT(90), <2>2, ActorEffect
    <2>4. /\ obj'[o] = [obj[o] EXCEPT !.wake_event_lock = TRUE, !.next_woken = Nil]
          /\ OtherObjectsSame(o)
      BY ZenonT(90), <2>2, ObjectEffect
    <2> QED BY SMTT(60), <1>o, <2>1, <2>2, <2>3, <2>4 DEF ActorType, ObjectType
  <1>2. \A b \in Actors : act[b].pc \in LockPcs => act[b].obj # o
    BY <1>1 DEF ListInv, LockInv
  <1>3. \A p \in Objects : InPush(p)' <=> InPush(p)
    BY <1>0, <1>o, <1>1 DEF InPush, OthersSame
  <1>4. ~InPush(o)
    BY <1>2 DEF InPush, LockPcs
  <1>5. IsWoken(o)' /\ \A p \in Objects \ {o} : IsWoken(p)' <=> IsWoken(p)
    BY SMTT(60), <1>1, Distinct DEF IsWoken, OtherObjectsSame
  <1>6. ActorRef(a) = Nil /\ ActorRef(a)' = o
    BY SMTT(90), <1>0, <1>o, <1>1 DEF ActorRef, TakePcs, LinkPcs
  <1>7. \A b \in Actors \ {a} : ActorRef(b)' = ActorRef(b)
    BY <1>1 DEF ActorRef, OthersSame
  <1>8. ObjectRef(o) = Nil /\ ObjectRef(o)' = Nil
    BY SMTT(60), <1>0, <1>o, <1>1, <1>3, <1>4, <1>5 DEF ObjectRef
  <1>9. \A p \in Objects \ {o} : ObjectRef(p)' = ObjectRef(p)
    BY SMTT(60), <1>1, <1>3, <1>5 DEF ObjectRef, OtherObjectsSame
  <1>10. \A r : GoodRef(r) => r # o /\ GoodRef(r)'
    BY SMTT(60), <1>0, <1>o, <1>1, <1>3, <1>5, Distinct DEF GoodRef
  <1>11. GoodRef(o)' /\ o # Nil
    BY SMTT(90), <1>0, <1>o, <1>3, <1>4, <1>5, Distinct DEF GoodRef
  <1>12. GoodRef(Nil)'
    BY SMTT(90) DEF GoodRef
  <1>13. RefInv'
    BY SMTT(90), <1>1, <1>6, <1>7, <1>8, <1>9, <1>10, <1>11, <1>12 DEF ListInv, RefInv
  <1>14. UniqueInv'
    <2>1. woken_objects # o /\ \A b \in Actors : ActorRef(b) # o
      BY SMTT(60), <1>10 DEF ListInv, RefInv
    <2>2. \A p \in Objects : ObjectRef(p) # o
      BY SMTT(90), <1>10 DEF ListInv, RefInv
    <2> QED BY SMTT(90), <1>1, <1>6, <1>7, <1>8, <1>9, <2>1, <2>2 DEF ListInv, UniqueInv
  <1>15. ActorInv'
    BY SMTT(90), <1>0, <1>o, <1>1, <1>2 DEF ListInv, ActorInv, ActorOk, RefInv, OthersSame, OtherObjectsSame, WakerPcs, LinkPcs, TakePcs, LockPcs
  <1>16. LockInv'
    BY SMTT(60), <1>0, <1>o, <1>1, <1>2 DEF ListInv, LockInv, ActorInv, ActorOk, OthersSame, OtherObjectsSame, LockPcs
  <1> QED BY <1>13, <1>14, <1>15, <1>16 DEF ListInv

\* wake_irq() has the lock of an unmarked object and is going to push it: no
\* reference leads to the object yet.
LEMMA ListStartPush ==
  ASSUME ListInv, NEW a \in Actors, NEW o \in Objects, OthersSame(a), OtherObjectsSame(o),
         woken_objects' = woken_objects, obj'[o].next_woken = obj[o].next_woken,
         ~obj[o].wake_event_lock, obj'[o].wake_event_lock, ~IsWoken(o),
         act[a].pc = "irq_trylock", act'[a].pc = "link",
         act[a].obj = o, act'[a].obj = o
  PROVE  ListInv'
  <1>1. \A b \in Actors : ActorRef(b)' = ActorRef(b)
    BY SMTT(60) DEF ActorRef, OthersSame, TakePcs, LinkPcs
  <1>2. \A p \in Objects \ {o} : InPush(p)' <=> InPush(p)
    BY SMTT(60) DEF InPush, OthersSame
  <1>3. \A p \in Objects : IsWoken(p)' <=> IsWoken(p)
    BY SMTT(60) DEF IsWoken, OtherObjectsSame
  <1>4. \A p \in Objects : ObjectRef(p)' = ObjectRef(p)
    BY SMTT(60), <1>2, <1>3 DEF ObjectRef, OtherObjectsSame
  <1>5. \A r : GoodRef(r) => GoodRef(r)'
    BY SMTT(90), <1>2, <1>3 DEF GoodRef
  <1>6. RefInv' /\ UniqueInv'
    BY SMTT(90), <1>1, <1>4, <1>5 DEF ListInv, RefInv, UniqueInv
  <1>7. ActorInv'
    BY SMTT(90) DEF ListInv, ActorInv, ActorOk, OthersSame, OtherObjectsSame, WakerPcs, LinkPcs, TakePcs
  <1>8. \A b \in Actors : act[b].pc \in LockPcs => act[b].obj # o
    BY SMTT(60) DEF ListInv, LockInv
  <1>9. LockInv'
    BY <1>8 DEF ListInv, LockInv, ActorInv, ActorOk, OthersSame, OtherObjectsSame, LockPcs
  <1> QED BY SMTT(60), <1>6, <1>7, <1>9 DEF ListInv

\* on_object_woke() sets the link of the object it is pushing: nobody sees it.
LEMMA ListLink ==
  ASSUME TypeOK, ListInv, NEW a \in Actors, NEW o \in Objects, OthersSame(a),
         OtherObjectsSame(o), woken_objects' = woken_objects,
         obj'[o].next_woken = woken_objects,
         obj'[o].wake_event_lock = obj[o].wake_event_lock,
         act[a].pc = "link", act'[a].pc = "cas",
         act[a].obj = o, act'[a].obj = o, act'[a].link = woken_objects
  PROVE  ListInv'
  <1>1. \A b \in Actors : ActorRef(b)' = ActorRef(b)
    BY DEF ActorRef, OthersSame, TakePcs, LinkPcs
  <1>2. InPush(o) /\ \A p \in Objects : InPush(p)' <=> InPush(p)
    BY SMTT(60) DEF InPush, OthersSame
  <1>3. \A p \in Objects \ {o} : IsWoken(p)' <=> IsWoken(p)
    BY SMTT(60) DEF IsWoken, OtherObjectsSame
  <1>4. \A p \in Objects : ObjectRef(p)' = ObjectRef(p)
    BY SMTT(60), <1>2, <1>3 DEF ObjectRef, OtherObjectsSame
  <1>5. \A r : GoodRef(r) => GoodRef(r)' /\ r # o
    BY SMTT(90), <1>2, <1>3, Distinct DEF GoodRef
  <1>6. RefInv' /\ UniqueInv'
    BY SMTT(90), <1>1, <1>4, <1>5 DEF ListInv, RefInv, UniqueInv
  <1>7. \A b \in Actors : act[b].pc \in TakePcs => act[b].obj # o
    BY SMTT(60), <1>5 DEF ListInv, RefInv, ActorRef
  <1>8. \A b \in Actors \ {a} : act[b].pc \in LockPcs => act[b].obj # o
    BY SMTT(90) DEF ListInv, LockInv, LockPcs
  <1>9. woken_objects \in Objects \cup {Nil} /\ (a \notin Wakers)
    BY SMTT(60) DEF TypeOK, ListInv, ActorInv, ActorOk, WakerPcs
  <1>10. ActorInv'
    <2>1. ActorOk(a)'
      BY SMTT(90), <1>9 DEF ActorOk, LinkPcs, TakePcs
    <2>2. ASSUME NEW b \in Actors \ {a} PROVE ActorOk(b)'
      <3>1. ActorOk(b) /\ act'[b] = act[b]
        BY SMTT(90) DEF ListInv, ActorInv, OthersSame
      <3>2. act[b].pc \in TakePcs \cup {"cas"} =>
              act[b].obj \in Objects /\ obj'[act[b].obj] = obj[act[b].obj]
        BY SMTT(90), <1>7, <1>8, <3>1 DEF ActorOk, OtherObjectsSame, TakePcs, LockPcs
      <3> QED BY SMTT(90), <3>1, <3>2 DEF ActorOk
    <2> QED BY SMTT(60), <2>1, <2>2 DEF ActorInv
  <1>11. LockInv'
    BY SMTT(90), <1>8 DEF ListInv, LockInv, ActorInv, ActorOk, OthersSame, OtherObjectsSame, LockPcs
  <1> QED BY SMTT(60), <1>6, <1>10, <1>11 DEF ListInv

\* The head moved: on_object_woke() tries again.
LEMMA ListRetry ==
  ASSUME ListInv, NEW a \in Actors, OthersSame(a), SameList,
         act[a].pc = "cas", act'[a].pc = "link", act'[a].obj = act[a].obj
  PROVE  ListInv'
  <1>1. \A b \in Actors : ActorRef(b)' = ActorRef(b)
    BY SMTT(90) DEF ActorRef, OthersSame, TakePcs, LinkPcs
  <1>2. \A p \in Objects : InPush(p)' <=> InPush(p)
    BY SMTT(60) DEF InPush, OthersSame
  <1>3. RefInv' /\ UniqueInv'
    BY SMTT(90), <1>1, <1>2, RefsSame DEF ListInv, SameList
  <1>4. ActorInv'
    BY SMTT(90) DEF ListInv, ActorInv, ActorOk, OthersSame, SameList, WakerPcs, LinkPcs, TakePcs
  <1>5. LockInv'
    BY SMTT(90) DEF ListInv, LockInv, ActorInv, ActorOk, OthersSame, SameList, LockPcs
  <1> QED BY SMTT(90), <1>3, <1>4, <1>5 DEF ListInv

\* The head is swung to o: o's link takes the head's reference over.
LEMMA ListPush ==
  ASSUME ListInv, NEW a \in Actors, NEW o \in Objects, OthersSame(a),
         \A p \in Objects : obj'[p] = obj[p],
         act[a].pc = "cas", act'[a].pc = "unlock", act[a].obj = o, act'[a].obj = o,
         act[a].link = woken_objects, woken_objects' = o
  PROVE  ListInv'
  <1>1. \A b \in Actors : ActorRef(b)' = ActorRef(b)
    BY SMTT(90) DEF ActorRef, OthersSame, TakePcs, LinkPcs
  <1>2. /\ obj[o].next_woken = woken_objects
        /\ woken_objects \in Objects \cup {Nil}
    BY DEF ListInv, ActorInv, ActorOk
  <1>3. \A b \in Actors \ {a} : act[b].pc \in LockPcs => act[b].obj # o
    BY SMTT(90) DEF ListInv, LockInv, LockPcs
  <1>4. /\ InPush(o) /\ ~InPush(o)'
        /\ \A p \in Objects \ {o} : InPush(p)' <=> InPush(p)
    BY <1>3 DEF InPush, OthersSame, LockPcs
  <1>5. IsWoken(o) /\ \A p \in Objects : IsWoken(p)' <=> IsWoken(p)
    BY SMTT(90), <1>2, Distinct DEF IsWoken
  <1>6. ObjectRef(o) = Nil /\ ObjectRef(o)' = woken_objects
    BY SMTT(90), <1>2, <1>4, <1>5 DEF ObjectRef
  <1>7. \A p \in Objects \ {o} : ObjectRef(p)' = ObjectRef(p)
    BY SMTT(90), <1>4, <1>5 DEF ObjectRef
  <1>8. \A r : GoodRef(r) => GoodRef(r)' /\ r # o
    BY SMTT(60), <1>4, <1>5, Distinct DEF GoodRef
  <1>9. GoodRef(o)' /\ o # Nil
    BY SMTT(90), <1>4, <1>5, Distinct DEF GoodRef
  <1>10. RefInv'
    BY SMTT(90), <1>1, <1>6, <1>7, <1>8, <1>9 DEF ListInv, RefInv
  <1>11. UniqueInv'
    <2>1. /\ \A b \in Actors : ActorRef(b) # o
          /\ \A p \in Objects : ObjectRef(p) # o
          /\ woken_objects # o
      BY SMTT(90), <1>8 DEF ListInv, RefInv
    <2> QED BY SMTT(90), <1>1, <1>6, <1>7, <1>9, <2>1 DEF ListInv, UniqueInv
  <1>12. ActorInv'
    BY SMTT(90) DEF ListInv, ActorInv, ActorOk, OthersSame, WakerPcs, LinkPcs, TakePcs
  <1>13. LockInv'
    BY <1>3 DEF ListInv, LockInv, ActorInv, ActorOk, OthersSame, LockPcs
  <1> QED BY <1>10, <1>11, <1>12, <1>13 DEF ListInv

\* process_wake_events() takes the whole list: the head's reference is its own now.
LEMMA ListDrain ==
  ASSUME ListInv, NEW c \in Actors, c \notin Wakers, OthersSame(c), obj' = obj,
         act[c].pc = "idle", act'[c].pc = "take", act'[c].obj = woken_objects,
         woken_objects \in Objects, woken_objects' = Nil
  PROVE  ListInv'
  <1>1. ActorRef(c) = Nil /\ ActorRef(c)' = woken_objects
    BY DEF ActorRef, TakePcs, LinkPcs
  <1>2. \A b \in Actors \ {c} : ActorRef(b)' = ActorRef(b)
    BY SMTT(60) DEF ActorRef, OthersSame
  <1>3. \A p \in Objects : (InPush(p)' <=> InPush(p)) /\ (IsWoken(p)' <=> IsWoken(p))
    BY SMTT(60) DEF InPush, OthersSame, IsWoken
  <1>4. \A p \in Objects : ObjectRef(p)' = ObjectRef(p)
    BY SMTT(60), <1>3 DEF ObjectRef
  <1>5. \A r : GoodRef(r) => GoodRef(r)'
    BY <1>3 DEF GoodRef
  <1>6. GoodRef(Nil)'
    BY SMTT(60) DEF GoodRef
  <1>7. RefInv'
    BY SMTT(90), <1>1, <1>2, <1>4, <1>5, <1>6 DEF ListInv, RefInv
  <1>8. UniqueInv'
    BY SMTT(90), <1>1, <1>2, <1>4 DEF ListInv, UniqueInv
  <1>9. ActorInv'
    BY SMTT(90) DEF ListInv, ActorInv, ActorOk, OthersSame, WakerPcs, LinkPcs, TakePcs
  <1>10. LockInv'
    BY SMTT(90) DEF ListInv, LockInv, OthersSame, LockPcs
  <1> QED BY SMTT(60), <1>7, <1>8, <1>9, <1>10 DEF ListInv

\* take_woken() unmarks o and moves from o to o's link.
LEMMA ListTake ==
  ASSUME ListInv, NEW a \in Actors, NEW o \in Objects, OthersSame(a), OtherObjectsSame(o),
         woken_objects' = woken_objects, ~obj[o].wake_event_lock,
         obj'[o].wake_event_lock, obj'[o].next_woken = NotWoken,
         act[a].pc = "take", act'[a].pc = "release", act[a].obj = o, act'[a].obj = o,
         act'[a].link = obj[o].next_woken
  PROVE  ListInv'
  <1>1. \A b \in Actors : act[b].pc \in LockPcs => act[b].obj # o
    BY SMTT(60) DEF ListInv, LockInv
  <1>2. ~InPush(o) /\ \A p \in Objects : InPush(p)' <=> InPush(p)
    BY SMTT(60), <1>1 DEF InPush, OthersSame, LockPcs
  <1>3. ActorRef(a) = o
    BY SMTT(90) DEF ActorRef, TakePcs
  <1>4. IsWoken(o)
    BY SMTT(90), <1>3, Distinct DEF ListInv, RefInv, GoodRef
  <1>5. ObjectRef(o) = obj[o].next_woken
    BY SMTT(90), <1>2, <1>4 DEF ObjectRef
  <1>6. ActorRef(a)' = ObjectRef(o) /\ ObjectRef(o)' = Nil
    BY SMTT(90), <1>5 DEF ActorRef, ObjectRef, IsWoken, TakePcs, LinkPcs
  <1>7. \A b \in Actors \ {a} : ActorRef(b)' = ActorRef(b)
    BY SMTT(90) DEF ActorRef, OthersSame
  <1>8. \A p \in Objects \ {o} : /\ IsWoken(p)' <=> IsWoken(p)
                                 /\ ObjectRef(p)' = ObjectRef(p)
    BY SMTT(90), <1>2 DEF ObjectRef, IsWoken, OtherObjectsSame
  <1>9. \A r : GoodRef(r) /\ r # o => GoodRef(r)'
    BY SMTT(90), <1>2, <1>8 DEF GoodRef
  <1>10. /\ woken_objects # o
         /\ \A b \in Actors \ {a} : ActorRef(b) # o
         /\ \A p \in Objects : ObjectRef(p) # o
    BY SMTT(90), <1>3, Distinct DEF ListInv, UniqueInv
  <1>11. RefInv'
    <2>1. GoodRef(Nil)'
      BY SMTT(90) DEF GoodRef
    <2> QED BY SMTT(90), <1>6, <1>7, <1>8, <1>9, <1>10, <2>1 DEF ListInv, RefInv
  <1>12. UniqueInv'
    <2>0. UniqueInv
      BY SMTT(90) DEF ListInv
    <2>1. \A b \in Actors : ActorRef(b)' = woken_objects => woken_objects = Nil
      BY SMTT(90), <1>6, <1>7, <2>0 DEF UniqueInv
    <2>2. \A p \in Objects : ObjectRef(p)' = woken_objects => woken_objects = Nil
      BY SMTT(90), <1>6, <1>8, <2>0 DEF UniqueInv
    <2>3. \A b, d \in Actors : ActorRef(b)' = ActorRef(d)' => b = d \/ ActorRef(b)' = Nil
      BY SMTT(90), <1>6, <1>7, <2>0 DEF UniqueInv
    <2>4. \A p, q \in Objects : ObjectRef(p)' = ObjectRef(q)' => p = q \/ ObjectRef(p)' = Nil
      BY SMTT(90), <1>6, <1>8, <2>0 DEF UniqueInv
    <2>5. \A b \in Actors, p \in Objects : ActorRef(b)' = ObjectRef(p)' => ObjectRef(p)' = Nil
      BY SMTT(90), <1>6, <1>7, <1>8, <2>0 DEF UniqueInv
    <2> QED BY SMTT(60), <2>1, <2>2, <2>3, <2>4, <2>5 DEF UniqueInv
  <1>13. \A b \in Actors \ {a} : act[b].pc \in TakePcs => act[b].obj # o
    BY SMTT(90), <1>10 DEF ActorRef
  <1>14. ActorInv'
    BY SMTT(90), <1>1, <1>13 DEF ListInv, ActorInv, ActorOk, OthersSame, OtherObjectsSame, WakerPcs, LinkPcs,
       TakePcs, LockPcs
  <1>15. LockInv'
    BY <1>1 DEF ListInv, LockInv, ActorInv, ActorOk, OthersSame, OtherObjectsSame, LockPcs
  <1> QED BY SMTT(90), <1>11, <1>12, <1>14, <1>15 DEF ListInv

\* The threads of one object are woken: on to the next one, if any.
LEMMA ListDelivered ==
  ASSUME ListInv, NEW a \in Actors, OthersSame(a), SameList, act[a].pc = "deliver",
         act'[a].pc = (IF act[a].link = Nil THEN "idle" ELSE "take"),
         act'[a].obj = act[a].link
  PROVE  ListInv'
  <1>1. \A b \in Actors : ActorRef(b)' = ActorRef(b)
    BY DEF ActorRef, OthersSame, TakePcs, LinkPcs
  <1>2. \A p \in Objects : InPush(p)' <=> InPush(p)
    BY SMTT(90) DEF InPush, OthersSame
  <1>3. RefInv' /\ UniqueInv'
    BY SMTT(90), <1>1, <1>2, RefsSame DEF ListInv, SameList
  <1>4. act[a].link \in Objects \cup {Nil}
    BY SMTT(90) DEF ListInv, RefInv, GoodRef, ActorRef, TakePcs, LinkPcs
  <1>5. ActorInv'
    <2>1. ActorOk(a)'
      BY SMTT(90), <1>4 DEF ListInv, ActorInv, ActorOk, WakerPcs, LinkPcs, TakePcs
    <2>2. ASSUME NEW b \in Actors \ {a} PROVE ActorOk(b)'
      <3>1. ActorOk(b) /\ act'[b] = act[b]
        BY SMTT(90) DEF ListInv, ActorInv, OthersSame
      <3> QED BY <3>1 DEF ActorOk, SameList, LinkPcs, TakePcs
    <2> QED BY SMTT(90), <2>1, <2>2 DEF ActorInv
  <1>6. LockInv'
    <2>1. act'[a].pc \notin LockPcs
      BY SMTT(90) DEF LockPcs
    <2>2. ASSUME NEW b \in Actors, act'[b].pc \in LockPcs
          PROVE  b # a /\ act'[b] = act[b] /\ act[b].obj \in Objects
      BY <2>1, <2>2 DEF OthersSame, ListInv, ActorInv, ActorOk, LockPcs
    <2> QED BY <2>2 DEF ListInv, LockInv, SameList
  <1> QED BY SMTT(60), <1>3, <1>5, <1>6 DEF ListInv

\* fetch_add of the counter does not touch the list.
LEMMA CountEffect ==
  ASSUME TypeOK, NEW a \in Actors, NEW o \in Objects, NEW p, Count(a, o, p),
         woken_objects' = woken_objects
  PROVE  act'[a].pc = p /\ act'[a].obj = o /\ OthersSame(a) /\ SameList
  <1>1. act'[a] = [act[a] EXCEPT !.pc = p, !.obj = o] /\ OthersSame(a)
    BY ZenonT(90), ActorEffect DEF Count
  <1>2. act'[a].pc = p /\ act'[a].obj = o
    BY <1>1 DEF TypeOK, ActorType
  <1>3. PICK n : obj' = [obj EXCEPT ![o] = [obj[o] EXCEPT !.wake_counter = n]]
    BY ZenonT(90) DEF Count
  <1>4. obj'[o] = [obj[o] EXCEPT !.wake_counter = n] /\ OtherObjectsSame(o)
    BY ZenonT(90), <1>3, ObjectEffect
  <1>5. SameList
    BY SMTT(60), <1>4 DEF SameList, OtherObjectsSame, TypeOK, ObjectType
  <1> QED BY <1>1, <1>2, <1>5

\* Every step of an actor keeps the invariant of the list.
LEMMA ListActor ==
  ASSUME TypeOK, ListInv, NEW a \in Actors, ActorStep(a)
  PROVE  ListInv'
  <1>a. act[a] \in ActorType
    BY DEF TypeOK
  <1>t. \A o \in Objects : obj[o] \in ObjectType
    BY SMTT(60) DEF TypeOK
  <1>o. act[a].pc \notin {"idle", "post"} => act[a].obj \in Objects
    BY SMTT(60) DEF ListInv, ActorInv, ActorOk
  <1>w. a \in Wakers => act[a].pc \in WakerPcs
    BY DEF ListInv, ActorInv, ActorOk
  <1>g. ASSUME GiveUp(a), act[a].pc \in {"trylock", "irq_trylock"},
               woken_objects' = woken_objects
        PROVE  ListInv'
    <2>1. act'[a] = [act[a] EXCEPT !.pc = "idle", !.obj = Nil] /\ OthersSame(a)
      BY ZenonT(90), <1>g, ActorEffect DEF GiveUp
    <2>2. act'[a].pc = "idle"
      BY <1>a, <2>1 DEF ActorType
    <2>3. SameList
      BY SMTT(90), <1>g DEF GiveUp, SameList
    <2> QED BY ZenonT(90), <1>g, <2>1, <2>2, <2>3, FreeMove DEF FreePcs
  <1>1. ASSUME NEW o \in Objects, act[a].pc = "count", Wake(a, o) PROVE ListInv'
    BY <1>1, CountEffect, FreeMove DEF Wake, FreePcs
  <1>2. CASE WakeTryLock(a)
    <2>1. CASE GiveUp(a)
      BY SMTT(60), <1>2, <1>g, <2>1 DEF WakeTryLock
    <2>2. PICK o \in Objects : o = act[a].obj
      BY SMTT(90), <1>2, <1>o DEF WakeTryLock
    <2>3. CASE ~GiveUp(a) /\ IsWoken(o)
      <3>1. /\ ~obj[o].wake_event_lock /\ act[a].pc = "trylock"
            /\ obj' = [obj EXCEPT ![o] = [obj[o] EXCEPT !.wake_event_lock = TRUE]]
            /\ act' = [act EXCEPT ![a] = [act[a] EXCEPT !.pc = "unlock"]]
            /\ woken_objects' = woken_objects
        BY <1>2, <2>2, <2>3 DEF WakeTryLock
      <3>2. /\ act'[a] = [act[a] EXCEPT !.pc = "unlock"] /\ OthersSame(a)
            /\ obj'[o] = [obj[o] EXCEPT !.wake_event_lock = TRUE] /\ OtherObjectsSame(o)
        BY ZenonT(90), <3>1, ActorEffect, ObjectEffect
      <3>3. /\ act'[a].pc = "unlock" /\ act'[a].obj = o /\ act'[a].link = act[a].link
            /\ obj'[o].wake_event_lock /\ obj'[o].next_woken = obj[o].next_woken
        BY <1>a, <1>t, <2>2, <3>2 DEF ActorType, ObjectType
      <3> QED BY <2>2, <3>1, <3>2, <3>3, LockMove
    <2>4. CASE ~GiveUp(a) /\ ~IsWoken(o)
      <3>1. act' = [act EXCEPT ![a] = [act[a] EXCEPT !.pc = "unlock_take"]]
        BY <1>2, <2>2, <2>4 DEF WakeTryLock
      <3>2. act'[a] = [act[a] EXCEPT !.pc = "unlock_take"]
        BY ZenonT(90), <3>1, ActorEffect
      <3>3. act'[a].pc = "unlock_take"
        BY <1>a, <3>2 DEF ActorType
      <3> QED BY <1>2, <3>3, ListMark
    <2> QED BY <2>1, <2>3, <2>4
  <1>3. CASE WakeUnlock(a)
    <2>2. PICK o \in Objects : o = act[a].obj
      BY <1>3, <1>o DEF WakeUnlock
    <2>3. /\ obj' = [obj EXCEPT ![o] = [obj[o] EXCEPT !.wake_event_lock = FALSE]]
          /\ woken_objects' = woken_objects
      BY <1>3, <2>2 DEF WakeUnlock
    <2>4. OtherObjectsSame(o) /\ obj'[o] = [obj[o] EXCEPT !.wake_event_lock = FALSE]
      BY ZenonT(90), <2>3, ObjectEffect
    <2>5. obj'[o].next_woken = obj[o].next_woken
      BY <1>t, <2>4 DEF ObjectType
    <2>6. CASE act[a].pc = "unlock"
      <3>1. act' = [act EXCEPT ![a] = [act[a] EXCEPT !.pc = "idle", !.obj = Nil]]
        BY <1>3, <2>6 DEF WakeUnlock
      <3>2. act'[a] = [act[a] EXCEPT !.pc = "idle", !.obj = Nil] /\ OthersSame(a)
        BY ZenonT(90), <3>1, ActorEffect
      <3>3. act'[a].pc = "idle" /\ act'[a].link = act[a].link
        BY <1>a, <3>2 DEF ActorType
      <3> QED BY ZenonT(90), <2>2, <2>3, <2>4, <2>5, <2>6, <3>2, <3>3, LockMove
    <2>7. CASE act[a].pc = "unlock_take"
      <3>1. act' = [act EXCEPT ![a] = [act[a] EXCEPT !.pc = "take"]]
        BY <1>3, <2>7 DEF WakeUnlock
      <3>2. act'[a] = [act[a] EXCEPT !.pc = "take"] /\ OthersSame(a)
        BY ZenonT(90), <3>1, ActorEffect
      <3>3. act'[a].pc = "take" /\ act'[a].obj = o /\ act'[a].link = act[a].link
        BY SMTT(60), <1>a, <2>2, <3>2 DEF ActorType
      <3> QED BY ZenonT(90), <2>2, <2>3, <2>4, <2>5, <2>7, <3>2, <3>3, LockMove
    <2> QED BY <1>3, <2>6, <2>7 DEF WakeUnlock
  <1>4. CASE TakeWoken(a)
    <2>2. PICK o \in Objects : o = act[a].obj
      BY <1>4, <1>o DEF TakeWoken
    <2>3. /\ obj' = [obj EXCEPT ![o] = [obj[o] EXCEPT !.wake_event_lock = TRUE,
                        !.next_woken = NotWoken, !.waiting_threads = {}]]
          /\ act' = [act EXCEPT ![a] = [act[a] EXCEPT !.pc = "release",
                        !.link = obj[o].next_woken, !.threads = obj[o].waiting_threads]]
          /\ woken_objects' = woken_objects /\ act[a].pc = "take"
          /\ ~obj[o].wake_event_lock
      BY <1>4, <2>2 DEF TakeWoken, MarkOnTake
    <2>4. /\ obj'[o] = [obj[o] EXCEPT !.wake_event_lock = TRUE,
                        !.next_woken = NotWoken, !.waiting_threads = {}]
          /\ act'[a] = [act[a] EXCEPT !.pc = "release",
                        !.link = obj[o].next_woken, !.threads = obj[o].waiting_threads]
          /\ OthersSame(a) /\ OtherObjectsSame(o)
      BY ZenonT(90), <2>3, ActorEffect, ObjectEffect
    <2>5. /\ obj'[o].wake_event_lock /\ obj'[o].next_woken = NotWoken
          /\ act'[a].pc = "release" /\ act'[a].obj = o /\ act'[a].link = obj[o].next_woken
      BY SMTT(60), <1>a, <1>t, <2>2, <2>4 DEF ActorType, ObjectType
    <2> QED BY <2>2, <2>3, <2>4, <2>5, ListTake
  <1>5. CASE TakeUnlock(a)
    <2>2. PICK o \in Objects : o = act[a].obj
      BY <1>5, <1>o DEF TakeUnlock
    <2>3. /\ obj' = [obj EXCEPT ![o] = [obj[o] EXCEPT !.wake_event_lock = FALSE]]
          /\ act' = [act EXCEPT ![a] = [act[a] EXCEPT !.pc = "deliver"]]
          /\ woken_objects' = woken_objects /\ act[a].pc = "release"
      BY <1>5, <2>2 DEF TakeUnlock
    <2>4. /\ obj'[o] = [obj[o] EXCEPT !.wake_event_lock = FALSE]
          /\ act'[a] = [act[a] EXCEPT !.pc = "deliver"]
          /\ OthersSame(a) /\ OtherObjectsSame(o)
      BY ZenonT(90), <2>3, ActorEffect, ObjectEffect
    <2>5. /\ obj'[o].next_woken = obj[o].next_woken
          /\ act'[a].pc = "deliver" /\ act'[a].obj = o /\ act'[a].link = act[a].link
      BY <1>a, <1>t, <2>2, <2>4 DEF ActorType, ObjectType
    <2> QED BY <2>2, <2>3, <2>4, <2>5, LockMove
  <1>6. ASSUME NEW t \in Threads, WakeByObject(a, t) PROVE ListInv'
    <2>1. act'[a] = [act[a] EXCEPT !.threads = act[a].threads \ {t}] /\ OthersSame(a)
      BY ZenonT(90), <1>6, ActorEffect DEF WakeByObject
    <2>2. /\ act'[a].pc = act[a].pc /\ act'[a].obj = act[a].obj
          /\ act'[a].link = act[a].link
      BY <1>a, <2>1 DEF ActorType
    <2>3. SameActors /\ SameList
      BY <1>6, <2>1, <2>2 DEF SameActors, SameList, OthersSame, WakeByObject
    <2> QED BY <2>3, ListFrame
  <1>7. ASSUME NEW t \in Threads, PostWakeLocked(a, t) PROVE ListInv'
    <2>1. act'[a] = [act[a] EXCEPT !.pc = "idle", !.threads = {}] /\ OthersSame(a)
      BY ZenonT(90), <1>7, ActorEffect DEF PostWakeLocked
    <2>2. act'[a].pc = "idle"
      BY <1>a, <2>1 DEF ActorType
    <2>3. SameList /\ act[a].pc = "post"
      BY <1>7 DEF PostWakeLocked, SameList
    <2> QED BY ZenonT(90), <2>1, <2>2, <2>3, FreeMove DEF FreePcs
  <1>8. CASE Delivered(a)
    <2>1. act'[a] = [act[a] EXCEPT !.pc = IF act[a].link = Nil THEN "idle" ELSE "take",
                                   !.obj = act[a].link, !.link = Nil]
            /\ OthersSame(a)
      BY ZenonT(90), <1>8, ActorEffect DEF Delivered
    <2>2. /\ act'[a].pc = (IF act[a].link = Nil THEN "idle" ELSE "take")
          /\ act'[a].obj = act[a].link
      BY <1>a, <2>1 DEF ActorType
    <2>3. SameList /\ act[a].pc = "deliver"
      BY <1>8 DEF Delivered, SameList
    <2> QED BY ZenonT(90), <2>1, <2>2, <2>3, ListDelivered
  <1>9. CASE IrqTryLock(a)
    <2>1. CASE GiveUp(a)
      BY <1>9, <1>g, <2>1 DEF IrqTryLock
    <2>2. PICK o \in Objects : o = act[a].obj
      BY <1>9, <1>o DEF IrqTryLock
    <2>3. CASE ~GiveUp(a)
      <3>1. PICK p : /\ p = (IF IsWoken(o) THEN "unlock" ELSE "link")
                     /\ act' = [act EXCEPT ![a] = [act[a] EXCEPT !.pc = p]]
        BY SMTT(90), <1>9, <2>2, <2>3 DEF IrqTryLock
      <3>2. /\ ~obj[o].wake_event_lock /\ act[a].pc = "irq_trylock"
            /\ obj' = [obj EXCEPT ![o] = [obj[o] EXCEPT !.wake_event_lock = TRUE]]
            /\ woken_objects' = woken_objects
        BY <1>9, <2>2, <2>3 DEF IrqTryLock
      <3>3. /\ act'[a] = [act[a] EXCEPT !.pc = p] /\ OthersSame(a)
            /\ obj'[o] = [obj[o] EXCEPT !.wake_event_lock = TRUE] /\ OtherObjectsSame(o)
        BY ZenonT(90), <3>1, <3>2, ActorEffect, ObjectEffect
      <3>4. /\ act'[a].pc = p /\ act'[a].obj = o /\ act'[a].link = act[a].link
            /\ obj'[o].wake_event_lock /\ obj'[o].next_woken = obj[o].next_woken
        BY SMTT(60), <1>a, <1>t, <2>2, <3>3 DEF ActorType, ObjectType
      <3>5. CASE IsWoken(o)
        BY SMTT(60), <2>2, <3>1, <3>2, <3>3, <3>4, <3>5, LockMove
      <3>6. CASE ~IsWoken(o)
        BY SMTT(90), <2>2, <3>1, <3>2, <3>3, <3>4, <3>6, ListStartPush
      <3> QED BY <3>5, <3>6
    <2> QED BY <2>1, <2>3
  <1>10. CASE LinkWoken(a)
    <2>2. PICK o \in Objects : o = act[a].obj
      BY <1>10, <1>o DEF LinkWoken
    <2>3. /\ obj' = [obj EXCEPT ![o] = [obj[o] EXCEPT !.next_woken = woken_objects]]
          /\ act' = [act EXCEPT ![a] = [act[a] EXCEPT !.pc = "cas", !.link = woken_objects]]
          /\ woken_objects' = woken_objects /\ act[a].pc = "link"
      BY <1>10, <2>2 DEF LinkWoken
    <2>4. /\ obj'[o] = [obj[o] EXCEPT !.next_woken = woken_objects]
          /\ act'[a] = [act[a] EXCEPT !.pc = "cas", !.link = woken_objects]
          /\ OthersSame(a) /\ OtherObjectsSame(o)
      BY ZenonT(90), <2>3, ActorEffect, ObjectEffect
    <2>5. /\ obj'[o].next_woken = woken_objects
          /\ obj'[o].wake_event_lock = obj[o].wake_event_lock
          /\ act'[a].pc = "cas" /\ act'[a].obj = o /\ act'[a].link = woken_objects
      BY <1>a, <1>t, <2>2, <2>4 DEF ActorType, ObjectType
    <2> QED BY <2>2, <2>3, <2>4, <2>5, ListLink
  <1>11. CASE CasWoken(a)
    <2>2. PICK o \in Objects : o = act[a].obj
      BY <1>11, <1>o DEF CasWoken
    <2>3. obj' = obj /\ act[a].pc = "cas"
      BY <1>11 DEF CasWoken
    <2>4. CASE woken_objects = act[a].link
      <3>1. /\ act' = [act EXCEPT ![a] = [act[a] EXCEPT !.pc = "unlock", !.link = Nil]]
            /\ woken_objects' = o
        BY <1>11, <2>2, <2>4 DEF CasWoken, HeadUnmoved
      <3>2. act'[a] = [act[a] EXCEPT !.pc = "unlock", !.link = Nil] /\ OthersSame(a)
        BY ZenonT(90), <3>1, ActorEffect
      <3>3. act'[a].pc = "unlock" /\ act'[a].obj = o
        BY <1>a, <2>2, <3>2 DEF ActorType
      <3> QED BY <2>2, <2>3, <2>4, <3>1, <3>2, <3>3, ListPush
    <2>5. CASE woken_objects # act[a].link
      <3>1. /\ act' = [act EXCEPT ![a] = [act[a] EXCEPT !.pc = "link"]]
            /\ woken_objects' = woken_objects
        BY <1>11, <2>5 DEF CasWoken, HeadUnmoved
      <3>2. act'[a] = [act[a] EXCEPT !.pc = "link"] /\ OthersSame(a)
        BY ZenonT(90), <3>1, ActorEffect
      <3>3. act'[a].pc = "link" /\ act'[a].obj = act[a].obj
        BY SMTT(60), <1>a, <3>2 DEF ActorType
      <3> QED BY <2>3, <3>1, <3>2, <3>3, ListRetry DEF SameList
    <2> QED BY <2>4, <2>5
  <1> QED BY SMTT(60), <1>1, <1>2, <1>3, <1>4, <1>5, <1>6, <1>7, <1>8, <1>9, <1>10, <1>11
          DEF ActorStep

\* Every step keeps the invariant of the list.
LEMMA ListStep ==
  ASSUME TypeOK, ListInv, [Next]_vars
  PROVE  ListInv'
  <1>1. CASE Environment
    <2>1. ASSUME NEW t \in Threads, NEW S \in SUBSET Objects, NEW to \in Timeouts,
                 SysWait(t, S, to)
          PROVE  ListInv'
      BY SMTT(90), <2>1, ListFrame DEF SysWait, SameList, SameActors
    <2>2. ASSUME NEW w \in Wakers, NEW o \in Objects, Wake(w, o) PROVE ListInv'
      BY <2>2, CountEffect, FreeMove DEF Wake, FreePcs, Actors
    <2>3. ASSUME NEW w \in Wakers, NEW o \in Objects, MarkDone(w, o) PROVE ListInv'
      <3>0. w \in Actors
        BY DEF Actors
      <3>1. /\ act'[w] = [act[w] EXCEPT !.pc = "count", !.obj = o] /\ OthersSame(w)
            /\ obj'[o] = [obj[o] EXCEPT !.done = TRUE] /\ OtherObjectsSame(o)
        BY ZenonT(90), <2>3, <3>0, ActorEffect, ObjectEffect DEF MarkDone
      <3>2. act'[w].pc = "count" /\ act'[w].obj = o
        BY <3>0, <3>1 DEF TypeOK, ActorType
      <3>3. SameList /\ act[w].pc = "idle"
        BY <2>3, <3>1 DEF MarkDone, SameList, OtherObjectsSame, TypeOK, ObjectType
      <3> QED BY ZenonT(90), <3>0, <3>1, <3>2, <3>3, FreeMove DEF FreePcs
    <2>4. ASSUME NEW w \in Wakers, NEW t \in Threads, PostWake(w, t) PROVE ListInv'
      <3>0. w \in Actors
        BY DEF Actors
      <3>1. act'[w] = [act[w] EXCEPT !.pc = "post", !.threads = {t}] /\ OthersSame(w)
        BY ZenonT(90), <2>4, <3>0, ActorEffect DEF PostWake
      <3>2. act'[w].pc = "post"
        BY <3>0, <3>1 DEF TypeOK, ActorType
      <3>3. SameList /\ act[w].pc = "idle"
        BY SMTT(90), <2>4 DEF PostWake, SameList
      <3> QED BY ZenonT(90), <3>0, <3>1, <3>2, <3>3, FreeMove DEF FreePcs
    <2>5. ASSUME NEW i \in Irqs, NEW o \in Objects, WakeIrq(i, o) PROVE ListInv'
      <3>1. i \in Actors /\ i \notin Wakers
        BY SMTT(90), Distinct DEF Actors
      <3> QED BY SMTT(60), <2>5, <3>1, CountEffect, FreeMove DEF WakeIrq, FreePcs
    <2> QED BY <1>1, <2>1, <2>2, <2>3, <2>4, <2>5, Kinds DEF Environment
  <1>2. ASSUME NEW t \in Threads, ThreadStep(t) PROVE ListInv'
    <2>1. act' = act /\ woken_objects' = woken_objects
      BY SMTT(90), <1>2 DEF ThreadStep, AddWaitingThread, CheckWakeCount, NewTimeout, OnThreadPaused,
         TakeWakers, ResumeWaiter, WaitWoke, ProcessWake
    <2>2. \A o \in Objects : /\ obj'[o].next_woken = obj[o].next_woken
                             /\ obj'[o].wake_event_lock = obj[o].wake_event_lock
      <3>1. CASE AddWaitingThread(t)
        <4>1. PICK o \in Objects :
                obj' = [obj EXCEPT ![o] = [obj[o] EXCEPT
                          !.waiting_threads = obj[o].waiting_threads \cup {t}]]
          BY ZenonT(90), <3>1, ThreadFields DEF AddWaitingThread
        <4> QED BY <4>1 DEF TypeOK, ObjectType
      <3>2. CASE RemoveWaiting(t)
        BY <3>2 DEF RemoveWaiting, TypeOK, ObjectType
      <3>3. CASE ProcessWake(t)
        BY <3>3 DEF ProcessWake, TypeOK, ObjectType
      <3> QED BY <1>2, <3>1, <3>2, <3>3 DEF ThreadStep, CheckWakeCount, NewTimeout,
              OnThreadPaused, TakeWakers, ResumeWaiter, WaitWoke
    <2> QED BY SMTT(90), <2>1, <2>2, ListFrame DEF SameList, SameActors
  <1>3. ASSUME NEW t \in Threads, NEW c \in Cpus,
               Preempt(t, c) \/ ResumeInKernel(t, c) \/ ResumeInUserspace(t, c)
        PROVE  ListInv'
    BY SMTT(60), <1>3, ListFrame
       DEF Preempt, ResumeInKernel, ResumeInUserspace, SameList, SameActors
  <1>4. ASSUME NEW c \in Cpus, TimerPop(c) \/ ClaimTimeout(c) \/ WakeByTimeout(c)
        PROVE  ListInv'
    BY <1>4, ListFrame DEF TimerPop, ClaimTimeout, WakeByTimeout, SameList, SameActors
  <1>5. ASSUME NEW c \in Cpus, ProcessWakeEvents(c) PROVE ListInv'
    <2>0. c \in Actors /\ c \notin Wakers /\ woken_objects \in Objects
      BY <1>5, Distinct DEF Actors, ProcessWakeEvents, TypeOK
    <2>1. act'[c] = [act[c] EXCEPT !.pc = "take", !.obj = woken_objects] /\ OthersSame(c)
      BY ZenonT(90), <1>5, <2>0, ActorEffect DEF ProcessWakeEvents
    <2>2. act'[c].pc = "take" /\ act'[c].obj = woken_objects
      BY <2>0, <2>1 DEF TypeOK, ActorType
    <2>3. act[c].pc = "idle" /\ woken_objects' = Nil /\ obj' = obj
      BY SMTT(60), <1>5 DEF ProcessWakeEvents, Free
    <2> QED BY ZenonT(90), <2>0, <2>1, <2>2, <2>3, ListDrain
  <1>6. CASE UNCHANGED vars
    BY SMTT(60), <1>6, ListFrame DEF vars, SameList, SameActors
  <1> QED BY SMTT(60), <1>1, <1>2, <1>3, <1>4, <1>5, <1>6, ListActor DEF Next

\* The list invariant implies the property.
LEMMA ListSound == ASSUME ListInv PROVE WokenListSound
  <1> SUFFICES ASSUME NEW a \in Actors
               PROVE  /\ act[a].pc \in {"unlock_take", "take"} => IsWoken(act[a].obj)
                      /\ a \in Wakers /\ act[a].pc \in {"release", "deliver"}
                           => act[a].link = Nil
                      /\ \A b \in Actors \ {a} :
                           ~ /\ {act[a].pc, act[b].pc} \subseteq {"unlock_take", "take"}
                             /\ act[a].obj = act[b].obj
    BY SMTT(90) DEF WokenListSound
  <1>1. act[a].pc \in {"unlock_take", "take"} =>
          ActorRef(a) = act[a].obj /\ act[a].obj \in Objects
    BY DEF ActorRef, TakePcs, ListInv, ActorInv, ActorOk
  <1>2. \A b \in Actors : act[b].pc \in {"unlock_take", "take"} => ActorRef(b) = act[b].obj
    BY SMTT(90) DEF ActorRef, TakePcs
  <1>3. act[a].pc \in {"unlock_take", "take"} => IsWoken(act[a].obj)
    BY SMTT(90), <1>1, Distinct DEF ListInv, RefInv, GoodRef
  <1>4. a \in Wakers /\ act[a].pc \in {"release", "deliver"} => act[a].link = Nil
    BY SMTT(90) DEF ListInv, ActorInv, ActorOk, LinkPcs
  <1>5. ASSUME NEW b \in Actors \ {a},
               {act[a].pc, act[b].pc} \subseteq {"unlock_take", "take"},
               act[a].obj = act[b].obj
        PROVE  FALSE
    BY SMTT(90), <1>1, <1>2, <1>5, Distinct DEF ListInv, UniqueInv
  <1> QED BY SMTT(90), <1>3, <1>4, <1>5
-----------------------------------------------------------------------------
(***************************************************************************)
(* Ways to run.                                                            *)
(***************************************************************************)

\* At the start every thread has one way to run.
LEMMA RunInit == ASSUME Init PROVE RunInv
  BY ZenonT(90), Distinct DEF Init, RunInv, OneCpu, Way, OnCpu, NoJobs

\* CPU by CPU, u runs where it ran.
SameCpus(u) == \A c \in Cpus : running'[c] = u <=> running[c] = u

Untouched(u) ==
  /\ status'[u] = status[u] /\ upc'[u] = upc[u] /\ SameCpus(u)
  /\ resume_jobs'[u] = resume_jobs[u] /\ user_jobs'[u] = user_jobs[u]

\* A thread that no CPU takes up or leaves.
LEMMA CpusKept ==
  ASSUME NEW u, SameCpus(u)
  PROVE  (OnCpu(u)' <=> OnCpu(u)) /\ (OneCpu(u)' <=> OneCpu(u))
  BY DEF SameCpus, OnCpu, OneCpu

\* A thread that a step does not touch keeps its way to run.
LEMMA RunSame ==
  ASSUME NEW u, OneCpu(u), Way(u), Untouched(u)
  PROVE  OneCpu(u)' /\ Way(u)'
  <1>1. OneCpu(u)' /\ (OnCpu(u)' <=> OnCpu(u))
    BY SMTT(90), CpusKept DEF Untouched
  <1>2. NoJobs(u)' <=> NoJobs(u)
    BY SMTT(90) DEF Untouched, NoJobs
  <1>3. Way(u)'
    BY ZenonT(90), <1>1, <1>2 DEF Way, Untouched
  <1> QED BY SMTT(90), <1>1, <1>3

\* A step of one thread.
LEMMA RunOne ==
  ASSUME RunInv, NEW t \in Threads, \A u \in Threads \ {t} : Untouched(u),
         OneCpu(t)', Way(t)'
  PROVE  RunInv'
  BY RunSame DEF RunInv

\* So does every thread when no step touches any.
LEMMA RunFrame ==
  ASSUME RunInv, UNCHANGED <<status, upc, resume_jobs, user_jobs, running>>
  PROVE  RunInv'
  <1>1. \A u \in Threads : Untouched(u)
    BY DEF Untouched, SameCpus
  <1> QED BY SMTT(60), <1>1, RunSame DEF RunInv

\* A wake, by whom it may be, posts one job, and only for a sleeping thread.
LEMMA RunWake ==
  ASSUME TypeOK, RunInv, NEW t \in Threads, MakeRunnable(t),
         UNCHANGED <<upc, user_jobs, running>>
  PROVE  RunInv'
  <1>1. CASE ~Wakeable(t)
    BY <1>1, RunFrame DEF MakeRunnable
  <1>2. CASE Wakeable(t)
    <2>1. upc[t] = "parked" /\ ~OnCpu(t) /\ NoJobs(t) /\ OneCpu(t)
      BY <1>2 DEF RunInv, Way, Wakeable
    <2>2. /\ status' = [status EXCEPT ![t] = "Runnable"]
          /\ resume_jobs' = [resume_jobs EXCEPT ![t] = @ + 1]
      BY <1>2 DEF MakeRunnable
    <2>3. \A u \in Threads : SameCpus(u)
      BY SMTT(90) DEF SameCpus
    <2>4. \A u \in Threads \ {t} : Untouched(u)
      BY <2>2, <2>3 DEF Untouched, TypeOK
    <2>5. OneCpu(t)' /\ ~OnCpu(t)'
      BY SMTT(90), <2>1, <2>3, CpusKept
    <2>6. status'[t] = "Runnable" /\ resume_jobs'[t] = 1 /\ user_jobs'[t] = 0
      BY SMTT(90), <2>1, <2>2 DEF TypeOK, NoJobs
    <2>7. Way(t)'
      BY ZenonT(90), <2>1, <2>5, <2>6 DEF Way
    <2> QED BY SMTT(90), <2>4, <2>5, <2>7, RunOne
  <1> QED BY <1>1, <1>2

\* Thread t moves inside the kernel, on its CPU.
LEMMA RunKernel ==
  ASSUME TypeOK, RunInv, NEW t \in Threads, NEW p \in UserPcs, NEW s \in Statuses,
         upc' = [upc EXCEPT ![t] = p], status' = [status EXCEPT ![t] = s],
         UNCHANGED <<resume_jobs, user_jobs, running>>,
         upc[t] # "parked", status[t] # "Preempted",
         \/ p = "user" /\ s = "Running"
         \/ p \in {"register", "check", "timeout", "pause", "consume"} /\ s = "Syscall"
         \/ p \in {"resume", "woke"} /\ s = "Runnable"
  PROVE  RunInv'
  <1>1. OnCpu(t) /\ NoJobs(t) /\ OneCpu(t)
    BY DEF RunInv, Way
  <1>2. \A u \in Threads : SameCpus(u)
    BY SMTT(90) DEF SameCpus
  <1>3. \A u \in Threads \ {t} : Untouched(u)
    BY SMTT(90), <1>2 DEF Untouched, TypeOK
  <1>4. OneCpu(t)' /\ OnCpu(t)' /\ NoJobs(t)'
    <2>1. SameCpus(t)
      BY <1>2
    <2>2. OneCpu(t)' /\ OnCpu(t)'
      BY ZenonT(90), <1>1, <2>1, CpusKept
    <2>3. NoJobs(t)'
      BY SMTT(90), <1>1 DEF NoJobs
    <2> QED BY <2>2, <2>3
  <1>5. status'[t] = s /\ upc'[t] = p
    BY SMTT(90) DEF TypeOK
  <1>6. Way(t)'
    BY SMTT(90), <1>4, <1>5 DEF Way
  <1> QED BY SMTT(90), <1>3, <1>4, <1>6, RunOne

\* Thread t leaves its CPU; thread t enters a free one.
LEMMA LeaveCpu ==
  ASSUME TypeOK, NEW t \in Threads, NEW c \in Cpus, OneCpu(t), running[c] = t,
         running' = [running EXCEPT ![c] = Nil]
  PROVE  /\ OneCpu(t)' /\ ~OnCpu(t)'
         /\ \A u \in Threads \ {t} : SameCpus(u)
  BY SMTT(90), Distinct DEF TypeOK, OneCpu, OnCpu, SameCpus

\* A CPU takes up a thread that is on no other.
LEMMA EnterCpu ==
  ASSUME TypeOK, NEW t \in Threads, NEW c \in Cpus, ~OnCpu(t), running[c] = Nil,
         running' = [running EXCEPT ![c] = t]
  PROVE  /\ OneCpu(t)' /\ OnCpu(t)'
         /\ \A u \in Threads \ {t} : SameCpus(u)
  BY SMTT(90), Distinct DEF TypeOK, OneCpu, OnCpu, SameCpus

\* Every step keeps the relation between a thread's place and its ways to run.
LEMMA RunStep ==
  ASSUME TypeOK, RunInv, [Next]_vars
  PROVE  RunInv'
  <1>1. CASE Environment
    <2>1. ASSUME NEW t \in Threads, NEW S \in SUBSET Objects, NEW to \in Timeouts,
                 SysWait(t, S, to)
          PROVE  RunInv'
      BY ZenonT(90), <2>1, RunKernel DEF SysWait, UserPcs, Statuses
    <2> QED BY ZenonT(90), <1>1, <2>1, RunFrame
            DEF Environment, Wake, MarkDone, PostWake, WakeIrq, ActorFrame
  <1>2. ASSUME NEW t \in Threads, ThreadStep(t) PROVE RunInv'
    <2>0. /\ status \in [Threads -> Statuses]
          /\ upc[t] \in {"register", "check", "timeout", "pause", "consume"}
               => status[t] = "Syscall"
          /\ upc[t] \in {"resume", "woke"} => status[t] = "Runnable"
      BY DEF TypeOK, RunInv, Way
    <2>s. status = [status EXCEPT ![t] = status[t]] /\ status[t] \in Statuses
      BY SMTT(90), <2>0
    <2>1. CASE AddWaitingThread(t)
      BY ZenonT(90), <2>0, <2>1, <2>s, RunKernel DEF AddWaitingThread, UserPcs
    <2>2. CASE CheckWakeCount(t)
      BY ZenonT(90), <2>0, <2>2, <2>s, RunKernel DEF CheckWakeCount, UserPcs
    <2>3. ASSUME NEW c \in Cpus, NewTimeout(t, c) PROVE RunInv'
      BY ZenonT(90), <2>0, <2>3, <2>s, RunKernel DEF NewTimeout, UserPcs
    <2>4. ASSUME NEW c \in Cpus, OnThreadPaused(t, c) PROVE RunInv'
      <3>1. OneCpu(t) /\ NoJobs(t)
        BY ZenonT(90), <2>4 DEF OnThreadPaused, RunInv, Way
      <3>2. OneCpu(t)' /\ ~OnCpu(t)' /\ \A u \in Threads \ {t} : SameCpus(u)
        BY ZenonT(90), <2>4, <3>1, LeaveCpu DEF OnThreadPaused
      <3>3. \A u \in Threads \ {t} : Untouched(u)
        BY SMTT(90), <2>4, <3>2 DEF OnThreadPaused, Untouched, TypeOK
      <3>4. /\ upc'[t] = "parked" /\ user_jobs'[t] = 0
            /\ \/ status'[t] = "InWait" /\ resume_jobs'[t] = 0
               \/ status'[t] = "Runnable" /\ resume_jobs'[t] = 1
        BY SMTT(90), <2>4, <3>1 DEF OnThreadPaused, TypeOK, NoJobs
      <3>5. Way(t)'
        BY ZenonT(90), <3>2, <3>4 DEF Way, NoJobs
      <3> QED BY <3>2, <3>3, <3>5, RunOne
    <2>5. CASE TakeWakers(t)
      BY ZenonT(90), <2>0, <2>5, <2>s, RunKernel DEF TakeWakers, UserPcs
    <2>6. CASE ResumeWaiter(t)
      BY ZenonT(90), <2>0, <2>6, <2>s, RunKernel DEF ResumeWaiter, UserPcs
    <2>7. CASE WaitWoke(t)
      BY ZenonT(90), <2>7, RunKernel DEF WaitWoke, UserPcs, Statuses
    <2>8. CASE ProcessWake(t)
      BY ZenonT(90), <2>0, <2>8, RunKernel DEF ProcessWake, UserPcs, Statuses
    <2> QED BY SMTT(90), <1>2, <2>1, <2>2, <2>3, <2>4, <2>5, <2>6, <2>7, <2>8 DEF ThreadStep
  <1>3. ASSUME NEW a \in Actors, ActorStep(a) PROVE RunInv'
    <2>1. ASSUME NEW t \in Threads, WakeByObject(a, t) PROVE RunInv'
      BY ZenonT(90), <2>1, RunWake DEF WakeByObject, ActorFrame
    <2>2. ASSUME NEW t \in Threads, PostWakeLocked(a, t) PROVE RunInv'
      BY ZenonT(90), <2>2, RunWake DEF PostWakeLocked, ActorFrame
    <2> QED BY ZenonT(90), <1>3, <2>1, <2>2, RunFrame
            DEF ActorStep, Wake, WakeTryLock, WakeUnlock, TakeWoken, TakeUnlock, Delivered,
                IrqTryLock, LinkWoken, CasWoken, ActorFrame
  <1>4. ASSUME NEW t \in Threads, NEW c \in Cpus, Preempt(t, c) PROVE RunInv'
    <2>1. OneCpu(t) /\ NoJobs(t)
      BY ZenonT(90), <1>4 DEF Preempt, RunInv, Way
    <2>2. OneCpu(t)' /\ ~OnCpu(t)' /\ \A u \in Threads \ {t} : SameCpus(u)
      BY ZenonT(90), <1>4, <2>1, LeaveCpu DEF Preempt
    <2>3. \A u \in Threads \ {t} : Untouched(u)
      BY SMTT(60), <1>4, <2>2 DEF Preempt, Untouched, TypeOK
    <2>4. /\ upc'[t] = "user" /\ status'[t] = "Preempted"
          /\ resume_jobs'[t] = 0 /\ user_jobs'[t] = 1
      BY <1>4, <2>1 DEF Preempt, TypeOK, NoJobs
    <2>5. Way(t)'
      BY ZenonT(90), <2>2, <2>4 DEF Way
    <2> QED BY <2>2, <2>3, <2>5, RunOne
  <1>5. ASSUME NEW t \in Threads, NEW c \in Cpus, ResumeInKernel(t, c) PROVE RunInv'
    <2>1. /\ status[t] = "Runnable" /\ ~OnCpu(t)
          /\ resume_jobs[t] = 1 /\ user_jobs[t] = 0
      BY <1>5 DEF ResumeInKernel, RunInv, Way, NoJobs
    <2>2. OneCpu(t)' /\ OnCpu(t)' /\ \A u \in Threads \ {t} : SameCpus(u)
      BY ZenonT(90), <1>5, <2>1, EnterCpu DEF ResumeInKernel, Free
    <2>3. \A u \in Threads \ {t} : Untouched(u)
      BY <1>5, <2>2 DEF ResumeInKernel, Untouched, TypeOK
    <2>4. upc'[t] = "resume" /\ status'[t] = "Runnable" /\ NoJobs(t)'
      BY SMTT(60), <1>5, <2>1 DEF ResumeInKernel, TypeOK, NoJobs
    <2>5. Way(t)'
      BY SMTT(60), <2>2, <2>4 DEF Way
    <2> QED BY <2>2, <2>3, <2>5, RunOne
  <1>6. ASSUME NEW t \in Threads, NEW c \in Cpus, ResumeInUserspace(t, c) PROVE RunInv'
    <2>1. /\ upc[t] = "user" /\ ~OnCpu(t)
          /\ resume_jobs[t] = 0 /\ user_jobs[t] = 1
      BY SMTT(90), <1>6 DEF ResumeInUserspace, RunInv, Way, NoJobs
    <2>2. OneCpu(t)' /\ OnCpu(t)' /\ \A u \in Threads \ {t} : SameCpus(u)
      BY ZenonT(90), <1>6, <2>1, EnterCpu DEF ResumeInUserspace, Free
    <2>3. \A u \in Threads \ {t} : Untouched(u)
      BY SMTT(60), <1>6, <2>2 DEF ResumeInUserspace, Untouched, TypeOK
    <2>4. upc'[t] = "user" /\ status'[t] = "Running" /\ NoJobs(t)'
      BY SMTT(60), <1>6, <2>1 DEF ResumeInUserspace, TypeOK, NoJobs
    <2>5. Way(t)'
      BY SMTT(90), <2>2, <2>4 DEF Way
    <2> QED BY <2>2, <2>3, <2>5, RunOne
  <1>7. ASSUME NEW c \in Cpus, WakeByTimeout(c) PROVE RunInv'
    <2>1. timer_job[c].thread \in Threads
      BY SMTT(90), <1>7 DEF WakeByTimeout, TypeOK
    <2> QED BY SMTT(90), <1>7, <2>1, RunWake DEF WakeByTimeout
  <1>8. ASSUME NEW c \in Cpus, TimerPop(c) \/ ClaimTimeout(c) \/ ProcessWakeEvents(c)
        PROVE  RunInv'
    BY SMTT(90), <1>8, RunFrame DEF TimerPop, ClaimTimeout, ProcessWakeEvents, ActorFrame
  <1>9. CASE UNCHANGED vars
    BY SMTT(90), <1>9, RunFrame DEF vars
  <1> QED BY SMTT(90), <1>1, <1>2, <1>3, <1>4, <1>5, <1>6, <1>7, <1>8, <1>9 DEF Next

\* The invariant gives each thread one way to run.
LEMMA RunOnce == ASSUME TypeOK, RunInv PROVE OneWayToRun
  <1> SUFFICES ASSUME NEW t \in Threads
               PROVE  /\ \A c, d \in Cpus : running[c] = t /\ running[d] = t => c = d
                      /\ OnCpu(t) => resume_jobs[t] = 0 /\ user_jobs[t] = 0
                      /\ resume_jobs[t] + user_jobs[t] <= 1
    BY ZenonT(90) DEF OneWayToRun
  <1>1. /\ \A c, d \in Cpus : running[c] = t /\ running[d] = t => c = d
        /\ OnCpu(t) => resume_jobs[t] = 0 /\ user_jobs[t] = 0
    BY SMTT(90) DEF RunInv, OneCpu, Way, NoJobs
  <1>2. \/ resume_jobs[t] = 0 /\ user_jobs[t] = 0
        \/ resume_jobs[t] = 1 /\ user_jobs[t] = 0
        \/ resume_jobs[t] = 0 /\ user_jobs[t] = 1
    BY DEF RunInv, Way, NoJobs
  <1> QED BY SMTT(90), <1>1, <1>2
-----------------------------------------------------------------------------
IInv == TypeOK /\ WaitInv /\ ListInv /\ RunInv

\* The invariant holds in every reachable state.
LEMMA Inductive == Spec => []IInv
  <1>1. Init => IInv
    <2>1. NewThread.wait_objects = {} /\ NewThread.timer_id = 0
      BY SMTT(90) DEF NewThread
    <2>2. Init => WaitInv
      BY ZenonT(90), <2>1 DEF Init, WaitInv
    <2> QED BY SMTT(90), <2>2, TypeInit, ListInit, RunInit DEF IInv
  <1>2. IInv /\ [Next]_vars => IInv'
    BY TypeStep, WaitStep, ListStep, RunStep DEF IInv, ListInv
  <1> QED BY <1>1, <1>2, PTL DEF Spec

\* Every variable keeps its type; in particular only handles of objects are put
\* on a thread's list of wakers.
THEOREM TypeCorrect == Spec => []TypeOK
  BY Inductive, PTL DEF IInv

\* The lock-free list of woken objects is sound, with any number of interrupt
\* contexts pushing and of CPUs and wakers taking: take_woken only meets marked
\* objects, wake() never finds a link behind its object, and no object is
\* taken by two at once.
THEOREM WokenListCorrect == Spec => []WokenListSound
  BY Inductive, ListSound, PTL DEF IInv

\* A thread has at most one way to run, however wakes by objects, timers and
\* other threads race with its going to sleep.
THEOREM RunsOnce == Spec => []OneWayToRun
  BY Inductive, RunOnce, PTL DEF IInv

\* The asserts and panics of the waiting side are never reached: wait() is
\* resumed only as Runnable and resume_in_userspace only as Preempted,
\* add_wait_objects finds an empty list and new_timeout no timer.
THEOREM WaitAssertsHold == Spec => []WaitAsserts
  <1>1. IInv => WaitAsserts
    <2> SUFFICES ASSUME IInv, NEW t \in Threads
                 PROVE  /\ upc[t] \in {"resume", "woke"} => status[t] = "Runnable"
                        /\ user_jobs[t] > 0 => status[t] = "Preempted"
                        /\ upc[t] \in {"register", "check"} => thr[t].wait_objects = {}
                        /\ upc[t] \in {"user", "register", "check", "timeout"}
                             => thr[t].timer_id = 0
      BY ZenonT(90) DEF WaitAsserts
    <2>1. /\ upc[t] \in {"resume", "woke"} => status[t] = "Runnable"
          /\ user_jobs[t] > 0 => status[t] = "Preempted"
      BY DEF IInv, RunInv, Way, NoJobs
    <2> QED BY SMTT(90), <2>1 DEF IInv, WaitInv
  <1> QED BY <1>1, Inductive, PTL
=============================================================================
