------------------------------- MODULE Futex -------------------------------
(***************************************************************************)
(* The userspace futex (moto-runtime/src/futex.rs) under the mutex that is *)
(* built on it (moto-runtime/src/mutex.rs): one lock word, hence one key   *)
(* of FUTEX_WAIT_QUEUES, and the threads that lock and unlock it.  The     *)
(* futex's other users (systest's test_futex, sysbox top) add wake_all and *)
(* timeouts, which a thread of this model may use as well.                 *)
(*                                                                         *)
(* A step is one critical section of a spin lock, one access to the lock   *)
(* word or one system call.                                                *)
(***************************************************************************)
EXTENDS Naturals, Sequences, FiniteSets

CONSTANTS
  Threads,
  Queues,           \* identities of WaitQueue allocations
  BUSY_LOOP_ITERS,  \* spins of obtain_lock before it waits
  Timed,            \* may futex_wait have a timeout: a subset of BOOLEAN
  WakeAll,          \* is the unlock a futex_wake_all: a subset of BOOLEAN
  NoQueue, NoThread

ASSUME FutexConstants ==
  /\ BUSY_LOOP_ITERS \in Nat /\ Timed \subseteq BOOLEAN /\ WakeAll \subseteq BOOLEAN
  /\ NoQueue \notin Queues /\ NoThread \notin Threads

UNLOCKED == 0
LOCKED == 1

VARIABLES
  lock,        \* the lock word
  registered,  \* FUTEX_WAIT_QUEUES at the lock's address
  queue,       \* the WaitQueues: [entries, num_waiters]
  thr,         \* per thread: where it is, and its locals
  token        \* kernel: has the thread wakes that no wait has taken

vars == <<lock, registered, queue, thr, token>>

NewQueue == [entries |-> <<>>, num_waiters |-> 0]
NewThread == [pc |-> "idle", spins |-> 0, timed |-> FALSE, queue |-> NoQueue,
              timed_out |-> FALSE, all |-> FALSE, wakee |-> NoThread]

Init ==
  /\ lock = UNLOCKED /\ registered = NoQueue
  /\ queue = [q \in Queues |-> NewQueue]
  /\ thr = [t \in Threads |-> NewThread]
  /\ token = [t \in Threads |-> FALSE]

Goto(t, pc) == thr' = [thr EXCEPT ![t] = [@ EXCEPT !.pc = pc]]

\* An Arc<WaitQueue> nobody refers to is a fresh one when it is allocated again.
Unused(q) == q # registered /\ \A t \in Threads : thr[t].queue # q

----------------------------------------------------------------------------
(* Mutex::obtain_lock *)

\* compare_exchange of the lock word; spin a while, then futex_wait.
CanLock_Woken(t) == lock = UNLOCKED \/ thr[t].pc = "lock"
CanLock(t) == lock = UNLOCKED

ObtainLock(t) ==
  /\ thr[t].pc \in {"idle", "lock"}
  /\ \/ /\ CanLock(t)
        /\ lock' = LOCKED
        /\ thr' = [thr EXCEPT ![t] = [@ EXCEPT !.pc = "locked", !.spins = 0]]
     \/ /\ ~CanLock(t) /\ thr[t].spins < BUSY_LOOP_ITERS
        /\ thr' = [thr EXCEPT ![t] = [@ EXCEPT !.pc = "lock",
                                               !.spins = thr[t].spins + 1]]
        /\ UNCHANGED lock
     \/ /\ ~CanLock(t) /\ thr[t].spins = BUSY_LOOP_ITERS
        /\ \E b \in Timed :
             thr' = [thr EXCEPT ![t] = [@ EXCEPT !.pc = "check", !.timed = b]]
        /\ UNCHANGED lock
  /\ UNCHANGED <<registered, queue, token>>

----------------------------------------------------------------------------
(* futex_wait(lock, LOCKED, timeout) *)

\* The loop's head: the word has changed, or the time is over, or wait.
Check(t) ==
  /\ thr[t].pc = "check"
  /\ \/ lock # LOCKED /\ Goto(t, "lock")
     \/ lock = LOCKED /\ thr[t].timed /\ Goto(t, "lock")
     \/ lock = LOCKED /\ Goto(t, "find")
  /\ UNCHANGED <<lock, registered, queue, token>>

\* Under the lock of FUTEX_WAIT_QUEUES: find the queue or insert a new one.
FindQueue(t) ==
  /\ thr[t].pc = "find"
  /\ \/ /\ registered # NoQueue
        /\ UNCHANGED <<registered, queue>>
     \/ /\ registered = NoQueue
        /\ \E q \in Queues :
             /\ Unused(q)
             /\ registered' = q
             /\ queue' = [queue EXCEPT ![q] = NewQueue]
  /\ thr' = [thr EXCEPT ![t] = [@ EXCEPT !.pc = "join", !.queue = registered']]
  /\ UNCHANGED <<lock, token>>

\* num_waiters.fetch_add, outside of any lock.
Join(t) ==
  /\ thr[t].pc = "join"
  /\ queue' = [queue EXCEPT ![thr[t].queue] = [@ EXCEPT
                 !.num_waiters = queue[thr[t].queue].num_waiters + 1]]
  /\ Goto(t, "recheck")
  /\ UNCHANGED <<lock, registered, token>>

Recheck(t) ==
  /\ thr[t].pc = "recheck"
  /\ \/ lock = LOCKED /\ Goto(t, "enqueue")
     \/ lock # LOCKED /\ Goto(t, "leave")
  /\ UNCHANGED <<lock, registered, queue, token>>

\* WaitQueue::wait: the entry on the thread's stack becomes the last one.
Enqueue(t) ==
  /\ thr[t].pc = "enqueue"
  /\ queue' = [queue EXCEPT ![thr[t].queue] = [@ EXCEPT
                 !.entries = Append(queue[thr[t].queue].entries, t)]]
  /\ Goto(t, "wait")
  /\ UNCHANGED <<lock, registered, token>>

\* SysCpu::wait returns: woken, or timed out.  Either way the thread's wakes are
\* taken, also one that arrived too late for the timeout.
Wait(t) ==
  /\ thr[t].pc = "wait"
  /\ \E timed_out \in BOOLEAN :
       /\ IF timed_out THEN thr[t].timed ELSE token[t]
       /\ thr' = [thr EXCEPT ![t] = [@ EXCEPT !.pc = "dequeue",
                                              !.timed_out = timed_out]]
  /\ token' = [token EXCEPT ![t] = FALSE]
  /\ UNCHANGED <<lock, registered, queue>>

\* The entry goes away with the stack frame: unlink it if wake_one did not.
Unlinked_TimedOut(t, s) ==
  IF thr[t].timed_out THEN SelectSeq(s, LAMBDA u : u # t) ELSE s
Unlinked(t, s) == SelectSeq(s, LAMBDA u : u # t)

Dequeue(t) ==
  /\ thr[t].pc = "dequeue"
  /\ queue' = [queue EXCEPT ![thr[t].queue] = [@ EXCEPT
                 !.entries = Unlinked(t, queue[thr[t].queue].entries)]]
  /\ Goto(t, "leave")
  /\ UNCHANGED <<lock, registered, token>>

\* Under the lock of FUTEX_WAIT_QUEUES: the last waiter removes the queue, if
\* it is still the registered one.  (Mutant: whichever is registered.)
Forgets_ByKey(t) == queue[thr[t].queue].num_waiters = 1
Forgets(t) ==
  queue[thr[t].queue].num_waiters = 1 /\ registered = thr[t].queue

\* (Mutant: a timed out waiter is counted off twice.)
WaitersLeft_Twice(t) ==
  queue[thr[t].queue].num_waiters - (IF thr[t].timed_out THEN 2 ELSE 1)
WaitersLeft(t) == queue[thr[t].queue].num_waiters - 1

Leave(t) ==
  /\ thr[t].pc = "leave"
  /\ registered' = IF Forgets(t) THEN NoQueue ELSE registered
  /\ queue' = [queue EXCEPT ![thr[t].queue] = [@ EXCEPT
                 !.num_waiters = WaitersLeft(t)]]
  /\ thr' = [thr EXCEPT ![t] = [@ EXCEPT
               !.pc = IF thr[t].timed_out THEN "lock" ELSE "check",
               !.queue = NoQueue, !.timed_out = FALSE]]
  /\ UNCHANGED <<lock, token>>

----------------------------------------------------------------------------
(* MutexGuard::drop, futex_wake, futex_wake_all *)

Unlock(t) ==
  /\ thr[t].pc = "locked"
  /\ lock' = UNLOCKED
  /\ \E b \in WakeAll :
       thr' = [thr EXCEPT ![t] = [@ EXCEPT !.pc = "unlocked", !.all = b]]
  /\ UNCHANGED <<registered, queue, token>>

\* Look the queue up; futex_wake_all also removes it from the map.
Wake(t) ==
  /\ thr[t].pc = "unlocked"
  /\ registered' = IF thr[t].all THEN NoQueue ELSE registered
  /\ thr' = [thr EXCEPT ![t] = [@ EXCEPT
               !.pc = IF registered = NoQueue THEN "idle" ELSE "wake",
               !.queue = registered]]
  /\ UNCHANGED <<lock, queue, token>>

Wakee_Last(entries) == entries[Len(entries)]
Wakee(entries) == Head(entries)

\* wake_one's critical section: unlink the first entry and keep its handle.
WakeOne(t) ==
  LET entries == queue[thr[t].queue].entries IN
  /\ thr[t].pc = "wake"
  /\ \/ /\ entries = <<>>
        /\ thr' = [thr EXCEPT ![t] = [@ EXCEPT !.pc = "idle", !.queue = NoQueue]]
        /\ UNCHANGED queue
     \/ /\ entries # <<>>
        /\ thr' = [thr EXCEPT ![t] = [@ EXCEPT !.pc = "notify",
                                               !.wakee = Wakee(entries)]]
        /\ queue' = [queue EXCEPT ![thr[t].queue] = [@ EXCEPT
                       !.entries = Tail(entries)]]
  /\ UNCHANGED <<lock, registered, token>>

\* SysCpu::wake, outside of the lock; wake_all goes on until the queue is empty.
Notify(t) ==
  /\ thr[t].pc = "notify"
  /\ token' = [token EXCEPT ![thr[t].wakee] = TRUE]
  /\ thr' = [thr EXCEPT ![t] = [@ EXCEPT
               !.pc = IF thr[t].all THEN "wake" ELSE "idle",
               !.queue = IF thr[t].all THEN thr[t].queue ELSE NoQueue,
               !.wakee = NoThread]]
  /\ UNCHANGED <<lock, registered, queue>>

----------------------------------------------------------------------------
Step(t) ==
  \/ ObtainLock(t) \/ Check(t) \/ FindQueue(t) \/ Join(t) \/ Recheck(t)
  \/ Enqueue(t) \/ Wait(t) \/ Dequeue(t) \/ Leave(t)
  \/ Unlock(t) \/ Wake(t) \/ WakeOne(t) \/ Notify(t)

Next == \E t \in Threads : Step(t)

Spec == Init /\ [][Next]_vars

----------------------------------------------------------------------------
(* Properties *)

Pcs == {"idle", "lock", "locked", "unlocked", "wake", "notify", "check", "find",
        "join", "recheck", "enqueue", "wait", "dequeue", "leave"}

\* The variables have their types.
TypeOK ==
  /\ lock \in {UNLOCKED, LOCKED}
  /\ registered \in Queues \cup {NoQueue}
  /\ queue \in [Queues -> [entries : Seq(Threads), num_waiters : Nat]]
  /\ thr \in [Threads -> [pc : Pcs, spins : Nat, timed : BOOLEAN,
                          queue : Queues \cup {NoQueue}, timed_out : BOOLEAN,
                          all : BOOLEAN, wakee : Threads \cup {NoThread}]]
  /\ token \in [Threads -> BOOLEAN]

\* Mutex: one guard at a time.
MutualExclusion ==
  \A t, u \in Threads : t # u => ~(thr[t].pc = "locked" /\ thr[u].pc = "locked")

\* "Lives on stack": a queue links only entries whose WaitQueue::wait has not
\* returned, each once, and in the queue that wait works on.
EntriesAreAlive ==
  \A q \in Queues : ~Unused(q) =>
    /\ \A i \in DOMAIN queue[q].entries :
         LET t == queue[q].entries[i] IN
         thr[t].pc \in {"wait", "dequeue"} /\ thr[t].queue = q
    /\ \A i, j \in DOMAIN queue[q].entries :
         queue[q].entries[i] = queue[q].entries[j] => i = j

\* Linked(t, q): the entry of t is in q.  A wake_all has q when it has taken q
\* off the map and will go on until q is empty.
Linked(t, q) == \E i \in DOMAIN queue[q].entries : queue[q].entries[i] = t
Draining(u, q) == thr[u].all /\ thr[u].pc \in {"wake", "notify"} /\ thr[u].queue = q

\* The map's queue is taken from a linked waiter by nobody but a wake_all that
\* will wake it: the last waiter to leave another queue of the same word (one
\* that a wake_all has taken off the map) must not take this one instead, or
\* its waiters are out of the reach of every later wake.
LinkedStaysReachable ==
  [][\A t \in Threads, q \in Queues :
       /\ registered = q /\ Linked(t, q)
       /\ registered' # q
       => \E u \in Threads : Draining(u, q)']_vars

Asleep(t) == thr[t].pc = "wait" /\ ~token[t] /\ ~thr[t].timed

\* wake_one unlinks an entry under the queue's lock and wakes its thread after it:
\* a sleeping thread that no queue links is about to be woken.
UnlinkedIsWoken ==
  \A t \in Threads : Asleep(t) =>
    \/ \E i \in DOMAIN queue[thr[t].queue].entries :
         queue[thr[t].queue].entries[i] = t
    \/ \E u \in Threads : thr[u].pc = "notify" /\ thr[u].wakee = t

\* No thread sleeps on a free lock once every other thread is asleep or done:
\* test_rt_mutex and test_futex join all their threads.
NobodyIsForgotten ==
  (\A t \in Threads : thr[t].pc = "idle" \/ Asleep(t)) /\ lock = UNLOCKED
    => \A t \in Threads : ~Asleep(t)
============================================================================
