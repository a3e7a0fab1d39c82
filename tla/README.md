# Motor OS in TLA+

Motor OS is a microkernel-style operating system in Rust: a kernel that knows
threads, processes, memory and wakes; a user-space driver process (`sys-io`)
for the network and the disk; and a runtime library (`moto-runtime`) on which
Rust's standard library runs. This directory holds TLA+ models of the parts in
which threads, interrupts and processes meet, the TLC runs that check them and
the theorems that TLAPS proves about them.

Paths below are relative to `src/src/` unless they begin with `src/`.

## 1. The system and its parts

| part | state | operations | talks to |
|---|---|---|---|
| wait/wake (`bin/kernel/src/uspace/sysobject.rs`, `process.rs`, `sys_cpu.rs`) | a wake counter and a list of waiting threads per object, the global list of woken objects, a status, queued wakers and a timer per thread | `sys_wait`, `sys_wake`, `SysObject::wake`, `wake_irq`, `process_wake_events`, `wake_by_object`, `wake_by_timeout` | scheduler, interrupts, every blocking call |
| processes and threads (`process.rs`, `sys_ray_dbg.rs`) | a status per process and per thread, the table of threads | spawn, start, run, system call, preemption, exit, kill, fault, out of memory, pause, resume | scheduler, wait/wake, statistics |
| scheduler and timers (`bin/kernel/src/sched/`) | a job queue per CPU and a global one, a timer queue per CPU | `post`, `post_timer`, the loop, `wake` | all of the kernel |
| objects and shared URLs (`shared.rs`, `sys_obj.rs`) | listeners by URL, pairs of objects that share pages | `create`, `get`, drop, `put` | wait/wake, memory |
| memory (`bin/kernel/src/mm/`, `sys_mem.rs`) | frames, slabs, segments, page tables | map, unmap, share, allocate | processes |
| I/O channels (`lib/moto-ipc/src/io_channel.rs`) | two lock-free rings and two page bitmaps in shared memory | `connect`, `accept`, `send`, `recv`, `alloc_page`, `free_page` | runtime, sys-io |
| synchronous RPC and pipes (`sync.rs`, `sync_pipe.rs`) | a sequence number; a byte ring with two counters | `do_rpc`, `finish_rpc`, `wait`; `read`, `write` | runtime, sys-io's file systems, stdio |
| futex and mutex (`lib/moto-runtime/src/futex.rs`, `mutex.rs`) | a map from addresses to queues of entries on the waiters' stacks | `futex_wait`, `futex_wake`, `futex_wake_all`, `lock`, `unlock` | wait/wake |
| network client (`lib/moto-runtime/src/net.rs`) | per channel: an I/O thread, a send queue, waiters for space, waiters for responses, two flags about sleeping | `send_receive`, `send_msg`, the I/O thread's loop, streams and listeners on top | I/O channels, sys-io |
| sys-io's I/O thread (`bin/sys-io/src/runtime/io_thread.rs`) | listeners, connections, pending completions, a cached wakee | its loop | network stack, clients |
| network stack, file systems, drivers (`bin/sys-io/src/net`, `fs`, `lib/srfs*`, `lib/virtio`) | sockets; blocks and transactions; descriptor rings | requests, completions, interrupts | sys-io's threads |

What makes it hard is the same everywhere: *sleeping*. A kernel thread decides
to sleep while another CPU, an interrupt or a timer decides to wake it; a futex
waiter while the lock is released; an I/O thread while a request is queued; and
sys-io while a client connects. On top of this come kills, timeouts and full
queues, which strike between any two steps. The correctness properties that
follow are: nobody sleeps with a wake that is due to it; nobody is resumed twice; a
dead thread stays dead and a process that begins to exit finishes, with the
exit code that came first; memory that is handed over without a lock (a ring's
slot, an entry on a stack) has one owner; and what was sent arrives, once and
in order.

`PROJECT.json` lists every component, the ones that are not modelled with the
reason, and the hazards at their source lines.

## 2. The modules

| module | models | lines of the source |
|---|---|---|
| `WaitWake` | the kernel's wait/wake protocol | `sysobject.rs`, `sys_cpu.rs` 12-443, `process.rs` 1378-1446 and 1500-1650, `sched/timers.rs`, `scheduler.rs` |
| `WaitWakeProofs` | its theorems | |
| `Lifecycle` | one process, its threads, and everything that ends them | `process.rs`, `sys_ray_dbg.rs`, `stats.rs` |
| `MsgQueue` | one ring of an I/O channel | `io_channel.rs` |
| `MsgFifo` | what a ring promises: a bounded first-in first-out queue | |
| `MsgQueueProofs` | the theorems about the ring | |
| `Futex` | the futex under the mutex | `futex.rs`, `mutex.rs` |
| `NetChannel` | the client: threads that send requests and the channel's I/O thread | `net.rs` 125-460 |
| `IoRuntime` | sys-io's I/O thread | `io_thread.rs` |
| `NetIo` | client and server over the same queues and wakes | |
| `MC...` | the symmetry sets and constants of the runs | |

In every module but one a step is one critical section, one atomic operation or
one system call; neighbouring operations are one step only where no other actor
can tell. The exception is `IoRuntime`, whose step is one whole handler of
sys-io's loop (one completion, one woken handle): a client that runs in the
middle of a handler is seen before or after it. Memory is sequentially
consistent except where `NetChannel`'s `StoreBuffer` says otherwise.

**WaitWake.** `obj` is a `SysObject` with its counter, its lock
(`wake_event_lock`), its link in the woken list and its waiting threads;
`thr` and `status` are a `Thread`; `upc` is where a thread is in `sys_wait`.
`act` holds what a caller of `wake`, an interrupt or a CPU in
`process_wake_events` is doing: each goes through count, try-lock, unlock, take
and deliver in separate steps. CPUs run threads, pop timers and serve posted
jobs. A kill, and a swap to another thread, are wakes for this module.

**Lifecycle.** `process` and `thread` carry the two statuses of `process.rs`
with the code's own names; `jobs` counts what is posted to the scheduler for
each thread. Handlers are actions under the lock that the code takes. The constant `Events` selects
what may happen from outside: a kill by handle (`kill`) or by pid, peer or
parent (`die`), also before the main thread was first woken (`early`); a second
wake of a thread that is about to start (`rewake`); no memory for a kernel stack
(`oom`); a page fault or another exception in user code; an overwritten guard
word of the thread's user TCB, which `on_syscall_enter` looks at first
(`guard`); a debugger. Where the code
panics, `Panics` holds and nothing happens any more. The status that the handler
of a failed guard check (`KilledSf`) accepts is set only after that check, so it
has no accepting step.

**MsgQueue.** `head`, `tail` and the stamps are the atomics of the shared page; each load,
compare-exchange and store is a step, and so is each stamp that `connect` writes
while the server already polls. `send` of the client and of the server are the same code, as is
`recv`; `Senders` and `Receivers` are threads of the two sides.

**Futex.** One lock word, the map's entry for it, and the allocations of
`WaitQueue` that may exist at the same time, because a waiter can hold on to a
queue that is no longer in the map. A thread's wakes are a Boolean token: this
is what the kernel's `wakers` are for a wait without handles.

**NetChannel, IoRuntime, NetIo.** The client's action per step of
`send_receive` and `send_msg` (try the send queue, join the waiters for space,
request a wake, wake the I/O thread, wait) and per step of the I/O thread
(receive, send, wake a waiter, stop running, look again, wake the driver, sleep).
The server's actions are the stages of its loop, each a whole handler: the
network is polled, completions are delivered, woken handles are polled or
accepted, the cached wake is flushed, and the thread sleeps, is woken or times out. The network
subsystem is a set of requests that are being worked on. The rings are the
queues that `MsgQueue` is shown to implement.

## 3. The runs

`tlc -config X.cfg M` with the files below, in this directory. Violation runs
show where the code does not do what a comment, an assertion or a test of the
repository says; each has an entry in "findings" of `PROJECT.json`.

| run | configuration | shows |
|---|---|---|
| `waitwake_safe` | `MCWaitWake`, `WaitWake_safe.cfg` | two CPUs; in part "calls" two wakers of one object, direct wakes and all kinds of timeout, in part "interrupts" two interrupts on two objects, and two CPUs that take the woken list: a thread has one way to run, the assertions of `process.rs` 1010, 1018, 1422 and 1520 hold, the woken list is sound, and a marked object is always reached by somebody who will take it |
| `waitwake_live` | `MCWaitWake`, `WaitWake_live.cfg` | two CPUs; parts "timers" (two timed waits in a row against direct wakes), "objects" (two wakes of two objects), "interrupts": timed waits end, direct wakes reach the sleeper, a sleeper of a marked object is resumed, an object that is done wakes every waiter |
| `waitwake_lost` | `WaitWake`, `WaitWake_lost.cfg` | *violation*: of two concurrent `wake()` calls the second gives up while the first has emptied the waiting list and not yet unlocked, and the wake of a thread that registers then is lost (`sysobject.rs` 205) |
| `lifecycle_safe` | `MCLifecycle`, `Lifecycle_safe.cfg` | three threads with exits, page faults and kills after the start: no panic, one owner per thread, exit is final and completes, the exit code is kept |
| `lifecycle_rough` | `Lifecycle_rough.cfg` | two threads with everything that may happen, in a build without debug assertions: exit is final, the code is kept, the dead stay dead |
| `lifecycle_leak` | `Lifecycle_leak.cfg` | *violation*: a thread that is spawned while the process is killed stays counted (`process.rs` 478) |
| `queue_ring` | `MCMsgQueue`, `MsgQueue_ring.cfg` | two senders, two receivers, two slots: slots have one owner, the ring implements `MsgFifo`, everything sent is received |
| `futex_safe` | `MCFutex`, `Futex_safe.cfg` | three threads, timeouts, `wake_all`: mutual exclusion, no dangling entry, an unlinked sleeper is about to be woken, and a queue leaves the map with entries only when somebody empties it |
| `futex_lost` | `Futex_lost.cfg` | *violation*: an unlock between the second comparison and the entry into the queue wakes nobody (`futex.rs` 192) |
| `net_safe` | `MCNetIo`, `NetIo_safe.cfg` | queues of one slot; part "threads": two threads of a process, their I/O thread and sys-io; part "alone": one thread that sends two requests and whose loads may overtake its stores; part "processes": two processes as sys-io sees them: no response without its waiter, and neither requests nor responses lie in a queue without a wake that announces them |
| `net_lost` | `NetIo`, `NetIo_lost.cfg` | *violation*: sys-io drops the wake of a new client when its wait timed out in the same moment (`io_thread.rs` 464) |
| `net_store` | `NetIo`, `NetIo_store.cfg` | *violation*: the load of `io_thread_running` overtakes the store of `io_thread_wake_requested`, and the I/O thread sleeps with a request in its queue (`net.rs` 267) |

`MCWaitWake` and `MCNetIo` have a variable `part` that never changes and selects
one of several instances. Within a part only what the environment starts is
restricted (who waits for what, who wakes, who interrupts, who sends), never a step that
somebody is obliged to take; so the fairness means the same in each part.

`WaitAsserts` does not cover the assertions at `sys_cpu.rs` 153 and 156, about a
list of more than five wakers: `MaxQueued` keeps the list shorter.

### Bounds

The bounds are constants: the guards name them (`MaxWakes`, `MaxQueued`,
`MaxTimers`, `MaxJobs`, `MaxPos`, `MaxReqs`). They are chosen so that the
interesting case happens:

* one waiting thread and two wakers are enough for a race of a wait with two
  wakes, of which one meets the lock of the other; two interrupts on two objects
  give the woken list two elements and make a compare-exchange fail, and two
  CPUs let one push meet two takers. A behaviour of part "calls" has at
  most two wakes, direct ones included; in part "interrupts" one object is woken
  at most once and the other at most twice. Waiting threads
  meet only in the list of an object, which a wake takes as a whole;
* two timers in `waitwake_live`: an old timer fires while a later wait is on;
* three threads of a process: the main thread, one that is spawned while another
  dies, and one that is killed from outside;
* two slots and three positions: the ring wraps, and a sender with a stale head
  meets a slot of the next lap. The theorems cover every size;
* three threads on a lock: one holds it, one waits, and one comes between; three
  queues, since each thread can hold on to an allocation of its own;
* queues of one slot and batches of one in `net_safe`: each send meets a full
  queue, and each batch ends at its limit. Two client processes share only
  sys-io's loop and its cached wakee; in part "processes" each is reduced to what
  sys-io can see of it (it sends, it is woken, it takes all there is), and the
  cached wakee changes from one to the other.

All runs switch the deadlock check off: once the bounds are used up, everybody
sleeps or has exited, and the real system may come to rest as well (all
programs finished, all queues empty).

Symmetry is used in the runs without temporal properties only, over sets whose
members the specification does not tell apart.

### Fairness

* `WaitWake`: a thread in the kernel runs on a CPU with nothing that could stop
  it (weak), and so does a wake in progress (strong, because it may spin for
  `wake_event_lock` while others take and release it); the 20 ms tick preempts user code (weak); and the scheduler
  loop takes timers, jobs and wake events in turn (`scheduler.rs` 308-430), so
  each is reached again and again (strong). Nobody has to wait or to wake.
* `Lifecycle`: posted jobs run, system calls return, user code meets the tick.
  Nobody has to exit or to kill.
* `MsgQueue`: a sender that has its slot goes on, and a receiver keeps polling.
* `NetIo`: threads run (weak) and the network answers (strong on `PollNet`, which
  the loop reaches again and again). Nobody has to send, and no timeout has to
  expire: an answer that only a timeout would bring is no answer.

### Mutants

Each property of a passing run has a mutant in `PROJECT.json`: a definition of
the model changed the way a plausible bug would change the code, defined just
before the original (`Foo_Variant` before `Foo`). TLC finds the property violated
under the run's own configuration.

### Properties that TLC refutes and that have no run

They are stated in the modules, with a comment, and can be reproduced.

| property | setting | what happens |
|---|---|---|
| `TimeoutIsOwn` (WaitWake) | one thread, one object, two CPUs, one waker, `Timeouts = {"none", "later"}`, bounds 1 | a timer that was claimed on one CPU reports its timeout to a later wait of the thread (`process.rs` 2006; `scheduler.rs` 528 says "Timers are per-cpu, so that wait/timeout are serialized") |
| `NoLostWake` (WaitWake) | two interrupts, two CPUs, one object | as in `waitwake_lost`: the second interrupt gives up at the try-lock (`sysobject.rs` 175) while a CPU has emptied the waiting list and not unlocked |
| `DoneStaysWoken` (WaitWake) | `Timeouts = {"none", "kill"}`, `DoneObjects = {o1}` | the wait of `sys_kill` does not read `done` (`sys_cpu.rs` 394) |
| `~Panics` (Lifecycle) | `Events` with `rewake` | a thread is started twice, and the second start meets the assertion at `process.rs` 1314 |
| `~Panics` | `oom` with `DebugAssertions`; `exception`; `debug` | statuses that `process.rs` 602, 699, 641 and 701 exclude are reached |
| `~Panics` | `guard` | `KilledSf` accepts only a thread in a system call, but the guard is checked before the thread is marked so (`process.rs` 1099, 1964) |
| `ResumeOnlyPaused`, `DebuggeePauses` (Lifecycle) | `debug` | a thread is resumed that has not paused (`process.rs` 1086, 1491); a thread of a paused process goes on (1462) |
| `ExitCompletes` (Lifecycle) | `early` | a process that is killed before its main thread was first woken is never finished (`process.rs` 1212) |
| `LiveTransitions` (Lifecycle) | any | `wait` takes a thread from Runnable to Syscall (`process.rs` 1424), which the list at 738-751 does not have |
| a linked entry's queue is in the map (Futex) | three threads, `WakeAll = {FALSE}`, no timeouts | a waiter that has looked the queue up is not counted until it joins; the last counted waiter removes the queue from the map in between (`futex.rs` 200-211), and the late one sleeps in a queue that no wake finds |
| `RequestAnswered` (NetIo) | `StoreBuffer = TRUE` | as in `net_store` |

With one thread, `LateWakes = FALSE` and `StoreBuffer = FALSE`,
`RequestAnswered` and `SleeperIsNotNeeded` hold.

## 4. The theorems

Checked with `tlapm`. They hold for every value of the constants that the named
assumptions of the modules allow.

**WaitWake** (`Distinct`, `Bounds`, `Kinds`: the kinds of actors are disjoint and
`Nil` is none of them, the bounds are natural numbers). `TypeCorrect`,
`WokenListCorrect`, `RunsOnce` and `WaitAssertsHold` follow from one inductive
invariant `IInv == TypeOK /\ WaitInv /\ ListInv /\ RunInv`:

* `RunInv` (its part `Way`) lists the combinations of place, status, CPU and posted jobs that a
  thread can be in. `OneWayToRun` is not inductive, because whether a wake may
  post a job depends on the status, and the status on where the thread is.
* `ListInv` is about references. A woken object is reached by exactly one
  reference: the head of the list, the link of another woken object, or the
  hand of an actor that is about to take it. `WokenListSound` says only that an
  actor finds its object marked; to preserve it one needs that nobody else has
  a reference to the object, and so that the list has no cycle and no sharing.
  `LockInv` says who holds `wake_event_lock`.
* `WaitInv` ties the wait's locals to its place, for the assertions in
  `add_wait_objects` and `new_timeout`.

**MsgQueue** (`QUEUE_SIZE` is at least two, any number of senders and
receivers). `QueueTypeCorrect` and `SlotsAreExclusive` follow from an
invariant about positions instead of slots: the sent positions are
`tail..head-1` and at most `QUEUE_SIZE` many (`Window`); their stamps say
whether they are published (`SentStamps`); no stamp ahead of the head announces
a message (`FreeStamps`); those who fill or copy own positions of that window
(`Fillers`, `Copiers`); and what a thread saw before its compare-exchange still
holds if that succeeds (`SendersReady`, `ReceiversReady`), which is the heart
of the algorithm. Two positions in the same slot are at least a lap apart
(`SameRemainder`), so distinct positions of the window are distinct slots.

`RingIsFifo` is the refinement of `MsgFifo` (it also assumes that `NoMsg` is no
message). The queue is the list of the messages of positions `tail..head-1`: that
of the sender who is still filling the slot, or what the slot holds (`Queue`). The
append is the compare-exchange of `head`, the take that of `tail`; every other
step is shown to be a stutter. Besides `IInv` this needs `MInv`: a sender wrote
its message before it publishes and a published slot holds a message (`Contents`),
a receiver that moved the tail finds one (`Holding`), and nobody has sent more
messages than there were positions (`SentCounts`).

Only model-checked: all liveness (fairness and ENABLED are outside of the
prover) and everything about `Lifecycle`, `Futex`
and `NetIo`. No module uses RECURSIVE operators, and no property depends on
induction over data, which the prover could not do.

## 5. What is not modelled

* Weak memory beyond the store buffer of `net.rs`. The other modelled protocols
  take a lock or use a read-modify-write operation where a store has to be seen
  before a later load; this was read off the code, not checked.
* Address spaces, page tables, TLS, capabilities, CPU affinity.
* Death of a client while sys-io polls it, and the errors for which
  `poll_endpoint` drops a connection (`io_thread.rs` 156-165, 197-214); messages
  to a stream (`net.rs` 184-204); TCP streams, listeners and sockets.
* The order of the scheduler's queues and its idle protocol.
* Formats, parsing, logging, statistics other than the count of threads.
* Boot, build tools, user programs: sequential code that runs once, or clients
  of the interfaces above.

## 6. The plan

1. *Done*: `WaitWake` with its theorems, `Lifecycle`, `MsgQueue` with `MsgFifo`
   and its theorems, `Futex`, `NetChannel` and `IoRuntime` composed in `NetIo`.
2. *IPC next*: `SyncRpc` (`do_rpc`, `finish_rpc` and `LocalServer::wait` with
   timeouts and a server that goes away), `SyncPipe` (the byte ring with
   `unwrite` under a live reader, refining a bounded byte stream), `IoPages`
   (the page bitmaps, with the pages' ownership passing through messages),
   `Parker`.
3. *Kernel next*: `Scheduler` (queues, idle and wake, timers; every posted job
   is run), `Shared` (URLs, pairs, `sibling_dropped`, an owner that exits
   between the look-up and its use), composed with `WaitWake`.
4. *I/O next*: dying clients in `NetIo`; the receive
   window and acknowledgements of TCP streams; sys-io's listeners and sockets;
   `VirtQueue`; the transactions of srfs with crashes, and its block cache.
5. *Memory*: the slab allocator's bitmap, physical frames, `frusa`.
6. *Proofs*: `Lifecycle` (`ExitingIsFinal`, `DeadIsForever` and `ExitCodeIsKept`
   from the handlers' case analysis, then `OneOwner`), `Futex`
   (`MutualExclusion`, `EntriesAreAlive`), `NetIo` (`ResponseHasWaiter`).

Runs planned for these modules use two or three actors and queues of one or two
elements, as the present ones do.
