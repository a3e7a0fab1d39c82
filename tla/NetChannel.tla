----------------------------- MODULE NetChannel -----------------------------
(***************************************************************************)
(* The client side of networking (moto-runtime/src/net.rs): threads that   *)
(* send a request and wait for its response, and the I/O thread of each    *)
(* NetChannel that moves messages between them and the shared-memory       *)
(* channel to sys-io.  The channel is two bounded FIFO queues, which is    *)
(* what MsgQueue implements.                                               *)
(*                                                                         *)
(* A step is one access to shared state: a critical section, an atomic     *)
(* operation or a system call.  The I/O thread of a channel goes by the    *)
(* channel's name.                                                         *)
(***************************************************************************)
EXTENDS Naturals, Sequences, TLC

CONSTANTS
  Conns,         \* NetChannels, one process each
  Threads,       \* threads that send requests
  ConnOf,        \* the NetChannel of each thread
  ChanSize,      \* slots of the shared-memory queues (io_channel::QUEUE_SIZE)
  SendSize,      \* size of send_queue
  Batch,         \* messages moved before the I/O thread must not sleep (32)
  MaxReqs,       \* bound: requests of a thread
  StoreBuffer,   \* may a load overtake an earlier store (x64)
  NoMsg

VARIABLES
  c2s, s2c,      \* the shared-memory queues of each channel
  ch,            \* NetChannel, and the locals of its I/O thread
  cli,           \* per thread: where it is, its entry in resp_waiters
  token,         \* kernel: has the thread wakes that no wait has taken
  wakes          \* kernel: sys-io's unconsumed wakes of each connection

vars == <<c2s, s2c, ch, cli, token, wakes>>

Msgs == [thread : Threads, id : 1..MaxReqs]

NewChannel ==
  [send_queue |-> <<>>, send_waiters |-> <<>>, running |-> FALSE,
   requested |-> FALSE, pc |-> "connect", msg |-> NoMsg, waiter |-> NoMsg,
   count |-> 0, may_sleep |-> TRUE]
NewClient ==
  [pc |-> "idle", id |-> 0, waits |-> FALSE, resp |-> NoMsg, next |-> "idle",
   left |-> {}, saw |-> FALSE]

Init ==
  /\ c2s = [c \in Conns |-> <<>>] /\ s2c = [c \in Conns |-> <<>>]
  /\ ch = [c \in Conns |-> NewChannel]
  /\ cli = [t \in Threads |-> NewClient]
  /\ token = [x \in Conns \cup Threads |-> FALSE]

Wake(x) == token' = [token EXCEPT ![x] = TRUE]
WakeDriver(c) == wakes' = [wakes EXCEPT ![c] = TRUE]

----------------------------------------------------------------------------
(* send_receive: the client's threads *)

Goes(t, pc) == cli' = [cli EXCEPT ![t].pc = pc]

\* maybe_wake_io_thread is called, and then its caller goes to place; one of
\* its two accesses is done, and io_thread_running was seen as running.
MaybeWake(me, place) ==
  [me EXCEPT !.pc = "request", !.next = place, !.left = {"store", "load"}]
Accessed(me, access, running) ==
  LET left == me.left \ {access} IN
  [me EXCEPT !.left = left, !.saw = running /\ left # {},
             !.pc = IF left # {} THEN "request" ELSE IF running THEN me.next ELSE "wake"]
Register(t) ==
  /\ cli[t].pc = "idle" /\ cli[t].id < MaxReqs
  /\ cli' = [cli EXCEPT ![t] = [@ EXCEPT !.pc = "push", !.id = @ + 1,
                                         !.waits = TRUE, !.resp = NoMsg]]
  /\ UNCHANGED <<c2s, s2c, ch, token, wakes>>

\* send_msg: queue the message, or queue up for it, ...
HasRoom_Always(c) == TRUE
HasRoom(c) == Len(ch[c].send_queue) < SendSize

Push(t) ==
  LET c == ConnOf[t] IN
  /\ cli[t].pc = "push"
  /\ \/ /\ HasRoom(c)
        /\ ch' = [ch EXCEPT ![c].send_queue =
                    Append(@, [thread |-> t, id |-> cli[t].id])]
        /\ cli' = [cli EXCEPT ![t] = MaybeWake(@, "resp")]
     \/ /\ ~HasRoom(c)
        /\ Goes(t, "enqueue")
        /\ UNCHANGED ch
  /\ UNCHANGED <<c2s, s2c, token, wakes>>

PushWaiter(t) ==
  /\ cli[t].pc = "enqueue"
  /\ ch' = [ch EXCEPT ![ConnOf[t]].send_waiters = Append(@, t)]
  /\ cli' = [cli EXCEPT ![t] = MaybeWake(@, "blocked")]
  /\ UNCHANGED <<c2s, s2c, token, wakes>>

\* ... and maybe_wake_io_thread: a store ...
RequestWake(t) ==
  /\ cli[t].pc = "request" /\ "store" \in cli[t].left
  /\ ch' = [ch EXCEPT ![ConnOf[t]].requested = TRUE]
  /\ cli' = [cli EXCEPT ![t] = Accessed(@, "store", @.saw)]
  /\ UNCHANGED <<c2s, s2c, token, wakes>>

\* ... then a load, which need not wait for the store ...
LoadRunning(t) ==
  /\ cli[t].pc = "request" /\ "load" \in cli[t].left
  /\ StoreBuffer \/ "store" \notin cli[t].left
  /\ cli' = [cli EXCEPT ![t] = Accessed(@, "load", ch[ConnOf[t]].running)]
  /\ UNCHANGED <<c2s, s2c, ch, token, wakes>>

\* ... and a wake unless the I/O thread was running.
WakeIoThread(t) ==
  /\ cli[t].pc = "wake"
  /\ Wake(ConnOf[t])
  /\ Goes(t, cli[t].next)
  /\ UNCHANGED <<c2s, s2c, ch, wakes>>

\* The wait of send_msg; push again when it returns.
Blocked(t) ==
  /\ cli[t].pc = "blocked" /\ token[t]
  /\ token' = [token EXCEPT ![t] = FALSE]
  /\ Goes(t, "push")
  /\ UNCHANGED <<c2s, s2c, ch, wakes>>

\* wait_for_resp: take the response, or wait.
TakeResp(t) ==
  /\ cli[t].pc = "resp"
  /\ \/ /\ cli[t].resp # NoMsg
        /\ cli' = [cli EXCEPT ![t] = [NewClient EXCEPT !.id = cli[t].id]]
     \/ cli[t].resp = NoMsg /\ Goes(t, "wait")
  /\ UNCHANGED <<c2s, s2c, ch, token, wakes>>

WaitForResp(t) ==
  /\ cli[t].pc = "wait" /\ token[t]
  /\ token' = [token EXCEPT ![t] = FALSE]
  /\ Goes(t, "resp")
  /\ UNCHANGED <<c2s, s2c, ch, wakes>>

----------------------------------------------------------------------------
(* io_thread *)

\* The I/O thread of c takes a step that changes the fields of f.
Io(c, f) == ch' = [ch EXCEPT ![c] = f @@ @]

\* ClientConnection::connect: F_WAKE_PEER tells sys-io of the connection.
Connect(c) ==
  /\ ch[c].pc = "connect"
  /\ Io(c, [pc |-> "start"])
  /\ WakeDriver(c)
  /\ UNCHANGED <<c2s, s2c, cli, token>>

Start(c) ==
  /\ ch[c].pc = "start"
  /\ Io(c, [pc |-> "poll", running |-> TRUE])
  /\ UNCHANGED <<c2s, s2c, cli, token, wakes>>

\* io_thread_poll_messages: put a response into its entry of resp_waiters ...
PollMessage(c) ==
  /\ ch[c].pc = "poll"
  /\ \/ /\ s2c[c] = <<>>
        /\ Io(c, [pc |-> "send", count |-> 0])
        /\ UNCHANGED <<s2c, cli>>
     \/ /\ s2c[c] # <<>>
        /\ s2c' = [s2c EXCEPT ![c] = Tail(@)]
        /\ cli' = [cli EXCEPT ![Head(s2c[c]).thread].resp = Head(s2c[c])]
        /\ Io(c, [pc |-> "notify", waiter |-> Head(s2c[c]).thread])
  /\ UNCHANGED <<c2s, token, wakes>>

\* ... and wake the thread that waits for it.
Notify(c) ==
  /\ ch[c].pc = "notify"
  /\ Wake(ch[c].waiter)
  /\ Io(c, [waiter |-> NoMsg] @@
           IF ch[c].count = Batch
             THEN [pc |-> "send", count |-> 0, may_sleep |-> FALSE]
             ELSE [pc |-> "poll", count |-> ch[c].count + 1])
  /\ UNCHANGED <<c2s, s2c, cli, wakes>>

\* io_thread_send_messages returns: may the thread sleep?
AfterSend(c) == [pc |-> IF ch[c].may_sleep THEN "swap1" ELSE "start",
                 may_sleep |-> TRUE, count |-> 0]

\* io_thread_send_messages: the message that did not fit, then send_queue.
PopSendQueue(c) ==
  /\ ch[c].pc = "send" /\ ch[c].msg = NoMsg
  /\ \/ /\ ch[c].send_queue = <<>>
        /\ Io(c, IF ch[c].count > 0 THEN [pc |-> "wake_driver"] ELSE AfterSend(c))
     \/ /\ ch[c].send_queue # <<>>
        /\ Io(c, [msg |-> Head(ch[c].send_queue), send_queue |-> Tail(ch[c].send_queue)])
  /\ UNCHANGED <<c2s, s2c, cli, token, wakes>>

SendMessage(c) ==
  /\ ch[c].pc = "send" /\ ch[c].msg # NoMsg
  /\ \/ /\ Len(c2s[c]) = ChanSize
        /\ Io(c, [pc |-> "wake_driver", may_sleep |-> FALSE])
        /\ UNCHANGED c2s
     \/ /\ Len(c2s[c]) < ChanSize
        /\ c2s' = [c2s EXCEPT ![c] = Append(@, ch[c].msg)]
        /\ Io(c, [msg |-> NoMsg] @@
                 IF ch[c].count = Batch
                   THEN [pc |-> "wake_driver", may_sleep |-> FALSE]
                   ELSE [count |-> ch[c].count + 1])
  /\ UNCHANGED <<s2c, cli, token, wakes>>

WakeDriverAfterSend(c) ==
  /\ ch[c].pc = "wake_driver"
  /\ WakeDriver(c)
  /\ Io(c, AfterSend(c))
  /\ UNCHANGED <<c2s, s2c, cli, token>>

\* Going to sleep: has anybody asked for a wake? ...
AfterSwap == [swap1 |-> "stop", swap2 |-> "waiters", swap3 |-> "driver"]

SwapRequested(c) ==
  /\ ch[c].pc \in DOMAIN AfterSwap
  /\ Io(c, [requested |-> FALSE,
            pc |-> IF ch[c].requested THEN "start" ELSE AfterSwap[ch[c].pc]])
  /\ UNCHANGED <<c2s, s2c, cli, token, wakes>>

StopRunning(c) ==
  /\ ch[c].pc = "stop"
  /\ Io(c, [pc |-> "swap2", running |-> FALSE])
  /\ UNCHANGED <<c2s, s2c, cli, token, wakes>>

\* ... or queued up for send_queue? ...
PopWaiter(c) ==
  /\ ch[c].pc = "waiters"
  /\ IF ch[c].send_waiters = <<>>
       THEN Io(c, [pc |-> "swap3"])
       ELSE Io(c, [pc |-> "wake_waiter", waiter |-> Head(ch[c].send_waiters),
                   send_waiters |-> Tail(ch[c].send_waiters)])
  /\ UNCHANGED <<c2s, s2c, cli, token, wakes>>

WakeWaiter(c) ==
  /\ ch[c].pc = "wake_waiter"
  /\ Wake(ch[c].waiter)
  /\ Io(c, [pc |-> "start", running |-> TRUE, waiter |-> NoMsg])
  /\ UNCHANGED <<c2s, s2c, cli, wakes>>

\* ... If not, wake the driver and wait.
WakeDriverToSleep(c) ==
  /\ ch[c].pc = "driver"
  /\ WakeDriver(c)
  /\ Io(c, [pc |-> "sleep"])
  /\ UNCHANGED <<c2s, s2c, cli, token>>

Sleep(c) ==
  /\ ch[c].pc = "sleep" /\ token[c]
  /\ token' = [token EXCEPT ![c] = FALSE]
  /\ Io(c, [pc |-> "start"])
  /\ UNCHANGED <<c2s, s2c, cli, wakes>>

----------------------------------------------------------------------------
ClientStep(t) ==
  \/ Push(t) \/ PushWaiter(t) \/ RequestWake(t) \/ LoadRunning(t)
  \/ WakeIoThread(t) \/ Blocked(t) \/ TakeResp(t) \/ WaitForResp(t)

IoStep(c) ==
  \/ Connect(c) \/ Start(c) \/ PollMessage(c) \/ Notify(c) \/ PopSendQueue(c)
  \/ SendMessage(c) \/ WakeDriverAfterSend(c) \/ SwapRequested(c)
  \/ StopRunning(c) \/ PopWaiter(c) \/ WakeWaiter(c) \/ WakeDriverToSleep(c)
  \/ Sleep(c)

Next == \/ \E t \in Threads : Register(t) \/ ClientStep(t)
        \/ \E c \in Conns : IoStep(c)
============================================================================
