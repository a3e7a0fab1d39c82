----------------------------- MODULE IoRuntime ------------------------------
(***************************************************************************)
(* The server side of networking (sys-io/src/runtime/io_thread.rs): one    *)
(* thread that accepts connections, receives their requests, hands them to *)
(* the net subsystem and sends the responses back, waking clients as late  *)
(* as it can (cached_wakee_connection).                                    *)
(*                                                                         *)
(* The net subsystem answers a request at once, or later through poll; its *)
(* own handle wakes the thread when there is something to poll.            *)
(*                                                                         *)
(* A step is one handler of the thread (one completion, one woken handle), *)
(* with all the queue operations and wakes in it: a client that runs in    *)
(* the middle of a handler is seen before it or after it.                  *)
(***************************************************************************)
EXTENDS Naturals, Sequences, TLC

CONSTANTS
  Conns, Threads, ConnOf, ChanSize, MaxReqs,
  NetBatch,      \* completions taken from the net subsystem in a row (32)
  BusyPolls,     \* idle iterations before the thread sleeps (16)
  LateWakes,     \* may wakes arrive between a timeout and the wait's return
  NoConn

VARIABLES
  c2s, s2c,      \* the shared-memory queues of each connection
  srv,           \* IoRuntime, and the locals of its thread
  token,         \* kernel: wakes of client threads
  wakes          \* kernel: wakes of sys-io's handles

vars == <<c2s, s2c, srv, token, wakes>>

\* With a listener for each connection that is going to be made.
NewRuntime(conns) ==
  [pc |-> "poll", listeners |-> conns, connections |-> {},
   pending |-> <<>>, cached |-> NoConn, in_net |-> {},
   count |-> 0, had_work |-> FALSE, idle |-> 0,
   todo |-> {}, timeout |-> FALSE, then |-> "poll"]

Init == srv = NewRuntime(Conns)

\* The thread takes a step that changes the fields of f.
Srv(f) == srv' = f @@ srv

AllHandles == srv.listeners \cup srv.connections

OfConn(msgs, c) == SelectSeq(msgs, LAMBDA m : ConnOf[m.thread] = c)

\* ServerConnection::send for each of msgs: the ones that fit are sent, the
\* others stay in pending_completions.
Room(c) == ChanSize - Len(s2c[c])
Unsent_All(msgs) == msgs
Unsent(msgs) ==
  LET late(i) == LET c == ConnOf[msgs[i].thread]
                 IN Len(OfConn(SubSeq(msgs, 1, i), c)) > Room(c)
      ids     == SelectSeq([i \in DOMAIN msgs |-> i], late)
  IN [k \in DOMAIN ids |-> msgs[ids[k]]]
Send(msgs) ==
  s2c' = [c \in Conns |->
            LET mine == OfConn(msgs, c)
                n    == IF Len(mine) < Room(c) THEN Len(mine) ELSE Room(c)
            IN s2c[c] \o SubSeq(mine, 1, n)]

\* cache_wakee for each of conns: a change of the wakee wakes the one before.
LateWakees_None(conns) == {}
LateWakees(conns) ==
  LET seq == <<srv.cached>> \o conns
  IN {seq[i] : i \in {j \in 1..Len(conns) : seq[j] # seq[j + 1]}} \ {NoConn}
CacheWakees(conns, f) ==
  /\ Srv([cached |-> IF conns = <<>> THEN srv.cached ELSE conns[Len(conns)]] @@ f)
  /\ token' = [x \in DOMAIN token |-> token[x] \/ x \in LateWakees(conns)]

\* process_completions
Completions(msgs, f) ==
  /\ Send(msgs)
  /\ CacheWakees([i \in DOMAIN msgs |-> ConnOf[msgs[i].thread]],
                 [pending |-> Unsent(msgs)] @@ f)

----------------------------------------------------------------------------
\* net.poll has a response, at most NetBatch times in a row, and each goes
\* through process_completions ...
PollNet ==
  /\ srv.pc = "poll" /\ srv.count < NetBatch
  /\ \E m \in srv.in_net :
       Completions(Append(srv.pending, m),
                   [in_net |-> srv.in_net \ {m}, count |-> srv.count + 1,
                    had_work |-> TRUE])
  /\ UNCHANGED <<c2s, wakes>>

\* ... until it has none; then process_completions once more.
ProcessCompletions ==
  /\ srv.pc = "poll"
  /\ Completions(srv.pending,
                 [pc |-> "wait", count |-> 0,
                  had_work |-> srv.had_work \/ srv.pending # <<>>])
  /\ UNCHANGED <<c2s, wakes>>

----------------------------------------------------------------------------
Woken == {h \in AllHandles : wakes[h]}
TakeWakes == wakes' = [h \in DOMAIN wakes |-> wakes[h] /\ h \notin AllHandles]

\* process_wakeups has the handles of todo left, then goes to place.
Wakeups(todo, place) ==
  IF todo = {}
    THEN [todo |-> {}, pc |-> place, then |-> "poll", timeout |-> FALSE]
    ELSE [todo |-> todo, pc |-> "handles", then |-> place]

\* The wait that does not block.
PollHandles ==
  /\ srv.pc = "wait"
  /\ TakeWakes
  /\ Srv([had_work |-> srv.had_work \/ Woken # {}] @@ Wakeups(Woken, "flush"))
  /\ UNCHANGED <<c2s, s2c, token>>

\* poll_endpoint: receive all requests of c; some are answered at once, the
\* net subsystem keeps the others.
PollEndpoint(c, f) ==
  \E now \in SUBSET DOMAIN c2s[c] :
    LET ids   == SelectSeq([i \in DOMAIN c2s[c] |-> i], LAMBDA i : i \in now)
        resps == [k \in DOMAIN ids |-> c2s[c][ids[k]]]
    IN /\ c2s' = [c2s EXCEPT ![c] = <<>>]
       /\ Send(resps)
       /\ CacheWakees(IF c2s[c] = <<>> THEN <<>> ELSE <<c>>,
            [pending |-> srv.pending \o Unsent(resps),
             in_net |-> srv.in_net \cup {c2s[c][i] : i \in DOMAIN c2s[c] \ now}]
            @@ f)

\* process_wakeup: a woken listener becomes a connection; no listener is
\* touched after a timeout.
Polled_OnlyOld(h, accepted) == h \in srv.connections
Polled(h, accepted) == h \in srv.connections \cup accepted

ProcessWakeup ==
  /\ srv.pc = "handles"
  /\ \E h \in srv.todo :
       LET accepted == IF srv.timeout THEN {} ELSE {h} \cap srv.listeners
           next     == [listeners |-> srv.listeners \ accepted,
                        connections |-> srv.connections \cup accepted]
                       @@ Wakeups(srv.todo \ {h}, srv.then)
       IN IF Polled(h, accepted)
            THEN PollEndpoint(h, next)
            ELSE Srv(next) /\ UNCHANGED <<c2s, s2c, token>>
  /\ UNCHANGED wakes

----------------------------------------------------------------------------
\* cache_wakee(NONE), and what follows: work again, poll again, or sleep,
\* unless the net subsystem wants to be polled now (a timeout of zero).
Worked_Never == FALSE
Worked == srv.had_work \/ srv.cached # NoConn

Flush ==
  LET last   == srv.idle + 1 = BusyPolls
      again  == [had_work |-> FALSE,
                 idle |-> IF Worked THEN 0 ELSE IF last THEN srv.idle ELSE srv.idle + 1]
  IN /\ srv.pc = "flush"
     /\ \/ CacheWakees(<<NoConn>>, [pc |-> "poll"] @@ again)
        \/ ~Worked /\ last /\ CacheWakees(<<NoConn>>, [pc |-> "sleep"] @@ again)
     /\ UNCHANGED <<c2s, s2c, wakes>>

\* The wait that blocks returns for a wake ...
WokenUp ==
  /\ srv.pc = "sleep" /\ (Woken # {} \/ srv.in_net # {})
  /\ TakeWakes
  /\ Srv(Wakeups(Woken, "poll"))
  /\ UNCHANGED <<c2s, s2c, token>>

\* ... or because its time is out.  After a second or more the handles that the
\* wait returned are not looked at, and all connections are polled; after less
\* (the net subsystem chose the time) they are looked at as after a wake.
TimedOut ==
  /\ srv.pc = "sleep"
  /\ TakeWakes
  /\ \/ /\ LateWakes \/ Woken = {}
        /\ Srv([timeout |-> TRUE] @@ Wakeups(AllHandles, "poll"))
     \/ Srv(Wakeups(Woken, "poll"))
  /\ UNCHANGED <<c2s, s2c, token>>

----------------------------------------------------------------------------
ThreadStep ==
  \/ PollNet \/ ProcessCompletions \/ PollHandles \/ ProcessWakeup \/ Flush
  \/ WokenUp

Next == ThreadStep \/ TimedOut
============================================================================
