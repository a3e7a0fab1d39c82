------------------------------- MODULE NetIo --------------------------------
(***************************************************************************)
(* Clients and sys-io together: NetChannel and IoRuntime over the same     *)
(* shared-memory queues and the same kernel wakes.                         *)
(***************************************************************************)
EXTENDS Naturals, Sequences, TLC

CONSTANTS
  Conns, Threads, ConnOf, ChanSize, SendSize, Batch, MaxReqs, StoreBuffer,
  NetBatch, BusyPolls, LateWakes, NoMsg, NoConn

ASSUME NetAssumption ==
  /\ ConnOf \in [Threads -> Conns]
  /\ {ChanSize, SendSize, Batch, NetBatch, BusyPolls, MaxReqs} \subseteq Nat \ {0}
  /\ {StoreBuffer, LateWakes} \subseteq BOOLEAN
  /\ NoConn \notin Conns

\* All threads belong to one process.
SingleProcess == [t \in Threads |-> CHOOSE c \in Conns : TRUE]

VARIABLES c2s, s2c, ch, cli, srv, token, wakes

vars == <<c2s, s2c, ch, cli, srv, token, wakes>>

Client == INSTANCE NetChannel
Server == INSTANCE IoRuntime

Init ==
  /\ Client!Init
  /\ Server!Init
  /\ wakes = [h \in Conns |-> FALSE]

Next == \/ Client!Next /\ UNCHANGED srv
        \/ Server!Next /\ UNCHANGED <<ch, cli>>

Spec == Init /\ [][Next]_vars

\* Every thread runs, and the net subsystem answers what it was asked.  Nobody
\* has to send a request, and no timeout has to expire.
FairSpec ==
  /\ Spec
  /\ \A t \in Threads : WF_vars(Client!ClientStep(t) /\ UNCHANGED srv)
  /\ \A c \in Conns : WF_vars(Client!IoStep(c) /\ UNCHANGED srv)
  /\ WF_vars(Server!ThreadStep /\ UNCHANGED <<ch, cli>>)
  /\ SF_vars(Server!PollNet /\ UNCHANGED <<ch, cli>>)

----------------------------------------------------------------------------
Bounded(q, n) == q \in Seq(Client!Msgs) /\ Len(q) <= n

\* Types, and the sizes of the queues that threads share.
TypeOK ==
  /\ DOMAIN c2s = Conns /\ DOMAIN s2c = Conns
  /\ \A c \in Conns :
       /\ Bounded(c2s[c], ChanSize) /\ Bounded(s2c[c], ChanSize)
       /\ Bounded(ch[c].send_queue, SendSize)
       /\ ch[c].send_waiters \in Seq(Threads)
       /\ ch[c].msg \in Client!Msgs \cup {NoMsg}
       /\ ch[c].count \in 0..Batch + 1
  /\ cli \in [Threads ->
       [pc : {"idle", "push", "enqueue", "request", "wake", "blocked", "resp", "wait"},
        id : 0..MaxReqs, waits : BOOLEAN, resp : Client!Msgs \cup {NoMsg},
        next : {"idle", "resp", "blocked"}, left : SUBSET {"store", "load"},
        saw : BOOLEAN]]
  /\ token \in [Conns \cup Threads -> BOOLEAN]
  /\ wakes \in [Conns -> BOOLEAN]
  /\ srv.cached \in Conns \cup {NoConn}
  /\ srv.todo \subseteq Conns
  /\ srv.in_net \subseteq Client!Msgs

\* The messages between send_msg and resp_waiters, except those in the net
\* subsystem.
OnTheWay(c) ==
  ch[c].send_queue \o (IF ch[c].msg = NoMsg THEN <<>> ELSE <<ch[c].msg>>)
    \o c2s[c] \o s2c[c] \o Server!OfConn(srv.pending, c)

\* A message that is on its way belongs to a request whose entry is still in
\* resp_waiters and still empty (otherwise io_thread_poll_messages panics with
\* "unexpected msg", or overwrites a response), and it is on its way once.
ResponseHasWaiter ==
  \A c \in Conns :
    LET msgs == OnTheWay(c) IN
    /\ \A i \in DOMAIN msgs :
         LET me == cli[msgs[i].thread] IN
         /\ me.waits /\ me.id = msgs[i].id /\ me.resp = NoMsg
         /\ msgs[i] \notin srv.in_net
    /\ \A i, j \in DOMAIN msgs : msgs[i] = msgs[j] => i = j

\* An I/O thread that sleeps with no wake on its way has nothing to do: what
\* is in send_queue or send_waiters was put there by a thread that is still in
\* maybe_wake_io_thread and will not find the I/O thread running.
SleeperIsNotNeeded ==
  \A c \in Conns :
    ch[c].pc = "sleep" /\ ~token[c] =>
      \/ ch[c].send_queue = <<>> /\ ch[c].send_waiters = <<>>
      \/ \E t \in Threads :
           /\ ConnOf[t] = c
           /\ \/ cli[t].pc = "wake"
              \/ cli[t].pc = "request" /\ ("load" \in cli[t].left \/ ~cli[t].saw)

\* A response that waits for a sleeping I/O thread is announced: sys-io has its
\* connection as cached_wakee_connection and will wake it.
ResponseIsAnnounced ==
  \A c \in Conns :
    ch[c].pc = "sleep" /\ ~token[c] /\ s2c[c] # <<>> => srv.cached = c

\* A request that waits for sys-io is announced: the connection's handle is
\* woken or sys-io is about to poll it, unless the I/O thread is still on its
\* way to wake_driver.
RequestIsAnnounced ==
  \A c \in Conns :
    c2s[c] # <<>> /\ ch[c].pc = "sleep" => wakes[c] \/ c \in srv.todo

\* sys-io goes to sleep only when it owes nothing: no response is pending (the
\* assertion after a timeout) and no client waits for its wake.
SleepsWithNothingOwed ==
  srv.pc = "sleep" => srv.pending = <<>> /\ srv.cached = NoConn

\* Every send_receive returns: wait_for_resp relies on the I/O thread being
\* woken by sys-io.
RequestAnswered ==
  \A t \in Threads : cli[t].waits ~> ~cli[t].waits
============================================================================
