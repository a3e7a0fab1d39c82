------------------------------ MODULE MCNetIo -------------------------------
(***************************************************************************)
(* NetIo for TLC, in parts: the threads of one process against sys-io, or  *)
(* two processes that are only seen from sys-io's side.  A behaviour is    *)
(* one of a single part.                                                   *)
(***************************************************************************)
EXTENDS NetIo

CONSTANTS c1, c2, t1, t2, t3

VARIABLE part

ProcessOf == t1 :> c1 @@ t2 :> c1 @@ t3 :> c2

\* The threads of c1 are alike.
AnyThread == Permutations({t1, t2})

----------------------------------------------------------------------------
\* One request from each thread of c1, and nothing from c2; or two requests
\* from one thread, whose loads may overtake its stores.
Overtakes(t) == "store" \in cli'[t].left /\ "load" \in cli[t].left \ cli'[t].left

OneProcess ==
  /\ Next
  /\ cli'[t3] = cli[t3] /\ ch'[c2] = ch[c2]
  /\ \/ part = "threads" /\ \A t \in Threads : cli'[t].id <= 1 /\ ~Overtakes(t)
     \/ part = "alone" /\ \E t \in {t1, t2} : cli'[t] = cli[t] /\ cli[t].id = 0

----------------------------------------------------------------------------
\* A client as sys-io sees it: connected and asleep, it sends a request and
\* wakes the driver, or wakes up and takes all there is.
Asleep == [Client!NewChannel EXCEPT !.pc = "sleep"]

Ask(t) ==
  LET c == ConnOf[t] IN
  /\ ~cli[t].waits /\ cli[t].id < MaxReqs /\ Len(c2s[c]) < ChanSize
  /\ cli' = [cli EXCEPT ![t] = [@ EXCEPT !.id = @ + 1, !.waits = TRUE]]
  /\ c2s' = [c2s EXCEPT ![c] = Append(@, [thread |-> t, id |-> cli[t].id + 1])]
  /\ Client!WakeDriver(c)
  /\ UNCHANGED <<s2c, ch, token, srv>>

Collect(c) ==
  /\ token[c]
  /\ token' = [token EXCEPT ![c] = FALSE]
  /\ s2c' = [s2c EXCEPT ![c] = <<>>]
  /\ cli' = [t \in Threads |->
               [cli[t] EXCEPT !.waits = @ /\ \A i \in DOMAIN s2c[c] : s2c[c][i].thread # t]]
  /\ UNCHANGED <<c2s, ch, wakes, srv>>

TwoProcesses ==
  \/ Server!Next /\ UNCHANGED <<ch, cli>>
  \/ \E t \in Threads : Ask(t)
  \/ \E c \in Conns : Collect(c)

----------------------------------------------------------------------------
MCInit ==
  \/ /\ part \in {"threads", "alone"}
     /\ Client!Init /\ wakes = [h \in Conns |-> FALSE]
     /\ srv = Server!NewRuntime({c1})
  \/ /\ part = "processes"
     /\ c2s = [c \in Conns |-> <<>>] /\ s2c = [c \in Conns |-> <<>>]
     /\ ch = [c \in Conns |-> Asleep]
     /\ cli = [t \in Threads |-> Client!NewClient]
     /\ token = [x \in Conns \cup Threads |-> FALSE]
     /\ wakes = [h \in Conns |-> TRUE]
     /\ Server!Init

MCNext ==
  /\ UNCHANGED part
  /\ \/ part \in {"threads", "alone"} /\ OneProcess
     \/ part = "processes" /\ TwoProcesses

MCSpec == MCInit /\ [][MCNext]_<<vars, part>>
============================================================================
