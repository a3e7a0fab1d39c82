------------------------------ MODULE MsgFifo ------------------------------
(***************************************************************************)
(* What one direction of an io_channel promises to its users: a bounded    *)
(* first-in first-out queue of messages.  A receiver that has taken a      *)
(* message holds it, unchanged, until it has read it.                      *)
(***************************************************************************)
EXTENDS Naturals, Sequences

CONSTANTS
  Messages,   \* what can be sent
  Receivers,  \* who receives
  NoMsg,      \* what a receiver holds that has not taken a message
  Capacity    \* QUEUE_SIZE

VARIABLES
  queue,      \* messages sent and not yet taken, oldest first
  holds       \* per receiver, the message it has taken and not yet read

vars == <<queue, holds>>

Init == queue = <<>> /\ holds = [r \in Receivers |-> NoMsg]

Send(m) ==
  /\ Len(queue) < Capacity
  /\ queue' = Append(queue, m)
  /\ UNCHANGED holds

Take(r) ==
  /\ queue # <<>> /\ holds[r] = NoMsg
  /\ queue' = Tail(queue)
  /\ holds' = [holds EXCEPT ![r] = Head(queue)]

Finish(r) ==
  /\ holds[r] # NoMsg
  /\ holds' = [holds EXCEPT ![r] = NoMsg]
  /\ UNCHANGED queue

Next ==
  \/ \E m \in Messages : Send(m)
  \/ \E r \in Receivers : Take(r) \/ Finish(r)

Spec == Init /\ [][Next]_vars
============================================================================
