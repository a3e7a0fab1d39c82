------------------------------ MODULE MsgQueue ------------------------------
(***************************************************************************)
(* One direction of an io_channel (moto-ipc/src/io_channel.rs): the        *)
(* multi-producer multi-consumer ring of slots in shared memory, from the  *)
(* time the kernel has told the server of a new connection.  Both          *)
(* directions run the same code; here the client sends (ClientConnection:: *)
(* send) and the server receives (ServerConnection::recv).                 *)
(*                                                                         *)
(* A step is one access to shared memory.  The load of a stamp and the     *)
(* store of one synchronise (Acquire, Release), so a message is visible    *)
(* where its stamp is.  compare_exchange_weak does not fail spuriously on  *)
(* x64.                                                                    *)
(***************************************************************************)
EXTENDS Integers, Sequences, FiniteSets

CONSTANTS
  Senders,    \* threads of the client
  Receivers,  \* threads of the server
  QUEUE_SIZE, \* slots in the ring
  MaxPos,     \* bound: messages ever sent
  NoMsg       \* the zeroed message of a fresh slot

ASSUME QueueSizeIsAtLeastTwo == QUEUE_SIZE \in Nat \ {0, 1}
ASSUME MaxPosIsNatural == MaxPos \in Nat
ASSUME NoMsgIsNoMessage == NoMsg \notin Senders \X Nat

VARIABLES
  head,       \* client_queue_head: the position of the next send
  tail,       \* client_queue_tail: the position of the next recv
  slot,       \* client_queue: per slot [stamp, msg]
  inited,     \* how many slots connect() has given their first stamp
  snd,        \* per sender [pc, pos, sent]
  rcv         \* per receiver [pc, pos, msg]

vars == <<head, tail, slot, inited, snd, rcv>>

Slots == 0..(QUEUE_SIZE - 1)
Slot(pos) == pos % QUEUE_SIZE          \* pos & QUEUE_MASK

StampAt(pos) == slot[Slot(pos)].stamp
SetStamp(pos, stamp) ==
  slot' = [slot EXCEPT ![Slot(pos)] = [@ EXCEPT !.stamp = stamp]]

\* The n-th message of sender s: no two messages are equal.
Msg(s, n) == <<s, n>>
Messages == Senders \X Nat

Init ==
  /\ head = 0 /\ tail = 0
  /\ slot = [i \in Slots |-> [stamp |-> 0, msg |-> NoMsg]]
  /\ inited = 0
  /\ snd = [s \in Senders |-> [pc |-> "idle", pos |-> 0, sent |-> 0]]
  /\ rcv = [r \in Receivers |-> [pc |-> "idle", pos |-> 0, msg |-> NoMsg]]

\* The loop of connect() over the slots.  The server is already awake: F_WAKE_PEER
\* woke it before connect() got here.
InitStamp ==
  /\ inited < QUEUE_SIZE
  /\ slot' = [slot EXCEPT ![inited] = [@ EXCEPT !.stamp = inited]]
  /\ inited' = inited + 1
  /\ UNCHANGED <<head, tail, snd, rcv>>

----------------------------------------------------------------------------
(* ClientConnection::send *)

Sender(s, pc, pos) ==
  snd' = [snd EXCEPT ![s] = [@ EXCEPT !.pc = pc, !.pos = pos]]

SendLoadHead(s) ==
  /\ snd[s].pc = "idle" /\ inited = QUEUE_SIZE
  /\ Sender(s, "stamp", head)
  /\ UNCHANGED <<head, tail, slot, inited, rcv>>

\* How the stamp compares with pos: reserve the slot, give up (the queue is
\* full), or start over with a fresh pos (another sender was faster).
SendCompare_NoFull(stamp, pos) == IF stamp <= pos THEN "reserve" ELSE "reload"
SendCompare(stamp, pos) ==
  CASE stamp = pos -> "reserve" [] stamp < pos -> "idle" [] OTHER -> "reload"

SendLoadStamp(s) ==
  /\ snd[s].pc = "stamp"
  /\ Sender(s, SendCompare(StampAt(snd[s].pos), snd[s].pos), snd[s].pos)
  /\ UNCHANGED <<head, tail, slot, inited, rcv>>

SendReload(s) ==
  /\ snd[s].pc = "reload"
  /\ Sender(s, "stamp", head)
  /\ UNCHANGED <<head, tail, slot, inited, rcv>>

\* compare_exchange of the head.
SendCanReserve_Unchecked(pos) == head < MaxPos
SendCanReserve(pos) == head = pos /\ head < MaxPos

SendReserve(s) ==
  /\ snd[s].pc = "reserve"
  /\ \/ /\ SendCanReserve(snd[s].pos)
        /\ head' = head + 1
        /\ Sender(s, "fill", snd[s].pos)
     \/ /\ head # snd[s].pos
        /\ Sender(s, "stamp", head)
        /\ UNCHANGED head
  /\ UNCHANGED <<tail, slot, inited, rcv>>

\* slot.msg = msg
SendFill(s) ==
  /\ snd[s].pc = "fill"
  /\ slot' = [slot EXCEPT ![Slot(snd[s].pos)] =
                 [@ EXCEPT !.msg = Msg(s, snd[s].sent)]]
  /\ Sender(s, "publish", snd[s].pos)
  /\ UNCHANGED <<head, tail, inited, rcv>>

PublishedStamp_Same(pos) == pos
PublishedStamp(pos) == pos + 1

SendPublish(s) ==
  /\ snd[s].pc = "publish"
  /\ SetStamp(snd[s].pos, PublishedStamp(snd[s].pos))
  /\ snd' = [snd EXCEPT ![s] = [@ EXCEPT !.pc = "idle", !.sent = snd[s].sent + 1]]
  /\ UNCHANGED <<head, tail, inited, rcv>>

----------------------------------------------------------------------------
(* ServerConnection::recv *)

Receiver(r, pc, pos) ==
  rcv' = [rcv EXCEPT ![r] = [@ EXCEPT !.pc = pc, !.pos = pos]]

RecvLoadTail(r) ==
  /\ rcv[r].pc = "idle"
  /\ Receiver(r, "stamp", tail)
  /\ UNCHANGED <<head, tail, slot, inited, snd>>

RecvCompare_Early(stamp, pos) ==
  CASE stamp = pos + 1 \/ stamp = pos -> "reserve" [] stamp < pos -> "idle"
    [] OTHER -> "reload"
RecvCompare(stamp, pos) ==
  CASE stamp = pos + 1 -> "reserve" [] stamp < pos + 1 -> "idle"
    [] OTHER -> "reload"

RecvLoadStamp(r) ==
  /\ rcv[r].pc = "stamp"
  /\ Receiver(r, RecvCompare(StampAt(rcv[r].pos), rcv[r].pos),
              rcv[r].pos)
  /\ UNCHANGED <<head, tail, slot, inited, snd>>

RecvReload(r) ==
  /\ rcv[r].pc = "reload"
  /\ Receiver(r, "stamp", tail)
  /\ UNCHANGED <<head, tail, slot, inited, snd>>

RecvReserve(r) ==
  /\ rcv[r].pc = "reserve"
  /\ \/ /\ tail = rcv[r].pos
        /\ tail' = tail + 1
        /\ Receiver(r, "copy", rcv[r].pos)
     \/ /\ tail # rcv[r].pos
        /\ Receiver(r, "stamp", tail)
        /\ UNCHANGED tail
  /\ UNCHANGED <<head, slot, inited, snd>>

\* let sqe = slot.msg
RecvCopy(r) ==
  /\ rcv[r].pc = "copy"
  /\ rcv' = [rcv EXCEPT ![r] = [@ EXCEPT
       !.pc = "release", !.msg = slot[Slot(rcv[r].pos)].msg]]
  /\ UNCHANGED <<head, tail, slot, inited, snd>>

NextStamp(pos) == pos + QUEUE_SIZE

RecvRelease(r) ==
  /\ rcv[r].pc = "release"
  /\ SetStamp(rcv[r].pos, NextStamp(rcv[r].pos))
  /\ rcv' = [rcv EXCEPT ![r] = [@ EXCEPT !.pc = "idle", !.msg = NoMsg]]
  /\ UNCHANGED <<head, tail, inited, snd>>

----------------------------------------------------------------------------
SendStep(s) ==
  \/ SendLoadHead(s) \/ SendLoadStamp(s) \/ SendReload(s) \/ SendReserve(s)
  \/ SendFill(s) \/ SendPublish(s)

RecvStep(r) ==
  \/ RecvLoadTail(r) \/ RecvLoadStamp(r) \/ RecvReload(r) \/ RecvReserve(r)
  \/ RecvCopy(r) \/ RecvRelease(r)

Next ==
  \/ InitStamp
  \/ \E s \in Senders : SendStep(s)
  \/ \E r \in Receivers : RecvStep(r)

Spec == Init /\ [][Next]_vars

\* A send that has its slot runs on, and the server polls as long as it is
\* woken: nobody has to send a second message for the first to arrive.
Fairness ==
  /\ \A s \in Senders : WF_vars(SendFill(s)) /\ WF_vars(SendPublish(s))
  /\ \A r \in Receivers : WF_vars(RecvStep(r))

FairSpec == Spec /\ Fairness

----------------------------------------------------------------------------
(* Properties *)

Pcs == {"idle", "stamp", "reload", "reserve"}

TypeOK ==
  /\ head \in 0..MaxPos /\ tail \in 0..MaxPos
  /\ slot \in [Slots -> [stamp : Nat, msg : Messages \cup {NoMsg}]]
  /\ inited \in 0..QUEUE_SIZE
  /\ snd \in [Senders -> [pc : Pcs \cup {"fill", "publish"}, pos : 0..MaxPos,
                          sent : Nat]]
  /\ rcv \in [Receivers -> [pc : Pcs \cup {"copy", "release"}, pos : 0..MaxPos,
                            msg : Messages \cup {NoMsg}]]

Filling(s) == snd[s].pc \in {"fill", "publish"}
Copying(r) == rcv[r].pc \in {"copy", "release"}

\* slot.msg is plain memory: whoever has reserved a slot, in send or in recv,
\* has it for itself until it stores the stamp.
SlotIsExclusive ==
  /\ \A s, t \in Senders : s # t /\ Filling(s) /\ Filling(t) =>
       Slot(snd[s].pos) # Slot(snd[t].pos)
  /\ \A q, r \in Receivers : q # r /\ Copying(q) /\ Copying(r) =>
       Slot(rcv[q].pos) # Slot(rcv[r].pos)
  /\ \A s \in Senders, r \in Receivers : Filling(s) /\ Copying(r) =>
       Slot(snd[s].pos) # Slot(rcv[r].pos)

\* The message at a reserved position: its sender may still be writing it.
MsgAt(pos) ==
  IF \E s \in Senders : Filling(s) /\ snd[s].pos = pos
    THEN LET s == CHOOSE x \in Senders : Filling(x) /\ snd[x].pos = pos
         IN Msg(s, snd[s].sent)
    ELSE slot[Slot(pos)].msg

\* What the ring holds, and what the receivers have taken from it.
Queue == [i \in 1..(head - tail) |-> MsgAt(tail + i - 1)]
Holds == [r \in Receivers |->
            IF rcv[r].pc = "copy" THEN slot[Slot(rcv[r].pos)].msg
                                  ELSE rcv[r].msg]

\* The ring is a bounded first-in first-out queue: send appends when it moves
\* the head, recv takes when it moves the tail, and what it then copies is what
\* it took.
Fifo == INSTANCE MsgFifo WITH
  Capacity <- QUEUE_SIZE,
  Messages <- Senders \X (0..MaxPos),
  queue <- Queue,
  holds <- Holds
IsFifo == Fifo!Spec

\* Every message that was given a position is received.
AllReceived == \A p \in 0..(MaxPos - 1) : head > p ~> tail > p
============================================================================
