--------------------------- MODULE MsgQueueProofs ---------------------------
(***************************************************************************)
(* For any number of senders and receivers and any ring of two or more     *)
(* slots: a reserved slot has one owner.  The argument is about positions, *)
(* not slots.  Positions tail..head-1 are sent, and there are never more   *)
(* of them than slots; a sender that fills has one of these, a receiver    *)
(* that copies has one of the QUEUE_SIZE positions before head.  Positions *)
(* less than QUEUE_SIZE apart are in different slots.                      *)
(***************************************************************************)
EXTENDS MsgQueue, TLAPS

----------------------------------------------------------------------------
(* The inductive invariant *)

Positions == 0..(MaxPos + QUEUE_SIZE)

\* The ring never holds more messages than it has slots.
Window == tail <= head /\ head <= tail + QUEUE_SIZE

\* send() is called after connect() has returned.
ConnectFirst ==
  inited < QUEUE_SIZE => head = 0 /\ \A s \in Senders : snd[s].pc = "idle"

\* The slot of a sent position is published, or its sender still has it.
SentStamps ==
  \A p \in Positions : tail <= p /\ p < head =>
    \/ StampAt(p) = p + 1
    \/ StampAt(p) = p

\* No stamp announces a message that was not sent.
FreeStamps ==
  \A p \in Positions : head <= p /\ p < tail + QUEUE_SIZE => StampAt(p) <= p

Fillers ==
  /\ \A s \in Senders : Filling(s) =>
       /\ tail <= snd[s].pos /\ snd[s].pos < head
       /\ StampAt(snd[s].pos) = snd[s].pos
  /\ \A s, t \in Senders : s # t /\ Filling(s) /\ Filling(t) =>
       snd[s].pos # snd[t].pos

Copiers ==
  /\ \A r \in Receivers : Copying(r) =>
       /\ rcv[r].pos < tail /\ head <= rcv[r].pos + QUEUE_SIZE
       /\ StampAt(rcv[r].pos) = rcv[r].pos + 1
  /\ \A q, r \in Receivers : q # r /\ Copying(q) /\ Copying(r) =>
       rcv[q].pos # rcv[r].pos

\* What a sender, or a receiver, has seen still holds when its compare_exchange
\* succeeds.
SendersReady ==
  \A s \in Senders :
    /\ snd[s].pos <= head
    /\ snd[s].pc = "reserve" /\ snd[s].pos = head => StampAt(head) = head
ReceiversReady ==
  \A r \in Receivers :
    /\ rcv[r].pos <= tail
    /\ rcv[r].pc = "reserve" /\ rcv[r].pos = tail => StampAt(tail) = tail + 1

IInv ==
  /\ TypeOK /\ Window /\ ConnectFirst /\ SentStamps /\ FreeStamps
  /\ Fillers /\ Copiers /\ SendersReady /\ ReceiversReady

\* What the invariant says.
LEMMA IInvParts ==
  ASSUME IInv
  PROVE  /\ TypeOK /\ Window /\ ConnectFirst /\ SentStamps /\ FreeStamps
         /\ Fillers /\ Copiers /\ SendersReady /\ ReceiversReady
BY DEF IInv

\* The same in the next state.
LEMMA IInvPartsPrime ==
  ASSUME IInv'
  PROVE  /\ TypeOK' /\ Window' /\ ConnectFirst' /\ SentStamps' /\ FreeStamps'
         /\ Fillers' /\ Copiers' /\ SendersReady' /\ ReceiversReady'
BY DEF IInv

----------------------------------------------------------------------------
(* Positions and slots *)

\* Quotient and remainder.
LEMMA Division ==
  ASSUME NEW N \in Nat \ {0}, NEW p \in Nat
  PROVE  /\ p % N \in 0..(N - 1)
         /\ p \div N \in Int
         /\ p = N * (p \div N) + (p % N)
BY SMT

\* Distinct multiples are at least the factor apart.
LEMMA Multiples ==
  ASSUME NEW N \in Nat \ {0}, NEW a \in Int, NEW b \in Int, a < b
  PROVE  N * b >= N * a + N
<1> DEFINE d == b - a - 1
<1>1. d \in Nat /\ b = a + 1 + d BY SMT
<1>2. N * b = N * a + N + N * d BY <1>1, SMT
<1>3. N * d \in Nat BY <1>1, SMT
<1>4. N * a \in Int /\ N * b \in Int OBVIOUS
<1> HIDE DEF d
<1> QED BY <1>2, <1>3, <1>4, SMT

\* One of two distinct positions of a slot is at least a lap ahead.
LEMMA SameRemainder ==
  ASSUME NEW N \in Nat \ {0}, NEW p \in Nat, NEW q \in Nat, p % N = q % N
  PROVE  p = q \/ p >= q + N \/ q >= p + N
<1> DEFINE v == N * (p \div N)  u == N * (q \div N)  m == p % N
<1>1. p = v + m BY Division
<1>2. q = u + m BY Division
<1>3. m \in 0..(N - 1) /\ p \div N \in Int /\ q \div N \in Int BY Division
<1>4. u \in Int /\ v \in Int BY <1>3
<1>5. CASE p \div N = q \div N BY <1>1, <1>2, <1>5
<1>6. CASE p \div N < q \div N
  <2>1. u >= v + N BY <1>3, <1>6, Multiples
  <2> HIDE DEF u, v, m
  <2> QED BY <2>1, <1>1, <1>2, <1>3, <1>4, SMT
<1>7. CASE q \div N < p \div N
  <2>1. v >= u + N BY <1>3, <1>7, Multiples
  <2> HIDE DEF u, v, m
  <2> QED BY <2>1, <1>1, <1>2, <1>3, <1>4, SMT
<1> QED BY <1>3, <1>5, <1>6, <1>7

\* A lap later a position has the same remainder.
LEMMA NextLap ==
  ASSUME NEW N \in Nat \ {0}, NEW p \in Nat
  PROVE  (p + N) % N = p % N
<1> DEFINE a == p \div N  b == (p + N) \div N  u == N * a  v == N * b
<1>1. p = u + (p % N) /\ a \in Int BY Division
<1>2. p + N = v + ((p + N) % N) /\ b \in Int BY Division
<1>3. p % N \in 0..(N - 1) /\ (p + N) % N \in 0..(N - 1) BY Division
<1>4. u \in Int /\ v \in Int BY <1>1, <1>2
<1>5. N * (a + 1) = u + N BY <1>1, SMT
<1>6. ~(b < a + 1)
  <2> SUFFICES ASSUME b < a + 1 PROVE FALSE OBVIOUS
  <2>1. u + N >= v + N BY Multiples, <1>1, <1>2, <1>5
  <2> HIDE DEF u, v, a, b
  <2> QED BY <2>1, <1>1, <1>2, <1>3, <1>4, SMT
<1>7. ~(a + 1 < b)
  <2> SUFFICES ASSUME a + 1 < b PROVE FALSE OBVIOUS
  <2>1. v >= u + N + N BY Multiples, <1>1, <1>2, <1>5
  <2> HIDE DEF u, v, a, b
  <2> QED BY <2>1, <1>1, <1>2, <1>3, <1>4, SMT
<1>8. v = u + N BY <1>1, <1>2, <1>5, <1>6, <1>7
<1> HIDE DEF u, v, a, b
<1> QED BY <1>8, <1>1, <1>2, <1>3, <1>4, SMT

\* Positions in the same slot are at least a lap apart.
LEMMA SlotFacts ==
  /\ \A p \in Nat : Slot(p) \in Slots
  /\ \A p, q \in Nat : Slot(p) = Slot(q) =>
       p = q \/ p >= q + QUEUE_SIZE \/ q >= p + QUEUE_SIZE
  /\ \A p \in Nat : Slot(p + QUEUE_SIZE) = Slot(p)
  /\ \A p \in Slots : p \in Nat /\ Slot(p) = p
<1>1. QUEUE_SIZE \in Nat \ {0} BY QueueSizeIsAtLeastTwo
<1>2. \A p \in Nat : Slot(p) \in Slots BY <1>1, Division DEF Slot, Slots
<1>3. ASSUME NEW p \in Nat, NEW q \in Nat, Slot(p) = Slot(q)
      PROVE p = q \/ p >= q + QUEUE_SIZE \/ q >= p + QUEUE_SIZE
  BY ZenonT(90), <1>1, <1>3, SameRemainder DEF Slot
<1>4. \A p \in Nat : Slot(p + QUEUE_SIZE) = Slot(p) BY ZenonT(90), <1>1, NextLap DEF Slot
<1>5. ASSUME NEW p \in Slots PROVE p \in Nat /\ Slot(p) = p
  BY <1>1, SMT DEF Slot, Slots
<1> QED BY <1>2, <1>3, <1>4, <1>5

----------------------------------------------------------------------------
(* Stamps *)

\* Stamps are natural numbers.
LEMMA StampType ==
  ASSUME TypeOK
  PROVE  \A p \in Nat : StampAt(p) \in Nat
BY SlotFacts DEF TypeOK, StampAt

\* The store of a stamp changes the stamp of one slot.
LEMMA StampSet ==
  ASSUME TypeOK, NEW q \in Nat, NEW v \in Nat, SetStamp(q, v)
  PROVE  /\ slot' \in [Slots -> [stamp : Nat, msg : Messages \cup {NoMsg}]]
         /\ \A p \in Nat :
              StampAt(p)' = IF Slot(p) = Slot(q) THEN v ELSE StampAt(p)
<1>1. Slot(q) \in Slots BY SlotFacts
<1>2. [slot[Slot(q)] EXCEPT !.stamp = v]
        \in [stamp : Nat, msg : Messages \cup {NoMsg}]
  BY <1>1 DEF TypeOK
<1>3. slot' = [slot EXCEPT ![Slot(q)] = [slot[Slot(q)] EXCEPT !.stamp = v]]
  BY DEF SetStamp
<1>4. slot' \in [Slots -> [stamp : Nat, msg : Messages \cup {NoMsg}]]
  BY <1>1, <1>2, <1>3 DEF TypeOK
<1>5. ASSUME NEW p \in Nat
      PROVE StampAt(p)' = IF Slot(p) = Slot(q) THEN v ELSE StampAt(p)
  <2>1. Slot(p) \in Slots BY SlotFacts
  <2> QED BY <1>1, <1>3, <2>1 DEF TypeOK, StampAt
<1> QED BY <1>4, <1>5

\* The record of a sender, or a receiver, after a step of its own.
LEMMA SenderStep ==
  ASSUME TypeOK, NEW s \in Senders, NEW pc \in Pcs \cup {"fill", "publish"},
         NEW pos \in 0..MaxPos, Sender(s, pc, pos)
  PROVE  /\ snd' \in [Senders -> [pc : Pcs \cup {"fill", "publish"},
                                  pos : 0..MaxPos, sent : Nat]]
         /\ snd'[s].pc = pc /\ snd'[s].pos = pos /\ snd'[s].sent = snd[s].sent
         /\ \A t \in Senders : t # s => snd'[t] = snd[t]
<1>0. snd[s] \in [pc : Pcs \cup {"fill", "publish"}, pos : 0..MaxPos, sent : Nat]
  BY DEF TypeOK
<1>1. [snd[s] EXCEPT !.pc = pc, !.pos = pos]
        \in [pc : Pcs \cup {"fill", "publish"}, pos : 0..MaxPos, sent : Nat]
  BY ZenonT(90), <1>0
<1>2. snd' = [snd EXCEPT ![s] = [snd[s] EXCEPT !.pc = pc, !.pos = pos]]
  BY DEF Sender
<1>3. snd' \in [Senders -> [pc : Pcs \cup {"fill", "publish"},
                           pos : 0..MaxPos, sent : Nat]]
  BY <1>1, <1>2 DEF TypeOK
<1> QED BY <1>1, <1>2, <1>3 DEF TypeOK

\* What a step of a receiver does to the receivers.
LEMMA ReceiverStep ==
  ASSUME TypeOK, NEW r \in Receivers, NEW pc \in Pcs \cup {"copy", "release"},
         NEW pos \in 0..MaxPos, Receiver(r, pc, pos)
  PROVE  /\ rcv' \in [Receivers -> [pc : Pcs \cup {"copy", "release"},
                                    pos : 0..MaxPos,
                                    msg : Messages \cup {NoMsg}]]
         /\ rcv'[r].pc = pc /\ rcv'[r].pos = pos /\ rcv'[r].msg = rcv[r].msg
         /\ \A q \in Receivers : q # r => rcv'[q] = rcv[q]
<1>0. rcv[r] \in [pc : Pcs \cup {"copy", "release"}, pos : 0..MaxPos,
                 msg : Messages \cup {NoMsg}]
  BY DEF TypeOK
<1>1. [rcv[r] EXCEPT !.pc = pc, !.pos = pos]
        \in [pc : Pcs \cup {"copy", "release"}, pos : 0..MaxPos,
             msg : Messages \cup {NoMsg}]
  BY ZenonT(90), <1>0
<1>2. rcv' = [rcv EXCEPT ![r] = [rcv[r] EXCEPT !.pc = pc, !.pos = pos]]
  BY DEF Receiver
<1>3. rcv' \in [Receivers -> [pc : Pcs \cup {"copy", "release"},
                             pos : 0..MaxPos, msg : Messages \cup {NoMsg}]]
  BY <1>1, <1>2 DEF TypeOK
<1> QED BY <1>1, <1>2, <1>3 DEF TypeOK

USE SMTT(30), Z3T(30)

\* The invariant keeps slots in one hand.
LEMMA InvExclusive == ASSUME IInv PROVE SlotIsExclusive
<1> USE QueueSizeIsAtLeastTwo, MaxPosIsNatural
<1>1. /\ head \in Nat /\ tail \in Nat
      /\ tail <= head /\ head <= tail + QUEUE_SIZE
  BY IInvParts DEF TypeOK, Window
<1>2. ASSUME NEW p \in Nat, NEW q \in Nat, p # q,
             p < q + QUEUE_SIZE, q < p + QUEUE_SIZE
      PROVE  Slot(p) # Slot(q)
  BY <1>2, SlotFacts
<1>3. \A s \in Senders : Filling(s) =>
        snd[s].pos \in Nat /\ tail <= snd[s].pos /\ snd[s].pos < head
  BY IInvParts DEF TypeOK, Fillers
<1>4. \A r \in Receivers : Copying(r) =>
        /\ rcv[r].pos \in Nat /\ rcv[r].pos < tail
        /\ head <= rcv[r].pos + QUEUE_SIZE
  BY IInvParts DEF TypeOK, Copiers
<1>5. ASSUME NEW s \in Senders, NEW t \in Senders, s # t, Filling(s), Filling(t)
      PROVE  Slot(snd[s].pos) # Slot(snd[t].pos)
  <2>1. snd[s].pos # snd[t].pos BY <1>5, IInvParts DEF Fillers
  <2> QED BY <1>1, <1>2, <1>3, <1>5, <2>1
<1>6. ASSUME NEW q \in Receivers, NEW r \in Receivers, q # r,
             Copying(q), Copying(r)
      PROVE  Slot(rcv[q].pos) # Slot(rcv[r].pos)
  <2>1. rcv[q].pos # rcv[r].pos BY <1>6, IInvParts DEF Copiers
  <2> QED BY <1>1, <1>2, <1>4, <1>6, <2>1
<1>7. ASSUME NEW s \in Senders, NEW r \in Receivers, Filling(s), Copying(r)
      PROVE  Slot(snd[s].pos) # Slot(rcv[r].pos)
  BY <1>1, <1>2, <1>3, <1>4, <1>7
<1> QED BY <1>5, <1>6, <1>7 DEF SlotIsExclusive

----------------------------------------------------------------------------
(***************************************************************************)
(* The ring is a bounded FIFO queue (MsgFifo).  The queue it stands for    *)
(* lists the messages of positions tail..head-1: the one that its sender   *)
(* is still writing, or what the slot holds.  The compare-exchange of head *)
(* appends, that of tail takes, and every other step leaves the queue as   *)
(* it is.                                                                  *)
(***************************************************************************)

\* A sender has sent no more messages than there were positions.
SentCounts ==
  \A s \in Senders :
    snd[s].sent <= head /\ (Filling(s) => snd[s].sent < head)

\* What is in the slots of the sent positions: the sender has written its
\* message before it publishes, and a published slot holds a message.
Contents ==
  /\ \A s \in Senders : snd[s].pc = "publish" =>
       slot[Slot(snd[s].pos)].msg = Msg(s, snd[s].sent)
  /\ \A p \in Positions : tail <= p /\ p < head =>
       \/ \E s \in Senders : Filling(s) /\ snd[s].pos = p
       \/ StampAt(p) = p + 1 /\ slot[Slot(p)].msg \in Messages

\* What a receiver that has moved the tail will return.
Holding ==
  \A r \in Receivers :
    /\ rcv[r].pc = "copy" => slot[Slot(rcv[r].pos)].msg \in Messages
    /\ rcv[r].msg \in IF rcv[r].pc = "release" THEN Messages ELSE {NoMsg}

MInv == SentCounts /\ Contents /\ Holding

----------------------------------------------------------------------------
(* Functions on 1..n as queues *)

\* A sequence that extends another by one element is its Append.
LEMMA AppendOne ==
  ASSUME NEW S, NEW n \in Nat, NEW f \in [1..n -> S],
         NEW g \in [1..(n + 1) -> S], \A i \in 1..n : g[i] = f[i]
  PROVE  Len(f) = n /\ g = Append(f, g[n + 1])
<1>1. f \in Seq(S) /\ g \in Seq(S) /\ g[n + 1] \in S OBVIOUS
<1>2. Len(f) = n /\ Len(g) = n + 1 BY <1>1
<1>3. Append(f, g[n + 1]) \in Seq(S) /\ Len(Append(f, g[n + 1])) = n + 1
  BY <1>1, <1>2
<1>4. \A i \in 1..(n + 1) : g[i] = Append(f, g[n + 1])[i] BY <1>1, <1>2
<1> QED BY <1>1, <1>2, <1>3, <1>4

\* A sequence that lacks the first element of another is its Tail.
LEMMA TakeOne ==
  ASSUME NEW S, NEW n \in Nat, NEW f \in [1..(n + 1) -> S],
         NEW g \in [1..n -> S], \A i \in 1..n : g[i] = f[i + 1]
  PROVE  f # <<>> /\ g = Tail(f) /\ Head(f) = f[1]
<1>1. f \in Seq(S) /\ g \in Seq(S) OBVIOUS
<1>2. Len(f) = n + 1 /\ Len(g) = n BY <1>1
<1>3. f # <<>> /\ Head(f) = f[1] BY <1>1, <1>2
<1>4. Tail(f) \in Seq(S) /\ Len(Tail(f)) = n BY <1>1, <1>2, <1>3
<1>5. \A i \in 1..n : g[i] = Tail(f)[i] BY <1>1, <1>2, <1>3
<1> QED BY <1>1, <1>2, <1>3, <1>4, <1>5

----------------------------------------------------------------------------
(* The queue that the ring stands for *)

Fills(s, p) == Filling(s) /\ snd[s].pos = p

\* The message at a position is the filler's, or else the slot's.
LEMMA MsgAtFacts ==
  ASSUME IInv, NEW p \in Nat
  PROVE  /\ \A s \in Senders : Fills(s, p) => MsgAt(p) = Msg(s, snd[s].sent)
         /\ (\A s \in Senders : ~Fills(s, p)) => MsgAt(p) = slot[Slot(p)].msg
         /\ MsgAt(p) \in Messages \cup {NoMsg}
<1>1. \A s, t \in Senders : Fills(s, p) /\ Fills(t, p) => s = t
  BY IInvParts DEF Fills, Fillers
<1>2. ASSUME NEW s \in Senders, Fills(s, p)
      PROVE  MsgAt(p) = Msg(s, snd[s].sent) /\ MsgAt(p) \in Messages
  <2>1. s = CHOOSE x \in Senders : Filling(x) /\ snd[x].pos = p
    BY <1>1, <1>2 DEF Fills
  <2>2. snd[s].sent \in Nat BY IInvParts DEF TypeOK
  <2> QED BY <1>2, <2>1, <2>2 DEF MsgAt, Fills, Msg, Messages
<1>3. slot[Slot(p)].msg \in Messages \cup {NoMsg}
  BY SlotFacts, IInvParts DEF TypeOK
<1>4. (\A s \in Senders : ~Fills(s, p)) => MsgAt(p) = slot[Slot(p)].msg
  BY DEF MsgAt, Fills
<1> QED BY <1>2, <1>3, <1>4

\* The same in the next state.
LEMMA MsgAtFactsPrime ==
  ASSUME IInv', NEW p \in Nat
  PROVE  /\ \A s \in Senders : Fills(s, p)' => MsgAt(p)' = Msg(s, snd'[s].sent)
         /\ (\A s \in Senders : ~Fills(s, p)') =>
              MsgAt(p)' = slot'[Slot(p)].msg
         /\ MsgAt(p)' \in Messages \cup {NoMsg}
<1>1. \A s, t \in Senders : Fills(s, p)' /\ Fills(t, p)' => s = t
  BY IInvPartsPrime DEF Fills, Fillers
<1>2. ASSUME NEW s \in Senders, Fills(s, p)'
      PROVE  MsgAt(p)' = Msg(s, snd'[s].sent) /\ MsgAt(p)' \in Messages
  <2>1. s = CHOOSE x \in Senders : Filling(x)' /\ snd'[x].pos = p
    BY <1>1, <1>2 DEF Fills
  <2>2. snd'[s].sent \in Nat BY IInvPartsPrime DEF TypeOK
  <2> QED BY <1>2, <2>1, <2>2 DEF MsgAt, Fills, Msg, Messages
<1>3. slot'[Slot(p)].msg \in Messages \cup {NoMsg}
  BY SlotFacts, IInvPartsPrime DEF TypeOK
<1>4. (\A s \in Senders : ~Fills(s, p)') => MsgAt(p)' = slot'[Slot(p)].msg
  BY DEF MsgAt, Fills
<1> QED BY <1>2, <1>3, <1>4

\* A position keeps its message when its sender does, or when nobody is its
\* sender and its slot is not written.
LEMMA MsgAtSame ==
  ASSUME IInv, IInv', NEW p \in Nat,
         \A s \in Senders : Fills(s, p)' <=> Fills(s, p),
         \A s \in Senders : Fills(s, p) => snd'[s].sent = snd[s].sent,
         (\A s \in Senders : ~Fills(s, p)) =>
            slot'[Slot(p)].msg = slot[Slot(p)].msg
  PROVE  MsgAt(p)' = MsgAt(p)
<1>1. CASE \E s \in Senders : Fills(s, p)
  BY <1>1, MsgAtFacts, MsgAtFactsPrime
<1>2. CASE \A s \in Senders : ~Fills(s, p)
  BY <1>2, MsgAtFacts, MsgAtFactsPrime
<1> QED BY <1>1, <1>2

\* The offsets of the window.
LEMMA Offsets ==
  ASSUME NEW h \in Nat, NEW t \in Nat, t <= h
  PROVE  h - t \in Nat /\ \A i \in 1..(h - t) : t + i - 1 \in Nat
OBVIOUS

\* The offset of a position of the window.
LEMMA OffsetOf ==
  ASSUME NEW h \in Nat, NEW t \in Nat, NEW p \in Nat, t <= p, p < h
  PROVE  p - t + 1 \in 1..(h - t) /\ t + (p - t + 1) - 1 = p
OBVIOUS

\* The queue that the ring stands for lists the messages of the window.
LEMMA QueueFacts ==
  ASSUME IInv
  PROVE  /\ head - tail \in Nat
         /\ Queue \in [1..(head - tail) -> Messages \cup {NoMsg}]
         /\ \A p \in Nat : tail <= p /\ p < head =>
              Queue[p - tail + 1] = MsgAt(p)
<1>1. head \in Nat /\ tail \in Nat /\ tail <= head
  BY MaxPosIsNatural, IInvParts DEF TypeOK, Window
<1>2. \A i \in 1..(head - tail) : MsgAt(tail + i - 1) \in Messages \cup {NoMsg}
  BY <1>1, MsgAtFacts, Offsets
<1>3. Queue \in [1..(head - tail) -> Messages \cup {NoMsg}]
  BY <1>2 DEF Queue
<1>4. ASSUME NEW p \in Nat, tail <= p, p < head
      PROVE  Queue[p - tail + 1] = MsgAt(p)
  <2>1. p - tail + 1 \in 1..(head - tail) /\ tail + (p - tail + 1) - 1 = p
    BY <1>1, <1>4, OffsetOf
  <2> QED BY <2>1 DEF Queue
<1> QED BY <1>1, <1>3, <1>4, Offsets

\* The same in the next state.
LEMMA QueueFactsPrime ==
  ASSUME IInv', NEW h \in Nat, NEW t \in Nat, h = head', t = tail'
  PROVE  /\ h - t \in Nat
         /\ Queue' \in [1..(h - t) -> Messages \cup {NoMsg}]
         /\ \A p \in Nat : t <= p /\ p < h => Queue'[p - t + 1] = MsgAt(p)'
<1>1. t <= h BY IInvPartsPrime DEF Window
<1>2. \A p \in Nat : MsgAt(p)' \in Messages \cup {NoMsg} BY MsgAtFactsPrime
<1>3. \A i \in 1..(h - t) : MsgAt(t + i - 1)' \in Messages \cup {NoMsg}
  BY <1>1, <1>2, Offsets
<1>4. Queue' = [i \in 1..(h - t) |-> MsgAt(t + i - 1)'] BY DEF Queue
<1>5. Queue' \in [1..(h - t) -> Messages \cup {NoMsg}] BY ZenonT(90), <1>3, <1>4
<1>6. ASSUME NEW p \in Nat, t <= p, p < h PROVE Queue'[p - t + 1] = MsgAt(p)'
  <2>1. p - t + 1 \in 1..(h - t) /\ t + (p - t + 1) - 1 = p
    BY ZenonT(90), <1>6, OffsetOf
  <2> DEFINE i == p - t + 1
  <2>2. i \in 1..(h - t) /\ t + i - 1 = p BY ZenonT(90), <2>1
  <2> HIDE DEF i
  <2>3. Queue'[i] = MsgAt(t + i - 1)' BY <2>2, <1>4, Zenon
  <2>4. Queue'[i] = MsgAt(p)' BY ZenonT(90), <2>2, <2>3
  <2> QED BY <2>4 DEF i
<1> QED BY ZenonT(90), <1>1, <1>5, <1>6, Offsets

\* The position of an offset.
LEMMA OffsetBack ==
  ASSUME NEW h \in Nat, NEW t \in Nat, NEW i \in 1..(h - t)
  PROVE  /\ t + i - 1 \in Nat /\ t <= t + i - 1 /\ t + i - 1 < h
         /\ (t + i - 1) - t + 1 = i
OBVIOUS

\* Functions are equal when their values are.
LEMMA SameFunction ==
  ASSUME NEW S, NEW D, NEW f \in [D -> S], NEW g \in [D -> S],
         \A i \in D : f[i] = g[i]
  PROVE  f = g
OBVIOUS

\* What the receiver r has taken.
Hold(r) == IF rcv[r].pc = "copy" THEN slot[Slot(rcv[r].pos)].msg ELSE rcv[r].msg

\* What the receivers hold, one by one.
LEMMA HoldsFacts ==
  /\ Holds = [r \in Receivers |-> Hold(r)]
  /\ Holds' = [r \in Receivers |-> Hold(r)']
BY DEF Holds, Hold

\* The queue is unchanged when the window and its messages are.
LEMMA SameQueue ==
  ASSUME IInv, IInv', head' = head, tail' = tail,
         \A p \in Nat : tail <= p /\ p < head => MsgAt(p)' = MsgAt(p)
  PROVE  Queue' = Queue
<1>1. head \in Nat /\ tail \in Nat BY MaxPosIsNatural, IInvParts DEF TypeOK
<1>2. /\ Queue' \in [1..(head - tail) -> Messages \cup {NoMsg}]
      /\ \A p \in Nat : tail <= p /\ p < head =>
           Queue'[p - tail + 1] = MsgAt(p)'
  BY <1>1, QueueFactsPrime
<1>3. /\ Queue \in [1..(head - tail) -> Messages \cup {NoMsg}]
      /\ \A p \in Nat : tail <= p /\ p < head => Queue[p - tail + 1] = MsgAt(p)
  BY QueueFacts
<1>4. ASSUME NEW i \in 1..(head - tail) PROVE Queue'[i] = Queue[i]
  <2> DEFINE p == tail + i - 1
  <2>1. p \in Nat /\ tail <= p /\ p < head /\ p - tail + 1 = i
    BY <1>1, OffsetBack
  <2> HIDE DEF p
  <2> QED BY <2>1, <1>2, <1>3
<1> DEFINE D == 1..(head - tail)  S == Messages \cup {NoMsg}
<1>5. Queue' \in [D -> S] /\ Queue \in [D -> S] BY <1>2, <1>3
<1>6. \A i \in D : Queue'[i] = Queue[i] BY <1>4
<1> HIDE DEF D, S
<1> QED BY <1>5, <1>6, SameFunction

\* So is the whole abstract state when the receivers hold what they held.
LEMMA Stutter ==
  ASSUME IInv, IInv', head' = head, tail' = tail,
         \A p \in Nat : tail <= p /\ p < head => MsgAt(p)' = MsgAt(p),
         \A r \in Receivers : Hold(r)' = Hold(r)
  PROVE  UNCHANGED <<Queue, Holds>>
<1>1. Queue' = Queue BY SameQueue
<1>2. Holds' = Holds BY HoldsFacts
<1> QED BY <1>1, <1>2

----------------------------------------------------------------------------
(* The steps, as steps of the queue *)

\* The invariant about messages holds at the start.
LEMMA InitMInv == Init => MInv
<1> SUFFICES ASSUME Init PROVE MInv OBVIOUS
<1>1. SentCounts BY DEF Init, SentCounts, Filling
<1>2. Contents BY DEF Init, Contents, Positions
<1>3. Holding BY DEF Init, Holding
<1> QED BY <1>1, <1>2, <1>3 DEF MInv

\* A stamp that connect writes is a stutter of the queue.
LEMMA InitStampRefines ==
  ASSUME IInv, MInv, IInv', InitStamp
  PROVE  MInv' /\ UNCHANGED <<Queue, Holds>>
<1>1. /\ head = 0 /\ tail = 0 /\ head' = 0 /\ tail' = 0
      /\ \A s \in Senders : snd[s].pc = "idle"
      /\ UNCHANGED <<snd, rcv>>
  BY QueueSizeIsAtLeastTwo, MaxPosIsNatural, IInvParts
     DEF InitStamp, ConnectFirst, Window, TypeOK
<1>2. \A r \in Receivers : ~Copying(r)
  BY <1>1, IInvParts DEF Copiers, TypeOK
<1>3. SentCounts' BY <1>1 DEF MInv, SentCounts, Filling
<1>4. Contents' BY <1>1 DEF Contents, Positions
<1>5. Holding' BY <1>1, <1>2 DEF MInv, Holding, Copying
<1>6. \A r \in Receivers : Hold(r)' = Hold(r)
  BY <1>1, <1>2 DEF Hold, Copying
<1>7. \A p \in Nat : ~(tail <= p /\ p < head) BY <1>1
<1> QED BY <1>1, <1>3, <1>4, <1>5, <1>6, <1>7, Stutter DEF MInv

\* The steps of a sender that change only where it is.
LEMMA SendLooks ==
  ASSUME IInv, NEW s \in Senders,
         \/ SendLoadHead(s) \/ SendLoadStamp(s) \/ SendReload(s)
         \/ SendReserve(s) /\ UNCHANGED head
  PROVE  /\ \E pc \in Pcs, pos \in 0..MaxPos : Sender(s, pc, pos)
         /\ ~Filling(s) /\ UNCHANGED <<head, tail, slot, inited, rcv>>
<1>1. /\ head \in 0..MaxPos /\ head \in Nat /\ snd[s].pos \in 0..MaxPos
      /\ snd[s].pos \in Nat /\ StampAt(snd[s].pos) \in Nat
  BY StampType, MaxPosIsNatural, IInvParts DEF TypeOK
<1>2. CASE SendLoadHead(s) BY <1>1, <1>2 DEF SendLoadHead, Pcs, Filling
<1>3. CASE SendLoadStamp(s)
  <2>1. SendCompare(StampAt(snd[s].pos), snd[s].pos) \in Pcs
    BY <1>1 DEF SendCompare, Pcs
  <2> QED BY <1>1, <1>3, <2>1 DEF SendLoadStamp, Filling
<1>4. CASE SendReload(s) BY <1>1, <1>4 DEF SendReload, Pcs, Filling
<1>5. CASE SendReserve(s) /\ UNCHANGED head
  <2>1. snd[s].pc = "reserve" /\ Sender(s, "stamp", head)
    BY <1>1, <1>5 DEF SendReserve
  <2> QED BY <1>1, <1>5, <2>1 DEF SendReserve, Pcs, Filling
<1> QED BY <1>2, <1>3, <1>4, <1>5

\* The loads of send are stutters.
LEMMA SendLooksRefines ==
  ASSUME IInv, MInv, IInv', NEW s \in Senders,
         \/ SendLoadHead(s) \/ SendLoadStamp(s) \/ SendReload(s)
         \/ SendReserve(s) /\ UNCHANGED head
  PROVE  MInv' /\ UNCHANGED <<Queue, Holds>>
<1>1. /\ ~Filling(s) /\ UNCHANGED <<head, tail, slot, inited, rcv>>
      /\ \E pc \in Pcs, pos \in 0..MaxPos : Sender(s, pc, pos)
  BY SendLooks
<1>2. PICK pc \in Pcs, pos \in 0..MaxPos : Sender(s, pc, pos) BY <1>1
<1>3. /\ snd'[s].pc = pc /\ snd'[s].pos = pos /\ snd'[s].sent = snd[s].sent
      /\ \A t \in Senders : t # s => snd'[t] = snd[t]
  BY <1>2, SenderStep, IInvParts
<1>4. \A t \in Senders : /\ Filling(t)' <=> Filling(t)
                         /\ Filling(t) => snd'[t] = snd[t]
                         /\ snd'[t].sent = snd[t].sent
  BY <1>1, <1>3 DEF Filling, Pcs
<1>5. \A t \in Senders : snd'[t].pc = "publish" =>
        snd[t].pc = "publish" /\ snd'[t] = snd[t]
  BY <1>4 DEF Filling
<1>6. SentCounts' BY <1>1, <1>4 DEF MInv, SentCounts
<1>7. Contents' BY <1>1, <1>4, <1>5 DEF MInv, Contents, StampAt
<1>8. Holding' BY <1>1 DEF MInv, Holding
<1>9. \A p : \A t \in Senders : Fills(t, p)' <=> Fills(t, p)
  BY <1>4 DEF Fills
<1>10. \A p \in Nat : MsgAt(p)' = MsgAt(p)
  BY <1>1, <1>4, <1>9, MsgAtSame
<1>11. \A r \in Receivers : Hold(r)' = Hold(r) BY <1>1 DEF Hold
<1> QED BY <1>1, <1>6, <1>7, <1>8, <1>10, <1>11, Stutter DEF MInv

\* What the loads of recv leave alone.
LEMMA RecvLooks ==
  ASSUME IInv, NEW r \in Receivers,
         \/ RecvLoadTail(r) \/ RecvLoadStamp(r) \/ RecvReload(r)
         \/ RecvReserve(r) /\ UNCHANGED tail
  PROVE  /\ \E pc \in Pcs, pos \in 0..MaxPos : Receiver(r, pc, pos)
         /\ ~Copying(r) /\ UNCHANGED <<head, tail, slot, inited, snd>>
<1>1. /\ tail \in 0..MaxPos /\ tail \in Nat /\ rcv[r].pos \in 0..MaxPos
      /\ rcv[r].pos \in Nat /\ StampAt(rcv[r].pos) \in Nat
  BY StampType, MaxPosIsNatural, IInvParts DEF TypeOK
<1>2. CASE RecvLoadTail(r) BY <1>1, <1>2 DEF RecvLoadTail, Pcs, Copying
<1>3. CASE RecvLoadStamp(r)
  <2>1. RecvCompare(StampAt(rcv[r].pos), rcv[r].pos) \in Pcs
    BY <1>1 DEF RecvCompare, Pcs
  <2> QED BY <1>1, <1>3, <2>1 DEF RecvLoadStamp, Copying
<1>4. CASE RecvReload(r) BY <1>1, <1>4 DEF RecvReload, Pcs, Copying
<1>5. CASE RecvReserve(r) /\ UNCHANGED tail
  <2>1. rcv[r].pc = "reserve" /\ Receiver(r, "stamp", tail)
    BY <1>1, <1>5 DEF RecvReserve
  <2> QED BY <1>1, <1>5, <2>1 DEF RecvReserve, Pcs, Copying
<1> QED BY <1>2, <1>3, <1>4, <1>5

\* The loads of recv are stutters.
LEMMA RecvLooksRefines ==
  ASSUME IInv, MInv, IInv', NEW r \in Receivers,
         \/ RecvLoadTail(r) \/ RecvLoadStamp(r) \/ RecvReload(r)
         \/ RecvReserve(r) /\ UNCHANGED tail
  PROVE  MInv' /\ UNCHANGED <<Queue, Holds>>
<1>1. /\ ~Copying(r) /\ UNCHANGED <<head, tail, slot, inited, snd>>
      /\ \E pc \in Pcs, pos \in 0..MaxPos : Receiver(r, pc, pos)
  BY RecvLooks
<1>2. PICK pc \in Pcs, pos \in 0..MaxPos : Receiver(r, pc, pos) BY <1>1
<1>3. /\ rcv'[r].pc = pc /\ rcv'[r].pos = pos /\ rcv'[r].msg = rcv[r].msg
      /\ \A q \in Receivers : q # r => rcv'[q] = rcv[q]
  BY <1>2, ReceiverStep, IInvParts
<1>4. \A q \in Receivers :
        \/ rcv'[q] = rcv[q]
        \/ /\ rcv'[q].msg = rcv[q].msg
           /\ rcv'[q].pc \notin {"copy", "release"}
           /\ rcv[q].pc \notin {"copy", "release"}
  BY <1>1, <1>3 DEF Copying, Pcs
<1>5. SentCounts' /\ Contents'
  <2>1. SentCounts' BY <1>1 DEF MInv, SentCounts, Filling
  <2>2. Contents' BY <1>1 DEF MInv, Contents, Filling, StampAt
  <2> QED BY <2>1, <2>2
<1>6. Holding' BY <1>1, <1>4 DEF MInv, Holding
<1>7. \A p : \A t \in Senders : Fills(t, p)' <=> Fills(t, p)
  BY <1>1 DEF Fills, Filling
<1>8. \A p \in Nat : MsgAt(p)' = MsgAt(p) BY <1>1, <1>7, MsgAtSame
<1>9. \A q \in Receivers : Hold(q)' = Hold(q) BY <1>1, <1>4 DEF Hold
<1> QED BY <1>1, <1>5, <1>6, <1>8, <1>9, Stutter DEF MInv

\* Two sent positions are in two slots.
LEMMA InWindow ==
  ASSUME IInv, NEW p \in Nat, NEW q \in Nat, tail <= p, p < head,
         tail <= q, q < head, Slot(p) = Slot(q)
  PROVE  p = q
<1>1. head \in Nat /\ tail \in Nat /\ head <= tail + QUEUE_SIZE
  BY MaxPosIsNatural, IInvParts DEF TypeOK, Window
<1>2. p >= q + QUEUE_SIZE \/ q >= p + QUEUE_SIZE \/ p = q BY SlotFacts
<1> QED BY <1>1, <1>2, QueueSizeIsAtLeastTwo

\* The store of a stamp keeps the messages.
LEMMA StampKeepsMsg ==
  ASSUME TypeOK, NEW q \in Nat, NEW v \in Nat, SetStamp(q, v)
  PROVE  \A p \in Nat : slot'[Slot(p)].msg = slot[Slot(p)].msg
<1>1. \A p \in Nat : Slot(p) \in Slots BY SlotFacts
<1> QED BY <1>1 DEF SetStamp, TypeOK

\* The copy of the message into the slot is a stutter: the queue has it since
\* the reservation.
LEMMA SendFillRefines ==
  ASSUME IInv, MInv, IInv', NEW s \in Senders, SendFill(s)
  PROVE  MInv' /\ UNCHANGED <<Queue, Holds>>
<1> DEFINE w == snd[s].pos
<1>1. /\ snd[s].pc = "fill" /\ UNCHANGED <<head, tail, inited, rcv>>
      /\ Sender(s, "publish", w) /\ w \in Nat /\ w \in 0..MaxPos
      /\ slot' = [slot EXCEPT ![Slot(w)] =
                    [slot[Slot(w)] EXCEPT !.msg = Msg(s, snd[s].sent)]]
  BY MaxPosIsNatural, IInvParts DEF SendFill, TypeOK
<1>2. /\ snd'[s].pc = "publish" /\ snd'[s].pos = w /\ snd'[s].sent = snd[s].sent
      /\ \A t \in Senders : t # s => snd'[t] = snd[t]
  BY <1>1, SenderStep, IInvParts
<1>3. \A t \in Senders : /\ Filling(t)' <=> Filling(t)
                         /\ snd'[t].pos = snd[t].pos /\ snd'[t].sent = snd[t].sent
  BY <1>1, <1>2 DEF Filling
<1>4. /\ \A p \in Nat : StampAt(p)' = StampAt(p)
      /\ \A p \in Nat : slot'[Slot(p)].msg =
           IF Slot(p) = Slot(w) THEN Msg(s, snd[s].sent) ELSE slot[Slot(p)].msg
  <2>1. \A p \in Nat : Slot(p) \in Slots BY SlotFacts
  <2> HIDE DEF w
  <2> QED BY <1>1, <2>1, IInvParts DEF TypeOK, StampAt
<1>5. /\ \A t \in Senders : Filling(t) /\ t # s => Slot(snd[t].pos) # Slot(w)
      /\ \A r \in Receivers : Copying(r) => Slot(rcv[r].pos) # Slot(w)
  BY <1>1, InvExclusive DEF SlotIsExclusive, Filling
<1>6. Filling(s) /\ tail <= w /\ w < head
  BY <1>1, IInvParts DEF Filling, Fillers
<1>7. /\ \A t \in Senders : snd[t].pos \in Nat
      /\ \A r \in Receivers : rcv[r].pos \in Nat
  BY MaxPosIsNatural, IInvParts DEF TypeOK
<1>8. SentCounts' BY <1>1, <1>3 DEF MInv, SentCounts
<1>9. Contents'
  <2>1. ASSUME NEW t \in Senders, snd'[t].pc = "publish"
        PROVE  slot'[Slot(snd'[t].pos)].msg = Msg(t, snd'[t].sent)
    <3>1. CASE t = s BY <3>1, <1>1, <1>2, <1>4
    <3>2. CASE t # s
      <4>1. snd[t].pc = "publish" /\ snd'[t] = snd[t] BY <3>2, <2>1, <1>2
      <4>2. Slot(snd[t].pos) # Slot(w) BY <4>1, <3>2, <1>5 DEF Filling
      <4> QED BY <4>1, <4>2, <1>4, <1>7 DEF MInv, Contents
    <3> QED BY <3>1, <3>2
  <2>2. ASSUME NEW p \in Positions, tail <= p, p < head
        PROVE  \/ \E t \in Senders : Filling(t)' /\ snd'[t].pos = p
               \/ StampAt(p)' = p + 1 /\ slot'[Slot(p)].msg \in Messages
    <3>1. p \in Nat BY MaxPosIsNatural, QueueSizeIsAtLeastTwo DEF Positions
    <3>2. CASE Slot(p) = Slot(w)
      <4>1. p = w BY <3>1, <3>2, <2>2, <1>1, <1>6, InWindow
      <4> QED BY <4>1, <1>3, <1>6
    <3>3. CASE Slot(p) # Slot(w)
      BY <3>1, <3>3, <2>2, <1>3, <1>4 DEF MInv, Contents
    <3> QED BY <3>2, <3>3
  <2> QED BY <2>1, <2>2, <1>1 DEF Contents
<1>10. Holding'
  <2> SUFFICES ASSUME NEW r \in Receivers, rcv[r].pc = "copy"
               PROVE  slot'[Slot(rcv[r].pos)].msg \in Messages
    BY <1>1 DEF MInv, Holding
  <2>1. Slot(rcv[r].pos) # Slot(w) BY <1>5 DEF Copying
  <2> QED BY <2>1, <1>4, <1>7 DEF MInv, Holding
<1>11. \A p : \A t \in Senders : Fills(t, p)' <=> Fills(t, p)
  BY <1>3 DEF Fills
<1>12. ASSUME NEW p \in Nat, tail <= p, p < head PROVE MsgAt(p)' = MsgAt(p)
  <2>1. (\A t \in Senders : ~Fills(t, p)) => Slot(p) # Slot(w)
    BY <1>1, <1>6, <1>12, InWindow DEF Fills
  <2> QED BY <2>1, <1>3, <1>4, <1>11, MsgAtSame
<1>13. ASSUME NEW r \in Receivers PROVE Hold(r)' = Hold(r)
  BY <1>1, <1>4, <1>5, <1>7 DEF Hold, Copying
<1> QED BY <1>1, <1>8, <1>9, <1>10, <1>12, <1>13, Stutter DEF MInv

\* The publication is a stutter.
LEMMA SendPublishRefines ==
  ASSUME IInv, MInv, IInv', NEW s \in Senders, SendPublish(s)
  PROVE  MInv' /\ UNCHANGED <<Queue, Holds>>
<1> DEFINE w == snd[s].pos
<1>1. /\ snd[s].pc = "publish" /\ UNCHANGED <<head, tail, inited, rcv>>
      /\ SetStamp(w, w + 1) /\ w \in Nat /\ w + 1 \in Nat /\ head \in Nat
      /\ snd[s].sent \in Nat
      /\ snd' = [snd EXCEPT ![s] =
                   [snd[s] EXCEPT !.pc = "idle", !.sent = snd[s].sent + 1]]
  BY MaxPosIsNatural, IInvParts DEF SendPublish, PublishedStamp, TypeOK
<1>2. /\ snd'[s].pc = "idle" /\ snd'[s].sent = snd[s].sent + 1
      /\ \A t \in Senders : t # s => snd'[t] = snd[t]
  BY <1>1, IInvParts DEF TypeOK
<1>3. /\ \A p \in Nat : slot'[Slot(p)].msg = slot[Slot(p)].msg
      /\ \A p \in Nat :
           StampAt(p)' = IF Slot(p) = Slot(w) THEN w + 1 ELSE StampAt(p)
  BY <1>1, StampSet, StampKeepsMsg, IInvParts
<1>4. Filling(s) /\ tail <= w /\ w < head
  BY <1>1, IInvParts DEF Filling, Fillers
<1>5. \A t \in Senders : Filling(t)' => t # s /\ Filling(t) BY <1>2 DEF Filling
<1>6. /\ \A t \in Senders : snd[t].pos \in Nat
      /\ \A r \in Receivers : rcv[r].pos \in Nat
  BY MaxPosIsNatural, IInvParts DEF TypeOK
<1>7. slot[Slot(w)].msg = Msg(s, snd[s].sent) BY <1>1 DEF MInv, Contents
<1>8. SentCounts'
  <2> SUFFICES ASSUME NEW t \in Senders
               PROVE  /\ snd'[t].sent <= head
                      /\ Filling(t)' => snd'[t].sent < head
    BY <1>1 DEF SentCounts
  <2>1. CASE t = s
    <3>1. snd[s].sent < head BY <1>4 DEF MInv, SentCounts
    <3> QED BY <3>1, <2>1, <1>1, <1>2, <1>5
  <2>2. CASE t # s BY <2>2, <1>2, <1>5 DEF MInv, SentCounts
  <2> QED BY <2>1, <2>2
<1>9. Contents'
  <2>1. ASSUME NEW t \in Senders, snd'[t].pc = "publish"
        PROVE  slot'[Slot(snd'[t].pos)].msg = Msg(t, snd'[t].sent)
    <3>1. snd'[t] = snd[t] BY <2>1, <1>2
    <3> QED BY <3>1, <2>1, <1>3, <1>6 DEF MInv, Contents
  <2>2. ASSUME NEW p \in Positions, tail <= p, p < head
        PROVE  \/ \E t \in Senders : Filling(t)' /\ snd'[t].pos = p
               \/ StampAt(p)' = p + 1 /\ slot'[Slot(p)].msg \in Messages
    <3>1. p \in Nat BY MaxPosIsNatural, QueueSizeIsAtLeastTwo DEF Positions
    <3>2. CASE Slot(p) = Slot(w)
      <4>1. p = w BY <3>1, <3>2, <2>2, <1>1, <1>4, InWindow
      <4>2. Msg(s, snd[s].sent) \in Messages BY <1>1 DEF Msg, Messages
      <4> HIDE DEF w
      <4> QED BY <3>1, <4>1, <4>2, <1>3, <1>7
    <3>3. CASE Slot(p) # Slot(w)
      <4>1. CASE \E t \in Senders : Filling(t) /\ snd[t].pos = p
        BY <4>1, <3>3, <1>2 DEF Filling
      <4>2. CASE StampAt(p) = p + 1 /\ slot[Slot(p)].msg \in Messages
        BY <4>2, <3>1, <3>3, <1>3
      <4> QED BY <4>1, <4>2, <2>2 DEF MInv, Contents
    <3> QED BY <3>2, <3>3
  <2> QED BY <2>1, <2>2, <1>1 DEF Contents
<1>10. Holding' BY <1>1, <1>3, <1>6 DEF MInv, Holding
<1>11. ASSUME NEW p \in Nat PROVE MsgAt(p)' = MsgAt(p)
  <2>1. CASE p = w
    <3>1. MsgAt(p) = Msg(s, snd[s].sent) BY <2>1, <1>4, MsgAtFacts DEF Fills
    <3>2. \A t \in Senders : ~Fills(t, p)'
      <4> SUFFICES ASSUME NEW t \in Senders, Fills(t, p)' PROVE FALSE
        OBVIOUS
      <4>1. t # s /\ Filling(t) /\ snd[t].pos = w BY <2>1, <1>2, <1>5 DEF Fills
      <4> QED BY <4>1, <1>4, IInvParts DEF Fillers
    <3> QED BY <3>1, <3>2, <2>1, <1>3, <1>7, MsgAtFactsPrime
  <2>2. CASE p # w
    <3>1. \A t \in Senders : Fills(t, p)' <=> Fills(t, p)
      BY <2>2, <1>2 DEF Fills, Filling
    <3>2. \A t \in Senders : Fills(t, p) => snd'[t].sent = snd[t].sent
      BY <2>2, <1>2 DEF Fills
    <3> QED BY <3>1, <3>2, <1>3, MsgAtSame
  <2> QED BY <2>1, <2>2
<1>12. \A r \in Receivers : Hold(r)' = Hold(r) BY <1>1, <1>3, <1>6 DEF Hold
<1> QED BY <1>1, <1>8, <1>9, <1>10, <1>11, <1>12, Stutter DEF MInv

\* The copy out of the slot is a stutter: the receiver holds the message since
\* the reservation.
LEMMA RecvCopyRefines ==
  ASSUME IInv, MInv, IInv', NEW r \in Receivers, RecvCopy(r)
  PROVE  MInv' /\ UNCHANGED <<Queue, Holds>>
<1>1. /\ rcv[r].pc = "copy" /\ UNCHANGED <<head, tail, slot, inited, snd>>
      /\ rcv'[r].pc = "release" /\ rcv'[r].msg = slot[Slot(rcv[r].pos)].msg
      /\ \A q \in Receivers : q # r => rcv'[q] = rcv[q]
  BY IInvParts DEF RecvCopy, TypeOK
<1>2. SentCounts' /\ Contents'
  BY <1>1 DEF MInv, SentCounts, Contents, Filling, StampAt
<1>3. Holding' BY <1>1 DEF MInv, Holding
<1>4. \A p : \A t \in Senders : Fills(t, p)' <=> Fills(t, p)
  BY <1>1 DEF Fills, Filling
<1>5. \A p \in Nat : MsgAt(p)' = MsgAt(p) BY <1>1, <1>4, MsgAtSame
<1>6. \A q \in Receivers : Hold(q)' = Hold(q) BY <1>1 DEF Hold
<1> QED BY <1>1, <1>2, <1>3, <1>5, <1>6, Stutter DEF MInv

\* The release of the slot is a stutter.
LEMMA RecvReleaseRefines ==
  ASSUME IInv, MInv, IInv', NEW r \in Receivers, RecvRelease(r)
  PROVE  MInv' /\ Fifo!Finish(r)
<1> DEFINE w == rcv[r].pos
<1>1. /\ rcv[r].pc = "release" /\ UNCHANGED <<head, tail, inited, snd>>
      /\ SetStamp(w, w + QUEUE_SIZE) /\ w \in Nat /\ w + QUEUE_SIZE \in Nat
      /\ head \in Nat /\ tail \in Nat
      /\ rcv'[r].pc = "idle" /\ rcv'[r].msg = NoMsg
      /\ \A q \in Receivers : q # r => rcv'[q] = rcv[q]
  BY MaxPosIsNatural, QueueSizeIsAtLeastTwo, IInvParts
     DEF RecvRelease, NextStamp, TypeOK
<1>2. /\ \A p \in Nat : slot'[Slot(p)].msg = slot[Slot(p)].msg
      /\ \A p \in Nat : StampAt(p)' =
           IF Slot(p) = Slot(w) THEN w + QUEUE_SIZE ELSE StampAt(p)
  BY <1>1, StampSet, StampKeepsMsg, IInvParts
<1>3. w < tail /\ head <= w + QUEUE_SIZE
  BY <1>1, IInvParts DEF Copying, Copiers
<1>4. /\ \A t \in Senders : snd[t].pos \in Nat
      /\ \A q \in Receivers : rcv[q].pos \in Nat
  BY MaxPosIsNatural, IInvParts DEF TypeOK
<1>5. SentCounts' BY <1>1 DEF MInv, SentCounts, Filling
<1>6. Contents'
  <2>1. ASSUME NEW p \in Positions, tail <= p, p < head
        PROVE  p \in Nat /\ StampAt(p)' = StampAt(p)
    <3>1. p \in Nat BY MaxPosIsNatural, QueueSizeIsAtLeastTwo DEF Positions
    <3>2. Slot(p) = Slot(w) => p = w \/ p >= w + QUEUE_SIZE \/ w >= p + QUEUE_SIZE
      BY <3>1, <1>1, SlotFacts
    <3> HIDE DEF w
    <3>3. Slot(p) # Slot(w)
      BY <3>1, <3>2, <2>1, <1>1, <1>3, QueueSizeIsAtLeastTwo
    <3> QED BY <3>1, <3>3, <1>2
  <2>2. \A t \in Senders : Filling(t)' <=> Filling(t) BY <1>1 DEF Filling
  <2> QED BY <2>1, <2>2, <1>1, <1>2, <1>4 DEF MInv, Contents
<1>7. ASSUME NEW q \in Receivers
      PROVE  /\ Hold(q)' = IF q = r THEN NoMsg ELSE Hold(q)
             /\ rcv'[q].pc = "copy" => slot'[Slot(rcv'[q].pos)].msg \in Messages
             /\ rcv'[q].msg \in
                  IF rcv'[q].pc = "release" THEN Messages ELSE {NoMsg}
  BY <1>1, <1>2, <1>4 DEF Hold, MInv, Holding
<1>8. Holding' BY <1>7 DEF Holding
<1>9. Hold(r) # NoMsg
  <2>1. rcv[r].msg \in Messages BY <1>1 DEF MInv, Holding
  <2> QED BY <2>1, <1>1, NoMsgIsNoMessage DEF Hold, Messages
<1>10. \A p : \A t \in Senders : Fills(t, p)' <=> Fills(t, p)
  BY <1>1 DEF Fills, Filling
<1>11. \A p \in Nat : MsgAt(p)' = MsgAt(p) BY <1>1, <1>2, <1>10, MsgAtSame
<1>12. Queue' = Queue BY <1>1, <1>11, SameQueue
<1>13. Holds' = [Holds EXCEPT ![r] = NoMsg] BY <1>7, HoldsFacts
<1>14. Fifo!Finish(r) BY <1>9, <1>12, <1>13, HoldsFacts DEF Fifo!Finish
<1> QED BY <1>5, <1>6, <1>8, <1>14 DEF MInv

\* A successful compare_exchange of the head appends the message.
LEMMA SendReserveRefines ==
  ASSUME IInv, MInv, IInv', NEW s \in Senders, SendReserve(s), head' # head
  PROVE  MInv' /\ \E m \in Senders \X (0..MaxPos) : Fifo!Send(m)
<1>1. /\ snd[s].pc = "reserve" /\ snd[s].pos = head /\ head < MaxPos
      /\ head' = head + 1 /\ Sender(s, "fill", head)
      /\ UNCHANGED <<tail, slot, inited, rcv>>
  BY DEF SendReserve, SendCanReserve
<1>2. /\ head \in Nat /\ tail \in Nat /\ head \in 0..MaxPos /\ tail <= head
      /\ head + 1 \in Nat /\ snd[s].sent \in Nat
  BY MaxPosIsNatural, IInvParts DEF TypeOK, Window
<1>3. /\ snd'[s].pc = "fill" /\ snd'[s].pos = head /\ snd'[s].sent = snd[s].sent
      /\ \A t \in Senders : t # s => snd'[t] = snd[t]
  BY <1>1, <1>2, SenderStep, IInvParts
<1>4. ~Filling(s) BY <1>1 DEF Filling
<1>5. \A t \in Senders : Filling(t) => snd'[t] = snd[t] /\ Filling(t)'
  BY <1>3, <1>4 DEF Filling
<1>6. SentCounts'
  <2> SUFFICES ASSUME NEW t \in Senders PROVE snd'[t].sent < head + 1
    BY <1>1, <1>2, IInvPartsPrime DEF SentCounts, TypeOK
  <2>1. snd[t].sent <= head /\ snd[t].sent \in Nat
    BY IInvParts DEF MInv, SentCounts, TypeOK
  <2>2. snd'[t].sent = snd[t].sent BY <1>3
  <2> QED BY <2>1, <2>2, <1>2
<1>7. Contents'
  <2>1. ASSUME NEW t \in Senders, snd'[t].pc = "publish"
        PROVE  slot'[Slot(snd'[t].pos)].msg = Msg(t, snd'[t].sent)
    <3>1. snd'[t] = snd[t] BY <2>1, <1>3
    <3> QED BY <3>1, <2>1, <1>1 DEF MInv, Contents
  <2>2. ASSUME NEW p \in Positions, tail <= p, p < head + 1
        PROVE  \/ \E t \in Senders : Filling(t)' /\ snd'[t].pos = p
               \/ StampAt(p)' = p + 1 /\ slot'[Slot(p)].msg \in Messages
    <3>1. p < head \/ p = head
      BY <2>2, <1>2, MaxPosIsNatural, QueueSizeIsAtLeastTwo DEF Positions
    <3>2. CASE p = head BY <3>2, <1>3 DEF Filling
    <3>3. CASE p < head
      <4>1. CASE \E t \in Senders : Filling(t) /\ snd[t].pos = p BY <4>1, <1>5
      <4>2. CASE StampAt(p) = p + 1 /\ slot[Slot(p)].msg \in Messages
        BY <4>2, <1>1 DEF StampAt
      <4> QED BY <4>1, <4>2, <3>3, <2>2 DEF MInv, Contents
    <3> QED BY <3>1, <3>2, <3>3
  <2> QED BY <2>1, <2>2, <1>1 DEF Contents
<1>8. Holding' BY <1>1 DEF MInv, Holding
<1> DEFINE m == Msg(s, snd[s].sent)  n == head - tail
           S == Messages \cup {NoMsg}
<1>9. m \in Senders \X (0..MaxPos)
  <2>1. snd[s].sent <= head BY DEF MInv, SentCounts
  <2>2. snd[s].sent \in 0..MaxPos BY <2>1, <1>1, <1>2, MaxPosIsNatural
  <2> QED BY <2>2 DEF Msg
<1>10. \A p \in Nat : p = head => MsgAt(p)' = m
  <2>1. snd'[s].pos = head /\ Filling(s)' BY <1>3 DEF Filling
  <2> QED BY <1>3, <2>1, MsgAtFactsPrime DEF Fills
<1>11. \A p \in Nat : p # head => MsgAt(p)' = MsgAt(p)
  <2> SUFFICES ASSUME NEW p \in Nat, p # head PROVE MsgAt(p)' = MsgAt(p)
    OBVIOUS
  <2>1. \A t \in Senders : Fills(t, p)' <=> Fills(t, p)
    BY <1>3, <1>4 DEF Fills, Filling
  <2>2. \A t \in Senders : snd'[t].sent = snd[t].sent BY <1>3
  <2> QED BY <2>1, <2>2, <1>1, MsgAtSame
<1>12. /\ n \in Nat /\ Queue \in [1..n -> S]
       /\ \A p \in Nat : tail <= p /\ p < head => Queue[p - tail + 1] = MsgAt(p)
  BY QueueFacts
<1>13. /\ Queue' \in [1..(n + 1) -> S]
       /\ \A p \in Nat : tail <= p /\ p < head + 1 =>
            Queue'[p - tail + 1] = MsgAt(p)'
  <2>1. (head + 1) - tail = n + 1 BY <1>2
  <2>2. /\ Queue' \in [1..((head + 1) - tail) -> S]
        /\ \A p \in Nat : tail <= p /\ p < head + 1 =>
             Queue'[p - tail + 1] = MsgAt(p)'
    BY <1>1, <1>2, QueueFactsPrime
  <2> QED BY <2>1, <2>2
<1>14. ASSUME NEW i \in 1..n PROVE Queue'[i] = Queue[i]
  <2> DEFINE p == tail + i - 1
  <2>1. p \in Nat /\ tail <= p /\ p < head /\ p - tail + 1 = i
    BY <1>2, OffsetBack
  <2> HIDE DEF p
  <2>2. p < head + 1 /\ p # head BY <2>1, <1>2
  <2> QED BY <2>1, <2>2, <1>11, <1>12, <1>13
<1>15. Queue'[n + 1] = m
  <2>1. Queue'[head - tail + 1] = m BY <1>2, <1>10, <1>13
  <2> QED BY <2>1
<1> HIDE DEF n, m, S
<1>16. Len(Queue) = n /\ Queue' = Append(Queue, Queue'[n + 1])
  BY <1>12, <1>13, <1>14, AppendOne
<1>17. n < QUEUE_SIZE
  <2>1. head + 1 <= tail + QUEUE_SIZE BY <1>1, IInvPartsPrime DEF Window
  <2> QED BY <2>1, <1>2, QueueSizeIsAtLeastTwo DEF n
<1>18. Holds' = Holds
  <2>1. \A r \in Receivers : Hold(r)' = Hold(r) BY <1>1 DEF Hold
  <2> QED BY <2>1, HoldsFacts
<1>19. Fifo!Send(m) BY <1>15, <1>16, <1>17, <1>18 DEF Fifo!Send
<1> QED BY <1>6, <1>7, <1>8, <1>9, <1>19 DEF MInv

\* A successful compare_exchange of the tail takes the oldest message.
LEMMA RecvReserveRefines ==
  ASSUME IInv, MInv, IInv', NEW r \in Receivers, RecvReserve(r), tail' # tail
  PROVE  MInv' /\ Fifo!Take(r)
<1>1. /\ rcv[r].pc = "reserve" /\ rcv[r].pos = tail
      /\ tail' = tail + 1 /\ Receiver(r, "copy", tail)
      /\ UNCHANGED <<head, slot, inited, snd>>
  BY DEF RecvReserve
<1>2. /\ head \in Nat /\ tail \in Nat /\ tail \in 0..MaxPos /\ tail + 1 \in Nat
      /\ tail \in Positions
  BY MaxPosIsNatural, QueueSizeIsAtLeastTwo, IInvParts DEF TypeOK, Positions
<1>3. /\ rcv'[r].pc = "copy" /\ rcv'[r].pos = tail /\ rcv'[r].msg = rcv[r].msg
      /\ \A q \in Receivers : q # r => rcv'[q] = rcv[q]
  BY ZenonT(90), <1>1, <1>2, ReceiverStep, IInvParts
<1>4. tail < head
  <2>1. tail + 1 <= head BY <1>1, IInvPartsPrime DEF Window
  <2> QED BY <2>1, <1>2
<1>5. \A t \in Senders : ~Fills(t, tail)
  <2>1. StampAt(tail) = tail + 1 BY <1>1, IInvParts DEF ReceiversReady
  <2> QED BY <2>1, <1>2, IInvParts DEF Fills, Fillers
<1>6. slot[Slot(tail)].msg \in Messages
  <2>1. \/ \E t \in Senders : Filling(t) /\ snd[t].pos = tail
        \/ slot[Slot(tail)].msg \in Messages
    BY <1>2, <1>4 DEF MInv, Contents
  <2> QED BY <2>1, <1>5 DEF Fills
<1>7. SentCounts' BY <1>1 DEF MInv, SentCounts, Filling
<1>8. Contents'
  <2> SUFFICES ASSUME NEW p \in Positions, tail + 1 <= p, p < head
               PROVE  tail <= p
    BY <1>1 DEF MInv, Contents, Filling, StampAt
  <2> QED BY <1>2, MaxPosIsNatural, QueueSizeIsAtLeastTwo DEF Positions
<1>9. rcv[r].msg = NoMsg BY <1>1 DEF MInv, Holding
<1>10. Holding'
  <2> SUFFICES ASSUME NEW q \in Receivers
               PROVE  /\ rcv'[q].pc = "copy" => slot[Slot(rcv'[q].pos)].msg \in Messages
                      /\ rcv'[q].msg \in
                           IF rcv'[q].pc = "release" THEN Messages ELSE {NoMsg}
    BY <1>1 DEF Holding
  <2>1. CASE q = r BY <2>1, <1>3, <1>6, <1>9
  <2>2. CASE q # r BY <2>2, <1>3 DEF MInv, Holding
  <2> QED BY <2>1, <2>2
<1> DEFINE n == head - (tail + 1)  S == Messages \cup {NoMsg}
<1>11. \A p \in Nat : MsgAt(p)' = MsgAt(p)
  <2>1. \A p : \A t \in Senders : Fills(t, p)' <=> Fills(t, p)
    BY <1>1 DEF Fills, Filling
  <2> QED BY <2>1, <1>1, MsgAtSame
<1>12. /\ Queue \in [1..(n + 1) -> S]
       /\ \A p \in Nat : tail <= p /\ p < head => Queue[p - tail + 1] = MsgAt(p)
  <2>1. head - tail = n + 1 BY <1>2
  <2>2. /\ Queue \in [1..(head - tail) -> S]
        /\ \A p \in Nat : tail <= p /\ p < head => Queue[p - tail + 1] = MsgAt(p)
    BY QueueFacts
  <2> QED BY <2>1, <2>2
<1>13. /\ n \in Nat /\ Queue' \in [1..n -> S]
       /\ \A p \in Nat : tail + 1 <= p /\ p < head =>
            Queue'[p - (tail + 1) + 1] = MsgAt(p)'
  BY <1>1, <1>2, QueueFactsPrime
<1>14. ASSUME NEW i \in 1..n PROVE Queue'[i] = Queue[i + 1]
  <2>1. PICK p \in Nat : tail + 1 <= p /\ p < head /\ p - (tail + 1) + 1 = i
    BY <1>2, OffsetBack
  <2>2. tail <= p /\ p - tail + 1 = i + 1 BY <2>1, <1>2
  <2>3. Queue'[i] = MsgAt(p)' BY <2>1, <1>13
  <2>4. Queue[i + 1] = MsgAt(p) BY <2>1, <2>2, <1>12
  <2> QED BY <2>1, <2>3, <2>4, <1>11
<1>15. Queue[1] = slot[Slot(tail)].msg
  <2>1. tail - tail + 1 = 1 BY <1>2
  <2>2. Queue[tail - tail + 1] = MsgAt(tail) BY <1>2, <1>4, <1>12
  <2>3. MsgAt(tail) = slot[Slot(tail)].msg BY <1>2, <1>5, MsgAtFacts
  <2> QED BY <2>1, <2>2, <2>3
<1> HIDE DEF n, S
<1>16. Queue # <<>> /\ Queue' = Tail(Queue) /\ Head(Queue) = Queue[1]
  BY <1>12, <1>13, <1>14, TakeOne
<1>17. ASSUME NEW q \in Receivers
       PROVE  Hold(q)' = IF q = r THEN slot[Slot(tail)].msg ELSE Hold(q)
  BY <1>1, <1>3 DEF Hold
<1>18. Holds' = [Holds EXCEPT ![r] = Head(Queue)]
  BY <1>15, <1>16, <1>17, HoldsFacts
<1>19. Holds[r] = NoMsg BY <1>1, <1>9, HoldsFacts DEF Hold
<1>20. Fifo!Take(r) BY <1>16, <1>18, <1>19 DEF Fifo!Take
<1> QED BY <1>7, <1>8, <1>10, <1>20 DEF MInv

----------------------------------------------------------------------------
(* All steps together *)

\* The ring starts as the empty queue.
LEMMA InitRefines == Init => Fifo!Init
<1> SUFFICES ASSUME Init PROVE Fifo!Init OBVIOUS
<1>1. 1..(head - tail) = {} BY DEF Init
<1>2. Queue = <<>> BY <1>1 DEF Queue
<1>3. Holds = [r \in Receivers |-> NoMsg] BY DEF Init, Holds
<1> QED BY <1>2, <1>3 DEF Fifo!Init

\* Every step of the ring is a step of the queue or a stutter.
LEMMA NextRefines ==
  ASSUME IInv, MInv, IInv', [Next]_vars
  PROVE  MInv' /\ [Fifo!Next]_(Fifo!vars)
<1>0. UNCHANGED <<Queue, Holds>> => [Fifo!Next]_(Fifo!vars) BY DEF Fifo!vars
<1>1. CASE InitStamp BY <1>0, <1>1, InitStampRefines
<1>2. ASSUME NEW s \in Senders, SendStep(s)
      PROVE  MInv' /\ [Fifo!Next]_(Fifo!vars)
  <2>1. CASE SendLoadHead(s) \/ SendLoadStamp(s) \/ SendReload(s)
    BY <1>0, <2>1, SendLooksRefines
  <2>2. CASE SendReserve(s)
    <3>1. CASE head' = head BY <1>0, <2>2, <3>1, SendLooksRefines
    <3>2. CASE head' # head BY <2>2, <3>2, SendReserveRefines DEF Fifo!Next
    <3> QED BY <3>1, <3>2
  <2>3. CASE SendFill(s) BY <1>0, <2>3, SendFillRefines
  <2>4. CASE SendPublish(s) BY <1>0, <2>4, SendPublishRefines
  <2> QED BY <1>2, <2>1, <2>2, <2>3, <2>4 DEF SendStep
<1>3. ASSUME NEW r \in Receivers, RecvStep(r)
      PROVE  MInv' /\ [Fifo!Next]_(Fifo!vars)
  <2>1. CASE RecvLoadTail(r) \/ RecvLoadStamp(r) \/ RecvReload(r)
    BY <1>0, <2>1, RecvLooksRefines
  <2>2. CASE RecvReserve(r)
    <3>1. CASE tail' = tail BY <1>0, <2>2, <3>1, RecvLooksRefines
    <3>2. CASE tail' # tail BY <2>2, <3>2, RecvReserveRefines DEF Fifo!Next
    <3> QED BY <3>1, <3>2
  <2>3. CASE RecvCopy(r) BY <1>0, <2>3, RecvCopyRefines
  <2>4. CASE RecvRelease(r) BY <2>4, RecvReleaseRefines DEF Fifo!Next
  <2> QED BY <1>3, <2>1, <2>2, <2>3, <2>4 DEF RecvStep
<1>4. CASE UNCHANGED vars
  <2>1. MInv' BY <1>4 DEF vars, MInv, SentCounts, Contents, Holding, Filling, StampAt
  <2>2. UNCHANGED <<Queue, Holds>>
    <3>1. Queue' = Queue BY <1>4 DEF vars, Queue, MsgAt, Filling
    <3>2. Holds' = Holds BY <1>4 DEF vars, Holds
    <3> QED BY <3>1, <3>2
  <2> QED BY <1>0, <2>1, <2>2
<1> QED BY <1>1, <1>2, <1>3, <1>4 DEF Next

----------------------------------------------------------------------------
(* The steps keep the invariant *)

\* The invariant holds before connect wrote the first stamp.
LEMMA InitIInv == Init => IInv
<1> SUFFICES ASSUME Init PROVE IInv OBVIOUS
<1> USE QueueSizeIsAtLeastTwo, MaxPosIsNatural
<1>1. TypeOK BY DEF Init, TypeOK, Pcs, Slots
<1>2. \A p \in Nat : StampAt(p) = 0 BY SlotFacts DEF Init, StampAt
<1>3. Window /\ ConnectFirst BY DEF Init, Window, ConnectFirst
<1>4. SentStamps /\ FreeStamps
  BY <1>2 DEF Init, SentStamps, FreeStamps, Positions
<1>5. Fillers /\ Copiers BY DEF Init, Fillers, Copiers, Filling, Copying
<1>6. SendersReady /\ ReceiversReady
  BY DEF Init, SendersReady, ReceiversReady
<1> QED BY <1>1, <1>3, <1>4, <1>5, <1>6 DEF IInv

\* A step of a sender that neither moves the head nor writes a stamp.
LEMMA SenderLooks ==
  ASSUME IInv, NEW s \in Senders, NEW pc \in Pcs, NEW pos \in Nat,
         pos <= head, inited = QUEUE_SIZE,
         pc = "reserve" /\ pos = head => StampAt(head) = head,
         ~Filling(s), Sender(s, pc, pos),
         UNCHANGED <<head, tail, slot, inited, rcv>>
  PROVE  IInv'
<1> USE QueueSizeIsAtLeastTwo, MaxPosIsNatural, IInvParts
<1>1. pos \in 0..MaxPos BY DEF TypeOK
<1>2. /\ snd' \in [Senders -> [pc : Pcs \cup {"fill", "publish"},
                               pos : 0..MaxPos, sent : Nat]]
      /\ snd'[s].pc = pc /\ snd'[s].pos = pos
      /\ \A t \in Senders : t # s => snd'[t] = snd[t]
  BY <1>1, SenderStep
<1>3. \A p : StampAt(p)' = StampAt(p) BY DEF StampAt
<1>4. TypeOK' BY <1>2 DEF TypeOK
<1>5. \A t \in Senders : Filling(t)' => t # s /\ Filling(t)
  BY <1>2 DEF Filling, Pcs
<1>6. Window' /\ ConnectFirst' BY DEF Window, ConnectFirst
<1>7. SentStamps' /\ FreeStamps' BY <1>3 DEF SentStamps, FreeStamps
<1>8. Fillers' BY <1>2, <1>3, <1>5 DEF Fillers
<1>9. Copiers' /\ ReceiversReady'
  BY <1>3 DEF Copiers, Copying, ReceiversReady
<1>10. SendersReady' BY <1>2, <1>3 DEF SendersReady
<1> QED BY <1>4, <1>6, <1>7, <1>8, <1>9, <1>10 DEF IInv

\* A receiver that only loads keeps the invariant.
LEMMA ReceiverLooks ==
  ASSUME IInv, NEW r \in Receivers, NEW pc \in Pcs, NEW pos \in Nat,
         pos <= tail,
         pc = "reserve" /\ pos = tail => StampAt(tail) = tail + 1,
         ~Copying(r), Receiver(r, pc, pos),
         UNCHANGED <<head, tail, slot, inited, snd>>
  PROVE  IInv'
<1> USE QueueSizeIsAtLeastTwo, MaxPosIsNatural, IInvParts
<1>1. pos \in 0..MaxPos BY DEF TypeOK
<1>2. /\ rcv' \in [Receivers -> [pc : Pcs \cup {"copy", "release"},
                                 pos : 0..MaxPos, msg : Messages \cup {NoMsg}]]
      /\ rcv'[r].pc = pc /\ rcv'[r].pos = pos
      /\ \A q \in Receivers : q # r => rcv'[q] = rcv[q]
  BY <1>1, ReceiverStep
<1>3. \A p : StampAt(p)' = StampAt(p) BY DEF StampAt
<1>4. TypeOK' BY <1>2 DEF TypeOK
<1>5. \A q \in Receivers : Copying(q)' => q # r /\ Copying(q)
  BY <1>2 DEF Copying, Pcs
<1>6. Window' /\ ConnectFirst' BY DEF Window, ConnectFirst
<1>7. SentStamps' /\ FreeStamps' BY <1>3 DEF SentStamps, FreeStamps
<1>8. Copiers' BY <1>2, <1>3, <1>5 DEF Copiers
<1>9. Fillers' /\ SendersReady'
  BY <1>3 DEF Fillers, Filling, SendersReady
<1>10. ReceiversReady' BY <1>2, <1>3 DEF ReceiversReady
<1> QED BY <1>4, <1>6, <1>7, <1>8, <1>9, <1>10 DEF IInv

\* A stamp that connect writes keeps the invariant.
LEMMA InitStampStep == ASSUME IInv, InitStamp PROVE IInv'
<1> USE QueueSizeIsAtLeastTwo, MaxPosIsNatural, IInvParts
<1>1. inited \in Slots /\ inited \in Nat BY DEF InitStamp, TypeOK, Slots
<1>2. Slot(inited) = inited BY <1>1, SlotFacts
<1>3. SetStamp(inited, inited) BY <1>2 DEF InitStamp, SetStamp
<1>4. /\ slot' \in [Slots -> [stamp : Nat, msg : Messages \cup {NoMsg}]]
      /\ \A p \in Nat : StampAt(p)' =
           IF Slot(p) = Slot(inited) THEN inited ELSE StampAt(p)
  BY <1>1, <1>3, StampSet
<1>5. head = 0 /\ tail = 0 /\ \A s \in Senders : snd[s].pc = "idle"
  BY DEF InitStamp, ConnectFirst, Window, TypeOK
<1>6. /\ inited' \in 0..QUEUE_SIZE
      /\ head' = 0 /\ tail' = 0 /\ snd' = snd /\ rcv' = rcv
  BY <1>1, <1>5 DEF InitStamp, Slots
<1>7. TypeOK' BY <1>4, <1>6, <1>5 DEF TypeOK
<1>8. Window' /\ ConnectFirst' BY <1>5, <1>6 DEF Window, ConnectFirst
<1>9. SentStamps' BY <1>6 DEF SentStamps, Positions
<1>10. FreeStamps'
  <2> SUFFICES ASSUME NEW p \in Positions, p < QUEUE_SIZE PROVE StampAt(p)' <= p
    BY <1>6 DEF FreeStamps
  <2>1. p \in Slots /\ p \in Nat BY DEF Positions, Slots
  <2>2. Slot(p) = p BY <2>1, SlotFacts
  <2>3. StampAt(p) <= p BY <1>5, <2>1 DEF FreeStamps
  <2> QED BY <1>2, <1>4, <2>1, <2>2, <2>3
<1>11. \A s \in Senders : ~Filling(s)' BY <1>5, <1>6 DEF Filling
<1>12. \A r \in Receivers : ~Copying(r)
  BY <1>5 DEF Copiers, TypeOK
<1>13. \A r \in Receivers : ~Copying(r)' BY <1>6, <1>12 DEF Copying
<1>14. Fillers' /\ Copiers' BY <1>11, <1>13 DEF Fillers, Copiers
<1>15. SendersReady' BY <1>5, <1>6 DEF SendersReady
<1>16. ReceiversReady'
  <2>1. StampAt(0) <= 0 BY <1>5 DEF FreeStamps, Positions
  <2>2. StampAt(0) \in Nat BY StampType
  <2> QED BY <1>5, <1>6, <2>1, <2>2 DEF ReceiversReady
<1> QED BY <1>7, <1>8, <1>9, <1>10, <1>14, <1>15, <1>16 DEF IInv

\* A sender that is past "idle" found a connected channel.
LEMMA Connected ==
  ASSUME IInv, NEW s \in Senders, snd[s].pc # "idle"
  PROVE  inited = QUEUE_SIZE
<1>1. inited \in 0..QUEUE_SIZE /\ ConnectFirst BY IInvParts DEF TypeOK
<1> QED BY <1>1, QueueSizeIsAtLeastTwo DEF ConnectFirst

\* The loads of send, and a compare-exchange that fails, keep the invariant.
LEMMA SendLooksStep ==
  ASSUME IInv, NEW s \in Senders,
         \/ SendLoadHead(s) \/ SendLoadStamp(s) \/ SendReload(s)
         \/ SendReserve(s) /\ UNCHANGED head
  PROVE  IInv'
<1> USE QueueSizeIsAtLeastTwo, MaxPosIsNatural
<1>1. /\ head \in Nat /\ snd[s].pos \in Nat /\ snd[s].pos <= head
      /\ StampAt(snd[s].pos) \in Nat
  BY StampType, IInvParts DEF TypeOK, SendersReady
<1>2. CASE SendLoadHead(s)
  BY <1>1, <1>2, SenderLooks DEF SendLoadHead, Pcs, Filling
<1>3. CASE SendLoadStamp(s)
  <2> DEFINE pc == SendCompare(StampAt(snd[s].pos), snd[s].pos)
  <2>1. pc \in Pcs /\ (pc = "reserve" => StampAt(snd[s].pos) = snd[s].pos)
    BY <1>1 DEF SendCompare, Pcs
  <2>2. inited = QUEUE_SIZE BY <1>3, Connected DEF SendLoadStamp
  <2>3. /\ Sender(s, pc, snd[s].pos) /\ ~Filling(s)
        /\ UNCHANGED <<head, tail, slot, inited, rcv>>
    BY <1>3 DEF SendLoadStamp, Filling
  <2> HIDE DEF pc
  <2> QED BY <1>1, <2>1, <2>2, <2>3, SenderLooks
<1>4. CASE SendReload(s)
  BY <1>1, <1>4, Connected, SenderLooks DEF SendReload, Pcs, Filling
<1>5. CASE SendReserve(s) /\ UNCHANGED head
  <2>1. /\ snd[s].pc = "reserve" /\ Sender(s, "stamp", head)
        /\ UNCHANGED <<head, tail, slot, inited, rcv>>
    BY <1>1, <1>5 DEF SendReserve
  <2>2. inited = QUEUE_SIZE BY <2>1, Connected
  <2> QED BY <1>1, <2>1, <2>2, SenderLooks DEF Pcs, Filling
<1> QED BY <1>2, <1>3, <1>4, <1>5

\* The loads of recv, and a compare-exchange that fails, keep the invariant.
LEMMA RecvLooksStep ==
  ASSUME IInv, NEW r \in Receivers,
         \/ RecvLoadTail(r) \/ RecvLoadStamp(r) \/ RecvReload(r)
         \/ RecvReserve(r) /\ UNCHANGED tail
  PROVE  IInv'
<1> USE QueueSizeIsAtLeastTwo, MaxPosIsNatural
<1>1. /\ tail \in Nat /\ rcv[r].pos \in Nat /\ rcv[r].pos <= tail
      /\ StampAt(rcv[r].pos) \in Nat
  BY StampType, IInvParts DEF TypeOK, ReceiversReady
<1>2. CASE RecvLoadTail(r)
  BY <1>1, <1>2, ReceiverLooks DEF RecvLoadTail, Pcs, Copying
<1>3. CASE RecvLoadStamp(r)
  <2> DEFINE pc == RecvCompare(StampAt(rcv[r].pos), rcv[r].pos)
  <2>1. pc \in Pcs /\ (pc = "reserve" => StampAt(rcv[r].pos) = rcv[r].pos + 1)
    BY <1>1 DEF RecvCompare, Pcs
  <2>2. /\ Receiver(r, pc, rcv[r].pos) /\ ~Copying(r)
        /\ UNCHANGED <<head, tail, slot, inited, snd>>
    BY <1>3 DEF RecvLoadStamp, Copying
  <2> HIDE DEF pc
  <2> QED BY <1>1, <2>1, <2>2, ReceiverLooks
<1>4. CASE RecvReload(r)
  BY <1>1, <1>4, ReceiverLooks DEF RecvReload, Pcs, Copying
<1>5. CASE RecvReserve(r) /\ UNCHANGED tail
  <2>1. /\ rcv[r].pc = "reserve" /\ Receiver(r, "stamp", tail)
        /\ UNCHANGED <<head, tail, slot, inited, snd>>
    BY <1>1, <1>5 DEF RecvReserve
  <2> QED BY <1>1, <2>1, ReceiverLooks DEF Pcs, Copying
<1> QED BY <1>2, <1>3, <1>4, <1>5

\* A successful compare_exchange of the head: the slot was released.
LEMMA SendReserveStep ==
  ASSUME IInv, NEW s \in Senders, SendReserve(s), head' # head
  PROVE  IInv'
<1> USE QueueSizeIsAtLeastTwo, MaxPosIsNatural, IInvParts
<1>1. /\ snd[s].pc = "reserve" /\ snd[s].pos = head /\ head < MaxPos
      /\ head' = head + 1 /\ Sender(s, "fill", head)
      /\ UNCHANGED <<tail, slot, inited, rcv>>
  BY DEF SendReserve, SendCanReserve
<1>2. /\ head \in Nat /\ tail \in Nat /\ head \in 0..MaxPos /\ head <= MaxPos
      /\ \A p \in Nat : StampAt(p) \in Nat
  BY StampType DEF TypeOK
<1>3. StampAt(head) = head BY <1>1 DEF SendersReady
<1>4. /\ snd' \in [Senders -> [pc : Pcs \cup {"fill", "publish"},
                               pos : 0..MaxPos, sent : Nat]]
      /\ snd'[s].pc = "fill" /\ snd'[s].pos = head
      /\ \A t \in Senders : t # s => snd'[t] = snd[t]
  BY ZenonT(90), <1>1, <1>2, SenderStep
<1>5. \A p : StampAt(p)' = StampAt(p) BY <1>1 DEF StampAt
<1>6. head < tail + QUEUE_SIZE
  <2> SUFFICES ASSUME head = tail + QUEUE_SIZE PROVE FALSE
    BY <1>2 DEF Window
  <2>1. StampAt(head) = StampAt(tail) BY <1>2, SlotFacts DEF StampAt
  <2>2. StampAt(tail) = tail + 1 \/ StampAt(tail) = tail
    BY <1>2 DEF SentStamps, Positions
  <2> QED BY <1>2, <1>3, <2>1, <2>2
<1>7. TypeOK' BY <1>1, <1>2, <1>4 DEF TypeOK
<1>8. inited = QUEUE_SIZE BY <1>1, Connected
<1>9. Window' /\ ConnectFirst'
  BY <1>1, <1>2, <1>6, <1>8 DEF Window, ConnectFirst
<1>10. SentStamps'
  <2> SUFFICES ASSUME NEW p \in Positions, tail <= p, p < head + 1
               PROVE  StampAt(p) = p + 1 \/ StampAt(p) = p
    BY <1>1, <1>5 DEF SentStamps
  <2>1. p < head \/ p = head BY <1>2 DEF Positions
  <2> QED BY <1>3, <2>1 DEF SentStamps
<1>11. FreeStamps'
  <2> SUFFICES ASSUME NEW p \in Positions, head + 1 <= p, p < tail + QUEUE_SIZE
               PROVE  StampAt(p) <= p
    BY <1>1, <1>5 DEF FreeStamps
  <2>1. head <= p BY <1>2 DEF Positions
  <2> QED BY <2>1 DEF FreeStamps
<1>12. Fillers'
  <2>1. \A t \in Senders : t # s /\ Filling(t)' =>
          /\ Filling(t) /\ snd'[t].pos = snd[t].pos
          /\ tail <= snd[t].pos /\ snd[t].pos < head /\ snd[t].pos \in Nat
          /\ StampAt(snd[t].pos) = snd[t].pos
    BY <1>4 DEF Filling, Fillers, TypeOK
  <2>2. ASSUME NEW t \in Senders, Filling(t)'
        PROVE  /\ tail' <= snd'[t].pos /\ snd'[t].pos < head'
               /\ (StampAt(snd[t].pos) = snd[t].pos)'
    <3>1. CASE t = s
      <4>1. snd'[t].pos = head /\ tail <= head /\ head < head + 1
        BY <3>1, <1>2, <1>4 DEF Window
      <4> QED BY <4>1, <1>1, <1>3 DEF StampAt
    <3>2. CASE t # s
      <4>1. /\ snd'[t].pos = snd[t].pos /\ tail <= snd[t].pos
            /\ snd[t].pos < head + 1 /\ StampAt(snd[t].pos) = snd[t].pos
        BY <3>2, <2>1, <2>2, <1>2
      <4> QED BY <4>1, <1>1 DEF StampAt
    <3> QED BY <3>1, <3>2
  <2>3. ASSUME NEW t \in Senders, NEW u \in Senders, t # u, Filling(t)', Filling(u)'
        PROVE  snd'[t].pos # snd'[u].pos
    <3>1. CASE t # s /\ u # s BY <3>1, <2>1, <2>3 DEF Fillers
    <3>2. CASE t = s BY <3>2, <2>1, <2>3, <1>2, <1>4
    <3>3. CASE u = s BY <3>3, <2>1, <2>3, <1>2, <1>4
    <3> QED BY <3>1, <3>2, <3>3
  <2>4. (\A t \in Senders : Filling(t) =>
           /\ tail <= snd[t].pos /\ snd[t].pos < head
           /\ StampAt(snd[t].pos) = snd[t].pos)'
    BY <2>2
  <2> QED BY <2>3, <2>4 DEF Fillers
<1>13. Copiers'
  <2>1. ASSUME NEW r \in Receivers, Copying(r)
        PROVE  head + 1 <= rcv[r].pos + QUEUE_SIZE
    <3>1. /\ rcv[r].pos \in Nat /\ head <= rcv[r].pos + QUEUE_SIZE
          /\ StampAt(rcv[r].pos) = rcv[r].pos + 1
      BY <2>1 DEF Copiers, TypeOK
    <3>2. SUFFICES ASSUME head = rcv[r].pos + QUEUE_SIZE PROVE FALSE
      BY <1>2, <3>1
    <3>3. StampAt(head) = StampAt(rcv[r].pos)
      BY <3>1, <3>2, SlotFacts DEF StampAt
    <3> QED BY <1>2, <1>3, <3>1, <3>2, <3>3
  <2> QED BY <1>1, <1>5, <2>1 DEF Copiers, Copying
<1>14. SendersReady'
  <2> SUFFICES ASSUME NEW t \in Senders
               PROVE /\ snd'[t].pos <= head'
                     /\ snd'[t].pc = "reserve" => snd'[t].pos # head'
    BY DEF SendersReady
  <2>1. snd[t].pos <= head /\ snd[t].pos \in Nat BY DEF SendersReady, TypeOK
  <2> QED BY <1>1, <1>2, <1>4, <2>1
<1>15. ReceiversReady' BY <1>1, <1>5 DEF ReceiversReady
<1> QED BY <1>7, <1>9, <1>10, <1>11, <1>12, <1>13, <1>14, <1>15 DEF IInv

\* The copy of the message into the slot keeps the invariant.
LEMMA SendFillStep ==
  ASSUME IInv, NEW s \in Senders, SendFill(s) PROVE IInv'
<1> USE QueueSizeIsAtLeastTwo, MaxPosIsNatural, IInvParts
<1> DEFINE i == Slot(snd[s].pos)
<1>1. snd[s].pos \in 0..MaxPos /\ snd[s].pos \in Nat /\ snd[s].sent \in Nat
  BY DEF TypeOK
<1>2. i \in Slots BY <1>1, SlotFacts
<1>3. /\ snd' \in [Senders -> [pc : Pcs \cup {"fill", "publish"},
                               pos : 0..MaxPos, sent : Nat]]
      /\ snd'[s].pc = "publish" /\ snd'[s].pos = snd[s].pos
      /\ \A t \in Senders : t # s => snd'[t] = snd[t]
  BY <1>1, SenderStep DEF SendFill
<1>4. Msg(s, snd[s].sent) \in Messages BY <1>1 DEF Msg, Messages
<1> DEFINE new == [slot[i] EXCEPT !.msg = Msg(s, snd[s].sent)]
<1>5. slot[i] \in [stamp : Nat, msg : Messages \cup {NoMsg}]
  BY <1>2 DEF TypeOK
<1>6. new \in [stamp : Nat, msg : Messages \cup {NoMsg}]
      /\ new.stamp = slot[i].stamp
  BY <1>4, <1>5
<1>7. slot' = [slot EXCEPT ![i] = new] BY DEF SendFill
<1> HIDE DEF i, new
<1>8. slot' \in [Slots -> [stamp : Nat, msg : Messages \cup {NoMsg}]]
  BY <1>2, <1>6, <1>7 DEF TypeOK
<1>9. \A p \in Nat : StampAt(p)' = StampAt(p)
  BY <1>2, <1>6, <1>7, SlotFacts DEF StampAt, TypeOK
<1>10. /\ snd[s].pc = "fill" /\ UNCHANGED <<head, tail, inited, rcv>>
       /\ head \in Nat /\ tail \in Nat
  BY DEF SendFill, TypeOK
<1>11. TypeOK' BY <1>3, <1>8, <1>10 DEF TypeOK
<1>12. inited = QUEUE_SIZE BY <1>10, Connected
<1>13. Window' /\ ConnectFirst' BY <1>10, <1>12 DEF Window, ConnectFirst
<1>14. SentStamps' /\ FreeStamps'
  BY <1>9, <1>10 DEF SentStamps, FreeStamps, Positions
<1>15. \A t \in Senders : /\ snd'[t].pos = snd[t].pos /\ snd[t].pos \in Nat
                          /\ Filling(t)' <=> Filling(t)
                          /\ snd'[t].pc = "reserve" => snd[t].pc = "reserve"
  BY <1>3, <1>10 DEF Filling, TypeOK
<1>16. Fillers' BY <1>9, <1>10, <1>15 DEF Fillers
<1>17. SendersReady' BY <1>9, <1>10, <1>15 DEF SendersReady
<1>18. Copiers' /\ ReceiversReady'
  BY <1>9, <1>10 DEF Copiers, Copying, ReceiversReady, TypeOK
<1> QED BY <1>11, <1>13, <1>14, <1>16, <1>17, <1>18 DEF IInv

\* The store of the stamp that publishes a message keeps the invariant.
LEMMA SendPublishStep ==
  ASSUME IInv, NEW s \in Senders, SendPublish(s) PROVE IInv'
<1> USE QueueSizeIsAtLeastTwo, MaxPosIsNatural, IInvParts
<1> DEFINE w == snd[s].pos
<1>1. /\ w \in Nat /\ w \in 0..MaxPos /\ snd[s].sent \in Nat
      /\ head \in Nat /\ tail \in Nat /\ \A p \in Nat : StampAt(p) \in Nat
  BY StampType DEF TypeOK
<1>2. /\ snd[s].pc = "publish" /\ UNCHANGED <<head, tail, inited, rcv>>
      /\ SetStamp(w, w + 1)
  BY DEF SendPublish, PublishedStamp
<1>3. /\ slot' \in [Slots -> [stamp : Nat, msg : Messages \cup {NoMsg}]]
      /\ \A p \in Nat :
           StampAt(p)' = IF Slot(p) = Slot(w) THEN w + 1 ELSE StampAt(p)
  BY <1>1, <1>2, StampSet
<1>4. tail <= w /\ w < head /\ StampAt(w) = w BY <1>2 DEF Fillers, Filling
<1>5. \A p \in Nat : Slot(p) = Slot(w) =>
        p = w \/ p >= w + QUEUE_SIZE \/ w >= p + QUEUE_SIZE
  BY ZenonT(90), <1>1, SlotFacts
<1>6. head <= tail + QUEUE_SIZE /\ tail <= head BY DEF Window
<1> DEFINE new == [snd[s] EXCEPT !.pc = "idle", !.sent = snd[s].sent + 1]
<1>7. snd[s] \in [pc : Pcs \cup {"fill", "publish"}, pos : 0..MaxPos, sent : Nat]
  BY DEF TypeOK
<1>8. /\ new \in [pc : Pcs \cup {"fill", "publish"}, pos : 0..MaxPos, sent : Nat]
      /\ new.pc = "idle" /\ new.pos = w
  <2>1. snd[s].sent + 1 \in Nat /\ "idle" \in Pcs BY <1>1 DEF Pcs
  <2> QED BY ZenonT(90), <2>1, <1>7
<1>9. snd' = [snd EXCEPT ![s] = new] BY DEF SendPublish, PublishedStamp
<1> HIDE DEF w, new
<1>10. snd' \in [Senders -> [pc : Pcs \cup {"fill", "publish"},
                            pos : 0..MaxPos, sent : Nat]]
  BY <1>8, <1>9 DEF TypeOK
<1>11. \A t \in Senders : /\ snd'[t].pos = snd[t].pos /\ snd[t].pos \in Nat
                          /\ Filling(t)' => Filling(t) /\ t # s
                          /\ snd'[t].pc = "reserve" => snd[t].pc = "reserve"
  BY <1>8, <1>9 DEF Filling, TypeOK, w
<1>12. TypeOK' BY <1>2, <1>3, <1>10 DEF TypeOK
<1>13. inited = QUEUE_SIZE BY <1>2, Connected
<1>14. Window' /\ ConnectFirst' BY <1>2, <1>13 DEF Window, ConnectFirst
<1>15. SentStamps'
  <2> SUFFICES ASSUME NEW p \in Positions, tail <= p, p < head
               PROVE  StampAt(p)' = p + 1 \/ StampAt(p)' = p
    BY <1>2 DEF SentStamps
  <2>1. p \in Nat BY DEF Positions
  <2>2. Slot(p) = Slot(w) => p = w BY <2>1, <1>1, <1>4, <1>5, <1>6
  <2> QED BY <2>1, <2>2, <1>3 DEF SentStamps
<1>16. FreeStamps'
  <2> SUFFICES ASSUME NEW p \in Positions, head <= p, p < tail + QUEUE_SIZE
               PROVE  StampAt(p)' <= p
    BY <1>2 DEF FreeStamps
  <2>1. p \in Nat BY DEF Positions
  <2>2. Slot(p) # Slot(w) BY <2>1, <1>1, <1>4, <1>5, <1>6
  <2> QED BY <2>1, <2>2, <1>3 DEF FreeStamps
<1>17. Fillers'
  <2>1. ASSUME NEW t \in Senders, Filling(t)' PROVE Slot(snd[t].pos) # Slot(w)
    <3>1. /\ tail <= snd[t].pos /\ snd[t].pos < head /\ snd[t].pos # w
          /\ snd[t].pos \in Nat
      BY <2>1, <1>2, <1>11 DEF Fillers, Filling, w
    <3> QED BY <3>1, <1>1, <1>4, <1>5, <1>6
  <2> QED BY <2>1, <1>2, <1>3, <1>11 DEF Fillers
<1>18. Copiers'
  <2>1. ASSUME NEW r \in Receivers, Copying(r)
        PROVE  rcv[r].pos \in Nat /\ Slot(rcv[r].pos) # Slot(w)
    <3>1. /\ rcv[r].pos < tail /\ head <= rcv[r].pos + QUEUE_SIZE
          /\ rcv[r].pos \in Nat
      BY <2>1 DEF Copiers, TypeOK
    <3> QED BY <3>1, <1>1, <1>4, <1>5, <1>6
  <2> QED BY <2>1, <1>2, <1>3 DEF Copiers, Copying
<1>19. SendersReady'
  <2>1. StampAt(head) = head => StampAt(head)' = head
    <3>0. StampAt(head)' = IF Slot(head) = Slot(w) THEN w + 1 ELSE StampAt(head)
      BY <1>1, <1>2, <1>3
    <3> SUFFICES ASSUME StampAt(head) = head, Slot(head) = Slot(w) PROVE FALSE
      BY <3>0
    <3>1. StampAt(head) = StampAt(w) BY DEF StampAt
    <3> QED BY <3>1, <1>1, <1>4
  <2> QED BY <2>1, <1>2, <1>11 DEF SendersReady
<1>20. ReceiversReady'
  <2>1. StampAt(tail) = tail + 1 => StampAt(tail)' = tail + 1
    <3>0. StampAt(tail)' = IF Slot(tail) = Slot(w) THEN w + 1 ELSE StampAt(tail)
      BY <1>1, <1>2, <1>3
    <3> SUFFICES ASSUME StampAt(tail) = tail + 1, Slot(tail) = Slot(w) PROVE FALSE
      BY <3>0
    <3>1. StampAt(tail) = StampAt(w) BY DEF StampAt
    <3>2. tail = w BY <1>1, <1>4, <1>5, <1>6
    <3> QED BY <3>1, <3>2, <1>1, <1>4
  <2> QED BY <2>1, <1>2 DEF ReceiversReady
<1> QED BY <1>12, <1>14, <1>15, <1>16, <1>17, <1>18, <1>19, <1>20 DEF IInv

\* A successful compare_exchange of the tail: the slot was published.
LEMMA RecvReserveStep ==
  ASSUME IInv, NEW r \in Receivers, RecvReserve(r), tail' # tail
  PROVE  IInv'
<1> USE QueueSizeIsAtLeastTwo, MaxPosIsNatural, IInvParts
<1>1. /\ rcv[r].pc = "reserve" /\ rcv[r].pos = tail
      /\ tail' = tail + 1 /\ Receiver(r, "copy", tail)
      /\ UNCHANGED <<head, slot, inited, snd>>
  BY DEF RecvReserve
<1>2. /\ head \in Nat /\ tail \in Nat /\ tail \in 0..MaxPos /\ head <= MaxPos
      /\ \A p \in Nat : StampAt(p) \in Nat
      /\ tail <= head /\ head <= tail + QUEUE_SIZE
  BY StampType DEF TypeOK, Window
<1>3. StampAt(tail) = tail + 1 BY <1>1 DEF ReceiversReady
<1>4. /\ rcv' \in [Receivers -> [pc : Pcs \cup {"copy", "release"},
                                 pos : 0..MaxPos, msg : Messages \cup {NoMsg}]]
      /\ rcv'[r].pc = "copy" /\ rcv'[r].pos = tail
      /\ \A q \in Receivers : q # r => rcv'[q] = rcv[q]
  BY ZenonT(90), <1>1, <1>2, ReceiverStep
<1>5. \A p : StampAt(p) = slot'[Slot(p)].stamp BY <1>1 DEF StampAt
<1>6. tail < head
  <2> SUFFICES ASSUME tail = head PROVE FALSE BY <1>2
  <2>1. StampAt(tail) <= tail BY <1>2 DEF FreeStamps, Positions
  <2> QED BY <1>2, <1>3, <2>1
<1>7. TypeOK' BY <1>1, <1>2, <1>4, <1>6 DEF TypeOK
<1>8. Window' /\ ConnectFirst'
  BY <1>1, <1>2, <1>6 DEF Window, ConnectFirst
<1>9. SentStamps'
  <2> SUFFICES ASSUME NEW p \in Positions, tail + 1 <= p, p < head
               PROVE  StampAt(p) = p + 1 \/ StampAt(p) = p
    BY <1>1, <1>5 DEF SentStamps, StampAt
  <2>1. tail <= p BY <1>2 DEF Positions
  <2> QED BY <2>1 DEF SentStamps
<1>10. FreeStamps'
  <2> SUFFICES ASSUME NEW p \in Positions, head <= p, p < tail + 1 + QUEUE_SIZE
               PROVE  StampAt(p) <= p
    BY <1>1, <1>5 DEF FreeStamps, StampAt
  <2>1. CASE p < tail + QUEUE_SIZE BY <2>1 DEF FreeStamps
  <2>2. CASE p = tail + QUEUE_SIZE
    <3>1. StampAt(p) = StampAt(tail) BY <1>2, <2>2, SlotFacts DEF StampAt
    <3> QED BY <1>2, <1>3, <2>2, <3>1
  <2> QED BY <1>2, <2>1, <2>2 DEF Positions
<1>11. Fillers'
  <2>1. ASSUME NEW s \in Senders, Filling(s) PROVE tail + 1 <= snd[s].pos
    <3>1. /\ tail <= snd[s].pos /\ StampAt(snd[s].pos) = snd[s].pos
          /\ snd[s].pos \in Nat
      BY <2>1 DEF Fillers, TypeOK
    <3>2. snd[s].pos # tail BY <1>2, <1>3, <3>1
    <3> QED BY <1>2, <3>1, <3>2
  <2> QED BY <1>1, <1>5, <2>1 DEF Fillers, Filling, StampAt
<1>12. Copiers'
  <2>1. \A q \in Receivers : q # r /\ Copying(q)' =>
          /\ Copying(q) /\ rcv'[q].pos = rcv[q].pos
          /\ rcv[q].pos < tail /\ head <= rcv[q].pos + QUEUE_SIZE
          /\ rcv[q].pos \in Nat
          /\ StampAt(rcv[q].pos) = rcv[q].pos + 1
    BY <1>4 DEF Copying, Copiers, TypeOK
  <2>2. ASSUME NEW q \in Receivers, Copying(q)'
        PROVE  /\ rcv'[q].pos < tail' /\ head' <= rcv'[q].pos + QUEUE_SIZE
               /\ (StampAt(rcv[q].pos) = rcv[q].pos + 1)'
    <3>1. CASE q = r
      <4>1. rcv'[q].pos = tail /\ tail < tail + 1 BY <3>1, <1>2, <1>4
      <4> QED BY <4>1, <1>1, <1>2, <1>3 DEF StampAt
    <3>2. CASE q # r
      <4>1. /\ rcv'[q].pos = rcv[q].pos /\ rcv[q].pos < tail + 1
            /\ head <= rcv[q].pos + QUEUE_SIZE
            /\ StampAt(rcv[q].pos) = rcv[q].pos + 1
        BY <3>2, <2>1, <2>2, <1>2
      <4> QED BY <4>1, <1>1 DEF StampAt
    <3> QED BY <3>1, <3>2
  <2>3. ASSUME NEW q \in Receivers, NEW u \in Receivers, q # u,
               Copying(q)', Copying(u)'
        PROVE  rcv'[q].pos # rcv'[u].pos
    <3>1. CASE q # r /\ u # r BY <3>1, <2>1, <2>3 DEF Copiers
    <3>2. CASE q = r BY <3>2, <2>1, <2>3, <1>2, <1>4
    <3>3. CASE u = r BY <3>3, <2>1, <2>3, <1>2, <1>4
    <3> QED BY <3>1, <3>2, <3>3
  <2>4. (\A q \in Receivers : Copying(q) =>
           /\ rcv[q].pos < tail /\ head <= rcv[q].pos + QUEUE_SIZE
           /\ StampAt(rcv[q].pos) = rcv[q].pos + 1)'
    BY <2>2
  <2> QED BY <2>3, <2>4 DEF Copiers
<1>13. SendersReady' BY <1>1, <1>5 DEF SendersReady, StampAt
<1>14. ReceiversReady'
  <2> SUFFICES ASSUME NEW q \in Receivers
               PROVE /\ rcv'[q].pos <= tail'
                     /\ rcv'[q].pc = "reserve" => rcv'[q].pos # tail'
    BY DEF ReceiversReady
  <2>1. rcv[q].pos <= tail /\ rcv[q].pos \in Nat BY DEF ReceiversReady, TypeOK
  <2> QED BY <1>1, <1>2, <1>4, <2>1
<1> QED BY <1>7, <1>8, <1>9, <1>10, <1>11, <1>12, <1>13, <1>14 DEF IInv

\* The copy of the message out of the slot keeps the invariant.
LEMMA RecvCopyStep ==
  ASSUME IInv, NEW r \in Receivers, RecvCopy(r) PROVE IInv'
<1> USE QueueSizeIsAtLeastTwo, MaxPosIsNatural, IInvParts
<1>1. /\ rcv[r].pc = "copy" /\ UNCHANGED <<head, tail, slot, inited, snd>>
  BY DEF RecvCopy
<1>2. slot[Slot(rcv[r].pos)].msg \in Messages \cup {NoMsg}
  <2>1. Slot(rcv[r].pos) \in Slots BY SlotFacts DEF TypeOK
  <2> QED BY <2>1 DEF TypeOK
<1> DEFINE new == [rcv[r] EXCEPT !.pc = "release",
                                 !.msg = slot[Slot(rcv[r].pos)].msg]
<1>3. rcv[r] \in [pc : Pcs \cup {"copy", "release"}, pos : 0..MaxPos,
                  msg : Messages \cup {NoMsg}]
  BY DEF TypeOK
<1>4. /\ new \in [pc : Pcs \cup {"copy", "release"}, pos : 0..MaxPos,
                  msg : Messages \cup {NoMsg}]
      /\ new.pc = "release" /\ new.pos = rcv[r].pos
  BY ZenonT(90), <1>2, <1>3
<1>5. rcv' = [rcv EXCEPT ![r] = new] BY DEF RecvCopy
<1> HIDE DEF new
<1>6. TypeOK' BY <1>1, <1>4, <1>5 DEF TypeOK
<1>7. \A q \in Receivers : /\ rcv'[q].pos = rcv[q].pos
                           /\ Copying(q)' <=> Copying(q)
                           /\ rcv'[q].pc = "reserve" => rcv[q].pc = "reserve"
  BY <1>1, <1>4, <1>5 DEF Copying, TypeOK
<1>8. /\ Window' /\ ConnectFirst' /\ SentStamps' /\ FreeStamps' /\ Fillers'
      /\ SendersReady'
  BY <1>1 DEF Window, ConnectFirst, SentStamps, FreeStamps, Fillers, Filling,
              SendersReady, StampAt
<1>9. Copiers' BY <1>1, <1>7 DEF Copiers, StampAt
<1>10. ReceiversReady' BY <1>1, <1>7 DEF ReceiversReady, StampAt
<1> QED BY <1>6, <1>8, <1>9, <1>10 DEF IInv

\* The store of the stamp that releases a slot keeps the invariant.
LEMMA RecvReleaseStep ==
  ASSUME IInv, NEW r \in Receivers, RecvRelease(r) PROVE IInv'
<1> USE QueueSizeIsAtLeastTwo, MaxPosIsNatural, IInvParts
<1> DEFINE w == rcv[r].pos
<1>1. /\ w \in Nat /\ w \in 0..MaxPos /\ w + QUEUE_SIZE \in Nat
      /\ head \in Nat /\ tail \in Nat /\ \A p \in Nat : StampAt(p) \in Nat
  BY StampType DEF TypeOK
<1>2. /\ rcv[r].pc = "release" /\ UNCHANGED <<head, tail, inited, snd>>
      /\ SetStamp(w, w + QUEUE_SIZE)
  BY DEF RecvRelease, NextStamp
<1>3. /\ slot' \in [Slots -> [stamp : Nat, msg : Messages \cup {NoMsg}]]
      /\ \A p \in Nat : StampAt(p)' =
           IF Slot(p) = Slot(w) THEN w + QUEUE_SIZE ELSE StampAt(p)
  BY <1>1, <1>2, StampSet
<1>4. w < tail /\ head <= w + QUEUE_SIZE /\ StampAt(w) = w + 1
  BY <1>2 DEF Copiers, Copying
<1>5. \A p \in Nat : Slot(p) = Slot(w) =>
        p = w \/ p >= w + QUEUE_SIZE \/ w >= p + QUEUE_SIZE
  BY ZenonT(90), <1>1, SlotFacts
<1>6. head <= tail + QUEUE_SIZE /\ tail <= head BY DEF Window
<1> DEFINE new == [rcv[r] EXCEPT !.pc = "idle", !.msg = NoMsg]
<1>7. rcv[r] \in [pc : Pcs \cup {"copy", "release"}, pos : 0..MaxPos,
                  msg : Messages \cup {NoMsg}]
  BY DEF TypeOK
<1>8. /\ new \in [pc : Pcs \cup {"copy", "release"}, pos : 0..MaxPos,
                  msg : Messages \cup {NoMsg}]
      /\ new.pc = "idle" /\ new.pos = w
  <2>1. "idle" \in Pcs BY DEF Pcs
  <2> QED BY ZenonT(90), <1>7, <2>1
<1>9. rcv' = [rcv EXCEPT ![r] = new] BY DEF RecvRelease
<1> HIDE DEF w, new
<1>10. rcv' \in [Receivers -> [pc : Pcs \cup {"copy", "release"},
                              pos : 0..MaxPos, msg : Messages \cup {NoMsg}]]
  BY <1>8, <1>9 DEF TypeOK
<1>11. \A q \in Receivers : /\ rcv'[q].pos = rcv[q].pos /\ rcv[q].pos \in Nat
                            /\ Copying(q)' => Copying(q) /\ q # r
                            /\ rcv'[q].pc = "reserve" => rcv[q].pc = "reserve"
  BY <1>8, <1>9 DEF Copying, TypeOK, w
<1>12. TypeOK' BY <1>2, <1>3, <1>10 DEF TypeOK
<1>13. Window' /\ ConnectFirst' BY <1>2 DEF Window, ConnectFirst
<1>14. SentStamps'
  <2> SUFFICES ASSUME NEW p \in Positions, tail <= p, p < head
               PROVE  StampAt(p)' = p + 1 \/ StampAt(p)' = p
    BY <1>2 DEF SentStamps
  <2>1. p \in Nat BY DEF Positions
  <2>2. Slot(p) # Slot(w) BY <2>1, <1>1, <1>4, <1>5, <1>6
  <2> QED BY <2>1, <2>2, <1>3 DEF SentStamps
<1>15. FreeStamps'
  <2> SUFFICES ASSUME NEW p \in Positions, head <= p, p < tail + QUEUE_SIZE
               PROVE  StampAt(p)' <= p
    BY <1>2 DEF FreeStamps
  <2>1. p \in Nat BY DEF Positions
  <2>2. Slot(p) = Slot(w) => w + QUEUE_SIZE <= p
    BY <2>1, <1>1, <1>4, <1>5, <1>6
  <2> QED BY <2>1, <2>2, <1>3 DEF FreeStamps
<1>16. Fillers'
  <2>1. ASSUME NEW s \in Senders, Filling(s)
        PROVE  snd[s].pos \in Nat /\ Slot(snd[s].pos) # Slot(w)
    <3>1. tail <= snd[s].pos /\ snd[s].pos < head /\ snd[s].pos \in Nat
      BY <2>1 DEF Fillers, TypeOK
    <3> QED BY <3>1, <1>1, <1>4, <1>5, <1>6
  <2> QED BY <2>1, <1>2, <1>3 DEF Fillers, Filling
<1>17. Copiers'
  <2>1. ASSUME NEW q \in Receivers, Copying(q)' PROVE Slot(rcv[q].pos) # Slot(w)
    <3>1. /\ rcv[q].pos < tail /\ head <= rcv[q].pos + QUEUE_SIZE
          /\ rcv[q].pos # w /\ rcv[q].pos \in Nat
      BY <2>1, <1>2, <1>11 DEF Copiers, Copying, w
    <3> QED BY <3>1, <1>1, <1>4, <1>5, <1>6
  <2> QED BY <2>1, <1>2, <1>3, <1>11 DEF Copiers
<1>18. SendersReady'
  <2>1. StampAt(head) = head => StampAt(head)' = head
    <3>0. StampAt(head)' =
            IF Slot(head) = Slot(w) THEN w + QUEUE_SIZE ELSE StampAt(head)
      BY <1>1, <1>2, <1>3
    <3> SUFFICES ASSUME StampAt(head) = head, Slot(head) = Slot(w) PROVE FALSE
      BY <3>0
    <3>1. StampAt(head) = StampAt(w) BY DEF StampAt
    <3>2. head = w + QUEUE_SIZE BY <1>1, <1>4, <1>5, <1>6
    <3>3. head = w + 1 BY <3>1, <1>4
    <3>4. w \in Nat BY <1>1
    <3> QED BY ONLY <3>2, <3>3, <3>4, QueueSizeIsAtLeastTwo
  <2> QED BY <2>1, <1>2 DEF SendersReady
<1>19. ReceiversReady'
  <2>1. StampAt(tail) = tail + 1 => StampAt(tail)' = tail + 1
    <3>0. StampAt(tail)' =
            IF Slot(tail) = Slot(w) THEN w + QUEUE_SIZE ELSE StampAt(tail)
      BY <1>1, <1>2, <1>3
    <3> SUFFICES ASSUME StampAt(tail) = tail + 1, Slot(tail) = Slot(w)
                 PROVE FALSE
      BY <3>0
    <3>1. StampAt(tail) = StampAt(w) BY DEF StampAt
    <3> QED BY <3>1, <1>1, <1>4
  <2> QED BY <2>1, <1>2, <1>11 DEF ReceiversReady
<1> QED BY <1>12, <1>13, <1>14, <1>15, <1>16, <1>17, <1>18, <1>19 DEF IInv

----------------------------------------------------------------------------
(* Theorems *)

\* Every step keeps the invariant.
LEMMA NextIInv == IInv /\ [Next]_vars => IInv'
<1> SUFFICES ASSUME IInv, [Next]_vars PROVE IInv' OBVIOUS
<1>1. CASE InitStamp BY <1>1, InitStampStep
<1>2. ASSUME NEW s \in Senders, SendStep(s) PROVE IInv'
  <2>1. CASE SendLoadHead(s) \/ SendLoadStamp(s) \/ SendReload(s)
    BY <2>1, SendLooksStep
  <2>2. CASE SendReserve(s)
    <3>1. CASE head' = head BY <2>2, <3>1, SendLooksStep
    <3>2. CASE head' # head BY <2>2, <3>2, SendReserveStep
    <3> QED BY <3>1, <3>2
  <2>3. CASE SendFill(s) BY <2>3, SendFillStep
  <2>4. CASE SendPublish(s) BY <2>4, SendPublishStep
  <2> QED BY <1>2, <2>1, <2>2, <2>3, <2>4 DEF SendStep
<1>3. ASSUME NEW r \in Receivers, RecvStep(r) PROVE IInv'
  <2>1. CASE RecvLoadTail(r) \/ RecvLoadStamp(r) \/ RecvReload(r)
    BY <2>1, RecvLooksStep
  <2>2. CASE RecvReserve(r)
    <3>1. CASE tail' = tail BY <2>2, <3>1, RecvLooksStep
    <3>2. CASE tail' # tail BY <2>2, <3>2, RecvReserveStep
    <3> QED BY <3>1, <3>2
  <2>3. CASE RecvCopy(r) BY <2>3, RecvCopyStep
  <2>4. CASE RecvRelease(r) BY <2>4, RecvReleaseStep
  <2> QED BY <1>3, <2>1, <2>2, <2>3, <2>4 DEF RecvStep
<1>4. CASE UNCHANGED vars
  BY <1>4 DEF vars, IInv, TypeOK, Window, ConnectFirst, SentStamps, FreeStamps,
              Fillers, Copiers, SendersReady, ReceiversReady, Filling, Copying,
              StampAt
<1> QED BY <1>1, <1>2, <1>3, <1>4 DEF Next

\* The invariant holds in every reachable state.
LEMMA Inductive == Spec => []IInv
<1>1. IInv /\ [Next]_vars => IInv' BY NextIInv
<1> QED BY InitIInv, <1>1, PTL DEF Spec

\* The fields of the channel keep their types: in particular no recv moves the
\* tail beyond what was sent.
THEOREM QueueTypeCorrect == Spec => []TypeOK
<1>1. IInv => TypeOK BY DEF IInv
<1> QED BY Inductive, <1>1, PTL

\* send and recv of io_channel.rs: between its compare_exchange and its store of
\* the stamp, a thread has its slot for itself.
THEOREM SlotsAreExclusive == Spec => []SlotIsExclusive
<1>1. IInv => SlotIsExclusive BY InvExclusive
<1> QED BY Inductive, <1>1, PTL

\* send and recv of io_channel.rs together: the ring, with its stamps and its
\* racing compare_exchanges, is a bounded first-in first-out queue.  A message is
\* in the queue from the moment its sender moves the head, is taken by exactly
\* one receiver, and is not touched before that receiver has copied it.
THEOREM RingIsFifo == Spec => IsFifo
<1>1. Init => IInv /\ MInv BY InitIInv, InitMInv
<1>2. IInv /\ MInv /\ [Next]_vars => IInv' /\ MInv' /\ [Fifo!Next]_(Fifo!vars)
  BY NextIInv, NextRefines
<1>3. Spec => [](IInv /\ MInv) BY <1>1, <1>2, PTL DEF Spec
<1> QED BY <1>2, <1>3, InitRefines, PTL DEF Spec, IsFifo, Fifo!Spec
============================================================================
