----------------------------- MODULE MCWaitWake -----------------------------
(***************************************************************************)
(* WaitWake for TLC, in parts: a behaviour is one of a single part.        *)
(***************************************************************************)
EXTENDS WaitWake, TLC

VARIABLE part

\* What the actions of each part leave alone.
NoIrq == \A i \in Irqs : act'[i].pc = "idle"
NoWaker == \A w \in Wakers : act'[w].pc = "idle"
WaitsOn(S) == \A t \in Threads : thr'[t].handles \subseteq S
WaitsFor(T) == \A t \in Threads : thr'[t].timeout \in T

-----------------------------------------------------------------------------
(* Safety: objects that threads wake, timeouts and direct wakes, or objects  *)
(* that interrupt handlers wake.                                            *)

SafeInit == Init /\ part \in {"calls", "interrupts"}

SafeNext ==
  /\ Next /\ UNCHANGED part
  /\ part = "calls" =>
       /\ NoIrq /\ WaitsOn(Objects \ IrqObjects)
       /\ \A t \in Threads, o \in Objects :
            thr'[t].wakes_queued + obj'[o].wake_counter <= 2
  /\ part = "interrupts" =>
       /\ NoWaker /\ WaitsOn(IrqObjects) /\ WaitsFor({"none"})
       /\ \E o \in IrqObjects : obj'[o].wake_counter <= 1

SafeSpec == SafeInit /\ [][SafeNext]_<<vars, part>>

\* Threads, CPUs, wakers, interrupt contexts and their objects are alike.
Symmetry ==
  Permutations(Threads) \cup Permutations(Cpus) \cup Permutations(Wakers)
    \cup Permutations(Irqs) \cup Permutations(IrqObjects)

-----------------------------------------------------------------------------
(* Liveness: timers and direct wakes; objects that threads wake, once, and a  *)
(* timer; or objects that interrupt handlers wake.  Only Environment's steps *)
(* are left out, which no fairness is about.                                *)

LiveInit == Init /\ part \in {"timers", "objects", "interrupts"}

LiveNext ==
  /\ Next /\ UNCHANGED part
  /\ part = "timers" => NoIrq /\ WaitsOn({}) /\ \A w \in Wakers : act'[w].obj = Nil
  /\ part = "objects" =>
       /\ NoIrq /\ WaitsOn(Objects \ IrqObjects)
       /\ \A t \in Threads :
            /\ thr'[t].wakes_queued = 0
            /\ upc[t] = "user" /\ next_timer = 2 => thr'[t].timeout = "none"
       /\ \A w \in Wakers : act[w].pc = "idle" /\ act'[w].pc = "trylock"
            => obj[act'[w].obj].wake_counter = 0
  /\ part = "interrupts" => NoWaker /\ WaitsOn(IrqObjects) /\ WaitsFor({"none"})

LiveSpec == LiveInit /\ [][LiveNext]_<<vars, part>> /\ Fairness
=============================================================================
