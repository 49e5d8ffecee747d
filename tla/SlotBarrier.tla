----------------------------- MODULE SlotBarrier -----------------------------
(***************************************************************************)
(* What the time slots of src/timer.c promise to their devices, the CPU    *)
(* threads and the loader: a slot ends when every device has arrived at    *)
(* its end or has left for good, and never before.  The locks, the         *)
(* condition variables and the order in which the timer visits the devices *)
(* are not visible here; SlotTimer implements this specification.          *)
(***************************************************************************)
EXTENDS Naturals

CONSTANT Dev

VARIABLES slot,     \* the number of slots that have ended
          arrived,  \* the devices that are done with the current slot
          left      \* the devices that have detached

vars == <<slot, arrived, left>>

Init == slot = 0 /\ arrived = {} /\ left = {}

Arrive(d) ==
  /\ d \notin arrived \cup left
  /\ arrived' = arrived \cup {d}
  /\ UNCHANGED <<slot, left>>

Leave(d) ==
  /\ d \notin arrived \cup left
  /\ left' = left \cup {d}
  /\ UNCHANGED <<slot, arrived>>

Tick ==
  /\ Dev = arrived \cup left
  /\ slot' = slot + 1
  /\ arrived' = {}
  /\ UNCHANGED left

Next == Tick \/ \E d \in Dev : Arrive(d) \/ Leave(d)

Spec == Init /\ [][Next]_vars
=============================================================================
