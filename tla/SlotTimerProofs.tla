--------------------------- MODULE SlotTimerProofs ---------------------------
(* Theorems about SlotTimer, for every list of devices and every MaxSlots. *)
EXTENDS SlotTimer, TLAPS

\* The flags agree with what the devices do.
FlagsOK ==
  \A d \in Dev :
    /\ fsh[d] <=> pc[d] = "detached"
    /\ done[d] => pc[d] = "waiting"

\* The devices that the first loop has passed, and those that the second has
\* not reached, have reported.
Reported ==
  /\ timerPc = "collect" =>
       /\ fshCount < temp
       /\ \A k \in 1 .. (temp - 1) : done[dev_list[k]] \/ fsh[dev_list[k]]
  /\ timerPc = "release" =>
       \A k \in temp .. N : done[dev_list[k]] \/ fsh[dev_list[k]]

Inv == TypeOK /\ FlagsOK /\ Reported /\ NoLostWakeup /\ InStep

\* The list of devices: its positions and their names.
LEMMA ListFacts ==
  /\ N \in Nat
  /\ \A k \in 1 .. N : dev_list[k] \in Dev
  /\ \A k, l \in 1 .. N : dev_list[k] = dev_list[l] => k = l
  /\ \A d \in Dev : \E k \in 1 .. N : dev_list[k] = d
<1>1. N \in Nat /\ DOMAIN dev_list = 1 .. N /\ dev_list \in [1 .. N -> Dev]
  BY TimerAssumption DEF N
<1>2. \A k, l \in 1 .. N : dev_list[k] = dev_list[l] => k = l
  BY <1>1, TimerAssumption DEF IsInjective
<1>3. \A d \in Dev : \E k \in 1 .. N : dev_list[k] = d
  BY TimerAssumption DEF N
<1>4. QED
  BY <1>1, <1>2, <1>3

\* The invariant at the start.
LEMMA InitInv == Init => Inv
<1> SUFFICES ASSUME Init PROVE Inv
  OBVIOUS
<1> USE ListFacts DEF Init
<1>1. TypeOK
  <2>1. temp \in 1 .. (N + 1) /\ fshCount \in 0 .. N /\ time \in Nat
    OBVIOUS
  <2>2. slots \in [Dev -> Nat]
    OBVIOUS
  <2>3. QED
    BY <2>1, <2>2, Zenon DEF TypeOK
<1>2. FlagsOK /\ Reported /\ NoLostWakeup /\ InStep
  BY DEF FlagsOK, Reported, NoLostWakeup, InStep
<1>3. QED
  BY <1>1, <1>2 DEF Inv

\* What the timer does between two slots, and the steps of main, of the
\* spurious wakeups and of sleeping threads.
LEMMA TimerInv ==
  ASSUME Inv, TimerStep
  PROVE  Inv'
<1> USE ListFacts DEF timer, flags
<1>1. CASE TimerSleep
  BY <1>1 DEF TimerSleep, Inv, TypeOK, FlagsOK, Reported, NoLostWakeup, InStep, Pending
<1>2. CASE Collect
  <2>1. fshCount < temp /\ temp <= N
    BY <1>2 DEF Collect, Inv, Reported
  <2>2. TypeOK'
    BY <1>2, <2>1 DEF Collect, Inv, TypeOK
  <2>3. FlagsOK' /\ Reported'
    BY <1>2 DEF Collect, Inv, TypeOK, FlagsOK, Reported
  <2>4. NoLostWakeup' /\ InStep'
    BY <1>2 DEF Collect, Inv, TypeOK, NoLostWakeup, InStep, Pending
  <2>5. QED
    BY <2>2, <2>3, <2>4 DEF Inv
<1>3. CASE Tick
  <2>1. \A k \in 1 .. N : done[dev_list[k]] \/ fsh[dev_list[k]]
    BY <1>3 DEF Tick, Inv, TypeOK, Reported
  <2>2. \A d \in Dev : done[d] \/ fsh[d]
    BY <2>1
  <2>3. TypeOK' /\ FlagsOK' /\ Reported'
    BY <1>3, <2>1 DEF Tick, Inv, TypeOK, FlagsOK, Reported
  <2>4. NoLostWakeup'
    BY <1>3 DEF Tick, Inv, TypeOK, NoLostWakeup
  <2>5. InStep'
    BY <1>3, <2>2 DEF Tick, Inv, TypeOK, FlagsOK, InStep, Pending
  <2>6. QED
    BY <2>3, <2>4, <2>5 DEF Inv
<1>4. CASE Release
  <2>1. TypeOK' /\ FlagsOK' /\ Reported'
    BY <1>4 DEF Release, Inv, TypeOK, FlagsOK, Reported
  <2>2. NoLostWakeup'
    BY <1>4 DEF Release, Inv, TypeOK, NoLostWakeup
  <2>3. ASSUME NEW d \in Dev
        PROVE  (done[d] /\ ~ Pending(d))' <=> (done[d] /\ ~ Pending(d))
    BY <1>4 DEF Release, Inv, TypeOK, Pending
  <2>4. InStep'
    BY <1>4, <2>3 DEF Release, Inv, TypeOK, InStep
  <2>5. QED
    BY <2>1, <2>2, <2>4 DEF Inv
<1>5. CASE Again
  <2>1. TypeOK' /\ FlagsOK' /\ Reported'
    BY <1>5 DEF Again, Inv, TypeOK, FlagsOK, Reported
  <2>2. NoLostWakeup' /\ InStep'
    BY <1>5 DEF Again, Inv, TypeOK, NoLostWakeup, InStep, Pending
  <2>3. QED
    BY <2>1, <2>2 DEF Inv
<1>6. QED
  BY <1>1, <1>2, <1>3, <1>4, <1>5 DEF TimerStep

\* Every step of a device keeps it.
LEMMA DeviceInv ==
  ASSUME Inv, NEW d \in Dev, DeviceStep(d)
  PROVE  Inv'
<1> USE ListFacts DEF timer, flags
<1>1. CASE NextSlot(d)
  <2>1. TypeOK' /\ FlagsOK' /\ Reported'
    BY <1>1 DEF NextSlot, SignalEvent, Inv, TypeOK, FlagsOK, Reported
  <2>2. NoLostWakeup'
    BY <1>1 DEF NextSlot, SignalEvent, Inv, TypeOK, FlagsOK, NoLostWakeup
  <2>3. ~ Pending(d)
    BY <1>1 DEF NextSlot, Inv, TypeOK, FlagsOK, Reported, Pending
  <2>4. InStep'
    BY <1>1, <2>3 DEF NextSlot, Inv, TypeOK, InStep, Pending
  <2>5. QED
    BY <2>1, <2>2, <2>4 DEF Inv
<1>2. CASE Sleep(d)
  BY <1>2 DEF Sleep, Inv, TypeOK, FlagsOK, Reported, NoLostWakeup, InStep, Pending
<1>3. CASE Return(d)
  <2>1. TypeOK' /\ FlagsOK' /\ Reported'
    BY <1>3 DEF Return, Inv, TypeOK, FlagsOK, Reported
  <2>2. NoLostWakeup' /\ InStep'
    BY <1>3 DEF Return, Inv, TypeOK, FlagsOK, NoLostWakeup, InStep, Pending
  <2>3. QED
    BY <2>1, <2>2 DEF Inv
<1>4. CASE detach_event(d)
  <2>1. TypeOK' /\ FlagsOK' /\ Reported'
    BY <1>4 DEF detach_event, SignalEvent, Inv, TypeOK, FlagsOK, Reported
  <2>2. NoLostWakeup'
    BY <1>4 DEF detach_event, SignalEvent, Inv, TypeOK, FlagsOK, NoLostWakeup
  <2>3. InStep'
    BY <1>4 DEF detach_event, Inv, TypeOK, InStep, Pending
  <2>4. QED
    BY <2>1, <2>2, <2>3 DEF Inv
<1>5. QED
  BY <1>1, <1>2, <1>3, <1>4 DEF DeviceStep

\* So does every step.
LEMMA NextInv == Inv /\ [Next]_vars => Inv'
<1> SUFFICES ASSUME Inv, [Next]_vars PROVE Inv'
  OBVIOUS
<1>1. CASE TimerStep
  BY <1>1, TimerInv
<1>2. ASSUME NEW d \in Dev, DeviceStep(d) PROVE Inv'
  BY <1>2, DeviceInv
<1>3. CASE MainStep
  BY <1>3 DEF MainStep, SetStop, FreeDevices, timer, flags, Inv, TypeOK,
              FlagsOK, Reported, NoLostWakeup, InStep, Pending
<1>4. CASE SpuriousWakeup
  <2>1. UNCHANGED <<flags, time, timer, pc, slots, mainPc>>
    BY <1>4 DEF SpuriousWakeup
  <2>2. /\ timerAsleep' \in BOOLEAN /\ (timerAsleep' => timerAsleep)
        /\ asleep' \subseteq asleep
    <3>1. CASE timerAsleep' = FALSE /\ UNCHANGED asleep
      BY <3>1, Zenon
    <3>2. CASE (\E d \in asleep : asleep' = asleep \ {d}) /\ UNCHANGED timerAsleep
      BY <3>2, Zenon DEF Inv, TypeOK
    <3>3. QED
      BY <1>4, <3>1, <3>2, Zenon DEF SpuriousWakeup
  <2>3. TypeOK' /\ FlagsOK' /\ Reported'
    BY <2>1, <2>2 DEF timer, flags, Inv, TypeOK, FlagsOK, Reported
  <2>4. NoLostWakeup' /\ InStep'
    BY <2>1, <2>2 DEF timer, flags, Inv, NoLostWakeup, InStep, Pending
  <2>5. QED
    BY <2>3, <2>4 DEF Inv
<1>5. CASE UNCHANGED vars
  BY <1>5 DEF vars, timer, flags, Inv, TypeOK,
              FlagsOK, Reported, NoLostWakeup, InStep, Pending
<1>6. QED
  BY <1>1, <1>2, <1>3, <1>4, <1>5 DEF Next, Terminated

\* In every state, Inv holds.
LEMMA Invariance == Spec => []Inv
  BY InitInv, NextInv, PTL DEF Spec

\* The variables of timer.c keep their types.
THEOREM TypeCorrect == Spec => []TypeOK
<1>1. Inv => TypeOK
  BY DEF Inv
<1>2. QED
  BY <1>1, Invariance, PTL

\* For any number of devices in any order of dev_list, every device works in
\* the slot that the clock shows, once.
THEOREM LockStep == Spec => []InStep
<1>1. Inv => InStep
  BY DEF Inv
<1>2. QED
  BY <1>1, Invariance, PTL

\* No device and no timer sleeps on a signal that was already sent.
THEOREM WakeupsKept == Spec => []NoLostWakeup
<1>1. Inv => NoLostWakeup
  BY DEF Inv
<1>2. QED
  BY <1>1, Invariance, PTL

-----------------------------------------------------------------------------
(* Refinement of SlotBarrier *)

ArrivedSet == {d \in Dev : done[d] /\ ~ Pending(d)}
LeftSet == {d \in Dev : fsh[d]}

\* A step of the timer is one of the barrier, or none.
LEMMA TimerRefines ==
  ASSUME Inv, TimerStep
  PROVE  SB!Tick \/ UNCHANGED SB!vars
<1> USE ListFacts DEF timer, flags
<1>1. CASE TimerSleep \/ Collect \/ Again
  <2>1. UNCHANGED <<done, fsh, time>>
    BY <1>1 DEF TimerSleep, Collect, Again
  <2>2. \A d \in Dev : Pending(d)' <=> Pending(d)
    BY <1>1 DEF TimerSleep, Collect, Again, Pending, Inv, TypeOK
  <2>3. QED
    BY <2>1, <2>2 DEF SB!vars
<1>2. CASE Release
  <2>1. ASSUME NEW d \in Dev
        PROVE  (done[d] /\ ~ Pending(d))' <=> (done[d] /\ ~ Pending(d))
    BY <1>2 DEF Release, Inv, TypeOK, Pending
  <2>2. UNCHANGED <<fsh, time>>
    BY <1>2 DEF Release
  <2>3. QED
    BY <2>1, <2>2 DEF SB!vars
<1>3. CASE Tick
  <2>1. \A d \in Dev : (done[d] \/ fsh[d]) /\ ~ Pending(d)
    BY <1>3 DEF Tick, Inv, TypeOK, Reported, Pending
  <2>2. \A d \in Dev : Pending(d)'
    BY <1>3 DEF Tick, Inv, TypeOK, Pending
  <2>3. UNCHANGED <<done, fsh>> /\ time' = time + 1
    BY <1>3 DEF Tick
  <2>4. Dev = ArrivedSet \cup LeftSet
    BY <2>1 DEF ArrivedSet, LeftSet
  <2>5. ArrivedSet' = {}
    BY <2>2 DEF ArrivedSet
  <2>6. QED
    BY <2>3, <2>4, <2>5 DEF SB!Tick, ArrivedSet, LeftSet
<1>4. QED
  BY <1>1, <1>2, <1>3 DEF TimerStep

\* So is a step of a device.
LEMMA DeviceRefines ==
  ASSUME Inv, NEW d \in Dev, DeviceStep(d)
  PROVE  SB!Arrive(d) \/ SB!Leave(d) \/ UNCHANGED SB!vars
<1> USE ListFacts DEF timer, flags
<1>0. \A e \in Dev : Pending(e)' <=> Pending(e)
  BY DEF DeviceStep, NextSlot, Sleep, Return, detach_event, Pending
<1>1. CASE NextSlot(d)
  <2>1. ~ Pending(d) /\ ~ done[d] /\ ~ fsh[d]
    BY <1>1 DEF NextSlot, Inv, TypeOK, FlagsOK, Reported, Pending
  <2>2. \A e \in Dev : done'[e] <=> done[e] \/ e = d
    BY <1>1 DEF NextSlot, Inv, TypeOK
  <2>3. UNCHANGED <<fsh, time>>
    BY <1>1 DEF NextSlot
  <2>4. ArrivedSet' = ArrivedSet \cup {d} /\ d \notin ArrivedSet \cup LeftSet
    BY <1>0, <2>1, <2>2 DEF ArrivedSet, LeftSet
  <2>5. QED
    BY <2>3, <2>4 DEF SB!Arrive, ArrivedSet, LeftSet
<1>2. CASE detach_event(d)
  <2>1. ~ done[d] /\ ~ fsh[d]
    BY <1>2 DEF detach_event, Inv, TypeOK, FlagsOK
  <2>2. \A e \in Dev : fsh'[e] <=> fsh[e] \/ e = d
    BY <1>2 DEF detach_event, Inv, TypeOK
  <2>3. UNCHANGED <<done, time>>
    BY <1>2 DEF detach_event
  <2>4. LeftSet' = LeftSet \cup {d} /\ d \notin ArrivedSet \cup LeftSet
    BY <2>1, <2>2 DEF ArrivedSet, LeftSet
  <2>5. ArrivedSet' = ArrivedSet
    BY <1>0, <2>3 DEF ArrivedSet
  <2>6. QED
    BY <2>3, <2>4, <2>5 DEF SB!Leave, ArrivedSet, LeftSet
<1>3. CASE Sleep(d) \/ Return(d)
  <2>1. UNCHANGED <<done, fsh, time>>
    BY <1>3 DEF Sleep, Return
  <2>2. QED
    BY <1>0, <2>1 DEF SB!vars
<1>4. QED
  BY <1>1, <1>2, <1>3 DEF DeviceStep

\* So is every step.
LEMMA NextRefines == Inv /\ [Next]_vars => [SB!Next]_(SB!vars)
<1> SUFFICES ASSUME Inv, [Next]_vars PROVE [SB!Next]_(SB!vars)
  OBVIOUS
<1>1. CASE TimerStep
  BY <1>1, TimerRefines DEF SB!Next
<1>2. ASSUME NEW d \in Dev, DeviceStep(d) PROVE [SB!Next]_(SB!vars)
  BY <1>2, DeviceRefines DEF SB!Next
<1>3. CASE MainStep \/ SpuriousWakeup \/ UNCHANGED vars
  <2>1. UNCHANGED <<done, fsh, time, timerPc, temp>>
    BY <1>3 DEF MainStep, SetStop, FreeDevices, SpuriousWakeup, vars, timer, flags
  <2>2. QED
    BY <2>1 DEF SB!vars, Pending
<1>4. QED
  BY <1>1, <1>2, <1>3 DEF Next, Terminated

\* The flags, locks and condition variables of timer.c implement a barrier:
\* a slot ends only when every device is done with it, however the signals,
\* the spurious wakeups and the two loops of the timer interleave.
THEOREM ImplementsBarrier == Spec => IsBarrier
<1>1. Init => SB!Init
  <2>1. Init => ArrivedSet = {} /\ LeftSet = {} /\ time = 0
    BY DEF Init, ArrivedSet, LeftSet
  <2>2. QED
    BY <2>1 DEF SB!Init, ArrivedSet, LeftSet
<1>2. QED
  BY <1>1, Invariance, NextRefines, PTL DEF Spec, IsBarrier, SB!Spec
=============================================================================
