------------------------------ MODULE SlotTimer ------------------------------
(***************************************************************************)
(* The time slots of src/timer.c: the timer thread, next_slot and          *)
(* detach_event of its devices, and stop_timer.  A critical section of a   *)
(* device's event_lock or timer_lock is one action; pthread_cond_wait puts *)
(* its thread to sleep at the end of one and lets it test its condition    *)
(* again in another.  A sleeping thread is woken by the signal of its      *)
(* condition variable, or spuriously, as POSIX allows.                     *)
(***************************************************************************)
EXTENDS Integers, Sequences, Functions

CONSTANTS Dev,       \* the devices attach_event was called for
          dev_list,  \* in the order of the list the timer walks
          MaxSlots   \* bound: devices detach once MaxSlots slots have ended

ASSUME TimerAssumption ==
  /\ dev_list \in Seq(Dev)
  /\ IsInjective(dev_list)
  /\ Dev = {dev_list[k] : k \in 1 .. Len(dev_list)}
  /\ MaxSlots \in Nat

VARIABLES done, fsh,     \* the two flags of each device
          time,          \* _time
          timerPc,       \* "collect" and "release", the two loops over
                         \*   dev_list, and "exited"
          temp,          \* the position of the loop in dev_list
          fshCount,      \* fsh, the local counter of timer_routine
          timerAsleep,   \* the timer sleeps on event_cond of dev_list[temp]
          pc,            \* of a device: "working", "waiting" in next_slot,
                         \*   "detached"
          asleep,        \* the devices that sleep on their timer_cond
          slots,         \* how often next_slot has returned to each device
          mainPc         \* of main: "join" its threads, "stop" the timer,
                         \*   "freed" dev_list

flags == <<done, fsh>>
timer == <<timerPc, temp, fshCount>>
vars == <<flags, time, timer, timerAsleep, pc, asleep, slots, mainPc>>

N == Len(dev_list)

Init ==
  /\ done = [d \in Dev |-> FALSE]
  /\ fsh = [d \in Dev |-> FALSE]
  /\ time = 0
  /\ timerPc = "collect"
  /\ temp = 1
  /\ fshCount = 0
  /\ timerAsleep = FALSE
  /\ pc = [d \in Dev |-> "working"]
  /\ asleep = {}
  /\ slots = [d \in Dev |-> 0]
  /\ mainPc = "join"

-----------------------------------------------------------------------------
(* The devices *)

NoSignal(d) == UNCHANGED timerAsleep \* mutant: nobody wakes the timer

\* pthread_cond_signal(&timer_id->event_cond) of device d.
SignalEvent(d) ==
  timerAsleep' = (timerAsleep /\ ~ (timerPc = "collect" /\ dev_list[temp] = d))

\* The first critical section of next_slot.
NextSlot(d) ==
  /\ pc[d] = "working"
  /\ time < MaxSlots
  /\ done' = [done EXCEPT ![d] = TRUE]
  /\ SignalEvent(d)
  /\ pc' = [pc EXCEPT ![d] = "waiting"]
  /\ UNCHANGED <<fsh, time, timer, asleep, slots, mainPc>>

\* mutant: the flag is not tested again under the lock
SleepUnchecked(d) ==
  /\ pc[d] = "waiting" /\ d \notin asleep
  /\ asleep' = asleep \cup {d}
  /\ UNCHANGED <<flags, time, timer, timerAsleep, pc, slots, mainPc>>

\* The second one: sleep while done is set.
Sleep(d) ==
  /\ pc[d] = "waiting" /\ d \notin asleep
  /\ done[d]
  /\ asleep' = asleep \cup {d}
  /\ UNCHANGED <<flags, time, timer, timerAsleep, pc, slots, mainPc>>

\* mutant: if instead of while around pthread_cond_wait
ReturnUnchecked(d) ==
  /\ pc[d] = "waiting" /\ d \notin asleep
  /\ pc' = [pc EXCEPT ![d] = "working"]
  /\ slots' = [slots EXCEPT ![d] = @ + 1]
  /\ UNCHANGED <<flags, time, timer, timerAsleep, asleep, mainPc>>

Return(d) ==
  /\ pc[d] = "waiting" /\ d \notin asleep
  /\ ~ done[d]
  /\ pc' = [pc EXCEPT ![d] = "working"]
  /\ slots' = [slots EXCEPT ![d] = @ + 1]
  /\ UNCHANGED <<flags, time, timer, timerAsleep, asleep, mainPc>>

\* mutant: the device leaves without setting fsh
LeaveSilently(d) ==
  /\ pc[d] = "working"
  /\ SignalEvent(d)
  /\ pc' = [pc EXCEPT ![d] = "detached"]
  /\ UNCHANGED <<flags, time, timer, asleep, slots, mainPc>>

detach_event(d) ==
  /\ pc[d] = "working"
  /\ fsh' = [fsh EXCEPT ![d] = TRUE]
  /\ SignalEvent(d)
  /\ pc' = [pc EXCEPT ![d] = "detached"]
  /\ UNCHANGED <<done, time, timer, asleep, slots, mainPc>>

-----------------------------------------------------------------------------
(* timer_routine *)

TimerSleep ==
  /\ timerPc = "collect" /\ temp <= N /\ ~ timerAsleep
  /\ ~ done[dev_list[temp]] /\ ~ fsh[dev_list[temp]]
  /\ timerAsleep' = TRUE
  /\ UNCHANGED <<flags, time, timer, pc, asleep, slots, mainPc>>

\* mutant: the timer does not wait for the devices
CollectAll ==
  /\ timerPc = "collect" /\ temp <= N /\ ~ timerAsleep
  /\ fshCount' = IF fsh[dev_list[temp]] THEN fshCount + 1 ELSE fshCount
  /\ temp' = temp + 1
  /\ UNCHANGED <<flags, time, timerPc, timerAsleep, pc, asleep, slots, mainPc>>

Collect ==
  /\ timerPc = "collect" /\ temp <= N /\ ~ timerAsleep
  /\ done[dev_list[temp]] \/ fsh[dev_list[temp]]
  /\ fshCount' = IF fsh[dev_list[temp]] THEN fshCount + 1 ELSE fshCount
  /\ temp' = temp + 1
  /\ UNCHANGED <<flags, time, timerPc, timerAsleep, pc, asleep, slots, mainPc>>

Tick ==
  /\ timerPc = "collect" /\ temp > N
  /\ time' = time + 1
  /\ timerPc' = "release"
  /\ temp' = 1
  /\ UNCHANGED <<flags, fshCount, timerAsleep, pc, asleep, slots, mainPc>>

Release ==
  /\ timerPc = "release" /\ temp <= N
  /\ done' = [done EXCEPT ![dev_list[temp]] = FALSE]
  /\ asleep' = asleep \ {dev_list[temp]}
  /\ temp' = temp + 1
  /\ UNCHANGED <<fsh, time, timerPc, fshCount, timerAsleep, pc, slots, mainPc>>

\* mutant: fsh is not local to the loop
KeepCount ==
  /\ timerPc = "release" /\ temp > N
  /\ timerPc' = IF fshCount = N \/ mainPc = "stop" THEN "exited" ELSE "collect"
  /\ temp' = 1
  /\ UNCHANGED <<flags, fshCount, time, timerAsleep, pc, asleep, slots, mainPc>>

\* The tests after the second loop: every device has finished, or timer_stop.
Again ==
  /\ timerPc = "release" /\ temp > N
  /\ timerPc' = IF fshCount = N \/ mainPc = "stop" THEN "exited" ELSE "collect"
  /\ temp' = 1
  /\ fshCount' = 0
  /\ UNCHANGED <<flags, time, timerAsleep, pc, asleep, slots, mainPc>>

-----------------------------------------------------------------------------
(* main, and spurious wakeups *)

\* main has joined its threads: the first line of stop_timer.
SetStop ==
  /\ mainPc = "join"
  /\ \A d \in Dev : pc[d] = "detached"
  /\ mainPc' = "stop"
  /\ UNCHANGED <<flags, time, timer, timerAsleep, pc, asleep, slots>>

\* pthread_join(_timer), and the devices are freed.
FreeDevices ==
  /\ mainPc = "stop"
  /\ timerPc = "exited"
  /\ mainPc' = "freed"
  /\ UNCHANGED <<flags, time, timer, timerAsleep, pc, asleep, slots>>

SpuriousWakeup ==
  /\ \/ /\ timerAsleep
        /\ timerAsleep' = FALSE
        /\ UNCHANGED asleep
     \/ \E d \in asleep :
          /\ asleep' = asleep \ {d}
          /\ UNCHANGED timerAsleep
  /\ UNCHANGED <<flags, time, timer, pc, slots, mainPc>>

Terminated == mainPc = "freed" /\ UNCHANGED vars

TimerStep == TimerSleep \/ Collect \/ Tick \/ Release \/ Again
DeviceStep(d) == NextSlot(d) \/ Sleep(d) \/ Return(d) \/ detach_event(d)
MainStep == SetStop \/ FreeDevices

Next ==
  \/ TimerStep
  \/ \E d \in Dev : DeviceStep(d)
  \/ MainStep
  \/ SpuriousWakeup
  \/ Terminated

Spec == Init /\ [][Next]_vars

\* The threads run, and a device reaches the end of each of its slots: a CPU
\* executes one instruction, the loader loads one file.  Nothing is assumed
\* of spurious wakeups.
Fairness ==
  /\ WF_vars(TimerStep)
  /\ \A d \in Dev : WF_vars(DeviceStep(d))
  /\ WF_vars(MainStep)

FairSpec == Spec /\ Fairness

-----------------------------------------------------------------------------
(* Properties *)

TypeOK ==
  /\ done \in [Dev -> BOOLEAN]
  /\ fsh \in [Dev -> BOOLEAN]
  /\ time \in Nat
  /\ timerPc \in {"collect", "release", "exited"}
  /\ temp \in 1 .. (N + 1)
  /\ fshCount \in 0 .. N
  /\ timerAsleep \in BOOLEAN
  /\ pc \in [Dev -> {"working", "waiting", "detached"}]
  /\ asleep \in SUBSET Dev
  /\ slots \in [Dev -> Nat]
  /\ mainPc \in {"join", "stop", "freed"}

\* The second loop has yet to clear the done flag of d: d still belongs to
\* the slot that has ended.
Pending(d) == timerPc = "release" /\ \E k \in temp .. N : dev_list[k] = d

\* A device works in the current slot, never in an earlier or a later one,
\* and one that waits in next_slot is at most one slot behind: no device
\* executes two slots while the clock shows one, or skips a slot.
InStep ==
  \A d \in Dev :
    /\ pc[d] = "working" => slots[d] = time
    /\ pc[d] = "waiting" =>
         slots[d] = IF done[d] /\ ~ Pending(d) THEN time ELSE time - 1

\* No signal is lost: when the timer sleeps on a device's event_cond, the
\* device has yet to set done or fsh, and when a device sleeps on timer_cond,
\* the timer has yet to clear its done.
NoLostWakeup ==
  /\ timerAsleep =>
       /\ timerPc = "collect" /\ temp <= N
       /\ ~ done[dev_list[temp]] /\ ~ fsh[dev_list[temp]]
  /\ \A d \in asleep : pc[d] = "waiting" /\ done[d]

\* The timer's locks, flags and loops implement a barrier.
SB == INSTANCE SlotBarrier
        WITH slot <- time,
             arrived <- {d \in Dev : done[d] /\ ~ Pending(d)},
             left <- {d \in Dev : fsh[d]}
IsBarrier == SB!Spec

\* A call of next_slot returns, however the wakeups are scheduled.
NextSlotReturns == \A d \in Dev : pc[d] = "waiting" ~> pc[d] = "working"

\* Once all devices have detached, the timer exits and stop_timer returns.
StopReturns == (\A d \in Dev : pc[d] = "detached") ~> mainPc = "freed"
=============================================================================
