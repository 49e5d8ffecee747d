------------------------------- MODULE Kernel -------------------------------
(***************************************************************************)
(* The running system of src/os.c: the CPU threads (cpu_routine), the      *)
(* loader (ld_routine) and the timer, composed from the scheduler (Mlq),   *)
(* the turns within a slot (CpuOrder) and the slots (SlotBarrier, which    *)
(* SlotTimer implements).  A process is the number of instructions it has  *)
(* left to run: what the instructions do to memory is modelled elsewhere.  *)
(***************************************************************************)
EXTENDS Integers, Sequences, FiniteSets, CpuOrder

CONSTANTS Proc, NULL, Pcb, MAX_PRIO, MAX_QUEUE_SIZE, prio,
          processes,   \* the processes in the order of the configuration file
          time_slot,   \* the length of a time slice, in slots
          Sizes,       \* bound: the program sizes to consider
          StartTimes   \* bound: the start times to consider.  The clock
                       \*   saturates at the latest one: it is only ever
                       \*   compared with start times.

ASSUME KernelAssumption ==
  /\ MAX_ACTIVE \in Nat /\ num_cpus \in 1 .. MAX_ACTIVE /\ time_slot \in Nat \ {0}
  /\ MAX_PRIO \in Nat \ {0} /\ MAX_QUEUE_SIZE \in Nat
  /\ prio \in [Proc -> 0 .. (MAX_PRIO - 1)] /\ NULL \notin Proc \cup Pcb
  /\ processes \in Seq(Proc) /\ IsInjective(processes)
  /\ Proc = {processes[k] : k \in DOMAIN processes}
  /\ Sizes \subseteq Nat
  /\ StartTimes \subseteq Nat /\ IsFiniteSet(StartTimes) /\ StartTimes # {}

VARIABLES mlq_ready_queue, running_list, curr_prio, curr_slot,
          held,        \* proc, the local variable of each cpu_routine
          pcb, unborn, finished,
          time, arrived, left,
          pc,          \* where each CPU is in cpu_routine
          time_left,   \* its local variable
          executed,    \* proc->pc of each process
          ldPc,        \* where the loader is in ld_routine
          ldNext,      \* i, its local variable, counted from 1
          done,        \* the flag the loader sets
          timerOn,     \* timer_routine has not ended
          start_time,  \* of each process, read from the configuration
          size         \* code->size: the number of its instructions

MaxTime == Max(StartTimes)

M == INSTANCE Mlq
B == INSTANCE SlotBarrier WITH Dev <- Cpu \cup {Loader}, slot <- time

sched == <<mlq_ready_queue, running_list, curr_prio, curr_slot,
           held, pcb, unborn, finished>>
order == <<turn, active>>
barrier == <<time, arrived, left, timerOn>>
cpus == <<pc, time_left, executed>>
loader == <<ldPc, ldNext, done>>
config == <<start_time, size>>
vars == <<sched, order, barrier, cpus, loader, config>>

Init ==
  /\ M!Init /\ B!Init /\ init_cpu_order
  /\ pc = [c \in Cpu |-> "turn"]
  /\ time_left = [c \in Cpu |-> 0]
  /\ executed = [p \in Proc |-> 0]
  /\ ldPc = "start" /\ ldNext = 1 /\ done = FALSE
  /\ timerOn = TRUE
  /\ start_time \in [Proc -> StartTimes]
  /\ size \in [Proc -> Sizes]

-----------------------------------------------------------------------------
(* cpu_routine *)

goto(c, l) == pc' = [pc EXCEPT ![c] = l]

\* next_slot, if called, has returned, and it is c's turn.
TakeTurn(c) ==
  /\ pc[c] = "turn" /\ c \notin arrived
  /\ wait_cpu_turn(c)
  /\ goto(c, IF held[c] = NULL THEN "get"
             ELSE IF executed[held[c]] = size[held[c]] THEN "finish"
             ELSE IF time_left[c] = 0 THEN "put"
             ELSE "run")
  /\ UNCHANGED <<sched, order, barrier, time_left, executed, loader, config>>

\* mutant: without time_left = 0
FinishKeepSlice(c) ==
  /\ pc[c] = "finish"
  /\ M!FinishProc(c)
  /\ goto(c, "getNext")
  /\ UNCHANGED <<order, barrier, time_left, executed, loader, config>>

\* The process has no instruction left: its PCB is freed.
Finish(c) ==
  /\ pc[c] = "finish"
  /\ M!FinishProc(c)
  /\ time_left' = [time_left EXCEPT ![c] = 0]
  /\ goto(c, "getNext")
  /\ UNCHANGED <<order, barrier, executed, loader, config>>

\* Its time slice is over.
Put(c) ==
  /\ pc[c] = "put"
  /\ M!PutProc(c)
  /\ goto(c, "getNext")
  /\ UNCHANGED <<order, barrier, time_left, executed, loader, config>>

\* mutant: a CPU without a process ends, whether or not done is set
GetIgnoringDone(c) ==
  /\ pc[c] \in {"get", "getNext"}
  /\ \/ M!GetProc(c) /\ goto(c, "run")
     \/ M!GetRetry(c) /\ UNCHANGED pc
     \/ M!GetNull(c) /\ goto(c, IF pc[c] = "getNext" THEN "stop" ELSE "idle")
  /\ UNCHANGED <<order, barrier, time_left, executed, loader, config>>

\* One attempt of get_proc.  A CPU that had no process at the start of its
\* turn and gets none skips the slot without looking at done.
Get(c) ==
  /\ pc[c] \in {"get", "getNext"}
  /\ \/ M!GetProc(c) /\ goto(c, "run")
     \/ M!GetRetry(c) /\ UNCHANGED pc
     \/ M!GetNull(c) /\ goto(c, IF pc[c] = "getNext" /\ done THEN "stop" ELSE "idle")
  /\ UNCHANGED <<order, barrier, time_left, executed, loader, config>>

\* A new time slice if the last one is used up, and run: one instruction.
Run(c) ==
  /\ pc[c] = "run"
  /\ time_left' = [time_left EXCEPT ![c] = (IF @ = 0 THEN time_slot ELSE @) - 1]
  /\ executed' = [executed EXCEPT ![held[c]] =
                    IF @ >= size[held[c]] THEN @ ELSE @ + 1]
  /\ goto(c, "idle")
  /\ UNCHANGED <<sched, order, barrier, loader, config>>

PassTurn(c) ==
  /\ pc[c] = "idle"
  /\ signal_next_cpu(c)
  /\ goto(c, "slot")
  /\ UNCHANGED <<sched, barrier, time_left, executed, loader, config>>

NextSlot(c) ==
  /\ pc[c] = "slot"
  /\ B!Arrive(c)
  /\ goto(c, "turn")
  /\ UNCHANGED <<sched, order, timerOn, time_left, executed, loader, config>>

\* No process and the loader is done: the thread ends.
Stop(c) ==
  /\ pc[c] = "stop"
  /\ mark_cpu_inactive(c)
  /\ goto(c, "leave")
  /\ UNCHANGED <<sched, barrier, time_left, executed, loader, config>>

LeaveOrder(c) ==
  /\ pc[c] = "leave"
  /\ signal_next_cpu(c)
  /\ goto(c, "detach")
  /\ UNCHANGED <<sched, barrier, time_left, executed, loader, config>>

Detach(c) ==
  /\ pc[c] = "detach"
  /\ B!Leave(c)
  /\ goto(c, "exited")
  /\ UNCHANGED <<sched, order, timerOn, time_left, executed, loader, config>>

CpuStep(c) ==
  \/ TakeTurn(c) \/ Finish(c) \/ Put(c) \/ Get(c) \/ Run(c)
  \/ PassTurn(c) \/ NextSlot(c)
  \/ Stop(c) \/ LeaveOrder(c) \/ Detach(c)

-----------------------------------------------------------------------------
(* ld_routine *)

\* The loader has waited for its turn, in the slot after next_slot if it
\* called it: before the first process, while a process is not due yet, and
\* after each process it has loaded.  Only the last keeps the turn.
LoaderTurn ==
  /\ ldPc \in {"start", "early", "loaded"} /\ Loader \notin arrived
  /\ wait_cpu_turn(Loader)
  /\ ldPc' = IF ldPc = "loaded" THEN "load" ELSE "pass"
  /\ UNCHANGED <<sched, order, barrier, cpus, ldNext, done, config>>

LoaderPass ==
  /\ ldPc = "pass"
  /\ signal_next_cpu(Loader)
  /\ ldPc' = "load"
  /\ UNCHANGED <<sched, barrier, cpus, ldNext, done, config>>

\* load: the PCB is allocated, before the process is due.
LoaderRead ==
  /\ ldPc = "load" /\ ldNext \in DOMAIN processes
  /\ M!load(processes[ldNext])
  /\ UNCHANGED <<order, barrier, cpus, loader, config>>

\* current_time() < start_time[i]
TooEarly ==
  /\ ldPc = "load" /\ ldNext \in DOMAIN processes
  /\ pcb[processes[ldNext]] # NULL
  /\ time < start_time[processes[ldNext]]
  /\ B!Arrive(Loader)
  /\ ldPc' = "early"
  /\ UNCHANGED <<sched, order, timerOn, cpus, ldNext, done, config>>

\* The PCB gets its memory map and is published to the CPUs.
LoadProc ==
  /\ ldPc = "load" /\ ldNext \in DOMAIN processes
  /\ time >= start_time[processes[ldNext]]
  /\ M!AddProc(processes[ldNext])
  /\ ldNext' = ldNext + 1
  /\ ldPc' = "added"
  /\ UNCHANGED <<order, barrier, cpus, done, config>>

LoaderSignal ==
  /\ ldPc = "added"
  /\ signal_next_cpu(Loader)
  /\ ldPc' = "slot"
  /\ UNCHANGED <<sched, barrier, cpus, ldNext, done, config>>

LoaderNextSlot ==
  /\ ldPc = "slot"
  /\ B!Arrive(Loader)
  /\ ldPc' = "loaded"
  /\ UNCHANGED <<sched, order, timerOn, cpus, ldNext, done, config>>

\* Every process is loaded: pass the turn, set done, and detach.
LoaderEnd ==
  /\ ldPc = "load" /\ ldNext \notin DOMAIN processes
  /\ signal_next_cpu(Loader)
  /\ ldPc' = "ending"
  /\ UNCHANGED <<sched, barrier, cpus, ldNext, done, config>>

LoaderDone ==
  /\ ldPc = "ending"
  /\ done' = TRUE
  /\ ldPc' = "detach"
  /\ UNCHANGED <<sched, order, barrier, cpus, ldNext, config>>

LoaderDetach ==
  /\ ldPc = "detach"
  /\ B!Leave(Loader)
  /\ ldPc' = "exited"
  /\ UNCHANGED <<sched, order, timerOn, cpus, ldNext, done, config>>

LoaderStep ==
  \/ LoaderTurn \/ LoaderPass \/ LoaderRead \/ TooEarly \/ LoadProc \/ LoaderSignal
  \/ LoaderNextSlot \/ LoaderEnd \/ LoaderDone \/ LoaderDetach

-----------------------------------------------------------------------------
(* timer_routine, between the two loops over the devices *)

\* mutant: the second loop does not clear the done flags
TickWithoutRelease ==
  /\ timerOn
  /\ Cpu \cup {Loader} = arrived \cup left
  /\ time' = IF time < MaxTime THEN time + 1 ELSE time
  /\ reset_cpu_order
  /\ timerOn' = (left # Cpu \cup {Loader})
  /\ UNCHANGED <<arrived, left, sched, cpus, loader, config>>

TimerTick ==
  /\ timerOn
  /\ Cpu \cup {Loader} = arrived \cup left
  /\ time' = IF time < MaxTime THEN time + 1 ELSE time
  /\ arrived' = {}
  /\ reset_cpu_order
  /\ timerOn' = (left # Cpu \cup {Loader})
  /\ UNCHANGED <<left, sched, cpus, loader, config>>

\* Every thread has ended: main returns.
Halted ==
  /\ \A c \in Cpu : pc[c] = "exited"
  /\ ldPc = "exited" /\ ~ timerOn

Next ==
  \/ \E c \in Cpu : CpuStep(c)
  \/ LoaderStep
  \/ TimerTick
  \/ Halted /\ UNCHANGED vars

Spec == Init /\ [][Next]_vars

\* Each thread runs whenever it can.
FairSpec ==
  /\ Spec
  /\ \A c \in Cpu : WF_vars(CpuStep(c))
  /\ WF_vars(LoaderStep)
  /\ WF_vars(TimerTick)

-----------------------------------------------------------------------------
(* Properties *)

TypeOK ==
  /\ M!TypeOK
  /\ turn \in Cpu \cup {Loader} /\ active \in SUBSET Cpu
  /\ time \in 0 .. MaxTime /\ timerOn \in BOOLEAN
  /\ arrived \in SUBSET (Cpu \cup {Loader}) /\ left \in SUBSET (Cpu \cup {Loader})
  /\ pc \in [Cpu -> {"turn", "finish", "put", "get", "getNext", "run", "idle",
                     "slot", "stop", "leave", "detach", "exited"}]
  /\ time_left \in [Cpu -> 0 .. (time_slot - 1)]
  /\ executed \in [Proc -> Nat]
  /\ ldPc \in {"start", "early", "loaded", "load", "pass", "added", "slot",
               "ending", "detach", "exited"}
  /\ ldNext \in 1 .. (Cardinality(Proc) + 1)
  /\ done \in BOOLEAN

\* The CPU is between wait_cpu_turn and signal_next_cpu: it may use the
\* scheduler, the PCBs and the memory of the processes.
InTurn(c) == pc[c] \in {"finish", "put", "get", "getNext", "run", "idle", "stop", "leave"}

\* The loader is at work on a PCB, the configuration or done, whether or not
\* it has the turn.
Loading == ldPc \in {"load", "added", "ending", "pass"}

\* Only one CPU at a time is in its turn, and none while the loader creates
\* and publishes a process, although the loader has passed the turn on to
\* the CPUs before it does so.
MutualExclusion ==
  /\ TypeOK
  /\ \A c \in Cpu : InTurn(c) =>
       /\ \A d \in Cpu \ {c} : ~ InTurn(d)
       /\ ~ Loading

\* The CPU has had its turn in the current slot.
HadTurn(c) == c \in arrived \/ pc[c] \in {"slot", "detach", "exited"}

\* In every slot the CPUs take one turn each, from the highest number down,
\* and the loader comes last.
TurnOrder ==
  /\ \A c \in Cpu : InTurn(c) => \A d \in Cpu : d > c => HadTurn(d)
  /\ \A c \in Cpu : InTurn(c) => \A d \in Cpu : d < c => ~ HadTurn(d) \/ pc[d] = "exited"
  /\ ldPc \in {"pass", "added"} => \A c \in Cpu : HadTurn(c)

\* A CPU's thread ends only when no process is left for it: all are loaded,
\* and each one is finished, on another CPU, or about to be taken back by the
\* CPU that put it into its queue.
StopsWhenDone ==
  \A c \in Cpu : pc[c] \in {"stop", "leave", "detach", "exited"} =>
    \A p \in Proc :
      \/ p \in finished
      \/ \E d \in Cpu \ {c} : held[d] = p \/ (pc[d] = "getNext" /\ M!Queued(p))

\* A CPU lets go of an unfinished process only at the end of its slice, and
\* a slice never outlives its process: whatever a CPU dispatches next starts
\* with a slice of its own, not with what its predecessor left.
FullSlice ==
  [][\A c \in Cpu :
       held'[c] # held[c] /\ held'[c] # NULL => time_left[c] = 0]_vars

\* Every process of the configuration is loaded and runs to its end.
AllFinish == <>(finished = Proc)

\* A CPU is never left waiting for its turn: a slot always ends.
SlotsEnd == \A c \in Cpu : c \in arrived ~> c \notin arrived

\* The comment at the exit of cpu_routine, "No process to run, exit": when
\* every process has run to its end, the system halts.
Halts == (finished = Proc) ~> Halted
=============================================================================
