--------------------------------- MODULE Mlq ---------------------------------
(***************************************************************************)
(* The multi-level queue scheduler: src/sched.c on the queues of           *)
(* src/queue.c, built with MLQ_SCHED.  The callers are the CPU threads     *)
(* (get_proc, put_proc, and free of a finished PCB) and the loader (load   *)
(* and add_proc).  One critical section of queue_lock is one action;       *)
(* get_mlq_proc releases the lock between its attempts, so a call may take *)
(* several actions, between which other threads enter the scheduler.       *)
(*                                                                         *)
(* The queues hold pointers.  The ready queues only ever hold live PCBs,   *)
(* whose addresses differ, so the model writes the process for them.       *)
(* running_list also keeps pointers to freed PCBs, and malloc may return   *)
(* such an address again: there the model writes the address.              *)
(***************************************************************************)
EXTENDS Integers, FiniteSets, SequencesExt

CONSTANTS Cpu, Proc, NULL,
          Pcb,             \* the addresses malloc has for PCBs
          MAX_PRIO,        \* sched.h: 140
          MAX_QUEUE_SIZE,  \* queue.h: 50
          prio             \* proc->prio, set by the loader before add_proc

ASSUME MlqAssumption ==
  /\ MAX_PRIO \in Nat \ {0}
  /\ MAX_QUEUE_SIZE \in Nat
  /\ prio \in [Proc -> 0 .. (MAX_PRIO - 1)]
  /\ NULL \notin Proc \cup Pcb
  /\ IsFiniteSet(Proc)

VARIABLES mlq_ready_queue,  \* one FIFO per level
          running_list,
          curr_prio,        \* the static locals of get_mlq_proc: the level
          curr_slot,        \*   being served and the slots it has left
          held,             \* the local proc of each cpu_routine
          pcb,              \* the address of each PCB, NULL before load
          unborn,           \* the PCBs add_proc was not called for yet
          finished          \* the PCBs cpu_routine has freed

queues == <<mlq_ready_queue, running_list>>
vars == <<mlq_ready_queue, running_list, curr_prio, curr_slot,
          held, pcb, unborn, finished>>

Level == 0 .. (MAX_PRIO - 1)
slot(i) == MAX_PRIO - i

-----------------------------------------------------------------------------
(* queue.c *)

\* A full queue drops the process: the error is only printed.
enqueue(q, p) == IF Len(q) >= MAX_QUEUE_SIZE THEN q ELSE Append(q, p)

\* What dequeue leaves of a nonempty queue; it returns Head(q).
PeekOnly(q) == q \* mutant: the remaining processes are not shifted
dequeue(q) == Tail(q)

PurgeHead(q, p) == IF q = <<>> THEN q ELSE Tail(q) \* mutant: the wrong one goes
purgequeue(q, p) == RemoveFirst(q, p)

-----------------------------------------------------------------------------
(* sched.c *)

Init ==
  /\ mlq_ready_queue = [i \in Level |-> <<>>]
  /\ running_list = <<>>
  /\ curr_prio = 0
  /\ curr_slot = 0
  /\ held = [c \in Cpu |-> NULL]
  /\ pcb = [p \in Proc |-> NULL]
  /\ unborn = Proc
  /\ finished = {}

\* malloc of a PCB: an address that no live PCB has.
load(p) ==
  /\ p \in unborn /\ pcb[p] = NULL
  /\ \E a \in Pcb :
       /\ \A q \in Proc \ finished : pcb[q] # a
       /\ pcb' = [pcb EXCEPT ![p] = a]
  /\ UNCHANGED <<queues, curr_prio, curr_slot, held, unborn, finished>>

\* The loader publishes p.
AddProc(p) ==
  /\ p \in unborn /\ pcb[p] # NULL
  /\ mlq_ready_queue' = [mlq_ready_queue EXCEPT ![prio[p]] = enqueue(@, p)]
  /\ unborn' = unborn \ {p}
  /\ UNCHANGED <<running_list, curr_prio, curr_slot, held, pcb, finished>>

\* mutant: a process that cannot be put back at once is forgotten
PutProcPurgeOnly(c) ==
  /\ held[c] # NULL
  /\ running_list' = purgequeue(running_list, pcb[held[c]])
  /\ held' = [held EXCEPT ![c] = NULL]
  /\ UNCHANGED <<mlq_ready_queue, curr_prio, curr_slot, pcb, unborn, finished>>

\* The time slice of c's process is over.
PutProc(c) ==
  /\ held[c] # NULL
  /\ running_list' = purgequeue(running_list, pcb[held[c]])
  /\ mlq_ready_queue' =
       [mlq_ready_queue EXCEPT ![prio[held[c]]] = enqueue(@, held[c])]
  /\ held' = [held EXCEPT ![c] = NULL]
  /\ UNCHANGED <<curr_prio, curr_slot, pcb, unborn, finished>>

\* cpu_routine frees the PCB; the scheduler is not told, and running_list
\* keeps the address.
FinishProc(c) ==
  /\ held[c] # NULL
  /\ finished' = finished \cup {held[c]}
  /\ held' = [held EXCEPT ![c] = NULL]
  /\ UNCHANGED <<queues, curr_prio, curr_slot, pcb, unborn>>

Ready == {i \in Level : mlq_ready_queue[i] # <<>>}

\* The levels that the loop "check for higher priority processes" stops at.
Higher == {i \in Ready : i < curr_prio}

\* How many steps the circular scan from curr_prio takes to reach level i.
ScanDistance(i) ==
  IF i >= curr_prio THEN i - curr_prio ELSE i - curr_prio + MAX_PRIO

NoWrap(i) == i + 1 \* mutant: without % MAX_PRIO
NextLevel(i) == IF i + 1 = MAX_PRIO THEN 0 ELSE i + 1

\* mutant: curr_prio is only left when its slots are used up
ServesNoPreemption(i, n) ==
  \/ /\ curr_slot = 0
     /\ i \in Ready
     /\ \A j \in Ready : ScanDistance(i) <= ScanDistance(j)
     /\ n = slot(i)
  \/ /\ curr_slot # 0
     /\ i = curr_prio
     /\ n = curr_slot

\* An attempt dequeues from level i, which has n slots left.  A higher level
\* resets curr_slot, so that the scan starts, and stops, at that level.
Serves(i, n) ==
  \/ /\ i \in Higher
     /\ \A j \in Higher : i <= j
     /\ n = slot(i)
  \/ /\ Higher = {}
     /\ curr_slot = 0
     /\ i \in Ready
     /\ \A j \in Ready : ScanDistance(i) <= ScanDistance(j)
     /\ n = slot(i)
  \/ /\ Higher = {}
     /\ curr_slot # 0
     /\ i = curr_prio
     /\ n = curr_slot

GetProc(c) ==
  /\ held[c] = NULL
  /\ \E i \in Level, n \in 1 .. MAX_PRIO :
       /\ Serves(i, n)
       /\ mlq_ready_queue[i] # <<>>
       /\ held' = [held EXCEPT ![c] = Head(mlq_ready_queue[i])]
       /\ mlq_ready_queue' = [mlq_ready_queue EXCEPT ![i] = dequeue(@)]
       /\ running_list' = enqueue(running_list, pcb[Head(mlq_ready_queue[i])])
       /\ curr_slot' = n - 1
       /\ curr_prio' = IF n > 1 THEN i ELSE NextLevel(i)
  /\ UNCHANGED <<pcb, unborn, finished>>

\* The level being served has slots left but no process: clear the slots,
\* release queue_lock and start over with another attempt.
GetRetry(c) ==
  /\ held[c] = NULL
  /\ Higher = {}
  /\ curr_slot # 0
  /\ curr_prio \notin Ready
  /\ curr_slot' = 0
  /\ UNCHANGED <<queues, curr_prio, held, pcb, unborn, finished>>

\* Every queue is empty: the call returns NULL.
GetNull(c) ==
  /\ held[c] = NULL
  /\ curr_slot = 0
  /\ Ready = {}
  /\ UNCHANGED vars

CpuStep(c) ==
  \/ GetProc(c)
  \/ GetRetry(c)
  \/ GetNull(c)
  \/ PutProc(c)
  \/ FinishProc(c)

Next ==
  \/ \E p \in Proc : load(p) \/ AddProc(p)
  \/ \E c \in Cpu : CpuStep(c)

Spec == Init /\ [][Next]_vars

-----------------------------------------------------------------------------
(* Properties *)

TypeOK ==
  /\ mlq_ready_queue \in [Level -> Seq(Proc)]
  /\ running_list \in Seq(Pcb)
  /\ curr_prio \in Level
  /\ curr_slot \in 0 .. MAX_PRIO
  /\ held \in [Cpu -> Proc \cup {NULL}]
  /\ pcb \in [Proc -> Pcb \cup {NULL}]
  /\ unborn \in SUBSET Proc
  /\ finished \in SUBSET Proc

Queued(p) == \E i \in Level : Contains(mlq_ready_queue[i], p)
Running(p) == \E c \in Cpu : held[c] = p

\* A process waits only at its own level, once.
QueuedOnce ==
  \A i \in Level :
    /\ IsInjective(mlq_ready_queue[i])
    /\ \A p \in Proc : Contains(mlq_ready_queue[i], p) => prio[p] = i

\* No two CPUs run the same PCB.
RunOnce ==
  \A c, d \in Cpu : held[c] # NULL /\ held[c] = held[d] => c = d

\* The four states of a process exclude each other.
OneState ==
  \A p \in Proc :
    /\ Queued(p) => ~ Running(p) /\ p \notin unborn \cup finished
    /\ Running(p) => p \notin unborn \cup finished
    /\ p \notin unborn \cap finished

\* Whatever interleaving of add_proc, get_proc (with its retries), put_proc
\* and the free of finished PCBs, a PCB is never in two ready queues, twice
\* in one, in a wrong one, on two CPUs, or queued while a CPU runs it.
NeverDuplicated == QueuedOnce /\ RunOnce /\ OneState

\* No process disappears between the critical sections of queue_lock: as
\* long as the queues are large enough, a process that is not finished is
\* waiting for the loader, in its ready queue, or on a CPU.
NeverLost ==
  \A p \in Proc : p \in unborn \cup finished \/ Queued(p) \/ Running(p)

\* The PCBs that running_list has an entry for: those a CPU runs, and those
\* freed since, which nothing purges.
Entered == {p \in Proc : Running(p) \/ p \in finished}

\* As long as running_list is large enough it has one entry for each process
\* a CPU runs and one for each that ran to its end, and no other: whatever
\* addresses malloc gives to later PCBs, purgequeue never takes away the last
\* entry of a running process, nor leaves one of a process it put back.
RunningTracked ==
  \E entry \in Bijection(DOMAIN running_list, Entered) :
    \A k \in DOMAIN running_list : running_list[k] = pcb[entry[k]]

\* The scheduler comes to strict priorities: the slot counters, the scan and
\* the retry never make it dispatch anything but the oldest process of the
\* highest nonempty level.  That is not the policy its comment states (see
\* MlqRounds).
PS == INSTANCE PrioritySched WITH ready <- mlq_ready_queue
StrictPriority == PS!Spec
=============================================================================
