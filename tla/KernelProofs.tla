----------------------------- MODULE KernelProofs -----------------------------
(* Theorems about Kernel, for every number of CPUs and every workload. *)
EXTENDS Kernel, TLAPS, FiniteSetTheorems, SequenceTheorems

\* What is proved about the scheduler holds of the one that Kernel is built on.
MP == INSTANCE MlqProofs

-----------------------------------------------------------------------------
(* Sets of numbers *)

\* A finite set of numbers has a greatest member.  A smallest set without one
\* could lose a member and would still be without one.
LEMMA MaxExists ==
  ASSUME NEW S \in SUBSET Int, IsFiniteSet(S), S # {}
  PROVE  Max(S) \in S /\ \A s \in S : Max(S) >= s
<1> DEFINE Bounded(T) == \E m \in T : \A s \in T : m >= s
           Bad == {T \in SUBSET S : T # {} /\ ~ Bounded(T)}
           R == StrictSubsetOrdering(S)
<1>1. Bad = {}
  <2> SUFFICES ASSUME Bad # {} PROVE FALSE
    OBVIOUS
  <2>1. IsWellFoundedOn(R, SUBSET S)
    <3>1. FiniteSubsetsOf(S) = SUBSET S
      BY FS_FiniteSubsetsOfFinite
    <3>2. IsWellFoundedOn(R, FiniteSubsetsOf(S))
      BY FS_StrictSubsetOrderingWellFounded
    <3>3. QED
      BY <3>1, <3>2
  <2>2. Bad \subseteq SUBSET S
    OBVIOUS
  <2>3. PICK T \in Bad : \A U \in Bad : ~ (<<U, T>> \in R)
    <3> HIDE DEF Bad, R
    <3>1. QED
      BY <2>1, <2>2, WFMin, Zenon
  <2>4. PICK x \in T : TRUE
    BY <2>3
  <2>5. <<T \ {x}, T>> \in R
    BY <2>3, <2>4 DEF StrictSubsetOrdering
  <2>6. T \ {x} \notin Bad
    BY <2>3, <2>5
  <2>7. CASE T \ {x} = {}
    <3>1. T = {x} /\ x >= x
      BY <2>3, <2>4, <2>7
    <3>2. QED
      BY <2>3, <3>1
  <2>8. CASE T \ {x} # {}
    <3>1. PICK m \in T \ {x} : \A s \in T \ {x} : m >= s
      BY <2>3, <2>6, <2>8
    <3>2. /\ m \in T /\ m \in Int /\ x \in Int
          /\ \A s \in T : s = x \/ m >= s
          /\ \A s \in T : s \in Int
      BY <2>3, <2>4, <3>1
    <3>3. CASE m >= x
      BY <2>3, <3>2, <3>3
    <3>4. CASE ~ (m >= x)
      <4>1. \A s \in T : x >= s
        BY <3>2, <3>4
      <4>2. QED
        BY <2>3, <2>4, <4>1
    <3>5. QED
      BY <3>3, <3>4
  <2>9. QED
    BY <2>7, <2>8
<1>2. Bounded(S)
  BY <1>1
<1>3. QED
  BY <1>2, Zenon DEF Max

\* find_next_active_cpu finds the highest active CPU up to from, or none.
LEMMA NextActive ==
  ASSUME active \in SUBSET Cpu, NEW from \in -1 .. (num_cpus - 1)
  PROVE  LET next == find_next_active_cpu(from) IN
         \/ /\ next = Loader
            /\ \A d \in active : d > from
         \/ /\ next \in active /\ next <= from
            /\ \A d \in active : d > next => d > from
<1> DEFINE A == {d \in active : d <= from}
<1>1. /\ num_cpus \in Nat
      /\ \A d \in Cpu : d \in Int
  BY KernelAssumption DEF Cpu
<1>2. IsFiniteSet(A) /\ A \in SUBSET Int
  <2>1. IsFiniteSet(Cpu)
    BY <1>1, FS_Interval DEF Cpu
  <2>2. A \in SUBSET Cpu
    OBVIOUS
  <2>3. QED
    BY <1>1, <2>1, <2>2, FS_Subset
<1>3. CASE A = {}
  BY <1>1, <1>3 DEF find_next_active_cpu
<1>4. CASE A # {}
  <2>1. Max(A) \in A /\ \A d \in A : Max(A) >= d
    BY <1>2, <1>4, MaxExists
  <2>2. find_next_active_cpu(from) = Max(A)
    BY <1>4 DEF find_next_active_cpu
  <2> HIDE DEF A
  <2> DEFINE m == Max(A)
  <2>3. m \in active /\ m <= from /\ m \in Int
    BY <1>1, <2>1 DEF A
  <2>4. ASSUME NEW d \in active, d > m PROVE d > from
    <3>1. d \in Int /\ (d <= from => d \in A)
      BY <1>1 DEF A
    <3>2. QED
      BY <2>1, <2>3, <2>4, <3>1
  <2>5. QED
    BY <2>2, <2>3, <2>4
<1>5. QED
  BY <1>3, <1>4

\* The loader's list names every process once.
LEMMA ProcCount == IsFiniteSet(Proc) /\ Cardinality(Proc) = Len(processes)
<1>1. /\ processes \in [1 .. Len(processes) -> Proc] /\ Len(processes) \in Nat
      /\ \A p \in Proc : \E k \in 1 .. Len(processes) : processes[k] = p
  <2>1. /\ processes \in Seq(Proc)
        /\ Proc = {processes[k] : k \in DOMAIN processes}
    BY KernelAssumption
  <2>2. /\ DOMAIN processes = 1 .. Len(processes)
        /\ processes \in [1 .. Len(processes) -> Proc] /\ Len(processes) \in Nat
    BY <2>1
  <2>3. Proc = {processes[k] : k \in 1 .. Len(processes)}
    BY <2>1, <2>2
  <2>4. QED
    BY <2>2, <2>3
<1>2. processes \in Bijection(1 .. Len(processes), Proc)
  <2>1. IsInjective(processes)
    BY KernelAssumption
  <2>2. processes \in Injection(1 .. Len(processes), Proc)
    BY <1>1, <2>1, Zenon DEF Injection
  <2>3. processes \in Surjection(1 .. Len(processes), Proc)
    BY <1>1, Zenon DEF Surjection
  <2>4. QED
    BY <2>2, <2>3, Zenon DEF Bijection
<1>3. /\ IsFiniteSet(1 .. Len(processes))
      /\ Cardinality(1 .. Len(processes)) = Len(processes)
  <2>1. /\ IsFiniteSet(1 .. Len(processes))
        /\ Cardinality(1 .. Len(processes))
             = IF 1 > Len(processes) THEN 0 ELSE Len(processes) - 1 + 1
    BY <1>1, FS_Interval
  <2>2. QED
    BY <1>1, <2>1
<1>4. QED
  BY <1>2, <1>3, FS_Bijection DEF ExistsBijection

\* The last load time of a configuration, where slots are counted to.
LEMMA MaxTimeType == MaxTime \in Nat
<1>1. StartTimes \in SUBSET Int
  BY KernelAssumption
<1>2. QED
  BY <1>1, MaxExists, KernelAssumption DEF MaxTime

-----------------------------------------------------------------------------
(* The invariant of the turns *)

Ended(c) == pc[c] = "exited"
Waiting(c) == pc[c] = "turn" /\ c \notin arrived
Inactive(c) == pc[c] \in {"leave", "detach", "exited"}

\* Every CPU has had its turn in the current slot.
AllHad == \A c \in Cpu : HadTurn(c)

\* The loader has had its turn in the current slot, and has not ended.
LoaderHad ==
  \/ ldPc \in {"pass", "load", "added", "slot", "ending", "detach"}
  \/ Loader \in arrived

\* The turns of the slot have come to CPU c.
TurnAt(c) ==
  /\ ~ HadTurn(c)
  /\ \A d \in Cpu : d > c => HadTurn(d)
  /\ \A d \in Cpu : d < c => Waiting(d) \/ Ended(d)

\* What the barrier and the set of active CPUs say of the program counters.
Places ==
  /\ \A c \in Cpu :
       /\ c \in left <=> Ended(c)
       /\ c \in arrived => pc[c] = "turn"
       /\ c \in active <=> ~ Inactive(c)
  /\ Loader \in left <=> ldPc = "exited"
  /\ Loader \in arrived => ldPc \in {"early", "loaded"}

\* A CPU in its turn is the one whose number is in turn.  The loader signals when
\* it is not its turn, too: then the turn is with a CPU again, which must not
\* take it before the slot ends.
Turns ==
  /\ \A c \in Cpu : InTurn(c) => turn = c
  /\ LoaderHad \/ turn = Loader => AllHad
  /\ AllHad \/ TurnAt(turn)

TurnInv == Places /\ Turns

(* The invariant of the workload *)

Stopped(c) == pc[c] \in {"stop", "leave", "detach", "exited"}

\* What each CPU holds, and what is left of its slice.
Slices ==
  \A c \in Cpu :
    /\ pc[c] \in {"get", "getNext"} \/ Stopped(c) => held[c] = NULL
    /\ pc[c] \in {"finish", "put", "run"} => held[c] # NULL
    /\ held[c] = NULL \/ pc[c] = "put" => time_left[c] = 0

\* Where the loader is in the list of the processes.
Loaded ==
  /\ unborn = {processes[k] : k \in ldNext .. Len(processes)}
  /\ ldPc \in {"ending", "detach", "exited"} => ldNext = Len(processes) + 1
  /\ done => ldPc \in {"detach", "exited"}

\* Once a CPU has stopped, at most one process is queued: the one that the CPU in
\* turn has put back and is about to get again.
Draining ==
  /\ done
  /\ \A p \in Proc : M!Queued(p) =>
       /\ \E d \in Cpu : pc[d] = "getNext"
       /\ \A q \in Proc : M!Queued(q) => p = q

StopInv == (\E c \in Cpu : Stopped(c)) => Draining

-----------------------------------------------------------------------------
(* Types *)

\* The scheduler's assumption on its constants, from the kernel's.
LEMMA SchedulerConstants == MP!MlqAssumption
<1>1. MP!IsFiniteSet(Proc)
  BY ProcCount DEF IsFiniteSet, MP!IsFiniteSet
<1>2. QED
  BY <1>1, KernelAssumption

\* The scheduler in the kernel begins as one that Mlq describes.
LEMMA SchedulerInit == Init => MP!Inv
<1>1. Init => MP!Init
  BY DEF Init, M!Init, MP!Init, M!Level, MP!Level
<1>2. QED
  BY <1>1, MP!InitInv, SchedulerConstants

\* Every call of a CPU or the loader to the scheduler is a step of Mlq.
LEMMA SameCalls ==
  /\ \A p \in Proc : M!AddProc(p) => MP!AddProc(p)
  /\ \A p \in Proc : M!load(p) => MP!load(p)
  /\ \A c \in Cpu : M!CpuStep(c) => MP!CpuStep(c)
<1>1. ASSUME NEW p \in Proc, M!AddProc(p) PROVE MP!AddProc(p)
  BY <1>1 DEF M!AddProc, MP!AddProc, M!enqueue, MP!enqueue
<1>0. ASSUME NEW p \in Proc, M!load(p) PROVE MP!load(p)
  BY <1>0 DEF M!load, MP!load, M!queues, MP!queues
<1>2. ASSUME NEW c \in Cpu, M!PutProc(c) PROVE MP!PutProc(c)
  BY <1>2 DEF M!PutProc, MP!PutProc, M!purgequeue, MP!purgequeue, M!enqueue, MP!enqueue,
     M!RemoveFirst, MP!RemoveFirst, M!SelectInSeq, MP!SelectInSeq, M!Min, MP!Min,
     M!RemoveAt, MP!RemoveAt
<1>3. ASSUME NEW c \in Cpu, M!FinishProc(c) PROVE MP!FinishProc(c)
  BY <1>3 DEF M!FinishProc, MP!FinishProc, M!queues, MP!queues
<1>4. ASSUME NEW c \in Cpu, M!GetRetry(c) PROVE MP!GetRetry(c)
  BY <1>4 DEF M!GetRetry, MP!GetRetry, M!queues, MP!queues, M!Higher, MP!Higher,
     M!Ready, MP!Ready, M!Level, MP!Level
<1>5. ASSUME NEW c \in Cpu, M!GetNull(c) PROVE MP!GetNull(c)
  BY <1>5 DEF M!GetNull, MP!GetNull, M!Ready, MP!Ready, M!Level, MP!Level, M!vars, MP!vars
<1>6. ASSUME NEW c \in Cpu, M!GetProc(c) PROVE MP!GetProc(c)
  <2>1. /\ M!Level = MP!Level
        /\ M!Higher = MP!Higher
        /\ M!Ready = MP!Ready
        /\ \A i : M!ScanDistance(i) = MP!ScanDistance(i)
        /\ \A i : M!slot(i) = MP!slot(i)
        /\ \A i : M!NextLevel(i) = MP!NextLevel(i)
        /\ \A q, p : M!enqueue(q, p) = MP!enqueue(q, p)
        /\ \A q : M!dequeue(q) = MP!dequeue(q)
    BY DEF M!Higher, MP!Higher, M!Ready, MP!Ready, M!Level, MP!Level,
           M!ScanDistance, MP!ScanDistance, M!slot, MP!slot, M!NextLevel,
           MP!NextLevel, M!enqueue, MP!enqueue, M!dequeue, MP!dequeue
  <2>2. \A i, n : M!Serves(i, n) => MP!Serves(i, n)
    BY <2>1 DEF M!Serves, MP!Serves
  <2>3. QED
    BY <1>6, <2>1, <2>2 DEF M!GetProc, MP!GetProc
<1>7. QED
  BY <1>0, <1>1, <1>2, <1>3, <1>4, <1>5, <1>6 DEF M!CpuStep, MP!CpuStep

\* A step of the kernel is a step of the scheduler or leaves it alone.
LEMMA SchedulerStep ==
  ASSUME [Next]_vars
  PROVE  \/ \E p \in Proc : M!load(p) \/ M!AddProc(p)
         \/ \E c \in Cpu : M!CpuStep(c)
         \/ UNCHANGED sched
<1>1. ASSUME NEW c \in Cpu, CpuStep(c)
      PROVE  M!CpuStep(c) \/ UNCHANGED sched
  BY <1>1 DEF CpuStep, TakeTurn, Finish, Put, Get, Run, PassTurn, NextSlot, Stop,
     LeaveOrder, Detach, M!CpuStep
<1>2. ASSUME LoaderStep
      PROVE  (\E p \in Proc : M!load(p) \/ M!AddProc(p)) \/ UNCHANGED sched
  BY <1>2, KernelAssumption DEF LoaderStep, LoaderTurn, LoaderPass, LoaderRead, TooEarly,
     LoadProc, LoaderSignal, LoaderNextSlot, LoaderEnd, LoaderDone, LoaderDetach
<1>3. TimerTick \/ UNCHANGED vars => UNCHANGED sched
  BY DEF TimerTick, vars
<1>4. QED
  BY <1>1, <1>2, <1>3 DEF Next

\* A step of the kernel is a step of the scheduler, or leaves it alone.
LEMMA SchedulerSteps == [Next]_vars => [MP!Next]_(MP!vars)
<1>1. UNCHANGED sched => UNCHANGED MP!vars
  BY DEF sched, MP!vars
<1>2. QED
  BY <1>1, SchedulerStep, SameCalls DEF MP!Next

\* So the invariant that MlqProofs proves is kept in the kernel too.
LEMMA SchedulerNext == MP!Inv /\ [Next]_vars => MP!Inv'
  BY SchedulerSteps, MP!NextInv, SchedulerConstants

\* The invariant of MlqProofs has the types of the scheduler in the kernel.
LEMMA SchedulerType == MP!Inv => M!TypeOK
  BY DEF MP!Inv, MP!TypeOK, M!TypeOK, MP!Level, M!Level

\* The types at the start.
LEMMA InitType == Init => TypeOK
<1> SUFFICES ASSUME Init PROVE TypeOK
  OBVIOUS
<1>1. M!TypeOK
  BY SchedulerInit, SchedulerType
<1>2. num_cpus - 1 \in Cpu
  BY KernelAssumption DEF Cpu
<1>3. 0 \in 0 .. MaxTime /\ 0 \in 0 .. (time_slot - 1)
  BY MaxTimeType, KernelAssumption
<1>4. ldNext \in 1 .. (Cardinality(Proc) + 1)
  BY ProcCount, KernelAssumption DEF Init
<1>5. turn \in Cpu /\ active \in SUBSET Cpu
  BY <1>2 DEF Init, init_cpu_order
<1>6. QED
  BY <1>1, <1>3, <1>4, <1>5 DEF Init, B!Init, TypeOK

\* Where find_next_active_cpu finds a CPU, or the loader, after c's turn.
LEMMA SignalType ==
  ASSUME active \in SUBSET Cpu, NEW c \in Cpu \cup {Loader}, signal_next_cpu(c)
  PROVE  turn' \in Cpu \cup {Loader}
<1>1. num_cpus - 1 \in -1 .. (num_cpus - 1)
  BY KernelAssumption
<1>2. CASE c = Loader
  BY <1>1, <1>2, NextActive DEF signal_next_cpu, find_highest_active_cpu
<1>3. CASE c # Loader
  <2>1. c - 1 \in -1 .. (num_cpus - 1)
    BY <1>3, KernelAssumption DEF Cpu
  <2>2. QED
    BY <1>3, <2>1, NextActive DEF signal_next_cpu
<1>4. QED
  BY <1>2, <1>3

\* Every step keeps the types.
LEMMA NextType == 
  ASSUME TypeOK, M!TypeOK', [Next]_vars
  PROVE  TypeOK'
<1>1. ASSUME NEW c \in Cpu, CpuStep(c)
      PROVE  TypeOK'
  <2> USE <1>1 DEF TypeOK, goto, order, barrier, cpus, loader, config
  <2>1. CASE TakeTurn(c)
    BY <2>1 DEF TakeTurn
  <2>2. CASE Finish(c) \/ Put(c) \/ Get(c)
    <3>1. time_left' \in [Cpu -> 0 .. (time_slot - 1)]
      BY <2>2, KernelAssumption DEF Finish, Put, Get
    <3>2. QED
      BY <2>2, <3>1 DEF Finish, Put, Get
  <2>3. CASE Run(c)
    <3>1. time_left' \in [Cpu -> 0 .. (time_slot - 1)]
      BY <2>3, KernelAssumption DEF Run
    <3>2. executed' \in [Proc -> Nat]
      <4> DEFINE n == IF executed[held[c]] >= size[held[c]]
                      THEN executed[held[c]] ELSE executed[held[c]] + 1
      <4>1. executed' = [executed EXCEPT ![held[c]] = n]
        BY <2>3 DEF Run
      <4>2. held[c] \in Proc => n \in Nat
        OBVIOUS
      <4> HIDE DEF n
      <4>3. QED
        BY <4>1, <4>2
    <3>3. QED
      BY <2>3, <3>1, <3>2 DEF Run
  <2>4. CASE PassTurn(c) \/ LeaveOrder(c)
    <3>1. turn' \in Cpu \cup {Loader}
      BY <2>4, SignalType DEF PassTurn, LeaveOrder
    <3>2. QED
      BY <2>4, <3>1 DEF PassTurn, LeaveOrder, signal_next_cpu
  <2>5. CASE NextSlot(c) \/ Detach(c)
    BY <2>5 DEF NextSlot, Detach, B!Arrive, B!Leave
  <2>6. CASE Stop(c)
    BY <2>6 DEF Stop, mark_cpu_inactive
  <2>7. QED
    BY <2>1, <2>2, <2>3, <2>4, <2>5, <2>6 DEF CpuStep
<1>2. ASSUME LoaderStep
      PROVE  TypeOK'
  <2> USE <1>2 DEF TypeOK, order, barrier, cpus, loader, config
  <2>1. CASE LoaderTurn \/ LoaderDone
    BY <2>1 DEF LoaderTurn, LoaderDone
  <2>2. CASE LoaderPass \/ LoaderSignal \/ LoaderEnd
    <3>1. turn' \in Cpu \cup {Loader}
      BY <2>2, SignalType DEF LoaderPass, LoaderSignal, LoaderEnd
    <3>2. QED
      BY <2>2, <3>1 DEF LoaderPass, LoaderSignal, LoaderEnd, signal_next_cpu
  <2>3. CASE TooEarly \/ LoaderRead \/ LoaderNextSlot \/ LoaderDetach
    BY <2>3 DEF TooEarly, LoaderRead, LoaderNextSlot, LoaderDetach, B!Arrive, B!Leave
  <2>4. CASE LoadProc
    <3>1. ldNext + 1 \in 1 .. (Cardinality(Proc) + 1)
      BY <2>4, ProcCount, KernelAssumption DEF LoadProc
    <3>2. QED
      BY <2>4, <3>1 DEF LoadProc
  <2>5. QED
    BY <2>1, <2>2, <2>3, <2>4 DEF LoaderStep
<1>3. ASSUME TimerTick
      PROVE  TypeOK'
  <2>1. turn' \in Cpu \cup {Loader}
    <3>1. num_cpus - 1 \in -1 .. (num_cpus - 1)
      BY KernelAssumption
    <3>2. QED
      BY <1>3, <3>1, NextActive
         DEF TypeOK, TimerTick, reset_cpu_order, find_highest_active_cpu
  <2>2. time' \in 0 .. MaxTime
    BY <1>3, MaxTimeType DEF TypeOK, TimerTick
  <2>3. QED
    BY <1>3, <2>1, <2>2 DEF TypeOK, TimerTick, reset_cpu_order, cpus, loader
<1>4. CASE UNCHANGED vars
  BY <1>4 DEF TypeOK, vars, order, barrier, cpus, loader
<1>5. QED
  BY <1>1, <1>2, <1>3, <1>4 DEF Next

-----------------------------------------------------------------------------
(* Turns *)

\* CPUs are numbers, in order, and none is the loader.
LEMMA CpuFacts ==
  /\ \A c \in Cpu : c \in Int /\ c # Loader
  /\ \A c, d \in Cpu : c < d \/ c = d \/ d < c
  /\ num_cpus - 1 \in Cpu
  /\ \A c \in Cpu : c <= num_cpus - 1
  /\ \A c \in Cpu : 0 <= c /\ c < MAX_ACTIVE
  BY KernelAssumption DEF Cpu, Loader

\* Every CPU has its entry in _cpu_active.
LEMMA AllActive ==
  /\ init_cpu_order <=> turn = num_cpus - 1 /\ active = Cpu
  /\ \A c \in Cpu :
       mark_cpu_inactive(c) => active' = active \ {c} /\ UNCHANGED turn
  BY CpuFacts DEF init_cpu_order, mark_cpu_inactive

\* The turns at the start.
LEMMA InitTurns == Init => TurnInv
  BY CpuFacts, AllActive DEF Init, B!Init, TurnInv, Places, Turns, Ended, Inactive,
     InTurn, LoaderHad, AllHad, TurnAt, HadTurn, Waiting

\* What a CPU does in its turn concerns nobody else.
LEMMA WorkTurns ==
  ASSUME TypeOK, TurnInv, NEW c \in Cpu,
         InTurn(c), ~ Inactive(c),
         InTurn(c)', ~ Inactive(c)',
         NEW l, pc' = [pc EXCEPT ![c] = l],
         UNCHANGED <<turn, active, arrived, left, ldPc>>
  PROVE  TurnInv'
<1>1. \A d \in Cpu : d # c => pc'[d] = pc[d]
  BY DEF TypeOK
<1>2. Places'
  BY <1>1 DEF TurnInv, Places, Ended, Inactive, InTurn
<1>3. \A d \in Cpu :
        /\ HadTurn(d)' <=> HadTurn(d)
        /\ Waiting(d)' <=> Waiting(d)
        /\ Ended(d)' <=> Ended(d)
        /\ InTurn(d)' <=> InTurn(d)
  BY <1>1 DEF HadTurn, Waiting, Ended, InTurn
<1>4. QED
  BY <1>2, <1>3 DEF TurnInv, Turns, LoaderHad, AllHad, TurnAt

\* The CPU whose turn it is, if it has not had it, is the only one in its turn.
LEMMA OneInTurn ==
  ASSUME TypeOK, TurnInv, NEW c \in Cpu, InTurn(c)
  PROVE  /\ turn = c /\ TurnAt(c)
         /\ ~ LoaderHad /\ ~ AllHad
         /\ \A d \in Cpu : d # c => ~ InTurn(d)
<1>1. turn = c
  BY DEF TurnInv, Turns
<1>2. ~ HadTurn(c)
  BY DEF TurnInv, Places, HadTurn, InTurn
<1>3. QED
  BY <1>1, <1>2 DEF TurnInv, Turns, AllHad

\* After its turn a CPU hands on to the next one below it, or to the loader.
LEMMA SignalTurns ==
  ASSUME TypeOK, TurnInv, NEW c \in Cpu,
         InTurn(c), signal_next_cpu(c),
         HadTurn(c)', ~ InTurn(c)', ~ Ended(c)', Inactive(c)' <=> Inactive(c),
         NEW l, pc' = [pc EXCEPT ![c] = l],
         UNCHANGED <<arrived, left, ldPc>>
  PROVE  TurnInv'
<1>1. \A d \in Cpu : d # c => pc'[d] = pc[d]
  BY DEF TypeOK
<1>2. /\ TurnAt(c) /\ ~ LoaderHad
      /\ \A d \in Cpu : d # c => ~ InTurn(d)
  BY OneInTurn
<1>3. Places'
  BY <1>1 DEF TurnInv, Places, Ended, Inactive, InTurn, signal_next_cpu
<1>4. \A d \in Cpu : d # c =>
        /\ HadTurn(d)' <=> HadTurn(d)
        /\ Waiting(d)' <=> Waiting(d)
        /\ Ended(d)' <=> Ended(d)
        /\ ~ InTurn(d)'
  BY <1>1, <1>2 DEF HadTurn, Waiting, Ended, InTurn
<1>5. ~ LoaderHad'
  BY <1>2 DEF LoaderHad
<1>6. \A d \in Cpu : Ended(d) => HadTurn(d)
  BY DEF Ended, HadTurn
<1>7. \A d \in Cpu : Waiting(d) => d \in active /\ ~ HadTurn(d)
  BY DEF TurnInv, Places, Waiting, Inactive, HadTurn
<1>8. /\ turn' = find_next_active_cpu(c - 1)
      /\ c - 1 \in -1 .. (num_cpus - 1)
      /\ active \in SUBSET Cpu
  BY KernelAssumption, CpuFacts DEF TypeOK, signal_next_cpu, Cpu
<1>9. CASE turn' = Loader
  <2>1. \A d \in active : d > c - 1
    BY <1>8, <1>9, NextActive, CpuFacts
  <2>2. \A d \in Cpu : d < c => HadTurn(d)
    BY <1>2, <1>6, <1>7, <2>1, CpuFacts DEF TurnAt
  <2>3. AllHad'
    BY <1>2, <1>4, <2>2, CpuFacts DEF TurnAt, AllHad
  <2>4. QED
    BY <1>3, <1>4, <2>3 DEF TurnInv, Turns
<1>10. CASE turn' # Loader
  <2>1. /\ turn' \in active /\ turn' <= c - 1
        /\ \A d \in active : d > turn' => d > c - 1
    BY <1>8, <1>10, NextActive
  <2>2. PICK e \in Cpu :
          /\ turn' = e /\ e \in active /\ e < c
          /\ \A d \in Cpu : d > e /\ d < c => d \notin active
    BY <1>8, <2>1, CpuFacts
  <2>3. Waiting(e)
    BY <1>2, <2>2 DEF TurnAt, TurnInv, Places, Inactive, Ended
  <2>4. \A d \in Cpu : d > e /\ d # c => HadTurn(d)
    BY <1>2, <1>6, <1>7, <2>2, CpuFacts DEF TurnAt
  <2>5. \A d \in Cpu : d < e => Waiting(d) \/ Ended(d)
    BY <1>2, <2>2, CpuFacts DEF TurnAt
  <2>6. TurnAt(e)'
    <3>1. ~ HadTurn(e)'
      BY <1>4, <1>7, <2>2, <2>3, CpuFacts
    <3>2. \A d \in Cpu : d > e => HadTurn(d)'
      BY <1>4, <2>4
    <3>3. \A d \in Cpu : d < e => Waiting(d)' \/ Ended(d)'
      BY <1>4, <2>2, <2>5, CpuFacts
    <3>4. QED
      BY <3>1, <3>2, <3>3 DEF TurnAt
  <2>7. QED
    BY <1>3, <1>4, <1>5, <1>10, <2>2, <2>6 DEF TurnInv, Turns, TurnAt
<1>11. QED
  BY <1>9, <1>10

\* A CPU that finds its turn come takes it.
LEMMA TakeTurnTurns ==
  ASSUME TypeOK, TurnInv, NEW c \in Cpu, TakeTurn(c)
  PROVE  TurnInv'
<1>1. /\ Waiting(c) /\ turn = c
      /\ pc' = [pc EXCEPT ![c] = pc'[c]]
      /\ pc'[c] \in {"get", "finish", "put", "run"}
      /\ UNCHANGED <<turn, active, arrived, left, ldPc>>
  BY DEF TakeTurn, Waiting, wait_cpu_turn, goto, order, barrier, loader, TypeOK
<1>2. \A d \in Cpu : d # c => pc'[d] = pc[d]
  BY <1>1 DEF TypeOK
<1>3. ~ HadTurn(c) /\ c \in active
  BY <1>1 DEF TurnInv, Places, Waiting, HadTurn, Inactive
<1>4. TurnAt(c) /\ ~ LoaderHad
  BY <1>1, <1>3 DEF TurnInv, Turns, AllHad
<1>5. \A d \in Cpu : d # c => ~ InTurn(d)
  BY <1>1 DEF TurnInv, Turns
<1>6. Places'
  BY <1>1, <1>2, <1>3 DEF TurnInv, Places, Waiting, Ended, Inactive
<1>7. /\ \A d \in Cpu : d # c =>
           /\ HadTurn(d)' <=> HadTurn(d)
           /\ Waiting(d)' <=> Waiting(d)
           /\ Ended(d)' <=> Ended(d)
           /\ InTurn(d)' <=> InTurn(d)
      /\ ~ HadTurn(c)'
  BY <1>1, <1>2, <1>3 DEF HadTurn, Waiting, Ended, InTurn
<1>8. TurnAt(c)' /\ ~ LoaderHad'
  BY <1>1, <1>4, <1>7, CpuFacts DEF TurnAt, LoaderHad
<1>9. QED
  BY <1>1, <1>5, <1>6, <1>7, <1>8, CpuFacts DEF TurnInv, Turns, TurnAt

\* Until every CPU has had its turn, the turn is a CPU's.
LEMMA TurnIsACpu ==
  ASSUME TypeOK, TurnInv
  PROVE  AllHad \/ (turn \in Cpu /\ TurnAt(turn))
  BY DEF TypeOK, TurnInv, Turns

\* At the end of the slot nothing changes for the others.
LEMMA SlotTurns ==
  ASSUME TypeOK, TurnInv, NEW c \in Cpu, NextSlot(c) \/ Detach(c)
  PROVE  TurnInv'
<1>1. /\ UNCHANGED <<turn, active, ldPc>>
      /\ \A d \in Cpu : d # c =>
           /\ pc'[d] = pc[d]
           /\ d \in arrived' <=> d \in arrived
           /\ d \in left' <=> d \in left
      /\ Loader \in arrived' <=> Loader \in arrived
      /\ Loader \in left' <=> Loader \in left
      /\ pc[c] \in {"slot", "detach"}
      /\ c \notin arrived
      /\ pc[c] = "slot" => pc'[c] = "turn" /\ c \in arrived' /\ c \notin left'
      /\ pc[c] = "detach" => pc'[c] = "exited" /\ c \notin arrived' /\ c \in left'
  BY CpuFacts DEF NextSlot, Detach, B!Arrive, B!Leave, goto, order, loader, TypeOK
<1>2. Places'
  BY <1>1 DEF TurnInv, Places, Ended, Inactive
<1>3. \A d \in Cpu :
        /\ HadTurn(d)' <=> HadTurn(d)
        /\ Waiting(d)' <=> Waiting(d)
        /\ InTurn(d)' <=> InTurn(d)
        /\ Ended(d) => Ended(d)'
  BY <1>1 DEF HadTurn, Waiting, InTurn, Ended
<1>4. LoaderHad' <=> LoaderHad
  BY <1>1 DEF LoaderHad
<1>5. AllHad' <=> AllHad
  BY <1>3 DEF AllHad
<1>6. AllHad \/ TurnAt(turn)'
  BY <1>1, <1>3, TurnIsACpu DEF TurnAt
<1>7. QED
  BY <1>1, <1>2, <1>3, <1>4, <1>5, <1>6 DEF TurnInv, Turns

\* A CPU that stops leaves the order to the others.
LEMMA StopTurns ==
  ASSUME TypeOK, TurnInv, NEW c \in Cpu, Stop(c)
  PROVE  TurnInv'
<1>1. /\ active' = active \ {c}
      /\ UNCHANGED <<turn, arrived, left, ldPc>>
      /\ pc[c] = "stop" /\ pc'[c] = "leave"
      /\ \A d \in Cpu : d # c => pc'[d] = pc[d]
  BY AllActive DEF Stop, goto, barrier, loader, TypeOK
<1>2. Places'
  BY <1>1 DEF TurnInv, Places, Ended, Inactive
<1>3. \A d \in Cpu :
        /\ HadTurn(d)' <=> HadTurn(d)
        /\ Waiting(d)' <=> Waiting(d)
        /\ InTurn(d)' <=> InTurn(d)
        /\ Ended(d)' <=> Ended(d)
  BY <1>1 DEF HadTurn, Waiting, InTurn, Ended
<1>4. AllHad \/ TurnAt(turn)'
  BY <1>1, <1>3, TurnIsACpu DEF TurnAt
<1>5. (LoaderHad' <=> LoaderHad) /\ (AllHad' <=> AllHad)
  BY <1>1, <1>3 DEF LoaderHad, AllHad
<1>6. QED
  BY <1>1, <1>2, <1>3, <1>4, <1>5 DEF TurnInv, Turns

\* Every step of a CPU keeps the turns in order.
LEMMA CpuTurns ==
  ASSUME TypeOK, TurnInv, NEW c \in Cpu, CpuStep(c)
  PROVE  TurnInv'
<1> USE DEF goto, order, barrier, loader
<1>1. CASE Finish(c) \/ Put(c) \/ Get(c) \/ Run(c)
  <2>1. /\ InTurn(c) /\ ~ Inactive(c)
        /\ UNCHANGED <<turn, active, arrived, left, ldPc>>
    BY <1>1 DEF Finish, Put, Get, Run, InTurn, Inactive
  <2>2. /\ pc' = [pc EXCEPT ![c] = pc'[c]]
        /\ pc'[c] \in {"getNext", "get", "run", "stop", "idle"}
    BY <1>1 DEF Finish, Put, Get, Run, TypeOK
  <2>3. QED
    BY <2>1, <2>2, WorkTurns DEF InTurn, Inactive
<1>2. CASE PassTurn(c) \/ LeaveOrder(c)
  <2>1. /\ InTurn(c) /\ signal_next_cpu(c)
        /\ UNCHANGED <<arrived, left, ldPc>>
        /\ \/ pc[c] = "idle" /\ pc' = [pc EXCEPT ![c] = "slot"]
           \/ pc[c] = "leave" /\ pc' = [pc EXCEPT ![c] = "detach"]
    BY <1>2 DEF PassTurn, LeaveOrder, InTurn
  <2>2. /\ pc' = [pc EXCEPT ![c] = pc'[c]]
        /\ HadTurn(c)' /\ ~ InTurn(c)' /\ ~ Ended(c)'
        /\ Inactive(c)' <=> Inactive(c)
    BY <2>1 DEF TypeOK, HadTurn, InTurn, Ended, Inactive
  <2>3. QED
    BY <2>1, <2>2, SignalTurns
<1>3. QED
  BY <1>1, <1>2, TakeTurnTurns, SlotTurns, StopTurns DEF CpuStep

\* What the loader does after all CPUs have had their turn cannot give one a
\* second turn, whatever it makes of turn.
LEMMA AfterAllTurns ==
  ASSUME TurnInv, AllHad, UNCHANGED <<pc, active>>,
         \A c \in Cpu : (c \in arrived' <=> c \in arrived) /\ (c \in left' <=> c \in left),
         Loader \in left' <=> ldPc' = "exited",
         Loader \in arrived' => ldPc' \in {"early", "loaded"}
  PROVE  TurnInv'
<1>1. Places'
  BY DEF TurnInv, Places, Ended, Inactive
<1>2. AllHad'
  BY DEF AllHad, HadTurn
<1>3. \A c \in Cpu : ~ InTurn(c)'
  BY DEF AllHad, HadTurn, InTurn, TurnInv, Places
<1>4. QED
  BY <1>1, <1>2, <1>3 DEF TurnInv, Turns

\* Every step of the loader does.
LEMMA LoaderTurns ==
  ASSUME TypeOK, TurnInv, LoaderStep
  PROVE  TurnInv'
<1> USE DEF LoaderStep, LoaderTurn, LoaderPass, LoaderRead, TooEarly, LoadProc, LoaderSignal,
        LoaderNextSlot, LoaderEnd, LoaderDone, LoaderDetach
<1>1. AllHad
  BY DEF TurnInv, Turns, LoaderHad, wait_cpu_turn
<1>2. UNCHANGED <<pc, active>>
  BY DEF cpus, order, signal_next_cpu
<1>3. \/ /\ arrived' = arrived /\ left' = left
         /\ ldPc' # "exited" /\ ldPc # "exited" /\ Loader \notin arrived
      \/ /\ arrived' = arrived \cup {Loader} /\ left' = left
         /\ ldPc' \in {"early", "loaded"} /\ ldPc # "exited"
      \/ /\ arrived' = arrived /\ left' = left \cup {Loader}
         /\ ldPc' = "exited" /\ Loader \notin arrived
  <2>1. CASE LoaderRead
    BY <2>1 DEF barrier, loader, TurnInv, Places
  <2>2. CASE ~ LoaderRead
    BY <2>2 DEF TurnInv, Places, barrier, B!Arrive, B!Leave
  <2>3. QED
    BY <2>1, <2>2
<1>4. QED
  BY <1>1, <1>2, <1>3, AfterAllTurns, CpuFacts DEF TurnInv, Places

\* The end of a slot does.
LEMMA TickTurns ==
  ASSUME TypeOK, TurnInv, TimerTick
  PROVE  TurnInv'
<1>1. /\ arrived' = {} /\ turn' = find_next_active_cpu(num_cpus - 1)
      /\ UNCHANGED <<left, active, pc, ldPc>>
      /\ Cpu \cup {Loader} = arrived \cup left
  BY DEF TimerTick, reset_cpu_order, find_highest_active_cpu, cpus, loader
<1>2. /\ \A c \in Cpu : pc[c] = "turn" \/ Ended(c)
      /\ ldPc \in {"early", "loaded", "exited"}
  BY <1>1 DEF TurnInv, Places
<1>3. Places'
  BY <1>1 DEF TurnInv, Places, Ended, Inactive
<1>4. /\ \A c \in Cpu : ~ InTurn(c)'
      /\ \A c \in Cpu : Waiting(c)' \/ Ended(c)'
      /\ \A c \in Cpu : Ended(c)' => HadTurn(c)'
      /\ \A c \in Cpu : Ended(c)' <=> c \notin active
      /\ ~ LoaderHad'
  BY <1>1, <1>2 DEF InTurn, Waiting, Ended, HadTurn, LoaderHad, TurnInv, Places, Inactive
<1>5. active \in SUBSET Cpu /\ num_cpus - 1 \in -1 .. (num_cpus - 1)
  BY KernelAssumption DEF TypeOK
<1>6. CASE turn' = Loader
  <2>1. active = {}
    BY <1>1, <1>5, <1>6, NextActive, CpuFacts
  <2>2. \A c \in Cpu : HadTurn(c)'
    BY <1>4, <2>1
  <2>3. QED
    BY <1>3, <1>4, <2>2 DEF TurnInv, Turns, AllHad
<1>7. CASE turn' # Loader
  <2>1. PICK e \in Cpu :
          turn' = e /\ e \in active /\ \A d \in active : d <= e
    BY <1>1, <1>5, <1>7, NextActive, CpuFacts
  <2>2. TurnAt(e)'
    BY <1>1, <1>2, <1>4, <2>1, CpuFacts DEF TurnAt, HadTurn, Ended
  <2>3. QED
    BY <1>3, <1>4, <1>7, <2>1, <2>2 DEF TurnInv, Turns, TurnAt
<1>8. QED
  BY <1>6, <1>7

\* So does every step.
LEMMA NextTurns == TypeOK /\ TurnInv /\ [Next]_vars => TurnInv'
<1> SUFFICES ASSUME TypeOK, TurnInv, [Next]_vars PROVE TurnInv'
  OBVIOUS
<1>1. CASE UNCHANGED vars
  BY <1>1 DEF vars, order, barrier, cpus, loader, TurnInv, Places, Turns, Ended,
     Inactive, InTurn, LoaderHad, AllHad, TurnAt, HadTurn, Waiting
<1>2. QED
  BY <1>1, CpuTurns, LoaderTurns, TickTurns DEF Next

-----------------------------------------------------------------------------
(* The theorems about types and turns *)

Inv == MP!Inv /\ TypeOK /\ TurnInv

\* The invariant at the start.
LEMMA InvInit == Init => Inv
  BY SchedulerInit, InitType, InitTurns DEF Inv

\* Every step keeps it.
LEMMA InvNext == Inv /\ [Next]_vars => Inv'
<1> SUFFICES ASSUME Inv, [Next]_vars PROVE Inv'
  OBVIOUS
<1>1. MP!Inv'
  BY SchedulerNext DEF Inv
<1>2. M!TypeOK'
  BY <1>1 DEF MP!Inv, MP!TypeOK, M!TypeOK, MP!Level, M!Level
<1>3. TypeOK'
  BY <1>2, NextType DEF Inv
<1>4. QED
  BY <1>1, <1>3, NextTurns DEF Inv

\* In every state of the kernel, Inv holds.
LEMMA Invariance == Spec => []Inv
  BY InvInit, InvNext, PTL DEF Spec

\* The variables of the threads keep their types.
THEOREM TypeCorrect == Spec => []TypeOK
<1>1. Inv => TypeOK
  BY DEF Inv
<1>2. QED
  BY <1>1, Invariance, PTL

\* However many CPUs there are, only one of them is in its turn at a time, and
\* none while the loader works on a process: what cpu_routine does between
\* wait_cpu_turn and signal_next_cpu needs no lock.
THEOREM CpusExclude == Spec => []MutualExclusion
<1>1. Inv => MutualExclusion
  <2> SUFFICES ASSUME Inv PROVE MutualExclusion
    OBVIOUS
  <2>1. ASSUME NEW c \in Cpu, InTurn(c)
        PROVE  (\A d \in Cpu \ {c} : ~ InTurn(d)) /\ ~ Loading
    BY <2>1, OneInTurn DEF Inv, LoaderHad, Loading
  <2>2. QED
    BY <2>1 DEF Inv, MutualExclusion
<1>2. QED
  BY <1>1, Invariance, PTL

\* The order of the turns is the one of the CPU numbers, from the highest down,
\* with the loader last, in every slot and whichever CPUs have stopped.
THEOREM OrderKept == Spec => []TurnOrder
<1>1. Inv => TurnOrder
  <2> SUFFICES ASSUME Inv PROVE TurnOrder
    OBVIOUS
  <2>1. ASSUME NEW c \in Cpu, InTurn(c)
        PROVE  TurnAt(c)
    BY <2>1, OneInTurn DEF Inv
  <2>2. \A d \in Cpu : Waiting(d) => ~ HadTurn(d)
    BY DEF Waiting, HadTurn
  <2>3. ldPc \in {"pass", "added"} => AllHad
    BY DEF Inv, TurnInv, Turns, LoaderHad
  <2>4. QED
    BY <2>1, <2>2, <2>3 DEF TurnOrder, TurnAt, AllHad, Ended
<1>2. QED
  BY <1>1, Invariance, PTL

-----------------------------------------------------------------------------
(* Slices *)

\* The slices at the start.
LEMMA InitSlices == Init => Slices
  BY DEF Init, M!Init, Slices, Stopped

\* Every step of a CPU keeps Slices, and it takes another process only at the end of a slice.
LEMMA CpuSlices ==
  ASSUME Inv, Slices, NEW c \in Cpu, CpuStep(c)
  PROVE  /\ Slices'
         /\ \A d \in Cpu :
              held'[d] # held[d] /\ held'[d] # NULL => time_left[d] = 0
<1> USE DEF goto
<1>1. TypeOK /\ M!TypeOK /\ NULL \notin Proc
  BY KernelAssumption DEF Inv, TypeOK
<1>2. /\ pc' = [pc EXCEPT ![c] = pc'[c]]
      /\ time_left' = [time_left EXCEPT ![c] = time_left'[c]]
  BY <1>1 DEF CpuStep, TakeTurn, Finish, Put, Get, Run, PassTurn, NextSlot, Stop,
     LeaveOrder, Detach, TypeOK
<1>3. held' = [held EXCEPT ![c] = held'[c]]
  BY <1>1 DEF CpuStep, TakeTurn, Finish, Put, Get, Run, PassTurn, NextSlot, Stop,
     LeaveOrder, Detach, sched, M!TypeOK, M!FinishProc, M!PutProc, M!GetProc,
     M!GetRetry, M!GetNull, M!vars
<1>4. \A d \in Cpu : d # c =>
        pc'[d] = pc[d] /\ time_left'[d] = time_left[d] /\ held'[d] = held[d]
  BY <1>1, <1>2, <1>3 DEF TypeOK, M!TypeOK
<1> DEFINE Fits(x, t, l) ==
             /\ l \in {"get", "getNext"} \/ l \in {"stop", "leave", "detach", "exited"}
                  => x = NULL
             /\ l \in {"finish", "put", "run"} => x # NULL
             /\ x = NULL \/ l = "put" => t = 0
<1>5. Fits(held[c], time_left[c], pc[c])
  BY DEF Slices, Stopped
<1>6. /\ Fits(held'[c], time_left'[c], pc'[c])
      /\ held'[c] # held[c] /\ held'[c] # NULL => time_left[c] = 0
  <2>1. CASE TakeTurn(c)
    BY <1>1, <1>5, <2>1 DEF TakeTurn, sched, TypeOK
  <2>2. CASE Finish(c)
    BY <1>1, <1>5, <2>2 DEF Finish, M!FinishProc, TypeOK, M!TypeOK
  <2>3. CASE Put(c)
    BY <1>1, <1>5, <2>3 DEF Put, M!PutProc, TypeOK, M!TypeOK
  <2>4. CASE Get(c)
    <3>1. CASE M!GetProc(c) /\ pc'[c] = "run"
      <4>1. PICK i \in M!Level :
              mlq_ready_queue[i] # <<>> /\ held'[c] = Head(mlq_ready_queue[i])
        BY <1>1, <3>1 DEF M!GetProc, M!TypeOK
      <4>2. held'[c] # NULL
        BY <1>1, <4>1 DEF M!TypeOK
      <4>3. QED
        BY <1>1, <1>5, <2>4, <3>1, <4>2 DEF Get, M!GetProc
    <3>2. CASE held' = held /\ pc'[c] \in {pc[c], "stop", "idle"}
      BY <1>1, <1>5, <2>4, <3>2 DEF Get
    <3>3. QED
      BY <1>1, <2>4, <3>1, <3>2
         DEF Get, M!GetRetry, M!GetNull, M!vars, TypeOK
  <2>5. CASE Run(c)
    BY <1>1, <1>5, <2>5 DEF Run, sched, TypeOK
  <2>6. CASE \/ PassTurn(c) \/ NextSlot(c) \/ Stop(c) \/ LeaveOrder(c) \/ Detach(c)
    BY <1>1, <1>5, <2>6 DEF PassTurn, NextSlot, Stop, LeaveOrder, Detach, sched, TypeOK
  <2>7. QED
    BY <2>1, <2>2, <2>3, <2>4, <2>5, <2>6 DEF CpuStep
<1>7. QED
  BY <1>4, <1>6 DEF Slices, Stopped

\* So every step keeps Slices.
LEMMA NextSlices ==
  ASSUME Inv, Slices, [Next]_vars
  PROVE  /\ Slices'
         /\ \A d \in Cpu :
              held'[d] # held[d] /\ held'[d] # NULL => time_left[d] = 0
<1>1. CASE UNCHANGED <<held, pc, time_left>>
  BY <1>1 DEF Slices, Stopped
<1>2. LoaderStep \/ TimerTick \/ UNCHANGED vars => UNCHANGED <<held, pc, time_left>>
  BY DEF LoaderStep, LoaderTurn, LoaderPass, LoaderRead, TooEarly, LoadProc, LoaderSignal,
     LoaderNextSlot, LoaderEnd, LoaderDone, LoaderDetach, TimerTick, M!AddProc,
     M!load, vars, sched, cpus
<1>3. QED
  BY <1>1, <1>2, CpuSlices DEF Next

\* A process that a CPU dispatches starts with a slice of its own.
THEOREM SlicesFull == Spec => FullSlice
<1>1. Inv /\ Slices /\ [Next]_vars =>
        /\ Slices'
        /\ [\A c \in Cpu :
              held'[c] # held[c] /\ held'[c] # NULL => time_left[c] = 0]_vars
  BY NextSlices
<1>2. QED
  BY <1>1, Invariance, InitSlices, PTL DEF Spec, FullSlice

-----------------------------------------------------------------------------
(* The end of the threads *)

\* The loader at the start.
LEMMA InitLoaded == Init => Loaded
<1> SUFFICES ASSUME Init PROVE Loaded
  OBVIOUS
<1>1. unborn = Proc /\ ldPc = "start" /\ ldNext = 1 /\ done = FALSE
  BY DEF Init, M!Init
<1>2. DOMAIN processes = 1 .. Len(processes)
  BY KernelAssumption
<1>3. Proc = {processes[k] : k \in DOMAIN processes}
  BY KernelAssumption
<1>4. Proc = {processes[k] : k \in 1 .. Len(processes)}
  BY <1>2, <1>3
<1>5. QED
  BY <1>1, <1>4 DEF Loaded

\* The loader has ended only when it has loaded every process.
LEMMA NextLoaded ==
  ASSUME Inv, Loaded, [Next]_vars
  PROVE  Loaded'
<1>1. CASE LoadProc
  <2>1. /\ ldNext \in 1 .. Len(processes) /\ Len(processes) \in Nat
        /\ ldNext' = ldNext + 1
        /\ unborn' = unborn \ {processes[ldNext]}
        /\ ldPc' = "added" /\ ~ done'
    BY <1>1, KernelAssumption DEF LoadProc, M!AddProc, Loaded
  <2>2. \A k \in 1 .. Len(processes) :
          processes[k] = processes[ldNext] => k = ldNext
    BY <2>1, KernelAssumption DEF IsInjective
  <2>3. unborn' = {processes[k] : k \in (ldNext + 1) .. Len(processes)}
    BY <2>1, <2>2 DEF Loaded
  <2>4. QED
    BY <2>1, <2>3 DEF Loaded
<1>2. CASE LoaderStep /\ ~ LoadProc
  <2>1. UNCHANGED <<unborn, ldNext>>
    BY <1>2 DEF LoaderStep, LoaderTurn, LoaderPass, LoaderRead, TooEarly, LoaderSignal,
       LoaderNextSlot, LoaderEnd, LoaderDone, LoaderDetach, sched, loader,
       M!load
  <2>2. LoaderEnd => ldNext = Len(processes) + 1
    BY ProcCount, KernelAssumption DEF LoaderEnd, Inv, TypeOK
  <2>3. QED
    BY <1>2, <2>1, <2>2 DEF LoaderStep, LoaderTurn, LoaderPass, LoaderRead, TooEarly, LoaderSignal,
       LoaderNextSlot, LoaderEnd, LoaderDone, LoaderDetach, Loaded, loader
<1>3. ASSUME NEW c \in Cpu, CpuStep(c)
      PROVE  UNCHANGED <<unborn, ldNext, ldPc, done>>
  BY <1>3 DEF CpuStep, TakeTurn, Finish, Put, Get, Run, PassTurn, NextSlot, Stop,
     LeaveOrder, Detach, sched, loader, M!FinishProc, M!PutProc, M!GetProc,
     M!GetRetry, M!GetNull, M!vars
<1>4. TimerTick \/ UNCHANGED vars => UNCHANGED <<unborn, ldNext, ldPc, done>>
  BY DEF TimerTick, vars, sched, loader
<1>5. UNCHANGED <<unborn, ldNext, ldPc, done>> => Loaded'
  BY DEF Loaded
<1>6. QED
  BY <1>1, <1>2, <1>3, <1>4, <1>5 DEF Next

\* When done is set, no process is left for the loader.
LEMMA DoneLoaded ==
  ASSUME Loaded, done
  PROVE  unborn = {}
  BY KernelAssumption DEF Loaded

\* The processes of the kernel, as Mlq names their states.
LEMMA SameStates ==
  /\ \A p \in Proc : M!Queued(p) <=> MP!Queued(p)
  /\ \A p \in Proc : MP!Running(p) <=> \E c \in Cpu : held[c] = p
  BY DEF M!Queued, MP!Queued, M!Contains, MP!Contains, M!Level, MP!Level, MP!Running

\* The queues have room for every process, as in the theorems about Mlq.
Capacity == Cardinality(Proc) <= MAX_QUEUE_SIZE

\* Queues that are large enough for the kernel are for its scheduler.
LEMMA SchedulerCapacity == Capacity => MP!Capacity
  BY DEF Capacity, MP!Capacity, Cardinality, MP!Cardinality

\* A CPU in get_proc is the only one there, and the only one in its turn.
LEMMA OneGetting ==
  ASSUME Inv, NEW c \in Cpu, InTurn(c), NEW d \in Cpu, pc[d] = "getNext"
  PROVE  d = c
  BY OneInTurn DEF Inv, InTurn

\* What a stopped CPU knows, at the start.
LEMMA InitStop == Init => StopInv
  BY DEF Init, StopInv, Stopped

\* A CPU stops only when the queues are drained.
LEMMA BeginDraining ==
  ASSUME Inv, NEW c \in Cpu, Get(c), pc'[c] = "stop"
  PROVE  Draining'
<1>1. M!GetNull(c) /\ done
  BY DEF Get, goto, Inv, TypeOK
<1>2. \A p \in Proc : ~ M!Queued(p)
  BY <1>1 DEF M!GetNull, M!Ready, M!Queued, M!Contains
<1>3. UNCHANGED <<mlq_ready_queue, done>>
  BY <1>1 DEF Get, M!GetNull, M!vars, loader
<1>4. QED
  BY <1>1, <1>2, <1>3 DEF Draining, M!Queued

\* The process that is put back is the only one queued then.
LEMMA PutDraining ==
  ASSUME Inv, Draining, NEW c \in Cpu, Put(c)
  PROVE  Draining'
<1>1. \A p \in Proc : ~ M!Queued(p)
  <2>1. InTurn(c) /\ pc[c] # "getNext"
    BY DEF Put, InTurn
  <2>2. QED
    BY <2>1, OneGetting DEF Draining
<1>2. /\ mlq_ready_queue \in [M!Level -> Seq(Proc)]
      /\ prio[held[c]] \in M!Level
      /\ mlq_ready_queue' = [mlq_ready_queue EXCEPT
           ![prio[held[c]]] = M!enqueue(mlq_ready_queue[prio[held[c]]], held[c])]
      /\ held[c] \in Proc
      /\ pc'[c] = "getNext" /\ done' = done
  BY KernelAssumption DEF Inv, TypeOK, M!TypeOK, Put, M!PutProc, goto, loader, M!Level
<1> DEFINE h == held[c]
           q == mlq_ready_queue[prio[h]]
<1>3. \A p \in Proc : M!Contains(M!enqueue(q, h), p) => M!Contains(q, p) \/ p = h
  <2>1. q \in Seq(Proc)
    BY <1>2
  <2>2. \A k \in 1 .. (Len(q) + 1) :
          Append(q, h)[k] = IF k <= Len(q) THEN q[k] ELSE h
    BY <1>2, <2>1
  <2>3. Len(Append(q, h)) = Len(q) + 1 /\ Len(q) \in Nat
    BY <1>2, <2>1
  <2> HIDE DEF q, h
  <2>4. QED
    BY <2>2, <2>3 DEF M!enqueue, M!Contains
<1>4. ASSUME NEW p \in Proc, M!Queued(p)'
      PROVE  p = h
  <2>1. PICK i \in M!Level : M!Contains(mlq_ready_queue'[i], p)
    BY <1>4 DEF M!Queued, M!Level
  <2>2. ~ M!Contains(mlq_ready_queue[i], p)
    BY <1>1 DEF M!Queued
  <2>3. QED
    BY <1>2, <1>3, <2>1, <2>2
<1>5. QED
  BY <1>2, <1>4 DEF Draining

\* It is the one that the CPU gets: then none is queued.
LEMMA GetDraining ==
  ASSUME Inv, Inv', Draining, NEW c \in Cpu, Get(c)
  PROVE  Draining'
<1>1. done' = done /\ InTurn(c)
  BY DEF Get, loader, InTurn
<1>2. CASE M!GetRetry(c) /\ UNCHANGED pc
  BY <1>1, <1>2 DEF Draining, M!GetRetry, M!queues, M!Queued
<1>3. CASE M!GetNull(c)
  <2>1. \A p \in Proc : ~ M!Queued(p)
    BY <1>3 DEF M!GetNull, M!Ready, M!Queued, M!Contains
  <2>2. QED
    BY <1>1, <1>3, <2>1 DEF Draining, M!GetNull, M!vars, M!Queued
<1>4. CASE M!GetProc(c)
  <2>1. PICK i \in M!Level :
          /\ mlq_ready_queue[i] # <<>> /\ mlq_ready_queue[i] \in Seq(Proc)
          /\ held' = [held EXCEPT ![c] = Head(mlq_ready_queue[i])]
          /\ mlq_ready_queue' =
               [mlq_ready_queue EXCEPT ![i] = Tail(mlq_ready_queue[i])]
    BY <1>4 DEF M!GetProc, M!dequeue, Inv, TypeOK, M!TypeOK
  <2> DEFINE q == mlq_ready_queue[i]
  <2>2. /\ Head(q) \in Proc /\ M!Contains(q, Head(q))
        /\ \A p : M!Contains(Tail(q), p) => M!Contains(q, p)
    <3>1. /\ Len(q) \in Nat \ {0} /\ Head(q) = q[1] /\ Head(q) \in Proc
          /\ Len(Tail(q)) = Len(q) - 1
          /\ \A k \in 1 .. (Len(q) - 1) : Tail(q)[k] = q[k + 1]
      BY <2>1
    <3> HIDE DEF q
    <3>2. QED
      BY <3>1 DEF M!Contains
  <2> PICK x \in Proc : x = Head(mlq_ready_queue[i])
    BY <2>2
  <2>3. held'[c] = x
    BY <2>1 DEF Inv, TypeOK, M!TypeOK
  <2>4. \A p \in Proc : M!Queued(p)' => M!Queued(p)
    BY <2>1, <2>2 DEF M!Queued, M!Level, Inv, TypeOK, M!TypeOK
  <2>5. M!Queued(x)
    BY <2>1, <2>2 DEF M!Queued
  <2>6. ~ M!Queued(x)'
    <3>1. MP!Running(x)'
      BY <2>3 DEF MP!Running
    <3>2. ~ MP!Queued(x)'
      BY <3>1 DEF Inv, MP!Inv, MP!NeverDuplicated, MP!OneState
    <3>3. QED
      BY <3>2 DEF M!Queued, MP!Queued, M!Contains, MP!Contains, M!Level, MP!Level
  <2>7. \A p \in Proc : ~ M!Queued(p)'
    BY <2>4, <2>5, <2>6 DEF Draining
  <2>8. QED
    BY <1>1, <2>7 DEF Draining
<1>5. QED
  BY <1>2, <1>3, <1>4 DEF Get

\* From then on every step keeps them so.
LEMMA KeepDraining ==
  ASSUME Inv, Inv', Loaded, Draining, [Next]_vars
  PROVE  Draining'
<1>1. ASSUME UNCHANGED mlq_ready_queue, done',
             \A d \in Cpu : pc[d] = "getNext" => pc'[d] = "getNext"
      PROVE  Draining'
  BY <1>1 DEF Draining, M!Queued
<1>2. ASSUME NEW c \in Cpu, CpuStep(c)
      PROVE  Draining'
  <2>1. CASE \/ TakeTurn(c) \/ Finish(c) \/ Run(c) \/ PassTurn(c) \/ NextSlot(c)
             \/ Stop(c) \/ LeaveOrder(c) \/ Detach(c)
    <3>1. UNCHANGED <<mlq_ready_queue, done>>
      BY <2>1 DEF TakeTurn, Finish, Run, PassTurn, NextSlot, Stop, LeaveOrder, Detach,
         M!FinishProc, M!queues, sched, loader
    <3>2. pc[c] # "getNext" /\ pc' = [pc EXCEPT ![c] = pc'[c]]
      BY <2>1 DEF TakeTurn, Finish, Run, PassTurn, NextSlot, Stop, LeaveOrder, Detach,
         goto, Inv, TypeOK
    <3>3. QED
      BY <1>1, <3>1, <3>2 DEF Inv, TypeOK, Draining
  <2>2. QED
    BY <1>2, <2>1, PutDraining, GetDraining DEF CpuStep
<1>3. CASE LoaderStep
  <2>1. ldPc \in {"detach", "exited"}
    BY DEF Draining, Loaded
  <2>2. UNCHANGED <<mlq_ready_queue, pc, done>>
    BY <1>3, <2>1 DEF LoaderStep, LoaderTurn, LoaderPass, LoaderRead, TooEarly, LoadProc,
       LoaderSignal, LoaderNextSlot, LoaderEnd, LoaderDone, LoaderDetach, sched, cpus
  <2>3. QED
    BY <1>1, <2>2 DEF Draining
<1>4. CASE TimerTick \/ UNCHANGED vars
  BY <1>1, <1>4 DEF TimerTick, vars, sched, cpus, loader, Draining
<1>5. QED
  BY <1>2, <1>3, <1>4 DEF Next

\* So every step keeps StopInv.
LEMMA NextStop ==
  ASSUME Inv, Inv', Loaded, StopInv, [Next]_vars
  PROVE  StopInv'
<1> SUFFICES ASSUME NEW c \in Cpu, Stopped(c)' PROVE Draining'
  BY DEF StopInv
<1>1. CASE \E d \in Cpu : Stopped(d)
  BY <1>1, KeepDraining DEF StopInv
<1>2. CASE ~ Stopped(c)
  <2>1. pc[c] \notin {"stop", "leave", "detach", "exited"}
        /\ pc'[c] \in {"stop", "leave", "detach", "exited"}
    BY <1>2 DEF Stopped
  <2>2. PICK d \in Cpu : CpuStep(d)
    BY <2>1 DEF Next, LoaderStep, LoaderTurn, LoaderPass, LoaderRead, TooEarly, LoadProc,
       LoaderSignal, LoaderNextSlot, LoaderEnd, LoaderDone, LoaderDetach, TimerTick,
       cpus, vars
  <2>3. d = c /\ Get(c) /\ pc'[c] = "stop"
    BY <2>1, <2>2 DEF CpuStep, TakeTurn, Finish, Put, Get, Run, PassTurn, NextSlot, Stop,
       LeaveOrder, Detach, goto, Inv, TypeOK
  <2>4. QED
    BY <2>3, BeginDraining
<1>3. QED
  BY <1>1, <1>2

\* If the queues have room, a CPU's thread ends only when every process is
\* finished or with another CPU.
THEOREM StopsLast ==
  ASSUME Capacity
  PROVE  Spec => []StopsWhenDone
<1> DEFINE All == Inv /\ MP!Complete /\ Slices /\ Loaded /\ StopInv
<1>1. Init => All
  <2>1. Init => MP!Init
    BY DEF Init, M!Init, MP!Init, M!Level, MP!Level
  <2>2. QED
    BY <2>1, MP!InitComplete, SchedulerConstants, InvInit, InitSlices, InitLoaded,
       InitStop
<1>2. All /\ [Next]_vars => All'
  <2> SUFFICES ASSUME All, [Next]_vars PROVE All'
    OBVIOUS
  <2>1. Inv'
    BY InvNext
  <2>2. MP!Complete'
    <3>1. [MP!Next]_(MP!vars)
      BY SchedulerSteps
    <3>2. QED
      BY <3>1, MP!NextComplete, SchedulerConstants, SchedulerCapacity
  <2>3. QED
    BY <2>1, <2>2, NextSlices, NextLoaded, NextStop
<1>3. All => StopsWhenDone
  <2> SUFFICES ASSUME All, NEW c \in Cpu, Stopped(c), NEW p \in Proc
               PROVE  \/ p \in finished
                      \/ \E d \in Cpu \ {c} :
                           held[d] = p \/ (pc[d] = "getNext" /\ M!Queued(p))
    BY DEF StopsWhenDone, Stopped
  <2>1. Draining
    BY DEF StopInv
  <2>2. p \in finished \/ M!Queued(p) \/ \E d \in Cpu : held[d] = p
    BY <2>1, DoneLoaded, SameStates DEF Draining, MP!Complete, MP!NeverLost
  <2>3. held[c] = NULL /\ p # NULL /\ pc[c] # "getNext"
    BY KernelAssumption DEF Slices, Stopped
  <2>4. QED
    BY <2>1, <2>2, <2>3 DEF Draining
<1>4. QED
  BY <1>1, <1>2, <1>3, PTL DEF Spec
===============================================================================
