------------------------------ MODULE MlqProofs ------------------------------
(* Theorems about Mlq, for every number of CPUs, processes and levels. *)
EXTENDS Mlq, TLAPS, SequenceTheorems, FiniteSetTheorems, FunctionTheorems,
        NaturalsInduction, WellFoundedInduction

-----------------------------------------------------------------------------
(* The queues of queue.c *)

\* A set of naturals has a least element.
LEMMA MinOf ==
  ASSUME NEW T \in SUBSET Nat, T # {}
  PROVE  Min(T) \in T
<1>1. PICK m \in T : \A k \in T : ~(<<k, m>> \in OpToRel(<, Nat))
  BY WFMin, NatLessThanWellFounded, Zenon
<1>2. \A k \in T : ~(k < m)
  BY <1>1 DEF OpToRel
<1>3. m \in Nat /\ \A k \in T : k \in Nat
  OBVIOUS
<1>4. \A k \in T : m <= k
  BY <1>2, <1>3
<1>5. QED
  BY <1>4 DEF Min

\* What enqueue does to a queue.
LEMMA EnqueueFacts ==
  ASSUME NEW S, NEW q \in Seq(S), NEW p \in S
  PROVE  /\ enqueue(q, p) \in Seq(S)
         /\ \A x : Contains(enqueue(q, p), x) => x = p \/ Contains(q, x)
         /\ \A x : Contains(q, x) => Contains(enqueue(q, p), x)
         /\ IsInjective(q) /\ ~ Contains(q, p) => IsInjective(enqueue(q, p))
<1>1. CASE Len(q) >= MAX_QUEUE_SIZE
  BY <1>1 DEF enqueue
<1>2. CASE ~ (Len(q) >= MAX_QUEUE_SIZE)
  <2>1. enqueue(q, p) = Append(q, p)
    BY <1>2 DEF enqueue
  <2>2. /\ Append(q, p) \in Seq(S)
        /\ Len(Append(q, p)) = Len(q) + 1
        /\ DOMAIN Append(q, p) = 1 .. (Len(q) + 1)
        /\ \A k \in 1 .. Len(q) : Append(q, p)[k] = q[k]
        /\ Append(q, p)[Len(q) + 1] = p
        /\ DOMAIN q = 1 .. Len(q)
        /\ Len(q) \in Nat
    OBVIOUS
  <2>3. \A k \in 1 .. (Len(q) + 1) : k \in 1 .. Len(q) \/ k = Len(q) + 1
    BY <2>2
  <2>4. IsInjective(q) /\ ~ Contains(q, p) => IsInjective(Append(q, p))
    BY <2>2, <2>3 DEF IsInjective, Contains
  <2>5. \A x : Contains(Append(q, p), x) => x = p \/ Contains(q, x)
    BY <2>2, <2>3 DEF Contains
  <2>6. \A x : Contains(q, x) => Contains(Append(q, p), x)
    BY <2>2 DEF Contains
  <2>7. QED
    BY <2>1, <2>2, <2>4, <2>5, <2>6
<1>3. QED
  BY <1>1, <1>2

\* What dequeue does.
LEMMA DequeueFacts ==
  ASSUME NEW S, NEW q \in Seq(S), q # <<>>
  PROVE  /\ Head(q) \in S
         /\ Tail(q) \in Seq(S)
         /\ Contains(q, Head(q))
         /\ \A x : Contains(Tail(q), x) => Contains(q, x)
         /\ \A x : Contains(q, x) => x = Head(q) \/ Contains(Tail(q), x)
         /\ IsInjective(q) => IsInjective(Tail(q)) /\ ~ Contains(Tail(q), Head(q))
<1>1. /\ Head(q) \in S
      /\ Tail(q) \in Seq(S)
      /\ Len(q) \in Nat \ {0}
      /\ DOMAIN q = 1 .. Len(q)
      /\ DOMAIN Tail(q) = 1 .. Len(Tail(q))
      /\ Len(Tail(q)) = Len(q) - 1
      /\ \A k \in 1 .. Len(Tail(q)) : Tail(q)[k] = q[k + 1]
      /\ Head(q) = q[1]
  BY HeadTailProperties, EmptySeq, LenProperties
<1>2. Contains(q, Head(q))
  BY <1>1 DEF Contains
<1>3. \A x : Contains(Tail(q), x) => Contains(q, x)
  BY <1>1 DEF Contains
<1>4. ASSUME NEW x, Contains(q, x), x # Head(q)
      PROVE  Contains(Tail(q), x)
  <2>1. PICK k \in 1 .. Len(q) : q[k] = x
    BY <1>4 DEF Contains
  <2>2. k - 1 \in 1 .. Len(Tail(q)) /\ Tail(q)[k - 1] = x
    BY <2>1, <1>1, <1>4
  <2>3. QED
    BY <2>2 DEF Contains
<1>5. IsInjective(q) => IsInjective(Tail(q)) /\ ~ Contains(Tail(q), Head(q))
  BY <1>1 DEF IsInjective, Contains
<1>6. QED
  BY <1>1, <1>2, <1>3, <1>4, <1>5

\* The sequence q without its entry at k.
Without(q, k) == SubSeq(q, 1, k - 1) \o SubSeq(q, k + 1, Len(q))

\* Its entries.
LEMMA WithoutFacts ==
  ASSUME NEW S, NEW q \in Seq(S), NEW k \in 1 .. Len(q)
  PROVE  /\ Without(q, k) \in Seq(S)
         /\ Len(Without(q, k)) = Len(q) - 1
         /\ DOMAIN Without(q, k) = 1 .. (Len(q) - 1)
         /\ \A i \in 1 .. (Len(q) - 1) :
              Without(q, k)[i] = IF i < k THEN q[i] ELSE q[i + 1]
<1>1. k \in 1 .. Len(q)
  OBVIOUS
<1>2. /\ Len(q) \in Nat
      /\ DOMAIN q = 1 .. Len(q)
      /\ \A i \in 1 .. Len(q) : q[i] \in S
  OBVIOUS
<1> DEFINE l == SubSeq(q, 1, k - 1)
           r == SubSeq(q, k + 1, Len(q))
<1>3. /\ l \in Seq(S) /\ Len(l) = k - 1
      /\ \A i \in 1 .. (k - 1) : l[i] = q[i]
  BY <1>1, <1>2, SubSeqProperties
<1>4. /\ r \in Seq(S) /\ Len(r) = Len(q) - k
      /\ \A i \in 1 .. (Len(q) - k) : r[i] = q[i + k]
  <2>1. /\ k + 1 \in Int /\ Len(q) \in Int
        /\ \A i \in (k + 1) .. Len(q) : q[i] \in S
    BY <1>1, <1>2
  <2>2. /\ r \in Seq(S)
        /\ Len(r) = IF k + 1 <= Len(q) THEN Len(q) - (k + 1) + 1 ELSE 0
        /\ \A i \in 1 .. (Len(q) - (k + 1) + 1) : r[i] = q[(k + 1) + i - 1]
    BY <2>1, SubSeqProperties
  <2> HIDE DEF r
  <2>3. Len(q) - (k + 1) + 1 = Len(q) - k
    BY <1>1, <1>2
  <2>4. \A i \in 1 .. (Len(q) - k) : (k + 1) + i - 1 = i + k
    BY <1>1, <1>2
  <2>5. Len(r) = Len(q) - k
    <3>1. k \in Int /\ Len(q) \in Int /\ k <= Len(q)
      BY <1>1, <1>2
    <3>2. Len(r) = IF k + 1 <= Len(q) THEN Len(q) - (k + 1) + 1 ELSE 0
      BY <2>2
    <3>3. CASE k < Len(q)
      BY <3>1, <3>2, <3>3
    <3>4. CASE k = Len(q)
      BY <3>1, <3>2, <3>4
    <3>5. QED
      BY <3>1, <3>3, <3>4
  <2>6. ASSUME NEW i \in 1 .. (Len(q) - k)
        PROVE  r[i] = q[i + k]
    <3>1. r[i] = q[(k + 1) + i - 1]
      BY <2>2, <2>3
    <3>2. QED
      BY <3>1, <2>4
  <2>7. QED
    BY <2>2, <2>5, <2>6
<1> DEFINE t == l \o r
<1> HIDE DEF l, r
<1>5. /\ t \in Seq(S)
      /\ Len(t) = Len(q) - 1
      /\ DOMAIN t = 1 .. (Len(q) - 1)
      /\ \A i \in 1 .. (Len(q) - 1) : t[i] = IF i < k THEN q[i] ELSE q[i + 1]
  <2>1. /\ t \in Seq(S)
        /\ Len(t) = Len(l) + Len(r)
        /\ \A i \in 1 .. (Len(l) + Len(r)) :
             t[i] = IF i <= Len(l) THEN l[i] ELSE r[i - Len(l)]
    BY <1>3, <1>4, ConcatProperties, Zenon
  <2> HIDE DEF t
  <2>2. Len(l) + Len(r) = Len(q) - 1
    BY <1>1, <1>2, <1>3, <1>4
  <2>3. ASSUME NEW i \in 1 .. (Len(q) - 1)
        PROVE  t[i] = IF i < k THEN q[i] ELSE q[i + 1]
    <3>1. t[i] = IF i <= Len(l) THEN l[i] ELSE r[i - Len(l)]
      BY <2>1, <2>2
    <3>2. CASE i < k
      BY <3>1, <3>2, <1>1, <1>2, <1>3
    <3>3. CASE ~ (i < k)
      <4>1. i - (k - 1) \in 1 .. (Len(q) - k)
        BY <3>3, <1>1, <1>2
      <4>2. r[i - (k - 1)] = q[(i - (k - 1)) + k]
        BY <4>1, <1>4
      <4>3. (i - (k - 1)) + k = i + 1
        BY <1>1, <1>2
      <4>4. t[i] = r[i - (k - 1)]
        BY <3>1, <3>3, <1>1, <1>2, <1>3
      <4>5. QED
        BY <4>2, <4>3, <4>4, <3>3
    <3>4. QED
      BY <3>2, <3>3
  <2>4. DOMAIN t = 1 .. Len(t)
    BY <2>1, LenProperties
  <2>5. QED
    BY <2>1, <2>2, <2>3, <2>4
<1>6. QED
  BY <1>5 DEF Without, t, l, r

\* purgequeue takes away one entry of a, if there is one.
LEMMA PurgeFacts ==
  ASSUME NEW S, NEW q \in Seq(S), NEW a
  PROVE  /\ purgequeue(q, a) \in Seq(S)
         /\ Contains(q, a) =>
              \E k \in 1 .. Len(q) : q[k] = a /\ purgequeue(q, a) = Without(q, k)
<1>1. CASE ~ Contains(q, a)
  BY <1>1 DEF purgequeue, RemoveFirst, Contains
<1>2. CASE Contains(q, a)
  <2> DEFINE I == {i \in 1 .. Len(q) : q[i] = a}
  <2>1. I \in SUBSET Nat /\ I # {}
    BY <1>2 DEF Contains
  <2>2. Min(I) \in I
    BY <2>1, MinOf
  <2>3. SelectInSeq(q, LAMBDA v : v = a) = Min(I)
    BY <2>1 DEF SelectInSeq
  <2>4. PICK k \in 1 .. Len(q) : k = Min(I) /\ q[k] = a
    BY <2>2
  <2> HIDE DEF I
  <2>5. purgequeue(q, a) = Without(q, k)
    BY <2>3, <2>4 DEF purgequeue, RemoveFirst, RemoveAt, Without
  <2>6. QED
    BY <2>4, <2>5, WithoutFacts
<1>3. QED
  BY <1>1, <1>2

-----------------------------------------------------------------------------
(* No interleaving of the callers duplicates a process *)

\* A published process has a PCB.
Loaded == \A p \in Proc \ unborn : pcb[p] # NULL

Inv == TypeOK /\ NeverDuplicated /\ Loaded

\* The invariant at the start.
LEMMA InitInv == Init => Inv
<1> SUFFICES ASSUME Init PROVE Inv
  OBVIOUS
<1> USE MlqAssumption DEF Init, Level
<1>1. TypeOK
  BY DEF TypeOK
<1>2. \A x : ~ Contains(<<>>, x)
  BY DEF Contains
<1>3. IsInjective(<<>>)
  BY DEF IsInjective
<1>4. NeverDuplicated
  BY <1>2, <1>3 DEF NeverDuplicated, QueuedOnce, RunOnce, OneState, Queued, Running
<1>5. Loaded
  BY DEF Loaded
<1>6. QED
  BY <1>1, <1>4, <1>5 DEF Inv

\* load keeps it.
LEMMA LoadInv ==
  ASSUME Inv, NEW p \in Proc, load(p)
  PROVE  Inv'
<1>1. /\ UNCHANGED <<mlq_ready_queue, running_list, curr_prio, curr_slot, held,
                     unborn, finished>>
      /\ p \in unborn
  BY DEF load, queues
<1>2. PICK a \in Pcb : pcb' = [pcb EXCEPT ![p] = a]
  BY DEF load
<1>3. TypeOK' /\ Loaded'
  BY <1>1, <1>2 DEF Inv, TypeOK, Loaded
<1>4. NeverDuplicated'
  BY <1>1 DEF Inv, NeverDuplicated, QueuedOnce, RunOnce, OneState, Queued,
              Running
<1>5. QED
  BY <1>3, <1>4 DEF Inv

\* add_proc keeps it.
LEMMA AddProcInv ==
  ASSUME Inv, NEW p \in Proc, AddProc(p)
  PROVE  Inv'
<1> DEFINE q == mlq_ready_queue[prio[p]]
<1>1. prio[p] \in Level /\ q \in Seq(Proc) /\ p \in unborn
  BY MlqAssumption DEF AddProc, Inv, TypeOK, Level
<1>2. ~ Queued(p) /\ ~ Running(p) /\ p \notin finished
  BY <1>1 DEF Inv, NeverDuplicated, OneState
<1>3. ~ Contains(q, p)
  BY <1>1, <1>2 DEF Queued
<1>4. /\ enqueue(q, p) \in Seq(Proc)
      /\ \A x : Contains(enqueue(q, p), x) => x = p \/ Contains(q, x)
      /\ IsInjective(enqueue(q, p))
  BY <1>1, <1>3, EnqueueFacts DEF Inv, NeverDuplicated, QueuedOnce
<1> HIDE DEF q
<1>5. /\ DOMAIN mlq_ready_queue = Level
      /\ mlq_ready_queue' =
           [mlq_ready_queue EXCEPT ![prio[p]] = enqueue(q, p)]
  BY DEF AddProc, Inv, TypeOK, q
<1>6. \A i \in Level : mlq_ready_queue'[i] =
         IF i = prio[p] THEN enqueue(q, p) ELSE mlq_ready_queue[i]
  BY <1>5
<1>7. \A x : Queued(x)' => x = p \/ Queued(x)
  BY <1>1, <1>4, <1>6, Zenon DEF Queued, q
<1>8. \A x : Running(x)' <=> Running(x)
  BY DEF Running, AddProc
<1>9. TypeOK'
  BY <1>1, <1>4 DEF Inv, TypeOK, AddProc, q
<1>10. QueuedOnce'
  BY <1>1, <1>4, <1>6 DEF Inv, NeverDuplicated, QueuedOnce, q
<1>11. RunOnce'
  BY DEF Inv, NeverDuplicated, RunOnce, AddProc
<1>12. OneState'
  BY <1>2, <1>7, <1>8 DEF Inv, NeverDuplicated, OneState, AddProc
<1>13. Loaded'
  BY DEF Inv, Loaded, AddProc
<1>14. QED
  BY <1>9, <1>10, <1>11, <1>12, <1>13 DEF Inv, NeverDuplicated

\* put_proc keeps it.
LEMMA PutProcInv ==
  ASSUME Inv, NEW c \in Cpu, PutProc(c)
  PROVE  Inv'
<1> DEFINE p == held[c]
           q == mlq_ready_queue[prio[p]]
<1>1. /\ p \in Proc /\ p # NULL /\ prio[p] \in Level
      /\ q \in Seq(Proc)
  BY MlqAssumption DEF PutProc, Inv, TypeOK, Level
<1>2. Running(p) /\ ~ Queued(p) /\ p \notin unborn \cup finished
  BY <1>1 DEF Inv, NeverDuplicated, OneState, Running
<1>3. ~ Contains(q, p)
  BY <1>1, <1>2 DEF Queued
<1>4. /\ enqueue(q, p) \in Seq(Proc)
      /\ \A x : Contains(enqueue(q, p), x) => x = p \/ Contains(q, x)
      /\ IsInjective(enqueue(q, p))
  BY <1>1, <1>3, EnqueueFacts DEF Inv, NeverDuplicated, QueuedOnce
<1> HIDE DEF p, q
<1>5. running_list' \in Seq(Pcb)
  BY PurgeFacts DEF Inv, TypeOK, PutProc
<1>6. /\ DOMAIN mlq_ready_queue = Level
      /\ mlq_ready_queue' =
           [mlq_ready_queue EXCEPT ![prio[p]] = enqueue(q, p)]
  BY DEF PutProc, Inv, TypeOK, q, p
<1>7. \A i \in Level : mlq_ready_queue'[i] =
         IF i = prio[p] THEN enqueue(q, p) ELSE mlq_ready_queue[i]
  BY <1>6
<1>8. \A x : Queued(x)' => x = p \/ Queued(x)
  BY <1>1, <1>4, <1>7, Zenon DEF Queued, q
<1>9. \A d \in Cpu : held'[d] = IF d = c THEN NULL ELSE held[d]
  BY DEF PutProc, Inv, TypeOK
<1>10. \A x \in Proc : Running(x)' => Running(x) /\ x # p
  <2> SUFFICES ASSUME NEW x \in Proc, Running(x)'
               PROVE  Running(x) /\ x # p
    OBVIOUS
  <2>1. PICK d \in Cpu : held'[d] = x
    BY DEF Running
  <2>2. d # c /\ held[d] = x
    BY <2>1, <1>9, MlqAssumption
  <2>3. x # p
    BY <2>2, <1>1 DEF Inv, NeverDuplicated, RunOnce, p
  <2>4. QED
    BY <2>2, <2>3 DEF Running
<1>11. TypeOK'
  BY <1>1, <1>4, <1>5, <1>6 DEF Inv, TypeOK, PutProc
<1>12. QueuedOnce'
  BY <1>1, <1>4, <1>7 DEF Inv, NeverDuplicated, QueuedOnce, q
<1>13. RunOnce'
  BY <1>9 DEF Inv, NeverDuplicated, RunOnce
<1>14. OneState'
  BY <1>2, <1>8, <1>10 DEF Inv, NeverDuplicated, OneState, PutProc
<1>15. Loaded'
  BY DEF Inv, Loaded, PutProc
<1>16. QED
  BY <1>11, <1>12, <1>13, <1>14, <1>15 DEF Inv, NeverDuplicated

\* The end of a process keeps it.
LEMMA FinishProcInv ==
  ASSUME Inv, NEW c \in Cpu, FinishProc(c)
  PROVE  Inv'
<1>1. held[c] \in Proc /\ Running(held[c]) /\ ~ Queued(held[c])
      /\ held[c] \notin unborn
  BY DEF FinishProc, Inv, TypeOK, NeverDuplicated, OneState, Running
<1>2. \A d \in Cpu : held'[d] = IF d = c THEN NULL ELSE held[d]
  BY DEF FinishProc, Inv, TypeOK
<1>3. \A x \in Proc : Running(x)' => Running(x) /\ x # held[c]
  BY <1>1, <1>2, MlqAssumption
     DEF Running, Inv, NeverDuplicated, RunOnce, FinishProc
<1>4. \A x : Queued(x)' <=> Queued(x)
  BY DEF Queued, FinishProc, queues
<1>5. TypeOK'
  BY <1>1 DEF Inv, TypeOK, FinishProc, queues
<1>6. QueuedOnce' /\ RunOnce' /\ OneState'
  BY <1>1, <1>2, <1>3, <1>4
     DEF Inv, NeverDuplicated, QueuedOnce, RunOnce, OneState, FinishProc, queues
<1>7. Loaded'
  BY DEF Inv, Loaded, FinishProc
<1>8. QED
  BY <1>5, <1>6, <1>7 DEF Inv, NeverDuplicated

\* What GetProc does to the queues, whichever level it serves.
LEMMA GetProcFacts ==
  ASSUME Inv, NEW c \in Cpu, GetProc(c)
  PROVE  \E i \in Level, n \in 1 .. MAX_PRIO, p \in Proc :
           /\ Serves(i, n)
           /\ mlq_ready_queue[i] # <<>>
           /\ p = Head(mlq_ready_queue[i])
           /\ prio[p] = i /\ Queued(p) /\ ~ Running(p)
           /\ p \notin unborn \cup finished
           /\ held[c] = NULL
           /\ held' = [held EXCEPT ![c] = p]
           /\ mlq_ready_queue' = [mlq_ready_queue EXCEPT ![i] = Tail(@)]
           /\ running_list' = enqueue(running_list, pcb[p])
           /\ curr_slot' = n - 1
           /\ curr_prio' = IF n > 1 THEN i ELSE NextLevel(i)
<1>1. PICK i \in Level, n \in 1 .. MAX_PRIO :
        /\ Serves(i, n)
        /\ mlq_ready_queue[i] # <<>>
        /\ held' = [held EXCEPT ![c] = Head(mlq_ready_queue[i])]
        /\ mlq_ready_queue' = [mlq_ready_queue EXCEPT ![i] = Tail(@)]
        /\ running_list' = enqueue(running_list, pcb[Head(mlq_ready_queue[i])])
        /\ curr_slot' = n - 1
        /\ curr_prio' = IF n > 1 THEN i ELSE NextLevel(i)
  BY DEF GetProc, dequeue
<1>2. mlq_ready_queue[i] \in Seq(Proc)
  BY DEF Inv, TypeOK
<1>3. /\ Head(mlq_ready_queue[i]) \in Proc
      /\ Contains(mlq_ready_queue[i], Head(mlq_ready_queue[i]))
  BY <1>1, <1>2, DequeueFacts
<1>4. Queued(Head(mlq_ready_queue[i])) /\ prio[Head(mlq_ready_queue[i])] = i
  BY <1>3 DEF Queued, Inv, NeverDuplicated, QueuedOnce
<1>5. /\ ~ Running(Head(mlq_ready_queue[i]))
      /\ Head(mlq_ready_queue[i]) \notin unborn \cup finished
  BY <1>3, <1>4 DEF Inv, NeverDuplicated, OneState
<1>6. held[c] = NULL
  BY DEF GetProc
<1>7. QED
  BY <1>1, <1>3, <1>4, <1>5, <1>6

\* get_proc keeps it.
LEMMA GetProcInv ==
  ASSUME Inv, NEW c \in Cpu, GetProc(c)
  PROVE  Inv'
<1>1. PICK i \in Level, n \in 1 .. MAX_PRIO, p \in Proc :
           /\ mlq_ready_queue[i] # <<>>
           /\ p = Head(mlq_ready_queue[i])
           /\ prio[p] = i /\ Queued(p) /\ ~ Running(p)
           /\ p \notin unborn \cup finished
           /\ held[c] = NULL
           /\ held' = [held EXCEPT ![c] = p]
           /\ mlq_ready_queue' = [mlq_ready_queue EXCEPT ![i] = Tail(@)]
           /\ running_list' = enqueue(running_list, pcb[p])
           /\ curr_slot' = n - 1
           /\ curr_prio' = IF n > 1 THEN i ELSE NextLevel(i)
  BY GetProcFacts
<1> DEFINE q == mlq_ready_queue[i]
<1>2. q \in Seq(Proc) /\ IsInjective(q) /\ q # <<>>
  BY <1>1 DEF Inv, TypeOK, NeverDuplicated, QueuedOnce
<1>3. /\ Tail(q) \in Seq(Proc)
      /\ IsInjective(Tail(q))
      /\ \A x : Contains(Tail(q), x) => Contains(q, x)
      /\ ~ Contains(Tail(q), p)
  BY <1>1, <1>2, DequeueFacts
<1>4. running_list' \in Seq(Pcb)
  <2>1. pcb[p] \in Pcb
    BY <1>1 DEF Inv, TypeOK, Loaded
  <2>2. QED
    BY <1>1, <2>1, EnqueueFacts DEF Inv, TypeOK
<1>5. \A j \in Level : mlq_ready_queue'[j] = IF j = i THEN Tail(q) ELSE mlq_ready_queue[j]
  BY <1>1 DEF Inv, TypeOK
<1> HIDE DEF q
<1>6. \A x : Queued(x)' => Queued(x) /\ x # p
  <2> SUFFICES ASSUME NEW x, Queued(x)'
               PROVE  Queued(x) /\ x # p
    OBVIOUS
  <2>1. PICK j \in Level : Contains(mlq_ready_queue'[j], x)
    BY DEF Queued
  <2>2. Contains(mlq_ready_queue[j], x)
    BY <2>1, <1>3, <1>5 DEF q
  <2>3. CASE j = i
    BY <2>1, <2>2, <2>3, <1>3, <1>5 DEF Queued
  <2>4. CASE j # i
    <3>1. x # p
      BY <2>2, <2>4, <1>1 DEF Inv, NeverDuplicated, QueuedOnce
    <3>2. QED
      BY <2>2, <3>1 DEF Queued
  <2>5. QED
    BY <2>3, <2>4
<1>7. \A d \in Cpu : held'[d] = IF d = c THEN p ELSE held[d]
  BY <1>1 DEF Inv, TypeOK
<1>8. \A x : Running(x)' => x = p \/ Running(x)
  BY <1>7 DEF Running
<1>9. unborn' = unborn /\ finished' = finished /\ pcb' = pcb
  BY DEF GetProc
<1>10. curr_prio' \in Level /\ curr_slot' \in 0 .. MAX_PRIO
  BY <1>1, MlqAssumption DEF Level, NextLevel
<1>11. TypeOK'
  BY <1>1, <1>3, <1>4, <1>9, <1>10 DEF Inv, TypeOK, q
<1>12. QueuedOnce'
  BY <1>3, <1>5 DEF Inv, NeverDuplicated, QueuedOnce, q
<1>13. RunOnce'
  BY <1>1, <1>7 DEF Inv, NeverDuplicated, RunOnce, Running
<1>14. OneState'
  BY <1>1, <1>6, <1>8, <1>9 DEF Inv, NeverDuplicated, OneState
<1>15. Loaded'
  BY <1>9 DEF Inv, Loaded
<1>16. QED
  BY <1>11, <1>12, <1>13, <1>14, <1>15 DEF Inv, NeverDuplicated

\* So does every step.
LEMMA NextInv == Inv /\ [Next]_vars => Inv'
<1> SUFFICES ASSUME Inv, [Next]_vars PROVE Inv'
  OBVIOUS
<1>0. ASSUME NEW p \in Proc, load(p) PROVE Inv'
  BY <1>0, LoadInv
<1>1. ASSUME NEW p \in Proc, AddProc(p) PROVE Inv'
  BY <1>1, AddProcInv
<1>2. ASSUME NEW c \in Cpu, GetProc(c) PROVE Inv'
  BY <1>2, GetProcInv
<1>3. ASSUME NEW c \in Cpu, PutProc(c) PROVE Inv'
  BY <1>3, PutProcInv
<1>4. ASSUME NEW c \in Cpu, FinishProc(c) PROVE Inv'
  BY <1>4, FinishProcInv
<1>5. ASSUME NEW c \in Cpu, GetRetry(c) PROVE Inv'
  <2>1. UNCHANGED <<mlq_ready_queue, running_list, curr_prio, held, pcb, unborn,
                 finished>>
    BY <1>5 DEF GetRetry, queues
  <2>2. TypeOK'
    BY <1>5, <2>1, MlqAssumption DEF GetRetry, Inv, TypeOK
  <2>3. NeverDuplicated' /\ Loaded'
    BY <2>1 DEF Inv, NeverDuplicated, QueuedOnce, RunOnce, OneState,
                Loaded, Queued, Running
  <2>4. QED
    BY <2>2, <2>3 DEF Inv
<1>6. CASE UNCHANGED vars
  BY <1>6 DEF vars, Inv, TypeOK, NeverDuplicated, QueuedOnce, RunOnce,
              OneState, Loaded, Queued, Running
<1>7. QED
  BY <1>0, <1>1, <1>2, <1>3, <1>4, <1>5, <1>6 DEF Next, CpuStep, GetNull

\* Every reachable state of the scheduler satisfies the inductive invariant.
LEMMA Invariance == Spec => []Inv
  BY InitInv, NextInv, PTL DEF Spec

\* The variables of sched.c, and the clients' view of the PCBs, keep their
\* types.
THEOREM TypeCorrect == Spec => []TypeOK
<1>1. Inv => TypeOK
  BY DEF Inv
<1>2. QED
  BY <1>1, Invariance, PTL

\* However the calls interleave, and even when a full queue drops processes,
\* no PCB is ever queued twice, at a wrong level, on two CPUs, or queued
\* while it runs.
THEOREM NoDuplication == Spec => []NeverDuplicated
<1>1. Inv => NeverDuplicated
  BY DEF Inv
<1>2. QED
  BY <1>1, Invariance, PTL

-----------------------------------------------------------------------------
(* With queues as large as the number of processes, none is lost *)

Capacity == Cardinality(Proc) <= MAX_QUEUE_SIZE

\* A queue without duplicates has room for a process it does not hold.
LEMMA Room ==
  ASSUME Capacity, NEW q \in Seq(Proc), IsInjective(q),
         NEW p \in Proc, ~ Contains(q, p)
  PROVE  enqueue(q, p) = Append(q, p) /\ Contains(enqueue(q, p), p)
<1>1. q \in [1 .. Len(q) -> Proc \ {p}] /\ Len(q) \in Nat
  BY DEF Contains
<1>2. q \in Injection(1 .. Len(q), Proc \ {p})
  BY <1>1 DEF Injection, IsInjective
<1>3. /\ IsFiniteSet(Proc \ {p})
      /\ Cardinality(Proc \ {p}) = Cardinality(Proc) - 1
      /\ Cardinality(Proc) \in Nat
  BY MlqAssumption, FS_RemoveElement, FS_CardinalityType
<1>4. Cardinality(1 .. Len(q)) <= Cardinality(Proc \ {p})
  BY <1>2, <1>3, FS_Injection
<1>5. Cardinality(1 .. Len(q)) = Len(q)
  <2>1. Cardinality(1 .. Len(q)) = IF 1 > Len(q) THEN 0 ELSE Len(q) - 1 + 1
    BY <1>1, FS_Interval
  <2>2. QED
    BY <1>1, <2>1
<1>6. Len(q) < MAX_QUEUE_SIZE
  BY <1>1, <1>3, <1>4, <1>5, MlqAssumption DEF Capacity
<1>7. enqueue(q, p) = Append(q, p)
  <2>1. ~ (Len(q) >= MAX_QUEUE_SIZE)
    BY <1>1, <1>6, MlqAssumption
  <2>2. QED
    BY <2>1, Zenon DEF enqueue
<1>8. Contains(Append(q, p), p)
  <2>1. Len(q) + 1 \in 1 .. Len(Append(q, p)) /\ Append(q, p)[Len(q) + 1] = p
    BY <1>1
  <2>2. QED
    BY <2>1 DEF Contains
<1>9. QED
  BY <1>7, <1>8

Complete == Inv /\ NeverLost /\ RunningTracked

\* The sequence q has one entry for each element of T, which is its address.
Tracks(q, T, at) ==
  \E entry \in Bijection(DOMAIN q, T) :
    \A k \in DOMAIN q : q[k] = at[entry[k]]

\* It is then as long as T is large.
LEMMA TracksLen ==
  ASSUME NEW S, NEW q \in Seq(S), NEW T, NEW at, Tracks(q, T, at)
  PROVE  IsFiniteSet(T) /\ Cardinality(T) = Len(q)
<1>1. PICK entry \in Bijection(DOMAIN q, T) : TRUE
  BY DEF Tracks
<1>2. DOMAIN q = 1 .. Len(q) /\ Len(q) \in Nat
  OBVIOUS
<1>3. IsFiniteSet(1 .. Len(q)) /\ Cardinality(1 .. Len(q)) = Len(q)
  <2>1. /\ IsFiniteSet(1 .. Len(q))
        /\ Cardinality(1 .. Len(q)) = IF 1 > Len(q) THEN 0 ELSE Len(q) - 1 + 1
    BY <1>2, FS_Interval
  <2>2. QED
    BY <1>2, <2>1
<1>4. entry \in Bijection(1 .. Len(q), T)
  BY <1>1, <1>2
<1>5. IsFiniteSet(T) /\ Cardinality(T) = Cardinality(1 .. Len(q))
  BY <1>3, <1>4, FS_Bijection DEF ExistsBijection
<1>6. QED
  BY <1>3, <1>5

\* It takes one more element at its end.
LEMMA TracksAppend ==
  ASSUME NEW S, NEW q \in Seq(S), NEW T, NEW at, Tracks(q, T, at),
         NEW p, p \notin T, at[p] \in S
  PROVE  Tracks(Append(q, at[p]), T \cup {p}, at)
<1>1. PICK f \in Bijection(DOMAIN q, T) : \A k \in DOMAIN q : q[k] = at[f[k]]
  BY DEF Tracks
<1> DEFINE n == Len(q)
           r == Append(q, at[p])
           g == [k \in 1 .. (n + 1) |-> IF k \in 1 .. n THEN f[k] ELSE p]
<1>2. /\ DOMAIN q = 1 .. n /\ n \in Nat
      /\ DOMAIN r = 1 .. (n + 1)
      /\ \A k \in 1 .. n : r[k] = q[k]
      /\ r[n + 1] = at[p]
  OBVIOUS
<1>3. /\ f \in [1 .. n -> T]
      /\ \A a, b \in 1 .. n : f[a] = f[b] => a = b
      /\ \A t \in T : \E k \in 1 .. n : f[k] = t
  BY <1>1, <1>2, Fun_BijectionProperties
<1>4. \A k \in 1 .. (n + 1) : k \in 1 .. n \/ k = n + 1
  BY <1>2
<1>5. ~ (n + 1 \in 1 .. n) /\ n + 1 \in 1 .. (n + 1)
      /\ \A k \in 1 .. n : k \in 1 .. (n + 1)
  BY <1>2
<1> HIDE DEF n, r
<1>6. g \in [1 .. (n + 1) -> T \cup {p}]
  BY <1>3
<1>7. \A a, b \in 1 .. (n + 1) : g[a] = g[b] => a = b
  BY <1>3, <1>4, <1>5
<1>8. \A t \in T \cup {p} : \E k \in 1 .. (n + 1) : g[k] = t
  BY <1>3, <1>5
<1>9. \A k \in 1 .. (n + 1) : r[k] = at[g[k]]
  BY <1>1, <1>2, <1>4, <1>5
<1> HIDE DEF g
<1>10. g \in Bijection(DOMAIN r, T \cup {p})
  BY <1>2, <1>6, <1>7, <1>8, Fun_IsBij
<1>11. Tracks(r, T \cup {p}, at)
  BY <1>2, <1>9, <1>10 DEF Tracks
<1>12. QED
  BY <1>11 DEF r

\* It loses the element p with any of its entries that is the address of p.
LEMMA TracksWithout ==
  ASSUME NEW S, NEW q \in Seq(S), NEW T, NEW at, Tracks(q, T, at),
         NEW p \in T, NEW k \in 1 .. Len(q), q[k] = at[p]
  PROVE  Tracks(Without(q, k), T \ {p}, at)
<1>1. PICK f \in Bijection(DOMAIN q, T) : \A i \in DOMAIN q : q[i] = at[f[i]]
  BY DEF Tracks
<1> DEFINE n == Len(q)
           r == Without(q, k)
<1>2. DOMAIN q = 1 .. n /\ n \in Nat /\ k \in 1 .. n
  OBVIOUS
<1>3. /\ DOMAIN r = 1 .. (n - 1)
      /\ \A i \in 1 .. (n - 1) : r[i] = IF i < k THEN q[i] ELSE q[i + 1]
  BY WithoutFacts
<1> HIDE DEF n, r
<1>4. /\ f \in [1 .. n -> T]
      /\ \A a, b \in 1 .. n : f[a] = f[b] => a = b
      /\ \A t \in T : \E i \in 1 .. n : f[i] = t
  BY <1>1, <1>2, Fun_BijectionProperties
<1>5. PICK j \in 1 .. n : f[j] = p
  BY <1>4
\* The entries k and j are the same address: exchange them.
<1> DEFINE h == [i \in 1 .. n |-> IF i = k THEN p
                                  ELSE IF i = j THEN f[k] ELSE f[i]]
<1>6. /\ h \in [1 .. n -> T]
      /\ \A a, b \in 1 .. n : h[a] = h[b] => a = b
      /\ h[k] = p
  BY <1>2, <1>4, <1>5
<1>7. \A t \in T : \E i \in 1 .. n : h[i] = t
  <2> SUFFICES ASSUME NEW t \in T
               PROVE  \E i \in 1 .. n : h[i] = t
    OBVIOUS
  <2>1. PICK i \in 1 .. n : f[i] = t
    BY <1>4
  <2>2. CASE i = k
    <3>1. h[j] = t
      BY <1>2, <1>5, <2>1, <2>2
    <3>2. QED
      BY <3>1
  <2>3. CASE i = j
    BY <1>2, <1>5, <2>1, <2>3
  <2>4. CASE i # k /\ i # j
    BY <2>1, <2>4
  <2>5. QED
    BY <2>2, <2>3, <2>4
<1>8. \A i \in 1 .. n : q[i] = at[h[i]]
  BY <1>1, <1>2, <1>5
<1> HIDE DEF h
<1> DEFINE g == [i \in 1 .. (n - 1) |-> IF i < k THEN h[i] ELSE h[i + 1]]
<1>9. \A i \in 1 .. (n - 1) : i \in 1 .. n /\ i + 1 \in 1 .. n /\ i \in Int
  BY <1>2
<1>10. g \in [1 .. (n - 1) -> T \ {p}]
  <2> SUFFICES ASSUME NEW i \in 1 .. (n - 1)
               PROVE  (IF i < k THEN h[i] ELSE h[i + 1]) \in T \ {p}
    OBVIOUS
  <2>1. (IF i < k THEN i ELSE i + 1) \in (1 .. n) \ {k}
    BY <1>2, <1>9
  <2>2. \A m \in (1 .. n) \ {k} : h[m] \in T \ {p}
    BY <1>2, <1>6
  <2>3. QED
    BY <2>1, <2>2
<1>11. ASSUME NEW a \in 1 .. (n - 1), NEW b \in 1 .. (n - 1), g[a] = g[b]
       PROVE  a = b
  <2>1. (IF a < k THEN a ELSE a + 1) = (IF b < k THEN b ELSE b + 1)
    BY <1>6, <1>9, <1>11
  <2>2. QED
    BY <1>2, <1>9, <2>1
<1>12. ASSUME NEW t \in T \ {p}
       PROVE  \E i \in 1 .. (n - 1) : g[i] = t
  <2>1. PICK m \in 1 .. n : h[m] = t
    BY <1>7
  <2>2. m # k
    BY <1>6, <2>1
  <2>3. CASE m < k
    <3>1. m \in 1 .. (n - 1) /\ g[m] = t
      BY <1>2, <2>1, <2>3
    <3>2. QED
      BY <3>1
  <2>4. CASE m > k
    <3>1. m - 1 \in 1 .. (n - 1) /\ ~ (m - 1 < k) /\ (m - 1) + 1 = m
      BY <1>2, <2>4
    <3>2. g[m - 1] = t
      BY <2>1, <3>1
    <3>3. QED
      BY <3>1, <3>2
  <2>5. QED
    BY <1>2, <2>2, <2>3, <2>4
<1>13. \A i \in 1 .. (n - 1) : r[i] = at[g[i]]
  BY <1>3, <1>8, <1>9
<1> HIDE DEF g
<1>14. g \in Bijection(DOMAIN r, T \ {p})
  BY <1>3, <1>10, <1>11, <1>12, Fun_IsBij
<1>15. Tracks(r, T \ {p}, at)
  BY <1>3, <1>13, <1>14 DEF Tracks
<1>16. QED
  BY <1>15 DEF r

\* What running_list tracks.
LEMMA RunningTracks ==
  RunningTracked <=> Tracks(running_list, Entered, pcb)
BY DEF RunningTracked, Tracks

\* The tracking does not change while running_list, the processes it has
\* entries for and their addresses do not.
LEMMA TrackedKept ==
  ASSUME RunningTracked, running_list' = running_list, Entered' = Entered,
         \A p \in Entered : pcb'[p] = pcb[p]
  PROVE  RunningTracked'
<1>1. PICK entry \in Bijection(DOMAIN running_list, Entered) :
        \A k \in DOMAIN running_list : running_list[k] = pcb[entry[k]]
  BY DEF RunningTracked
<1>2. \A k \in DOMAIN running_list : entry[k] \in Entered
  BY <1>1, Fun_BijectionProperties
<1>3. \A k \in DOMAIN running_list : running_list[k] = pcb'[entry[k]]
  BY <1>1, <1>2
<1>4. QED
  BY <1>1, <1>3 DEF RunningTracked

\* load loses no process.
LEMMA LoadComplete ==
  ASSUME Complete, NEW p \in Proc, load(p)
  PROVE  /\ NeverLost' /\ RunningTracked'
         /\ UNCHANGED PS!vars
<1>1. /\ UNCHANGED <<mlq_ready_queue, running_list, held, unborn, finished>>
      /\ p \in unborn
      /\ \E a \in Pcb : pcb' = [pcb EXCEPT ![p] = a]
  BY DEF load, queues
<1>2. NeverLost' /\ UNCHANGED PS!vars
  BY <1>1 DEF Complete, NeverLost, Queued, Running, PS!vars
<1>3. Entered' = Entered
  BY <1>1 DEF Entered, Running
<1>4. p \notin Entered
  BY <1>1 DEF Entered, Complete, Inv, NeverDuplicated, OneState
<1>5. \A q \in Entered : pcb'[q] = pcb[q]
  BY <1>1, <1>4 DEF Complete, Inv, TypeOK, Entered
<1>6. QED
  BY <1>1, <1>2, <1>3, <1>5, TrackedKept DEF Complete

\* With room in the queues, add_proc loses no process.
LEMMA AddProcComplete ==
  ASSUME Capacity, Complete, NEW p \in Proc, AddProc(p)
  PROVE  /\ NeverLost' /\ RunningTracked'
         /\ PS!Admit(p)
<1> DEFINE q == mlq_ready_queue[prio[p]]
<1>1. /\ prio[p] \in Level /\ q \in Seq(Proc) /\ IsInjective(q)
      /\ p \in unborn
  BY MlqAssumption
     DEF AddProc, Complete, Inv, TypeOK, Level, NeverDuplicated, QueuedOnce
<1>2. ~ Contains(q, p)
  BY <1>1 DEF Complete, Inv, NeverDuplicated, OneState, Queued
<1>3. /\ enqueue(q, p) = Append(q, p)
      /\ Contains(enqueue(q, p), p)
      /\ \A x : Contains(q, x) => Contains(enqueue(q, p), x)
  BY <1>1, <1>2, Room, EnqueueFacts
<1> HIDE DEF q
<1>4. mlq_ready_queue' = [mlq_ready_queue EXCEPT ![prio[p]] = enqueue(q, p)]
  BY DEF AddProc, q
<1>5. \A i \in Level : mlq_ready_queue'[i] =
         IF i = prio[p] THEN enqueue(q, p) ELSE mlq_ready_queue[i]
  BY <1>4 DEF Complete, Inv, TypeOK
<1>6. Queued(p)' /\ \A x : Queued(x) => Queued(x)'
  BY <1>1, <1>3, <1>5, Zenon DEF Queued, q
<1>7. UNCHANGED <<running_list, held, pcb, finished>> /\ unborn' = unborn \ {p}
  BY DEF AddProc
<1>8. NeverLost' /\ RunningTracked'
  <2>1. NeverLost'
    BY <1>6, <1>7 DEF Complete, NeverLost, Running
  <2>2. Entered' = Entered
    BY <1>7 DEF Entered, Running
  <2>3. QED
    BY <1>7, <2>1, <2>2, TrackedKept DEF Complete
<1>9. PS!Admit(p)
  BY <1>1, <1>3, <1>4, <1>7 DEF PS!Admit, q
<1>10. QED
  BY <1>8, <1>9

\* Nor does put_proc.
LEMMA PutProcComplete ==
  ASSUME Capacity, Complete, NEW c \in Cpu, PutProc(c)
  PROVE  /\ NeverLost' /\ RunningTracked'
         /\ PS!Requeue(c)
<1> DEFINE p == held[c]
           q == mlq_ready_queue[prio[p]]
<1>1. /\ p \in Proc /\ p # NULL /\ prio[p] \in Level
      /\ q \in Seq(Proc) /\ IsInjective(q)
  BY MlqAssumption
     DEF PutProc, Complete, Inv, TypeOK, Level, NeverDuplicated, QueuedOnce
<1>2. ~ Contains(q, p)
  BY <1>1 DEF Complete, Inv, NeverDuplicated, OneState, Queued, Running
<1> HIDE DEF p, q
<1>3. /\ enqueue(q, p) = Append(q, p)
      /\ Contains(enqueue(q, p), p)
      /\ \A x : Contains(q, x) => Contains(enqueue(q, p), x)
  BY <1>1, <1>2, Room, EnqueueFacts
<1>4. /\ mlq_ready_queue' = [mlq_ready_queue EXCEPT ![prio[p]] = enqueue(q, p)]
      /\ held' = [held EXCEPT ![c] = NULL]
      /\ running_list' = purgequeue(running_list, pcb[p])
      /\ UNCHANGED <<pcb, unborn, finished>>
  BY DEF PutProc, p, q
<1>5. \A i \in Level : mlq_ready_queue'[i] =
         IF i = prio[p] THEN enqueue(q, p) ELSE mlq_ready_queue[i]
  BY <1>4 DEF Complete, Inv, TypeOK
<1>6. \A x : x = p \/ Queued(x) => Queued(x)'
  BY <1>1, <1>3, <1>5, Zenon DEF Queued, q
<1>7. \A d \in Cpu : held'[d] = IF d = c THEN NULL ELSE held[d]
  BY <1>4 DEF Complete, Inv, TypeOK
<1>8. \A x \in Proc : Running(x) /\ x # p => Running(x)'
  BY <1>7 DEF Running, p
<1>9. NeverLost'
  BY <1>4, <1>6, <1>8 DEF Complete, NeverLost
<1>10. \A x \in Proc : Running(x)' => Running(x) /\ x # p
  <2> SUFFICES ASSUME NEW x \in Proc, Running(x)'
               PROVE  Running(x) /\ x # p
    OBVIOUS
  <2>1. PICK d \in Cpu : held'[d] = x
    BY DEF Running
  <2>2. d # c /\ held[d] = x
    BY <2>1, <1>7, MlqAssumption
  <2>3. x # p
    BY <2>2, <1>1 DEF Complete, Inv, NeverDuplicated, RunOnce, p
  <2>4. QED
    BY <2>2, <2>3 DEF Running
<1>11. Entered' = Entered \ {p}
  <2>1. \A x \in Proc : Running(x)' <=> Running(x) /\ x # p
    BY <1>8, <1>10
  <2>2. p \notin finished
    BY <1>1 DEF Complete, Inv, NeverDuplicated, OneState, Running, p
  <2>3. QED
    BY <1>4, <2>1, <2>2 DEF Entered
<1>12. RunningTracked'
  <2>1. p \in Entered
    BY <1>1 DEF Entered, Running, p
  <2>2. running_list \in Seq(Pcb) /\ Tracks(running_list, Entered, pcb)
    BY RunningTracks DEF Complete, Inv, TypeOK
  <2>3. Contains(running_list, pcb[p])
    <3>1. PICK f \in Bijection(DOMAIN running_list, Entered) :
            \A k \in DOMAIN running_list : running_list[k] = pcb[f[k]]
      BY <2>2 DEF Tracks
    <3>2. PICK k \in DOMAIN running_list : f[k] = p
      BY <2>1, <3>1, Fun_BijectionProperties
    <3>3. k \in 1 .. Len(running_list) /\ running_list[k] = pcb[p]
      BY <2>2, <3>1, <3>2
    <3>4. QED
      BY <3>3 DEF Contains
  <2>4. PICK k \in 1 .. Len(running_list) :
          /\ running_list[k] = pcb[p]
          /\ purgequeue(running_list, pcb[p]) = Without(running_list, k)
    BY <2>2, <2>3, PurgeFacts
  <2>5. Tracks(Without(running_list, k), Entered \ {p}, pcb)
    BY <2>1, <2>2, <2>4, TracksWithout
  <2>6. Tracks(running_list', Entered', pcb')
    BY <1>4, <1>11, <2>4, <2>5
  <2>7. QED
    BY <2>6 DEF RunningTracked, Tracks
<1>13. PS!Requeue(c)
  BY <1>1, <1>3, <1>4 DEF PS!Requeue, p, q
<1>14. QED
  BY <1>9, <1>12, <1>13

\* Nor does the end of a process.
LEMMA FinishProcComplete ==
  ASSUME Complete, NEW c \in Cpu, FinishProc(c)
  PROVE  /\ NeverLost' /\ RunningTracked'
         /\ PS!Retire(c)
<1>1. /\ held' = [held EXCEPT ![c] = NULL]
      /\ finished' = finished \cup {held[c]}
      /\ UNCHANGED <<mlq_ready_queue, running_list, pcb, unborn>>
  BY DEF FinishProc, queues
<1>2. \A d \in Cpu : held'[d] = IF d = c THEN NULL ELSE held[d]
  BY <1>1 DEF Complete, Inv, TypeOK
<1>3. \A x \in Proc : Running(x) /\ x # held[c] => Running(x)'
  BY <1>2 DEF Running
<1>4. \A x \in Proc : Running(x)' => Running(x)
  BY <1>2, MlqAssumption DEF Running
<1>5. NeverLost'
  BY <1>1, <1>3 DEF Complete, NeverLost, Queued
<1>6. RunningTracked'
  <2>1. held[c] \in Proc /\ Running(held[c])
    BY DEF FinishProc, Complete, Inv, TypeOK, Running
  <2>2. Entered' = Entered
    BY <1>1, <1>3, <1>4, <2>1 DEF Entered
  <2>3. QED
    BY <1>1, <2>2, TrackedKept DEF Complete
<1>7. PS!Retire(c)
  BY <1>1 DEF PS!Retire, FinishProc
<1>8. QED
  BY <1>5, <1>6, <1>7

\* The level that an attempt serves, when it is not empty, is the highest
\* nonempty one: whatever curr_prio and curr_slot are.
LEMMA ServesHighest ==
  ASSUME Inv, NEW i \in Level, NEW n \in 1 .. MAX_PRIO,
         Serves(i, n), mlq_ready_queue[i] # <<>>
  PROVE  \A j \in 0 .. (i - 1) : mlq_ready_queue[j] = <<>>
<1> SUFFICES ASSUME NEW j \in 0 .. (i - 1), mlq_ready_queue[j] # <<>>
             PROVE  FALSE
  OBVIOUS
<1>1. /\ MAX_PRIO \in Nat \ {0} /\ curr_prio \in Level
      /\ i \in Int /\ j \in Int /\ j < i /\ curr_prio \in Int
  BY MlqAssumption DEF Inv, TypeOK, Level
<1>2. j \in Ready
  BY <1>1 DEF Ready, Level
<1>3. CASE /\ i \in Higher
           /\ \A k \in Higher : i <= k
  BY <1>1, <1>2, <1>3 DEF Higher
<1>4. CASE Higher = {} /\ \A k \in Ready : ScanDistance(i) <= ScanDistance(k)
  <2>1. ~ (j < curr_prio)
    BY <1>2, <1>4 DEF Higher
  <2>2. ScanDistance(i) <= ScanDistance(j)
    BY <1>2, <1>4
  <2>3. QED
    BY <1>1, <2>1, <2>2 DEF ScanDistance
<1>5. CASE Higher = {} /\ i = curr_prio
  BY <1>1, <1>2, <1>5 DEF Higher
<1>6. QED
  BY <1>3, <1>4, <1>5 DEF Serves

\* Nor does get_proc.
LEMMA GetProcComplete ==
  ASSUME Capacity, Complete, NEW c \in Cpu, GetProc(c)
  PROVE  /\ NeverLost' /\ RunningTracked'
         /\ PS!Dispatch(c)
<1>1. PICK i \in Level, n \in 1 .. MAX_PRIO, p \in Proc :
           /\ Serves(i, n)
           /\ mlq_ready_queue[i] # <<>>
           /\ p = Head(mlq_ready_queue[i])
           /\ ~ Running(p) /\ p \notin unborn \cup finished
           /\ held[c] = NULL
           /\ held' = [held EXCEPT ![c] = p]
           /\ mlq_ready_queue' = [mlq_ready_queue EXCEPT ![i] = Tail(@)]
           /\ running_list' = enqueue(running_list, pcb[p])
  BY GetProcFacts DEF Complete
<1> DEFINE q == mlq_ready_queue[i]
<1>2. q \in Seq(Proc)
  BY DEF Complete, Inv, TypeOK
<1>3. \A x : Contains(q, x) => x = p \/ Contains(Tail(q), x)
  BY <1>1, <1>2, DequeueFacts
<1>4. \A j \in Level : mlq_ready_queue'[j] = IF j = i THEN Tail(q) ELSE mlq_ready_queue[j]
  BY <1>1 DEF Complete, Inv, TypeOK
<1> HIDE DEF q
<1>5. \A x : Queued(x) => x = p \/ Queued(x)'
  <2> SUFFICES ASSUME NEW x, Queued(x), x # p
               PROVE  Queued(x)'
    OBVIOUS
  <2>1. PICK j \in Level : Contains(mlq_ready_queue[j], x)
    BY DEF Queued
  <2>2. Contains(mlq_ready_queue'[j], x)
    BY <2>1, <1>3, <1>4 DEF q
  <2>3. QED
    BY <2>2 DEF Queued
<1>6. \A d \in Cpu : held'[d] = IF d = c THEN p ELSE held[d]
  BY <1>1 DEF Complete, Inv, TypeOK
<1>7. Running(p)' /\ \A x \in Proc : Running(x) => Running(x)'
  BY <1>1, <1>6, MlqAssumption DEF Running
<1>8. \A x \in Proc : Running(x)' => x = p \/ Running(x)
  BY <1>6 DEF Running
<1>9. UNCHANGED <<pcb, unborn, finished>>
  BY DEF GetProc
<1>10. NeverLost'
  BY <1>5, <1>7, <1>9 DEF Complete, NeverLost
<1>11. Entered' = Entered \cup {p} /\ p \notin Entered
  BY <1>1, <1>7, <1>8, <1>9 DEF Entered
<1>12. RunningTracked'
  <2>1. running_list \in Seq(Pcb) /\ Tracks(running_list, Entered, pcb)
    BY RunningTracks DEF Complete, Inv, TypeOK
  <2>2. pcb[p] \in Pcb
    BY <1>1 DEF Complete, Inv, TypeOK, Loaded
  <2>3. Len(running_list) < MAX_QUEUE_SIZE
    <3>1. IsFiniteSet(Entered) /\ Cardinality(Entered) = Len(running_list)
      BY <2>1, TracksLen
    <3>2. Entered \cup {p} \in SUBSET Proc /\ IsFiniteSet(Proc)
      BY MlqAssumption DEF Entered
    <3>3. Cardinality(Entered \cup {p}) <= Cardinality(Proc)
      BY <3>2, FS_Subset
    <3>4. Cardinality(Entered \cup {p}) = Cardinality(Entered) + 1
      BY <1>11, <3>1, FS_AddElement
    <3>5. Cardinality(Proc) \in Nat /\ Len(running_list) \in Nat
      BY <2>1, MlqAssumption, FS_CardinalityType
    <3>6. QED
      BY <3>1, <3>3, <3>4, <3>5, MlqAssumption DEF Capacity
  <2>4. running_list' = Append(running_list, pcb[p])
    <3>1. Len(running_list) \in Nat /\ MAX_QUEUE_SIZE \in Nat
      BY <2>1, MlqAssumption
    <3>2. ~ (Len(running_list) >= MAX_QUEUE_SIZE)
      BY <2>3, <3>1
    <3>3. QED
      BY <1>1, <3>2, Zenon DEF enqueue
  <2>5. Tracks(Append(running_list, pcb[p]), Entered \cup {p}, pcb)
    BY <1>11, <2>1, <2>2, TracksAppend
  <2>6. Tracks(running_list', Entered', pcb')
    BY <1>9, <1>11, <2>4, <2>5
  <2>7. QED
    BY <2>6 DEF RunningTracked, Tracks
<1>13. \A j \in 0 .. (i - 1) : mlq_ready_queue[j] = <<>>
  BY <1>1, ServesHighest DEF Complete
<1>14. PS!Dispatch(c)
  BY <1>1, <1>9, <1>13 DEF PS!Dispatch, PS!Level, Level
<1>15. QED
  BY <1>10, <1>12, <1>14

\* So no step does.
LEMMA NextComplete ==
  ASSUME Capacity, Complete, [Next]_vars
  PROVE  Complete' /\ [PS!Next]_(PS!vars)
<1>1. Inv'
  BY NextInv DEF Complete
<1>0. ASSUME NEW p \in Proc, load(p)
      PROVE  NeverLost' /\ RunningTracked' /\ UNCHANGED PS!vars
  BY <1>0, LoadComplete
<1>2. ASSUME NEW p \in Proc, AddProc(p)
      PROVE  NeverLost' /\ RunningTracked' /\ PS!Next
  BY <1>2, AddProcComplete DEF PS!Next
<1>3. ASSUME NEW c \in Cpu, GetProc(c)
      PROVE  NeverLost' /\ RunningTracked' /\ PS!Next
  BY <1>3, GetProcComplete DEF PS!Next
<1>4. ASSUME NEW c \in Cpu, PutProc(c)
      PROVE  NeverLost' /\ RunningTracked' /\ PS!Next
  BY <1>4, PutProcComplete DEF PS!Next
<1>5. ASSUME NEW c \in Cpu, FinishProc(c)
      PROVE  NeverLost' /\ RunningTracked' /\ PS!Next
  BY <1>5, FinishProcComplete DEF PS!Next
<1>6. ASSUME UNCHANGED <<queues, held, pcb, unborn, finished>>
      PROVE  NeverLost' /\ RunningTracked' /\ UNCHANGED PS!vars
  <2>1. NeverLost' /\ UNCHANGED PS!vars
    BY <1>6 DEF queues, Complete, NeverLost, Queued, Running, PS!vars
  <2>2. Entered' = Entered
    BY <1>6 DEF Entered, Running
  <2>3. QED
    BY <1>6, <2>1, <2>2, TrackedKept DEF Complete, queues
<1>7. ASSUME NEW c \in Cpu, GetRetry(c)
      PROVE  UNCHANGED <<queues, held, pcb, unborn, finished>>
  BY <1>7 DEF GetRetry
<1>8. UNCHANGED vars => UNCHANGED <<queues, held, pcb, unborn, finished>>
  BY DEF vars, queues
<1>9. QED
  BY <1>0, <1>1, <1>2, <1>3, <1>4, <1>5, <1>6, <1>7, <1>8
     DEF Complete, Next, CpuStep, GetNull

\* At the start no process is lost, and the abstract scheduler is at its start.
LEMMA InitComplete == Init => Complete /\ PS!Init
<1> SUFFICES ASSUME Init PROVE Complete /\ PS!Init
  OBVIOUS
<1>1. Inv
  BY InitInv
<1>2. NeverLost /\ RunningTracked
  <2>1. NeverLost
    BY MlqAssumption DEF Init, NeverLost
  <2>2. Entered = {} /\ running_list = <<>>
    BY MlqAssumption DEF Init, Entered, Running
  <2>3. DOMAIN running_list = {}
    BY <2>2
  <2> DEFINE f == [k \in {} |-> k]
  <2>4. f \in [{} -> {}]
    OBVIOUS
  <2>5. f \in Bijection({}, {})
    BY <2>4, Fun_IsBij
  <2>6. QED
    BY <2>1, <2>2, <2>3, <2>5 DEF RunningTracked
<1>3. PS!Init
  BY DEF Init, PS!Init, PS!Level, Level
<1>4. QED
  BY <1>1, <1>2, <1>3 DEF Complete

\* When no queue can fill up, no process is lost between the loader, the
\* ready queues and the CPUs.
THEOREM NoLoss ==
  ASSUME Capacity
  PROVE  Spec => []NeverLost
<1>1. Complete /\ [Next]_vars => Complete'
  BY NextComplete
<1>2. Complete => NeverLost
  BY DEF Complete
<1>3. QED
  BY InitComplete, <1>1, <1>2, PTL DEF Spec

\* When no queue can fill up, running_list has one entry, the address of the
\* PCB, for each process that a CPU runs and one for each that was freed, and
\* no other, whichever freed addresses malloc gives to the processes loaded
\* later.
THEOREM RunningListTracks ==
  ASSUME Capacity
  PROVE  Spec => []RunningTracked
<1>1. Complete /\ [Next]_vars => Complete'
  BY NextComplete
<1>2. Complete => RunningTracked
  BY DEF Complete
<1>3. QED
  BY InitComplete, <1>1, <1>2, PTL DEF Spec

\* When no queue can fill up, get_proc comes to strict priorities: it
\* returns the oldest process of the highest nonempty level, whatever the
\* slot counters say and whatever happens between its attempts.
THEOREM ImplementsStrictPriority ==
  ASSUME Capacity
  PROVE  Spec => StrictPriority
<1>1. Complete /\ [Next]_vars => Complete' /\ [PS!Next]_(PS!vars)
  BY NextComplete
<1>2. QED
  BY InitComplete, <1>1, PTL DEF Spec, StrictPriority, PS!Spec
=============================================================================
