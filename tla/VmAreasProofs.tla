----------------------------- MODULE VmAreasProofs -----------------------------
(***************************************************************************)
(* Proofs about the areas of an address space, for every number of areas,  *)
(* of ids and of addresses.                                                *)
(***************************************************************************)
EXTENDS VmAreas, TLAPS, FiniteSetTheorems, SequenceTheorems, FunctionTheorems,
        NaturalsInduction, WellFoundedInduction

-----------------------------------------------------------------------------
(* Numbers                                                                   *)

\* A set of naturals has a least element.
LEMMA MinOf ==
  ASSUME NEW T \in SUBSET Nat, T # {}
  PROVE  Min(T) \in T /\ \A k \in T : Min(T) <= k
<1>1. PICK m \in T : \A k \in T : ~(<<k, m>> \in OpToRel(<, Nat))
  BY WFMin, NatLessThanWellFounded, Zenon
<1>2. \A k \in T : ~(k < m)
  BY <1>1 DEF OpToRel
<1>3. m \in Nat /\ \A k \in T : k \in Nat
  OBVIOUS
<1>4. \A k \in T : m <= k
  BY <1>2, <1>3
<1>5. QED
  BY <1>4 DEF Min

\* The numbers from a to b.
LEMMA CountFrom ==
  ASSUME NEW n \in Nat
  PROVE  Cardinality(1 .. n) = n /\ Cardinality(0 .. (n - 1)) = n
         /\ IsFiniteSet(1 .. n)
<1>1. 1 \in Int /\ n \in Int /\ 0 \in Int /\ n - 1 \in Int
  OBVIOUS
<1>2. /\ Cardinality(1 .. n) = IF 1 > n THEN 0 ELSE n - 1 + 1
      /\ IsFiniteSet(1 .. n)
  BY <1>1, FS_Interval, Zenon
<1>3. Cardinality(0 .. (n - 1)) = IF 0 > n - 1 THEN 0 ELSE (n - 1) - 0 + 1
  BY <1>1, FS_Interval, Zenon
<1>4. QED
  BY <1>2, <1>3

-----------------------------------------------------------------------------
(* Links                                                                     *)

\* L has the n areas of f that vm_next leads to from the first, each once.
Chain(f, first, n, L) ==
  /\ \A i \in 1 .. n : L[i] \in DOMAIN f
  /\ \A i, j \in 1 .. n : L[i] = L[j] => i = j
  /\ first = IF n = 0 THEN NULL ELSE L[1]
  /\ \A i \in 1 .. n : f[L[i]].vm_next = IF i < n THEN L[i + 1] ELSE NULL

\* It has them in the order of their ids, which differ.
Sorted(f, n, L) == \A i, j \in 1 .. n : i < j => f[L[i]].vm_id < f[L[j]].vm_id

Members(n, L) == {L[i] : i \in 1 .. n}

\* A chain of the areas in S, sorted if it should be.
ChainOf(f, first, n, L, S, sorted) ==
  Chain(f, first, n, L) /\ Members(n, L) = S /\ (sorted => Sorted(f, n, L))

\* There are no more areas in a list than nodes.
LEMMA ChainFits ==
  ASSUME NEW n \in Nat, NEW L \in [1 .. n -> Node],
         \A i, j \in 1 .. n : L[i] = L[j] => i = j
  PROVE  n <= MaxNodes
<1>1. MaxNodes \in Nat
  BY VmAreasAssumption
<1>2. L \in Injection(1 .. n, Node)
  BY DEF Injection, IsInjective
<1>4. IsFiniteSet(Node) /\ Cardinality(Node) = MaxNodes
  BY <1>1, CountFrom DEF Node
<1>5. Cardinality(1 .. n) <= Cardinality(Node)
  BY <1>2, <1>4, FS_Injection
<1>6. QED
  BY <1>4, <1>5, CountFrom

\* What the list is when it is a chain.
LEMMA ListIs ==
  ASSUME NEW n \in Nat, NEW L \in [1 .. n -> Node], Chain(area, mmap, n, L)
  PROVE  List = L /\ Len(List) = n /\ DOMAIN List = 1 .. n
<1> DEFINE F == [k \in 0 .. MaxNodes |-> IF k < n THEN L[k + 1] ELSE NULL]
           Is(b) == b = [k \in 0 .. MaxNodes |->
                           IF k = 0 THEN mmap
                           ELSE IF b[k - 1] = NULL THEN NULL ELSE area[b[k - 1]].vm_next]
<1>1. n <= MaxNodes /\ MaxNodes \in Nat
  BY ChainFits, VmAreasAssumption DEF Chain
<1>2. \A i \in 1 .. n : L[i] # NULL
  BY DEF Node, NULL
<1>3. Is(F)
  <2>1. ASSUME NEW k \in 0 .. MaxNodes
        PROVE  F[k] = IF k = 0 THEN mmap
                      ELSE IF F[k - 1] = NULL THEN NULL ELSE area[F[k - 1]].vm_next
    <3>1. CASE k = 0
      BY <1>1, <3>1 DEF Chain
    <3>2. CASE k # 0 /\ k - 1 < n
      <4>1. k - 1 \in 0 .. MaxNodes /\ k \in 1 .. n /\ (k - 1) + 1 = k
        BY <1>1, <3>2
      <4>2. F[k - 1] = L[k] /\ L[k] # NULL
        BY <1>2, <3>2, <4>1
      <4>3. area[L[k]].vm_next = IF k < n THEN L[k + 1] ELSE NULL
        BY <4>1 DEF Chain
      <4>4. QED
        BY <3>2, <4>2, <4>3
    <3>3. CASE k # 0 /\ ~(k - 1 < n)
      <4>1. k - 1 \in 0 .. MaxNodes /\ ~(k < n)
        BY <1>1, <3>3
      <4>2. F[k - 1] = NULL /\ F[k] = NULL
        BY <3>3, <4>1
      <4>3. QED
        BY <3>3, <4>2
    <3>4. QED
      BY <3>1, <3>2, <3>3
  <2>2. QED
    BY <2>1
<1>4. Behind = CHOOSE b : Is(b)
  BY DEF Behind
<1>5. Is(Behind)
  <2> HIDE DEF Is
  <2>1. QED
    BY <1>3, <1>4
<1>6. \A k \in 0 .. MaxNodes : Behind[k] = F[k]
  <2> DEFINE T == {k \in 0 .. MaxNodes : Behind[k] # F[k]}
  <2> SUFFICES ASSUME T # {} PROVE FALSE
    OBVIOUS
  <2>1. T \in SUBSET Nat
    OBVIOUS
  <2>2. PICK m \in T : \A k \in T : m <= k
    <3> HIDE DEF T
    <3>1. QED
      BY <2>1, MinOf
  <2>3. m \in 0 .. MaxNodes /\ Behind[m] # F[m]
    OBVIOUS
  <2>4. m # 0
    <3> HIDE DEF F, T
    <3>1. 0 \in 0 .. MaxNodes
      BY <1>1
    <3>2. Behind[0] = mmap
      BY <1>5, <3>1
    <3>3. F[0] = mmap
      BY <1>3, <3>1
    <3>4. QED
      BY <2>3, <3>2, <3>3
  <2>5. m - 1 \in 0 .. MaxNodes /\ m - 1 \notin T
    BY <1>1, <2>2, <2>3, <2>4
  <2>6. Behind[m - 1] = F[m - 1]
    BY <2>5
  <2> HIDE DEF F, T
  <2>7. /\ F[m] = IF F[m - 1] = NULL THEN NULL ELSE area[F[m - 1]].vm_next
        /\ Behind[m] = IF Behind[m - 1] = NULL THEN NULL ELSE area[Behind[m - 1]].vm_next
    BY <1>3, <1>5, <2>3, <2>4
  <2>8. QED
    BY <2>3, <2>6, <2>7
<1>7. \A k \in 0 .. MaxNodes : Behind[k] = IF k < n THEN L[k + 1] ELSE NULL
  BY <1>6
<1>8. Steps = 0 .. (n - 1)
  <2>1. ASSUME NEW k \in 0 .. (MaxNodes - 1)
        PROVE  Behind[k] # NULL <=> k < n
    <3>1. k \in 0 .. MaxNodes /\ Behind[k] = IF k < n THEN L[k + 1] ELSE NULL
      BY <1>1, <1>7
    <3>2. k < n => k + 1 \in 1 .. n
      OBVIOUS
    <3>3. QED
      BY <1>2, <3>1, <3>2
  <2>2. QED
    BY <1>1, <2>1 DEF Steps
<1>9. List = [k \in 1 .. n |-> Behind[k - 1]]
  BY <1>8, CountFrom DEF List
<1>10. ASSUME NEW k \in 1 .. n PROVE Behind[k - 1] = L[k]
  BY <1>1, <1>7
<1>11. List = L
  BY <1>9, <1>10
<1>12. QED
  BY <1>11

\* f2 has node x linked behind the first k areas of a chain.
LinkedBehind(n, L, f, first, k, x, f2, first2) ==
  /\ k \in 0 .. n
  /\ x \in Node
  /\ \A i \in 1 .. n : L[i] # x
  /\ DOMAIN f2 = DOMAIN f \cup {x}
  /\ \A i \in 1 .. n : f2[L[i]].vm_id = f[L[i]].vm_id
  /\ \A i \in 1 .. n : i # k => f2[L[i]].vm_next = f[L[i]].vm_next
  /\ k # 0 => f2[L[k]].vm_next = x
  /\ f2[x].vm_next = IF k = 0 THEN first ELSE f[L[k]].vm_next
  /\ \A i \in 1 .. n : f2[x].vm_id \in Int /\ f[L[i]].vm_id \in Int
  /\ first2 = IF k = 0 THEN x ELSE first

\* This is where its id belongs.
Placed(n, L, f, k, id) ==
  /\ \A i \in 1 .. k : f[L[i]].vm_id < id
  /\ \A i \in 1 .. n : k < i => id < f[L[i]].vm_id

\* It is a chain again, and sorted if it was and the node is in its place.
LEMMA ChainWith ==
  ASSUME NEW n \in Nat, NEW L \in [1 .. n -> Node], NEW f, NEW first, Chain(f, first, n, L),
         NEW k, NEW x, NEW f2, NEW first2, LinkedBehind(n, L, f, first, k, x, f2, first2)
  PROVE  \E M \in [1 .. (n + 1) -> Node] :
           ChainOf(f2, first2, n + 1, M, Members(n, L) \cup {x},
                   Sorted(f, n, L) /\ Placed(n, L, f, k, f2[x].vm_id))
<1> USE DEF LinkedBehind
<1> DEFINE From(i) == IF i <= k THEN i ELSE i - 1
           M == [i \in 1 .. (n + 1) |-> IF i = k + 1 THEN x ELSE L[From(i)]]
<1>1. \A i \in 1 .. (n + 1) : i # k + 1 => From(i) \in 1 .. n
  OBVIOUS
<1>2. M \in [1 .. (n + 1) -> Node]
  BY <1>1
<1>3. \A i \in 1 .. (n + 1) : M[i] = IF i = k + 1 THEN x ELSE L[From(i)]
  OBVIOUS
<1> HIDE DEF M
<1>4. \A i \in 1 .. (n + 1) : M[i] \in DOMAIN f2
  BY <1>1, <1>3 DEF Chain
<1>5. ASSUME NEW i \in 1 .. (n + 1), NEW j \in 1 .. (n + 1), M[i] = M[j] PROVE i = j
  <2>1. CASE i = k + 1 \/ j = k + 1
    BY <1>1, <1>3, <1>5, <2>1
  <2>2. CASE i # k + 1 /\ j # k + 1
    <3>1. From(i) = From(j)
      BY <1>1, <1>3, <1>5, <2>2 DEF Chain
    <3>2. QED
      BY <2>2, <3>1
  <2>3. QED
    BY <2>1, <2>2
<1>6. first2 = M[1]
  <2>1. CASE k = 0
    BY <1>3, <2>1
  <2>2. CASE k # 0
    BY <1>3, <2>2 DEF Chain
  <2>3. QED
    BY <2>1, <2>2
<1>7. ASSUME NEW i \in 1 .. (n + 1)
      PROVE  f2[M[i]].vm_next = IF i < n + 1 THEN M[i + 1] ELSE NULL
  <2>1. CASE i = k + 1
    <3>1. f2[M[i]].vm_next = IF k = 0 THEN first ELSE f[L[k]].vm_next
      BY <1>3, <2>1
    <3>2. (IF k = 0 THEN first ELSE f[L[k]].vm_next) = IF k < n THEN L[k + 1] ELSE NULL
      BY DEF Chain
    <3>3. i < n + 1 => M[i + 1] = L[k + 1]
      <4>1. i < n + 1 => i + 1 \in 1 .. (n + 1) /\ i + 1 # k + 1 /\ From(i + 1) = k + 1
        BY <2>1
      <4>2. QED
        BY <1>3, <4>1
    <3>4. QED
      BY <2>1, <3>1, <3>2, <3>3
  <2>2. CASE i = k
    <3>1. i \in 1 .. n /\ M[i] = L[k] /\ i + 1 \in 1 .. (n + 1) /\ M[i + 1] = x
      BY <1>3, <2>2
    <3>2. QED
      BY <2>2, <3>1
  <2>3. CASE i # k /\ i # k + 1
    <3>1. PICK j \in 1 .. n : j = From(i) /\ M[i] = L[j] /\ j # k
      BY <1>1, <1>3, <2>3
    <3>2. f2[M[i]].vm_next = IF j < n THEN L[j + 1] ELSE NULL
      BY <3>1 DEF Chain
    <3>3. j < n <=> i < n + 1
      BY <2>3, <3>1
    <3>4. i < n + 1 => M[i + 1] = L[j + 1]
      <4>1. i < n + 1 => i + 1 \in 1 .. (n + 1) /\ i + 1 # k + 1 /\ From(i + 1) = j + 1
        BY <2>3, <3>1
      <4>2. QED
        BY <1>3, <4>1
    <3>5. QED
      BY <3>2, <3>3, <3>4
  <2>4. QED
    BY <2>1, <2>2, <2>3
<1>8. ASSUME Sorted(f, n, L), Placed(n, L, f, k, f2[x].vm_id),
             NEW i \in 1 .. (n + 1), NEW j \in 1 .. (n + 1), i < j
      PROVE  f2[M[i]].vm_id < f2[M[j]].vm_id
  <2>1. CASE i = k + 1
    <3>1. PICK b \in 1 .. n : b = From(j) /\ M[j] = L[b] /\ k < b
      <4>1. j # k + 1 /\ ~(j <= k) /\ From(j) = j - 1 /\ k < From(j)
        BY <1>8, <2>1
      <4>2. QED
        BY <1>1, <1>3, <4>1
    <3>2. QED
      BY <1>3, <1>8, <2>1, <3>1 DEF Placed
  <2>2. CASE j = k + 1
    <3>1. i \in 1 .. k /\ i \in 1 .. n /\ M[i] = L[i]
      BY <1>3, <1>8, <2>2
    <3>2. QED
      BY <1>3, <1>8, <2>2, <3>1 DEF Placed
  <2>3. CASE i # k + 1 /\ j # k + 1
    <3>1. PICK a \in 1 .. n, b \in 1 .. n : M[i] = L[a] /\ M[j] = L[b] /\ a < b
      <4>1. From(i) \in 1 .. n /\ From(j) \in 1 .. n /\ From(i) < From(j)
        BY <1>8, <2>3
      <4>2. QED
        BY <1>3, <2>3, <4>1
    <3>2. QED
      BY <1>8, <3>1 DEF Sorted
  <2>4. QED
    BY <2>1, <2>2, <2>3
<1>9. Members(n + 1, M) = Members(n, L) \cup {x}
  <2>1. ASSUME NEW i \in 1 .. (n + 1) PROVE M[i] \in {L[j] : j \in 1 .. n} \cup {x}
    BY <1>1, <1>3
  <2>2. k + 1 \in 1 .. (n + 1) /\ M[k + 1] = x
    BY <1>3
  <2>3. ASSUME NEW j \in 1 .. n PROVE \E i \in 1 .. (n + 1) : M[i] = L[j]
    <3>1. CASE j <= k
      <4>1. j \in 1 .. (n + 1) /\ j # k + 1 /\ From(j) = j
        BY <3>1
      <4>2. QED
        BY <1>3, <4>1
    <3>2. CASE ~(j <= k)
      <4>1. j + 1 \in 1 .. (n + 1) /\ j + 1 # k + 1 /\ From(j + 1) = j
        BY <3>2
      <4>2. QED
        BY <1>3, <4>1
    <3>3. QED
      BY <3>1, <3>2
  <2>4. Members(n + 1, M) \subseteq Members(n, L) \cup {x}
    BY <2>1 DEF Members
  <2>5. ASSUME NEW z \in Members(n, L) PROVE z \in Members(n + 1, M)
    BY <2>3 DEF Members
  <2>6. x \in Members(n + 1, M)
    BY <2>2 DEF Members
  <2>7. QED
    BY <2>4, <2>5, <2>6
<1>10. Chain(f2, first2, n + 1, M)
  <2>1. n + 1 # 0
    OBVIOUS
  <2>2. QED
    BY <1>4, <1>5, <1>6, <1>7, <2>1 DEF Chain
<1>11. Sorted(f, n, L) /\ Placed(n, L, f, k, f2[x].vm_id) => Sorted(f2, n + 1, M)
  BY <1>8 DEF Sorted
<1>12. QED
  BY <1>2, <1>9, <1>10, <1>11 DEF ChainOf

\* In f2 the k-th area of a chain is skipped.
Skipped(n, L, f, first, k, f2, first2) ==
  /\ k \in 1 .. n
  /\ \A i \in 1 .. n : i # k =>
       /\ L[i] \in DOMAIN f2
       /\ f2[L[i]].vm_id = f[L[i]].vm_id
       /\ f2[L[i]].vm_next = IF i + 1 = k THEN f[L[k]].vm_next ELSE f[L[i]].vm_next
  /\ first2 = IF k = 1 THEN f[L[k]].vm_next ELSE first

\* The others are a chain again, sorted if it was.
LEMMA ChainWithout ==
  ASSUME NEW n \in Nat, NEW L \in [1 .. n -> Node], NEW f, NEW first, Chain(f, first, n, L),
         NEW k, NEW f2, NEW first2, Skipped(n, L, f, first, k, f2, first2)
  PROVE  \E M \in [1 .. (n - 1) -> Node] :
           ChainOf(f2, first2, n - 1, M, Members(n, L) \ {L[k]}, Sorted(f, n, L))
<1> USE DEF Skipped
<1> DEFINE From(i) == IF i < k THEN i ELSE i + 1
           M == [i \in 1 .. (n - 1) |-> L[From(i)]]
<1>1. \A i \in 1 .. (n - 1) : From(i) \in 1 .. n /\ From(i) # k
  OBVIOUS
<1>2. M \in [1 .. (n - 1) -> Node]
  BY <1>1
<1>3. \A i \in 1 .. (n - 1) : M[i] = L[From(i)]
  OBVIOUS
<1> HIDE DEF M
<1>4. \A i \in 1 .. (n - 1) : M[i] \in DOMAIN f2
  BY <1>1, <1>3
<1>5. ASSUME NEW i \in 1 .. (n - 1), NEW j \in 1 .. (n - 1), M[i] = M[j] PROVE i = j
  <2>1. From(i) = From(j)
    BY <1>1, <1>3, <1>5 DEF Chain
  <2>2. QED
    BY <2>1
<1>6. first2 = IF n - 1 = 0 THEN NULL ELSE M[1]
  <2>1. CASE n - 1 = 0
    BY <2>1 DEF Chain
  <2>2. CASE n - 1 # 0 /\ k = 1
    <3>1. 1 \in 1 .. (n - 1) /\ From(1) = 2 /\ 1 < n
      BY <2>2
    <3>2. QED
      BY <1>3, <2>2, <3>1 DEF Chain
  <2>3. CASE n - 1 # 0 /\ k # 1
    <3>1. 1 \in 1 .. (n - 1) /\ From(1) = 1
      BY <2>3
    <3>2. QED
      BY <1>3, <2>3, <3>1 DEF Chain
  <2>4. QED
    BY <2>1, <2>2, <2>3
<1>7. ASSUME NEW i \in 1 .. (n - 1)
      PROVE  f2[M[i]].vm_next = IF i < n - 1 THEN M[i + 1] ELSE NULL
  <2>1. CASE i + 1 = k
    <3>1. M[i] = L[i] /\ i \in 1 .. n /\ i # k
      BY <1>3, <2>1
    <3>2. f2[M[i]].vm_next = IF k < n THEN L[k + 1] ELSE NULL
      BY <2>1, <3>1 DEF Chain
    <3>3. k < n <=> i < n - 1
      BY <2>1
    <3>4. i < n - 1 => M[i + 1] = L[k + 1]
      <4>1. i < n - 1 => i + 1 \in 1 .. (n - 1) /\ From(i + 1) = k + 1
        BY <2>1
      <4>2. QED
        BY <1>3, <4>1
    <3>5. QED
      BY <3>2, <3>3, <3>4
  <2>2. CASE i + 1 # k
    <3>1. PICK j \in 1 .. n : j = From(i) /\ M[i] = L[j] /\ j # k /\ j + 1 # k
      BY <1>1, <1>3, <2>2
    <3>2. f2[M[i]].vm_next = IF j < n THEN L[j + 1] ELSE NULL
      BY <3>1 DEF Chain
    <3>3. j < n <=> i < n - 1
      BY <2>2, <3>1
    <3>4. i < n - 1 => M[i + 1] = L[j + 1]
      <4>1. i < n - 1 => i + 1 \in 1 .. (n - 1) /\ From(i + 1) = j + 1
        BY <2>2, <3>1
      <4>2. QED
        BY <1>3, <4>1
    <3>5. QED
      BY <3>2, <3>3, <3>4
  <2>3. QED
    BY <2>1, <2>2
<1>8. ASSUME Sorted(f, n, L), NEW i \in 1 .. (n - 1), NEW j \in 1 .. (n - 1), i < j
      PROVE  f2[M[i]].vm_id < f2[M[j]].vm_id
  <2>1. PICK a \in 1 .. n, b \in 1 .. n :
          M[i] = L[a] /\ M[j] = L[b] /\ a < b /\ a # k /\ b # k
    <3>1. From(i) < From(j)
      BY <1>8
    <3>2. QED
      BY <1>1, <1>3, <3>1
  <2>2. QED
    BY <1>8, <2>1 DEF Sorted
<1>9. Members(n - 1, M) = Members(n, L) \ {L[k]}
  <2>1. ASSUME NEW i \in 1 .. (n - 1) PROVE M[i] \in {L[j] : j \in 1 .. n} \ {L[k]}
    BY <1>1, <1>3 DEF Chain
  <2>2. ASSUME NEW j \in 1 .. n, L[j] # L[k] PROVE \E i \in 1 .. (n - 1) : M[i] = L[j]
    <3>1. CASE j < k
      BY <1>3, <3>1
    <3>2. CASE ~(j < k)
      <4>1. j - 1 \in 1 .. (n - 1) /\ From(j - 1) = j
        BY <2>2, <3>2
      <4>2. QED
        BY <1>3, <4>1
    <3>3. QED
      BY <3>1, <3>2
  <2>3. QED
    BY <2>1, <2>2 DEF Members
<1>10. Chain(f2, first2, n - 1, M)
  BY <1>4, <1>5, <1>6, <1>7 DEF Chain
<1>11. Sorted(f, n, L) => Sorted(f2, n - 1, M)
  BY <1>8 DEF Sorted
<1>12. QED
  BY <1>2, <1>9, <1>10, <1>11 DEF ChainOf

-----------------------------------------------------------------------------
(* The invariant                                                             *)

Area == [vm_id : Id, vm_start : Addr, vm_end : Addr, sbrk : Addr,
         vm_freerg_list : Seq(Region), vm_next : Node \cup {NULL}]

Typed ==
  /\ mmap \in Node \cup {NULL}
  /\ DOMAIN area \subseteq Node
  /\ live \subseteq DOMAIN area
  /\ amiss \subseteq Amiss
  /\ \A x \in DOMAIN area :
       /\ area[x] \in Area
       /\ area[x].vm_start <= area[x].sbrk /\ area[x].sbrk <= area[x].vm_end

\* No id was taken twice.
Distinct == amiss \cap {"taken", "next id"} = {}

\* The live areas are the chain from mmap on.
Linked(n, L) ==
  /\ n \in Nat
  /\ L \in [1 .. n -> Node]
  /\ Chain(area, mmap, n, L)
  /\ live = Members(n, L)
  /\ Distinct => Sorted(area, n, L)
Chained == \E n : \E L : Linked(n, L)

\* Only the area of init_mm can be empty: one inside the borders of two others
\* would overlap what they merge to.
SomeSize == \A x \in live : area[x].vm_start < area[x].vm_end \/ area[x].vm_end = 0

\* What holds of the areas while they are merged in the order of the list.
Inv == Typed /\ Chained /\ AreasDisjoint /\ SomeSize

\* No two areas were merged that are not neighbours, or of which one is empty.
Ordered == amiss \cap {"order", "empty"} = {}

\* What holds whatever is merged.
IInv ==
  /\ AreasDisjoint
  /\ Ordered => Inv
  /\ "order" \in amiss => ~Whole

\* What the bounds are.
LEMMA Numbers ==
  /\ MaxNodes \in Nat /\ Node \subseteq Nat /\ 1 \in Node /\ NULL \notin Node
  /\ 0 \in Id /\ Id \subseteq Nat /\ 0 \in Addr /\ Addr \subseteq Nat
BY VmAreasAssumption DEF Node, NULL, Id, Addr

\* A region from one address to another.
LEMMA RegionOf ==
  ASSUME NEW s \in Addr, NEW e \in Addr, s <= e
  PROVE  /\ region(s, e) \in Region /\ region(s, e).rg_start = s /\ region(s, e).rg_end = e
         /\ <<region(s, e)>> \in Seq(Region)
BY DEF region, Region

\* malloc returns a node that is free.
LEMMA Malloc ==
  ASSUME Fresh # {}
  PROVE  malloc \in Fresh
<1>1. Fresh \in SUBSET Nat
  BY Numbers DEF Fresh
<1>2. Min(Fresh) \in Fresh /\ \A k \in Fresh : Min(Fresh) <= k
  BY <1>1, MinOf
<1>3. QED
  BY <1>2 DEF malloc

\* The address space init_mm makes.
LEMMA InitInv == Init => Inv
<1> SUFFICES ASSUME Init PROVE Inv
  OBVIOUS
<1>1. area[1] = vma(0, 0, 0, 0, <<region(0, 0)>>, NULL) /\ DOMAIN area = {1}
  BY DEF Init
<1>2. <<region(0, 0)>> \in Seq(Region)
  BY Numbers, RegionOf
<1>3. /\ area[1] \in Area /\ area[1].vm_start = 0 /\ area[1].vm_end = 0
      /\ area[1].sbrk = 0 /\ area[1].vm_next = NULL
  <2>1. 0 \in Id /\ 0 \in Addr /\ NULL \in Node \cup {NULL}
    BY Numbers
  <2>2. PICK a : a = vma(0, 0, 0, 0, <<region(0, 0)>>, NULL)
    OBVIOUS
  <2>3. a \in Area /\ a.vm_start = 0 /\ a.vm_end = 0 /\ a.sbrk = 0 /\ a.vm_next = NULL
    BY <1>2, <2>1, <2>2 DEF vma, Area
  <2>4. QED
    BY <1>1, <2>2, <2>3
<1>4. Typed
  BY <1>1, <1>3, Numbers DEF Typed, Init
<1>5. Chained
  <2> DEFINE L == [i \in 1 .. 1 |-> 1]
  <2>1. L \in [1 .. 1 -> Node] /\ \A i \in 1 .. 1 : i = 1 /\ L[i] = 1
    BY Numbers
  <2>2. Chain(area, mmap, 1, L)
    BY <1>1, <1>3, <2>1 DEF Chain, Init
  <2>3. live = Members(1, L)
    BY <2>1 DEF Init, Members
  <2>4. Linked(1, L)
    <3>1. Sorted(area, 1, L)
      BY DEF Sorted
    <3>2. QED
      BY <2>1, <2>2, <2>3, <3>1 DEF Linked
  <2>5. QED
    BY <2>4 DEF Chained
<1>6. QED
  BY <1>3, <1>4, <1>5 DEF Inv, AreasDisjoint, SomeSize, Init

\* What the chain says of a live area.
LEMMA InChain ==
  ASSUME Inv, NEW n, NEW L, Linked(n, L)
  PROVE  /\ n \in Nat /\ L \in [1 .. n -> Node] /\ Chain(area, mmap, n, L)
         /\ List = L /\ Len(List) = n /\ DOMAIN List = 1 .. n
         /\ \A i \in 1 .. n : /\ L[i] \in live /\ L[i] \in DOMAIN area /\ area[L[i]] \in Area
                              /\ area[L[i]].vm_id \in Nat
         /\ \A x \in live : \E i \in 1 .. n : x = L[i]
         /\ Distinct => Sorted(area, n, L)
<1>1. /\ n \in Nat /\ L \in [1 .. n -> Node] /\ Chain(area, mmap, n, L) /\ live = Members(n, L)
      /\ Distinct => Sorted(area, n, L)
  BY DEF Linked
<1>2. List = L /\ Len(List) = n /\ DOMAIN List = 1 .. n
  BY <1>1, ListIs
<1>3. /\ \A i \in 1 .. n : L[i] \in live
      /\ \A x \in live : \E i \in 1 .. n : x = L[i]
  BY <1>1 DEF Members
<1>4. \A x \in live : x \in DOMAIN area /\ area[x] \in Area
  BY DEF Inv, Typed
<1>5. \A a \in Area : a.vm_id \in Nat
  BY Numbers DEF Area
<1>6. QED
  BY <1>1, <1>2, <1>3, <1>4, <1>5

-----------------------------------------------------------------------------
(* add_vm_area                                                               *)

\* The ids before the place of a new id are smaller, those behind it greater.
LEMMA PlaceOf ==
  ASSUME Inv, NEW n, NEW L, Linked(n, L), NEW id \in Id
  PROVE  \E k \in 0 .. n :
           /\ InsertAfter(id) = IF k = 0 THEN NULL ELSE L[k]
           /\ Distinct /\ id \notin Ids => Placed(n, L, area, k, id)
<1> USE DEF Placed
<1>1. /\ n \in Nat /\ L \in [1 .. n -> Node] /\ Chain(area, mmap, n, L)
      /\ List = L /\ Len(List) = n
      /\ \A i \in 1 .. n : area[L[i]].vm_id \in Nat /\ L[i] \in live
  BY InChain
<1>2. id \in Nat /\ (id \notin Ids => \A i \in 1 .. n : area[L[i]].vm_id # id)
  BY <1>1, Numbers DEF Ids
<1>3. ASSUME Distinct, NEW i \in 1 .. n, NEW j \in 1 .. n, i < j
      PROVE  area[L[i]].vm_id < area[L[j]].vm_id
  BY <1>3, InChain DEF Sorted
<1>4. CASE n = 0
  <2>1. List = <<>>
    BY <1>1, <1>4
  <2>2. InsertAfter(id) = NULL /\ 0 \in 0 .. n
    BY <2>1, <1>4 DEF InsertAfter
  <2>3. QED
    BY <1>4, <2>2
<1>5. CASE n # 0
  <2>1. 1 \in 1 .. n /\ mmap = L[1] /\ List # <<>>
    BY <1>1, <1>5 DEF Chain
  <2>2. CASE area[mmap].vm_id > id
    <3>1. InsertAfter(id) = NULL /\ 0 \in 0 .. n
      BY <2>2, <1>1 DEF InsertAfter
    <3>2. Distinct => \A i \in 1 .. n : id < area[L[i]].vm_id
      BY <1>1, <1>2, <1>3, <2>1, <2>2
    <3>3. QED
      BY <3>1, <3>2
  <2>3. CASE ~(area[mmap].vm_id > id)
    <3> DEFINE T == {i \in 1 .. (n - 1) : area[L[i + 1]].vm_id >= id}
               i0 == IF T # {} THEN Min(T) ELSE 0
               k == IF i0 = 0 THEN n ELSE i0
    <3>1. /\ Len(Tail(List)) = n - 1
          /\ \A i \in 1 .. (n - 1) : Tail(List)[i] = L[i + 1]
      BY <1>1, <2>1
    <3>2. SelectInSeq(Tail(List), LAMBDA x : area[x].vm_id >= id) = i0
      <4>1. {i \in 1 .. Len(Tail(List)) : area[Tail(List)[i]].vm_id >= id} = T
        BY <3>1
      <4>2. QED
        BY <4>1 DEF SelectInSeq
    <3>3. InsertAfter(id) = L[k]
      BY <1>1, <2>1, <2>3, <3>2 DEF InsertAfter
    <3>4. T \in SUBSET Nat
      OBVIOUS
    <3>5. T # {} => i0 \in T /\ \A j \in T : i0 <= j
      <4> HIDE DEF T
      <4>1. QED
        BY <3>4, MinOf
    <3>6. k \in 1 .. n /\ (k < n => k \in T) /\ \A j \in T : k <= j
      <4>1. CASE T = {}
        <5>1. i0 = 0 /\ \A j \in T : FALSE
          BY <4>1
        <5> HIDE DEF T, i0
        <5>2. k = n
          BY <5>1
        <5>3. QED
          BY <1>1, <1>5, <5>1, <5>2
      <4>2. CASE T # {}
        <5>1. i0 \in 1 .. (n - 1) /\ i0 \in T
          BY <3>5, <4>2
        <5> HIDE DEF T, i0
        <5>2. k = i0 /\ i0 \in 1 .. n
          <6>1. i0 # 0 /\ i0 \in 1 .. n
            BY <1>1, <5>1
          <6>2. QED
            BY <6>1
        <5> HIDE DEF k
        <5>3. QED
          BY <3>5, <4>2, <5>1, <5>2
      <4>3. QED
        BY <4>1, <4>2
    <3> HIDE DEF k, i0
    <3>7. ASSUME id \notin Ids, NEW i \in 1 .. k PROVE area[L[i]].vm_id < id
      <4>1. CASE i = 1
        BY <1>1, <1>2, <2>1, <2>3, <3>7, <4>1
      <4>2. CASE i # 1
        <5>1. i - 1 \in 1 .. (n - 1) /\ i \in 1 .. n /\ (i - 1) + 1 = i /\ i - 1 < k
          BY <1>1, <3>6, <4>2
        <5>2. i - 1 \notin T
          <6> HIDE DEF T
          <6>1. QED
            BY <3>4, <3>6, <5>1
        <5>3. QED
          BY <1>1, <1>2, <5>1, <5>2
      <4>3. QED
        BY <4>1, <4>2
    <3>8. ASSUME Distinct, id \notin Ids, NEW i \in 1 .. n, k < i
          PROVE  id < area[L[i]].vm_id
      <4>1. k \in 1 .. (n - 1) /\ k \in T /\ k + 1 \in 1 .. n
        BY <1>1, <3>6, <3>8
      <4>2. area[L[k + 1]].vm_id >= id
        BY <4>1
      <4>3. i = k + 1 \/ k + 1 < i
        BY <3>6, <3>8
      <4>4. QED
        BY <1>1, <1>2, <1>3, <3>8, <4>1, <4>2, <4>3
    <3>9. k \in 0 .. n /\ k # 0
      BY <3>6
    <3>10. QED
      BY <3>3, <3>7, <3>8, <3>9
  <2>4. QED
    BY <2>2, <2>3
<1>6. QED
  BY <1>4, <1>5

\* What an area gets, and where the links lead then.
AreaAdded(n, L, x, k, id, start, end, free) ==
  /\ x \in Node \ DOMAIN area
  /\ k \in 0 .. n
  /\ Distinct /\ id \notin Ids => Placed(n, L, area, k, id)
  /\ DOMAIN area' = DOMAIN area \cup {x}
  /\ area'[x] = vma(id, start, end, start, free,
                    IF k = 0 THEN mmap ELSE area[L[k]].vm_next)
  /\ \A y \in DOMAIN area :
       area'[y] = IF k # 0 /\ y = L[k] THEN [area[y] EXCEPT !.vm_next = x] ELSE area[y]
  /\ mmap' = IF k = 0 THEN x ELSE mmap
  /\ live' = live \cup {x}
  /\ amiss' \in SUBSET (amiss \cup {"taken"}) /\ amiss \subseteq amiss'
  /\ "taken" \notin amiss' => id \notin Ids
  /\ \A y \in live : ~OVERLAP(area[y].vm_start, area[y].vm_end, start, end)

\* Add puts the area where its id belongs.
LEMMA AddIs ==
  ASSUME Inv, NEW n, NEW L, Linked(n, L), NEW id \in Id,
         NEW start, NEW end, NEW free, Add(id, start, end, free)
  PROVE  \E x, k : AreaAdded(n, L, x, k, id, start, end, free)
<1>1. /\ n \in Nat /\ L \in [1 .. n -> Node]
      /\ List = L /\ DOMAIN List = 1 .. n
      /\ \A i \in 1 .. n : L[i] \in DOMAIN area
      /\ \A x \in live : \E i \in 1 .. n : x = L[i]
  BY InChain
<1>2. PICK k \in 0 .. n :
        /\ InsertAfter(id) = IF k = 0 THEN NULL ELSE L[k]
        /\ Distinct /\ id \notin Ids => Placed(n, L, area, k, id)
  BY PlaceOf
<1>3. PICK x : x = malloc
  OBVIOUS
<1>4. x \in Node \ DOMAIN area
  BY <1>3, Malloc DEF Add, Fresh
<1>5. PICK next : next = IF InsertAfter(id) = NULL THEN mmap ELSE area[InsertAfter(id)].vm_next
  OBVIOUS
<1>6. PICK new : new = Put(area, x, vma(id, start, end, start, free, next))
  OBVIOUS
<1>7. /\ mmap' = IF InsertAfter(id) = NULL THEN x ELSE mmap
      /\ area' = IF InsertAfter(id) = NULL THEN new ELSE [new EXCEPT ![InsertAfter(id)].vm_next = x]
      /\ live' = live \cup {x}
      /\ amiss' = amiss \cup {w \in {"taken"} : id \in Ids}
      /\ \A i \in DOMAIN List : ~OVERLAP(area[List[i]].vm_start, area[List[i]].vm_end, start, end)
  BY <1>3, <1>5, <1>6 DEF Add
<1>8. InsertAfter(id) = NULL <=> k = 0
  <2>1. k # 0 => L[k] \in Node
    BY <1>1
  <2>2. QED
    BY <1>2, <2>1, Numbers
<1>9. next = IF k = 0 THEN mmap ELSE area[L[k]].vm_next
  BY <1>2, <1>5, <1>8
<1>10. /\ DOMAIN new = DOMAIN area \cup {x}
       /\ new[x] = vma(id, start, end, start, free, next)
       /\ \A y \in DOMAIN area : new[y] = area[y]
  BY <1>4, <1>6 DEF Put
<1>11. /\ DOMAIN area' = DOMAIN area \cup {x}
       /\ area'[x] = new[x]
       /\ \A y \in DOMAIN area :
            area'[y] = IF k # 0 /\ y = L[k] THEN [area[y] EXCEPT !.vm_next = x] ELSE area[y]
  <2>1. CASE k = 0
    BY <1>7, <1>8, <1>10, <2>1
  <2>2. CASE k # 0
    <3>1. area' = [new EXCEPT ![L[k]].vm_next = x] /\ L[k] \in DOMAIN area /\ L[k] # x
      BY <1>1, <1>2, <1>4, <1>7, <1>8, <2>2
    <3>2. QED
      BY <1>10, <2>2, <3>1
  <2>3. QED
    BY <2>1, <2>2
<1>12. AreaAdded(n, L, x, k, id, start, end, free)
  BY <1>1, <1>2, <1>4, <1>7, <1>8, <1>9, <1>10, <1>11 DEF AreaAdded
<1>13. QED
  BY <1>12

\* Two areas that do not overlap, in either order.
LEMMA Symmetric ==
  ASSUME NEW a, NEW b, NEW c, NEW d
  PROVE  OVERLAP(a, b, c, d) <=> OVERLAP(c, d, a, b)
BY DEF OVERLAP

\* Adding an area keeps the invariant.
LEMMA AddInv ==
  ASSUME Inv, NEW id \in Id, NEW start \in Addr, NEW end \in Addr, start < end,
         NEW free \in Seq(Region), Add(id, start, end, free)
  PROVE  Inv'
<1>1. PICK n, L : Linked(n, L)
  BY DEF Inv, Chained
<1>2. /\ n \in Nat /\ L \in [1 .. n -> Node] /\ Chain(area, mmap, n, L)
      /\ \A i \in 1 .. n : /\ L[i] \in live /\ L[i] \in DOMAIN area /\ area[L[i]] \in Area
                           /\ area[L[i]].vm_id \in Nat
      /\ \A x \in live : \E i \in 1 .. n : x = L[i]
  BY <1>1, InChain
<1>3. PICK x, k : AreaAdded(n, L, x, k, id, start, end, free)
  BY <1>1, AddIs
<1>4. PICK next : next = IF k = 0 THEN mmap ELSE area[L[k]].vm_next
  OBVIOUS
<1>5. k \in 0 .. n /\ x \in Node \ DOMAIN area /\ next \in Node \cup {NULL}
  BY <1>2, <1>3, <1>4 DEF AreaAdded, Inv, Typed, Area
<1>6. /\ area'[x] \in Area /\ area'[x].vm_id = id /\ area'[x].vm_next = next
      /\ area'[x].vm_start = start /\ area'[x].vm_end = end /\ area'[x].sbrk = start
  <2>1. area'[x] = vma(id, start, end, start, free, next)
    BY <1>3, <1>4 DEF AreaAdded
  <2>3. start \in Addr /\ end \in Addr /\ id \in Id
    BY <1>5
  <2>4. /\ area'[x].vm_id = id /\ area'[x].vm_next = next
        /\ area'[x].vm_start = start /\ area'[x].vm_end = end /\ area'[x].sbrk = start
        /\ area'[x].vm_freerg_list = free
    BY <2>1 DEF vma
  <2>5. area'[x] \in Area
    BY <1>5, <2>1, <2>3 DEF vma, Area
  <2>6. QED
    BY <2>4, <2>5
<1>7. \A y \in DOMAIN area :
        /\ y # x /\ y \in DOMAIN area' /\ area'[y] \in Area
        /\ area'[y].vm_id = area[y].vm_id
        /\ area'[y].vm_start = area[y].vm_start /\ area'[y].vm_end = area[y].vm_end
        /\ area'[y].sbrk = area[y].sbrk
        /\ area'[y].vm_next = IF k # 0 /\ y = L[k] THEN x ELSE area[y].vm_next
  <2> SUFFICES ASSUME NEW y \in DOMAIN area
               PROVE  /\ y # x /\ y \in DOMAIN area' /\ area'[y] \in Area
                      /\ area'[y].vm_id = area[y].vm_id
                      /\ area'[y].vm_start = area[y].vm_start
                      /\ area'[y].vm_end = area[y].vm_end
                      /\ area'[y].sbrk = area[y].sbrk
                      /\ area'[y].vm_next =
                           IF k # 0 /\ y = L[k] THEN x ELSE area[y].vm_next
    OBVIOUS
  <2>1. area[y] \in Area /\ y # x /\ y \in DOMAIN area'
    BY <1>3, <1>5 DEF AreaAdded, Inv, Typed
  <2>2. area'[y] = IF k # 0 /\ y = L[k] THEN [area[y] EXCEPT !.vm_next = x] ELSE area[y]
    BY <1>3 DEF AreaAdded
  <2>3. CASE k # 0 /\ y = L[k]
    BY <1>5, <2>1, <2>2, <2>3 DEF Area
  <2>4. CASE ~(k # 0 /\ y = L[k])
    BY <2>1, <2>2, <2>4
  <2>5. QED
    BY <2>3, <2>4
<1>8. /\ DOMAIN area' = DOMAIN area \cup {x} /\ live' = live \cup {x}
      /\ mmap' = IF k = 0 THEN x ELSE mmap
      /\ amiss' \subseteq Amiss
      /\ Distinct' => Distinct /\ id \notin Ids
  BY <1>3 DEF AreaAdded, Inv, Typed, Amiss, Distinct
<1>9. Typed'
  BY <1>5, <1>6, <1>7, <1>8, Numbers DEF Inv, Typed
<1>10. Chained'
  <2>1. PICK M \in [1 .. (n + 1) -> Node] :
          ChainOf(area', mmap', n + 1, M, Members(n, L) \cup {x},
                  Sorted(area, n, L) /\ Placed(n, L, area, k, area'[x].vm_id))
    <3>1. \A i \in 1 .. n : L[i] # x
      BY <1>2, <1>7
    <3>2. \A i \in 1 .. n : area'[L[i]].vm_id = area[L[i]].vm_id
      BY <1>2, <1>7
    <3>3. \A i \in 1 .. n : i # k => area'[L[i]].vm_next = area[L[i]].vm_next
      BY <1>2, <1>5, <1>7 DEF Chain
    <3>4. k # 0 => area'[L[k]].vm_next = x
      BY <1>2, <1>5, <1>7
    <3>5. \A i \in 1 .. n : area'[x].vm_id \in Int /\ area[L[i]].vm_id \in Int
      BY <1>2, <1>6, Numbers
    <3>7. area'[x].vm_next = IF k = 0 THEN mmap ELSE area[L[k]].vm_next
      BY <1>4, <1>6
    <3>8. LinkedBehind(n, L, area, mmap, k, x, area', mmap')
      BY <1>5, <1>8, <3>1, <3>2, <3>3, <3>4, <3>5, <3>7 DEF LinkedBehind
    <3>9. n \in Nat /\ L \in [1 .. n -> Node] /\ Chain(area, mmap, n, L)
      BY <1>2
    <3>10. QED
      BY <3>8, <3>9, ChainWith
  <2>2. live' = Members(n + 1, M)
    BY <1>1, <1>8, <2>1 DEF Linked, ChainOf
  <2>3. Linked(n + 1, M)'
    <3>1. Distinct' => Sorted(area, n, L) /\ Placed(n, L, area, k, area'[x].vm_id)
      BY <1>1, <1>3, <1>6, <1>8, InChain DEF AreaAdded
    <3>2. (Distinct' => Sorted(area', n + 1, M)) /\ Chain(area', mmap', n + 1, M)
      BY <2>1, <3>1 DEF ChainOf
    <3>3. QED
      BY <1>2, <2>1, <2>2, <3>2 DEF Linked
  <2>4. QED
    BY <2>3 DEF Chained
<1>11. AreasDisjoint'
  <2>1. \A y \in live :
          /\ ~OVERLAP(area'[y].vm_start, area'[y].vm_end, area'[x].vm_start, area'[x].vm_end)
          /\ ~OVERLAP(area'[x].vm_start, area'[x].vm_end, area'[y].vm_start, area'[y].vm_end)
    BY <1>3, <1>6, <1>7, Symmetric DEF AreaAdded, Inv, Typed
  <2>2. QED
    BY <1>7, <1>8, <2>1 DEF Inv, Typed, AreasDisjoint
<1>12. SomeSize'
  BY <1>6, <1>7, <1>8 DEF Inv, Typed, SomeSize
<1>13. QED
  BY <1>9, <1>10, <1>11, <1>12 DEF Inv

-----------------------------------------------------------------------------
(* remove_vm_area                                                            *)

\* The area on place k is gone, and its predecessor leads to its successor.
AreaRemoved(n, L, k) ==
  /\ k \in 1 .. n
  /\ DOMAIN area' = DOMAIN area \ {L[k]}
  /\ \A i \in 1 .. n : i # k =>
       area'[L[i]] = IF i + 1 = k THEN [area[L[i]] EXCEPT !.vm_next = area[L[k]].vm_next]
                     ELSE area[L[i]]
  /\ \A y \in DOMAIN area \ live : area'[y] = area[y]
  /\ mmap' = IF k = 1 THEN area[L[k]].vm_next ELSE mmap
  /\ live' = live \ {L[k]}
  /\ amiss' = amiss

\* remove_vm_area, where it finds the id.
LEMMA RemoveIs ==
  ASSUME Inv, NEW n, NEW L, Linked(n, L), NEW id, RemoveArea(id)
  PROVE  \E k : AreaRemoved(n, L, k)
<1>1. /\ n \in Nat /\ L \in [1 .. n -> Node] /\ Chain(area, mmap, n, L)
      /\ List = L /\ Len(List) = n
      /\ \A i \in 1 .. n : L[i] \in DOMAIN area /\ L[i] \in live
  BY InChain
<1>2. PICK k : k = SelectInSeq(List, LAMBDA x : area[x].vm_id = id)
  OBVIOUS
<1>3. k # 0
  BY <1>2 DEF RemoveArea
<1>4. k \in 1 .. n
  <2> DEFINE T == {i \in 1 .. n : area[L[i]].vm_id = id}
  <2>1. k = IF T # {} THEN Min(T) ELSE 0
    BY <1>1, <1>2 DEF SelectInSeq
  <2>2. T \in SUBSET Nat
    OBVIOUS
  <2>3. k \in T
    <3> HIDE DEF T
    <3>1. QED
      BY <1>3, <2>1, <2>2, MinOf
  <2>4. QED
    BY <2>3
<1>5. PICK f : f = IF k = 1 THEN area ELSE [area EXCEPT ![L[k - 1]].vm_next = area[L[k]].vm_next]
  OBVIOUS
<1>6. /\ area' = Drop(f, L[k])
      /\ mmap' = IF k = 1 THEN area[L[k]].vm_next ELSE mmap
      /\ live' = live \ {L[k]} /\ amiss' = amiss
  BY <1>1, <1>2, <1>5 DEF RemoveArea
<1>7. /\ DOMAIN f = DOMAIN area
      /\ \A y \in DOMAIN area :
           f[y] = IF k # 1 /\ y = L[k - 1] THEN [area[y] EXCEPT !.vm_next = area[L[k]].vm_next]
                  ELSE area[y]
  <2>1. CASE k = 1
    BY <1>5, <2>1
  <2>2. CASE k # 1
    <3>1. k - 1 \in 1 .. n
      BY <1>1, <1>4, <2>2
    <3>2. L[k - 1] \in DOMAIN area
      BY <1>1, <3>1
    <3>3. QED
      BY <1>5, <2>2, <3>2
  <2>3. QED
    BY <2>1, <2>2
<1>8. /\ DOMAIN area' = DOMAIN area \ {L[k]}
      /\ \A y \in DOMAIN area \ {L[k]} : area'[y] = f[y]
  BY <1>6, <1>7 DEF Drop
<1>9. ASSUME NEW i \in 1 .. n, i # k
      PROVE  area'[L[i]] = IF i + 1 = k THEN [area[L[i]] EXCEPT !.vm_next = area[L[k]].vm_next]
                           ELSE area[L[i]]
  <2>1. L[i] # L[k] /\ L[i] \in DOMAIN area
    BY <1>1, <1>4, <1>9 DEF Chain
  <2>2. (k # 1 /\ L[i] = L[k - 1]) <=> i + 1 = k
    <3>1. CASE k = 1
      BY <1>1, <3>1
    <3>2. CASE k # 1
      <4>1. k - 1 \in 1 .. n /\ (i + 1 = k <=> i = k - 1)
        BY <1>1, <1>4, <3>2
      <4>2. QED
        BY <1>1, <3>2, <4>1 DEF Chain
    <3>3. QED
      BY <3>1, <3>2
  <2>3. QED
    BY <1>7, <1>8, <2>1, <2>2
<1>10. \A y \in DOMAIN area \ live : area'[y] = area[y]
  <2> SUFFICES ASSUME NEW y \in DOMAIN area \ live PROVE area'[y] = area[y]
    OBVIOUS
  <2>1. y # L[k] /\ ~(k # 1 /\ y = L[k - 1])
    <3>1. k # 1 => k - 1 \in 1 .. n
      BY <1>1, <1>4
    <3>2. QED
      BY <1>1, <1>4, <3>1
  <2>2. QED
    BY <1>7, <1>8, <2>1
<1>11. AreaRemoved(n, L, k)
  BY <1>4, <1>6, <1>8, <1>9, <1>10 DEF AreaRemoved
<1>12. QED
  BY <1>11

\* Removing an area keeps the invariant.
LEMMA RemoveInv ==
  ASSUME Inv, NEW id, RemoveArea(id)
  PROVE  Inv'
<1>1. PICK n, L : Linked(n, L)
  BY DEF Inv, Chained
<1>2. /\ n \in Nat /\ L \in [1 .. n -> Node] /\ Chain(area, mmap, n, L)
      /\ \A i \in 1 .. n : /\ L[i] \in live /\ L[i] \in DOMAIN area /\ area[L[i]] \in Area
      /\ \A x \in live : \E i \in 1 .. n : x = L[i]
  BY <1>1, InChain
<1>3. PICK k : AreaRemoved(n, L, k)
  BY <1>1, RemoveIs
<1>4. k \in 1 .. n /\ area[L[k]].vm_next \in Node \cup {NULL}
  BY <1>2, <1>3 DEF AreaRemoved, Area
<1>5. ASSUME NEW i \in 1 .. n, i # k
      PROVE  /\ L[i] \in DOMAIN area' /\ area'[L[i]] \in Area
             /\ area'[L[i]].vm_id = area[L[i]].vm_id
             /\ area'[L[i]].vm_start = area[L[i]].vm_start
             /\ area'[L[i]].vm_end = area[L[i]].vm_end
             /\ area'[L[i]].sbrk = area[L[i]].sbrk
             /\ area'[L[i]].vm_next = IF i + 1 = k THEN area[L[k]].vm_next ELSE area[L[i]].vm_next
  <2>1. area[L[i]] \in Area /\ L[i] # L[k] /\ L[i] \in DOMAIN area
    BY <1>2, <1>4, <1>5 DEF Chain
  <2>2. area'[L[i]] = IF i + 1 = k THEN [area[L[i]] EXCEPT !.vm_next = area[L[k]].vm_next]
                      ELSE area[L[i]]
    BY <1>3, <1>5 DEF AreaRemoved
  <2>3. DOMAIN area' = DOMAIN area \ {L[k]}
    BY <1>3 DEF AreaRemoved
  <2>4. QED
    BY <1>4, <2>1, <2>2, <2>3 DEF Area
<1>6. /\ DOMAIN area' = DOMAIN area \ {L[k]} /\ live' = live \ {L[k]} /\ amiss' = amiss
      /\ mmap' = IF k = 1 THEN area[L[k]].vm_next ELSE mmap
      /\ \A y \in DOMAIN area \ live : area'[y] = area[y]
  BY <1>3 DEF AreaRemoved
<1>7. \A y \in live' : \E i \in 1 .. n : i # k /\ y = L[i] /\ y \in live
  BY <1>2, <1>6
<1>8. \A y \in live' :
        /\ y \in live /\ y \in DOMAIN area' /\ area'[y] \in Area
        /\ area'[y].vm_start = area[y].vm_start /\ area'[y].vm_end = area[y].vm_end
        /\ area'[y].sbrk = area[y].sbrk
  BY <1>5, <1>7
<1>9. Typed'
  <2>1. ASSUME NEW y \in DOMAIN area'
        PROVE  /\ area'[y] \in Area
               /\ area'[y].vm_start <= area'[y].sbrk
               /\ area'[y].sbrk <= area'[y].vm_end
    <3>1. y \in DOMAIN area
      BY <1>6
    <3>2. CASE y \in live'
      BY <1>8, <3>1, <3>2 DEF Inv, Typed
    <3>3. CASE y \notin live'
      <4>1. y \in DOMAIN area \ live
        BY <1>6, <3>1, <3>3
      <4>2. QED
        BY <1>6, <3>1, <4>1 DEF Inv, Typed
    <3>4. QED
      BY <3>2, <3>3
  <2>2. mmap' \in Node \cup {NULL} /\ DOMAIN area' \subseteq Node /\ live' \subseteq DOMAIN area'
        /\ amiss' \subseteq Amiss
    BY <1>4, <1>6, <1>8 DEF Inv, Typed
  <2>3. QED
    BY <2>1, <2>2 DEF Typed
<1>10. Chained'
  <2>1. Skipped(n, L, area, mmap, k, area', mmap')
    BY <1>4, <1>5, <1>6 DEF Skipped
  <2>2. PICK M \in [1 .. (n - 1) -> Node] :
          ChainOf(area', mmap', n - 1, M, Members(n, L) \ {L[k]}, Sorted(area, n, L))
    BY <1>2, <2>1, ChainWithout
  <2>3. live' = Members(n - 1, M)
    BY <1>1, <1>6, <2>2 DEF Linked, ChainOf
  <2>4. n - 1 \in Nat
    BY <1>2, <1>4
  <2>5. Linked(n - 1, M)'
    <3>1. (Distinct' => Sorted(area', n - 1, M)) /\ Chain(area', mmap', n - 1, M)
      BY <1>1, <1>6, <2>2, InChain DEF Distinct, ChainOf
    <3>2. QED
      BY <2>2, <2>3, <2>4, <3>1 DEF Linked
  <2>6. QED
    BY <2>5 DEF Chained
<1>11. AreasDisjoint'
  BY <1>8 DEF Inv, AreasDisjoint
<1>12. SomeSize'
  BY <1>8 DEF Inv, SomeSize
<1>13. QED
  BY <1>9, <1>10, <1>11, <1>12 DEF Inv

-----------------------------------------------------------------------------
(* merge_vm_areas                                                            *)

\* The areas on places k and k + 1 have become one.
AreasMerged(n, L, k) ==
  LET a == L[k]
      b == L[k + 1]
  IN
  /\ k \in 1 .. n /\ k + 1 \in 1 .. n
  /\ area[a].vm_end = area[b].vm_start
  /\ DOMAIN area' = DOMAIN area
  /\ area'[a] = [area[a] EXCEPT
       !.vm_end = area[b].vm_end,
       !.sbrk = greater(area[a].sbrk, area[b].sbrk),
       !.vm_freerg_list = area[a].vm_freerg_list \o area[b].vm_freerg_list,
       !.vm_next = area[b].vm_next]
  /\ area'[b] = [area[b] EXCEPT !.vm_freerg_list = <<>>]
  /\ \A y \in DOMAIN area \ {a, b} : area'[y] = area[y]
  /\ mmap' = mmap
  /\ live' = live \ {b}
  /\ amiss' = amiss

\* The area that comes first goes on with the other one.
InOrderEither(x, y) ==
  LET b == IF Lower(x, y) = x THEN y ELSE x
  IN  InOrder(Lower(x, y), b) /\ Meets(Lower(x, y), b)

\* merge_vm_areas, of neighbours.
LEMMA MergeIs ==
  ASSUME Inv, NEW n, NEW L, Linked(n, L), NEW x \in live, NEW y \in live,
         InOrderEither(x, y), Merge(x, y)
  PROVE  \E k : AreasMerged(n, L, k)
<1>1. /\ n \in Nat /\ L \in [1 .. n -> Node] /\ Chain(area, mmap, n, L)
      /\ \A i \in 1 .. n : L[i] \in DOMAIN area /\ L[i] \in live
      /\ \A z \in live : \E i \in 1 .. n : z = L[i]
  BY InChain
<1>2. \A z \in live : /\ z \in DOMAIN area /\ z \in Node /\ area[z] \in Area
                      /\ area[z].vm_start \in Int /\ area[z].vm_end \in Int
                      /\ area[z].vm_start <= area[z].vm_end
  <2>1. \A z \in live : /\ z \in DOMAIN area /\ z \in Node /\ area[z] \in Area
                        /\ area[z].vm_start <= area[z].sbrk /\ area[z].sbrk <= area[z].vm_end
    BY DEF Inv, Typed
  <2>2. \A a \in Area : a.vm_start \in Int /\ a.vm_end \in Int /\ a.sbrk \in Int
    BY DEF Area, Addr
  <2>3. QED
    BY <2>1, <2>2
<1>3. PICK a : a = Lower(x, y)
  OBVIOUS
<1>4. PICK b : b = IF a = x THEN y ELSE x
  OBVIOUS
<1>5. a \in live /\ b \in live /\ InOrder(a, b) /\ Meets(a, b)
  BY <1>3, <1>4 DEF InOrderEither, Lower
<1>6. PICK k \in 1 .. n : a = L[k]
  BY <1>1, <1>5
<1>7. k + 1 \in 1 .. n /\ L[k + 1] = b
  <2>1. area[L[k]].vm_next = b /\ b # NULL
    BY <1>2, <1>5, <1>6, Numbers DEF InOrder
  <2>2. area[L[k]].vm_next = IF k < n THEN L[k + 1] ELSE NULL
    BY <1>1 DEF Chain
  <2>3. QED
    BY <1>1, <2>1, <2>2
<1>8. a # b
  <2>1. k # k + 1
    OBVIOUS
  <2>2. QED
    BY <1>1, <1>6, <1>7, <2>1 DEF Chain
<1>9. /\ area' = [area EXCEPT
           ![a].vm_end = area[b].vm_end,
           ![a].sbrk = greater(@, area[b].sbrk),
           ![a].vm_freerg_list = ListsMerged(@, area[b].vm_freerg_list),
           ![a].vm_next = NextOfMerged(a, b),
           ![b].vm_freerg_list = <<>>]
      /\ live' = live \ {b} /\ mmap' = mmap
      /\ amiss' = amiss \cup {w \in {"order"} : ~InOrder(a, b)}
                        \cup {w \in {"empty"} : ~Meets(a, b)}
  BY <1>3, <1>4 DEF Merge
<1>10. /\ DOMAIN area' = DOMAIN area
       /\ area'[a] = [area[a] EXCEPT
            !.vm_end = area[b].vm_end,
            !.sbrk = greater(area[a].sbrk, area[b].sbrk),
            !.vm_freerg_list = area[a].vm_freerg_list \o area[b].vm_freerg_list,
            !.vm_next = area[b].vm_next]
       /\ area'[b] = [area[b] EXCEPT !.vm_freerg_list = <<>>]
       /\ \A z \in DOMAIN area \ {a, b} : area'[z] = area[z]
  <2>1. a \in DOMAIN area /\ b \in DOMAIN area /\ area[a] \in Area /\ area[b] \in Area
    BY <1>2, <1>5
  <2>2. QED
    BY <1>8, <1>9, <2>1 DEF ListsMerged, NextOfMerged, Area
<1>11. AreasMerged(n, L, k)
  BY <1>5, <1>6, <1>7, <1>9, <1>10 DEF AreasMerged, Meets
<1>12. QED
  BY <1>11

\* What is below the border of two areas or above it is in one of them.
LEMMA Halves ==
  ASSUME NEW s \in Int, NEW m \in Int, NEW e \in Int, NEW c \in Int, NEW d \in Int,
         s <= m, m <= e, c < d \/ d = 0, 0 <= s, c <= d, 0 <= c,
         s < m \/ m = 0, ~OVERLAP(s, m, c, d), ~OVERLAP(m, e, c, d)
  PROVE  ~OVERLAP(s, e, c, d)
BY DEF OVERLAP

\* Each half of an area is apart from what the area was apart from.
LEMMA Inside ==
  ASSUME NEW s \in Int, NEW m \in Int, NEW e \in Int, NEW c \in Int, NEW d \in Int,
         s < m, m < e, ~OVERLAP(s, e, c, d)
  PROVE  ~OVERLAP(s, m, c, d) /\ ~OVERLAP(m, e, c, d)
BY DEF OVERLAP

\* The bounds of a live area.
LEMMA Bounds ==
  ASSUME Inv, NEW x \in live
  PROVE  /\ x \in DOMAIN area /\ area[x] \in Area
         /\ area[x].vm_start \in Int /\ area[x].sbrk \in Int /\ area[x].vm_end \in Int
         /\ 0 <= area[x].vm_start
         /\ area[x].vm_start <= area[x].sbrk /\ area[x].sbrk <= area[x].vm_end
         /\ area[x].vm_freerg_list \in Seq(Region)
         /\ area[x].vm_start \in Addr /\ area[x].sbrk \in Addr /\ area[x].vm_end \in Addr
         /\ area[x].vm_start < area[x].vm_end \/ area[x].vm_end = 0
<1>1. /\ x \in DOMAIN area /\ area[x] \in Area
      /\ area[x].vm_start <= area[x].sbrk /\ area[x].sbrk <= area[x].vm_end
      /\ area[x].vm_start < area[x].vm_end \/ area[x].vm_end = 0
  BY DEF Inv, Typed, SomeSize
<1>2. /\ area[x].vm_start \in Addr /\ area[x].sbrk \in Addr /\ area[x].vm_end \in Addr
      /\ area[x].vm_freerg_list \in Seq(Region)
  BY <1>1 DEF Area
<1>3. \A a \in Addr : a \in Int /\ 0 <= a
  BY DEF Addr
<1>4. QED
  BY <1>1, <1>2, <1>3

\* Merging two areas with a border in common makes none overlap, in whatever order
\* they are in the list.
LEMMA MergeApart ==
  ASSUME Inv, NEW x \in live, NEW y \in live \ {x}, Merge(x, y)
  PROVE  AreasDisjoint'
<1>1. PICK a : a = Lower(x, y)
  OBVIOUS
<1>2. PICK b : b = IF a = x THEN y ELSE x
  OBVIOUS
<1>3. /\ a \in live /\ b \in live /\ a # b
      /\ area[a].vm_end = area[b].vm_start \/ area[b].vm_end = area[a].vm_start
      /\ area[a].vm_start <= area[b].vm_start
  <2>1. area[x].vm_start \in Int /\ area[y].vm_start \in Int
    BY Bounds
  <2>2. CASE area[x].vm_start > area[y].vm_start
    <3>1. a = y /\ b = x
      BY <1>1, <1>2, <2>2 DEF Lower
    <3>2. QED
      BY <2>1, <2>2, <3>1 DEF Merge
  <2>3. CASE ~(area[x].vm_start > area[y].vm_start)
    <3>1. a = x /\ b = y
      BY <1>1, <1>2, <2>3 DEF Lower
    <3>2. QED
      BY <2>1, <2>3, <3>1 DEF Merge
  <2>4. QED
    BY <2>2, <2>3
<1>4. /\ area' = [area EXCEPT
           ![a].vm_end = area[b].vm_end,
           ![a].sbrk = greater(@, area[b].sbrk),
           ![a].vm_freerg_list = ListsMerged(@, area[b].vm_freerg_list),
           ![a].vm_next = NextOfMerged(a, b),
           ![b].vm_freerg_list = <<>>]
      /\ live' = live \ {b}
  BY <1>1, <1>2 DEF Merge
<1>5. /\ area'[a].vm_start = area[a].vm_start /\ area'[a].vm_end = area[b].vm_end
      /\ \A z \in DOMAIN area \ {a, b} : area'[z] = area[z]
  <2>1. a \in DOMAIN area /\ b \in DOMAIN area /\ area[a] \in Area /\ area[b] \in Area
    BY <1>3, Bounds
  <2>2. QED
    BY <1>3, <1>4, <2>1 DEF Area
<1>6. ASSUME NEW z \in live', z # a
      PROVE  z \in live /\ z # b /\ area'[z] = area[z]
  BY <1>4, <1>5, <1>6, Bounds
<1>7. PICK s, h, m, e : /\ s = area[a].vm_start /\ h = area[a].vm_end
                        /\ m = area[b].vm_start /\ e = area[b].vm_end
  OBVIOUS
<1>8. /\ s \in Int /\ h \in Int /\ m \in Int /\ e \in Int
      /\ 0 <= s /\ s <= h /\ m <= e /\ s <= m
      /\ (s < h \/ h = 0) /\ (m < e \/ e = 0) /\ (h = m \/ e = s)
  BY <1>3, <1>7, Bounds
<1>9. ASSUME NEW z \in live', z # a
      PROVE  /\ ~OVERLAP(area'[a].vm_start, area'[a].vm_end, area'[z].vm_start, area'[z].vm_end)
             /\ ~OVERLAP(area'[z].vm_start, area'[z].vm_end, area'[a].vm_start, area'[a].vm_end)
  <2>1. PICK c, d : c = area[z].vm_start /\ d = area[z].vm_end
    OBVIOUS
  <2>2. c \in Int /\ d \in Int /\ 0 <= c /\ c <= d /\ (c < d \/ d = 0)
    BY <1>6, <1>9, <2>1, Bounds
  <2>3. ~OVERLAP(s, h, c, d) /\ ~OVERLAP(m, e, c, d)
    BY <1>3, <1>6, <1>7, <1>9, <2>1 DEF Inv, AreasDisjoint
  <2>4. ~OVERLAP(s, e, c, d)
    <3>1. CASE h = m
      BY <1>8, <2>2, <2>3, <3>1, Halves
    <3>2. CASE e = s
      BY <1>8, <2>2, <3>2 DEF OVERLAP
    <3>3. QED
      BY <1>8, <3>1, <3>2
  <2>5. /\ area'[a].vm_start = s /\ area'[a].vm_end = e
        /\ area'[z].vm_start = c /\ area'[z].vm_end = d
    BY <1>5, <1>6, <1>7, <1>9, <2>1
  <2>6. QED
    BY <2>4, <2>5, Symmetric
<1>10. ASSUME NEW z1 \in live', NEW z2 \in live', z1 # z2
       PROVE  ~OVERLAP(area'[z1].vm_start, area'[z1].vm_end,
                       area'[z2].vm_start, area'[z2].vm_end)
  <2>1. CASE z1 = a \/ z2 = a
    BY <1>9, <1>10, <2>1
  <2>2. CASE z1 # a /\ z2 # a
    BY <1>6, <1>10, <2>2 DEF Inv, AreasDisjoint
  <2>3. QED
    BY <2>1, <2>2
<1>11. QED
  BY <1>10 DEF AreasDisjoint

\* Merging two areas that do not follow each other leaves the list in pieces: what
\* led to the second one still does.
LEMMA MergeBreaks ==
  ASSUME Inv, NEW x \in live, NEW y \in live \ {x}, Merge(x, y),
         "order" \notin amiss, "order" \in amiss', Whole'
  PROVE  FALSE
<1>1. PICK n, L : Linked(n, L)
  BY DEF Inv, Chained
<1>2. /\ n \in Nat /\ L \in [1 .. n -> Node] /\ Chain(area, mmap, n, L)
      /\ \A i \in 1 .. n : L[i] \in live /\ L[i] \in DOMAIN area
      /\ \A z \in live : \E i \in 1 .. n : z = L[i]
  BY <1>1, InChain
<1>3. PICK a, b : a = Lower(x, y) /\ b = IF a = x THEN y ELSE x
  OBVIOUS
<1>4. a \in live /\ b \in live /\ a # b
  BY <1>3 DEF Lower
<1>5. /\ area' = [area EXCEPT
           ![a].vm_end = area[b].vm_end,
           ![a].sbrk = greater(@, area[b].sbrk),
           ![a].vm_freerg_list = ListsMerged(@, area[b].vm_freerg_list),
           ![a].vm_next = NextOfMerged(a, b),
           ![b].vm_freerg_list = <<>>]
      /\ live' = live \ {b} /\ mmap' = mmap
      /\ amiss' = amiss \cup {w \in {"order"} : ~InOrder(a, b)}
                        \cup {w \in {"empty"} : ~Meets(a, b)}
  BY <1>3 DEF Merge
<1>6. area[a].vm_next # b
  BY <1>5 DEF InOrder
<1>7. \A z \in DOMAIN area \ {a, b} : area'[z] = area[z]
  BY <1>5
<1>8. b # NULL
  BY <1>2, <1>4, Numbers
<1>9. PICK m \in 0 .. MaxNodes : \E M \in [1 .. m -> live'] :
        /\ ToSet(M) = live'
        /\ mmap' = IF m = 0 THEN NULL ELSE M[1]
        /\ \A i \in 1 .. m : area'[M[i]].vm_next = IF i < m THEN M[i + 1] ELSE NULL
  BY DEF Whole
<1>9a. PICK M \in [1 .. m -> live'] :
        /\ ToSet(M) = live'
        /\ mmap' = IF m = 0 THEN NULL ELSE M[1]
        /\ \A i \in 1 .. m : area'[M[i]].vm_next = IF i < m THEN M[i + 1] ELSE NULL
  BY <1>9
<1>10. m \in Nat /\ \A i \in 1 .. m : M[i] # b
  BY <1>5, Numbers
<1>11. PICK k \in 1 .. n : b = L[k]
  BY <1>2, <1>4
<1>12. CASE k = 1
  <2>1. mmap = b
    BY <1>2, <1>11, <1>12 DEF Chain
  <2>2. m # 0 /\ M[1] = b
    BY <1>5, <1>8, <1>9a, <2>1
  <2>3. QED
    BY <1>10, <2>2
<1>13. CASE k # 1
  <2>1. k - 1 \in 1 .. n /\ k - 1 < n /\ (k - 1) + 1 = k /\ k - 1 # k
    BY <1>2, <1>13
  <2>2. PICK c : c = L[k - 1]
    OBVIOUS
  <2>3. area[c].vm_next = b /\ c # b /\ c \in live /\ c \in DOMAIN area
    BY <1>2, <1>11, <2>1, <2>2 DEF Chain
  <2>4. area'[c].vm_next = b /\ c \in live'
    BY <1>5, <1>6, <1>7, <2>3
  <2>5. PICK i \in 1 .. m : c = M[i]
    BY <1>9a, <2>4 DEF ToSet
  <2>6. i < m /\ M[i + 1] = b
    BY <1>8, <1>9a, <2>4, <2>5
  <2>7. i + 1 \in 1 .. m
    BY <1>10, <2>6
  <2>8. QED
    BY <1>10, <2>6, <2>7
<1>14. QED
  BY <1>12, <1>13

\* Merging two areas that follow each other keeps the invariant.
LEMMA MergeInv ==
  ASSUME Inv, NEW x \in live, NEW y \in live \ {x}, InOrderEither(x, y), Merge(x, y)
  PROVE  Inv'
<1>1. PICK n, L : Linked(n, L)
  BY DEF Inv, Chained
<1>2. /\ n \in Nat /\ L \in [1 .. n -> Node] /\ Chain(area, mmap, n, L)
      /\ \A i \in 1 .. n : /\ L[i] \in live /\ L[i] \in DOMAIN area /\ area[L[i]] \in Area
      /\ \A z \in live : \E i \in 1 .. n : z = L[i]
  BY <1>1, InChain
<1>3. PICK k : AreasMerged(n, L, k)
  BY <1>1, MergeIs
<1>4. PICK a, b : a = L[k] /\ b = L[k + 1]
  OBVIOUS
<1>5. /\ k \in 1 .. n /\ k + 1 \in 1 .. n /\ a \in live /\ b \in live /\ a # b
      /\ area[a].vm_end = area[b].vm_start
  <2>1. k \in 1 .. n /\ k + 1 \in 1 .. n /\ area[L[k]].vm_end = area[L[k + 1]].vm_start
    BY <1>3 DEF AreasMerged
  <2>2. k # k + 1
    BY <2>1
  <2>3. QED
    BY <1>2, <1>4, <2>1, <2>2 DEF Chain
<1>6. /\ DOMAIN area' = DOMAIN area /\ mmap' = mmap /\ live' = live \ {b} /\ amiss' = amiss
      /\ area'[a] = [area[a] EXCEPT
           !.vm_end = area[b].vm_end,
           !.sbrk = greater(area[a].sbrk, area[b].sbrk),
           !.vm_freerg_list = area[a].vm_freerg_list \o area[b].vm_freerg_list,
           !.vm_next = area[b].vm_next]
      /\ area'[b] = [area[b] EXCEPT !.vm_freerg_list = <<>>]
      /\ \A z \in DOMAIN area \ {a, b} : area'[z] = area[z]
  BY <1>3, <1>4 DEF AreasMerged
<1>7. area[a] \in Area /\ area[b] \in Area
  BY <1>5, Bounds
<1>8. /\ area'[a] \in Area /\ area'[a].vm_id = area[a].vm_id
      /\ area'[a].vm_start = area[a].vm_start /\ area'[a].vm_end = area[b].vm_end
      /\ area'[a].sbrk = greater(area[a].sbrk, area[b].sbrk)
      /\ area'[a].vm_next = area[b].vm_next
      /\ area'[a].vm_start <= area'[a].sbrk /\ area'[a].sbrk <= area'[a].vm_end
  <2>1. area[a].vm_freerg_list \o area[b].vm_freerg_list \in Seq(Region)
    BY <1>7, ConcatProperties DEF Area
  <2>2. greater(area[a].sbrk, area[b].sbrk) \in Addr
    BY <1>7 DEF Area, greater
  <2>3. area'[a] \in Area
    BY <1>6, <1>7, <2>1, <2>2 DEF Area
  <2>4. /\ area'[a].vm_id = area[a].vm_id
        /\ area'[a].vm_start = area[a].vm_start /\ area'[a].vm_end = area[b].vm_end
        /\ area'[a].sbrk = greater(area[a].sbrk, area[b].sbrk)
        /\ area'[a].vm_next = area[b].vm_next
    BY <1>6, <1>7 DEF Area
  <2>5. /\ area[a].vm_start <= greater(area[a].sbrk, area[b].sbrk)
        /\ greater(area[a].sbrk, area[b].sbrk) <= area[b].vm_end
    BY <1>5, Bounds DEF greater
  <2>6. QED
    BY <2>3, <2>4, <2>5
<1>9. /\ area'[b] \in Area
      /\ area'[b].vm_start = area[b].vm_start /\ area'[b].vm_end = area[b].vm_end
      /\ area'[b].sbrk = area[b].sbrk
  <2>1. <<>> \in Seq(Region)
    OBVIOUS
  <2>2. QED
    BY <1>6, <1>7, <2>1 DEF Area
<1>10. Typed'
  <2>1. ASSUME NEW z \in DOMAIN area'
        PROVE  /\ area'[z] \in Area
               /\ area'[z].vm_start <= area'[z].sbrk
               /\ area'[z].sbrk <= area'[z].vm_end
    <3>1. CASE z = a
      BY <1>8, <3>1
    <3>2. CASE z = b
      BY <1>5, <1>9, <3>2, Bounds
    <3>3. CASE z \notin {a, b}
      BY <1>6, <3>3 DEF Inv, Typed
    <3>4. QED
      BY <3>1, <3>2, <3>3
  <2>2. mmap' \in Node \cup {NULL} /\ DOMAIN area' \subseteq Node /\ live' \subseteq DOMAIN area'
        /\ amiss' \subseteq Amiss
    BY <1>6 DEF Inv, Typed
  <2>3. QED
    BY <2>1, <2>2 DEF Typed
<1>11. Chained'
  <2>1. ASSUME NEW i \in 1 .. n, i # k + 1
        PROVE  /\ L[i] \in DOMAIN area' /\ area'[L[i]].vm_id = area[L[i]].vm_id
               /\ area'[L[i]].vm_next =
                    IF i + 1 = k + 1 THEN area[L[k + 1]].vm_next ELSE area[L[i]].vm_next
    <3>1. L[i] # b /\ L[i] \in DOMAIN area /\ (L[i] = a <=> i = k)
      BY <1>2, <1>4, <1>5, <2>1 DEF Chain
    <3>2. CASE i = k
      BY <1>4, <1>6, <1>8, <3>1, <3>2
    <3>3. CASE i # k
      <4>1. i + 1 # k + 1
        BY <3>3, <1>5
      <4>2. QED
        BY <1>6, <3>1, <3>3, <4>1
    <3>4. QED
      BY <3>2, <3>3
  <2>2. mmap' = IF k + 1 = 1 THEN area[L[k + 1]].vm_next ELSE mmap
    BY <1>5, <1>6
  <2>3. Skipped(n, L, area, mmap, k + 1, area', mmap')
    BY <1>5, <2>1, <2>2 DEF Skipped
  <2>4. PICK M \in [1 .. (n - 1) -> Node] :
          ChainOf(area', mmap', n - 1, M, Members(n, L) \ {L[k + 1]}, Sorted(area, n, L))
    BY <1>2, <2>3, ChainWithout
  <2>5. live' = Members(n - 1, M)
    BY <1>1, <1>4, <1>6, <2>4 DEF Linked, ChainOf
  <2>6. n - 1 \in Nat
    BY <1>2, <1>5
  <2>7. Linked(n - 1, M)'
    <3>1. (Distinct' => Sorted(area', n - 1, M)) /\ Chain(area', mmap', n - 1, M)
      BY <1>1, <1>6, <2>4, InChain DEF Distinct, ChainOf
    <3>2. QED
      BY <2>4, <2>5, <2>6, <3>1 DEF Linked
  <2>8. QED
    BY <2>7 DEF Chained
<1>12. \A z \in live' : z # a => z \in live /\ area'[z] = area[z]
  BY <1>5, <1>6 DEF Inv, Typed
<1>13. AreasDisjoint'
  BY MergeApart
<1>14. SomeSize'
  <2>1. area[a].vm_start < area[b].vm_end \/ area[b].vm_end = 0
    BY <1>5, Bounds
  <2>2. QED
    BY <1>8, <1>12, <2>1 DEF Inv, SomeSize
<1>15. QED
  BY <1>10, <1>11, <1>13, <1>14 DEF Inv

-----------------------------------------------------------------------------
(* enlist_vm_freerg_list                                                     *)

\* A region goes to the free list of the first area, and nothing else changes.
LEMMA ReleaseIs ==
  ASSUME Inv, NEW rg \in Region, Release(rg)
  PROVE  /\ mmap \in DOMAIN area
         /\ DOMAIN area' = DOMAIN area /\ mmap' = mmap /\ live' = live /\ amiss' = amiss
         /\ area'[mmap] = [area[mmap] EXCEPT !.vm_freerg_list = <<rg>> \o area[mmap].vm_freerg_list]
         /\ \A y \in DOMAIN area \ {mmap} : area'[y] = area[y]
<1>1. PICK n, L : Linked(n, L)
  BY DEF Inv, Chained
<1>2. mmap = IF n = 0 THEN NULL ELSE L[1]
  BY <1>1 DEF Linked, Chain
<1>3. mmap \in DOMAIN area
  <2>1. n # 0 /\ n \in Nat /\ mmap = L[1]
    BY <1>1, <1>2 DEF Release, Linked
  <2>2. 1 \in 1 .. n
    BY <2>1
  <2>3. QED
    BY <1>1, <2>1, <2>2, InChain
<1>4. QED
  BY <1>3 DEF Release

\* A freed region changes the free list of the first area only.
LEMMA ReleaseInv ==
  ASSUME Inv, NEW rg \in Region, Release(rg)
  PROVE  Inv'
<1>1. /\ mmap \in DOMAIN area
      /\ DOMAIN area' = DOMAIN area /\ mmap' = mmap /\ live' = live /\ amiss' = amiss
      /\ area'[mmap] = [area[mmap] EXCEPT !.vm_freerg_list = <<rg>> \o area[mmap].vm_freerg_list]
      /\ \A y \in DOMAIN area \ {mmap} : area'[y] = area[y]
  BY ReleaseIs
<1>2. \A y \in DOMAIN area :
        /\ area'[y] \in Area /\ area'[y].vm_id = area[y].vm_id
        /\ area'[y].vm_start = area[y].vm_start /\ area'[y].vm_end = area[y].vm_end
        /\ area'[y].sbrk = area[y].sbrk /\ area'[y].vm_next = area[y].vm_next
  <2>1. \A y \in DOMAIN area : area[y] \in Area
    BY DEF Inv, Typed
  <2>2. <<rg>> \o area[mmap].vm_freerg_list \in Seq(Region)
    <3>1. <<rg>> \in Seq(Region) /\ area[mmap].vm_freerg_list \in Seq(Region)
      BY <1>1, <2>1 DEF Area
    <3>2. QED
      BY <3>1, ConcatProperties
  <2>3. PICK list \in Seq(Region) : list = <<rg>> \o area[mmap].vm_freerg_list
    BY <2>2
  <2>4. PICK a \in Area : a = area[mmap]
    BY <1>1, <2>1
  <2>5. PICK c : c = area'[mmap]
    OBVIOUS
  <2>6. c = [a EXCEPT !.vm_freerg_list = list]
    BY <1>1, <2>3, <2>4, <2>5
  <2>7. /\ c \in Area /\ c.vm_id = a.vm_id /\ c.vm_start = a.vm_start /\ c.vm_end = a.vm_end
        /\ c.sbrk = a.sbrk /\ c.vm_next = a.vm_next
    BY <2>6 DEF Area
  <2>8. QED
    BY <1>1, <2>1, <2>4, <2>5, <2>7
<1>3. Typed'
  BY <1>1, <1>2 DEF Inv, Typed
<1>4. Chained'
  <2>1. PICK n, L : Linked(n, L)
    BY DEF Inv, Chained
  <2>2. /\ n \in Nat /\ L \in [1 .. n -> Node] /\ Chain(area, mmap, n, L)
        /\ \A i \in 1 .. n : L[i] \in DOMAIN area
    BY <2>1, InChain
  <2>3. Chain(area', mmap', n, L)
    BY <1>1, <1>2, <2>2 DEF Chain
  <2>4. Linked(n, L)'
    <3>1. Distinct' => Sorted(area', n, L)
      <4>1. (Distinct' => Distinct) /\ (Distinct => Sorted(area, n, L))
        BY <1>1, <2>1, InChain DEF Distinct
      <4>2. \A i \in 1 .. n : area'[L[i]].vm_id = area[L[i]].vm_id
        BY <1>2, <2>2
      <4>3. QED
        BY <4>1, <4>2 DEF Sorted
    <3>2. QED
      BY <1>1, <2>1, <2>3, <3>1 DEF Linked
  <2>5. QED
    BY <2>4 DEF Chained
<1>5. AreasDisjoint' /\ SomeSize'
  BY <1>1, <1>2 DEF Inv, Typed, AreasDisjoint, SomeSize
<1>6. QED
  BY <1>3, <1>4, <1>5 DEF Inv

-----------------------------------------------------------------------------
(* split_vm_area                                                             *)

\* Some part of a list.
LEMMA PartOf ==
  ASSUME NEW S, NEW list \in Seq(S), NEW i \in 1 .. (Len(list) + 1), NEW j \in 0 .. Len(list)
  PROVE  /\ SubSeq(list, i, j) \in Seq(S)
         /\ \A k \in i .. j : \E m \in DOMAIN SubSeq(list, i, j) : SubSeq(list, i, j)[m] = list[k]
<1>1. PICK n : n = Len(list)
  OBVIOUS
<1>2. n \in Nat /\ \A k \in 1 .. n : list[k] \in S
  BY <1>1
<1>3. PICK t : t = SubSeq(list, i, j)
  OBVIOUS
<1>4. \A k \in i .. j : list[k] \in S
  BY <1>1, <1>2
<1>5. /\ t \in Seq(S) /\ Len(t) = IF i <= j THEN j - i + 1 ELSE 0
      /\ \A k \in 1 .. (j - i + 1) : t[k] = list[i + k - 1]
  BY <1>1, <1>2, <1>3, <1>4, SubSeqProperties
<1>6. ASSUME NEW k \in i .. j PROVE \E m \in DOMAIN t : t[m] = list[k]
  <2>1. k - i + 1 \in 1 .. (j - i + 1) /\ i + (k - i + 1) - 1 = k /\ i <= j
    BY <1>1, <1>2
  <2>2. t[k - i + 1] = list[k] /\ k - i + 1 \in 1 .. Len(t)
    BY <1>5, <2>1
  <2>3. QED
    BY <1>5, <2>2
<1>7. QED
  BY <1>3, <1>5, <1>6

\* The place of the first region that ends behind an address.
LEMMA CutPlace ==
  ASSUME NEW list \in Seq(Region), NEW addr \in Addr
  PROVE  LET i == CutAt(list, addr) IN
         /\ i \in 0 .. Len(list)
         /\ i # 0 => list[i].rg_start >= addr \/ list[i].rg_end > addr
         /\ \A j \in 1 .. Len(list) :
              i = 0 \/ j < i => list[j].rg_start < addr /\ list[j].rg_end <= addr
<1> DEFINE T == {i \in 1 .. Len(list) : list[i].rg_start >= addr \/ list[i].rg_end > addr}
<1>1. PICK i : i = CutAt(list, addr)
  OBVIOUS
<1>2. i = IF T # {} THEN Min(T) ELSE 0
  BY <1>1 DEF CutAt, SelectInSeq
<1>3. T \in SUBSET Nat
  OBVIOUS
<1>4. (i = 0 /\ T = {}) \/ (i # 0 /\ i \in T /\ \A j \in T : i <= j)
  <2>1. 0 \notin T
    OBVIOUS
  <2> HIDE DEF T
  <2>2. QED
    BY <1>2, <1>3, <2>1, MinOf
<1>5. \A rg \in Region : rg.rg_start \in Int /\ rg.rg_end \in Int
  BY DEF Region, Addr
<1>6. addr \in Int
  BY DEF Addr
<1>7. i \in 0 .. Len(list) /\ (i # 0 => list[i].rg_start >= addr \/ list[i].rg_end > addr)
  BY <1>4
<1>8. ASSUME NEW j \in 1 .. Len(list), i = 0 \/ j < i
      PROVE  list[j].rg_start < addr /\ list[j].rg_end <= addr
  <2>1. j \notin T
    <3> HIDE DEF T
    <3>1. i \in Int /\ j \in Int
      BY <1>7
    <3>2. QED
      BY <1>4, <1>8, <3>1
  <2>2. list[j] \in Region
    OBVIOUS
  <2>3. QED
    BY <1>5, <1>6, <2>1, <2>2
<1>9. QED
  BY <1>1, <1>7, <1>8

\* The two parts of a free list are lists of regions.
LEMMA PartsTyped ==
  ASSUME NEW list \in Seq(Region), NEW addr \in Addr, NEW node
  PROVE  /\ SplitRegions(list, addr, node)[1] \in Seq(Region)
         /\ SplitRegions(list, addr, node)[2] \in Seq(Region)
<1>1. PICK i : i = CutAt(list, addr)
  OBVIOUS
<1>2. i \in 0 .. Len(list) /\ Len(list) \in Nat
  BY <1>1, CutPlace
<1>3. CASE i = 0 \/ (Spans(list, addr) /\ ~node)
  <2>1. SplitRegions(list, addr, node) = <<list, <<>>>>
    BY <1>1, <1>3 DEF SplitRegions
  <2>2. QED
    BY <2>1
<1>4. CASE i # 0 /\ list[i].rg_start >= addr
  <2>1. SplitRegions(list, addr, node) = <<SubSeq(list, 1, i - 1), SubSeq(list, i, Len(list))>>
    <3>1. ~Spans(list, addr)
      <4>1. i \in 1 .. Len(list) /\ list[i] \in Region
        BY <1>2, <1>4
      <4>2. list[i].rg_start \in Int /\ addr \in Int
        BY <4>1 DEF Region, Addr
      <4>3. QED
        BY <1>1, <1>4, <4>2 DEF Spans
    <3>2. QED
      BY <1>1, <1>4, <3>1 DEF SplitRegions
  <2>2. i - 1 \in 0 .. Len(list) /\ i \in 1 .. (Len(list) + 1) /\ 1 \in 1 .. (Len(list) + 1)
        /\ Len(list) \in 0 .. Len(list)
    BY <1>2, <1>4
  <2>3. SubSeq(list, 1, i - 1) \in Seq(Region) /\ SubSeq(list, i, Len(list)) \in Seq(Region)
    BY <2>2, PartOf
  <2>4. QED
    BY <2>1, <2>3
<1>5. CASE i # 0 /\ ~(list[i].rg_start >= addr) /\ ~(Spans(list, addr) /\ ~node)
  <2>1. PICK lower, upper :
          /\ lower = [list EXCEPT ![i].rg_end = addr]
          /\ upper = <<region(addr, list[i].rg_end)>> \o SubSeq(list, i + 1, Len(list))
    OBVIOUS
  <2>2. SplitRegions(list, addr, node) = <<lower, upper>>
    BY <1>1, <1>5, <2>1 DEF SplitRegions
  <2>3. i \in 1 .. Len(list) /\ list[i] \in Region /\ list[i].rg_end > addr
    BY <1>1, <1>2, <1>5, CutPlace
  <2>4. /\ list[i].rg_start \in Addr /\ list[i].rg_end \in Addr
        /\ list[i].rg_start < addr /\ addr <= list[i].rg_end
    <3>1. \A a \in Addr : a \in Int
      BY DEF Addr
    <3>2. list[i].rg_start \in Addr /\ list[i].rg_end \in Addr
      BY <2>3 DEF Region
    <3>3. QED
      BY <1>5, <2>3, <3>1, <3>2
  <2>5. lower \in Seq(Region)
    <3>1. [list[i] EXCEPT !.rg_end = addr] \in Region
      <4>1. list[i] \in [rg_start : Addr, rg_end : Addr]
        BY <2>3 DEF Region
      <4>2. \A a \in Addr : a \in Int
        BY DEF Addr
      <4>3. QED
        BY <2>4, <4>1, <4>2 DEF Region
    <3>2. lower = [list EXCEPT ![i] = [list[i] EXCEPT !.rg_end = addr]]
      BY <2>1
    <3>3. QED
      BY <2>3, <3>1, <3>2
  <2>6. upper \in Seq(Region)
    <3>1. <<region(addr, list[i].rg_end)>> \in Seq(Region)
      BY <2>4, RegionOf
    <3>2. i + 1 \in 1 .. (Len(list) + 1) /\ Len(list) \in 0 .. Len(list)
      BY <1>2, <2>3
    <3>3. SubSeq(list, i + 1, Len(list)) \in Seq(Region)
      BY <3>2, PartOf
    <3>4. QED
      BY <2>1, <3>1, <3>3, ConcatProperties
  <2>7. QED
    BY <2>2, <2>5, <2>6
<1>6. QED
  BY <1>3, <1>4, <1>5

\* What is amiss after a split of a.
SplitAmiss(a, addr, node) ==
  amiss' = amiss
    \cup {w \in {"next id"} : a.vm_id + 1 \in Ids}
    \cup {w \in {"cut"} : Misplaced(a, addr) # {}}
    \cup {w \in {"shared"} : node /\ Shares(a.vm_freerg_list, addr)}
    \cup {w \in {"no node"} : ~node /\ Spans(a.vm_freerg_list, addr)}

\* Area y has become two, the upper one a new node x behind it.
AreaSplit(y, addr, node, x) ==
  LET a == area[y]
      lists == SplitRegions(a.vm_freerg_list, addr, node)
  IN
  /\ x \in Node \ DOMAIN area
  /\ a.vm_start < addr /\ addr < a.vm_end /\ a.vm_id < MaxId
  /\ DOMAIN area' = DOMAIN area \cup {x}
  /\ area'[y] = [a EXCEPT !.vm_end = addr, !.sbrk = BreakCut(a.sbrk, addr),
                          !.vm_freerg_list = lists[1], !.vm_next = x]
  /\ area'[x] = vma(a.vm_id + 1, addr, a.vm_end, greater(a.sbrk, addr), lists[2], a.vm_next)
  /\ \A z \in DOMAIN area \ {y} : area'[z] = area[z]
  /\ mmap' = mmap
  /\ live' = live \cup {x}
  /\ SplitAmiss(a, addr, node)

\* split_vm_area.
LEMMA SplitIs ==
  ASSUME Inv, NEW y \in live, NEW addr \in Addr, NEW node \in BOOLEAN, Split(y, addr, node)
  PROVE  \E x : AreaSplit(y, addr, node, x)
<1>1. PICK x : x = malloc
  OBVIOUS
<1>2. x \in Node \ DOMAIN area
  BY <1>1, Malloc DEF Split, Fresh
<1>3. PICK a, lists : a = area[y] /\ lists = SplitRegions(a.vm_freerg_list, addr, node)
  OBVIOUS
<1>4. y \in DOMAIN area /\ a \in Area
  BY <1>3, Bounds
<1>5. PICK f : f = [area EXCEPT ![y].vm_end = addr, ![y].sbrk = BreakCut(@, addr),
                                ![y].vm_freerg_list = lists[1], ![y].vm_next = x]
  OBVIOUS
<1>6. PICK v : v = vma(a.vm_id + 1, addr, a.vm_end, greater(a.sbrk, addr), lists[2], a.vm_next)
  OBVIOUS
<1>7. /\ a.vm_start < addr /\ addr < a.vm_end /\ a.vm_id < MaxId
      /\ area' = Put(f, x, v) /\ live' = live \cup {x} /\ mmap' = mmap
  BY <1>1, <1>3, <1>5, <1>6 DEF Split
<1>8. /\ DOMAIN f = DOMAIN area
      /\ f[y] = [a EXCEPT !.vm_end = addr, !.sbrk = BreakCut(a.sbrk, addr),
                          !.vm_freerg_list = lists[1], !.vm_next = x]
      /\ \A z \in DOMAIN area \ {y} : f[z] = area[z]
  BY <1>3, <1>4, <1>5 DEF Area
<1>9. /\ DOMAIN area' = DOMAIN area \cup {x}
      /\ area'[x] = v
      /\ \A z \in DOMAIN area : area'[z] = f[z]
  BY <1>2, <1>7, <1>8 DEF Put
<1>10. SplitAmiss(a, addr, node)
  BY <1>3 DEF Split, SplitAmiss
<1>12. AreaSplit(y, addr, node, x)
  BY <1>2, <1>3, <1>4, <1>6, <1>7, <1>8, <1>9, <1>10 DEF AreaSplit
<1>13. QED
  BY <1>12

\* Splitting an area keeps the invariant.
LEMMA SplitInv ==
  ASSUME Inv, NEW y \in live, NEW addr \in Addr, NEW node \in BOOLEAN, Split(y, addr, node)
  PROVE  Inv'
<1>1. PICK n, L : Linked(n, L)
  BY DEF Inv, Chained
<1>2. /\ n \in Nat /\ L \in [1 .. n -> Node] /\ Chain(area, mmap, n, L)
      /\ \A i \in 1 .. n : /\ L[i] \in live /\ L[i] \in DOMAIN area /\ area[L[i]] \in Area
                           /\ area[L[i]].vm_id \in Nat
      /\ \A z \in live : \E i \in 1 .. n : z = L[i]
  BY <1>1, InChain
<1>3. PICK x : AreaSplit(y, addr, node, x)
  BY SplitIs
<1>4. PICK a, lists : a = area[y] /\ lists = SplitRegions(a.vm_freerg_list, addr, node)
  OBVIOUS
<1>5. /\ x \in Node \ DOMAIN area
      /\ a.vm_start < addr /\ addr < a.vm_end /\ a.vm_id < MaxId
      /\ DOMAIN area' = DOMAIN area \cup {x}
      /\ area'[y] = [a EXCEPT !.vm_end = addr, !.sbrk = BreakCut(a.sbrk, addr),
                              !.vm_freerg_list = lists[1], !.vm_next = x]
      /\ area'[x] = vma(a.vm_id + 1, addr, a.vm_end, greater(a.sbrk, addr), lists[2], a.vm_next)
      /\ \A z \in DOMAIN area \ {y} : area'[z] = area[z]
      /\ mmap' = mmap
      /\ live' = live \cup {x}
      /\ SplitAmiss(a, addr, node)
  BY <1>3, <1>4 DEF AreaSplit
<1>5a. amiss' \subseteq Amiss /\ (Distinct' => Distinct /\ a.vm_id + 1 \notin Ids)
  BY <1>5 DEF SplitAmiss, Distinct, Inv, Typed, Amiss
<1>6. /\ y \in DOMAIN area /\ a \in Area
      /\ a.vm_start \in Int /\ a.sbrk \in Int /\ a.vm_end \in Int /\ addr \in Int
      /\ 0 <= a.vm_start /\ a.vm_start <= a.sbrk /\ a.sbrk <= a.vm_end
      /\ a.vm_freerg_list \in Seq(Region)
      /\ a.vm_start \in Addr /\ a.sbrk \in Addr /\ a.vm_end \in Addr
  BY <1>4, Bounds DEF Addr
<1>7. lists[1] \in Seq(Region) /\ lists[2] \in Seq(Region)
  BY <1>4, <1>6, PartsTyped
<1>8. /\ BreakCut(a.sbrk, addr) \in Addr /\ greater(a.sbrk, addr) \in Addr
      /\ a.vm_start <= BreakCut(a.sbrk, addr) /\ BreakCut(a.sbrk, addr) <= addr
      /\ addr <= greater(a.sbrk, addr) /\ greater(a.sbrk, addr) <= a.vm_end
  BY <1>5, <1>6 DEF BreakCut, greater
<1>9. /\ area'[y] \in Area /\ area'[y].vm_id = a.vm_id /\ area'[y].vm_next = x
      /\ area'[y].vm_start = a.vm_start /\ area'[y].vm_end = addr
      /\ area'[y].sbrk = BreakCut(a.sbrk, addr)
  BY <1>5, <1>6, <1>7, <1>8 DEF Area
<1>10. a.vm_id + 1 \in Id
  <2>1. a.vm_id \in Id
    BY <1>6 DEF Area
  <2>2. QED
    BY <1>5, <2>1, VmAreasAssumption DEF Id
<1>11. /\ area'[x] \in Area /\ area'[x].vm_id = a.vm_id + 1 /\ area'[x].vm_next = a.vm_next
       /\ area'[x].vm_start = addr /\ area'[x].vm_end = a.vm_end
       /\ area'[x].sbrk = greater(a.sbrk, addr)
  <2>1. a.vm_next \in Node \cup {NULL}
    BY <1>6 DEF Area
  <2>2. QED
    BY <1>5, <1>6, <1>7, <1>8, <1>10, <2>1 DEF vma, Area
<1>12. Typed'
  <2>1. ASSUME NEW z \in DOMAIN area'
        PROVE  /\ area'[z] \in Area
               /\ area'[z].vm_start <= area'[z].sbrk
               /\ area'[z].sbrk <= area'[z].vm_end
    <3>1. CASE z = x
      BY <1>8, <1>11, <3>1
    <3>2. CASE z = y
      BY <1>8, <1>9, <3>2
    <3>3. CASE z # x /\ z # y
      BY <1>5, <3>3 DEF Inv, Typed
    <3>4. QED
      BY <3>1, <3>2, <3>3
  <2>2. mmap' \in Node \cup {NULL} /\ DOMAIN area' \subseteq Node /\ live' \subseteq DOMAIN area'
        /\ amiss' \subseteq Amiss
    BY <1>5, <1>5a DEF Inv, Typed
  <2>3. QED
    BY <2>1, <2>2 DEF Typed
<1>13. Chained'
  <2>1. PICK k \in 1 .. n : y = L[k]
    BY <1>2
  <2>2. ASSUME NEW i \in 1 .. n
        PROVE  /\ L[i] # x
               /\ area'[L[i]].vm_id = area[L[i]].vm_id
               /\ i # k => area'[L[i]].vm_next = area[L[i]].vm_next
    <3>1. L[i] \in DOMAIN area /\ (L[i] = y <=> i = k)
      BY <1>2, <2>1 DEF Chain
    <3>2. CASE i = k
      BY <1>4, <1>5, <1>6, <1>9, <2>1, <3>2
    <3>3. CASE i # k
      BY <1>5, <3>1, <3>3
    <3>4. QED
      BY <3>2, <3>3
  <2>3. area'[L[k]].vm_next = x /\ area'[x].vm_next = area[L[k]].vm_next
    BY <1>4, <1>9, <1>11, <2>1
  <2>4. \A i \in 1 .. n : area'[x].vm_id \in Int /\ area[L[i]].vm_id \in Int
    <3>1. a.vm_id + 1 \in Nat
      BY <1>10, Numbers
    <3>2. QED
      BY <1>2, <1>11, <3>1
  <2>5. area[L[k]].vm_id = a.vm_id /\ a.vm_id \in Nat /\ area'[x].vm_id = a.vm_id + 1
    BY <1>2, <1>4, <1>11, <2>1
  <2>6. ASSUME Distinct', NEW i \in 1 .. k PROVE area[L[i]].vm_id < area'[x].vm_id
    <3>1. i \in 1 .. n /\ (i = k \/ i < k)
      BY <1>2, <2>1
    <3>2. i < k => area[L[i]].vm_id < area[L[k]].vm_id
      BY <1>1, <1>5a, <2>6, <3>1, InChain DEF Sorted
    <3>3. QED
      BY <1>2, <2>5, <3>1, <3>2
  <2>7. ASSUME Distinct', NEW i \in 1 .. n, k < i PROVE area'[x].vm_id < area[L[i]].vm_id
    <3>1. area[L[k]].vm_id < area[L[i]].vm_id
      BY <1>1, <1>5a, <2>7, InChain DEF Sorted
    <3>2. area[L[i]].vm_id # a.vm_id + 1
      BY <1>2, <1>4, <1>5a, <2>7 DEF Ids
    <3>3. QED
      BY <1>2, <2>5, <2>7, <3>1, <3>2
  <2>8. k \in 0 .. n /\ k # 0 /\ x \in Node
    BY <1>2, <1>5, <2>1
  <2>9. LinkedBehind(n, L, area, mmap, k, x, area', mmap')
    BY <1>5, <2>2, <2>3, <2>4, <2>8 DEF LinkedBehind
  <2>10. PICK M \in [1 .. (n + 1) -> Node] :
           ChainOf(area', mmap', n + 1, M, Members(n, L) \cup {x},
                   Sorted(area, n, L) /\ Placed(n, L, area, k, area'[x].vm_id))
    <3>1. n \in Nat /\ L \in [1 .. n -> Node] /\ Chain(area, mmap, n, L)
      BY <1>2
    <3>2. QED
      BY <2>9, <3>1, ChainWith
  <2>11. live' = Members(n + 1, M)
    BY <1>1, <1>5, <2>10 DEF Linked, ChainOf
  <2>12. Linked(n + 1, M)'
    <3>1. Distinct' => Placed(n, L, area, k, area'[x].vm_id)
      BY <2>6, <2>7 DEF Placed
    <3>2. (Distinct' => Sorted(area', n + 1, M)) /\ Chain(area', mmap', n + 1, M)
      BY <1>1, <1>5a, <2>10, <3>1, InChain DEF ChainOf
    <3>3. QED
      BY <1>2, <2>10, <2>11, <3>2 DEF Linked
  <2>13. QED
    BY <2>12 DEF Chained
<1>14. \A z \in live' : z = x \/ z = y \/ (z \in live /\ area'[z] = area[z])
  BY <1>5 DEF Inv, Typed
<1>15. AreasDisjoint'
  <2>1. /\ ~OVERLAP(area'[y].vm_start, area'[y].vm_end, area'[x].vm_start, area'[x].vm_end)
        /\ ~OVERLAP(area'[x].vm_start, area'[x].vm_end, area'[y].vm_start, area'[y].vm_end)
    BY <1>6, <1>9, <1>11 DEF OVERLAP
  <2>2. ASSUME NEW z \in live, z # y
        PROVE  /\ ~OVERLAP(area'[y].vm_start, area'[y].vm_end, area[z].vm_start, area[z].vm_end)
               /\ ~OVERLAP(area'[x].vm_start, area'[x].vm_end, area[z].vm_start, area[z].vm_end)
    <3>1. ~OVERLAP(a.vm_start, a.vm_end, area[z].vm_start, area[z].vm_end)
      BY <1>4, <2>2 DEF Inv, AreasDisjoint
    <3>2. area[z].vm_start \in Int /\ area[z].vm_end \in Int
      BY Bounds
    <3>3. PICK s, e, c, d : /\ s = a.vm_start /\ e = a.vm_end
                            /\ c = area[z].vm_start /\ d = area[z].vm_end
      OBVIOUS
    <3>4. s \in Int /\ e \in Int /\ c \in Int /\ d \in Int /\ s < addr /\ addr < e
      BY <1>5, <1>6, <3>2, <3>3
    <3>5. ~OVERLAP(s, addr, c, d) /\ ~OVERLAP(addr, e, c, d)
      BY <1>6, <3>1, <3>3, <3>4, Inside
    <3>6. QED
      BY <1>9, <1>11, <3>3, <3>5
  <2>3. QED
    BY <1>14, <2>1, <2>2, Symmetric DEF Inv, AreasDisjoint
<1>16. SomeSize'
  <2>1. area'[y].vm_start < area'[y].vm_end /\ area'[x].vm_start < area'[x].vm_end
    BY <1>5, <1>9, <1>11
  <2>2. QED
    BY <1>14, <2>1 DEF Inv, SomeSize
<1>17. QED
  BY <1>12, <1>13, <1>15, <1>16 DEF Inv

-----------------------------------------------------------------------------
(* The theorems                                                              *)

\* Each step keeps the invariant, as far as it is in order.
LEMMA StepInv ==
  ASSUME Inv, Next, Ordered
  PROVE  AreasDisjoint' /\ (Ordered' => Inv') /\ ("order" \in amiss' => ~Whole')
<1>1. ASSUME NEW id \in Id, NEW start \in Addr, NEW end \in Addr, start < end,
             NEW free \in {<<region(start, start)>>, <<>>}, Add(id, start, end, free)
      PROVE  Inv'
  <2>1. <<region(start, start)>> \in Seq(Region) /\ <<>> \in Seq(Region)
    BY Numbers, RegionOf
  <2>2. free \in Seq(Region)
    BY <2>1
  <2>3. QED
    BY <1>1, <2>2, AddInv
<1>2. ASSUME NEW id \in Id, RemoveArea(id) PROVE Inv'
  BY <1>2, RemoveInv
<1>3. ASSUME NEW x \in live, NEW y \in live \ {x}, Merge(x, y)
      PROVE  AreasDisjoint' /\ (Ordered' => Inv') /\ ("order" \in amiss' => ~Whole')
  <2>1. Ordered' => InOrderEither(x, y)
    BY <1>3 DEF Merge, InOrderEither, Ordered
  <2>2. "order" \in amiss' => ~Whole'
    BY <1>3, MergeBreaks DEF Ordered
  <2>3. QED
    BY <1>3, <2>1, <2>2, MergeApart, MergeInv
<1>4. ASSUME NEW y \in live, NEW addr \in Addr, NEW node \in BOOLEAN, Split(y, addr, node)
      PROVE  Inv'
  BY <1>4, SplitInv
<1>5. ASSUME NEW rg \in Region, Release(rg) PROVE Inv'
  BY <1>5, ReleaseInv
<1>6. Inv' => AreasDisjoint'
  BY DEF Inv
<1>7. CASE \E x \in live : \E y \in live \ {x} : Merge(x, y)
  BY <1>3, <1>7
<1>8. CASE ~ \E x \in live : \E y \in live \ {x} : Merge(x, y)
  <2>1. Inv'
    BY <1>1, <1>2, <1>4, <1>5, <1>8 DEF Next
  <2>2. "order" \notin amiss'
    <3>1. "order" \notin amiss
      BY DEF Ordered
    <3>2. ASSUME NEW id, NEW start, NEW end, NEW free, Add(id, start, end, free)
          PROVE  "order" \notin amiss'
      BY <3>1, <3>2 DEF Add
    <3>3. ASSUME NEW y, NEW addr, NEW node, Split(y, addr, node)
          PROVE  "order" \notin amiss'
      BY <3>1, <3>3 DEF Split
    <3>4. CASE amiss' = amiss
      BY <3>1, <3>4
    <3>5. QED
      BY <1>8, <3>2, <3>3, <3>4 DEF Next, RemoveArea, Release
  <2>3. QED
    BY <1>6, <2>1, <2>2
<1>9. QED
  BY <1>7, <1>8

\* The invariant holds of every reachable state: no call comes after a merge that is
\* out of order.
LEMMA Invariant == Spec => []IInv
<1>1. Init => IInv
  BY InitInv DEF IInv, Inv, Init
<1>2. IInv /\ [Next]_vars => IInv'
  <2> SUFFICES ASSUME IInv, [Next]_vars PROVE IInv'
    OBVIOUS
  <2>1. CASE Next
    <3>1. Inv /\ Ordered
      BY <2>1 DEF IInv, Next, Ordered
    <3>2. QED
      BY <2>1, <3>1, StepInv DEF IInv
  <2>2. CASE UNCHANGED vars
    <3>1. /\ Typed => Typed'
          /\ AreasDisjoint => AreasDisjoint'
          /\ SomeSize => SomeSize'
      BY <2>2 DEF vars, Typed, AreasDisjoint, SomeSize
    <3>2. Chained => Chained'
      BY <2>2 DEF vars, Chained, Linked, Distinct
    <3>3. amiss' = amiss /\ (Whole' => Whole)
      BY <2>2 DEF vars, Whole
    <3>4. QED
      BY <3>1, <3>2, <3>3 DEF IInv, Inv, Ordered
  <2>3. QED
    BY <2>1, <2>2
<1>3. QED
  BY <1>1, <1>2, PTL DEF Spec

\* The chain is what Whole says of the list.
LEMMA InvWhole == Inv => Whole /\ TypeOK
<1> SUFFICES ASSUME Inv PROVE Whole /\ TypeOK
  OBVIOUS
<1>1. PICK n, L : Linked(n, L)
  BY DEF Inv, Chained
<1>2. /\ n \in Nat /\ L \in [1 .. n -> Node] /\ Chain(area, mmap, n, L)
      /\ \A i \in 1 .. n : L[i] \in live
  BY <1>1, InChain
<1>3. n \in 0 .. MaxNodes /\ L \in [1 .. n -> live]
  BY <1>2, ChainFits, Numbers DEF Chain
<1>4. ToSet(L) = live
  BY <1>1, <1>2 DEF ToSet, Linked, Members
<1>5. IsInjective(L)
  BY <1>2 DEF Chain, IsInjective
<1>6. TypeOK
  <2>1. ASSUME NEW x \in DOMAIN area
        PROVE  /\ area[x] = vma(area[x].vm_id, area[x].vm_start, area[x].vm_end,
                                area[x].sbrk, area[x].vm_freerg_list, area[x].vm_next)
               /\ area[x].vm_id \in Id
               /\ region(area[x].vm_start, area[x].vm_end) \in Region
               /\ area[x].sbrk \in area[x].vm_start .. area[x].vm_end
               /\ area[x].vm_freerg_list \in Seq(Region)
               /\ area[x].vm_next \in Node \cup {NULL}
    <3>1. area[x] \in Area /\ area[x].vm_start <= area[x].sbrk /\ area[x].sbrk <= area[x].vm_end
      BY DEF Inv, Typed
    <3>2. /\ area[x].vm_id \in Id /\ area[x].vm_freerg_list \in Seq(Region)
          /\ area[x].vm_next \in Node \cup {NULL}
          /\ area[x].vm_start \in Addr /\ area[x].vm_end \in Addr /\ area[x].sbrk \in Addr
      BY <3>1 DEF Area
    <3>3. \A a \in Addr : a \in Int
      BY DEF Addr
    <3>4. area[x].vm_start <= area[x].vm_end /\ area[x].sbrk \in area[x].vm_start .. area[x].vm_end
      BY <3>1, <3>2, <3>3
    <3>5. area[x] = vma(area[x].vm_id, area[x].vm_start, area[x].vm_end,
                        area[x].sbrk, area[x].vm_freerg_list, area[x].vm_next)
      BY <3>1 DEF Area, vma
    <3>6. QED
      BY <3>2, <3>4, <3>5, RegionOf
  <2>2. QED
    BY <2>1 DEF TypeOK, Inv, Typed
<1>7. Whole
  BY <1>2, <1>3, <1>4, <1>5 DEF Whole, Chain
<1>8. QED
  BY <1>6, <1>7

\* The list of areas ends, and has each area that was added and neither removed nor
\* merged away, once, whatever ids are added, removed and split, until areas are
\* merged that do not follow each other, as merge_vm_areas allows: then it never is
\* whole.
THEOREM ListStaysWhole == Spec => []ListWhole
<1>1. IInv => ListWhole
  BY InvWhole DEF IInv, ListWhole, Ordered
<1>2. QED
  BY <1>1, Invariant, PTL

\* The areas in the list do not overlap, in whatever order they are merged.
THEOREM AreasStayApart == Spec => []AreasDisjoint
<1>1. IInv => AreasDisjoint
  BY DEF IInv
<1>2. QED
  BY <1>1, Invariant, PTL

\* The list is in the order of the ids, so that the first area whose id is not
\* smaller is the one with that id.
LEMMA InvFinds == Inv /\ Distinct => Findable
<1> SUFFICES ASSUME Inv, Distinct, NEW x \in live PROVE get_vma_by_num(area[x].vm_id) = x
  BY DEF Findable
<1>1. PICK n, L : Linked(n, L)
  BY DEF Inv, Chained
<1>2. /\ n \in Nat /\ L \in [1 .. n -> Node] /\ Chain(area, mmap, n, L)
      /\ List = L /\ Len(List) = n
      /\ \A i \in 1 .. n : area[L[i]].vm_id \in Nat
      /\ \A y \in live : \E i \in 1 .. n : y = L[i]
  BY <1>1, InChain
<1>3. PICK k \in 1 .. n : x = L[k]
  BY <1>2
<1> DEFINE T == {i \in 1 .. n : area[L[i]].vm_id >= area[x].vm_id}
<1>4. PICK m : m = IF T # {} THEN Min(T) ELSE 0
  OBVIOUS
<1>5. get_vma_by_num(area[x].vm_id) = IF m = 0 THEN NULL ELSE L[m]
  BY <1>2, <1>4 DEF get_vma_by_num, SelectInSeq
<1>6. k \in T /\ T \in SUBSET Nat
  BY <1>2, <1>3
<1>7. m \in T /\ \A j \in T : m <= j
  <2> HIDE DEF T
  <2>1. QED
    BY <1>4, <1>6, MinOf
<1>8. m \in 1 .. n /\ m <= k /\ area[L[m]].vm_id >= area[x].vm_id
  BY <1>6, <1>7
<1>9. ~(m < k)
  <2>1. m < k => area[L[m]].vm_id < area[L[k]].vm_id
    BY <1>1, <1>8, InChain DEF Sorted
  <2>2. QED
    BY <1>2, <1>3, <1>8, <2>1
<1>10. m = k /\ m # 0
  BY <1>8, <1>9
<1>11. QED
  BY <1>3, <1>5, <1>10

\* A call that makes an area leaves the others as they are found.
LEMMA OldIds ==
  ASSUME Inv, Next, NEW x \in live' \ live, NEW y \in live
  PROVE  y \in live' /\ area'[y].vm_id = area[y].vm_id
<1>1. y \in DOMAIN area /\ area[y] \in Area
  BY Bounds
<1>2. ASSUME NEW id \in Id, NEW start, NEW end, NEW free, Add(id, start, end, free)
      PROVE  y \in live' /\ area'[y].vm_id = area[y].vm_id
  <2>1. PICK n, L : Linked(n, L)
    BY DEF Inv, Chained
  <2>2. PICK z, k : AreaAdded(n, L, z, k, id, start, end, free)
    BY <1>2, <2>1, AddIs
  <2>3. area'[y] = area[y] \/ area'[y] = [area[y] EXCEPT !.vm_next = z]
    BY <1>1, <2>2 DEF AreaAdded
  <2>4. QED
    BY <1>1, <2>2, <2>3 DEF AreaAdded, Area
<1>3. ASSUME NEW v \in live, NEW addr \in Addr, NEW node \in BOOLEAN, Split(v, addr, node)
      PROVE  y \in live' /\ area'[y].vm_id = area[y].vm_id
  <2>1. PICK z : AreaSplit(v, addr, node, z)
    BY <1>3, SplitIs
  <2>2. CASE y # v
    BY <1>1, <2>1, <2>2 DEF AreaSplit
  <2>3. CASE y = v
    <3>1. area'[y].vm_id = area[y].vm_id
      BY <1>1, <2>1, <2>3 DEF AreaSplit, Area
    <3>2. QED
      BY <2>1, <3>1 DEF AreaSplit
  <2>4. QED
    BY <2>2, <2>3
<1>4. ~ \E id \in Id : RemoveArea(id)
  BY DEF RemoveArea
<1>5. ASSUME NEW v \in live, NEW w \in live \ {v}, Merge(v, w) PROVE FALSE
  <2>1. PICK z : live' = live \ {z}
    BY <1>5 DEF Merge
  <2>2. QED
    BY <2>1
<1>6. ~ \E rg \in Region : Release(rg)
  BY DEF Release
<1>7. QED
  BY <1>2, <1>3, <1>4, <1>5, <1>6 DEF Next

\* No id is taken twice by a call that takes none in use.
LEMMA NewIds ==
  ASSUME Inv, Next, Distinct, NewId
  PROVE  Distinct'
<1>1. ASSUME NEW id \in Id, NEW start, NEW end, NEW free, Add(id, start, end, free)
      PROVE  Distinct'
  <2>1. PICK n, L : Linked(n, L)
    BY DEF Inv, Chained
  <2>2. PICK z, k : AreaAdded(n, L, z, k, id, start, end, free)
    BY <1>1, <2>1, AddIs
  <2>3. z \in live' \ live
    BY <2>2, Bounds DEF AreaAdded
  <2>4. area'[z].vm_id = id
    BY <2>2 DEF AreaAdded, vma
  <2>5. amiss' = amiss \cup {w \in {"taken"} : id \in Ids}
    BY <1>1 DEF Add
  <2>6. QED
    BY <2>3, <2>4, <2>5 DEF Distinct, NewId
<1>2. ASSUME NEW v \in live, NEW addr \in Addr, NEW node \in BOOLEAN, Split(v, addr, node)
      PROVE  Distinct'
  <2>1. PICK z : AreaSplit(v, addr, node, z)
    BY <1>2, SplitIs
  <2>2. z \in live' \ live
    BY <2>1, Bounds DEF AreaSplit
  <2>3. area'[z].vm_id = area[v].vm_id + 1
    BY <2>1 DEF AreaSplit, vma
  <2>4. QED
    BY <2>1, <2>2, <2>3 DEF AreaSplit, SplitAmiss, Distinct, NewId
<1>3. CASE amiss' \subseteq amiss \cup {"order", "empty"}
  BY <1>3 DEF Distinct
<1>4. ASSUME NEW v \in live, NEW w \in live, Merge(v, w)
      PROVE  amiss' \subseteq amiss \cup {"order", "empty"}
  BY <1>4 DEF Merge
<1>5. QED
  BY <1>1, <1>2, <1>3, <1>4 DEF Next, RemoveArea, Release

\* Every area is found by its id in the states in which no id was taken twice.
Found == IInv /\ (Ordered /\ Distinct => Findable)

\* They all are such states, as far as the list is in order.
LEMMA AlwaysFound == Spec => []Found
<1>1. IInv => Found
  BY InvFinds DEF Found, IInv
<1>2. QED
  BY <1>1, Invariant, PTL

\* get_vma_by_num finds every area by its id after a call that makes no area with an
\* id in use, and misses one after a call that does, an add or a split.
THEOREM LookupAlwaysFinds == Spec => LookupFinds
<1>1. Found /\ Found' /\ [Next]_vars =>
        [amiss \cap {"taken", "next id"} = {} /\ amiss' \cap {"order", "empty"} = {} =>
           (Findable' <=> NewId)]_vars
  <2> SUFFICES ASSUME Found, Found', Next, Distinct, Ordered'
               PROVE  Findable' <=> NewId
    BY DEF Distinct, Ordered
  <2>1. Inv
    BY DEF Found, IInv, Next, Ordered
  <2>2. ASSUME NewId PROVE Findable'
    BY <2>1, <2>2, NewIds DEF Found
  <2>3. ASSUME NEW x \in live' \ live, area'[x].vm_id \in Ids PROVE ~Findable'
    <3>1. PICK y \in live : area[y].vm_id = area'[x].vm_id
      BY <2>3 DEF Ids
    <3>2. y \in live' /\ area'[y].vm_id = area'[x].vm_id /\ y # x
      BY <2>1, <2>3, <3>1, OldIds
    <3>3. QED
      BY <2>3, <3>2 DEF Findable
  <2>4. QED
    BY <2>2, <2>3 DEF NewId
<1>2. QED
  BY <1>1, AlwaysFound, PTL DEF Spec, LookupFinds

-----------------------------------------------------------------------------
(* Free memory                                                               *)

\* Address a is free in an area.
FreeIn(ar, a) == Within(ar, a) /\ Frees(ar.vm_freerg_list, a)

\* No split cut a free list wrongly or lacked a node.
CutWell == amiss \cap {"cut", "no node"} = {}

\* The free addresses and the addresses of areas.
LEMMA FreeAddrsAre ==
  /\ FreeAddrs = {a \in Addr : \E x \in live : FreeIn(area[x], a)}
  /\ Covered = {a \in Addr : \E x \in live : Within(area[x], a)}
BY DEF FreeAddrs, Covered, FreeIn, Within, Frees

\* What one of two lists frees, both in a row free.
LEMMA FreesBoth ==
  ASSUME NEW S, NEW l1 \in Seq(S), NEW l2 \in Seq(S), NEW a, Frees(l1, a) \/ Frees(l2, a)
  PROVE  Frees(l1 \o l2, a)
<1>1. PICK l, n1, n2 : l = l1 \o l2 /\ n1 = Len(l1) /\ n2 = Len(l2)
  OBVIOUS
<1>2. n1 \in Nat /\ n2 \in Nat /\ DOMAIN l1 = 1 .. n1 /\ DOMAIN l2 = 1 .. n2
  BY <1>1
<1>3. /\ l \in Seq(S) /\ Len(l) = n1 + n2
      /\ \A i \in 1 .. (n1 + n2) : l[i] = IF i <= n1 THEN l1[i] ELSE l2[i - n1]
  BY <1>1, ConcatProperties
<1>4. DOMAIN l = 1 .. (n1 + n2)
  BY <1>3
<1>5. CASE Frees(l1, a)
  <2>1. PICK i \in 1 .. n1 : l1[i].rg_start <= a /\ a < l1[i].rg_end
    BY <1>2, <1>5 DEF Frees
  <2>2. i \in 1 .. (n1 + n2) /\ l[i] = l1[i]
    BY <1>2, <1>3, <2>1
  <2>3. QED
    BY <1>1, <1>4, <2>1, <2>2 DEF Frees
<1>6. CASE Frees(l2, a)
  <2>1. PICK i \in 1 .. n2 : l2[i].rg_start <= a /\ a < l2[i].rg_end
    BY <1>2, <1>6 DEF Frees
  <2>2. n1 + i \in 1 .. (n1 + n2) /\ ~(n1 + i <= n1) /\ (n1 + i) - n1 = i
    BY <1>2, <2>1
  <2>3. l[n1 + i] = l2[i]
    BY <1>3, <2>2
  <2>4. QED
    BY <1>1, <1>4, <2>1, <2>2, <2>3 DEF Frees
<1>7. QED
  BY <1>5, <1>6

\* What is free below an address is free before the place where a list is cut, from a
\* start on.
KeepsLower(list, start, addr) ==
  CutAt(list, addr) # 0 /\ ~Spans(list, addr) =>
    \A a \in start .. (addr - 1) :
      Frees(list, a) => Frees(SubSeq(list, 1, CutAt(list, addr) - 1), a)

\* Of a list that is cut well, each part frees what the list freed on its side.
LEMMA FreesParts ==
  ASSUME NEW list \in Seq(Region), NEW addr \in Addr, NEW a \in Addr, Frees(list, a),
         NEW start \in Int, start <= a, KeepsLower(list, start, addr),
         NEW node \in BOOLEAN, node \/ ~Spans(list, addr)
  PROVE  /\ a < addr => Frees(SplitRegions(list, addr, node)[1], a)
         /\ ~(a < addr) => Frees(SplitRegions(list, addr, node)[2], a)
<1>1. PICK n, i : n = Len(list) /\ i = CutAt(list, addr)
  OBVIOUS
<1>2. /\ n \in Nat /\ DOMAIN list = 1 .. n /\ i \in 0 .. n
      /\ i # 0 => list[i].rg_start >= addr \/ list[i].rg_end > addr
      /\ \A j \in 1 .. n : i = 0 \/ j < i => list[j].rg_start < addr /\ list[j].rg_end <= addr
  BY <1>1, CutPlace
<1>3. PICK k \in 1 .. n : list[k].rg_start <= a /\ a < list[k].rg_end
  BY <1>2 DEF Frees
<1>4. /\ a \in Int /\ addr \in Int
      /\ \A j \in 1 .. n : list[j] \in Region /\ list[j].rg_start \in Int /\ list[j].rg_end \in Int
  <2>1. \A rg \in Region : rg.rg_start \in Int /\ rg.rg_end \in Int
    BY DEF Region, Addr
  <2>2. QED
    BY <1>1, <2>1 DEF Addr
<1>5. i = 0 \/ k < i => a < addr
  BY <1>2, <1>3, <1>4
<1>6. CASE i = 0
  <2>1. SplitRegions(list, addr, node)[1] = list
    BY <1>1, <1>6 DEF SplitRegions
  <2>2. QED
    BY <1>5, <1>6, <2>1
<1>7. CASE i # 0 /\ list[i].rg_start >= addr
  <2>1. PICK lower, upper : lower = SubSeq(list, 1, i - 1) /\ upper = SubSeq(list, i, n)
    OBVIOUS
  <2>2. SplitRegions(list, addr, node)[1] = lower /\ SplitRegions(list, addr, node)[2] = upper
    <3>1. SplitRegions(list, addr, node) = <<lower, upper>>
      BY <1>1, <1>7, <2>1 DEF SplitRegions
    <3>2. QED
      BY <3>1
  <2>3. i - 1 \in 0 .. n /\ i \in 1 .. (n + 1) /\ 1 \in 1 .. (n + 1) /\ n \in 0 .. n
    BY <1>2, <1>7
  <2>4. CASE a < addr
    <3>1. ~Spans(list, addr)
      BY <1>1, <1>2, <1>4, <1>7 DEF Spans
    <3>2. a \in start .. (addr - 1)
      BY <1>4, <2>4
    <3>3. Frees(lower, a)
      BY <1>1, <1>7, <2>1, <3>1, <3>2 DEF KeepsLower
    <3>4. QED
      BY <2>2, <2>4, <3>3
  <2>5. CASE ~(a < addr)
    <3>1. ~(k < i)
      BY <1>5, <2>5
    <3>2. k \in i .. n
      BY <1>2, <1>7, <3>1
    <3>3. n = Len(list) /\ upper = SubSeq(list, i, Len(list))
      BY <1>1, <2>1
    <3>4. \E m \in DOMAIN upper : upper[m] = list[k]
      BY <2>3, <3>2, <3>3, PartOf
    <3>5. Frees(upper, a)
      BY <1>3, <3>4 DEF Frees
    <3>6. QED
      BY <2>2, <2>5, <3>5
  <2>6. QED
    BY <2>4, <2>5
<1>8. CASE i # 0 /\ ~(list[i].rg_start >= addr)
  <2>1. i \in 1 .. n /\ list[i].rg_start < addr /\ list[i].rg_end > addr /\ node
    BY <1>1, <1>2, <1>4, <1>8 DEF Spans
  <2>2. PICK rg, lower, rest :
          /\ lower = [list EXCEPT ![i].rg_end = addr]
          /\ rg = region(addr, list[i].rg_end) /\ rest = SubSeq(list, i + 1, Len(list))
    OBVIOUS
  <2>3. SplitRegions(list, addr, node) = <<lower, <<rg>> \o rest>>
    BY <1>1, <1>8, <2>1, <2>2 DEF SplitRegions
  <2>4. /\ DOMAIN lower = 1 .. n
        /\ lower[i] = [list[i] EXCEPT !.rg_end = addr]
        /\ \A j \in 1 .. n : j # i => lower[j] = list[j]
    <3>1. DOMAIN list = 1 .. n /\ lower = [list EXCEPT ![i].rg_end = addr]
      BY <1>2, <2>2
    <3>2. QED
      BY <2>1, <3>1
  <2>5. CASE a < addr
    <3>1. lower[k].rg_start <= a /\ a < lower[k].rg_end
      <4>1. CASE k = i
        <5>1. lower[i].rg_start = list[i].rg_start /\ lower[i].rg_end = addr
          BY <1>4, <2>1, <2>4 DEF Region
        <5>2. QED
          BY <1>3, <2>5, <4>1, <5>1
      <4>2. CASE k # i
        BY <1>3, <2>4, <4>2
      <4>3. QED
        BY <4>1, <4>2
    <3>2. Frees(lower, a)
      BY <2>4, <3>1 DEF Frees
    <3>3. QED
      BY <2>3, <2>5, <3>2
  <2>6. CASE ~(a < addr)
    <3>1. i + 1 \in 1 .. (Len(list) + 1) /\ Len(list) \in 0 .. Len(list)
      BY <1>1, <1>2, <2>1
    <3>2. <<rg>> \in Seq(Region) /\ rest \in Seq(Region)
      <4>1. list[i].rg_end \in Addr /\ addr <= list[i].rg_end
        BY <1>4, <2>1 DEF Region
      <4>2. <<rg>> \in Seq(Region)
        BY <2>2, <4>1, RegionOf
      <4>3. rest \in Seq(Region)
        BY <2>2, <3>1, PartOf
      <4>4. QED
        BY <4>2, <4>3
    <3>3. Frees(<<rg>>, a) \/ Frees(rest, a)
      <4>1. CASE k = i
        <5>1. rg.rg_start = addr /\ rg.rg_end = list[i].rg_end
          BY <2>2 DEF region
        <5>2. <<rg>>[1] = rg /\ 1 \in DOMAIN <<rg>>
          OBVIOUS
        <5>3. rg.rg_start <= a /\ a < rg.rg_end
          BY <1>3, <1>4, <2>6, <4>1, <5>1
        <5>4. Frees(<<rg>>, a)
          BY <5>2, <5>3 DEF Frees
        <5>5. QED
          BY <5>4
      <4>2. CASE k # i
        <5>1. k \in (i + 1) .. Len(list)
          BY <1>1, <1>2, <1>5, <2>1, <2>6, <4>2
        <5>2. \E m \in DOMAIN rest : rest[m] = list[k]
          BY <2>2, <3>1, <5>1, PartOf
        <5>3. QED
          BY <1>3, <5>2 DEF Frees
      <4>3. QED
        BY <4>1, <4>2
    <3>4. Frees(<<rg>> \o rest, a)
      BY <3>2, <3>3, FreesBoth
    <3>5. QED
      BY <2>3, <2>6, <3>4
  <2>7. QED
    BY <2>5, <2>6
<1>9. QED
  BY <1>6, <1>7, <1>8

\* Free memory stays free in each operation.
LEMMA AddFree ==
  ASSUME Inv, NEW id \in Id, NEW start \in Addr, NEW end \in Addr,
         NEW free, Add(id, start, end, free),
         NEW a \in Addr, NEW x \in live, FreeIn(area[x], a)
  PROVE  \E z \in live' : FreeIn(area'[z], a)
<1>1. PICK n, L : Linked(n, L)
  BY DEF Inv, Chained
<1>2. PICK y, k : AreaAdded(n, L, y, k, id, start, end, free)
  BY <1>1, AddIs
<1>3. x \in live' /\ (area'[x] = area[x] \/ area'[x] = [area[x] EXCEPT !.vm_next = y])
  BY <1>2, Bounds DEF AreaAdded
<1>4. area[x] \in Area
  BY Bounds
<1>5. /\ area'[x].vm_start = area[x].vm_start /\ area'[x].vm_end = area[x].vm_end
      /\ area'[x].vm_freerg_list = area[x].vm_freerg_list
  BY <1>3, <1>4 DEF Area
<1>6. QED
  BY <1>3, <1>5 DEF FreeIn, Within

\* What is free in an area that stays.
LEMMA RemoveFree ==
  ASSUME Inv, NEW id, RemoveArea(id),
         NEW a \in Addr, NEW x \in live, FreeIn(area[x], a),
         NEW y \in live', Within(area'[y], a)
  PROVE  \E z \in live' : FreeIn(area'[z], a)
<1>1. PICK n, L : Linked(n, L)
  BY DEF Inv, Chained
<1>2. PICK k : AreaRemoved(n, L, k)
  BY <1>1, RemoveIs
<1>3. ASSUME NEW z \in live'
      PROVE  /\ z \in live
             /\ area'[z].vm_start = area[z].vm_start /\ area'[z].vm_end = area[z].vm_end
             /\ area'[z].vm_freerg_list = area[z].vm_freerg_list
  <2>1. z \in live /\ z # L[k]
    BY <1>2 DEF AreaRemoved
  <2>2. PICK i \in 1 .. n : z = L[i] /\ i # k
    BY <1>1, <2>1, InChain
  <2>3. area'[z] = IF i + 1 = k THEN [area[z] EXCEPT !.vm_next = area[L[k]].vm_next]
                   ELSE area[z]
    BY <1>2, <2>2 DEF AreaRemoved
  <2>4. area[z] \in Area
    BY <2>1, Bounds
  <2>5. QED
    BY <2>1, <2>3, <2>4 DEF Area
<1>4. CASE x \in live'
  BY <1>3, <1>4 DEF FreeIn, Within
<1>5. CASE x \notin live'
  <2>1. y \in live /\ y # x /\ Within(area[y], a) /\ Within(area[x], a)
    BY <1>3, <1>5 DEF FreeIn, Within
  <2>2. OVERLAP(area[x].vm_start, area[x].vm_end, area[y].vm_start, area[y].vm_end)
    <3>1. a \in Int
      BY DEF Addr
    <3>2. /\ area[x].vm_start \in Int /\ area[x].vm_end \in Int
          /\ area[y].vm_start \in Int /\ area[y].vm_end \in Int
      BY <2>1, Bounds
    <3>3. QED
      BY <2>1, <3>1, <3>2 DEF Within, OVERLAP
  <2>3. QED
    BY <2>1, <2>2 DEF Inv, AreasDisjoint
<1>6. QED
  BY <1>4, <1>5

\* What is free in one of two areas, in the merged one.
LEMMA MergeFree ==
  ASSUME Inv, NEW v \in live, NEW w \in live, InOrderEither(v, w), Merge(v, w),
         NEW a \in Addr, NEW x \in live, FreeIn(area[x], a)
  PROVE  \E z \in live' : FreeIn(area'[z], a)
<1>1. PICK n, L : Linked(n, L)
  BY DEF Inv, Chained
<1>2. PICK k : AreasMerged(n, L, k)
  BY <1>1, MergeIs
<1>3. PICK b, c : b = L[k] /\ c = L[k + 1]
  OBVIOUS
<1>4. b \in live /\ c \in live /\ b # c /\ area[b].vm_end = area[c].vm_start
  <2>1. /\ k \in 1 .. n /\ k + 1 \in 1 .. n /\ k # k + 1 /\ n \in Nat
        /\ area[L[k]].vm_end = area[L[k + 1]].vm_start
    BY <1>1, <1>2, InChain DEF AreasMerged
  <2>2. QED
    BY <1>1, <1>3, <2>1, InChain DEF Chain
<1>5. /\ live' = live \ {c}
      /\ area'[b] = [area[b] EXCEPT
           !.vm_end = area[c].vm_end,
           !.sbrk = greater(area[b].sbrk, area[c].sbrk),
           !.vm_freerg_list = area[b].vm_freerg_list \o area[c].vm_freerg_list,
           !.vm_next = area[c].vm_next]
      /\ \A z \in DOMAIN area \ {b, c} : area'[z] = area[z]
  BY <1>2, <1>3 DEF AreasMerged
<1>6. CASE x \notin {b, c}
  <2>1. x \in DOMAIN area \ {b, c}
    BY <1>6, Bounds
  <2>2. x \in live' /\ area'[x] = area[x]
    BY <1>5, <1>6, <2>1
  <2>3. QED
    BY <2>2
<1>7. CASE x \in {b, c}
  <2>1. b \in live' /\ area[b] \in Area
    BY <1>4, <1>5, Bounds
  <2>2. /\ area'[b].vm_start = area[b].vm_start /\ area'[b].vm_end = area[c].vm_end
        /\ area'[b].vm_freerg_list = area[b].vm_freerg_list \o area[c].vm_freerg_list
    BY <1>5, <2>1 DEF Area
  <2>3. Within(area'[b], a)
    <3>1. a \in Int
      BY DEF Addr
    <3>2. /\ area[b].vm_start \in Int /\ area[b].vm_end \in Int
          /\ area[c].vm_start \in Int /\ area[c].vm_end \in Int
          /\ area[b].vm_start <= area[b].vm_end /\ area[c].vm_start <= area[c].vm_end
      BY <1>4, Bounds
    <3>3. QED
      BY <1>4, <1>7, <2>2, <3>1, <3>2 DEF FreeIn, Within
  <2>4. Frees(area[b].vm_freerg_list \o area[c].vm_freerg_list, a)
    <3>1. area[b].vm_freerg_list \in Seq(Region) /\ area[c].vm_freerg_list \in Seq(Region)
      BY <1>4, Bounds
    <3>2. Frees(area[b].vm_freerg_list, a) \/ Frees(area[c].vm_freerg_list, a)
      BY <1>7 DEF FreeIn
    <3>3. QED
      BY <3>1, <3>2, FreesBoth
  <2>5. FreeIn(area'[b], a)
    BY <2>2, <2>3, <2>4 DEF FreeIn
  <2>6. QED
    BY <2>1, <2>5
<1>8. QED
  BY <1>6, <1>7

\* What is free in an area, in one of the two it is split into.
LEMMA SplitFree ==
  ASSUME Inv, NEW y \in live, NEW addr \in Addr, NEW node \in BOOLEAN, Split(y, addr, node),
         CutWell',
         NEW a \in Addr, NEW x \in live, FreeIn(area[x], a)
  PROVE  \E z \in live' : FreeIn(area'[z], a)
<1>1. PICK w : AreaSplit(y, addr, node, w)
  BY SplitIs
<1>2. PICK b, lists : b = area[y] /\ lists = SplitRegions(b.vm_freerg_list, addr, node)
  OBVIOUS
<1>3. /\ w \notin DOMAIN area
      /\ area'[y] = [b EXCEPT !.vm_end = addr, !.sbrk = BreakCut(b.sbrk, addr),
                              !.vm_freerg_list = lists[1], !.vm_next = w]
      /\ area'[w] = vma(b.vm_id + 1, addr, b.vm_end, greater(b.sbrk, addr), lists[2], b.vm_next)
      /\ \A z \in DOMAIN area \ {y} : area'[z] = area[z]
      /\ live' = live \cup {w}
      /\ Misplaced(b, addr) = {}
      /\ node \/ ~Spans(b.vm_freerg_list, addr)
  BY <1>1, <1>2 DEF AreaSplit, SplitAmiss, CutWell
<1>4. CASE x # y
  <2>1. x \in live' /\ area'[x] = area[x]
    BY <1>3, <1>4, Bounds
  <2>2. QED
    BY <2>1
<1>5. CASE x = y
  <2>1. b \in Area /\ b.vm_freerg_list \in Seq(Region) /\ b.vm_start \in Int
    BY <1>2, Bounds
  <2>2. Within(b, a) /\ Frees(b.vm_freerg_list, a)
    BY <1>2, <1>5 DEF FreeIn
  <2>3. /\ a < addr => Frees(lists[1], a)
        /\ ~(a < addr) => Frees(lists[2], a)
    <3>1. b.vm_start <= a
      BY <2>2 DEF Within
    <3>2. KeepsLower(b.vm_freerg_list, b.vm_start, addr)
      BY <1>3 DEF KeepsLower, Misplaced
    <3>3. QED
      BY <1>2, <1>3, <2>1, <2>2, <3>1, <3>2, FreesParts
  <2>4. CASE a < addr
    <3>1. /\ area'[y].vm_start = b.vm_start /\ area'[y].vm_end = addr
          /\ area'[y].vm_freerg_list = lists[1]
      BY <1>3, <2>1 DEF Area
    <3>2. FreeIn(area'[y], a)
      BY <2>2, <2>3, <2>4, <3>1 DEF FreeIn, Within
    <3>3. QED
      BY <1>3, <3>2
  <2>5. CASE ~(a < addr)
    <3>1. /\ area'[w].vm_start = addr /\ area'[w].vm_end = b.vm_end
          /\ area'[w].vm_freerg_list = lists[2]
      BY <1>3 DEF vma
    <3>2. addr <= a
      BY <2>5 DEF Addr
    <3>3. FreeIn(area'[w], a)
      BY <2>2, <2>3, <2>5, <3>1, <3>2 DEF FreeIn, Within
    <3>4. QED
      BY <1>3, <3>3
  <2>6. QED
    BY <2>4, <2>5
<1>6. QED
  BY <1>4, <1>5

\* What is free, with one more region free.
LEMMA ReleaseFree ==
  ASSUME Inv, NEW rg \in Region, Release(rg),
         NEW a \in Addr, NEW x \in live, FreeIn(area[x], a)
  PROVE  \E z \in live' : FreeIn(area'[z], a)
<1>1. /\ mmap \in DOMAIN area /\ live' = live
      /\ area'[mmap] = [area[mmap] EXCEPT !.vm_freerg_list = <<rg>> \o area[mmap].vm_freerg_list]
      /\ \A y \in DOMAIN area \ {mmap} : area'[y] = area[y]
  BY ReleaseIs
<1>2. CASE x # mmap
  <2>1. area'[x] = area[x]
    BY <1>1, <1>2, Bounds
  <2>2. QED
    BY <1>1, <2>1
<1>3. CASE x = mmap
  <2>1. area[x] \in Area /\ area[x].vm_freerg_list \in Seq(Region) /\ <<rg>> \in Seq(Region)
    BY Bounds
  <2>2. /\ area'[x].vm_start = area[x].vm_start /\ area'[x].vm_end = area[x].vm_end
        /\ area'[x].vm_freerg_list = <<rg>> \o area[x].vm_freerg_list
    <3>1. area'[x] = [area[x] EXCEPT !.vm_freerg_list = <<rg>> \o area[x].vm_freerg_list]
      BY <1>1, <1>3
    <3>2. QED
      BY <2>1, <3>1 DEF Area
  <2>3. Frees(<<rg>> \o area[x].vm_freerg_list, a)
    BY <2>1, FreesBoth DEF FreeIn
  <2>4. FreeIn(area'[x], a)
    BY <2>2, <2>3 DEF FreeIn, Within
  <2>5. QED
    BY <1>1, <2>4
<1>4. QED
  BY <1>2, <1>3

\* What is free in an area stays free, in the area it comes to belong to, as long
\* as it belongs to one, and no call was amiss for it.
LEMMA StepKeepsFree ==
  ASSUME Inv, Next, Ordered', CutWell',
         NEW a \in Addr, NEW x \in live, FreeIn(area[x], a),
         NEW y \in live', Within(area'[y], a)
  PROVE  \E z \in live' : FreeIn(area'[z], a)
<1>1. ASSUME NEW id \in Id, NEW start \in Addr, NEW end \in Addr, NEW free,
             Add(id, start, end, free)
      PROVE  \E z \in live' : FreeIn(area'[z], a)
  BY <1>1, AddFree
<1>2. ASSUME NEW id \in Id, RemoveArea(id) PROVE \E z \in live' : FreeIn(area'[z], a)
  BY <1>2, RemoveFree
<1>3. ASSUME NEW v \in live, NEW w \in live, Merge(v, w)
      PROVE  \E z \in live' : FreeIn(area'[z], a)
  <2>1. InOrderEither(v, w)
    BY <1>3 DEF Merge, InOrderEither, Ordered
  <2>2. QED
    BY <1>3, <2>1, MergeFree
<1>4. ASSUME NEW w \in live, NEW addr \in Addr, NEW node \in BOOLEAN, Split(w, addr, node)
      PROVE  \E z \in live' : FreeIn(area'[z], a)
  BY <1>4, SplitFree
<1>5. ASSUME NEW rg \in Region, Release(rg) PROVE \E z \in live' : FreeIn(area'[z], a)
  BY <1>5, ReleaseFree
<1>6. QED
  BY <1>1, <1>2, <1>3, <1>4, <1>5 DEF Next

\* The same of the sets of addresses.
LEMMA StepFree ==
  ASSUME Inv, Next, Ordered', CutWell'
  PROVE  FreeAddrs \cap Covered' \subseteq FreeAddrs'
<1> SUFFICES ASSUME NEW a \in FreeAddrs, a \in Covered'
             PROVE  a \in FreeAddrs'
  OBVIOUS
<1>1. PICK x \in live : a \in Addr /\ FreeIn(area[x], a)
  BY FreeAddrsAre
<1>2. PICK y \in live' : Within(area'[y], a)
  BY DEF Covered
<1>3. PICK z \in live' : FreeIn(area'[z], a)
  BY <1>1, <1>2, StepKeepsFree
<1>4. QED
  BY <1>1, <1>3 DEF FreeAddrs, FreeIn

\* No other area has an address that is within one.
LEMMA FreeOnlyThere ==
  ASSUME Inv', NEW x \in live', NEW a \in Addr, Within(area'[x], a),
         ~Frees(area'[x].vm_freerg_list, a)
  PROVE  a \notin FreeAddrs'
<1> SUFFICES ASSUME NEW z \in live', Within(area'[z], a), Frees(area'[z].vm_freerg_list, a)
             PROVE  FALSE
  BY DEF FreeAddrs
<1>1. \A y \in live' : area'[y].vm_start \in Int /\ area'[y].vm_end \in Int
  BY DEF Inv, Typed, Area, Addr
<1>2. z # x
  OBVIOUS
<1>3. ~OVERLAP(area'[z].vm_start, area'[z].vm_end, area'[x].vm_start, area'[x].vm_end)
  BY <1>2 DEF Inv, AreasDisjoint
<1>4. QED
  BY <1>1, <1>3 DEF Within, OVERLAP, Addr

\* What a split cuts wrongly, or cannot divide, is free in neither area.
LEMMA SplitLoses ==
  ASSUME Inv, NEW y \in live, NEW addr \in Addr, NEW node \in BOOLEAN, Split(y, addr, node),
         CutWell, ~CutWell'
  PROVE  \E a \in FreeAddrs \cap Covered' : a \notin FreeAddrs'
<1>1. PICK w : AreaSplit(y, addr, node, w)
  BY SplitIs
<1>2. PICK b, list, lists :
        b = area[y] /\ list = b.vm_freerg_list /\ lists = SplitRegions(list, addr, node)
  OBVIOUS
<1>3. /\ b.vm_start < addr /\ addr < b.vm_end
      /\ area'[y] = [b EXCEPT !.vm_end = addr, !.sbrk = BreakCut(b.sbrk, addr),
                              !.vm_freerg_list = lists[1], !.vm_next = w]
      /\ area'[w] = vma(b.vm_id + 1, addr, b.vm_end, greater(b.sbrk, addr), lists[2], b.vm_next)
      /\ live' = live \cup {w}
      /\ Misplaced(b, addr) # {} \/ (~node /\ Spans(list, addr))
  BY <1>1, <1>2 DEF AreaSplit, SplitAmiss, CutWell
<1>4. /\ b \in Area /\ list \in Seq(Region) /\ addr \in Int
      /\ b.vm_start \in Int /\ b.vm_end \in Int
      /\ b.vm_start \in Addr /\ b.vm_end \in Addr
  BY <1>2, Bounds DEF Addr
<1>5. /\ area'[y].vm_start = b.vm_start /\ area'[y].vm_end = addr
      /\ area'[y].vm_freerg_list = lists[1]
      /\ area'[w].vm_start = addr /\ area'[w].vm_end = b.vm_end
      /\ area'[w].vm_freerg_list = lists[2]
      /\ y \in live' /\ w \in live'
  BY <1>3, <1>4 DEF Area, vma
<1>6. Inv'
  BY SplitInv
<1>7. CASE Misplaced(b, addr) # {}
  <2>1. PICK i : i = CutAt(list, addr)
    OBVIOUS
  <2>2. i # 0 /\ ~Spans(list, addr)
    BY <1>2, <1>7, <2>1 DEF Misplaced
  <2>3. PICK a \in b.vm_start .. (addr - 1) : Frees(list, a) /\ ~Frees(SubSeq(list, 1, i - 1), a)
    BY <1>2, <1>7, <2>1, <2>2 DEF Misplaced
  <2>4. a \in Int /\ a \in Addr /\ b.vm_start <= a /\ a < addr /\ a < b.vm_end
    BY <1>3, <1>4, <2>3, VmAreasAssumption DEF Addr
  <2>5. lists[1] = SubSeq(list, 1, i - 1)
    <3>1. list[i].rg_start >= addr
      <4>1. i \in 1 .. Len(list)
        BY <1>4, <2>1, <2>2, CutPlace
      <4>2. list[i] \in Region
        BY <1>4, <4>1
      <4>3. list[i].rg_start \in Int
        BY <4>2 DEF Region, Addr
      <4>4. QED
        BY <1>4, <2>1, <2>2, <4>3 DEF Spans
    <3>2. QED
      BY <1>2, <2>1, <2>2, <3>1 DEF SplitRegions
  <2>6. a \in FreeAddrs
    BY <1>2, <2>3, <2>4 DEF FreeAddrs, Within
  <2>7. Within(area'[y], a)
    BY <1>5, <2>4 DEF Within
  <2>8. a \in Covered'
    BY <1>5, <2>4, <2>7 DEF Covered
  <2>9. ~Frees(area'[y].vm_freerg_list, a)
    BY <1>5, <2>3, <2>5
  <2>10. a \notin FreeAddrs'
    BY <1>5, <1>6, <2>4, <2>7, <2>9, FreeOnlyThere
  <2>11. QED
    BY <2>6, <2>8, <2>10
<1>8. CASE ~node /\ Spans(list, addr)
  <2>1. PICK i : i = CutAt(list, addr)
    OBVIOUS
  <2>2. i \in 1 .. Len(list) /\ list[i].rg_start < addr
    BY <1>4, <1>8, <2>1, CutPlace DEF Spans
  <2>3. list[i].rg_end > addr
    <3>1. list[i].rg_start >= addr \/ list[i].rg_end > addr
      BY <1>4, <2>1, <2>2, CutPlace
    <3>2. list[i] \in Region
      BY <1>4, <2>2
    <3>3. list[i].rg_start \in Int
      BY <3>2 DEF Region, Addr
    <3>4. QED
      BY <1>4, <2>2, <3>1, <3>3
  <2>4. Frees(list, addr)
    <3>1. list[i] \in Region /\ i \in DOMAIN list
      BY <1>4, <2>2
    <3>2. list[i].rg_start \in Int /\ list[i].rg_end \in Int
      BY <3>1 DEF Region, Addr
    <3>3. QED
      BY <1>4, <2>2, <2>3, <3>1, <3>2 DEF Frees
  <2>5. addr \in FreeAddrs
    BY <1>2, <1>3, <1>4, <2>4 DEF FreeAddrs, Within
  <2>6. Within(area'[w], addr)
    BY <1>3, <1>4, <1>5 DEF Within
  <2>7. addr \in Covered'
    BY <1>5, <2>6 DEF Covered
  <2>8. lists[2] = <<>>
    BY <1>2, <1>8 DEF SplitRegions
  <2>9. ~Frees(area'[w].vm_freerg_list, addr)
    BY <1>5, <2>8 DEF Frees
  <2>10. addr \notin FreeAddrs'
    BY <1>5, <1>6, <2>6, <2>9, FreeOnlyThere
  <2>11. QED
    BY <2>5, <2>7, <2>10
<1>9. QED
  BY <1>3, <1>7, <1>8

\* Only splits are cut wrongly or lack a node.
LEMMA StepLoses ==
  ASSUME Inv, Next, CutWell, ~CutWell'
  PROVE  ~(FreeAddrs \cap Covered' \subseteq FreeAddrs')
<1>1. ~ \E id \in Id, start \in Addr, end \in Addr :
          \E free \in {<<region(start, start)>>, <<>>} : Add(id, start, end, free)
  BY DEF Add, CutWell
<1>2. ~ \E id \in Id : RemoveArea(id)
  BY DEF RemoveArea, CutWell
<1>3. ASSUME NEW x \in live, NEW y \in live \ {x}, Merge(x, y) PROVE FALSE
  <2>1. amiss' \subseteq amiss \cup {"order", "empty"}
    BY <1>3 DEF Merge
  <2>2. QED
    BY <2>1 DEF CutWell
<1>4. ~ \E rg \in Region : Release(rg)
  BY DEF Release, CutWell
<1>5. PICK y \in live, addr \in Addr, node \in BOOLEAN : Split(y, addr, node)
  BY <1>1, <1>2, <1>3, <1>4 DEF Next
<1>6. QED
  BY <1>5, SplitLoses

\* The free memory of an area stays free through every call, up to the first split of
\* a list that has a region of the lower part behind the cut, or that lacks a node:
\* and there split_vm_area always loses some of it.
THEOREM FreeStaysFree == Spec => FreeKept
<1>1. IInv /\ [Next]_vars =>
        [amiss \cap {"cut", "no node"} = {} /\ amiss' \cap {"order", "empty"} = {} =>
           (FreeAddrs \cap Covered' \subseteq FreeAddrs'
              <=> amiss' \cap {"cut", "no node"} = {})]_vars
  <2> SUFFICES ASSUME IInv, Next, CutWell, Ordered'
               PROVE  FreeAddrs \cap Covered' \subseteq FreeAddrs' <=> CutWell'
    BY DEF CutWell, Ordered
  <2>1. Inv
    BY DEF IInv, Next, Ordered
  <2>2. QED
    BY <2>1, StepFree, StepLoses
<1>2. QED
  BY <1>1, Invariant, PTL DEF Spec, FreeKept
=============================================================================
