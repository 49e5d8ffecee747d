----------------------------- MODULE RegionsProofs -----------------------------
(***************************************************************************)
(* Proofs about the regions of a process, for every number of variables    *)
(* and every size.                                                         *)
(***************************************************************************)
EXTENDS Regions, TLAPS, NaturalsInduction, WellFoundedInduction,
        FiniteSetTheorems, FunctionTheorems, SequenceTheorems

-----------------------------------------------------------------------------
(* Lists, and sets of positions in them.                                   *)

\* A set of naturals has a least element.
LEMMA LeastOf ==
  ASSUME NEW T \in SUBSET Nat, T # {}
  PROVE  \E m \in T : \A k \in T : m <= k
<1>1. PICK m \in T : \A k \in T : ~(<<k, m>> \in OpToRel(<, Nat))
  BY WFMin, NatLessThanWellFounded, Zenon
<1>2. \A k \in T : ~(k < m)
  BY <1>1 DEF OpToRel
<1>3. m \in Nat /\ \A k \in T : k \in Nat
  OBVIOUS
<1>4. QED
  BY <1>2, <1>3

\* Two sets that differ in q at most.
LEMMA DifferIn ==
  ASSUME NEW A, NEW B, NEW q, IsFiniteSet(A), A \ {q} = B \ {q}
  PROVE  /\ IsFiniteSet(B) /\ Cardinality(A) \in Nat /\ Cardinality(B) \in Nat
         /\ Cardinality(B) + (IF q \in A THEN 1 ELSE 0) =
              Cardinality(A) + (IF q \in B THEN 1 ELSE 0)
<1> DEFINE C == A \ {q}
<1>1. /\ IsFiniteSet(C) /\ Cardinality(C) \in Nat
      /\ Cardinality(A) \in Nat
      /\ Cardinality(C) = IF q \in A THEN Cardinality(A) - 1 ELSE Cardinality(A)
  BY FS_RemoveElement, FS_CardinalityType
<1>2. q \notin C /\ B = IF q \in B THEN C \cup {q} ELSE C
  OBVIOUS
<1> HIDE DEF C
<1>3. /\ IsFiniteSet(C \cup {q}) /\ Cardinality(C \cup {q}) = Cardinality(C) + 1
  BY <1>1, <1>2, FS_AddElement
<1>4. QED
  BY <1>1, <1>2, <1>3

\* Two sets of positions in step with each other.
LEMMA SameNumber ==
  ASSUME NEW A, NEW B, NEW f \in [A -> B], IsFiniteSet(A),
         \A i, j \in A : f[i] = f[j] => i = j,
         \A j \in B : \E i \in A : f[i] = j
  PROVE  IsFiniteSet(B) /\ Cardinality(B) = Cardinality(A)
<1>1. f \in Bijection(A, B)
  BY Fun_IsBij
<1>2. ExistsBijection(A, B)
  BY <1>1 DEF ExistsBijection
<1>3. QED
  BY <1>2, FS_Bijection

\* A list without its element i.
LEMMA Removed ==
  ASSUME NEW S, NEW list \in Seq(S), NEW i \in 1 .. Len(list)
  PROVE  /\ RemoveAt(list, i) \in Seq(S) /\ Len(RemoveAt(list, i)) = Len(list) - 1
         /\ \A k \in 1 .. (Len(list) - 1) :
              RemoveAt(list, i)[k] = list[IF k < i THEN k ELSE k + 1]
<1>1. PICK s, t, n : s = SubSeq(list, 1, i - 1) /\ t = SubSeq(list, i + 1, n) /\ n = Len(list)
  OBVIOUS
<1>2. n \in Nat /\ i \in 1 .. n /\ \A k \in 1 .. n : list[k] \in S
  BY <1>1
<1>3. /\ s \in Seq(S) /\ Len(s) = i - 1
      /\ \A k \in 1 .. (i - 1) : s[k] = list[k]
  <2>1. /\ s \in Seq(S) /\ Len(s) = IF 1 <= i - 1 THEN (i - 1) - 1 + 1 ELSE 0
        /\ \A k \in 1 .. ((i - 1) - 1 + 1) : s[k] = list[1 + k - 1]
    BY <1>1, <1>2, SubSeqProperties
  <2>2. \A k \in 1 .. (i - 1) : s[k] = list[k]
    BY <1>2, <2>1
  <2>3. QED
    BY <1>2, <2>1, <2>2
<1>4. /\ t \in Seq(S) /\ Len(t) = n - i
      /\ \A k \in 1 .. (n - i) : t[k] = list[i + k]
  <2>1. /\ t \in Seq(S) /\ Len(t) = IF i + 1 <= n THEN n - (i + 1) + 1 ELSE 0
        /\ \A k \in 1 .. (n - (i + 1) + 1) : t[k] = list[(i + 1) + k - 1]
    BY <1>1, <1>2, SubSeqProperties
  <2>2. ASSUME NEW k \in 1 .. (n - i) PROVE t[k] = list[i + k]
    <3>1. k \in 1 .. (n - (i + 1) + 1) /\ (i + 1) + k - 1 = i + k
      BY <1>2
    <3>2. t[k] = list[(i + 1) + k - 1]
      BY <2>1, <3>1
    <3>3. QED
      BY <3>1, <3>2
  <2>3. QED
    BY <1>2, <2>1, <2>2
<1>5. PICK u : u = s \o t
  OBVIOUS
<1>6. /\ u \in Seq(S) /\ Len(u) = (i - 1) + (n - i)
      /\ \A k \in 1 .. ((i - 1) + (n - i)) : u[k] = IF k <= i - 1 THEN s[k] ELSE t[k - (i - 1)]
  BY <1>3, <1>4, <1>5, ConcatProperties
<1>7. Len(u) = n - 1 /\ n - 1 = (i - 1) + (n - i)
  BY <1>2, <1>6
<1>8. ASSUME NEW k \in 1 .. (n - 1) PROVE u[k] = list[IF k < i THEN k ELSE k + 1]
  <2>1. CASE k < i
    BY <1>2, <1>3, <1>6, <1>7, <2>1
  <2>2. CASE ~(k < i)
    <3>1. k - (i - 1) \in 1 .. (n - i) /\ i + (k - (i - 1)) = k + 1 /\ ~(k <= i - 1)
      BY <1>2, <2>2
    <3>2. QED
      BY <1>4, <1>6, <1>7, <2>2, <3>1
  <2>3. QED
    BY <2>1, <2>2
<1>9. RemoveAt(list, i) = u
  BY <1>1, <1>5 DEF RemoveAt
<1>10. QED
  BY <1>1, <1>6, <1>7, <1>8, <1>9

-----------------------------------------------------------------------------
\* The nodes of a list that cover address a.
At(list, a) == {i \in DOMAIN list : Covers(list[i], a)}

-----------------------------------------------------------------------------
(* The free list.                                                          *)

\* The positions of an address are finitely many.
LEMMA AtFinite ==
  ASSUME NEW S, NEW list \in Seq(S), NEW a
  PROVE  /\ IsFiniteSet(At(list, a)) /\ Cardinality(At(list, a)) \in Nat
         /\ At(list, a) \subseteq 1 .. Len(list)
<1>1. At(list, a) \subseteq 1 .. Len(list) /\ Len(list) \in Int /\ 1 \in Int
  BY DEF At
<1>2. IsFiniteSet(1 .. Len(list))
  BY <1>1, FS_Interval
<1>3. QED
  BY <1>1, <1>2, FS_Subset, FS_CardinalityType

\* A node in front of the list.
LEMMA InFront ==
  ASSUME NEW S, NEW list \in Seq(S), NEW rg \in S, NEW a
  PROVE  /\ <<rg>> \o list \in Seq(S) /\ <<rg>> \o list # <<>>
         /\ Cardinality(At(<<rg>> \o list, a)) =
              Cardinality(At(list, a)) + (IF Covers(rg, a) THEN 1 ELSE 0)
<1>1. PICK t : t = <<rg>> \o list
  OBVIOUS
<1>2. /\ Len(list) \in Nat /\ t \in Seq(S) /\ Len(t) = Len(list) + 1 /\ t[1] = rg
      /\ \A k \in 1 .. Len(list) : t[k + 1] = list[k]
  <2>1. <<rg>> \in Seq(S) /\ Len(<<rg>>) = 1 /\ <<rg>>[1] = rg /\ Len(list) \in Nat
    OBVIOUS
  <2>2. /\ t \in Seq(S) /\ Len(t) = 1 + Len(list)
        /\ \A i \in 1 .. (1 + Len(list)) : t[i] = IF i <= 1 THEN <<rg>>[i] ELSE list[i - 1]
    BY <1>1, <2>1, ConcatProperties
  <2>3. QED
    BY <2>1, <2>2
<1> DEFINE A == At(list, a)
           B == At(t, a) \ {1}
<1>3. /\ IsFiniteSet(A) /\ Cardinality(A) \in Nat /\ A \subseteq 1 .. Len(list)
  BY AtFinite
<1>4. /\ \A i \in A : i + 1 \in B
      /\ \A j \in B : j - 1 \in A
  <2>1. DOMAIN list = 1 .. Len(list) /\ DOMAIN t = 1 .. (Len(list) + 1)
    BY <1>2
  <2>2. ASSUME NEW i \in A PROVE i + 1 \in B
    BY <1>2, <2>1 DEF At
  <2>3. ASSUME NEW j \in B PROVE j - 1 \in A
    <3>1. j - 1 \in 1 .. Len(list) /\ t[(j - 1) + 1] = list[j - 1] /\ (j - 1) + 1 = j
      BY <1>2, <2>1 DEF At
    <3>2. QED
      BY <2>1, <3>1 DEF At
  <2>4. QED
    BY <2>2, <2>3
<1>5. /\ 1 \in At(t, a) <=> Covers(rg, a)
      /\ IsFiniteSet(At(t, a)) /\ Cardinality(At(t, a)) \in Nat
  <2>1. 1 \in DOMAIN t
    BY <1>2
  <2>2. 1 \in At(t, a) <=> Covers(rg, a)
    BY <1>2, <2>1 DEF At
  <2>3. QED
    BY <1>2, <2>2, AtFinite
<1>6. B \subseteq Nat
  BY <1>2 DEF At
<1> HIDE DEF A
<1>7. Cardinality(B) = Cardinality(A)
  <2> HIDE DEF B
  <2> DEFINE f == [i \in A |-> i + 1]
  <2>1. f \in [A -> B]
    BY <1>4
  <2>2. \A i, j \in A : f[i] = f[j] => i = j
    BY <1>3
  <2>3. \A j \in B : \E i \in A : f[i] = j
    BY <1>3, <1>4, <1>6
  <2> HIDE DEF f
  <2>4. QED
    BY <1>3, <2>1, <2>2, <2>3, SameNumber
<1>8. Cardinality(At(t, a)) = Cardinality(A) + (IF Covers(rg, a) THEN 1 ELSE 0)
  <2>1. Cardinality(B) = IF 1 \in At(t, a) THEN Cardinality(At(t, a)) - 1
                         ELSE Cardinality(At(t, a))
    BY <1>5, FS_RemoveElement
  <2>2. QED
    BY <1>3, <1>5, <1>7, <2>1
<1>9. t # <<>>
  BY <1>2
<1>10. QED
  BY <1>1, <1>2, <1>8, <1>9 DEF A

\* A region that leaves the free list leaves one position fewer at its addresses.
LEMMA RemovedAt ==
  ASSUME NEW S, NEW list \in Seq(S), NEW i \in 1 .. Len(list), NEW a
  PROVE  Cardinality(At(RemoveAt(list, i), a)) + (IF Covers(list[i], a) THEN 1 ELSE 0) =
           Cardinality(At(list, a))
<1>1. PICK u, n : u = RemoveAt(list, i) /\ n = Len(list)
  OBVIOUS
<1>2. /\ n \in Nat /\ i \in 1 .. n /\ DOMAIN list = 1 .. n
      /\ u \in Seq(S) /\ DOMAIN u = 1 .. (n - 1)
      /\ \A k \in 1 .. (n - 1) : u[k] = list[IF k < i THEN k ELSE k + 1]
  <2>1. u \in Seq(S) /\ Len(u) = Len(list) - 1
    BY <1>1, Removed
  <2>2. \A k \in 1 .. (Len(list) - 1) : u[k] = list[IF k < i THEN k ELSE k + 1]
    BY <1>1, Removed
  <2>3. QED
    BY <1>1, <2>1, <2>2
<1> DEFINE A == At(u, a)
           B == At(list, a) \ {i}
           f == [k \in A |-> IF k < i THEN k ELSE k + 1]
<1>3. /\ IsFiniteSet(A) /\ Cardinality(A) \in Nat /\ A \subseteq 1 .. (n - 1)
      /\ IsFiniteSet(At(list, a)) /\ Cardinality(At(list, a)) \in Nat
  <2>1. A \subseteq 1 .. (n - 1)
    BY <1>2 DEF At
  <2>2. QED
    BY <1>2, <2>1, AtFinite
<1>4. \A k \in A : (IF k < i THEN k ELSE k + 1) \in B
  <2>1. ASSUME NEW k \in A PROVE (IF k < i THEN k ELSE k + 1) \in B
    <3>1. k \in 1 .. (n - 1) /\ Covers(u[k], a)
      BY <1>3 DEF At
    <3>2. /\ (IF k < i THEN k ELSE k + 1) \in 1 .. n
          /\ (IF k < i THEN k ELSE k + 1) # i
      BY <1>2, <3>1
    <3>3. QED
      BY <1>2, <3>1, <3>2 DEF At
  <2>2. QED
    BY <2>1
<1>5. \A j \in B : (IF j < i THEN j ELSE j - 1) \in A /\ j \in 1 .. n /\ j # i
  <2>1. ASSUME NEW j \in B
        PROVE  (IF j < i THEN j ELSE j - 1) \in A /\ j \in 1 .. n /\ j # i
    <3>1. j \in 1 .. n /\ j # i /\ Covers(list[j], a)
      BY <1>2 DEF At
    <3>2. CASE j < i
      <4>1. j \in 1 .. (n - 1) /\ u[j] = list[j]
        BY <1>2, <3>1, <3>2
      <4>2. QED
        BY <1>2, <3>1, <3>2, <4>1 DEF At
    <3>3. CASE ~(j < i)
      <4>1. j - 1 \in 1 .. (n - 1) /\ ~(j - 1 < i) /\ (j - 1) + 1 = j
        BY <1>2, <3>1, <3>3
      <4>2. u[j - 1] = list[j]
        BY <1>2, <4>1
      <4>3. QED
        BY <1>2, <3>1, <3>3, <4>1, <4>2 DEF At
    <3>4. QED
      BY <3>2, <3>3
  <2>2. QED
    BY <2>1
<1>6. f \in [A -> B]
  BY <1>4
<1>7. \A k, l \in A : f[k] = f[l] => k = l
  BY <1>2, <1>3
<1>8. \A j \in B : \E k \in A : f[k] = j
  <2>1. ASSUME NEW j \in B PROVE \E k \in A : f[k] = j
    <3>1. CASE j < i
      BY <1>5, <3>1
    <3>2. CASE ~(j < i)
      <4>1. j - 1 \in A /\ j \in 1 .. n /\ j # i
        BY <1>5, <3>2
      <4>2. f[j - 1] = j
        BY <1>2, <3>2, <4>1
      <4>3. QED
        BY <4>1, <4>2
    <3>3. QED
      BY <3>1, <3>2
  <2>2. QED
    BY <2>1
<1> HIDE DEF f
<1>9. Cardinality(B) = Cardinality(A)
  BY <1>3, <1>6, <1>7, <1>8, SameNumber
<1>10. Cardinality(B) = IF i \in At(list, a) THEN Cardinality(At(list, a)) - 1
                        ELSE Cardinality(At(list, a))
  BY <1>3, FS_RemoveElement
<1>11. i \in At(list, a) <=> Covers(list[i], a)
  BY <1>2 DEF At
<1>12. QED
  BY <1>1, <1>3, <1>9, <1>10, <1>11 DEF A

\* A node that is replaced by another.
LEMMA ReplacedAt ==
  ASSUME NEW S, NEW list \in Seq(S), NEW i \in 1 .. Len(list), NEW rg \in S
  PROVE  \A a : Cardinality(At([list EXCEPT ![i] = rg], a)) +
                  (IF Covers(list[i], a) THEN 1 ELSE 0) =
                Cardinality(At(list, a)) + (IF Covers(rg, a) THEN 1 ELSE 0)
<1> TAKE a
<1>0. PICK u : u = [list EXCEPT ![i] = rg]
  OBVIOUS
<1>1. /\ u \in Seq(S) /\ Len(u) = Len(list) /\ DOMAIN list = 1 .. Len(list)
      /\ DOMAIN u = 1 .. Len(list) /\ u[i] = rg
      /\ \A k \in 1 .. Len(list) : k # i => u[k] = list[k]
  BY <1>0
<1>2. At(list, a) \ {i} = At(u, a) \ {i}
  BY <1>1 DEF At
<1>3. /\ i \in At(list, a) <=> Covers(list[i], a)
      /\ i \in At(u, a) <=> Covers(rg, a)
  BY <1>1 DEF At
<1>4. IsFiniteSet(At(list, a))
  BY AtFinite
<1>5. PICK A, B : A = At(list, a) /\ B = At(u, a)
  OBVIOUS
<1>6. Cardinality(B) + (IF i \in A THEN 1 ELSE 0) =
        Cardinality(A) + (IF i \in B THEN 1 ELSE 0)
  <2>1. A \ {i} = B \ {i} /\ IsFiniteSet(A)
    BY <1>2, <1>4, <1>5
  <2>2. QED
    BY <2>1, DifferIn
<1>7. QED
  BY <1>0, <1>1, <1>3, <1>5, <1>6

-----------------------------------------------------------------------------
(* Allocation.                                                             *)

\* The limits of a region are naturals.
LEMMA RegionFields ==
  ASSUME NEW rg
  PROVE  rg \in Region <=> /\ rg \in [rg_start : Size, rg_end : Size]
                           /\ rg.rg_start <= rg.rg_end
  BY DEF Region

\* A region from its limits.
LEMMA RegionOf ==
  ASSUME NEW s \in Size, NEW e \in Size, s <= e
  PROVE  /\ region(s, e) \in Region
         /\ region(s, e).rg_start = s /\ region(s, e).rg_end = e
  BY DEF region, Region

\* The first node that fits, if any does.
LEMMA FirstFits ==
  ASSUME NEW list \in Seq(Region), NEW size \in Size, FirstFit(list, size) # 0
  PROVE  /\ FirstFit(list, size) \in 1 .. Len(list)
         /\ Fits(list[FirstFit(list, size)], size)
<1> DEFINE T == {i \in 1 .. Len(list) : Fits(list[i], size)}
<1>1. FirstFit(list, size) = IF T # {} THEN Min(T) ELSE 0
  BY DEF FirstFit, SelectInSeq
<1>2. T # {}
  BY <1>1
<1>3. T \in SUBSET Nat
  OBVIOUS
<1> HIDE DEF T
<1>4. \E m \in T : \A k \in T : m <= k
  BY <1>2, <1>3, LeastOf
<1>5. Min(T) \in T
  BY <1>4 DEF Min
<1>6. QED
  BY <1>1, <1>2, <1>5 DEF T

\* What get_free_vmrg_area takes of a node leaves its list.
LEMMA Taken ==
  ASSUME NEW list \in Seq(Region), NEW i \in 1 .. Len(list), NEW size \in Size,
         Fits(list[i], size), NEW rg, rg = region(list[i].rg_start, list[i].rg_start + size)
  PROVE  /\ rg \in Region
         /\ Take(list, i, size) \in Seq(Region) /\ Take(list, i, size) # <<>>
         /\ \A a \in Address :
              Cardinality(At(Take(list, i, size), a)) + (IF Covers(rg, a) THEN 1 ELSE 0) =
                Cardinality(At(list, a))
<1>1. PICK s, e, u : s = list[i].rg_start /\ e = list[i].rg_end /\ u = Take(list, i, size)
  OBVIOUS
<1>2. /\ s \in Size /\ e \in Size /\ s <= e /\ size \in Nat
      /\ s + size \in Size /\ s + size <= e /\ list[i] \in Region
      /\ \A a \in Address : a \in Nat /\ (Covers(list[i], a) <=> s <= a /\ a < e)
  <2>1. list[i] \in Region
    OBVIOUS
  <2>2. s \in Size /\ e \in Size /\ s <= e /\ size \in Nat
    BY <1>1, <2>1, RegionsAssumption DEF Region, Size
  <2>3. s + size <= e
    BY <1>1 DEF Fits
  <2>4. s + size \in Size
    BY <2>2, <2>3, RegionsAssumption DEF Size
  <2>5. \A a \in Address : a \in Nat /\ (Covers(list[i], a) <=> s <= a /\ a < e)
    BY <1>1, RegionsAssumption DEF Address, Covers
  <2>6. QED
    BY <2>1, <2>2, <2>3, <2>4, <2>5
<1>3. /\ rg \in Region
      /\ \A a \in Address : Covers(rg, a) <=> s <= a /\ a < s + size
  <2>1. s <= s + size /\ rg = region(s, s + size)
    BY <1>1, <1>2 DEF Size
  <2>2. QED
    BY <1>2, <2>1, RegionOf DEF Covers
<1>4. CASE s + size < e
  <2>1. PICK r : r = region(s + size, e)
    OBVIOUS
  <2>2. r \in Region /\ \A a \in Address : Covers(r, a) <=> s + size <= a /\ a < e
    BY <1>2, <2>1, RegionOf DEF Covers
  <2>3. u = [list EXCEPT ![i] = r]
    <3>1. u = [list EXCEPT ![i] = [list[i] EXCEPT !.rg_start = s + size]]
      BY <1>1, <1>4 DEF Take
    <3>2. [list[i] EXCEPT !.rg_start = s + size] = r
      BY <1>1, <1>2, <2>1 DEF region, Region
    <3>3. QED
      BY <3>1, <3>2
  <2>4. /\ u \in Seq(Region) /\ Len(u) = Len(list)
        /\ \A a \in Address :
             Cardinality(At(u, a)) + (IF Covers(list[i], a) THEN 1 ELSE 0) =
               Cardinality(At(list, a)) + (IF Covers(r, a) THEN 1 ELSE 0)
    <3>1. \A a : Cardinality(At([list EXCEPT ![i] = r], a)) +
                    (IF Covers(list[i], a) THEN 1 ELSE 0) =
                  Cardinality(At(list, a)) + (IF Covers(r, a) THEN 1 ELSE 0)
      BY <2>2, ReplacedAt
    <3>2. u \in Seq(Region) /\ Len(u) = Len(list)
      BY <2>2, <2>3
    <3>3. QED
      BY <2>3, <3>1, <3>2
  <2>5. \A a \in Address : Cardinality(At(u, a)) \in Nat /\ Cardinality(At(list, a)) \in Nat
    BY <2>4, AtFinite
  <2>6. \A a \in Address : a \in Nat /\ s \in Nat /\ s + size \in Nat /\ e \in Nat
    BY <1>2 DEF Size
  <2>7. \A a \in Address :
          Cardinality(At(u, a)) + (IF Covers(rg, a) THEN 1 ELSE 0) = Cardinality(At(list, a))
    BY <1>2, <1>3, <1>4, <2>2, <2>4, <2>5, <2>6
  <2>8. u # <<>>
    BY <2>4
  <2>9. QED
    BY <1>1, <1>3, <2>4, <2>7, <2>8
<1>5. CASE ~(s + size < e) /\ i < Len(list)
  <2>1. u = RemoveAt(list, i)
    BY <1>1, <1>5 DEF Take
  <2>2. u \in Seq(Region) /\ Len(u) = Len(list) - 1
    BY <2>1, Removed
  <2>3. \A a \in Address :
          Cardinality(At(u, a)) + (IF Covers(list[i], a) THEN 1 ELSE 0) =
            Cardinality(At(list, a))
    BY <2>1, RemovedAt
  <2>4. \A a \in Address : Covers(rg, a) <=> Covers(list[i], a)
    BY <1>2, <1>3, <1>5 DEF Size
  <2>5. u # <<>>
    BY <1>5, <2>2
  <2>6. QED
    BY <1>1, <1>3, <2>2, <2>3, <2>4, <2>5
<1>6. CASE ~(s + size < e) /\ ~(i < Len(list))
  <2>1. PICK r : r = region(e, e)
    OBVIOUS
  <2>2. r \in Region /\ \A a \in Address : ~Covers(r, a)
    <3>1. e <= e
      BY <1>2 DEF Size
    <3>2. r \in Region /\ r.rg_start = e /\ r.rg_end = e
      BY <1>2, <2>1, <3>1, RegionOf
    <3>3. QED
      BY <1>2, <3>2 DEF Covers, Size
  <2>3. u = [list EXCEPT ![i] = r]
    <3>1. u = [list EXCEPT ![i] = [list[i] EXCEPT !.rg_start = e]]
      BY <1>1, <1>6 DEF Take
    <3>2. [list[i] EXCEPT !.rg_start = e] = r
      BY <1>1, <1>2, <2>1 DEF region, Region
    <3>3. QED
      BY <3>1, <3>2
  <2>4. /\ u \in Seq(Region) /\ Len(u) = Len(list)
        /\ \A a \in Address :
             Cardinality(At(u, a)) + (IF Covers(list[i], a) THEN 1 ELSE 0) =
               Cardinality(At(list, a)) + (IF Covers(r, a) THEN 1 ELSE 0)
    <3>1. \A a : Cardinality(At([list EXCEPT ![i] = r], a)) +
                    (IF Covers(list[i], a) THEN 1 ELSE 0) =
                  Cardinality(At(list, a)) + (IF Covers(r, a) THEN 1 ELSE 0)
      BY <2>2, ReplacedAt
    <3>2. u \in Seq(Region) /\ Len(u) = Len(list)
      BY <2>2, <2>3
    <3>3. QED
      BY <2>3, <3>1, <3>2
  <2>5. \A a \in Address : Cardinality(At(u, a)) \in Nat /\ Cardinality(At(list, a)) \in Nat
    BY <2>4, AtFinite
  <2>6. \A a \in Address : Covers(rg, a) <=> Covers(list[i], a)
    BY <1>2, <1>3, <1>6 DEF Size
  <2>7. u # <<>>
    BY <2>4
  <2>8. QED
    BY <1>1, <1>3, <2>2, <2>4, <2>5, <2>6, <2>7
<1>7. QED
  BY <1>4, <1>5, <1>6

\* A region taken at sbrk, behind the ones taken before it.
LEMMA Behind ==
  ASSUME NEW S, NEW list \in Seq(S), NEW rg \in S, NEW a
  PROVE  /\ Append(list, rg) \in Seq(S)
         /\ Cardinality(At(Append(list, rg), a)) =
              Cardinality(At(list, a)) + (IF Covers(rg, a) THEN 1 ELSE 0)
<1>1. PICK t, n : t = Append(list, rg) /\ n = Len(list) + 1
  OBVIOUS
<1>2. /\ t \in Seq(S) /\ DOMAIN t = 1 .. n /\ n \in Nat /\ n \notin DOMAIN list
      /\ DOMAIN list = 1 .. (n - 1) /\ t[n] = rg
      /\ \A k \in 1 .. (n - 1) : t[k] = list[k]
  BY <1>1
<1>3. PICK A, B : A = At(list, a) /\ B = At(t, a)
  OBVIOUS
<1>4. A \ {n} = B \ {n} /\ IsFiniteSet(A) /\ n \notin A /\ (n \in B <=> Covers(rg, a))
  <2>1. IsFiniteSet(A)
    BY <1>3, AtFinite
  <2>2. A \ {n} = B \ {n} /\ n \notin A /\ (n \in B <=> Covers(rg, a))
    <3>1. /\ \A k : k \in A <=> k \in 1 .. (n - 1) /\ Covers(list[k], a)
          /\ \A k : k \in B <=> k \in 1 .. n /\ Covers(t[k], a)
      BY <1>2, <1>3 DEF At
    <3>2. \A k : k \in 1 .. (n - 1) <=> k \in 1 .. n /\ k # n
      BY <1>2
    <3>3. n \in 1 .. n
      <4>1. n >= 1
        BY <1>1
      <4>2. QED
        BY <1>2, <4>1
    <3>4. QED
      BY <1>2, <3>1, <3>2, <3>3
  <2>3. QED
    BY <2>1, <2>2
<1>5. /\ Cardinality(A) \in Nat /\ Cardinality(B) \in Nat
      /\ Cardinality(B) + (IF n \in A THEN 1 ELSE 0) =
           Cardinality(A) + (IF n \in B THEN 1 ELSE 0)
  BY <1>4, DifferIn
<1>6. QED
  BY <1>1, <1>2, <1>3, <1>4, <1>5

\* What an assignment changes in the variables that cover an address.
LEMMA Assigned ==
  ASSUME NEW f \in [Rgid -> Region], NEW r \in Rgid, NEW rg \in Region, NEW a
  PROVE  LET A == {q \in Rgid : Covers(f[q], a)}
             B == {q \in Rgid : Covers([f EXCEPT ![r] = rg][q], a)}
         IN  /\ Cardinality(A) \in Nat /\ Cardinality(B) \in Nat
             /\ Cardinality(B) + (IF Covers(f[r], a) THEN 1 ELSE 0) =
                  Cardinality(A) + (IF Covers(rg, a) THEN 1 ELSE 0)
<1>1. PICK A, B : /\ A = {q \in Rgid : Covers(f[q], a)}
                  /\ B = {q \in Rgid : Covers([f EXCEPT ![r] = rg][q], a)}
  OBVIOUS
<1>2. /\ A \ {r} = B \ {r}
      /\ r \in A <=> Covers(f[r], a)
      /\ r \in B <=> Covers(rg, a)
  BY <1>1
<1>3. IsFiniteSet(A)
  BY <1>1, FS_Subset, RegionsAssumption
<1>4. /\ Cardinality(A) \in Nat /\ Cardinality(B) \in Nat
      /\ Cardinality(B) + (IF r \in A THEN 1 ELSE 0) =
           Cardinality(A) + (IF r \in B THEN 1 ELSE 0)
  BY <1>2, <1>3, DifferIn
<1>5. QED
  BY <1>1, <1>2, <1>4

-----------------------------------------------------------------------------
(* The steps.                                                              *)

\* What a step does to the counts at address a.
LEMMA Counts ==
  ASSUME TypeOK, NEW a
  PROVE  /\ FreeAt(a) \in Nat /\ UsedAt(a) \in Nat /\ FreshAt(a) \in Nat
         /\ FreeAt(a) = Cardinality(At(vm_freerg_list, a))
         /\ FreshAt(a) = Cardinality(At(fresh, a))
<1>1. FreeAt(a) = Cardinality(At(vm_freerg_list, a)) /\ FreshAt(a) = Cardinality(At(fresh, a))
  BY DEF FreeAt, FreshAt, At
<1>2. FreeAt(a) \in Nat /\ FreshAt(a) \in Nat
  BY <1>1, AtFinite DEF TypeOK
<1>3. UsedAt(a) \in Nat
  BY FS_Subset, FS_CardinalityType, RegionsAssumption DEF UsedAt
<1>4. QED
  BY <1>1, <1>2, <1>3

\* An assignment of region rg to variable r, in the counts.
LEMMA Assignment ==
  ASSUME TypeOK, NEW r \in Rgid, NEW rg \in Region, symrgtbl' = [symrgtbl EXCEPT ![r] = rg]
  PROVE  /\ symrgtbl' \in [Rgid -> Region]
         /\ symrgtbl'[r] = rg /\ \A q \in Rgid \ {r} : symrgtbl'[q] = symrgtbl[q]
         /\ \A a : /\ UsedAt(a)' \in Nat
                   /\ UsedAt(a)' + (IF Covers(symrgtbl[r], a) THEN 1 ELSE 0) =
                        UsedAt(a) + (IF Covers(rg, a) THEN 1 ELSE 0)
<1>1. symrgtbl \in [Rgid -> Region]
  BY DEF TypeOK
<1>2. ASSUME NEW a
      PROVE  /\ UsedAt(a)' \in Nat
             /\ UsedAt(a)' + (IF Covers(symrgtbl[r], a) THEN 1 ELSE 0) =
                  UsedAt(a) + (IF Covers(rg, a) THEN 1 ELSE 0)
  <2>1. PICK f : f = symrgtbl
    OBVIOUS
  <2>2. LET A == {q \in Rgid : Covers(f[q], a)}
            B == {q \in Rgid : Covers([f EXCEPT ![r] = rg][q], a)}
        IN  /\ Cardinality(A) \in Nat /\ Cardinality(B) \in Nat
            /\ Cardinality(B) + (IF Covers(f[r], a) THEN 1 ELSE 0) =
                 Cardinality(A) + (IF Covers(rg, a) THEN 1 ELSE 0)
    BY <1>1, <2>1, Assigned
  <2>3. QED
    BY <1>1, <2>1, <2>2 DEF UsedAt, Covers
<1>3. QED
  BY <1>1, <1>2

\* At an address, nothing is more often free or used than it was taken at sbrk.
Kept(a) == FreeAt(a) + UsedAt(a) <= FreshAt(a)
Exact(a) == ~dropped => FreeAt(a) + UsedAt(a) = FreshAt(a)
Inv == TypeOK /\ \A a \in Address : Kept(a) /\ Exact(a)

\* No region covers no address.
LEMMA NoneCovers == None \in Region /\ \A a \in Address : ~Covers(None, a)
<1>1. 0 \in Size /\ 0 <= 0
  BY RegionsAssumption DEF Size
<1>2. None \in Region /\ None.rg_start = 0 /\ None.rg_end = 0
  BY <1>1, RegionOf DEF None
<1>3. \A a \in Address : a \in Nat
  BY DEF Address
<1>4. QED
  BY <1>2, <1>3 DEF Covers

\* A region from the free list leaves it, at the addresses the variable gets.
LEMMA AllocFreeStep ==
  ASSUME TypeOK, NEW r \in Rgid, NEW size \in Size, AllocFree(r, size)
  PROVE  \E rg \in Region :
           /\ Assign(r, rg) /\ fresh' = fresh
           /\ vm_freerg_list' \in Seq(Region) /\ vm_freerg_list' # <<>>
           /\ \A a \in Address :
                Cardinality(At(vm_freerg_list', a)) + (IF Covers(rg, a) THEN 1 ELSE 0) =
                  Cardinality(At(vm_freerg_list, a))
<1>1. PICK list, i : list = vm_freerg_list /\ i = FirstFit(list, size)
  OBVIOUS
<1>2. PICK rg : rg = region(list[i].rg_start, list[i].rg_start + size)
  OBVIOUS
<1>3. /\ list \in Seq(Region) /\ i # 0
      /\ Assign(r, rg) /\ fresh' = fresh /\ vm_freerg_list' = Take(list, i, size)
  BY <1>1, <1>2 DEF TypeOK, AllocFree
<1>4. i \in 1 .. Len(list) /\ Fits(list[i], size)
  BY <1>1, <1>3, FirstFits
<1>5. /\ rg \in Region
      /\ Take(list, i, size) \in Seq(Region) /\ Take(list, i, size) # <<>>
      /\ \A a \in Address :
           Cardinality(At(Take(list, i, size), a)) + (IF Covers(rg, a) THEN 1 ELSE 0) =
             Cardinality(At(list, a))
  BY <1>2, <1>3, <1>4, Taken
<1>6. QED
  BY <1>1, <1>3, <1>5

\* What a call leaves of the list and of the counts; x is the variable that it
\* changes.
Effect(x) ==
  /\ TypeOK'
  /\ \A q \in Rgid \ {x} : symrgtbl'[q] = symrgtbl[q]
  /\ dropped => dropped'
  /\ \A a \in Address :
       /\ FreeAt(a)' < FreeAt(a) => Covers(symrgtbl'[x], a)
       /\ \/ FreeAt(a)' + UsedAt(a)' - FreshAt(a)' = FreeAt(a) + UsedAt(a) - FreshAt(a)
          \/ /\ dropped'
             /\ FreeAt(a)' + UsedAt(a)' - FreshAt(a)' =
                  FreeAt(a) + UsedAt(a) - FreshAt(a) - 1

\* An allocation of region rg, from the list or (brk) at sbrk.
LEMMA AllocEffect ==
  ASSUME TypeOK, NEW r \in Rgid, NEW rg \in Region, NEW brk \in BOOLEAN, Assign(r, rg),
         vm_freerg_list' \in Seq(Region), vm_freerg_list' # <<>>, fresh' \in Seq(Region),
         \A a \in Address :
           /\ Cardinality(At(vm_freerg_list', a)) +
                (IF Covers(rg, a) /\ ~brk THEN 1 ELSE 0) = Cardinality(At(vm_freerg_list, a))
           /\ Cardinality(At(fresh', a)) =
                Cardinality(At(fresh, a)) + (IF Covers(rg, a) /\ brk THEN 1 ELSE 0)
  PROVE  Effect(r)
<1>1. /\ symrgtbl' = [symrgtbl EXCEPT ![r] = rg]
      /\ dropped' = (dropped \/ symrgtbl[r] # None)
  BY DEF Assign
<1>2. /\ symrgtbl' \in [Rgid -> Region]
      /\ symrgtbl'[r] = rg /\ \A q \in Rgid \ {r} : symrgtbl'[q] = symrgtbl[q]
      /\ \A a : /\ UsedAt(a)' \in Nat
                /\ UsedAt(a)' + (IF Covers(symrgtbl[r], a) THEN 1 ELSE 0) =
                     UsedAt(a) + (IF Covers(rg, a) THEN 1 ELSE 0)
  BY <1>1, Assignment
<1>3. TypeOK'
  BY <1>1, <1>2 DEF TypeOK
<1>4. ASSUME NEW a \in Address
      PROVE  /\ FreeAt(a)' < FreeAt(a) => Covers(symrgtbl'[r], a)
             /\ \/ FreeAt(a)' + UsedAt(a)' - FreshAt(a)' = FreeAt(a) + UsedAt(a) - FreshAt(a)
                \/ /\ dropped'
                   /\ FreeAt(a)' + UsedAt(a)' - FreshAt(a)' =
                        FreeAt(a) + UsedAt(a) - FreshAt(a) - 1
  <2>1. /\ FreeAt(a) \in Nat /\ UsedAt(a) \in Nat /\ FreshAt(a) \in Nat
        /\ FreeAt(a)' = Cardinality(At(vm_freerg_list', a))
        /\ FreshAt(a)' = Cardinality(At(fresh', a))
        /\ FreeAt(a) = Cardinality(At(vm_freerg_list, a))
        /\ FreshAt(a) = Cardinality(At(fresh, a))
    BY Counts DEF FreeAt, FreshAt, At, Covers
  <2>2. FreeAt(a)' \in Nat /\ FreshAt(a)' \in Nat
    BY <2>1, AtFinite
  <2>3. Covers(symrgtbl[r], a) => dropped'
    BY <1>1, NoneCovers
  <2>4. /\ FreeAt(a)' + (IF Covers(rg, a) /\ ~brk THEN 1 ELSE 0) = FreeAt(a)
        /\ FreshAt(a)' = FreshAt(a) + (IF Covers(rg, a) /\ brk THEN 1 ELSE 0)
        /\ UsedAt(a)' \in Nat
        /\ UsedAt(a)' + (IF Covers(symrgtbl[r], a) THEN 1 ELSE 0) =
             UsedAt(a) + (IF Covers(rg, a) THEN 1 ELSE 0)
    BY <1>2, <2>1
  <2>5. /\ FreeAt(a)' < FreeAt(a) => Covers(rg, a)
        /\ FreeAt(a)' - FreshAt(a)' + (IF Covers(rg, a) THEN 1 ELSE 0) =
             FreeAt(a) - FreshAt(a)
    <3>1. CASE brk
      BY <2>1, <2>2, <2>4, <3>1
    <3>2. CASE ~brk
      BY <2>1, <2>2, <2>4, <3>2
    <3>3. QED
      BY <3>1, <3>2
  <2>6. PICK x, y : /\ x = IF Covers(rg, a) THEN 1 ELSE 0
                    /\ y = IF Covers(symrgtbl[r], a) THEN 1 ELSE 0
    OBVIOUS
  <2>7. PICK f2, u2, n2 : f2 = FreeAt(a)' /\ u2 = UsedAt(a)' /\ n2 = FreshAt(a)'
    OBVIOUS
  <2>8. /\ f2 \in Nat /\ u2 \in Nat /\ n2 \in Nat /\ x \in Nat /\ y \in Nat
        /\ f2 - n2 + x = FreeAt(a) - FreshAt(a) /\ u2 + y = UsedAt(a) + x
    BY <2>2, <2>4, <2>5, <2>6, <2>7
  <2>9. f2 + u2 - n2 = FreeAt(a) + UsedAt(a) - FreshAt(a) - y
    <3>1. PICK k, l, m : k = FreeAt(a) /\ l = UsedAt(a) /\ m = FreshAt(a)
      OBVIOUS
    <3>2. /\ k \in Nat /\ l \in Nat /\ m \in Nat
          /\ f2 - n2 + x = k - m /\ u2 + y = l + x
      BY <2>1, <2>8, <3>1
    <3>3. f2 + u2 - n2 = k + l - m - y
      BY <2>8, <3>2
    <3>4. QED
      BY <3>1, <3>3
  <2>10. y = 0 \/ (y = 1 /\ dropped')
    BY <2>3, <2>6
  <2>11. f2 + u2 - n2 = FreeAt(a) + UsedAt(a) - FreshAt(a)
         \/ (dropped' /\ f2 + u2 - n2 = FreeAt(a) + UsedAt(a) - FreshAt(a) - 1)
    <3>1. CASE y = 0
      <4>1. FreeAt(a) + UsedAt(a) - FreshAt(a) - 0 = FreeAt(a) + UsedAt(a) - FreshAt(a)
        BY <2>1
      <4>2. QED
        BY <2>9, <3>1, <4>1
    <3>2. CASE y = 1 /\ dropped'
      BY <2>9, <3>2
    <3>3. QED
      BY <2>10, <3>1, <3>2
  <2>12. QED
    BY <1>2, <2>5, <2>7, <2>11
<1>5. QED
  BY <1>1, <1>2, <1>3, <1>4 DEF Effect, TypeOK

\* The effect of freeing a variable.
LEMMA FreeEffect ==
  ASSUME TypeOK, NEW r \in Rgid, Free(r)
  PROVE  Effect(r)
<1>1. PICK rg : rg = symrgtbl[r]
  OBVIOUS
<1>2. /\ rg \in Region /\ vm_freerg_list \in Seq(Region) /\ vm_freerg_list # <<>>
      /\ vm_freerg_list' = enlist_vm_freerg_list(rg, vm_freerg_list)
      /\ symrgtbl' = [symrgtbl EXCEPT ![r] = None] /\ UNCHANGED <<fresh, dropped>>
  BY <1>1 DEF TypeOK, Free
<1>3. /\ symrgtbl' \in [Rgid -> Region]
      /\ \A q \in Rgid \ {r} : symrgtbl'[q] = symrgtbl[q]
      /\ \A a : /\ UsedAt(a)' \in Nat
                /\ UsedAt(a)' + (IF Covers(symrgtbl[r], a) THEN 1 ELSE 0) =
                     UsedAt(a) + (IF Covers(None, a) THEN 1 ELSE 0)
  BY <1>2, NoneCovers, Assignment
<1>4. /\ vm_freerg_list' \in Seq(Region) /\ vm_freerg_list' # <<>>
      /\ \A a \in Address :
           Cardinality(At(vm_freerg_list', a)) =
             Cardinality(At(vm_freerg_list, a)) + (IF Covers(rg, a) THEN 1 ELSE 0)
  <2>1. CASE rg.rg_start >= rg.rg_end
    <3>1. vm_freerg_list' = vm_freerg_list
      BY <1>2, <2>1 DEF enlist_vm_freerg_list
    <3>2. \A a \in Address : ~Covers(rg, a)
      BY <1>2, <2>1, RegionsAssumption DEF Covers, Region, Size, Address
    <3>3. \A a \in Address : Cardinality(At(vm_freerg_list, a)) \in Nat
      BY <1>2, AtFinite
    <3>4. QED
      BY <1>2, <3>1, <3>2, <3>3
  <2>2. CASE ~(rg.rg_start >= rg.rg_end)
    <3>1. vm_freerg_list' = <<rg>> \o vm_freerg_list
      BY <1>2, <2>2 DEF enlist_vm_freerg_list
    <3>2. PICK list : list = vm_freerg_list
      OBVIOUS
    <3>3. /\ <<rg>> \o list \in Seq(Region) /\ <<rg>> \o list # <<>>
          /\ \A a : Cardinality(At(<<rg>> \o list, a)) =
                      Cardinality(At(list, a)) + (IF Covers(rg, a) THEN 1 ELSE 0)
      BY <1>2, <3>2, InFront
    <3>4. QED
      BY <3>1, <3>2, <3>3
  <2>3. QED
    BY <2>1, <2>2
<1>5. TypeOK'
  BY <1>2, <1>3, <1>4 DEF TypeOK
<1>6. ASSUME NEW a \in Address
      PROVE  /\ FreeAt(a)' >= FreeAt(a) /\ FreeAt(a)' \in Nat /\ FreeAt(a) \in Nat
             /\ FreeAt(a)' + UsedAt(a)' - FreshAt(a)' = FreeAt(a) + UsedAt(a) - FreshAt(a)
  <2>1. /\ FreeAt(a) \in Nat /\ UsedAt(a) \in Nat /\ FreshAt(a) \in Nat
        /\ FreeAt(a) = Cardinality(At(vm_freerg_list, a))
        /\ FreeAt(a)' = Cardinality(At(vm_freerg_list', a))
        /\ FreshAt(a)' = FreshAt(a)
    BY <1>2, Counts DEF FreeAt, FreshAt, At, Covers
  <2>2. FreeAt(a)' \in Nat
    BY <1>4, <2>1, AtFinite
  <2>3. /\ FreeAt(a)' = FreeAt(a) + (IF Covers(rg, a) THEN 1 ELSE 0)
        /\ UsedAt(a)' \in Nat
        /\ UsedAt(a)' + (IF Covers(rg, a) THEN 1 ELSE 0) = UsedAt(a)
    <3>1. ~Covers(None, a)
      BY NoneCovers
    <3>2. /\ UsedAt(a)' \in Nat
          /\ UsedAt(a)' + (IF Covers(rg, a) THEN 1 ELSE 0) =
               UsedAt(a) + (IF Covers(None, a) THEN 1 ELSE 0)
      BY <1>1, <1>3
    <3>3. QED
      BY <1>4, <2>1, <3>1, <3>2
  <2>4. QED
    BY <2>1, <2>2, <2>3
<1>7. QED
  BY <1>2, <1>3, <1>5, <1>6 DEF Effect

\* The effect of every step.
LEMMA StepEffect ==
  ASSUME TypeOK, [Next]_vars
  PROVE  UNCHANGED vars \/ \E r \in Rgid : Effect(r)
<1>1. ASSUME NEW r \in Rgid, NEW size \in Size, AllocFree(r, size)
      PROVE  Effect(r)
  <2>1. PICK rg \in Region :
          /\ Assign(r, rg) /\ fresh' = fresh
          /\ vm_freerg_list' \in Seq(Region) /\ vm_freerg_list' # <<>>
          /\ \A a \in Address :
               Cardinality(At(vm_freerg_list', a)) + (IF Covers(rg, a) THEN 1 ELSE 0) =
                 Cardinality(At(vm_freerg_list, a))
    BY <1>1, AllocFreeStep
  <2>2. /\ fresh' \in Seq(Region)
        /\ \A a \in Address : Cardinality(At(fresh, a)) \in Nat
    BY <2>1, AtFinite DEF TypeOK
  <2>3. FALSE \in BOOLEAN
    OBVIOUS
  <2>4. \A a \in Address :
          /\ Cardinality(At(vm_freerg_list', a)) +
               (IF Covers(rg, a) /\ ~FALSE THEN 1 ELSE 0) = Cardinality(At(vm_freerg_list, a))
          /\ Cardinality(At(fresh', a)) =
               Cardinality(At(fresh, a)) + (IF Covers(rg, a) /\ FALSE THEN 1 ELSE 0)
    BY <2>1, <2>2
  <2>5. QED
    BY <2>1, <2>2, <2>3, <2>4, AllocEffect, Zenon
<1>2. ASSUME NEW r \in Rgid, NEW size \in Size, AllocAtBrk(r, size)
      PROVE  Effect(r)
  <2>1. PICK rg : rg = region(sbrk, sbrk + size)
    OBVIOUS
  <2>2. rg \in Region
    <3>1. size \in Nat /\ 0 \in Size /\ 0 + size = size /\ 0 <= size
      BY RegionsAssumption DEF Size
    <3>2. QED
      BY <2>1, <3>1, RegionOf DEF sbrk
  <2>3. /\ Assign(r, rg) /\ fresh' = Append(fresh, rg) /\ vm_freerg_list' = vm_freerg_list
        /\ fresh \in Seq(Region)
        /\ vm_freerg_list' \in Seq(Region) /\ vm_freerg_list' # <<>>
    BY <1>2, <2>1 DEF AllocAtBrk, TypeOK
  <2>4. PICK list : list = fresh
    OBVIOUS
  <2>5. /\ Append(list, rg) \in Seq(Region)
        /\ \A a : Cardinality(At(Append(list, rg), a)) =
                    Cardinality(At(list, a)) + (IF Covers(rg, a) THEN 1 ELSE 0)
    BY <2>2, <2>3, <2>4, Behind
  <2>6. TRUE \in BOOLEAN /\ fresh' \in Seq(Region)
    BY <2>3, <2>4, <2>5
  <2>7. \A a \in Address : Cardinality(At(vm_freerg_list, a)) \in Nat
    BY AtFinite DEF TypeOK
  <2>8. \A a \in Address :
          /\ Cardinality(At(vm_freerg_list', a)) +
               (IF Covers(rg, a) /\ ~TRUE THEN 1 ELSE 0) = Cardinality(At(vm_freerg_list, a))
          /\ Cardinality(At(fresh', a)) =
               Cardinality(At(fresh, a)) + (IF Covers(rg, a) /\ TRUE THEN 1 ELSE 0)
    BY <2>3, <2>4, <2>5, <2>7
  <2>9. QED
    BY <2>2, <2>3, <2>6, <2>8, AllocEffect, Zenon
<1>3. QED
  BY <1>1, <1>2, FreeEffect DEF Next, FreeNothing

-----------------------------------------------------------------------------

\* The invariant at the start.
LEMMA InitInv == Init => Inv
<1> SUFFICES ASSUME Init PROVE Inv
  OBVIOUS
<1>1. /\ symrgtbl = [r \in Rgid |-> None] /\ vm_freerg_list = <<None>>
      /\ fresh = <<>> /\ dropped = FALSE
  BY DEF Init, InitialList, None, sbrk
<1>2. TypeOK
  <2>1. <<None>> \in Seq(Region) /\ <<None>> # <<>> /\ <<>> \in Seq(Region)
    BY NoneCovers
  <2>2. symrgtbl \in [Rgid -> Region]
    BY <1>1, NoneCovers
  <2>3. QED
    BY <1>1, <2>1, <2>2 DEF TypeOK
<1>3. ASSUME NEW a \in Address PROVE FreeAt(a) = 0 /\ UsedAt(a) = 0 /\ FreshAt(a) = 0
  <2>1. ~Covers(None, a)
    BY NoneCovers
  <2>2. /\ {i \in DOMAIN vm_freerg_list : Covers(vm_freerg_list[i], a)} = {}
        /\ {r \in Rgid : Covers(symrgtbl[r], a)} = {}
        /\ {i \in DOMAIN fresh : Covers(fresh[i], a)} = {}
    BY <1>1, <2>1
  <2>3. QED
    BY <2>2, FS_EmptySet DEF FreeAt, UsedAt, FreshAt
<1>4. QED
  BY <1>2, <1>3 DEF Inv, Kept, Exact

\* Every step keeps it.
LEMMA NextInv ==
  ASSUME Inv, [Next]_vars
  PROVE  Inv'
<1>1. CASE UNCHANGED vars
  <2>1. TypeOK'
    BY <1>1 DEF vars, Inv, TypeOK
  <2>2. \A a : UNCHANGED <<FreeAt(a), UsedAt(a), FreshAt(a), dropped>>
    BY <1>1 DEF vars, FreeAt, UsedAt, FreshAt, Covers
  <2>3. QED
    BY <2>1, <2>2 DEF Inv, Kept, Exact
<1>2. ASSUME NEW r \in Rgid, Effect(r) PROVE Inv'
  <2>1. TypeOK' /\ (dropped => dropped')
    BY <1>2 DEF Effect
  <2>2. ASSUME NEW a \in Address PROVE Kept(a)' /\ Exact(a)'
    <3>1. /\ FreeAt(a) \in Nat /\ UsedAt(a) \in Nat /\ FreshAt(a) \in Nat
      BY Counts DEF Inv
    <3>2. FreeAt(a)' \in Nat /\ UsedAt(a)' \in Nat /\ FreshAt(a)' \in Nat
      <4>1. (TypeOK => FreeAt(a) \in Nat /\ UsedAt(a) \in Nat /\ FreshAt(a) \in Nat)'
        BY Counts, PTL
      <4>2. QED
        BY <2>1, <4>1
    <3>3. QED
      BY <1>2, <2>1, <3>1, <3>2 DEF Effect, Inv, Kept, Exact
  <2>3. QED
    BY <2>1, <2>2 DEF Inv
<1>3. QED
  BY <1>1, <1>2, StepEffect DEF Inv

\* In every state, Inv holds.
LEMMA Invariant == Spec => []Inv
<1>1. QED
  BY InitInv, NextInv, PTL DEF Spec

\* Every address is in as many regions, free or of a variable, as were taken at
\* sbrk with it, unless a variable was allocated over: Conserved holds of every
\* reachable state, for every number of variables and every size.
THEOREM MemoryConserved == Spec => []Conserved
<1>1. Inv => Conserved
  BY DEF Inv, Kept, Exact, Conserved
<1>2. QED
  BY <1>1, Invariant, PTL

\* A call changes one variable at most, and takes memory off the free list for
\* that one only: every behaviour satisfies OthersKept.
THEOREM OneVariable == Spec => OthersKept
<1>1. ASSUME Inv, [Next]_vars, NEW r \in Rgid, symrgtbl'[r] # symrgtbl[r]
      PROVE  /\ \A q \in Rgid \ {r} : symrgtbl'[q] = symrgtbl[q]
             /\ \A a \in Address : FreeAt(a)' < FreeAt(a) => Covers(symrgtbl'[r], a)
  <2>1. PICK x \in Rgid : Effect(x)
    BY <1>1, StepEffect DEF Inv, vars
  <2>2. x = r
    BY <1>1, <2>1 DEF Effect
  <2>3. QED
    BY <2>1, <2>2 DEF Effect
<1>2. Inv /\ [Next]_vars =>
        [\A r \in Rgid : symrgtbl'[r] # symrgtbl[r] =>
           /\ \A q \in Rgid \ {r} : symrgtbl'[q] = symrgtbl[q]
           /\ \A a \in Address : FreeAt(a)' < FreeAt(a) => Covers(symrgtbl'[r], a)]_vars
  BY <1>1
<1>3. QED
  BY <1>2, Invariant, PTL DEF Spec, OthersKept
=============================================================================
