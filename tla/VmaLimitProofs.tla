----------------------------- MODULE VmaLimitProofs -----------------------------
(***************************************************************************)
(* Proofs about the frame lists of a device and the areas that grow on     *)
(* them, for every number of frames, owners, pages and sizes.              *)
(***************************************************************************)
EXTENDS VmaLimit, TLAPS, NaturalsInduction, WellFoundedInduction,
        FiniteSetTheorems, FunctionTheorems, SequenceTheorems

-----------------------------------------------------------------------------
(* Lists, and sets of positions in them.                                   *)

\* A set of naturals has a least element.
LEMMA LeastOf ==
  ASSUME NEW T \in SUBSET Nat, T # {}
  PROVE  \E m \in T : \A k \in T : m <= k
<1>1. PICK m \in T : \A k \in T : ~(<<k, m>> \in OpToRel(<, Nat))
  BY WFMin, NatLessThanWellFounded, Zenon
<1>2. \A k \in T : ~(k < m)
  BY <1>1 DEF OpToRel
<1>3. m \in Nat /\ \A k \in T : k \in Nat
  OBVIOUS
<1>4. QED
  BY <1>2, <1>3

\* The numbers from 1 to n.
LEMMA CountTo ==
  ASSUME NEW n \in Nat
  PROVE  Cardinality(1 .. n) = n
<1>1. Cardinality(1 .. n) = IF 1 > n THEN 0 ELSE n - 1 + 1
  <2>1. 1 \in Int /\ n \in Int
    OBVIOUS
  <2>2. QED
    BY <2>1, FS_Interval, Zenon
<1>2. QED
  BY <1>1

\* What MEMPHY_get_freefp leaves in a list that names each frame once.
LEMMA TakeFirst ==
  ASSUME NEW S, NEW s \in Seq(S), s # <<>>
  PROVE  /\ Head(s) \in S /\ Tail(s) \in Seq(S) /\ Contains(s, Head(s))
         /\ \A e : Contains(Tail(s), e) => Contains(s, e)
         /\ \A e : Contains(s, e) => Contains(Tail(s), e) \/ e = Head(s)
         /\ IsInjective(s) => IsInjective(Tail(s)) /\ ~ Contains(Tail(s), Head(s))
<1>1. /\ Len(s) \in Nat \ {0} /\ Head(s) = s[1] /\ Head(s) \in S
      /\ Tail(s) \in Seq(S) /\ Len(Tail(s)) = Len(s) - 1
      /\ DOMAIN s = 1 .. Len(s) /\ DOMAIN Tail(s) = 1 .. (Len(s) - 1)
      /\ \A k \in 1 .. (Len(s) - 1) : Tail(s)[k] = s[k + 1]
  OBVIOUS
<1>2. ASSUME NEW e, Contains(s, e) PROVE Contains(Tail(s), e) \/ e = Head(s)
  <2>1. PICK k \in 1 .. Len(s) : s[k] = e
    BY <1>2 DEF Contains
  <2>2. CASE k # 1
    <3>1. k - 1 \in 1 .. (Len(s) - 1) /\ Tail(s)[k - 1] = e
      BY <1>1, <2>1, <2>2
    <3>2. QED
      BY <1>1, <3>1 DEF Contains
  <2>3. QED
    BY <1>1, <2>1, <2>2
<1>3. QED
  BY <1>1, <1>2 DEF Contains, IsInjective

\* The queue with one more page in front.
LEMMA PutFirst ==
  ASSUME NEW S, NEW s \in Seq(S), NEW e \in S
  PROVE  /\ <<e>> \o s \in Seq(S) /\ Len(<<e>> \o s) = Len(s) + 1
         /\ (<<e>> \o s)[1] = e
         /\ \A k \in 1 .. Len(s) : (<<e>> \o s)[k + 1] = s[k]
         /\ \A d : Contains(<<e>> \o s, d) <=> Contains(s, d) \/ d = e
<1> DEFINE t == <<e>> \o s
<1>1. <<e>> \in Seq(S) /\ Len(<<e>>) = 1 /\ <<e>>[1] = e /\ Len(s) \in Nat
  OBVIOUS
<1>2. /\ t \in Seq(S) /\ Len(t) = Len(s) + 1
      /\ \A i \in 1 .. (1 + Len(s)) : t[i] = IF i <= 1 THEN <<e>>[i] ELSE s[i - 1]
  BY <1>1, ConcatProperties
<1>3. t[1] = e /\ \A k \in 1 .. Len(s) : t[k + 1] = s[k]
  BY <1>1, <1>2
<1> HIDE DEF t
<1>4. ASSUME NEW d PROVE Contains(t, d) <=> Contains(s, d) \/ d = e
  <2>1. ASSUME NEW i \in 1 .. Len(t), t[i] = d PROVE Contains(s, d) \/ d = e
    <3>1. CASE i # 1
      <4>1. i - 1 \in 1 .. Len(s) /\ t[(i - 1) + 1] = s[i - 1]
        BY <1>1, <1>2, <1>3, <3>1
      <4>2. QED
        BY <2>1, <4>1 DEF Contains
    <3>2. QED
      BY <1>3, <2>1, <3>1
  <2>2. ASSUME NEW k \in 1 .. Len(s), s[k] = d PROVE Contains(t, d)
    <3>1. k + 1 \in 1 .. Len(t) /\ t[k + 1] = d
      BY <1>1, <1>2, <1>3, <2>2
    <3>2. QED
      BY <3>1 DEF Contains
  <2>3. 1 \in 1 .. Len(t)
    BY <1>1, <1>2
  <2>4. QED
    BY <1>3, <2>1, <2>2, <2>3 DEF Contains
<1>5. QED
  BY <1>2, <1>3, <1>4 DEF t

\* A list without its element i.
LEMMA Removed ==
  ASSUME NEW S, NEW list \in Seq(S), NEW i \in 1 .. Len(list)
  PROVE  /\ RemoveAt(list, i) \in Seq(S) /\ Len(RemoveAt(list, i)) = Len(list) - 1
         /\ \A k \in 1 .. (Len(list) - 1) :
              RemoveAt(list, i)[k] = list[IF k < i THEN k ELSE k + 1]
<1>1. PICK s, t, n : s = SubSeq(list, 1, i - 1) /\ t = SubSeq(list, i + 1, n) /\ n = Len(list)
  OBVIOUS
<1>2. n \in Nat /\ i \in 1 .. n /\ \A k \in 1 .. n : list[k] \in S
  BY <1>1
<1>3. /\ s \in Seq(S) /\ Len(s) = i - 1
      /\ \A k \in 1 .. (i - 1) : s[k] = list[k]
  <2>1. /\ s \in Seq(S) /\ Len(s) = IF 1 <= i - 1 THEN (i - 1) - 1 + 1 ELSE 0
        /\ \A k \in 1 .. ((i - 1) - 1 + 1) : s[k] = list[1 + k - 1]
    BY <1>1, <1>2, SubSeqProperties
  <2>2. \A k \in 1 .. (i - 1) : s[k] = list[k]
    BY <1>2, <2>1
  <2>3. QED
    BY <1>2, <2>1, <2>2
<1>4. /\ t \in Seq(S) /\ Len(t) = n - i
      /\ \A k \in 1 .. (n - i) : t[k] = list[i + k]
  <2>1. /\ t \in Seq(S) /\ Len(t) = IF i + 1 <= n THEN n - (i + 1) + 1 ELSE 0
        /\ \A k \in 1 .. (n - (i + 1) + 1) : t[k] = list[(i + 1) + k - 1]
    BY <1>1, <1>2, SubSeqProperties
  <2>2. ASSUME NEW k \in 1 .. (n - i) PROVE t[k] = list[i + k]
    <3>1. k \in 1 .. (n - (i + 1) + 1) /\ (i + 1) + k - 1 = i + k
      BY <1>2
    <3>2. t[k] = list[(i + 1) + k - 1]
      BY <2>1, <3>1
    <3>3. QED
      BY <3>1, <3>2
  <2>3. QED
    BY <1>2, <2>1, <2>2
<1>5. PICK u : u = s \o t
  OBVIOUS
<1>6. /\ u \in Seq(S) /\ Len(u) = (i - 1) + (n - i)
      /\ \A k \in 1 .. ((i - 1) + (n - i)) : u[k] = IF k <= i - 1 THEN s[k] ELSE t[k - (i - 1)]
  BY <1>3, <1>4, <1>5, ConcatProperties
<1>7. Len(u) = n - 1 /\ n - 1 = (i - 1) + (n - i)
  BY <1>2, <1>6
<1>8. ASSUME NEW k \in 1 .. (n - 1) PROVE u[k] = list[IF k < i THEN k ELSE k + 1]
  <2>1. CASE k < i
    BY <1>2, <1>3, <1>6, <1>7, <2>1
  <2>2. CASE ~(k < i)
    <3>1. k - (i - 1) \in 1 .. (n - i) /\ i + (k - (i - 1)) = k + 1 /\ ~(k <= i - 1)
      BY <1>2, <2>2
    <3>2. QED
      BY <1>4, <1>6, <1>7, <2>2, <3>1
  <2>3. QED
    BY <2>1, <2>2
<1>9. RemoveAt(list, i) = u
  BY <1>1, <1>5 DEF RemoveAt
<1>10. QED
  BY <1>1, <1>6, <1>7, <1>8, <1>9

-----------------------------------------------------------------------------
(* The frames of the device.                                               *)

Node == [fpn : Frame, owner : Owner]

\* A node of the list is that of frame fpn, of owner o.
Names(list, fpn) == \E i \in DOMAIN list : list[i].fpn = fpn
Holds(list, fpn, o) == \E i \in DOMAIN list : list[i].fpn = fpn /\ list[i].owner = o
NamesOnce(list) == \A i, j \in DOMAIN list : list[i].fpn = list[j].fpn => i = j

IsFree(fpn) == Contains(free_fp_list, fpn)
IsUsed(fpn) == Names(used_fp_list, fpn)

\* Every frame is somewhere, and nowhere else.
Somewhere ==
  \A fpn \in Frame : IsFree(fpn) \/ IsUsed(fpn) \/ fpn \in taken \/ fpn \in lost
Once ==
  \A fpn \in Frame :
    /\ IsFree(fpn) => ~IsUsed(fpn) /\ fpn \notin taken /\ fpn \notin lost
    /\ IsUsed(fpn) => fpn \notin taken /\ fpn \notin lost
    /\ fpn \in taken => fpn \notin lost

\* And once in its list.
ListedOnce == IsInjective(free_fp_list) /\ NamesOnce(used_fp_list)

FramesInv == TypeOK /\ Somewhere /\ Once /\ ListedOnce

\* The node that MEMPHY_find_frame stops at, if there is one.
LEMMA FindAt ==
  ASSUME TypeOK, NEW fpn
  PROVE  /\ Find(fpn) # 0 <=> IsUsed(fpn)
         /\ Find(fpn) # 0 => /\ Find(fpn) \in 1 .. Len(used_fp_list)
                             /\ used_fp_list[Find(fpn)].fpn = fpn
<1> DEFINE T == {i \in 1 .. Len(used_fp_list) : used_fp_list[i].fpn = fpn}
<1>1. Find(fpn) = IF T # {} THEN Min(T) ELSE 0
  BY DEF Find, SelectInSeq
<1>2. T \in SUBSET Nat /\ 0 \notin T
  OBVIOUS
<1>3. T # {} <=> IsUsed(fpn)
  BY DEF IsUsed, Names, TypeOK
<1>4. T # {} => Min(T) \in T
  <2> HIDE DEF T
  <2>1. ASSUME T # {} PROVE Min(T) \in T
    <3>1. \E m \in T : \A k \in T : m <= k
      BY <1>2, <2>1, LeastOf
    <3>2. QED
      BY <3>1 DEF Min
  <2>2. QED
    BY <2>1
<1>5. QED
  BY <1>1, <1>2, <1>3, <1>4

\* The lists never name more frames than there are.
LEMMA Validated ==
  ASSUME FramesInv
  PROVE  MEMPHY_validate
<1>1. PICK s, u, n, m : s = free_fp_list /\ u = used_fp_list /\ n = Len(s) /\ m = Len(u)
  OBVIOUS
<1>2. /\ s \in Seq(Frame) /\ u \in Seq(Node) /\ n \in Nat /\ m \in Nat
      /\ DOMAIN s = 1 .. n /\ DOMAIN u = 1 .. m
      /\ \A i \in 1 .. n : s[i] \in Frame
      /\ \A i \in 1 .. m : u[i].fpn \in Frame
      /\ \A i, j \in 1 .. n : s[i] = s[j] => i = j
      /\ \A i, j \in 1 .. m : u[i].fpn = u[j].fpn => i = j
      /\ \A i \in 1 .. n, j \in 1 .. m : s[i] # u[j].fpn
  <2>1. s \in Seq(Frame) /\ u \in Seq(Node)
    BY <1>1 DEF FramesInv, TypeOK, Node
  <2>2. n \in Nat /\ m \in Nat /\ DOMAIN s = 1 .. n /\ DOMAIN u = 1 .. m
    BY <1>1, <2>1
  <2>3. \A i \in 1 .. n : s[i] \in Frame
    BY <1>1, <2>1
  <2>4. \A i \in 1 .. m : u[i].fpn \in Frame
    <3>1. \A i \in 1 .. m : u[i] \in Node
      BY <1>1, <2>1
    <3>2. QED
      BY <3>1 DEF Node
  <2>5. /\ \A i, j \in 1 .. n : s[i] = s[j] => i = j
        /\ \A i, j \in 1 .. m : u[i].fpn = u[j].fpn => i = j
    BY <1>1, <2>2 DEF FramesInv, ListedOnce, NamesOnce, IsInjective
  <2>6. \A i \in 1 .. n, j \in 1 .. m : s[i] # u[j].fpn
    BY <1>1, <2>2, <2>3 DEF FramesInv, Once, IsFree, IsUsed, Names, Contains
  <2>7. QED
    BY <2>1, <2>2, <2>3, <2>4, <2>5, <2>6
<1> DEFINE f == [k \in 1 .. (n + m) |-> IF k <= n THEN s[k] ELSE u[k - n].fpn]
<1>3. \A k \in 1 .. (n + m) : f[k] = (IF k <= n THEN s[k] ELSE u[k - n].fpn)
  OBVIOUS
<1>4. \A k \in 1 .. (n + m) : (k <= n /\ k \in 1 .. n) \/ (~(k <= n) /\ k - n \in 1 .. m)
  BY <1>2
<1>5. f \in [1 .. (n + m) -> Frame]
  BY <1>2, <1>4
<1> HIDE DEF f
<1>6. ASSUME NEW k \in 1 .. (n + m), NEW l \in 1 .. (n + m), f[k] = f[l] PROVE k = l
  <2>1. CASE k <= n /\ l <= n
    BY <1>2, <1>3, <1>4, <1>6, <2>1
  <2>2. CASE ~(k <= n) /\ ~(l <= n)
    <3>1. k - n \in 1 .. m /\ l - n \in 1 .. m /\ k - n = l - n
      BY <1>2, <1>3, <1>4, <1>6, <2>2
    <3>2. QED
      BY <1>2, <3>1
  <2>3. CASE (k <= n) # (l <= n)
    BY <1>2, <1>3, <1>4, <1>6, <2>3
  <2>4. QED
    BY <2>1, <2>2, <2>3
<1>7. f \in Injection(1 .. (n + m), Frame)
  BY <1>5, <1>6, Fun_IsInj
<1>8. IsFiniteSet(Frame) /\ Cardinality(Frame) = Frames
  <2>1. 0 \in Int /\ Frames - 1 \in Int /\ Frames \in Nat /\ ~(0 > Frames - 1)
    BY MemphyAssumption
  <2>2. IsFiniteSet(Frame) /\ Cardinality(Frame) = (Frames - 1) - 0 + 1
    BY <2>1, FS_Interval DEF Frame
  <2>3. QED
    BY <2>1, <2>2
<1>9. Cardinality(1 .. (n + m)) <= Frames
  BY <1>7, <1>8, FS_Injection
<1>10. Cardinality(1 .. (n + m)) = n + m
  BY <1>2, CountTo
<1>11. QED
  BY <1>1, <1>9, <1>10 DEF MEMPHY_validate

-----------------------------------------------------------------------------
(* What the operations do to the list of used frames.                      *)

\* A node put in front.
LEMMA NodePut ==
  ASSUME NEW u \in Seq(Node), NEW node \in Node
  PROVE  /\ <<node>> \o u \in Seq(Node)
         /\ \A fpn : Names(<<node>> \o u, fpn) <=> Names(u, fpn) \/ fpn = node.fpn
         /\ \A fpn, o : Holds(u, fpn, o) => Holds(<<node>> \o u, fpn, o)
         /\ NamesOnce(u) /\ ~Names(u, node.fpn) => NamesOnce(<<node>> \o u)
<1>1. PICK t, n : t = <<node>> \o u /\ n = Len(u)
  OBVIOUS
<1>2. /\ t \in Seq(Node) /\ Len(t) = n + 1 /\ n \in Nat /\ t[1] = node
      /\ \A k \in 1 .. n : t[k + 1] = u[k]
      /\ DOMAIN t = 1 .. (n + 1) /\ DOMAIN u = 1 .. n
  BY <1>1, PutFirst
<1>3. /\ 1 \in 1 .. (n + 1)
      /\ \A k \in 1 .. n : k + 1 \in 1 .. (n + 1)
      /\ \A k \in 1 .. (n + 1) : k = 1 \/ (k - 1 \in 1 .. n /\ k = (k - 1) + 1)
  BY <1>2
<1>4. \A k \in 1 .. (n + 1) :
        (k = 1 /\ t[k] = node) \/ (k - 1 \in 1 .. n /\ t[k] = u[k - 1])
  <2>1. ASSUME NEW k \in 1 .. (n + 1), k # 1 PROVE k - 1 \in 1 .. n /\ t[k] = u[k - 1]
    <3>1. k - 1 \in 1 .. n /\ k = (k - 1) + 1
      BY <1>3, <2>1
    <3>2. t[(k - 1) + 1] = u[k - 1]
      BY <1>2, <3>1
    <3>3. QED
      BY <3>1, <3>2
  <2>2. QED
    BY <1>2, <2>1
<1>5. ASSUME NEW fpn PROVE Names(t, fpn) <=> Names(u, fpn) \/ fpn = node.fpn
  <2>1. ASSUME Names(t, fpn) PROVE Names(u, fpn) \/ fpn = node.fpn
    BY <1>2, <1>4, <2>1 DEF Names
  <2>2. ASSUME Names(u, fpn) PROVE Names(t, fpn)
    <3>1. PICK k \in 1 .. n : u[k].fpn = fpn
      BY <1>2, <2>2 DEF Names
    <3>2. k + 1 \in 1 .. (n + 1) /\ t[k + 1].fpn = fpn
      BY <1>2, <1>3, <3>1
    <3>3. QED
      BY <1>2, <3>2 DEF Names
  <2>3. ASSUME fpn = node.fpn PROVE Names(t, fpn)
    BY <1>2, <1>3, <2>3 DEF Names
  <2>4. QED
    BY <2>1, <2>2, <2>3
<1>6. ASSUME NEW fpn, NEW o, Holds(u, fpn, o) PROVE Holds(t, fpn, o)
  BY <1>2, <1>3, <1>6 DEF Holds
<1>7. ASSUME NamesOnce(u), ~Names(u, node.fpn) PROVE NamesOnce(t)
  <2>1. ASSUME NEW i \in 1 .. (n + 1), NEW j \in 1 .. (n + 1), t[i].fpn = t[j].fpn
        PROVE  i = j
    <3>1. CASE i = 1 \/ j = 1
      BY <1>2, <1>4, <1>7, <2>1, <3>1 DEF Names
    <3>2. CASE i # 1 /\ j # 1
      <4>1. i - 1 \in 1 .. n /\ j - 1 \in 1 .. n /\ u[i - 1].fpn = u[j - 1].fpn
        BY <1>4, <2>1, <3>2
      <4>2. i - 1 = j - 1
        BY <1>2, <1>7, <4>1 DEF NamesOnce
      <4>3. QED
        BY <4>2
    <3>3. QED
      BY <3>1, <3>2
  <2>2. QED
    BY <1>2, <2>1 DEF NamesOnce
<1>8. QED
  BY <1>1, <1>2, <1>5, <1>6, <1>7

\* A node taken out.
LEMMA NodeRemoved ==
  ASSUME NEW u \in Seq(Node), NEW i \in 1 .. Len(u), NamesOnce(u)
  PROVE  /\ RemoveAt(u, i) \in Seq(Node)
         /\ \A fpn : Names(RemoveAt(u, i), fpn) <=> Names(u, fpn) /\ fpn # u[i].fpn
         /\ \A fpn, o : Holds(RemoveAt(u, i), fpn, o) => Holds(u, fpn, o)
         /\ NamesOnce(RemoveAt(u, i))
<1>1. PICK t, n : t = RemoveAt(u, i) /\ n = Len(u)
  OBVIOUS
<1>2. /\ t \in Seq(Node) /\ n \in Nat /\ i \in 1 .. n
      /\ \A k \in 1 .. (n - 1) : t[k] = u[IF k < i THEN k ELSE k + 1]
      /\ DOMAIN t = 1 .. (n - 1) /\ DOMAIN u = 1 .. n
  <2>1. /\ t \in Seq(Node) /\ Len(t) = n - 1
        /\ \A k \in 1 .. (n - 1) : t[k] = u[IF k < i THEN k ELSE k + 1]
    BY <1>1, Removed
  <2>2. n \in Nat /\ i \in 1 .. n /\ DOMAIN u = 1 .. n
    BY <1>1
  <2>3. DOMAIN t = 1 .. (n - 1)
    BY <2>1
  <2>4. QED
    BY <2>1, <2>2, <2>3
<1> DEFINE At(k) == IF k < i THEN k ELSE k + 1
<1>3. /\ \A k \in 1 .. (n - 1) : At(k) \in 1 .. n /\ At(k) # i
      /\ \A k, l \in 1 .. (n - 1) : At(k) = At(l) => k = l
      /\ \A j \in 1 .. n : j # i => \E k \in 1 .. (n - 1) : At(k) = j
  <2>1. ASSUME NEW j \in 1 .. n, j # i PROVE \E k \in 1 .. (n - 1) : At(k) = j
    <3>1. CASE j < i
      <4>1. j \in 1 .. (n - 1) /\ At(j) = j
        BY <1>2, <2>1, <3>1
      <4>2. QED
        BY <4>1
    <3>2. CASE ~(j < i)
      <4>1. j - 1 \in 1 .. (n - 1) /\ At(j - 1) = j
        BY <1>2, <2>1, <3>2
      <4>2. QED
        BY <4>1
    <3>3. QED
      BY <3>1, <3>2
  <2>2. QED
    BY <1>2, <2>1
<1>4. \A k \in 1 .. (n - 1) : t[k] = u[At(k)]
  BY <1>2
<1> HIDE DEF At
<1>5. ASSUME NEW fpn PROVE Names(t, fpn) <=> Names(u, fpn) /\ fpn # u[i].fpn
  <2>1. ASSUME Names(t, fpn) PROVE Names(u, fpn) /\ fpn # u[i].fpn
    <3>1. PICK k \in 1 .. (n - 1) : t[k].fpn = fpn
      BY <1>2, <2>1 DEF Names
    <3>2. At(k) \in 1 .. n /\ At(k) # i /\ u[At(k)].fpn = fpn
      BY <1>3, <1>4, <3>1
    <3>3. QED
      BY <1>2, <3>2 DEF Names, NamesOnce
  <2>2. ASSUME Names(u, fpn), fpn # u[i].fpn PROVE Names(t, fpn)
    <3>1. PICK j \in 1 .. n : u[j].fpn = fpn
      BY <1>2, <2>2 DEF Names
    <3>2. PICK k \in 1 .. (n - 1) : At(k) = j
      BY <1>3, <2>2, <3>1
    <3>3. t[k].fpn = fpn
      BY <1>4, <3>1, <3>2
    <3>4. QED
      BY <1>2, <3>3 DEF Names
  <2>3. QED
    BY <2>1, <2>2
<1>6. ASSUME NEW fpn, NEW o, Holds(t, fpn, o) PROVE Holds(u, fpn, o)
  BY <1>2, <1>3, <1>4, <1>6 DEF Holds
<1>7. NamesOnce(t)
  <2>1. ASSUME NEW k \in 1 .. (n - 1), NEW l \in 1 .. (n - 1), t[k].fpn = t[l].fpn
        PROVE  k = l
    <3>1. At(k) = At(l)
      BY <1>2, <1>3, <1>4, <2>1 DEF NamesOnce
    <3>2. QED
      BY <1>3, <3>1
  <2>2. QED
    BY <1>2, <2>1 DEF NamesOnce
<1>8. QED
  BY <1>1, <1>2, <1>5, <1>6, <1>7

\* A list that names each frame once tells one owner of it: that of the node
\* MEMPHY_find_frame stops at.
LEMMA OwnerFound ==
  ASSUME TypeOK, ListedOnce, NEW fpn
  PROVE  /\ MEMPHY_find_frame(fpn) # <<>> <=> IsUsed(fpn)
         /\ \A o : MEMPHY_find_frame(fpn) = <<o>> <=> Holds(used_fp_list, fpn, o)
         /\ IsUsed(fpn) => \E o : MEMPHY_find_frame(fpn) = <<o>>
<1>1. PICK u, i : u = used_fp_list /\ i = Find(fpn)
  OBVIOUS
<1>2. /\ i # 0 <=> Names(u, fpn)
      /\ i # 0 => i \in DOMAIN u /\ u[i].fpn = fpn
  BY <1>1, FindAt DEF TypeOK, IsUsed
<1>3. NamesOnce(u)
  BY <1>1 DEF ListedOnce
<1>4. i # 0 => \A o : u[i].owner = o <=> Holds(u, fpn, o)
  BY <1>2, <1>3 DEF Holds, NamesOnce
<1>5. \A o : <<o>> # <<>>
  OBVIOUS
<1>6. \A o : Holds(u, fpn, o) => Names(u, fpn)
  BY DEF Holds, Names
<1>7. MEMPHY_find_frame(fpn) = IF i = 0 THEN <<>> ELSE <<u[i].owner>>
  BY <1>1 DEF MEMPHY_find_frame
<1>8. \A o : <<o>> = <<u[i].owner>> <=> o = u[i].owner
  OBVIOUS
<1>9. QED
  BY <1>1, <1>2, <1>4, <1>5, <1>6, <1>7, <1>8 DEF IsUsed

\* The owners of the frames used before and after a step agree: no list takes a
\* frame in and lets another go.
Agree(u, v) ==
  \/ \A fpn, o : Holds(u, fpn, o) => Holds(v, fpn, o)
  \/ \A fpn, o : Holds(v, fpn, o) => Holds(u, fpn, o)

\* The first frame of the free list leaves it.
LEMMA FirstLeaves ==
  ASSUME FramesInv, free_fp_list # <<>>, free_fp_list' = freefp_taken(free_fp_list)
  PROVE  /\ Head(free_fp_list) \in Frame /\ IsFree(Head(free_fp_list))
         /\ free_fp_list' \in Seq(Frame) /\ IsInjective(free_fp_list')
         /\ \A fpn : IsFree(fpn)' <=> IsFree(fpn) /\ fpn # Head(free_fp_list)
<1>1. free_fp_list \in Seq(Frame) /\ IsInjective(free_fp_list)
  BY DEF FramesInv, TypeOK, ListedOnce
<1>2. PICK s, h, t : s = free_fp_list /\ h = Head(s) /\ t = Tail(s)
  OBVIOUS
<1>3. /\ h \in Frame /\ t \in Seq(Frame) /\ Contains(s, h)
      /\ \A e : Contains(t, e) => Contains(s, e)
      /\ \A e : Contains(s, e) => Contains(t, e) \/ e = h
      /\ IsInjective(t) /\ ~Contains(t, h)
  BY <1>1, <1>2, TakeFirst
<1>4. free_fp_list' = t
  BY <1>2 DEF freefp_taken
<1>5. QED
  BY <1>2, <1>3, <1>4 DEF IsFree

\* A frame that was not free is put in front of the free list.
LEMMA FirstPut ==
  ASSUME FramesInv, NEW fpn \in Frame, ~IsFree(fpn),
         free_fp_list' = MEMPHY_put_freefp(free_fp_list, fpn)
  PROVE  /\ free_fp_list' \in Seq(Frame) /\ IsInjective(free_fp_list')
         /\ \A e : IsFree(e)' <=> IsFree(e) \/ e = fpn
<1>1. PICK s, t, n : s = free_fp_list /\ t = <<fpn>> \o s /\ n = Len(s)
  OBVIOUS
<1>2. s \in Seq(Frame) /\ IsInjective(s) /\ ~Contains(s, fpn)
  BY <1>1 DEF FramesInv, TypeOK, ListedOnce, IsFree
<1>3. /\ t \in Seq(Frame) /\ Len(t) = n + 1 /\ n \in Nat /\ t[1] = fpn
      /\ \A k \in 1 .. n : t[k + 1] = s[k]
      /\ \A d : Contains(t, d) <=> Contains(s, d) \/ d = fpn
  BY <1>1, <1>2, PutFirst
<1>4. IsInjective(t)
  <2>1. DOMAIN t = 1 .. (n + 1) /\ DOMAIN s = 1 .. n
    BY <1>1, <1>2, <1>3
  <2>2. \A k \in 1 .. (n + 1) : k # 1 => k - 1 \in 1 .. n /\ t[k] = s[k - 1]
    <3>1. ASSUME NEW k \in 1 .. (n + 1), k # 1 PROVE k - 1 \in 1 .. n /\ t[k] = s[k - 1]
      <4>1. k - 1 \in 1 .. n /\ (k - 1) + 1 = k
        BY <1>3, <3>1
      <4>2. t[(k - 1) + 1] = s[k - 1]
        BY <1>3, <4>1
      <4>3. QED
        BY <4>1, <4>2
    <3>2. QED
      BY <3>1
  <2>3. \A k \in 1 .. n : s[k] # fpn
    BY <1>1, <1>2 DEF Contains
  <2>4. ASSUME NEW k \in 1 .. (n + 1), NEW l \in 1 .. (n + 1), t[k] = t[l] PROVE k = l
    <3>1. CASE k = 1 \/ l = 1
      BY <1>3, <2>2, <2>3, <2>4, <3>1
    <3>2. CASE k # 1 /\ l # 1
      <4>1. k - 1 = l - 1
        BY <1>2, <2>1, <2>2, <2>4, <3>2 DEF IsInjective
      <4>2. QED
        BY <4>1
    <3>3. QED
      BY <3>1, <3>2
  <2>5. QED
    BY <2>1, <2>4 DEF IsInjective
<1>5. free_fp_list' = t
  BY <1>1 DEF MEMPHY_put_freefp
<1>6. QED
  BY <1>1, <1>3, <1>4, <1>5 DEF IsFree

\* A device begins with every frame free.
LEMMA FramesInit ==
  ASSUME Init
  PROVE  FramesInv
<1>1. Frames \in Nat
  BY MemphyAssumption
<1>2. PICK s : s = free_fp_list
  OBVIOUS
<1>3. s = [i \in 1 .. Frames |-> i - 1]
  BY <1>2 DEF Init, MEMPHY_format
<1>4. \A i \in 1 .. Frames : s[i] = i - 1 /\ s[i] \in Frame
  BY <1>1, <1>3 DEF Frame
<1>5. s \in Seq(Frame) /\ DOMAIN s = 1 .. Frames /\ Len(s) = Frames
  <2>1. s \in [1 .. Frames -> Frame]
    BY <1>3, <1>4
  <2>2. s \in Seq(Frame)
    BY <1>1, <2>1
  <2>3. QED
    BY <1>1, <1>3, <2>2
<1>6. IsInjective(s)
  <2>1. \A i, j \in 1 .. Frames : s[i] = s[j] => i = j
    BY <1>1, <1>4
  <2>2. QED
    BY <1>5, <2>1 DEF IsInjective
<1>7. \A fpn \in Frame : Contains(s, fpn)
  <2>1. ASSUME NEW fpn \in Frame PROVE Contains(s, fpn)
    <3>1. fpn + 1 \in 1 .. Frames /\ (fpn + 1) - 1 = fpn
      BY <1>1 DEF Frame
    <3>2. s[fpn + 1] = fpn
      BY <1>4, <3>1
    <3>3. QED
      BY <1>5, <3>1, <3>2 DEF Contains
  <2>2. QED
    BY <2>1
<1>8. DOMAIN used_fp_list = {} /\ used_fp_list \in Seq([fpn : Frame, owner : Owner])
  BY DEF Init
<1>9. TypeOK
  BY <1>2, <1>5, <1>8 DEF Init, TypeOK
<1>10. \A fpn : ~IsUsed(fpn)
  BY <1>8 DEF IsUsed, Names
<1>11. Somewhere /\ Once
  BY <1>2, <1>7, <1>10 DEF Init, Somewhere, Once, IsFree
<1>12. ListedOnce
  BY <1>2, <1>6, <1>8 DEF ListedOnce, NamesOnce
<1>13. QED
  BY <1>9, <1>11, <1>12 DEF FramesInv

\* A node is entered for a frame that is not used, or taken out: the list of used
\* frames after it.
LEMMA UsedPut ==
  ASSUME FramesInv, NEW fpn \in Frame, NEW o \in Owner, ~IsUsed(fpn),
         used_fp_list' = <<[fpn |-> fpn, owner |-> o]>> \o used_fp_list
  PROVE  /\ used_fp_list' \in Seq([fpn : Frame, owner : Owner]) /\ NamesOnce(used_fp_list')
         /\ \A e : IsUsed(e)' <=> IsUsed(e) \/ e = fpn
         /\ Agree(used_fp_list, used_fp_list')
<1>1. used_fp_list \in Seq(Node) /\ NamesOnce(used_fp_list)
  BY DEF FramesInv, TypeOK, ListedOnce, Node
<1>2. PICK u, d, t : u = used_fp_list /\ d = [fpn |-> fpn, owner |-> o] /\ t = <<d>> \o u
  OBVIOUS
<1>3. d \in Node /\ d.fpn = fpn
  BY <1>2 DEF Node
<1>4. /\ t \in Seq(Node)
      /\ \A e : Names(t, e) <=> Names(u, e) \/ e = d.fpn
      /\ \A e, p : Holds(u, e, p) => Holds(t, e, p)
      /\ NamesOnce(u) /\ ~Names(u, d.fpn) => NamesOnce(t)
  BY <1>1, <1>2, <1>3, NodePut
<1>5. used_fp_list' = t
  BY <1>2
<1>6. QED
  BY <1>1, <1>2, <1>3, <1>4, <1>5 DEF IsUsed, Agree, Node

\* The list without the node of a frame.
LEMMA UsedRemoved ==
  ASSUME FramesInv, NEW fpn \in Frame, Find(fpn) # 0,
         used_fp_list' = RemoveAt(used_fp_list, Find(fpn))
  PROVE  /\ used_fp_list' \in Seq([fpn : Frame, owner : Owner]) /\ NamesOnce(used_fp_list')
         /\ IsUsed(fpn)
         /\ \A e : IsUsed(e)' <=> IsUsed(e) /\ e # fpn
         /\ Agree(used_fp_list, used_fp_list')
<1>1. used_fp_list \in Seq(Node) /\ NamesOnce(used_fp_list) /\ TypeOK
  BY DEF FramesInv, TypeOK, ListedOnce, Node
<1>2. PICK u, i, t : u = used_fp_list /\ i = Find(fpn) /\ t = RemoveAt(u, i)
  OBVIOUS
<1>3. i \in 1 .. Len(u) /\ u[i].fpn = fpn /\ IsUsed(fpn)
  BY <1>1, <1>2, FindAt
<1>4. /\ t \in Seq(Node) /\ NamesOnce(t)
      /\ \A e : Names(t, e) <=> Names(u, e) /\ e # u[i].fpn
      /\ \A e, p : Holds(t, e, p) => Holds(u, e, p)
  BY <1>1, <1>2, <1>3, NodeRemoved
<1>5. used_fp_list' = t
  BY <1>2
<1>6. QED
  BY <1>2, <1>3, <1>4, <1>5 DEF IsUsed, Agree, Node

\* Every operation of the device leaves each frame in one place.
LEMMA FramesNext ==
  ASSUME FramesInv, Next
  PROVE  FramesInv' /\ Agree(used_fp_list, used_fp_list')
<1>1. /\ free_fp_list \in Seq(Frame) /\ IsInjective(free_fp_list)
      /\ used_fp_list \in Seq([fpn : Frame, owner : Owner]) /\ NamesOnce(used_fp_list)
      /\ taken \subseteq Frame /\ lost \subseteq Frame
  BY DEF FramesInv, TypeOK, ListedOnce
<1>2. Somewhere /\ Once
  BY DEF FramesInv
<1>3. ASSUME UNCHANGED used_fp_list
      PROVE  /\ used_fp_list' \in Seq([fpn : Frame, owner : Owner]) /\ NamesOnce(used_fp_list')
             /\ \A e : IsUsed(e)' <=> IsUsed(e)
             /\ Agree(used_fp_list, used_fp_list')
  BY <1>1, <1>3 DEF IsUsed, Agree
<1>4. ASSUME UNCHANGED free_fp_list
      PROVE  /\ free_fp_list' \in Seq(Frame) /\ IsInjective(free_fp_list')
             /\ \A e : IsFree(e)' <=> IsFree(e)
  BY <1>1, <1>4 DEF IsFree
<1> DEFINE Lists == /\ free_fp_list' \in Seq(Frame) /\ IsInjective(free_fp_list')
                    /\ used_fp_list' \in Seq([fpn : Frame, owner : Owner])
                    /\ NamesOnce(used_fp_list') /\ Agree(used_fp_list, used_fp_list')
<1> DEFINE Sets == taken' \subseteq Frame /\ lost' \subseteq Frame
<1>5. ASSUME Lists, Sets, Somewhere', Once'
      PROVE  FramesInv' /\ Agree(used_fp_list, used_fp_list')
  BY <1>5 DEF FramesInv, TypeOK, ListedOnce
<1>6. CASE GetFree
  <2>1. PICK h : h = Head(free_fp_list)
    OBVIOUS
  <2>2. h \in Frame /\ IsFree(h) /\ \A e : IsFree(e)' <=> IsFree(e) /\ e # h
    BY <1>6, <2>1, FirstLeaves DEF GetFree
  <2>3. \A e : IsUsed(e)' <=> IsUsed(e)
    BY <1>3, <1>6 DEF GetFree
  <2>4. taken' = taken \cup {h} /\ lost' = lost
    BY <1>6, <2>1 DEF GetFree
  <2>5. Lists /\ Sets
    BY <1>1, <1>3, <1>6, <2>2, <2>4, FirstLeaves DEF GetFree
  <2>6. Somewhere' /\ Once'
    BY <1>2, <2>2, <2>3, <2>4 DEF Somewhere, Once
  <2>7. QED
    BY <1>5, <2>5, <2>6
<1>7. CASE \E fpn \in taken : PutFree(fpn)
  <2>1. PICK h \in taken : PutFree(h)
    BY <1>7
  <2>2. h \in Frame /\ ~IsFree(h) /\ \A e : IsFree(e)' <=> IsFree(e) \/ e = h
    BY <1>1, <1>2, <2>1, FirstPut DEF PutFree, Once
  <2>3. \A e : IsUsed(e)' <=> IsUsed(e)
    BY <1>3, <2>1 DEF PutFree
  <2>4. taken' = taken \ {h} /\ lost' = lost
    BY <2>1 DEF PutFree
  <2>5. Lists /\ Sets
    BY <1>1, <1>3, <2>1, <2>2, <2>4, FirstPut DEF PutFree
  <2>6. Somewhere' /\ Once'
    BY <1>2, <2>1, <2>2, <2>3, <2>4 DEF Somewhere, Once
  <2>7. QED
    BY <1>5, <2>5, <2>6
<1>8. CASE \E fpn \in Frame, o \in Owner : GetUsed(fpn, o)
  <2>1. PICK fpn \in Frame, o \in Owner : GetUsed(fpn, o)
    BY <1>8
  <2>2. PICK h : h = Head(free_fp_list)
    OBVIOUS
  <2>3. h \in Frame /\ IsFree(h) /\ \A e : IsFree(e)' <=> IsFree(e) /\ e # h
    BY <2>1, <2>2, FirstLeaves DEF GetUsed
  <2>4. ~IsUsed(h) /\ used_fp_list' = <<[fpn |-> h, owner |-> o]>> \o used_fp_list
    BY <1>2, <2>1, <2>2, <2>3 DEF GetUsed, Once
  <2>5. \A e : IsUsed(e)' <=> IsUsed(e) \/ e = h
    BY <2>3, <2>4, UsedPut
  <2>6. taken' = taken /\ lost' = lost
    BY <2>1 DEF GetUsed
  <2>7. Lists /\ Sets
    BY <1>1, <2>1, <2>3, <2>4, <2>6, FirstLeaves, UsedPut DEF GetUsed
  <2>8. Somewhere' /\ Once'
    BY <1>2, <2>3, <2>5, <2>6 DEF Somewhere, Once
  <2>9. QED
    BY <1>5, <2>7, <2>8
<1>9. CASE GetUsedFails
  <2>1. PICK h : h = Head(free_fp_list)
    OBVIOUS
  <2>2. h \in Frame /\ IsFree(h) /\ \A e : IsFree(e)' <=> IsFree(e) /\ e # h
    BY <1>9, <2>1, FirstLeaves DEF GetUsedFails
  <2>3. \A e : IsUsed(e)' <=> IsUsed(e)
    BY <1>3, <1>9 DEF GetUsedFails
  <2>4. taken' = taken /\ lost' = lost \cup {h}
    BY <1>9, <2>1 DEF GetUsedFails
  <2>5. Lists /\ Sets
    BY <1>1, <1>3, <1>9, <2>2, <2>4, FirstLeaves DEF GetUsedFails
  <2>6. Somewhere' /\ Once'
    BY <1>2, <2>2, <2>3, <2>4 DEF Somewhere, Once
  <2>7. QED
    BY <1>5, <2>5, <2>6
<1>10. CASE \E fpn \in taken, o \in Owner : PutUsed(fpn, o)
  <2>1. PICK h \in taken, o \in Owner : PutUsed(h, o)
    BY <1>10
  <2>2. h \in Frame /\ ~IsUsed(h)
    BY <1>1, <1>2, <2>1 DEF Once
  <2>3. used_fp_list' = <<[fpn |-> h, owner |-> o]>> \o used_fp_list
    BY <2>1 DEF PutUsed
  <2>4. \A e : IsUsed(e)' <=> IsUsed(e) \/ e = h
    BY <2>2, <2>3, UsedPut
  <2>5. \A e : IsFree(e)' <=> IsFree(e)
    BY <1>4, <2>1 DEF PutUsed
  <2>6. taken' = taken \ {h} /\ lost' = lost
    BY <2>1 DEF PutUsed
  <2>7. Lists /\ Sets
    BY <1>1, <1>4, <2>1, <2>2, <2>3, <2>6, UsedPut DEF PutUsed
  <2>8. Somewhere' /\ Once'
    BY <1>2, <2>1, <2>4, <2>5, <2>6 DEF Somewhere, Once
  <2>9. QED
    BY <1>5, <2>7, <2>8
<1>11. CASE \E fpn \in Frame : RemoveUsed(fpn)
  <2>1. PICK h \in Frame : RemoveUsed(h)
    BY <1>11
  <2>2. IsUsed(h) /\ \A e : IsUsed(e)' <=> IsUsed(e) /\ e # h
    BY <2>1, UsedRemoved DEF RemoveUsed
  <2>3. \A e : IsFree(e)' <=> IsFree(e)
    BY <1>4, <2>1 DEF RemoveUsed
  <2>4. taken' = taken \cup {h} /\ lost' = lost
    BY <2>1 DEF RemoveUsed
  <2>5. Lists /\ Sets
    BY <1>1, <1>4, <2>1, <2>4, UsedRemoved DEF RemoveUsed
  <2>6. Somewhere' /\ Once'
    BY <1>2, <2>2, <2>3, <2>4 DEF Somewhere, Once
  <2>7. QED
    BY <1>5, <2>5, <2>6
<1>12. CASE \E fpn \in Frame : FreeUsed(fpn)
  <2>1. PICK h \in Frame : FreeUsed(h)
    BY <1>12
  <2>2. IsUsed(h) /\ \A e : IsUsed(e)' <=> IsUsed(e) /\ e # h
    BY <2>1, UsedRemoved DEF FreeUsed
  <2>3. ~IsFree(h)
    BY <1>2, <2>2 DEF Once
  <2>4. \A e : IsFree(e)' <=> IsFree(e) \/ e = h
    BY <2>1, <2>3, FirstPut DEF FreeUsed
  <2>5. taken' = taken /\ lost' = lost
    BY <2>1 DEF FreeUsed
  <2>6. Lists /\ Sets
    BY <1>1, <2>1, <2>3, <2>5, FirstPut, UsedRemoved DEF FreeUsed
  <2>7. Somewhere' /\ Once'
    BY <1>2, <2>2, <2>4, <2>5 DEF Somewhere, Once
  <2>8. QED
    BY <1>5, <2>6, <2>7
<1>13. CASE Cleanup
  <2>1. \A e : Find(e) # 0 <=> IsUsed(e)
    BY FindAt DEF FramesInv
  <2>2. /\ free_fp_list' = <<>> /\ used_fp_list' = <<>> /\ taken' = taken
        /\ lost' = lost \cup {e \in Frame : IsFree(e) \/ IsUsed(e)}
    BY <1>13, <2>1 DEF Cleanup, IsFree
  <2>3. \A e : ~IsFree(e)' /\ ~IsUsed(e)'
    BY <2>2 DEF IsFree, IsUsed, Contains, Names
  <2>4. Lists /\ Sets
    <3>1. IsInjective(free_fp_list') /\ NamesOnce(used_fp_list')
      BY <2>2 DEF IsInjective, NamesOnce
    <3>2. Agree(used_fp_list, used_fp_list')
      BY <2>2 DEF Agree, Holds
    <3>3. QED
      BY <1>1, <2>2, <3>1, <3>2
  <2>5. Somewhere' /\ Once'
    BY <1>2, <2>2, <2>3 DEF Somewhere, Once
  <2>6. QED
    BY <1>5, <2>4, <2>5
<1>14. QED
  BY <1>6, <1>7, <1>8, <1>9, <1>10, <1>11, <1>12, <1>13 DEF Next

-----------------------------------------------------------------------------
(* Pages and bytes.                                                        *)

\* Multiples of the page size are ordered as their pages are.
LEMMA ByPages ==
  ASSUME NEW P \in Nat \ {0}, NEW e \in Nat, NEW g \in Nat
  PROVE  /\ (g * P < e * P <=> g < e) /\ (e * P <= g * P <=> e <= g)
         /\ (e + g) * P = e * P + g * P /\ e * P \in Nat
<1>1. e * P \in Nat /\ g * P \in Nat /\ (e + g) * P = e * P + g * P
  OBVIOUS
<1>2. ASSUME g < e PROVE g * P < e * P
  <2>1. PICK d \in Nat \ {0} : e = g + d
    <3>1. e - g \in Nat \ {0} /\ e = g + (e - g)
      BY <1>2
    <3>2. QED
      BY <3>1
  <2>2. e * P = g * P + d * P /\ d * P > 0
    BY <2>1
  <2>3. QED
    BY <1>1, <2>2
<1>3. ASSUME e <= g PROVE e * P <= g * P
  <2>1. PICK d \in Nat : g = e + d
    <3>1. g - e \in Nat /\ g = e + (g - e)
      BY <1>3
    <3>2. QED
      BY <3>1
  <2>2. g * P = e * P + d * P /\ d * P >= 0
    BY <2>1
  <2>3. QED
    BY <1>1, <2>2
<1>4. QED
  BY <1>1, <1>2, <1>3

\* A multiple is that of its quotient, and rounding up to pages leaves room.
LEMMA WholePages ==
  ASSUME NEW P \in Nat \ {0}, NEW e \in Nat, NEW size \in Nat
  PROVE  /\ (e * P) \div P = e
         /\ (size + P - 1) \div P \in Nat
         /\ size <= ((size + P - 1) \div P) * P
         /\ (size % P = 0) => (size = (size \div P) * P /\ size \div P \in Nat)
<1>1. (e * P) \div P = e
  OBVIOUS
<1>2. PICK n \in Nat : n = size + P - 1
  <2>1. size + P - 1 \in Nat
    OBVIOUS
  <2>2. QED
    BY <2>1
<1>3. n \div P \in Nat /\ n <= P * (n \div P) + P - 1
  OBVIOUS
<1>4. size <= (n \div P) * P
  <2>1. PICK q \in Nat : q = n \div P /\ n <= P * q + P - 1
    BY <1>3
  <2>2. PICK z \in Nat : z = q * P /\ z = P * q
    BY <2>1
  <2>3. size <= z
    BY <1>2, <2>1, <2>2
  <2>4. QED
    BY <2>1, <2>2, <2>3
<1>5. ASSUME size % P = 0 PROVE size = (size \div P) * P /\ size \div P \in Nat
  <2>1. size = (size \div P) * P
    BY <1>5
  <2>2. size \div P \in Nat
    OBVIOUS
  <2>3. QED
    BY <2>1, <2>2
<1>6. QED
  BY <1>1, <1>2, <1>3, <1>4, <1>5

-----------------------------------------------------------------------------
(* The growth of an area, whether all of its pages get a frame, some, or   *)
(* none: k frames of the m that leave the free list are mapped.            *)

Grows(k, m) ==
  /\ k \in Nat /\ m \in Nat /\ k <= m /\ m <= Len(free_fp_list)
  /\ free_fp_list' = SubSeq(free_fp_list, m + 1, Len(free_fp_list))
  /\ taken' = taken \cup {free_fp_list[i] : i \in 1 .. k}
  /\ lost' = lost \cup {free_fp_list[i] : i \in (k + 1) .. m}
  /\ UNCHANGED used_fp_list

\* The frames of a growth go to its pages or are lost, and the others stay.
LEMMA FramesGrow ==
  ASSUME FramesInv, NEW k, NEW m, Grows(k, m)
  PROVE  FramesInv' /\ Agree(used_fp_list, used_fp_list')
<1>1. PICK s, n, t : s = free_fp_list /\ n = Len(s) /\ t = SubSeq(s, m + 1, n)
  OBVIOUS
<1>2. /\ s \in Seq(Frame) /\ n \in Nat /\ DOMAIN s = 1 .. n
      /\ \A i \in 1 .. n : s[i] \in Frame
      /\ \A i, j \in 1 .. n : s[i] = s[j] => i = j
  <2>1. s \in Seq(Frame) /\ IsInjective(s)
    BY <1>1 DEF FramesInv, TypeOK, ListedOnce
  <2>2. n \in Nat /\ DOMAIN s = 1 .. n
    BY <1>1, <2>1
  <2>3. QED
    BY <2>1, <2>2 DEF IsInjective
<1>3. k \in Nat /\ m \in Nat /\ k <= m /\ m <= n
  BY <1>1 DEF Grows
<1>4. /\ t \in Seq(Frame) /\ Len(t) = n - m /\ DOMAIN t = 1 .. (n - m)
      /\ \A i \in 1 .. (n - m) : m + i \in (m + 1) .. n /\ t[i] = s[m + i]
  <2>1. m + 1 \in Int /\ n \in Int /\ \A i \in (m + 1) .. n : s[i] \in Frame
    BY <1>2, <1>3
  <2>2. /\ t \in Seq(Frame) /\ Len(t) = IF m + 1 <= n THEN n - (m + 1) + 1 ELSE 0
        /\ \A i \in 1 .. (n - (m + 1) + 1) : t[i] = s[(m + 1) + i - 1]
    BY <1>1, <2>1, SubSeqProperties
  <2>3. Len(t) = n - m
    BY <1>2, <1>3, <2>2
  <2>4. ASSUME NEW i \in 1 .. (n - m) PROVE m + i \in (m + 1) .. n /\ t[i] = s[m + i]
    <3>1. i \in 1 .. (n - (m + 1) + 1) /\ (m + 1) + i - 1 = m + i /\ m + i \in (m + 1) .. n
      BY <1>2, <1>3
    <3>2. t[i] = s[(m + 1) + i - 1]
      BY <2>2, <3>1
    <3>3. QED
      BY <3>1, <3>2
  <2>5. DOMAIN t = 1 .. (n - m)
    BY <2>2, <2>3
  <2>6. QED
    BY <2>2, <2>3, <2>4, <2>5
<1>5. free_fp_list' = t /\ used_fp_list' = used_fp_list
  BY <1>1 DEF Grows
<1>6. IsInjective(t)
  <2>1. ASSUME NEW i \in 1 .. (n - m), NEW j \in 1 .. (n - m), t[i] = t[j] PROVE i = j
    <3>1. m + i = m + j
      <4>1. m + i \in 1 .. n /\ m + j \in 1 .. n /\ s[m + i] = s[m + j]
        BY <1>2, <1>3, <1>4, <2>1
      <4>2. QED
        BY <1>2, <4>1
    <3>2. QED
      BY <1>3, <3>1
  <2>2. QED
    BY <1>4, <2>1 DEF IsInjective
<1>7. PICK Mapped1, Lost1 : Mapped1 = {s[i] : i \in 1 .. k} /\ Lost1 = {s[i] : i \in (k + 1) .. m}
  OBVIOUS
<1>8. taken' = taken \cup Mapped1 /\ lost' = lost \cup Lost1
  BY <1>1, <1>7 DEF Grows
<1>9. ASSUME NEW e
      PROVE  /\ Contains(s, e) <=> e \in Mapped1 \/ e \in Lost1 \/ Contains(t, e)
             /\ ~(e \in Mapped1 /\ e \in Lost1)
             /\ ~(e \in Mapped1 /\ Contains(t, e)) /\ ~(e \in Lost1 /\ Contains(t, e))
  <2>1. e \in Mapped1 <=> \E i \in 1 .. n : i <= k /\ s[i] = e
    BY <1>2, <1>3, <1>7
  <2>2. e \in Lost1 <=> \E i \in 1 .. n : ~(i <= k) /\ i <= m /\ s[i] = e
    BY <1>2, <1>3, <1>7
  <2>3. Contains(t, e) <=> \E i \in 1 .. n : ~(i <= m) /\ s[i] = e
    <3>1. ASSUME Contains(t, e) PROVE \E i \in 1 .. n : ~(i <= m) /\ s[i] = e
      <4>1. PICK j \in 1 .. (n - m) : t[j] = e
        BY <1>4, <3>1 DEF Contains
      <4>2. m + j \in 1 .. n /\ ~(m + j <= m) /\ s[m + j] = e
        BY <1>2, <1>3, <1>4, <4>1
      <4>3. QED
        BY <4>2
    <3>2. ASSUME NEW i \in 1 .. n, ~(i <= m), s[i] = e PROVE Contains(t, e)
      <4>1. i - m \in 1 .. (n - m) /\ m + (i - m) = i
        BY <1>2, <1>3, <3>2
      <4>2. t[i - m] = e
        BY <1>4, <3>2, <4>1
      <4>3. QED
        BY <1>4, <4>1, <4>2 DEF Contains
    <3>3. QED
      BY <3>1, <3>2
  <2>4. Contains(s, e) <=> \E i \in 1 .. n : s[i] = e
    BY <1>1 DEF Contains
  <2>5. \A i \in 1 .. n : i <= k => i <= m
    BY <1>2, <1>3
  <2>6. QED
    BY <1>2, <2>1, <2>2, <2>3, <2>4, <2>5
<1>10. Mapped1 \subseteq Frame /\ Lost1 \subseteq Frame
  BY <1>2, <1>3, <1>7
<1>11. TypeOK'
  BY <1>4, <1>5, <1>8, <1>10 DEF FramesInv, TypeOK
<1>12. ListedOnce'
  BY <1>5, <1>6 DEF FramesInv, ListedOnce
<1>13. \A e : /\ IsUsed(e)' <=> IsUsed(e)
              /\ IsFree(e)' <=> Contains(t, e)
              /\ IsFree(e) <=> Contains(s, e)
  BY <1>1, <1>5 DEF IsUsed, IsFree
<1>14. Somewhere' /\ Once'
  <2>1. Somewhere /\ Once
    BY DEF FramesInv
  <2>2. QED
    BY <1>8, <1>9, <1>13, <2>1 DEF Somewhere, Once
<1>15. QED
  BY <1>5, <1>11, <1>12, <1>14 DEF FramesInv, Agree

-----------------------------------------------------------------------------
(* The areas.                                                              *)

Area == [vm_start : Nat, vm_end : Nat, sbrk : Nat]

\* The break is inside its area, which ends with a page.
AreaOK(a) ==
  /\ a \in Area
  /\ a.vm_start <= a.sbrk /\ a.sbrk <= a.vm_end
  /\ \E e \in Nat : a.vm_end = e * PAGESZ
AreasOK == area \in [Id -> Area] /\ \A id \in Id : AreaOK(area[id])

Inside(a, g) == a.vm_start <= g * PAGESZ /\ g * PAGESZ < a.vm_end
InAreas(g) == \E id \in Id : Inside(area[id], g)

\* What a growth by size bytes does to one area.
LEMMA AreaGrown ==
  ASSUME NEW a, AreaOK(a), NEW size \in Nat, NEW b,
         b = vma(a.vm_start, a.vm_end + PagesOf(size) * PAGESZ, a.sbrk + size)
  PROVE  /\ AreaOK(b) /\ PagesOf(size) \in Nat /\ a.vm_end \div PAGESZ \in Nat
         /\ \A g \in Nat :
              /\ Inside(b, g) <=>
                   Inside(a, g) \/ g \in (a.vm_end \div PAGESZ) ..
                                           (a.vm_end \div PAGESZ + PagesOf(size) - 1)
              /\ g \in (a.vm_end \div PAGESZ) .. (a.vm_end \div PAGESZ + PagesOf(size) - 1) =>
                   ~Inside(a, g)
<1>1. PAGESZ \in Nat \ {0}
  BY VmaLimitAssumption
<1>2. PICK e \in Nat : a.vm_end = e * PAGESZ
  BY DEF AreaOK
<1>3. PICK n \in Nat : n = PagesOf(size) /\ size <= n * PAGESZ
  <2>1. /\ (size + PAGESZ - 1) \div PAGESZ \in Nat
        /\ size <= ((size + PAGESZ - 1) \div PAGESZ) * PAGESZ
    BY <1>1, WholePages
  <2>2. QED
    BY <2>1 DEF PagesOf
<1>4. a.vm_end \div PAGESZ = e
  BY <1>1, <1>2, WholePages
<1>5. PICK x \in Nat, y \in Nat, z \in Nat, w \in Nat :
        /\ x = a.vm_start /\ y = a.sbrk /\ z = a.vm_end /\ w = n * PAGESZ
        /\ x <= y /\ y <= z
  <2>1. a.vm_start \in Nat /\ a.sbrk \in Nat /\ a.vm_end \in Nat
    BY DEF AreaOK, Area
  <2>2. n * PAGESZ \in Nat
    BY <1>1
  <2>3. QED
    BY <2>1, <2>2 DEF AreaOK
<1>6. b = [vm_start |-> x, vm_end |-> z + w, sbrk |-> y + size]
  BY <1>3, <1>5 DEF vma
<1>7. b.vm_start = x /\ b.vm_end = z + w /\ b.sbrk = y + size
  BY <1>6
<1>8. z = e * PAGESZ /\ z + w = (e + n) * PAGESZ
  BY <1>1, <1>2, <1>5, ByPages
<1>9. AreaOK(b)
  <2>1. b \in Area
    BY <1>5, <1>6 DEF Area
  <2>2. x <= y + size /\ y + size <= z + w
    BY <1>3, <1>5
  <2>3. e + n \in Nat
    OBVIOUS
  <2>4. QED
    BY <1>7, <1>8, <2>1, <2>2, <2>3 DEF AreaOK
<1>10. ASSUME NEW g \in Nat
       PROVE  /\ Inside(b, g) <=> Inside(a, g) \/ g \in e .. (e + n - 1)
              /\ g \in e .. (e + n - 1) => ~Inside(a, g)
  <2>1. PICK v \in Nat : v = g * PAGESZ
    BY <1>1
  <2>2. (v < z <=> g < e) /\ (z <= v <=> e <= g)
    BY <1>1, <1>8, <2>1, ByPages
  <2>3. v < z + w <=> g < e + n
    <3>1. e + n \in Nat
      OBVIOUS
    <3>2. g * PAGESZ < (e + n) * PAGESZ <=> g < e + n
      BY <1>1, <3>1, ByPages
    <3>3. QED
      BY <1>8, <2>1, <3>2
  <2>4. Inside(a, g) <=> x <= v /\ v < z
    BY <1>5, <2>1 DEF Inside
  <2>5. Inside(b, g) <=> x <= v /\ v < z + w
    BY <1>7, <2>1 DEF Inside
  <2>6. g \in e .. (e + n - 1) <=> e <= g /\ g < e + n
    OBVIOUS
  <2>7. g < e => g < e + n
    OBVIOUS
  <2>8. z <= v => x <= v
    BY <1>5
  <2>9. ~(e <= g /\ g < e) /\ (e <= g \/ g < e)
    OBVIOUS
  <2>10. QED
    BY <2>2, <2>3, <2>4, <2>5, <2>6, <2>7, <2>8, <2>9
<1>11. QED
  BY <1>3, <1>4, <1>9, <1>10

\* The new pages of a growth that inc_vma_limit lets pass are in no area before,
\* and in the grown one after; the areas stay apart.
LEMMA AreasGrow ==
  ASSUME AreasOK, AreasApart, NEW id \in Id, NEW size \in Nat, inc_vma_limit(id, size)
  PROVE  /\ AreasOK' /\ AreasApart'
         /\ PagesOf(size) \in Nat /\ FirstNew(id) \in Nat
         /\ FirstNew(id) + PagesOf(size) - 1 <= MaxPgn
         /\ \A g \in Page : /\ InAreas(g)' <=> InAreas(g) \/ g \in NewPages(id, size)
                            /\ g \in NewPages(id, size) => ~InAreas(g)
<1>1. PICK a, b, n, e : /\ a = area[id] /\ b = Grown(id, size)
                        /\ n = PagesOf(size) /\ e = FirstNew(id)
  OBVIOUS
<1>2. AreaOK(a) /\ b = vma(a.vm_start, a.vm_end + PagesOf(size) * PAGESZ, a.sbrk + size)
  BY <1>1 DEF AreasOK, Grown
<1>3. /\ AreaOK(b) /\ n \in Nat /\ e \in Nat
      /\ \A g \in Nat : /\ Inside(b, g) <=> Inside(a, g) \/ g \in e .. (e + n - 1)
                        /\ g \in e .. (e + n - 1) => ~Inside(a, g)
  BY <1>1, <1>2, AreaGrown DEF FirstNew
<1>4. PICK other, c : other \in Id /\ Id = {id, other} /\ other # id /\ c = area[other]
  BY DEF Id
<1>5. AreaOK(c)
  BY <1>4 DEF AreasOK
<1>6. /\ area' \in [Id -> Area] /\ area'[id] = b /\ area'[other] = c
      /\ ~OVERLAP(b.vm_start, b.vm_end, c.vm_start, c.vm_end)
  BY <1>1, <1>3, <1>4 DEF inc_vma_limit, validate_overlap_vm_area, AreasOK, AreaOK
<1>7. AreasOK'
  <2>1. \A i \in Id : AreaOK(area'[i])
    BY <1>3, <1>4, <1>5, <1>6
  <2>2. QED
    BY <1>6, <2>1 DEF AreasOK
<1>8. AreasApart'
  BY <1>4, <1>6 DEF AreasApart, OVERLAP, Id
<1>9. Page \subseteq Nat
  BY DEF Page
<1>10. ASSUME NEW g \in Page
       PROVE  /\ InAreas(g)' <=> InAreas(g) \/ g \in e .. (e + n - 1)
              /\ g \in e .. (e + n - 1) => ~InAreas(g)
  <2>1. /\ Inside(b, g) <=> Inside(a, g) \/ g \in e .. (e + n - 1)
        /\ g \in e .. (e + n - 1) => ~Inside(a, g)
    BY <1>3, <1>9
  <2>2. ~(Inside(b, g) /\ Inside(c, g))
    <3>1. PICK v : v = g * PAGESZ
      OBVIOUS
    <3>2. PICK x \in Nat, y \in Nat, z \in Nat, w \in Nat, r \in Nat :
            /\ x = b.vm_start /\ y = b.vm_end /\ z = c.vm_start /\ w = c.vm_end /\ r = v
      <4>1. v \in Nat
        BY <1>9, <3>1, VmaLimitAssumption
      <4>2. QED
        BY <1>3, <1>5, <4>1 DEF AreaOK, Area
    <3>3. ~(x < w /\ z < y)
      BY <1>6, <3>2 DEF OVERLAP
    <3>4. ~(x <= r /\ r < y /\ z <= r /\ r < w)
      BY <3>3
    <3>5. QED
      BY <3>1, <3>2, <3>4 DEF Inside
  <2>3. InAreas(g) <=> Inside(a, g) \/ Inside(c, g)
    BY <1>1, <1>4 DEF InAreas
  <2>4. InAreas(g)' <=> Inside(b, g) \/ Inside(c, g)
    BY <1>4, <1>6 DEF InAreas
  <2>5. QED
    BY <2>1, <2>2, <2>3, <2>4
<1>11. FirstNew(id) + PagesOf(size) - 1 <= MaxPgn
  BY DEF inc_vma_limit
<1>12. QED
  BY <1>1, <1>3, <1>7, <1>8, <1>10, <1>11 DEF NewPages

\* The pages from g on put in front of the queue, the latest first.
Ahead(g, k, s) == Reverse([i \in 1 .. k |-> g + i - 1]) \o s

\* It holds each page once if the pages are new to it.
LEMMA QueueGrown ==
  ASSUME NEW s \in Seq(Page), IsInjective(s), NEW g \in Nat, NEW k \in Nat,
         \A q \in g .. (g + k - 1) : q \in Page /\ ~Contains(s, q)
  PROVE  /\ Ahead(g, k, s) \in Seq(Page) /\ IsInjective(Ahead(g, k, s))
         /\ \A q : Contains(Ahead(g, k, s), q) <=> Contains(s, q) \/ q \in g .. (g + k - 1)
<1>1. PICK p, r, n, t : /\ p = [i \in 1 .. k |-> g + i - 1] /\ r = Reverse(p) /\ n = Len(s)
                        /\ t = r \o s /\ t = Ahead(g, k, s)
  BY DEF Ahead
<1>2. n \in Nat /\ DOMAIN s = 1 .. n
  BY <1>1
<1>3. r \in Seq(Page) /\ Len(r) = k /\ \A i \in 1 .. k : r[i] = g + k - i
  <2>1. ASSUME NEW i \in 1 .. k
        PROVE  /\ p[i] = g + i - 1 /\ (k - i) + 1 \in 1 .. k
               /\ p[(k - i) + 1] = g + k - i /\ g + k - i \in g .. (g + k - 1)
               /\ g + i - 1 \in g .. (g + k - 1)
    <3>1. p[i] = g + i - 1 /\ (k - i) + 1 \in 1 .. k
      BY <1>1
    <3>2. p[(k - i) + 1] = g + ((k - i) + 1) - 1
      BY <1>1, <3>1
    <3>3. g + k - i \in g .. (g + k - 1) /\ g + i - 1 \in g .. (g + k - 1)
      OBVIOUS
    <3>4. QED
      BY <3>1, <3>2, <3>3
  <2>2. p \in [1 .. k -> Page]
    BY <1>1, <2>1
  <2>3. Len(p) = k
    BY <2>2
  <2>4. r = [i \in 1 .. k |-> p[(k - i) + 1]]
    BY <1>1, <2>3 DEF Reverse
  <2>5. \A i \in 1 .. k : r[i] = g + k - i
    BY <2>1, <2>4
  <2>6. r \in [1 .. k -> Page]
    BY <2>1, <2>4, <2>5
  <2>7. r \in Seq(Page) /\ Len(r) = k
    BY <2>6
  <2>8. QED
    BY <2>5, <2>7
<1>4. /\ t \in Seq(Page) /\ Len(t) = k + n
      /\ \A i \in 1 .. (k + n) : t[i] = IF i <= k THEN r[i] ELSE s[i - k]
  <2>1. t = r \o s
    BY <1>1
  <2>2. /\ r \o s \in Seq(Page) /\ Len(r \o s) = Len(r) + Len(s)
        /\ \A i \in 1 .. Len(r) + Len(s) : (r \o s)[i] =
             IF i <= Len(r) THEN r[i] ELSE s[i - Len(r)]
    <3>1. r \in Seq(Page) /\ s \in Seq(Page)
      BY <1>3
    <3>2. QED
      BY <3>1, ConcatProperties, Zenon
  <2>3. Len(r) = k /\ Len(s) = n
    BY <1>1, <1>3
  <2>4. QED
    BY <2>1, <2>2, <2>3
<1>5. DOMAIN t = 1 .. (k + n)
  BY <1>4
<1>6. \A i \in 1 .. (k + n) : /\ i <= k => t[i] = g + k - i /\ t[i] \in g .. (g + k - 1)
                              /\ ~(i <= k) => i - k \in 1 .. n /\ t[i] = s[i - k]
  <2>1. ASSUME NEW i \in 1 .. (k + n), i <= k PROVE t[i] = g + k - i /\ t[i] \in g .. (g + k - 1)
    <3>1. i \in 1 .. k /\ g + k - i \in g .. (g + k - 1)
      BY <2>1
    <3>2. QED
      BY <1>3, <1>4, <2>1, <3>1
  <2>2. ASSUME NEW i \in 1 .. (k + n), ~(i <= k) PROVE i - k \in 1 .. n /\ t[i] = s[i - k]
    BY <1>2, <1>4, <2>2
  <2>3. QED
    BY <2>1, <2>2
<1>7. \A i \in 1 .. n, q \in g .. (g + k - 1) : s[i] # q
  BY <1>1 DEF Contains
<1>8. ASSUME NEW i \in 1 .. (k + n), NEW j \in 1 .. (k + n), t[i] = t[j] PROVE i = j
  <2>1. CASE i <= k /\ j <= k
    <3>1. g + k - i = g + k - j
      BY <1>6, <1>8, <2>1
    <3>2. QED
      BY <1>2, <3>1
  <2>2. CASE ~(i <= k) /\ ~(j <= k)
    <3>1. i - k \in 1 .. n /\ j - k \in 1 .. n /\ s[i - k] = s[j - k]
      BY <1>6, <1>8, <2>2
    <3>2. i - k = j - k
      BY <1>2, <3>1 DEF IsInjective
    <3>3. QED
      BY <1>2, <3>2
  <2>3. CASE i <= k /\ ~(j <= k)
    <3>1. t[i] \in g .. (g + k - 1) /\ j - k \in 1 .. n /\ t[j] = s[j - k]
      BY <1>6, <2>3
    <3>2. QED
      BY <1>7, <1>8, <3>1
  <2>4. CASE ~(i <= k) /\ j <= k
    <3>1. t[j] \in g .. (g + k - 1) /\ i - k \in 1 .. n /\ t[i] = s[i - k]
      BY <1>6, <2>4
    <3>2. QED
      BY <1>7, <1>8, <3>1
  <2>5. QED
    BY <2>1, <2>2, <2>3, <2>4
<1>9. ASSUME NEW q PROVE Contains(t, q) <=> Contains(s, q) \/ q \in g .. (g + k - 1)
  <2>1. ASSUME Contains(t, q) PROVE Contains(s, q) \/ q \in g .. (g + k - 1)
    <3>1. PICK i \in 1 .. (k + n) : t[i] = q
      BY <1>4, <2>1 DEF Contains
    <3>2. QED
      BY <1>1, <1>6, <3>1 DEF Contains
  <2>2. ASSUME Contains(s, q) PROVE Contains(t, q)
    <3>1. PICK i \in 1 .. n : s[i] = q
      BY <1>1, <2>2 DEF Contains
    <3>2. k + i \in 1 .. (k + n) /\ ~(k + i <= k) /\ (k + i) - k = i
      BY <1>2
    <3>3. t[k + i] = s[(k + i) - k]
      BY <1>6, <3>2
    <3>4. QED
      BY <1>4, <3>1, <3>2, <3>3 DEF Contains
  <2>3. ASSUME q \in g .. (g + k - 1) PROVE Contains(t, q)
    <3>1. g + k - q \in 1 .. (k + n) /\ g + k - q <= k /\ g + k - (g + k - q) = q
      BY <1>2, <2>3
    <3>2. t[g + k - q] = g + k - (g + k - q)
      BY <1>6, <3>1
    <3>3. QED
      BY <1>4, <3>1, <3>2 DEF Contains
  <2>4. QED
    BY <2>1, <2>2, <2>3
<1>10. IsInjective(t)
  BY <1>5, <1>8 DEF IsInjective
<1>11. QED
  BY <1>1, <1>4, <1>9, <1>10

-----------------------------------------------------------------------------
(* The page table, the queue, and the areas.                               *)

EntryOK(pte) ==
  /\ pte \in PteType(Nat)
  /\ pte.present => pte.low \in Frame
  /\ ~pte.present => pte.low = 0

\* Frames a device has fit in an entry.
LEMMA FrameSet ==
  ASSUME NEW pte, EntryOK(pte), NEW f \in Frame
  PROVE  /\ pte.present => PAGING_FPN(pte) = pte.low
         /\ ~pte.present => /\ EntryOK(pte_set_fpn(pte, f))
                            /\ pte_set_fpn(pte, f).present
                            /\ pte_set_fpn(pte, f).low = f
<1>1. \A d \in Frame : d \in Nat /\ d < FPNS
  BY MemphyAssumption, PteAssumption, VmaLimitAssumption DEF Frame
<1>2. ASSUME NEW d \in Nat, NEW n \in Nat \ {0}, d < n PROVE d % n = d
  BY <1>2
<1>3. \A d \in Frame : d % FPNS = d
  BY <1>1, <1>2, PteAssumption
<1>4. pte.present => PAGING_FPN(pte) = pte.low
  BY <1>3 DEF EntryOK, PAGING_FPN
<1>5. ASSUME ~pte.present
      PROVE  /\ EntryOK(pte_set_fpn(pte, f)) /\ pte_set_fpn(pte, f).present
             /\ pte_set_fpn(pte, f).low = f
  <2>1. pte \in PteType(Nat) /\ pte.low = 0
    BY <1>5 DEF EntryOK
  <2>2. (0 - (0 % FPNS)) + (f % FPNS) = f
    <3>1. ASSUME NEW n \in Nat \ {0} PROVE 0 % n = 0
      OBVIOUS
    <3>2. 0 % FPNS = 0 /\ f % FPNS = f /\ f \in Nat
      BY <1>1, <1>3, <3>1, PteAssumption
    <3>3. QED
      BY <3>2
  <2>3. PICK new : new = pte_set_fpn(pte, f)
    OBVIOUS
  <2>4. /\ new = [pte EXCEPT !.present = TRUE, !.swapped = FALSE, !.low = f]
    BY <2>1, <2>2, <2>3 DEF pte_set_fpn, PteType
  <2>5. new.present = TRUE /\ new.low = f /\ new \in PteType(Nat)
    BY <1>1, <2>1, <2>4 DEF PteType
  <2>6. QED
    BY <2>3, <2>5 DEF EntryOK
<1>6. QED
  BY <1>4, <1>5

\* The pages of the areas are mapped, but for those that got no frame, each to a
\* frame of its own that the process has, and are in the queue once.
EntriesOK == pgd \in [Page -> PteType(Nat)] /\ \A g \in Page : EntryOK(pgd[g])
Backed == \A g \in Page : pgd[g].present => pgd[g].low \in taken
Unshared ==
  \A g, h \in Page : pgd[g].present /\ pgd[h].present /\ pgd[g].low = pgd[h].low => g = h
Followed ==
  \A g \in Page : /\ pgd[g].present <=> InAreas(g) /\ g \notin short
                  /\ g \in short => InAreas(g)
Queued ==
  /\ fifo_pgn \in Seq(Page) /\ IsInjective(fifo_pgn)
  /\ \A g : Contains(fifo_pgn, g) <=> g \in Page /\ pgd[g].present

PagesInv == EntriesOK /\ Backed /\ Unshared /\ Followed /\ Queued

\* n new pages from g on: the first k get the first frames of the free list.
Maps(g, n, k) ==
  /\ g \in Nat /\ n \in Nat /\ k \in Nat /\ k <= n /\ k <= Len(free_fp_list)
  /\ g + n - 1 <= MaxPgn
  /\ pgd' = [q \in Page |-> IF q \in g .. (g + k - 1)
                            THEN pte_set_fpn(pgd[q], free_fp_list[q - g + 1]) ELSE pgd[q]]
  /\ fifo_pgn' = Reverse([i \in 1 .. k |-> g + i - 1]) \o fifo_pgn
  /\ taken' = taken \cup {free_fp_list[i] : i \in 1 .. k}
  /\ short' = short \cup ((g + k) .. (g + n - 1))

\* The new pages keep the page table and the queue in step with the areas.
LEMMA PagesGrow ==
  ASSUME FramesInv, PagesInv, NEW g, NEW n, NEW k, Maps(g, n, k),
         \A q \in Page : /\ InAreas(q)' <=> InAreas(q) \/ q \in g .. (g + n - 1)
                         /\ q \in g .. (g + n - 1) => ~InAreas(q)
  PROVE  PagesInv'
<1>1. /\ g \in Nat /\ n \in Nat /\ k \in Nat /\ k <= n /\ k <= Len(free_fp_list)
      /\ g + n - 1 <= MaxPgn
  BY DEF Maps
<1>2. PICK s, len : s = free_fp_list /\ len = Len(s)
  OBVIOUS
<1>3. /\ s \in Seq(Frame) /\ len \in Nat /\ k <= len
      /\ \A i \in 1 .. len : s[i] \in Frame /\ s[i] \notin taken
      /\ \A i, j \in 1 .. len : s[i] = s[j] => i = j
  <2>1. s \in Seq(Frame) /\ IsInjective(s)
    BY <1>2 DEF FramesInv, TypeOK, ListedOnce
  <2>2. len \in Nat /\ k <= len /\ DOMAIN s = 1 .. len /\ \A i \in 1 .. len : s[i] \in Frame
    BY <1>1, <1>2, <2>1
  <2>3. \A i \in 1 .. len : IsFree(s[i])
    BY <1>2 DEF IsFree, Contains
  <2>4. QED
    BY <2>1, <2>2, <2>3 DEF FramesInv, Once, IsInjective
<1> DEFINE New == g .. (g + k - 1)
<1>4. MaxPgn \in Nat
  BY VmaLimitAssumption
<1>5. /\ \A q \in g .. (g + n - 1) : q \in Page
      /\ \A q \in Page : /\ q \in New => q \in g .. (g + n - 1)
                         /\ q \in g .. (g + n - 1) <=> q \in New \/ q \in (g + k) .. (g + n - 1)
                         /\ ~(q \in New /\ q \in (g + k) .. (g + n - 1))
                         /\ q \in New => q - g + 1 \in 1 .. k /\ q - g + 1 \in 1 .. len
      /\ \A q \in New : q \in Page
      /\ \A q, r \in New : q - g + 1 = r - g + 1 => q = r
  BY <1>1, <1>3, <1>4 DEF Page
<1> HIDE DEF New
<1>6. \A q \in New : ~pgd[q].present /\ q \notin short
  BY <1>5 DEF PagesInv, Followed
<1>7. /\ pgd' = [q \in Page |-> IF q \in New THEN pte_set_fpn(pgd[q], s[q - g + 1]) ELSE pgd[q]]
  BY <1>2 DEF Maps, New
<1>8. \A q \in Page :
        /\ q \in New => /\ EntryOK(pgd'[q]) /\ pgd'[q].present
                        /\ pgd'[q].low = s[q - g + 1]
        /\ q \notin New => pgd'[q] = pgd[q]
  BY <1>3, <1>5, <1>6, <1>7, FrameSet DEF PagesInv, EntriesOK
<1>9. EntriesOK'
  <2>1. \A q \in Page : EntryOK(pgd'[q])
    BY <1>8 DEF PagesInv, EntriesOK
  <2>2. \A q \in Page : pgd'[q] \in PteType(Nat)
    BY <2>1 DEF EntryOK
  <2>3. pgd' \in [Page -> PteType(Nat)]
    BY <1>7, <2>2
  <2>4. QED
    BY <2>1, <2>3 DEF EntriesOK
<1>10. taken' = taken \cup {s[i] : i \in 1 .. k}
  BY <1>2 DEF Maps
<1>11. Backed'
  <2>1. \A q \in Page : q \in New => pgd'[q].low \in taken'
    BY <1>5, <1>8, <1>10
  <2>2. \A q \in Page : q \notin New /\ pgd'[q].present => pgd'[q].low \in taken'
    BY <1>8, <1>10 DEF PagesInv, Backed
  <2>3. QED
    BY <2>1, <2>2 DEF Backed
<1>12. Unshared'
  <2>1. ASSUME NEW q \in Page, NEW r \in Page, pgd'[q].present, pgd'[r].present,
               pgd'[q].low = pgd'[r].low
        PROVE  q = r
    <3>1. CASE q \in New /\ r \in New
      BY <1>3, <1>5, <1>8, <2>1, <3>1
    <3>2. CASE q \in New /\ r \notin New
      BY <1>3, <1>5, <1>8, <2>1, <3>2 DEF PagesInv, Backed
    <3>3. CASE q \notin New /\ r \in New
      BY <1>3, <1>5, <1>8, <2>1, <3>3 DEF PagesInv, Backed
    <3>4. CASE q \notin New /\ r \notin New
      BY <1>8, <2>1, <3>4 DEF PagesInv, Unshared
    <3>5. QED
      BY <3>1, <3>2, <3>3, <3>4
  <2>2. QED
    BY <2>1 DEF Unshared
<1>13. short' = short \cup ((g + k) .. (g + n - 1))
  BY DEF Maps
<1>14. Followed'
  <2>1. ASSUME NEW q \in Page
        PROVE  /\ pgd'[q].present <=> InAreas(q)' /\ q \notin short'
               /\ q \in short' => InAreas(q)'
    <3>1. /\ InAreas(q)' <=> InAreas(q) \/ q \in g .. (g + n - 1)
          /\ q \in g .. (g + n - 1) => ~InAreas(q)
      OBVIOUS
    <3>2. /\ pgd[q].present <=> InAreas(q) /\ q \notin short
          /\ q \in short => InAreas(q)
      BY DEF PagesInv, Followed
    <3>3. CASE q \in New
      BY <1>5, <1>6, <1>8, <1>13, <3>1, <3>3
    <3>4. CASE q \notin New
      <4>1. pgd'[q].present <=> pgd[q].present
        BY <1>8, <3>4
      <4>2. q \in g .. (g + n - 1) <=> q \in (g + k) .. (g + n - 1)
        BY <1>5, <3>4
      <4>3. q \in short' <=> q \in short \/ q \in (g + k) .. (g + n - 1)
        BY <1>13
      <4>4. QED
        BY <3>1, <3>2, <4>1, <4>2, <4>3
    <3>5. QED
      BY <3>3, <3>4
  <2>2. QED
    BY <2>1 DEF Followed
<1>15. Queued'
  <2>1. PICK q0, q1 : q0 = fifo_pgn /\ q1 = Ahead(g, k, q0)
    OBVIOUS
  <2>2. /\ q0 \in Seq(Page) /\ IsInjective(q0)
        /\ \A q : Contains(q0, q) <=> q \in Page /\ pgd[q].present
    BY <2>1 DEF PagesInv, Queued
  <2>3. \A q \in g .. (g + k - 1) : q \in Page /\ ~Contains(q0, q)
    BY <1>5, <1>6, <2>2 DEF New
  <2>4. /\ q1 \in Seq(Page) /\ IsInjective(q1)
        /\ \A q : Contains(q1, q) <=> Contains(q0, q) \/ q \in g .. (g + k - 1)
    <3>1. /\ Ahead(g, k, q0) \in Seq(Page) /\ IsInjective(Ahead(g, k, q0))
          /\ \A q : Contains(Ahead(g, k, q0), q) <=> Contains(q0, q) \/ q \in g .. (g + k - 1)
      BY <1>1, <2>2, <2>3, QueueGrown, Zenon
    <3>2. QED
      BY <2>1, <3>1
  <2>5. fifo_pgn' = q1
    BY <2>1 DEF Maps, Ahead
  <2>6. \A q : Contains(q1, q) <=> q \in Page /\ pgd'[q].present
    BY <1>5, <1>8, <2>2, <2>4 DEF New
  <2>7. QED
    BY <2>4, <2>5, <2>6 DEF Queued
<1>16. QED
  BY <1>9, <1>11, <1>12, <1>14, <1>15 DEF PagesInv

-----------------------------------------------------------------------------
(* The invariant.                                                          *)

LimitInv == FramesInv /\ AreasOK /\ AreasApart /\ PagesInv

\* The invariant at the start.
LEMMA LimitInvInit ==
  ASSUME LimitInit
  PROVE  LimitInv
<1>1. FramesInv
  BY FramesInit DEF LimitInit
<1>2. PICK b \in Nat : Base = b * PAGESZ
  <2>1. Base \in Nat /\ PAGESZ \in Nat \ {0} /\ Base % PAGESZ = 0
    BY VmaLimitAssumption
  <2>2. Base = (Base \div PAGESZ) * PAGESZ /\ Base \div PAGESZ \in Nat
    BY <2>1, WholePages
  <2>3. QED
    BY <2>2
<1>3. 0 = 0 * PAGESZ
  BY VmaLimitAssumption
<1>4. /\ area \in [Id -> Area]
      /\ \A id \in Id : \E e \in Nat :
           /\ area[id].vm_start = e * PAGESZ /\ area[id].vm_end = e * PAGESZ
           /\ area[id].sbrk = e * PAGESZ
  <2>1. area = [id \in Id |-> LET start == IF id = 0 THEN 0 ELSE Base
                              IN  vma(start, start, start)]
    BY DEF LimitInit
  <2>2. area[0] = vma(0, 0, 0) /\ area[1] = vma(Base, Base, Base)
    BY <2>1 DEF Id
  <2>3. Base \in Nat
    BY VmaLimitAssumption
  <2>4. area \in [Id -> Area]
    BY <2>1, <2>3 DEF vma, Area, Id
  <2>5. \A id \in Id : id = 0 \/ id = 1
    BY DEF Id
  <2>6. QED
    BY <1>2, <1>3, <2>2, <2>4, <2>5 DEF vma
<1>5. AreasOK
  <2>1. ASSUME NEW id \in Id PROVE AreaOK(area[id])
    <3>1. PICK e \in Nat : /\ area[id].vm_start = e * PAGESZ /\ area[id].vm_end = e * PAGESZ
                           /\ area[id].sbrk = e * PAGESZ
      BY <1>4
    <3>2. e * PAGESZ \in Nat
      BY VmaLimitAssumption
    <3>3. e * PAGESZ <= e * PAGESZ
      BY <3>2
    <3>4. QED
      BY <1>4, <3>1, <3>3 DEF AreaOK
  <2>2. QED
    BY <1>4, <2>1 DEF AreasOK
<1>6. AreasApart
  <2>1. PICK d \in Nat : area[0].vm_start = d * PAGESZ /\ area[0].vm_end = d * PAGESZ
    BY <1>4 DEF Id
  <2>2. PICK e \in Nat : area[1].vm_start = e * PAGESZ /\ area[1].vm_end = e * PAGESZ
    BY <1>4 DEF Id
  <2>3. PICK x \in Nat, y \in Nat : x = d * PAGESZ /\ y = e * PAGESZ
    BY VmaLimitAssumption
  <2>4. ~(x < y /\ y < x)
    OBVIOUS
  <2>5. QED
    BY <2>1, <2>2, <2>3, <2>4 DEF AreasApart, OVERLAP
<1>7. \A g \in Page : ~InAreas(g)
  <2>1. ASSUME NEW g \in Page, NEW id \in Id PROVE ~Inside(area[id], g)
    <3>1. PICK e \in Nat : area[id].vm_start = e * PAGESZ /\ area[id].vm_end = e * PAGESZ
      BY <1>4
    <3>2. PICK x \in Nat, y \in Nat : x = e * PAGESZ /\ y = g * PAGESZ
      BY VmaLimitAssumption DEF Page
    <3>3. ~(x <= y /\ y < x)
      OBVIOUS
    <3>4. QED
      BY <3>1, <3>2, <3>3 DEF Inside
  <2>2. QED
    BY <2>1 DEF InAreas
<1>8. PagesInv
  <2>1. pgd = [g \in Page |-> NoPte] /\ fifo_pgn = <<>> /\ short = {}
    BY DEF LimitInit
  <2>2. EntryOK(NoPte) /\ ~NoPte.present /\ NoPte \in PteType(Nat)
    BY DEF EntryOK, NoPte, PteType
  <2>3. EntriesOK /\ \A g \in Page : ~pgd[g].present
    BY <2>1, <2>2 DEF EntriesOK
  <2>4. Backed /\ Unshared
    BY <2>3 DEF Backed, Unshared
  <2>5. Followed
    BY <1>7, <2>1, <2>3 DEF Followed
  <2>6. Queued
    <3>1. fifo_pgn \in Seq(Page) /\ DOMAIN fifo_pgn = {} /\ Len(fifo_pgn) = 0
      BY <2>1
    <3>2. QED
      BY <2>3, <3>1 DEF Queued, IsInjective, Contains
  <2>7. QED
    BY <2>3, <2>4, <2>5, <2>6 DEF PagesInv
<1>9. QED
  BY <1>1, <1>5, <1>6, <1>8 DEF LimitInv

\* A step of inc_vma_limit, by the frames it takes and the pages it maps.
LEMMA GrowStep ==
  ASSUME LimitInv, NEW id \in Id, NEW size \in IncSz, inc_vma_limit(id, size),
         NEW k, NEW m, Grows(k, m),
         Maps(FirstNew(id), PagesOf(size), k)
  PROVE  LimitInv' /\ Agree(used_fp_list, used_fp_list')
<1>1. size \in Nat
  BY VmaLimitAssumption
<1>2. FramesInv' /\ Agree(used_fp_list, used_fp_list')
  BY FramesGrow DEF LimitInv
<1>3. /\ AreasOK' /\ AreasApart'
      /\ \A g \in Page : /\ InAreas(g)' <=> InAreas(g) \/ g \in NewPages(id, size)
                         /\ g \in NewPages(id, size) => ~InAreas(g)
  BY <1>1, AreasGrow DEF LimitInv
<1>4. PICK g, n : g = FirstNew(id) /\ n = PagesOf(size)
  OBVIOUS
<1>5. \A q \in Page : /\ InAreas(q)' <=> InAreas(q) \/ q \in g .. (g + n - 1)
                      /\ q \in g .. (g + n - 1) => ~InAreas(q)
  BY <1>3, <1>4 DEF NewPages
<1>6. Maps(g, n, k)
  BY <1>4
<1>7. PagesInv'
  BY <1>5, <1>6, PagesGrow DEF LimitInv
<1>8. QED
  BY <1>2, <1>3, <1>7 DEF LimitInv

\* The first k frames that leave the free list, as a set.
LEMMA FirstFrames ==
  ASSUME FramesInv, NEW k \in Nat, k <= Len(free_fp_list)
  PROVE  ToSet(SubSeq(free_fp_list, 1, k)) = {free_fp_list[i] : i \in 1 .. k}
<1>1. PICK s, t : s = free_fp_list /\ t = SubSeq(s, 1, k)
  OBVIOUS
<1>2. s \in Seq(Frame) /\ k <= Len(s)
  BY <1>1 DEF FramesInv, TypeOK
<1>3. \A i \in 1 .. k : s[i] \in Frame
  BY <1>2
<1>4. /\ t \in Seq(Frame) /\ Len(t) = IF 1 <= k THEN k - 1 + 1 ELSE 0
      /\ \A i \in 1 .. (k - 1 + 1) : t[i] = s[1 + i - 1]
  BY <1>1, <1>3, SubSeqProperties
<1>5. DOMAIN t = 1 .. k /\ \A i \in 1 .. k : t[i] = s[i]
  <2>1. Len(t) = k
    BY <1>4
  <2>2. QED
    BY <1>4, <2>1
<1>6. ToSet(t) = {s[i] : i \in 1 .. k}
  BY <1>5 DEF ToSet
<1>7. QED
  BY <1>1, <1>6

\* Every step keeps the invariant, and the owners of the used frames.
LEMMA LimitInvNext ==
  ASSUME LimitInv, [LimitNext]_<<vars, mm>>
  PROVE  LimitInv' /\ Agree(used_fp_list, used_fp_list')
<1>1. FramesInv /\ PagesInv
  BY DEF LimitInv
<1>2. ASSUME NEW id \in Id, NEW size \in IncSz, inc_vma_limit(id, size)
      PROVE  /\ FirstNew(id) \in Nat /\ PagesOf(size) \in Nat
             /\ FirstNew(id) + PagesOf(size) - 1 <= MaxPgn
             /\ used_fp_list' = used_fp_list
  <2>1. size \in Nat
    BY VmaLimitAssumption
  <2>2. QED
    BY <1>2, <2>1, AreasGrow DEF LimitInv, inc_vma_limit
<1>3. PICK s, len : s = free_fp_list /\ len = Len(s)
  OBVIOUS
<1>4. s \in Seq(Frame) /\ len \in Nat /\ DOMAIN s = 1 .. len
  BY <1>1, <1>3 DEF FramesInv, TypeOK
<1>5. CASE \E id \in Id, size \in IncSz : GrowMapped(id, size)
  <2>1. PICK id \in Id, size \in IncSz : GrowMapped(id, size)
    BY <1>5
  <2>2. inc_vma_limit(id, size)
    BY <2>1 DEF GrowMapped
  <2>3. PICK g \in Nat, n \in Nat :
          /\ g = FirstNew(id) /\ n = PagesOf(size) /\ g + n - 1 <= MaxPgn /\ n <= len
    BY <1>2, <1>3, <2>1, <2>2 DEF GrowMapped
  <2>4. /\ taken' = taken \cup {s[i] : i \in 1 .. n}
        /\ lost' = lost /\ free_fp_list' = SubSeq(s, n + 1, len)
        /\ short' = short
    BY <1>1, <1>3, <2>1, <2>3, FirstFrames DEF GrowMapped, Mapped
  <2>5. (n + 1) .. n = {} /\ (g + n) .. (g + n - 1) = {}
    BY <2>3
  <2>6. Grows(n, n)
    BY <1>2, <1>3, <2>2, <2>3, <2>4, <2>5 DEF Grows
  <2>7. Maps(g, n, n)
    BY <1>3, <2>1, <2>3, <2>4, <2>5 DEF GrowMapped, Mapped, Maps
  <2>8. QED
    BY <2>2, <2>3, <2>6, <2>7, GrowStep
<1>6. CASE \E id \in Id, size \in IncSz : GrowUnmapped(id, size)
  <2>1. PICK id \in Id, size \in IncSz : GrowUnmapped(id, size)
    BY <1>6
  <2>2. inc_vma_limit(id, size)
    BY <2>1 DEF GrowUnmapped
  <2>3. PICK g \in Nat, n \in Nat :
          g = FirstNew(id) /\ n = PagesOf(size) /\ g + n - 1 <= MaxPgn
    BY <1>2, <2>2
  <2>4. /\ taken' = taken /\ lost' = lost \cup {s[i] : i \in 1 .. len}
        /\ free_fp_list' = <<>> /\ pgd' = pgd /\ fifo_pgn' = fifo_pgn
        /\ short' = short \cup (g .. (g + n - 1))
    BY <1>3, <1>4, <2>1, <2>3 DEF GrowUnmapped, NewPages, ToSet
  <2>5. Grows(0, len)
    <3>1. SubSeq(s, len + 1, len) = <<>>
      BY <1>4, SubSeqEmpty
    <3>2. (0 + 1) .. len = 1 .. len /\ 1 .. 0 = {}
      OBVIOUS
    <3>3. {s[i] : i \in 1 .. 0} = {}
      OBVIOUS
    <3>4. QED
      BY <1>2, <1>3, <1>4, <2>2, <2>4, <3>1, <3>2, <3>3 DEF Grows
  <2>6. Maps(g, n, 0)
    <3>1. g .. (g + 0 - 1) = {} /\ g + 0 = g /\ {s[i] : i \in 1 .. 0} = {}
      BY <2>3
    <3>2. pgd \in [Page -> PteType(Nat)] /\ fifo_pgn \in Seq(Page)
      BY <1>1 DEF PagesInv, EntriesOK, Queued
    <3>3. pgd = [q \in Page |-> IF q \in g .. (g + 0 - 1)
                                THEN pte_set_fpn(pgd[q], s[q - g + 1]) ELSE pgd[q]]
      BY <3>1, <3>2
    <3>4. fifo_pgn = Reverse([i \in 1 .. 0 |-> g + i - 1]) \o fifo_pgn
      <4>1. [i \in 1 .. 0 |-> g + i - 1] = <<>>
        OBVIOUS
      <4>2. Reverse(<<>>) = <<>>
        BY DEF Reverse
      <4>3. <<>> \o fifo_pgn = fifo_pgn
        BY <3>2, ConcatEmptySeq
      <4>4. QED
        BY <4>1, <4>2, <4>3
    <3>5. QED
      BY <1>3, <1>4, <2>3, <2>4, <3>1, <3>3, <3>4 DEF Maps
  <2>7. QED
    BY <2>2, <2>3, <2>5, <2>6, GrowStep
<1>7. CASE \E id \in Id, size \in IncSz, k \in Page : GrowPartly(id, size, k)
  <2>1. PICK id \in Id, size \in IncSz, k \in Page : GrowPartly(id, size, k)
    BY <1>7
  <2>2. inc_vma_limit(id, size) /\ k \in Nat
    BY <2>1 DEF GrowPartly, Page
  <2>3. PICK g \in Nat, n \in Nat :
          /\ g = FirstNew(id) /\ n = PagesOf(size) /\ g + n - 1 <= MaxPgn
          /\ k < n /\ k < len
    BY <1>2, <1>3, <2>1, <2>2 DEF GrowPartly
  <2>4. /\ taken' = taken \cup {s[i] : i \in 1 .. k}
        /\ lost' = lost \cup {s[k + 1]} /\ free_fp_list' = SubSeq(s, k + 2, len)
        /\ short' = short \cup ((g .. (g + n - 1)) \ (g .. (g + k - 1)))
    <3>1. k <= Len(free_fp_list)
      BY <1>3, <1>4, <2>2, <2>3
    <3>2. QED
      BY <1>1, <1>3, <2>1, <2>2, <2>3, <3>1, FirstFrames DEF GrowPartly, Mapped, NewPages
  <2>5. /\ (g .. (g + n - 1)) \ (g .. (g + k - 1)) = (g + k) .. (g + n - 1)
        /\ (k + 1) .. (k + 1) = {k + 1} /\ (k + 1) + 1 = k + 2
        /\ k + 1 \in Nat /\ k <= k + 1 /\ k + 1 <= len
    BY <1>4, <2>2, <2>3
  <2>6. Grows(k, k + 1)
    <3>1. {s[i] : i \in (k + 1) .. (k + 1)} = {s[k + 1]}
      BY <2>5
    <3>2. QED
      BY <1>2, <1>3, <2>2, <2>4, <2>5, <3>1 DEF Grows
  <2>7. Maps(g, n, k)
    <3>1. k <= n /\ k <= len
      BY <1>4, <2>2, <2>3
    <3>2. Mapped(g, k)
      BY <2>1, <2>3 DEF GrowPartly
    <3>3. g \in Nat /\ n \in Nat /\ k \in Nat /\ g + n - 1 <= MaxPgn
      BY <2>2, <2>3
    <3>4. short' = short \cup ((g + k) .. (g + n - 1))
      BY <2>4, <2>5
    <3>5. QED
      BY <1>3, <2>4, <3>1, <3>2, <3>3, <3>4 DEF Mapped, Maps
  <2>8. QED
    BY <2>2, <2>3, <2>6, <2>7, GrowStep
<1>8. CASE Others
  <2>1. FramesInv' /\ Agree(used_fp_list, used_fp_list')
    BY <1>1, <1>8, FramesNext DEF Others
  <2>2. area' = area /\ pgd' = pgd /\ fifo_pgn' = fifo_pgn /\ short' = short
    BY <1>8 DEF Others, mm
  <2>3. \A g \in Page : pgd[g].present => PAGING_FPN(pgd[g]) \in taken'
    BY <1>8 DEF Others, Present
  <2>4. \A g \in Page : pgd[g].present => PAGING_FPN(pgd[g]) = pgd[g].low
    <3>1. \A g \in Page : EntryOK(pgd[g]) /\ (pgd[g].present => pgd[g].low \in Frame)
      BY <1>1 DEF PagesInv, EntriesOK, EntryOK
    <3>2. QED
      BY <3>1, FrameSet
  <2>5. Backed'
    BY <2>2, <2>3, <2>4 DEF Backed
  <2>6. AreasOK' /\ AreasApart'
    BY <2>2 DEF LimitInv, AreasOK, AreasApart
  <2>7. EntriesOK' /\ Unshared' /\ Followed' /\ Queued'
    BY <1>1, <2>2 DEF PagesInv, EntriesOK, Unshared, Followed, Queued, InAreas
  <2>8. QED
    BY <2>1, <2>5, <2>6, <2>7 DEF LimitInv, PagesInv
<1>9. CASE UNCHANGED <<vars, mm>>
  <2>1. UNCHANGED <<free_fp_list, used_fp_list, taken, lost, area, pgd, fifo_pgn, short>>
    BY <1>9 DEF vars, mm
  <2>2. FramesInv'
    BY <1>1, <2>1 DEF FramesInv, TypeOK, Somewhere, Once, ListedOnce, IsFree, IsUsed
  <2>3. AreasOK' /\ AreasApart'
    BY <2>1 DEF LimitInv, AreasOK, AreasApart
  <2>4. PagesInv'
    BY <1>1, <2>1 DEF PagesInv, EntriesOK, Backed, Unshared, Followed, Queued, InAreas
  <2>5. QED
    BY <2>1, <2>2, <2>3, <2>4 DEF LimitInv, Agree
<1>10. QED
  BY <1>5, <1>6, <1>7, <1>8, <1>9 DEF LimitNext

\* In every state of the process and the device, LimitInv holds.
LEMMA Invariant == LimitSpec => []LimitInv
<1>1. LimitInit => LimitInv
  BY LimitInvInit
<1>2. LimitInv /\ [LimitNext]_<<vars, mm>> => LimitInv'
  BY LimitInvNext
<1>3. QED
  BY <1>1, <1>2, PTL DEF LimitSpec

-----------------------------------------------------------------------------

\* A frame that is in one place makes the set of its places a singleton.
LEMMA OnePlace ==
  ASSUME NEW a \in BOOLEAN, NEW b \in BOOLEAN, NEW c \in BOOLEAN, NEW d \in BOOLEAN,
         a \/ b \/ c \/ d, a => ~b /\ ~c /\ ~d, b => ~c /\ ~d, c => ~d
  PROVE  Cardinality({where \in {"free", "used", "taken", "lost"} :
           \/ where = "free" /\ a
           \/ where = "used" /\ b
           \/ where = "taken" /\ c
           \/ where = "lost" /\ d}) = 1
<1> DEFINE W == {where \in {"free", "used", "taken", "lost"} :
                   \/ where = "free" /\ a
                   \/ where = "used" /\ b
                   \/ where = "taken" /\ c
                   \/ where = "lost" /\ d}
<1>1. W = {"free"} \/ W = {"used"} \/ W = {"taken"} \/ W = {"lost"}
  <2>1. CASE a
    BY <2>1
  <2>2. CASE b
    BY <2>2
  <2>3. CASE c
    BY <2>3
  <2>4. CASE d
    BY <2>4
  <2>5. QED
    BY <2>1, <2>2, <2>3, <2>4
<1> HIDE DEF W
<1>2. \A w : Cardinality({w}) = 1
  BY FS_Singleton
<1>3. Cardinality(W) = 1
  BY <1>1, <1>2
<1>4. QED
  BY <1>3 DEF W

\* Whatever the process and the other users of the device do, and whatever
\* calls run out of memory, every frame of the device is in exactly one place,
\* once, and MEMPHY_validate's count of the lists never exceeds the frames.
THEOREM FramesStay == LimitSpec => []FramesPartitioned
<1>1. ASSUME LimitInv PROVE FramesPartitioned
  <2>1. FramesInv /\ TypeOK /\ ListedOnce /\ Somewhere /\ Once
    BY <1>1 DEF LimitInv, FramesInv
  <2>2. MEMPHY_validate
    BY <2>1, Validated
  <2>3. IsInjective([i \in DOMAIN used_fp_list |-> used_fp_list[i].fpn])
    BY <2>1 DEF ListedOnce, NamesOnce, IsInjective
  <2>4. ASSUME NEW fpn \in Frame
        PROVE  Cardinality({where \in {"free", "used", "taken", "lost"} :
                 \/ where = "free" /\ MEMPHY_is_frame_free(fpn)
                 \/ where = "used" /\ MEMPHY_find_frame(fpn) # <<>>
                 \/ where = "taken" /\ fpn \in taken
                 \/ where = "lost" /\ fpn \in lost}) = 1
    <3>1. PICK a \in BOOLEAN, b \in BOOLEAN, c \in BOOLEAN, d \in BOOLEAN :
            /\ a <=> MEMPHY_is_frame_free(fpn)
            /\ b <=> MEMPHY_find_frame(fpn) # <<>>
            /\ c <=> fpn \in taken
            /\ d <=> fpn \in lost
      <4>1. \E a \in BOOLEAN : a <=> MEMPHY_is_frame_free(fpn)
        OBVIOUS
      <4>2. \E b \in BOOLEAN : b <=> MEMPHY_find_frame(fpn) # <<>>
        OBVIOUS
      <4>3. \E c \in BOOLEAN : c <=> fpn \in taken
        OBVIOUS
      <4>4. \E d \in BOOLEAN : d <=> fpn \in lost
        OBVIOUS
      <4>5. QED
        BY <4>1, <4>2, <4>3, <4>4
    <3>2. /\ a <=> IsFree(fpn)
          /\ b <=> IsUsed(fpn)
          /\ c <=> fpn \in taken
          /\ d <=> fpn \in lost
      BY <2>1, <3>1, OwnerFound DEF MEMPHY_is_frame_free, IsFree
    <3>3. (a \/ b \/ c \/ d) /\ (a => ~b /\ ~c /\ ~d) /\ (b => ~c /\ ~d) /\ (c => ~d)
      BY <2>1, <3>2 DEF Somewhere, Once
    <3>4. Cardinality({where \in {"free", "used", "taken", "lost"} :
            \/ where = "free" /\ a
            \/ where = "used" /\ b
            \/ where = "taken" /\ c
            \/ where = "lost" /\ d}) = 1
      BY <3>3, OnePlace
    <3>5. QED
      BY <3>1, <3>4
  <2>5. QED
    BY <2>1, <2>2, <2>3, <2>4 DEF FramesPartitioned, ListedOnce
<1>2. QED
  BY <1>1, Invariant, PTL

\* The two areas of a process grow in any order and by any sizes, and never
\* overlap: what validate_overlap_vm_area compares is enough.
THEOREM AreasGrowApart == LimitSpec => []AreasApart
<1>1. LimitInv => AreasApart
  BY DEF LimitInv
<1>2. QED
  BY <1>1, Invariant, PTL

\* The break stays in its area, and the pages mapped are exactly those of the
\* areas but for the ones that got no frame; each has a frame of its own, taken
\* from the device, and is in the queue once.
THEOREM BreakStays == LimitSpec => []BreakMapped
<1>1. ASSUME LimitInv PROVE BreakMapped
  <2>1. /\ AreasOK /\ EntriesOK /\ Backed /\ Unshared /\ Followed /\ Queued
    BY <1>1 DEF LimitInv, PagesInv
  <2>2. \A id \in Id : area[id].sbrk \in area[id].vm_start .. area[id].vm_end
    BY <2>1 DEF AreasOK, AreaOK, Area
  <2>3. ASSUME NEW g \in Page
        PROVE  pgd[g].present <=>
                 /\ \E id \in Id : area[id].vm_start <= g * PAGESZ /\ g * PAGESZ < area[id].vm_end
                 /\ g \notin short
    BY <2>1 DEF Followed, InAreas, Inside
  <2>4. \A g \in Present : g \in Page /\ pgd[g].present
    BY DEF Present
  <2>5. \A g \in Present : PAGING_FPN(pgd[g]) = pgd[g].low
    <3>1. \A g \in Present : EntryOK(pgd[g]) /\ pgd[g].low \in Frame
      BY <2>1, <2>4 DEF EntriesOK, EntryOK
    <3>2. QED
      BY <2>4, <3>1, FrameSet
  <2>6. \A g, h \in Present : PAGING_FPN(pgd[g]) = PAGING_FPN(pgd[h]) => g = h
    BY <2>1, <2>4, <2>5 DEF Unshared
  <2>7. \A g \in Present : PAGING_FPN(pgd[g]) \in taken
    BY <2>1, <2>4, <2>5 DEF Backed
  <2>8. ToSet(fifo_pgn) = Present
    <3>1. fifo_pgn \in Seq(Page) /\ \A g : Contains(fifo_pgn, g) <=> g \in Present
      BY <2>1 DEF Queued, Present
    <3>2. DOMAIN fifo_pgn = 1 .. Len(fifo_pgn)
      BY <3>1
    <3>3. \A g : g \in ToSet(fifo_pgn) <=> Contains(fifo_pgn, g)
      BY <3>2 DEF ToSet, Contains
    <3>4. QED
      BY <3>1, <3>3
  <2>9. QED
    BY <2>1, <2>2, <2>3, <2>6, <2>7, <2>8 DEF BreakMapped, Queued
<1>2. QED
  BY <1>1, Invariant, PTL

\* What MEMPHY_find_frame tells of the owners.
OwnersTold ==
  \A fpn : /\ \A o : MEMPHY_find_frame(fpn) = <<o>> <=> Holds(used_fp_list, fpn, o)
           /\ MEMPHY_find_frame(fpn) # <<>> => \E o : MEMPHY_find_frame(fpn) = <<o>>

\* OwnerFound, of every frame at once.
LEMMA OwnersFound == TypeOK /\ ListedOnce => OwnersTold
  BY OwnerFound DEF OwnersTold

\* No step gives a used frame another owner.
THEOREM OwnersStay == LimitSpec => OwnerKept
<1>1. ASSUME LimitInv, LimitInv', Agree(used_fp_list, used_fp_list'), NEW fpn \in Frame,
             MEMPHY_find_frame(fpn) # <<>>, MEMPHY_find_frame(fpn)' # <<>>
      PROVE  MEMPHY_find_frame(fpn)' = MEMPHY_find_frame(fpn)
  <2>1. PICK o : MEMPHY_find_frame(fpn) = <<o>> /\ Holds(used_fp_list, fpn, o)
    BY <1>1, OwnerFound DEF LimitInv, FramesInv
  <2>2. (TypeOK /\ ListedOnce => OwnersTold)'
    BY OwnersFound, PTL
  <2>3. PICK p : MEMPHY_find_frame(fpn)' = <<p>> /\ Holds(used_fp_list', fpn, p)
    BY <1>1, <2>2 DEF LimitInv, FramesInv, OwnersTold
  <2>4. CASE \A e, q : Holds(used_fp_list, e, q) => Holds(used_fp_list', e, q)
    BY <1>1, <2>1, <2>2, <2>4 DEF LimitInv, FramesInv, OwnersTold
  <2>5. CASE \A e, q : Holds(used_fp_list', e, q) => Holds(used_fp_list, e, q)
    BY <1>1, <2>1, <2>3, <2>5, OwnerFound DEF LimitInv, FramesInv
  <2>6. QED
    BY <1>1, <2>4, <2>5 DEF Agree
<1>2. LimitInv /\ LimitInv' /\ [LimitNext]_<<vars, mm>> =>
        [\A fpn \in Frame :
           (MEMPHY_find_frame(fpn) # <<>> /\ MEMPHY_find_frame(fpn)' # <<>>) =>
             MEMPHY_find_frame(fpn)' = MEMPHY_find_frame(fpn)]_vars
  BY <1>1, LimitInvNext
<1>3. QED
  BY <1>2, Invariant, PTL DEF LimitSpec, OwnerKept
=============================================================================
