------------------------------ MODULE PagingProofs ------------------------------
(***************************************************************************)
(* Proofs about demand paging and about the instructions that use it, for  *)
(* every number of processes, pages, frames and bytes of a page.           *)
(***************************************************************************)
EXTENDS Instructions, TLAPS, NaturalsInduction, WellFoundedInduction,
        FiniteSetTheorems, FunctionTheorems, SequenceTheorems

-----------------------------------------------------------------------------
(* Lists.                                                                  *)

\* A set of naturals has a least element.
LEMMA LeastOf ==
  ASSUME NEW T \in SUBSET Nat, T # {}
  PROVE  \E m \in T : \A k \in T : m <= k
<1>1. PICK m \in T : \A k \in T : ~(<<k, m>> \in OpToRel(<, Nat))
  BY WFMin, NatLessThanWellFounded, Zenon
<1>2. \A k \in T : ~(k < m)
  BY <1>1 DEF OpToRel
<1>3. m \in Nat /\ \A k \in T : k \in Nat
  OBVIOUS
<1>4. QED
  BY <1>2, <1>3

\* The numbers from 1 to n.
LEMMA CountTo ==
  ASSUME NEW n \in Nat
  PROVE  Cardinality(1 .. n) = n
<1>1. Cardinality(1 .. n) = IF 1 > n THEN 0 ELSE n - 1 + 1
  <2>1. 1 \in Int /\ n \in Int
    OBVIOUS
  <2>2. QED
    BY <2>1, FS_Interval, Zenon
<1>2. QED
  BY <1>1

\* What MEMPHY_get_freefp leaves in a list that names each frame once.
LEMMA TakeFirst ==
  ASSUME NEW S, NEW s \in Seq(S), s # <<>>
  PROVE  /\ Head(s) \in S /\ Tail(s) \in Seq(S) /\ Contains(s, Head(s))
         /\ \A e : Contains(Tail(s), e) => Contains(s, e)
         /\ \A e : Contains(s, e) => Contains(Tail(s), e) \/ e = Head(s)
         /\ IsInjective(s) => IsInjective(Tail(s)) /\ ~ Contains(Tail(s), Head(s))
<1>1. /\ Len(s) \in Nat \ {0} /\ Head(s) = s[1] /\ Head(s) \in S
      /\ Tail(s) \in Seq(S) /\ Len(Tail(s)) = Len(s) - 1
      /\ DOMAIN s = 1 .. Len(s) /\ DOMAIN Tail(s) = 1 .. (Len(s) - 1)
      /\ \A k \in 1 .. (Len(s) - 1) : Tail(s)[k] = s[k + 1]
  OBVIOUS
<1>2. ASSUME NEW e, Contains(s, e) PROVE Contains(Tail(s), e) \/ e = Head(s)
  <2>1. PICK k \in 1 .. Len(s) : s[k] = e
    BY <1>2 DEF Contains
  <2>2. CASE k # 1
    <3>1. k - 1 \in 1 .. (Len(s) - 1) /\ Tail(s)[k - 1] = e
      BY <1>1, <2>1, <2>2
    <3>2. QED
      BY <1>1, <3>1 DEF Contains
  <2>3. QED
    BY <1>1, <2>1, <2>2
<1>3. QED
  BY <1>1, <1>2 DEF Contains, IsInjective

\* What find_victim_page leaves in the queue, without its last page.
LEMMA WithoutLast ==
  ASSUME NEW S, NEW s \in Seq(S), s # <<>>
  PROVE  /\ Front(s) \in Seq(S) /\ Len(Front(s)) = Len(s) - 1
         /\ \A k \in 1 .. (Len(s) - 1) : Front(s)[k] = s[k]
         /\ Len(s) \in Nat \ {0} /\ Last(s) = s[Len(s)] /\ Last(s) \in S
<1>1. Len(s) \in Nat \ {0} /\ \A k \in 1 .. Len(s) : s[k] \in S
  OBVIOUS
<1>2. /\ Front(s) \in Seq(S)
      /\ Len(Front(s)) = IF 1 <= Len(s) - 1 THEN (Len(s) - 1) - 1 + 1 ELSE 0
      /\ \A k \in 1 .. ((Len(s) - 1) - 1 + 1) : Front(s)[k] = s[1 + k - 1]
  BY <1>1, SubSeqProperties DEF Front
<1>3. \A k \in 1 .. (Len(s) - 1) : Front(s)[k] = s[k]
  BY <1>1, <1>2
<1>4. Len(Front(s)) = Len(s) - 1
  <2>1. ASSUME NEW n \in Nat \ {0} PROVE (IF 1 <= n - 1 THEN (n - 1) - 1 + 1 ELSE 0) = n - 1
    OBVIOUS
  <2>2. QED
    BY <1>1, <1>2, <2>1, Zenon
<1>5. Last(s) = s[Len(s)] /\ Last(s) \in S
  BY <1>1 DEF Last
<1>6. QED
  BY <1>1, <1>2, <1>3, <1>4, <1>5

\* The queue with one more page in front.
LEMMA PutFirst ==
  ASSUME NEW S, NEW s \in Seq(S), NEW e \in S
  PROVE  /\ <<e>> \o s \in Seq(S) /\ Len(<<e>> \o s) = Len(s) + 1
         /\ (<<e>> \o s)[1] = e
         /\ \A k \in 1 .. Len(s) : (<<e>> \o s)[k + 1] = s[k]
         /\ \A d : Contains(<<e>> \o s, d) <=> Contains(s, d) \/ d = e
<1> DEFINE t == <<e>> \o s
<1>1. <<e>> \in Seq(S) /\ Len(<<e>>) = 1 /\ <<e>>[1] = e /\ Len(s) \in Nat
  OBVIOUS
<1>2. /\ t \in Seq(S) /\ Len(t) = Len(s) + 1
      /\ \A i \in 1 .. (1 + Len(s)) : t[i] = IF i <= 1 THEN <<e>>[i] ELSE s[i - 1]
  BY <1>1, ConcatProperties
<1>3. t[1] = e /\ \A k \in 1 .. Len(s) : t[k + 1] = s[k]
  BY <1>1, <1>2
<1> HIDE DEF t
<1>4. ASSUME NEW d PROVE Contains(t, d) <=> Contains(s, d) \/ d = e
  <2>1. ASSUME NEW i \in 1 .. Len(t), t[i] = d PROVE Contains(s, d) \/ d = e
    <3>1. CASE i # 1
      <4>1. i - 1 \in 1 .. Len(s) /\ t[(i - 1) + 1] = s[i - 1]
        BY <1>1, <1>2, <1>3, <3>1
      <4>2. QED
        BY <2>1, <4>1 DEF Contains
    <3>2. QED
      BY <1>3, <2>1, <3>1
  <2>2. ASSUME NEW k \in 1 .. Len(s), s[k] = d PROVE Contains(t, d)
    <3>1. k + 1 \in 1 .. Len(t) /\ t[k + 1] = d
      BY <1>1, <1>2, <1>3, <2>2
    <3>2. QED
      BY <3>1 DEF Contains
  <2>3. 1 \in 1 .. Len(t)
    BY <1>1, <1>2
  <2>4. QED
    BY <1>3, <2>1, <2>2, <2>3 DEF Contains
<1>5. QED
  BY <1>2, <1>3, <1>4 DEF t

\* A list without its element i.
LEMMA Removed ==
  ASSUME NEW S, NEW list \in Seq(S), NEW i \in 1 .. Len(list)
  PROVE  /\ RemoveAt(list, i) \in Seq(S) /\ Len(RemoveAt(list, i)) = Len(list) - 1
         /\ \A k \in 1 .. (Len(list) - 1) :
              RemoveAt(list, i)[k] = list[IF k < i THEN k ELSE k + 1]
<1>1. PICK s, t, n : s = SubSeq(list, 1, i - 1) /\ t = SubSeq(list, i + 1, n) /\ n = Len(list)
  OBVIOUS
<1>2. n \in Nat /\ i \in 1 .. n /\ \A k \in 1 .. n : list[k] \in S
  BY <1>1
<1>3. /\ s \in Seq(S) /\ Len(s) = i - 1
      /\ \A k \in 1 .. (i - 1) : s[k] = list[k]
  <2>1. /\ s \in Seq(S) /\ Len(s) = IF 1 <= i - 1 THEN (i - 1) - 1 + 1 ELSE 0
        /\ \A k \in 1 .. ((i - 1) - 1 + 1) : s[k] = list[1 + k - 1]
    BY <1>1, <1>2, SubSeqProperties
  <2>2. \A k \in 1 .. (i - 1) : s[k] = list[k]
    BY <1>2, <2>1
  <2>3. QED
    BY <1>2, <2>1, <2>2
<1>4. /\ t \in Seq(S) /\ Len(t) = n - i
      /\ \A k \in 1 .. (n - i) : t[k] = list[i + k]
  <2>1. /\ t \in Seq(S) /\ Len(t) = IF i + 1 <= n THEN n - (i + 1) + 1 ELSE 0
        /\ \A k \in 1 .. (n - (i + 1) + 1) : t[k] = list[(i + 1) + k - 1]
    BY <1>1, <1>2, SubSeqProperties
  <2>2. ASSUME NEW k \in 1 .. (n - i) PROVE t[k] = list[i + k]
    <3>1. k \in 1 .. (n - (i + 1) + 1) /\ (i + 1) + k - 1 = i + k
      BY <1>2
    <3>2. t[k] = list[(i + 1) + k - 1]
      BY <2>1, <3>1
    <3>3. QED
      BY <3>1, <3>2
  <2>3. QED
    BY <1>2, <2>1, <2>2
<1>5. PICK u : u = s \o t
  OBVIOUS
<1>6. /\ u \in Seq(S) /\ Len(u) = (i - 1) + (n - i)
      /\ \A k \in 1 .. ((i - 1) + (n - i)) : u[k] = IF k <= i - 1 THEN s[k] ELSE t[k - (i - 1)]
  BY <1>3, <1>4, <1>5, ConcatProperties
<1>7. Len(u) = n - 1 /\ n - 1 = (i - 1) + (n - i)
  BY <1>2, <1>6
<1>8. ASSUME NEW k \in 1 .. (n - 1) PROVE u[k] = list[IF k < i THEN k ELSE k + 1]
  <2>1. CASE k < i
    BY <1>2, <1>3, <1>6, <1>7, <2>1
  <2>2. CASE ~(k < i)
    <3>1. k - (i - 1) \in 1 .. (n - i) /\ i + (k - (i - 1)) = k + 1 /\ ~(k <= i - 1)
      BY <1>2, <2>2
    <3>2. QED
      BY <1>4, <1>6, <1>7, <2>2, <3>1
  <2>3. QED
    BY <2>1, <2>2
<1>9. RemoveAt(list, i) = u
  BY <1>1, <1>5 DEF RemoveAt
<1>10. QED
  BY <1>1, <1>6, <1>7, <1>8, <1>9

-----------------------------------------------------------------------------
\* An entry is empty, or names a frame of RAM, or a frame of swap; and it stays
\* present in swap.
EntryOK(e) ==
  \/ e = NoPte
  \/ e.present /\ ~e.swapped /\ e.low \in Frame
  \/ e.present /\ e.swapped /\ \E f \in SwapFrame : e.low = f * SWPSTRIDE
Entries == \A x \in Pages : EntryOK(pgd[x[1]][x[2]])

\* The pages that have a frame of RAM, and those that have one of swap.
Holds(x) == Resident(x[1], x[2]) /\ KeepsFrame(x)
Moved(x) == Swapped(x[1], x[2])

RamOnce ==
  /\ IsInjective(ramFree)
  /\ \A x, y \in Pages : Holds(x) /\ Holds(y) /\ RamOf(x) = RamOf(y) => x = y
  /\ \A x \in Pages : Holds(x) => ~Contains(ramFree, RamOf(x))
RamKept ==
  \A f \in Frame : Contains(ramFree, f) \/ \E x \in Pages : Holds(x) /\ RamOf(x) = f

SwpOnce ==
  /\ IsInjective(swpFree)
  /\ \A x, y \in Pages : Moved(x) /\ Moved(y) /\ SwpOf(x) = SwpOf(y) => x = y
  /\ \A x \in Pages : Moved(x) => ~Contains(swpFree, SwpOf(x))
SwpKept ==
  \A f \in SwapFrame : Contains(swpFree, f) \/ \E x \in Pages : Moved(x) /\ SwpOf(x) = f

\* A page is loaded once, when its entry becomes present.
LoadsOnce ==
  \A p \in Proc :
    /\ IsInjective(loads[p])
    /\ \A g \in Page : Contains(loads[p], g) <=> pgd[p][g].present

\* The queue holds resident pages, the latest first, and until swap is full all
\* of them.
QueueOrder ==
  \A p \in Proc : \A i, j \in DOMAIN fifo_pgn[p] :
    i < j => Before(loads[p], fifo_pgn[p][j], fifo_pgn[p][i])
QueueResident ==
  \A p \in Proc, g \in Page : Contains(fifo_pgn[p], g) => Resident(p, g)
QueueWhole ==
  swpFree # <<>> => \A p \in Proc, g \in Page : Resident(p, g) => Contains(fifo_pgn[p], g)

FramesInv == RamOnce /\ RamKept /\ SwpOnce /\ SwpKept
QueueInv == LoadsOnce /\ QueueOrder /\ QueueResident /\ QueueWhole
Inv == TypeOK /\ Entries /\ FramesInv /\ QueueInv

-----------------------------------------------------------------------------
(* Entries and addresses.                                                  *)

\* A frame number fits in an entry, and a swap offset comes back out of it.
LEMMA FrameInEntry ==
  /\ \A f \in Frame : f \in Nat /\ f % FPNS = f
  /\ \A f \in SwapFrame :
       /\ f \in Nat /\ f * SWPSTRIDE \in Nat /\ f % SWPOFFS = f
       /\ ((f * SWPSTRIDE) \div SWPSTRIDE) % SWPOFFS = f
<1>1. ASSUME NEW f \in Nat, NEW n \in Nat \ {0}
      PROVE  (f < n => f % n = f) /\ (f * n) \div n = f
  OBVIOUS
<1>2. \A f \in Frame : f \in Nat /\ f < FPNS
  BY PagingAssumption, PteAssumption DEF Frame
<1>3. \A f \in SwapFrame : f \in Nat /\ f * SWPSTRIDE \in Nat /\ f < SWPOFFS
  BY PagingAssumption, PteAssumption DEF SwapFrame
<1>4. \A f \in Frame : f % FPNS = f
  BY <1>1, <1>2, PteAssumption
<1>5. ASSUME NEW f \in SwapFrame
      PROVE  (f * SWPSTRIDE) \div SWPSTRIDE = f
  BY <1>1, <1>3, PteAssumption, Zenon
<1>6. \A f \in SwapFrame : f % SWPOFFS = f
  BY <1>1, <1>3, PteAssumption
<1>7. QED
  BY <1>2, <1>3, <1>4, <1>5, <1>6

\* Bytes of different pages of a device do not meet.
LEMMA BytesApart ==
  ASSUME NEW n \in Nat, NEW f \in 0 .. (n - 1), NEW o \in Offset
  PROVE  /\ Physical(f, o) \in 0 .. (n * PAGESZ - 1)
         /\ Physical(f, o) \div PAGESZ = f /\ Physical(f, o) % PAGESZ = o
<1>1. ASSUME NEW z \in Nat \ {0}, NEW i \in Nat, NEW j \in 0 .. (z - 1), i < n
      PROVE  /\ i * z + j \in 0 .. (n * z - 1)
             /\ (i * z + j) \div z = i /\ (i * z + j) % z = j
  <2>1. i * z + j \in 0 .. (n * z - 1)
    BY <1>1
  <2>2. (i * z + j) \div z = i
    OBVIOUS
  <2>3. (i * z + j) % z = j
    OBVIOUS
  <2>4. QED
    BY <2>1, <2>2, <2>3
<1>2. PAGESZ \in Nat \ {0} /\ o \in 0 .. (PAGESZ - 1) /\ f \in Nat /\ f < n
  BY PagingAssumption DEF Offset
<1>3. QED
  BY <1>1, <1>2 DEF Physical

\* The entry of a page is one the code writes.
LEMMA EntryAt ==
  ASSUME Inv, NEW p \in Proc, NEW g \in Page
  PROVE  EntryOK(pgd[p][g])
<1>1. <<p, g>> \in Pages /\ <<p, g>>[1] = p /\ <<p, g>>[2] = g
  BY DEF Pages
<1>2. QED
  BY <1>1 DEF Inv, Entries

\* What the entry of a page says of its frame.
LEMMA FrameOf ==
  ASSUME Entries, NEW x \in Pages
  PROVE  /\ Resident(x[1], x[2]) => RamOf(x) \in Frame
         /\ Moved(x) => SwpOf(x) \in SwapFrame /\ pgd[x[1]][x[2]].present
  BY FrameInEntry DEF Entries, EntryOK, Resident, Moved, Swapped, RamOf, SwpOf,
     PAGING_FPN, PAGING_SWP, NoPte

\* The list of free frames, the queue, and the entries in it: no page is twice in
\* a queue.
LEMMA QueueOnce ==
  ASSUME Inv, NEW p \in Proc
  PROVE  IsInjective(fifo_pgn[p])
<1>1. fifo_pgn[p] \in Seq(Page) /\ loads[p] \in Seq(Page)
  BY DEF Inv, TypeOK
<1>2. ASSUME NEW i \in DOMAIN fifo_pgn[p], NEW j \in DOMAIN fifo_pgn[p], i < j
      PROVE  fifo_pgn[p][i] # fifo_pgn[p][j]
  <2>1. PICK a, b \in DOMAIN loads[p] :
          a < b /\ loads[p][a] = fifo_pgn[p][j] /\ loads[p][b] = fifo_pgn[p][i]
    BY <1>2 DEF Inv, QueueInv, QueueOrder, Before
  <2>2. a # b
    BY <1>1, <2>1
  <2>3. QED
    BY <2>1, <2>2 DEF Inv, QueueInv, LoadsOnce, IsInjective
<1>3. DOMAIN fifo_pgn[p] = 1 .. Len(fifo_pgn[p]) /\ Len(fifo_pgn[p]) \in Nat
  BY <1>1
<1>4. QED
  BY <1>2, <1>3 DEF IsInjective

Lows == {0} \cup Frame \cup {f * SWPSTRIDE : f \in SwapFrame}

\* The entry of a page that has just been loaded into frame fpn.
LoadedPte(e, fpn) == e.present /\ ~e.swapped /\ e.low = fpn

\* The entry written for a page with a frame.
LEMMA EntryLoaded ==
  ASSUME NEW fpn \in Frame, NEW d \in BOOLEAN, NEW e,
         e = [pte_set_fpn(NoPte, fpn) EXCEPT !.dirty = d]
  PROVE  e \in PteType(Lows) /\ LoadedPte(e, fpn)
<1>1. fpn \in Nat /\ fpn % FPNS = fpn
  BY FrameInEntry
<1>2. 0 % FPNS = 0
  BY PteAssumption
<1>3. (0 - (0 % FPNS)) + (fpn % FPNS) = fpn
  BY <1>1, <1>2
<1> DEFINE s == pte_set_fpn(NoPte, fpn)
<1>4. s \in [present : BOOLEAN, swapped : BOOLEAN, dirty : BOOLEAN, low : {fpn}]
  BY <1>3 DEF pte_set_fpn, NoPte
<1>5. s.present /\ ~s.swapped
  BY DEF pte_set_fpn, NoPte
<1> HIDE DEF s
<1>6. e \in [present : BOOLEAN, swapped : BOOLEAN, dirty : BOOLEAN, low : {fpn}]
  BY <1>4 DEF s
<1>7. e.present /\ ~e.swapped
  BY <1>4, <1>5 DEF s
<1>8. QED
  BY <1>6, <1>7 DEF LoadedPte, PteType, Lows

\* What a store does to the bytes of a device.
LEMMA StoreTyped ==
  ASSUME NEW n \in Nat, NEW d \in [0 .. (n * PAGESZ - 1) -> Content], NEW fpn, NEW o,
         NEW w \in Value \cup {NULL}
  PROVE  /\ Store(d, fpn, o, w) \in [0 .. (n * PAGESZ - 1) -> Content]
         /\ ZeroFill(d, fpn) \in [0 .. (n * PAGESZ - 1) -> Content]
  BY DEF Store, MEMPHY_write, ZeroFill, Content

\* Copying a page keeps both devices' types.
LEMMA CopyTyped ==
  ASSUME NEW n \in Nat, NEW d \in [0 .. (n * PAGESZ - 1) -> Content], NEW dfpn,
         NEW m \in Nat, NEW s \in [0 .. (m * PAGESZ - 1) -> Content], NEW sfpn \in 0 .. (m - 1)
  PROVE  swap_cp_page(s, sfpn, d, dfpn) \in [0 .. (n * PAGESZ - 1) -> Content]
<1>1. ASSUME NEW a \in 0 .. (n * PAGESZ - 1)
      PROVE  s[Physical(sfpn, a % PAGESZ)] \in Content
  <2>1. a \in Nat
    OBVIOUS
  <2>2. a % PAGESZ \in Offset
    BY <2>1, PagingAssumption DEF Offset
  <2>3. QED
    BY <2>2, BytesApart
<1>2. QED
  BY <1>1 DEF swap_cp_page

\* Loading a process keeps the types.
LEMMA LoadTyped ==
  ASSUME Inv, NEW p \in Proc, NEW g \in Page, NEW o \in Offset,
         NEW w \in Value \cup {NULL}, NEW fpn \in Frame,
         NEW t \in [Page -> PteType(Lows)], NEW q \in Seq(Page),
         t[g] = NoPte, Load(p, g, o, w, fpn, t, q)
  PROVE  /\ pgd' \in [Proc -> [Page -> PteType(Lows)]]
         /\ LoadedPte(pgd'[p][g], fpn)
         /\ \A h \in Page \ {g} : pgd'[p][h] = t[h]
         /\ \A r \in Proc \ {p} : pgd'[r] = pgd[r]
         /\ fifo_pgn' \in [Proc -> Seq(Page)] /\ fifo_pgn'[p] = <<g>> \o q
         /\ loads' \in [Proc -> Seq(Page)] /\ loads'[p] = Append(loads[p], g)
         /\ \A r \in Proc \ {p} : fifo_pgn'[r] = fifo_pgn[r] /\ loads'[r] = loads[r]
         /\ ram' \in [0 .. (RamFrames * PAGESZ - 1) -> Content]
         /\ written' \in [Proc -> [Page -> [Offset -> Content]]]
<1> DEFINE e == [pte_set_fpn(NoPte, fpn) EXCEPT !.dirty = w # NULL]
<1>1. pgd' = [pgd EXCEPT ![p] = [t EXCEPT ![g] = e]]
  BY DEF Load
<1>2. e \in PteType(Lows) /\ LoadedPte(e, fpn)
  <2>1. (w # NULL) \in BOOLEAN
    OBVIOUS
  <2>2. QED
    BY <2>1, EntryLoaded
<1> HIDE DEF e
<1>3. pgd \in [Proc -> [Page -> PteType(Lows)]]
  BY DEF Inv, TypeOK, Lows
<1>4. /\ pgd' \in [Proc -> [Page -> PteType(Lows)]]
      /\ LoadedPte(pgd'[p][g], fpn)
      /\ \A h \in Page \ {g} : pgd'[p][h] = t[h]
      /\ \A r \in Proc \ {p} : pgd'[r] = pgd[r]
  BY <1>1, <1>2, <1>3
<1>5. <<g>> \o q \in Seq(Page) /\ Append(loads[p], g) \in Seq(Page)
  BY PutFirst DEF Inv, TypeOK
<1>6. /\ fifo_pgn' \in [Proc -> Seq(Page)] /\ fifo_pgn'[p] = <<g>> \o q
      /\ loads' \in [Proc -> Seq(Page)] /\ loads'[p] = Append(loads[p], g)
      /\ \A r \in Proc \ {p} : fifo_pgn'[r] = fifo_pgn[r] /\ loads'[r] = loads[r]
  BY <1>5 DEF Load, Inv, TypeOK
<1>7. ram' \in [0 .. (RamFrames * PAGESZ - 1) -> Content]
  <2>1. ram \in [0 .. (RamFrames * PAGESZ - 1) -> Content] /\ RamFrames \in Nat
    BY PagingAssumption DEF Inv, TypeOK
  <2>2. ZeroFill(ram, fpn) \in [0 .. (RamFrames * PAGESZ - 1) -> Content]
    BY <2>1, StoreTyped
  <2>3. QED
    BY <2>1, <2>2, StoreTyped DEF Load
<1>8. written' \in [Proc -> [Page -> [Offset -> Content]]]
  <2>1. [b \in Offset |-> IF b = o /\ w # NULL THEN w ELSE 0] \in [Offset -> Content]
    BY DEF Content
  <2>2. QED
    BY <2>1 DEF Load, Inv, TypeOK
<1>9. QED
  BY <1>4, <1>6, <1>7, <1>8

\* The entry of a page that has just been moved to swap.
LEMMA EntryMoved ==
  ASSUME NEW off \in SwapFrame, NEW e \in PteType(Lows), NEW m, m = pte_set_swap(e, off)
  PROVE  m \in PteType(Lows) /\ m.present /\ m.swapped /\ m.low = off * SWPSTRIDE
<1>0. off % SWPOFFS = off
  BY FrameInEntry
<1>1. /\ m \in [present : BOOLEAN, swapped : BOOLEAN, dirty : BOOLEAN, low : {off * SWPSTRIDE}]
      /\ m.present /\ m.swapped
  BY <1>0 DEF pte_set_swap, PteType
<1>2. off * SWPSTRIDE \in Lows
  BY DEF Lows
<1>3. QED
  BY <1>1, <1>2 DEF PteType

\* find_victim_page takes a resident page, and what stays in the queue is the rest.
LEMMA Victim ==
  ASSUME Inv, NEW p \in Proc, fifo_pgn[p] # <<>>, NEW v, v = find_victim_page(fifo_pgn[p]),
         NEW q, q = LeaveQueue(fifo_pgn[p])
  PROVE  /\ v \in Page /\ Contains(fifo_pgn[p], v) /\ Resident(p, v)
         /\ q \in Seq(Page) /\ Len(q) = Len(fifo_pgn[p]) - 1
         /\ \A k \in 1 .. Len(q) : q[k] = fifo_pgn[p][k]
         /\ v = fifo_pgn[p][Len(fifo_pgn[p])]
         /\ \A h : Contains(q, h) <=> Contains(fifo_pgn[p], h) /\ h # v
<1> DEFINE s == fifo_pgn[p]
<1>1. /\ s \in Seq(Page) /\ DOMAIN s = 1 .. Len(s)
      /\ q \in Seq(Page) /\ Len(q) = Len(s) - 1
      /\ \A k \in 1 .. (Len(s) - 1) : q[k] = s[k]
      /\ Len(s) \in Nat \ {0} /\ v = s[Len(s)] /\ v \in Page
  BY WithoutLast DEF Inv, TypeOK, find_victim_page, LeaveQueue
<1>2. IsInjective(s)
  BY QueueOnce
<1> HIDE DEF s
<1>3. Contains(s, v)
  BY <1>1 DEF Contains
<1>4. \A h : Contains(q, h) <=> Contains(s, h) /\ h # v
  BY <1>1, <1>2 DEF Contains, IsInjective
<1>5. Resident(p, v)
  BY <1>1, <1>3 DEF s, Inv, QueueInv, QueueResident
<1>6. QED
  BY <1>1, <1>3, <1>4, <1>5 DEF s

\* Steps that leave the frames of all entries, the lists and the queues alone.
LEMMA SameFrames ==
  ASSUME Inv,
         \A x \in Pages :
           /\ pgd'[x[1]][x[2]].present = pgd[x[1]][x[2]].present
           /\ pgd'[x[1]][x[2]].swapped = pgd[x[1]][x[2]].swapped
           /\ pgd'[x[1]][x[2]].low = pgd[x[1]][x[2]].low,
         UNCHANGED <<ramFree, swpFree, fifo_pgn, reaped, loads>>
  PROVE  FramesInv' /\ QueueInv'
<1>1. \A x \in Pages :
        /\ Holds(x)' <=> Holds(x)
        /\ Moved(x)' <=> Moved(x)
        /\ RamOf(x)' = RamOf(x) /\ SwpOf(x)' = SwpOf(x)
  BY DEF Holds, Moved, Resident, Swapped, KeepsFrame, RamOf, SwpOf, PAGING_FPN, PAGING_SWP
<1>2. FramesInv'
  BY <1>1 DEF Inv, FramesInv, RamOnce, RamKept, SwpOnce, SwpKept
<1>3. \A p \in Proc, g \in Page :
        /\ pgd'[p][g].present = pgd[p][g].present
        /\ Resident(p, g)' <=> Resident(p, g)
  <2>1. ASSUME NEW p \in Proc, NEW g \in Page
        PROVE  <<p, g>> \in Pages
    BY DEF Pages
  <2>2. QED
    BY <2>1 DEF Resident, Swapped
<1>4. QueueInv'
  BY <1>2, <1>3 DEF Inv, QueueInv, LoadsOnce, QueueOrder, QueueResident, QueueWhole,
     Before
<1>5. QED
  BY <1>2, <1>4

\* Page g takes the first free frame f of RAM.
Filled(p, g, f) ==
  /\ ~pgd[p][g].present
  /\ ramFree # <<>> /\ f = Head(ramFree) /\ ramFree' = Tail(ramFree)
  /\ UNCHANGED <<swpFree, reaped>>
  /\ LoadedPte(pgd'[p][g], f)
  /\ \A h \in Page \ {g} : pgd'[p][h] = pgd[p][h]
  /\ \A r \in Proc \ {p} : pgd'[r] = pgd[r] /\ fifo_pgn'[r] = fifo_pgn[r]

\* A page that gets a free frame is the only one that has it.
LEMMA FillFrames ==
  ASSUME Inv, NEW p \in Proc \ reaped, NEW g \in Page, NEW f \in Frame, Filled(p, g, f)
  PROVE  FramesInv' /\ Entries'
<1> USE DEF Filled
<1> DEFINE u == <<p, g>>
<1>1. /\ \A e : Contains(Tail(ramFree), e) <=> Contains(ramFree, e) /\ e # f
      /\ IsInjective(Tail(ramFree)) /\ Contains(ramFree, f)
  BY TakeFirst DEF Inv, TypeOK, FramesInv, RamOnce
<1>2. u \in Pages /\ u[1] = p /\ u[2] = g
  BY DEF Pages
<1>3. \A x \in Pages \ {u} :
        /\ pgd'[x[1]][x[2]] = pgd[x[1]][x[2]]
        /\ x[1] # p => fifo_pgn'[x[1]] = fifo_pgn[x[1]]
  BY DEF Pages
<1> HIDE DEF u
<1>4. \A x \in Pages \ {u} :
        /\ Holds(x)' <=> Holds(x)
        /\ Moved(x)' <=> Moved(x)
        /\ RamOf(x)' = RamOf(x) /\ SwpOf(x)' = SwpOf(x)
  BY <1>3 DEF Holds, Moved, Resident, Swapped, KeepsFrame, RamOf, SwpOf, PAGING_FPN,
     PAGING_SWP
<1>5. pgd[p][g] = NoPte
  BY <1>2 DEF Inv, Entries, EntryOK
<1>6. /\ ~Holds(u) /\ ~Moved(u) /\ ~Moved(u)' /\ Holds(u)'
      /\ RamOf(u)' = f
  BY <1>2, <1>5, FrameInEntry DEF Holds, Moved, Resident, Swapped, KeepsFrame, RamOf,
     PAGING_FPN, NoPte, LoadedPte
<1>7. RamOnce' /\ RamKept'
  <2>1. RamOnce /\ RamKept
    BY DEF Inv, FramesInv
  <2>2. RamOnce'
    BY <1>1, <1>2, <1>4, <1>6, <2>1 DEF RamOnce
  <2>3. RamKept'
    BY <1>1, <1>2, <1>4, <1>6, <2>1 DEF RamKept
  <2>4. QED
    BY <2>2, <2>3
<1>8. SwpOnce' /\ SwpKept'
  BY <1>2, <1>4, <1>6 DEF Inv, FramesInv, SwpOnce, SwpKept
<1>9. Entries'
  BY <1>2, <1>3 DEF Inv, Entries, EntryOK, LoadedPte
<1>10. QED
  BY <1>7, <1>8, <1>9 DEF FramesInv

\* Page g takes frame f of page v of the same process, which moves to the first
\* free frame b of swap.
Replaced(p, g, v, f, b) ==
  /\ Resident(p, v) /\ f = PAGING_FPN(pgd[p][v]) /\ ~pgd[p][g].present
  /\ swpFree # <<>> /\ b = Head(swpFree) /\ swpFree' = Tail(swpFree)
  /\ UNCHANGED <<ramFree, reaped>>
  /\ LoadedPte(pgd'[p][g], f)
  /\ pgd'[p][v].present /\ pgd'[p][v].swapped /\ pgd'[p][v].low = b * SWPSTRIDE
  /\ \A h \in Page \ {g, v} : pgd'[p][h] = pgd[p][h]
  /\ \A r \in Proc \ {p} : pgd'[r] = pgd[r] /\ fifo_pgn'[r] = fifo_pgn[r]

\* A page that gets a victim's frame is then the only one that has it.
LEMMA ReplaceFrames ==
  ASSUME Inv, NEW p \in Proc \ reaped, NEW g \in Page, NEW v \in Page,
         NEW f \in Frame, NEW b \in SwapFrame, Replaced(p, g, v, f, b)
  PROVE  FramesInv' /\ Entries'
<1> USE DEF Replaced
<1> DEFINE u == <<p, g>>
           z == <<p, v>>
<1>1. /\ \A e : Contains(Tail(swpFree), e) <=> Contains(swpFree, e) /\ e # b
      /\ IsInjective(Tail(swpFree)) /\ Contains(swpFree, b)
  BY TakeFirst DEF Inv, TypeOK, FramesInv, SwpOnce
<1>2. /\ u \in Pages /\ u[1] = p /\ u[2] = g
      /\ z \in Pages /\ z[1] = p /\ z[2] = v
      /\ u # z
  BY DEF Pages, Resident
<1>3. \A x \in Pages \ {u, z} :
        /\ pgd'[x[1]][x[2]] = pgd[x[1]][x[2]]
        /\ x[1] # p => fifo_pgn'[x[1]] = fifo_pgn[x[1]]
  BY DEF Pages
<1> HIDE DEF u, z
<1>4. \A x \in Pages \ {u, z} :
        /\ Holds(x)' <=> Holds(x)
        /\ Moved(x)' <=> Moved(x)
        /\ RamOf(x)' = RamOf(x) /\ SwpOf(x)' = SwpOf(x)
  BY <1>3 DEF Holds, Moved, Resident, Swapped, KeepsFrame, RamOf, SwpOf, PAGING_FPN,
     PAGING_SWP
<1>5. pgd[p][g] = NoPte
  BY <1>2 DEF Inv, Entries, EntryOK
<1>6. /\ ~Holds(u) /\ ~Moved(u) /\ ~Moved(u)' /\ Holds(u)'
      /\ RamOf(u)' = f
  BY <1>2, <1>5, FrameInEntry DEF Holds, Moved, Resident, Swapped, KeepsFrame, RamOf,
     PAGING_FPN, NoPte, LoadedPte
<1>7. /\ Holds(z) /\ RamOf(z) = f /\ ~Moved(z) /\ ~Holds(z)' /\ Moved(z)'
      /\ SwpOf(z)' = b
  BY <1>2, FrameInEntry DEF Holds, Moved, Resident, Swapped, KeepsFrame, RamOf, SwpOf,
     PAGING_SWP
<1>8. RamOnce' /\ RamKept'
  <2>1. RamOnce /\ RamKept
    BY DEF Inv, FramesInv
  <2>2. RamOnce'
    BY <1>2, <1>4, <1>6, <1>7, <2>1 DEF RamOnce
  <2>3. RamKept'
    BY <1>2, <1>4, <1>6, <1>7, <2>1 DEF RamKept
  <2>4. QED
    BY <2>2, <2>3
<1>9. SwpOnce' /\ SwpKept'
  <2>1. SwpOnce /\ SwpKept
    BY DEF Inv, FramesInv
  <2>2. SwpOnce'
    BY <1>1, <1>2, <1>4, <1>6, <1>7, <2>1 DEF SwpOnce
  <2>3. SwpKept'
    BY <1>1, <1>2, <1>4, <1>6, <1>7, <2>1 DEF SwpKept
  <2>4. QED
    BY <2>2, <2>3
<1>10. Entries'
  BY <1>2, <1>3 DEF Inv, Entries, EntryOK, LoadedPte
<1>11. QED
  BY <1>8, <1>9, <1>10 DEF FramesInv

\* A load puts its page first in the queue, of which q is left, and last in the
\* history.
Queued(p, g, q) ==
  /\ ~pgd[p][g].present
  /\ Len(q) <= Len(fifo_pgn[p]) /\ \A k \in 1 .. Len(q) : q[k] = fifo_pgn[p][k]
  /\ fifo_pgn'[p] = <<g>> \o q /\ loads'[p] = Append(loads[p], g)
  /\ \A r \in Proc \ {p} :
       pgd'[r] = pgd[r] /\ fifo_pgn'[r] = fifo_pgn[r] /\ loads'[r] = loads[r]
  /\ pgd'[p][g].present /\ ~pgd'[p][g].swapped
  /\ \A h \in Page \ {g} :
       /\ pgd'[p][h].present = pgd[p][h].present
       /\ Contains(q, h) <=> Contains(fifo_pgn[p], h) /\ ~pgd'[p][h].swapped
       /\ ~pgd'[p][h].swapped => ~pgd[p][h].swapped
  /\ swpFree' # <<>> => swpFree # <<>>

\* A loaded process finds its page table and its queue empty.
LEMMA LoadQueue ==
  ASSUME Inv, NEW p \in Proc, NEW g \in Page, NEW q \in Seq(Page), Queued(p, g, q)
  PROVE  QueueInv'
<1> USE DEF Queued
<1>1. /\ loads[p] \in Seq(Page) /\ Len(loads[p]) \in Nat
      /\ Len(loads'[p]) = Len(loads[p]) + 1
      /\ DOMAIN loads'[p] = 1 .. (Len(loads[p]) + 1)
      /\ DOMAIN loads[p] = 1 .. Len(loads[p])
      /\ \A k \in 1 .. Len(loads[p]) : loads'[p][k] = loads[p][k]
      /\ loads'[p][Len(loads[p]) + 1] = g
  BY DEF Inv, TypeOK
<1>2. /\ fifo_pgn'[p] \in Seq(Page) /\ Len(q) \in Nat
      /\ Len(fifo_pgn'[p]) = Len(q) + 1
      /\ DOMAIN fifo_pgn'[p] = 1 .. (Len(q) + 1)
      /\ fifo_pgn'[p][1] = g
      /\ \A k \in 1 .. Len(q) : fifo_pgn'[p][k + 1] = q[k]
      /\ \A d : Contains(fifo_pgn'[p], d) <=> Contains(q, d) \/ d = g
  BY PutFirst
<1>3. /\ fifo_pgn[p] \in Seq(Page)
      /\ DOMAIN fifo_pgn[p] = 1 .. Len(fifo_pgn[p]) /\ Len(fifo_pgn[p]) \in Nat
  BY DEF Inv, TypeOK
<1>4. ~Contains(loads[p], g)
  BY DEF Inv, QueueInv, LoadsOnce
<1>5. LoadsOnce'
  <2>1. IsInjective(loads[p])
    BY DEF Inv, QueueInv, LoadsOnce
  <2>2. IsInjective(loads'[p])
    <3> HIDE DEF Queued
    <3>1. PICK s, t, n : s = loads[p] /\ t = loads'[p] /\ n = Len(loads[p])
      OBVIOUS
    <3>2. /\ n \in Nat /\ DOMAIN t = 1 .. (n + 1) /\ DOMAIN s = 1 .. n
          /\ \A k \in 1 .. n : t[k] = s[k]
          /\ t[n + 1] = g
      BY <1>1, <3>1
    <3>3. \A k \in 1 .. n : s[k] # g
      BY <1>4, <3>1 DEF Contains
    <3>4. \A k, l \in 1 .. n : s[k] = s[l] => k = l
      BY <2>1, <3>1, <3>2 DEF IsInjective
    <3>5. \A k, l \in 1 .. (n + 1) : t[k] = t[l] => k = l
      <4>1. \A k \in 1 .. (n + 1) : k \in 1 .. n \/ k = n + 1
        BY <3>2
      <4>2. QED
        BY <3>2, <3>3, <3>4, <4>1
    <3>6. IsInjective(t)
      BY <3>2, <3>5 DEF IsInjective
    <3>7. QED
      BY <3>1, <3>6
  <2>3. \A h : Contains(loads'[p], h) <=> Contains(loads[p], h) \/ h = g
    BY <1>1 DEF Contains
  <2>4. \A h \in Page : Contains(loads'[p], h) <=> pgd'[p][h].present
    BY <2>3 DEF Inv, QueueInv, LoadsOnce
  <2>5. QED
    BY <2>2, <2>4 DEF Inv, QueueInv, LoadsOnce
<1>6. \A r \in Proc : \A a, b : Before(loads[r], a, b) => Before(loads'[r], a, b)
  <2>1. \A a, b : Before(loads[p], a, b) => Before(loads'[p], a, b)
    <3> HIDE DEF Queued
    <3>1. PICK s, t, n : s = loads[p] /\ t = loads'[p] /\ n = Len(loads[p])
      OBVIOUS
    <3>2. /\ n \in Nat /\ DOMAIN t = 1 .. (n + 1) /\ DOMAIN s = 1 .. n
          /\ \A k \in 1 .. n : t[k] = s[k]
      BY <1>1, <3>1
    <3>3. \A k \in DOMAIN s : k \in DOMAIN t /\ t[k] = s[k]
      BY <3>2
    <3>4. \A a, b : Before(s, a, b) => Before(t, a, b)
      BY <3>3 DEF Before
    <3>5. QED
      BY <3>1, <3>4
  <2>2. \A r \in Proc \ {p} : \A a, b : Before(loads[r], a, b) => Before(loads'[r], a, b)
    BY DEF Before
  <2>3. QED
    BY <2>1, <2>2
<1>7. \A a : Contains(loads[p], a) => Before(loads'[p], a, g)
  <2>1. ASSUME NEW k \in 1 .. Len(loads[p])
        PROVE  Before(loads'[p], loads[p][k], g)
    <3>1. /\ k \in DOMAIN loads'[p] /\ Len(loads[p]) + 1 \in DOMAIN loads'[p]
          /\ k < Len(loads[p]) + 1
      BY <1>1
    <3>2. QED
      BY <1>1, <3>1 DEF Before
  <2>2. QED
    BY <2>1 DEF Contains
<1>8. QueueOrder'
  <2>1. ASSUME NEW i \in DOMAIN fifo_pgn'[p], NEW j \in DOMAIN fifo_pgn'[p], i < j
        PROVE  Before(loads'[p], fifo_pgn'[p][j], fifo_pgn'[p][i])
    <3>1. /\ j - 1 \in 1 .. Len(q) /\ fifo_pgn'[p][j] = q[j - 1]
          /\ q[j - 1] = fifo_pgn[p][j - 1]
          /\ j - 1 \in DOMAIN fifo_pgn[p]
      <4>1. j - 1 \in 1 .. Len(q) /\ (j - 1) + 1 = j
        <5> HIDE DEF Queued
        <5>1. QED
          BY <1>2, <2>1
      <4>2. QED
        BY <1>2, <1>3, <4>1
    <3>2. CASE i = 1
      <4>1. Contains(fifo_pgn[p], fifo_pgn[p][j - 1])
        BY <1>3, <3>1 DEF Contains
      <4>2. Contains(loads[p], fifo_pgn[p][j - 1])
        BY <1>3, <3>1, <4>1 DEF Inv, QueueInv, QueueResident, LoadsOnce, Resident
      <4>3. QED
        BY <1>2, <1>7, <3>1, <3>2, <4>2
    <3>3. CASE i # 1
      <4>1. i - 1 \in 1 .. Len(q) /\ (i - 1) + 1 = i /\ i - 1 < j - 1
        BY <1>2, <2>1, <3>3
      <4>2. fifo_pgn'[p][i] = fifo_pgn[p][i - 1] /\ i - 1 \in DOMAIN fifo_pgn[p]
        BY <1>2, <1>3, <4>1
      <4>3. Before(loads[p], fifo_pgn[p][j - 1], fifo_pgn[p][i - 1])
        BY <3>1, <4>1, <4>2 DEF Inv, QueueInv, QueueOrder
      <4>4. QED
        BY <1>6, <3>1, <4>2, <4>3
    <3>4. QED
      BY <3>2, <3>3
  <2>2. QED
    BY <1>6, <2>1 DEF Inv, QueueInv, QueueOrder
<1>9. \A r \in Proc \ {p}, h \in Page :
        /\ Contains(fifo_pgn'[r], h) <=> Contains(fifo_pgn[r], h)
        /\ Resident(r, h)' <=> Resident(r, h)
  BY DEF Resident, Swapped
<1>10. Resident(p, g)'
  BY DEF Resident, Swapped
<1>11. QueueResident'
  <2>1. \A r \in Proc, h \in Page : Contains(fifo_pgn[r], h) => Resident(r, h)
    BY DEF Inv, QueueInv, QueueResident
  <2>2. ASSUME NEW h \in Page \ {g}, Contains(q, h) PROVE Resident(p, h)'
    <3>1. Contains(fifo_pgn[p], h) /\ ~pgd'[p][h].swapped
      BY <2>2
    <3>2. pgd[p][h].present
      BY <2>1, <3>1 DEF Resident
    <3>3. QED
      BY <3>1, <3>2 DEF Resident, Swapped
  <2> HIDE DEF Queued
  <2>3. ASSUME NEW r \in Proc, NEW h \in Page, Contains(fifo_pgn'[r], h)
        PROVE  Resident(r, h)'
    <3>1. CASE r # p
      BY <1>9, <2>1, <2>3, <3>1
    <3>2. CASE r = p /\ h # g
      BY <1>2, <2>2, <2>3, <3>2
    <3>3. CASE r = p /\ h = g
      BY <1>10, <3>3
    <3>4. QED
      BY <3>1, <3>2, <3>3
  <2>4. QED
    BY <2>3 DEF QueueResident
<1>12. QueueWhole'
  <2>1. ASSUME NEW r \in Proc, NEW h \in Page, Resident(r, h)', swpFree # <<>>
        PROVE  Contains(fifo_pgn'[r], h)
    <3>1. Resident(r, h) => Contains(fifo_pgn[r], h)
      BY <2>1 DEF Inv, QueueInv, QueueWhole
    <3>2. CASE r # p
      BY <1>9, <2>1, <3>1, <3>2
    <3>3. CASE r = p /\ h # g
      <4>1. /\ pgd'[p][h].present /\ ~pgd'[p][h].swapped
            /\ pgd[p][h].present /\ ~pgd[p][h].swapped
        BY <2>1, <3>3 DEF Resident, Swapped
      <4>2. Contains(q, h)
        BY <3>1, <3>3, <4>1 DEF Resident, Swapped
      <4>3. QED
        BY <1>2, <3>3, <4>2
    <3>4. CASE r = p /\ h = g
      BY <1>2, <3>4
    <3>5. QED
      BY <3>2, <3>3, <3>4
  <2>2. QED
    BY <2>1 DEF QueueWhole
<1>13. QED
  BY <1>5, <1>8, <1>11, <1>12 DEF QueueInv

\* Those keeps the whole of a list whose members are all meant ...
LEMMA ThoseAll ==
  ASSUME NEW S, NEW q \in Seq(S), NEW T, \A i \in 1 .. Len(q) : q[i] \in T
  PROVE  Those(q, T) = q
<1> DEFINE at == {i \in DOMAIN q : q[i] \in T}
           nth(k) == CHOOSE i \in at : Cardinality({j \in at : j < i}) = k - 1
<1>1. Len(q) \in Nat /\ DOMAIN q = 1 .. Len(q) /\ q = [i \in 1 .. Len(q) |-> q[i]]
  OBVIOUS
<1>2. at = 1 .. Len(q)
  BY <1>1
<1>3. Cardinality(at) = Len(q)
  BY <1>1, <1>2, CountTo
<1>4. ASSUME NEW i \in at PROVE Cardinality({j \in at : j < i}) = i - 1
  <2>1. {j \in at : j < i} = 1 .. (i - 1) /\ i - 1 \in Nat
    BY <1>1, <1>2
  <2>2. QED
    BY <2>1, CountTo
<1>5. ASSUME NEW k \in 1 .. Len(q) PROVE nth(k) = k
  <2>1. k \in at
    BY <1>2
  <2>2. \E i \in at : Cardinality({j \in at : j < i}) = k - 1
    BY <1>4, <2>1
  <2>3. nth(k) \in at /\ Cardinality({j \in at : j < nth(k)}) = k - 1
    BY <2>2
  <2> HIDE DEF nth
  <2>4. nth(k) - 1 = k - 1
    BY <1>4, <2>3
  <2>5. QED
    BY <1>1, <1>2, <2>3, <2>4
<1> HIDE DEF at, nth
<1>6. [k \in 1 .. Cardinality(at) |-> q[nth(k)]] = [k \in 1 .. Len(q) |-> q[k]]
  BY <1>3, <1>5
<1>7. QED
  BY <1>1, <1>6 DEF Those, at, nth

\* ... and nothing of a list of which none is.
LEMMA ThoseNone ==
  ASSUME NEW S, NEW q \in Seq(S), NEW T, \A i \in 1 .. Len(q) : q[i] \notin T
  PROVE  DOMAIN Those(q, T) = {}
<1> DEFINE at == {i \in DOMAIN q : q[i] \in T}
<1>1. at = {}
  OBVIOUS
<1>2. Cardinality(at) = 0
  BY <1>1, FS_EmptySet
<1> HIDE DEF at
<1>3. 1 .. Cardinality(at) = {}
  BY <1>2
<1>4. QED
  BY <1>3 DEF Those, at

\* What free_pcb_memph leaves in a list of free frames.
LEMMA PutBackFrames ==
  ASSUME NEW S, NEW s \in Seq(S), NEW l \in Seq(S)
  PROVE  /\ PutBack(s, l) \in Seq(S)
         /\ \A e : Contains(PutBack(s, l), e) <=> Contains(s, e) \/ Contains(l, e)
         /\ /\ IsInjective(s) /\ IsInjective(l)
            /\ \A e : ~(Contains(s, e) /\ Contains(l, e))
            => IsInjective(PutBack(s, l))
<1> DEFINE r == Reverse(s)
           t == PutBack(s, l)
           n == Len(s)
           m == Len(l)
<1>1. n \in Nat /\ m \in Nat /\ DOMAIN s = 1 .. n /\ DOMAIN l = 1 .. m
  OBVIOUS
<1>2. r \in Seq(S) /\ Len(r) = n /\ \A i \in 1 .. n : r[i] = s[(n - i) + 1]
  BY <1>1 DEF Reverse
<1> HIDE DEF r
<1>3. /\ t \in Seq(S) /\ Len(t) = n + m /\ DOMAIN t = 1 .. (n + m)
      /\ \A i \in 1 .. (n + m) : t[i] = IF i <= n THEN r[i] ELSE l[i - n]
  <2>1. t = r \o l
    BY DEF PutBack, r
  <2>2. /\ r \o l \in Seq(S) /\ Len(r \o l) = Len(r) + Len(l)
        /\ \A i \in 1 .. Len(r) + Len(l) :
             (r \o l)[i] = IF i <= Len(r) THEN r[i] ELSE l[i - Len(r)]
    BY <1>2, ConcatProperties
  <2> HIDE DEF t
  <2>3. DOMAIN t = 1 .. Len(t)
    BY <2>1, <2>2
  <2>4. QED
    BY <1>2, <2>1, <2>2, <2>3
<1> HIDE DEF t, n, m
<1>4. /\ \A i \in 1 .. n : t[i] = s[(n - i) + 1]
      /\ \A i \in 1 .. m : t[n + i] = l[i]
  <2>1. ASSUME NEW i \in 1 .. n PROVE t[i] = s[(n - i) + 1]
    BY <1>1, <1>2, <1>3
  <2>2. ASSUME NEW i \in 1 .. m PROVE t[n + i] = l[i]
    <3>1. n + i \in 1 .. (n + m) /\ ~(n + i <= n) /\ (n + i) - n = i
      BY <1>1
    <3>2. QED
      BY <1>3, <3>1
  <2>3. QED
    BY <2>1, <2>2
<1>5. \A i \in 1 .. (n + m) :
        \/ (n - i) + 1 \in 1 .. n /\ i \in 1 .. n
        \/ i - n \in 1 .. m /\ i = n + (i - n)
  BY <1>1
<1>6. \A e : Contains(t, e) <=> Contains(s, e) \/ Contains(l, e)
  <2>1. ASSUME NEW i \in 1 .. (n + m) PROVE Contains(s, t[i]) \/ Contains(l, t[i])
    <3>1. CASE (n - i) + 1 \in 1 .. n /\ i \in 1 .. n
      BY <1>4, <3>1 DEF Contains, n
    <3>2. CASE i - n \in 1 .. m /\ i = n + (i - n)
      <4>1. t[n + (i - n)] = l[i - n]
        BY <1>4, <3>2
      <4>2. t[i] = l[i - n]
        BY <3>2, <4>1
      <4>3. QED
        BY <3>2, <4>2 DEF Contains, m
    <3>3. QED
      BY <1>5, <3>1, <3>2
  <2>2. ASSUME NEW i \in 1 .. n PROVE Contains(t, s[i])
    <3>1. /\ (n - i) + 1 \in 1 .. n /\ (n - ((n - i) + 1)) + 1 = i
          /\ (n - i) + 1 \in 1 .. (n + m)
      BY <1>1
    <3>2. t[(n - i) + 1] = s[i]
      BY <1>4, <3>1
    <3>3. QED
      BY <1>3, <3>1, <3>2 DEF Contains
  <2>3. ASSUME NEW i \in 1 .. m PROVE Contains(t, l[i])
    <3>1. n + i \in 1 .. (n + m)
      BY <1>1
    <3>2. t[n + i] = l[i]
      BY <1>4
    <3>3. QED
      BY <1>3, <3>1, <3>2 DEF Contains
  <2>4. \A e : Contains(t, e) <=> \E i \in 1 .. (n + m) : t[i] = e
    BY <1>3 DEF Contains
  <2>5. ASSUME NEW e PROVE Contains(t, e) => Contains(s, e) \/ Contains(l, e)
    BY <2>1, <2>4
  <2>6. ASSUME NEW e PROVE Contains(s, e) \/ Contains(l, e) => Contains(t, e)
    BY <2>2, <2>3 DEF Contains, n, m
  <2>7. QED
    BY <2>5, <2>6
<1>7. ASSUME IsInjective(s), IsInjective(l), \A e : ~(Contains(s, e) /\ Contains(l, e)),
             NEW i \in 1 .. (n + m), NEW j \in 1 .. (n + m), t[i] = t[j]
      PROVE  i = j
  <2>1. CASE i \in 1 .. n /\ j \in 1 .. n
    <3>1. (n - i) + 1 \in 1 .. n /\ (n - j) + 1 \in 1 .. n
      BY <1>1, <2>1
    <3>2. s[(n - i) + 1] = s[(n - j) + 1]
      BY <1>4, <1>7, <2>1
    <3>3. (n - i) + 1 = (n - j) + 1
      BY <1>1, <1>7, <3>1, <3>2 DEF IsInjective
    <3>4. QED
      BY <1>1, <3>3
  <2>2. CASE i - n \in 1 .. m /\ j - n \in 1 .. m
    <3>1. l[i - n] = l[j - n]
      BY <1>1, <1>4, <1>5, <1>7, <2>2
    <3>2. i - n = j - n
      BY <1>1, <1>7, <2>2, <3>1 DEF IsInjective
    <3>3. QED
      BY <1>1, <3>2
  <2>3. \A k \in 1 .. n, h \in 1 .. m : s[k] # l[h]
    BY <1>7 DEF Contains, n, m
  <2>4. \A a, b \in 1 .. (n + m) : a \in 1 .. n /\ b - n \in 1 .. m => t[a] # t[b]
    <3>1. ASSUME NEW a \in 1 .. (n + m), NEW b \in 1 .. (n + m), a \in 1 .. n,
                 b - n \in 1 .. m
          PROVE  t[a] # t[b]
      <4>1. t[a] = s[(n - a) + 1] /\ (n - a) + 1 \in 1 .. n
        BY <1>1, <1>4, <3>1
      <4>2. t[b] = l[b - n]
        <5>1. n + (b - n) = b
          BY <1>1
        <5>2. QED
          BY <1>4, <3>1, <5>1
      <4>3. QED
        BY <2>3, <3>1, <4>1, <4>2
    <3>2. QED
      BY <3>1
  <2>5. QED
    BY <1>5, <1>7, <2>1, <2>2, <2>4
<1>8. QED
  BY <1>3, <1>6, <1>7 DEF IsInjective, t

\* free_pcb_memph puts back the frames of the pages in the queue, all of which are
\* resident, and nothing on the list of swap.
LEMMA ReapLists ==
  ASSUME Inv, NEW p \in Proc, Reap(p)
  PROVE  \E s \in Seq(Frame) :
           /\ ramFree' = PutBack(s, ramFree) /\ swpFree' = swpFree
           /\ Len(s) = Len(fifo_pgn[p])
           /\ \A i \in 1 .. Len(s) : s[i] = PAGING_FPN(pgd[p][fifo_pgn[p][i]])
<1> DEFINE q == fifo_pgn[p]
           loaded == Those(q, {g \in Page : pgd[p][g].present})
           moved == Those(q, {g \in Page : ~pgd[p][g].present /\ Swapped(p, g)})
           s == [i \in 1 .. Len(q) |-> PAGING_FPN(pgd[p][q[i]])]
           z == [i \in DOMAIN moved |-> PAGING_SWP(pgd[p][moved[i]])]
<1>1. q \in Seq(Page) /\ swpFree \in Seq(SwapFrame)
  BY DEF Inv, TypeOK
<1>2. ASSUME NEW i \in 1 .. Len(q)
      PROVE  q[i] \in Page /\ Resident(p, q[i])
  <2>1. q[i] \in Page /\ Contains(q, q[i])
    BY <1>1 DEF Contains
  <2>2. QED
    BY <2>1 DEF Inv, QueueInv, QueueResident
<1>3. loaded = q
  BY <1>1, <1>2, ThoseAll DEF Resident
<1>4. z = <<>>
  <2>1. DOMAIN moved = {}
    BY <1>1, <1>2, ThoseNone DEF Resident
  <2> HIDE DEF moved
  <2>2. QED
    BY <2>1
<1>5. ramFree' = PutBack(s, ramFree)
  <2>1. ramFree' = PutBack([i \in DOMAIN loaded |-> PAGING_FPN(pgd[p][loaded[i]])], ramFree)
    BY DEF Reap
  <2>2. DOMAIN q = 1 .. Len(q)
    BY <1>1
  <2> HIDE DEF loaded
  <2>3. QED
    BY <1>3, <2>1, <2>2
<1>6. swpFree' = swpFree
  <2>1. swpFree' = PutBack(z, swpFree)
    BY DEF Reap
  <2>2. Reverse(<<>>) = <<>>
    BY DEF Reverse
  <2> HIDE DEF z
  <2>3. QED
    BY <1>1, <1>4, <2>1, <2>2, ConcatEmptySeq DEF PutBack
<1>7. s \in Seq(Frame) /\ Len(s) = Len(q)
  <2>1. ASSUME NEW i \in 1 .. Len(q) PROVE PAGING_FPN(pgd[p][q[i]]) \in Frame
    <3>1. <<p, q[i]>> \in Pages
      BY <1>2 DEF Pages
    <3>2. QED
      BY <1>2, <3>1, FrameOf DEF Inv, RamOf
  <2>2. Len(q) \in Nat
    BY <1>1
  <2> HIDE DEF q
  <2>3. QED
    BY <2>1, <2>2
<1>8. \A i \in 1 .. Len(q) : s[i] = PAGING_FPN(pgd[p][q[i]])
  OBVIOUS
<1> HIDE DEF s
<1>9. QED
  BY <1>5, <1>6, <1>7, <1>8

\* The frames of a process that ends go back to the device once.
LEMMA ReapFrames ==
  ASSUME Inv, NEW p \in Proc, Reap(p)
  PROVE  FramesInv' /\ QueueInv' /\ Entries'
<1>1. /\ UNCHANGED <<pgd, fifo_pgn, loads>>
      /\ p \notin reaped /\ reaped' = reaped \cup {p}
  BY DEF Reap, tables, history
<1> PICK s \in Seq(Frame) :
           /\ ramFree' = PutBack(s, ramFree) /\ swpFree' = swpFree
           /\ Len(s) = Len(fifo_pgn[p])
           /\ \A i \in 1 .. Len(s) : s[i] = PAGING_FPN(pgd[p][fifo_pgn[p][i]])
  BY ReapLists
<1>2. ramFree \in Seq(Frame) /\ fifo_pgn[p] \in Seq(Page) /\ DOMAIN s = 1 .. Len(s)
  BY DEF Inv, TypeOK
\* The pages in the queue, as pairs.
<1>3. ASSUME NEW i \in 1 .. Len(s)
      PROVE  /\ <<p, fifo_pgn[p][i]>> \in Pages /\ Holds(<<p, fifo_pgn[p][i]>>)
             /\ RamOf(<<p, fifo_pgn[p][i]>>) = s[i]
  <2>1. fifo_pgn[p][i] \in Page /\ Contains(fifo_pgn[p], fifo_pgn[p][i])
    BY <1>2 DEF Contains
  <2>2. QED
    BY <1>1, <2>1 DEF Inv, QueueInv, QueueResident, Pages, Holds, KeepsFrame, RamOf
<1>4. \A e : ~(Contains(s, e) /\ Contains(ramFree, e))
  BY <1>3 DEF Contains, Inv, FramesInv, RamOnce
<1>5. IsInjective(s)
  <2>1. ASSUME NEW i \in 1 .. Len(s), NEW j \in 1 .. Len(s), s[i] = s[j]
        PROVE  i = j
    <3>1. <<p, fifo_pgn[p][i]>> = <<p, fifo_pgn[p][j]>>
      BY <1>3, <2>1 DEF Inv, FramesInv, RamOnce
    <3>2. QED
      BY <1>2, <3>1, QueueOnce DEF IsInjective
  <2>2. QED
    BY <1>2, <2>1 DEF IsInjective
<1>6. /\ \A e : Contains(ramFree', e) <=> Contains(s, e) \/ Contains(ramFree, e)
      /\ IsInjective(ramFree')
  BY <1>2, <1>4, <1>5, PutBackFrames DEF Inv, FramesInv, RamOnce
<1>7. \A x \in Pages :
        /\ Holds(x)' <=> Holds(x) /\ ~(x[1] = p /\ Contains(fifo_pgn[p], x[2]))
        /\ RamOf(x)' = RamOf(x)
        /\ Moved(x)' <=> Moved(x)
        /\ SwpOf(x)' = SwpOf(x)
  BY <1>1 DEF Holds, KeepsFrame, Resident, RamOf, Moved, Swapped, SwpOf
<1>8. \A x \in Pages :
        x[1] = p /\ Contains(fifo_pgn[p], x[2]) => Contains(s, RamOf(x))
  BY <1>3 DEF Contains, RamOf
<1>9. ASSUME NEW x \in Pages, Holds(x)' PROVE ~Contains(s, RamOf(x))
  <2>1. ASSUME NEW i \in 1 .. Len(s), s[i] = RamOf(x) PROVE FALSE
    <3>1. x = <<p, fifo_pgn[p][i]>>
      BY <1>3, <1>7, <1>9, <2>1 DEF Inv, FramesInv, RamOnce
    <3>2. Contains(fifo_pgn[p], fifo_pgn[p][i])
      BY <1>2 DEF Contains
    <3>3. QED
      BY <1>7, <1>9, <3>1, <3>2
  <2>2. QED
    BY <2>1 DEF Contains
<1>10. RamOnce' /\ RamKept'
  <2>1. RamOnce /\ RamKept
    BY DEF Inv, FramesInv
  <2>2. RamOnce'
    BY <1>6, <1>7, <1>9, <2>1 DEF RamOnce
  <2>3. RamKept'
    BY <1>6, <1>7, <1>8, <2>1 DEF RamKept
  <2>4. QED
    BY <2>2, <2>3
<1>11. SwpOnce' /\ SwpKept'
  BY <1>7 DEF Inv, FramesInv, SwpOnce, SwpKept
<1>12. QueueInv' /\ Entries'
  BY <1>1 DEF Inv, QueueInv, LoadsOnce, QueueOrder, QueueResident, QueueWhole, Entries,
     Resident, Swapped
<1>13. QED
  BY <1>10, <1>11, <1>12 DEF FramesInv

\* With swap full the victim leaves the queue and stays where it is.
LEMMA SwapFullQueue ==
  ASSUME Inv, NEW p \in Proc \ reaped, NEW g \in Page, SwapFull(p, g)
  PROVE  FramesInv' /\ QueueInv' /\ Entries'
<1> DEFINE q == LeaveQueue(fifo_pgn[p])
<1>1. /\ UNCHANGED <<pgd, loads, ramFree, swpFree, reaped>> /\ swpFree = <<>>
      /\ fifo_pgn[p] # <<>> /\ fifo_pgn' = [fifo_pgn EXCEPT ![p] = q]
  BY DEF SwapFull, memory, history, Inv, TypeOK
<1>2. /\ q \in Seq(Page) /\ Len(q) = Len(fifo_pgn[p]) - 1
      /\ \A k \in 1 .. Len(q) : q[k] = fifo_pgn[p][k]
      /\ \A h : Contains(q, h) => Contains(fifo_pgn[p], h)
  BY <1>1, Victim
<1>3. /\ fifo_pgn \in [Proc -> Seq(Page)]
      /\ fifo_pgn[p] \in Seq(Page)
      /\ DOMAIN fifo_pgn[p] = 1 .. Len(fifo_pgn[p]) /\ Len(fifo_pgn[p]) \in Nat
      /\ DOMAIN q = 1 .. Len(q) /\ Len(q) \in Nat
  BY <1>2 DEF Inv, TypeOK
<1> HIDE DEF q
<1>4. fifo_pgn'[p] = q /\ \A r \in Proc \ {p} : fifo_pgn'[r] = fifo_pgn[r]
  BY <1>1, <1>3
<1>5. \A x \in Pages :
        /\ Holds(x)' <=> Holds(x)
        /\ RamOf(x)' = RamOf(x)
        /\ Moved(x)' <=> Moved(x)
        /\ SwpOf(x)' = SwpOf(x)
  BY <1>1, <1>4 DEF Holds, KeepsFrame, Resident, RamOf, Moved, Swapped, SwpOf, Pages
<1>6. FramesInv'
  BY <1>1, <1>5 DEF Inv, FramesInv, RamOnce, RamKept, SwpOnce, SwpKept
<1>7. QueueOrder'
  <2>1. QueueOrder
    BY DEF Inv, QueueInv
  <2>2. ASSUME NEW i \in DOMAIN q, NEW j \in DOMAIN q, i < j
        PROVE  Before(loads[p], q[j], q[i])
    <3>1. /\ i \in DOMAIN fifo_pgn[p] /\ j \in DOMAIN fifo_pgn[p]
          /\ q[i] = fifo_pgn[p][i] /\ q[j] = fifo_pgn[p][j]
      BY <1>2, <1>3
    <3>2. QED
      BY <2>1, <2>2, <3>1 DEF QueueOrder
  <2>3. QED
    BY <1>1, <1>4, <2>1, <2>2 DEF QueueOrder
<1>8. LoadsOnce' /\ QueueResident' /\ QueueWhole' /\ Entries'
  BY <1>1, <1>2, <1>4 DEF Inv, QueueInv, LoadsOnce, QueueResident, QueueWhole, Entries,
     Resident, Swapped
<1>9. QED
  BY <1>6, <1>7, <1>8 DEF QueueInv

-----------------------------------------------------------------------------
(* The invariant.                                                          *)

\* A formatted list names every frame of the device, once.
LEMMA Formatted ==
  ASSUME NEW n \in Nat
  PROVE  /\ MEMPHY_format(n) \in Seq(0 .. (n - 1)) /\ IsInjective(MEMPHY_format(n))
         /\ \A f \in 0 .. (n - 1) : Contains(MEMPHY_format(n), f)
<1>1. MEMPHY_format(n) \in Seq(0 .. (n - 1)) /\ Len(MEMPHY_format(n)) = n
  BY DEF MEMPHY_format
<1>2. IsInjective(MEMPHY_format(n))
  BY DEF MEMPHY_format, IsInjective
<1>3. ASSUME NEW f \in 0 .. (n - 1) PROVE Contains(MEMPHY_format(n), f)
  <2>1. f + 1 \in 1 .. n /\ MEMPHY_format(n)[f + 1] = f
    BY DEF MEMPHY_format
  <2>2. QED
    BY <1>1, <2>1 DEF Contains
<1>4. QED
  BY <1>1, <1>2, <1>3

\* The invariant at the start.
LEMMA InitInv == Init => Inv
<1> SUFFICES ASSUME Init PROVE Inv
  OBVIOUS
<1>1. /\ RamFrames \in Nat /\ SwpFrames \in Nat
      /\ Frame = 0 .. (RamFrames - 1) /\ SwapFrame = 0 .. (SwpFrames - 1)
  BY PagingAssumption DEF Frame, SwapFrame
<1>2. \A p \in Proc, g \in Page : pgd[p][g] = NoPte
  BY DEF Init
<1>3. TypeOK
  <2>1. NoPte \in PteType(Lows)
    BY PagingAssumption DEF NoPte, PteType, Lows, Frame
  <2>2. pgd \in [Proc -> [Page -> PteType(Lows)]]
    BY <2>1 DEF Init
  <2>3. 0 \in Content
    BY DEF Content
  <2>4. QED
    <3>1. fifo_pgn \in [Proc -> Seq(Page)] /\ loads \in [Proc -> Seq(Page)]
      BY DEF Init
    <3>2. ramFree \in Seq(Frame) /\ swpFree \in Seq(SwapFrame)
      BY <1>1, Formatted DEF Init
    <3>3. /\ ram \in [0 .. (RamFrames * PAGESZ - 1) -> Content]
          /\ swp \in [0 .. (SwpFrames * PAGESZ - 1) -> Content]
      BY <2>3 DEF Init
    <3>4. written \in [Proc -> [Page -> [Offset -> Content]]]
      BY <2>3 DEF Init
    <3>5. QED
      BY <2>2, <3>1, <3>2, <3>3, <3>4 DEF Init, TypeOK, Lows
<1>4. Entries
  BY <1>2 DEF Entries, EntryOK, Pages
<1>5. \A x \in Pages : ~Holds(x) /\ ~Moved(x)
  BY <1>2 DEF Pages, Holds, Moved, Resident, Swapped, NoPte
<1>6. FramesInv
  BY <1>1, <1>5, Formatted DEF Init, FramesInv, RamOnce, RamKept, SwpOnce, SwpKept
<1>7. QueueInv
  <2>1. \A p \in Proc : fifo_pgn[p] = <<>> /\ loads[p] = <<>>
    BY DEF Init
  <2>2. DOMAIN <<>> = {} /\ \A e : ~Contains(<<>>, e)
    BY DEF Contains
  <2>3. QED
    BY <1>2, <2>1, <2>2 DEF QueueInv, LoadsOnce, QueueOrder, QueueResident, QueueWhole,
       IsInjective, Resident, NoPte
<1>8. QED
  BY <1>3, <1>4, <1>6, <1>7 DEF Inv

\* An access to a page that is present, in RAM or not.
LEMMA HitInv ==
  ASSUME Inv, NEW p \in Proc, NEW g \in Page, NEW o \in Offset,
         NEW w \in Value \cup {NULL}, Hit(p, g, o, w)
  PROVE  Inv'
<1>1. pgd \in [Proc -> [Page -> PteType(Lows)]]
  BY DEF Inv, TypeOK, Lows
<1>2. /\ pgd' = [pgd EXCEPT ![p][g].dirty = @ \/ w # NULL]
      /\ pgd[p][g].present
      /\ UNCHANGED <<ramFree, swpFree, fifo_pgn, reaped, loads, swp, alive, crashed>>
  BY DEF Hit
<1>3. /\ pgd' \in [Proc -> [Page -> PteType(Lows)]]
      /\ \A r \in Proc, h \in Page :
           /\ pgd'[r][h].present = pgd[r][h].present
           /\ pgd'[r][h].swapped = pgd[r][h].swapped
           /\ pgd'[r][h].low = pgd[r][h].low
           /\ r # p \/ h # g => pgd'[r][h] = pgd[r][h]
  <2> DEFINE e == [pgd[p][g] EXCEPT !.dirty = pgd[p][g].dirty \/ w # NULL]
  <2>1. pgd' = [pgd EXCEPT ![p] = [pgd[p] EXCEPT ![g] = e]]
    BY <1>1, <1>2
  <2>2. /\ e \in PteType(Lows) /\ e.present = pgd[p][g].present
        /\ e.swapped = pgd[p][g].swapped /\ e.low = pgd[p][g].low
    <3>1. pgd[p][g] \in PteType(Lows)
      BY <1>1
    <3>2. (pgd[p][g].dirty \/ w # NULL) \in BOOLEAN
      OBVIOUS
    <3>3. QED
      BY <3>1, <3>2 DEF PteType
  <2> HIDE DEF e
  <2>3. QED
    BY <1>1, <2>1, <2>2
<1>4. FramesInv' /\ QueueInv'
  BY <1>2, <1>3, SameFrames DEF Pages
<1>5. Entries'
  BY <1>2, <1>3 DEF Inv, Entries, EntryOK, Pages, NoPte
<1>6. ram' \in [0 .. (RamFrames * PAGESZ - 1) -> Content]
  BY StoreTyped, PagingAssumption DEF Hit, Inv, TypeOK
<1>7. written' \in [Proc -> [Page -> [Offset -> Content]]]
  <2>1. written \in [Proc -> [Page -> [Offset -> Content]]]
    BY DEF Inv, TypeOK
  <2>2. (IF w = NULL THEN written[p][g][o] ELSE w) \in Content
    BY <2>1 DEF Content
  <2>3. QED
    BY <2>1, <2>2 DEF Hit
<1>8. TypeOK'
  BY <1>2, <1>3, <1>6, <1>7 DEF Hit, Inv, TypeOK, Lows
<1>9. QED
  BY <1>4, <1>5, <1>8 DEF Inv

\* The types that a load leaves behind, and what it does to the bytes.
LoadOK ==
  /\ pgd' \in [Proc -> [Page -> PteType(Lows)]]
  /\ fifo_pgn' \in [Proc -> Seq(Page)] /\ loads' \in [Proc -> Seq(Page)]
  /\ ramFree' \in Seq(Frame) /\ swpFree' \in Seq(SwapFrame)
  /\ ram' \in [0 .. (RamFrames * PAGESZ - 1) -> Content]
  /\ swp' \in [0 .. (SwpFrames * PAGESZ - 1) -> Content]
  /\ written' \in [Proc -> [Page -> [Offset -> Content]]]
  /\ UNCHANGED <<alive, reaped, crashed, stale>>
LoadBytes(p, g, o, w, f) ==
  /\ ram' = Store(ZeroFill(ram, f), f, o, w)
  /\ written' = [written EXCEPT ![p][g] =
       [b \in Offset |-> IF b = o /\ w # NULL THEN w ELSE 0]]

\* Loading a process keeps it.
LEMMA LoadInv ==
  ASSUME Inv, LoadOK, FramesInv', Entries', QueueInv'
  PROVE  Inv'
  BY DEF Inv, TypeOK, LoadOK, Lows

\* A page fault with a free frame: its parts, by name.
LEMMA FillEffect ==
  ASSUME Inv, NEW p \in alive, NEW g \in Page, NEW o \in Offset,
         NEW w \in Value \cup {NULL}, Fill(p, g, o, w)
  PROVE  \E f \in Frame :
           /\ p \in Proc \ reaped /\ fifo_pgn[p] \in Seq(Page)
           /\ Filled(p, g, f) /\ Queued(p, g, fifo_pgn[p]) /\ LoadOK
           /\ LoadBytes(p, g, o, w, f) /\ swp' = swp
<1>1. /\ p \in Proc /\ p \in Proc \ reaped
      /\ pgd \in [Proc -> [Page -> PteType(Lows)]]
      /\ fifo_pgn[p] \in Seq(Page) /\ ramFree \in Seq(Frame)
  BY DEF Inv, TypeOK, Lows
<1>2. /\ ~pgd[p][g].present /\ ramFree # <<>>
      /\ ramFree' = Tail(ramFree)
      /\ Load(p, g, o, w, Head(ramFree), pgd[p], fifo_pgn[p])
      /\ UNCHANGED <<swpFree, swp, alive, reaped, crashed, stale>>
  BY DEF Fill, Load, freefp_taken
<1>3. Head(ramFree) \in Frame /\ ramFree' \in Seq(Frame)
  BY <1>1, <1>2, TakeFirst
<1>4. pgd[p][g] = NoPte
  BY <1>1, <1>2, EntryAt DEF EntryOK
<1>5. /\ pgd' \in [Proc -> [Page -> PteType(Lows)]]
      /\ LoadedPte(pgd'[p][g], Head(ramFree))
      /\ \A h \in Page \ {g} : pgd'[p][h] = pgd[p][h]
      /\ \A r \in Proc \ {p} : pgd'[r] = pgd[r]
      /\ fifo_pgn' \in [Proc -> Seq(Page)] /\ fifo_pgn'[p] = <<g>> \o fifo_pgn[p]
      /\ loads' \in [Proc -> Seq(Page)] /\ loads'[p] = Append(loads[p], g)
      /\ \A r \in Proc \ {p} : fifo_pgn'[r] = fifo_pgn[r] /\ loads'[r] = loads[r]
      /\ ram' \in [0 .. (RamFrames * PAGESZ - 1) -> Content]
      /\ written' \in [Proc -> [Page -> [Offset -> Content]]]
  BY <1>1, <1>2, <1>3, <1>4, LoadTyped
<1>6. Filled(p, g, Head(ramFree))
  BY <1>2, <1>5 DEF Filled
<1>7. Queued(p, g, fifo_pgn[p])
  <2>1. \A h \in Page : Contains(fifo_pgn[p], h) => ~pgd[p][h].swapped
    BY <1>1 DEF Inv, QueueInv, QueueResident, Resident, Swapped
  <2>2. /\ Len(fifo_pgn[p]) <= Len(fifo_pgn[p])
        /\ \A k \in 1 .. Len(fifo_pgn[p]) : fifo_pgn[p][k] = fifo_pgn[p][k]
    BY <1>1
  <2>3. /\ \A h \in Page \ {g} : pgd'[p][h].present = pgd[p][h].present
        /\ \A h \in Page \ {g} :
             Contains(fifo_pgn[p], h) <=> Contains(fifo_pgn[p], h) /\ ~pgd'[p][h].swapped
        /\ \A h \in Page \ {g} : ~pgd'[p][h].swapped => ~pgd[p][h].swapped
        /\ pgd'[p][g].present /\ ~pgd'[p][g].swapped
        /\ swpFree' # <<>> => swpFree # <<>>
        /\ \A r \in Proc \ {p} :
             pgd'[r] = pgd[r] /\ fifo_pgn'[r] = fifo_pgn[r] /\ loads'[r] = loads[r]
    BY <1>2, <1>5, <2>1 DEF LoadedPte
  <2>4. QED
    BY <1>2, <1>5, <2>2, <2>3 DEF Queued
<1>8. LoadOK
  BY <1>2, <1>3, <1>5 DEF LoadOK, Inv, TypeOK
<1>9. LoadBytes(p, g, o, w, Head(ramFree))
  BY <1>2 DEF LoadBytes, Load
<1>10. QED
  BY <1>1, <1>2, <1>3, <1>6, <1>7, <1>8, <1>9

\* It keeps the invariant.
LEMMA FillInv ==
  ASSUME Inv, NEW p \in alive, NEW g \in Page, NEW o \in Offset,
         NEW w \in Value \cup {NULL}, Fill(p, g, o, w)
  PROVE  Inv'
  BY FillEffect, FillFrames, LoadQueue, LoadInv

\* A page fault that evicts a page: its parts, by name.
LEMMA ReplaceEffect ==
  ASSUME Inv, NEW p \in alive, NEW g \in Page, NEW o \in Offset,
         NEW w \in Value \cup {NULL}, Replace(p, g, o, w)
  PROVE  \E v \in Page, q \in Seq(Page), f \in Frame, b \in SwapFrame :
           /\ p \in Proc \ reaped
           /\ fifo_pgn[p] # <<>> /\ v = find_victim_page(fifo_pgn[p])
           /\ Replaced(p, g, v, f, b) /\ Queued(p, g, q) /\ LoadOK
           /\ LoadBytes(p, g, o, w, f) /\ swp' = swap_cp_page(ram, f, swp, b)
<1>0. PICK v, q, b : v = find_victim_page(fifo_pgn[p]) /\ q = LeaveQueue(fifo_pgn[p])
                     /\ b = Head(swpFree)
  OBVIOUS
<1>f. PICK f, m : f = PAGING_FPN(pgd[p][v]) /\ m = pte_set_swap(pgd[p][v], b)
  OBVIOUS
<1>t. PICK t : t = [pgd[p] EXCEPT ![v] = m]
  OBVIOUS
<1>1. /\ p \in Proc /\ p \in Proc \ reaped
      /\ pgd \in [Proc -> [Page -> PteType(Lows)]]
      /\ fifo_pgn[p] \in Seq(Page) /\ swpFree \in Seq(SwapFrame)
  BY DEF Inv, TypeOK, Lows
<1>2. /\ ~pgd[p][g].present /\ Len(fifo_pgn[p]) >= 2 /\ swpFree # <<>>
      /\ swpFree' = Tail(swpFree)
      /\ swp' = swap_cp_page(ram, f, swp, b)
      /\ UNCHANGED <<ramFree, alive, reaped, crashed, stale>>
  BY <1>0, <1>f DEF Replace, Load, freefp_taken
<1>3. Load(p, g, o, w, f, t, q)
  <2>1. t = [pgd[p] EXCEPT ![v] = pte_set_swap(@, b)]
    BY <1>1, <1>f, <1>t
  <2>2. QED
    BY <1>0, <1>f, <2>1 DEF Replace
<1>4. fifo_pgn[p] # <<>>
  BY <1>1, <1>2
<1>5. /\ v \in Page /\ Resident(p, v)
      /\ q \in Seq(Page) /\ Len(q) = Len(fifo_pgn[p]) - 1
      /\ \A k \in 1 .. Len(q) : q[k] = fifo_pgn[p][k]
      /\ \A h : Contains(q, h) <=> Contains(fifo_pgn[p], h) /\ h # v
  <2>1. v \in Page /\ Resident(p, v) /\ q \in Seq(Page) /\ Len(q) = Len(fifo_pgn[p]) - 1
    BY <1>0, <1>1, <1>4, Victim
  <2>2. \A k \in 1 .. Len(q) : q[k] = fifo_pgn[p][k]
    BY <1>0, <1>1, <1>4, Victim
  <2>3. \A h : Contains(q, h) <=> Contains(fifo_pgn[p], h) /\ h # v
    BY <1>0, <1>1, <1>4, Victim
  <2>4. QED
    BY <2>1, <2>2, <2>3
<1>6. f \in Frame /\ b \in SwapFrame /\ swpFree' \in Seq(SwapFrame)
  <2>1. EntryOK(pgd[p][v])
    BY <1>1, <1>5, EntryAt
  <2>2. f \in Frame
    BY <1>f, <1>5, <2>1, FrameInEntry DEF EntryOK, Resident, Swapped, PAGING_FPN, NoPte
  <2>3. QED
    BY <1>0, <1>1, <1>2, <2>2, TakeFirst
<1>7. m \in PteType(Lows) /\ m.present /\ m.swapped /\ m.low = b * SWPSTRIDE
  <2>1. pgd[p][v] \in PteType(Lows)
    BY <1>1, <1>5
  <2>2. QED
    BY <1>f, <1>6, <2>1, EntryMoved
<1>8. /\ t \in [Page -> PteType(Lows)] /\ t[v] = m
      /\ \A h \in Page \ {v} : t[h] = pgd[p][h]
  BY <1>t, <1>1, <1>5, <1>7
<1>9. pgd[p][g] = NoPte /\ g # v
  BY <1>1, <1>2, <1>5, EntryAt DEF EntryOK, Resident
<1>10. t[g] = NoPte
  BY <1>8, <1>9
<1>11. /\ pgd' \in [Proc -> [Page -> PteType(Lows)]]
       /\ LoadedPte(pgd'[p][g], f)
       /\ \A h \in Page \ {g} : pgd'[p][h] = t[h]
       /\ \A r \in Proc \ {p} : pgd'[r] = pgd[r]
       /\ fifo_pgn' \in [Proc -> Seq(Page)] /\ fifo_pgn'[p] = <<g>> \o q
       /\ loads' \in [Proc -> Seq(Page)] /\ loads'[p] = Append(loads[p], g)
       /\ \A r \in Proc \ {p} : fifo_pgn'[r] = fifo_pgn[r] /\ loads'[r] = loads[r]
       /\ ram' \in [0 .. (RamFrames * PAGESZ - 1) -> Content]
       /\ written' \in [Proc -> [Page -> [Offset -> Content]]]
  BY <1>1, <1>3, <1>5, <1>6, <1>8, <1>10, LoadTyped, Zenon
<1>12. /\ pgd'[p][v] = m
       /\ \A h \in Page \ {g, v} : pgd'[p][h] = pgd[p][h]
  BY <1>5, <1>8, <1>9, <1>11
<1>13. Replaced(p, g, v, f, b)
  <2>1. pgd'[p][v].present /\ pgd'[p][v].swapped /\ pgd'[p][v].low = b * SWPSTRIDE
    BY <1>7, <1>12
  <2>2. QED
    BY <1>0, <1>f, <1>2, <1>5, <1>11, <1>12, <2>1 DEF Replaced
<1>14. Queued(p, g, q)
  <2>1. \A h \in Page : Contains(fifo_pgn[p], h) => ~pgd[p][h].swapped
    BY <1>1 DEF Inv, QueueInv, QueueResident, Resident, Swapped
  <2>2. Len(q) <= Len(fifo_pgn[p])
    BY <1>1, <1>5
  <2>3. /\ \A h \in Page \ {g} : pgd'[p][h].present = pgd[p][h].present
        /\ \A h \in Page \ {g} :
             Contains(q, h) <=> Contains(fifo_pgn[p], h) /\ ~pgd'[p][h].swapped
        /\ \A h \in Page \ {g} : ~pgd'[p][h].swapped => ~pgd[p][h].swapped
        /\ pgd'[p][g].present /\ ~pgd'[p][g].swapped
        /\ swpFree' # <<>> => swpFree # <<>>
        /\ \A r \in Proc \ {p} :
             pgd'[r] = pgd[r] /\ fifo_pgn'[r] = fifo_pgn[r] /\ loads'[r] = loads[r]
    <3>1. pgd[p][v].present
      BY <1>5 DEF Resident
    <3>2. \A h \in Page \ {g} : pgd'[p][h].present = pgd[p][h].present
      <4>1. pgd[p][v] \in PteType(Lows)
        BY <1>1, <1>5
      <4>2. m.present = pgd[p][v].present
        BY <1>7, <3>1, <4>1 DEF PteType
      <4>3. QED
        BY <1>12, <4>2
    <3>3. ASSUME NEW h \in Page \ {g}
          PROVE  /\ Contains(q, h) <=> Contains(fifo_pgn[p], h) /\ ~pgd'[p][h].swapped
                 /\ ~pgd'[p][h].swapped => ~pgd[p][h].swapped
      <4>1. CASE h = v
        BY <1>5, <1>7, <1>12, <4>1
      <4>2. CASE h # v
        BY <1>5, <1>12, <2>1, <4>2
      <4>3. QED
        BY <4>1, <4>2
    <3>4. swpFree' # <<>> => swpFree # <<>>
      BY <1>2
    <3>5. QED
      BY <1>11, <3>2, <3>3, <3>4 DEF LoadedPte
  <2>4. QED
    BY <1>2, <1>5, <1>11, <2>2, <2>3 DEF Queued
<1>15. swp' \in [0 .. (SwpFrames * PAGESZ - 1) -> Content]
  BY <1>2, <1>6, CopyTyped, PagingAssumption DEF Inv, TypeOK, Frame
<1>16. LoadOK
  BY <1>2, <1>6, <1>11, <1>15 DEF LoadOK, Inv, TypeOK
<1>17. LoadBytes(p, g, o, w, f)
  BY <1>3 DEF LoadBytes, Load
<1>18. QED
  BY <1>0, <1>1, <1>2, <1>4, <1>5, <1>6, <1>13, <1>14, <1>16, <1>17

\* It keeps the invariant.
LEMMA ReplaceInv ==
  ASSUME Inv, NEW p \in alive, NEW g \in Page, NEW o \in Offset,
         NEW w \in Value \cup {NULL}, Replace(p, g, o, w)
  PROVE  Inv'
  BY ReplaceEffect, ReplaceFrames, LoadQueue, LoadInv

\* Every step keeps the invariant.
LEMMA NextInv ==
  ASSUME Inv, [Next]_vars
  PROVE  Inv'
<1>1. ASSUME NEW p \in Live, NEW g \in Page, NEW o \in Offset, NEW w \in Value \cup {NULL},
             Access(p, g, o, w)
      PROVE  Inv'
  <2>1. p \in alive /\ p \in Proc /\ p \in Proc \ reaped
    BY DEF Live, Inv, TypeOK
  <2>2. CASE Hit(p, g, o, w)
    BY <2>1, <2>2, HitInv
  <2>3. CASE Fill(p, g, o, w)
    BY <2>1, <2>3, FillInv
  <2>4. CASE Replace(p, g, o, w)
    BY <2>1, <2>4, ReplaceInv
  <2>5. CASE NoVictim(p, g)
    BY <2>5 DEF NoVictim, vars, Inv, TypeOK, Entries, FramesInv, RamOnce, RamKept, SwpOnce,
       SwpKept, QueueInv, LoadsOnce, QueueOrder, QueueResident, QueueWhole, Holds, Moved,
       Resident, Swapped, KeepsFrame, RamOf, SwpOf
  <2>6. CASE Crash(p, g)
    <3>0. UNCHANGED <<tables, memory, alive, reaped, history>> /\ crashed' = TRUE
      BY <2>6 DEF Crash, CrashInVictim, CrashInList
    <3>1. FramesInv' /\ QueueInv'
      BY <3>0, SameFrames DEF tables, memory, history
    <3>2. TypeOK' /\ Entries'
      BY <3>0 DEF tables, memory, history, Inv, TypeOK, Entries
    <3>3. QED
      BY <3>1, <3>2 DEF Inv
  <2>7. CASE SwapFull(p, g)
    <3>1. FramesInv' /\ QueueInv' /\ Entries'
      BY <2>1, <2>7, SwapFullQueue
    <3>2. LeaveQueue(fifo_pgn[p]) \in Seq(Page)
      <4>1. fifo_pgn[p] # <<>>
        BY <2>1, <2>7 DEF SwapFull, Inv, TypeOK
      <4>2. QED
        BY <2>1, <4>1, Victim
    <3>3. TypeOK'
      BY <2>7, <3>2 DEF SwapFull, memory, history, Inv, TypeOK
    <3>4. QED
      BY <3>1, <3>3 DEF Inv
  <2>8. QED
    BY <1>1, <2>2, <2>3, <2>4, <2>5, <2>6, <2>7 DEF Access, Served, Refused, Crash
<1>2. ASSUME NEW p \in Live, End(p) PROVE Inv'
  <2>1. FramesInv' /\ QueueInv'
    BY <1>2, SameFrames DEF End, tables, memory, history
  <2>2. TypeOK' /\ Entries'
    BY <1>2 DEF End, tables, memory, history, Inv, TypeOK, Entries
  <2>3. QED
    BY <2>1, <2>2 DEF Inv
<1>3. ASSUME NEW p \in Proc, Reap(p) PROVE Inv'
  <2>1. FramesInv' /\ QueueInv' /\ Entries'
    BY <1>3, ReapFrames
  <2>2. PICK s \in Seq(Frame) : ramFree' = PutBack(s, ramFree) /\ swpFree' = swpFree
    BY <1>3, ReapLists
  <2>3. ramFree' \in Seq(Frame)
    BY <2>2, PutBackFrames DEF Inv, TypeOK
  <2>4. TypeOK'
    BY <1>3, <2>2, <2>3 DEF Reap, tables, history, Inv, TypeOK
  <2>5. QED
    BY <2>1, <2>4 DEF Inv
<1>4. CASE UNCHANGED vars
  BY <1>4 DEF vars, Inv, TypeOK, Entries, FramesInv, RamOnce, RamKept, SwpOnce,
     SwpKept, QueueInv, LoadsOnce, QueueOrder, QueueResident, QueueWhole, Holds, Moved,
     Resident, Swapped, KeepsFrame, RamOf, SwpOf
<1>5. QED
  BY <1>1, <1>2, <1>3, <1>4 DEF Next

\* In every state, Inv holds.
LEMMA Invariant == Spec => []Inv
<1>1. QED
  BY InitInv, NextInv, PTL DEF Spec

-----------------------------------------------------------------------------
(* Frames and queues.                                                      *)

\* Every RAM frame is free, once, or belongs to one resident page, whatever was
\* loaded, replaced, ended and put back: FramesApart holds of every reachable
\* state, with any number of processes, pages and frames.
THEOREM RamShared == Spec => []FramesApart
<1>1. ASSUME Inv, NEW f \in Frame
      PROVE  Cardinality({x \in ResidentPages : RamOf(x) = f /\ KeepsFrame(x)}) =
               IF Contains(ramFree, f) THEN 0 ELSE 1
  <2> DEFINE T == {x \in ResidentPages : RamOf(x) = f /\ KeepsFrame(x)}
  <2>1. \A x : x \in T <=> x \in Pages /\ Holds(x) /\ RamOf(x) = f
    BY DEF ResidentPages, Holds
  <2> HIDE DEF T
  <2>2. CASE Contains(ramFree, f)
    <3>1. T = {}
      BY <1>1, <2>1, <2>2 DEF Inv, FramesInv, RamOnce
    <3>2. QED
      BY <2>2, <3>1, FS_EmptySet DEF T
  <2>3. CASE ~Contains(ramFree, f)
    <3>1. PICK x \in Pages : Holds(x) /\ RamOf(x) = f
      BY <1>1, <2>3 DEF Inv, FramesInv, RamKept
    <3>2. T = {x}
      BY <1>1, <2>1, <3>1 DEF Inv, FramesInv, RamOnce
    <3>3. QED
      BY <2>3, <3>2, FS_Singleton DEF T
  <2>4. QED
    BY <2>2, <2>3
<1>2. Inv => FramesApart
  BY <1>1 DEF Inv, FramesInv, RamOnce, FramesApart
<1>3. QED
  BY <1>2, Invariant, PTL

\* The same for the frames of swap: SwapApart holds of every reachable state.
THEOREM SwapShared == Spec => []SwapApart
<1>1. ASSUME Inv, NEW f \in SwapFrame
      PROVE  Cardinality({x \in SwappedPages : SwpOf(x) = f}) =
               IF Contains(swpFree, f) THEN 0 ELSE 1
  <2> DEFINE T == {x \in SwappedPages : SwpOf(x) = f}
  <2>1. \A x : x \in T <=> x \in Pages /\ Moved(x) /\ SwpOf(x) = f
    BY DEF SwappedPages, Moved
  <2> HIDE DEF T
  <2>2. CASE Contains(swpFree, f)
    <3>1. T = {}
      BY <1>1, <2>1, <2>2 DEF Inv, FramesInv, SwpOnce
    <3>2. QED
      BY <2>2, <3>1, FS_EmptySet DEF T
  <2>3. CASE ~Contains(swpFree, f)
    <3>1. PICK x \in Pages : Moved(x) /\ SwpOf(x) = f
      BY <1>1, <2>3 DEF Inv, FramesInv, SwpKept
    <3>2. T = {x}
      BY <1>1, <2>1, <3>1 DEF Inv, FramesInv, SwpOnce
    <3>3. QED
      BY <2>3, <3>2, FS_Singleton DEF T
  <2>4. QED
    BY <2>2, <2>3
<1>2. Inv => SwapApart
  BY <1>1 DEF Inv, FramesInv, SwpOnce, SwapApart
<1>3. QED
  BY <1>2, Invariant, PTL

\* A history in which every page is once orders its pages one way.
LEMMA OneOrder ==
  ASSUME NEW s, IsInjective(s), DOMAIN s \subseteq Int, NEW g, NEW h, Before(s, g, h)
  PROVE  ~Before(s, h, g)
  BY DEF Before, IsInjective

\* As long as swap has room, the queue of a process is the list of its resident
\* pages, the latest first: FifoTracksResident holds of every reachable state.
THEOREM QueueTracks == Spec => []FifoTracksResident
<1>1. ASSUME Inv, swpFree # <<>>, NEW p \in Proc
      PROVE  /\ \A g \in Page : Contains(fifo_pgn[p], g) <=> Resident(p, g)
             /\ \A i, j \in DOMAIN fifo_pgn[p] : i < j =>
                  /\ Before(loads[p], fifo_pgn[p][j], fifo_pgn[p][i])
                  /\ ~Before(loads[p], fifo_pgn[p][i], fifo_pgn[p][j])
  <2>1. \A g \in Page : Contains(fifo_pgn[p], g) <=> Resident(p, g)
    BY <1>1 DEF Inv, QueueInv, QueueResident, QueueWhole
  <2>2. IsInjective(loads[p]) /\ DOMAIN loads[p] \subseteq Int
    BY <1>1 DEF Inv, TypeOK, QueueInv, LoadsOnce
  <2>3. \A i, j \in DOMAIN fifo_pgn[p] :
          i < j => Before(loads[p], fifo_pgn[p][j], fifo_pgn[p][i])
    BY <1>1 DEF Inv, QueueInv, QueueOrder
  <2>4. QED
    BY <2>1, <2>2, <2>3, OneOrder
<1>2. Inv => FifoTracksResident
  BY <1>1 DEF FifoTracksResident
<1>3. QED
  BY <1>2, Invariant, PTL

\* What a step may do to the entry of a page: set its dirty bit, load it for the
\* first time, or move it to swap as the victim of its own process.
LEMMA EntrySteps ==
  ASSUME Inv, [Next]_vars, NEW p \in Proc, NEW g \in Page
  PROVE  \/ pgd'[p][g] = [pgd[p][g] EXCEPT !.dirty = pgd'[p][g].dirty]
         \/ ~pgd[p][g].present
         \/ /\ fifo_pgn[p] # <<>> /\ g = find_victim_page(fifo_pgn[p])
            /\ Resident(p, g) /\ swpFree # <<>> /\ loads'[p] # loads[p]
<1>1. pgd \in [Proc -> [Page -> PteType(Lows)]]
  BY DEF Inv, TypeOK, Lows
<1>2. \A e \in PteType(Lows) : e = [e EXCEPT !.dirty = e.dirty]
  BY DEF PteType
<1>3. CASE pgd'[p][g] = pgd[p][g]
  BY <1>1, <1>2, <1>3
<1>4. ASSUME NEW r \in Live, NEW h \in Page, NEW o \in Offset, NEW w \in Value \cup {NULL},
             Access(r, h, o, w), pgd'[p][g] # pgd[p][g]
      PROVE  \/ pgd'[p][g] = [pgd[p][g] EXCEPT !.dirty = pgd'[p][g].dirty]
             \/ ~pgd[p][g].present
             \/ /\ fifo_pgn[p] # <<>> /\ g = find_victim_page(fifo_pgn[p])
                /\ Resident(p, g) /\ swpFree # <<>> /\ loads'[p] # loads[p]
  <2>1. r \in alive /\ r \in Proc
    BY DEF Live, Inv, TypeOK
  <2>2. CASE Hit(r, h, o, w)
    <3> DEFINE e == [pgd[p][g] EXCEPT !.dirty = pgd[p][g].dirty \/ w # NULL]
    <3>1. pgd' = [pgd EXCEPT ![r] = [pgd[r] EXCEPT ![h] =
                    [pgd[r][h] EXCEPT !.dirty = pgd[r][h].dirty \/ w # NULL]]]
      BY <1>1, <2>1, <2>2 DEF Hit
    <3>2. p = r /\ g = h
      BY <1>1, <1>4, <2>1, <3>1
    <3>3. pgd'[p][g] = e
      <4> HIDE DEF e
      <4>1. pgd' = [pgd EXCEPT ![p] = [pgd[p] EXCEPT ![g] = e]]
        BY <3>1, <3>2 DEF e
      <4>2. QED
        BY <1>1, <4>1
    <3>4. \A d : [pgd[p][g] EXCEPT !.dirty = d].dirty = d
      BY <1>1 DEF PteType
    <3>5. QED
      BY <3>3, <3>4
  <2>3. CASE Fill(r, h, o, w)
    <3>1. PICK f \in Frame : Filled(r, h, f)
      BY <2>1, <2>3, FillEffect
    <3>2. p = r /\ g = h
      BY <1>4, <3>1 DEF Filled
    <3>3. QED
      BY <3>1, <3>2 DEF Filled
  <2>4. CASE Replace(r, h, o, w)
    <3>1. PICK v \in Page, q \in Seq(Page), f \in Frame, b \in SwapFrame :
            /\ fifo_pgn[r] # <<>> /\ v = find_victim_page(fifo_pgn[r])
            /\ Replaced(r, h, v, f, b) /\ Queued(r, h, q)
      BY <2>1, <2>4, ReplaceEffect
    <3>2. p = r /\ g \in {h, v}
      BY <1>4, <3>1 DEF Replaced
    <3>3. loads'[r] # loads[r]
      <4>1. loads[r] \in Seq(Page) /\ Len(loads[r]) \in Nat
        BY <2>1 DEF Inv, TypeOK
      <4>2. Len(Append(loads[r], h)) = Len(loads[r]) + 1
        BY <4>1
      <4>3. loads'[r] = Append(loads[r], h)
        BY <3>1 DEF Queued
      <4>4. QED
        BY <4>1, <4>2, <4>3
    <3>4. QED
      BY <3>1, <3>2, <3>3 DEF Replaced
  <2>5. QED
    BY <1>4, <2>2, <2>3, <2>4 DEF Access, Served, Refused, Crash, NoVictim, CrashInVictim,
       CrashInList, SwapFull, tables, vars
<1>5. CASE (\E r \in Live : End(r)) \/ (\E r \in Proc : Reap(r)) \/ UNCHANGED vars
  BY <1>3, <1>5 DEF End, Reap, tables, vars
<1>6. QED
  BY <1>3, <1>4, <1>5 DEF Next

\* A page that leaves RAM was loaded before all other resident pages of its
\* process, which itself faulted: EvictsOldest holds of every step.
THEOREM OldestLeaves == Spec => EvictsOldest
<1>1. ASSUME Inv, [Next]_vars, NEW p \in Proc, NEW g \in Page, Resident(p, g),
             Swapped(p, g)'
      PROVE  /\ loads'[p] # loads[p]
             /\ \A h \in Page \ {g} : Resident(p, h) => Before(loads[p], g, h)
  <2>1. ~pgd[p][g].swapped /\ pgd'[p][g].swapped /\ pgd[p][g].present
    BY <1>1 DEF Resident, Swapped
  <2>2. pgd'[p][g] # [pgd[p][g] EXCEPT !.dirty = pgd'[p][g].dirty]
    <3>1. pgd[p][g] \in PteType(Lows)
      <4>1. pgd \in [Proc -> [Page -> PteType(Lows)]]
        BY <1>1 DEF Inv, TypeOK, Lows
      <4>2. QED
        BY <4>1
    <3>2. ASSUME NEW e \in PteType(Lows), NEW d
          PROVE  [e EXCEPT !.dirty = d].swapped = e.swapped
      <4>1. "swapped" \in DOMAIN e
        BY DEF PteType
      <4>2. QED
        BY <4>1
    <3>3. QED
      BY <2>1, <3>1, <3>2
  <2>3. /\ fifo_pgn[p] # <<>> /\ g = find_victim_page(fifo_pgn[p])
        /\ swpFree # <<>> /\ loads'[p] # loads[p]
    BY <1>1, <2>1, <2>2, EntrySteps
  <2>4. ASSUME NEW h \in Page \ {g}, Resident(p, h)
        PROVE  Before(loads[p], g, h)
    <3> DEFINE n == Len(fifo_pgn[p])
    <3>1. n \in Nat /\ g = fifo_pgn[p][n] /\ DOMAIN fifo_pgn[p] = 1 .. n
      BY <1>1, <2>3 DEF find_victim_page, Last, Inv, TypeOK
    <3>2. PICK i \in 1 .. n : fifo_pgn[p][i] = h
      BY <1>1, <2>3, <2>4 DEF Inv, QueueInv, QueueWhole, Contains
    <3> HIDE DEF n
    <3>3. i < n /\ n \in 1 .. n
      BY <3>1, <3>2
    <3>4. QED
      BY <1>1, <3>1, <3>2, <3>3 DEF Inv, QueueInv, QueueOrder
  <2>5. QED
    BY <2>3, <2>4
<1>2. Inv /\ [Next]_vars =>
        [\A p \in Proc, g \in Page :
           (Resident(p, g) /\ Swapped(p, g)') =>
             /\ \A h \in Page \ {g} : Resident(p, h) => Before(loads[p], g, h)
             /\ loads'[p] # loads[p]]_vars
  BY <1>1
<1>3. QED
  BY <1>2, Invariant, PTL DEF Spec, EvictsOldest

\* The entry of a page in swap never changes again, but for its dirty bit:
\* SwapIsForever holds of every step.
THEOREM NeverBack == Spec => SwapIsForever
<1>1. ASSUME Inv, [Next]_vars, NEW x \in Pages, Swapped(x[1], x[2])
      PROVE  pgd'[x[1]][x[2]] =
               [pgd[x[1]][x[2]] EXCEPT !.dirty = pgd'[x[1]][x[2]].dirty]
  <2>1. x[1] \in Proc /\ x[2] \in Page
    BY DEF Pages
  <2>2. pgd[x[1]][x[2]].present
    BY <1>1, FrameOf DEF Inv, Moved
  <2>3. QED
    BY <1>1, <2>1, <2>2, EntrySteps DEF Resident, Swapped
<1>2. Inv /\ [Next]_vars =>
        [\A x \in Pages : Swapped(x[1], x[2]) =>
           pgd'[x[1]][x[2]] =
             [pgd[x[1]][x[2]] EXCEPT !.dirty = pgd'[x[1]][x[2]].dirty]]_vars
  BY <1>1
<1>3. QED
  BY <1>2, Invariant, PTL DEF Spec, SwapIsForever

-----------------------------------------------------------------------------
(* The null dereference.                                                   *)

HasQueue(p) == p \in Proc \ reaped /\ fifo_pgn[p] # <<>>
CrashInv ==
  crashed /\ swpFree # <<>> /\ RamFrames > 1 =>
    \E r, s : r # s /\ HasQueue(r) /\ HasQueue(s)

\* With swap not full, all of RAM in use and one page in its queue, a process is
\* not alone: two frames cannot both be that one page's.  There are two, by the
\* last hypothesis.
LEMMA AnotherQueue ==
  ASSUME Inv, NEW p \in alive, NEW g \in Page, CrashInVictim(p, g), swpFree # <<>>,
         RamFrames > 1
  PROVE  \E s : s # p /\ HasQueue(p) /\ HasQueue(s)
<1>1. /\ p \in Proc /\ p \notin reaped /\ ramFree = <<>>
      /\ Len(fifo_pgn[p]) = 1 /\ fifo_pgn[p] # <<>>
  <2>1. p \in Proc /\ p \notin reaped /\ fifo_pgn[p] \in Seq(Page)
    BY DEF Inv, TypeOK
  <2>2. ramFree = <<>> /\ Len(fifo_pgn[p]) = 1
    BY DEF CrashInVictim
  <2>3. fifo_pgn[p] # <<>>
    BY <2>2, EmptySeq
  <2>4. QED
    BY <2>1, <2>2, <2>3
<1>2. 0 \in Frame /\ 1 \in Frame
  BY PagingAssumption DEF Frame
<1>3. \A f : ~Contains(ramFree, f)
  BY <1>1 DEF Contains
<1>4. PICK x \in Pages : Holds(x) /\ RamOf(x) = 0
  BY <1>2, <1>3 DEF Inv, FramesInv, RamKept
<1>5. PICK y \in Pages : Holds(y) /\ RamOf(y) = 1
  BY <1>2, <1>3 DEF Inv, FramesInv, RamKept
<1>6. \A z \in Pages : Holds(z) =>
        Contains(fifo_pgn[z[1]], z[2]) /\ z[1] \in Proc \ reaped
  BY DEF Inv, QueueInv, QueueWhole, Holds, KeepsFrame, Pages
<1>7. \A z \in Pages : Holds(z) => HasQueue(z[1])
  BY <1>6 DEF Contains, HasQueue, Inv, TypeOK
<1>8. ~(x[1] = p /\ y[1] = p)
  <2>1. SUFFICES ASSUME x[1] = p, y[1] = p PROVE FALSE
    OBVIOUS
  <2>2. x[2] = y[2]
    BY <1>1, <1>4, <1>5, <1>6, <2>1 DEF Contains
  <2>3. QED
    BY <1>4, <1>5, <2>1, <2>2 DEF RamOf
<1>9. QED
  BY <1>1, <1>4, <1>5, <1>7, <1>8 DEF HasQueue

\* A process that has two frames or more for itself always finds a victim, and one
\* that is alone with swap to spare cannot bring the program down, but where RAM
\* has a single frame: CrashNeedsTwo holds of every reachable state.
THEOREM CrashTakesTwo == Spec => []CrashNeedsTwo
<1>1. Init => CrashInv
  BY DEF Init, CrashInv
<1>2. ASSUME Inv, CrashInv, [Next]_vars PROVE CrashInv'
  <2>1. CASE UNCHANGED <<crashed, swpFree, fifo_pgn, reaped>>
    BY <1>2, <2>1 DEF CrashInv, HasQueue
  <2>2. CASE ~crashed'
    BY <2>2 DEF CrashInv
  <2>3. ASSUME NEW p \in Live, NEW g \in Page, NEW o \in Offset,
               NEW w \in Value \cup {NULL}, Access(p, g, o, w)
        PROVE  CrashInv'
    <3>1. ~crashed /\ p \in alive
      BY DEF Live
    <3>2. CASE Crash(p, g)
      <4>1. UNCHANGED <<swpFree, fifo_pgn, reaped>>
        BY <3>2 DEF Crash, CrashInVictim, CrashInList, tables, memory
      <4>2. swpFree # <<>> /\ RamFrames > 1 => CrashInVictim(p, g)
        BY <3>2 DEF Crash, CrashInList
      <4>3. swpFree # <<>> /\ RamFrames > 1 => \E s : s # p /\ HasQueue(p) /\ HasQueue(s)
        BY <1>2, <3>1, <4>2, AnotherQueue
      <4>4. QED
        BY <4>1, <4>3 DEF CrashInv, HasQueue
    <3>3. CASE ~Crash(p, g)
      <4>1. crashed' = crashed
        BY <2>3, <3>3 DEF Access, Served, Refused, Hit, Fill, Replace, Load, NoVictim,
           SwapFull, vars
      <4>2. QED
        BY <2>2, <3>1, <4>1
    <3>4. QED
      BY <3>2, <3>3
  <2>4. CASE (\E p \in Live : End(p)) \/ (~crashed /\ \E p \in Proc : Reap(p))
    BY <2>2, <2>4 DEF Live, End, Reap
  <2>5. QED
    BY <1>2, <2>1, <2>3, <2>4 DEF Next, vars
<1>3. ASSUME Inv, CrashInv PROVE CrashNeedsTwo
  <2> DEFINE T == {p \in Proc \ reaped : fifo_pgn[p] # <<>>}
  <2>1. SUFFICES ASSUME crashed, swpFree # <<>>, RamFrames > 1 PROVE Cardinality(T) >= 2
    BY DEF CrashNeedsTwo
  <2>2. PICK r, s : r # s /\ r \in T /\ s \in T
    BY <1>3, <2>1 DEF CrashInv, HasQueue
  <2>3. IsFiniteSet(T) /\ Cardinality(T) \in Nat
    BY PagingAssumption, FS_Subset, FS_CardinalityType
  <2> HIDE DEF T
  <2>4. /\ IsFiniteSet({s}) /\ Cardinality({s}) = 1
        /\ {s, r} = {s} \cup {r} /\ r \notin {s}
    BY <2>2, FS_Singleton
  <2>5. Cardinality({s} \cup {r}) = 2
    BY <2>4, FS_AddElement
  <2>6. Cardinality({s} \cup {r}) <= Cardinality(T)
    BY <2>2, <2>3, FS_Subset
  <2>7. QED
    BY <2>3, <2>5, <2>6
<1>4. QED
  BY <1>1, <1>2, <1>3, Invariant, PTL DEF Spec

-----------------------------------------------------------------------------
(* Data.                                                                   *)

\* Byte b of frame h after a store to byte o of frame f, a fill and a copy.
LEMMA StoreBytes ==
  ASSUME NEW n \in Nat, NEW d \in [0 .. (n * PAGESZ - 1) -> Content]
  PROVE  \A f, h \in 0 .. (n - 1), o, b \in Offset : \A w :
           Store(d, f, o, w)[Physical(h, b)] =
             IF h = f /\ b = o /\ w # NULL THEN w ELSE d[Physical(h, b)]
<1>1. SUFFICES ASSUME NEW f \in 0 .. (n - 1), NEW h \in 0 .. (n - 1), NEW o \in Offset,
                      NEW b \in Offset, NEW w
               PROVE  Store(d, f, o, w)[Physical(h, b)] =
                        IF h = f /\ b = o /\ w # NULL THEN w ELSE d[Physical(h, b)]
  OBVIOUS
<1>2. /\ Physical(f, o) \in 0 .. (n * PAGESZ - 1)
      /\ Physical(h, b) \in 0 .. (n * PAGESZ - 1)
      /\ Physical(f, o) = Physical(h, b) <=> f = h /\ o = b
  BY BytesApart
<1>3. QED
  BY <1>2 DEF Store, MEMPHY_write

\* The same of RAM as it is.
LEMMA RamBytes ==
  ASSUME RamFrames \in Nat, ram \in [0 .. (RamFrames * PAGESZ - 1) -> Content]
  PROVE  \A f, h \in 0 .. (RamFrames - 1), o, b \in Offset : \A w :
           Store(ram, f, o, w)[Physical(h, b)] =
             IF h = f /\ b = o /\ w # NULL THEN w ELSE ram[Physical(h, b)]
  BY StoreBytes, Zenon

\* Bytes of other pages are not touched by a page that is filled.
LEMMA FillBytes ==
  ASSUME NEW n \in Nat, NEW d \in [0 .. (n * PAGESZ - 1) -> Content],
         NEW f \in 0 .. (n - 1), NEW h \in 0 .. (n - 1), NEW b \in Offset
  PROVE  ZeroFill(d, f)[Physical(h, b)] = IF h = f THEN 0 ELSE d[Physical(h, b)]
  BY BytesApart DEF ZeroFill

\* A copied page reads as the page it was copied from, and the others stay.
LEMMA CopyBytes ==
  ASSUME NEW n \in Nat, NEW d \in [0 .. (n * PAGESZ - 1) -> Content]
  PROVE  \A s, sf : \A f, h \in 0 .. (n - 1), b \in Offset :
           swap_cp_page(s, sf, d, f)[Physical(h, b)] =
             IF h = f THEN s[Physical(sf, b)] ELSE d[Physical(h, b)]
  BY BytesApart DEF swap_cp_page

\* The same of swap as it is.
LEMMA SwpBytes ==
  ASSUME SwpFrames \in Nat, swp \in [0 .. (SwpFrames * PAGESZ - 1) -> Content]
  PROVE  \A s, sf : \A f, h \in 0 .. (SwpFrames - 1), b \in Offset :
           swap_cp_page(s, sf, swp, f)[Physical(h, b)] =
             IF h = f THEN s[Physical(sf, b)] ELSE swp[Physical(h, b)]
  BY CopyBytes, Zenon

\* What was written is where the entries say.
KeptRam ==
  \A x \in Pages, o \in Offset :
    Holds(x) => ram[Physical(RamOf(x), o)] = written[x[1]][x[2]][o]
KeptSwp ==
  \A x \in Pages, o \in Offset :
    Moved(x) => swp[Physical(SwpOf(x), o)] = written[x[1]][x[2]][o]
DataInv == ~stale => KeptRam /\ KeptSwp

\* Steps that touch no byte and give no page a frame.
LEMMA SameBytes ==
  ASSUME DataInv, UNCHANGED <<pgd, ram, swp, written, stale>>,
         \A x \in Pages : KeepsFrame(x)' => KeepsFrame(x) \/ ~Resident(x[1], x[2])
  PROVE  DataInv'
<1>1. \A x \in Pages :
        /\ Holds(x)' => Holds(x)
        /\ Moved(x)' => Moved(x)
        /\ RamOf(x)' = RamOf(x) /\ SwpOf(x)' = SwpOf(x)
  BY DEF Holds, Resident, Moved, Swapped, RamOf, SwpOf
<1>2. QED
  BY <1>1 DEF DataInv, KeptRam, KeptSwp

\* An access to a page in the RAM keeps every other byte.
LEMMA HitData ==
  ASSUME Inv, DataInv, NEW p \in alive, NEW g \in Page, NEW o \in Offset,
         NEW w \in Value \cup {NULL}, Hit(p, g, o, w)
  PROVE  DataInv'
<1> DEFINE u == <<p, g>>
<1>1. /\ p \in Proc /\ p \notin reaped /\ RamFrames \in Nat
      /\ pgd \in [Proc -> [Page -> PteType(Lows)]]
      /\ ram \in [0 .. (RamFrames * PAGESZ - 1) -> Content]
      /\ written \in [Proc -> [Page -> [Offset -> Content]]]
  BY PagingAssumption DEF Inv, TypeOK, Lows
<1>2. /\ pgd[p][g].present
      /\ ram' = Store(ram, PAGING_FPN(pgd[p][g]), o, w)
      /\ pgd' = [pgd EXCEPT ![p][g].dirty = @ \/ w # NULL]
      /\ written' = [written EXCEPT ![p][g][o] = IF w = NULL THEN @ ELSE w]
      /\ stale' = (stale \/ (w # NULL /\ Swapped(p, g)))
      /\ UNCHANGED <<fifo_pgn, swp, reaped>>
  BY DEF Hit
<1>3. u \in Pages /\ u[1] = p /\ u[2] = g
  BY <1>1 DEF Pages
<1>4. \A x \in Pages :
        /\ Holds(x)' <=> Holds(x)
        /\ Moved(x)' <=> Moved(x)
        /\ RamOf(x)' = RamOf(x) /\ SwpOf(x)' = SwpOf(x)
  <2>1. \A r \in Proc, h \in Page :
          /\ pgd'[r][h].present = pgd[r][h].present
          /\ pgd'[r][h].swapped = pgd[r][h].swapped
          /\ pgd'[r][h].low = pgd[r][h].low
    BY <1>1, <1>2 DEF PteType
  <2>2. SUFFICES ASSUME NEW x \in Pages
                 PROVE  /\ Holds(x)' <=> Holds(x)
                        /\ Moved(x)' <=> Moved(x)
                        /\ RamOf(x)' = RamOf(x) /\ SwpOf(x)' = SwpOf(x)
    OBVIOUS
  <2>3. x[1] \in Proc /\ x[2] \in Page
    BY DEF Pages
  <2>4. Holds(x)' <=> Holds(x)
    BY <1>2, <2>1, <2>3 DEF Holds, Resident, Swapped, KeepsFrame
  <2>5. Moved(x)' <=> Moved(x)
    BY <1>2, <2>1, <2>3 DEF Moved, Swapped
  <2>6. RamOf(x)' = RamOf(x) /\ SwpOf(x)' = SwpOf(x)
    BY <2>1, <2>3 DEF RamOf, SwpOf, PAGING_FPN, PAGING_SWP
  <2>7. QED
    BY <2>4, <2>5, <2>6
<1>5. \A x \in Pages, b \in Offset :
        written'[x[1]][x[2]][b] =
          IF x = u /\ b = o /\ w # NULL THEN w ELSE written[x[1]][x[2]][b]
  <2>1. \A x \in Pages : x[1] \in Proc /\ x[2] \in Page /\ (x[1] = p /\ x[2] = g <=> x = u)
    BY DEF Pages
  <2> HIDE DEF u
  <2>2. \A r \in Proc, h \in Page, b \in Offset :
          written'[r][h][b] =
            IF (r = p /\ h = g) /\ b = o /\ w # NULL THEN w ELSE written[r][h][b]
    BY <1>1, <1>2
  <2>3. QED
    BY <2>1, <2>2
<1> HIDE DEF u
<1>6. SUFFICES ASSUME ~stale' PROVE KeptRam' /\ KeptSwp'
  BY DEF DataInv
<1>7. ~stale /\ (w # NULL => ~Moved(u))
  BY <1>2, <1>3, <1>6 DEF Moved
<1>8. KeptSwp'
  BY <1>2, <1>4, <1>5, <1>7 DEF DataInv, KeptSwp
<1>9. CASE w = NULL
  BY <1>2, <1>4, <1>5, <1>7, <1>8, <1>9 DEF DataInv, KeptRam, Store
<1>10. CASE w # NULL
  <2>1. Holds(u) /\ RamOf(u) = PAGING_FPN(pgd[p][g]) /\ RamOf(u) \in Frame
    BY <1>1, <1>2, <1>3, <1>7, <1>10, FrameOf DEF Holds, Resident, KeepsFrame, Moved,
       Swapped, RamOf, Inv
  <2>2. ASSUME NEW x \in Pages, NEW b \in Offset, Holds(x)
        PROVE  ram'[Physical(RamOf(x), b)] = written'[x[1]][x[2]][b]
    <3>1. RamOf(x) \in Frame /\ (RamOf(x) = RamOf(u) <=> x = u)
      BY <1>3, <2>1, <2>2, FrameOf DEF Inv, FramesInv, RamOnce, Holds
    <3>2. ram'[Physical(RamOf(x), b)] =
            IF RamOf(x) = RamOf(u) /\ b = o /\ w # NULL THEN w
            ELSE ram[Physical(RamOf(x), b)]
      <4>1. \A f, h \in 0 .. (RamFrames - 1) :
              Store(ram, f, o, w)[Physical(h, b)] =
                IF h = f /\ b = o /\ w # NULL THEN w ELSE ram[Physical(h, b)]
        BY <1>1, RamBytes
      <4>2. RamOf(x) \in 0 .. (RamFrames - 1) /\ RamOf(u) \in 0 .. (RamFrames - 1)
        BY <2>1, <3>1 DEF Frame
      <4>3. ram' = Store(ram, RamOf(u), o, w)
        BY <1>2, <2>1
      <4>4. QED
        BY <4>1, <4>2, <4>3
    <3>3. ram[Physical(RamOf(x), b)] = written[x[1]][x[2]][b]
      BY <1>7, <2>2 DEF DataInv, KeptRam
    <3>4. QED
      BY <1>5, <3>1, <3>2, <3>3
  <2>3. KeptRam'
    BY <1>4, <2>2 DEF KeptRam
  <2>4. QED
    BY <1>8, <2>3
<1>11. QED
  BY <1>9, <1>10

\* What a load leaves in the frame of the page, and elsewhere.
LEMMA LoadedBytes ==
  ASSUME Inv, NEW p \in Proc, NEW g \in Page, NEW o \in Offset,
         NEW w \in Value \cup {NULL}, NEW f \in Frame, LoadBytes(p, g, o, w, f)
  PROVE  /\ \A b \in Offset : ram'[Physical(f, b)] = written'[p][g][b]
         /\ \A h \in Frame, b \in Offset :
              h # f => ram'[Physical(h, b)] = ram[Physical(h, b)]
         /\ \A x \in Pages : x # <<p, g>> => written'[x[1]][x[2]] = written[x[1]][x[2]]
<1>1. /\ RamFrames \in Nat /\ f \in 0 .. (RamFrames - 1)
      /\ ram \in [0 .. (RamFrames * PAGESZ - 1) -> Content]
      /\ written \in [Proc -> [Page -> [Offset -> Content]]]
  BY PagingAssumption DEF Inv, TypeOK, Frame
<1>2. PICK z : z = ZeroFill(ram, f)
  OBVIOUS
<1>3. /\ z \in [0 .. (RamFrames * PAGESZ - 1) -> Content]
      /\ ram' = Store(z, f, o, w)
      /\ written' = [written EXCEPT ![p][g] =
           [b \in Offset |-> IF b = o /\ w # NULL THEN w ELSE 0]]
  BY <1>1, <1>2, StoreTyped DEF LoadBytes
<1>4. \A h \in Frame, b \in Offset :
        ram'[Physical(h, b)] = IF h = f /\ b = o /\ w # NULL THEN w ELSE z[Physical(h, b)]
  <2>1. \A k, h \in 0 .. (RamFrames - 1), c, b \in Offset : \A x :
          Store(z, k, c, x)[Physical(h, b)] =
            IF h = k /\ b = c /\ x # NULL THEN x ELSE z[Physical(h, b)]
    BY <1>1, <1>3, StoreBytes, Zenon
  <2>2. QED
    BY <1>1, <1>3, <2>1 DEF Frame
<1>5. \A h \in Frame, b \in Offset :
        z[Physical(h, b)] = IF h = f THEN 0 ELSE ram[Physical(h, b)]
  BY <1>1, <1>2, FillBytes DEF Frame
<1>6. /\ \A b \in Offset : written'[p][g][b] = IF b = o /\ w # NULL THEN w ELSE 0
      /\ \A r \in Proc, h \in Page : r # p \/ h # g => written'[r][h] = written[r][h]
  BY <1>1, <1>3
<1>7. \A x \in Pages : x # <<p, g>> => written'[x[1]][x[2]] = written[x[1]][x[2]]
  BY <1>6 DEF Pages
<1>8. QED
  BY <1>4, <1>5, <1>6, <1>7

\* So does a page fault with a free frame.
LEMMA FillData ==
  ASSUME Inv, DataInv, NEW p \in alive, NEW g \in Page, NEW o \in Offset,
         NEW w \in Value \cup {NULL}, Fill(p, g, o, w)
  PROVE  DataInv'
<1> DEFINE u == <<p, g>>
<1>0. PICK f \in Frame :
        /\ p \in Proc \ reaped
        /\ Filled(p, g, f) /\ LoadOK /\ LoadBytes(p, g, o, w, f) /\ swp' = swp
  BY FillEffect
<1>1. SUFFICES ASSUME ~stale' PROVE KeptRam' /\ KeptSwp'
  BY DEF DataInv
<1>2. KeptRam /\ KeptSwp
  BY <1>0, <1>1 DEF LoadOK, DataInv
<1>3. /\ \A b \in Offset : ram'[Physical(f, b)] = written'[p][g][b]
      /\ \A h \in Frame, b \in Offset :
           h # f => ram'[Physical(h, b)] = ram[Physical(h, b)]
      /\ \A x \in Pages : x # u => written'[x[1]][x[2]] = written[x[1]][x[2]]
  BY <1>0, LoadedBytes
<1>4. u \in Pages /\ u[1] = p /\ u[2] = g
  BY <1>0 DEF Pages
<1>5. \A x \in Pages \ {u} :
        /\ pgd'[x[1]][x[2]] = pgd[x[1]][x[2]]
        /\ x[1] # p => fifo_pgn'[x[1]] = fifo_pgn[x[1]]
  BY <1>0 DEF Pages, Filled
<1> HIDE DEF u
<1>6. \A x \in Pages \ {u} :
        /\ Holds(x)' => Holds(x)
        /\ Moved(x)' => Moved(x)
        /\ RamOf(x)' = RamOf(x) /\ SwpOf(x)' = SwpOf(x)
  BY <1>0, <1>5 DEF Holds, Moved, Resident, Swapped, KeepsFrame, RamOf, SwpOf, Filled
<1>7. RamOf(u)' = f /\ ~Moved(u)'
  BY <1>0, <1>4, FrameInEntry DEF Filled, LoadedPte, RamOf, Moved, Swapped, PAGING_FPN
<1>8. ASSUME NEW x \in Pages, Holds(x) PROVE RamOf(x) \in Frame /\ RamOf(x) # f
  BY <1>0, <1>8, FrameOf, TakeFirst DEF Filled, Inv, TypeOK, FramesInv, RamOnce, Holds
<1>9. KeptSwp'
  BY <1>0, <1>2, <1>3, <1>6, <1>7 DEF KeptSwp
<1>10. KeptRam'
  BY <1>2, <1>3, <1>4, <1>6, <1>7, <1>8 DEF KeptRam
<1>11. QED
  BY <1>9, <1>10

\* So does one that evicts a page.
LEMMA ReplaceData ==
  ASSUME Inv, DataInv, NEW p \in alive, NEW g \in Page, NEW o \in Offset,
         NEW w \in Value \cup {NULL}, Replace(p, g, o, w)
  PROVE  DataInv'
<1> DEFINE u == <<p, g>>
<1>0. PICK v \in Page, f \in Frame, b \in SwapFrame :
        /\ p \in Proc \ reaped
        /\ Replaced(p, g, v, f, b) /\ LoadOK /\ LoadBytes(p, g, o, w, f)
        /\ swp' = swap_cp_page(ram, f, swp, b)
  BY ReplaceEffect
<1> DEFINE z == <<p, v>>
<1>1. SUFFICES ASSUME ~stale' PROVE KeptRam' /\ KeptSwp'
  BY DEF DataInv
<1>2. KeptRam /\ KeptSwp
  BY <1>0, <1>1 DEF LoadOK, DataInv
<1>3. /\ \A a \in Offset : ram'[Physical(f, a)] = written'[p][g][a]
      /\ \A h \in Frame, a \in Offset :
           h # f => ram'[Physical(h, a)] = ram[Physical(h, a)]
      /\ \A x \in Pages : x # u => written'[x[1]][x[2]] = written[x[1]][x[2]]
  BY <1>0, LoadedBytes
<1>4. /\ u \in Pages /\ u[1] = p /\ u[2] = g
      /\ z \in Pages /\ z[1] = p /\ z[2] = v /\ u # z
  BY <1>0 DEF Pages, Replaced, Resident
<1>5. \A x \in Pages \ {u, z} :
        /\ pgd'[x[1]][x[2]] = pgd[x[1]][x[2]]
        /\ x[1] # p => fifo_pgn'[x[1]] = fifo_pgn[x[1]]
  BY <1>0 DEF Pages, Replaced
<1> HIDE DEF u, z
<1>6. \A x \in Pages \ {u, z} :
        /\ Holds(x)' => Holds(x)
        /\ Moved(x)' => Moved(x)
        /\ RamOf(x)' = RamOf(x) /\ SwpOf(x)' = SwpOf(x)
  BY <1>0, <1>5 DEF Holds, Moved, Resident, Swapped, KeepsFrame, RamOf, SwpOf, Replaced
<1>7. /\ RamOf(u)' = f /\ ~Moved(u)'
      /\ SwpOf(z)' = b /\ ~Holds(z)'
      /\ Holds(z) /\ RamOf(z) = f
  <2>1. RamOf(u)' = f /\ ~Moved(u)'
    BY <1>0, <1>4, FrameInEntry DEF Replaced, LoadedPte, RamOf, Moved, Swapped, PAGING_FPN
  <2>2. SwpOf(z)' = b /\ ~Holds(z)'
    BY <1>0, <1>4, FrameInEntry DEF Replaced, SwpOf, Holds, Resident, Swapped, PAGING_SWP
  <2>3. Holds(z) /\ RamOf(z) = f
    BY <1>0, <1>4 DEF Replaced, Holds, KeepsFrame, RamOf
  <2>4. QED
    BY <2>1, <2>2, <2>3
<1>8. ASSUME NEW x \in Pages \ {z}, Holds(x) PROVE RamOf(x) \in Frame /\ RamOf(x) # f
  BY <1>4, <1>7, <1>8, FrameOf DEF Inv, FramesInv, RamOnce, Holds
<1>9. ASSUME NEW x \in Pages, Moved(x) PROVE SwpOf(x) \in SwapFrame /\ SwpOf(x) # b
  BY <1>0, <1>9, FrameOf, TakeFirst DEF Replaced, Inv, TypeOK, FramesInv, SwpOnce
<1>10. \A h \in SwapFrame, a \in Offset :
         swp'[Physical(h, a)] = IF h = b THEN ram[Physical(f, a)] ELSE swp[Physical(h, a)]
  <2>1. /\ SwpFrames \in Nat /\ swp \in [0 .. (SwpFrames * PAGESZ - 1) -> Content]
        /\ b \in 0 .. (SwpFrames - 1)
    BY PagingAssumption DEF Inv, TypeOK, SwapFrame
  <2>2. \A h \in 0 .. (SwpFrames - 1), a \in Offset :
          swap_cp_page(ram, f, swp, b)[Physical(h, a)] =
            IF h = b THEN ram[Physical(f, a)] ELSE swp[Physical(h, a)]
    BY <2>1, SwpBytes
  <2>3. QED
    BY <1>0, <2>2 DEF SwapFrame
<1>11. ASSUME NEW x \in Pages, NEW a \in Offset, Moved(x)'
       PROVE  swp'[Physical(SwpOf(x)', a)] = written'[x[1]][x[2]][a]
  <2>1. CASE x = z
    <3>1. ram[Physical(f, a)] = written[x[1]][x[2]][a]
      BY <1>2, <1>7, <2>1 DEF KeptRam
    <3>2. QED
      BY <1>3, <1>4, <1>7, <1>10, <2>1, <3>1
  <2>2. CASE x # z
    <3>1. x \in Pages \ {u, z} /\ Moved(x) /\ SwpOf(x)' = SwpOf(x)
      BY <1>6, <1>7, <1>11, <2>2
    <3>2. swp[Physical(SwpOf(x), a)] = written[x[1]][x[2]][a]
      BY <1>2, <3>1 DEF KeptSwp
    <3>3. QED
      BY <1>3, <1>9, <1>10, <3>1, <3>2
  <2>3. QED
    BY <2>1, <2>2
<1>12. ASSUME NEW x \in Pages, NEW a \in Offset, Holds(x)'
       PROVE  ram'[Physical(RamOf(x)', a)] = written'[x[1]][x[2]][a]
  <2>1. CASE x = u
    BY <1>3, <1>4, <1>7, <2>1
  <2>2. CASE x # u
    <3>1. x \in Pages \ {u, z} /\ Holds(x) /\ RamOf(x)' = RamOf(x)
      BY <1>6, <1>7, <1>12, <2>2
    <3>2. ram[Physical(RamOf(x), a)] = written[x[1]][x[2]][a]
      BY <1>2, <3>1 DEF KeptRam
    <3>3. QED
      BY <1>3, <1>8, <3>1, <3>2
  <2>3. QED
    BY <2>1, <2>2
<1>13. KeptRam' /\ KeptSwp'
  BY <1>11, <1>12 DEF KeptRam, KeptSwp
<1>14. QED
  BY <1>13

\* At first nothing was written.
LEMMA InitData == Init => DataInv
<1>1. SUFFICES ASSUME Init PROVE KeptRam /\ KeptSwp
  BY DEF DataInv
<1>2. \A x \in Pages : pgd[x[1]][x[2]] = NoPte
  BY <1>1 DEF Init, Pages
<1>3. QED
  BY <1>2 DEF KeptRam, KeptSwp, Holds, Moved, Resident, Swapped, NoPte

\* Every step keeps it.
LEMMA NextData ==
  ASSUME Inv, DataInv, [Next]_vars
  PROVE  DataInv'
<1>1. ASSUME NEW p \in Live, NEW g \in Page, NEW o \in Offset,
             NEW w \in Value \cup {NULL}, Access(p, g, o, w)
      PROVE  DataInv'
  <2>1. p \in alive /\ p \in Proc /\ p \notin reaped
    BY DEF Live, Inv, TypeOK
  <2>2. CASE Hit(p, g, o, w)
    BY <2>1, <2>2, HitData
  <2>3. CASE Fill(p, g, o, w)
    BY <2>1, <2>3, FillData
  <2>4. CASE Replace(p, g, o, w)
    BY <2>1, <2>4, ReplaceData
  <2>5. CASE NoVictim(p, g)
    BY <2>5, SameBytes DEF NoVictim, vars, KeepsFrame
  <2>6. CASE Crash(p, g)
    BY <2>6, SameBytes DEF Crash, CrashInVictim, CrashInList, tables, memory, history,
       KeepsFrame
  <2>7. CASE SwapFull(p, g)
    <3>1. /\ UNCHANGED <<pgd, ram, swp, written, stale, reaped>>
          /\ \A r \in Proc \ {p} : fifo_pgn'[r] = fifo_pgn[r]
      BY <2>1, <2>7 DEF SwapFull, memory, history, Inv, TypeOK
    <3>2. \A x \in Pages : KeepsFrame(x)' => KeepsFrame(x)
      BY <2>1, <3>1 DEF KeepsFrame, Pages
    <3>3. QED
      BY <3>1, <3>2, SameBytes
  <2>8. QED
    BY <1>1, <2>2, <2>3, <2>4, <2>5, <2>6, <2>7 DEF Access, Served, Refused, Crash
<1>2. CASE \E p \in Live : End(p)
  BY <1>2, SameBytes DEF End, tables, memory, history, KeepsFrame
<1>3. CASE \E p \in Proc : Reap(p)
  <2>1. /\ UNCHANGED <<pgd, fifo_pgn, ram, swp, written, stale>>
        /\ \E p \in Proc : reaped' = reaped \cup {p}
    BY <1>3 DEF Reap, tables, history
  <2>2. \A x \in Pages : KeepsFrame(x)' => KeepsFrame(x)
    BY <2>1 DEF KeepsFrame
  <2>3. QED
    BY <2>1, <2>2, SameBytes
<1>4. CASE UNCHANGED vars
  BY <1>4, SameBytes DEF vars, KeepsFrame
<1>5. QED
  BY <1>1, <1>2, <1>3, <1>4 DEF Next

\* As long as no write was sent to a page in swap, what was written is in the
\* frame that the entry names: NothingLost holds of every reachable state,
\* through replacement, the end of processes and the reuse of their frames.
THEOREM DataSurvives == Spec => []NothingLost
<1>1. DataInv => NothingLost
  BY DEF DataInv, KeptRam, KeptSwp, NothingLost, ResidentPages, SwappedPages, Holds, Moved
<1>2. Inv /\ DataInv /\ [Next]_vars => DataInv'
  BY NextData
<1>3. QED
  BY <1>1, <1>2, InitData, Invariant, PTL DEF Spec

-----------------------------------------------------------------------------
(* Instructions.                                                           *)

\* An address is a page and an offset, as the macros take it apart.
LEMMA AddressParts ==
  /\ \A a \in Nat : PAGING_OFFST(a) \in Offset /\ (PAGING_PGN(a) \in Page => a \in Address)
  /\ \A a \in Address : a \in Nat /\ PAGING_PGN(a) \in Page /\ PAGING_OFFST(a) \in Offset
  /\ \A a, b \in Address :
       PAGING_PGN(a) = PAGING_PGN(b) /\ PAGING_OFFST(a) = PAGING_OFFST(b) => a = b
<1>1. PAGESZ \in Nat \ {0} /\ \A g \in Page : g \in Nat
  BY PagingAssumption, InstructionsAssumption
<1>2. ASSUME NEW a \in Nat, NEW z \in Nat \ {0}
      PROVE  a % z \in 0 .. (z - 1) /\ a = (a \div z) * z + (a % z)
  OBVIOUS
<1>3. \A a \in Nat : /\ PAGING_OFFST(a) \in Offset
                     /\ a = PAGING_PGN(a) * PAGESZ + PAGING_OFFST(a)
  BY <1>1, <1>2 DEF Offset, PAGING_PGN, PAGING_OFFST
<1>4. \A a \in Nat : PAGING_PGN(a) \in Page => a \in Address
  BY <1>3 DEF Address
<1>5. ASSUME NEW a \in Address
      PROVE  a \in Nat /\ PAGING_PGN(a) \in Page /\ PAGING_OFFST(a) \in Offset
  <2>1. PICK g \in Page, o \in Offset : a = Physical(g, o)
    BY DEF Address, Physical
  <2>2. g \in 0 .. ((g + 1) - 1) /\ g + 1 \in Nat
    BY <1>1
  <2>3. /\ Physical(g, o) \in 0 .. ((g + 1) * PAGESZ - 1)
        /\ Physical(g, o) \div PAGESZ = g /\ Physical(g, o) % PAGESZ = o
    BY <2>2, BytesApart
  <2>4. QED
    BY <2>1, <2>3 DEF PAGING_PGN, PAGING_OFFST
<1>6. QED
  BY <1>3, <1>4, <1>5

\* A page that was never loaded was never written.
Blank ==
  \A p \in Proc, g \in Page :
    ~pgd[p][g].present => \A o \in Offset : written[p][g][o] = 0

\* What a step may do to the bytes that are written: nothing, or one write.
SameWritten ==
  \A r \in Proc, h \in Page, b \in Offset : written'[r][h][b] = written[r][h][b]
WrittenAt(p, g, o, w) ==
  \A r \in Proc, h \in Page, b \in Offset :
    written'[r][h][b] = IF r = p /\ h = g /\ b = o THEN w ELSE written[r][h][b]
AsWritten(p, g, o, w) == IF w = NULL THEN SameWritten ELSE WrittenAt(p, g, o, w)

\* What an access does to the places of pages: its page had an entry that says
\* present, or it is brought into RAM, and a page of the process may leave.
SameFlags(r, h) ==
  pgd'[r][h].present = pgd[r][h].present /\ pgd'[r][h].swapped = pgd[r][h].swapped
InPlace(p, g, w) ==
  /\ pgd[p][g].present /\ stale' = (stale \/ (w # NULL /\ Swapped(p, g)))
  /\ \A r \in Proc, h \in Page : SameFlags(r, h)
Brought(p, g) ==
  /\ ~pgd[p][g].present /\ pgd'[p][g].present /\ ~pgd'[p][g].swapped
  /\ stale' = stale
  /\ \A r \in Proc \ {p}, h \in Page : SameFlags(r, h)
  /\ \A h \in Page \ {g} :
       \/ SameFlags(p, h)
       \/ Resident(p, h) /\ pgd'[p][h].present /\ pgd'[p][h].swapped

\* Loading a page that is blank.
LEMMA LoadWrites ==
  ASSUME Inv, Blank, NEW p \in Proc, NEW g \in Page, NEW o \in Offset,
         NEW w \in Value \cup {NULL}, NEW f, LoadBytes(p, g, o, w, f), Brought(p, g)
  PROVE  Blank' /\ AsWritten(p, g, o, w)
<1>1. written \in [Proc -> [Page -> [Offset -> Content]]]
  BY DEF Inv, TypeOK
<1>2. written' = [written EXCEPT ![p][g] =
                   [b \in Offset |-> IF b = o /\ w # NULL THEN w ELSE 0]]
  BY DEF LoadBytes
<1>3. /\ \A b \in Offset : written'[p][g][b] = IF b = o /\ w # NULL THEN w ELSE 0
      /\ \A r \in Proc, h \in Page : r # p \/ h # g => written'[r][h] = written[r][h]
  BY <1>1, <1>2
<1>4. \A b \in Offset : written[p][g][b] = 0
  BY DEF Blank, Brought
<1>5. Blank'
  <2>1. ~pgd[p][g].present /\ pgd'[p][g].present
        /\ \A r \in Proc, h \in Page : pgd[r][h].present => pgd'[r][h].present
    BY DEF Brought, SameFlags
  <2>2. QED
    BY <1>3, <2>1 DEF Blank
<1>6. CASE w = NULL
  BY <1>3, <1>4, <1>5, <1>6 DEF SameWritten, AsWritten
<1>7. CASE w # NULL
  BY <1>3, <1>4, <1>5, <1>7 DEF WrittenAt, AsWritten
<1>8. QED
  BY <1>6, <1>7

\* What an access that pg_getpage serves does.
LEMMA ServedDoes ==
  ASSUME Inv, Blank, NEW p \in alive, NEW g \in Page, NEW o \in Offset,
         NEW w \in Value \cup {NULL}, Served(p, g, o, w)
  PROVE  /\ Blank' /\ AsWritten(p, g, o, w) /\ UNCHANGED <<alive, reaped>>
         /\ InPlace(p, g, w) \/ Brought(p, g)
<1>1. /\ p \in Proc /\ pgd \in [Proc -> [Page -> PteType(Lows)]]
      /\ written \in [Proc -> [Page -> [Offset -> Content]]]
  BY DEF Inv, TypeOK, Lows
<1>2. CASE Hit(p, g, o, w)
  <2>1. /\ pgd' = [pgd EXCEPT ![p][g].dirty = @ \/ w # NULL] /\ pgd[p][g].present
        /\ written' = [written EXCEPT ![p][g][o] = IF w = NULL THEN @ ELSE w]
        /\ stale' = (stale \/ (w # NULL /\ Swapped(p, g)))
        /\ UNCHANGED <<alive, reaped>>
    BY <1>2 DEF Hit
  <2>2. \A r \in Proc, h \in Page : SameFlags(r, h)
    BY <1>1, <2>1 DEF PteType, SameFlags
  <2>3. \A r \in Proc, h \in Page, b \in Offset :
          written'[r][h][b] =
            IF r = p /\ h = g /\ b = o /\ w # NULL THEN w ELSE written[r][h][b]
    BY <1>1, <2>1
  <2>4. Blank'
    BY <2>1, <2>2, <2>3 DEF Blank, SameFlags
  <2>5. InPlace(p, g, w) /\ AsWritten(p, g, o, w)
    BY <2>1, <2>2, <2>3 DEF InPlace, AsWritten, SameWritten, WrittenAt
  <2>6. QED
    BY <2>1, <2>4, <2>5
<1>3. CASE Fill(p, g, o, w)
  <2>1. PICK f \in Frame : Filled(p, g, f) /\ LoadOK /\ LoadBytes(p, g, o, w, f)
    BY <1>3, FillEffect
  <2>2. Brought(p, g) /\ UNCHANGED <<alive, reaped>>
    BY <2>1 DEF Filled, LoadedPte, LoadOK, Brought, SameFlags
  <2>3. QED
    BY <1>1, <2>1, <2>2, LoadWrites
<1>4. CASE Replace(p, g, o, w)
  <2>1. PICK v \in Page, f \in Frame, b \in SwapFrame :
          Replaced(p, g, v, f, b) /\ LoadOK /\ LoadBytes(p, g, o, w, f)
    BY <1>4, ReplaceEffect
  <2>2. Brought(p, g) /\ UNCHANGED <<alive, reaped>>
    BY <2>1 DEF Replaced, LoadedPte, LoadOK, Brought, SameFlags
  <2>3. QED
    BY <1>1, <2>1, <2>2, LoadWrites
<1>5. QED
  BY <1>2, <1>3, <1>4 DEF Served

\* What another one does: its page has no frame, and gets none.
LEMMA NotServed ==
  ASSUME NEW p, NEW g, Refused(p, g) \/ Crash(p, g)
  PROVE  ~pgd[p][g].present /\ UNCHANGED <<pgd, written, alive, reaped, stale>>
BY DEF Refused, NoVictim, SwapFull, Crash, CrashInVictim, CrashInList, vars, tables, memory,
   history

\* No access makes the memory tame again, nor writes a page without a frame.
LEMMA AccessKeeps ==
  ASSUME Inv, Blank, NEW p \in alive, NEW g \in Page, NEW o \in Offset,
         NEW w \in Value \cup {NULL}, Access(p, g, o, w)
  PROVE  Blank' /\ (stale => stale')
<1>1. CASE Served(p, g, o, w)
  BY <1>1, ServedDoes DEF InPlace, Brought
<1>2. CASE Refused(p, g) \/ Crash(p, g)
  BY <1>2, NotServed DEF Blank
<1>3. QED
  BY <1>1, <1>2 DEF Access

\* What pg_getval finds in RAM for a page that is there is what was written; and
\* it finds some byte for any page.
LEMMA LoadedIs ==
  ASSUME Inv', DataInv', NEW p \in Proc, NEW g \in Page, NEW o \in Offset
  PROVE  /\ Loaded(p, g, o) \subseteq Content
         /\ (~stale /\ p \notin reaped /\ Resident(p, g))' =>
              Loaded(p, g, o) = {written'[p][g][o]}
<1>1. PICK a : a = Physical(PAGING_FPN(pgd'[p][g]), o)
  OBVIOUS
<1>2. Loaded(p, g, o) = IF a \in DOMAIN ram' THEN {ram'[a]} ELSE Content
  BY <1>1 DEF Loaded
<1>3. ram' \in [0 .. (RamFrames * PAGESZ - 1) -> Content]
  BY DEF Inv, TypeOK
<1>4. Loaded(p, g, o) \subseteq Content
  BY <1>2, <1>3
<1>5. ASSUME (~stale /\ p \notin reaped /\ Resident(p, g))'
      PROVE  Loaded(p, g, o) = {written'[p][g][o]}
  <2>1. PICK x : x = <<p, g>>
    OBVIOUS
  <2>2. x \in Pages /\ x[1] = p /\ x[2] = g
    BY <2>1 DEF Pages
  <2>3. Holds(x)'
    BY <1>5, <2>2 DEF Holds, KeepsFrame
  <2>4. a = Physical(RamOf(x)', o)
    BY <1>1, <2>2 DEF RamOf
  <2>5. ram'[a] = written'[p][g][o]
    BY <1>5, <2>2, <2>3, <2>4 DEF DataInv, KeptRam
  <2>6. RamOf(x)' \in Frame
    <3>1. EntryOK(pgd'[p][g])
      BY <2>2 DEF Inv, Entries
    <3>2. RamOf(x)' = PAGING_FPN(pgd'[p][g]) /\ pgd'[p][g].present /\ ~pgd'[p][g].swapped
      BY <1>5, <2>2 DEF RamOf, Resident, Swapped
    <3>3. pgd'[p][g].low \in Frame
      BY <3>1, <3>2 DEF EntryOK, NoPte
    <3>4. QED
      BY <3>2, <3>3, FrameInEntry DEF PAGING_FPN
  <2>7. a \in 0 .. (RamFrames * PAGESZ - 1)
    BY <2>4, <2>6, BytesApart, PagingAssumption DEF Frame
  <2>8. QED
    BY <1>2, <1>3, <2>5, <2>7
<1>6. QED
  BY <1>4, <1>5

\* A region that a program may have: as large as one size it may ask for, or
\* empty at the start of memory.
Bounded(e) == e = 0 \/ \E size \in Size : e <= size
VarRegion ==
  {rg \in [rg_start : Nat, rg_end : Nat] : rg.rg_start <= rg.rg_end /\ Bounded(rg.rg_end)}
RegionsOK ==
  /\ symrgtbl \in [Proc -> [Rgid -> VarRegion]]
  /\ vm_freerg_list \in [Proc -> Seq(VarRegion)]

\* The regions that the calls make.
LEMMA VarRegionOf ==
  ASSUME NEW s \in Nat, NEW e \in Nat, s <= e, Bounded(e)
  PROVE  /\ region(s, e) \in VarRegion
         /\ region(s, e).rg_start = s /\ region(s, e).rg_end = e
BY DEF region, VarRegion

\* The first node that fits, if any does.
LEMMA FirstNode ==
  ASSUME NEW list \in Seq(VarRegion), NEW size \in Size, FirstFit(list, size) # 0
  PROVE  /\ FirstFit(list, size) \in 1 .. Len(list)
         /\ Fits(list[FirstFit(list, size)], size)
<1> DEFINE T == {i \in 1 .. Len(list) : Fits(list[i], size)}
<1>1. FirstFit(list, size) = IF T # {} THEN Min(T) ELSE 0
  BY DEF FirstFit, SelectInSeq
<1>2. T # {}
  BY <1>1
<1>3. T \in SUBSET Nat
  OBVIOUS
<1> HIDE DEF T
<1>4. \E m \in T : \A k \in T : m <= k
  BY <1>2, <1>3, LeastOf
<1>5. Min(T) \in T
  BY <1>4 DEF Min
<1>6. QED
  BY <1>1, <1>2, <1>5 DEF T

\* What is left of a list of such regions is one, too.
LEMMA TakeTyped ==
  ASSUME NEW list \in Seq(VarRegion), NEW i \in 1 .. Len(list), NEW size \in Nat
  PROVE  Take(list, i, size) \in Seq(VarRegion)
<1>1. PICK s, e : s = list[i].rg_start /\ e = list[i].rg_end
  OBVIOUS
<1>2. /\ list[i] \in VarRegion /\ s \in Nat /\ e \in Nat /\ s <= e /\ Bounded(e)
      /\ list[i] \in [rg_start : Nat, rg_end : Nat] /\ s + size \in Nat
  BY <1>1 DEF VarRegion
<1>3. ASSUME NEW t \in Nat, t <= e
      PROVE  [list EXCEPT ![i].rg_start = t] \in Seq(VarRegion)
  <2>1. [list[i] EXCEPT !.rg_start = t] = region(t, e)
    BY <1>1, <1>2 DEF region
  <2>2. region(t, e) \in VarRegion
    BY <1>2, <1>3, VarRegionOf
  <2>3. [list EXCEPT ![i].rg_start = t] = [list EXCEPT ![i] = region(t, e)]
    BY <2>1
  <2>4. QED
    BY <2>2, <2>3
<1>4. CASE s + size < e
  <2>1. Take(list, i, size) = [list EXCEPT ![i].rg_start = s + size]
    BY <1>1, <1>4 DEF Take
  <2>2. s + size <= e
    BY <1>2, <1>4
  <2>3. QED
    BY <1>2, <1>3, <2>1, <2>2
<1>5. CASE ~(s + size < e) /\ i < Len(list)
  <2>1. Take(list, i, size) = RemoveAt(list, i)
    BY <1>1, <1>5 DEF Take
  <2>2. QED
    BY <2>1, Removed
<1>6. CASE ~(s + size < e) /\ ~(i < Len(list))
  <2>1. Take(list, i, size) = [list EXCEPT ![i].rg_start = e]
    BY <1>1, <1>6 DEF Take
  <2>2. e \in Nat /\ e <= e
    BY <1>2
  <2>3. [list EXCEPT ![i].rg_start = e] \in Seq(VarRegion)
    BY <1>3, <2>2
  <2>4. QED
    BY <2>1, <2>3
<1>7. QED
  BY <1>4, <1>5, <1>6

\* What liballoc gives a variable: a region of the size asked for that starts at
\* an address.
LEMMA AllocGives ==
  ASSUME RegionsOK, NEW p \in Proc, NEW r \in Rgid, NEW size \in Size, liballoc(p, r, size)
  PROVE  /\ RegionsOK'
         /\ \E start \in Address :
              symrgtbl' = [symrgtbl EXCEPT ![p][r] = region(start, start + size)]
<1>1. PICK list, i : list = vm_freerg_list[p] /\ i = FirstFit(list, size)
  OBVIOUS
<1>2. PICK start : start = IF i = 0 THEN sbrk ELSE list[i].rg_start
  OBVIOUS
<1>3. /\ symrgtbl' = [symrgtbl EXCEPT ![p][r] = region(start, start + size)]
      /\ vm_freerg_list' =
           [vm_freerg_list EXCEPT ![p] = IF i = 0 THEN list ELSE Take(list, i, size)]
  BY <1>1, <1>2 DEF liballoc
<1>4. list \in Seq(VarRegion) /\ size \in Nat /\ 0 .. size \subseteq Address
  BY <1>1, InstructionsAssumption DEF RegionsOK
<1>5. i # 0 => i \in 1 .. Len(list) /\ Fits(list[i], size)
  BY <1>1, <1>4, FirstNode
<1>6. /\ start \in Nat /\ start + size \in Nat /\ start <= start + size
      /\ Bounded(start + size) /\ start \in Address
  <2>1. CASE i = 0
    <3>1. start = 0 /\ start + size = size
      BY <1>2, <1>4, <2>1 DEF sbrk
    <3>2. Bounded(size) /\ 0 \in 0 .. size
      BY <1>4 DEF Bounded
    <3>3. QED
      BY <1>4, <3>1, <3>2
  <2>2. CASE i # 0
    <3>1. PICK e : e = list[i].rg_end
      OBVIOUS
    <3>2. list[i] \in VarRegion /\ start = list[i].rg_start
      BY <1>2, <1>4, <1>5, <2>2
    <3>3. start \in Nat /\ e \in Nat /\ Bounded(e)
      BY <3>1, <3>2 DEF VarRegion
    <3>4. start + size <= e
      BY <1>5, <2>2, <3>1, <3>2 DEF Fits
    <3>5. Bounded(start + size)
      <4>1. CASE e = 0
        <5>1. start + size = 0
          BY <1>4, <3>3, <3>4, <4>1
        <5>2. QED
          BY <5>1 DEF Bounded
      <4>2. ASSUME NEW z \in Size, e <= z PROVE Bounded(start + size)
        <5>1. z \in Nat /\ start + size <= z
          BY <1>4, <3>3, <3>4, <4>2, InstructionsAssumption
        <5>2. QED
          BY <5>1 DEF Bounded
      <4>3. QED
        BY <3>3, <4>1, <4>2 DEF Bounded
    <3>6. start \in Address
      <4>1. CASE start + size = 0
        BY <1>4, <3>3, <4>1
      <4>2. ASSUME NEW z \in Size, start + size <= z PROVE start \in Address
        <5>1. z \in Nat /\ 0 .. z \subseteq Address /\ start \in 0 .. z
          BY <1>4, <3>3, <4>2, InstructionsAssumption
        <5>2. QED
          BY <5>1
      <4>3. QED
        BY <3>5, <4>1, <4>2 DEF Bounded
    <3>7. QED
      BY <1>4, <3>3, <3>5, <3>6
  <2>3. QED
    BY <2>1, <2>2
<1>7. region(start, start + size) \in VarRegion
  BY <1>6, VarRegionOf
<1>8. (IF i = 0 THEN list ELSE Take(list, i, size)) \in Seq(VarRegion)
  BY <1>4, <1>5, TakeTyped
<1>9. RegionsOK'
  BY <1>3, <1>7, <1>8 DEF RegionsOK
<1>10. QED
  BY <1>3, <1>6, <1>9

\* The other instructions.
LEMMA FreeTyped ==
  ASSUME RegionsOK, NEW p \in Proc, NEW r \in Rgid, libfree(p, r)
  PROVE  RegionsOK'
<1>1. PICK list, rg : list = vm_freerg_list[p] /\ rg = symrgtbl[p][r]
  OBVIOUS
<1>2. list \in Seq(VarRegion) /\ rg \in VarRegion
  BY <1>1 DEF RegionsOK
<1>3. enlist_vm_freerg_list(rg, list) \in Seq(VarRegion)
  BY <1>2, PutFirst DEF enlist_vm_freerg_list
<1>4. None \in VarRegion
  BY VarRegionOf DEF None, Bounded
<1>5. /\ vm_freerg_list' = [vm_freerg_list EXCEPT ![p] = enlist_vm_freerg_list(rg, list)]
      /\ symrgtbl' = [symrgtbl EXCEPT ![p][r] = None]
  BY <1>1 DEF libfree
<1>6. QED
  BY <1>3, <1>4, <1>5 DEF RegionsOK

\* What the instructions keep.
InstInv == Inv /\ DataInv /\ Blank /\ RegionsOK

\* At first the invariant holds.
LEMMA InstInitInv == InstInit => InstInv
<1> SUFFICES ASSUME InstInit PROVE InstInv
  OBVIOUS
<1>1. Inv /\ DataInv
  BY InitInv, InitData DEF InstInit
<1>2. Blank
  BY DEF InstInit, Init, Blank
<1>3. None \in VarRegion /\ InitialList \in Seq(VarRegion)
  <2>1. None \in VarRegion
    BY VarRegionOf DEF None, Bounded
  <2>2. InitialList = <<None>>
    BY DEF InitialList, None, sbrk
  <2>3. QED
    BY <2>1, <2>2
<1>4. RegionsOK
  BY <1>3 DEF InstInit, RegionsOK
<1>5. QED
  BY <1>1, <1>2, <1>4 DEF InstInv

\* The variables of the instructions.
instVars == <<vars, regions, destination>>

\* The address of an access is in one of the pages.
LEMMA AddressOf ==
  ASSUME RegionsOK, NEW p \in Proc, NEW r \in Rgid, NEW offset \in Offsets, NEW a,
         a = symrgtbl[p][r].rg_start + offset, PAGING_PGN(a) \in Page
  PROVE  a \in Address /\ PAGING_OFFST(a) \in Offset
<1>1. symrgtbl[p][r].rg_start \in Nat
  BY DEF RegionsOK, VarRegion
<1>2. offset \in Nat
  BY InstructionsAssumption
<1>3. a \in Nat
  BY <1>1, <1>2
<1>4. QED
  BY <1>3, AddressParts

\* A read, or a write, with the page and the offset of its address.
Reads(p, r, offset, a) ==
  /\ a = symrgtbl[p][r].rg_start + offset /\ a \in Address
  /\ PAGING_PGN(a) \in Page /\ PAGING_OFFST(a) \in Offset
  /\ UNCHANGED regions /\ pg_getval(p, PAGING_PGN(a), PAGING_OFFST(a))
Writes(p, r, offset, a, w) ==
  /\ a = symrgtbl[p][r].rg_start + offset /\ a \in Address
  /\ PAGING_PGN(a) \in Page /\ PAGING_OFFST(a) \in Offset
  /\ UNCHANGED <<regions, destination>> /\ Access(p, PAGING_PGN(a), PAGING_OFFST(a), w)

\* The steps of the instructions.
Kinds ==
  \/ \E p \in Live, r \in Rgid, size \in Size : liballoc(p, r, size)
  \/ \E p \in Live, r \in Rgid : libfree(p, r)
  \/ \E p \in Live, r \in Rgid, offset \in Offsets, a \in Address : Reads(p, r, offset, a)
  \/ \E p \in Live, r \in Rgid, offset \in Offsets, a \in Address, w \in Value :
       Writes(p, r, offset, a, w)
  \/ \E p \in Live : End(p) /\ UNCHANGED <<regions, destination>>
  \/ ~crashed /\ \E p \in Proc : Reap(p) /\ UNCHANGED <<regions, destination>>
  \/ UNCHANGED instVars

\* Each step is of one kind.
LEMMA StepKinds ==
  ASSUME Inv, RegionsOK, [InstNext]_instVars
  PROVE  Kinds
<1>1. \A p \in Live : p \in Proc
  BY DEF Live, Inv, TypeOK
<1>2. ASSUME NEW p \in Live, NEW r \in Rgid, NEW offset \in Offsets, libread(p, r, offset)
      PROVE  Kinds
  <2>1. PICK a : a = symrgtbl[p][r].rg_start + offset
    OBVIOUS
  <2>2. /\ PAGING_PGN(a) \in Page /\ UNCHANGED regions
        /\ pg_getval(p, PAGING_PGN(a), PAGING_OFFST(a))
    BY <1>2, <2>1 DEF libread
  <2>3. a \in Address /\ PAGING_OFFST(a) \in Offset
    BY <1>1, <2>1, <2>2, AddressOf
  <2>4. Reads(p, r, offset, a)
    BY <2>1, <2>2, <2>3 DEF Reads
  <2>5. QED
    BY <2>3, <2>4 DEF Kinds
<1>3. ASSUME NEW p \in Live, NEW r \in Rgid, NEW offset \in Offsets, NEW w \in Value,
             libwrite(p, r, offset, w)
      PROVE  Kinds
  <2>1. PICK a : a = symrgtbl[p][r].rg_start + offset
    OBVIOUS
  <2>2. /\ PAGING_PGN(a) \in Page /\ UNCHANGED <<regions, destination>>
        /\ Access(p, PAGING_PGN(a), PAGING_OFFST(a), w)
    BY <1>3, <2>1 DEF libwrite
  <2>3. a \in Address /\ PAGING_OFFST(a) \in Offset
    BY <1>1, <2>1, <2>2, AddressOf
  <2>4. Writes(p, r, offset, a, w)
    BY <2>1, <2>2, <2>3 DEF Writes
  <2>5. QED
    BY <2>3, <2>4 DEF Kinds
<1>4. ASSUME NEW p \in Live, run(p) PROVE Kinds
  <2>1. CASE \E r \in Rgid, size \in Size : liballoc(p, r, size)
    BY <2>1 DEF Kinds
  <2>2. CASE \E r \in Rgid : libfree(p, r)
    BY <2>2 DEF Kinds
  <2>3. QED
    BY <1>2, <1>3, <1>4, <2>1, <2>2 DEF run
<1>5. CASE \E p \in Live : End(p) /\ UNCHANGED <<regions, destination>>
  BY <1>5 DEF Kinds
<1>6. CASE ~crashed /\ \E p \in Proc : Reap(p) /\ UNCHANGED <<regions, destination>>
  BY <1>6 DEF Kinds
<1>7. CASE UNCHANGED instVars
  BY <1>7 DEF Kinds
<1>8. QED
  BY <1>4, <1>5, <1>6, <1>7 DEF InstNext

\* A read accesses a page.
LEMMA ReadAccess ==
  ASSUME NEW p, NEW g, NEW o, pg_getval(p, g, o)
  PROVE  Access(p, g, o, NULL)
BY DEF pg_getval, Access

\* Every instruction is a step of Paging, or leaves the pages alone.
LEMMA PagingSteps ==
  ASSUME Inv, RegionsOK, [InstNext]_instVars
  PROVE  [Next]_vars
<1>1. Kinds
  BY StepKinds
<1>2. CASE \E p \in Live, r \in Rgid, size \in Size : liballoc(p, r, size)
  BY <1>2 DEF liballoc
<1>3. CASE \E p \in Live, r \in Rgid : libfree(p, r)
  BY <1>3 DEF libfree
<1>4. ASSUME NEW p \in Live, NEW r, NEW offset, NEW a, Reads(p, r, offset, a)
      PROVE  [Next]_vars
  BY <1>4, ReadAccess DEF Reads, Next
<1>5. ASSUME NEW p \in Live, NEW r, NEW offset, NEW a, NEW w \in Value,
             Writes(p, r, offset, a, w)
      PROVE  [Next]_vars
  BY <1>5 DEF Writes, Next
<1>6. CASE \E p \in Live : End(p)
  BY <1>6 DEF Next
<1>7. CASE ~crashed /\ \E p \in Proc : Reap(p)
  BY <1>7 DEF Next
<1>8. CASE UNCHANGED vars
  BY <1>8
<1>9. QED
  BY <1>1, <1>2, <1>3, <1>4, <1>5, <1>6, <1>7, <1>8 DEF Kinds, instVars

\* Every instruction keeps the invariant, and what is wild stays so.
LEMMA InstNextInv ==
  ASSUME InstInv, [InstNext]_instVars
  PROVE  InstInv' /\ (stale => stale')
<1> USE DEF InstInv
<1>1. Inv' /\ DataInv'
  BY PagingSteps, NextInv, NextData
<1>2. Kinds
  BY StepKinds
<1>3. \A p \in Live : p \in Proc /\ p \in alive
  BY DEF Live, Inv, TypeOK
<1>4. ASSUME UNCHANGED <<pgd, written, stale>> PROVE Blank' /\ (stale => stale')
  BY <1>4 DEF Blank
<1>5. CASE \E p \in Live, r \in Rgid, size \in Size : liballoc(p, r, size)
  <2>1. UNCHANGED <<pgd, written, stale>> /\ RegionsOK'
    BY <1>3, <1>5, AllocGives DEF liballoc, vars
  <2>2. QED
    BY <1>1, <1>4, <2>1
<1>6. CASE \E p \in Live, r \in Rgid : libfree(p, r)
  <2>1. UNCHANGED <<pgd, written, stale>> /\ RegionsOK'
    BY <1>3, <1>6, FreeTyped DEF libfree, vars
  <2>2. QED
    BY <1>1, <1>4, <2>1
<1>7. ASSUME UNCHANGED regions PROVE RegionsOK'
  BY <1>7 DEF regions, RegionsOK
<1>8. ASSUME NEW p \in Live, NEW g \in Page, NEW o \in Offset, NEW w \in Value \cup {NULL},
             Access(p, g, o, w)
      PROVE  Blank' /\ (stale => stale')
  BY <1>3, <1>8, AccessKeeps
<1>9. ASSUME (\E p \in Live : End(p)) \/ (\E p \in Proc : Reap(p)) \/ UNCHANGED vars
      PROVE  Blank' /\ (stale => stale')
  <2>1. CASE \E p \in Live : End(p)
    BY <1>4, <2>1 DEF End, tables, history
  <2>2. CASE \E p \in Proc : Reap(p)
    BY <1>4, <2>2 DEF Reap, tables, history
  <2>3. CASE UNCHANGED vars
    BY <1>4, <2>3 DEF vars
  <2>4. QED
    BY <1>9, <2>1, <2>2, <2>3
<1>10. ASSUME NEW p \in Live, NEW r, NEW offset, NEW a, Reads(p, r, offset, a)
       PROVE  Blank' /\ (stale => stale') /\ RegionsOK'
  BY <1>7, <1>8, <1>10, ReadAccess DEF Reads
<1>11. ASSUME NEW p \in Live, NEW r, NEW offset, NEW a, NEW w \in Value,
              Writes(p, r, offset, a, w)
       PROVE  Blank' /\ (stale => stale') /\ RegionsOK'
  BY <1>7, <1>8, <1>11 DEF Writes
<1>12. QED
  BY <1>1, <1>2, <1>5, <1>6, <1>7, <1>9, <1>10, <1>11 DEF Kinds, instVars

\* The invariant holds of every state that instructions reach.
LEMMA InstInvariant == InstSpec => []InstInv
<1>1. InstInv /\ [InstNext]_instVars => InstInv'
  BY InstNextInv
<1>2. QED
  BY <1>1, InstInitInv, PTL DEF InstSpec, instVars

\* The memory that a program is promised, and where it is.
Mem == [p \in Proc |-> [a \in Address |-> Wrote(p, a)]]
Places == [p \in Proc |-> [a \in Address |-> Where(p, a)]]

\* It is where the abstract specification starts.
LEMMA OwnInit == InstInit => OwnMemory!Init
<1> SUFFICES ASSUME InstInit PROVE OwnMemory!Init
  OBVIOUS
<1>1. \A p \in Proc, a \in Address : Wrote(p, a) = 0 /\ Where(p, a) = "unused"
  <2>1. \A p \in Proc, g \in Page : ~pgd[p][g].present /\ \A o \in Offset : written[p][g][o] = 0
    BY DEF InstInit, Init, NoPte
  <2>2. \A a \in Address : PAGING_PGN(a) \in Page /\ PAGING_OFFST(a) \in Offset
    BY AddressParts
  <2>3. QED
    BY <2>1, <2>2 DEF Wrote, Where
<1>2. /\ Mem = [p \in Proc |-> [a \in Address |-> 0]]
      /\ Places = [p \in Proc |-> [a \in Address |-> "unused"]]
  BY <1>1 DEF Mem, Places
<1>3. /\ symrgtbl = [p \in Proc |-> [r \in Rgid |-> [rg_start |-> 0, rg_end |-> 0]]]
      /\ alive = Proc /\ stale = FALSE /\ destination = [p \in Proc |-> 0]
  BY DEF InstInit, Init, None, region
<1>4. QED
  BY <1>2, <1>3 DEF OwnMemory!Init, Mem, Places

\* What is written to a page is written to an address of the memory.
LEMMA MemWritten ==
  ASSUME NEW p \in Proc, NEW a \in Address, NEW w,
         AsWritten(p, PAGING_PGN(a), PAGING_OFFST(a), w)
  PROVE  Mem' = IF w = NULL THEN Mem ELSE [Mem EXCEPT ![p][a] = w]
<1>1. \A b \in Address :
        /\ PAGING_PGN(b) \in Page /\ PAGING_OFFST(b) \in Offset
        /\ PAGING_PGN(b) = PAGING_PGN(a) /\ PAGING_OFFST(b) = PAGING_OFFST(a) <=> b = a
  BY AddressParts
<1>2. \A r \in Proc, b \in Address :
        Wrote(r, b)' = IF w # NULL /\ r = p /\ b = a THEN w ELSE Wrote(r, b)
  BY <1>1 DEF Wrote, AsWritten, SameWritten, WrittenAt
<1>3. CASE w = NULL
  BY <1>2, <1>3 DEF Mem
<1>4. CASE w # NULL
  BY <1>2, <1>4 DEF Mem
<1>5. QED
  BY <1>3, <1>4

\* Where an address is follows from the flags of the entry.
LEMMA SameWhere ==
  ASSUME NEW r \in Proc, NEW b \in Address, SameFlags(r, PAGING_PGN(b))
  PROVE  Where(r, b)' = Where(r, b)
BY DEF SameFlags, Where, Swapped

\* Pages whose flags stay are where they were.
LEMMA SamePlaces ==
  ASSUME \A r \in Proc, h \in Page : SameFlags(r, h)
  PROVE  Places' = Places
<1>1. \A r \in Proc, b \in Address : Where(r, b)' = Where(r, b)
  BY AddressParts, SameWhere
<1>2. QED
  BY <1>1 DEF Places

\* A page that is brought into RAM comes as the memory says.
LEMMA Coming ==
  ASSUME NEW p \in Proc, NEW a \in Address, Brought(p, PAGING_PGN(a))
  PROVE  OwnMemory!Comes(p, a)
<1>1. PICK g : g = PAGING_PGN(a)
  OBVIOUS
<1>2. \A b \in Address : PAGING_PGN(b) \in Page
  BY AddressParts
<1>3. ASSUME NEW r \in Proc, NEW b \in Address, r # p
      PROVE  Where(r, b)' = Where(r, b)
  BY <1>2, <1>3, SameWhere DEF Brought
<1>4. ASSUME NEW b \in Address
      PROVE  \/ Where(p, b)' = Where(p, b)
             \/ Where(p, b) = "unused" /\ Where(p, b)' = "ram"
             \/ Where(p, b) = "ram" /\ Where(p, b)' = "swap"
  <2>1. CASE PAGING_PGN(b) = g
    BY <1>1, <2>1 DEF Brought, Where, Swapped
  <2>2. CASE PAGING_PGN(b) # g /\ SameFlags(p, PAGING_PGN(b))
    BY <2>2, SameWhere
  <2>3. CASE Resident(p, PAGING_PGN(b)) /\ Swapped(p, PAGING_PGN(b))'
             /\ pgd'[p][PAGING_PGN(b)].present
    BY <2>3 DEF Where, Resident, Swapped
  <2>4. QED
    BY <1>1, <1>2, <2>1, <2>2, <2>3 DEF Brought, Swapped
<1>5. Where(p, a) = "unused" /\ Where(p, a)' = "ram"
  BY DEF Brought, Where, Swapped
<1>6. /\ Places[p][a] = "unused" /\ Places'[p][a] = "ram"
      /\ \A b \in Address : \/ Places'[p][b] = Places[p][b]
                            \/ Places[p][b] = "unused" /\ Places'[p][b] = "ram"
                            \/ Places[p][b] = "ram" /\ Places'[p][b] = "swap"
  BY <1>4, <1>5 DEF Places
<1>7. Places' = [Places EXCEPT ![p] = Places'[p]]
  <2>1. \A r \in Proc : r # p => Places'[r] = Places[r]
    BY <1>3 DEF Places
  <2>2. QED
    BY <2>1 DEF Places
<1>8. QED
  BY <1>6, <1>7 DEF OwnMemory!Comes, Places

\* An access that is served finds its address in swap, or present.
LEMMA PresentOr ==
  ASSUME NEW p \in Proc, NEW a \in Address, NEW w, stale \in BOOLEAN,
         InPlace(p, PAGING_PGN(a), w) \/ Brought(p, PAGING_PGN(a))
  PROVE  \/ /\ OwnMemory!Present(p, a) /\ stale' = stale
            /\ Resident(p, PAGING_PGN(a))'
         \/ /\ Places[p][a] = "swap" /\ Places' = Places
            /\ stale' = (stale \/ w # NULL)
<1>1. CASE Brought(p, PAGING_PGN(a))
  BY <1>1, Coming DEF Brought, OwnMemory!Present, Resident, Swapped
<1>2. CASE InPlace(p, PAGING_PGN(a), w) /\ Swapped(p, PAGING_PGN(a))
  <2>1. Places' = Places
    BY <1>2, SamePlaces DEF InPlace
  <2>2. Where(p, a) = "swap"
    BY <1>2 DEF InPlace, Where
  <2>3. QED
    BY <1>2, <2>1, <2>2 DEF InPlace, Places
<1>3. CASE InPlace(p, PAGING_PGN(a), w) /\ ~Swapped(p, PAGING_PGN(a))
  <2>1. Places' = Places
    BY <1>3, SamePlaces DEF InPlace
  <2>2. Where(p, a) = "ram"
    BY <1>3 DEF InPlace, Where
  <2>3. Resident(p, PAGING_PGN(a))'
    BY <1>3, AddressParts DEF InPlace, SameFlags, Resident, Swapped
  <2>4. stale' = stale
    BY <1>3 DEF InPlace
  <2>5. QED
    BY <2>1, <2>2, <2>3, <2>4 DEF OwnMemory!Present, Places
<1>4. QED
  BY <1>1, <1>2, <1>3

\* A read, while no write went to a page in swap.
LEMMA ReadRefines ==
  ASSUME InstInv, InstInv', ~stale, NEW p \in Live, NEW r \in Rgid, NEW offset \in Offsets,
         NEW a, Reads(p, r, offset, a)
  PROVE  [OwnMemory!Next]_(OwnMemory!vars)
<1> USE DEF InstInv
<1>1. PICK g, o : g = PAGING_PGN(a) /\ o = PAGING_OFFST(a)
  OBVIOUS
<1>2. /\ p \in alive /\ p \in Proc /\ p \notin reaped /\ stale \in BOOLEAN
      /\ g \in Page /\ o \in Offset /\ a \in Address
      /\ a = symrgtbl[p][r].rg_start + offset /\ UNCHANGED symrgtbl
  BY <1>1 DEF Live, Inv, TypeOK, Reads, regions
<1>3. pg_getval(p, g, o)
  BY <1>1 DEF Reads
<1>4. ASSUME OwnMemory!libread(p, a) PROVE OwnMemory!Next
  BY <1>2, <1>4 DEF OwnMemory!Access, OwnMemory!Next
<1>5. ASSUME NEW data \in Content, destination' = [destination EXCEPT ![p] = data],
             Places[p][a] # "ram", Places' = Places, Mem' = Mem, UNCHANGED <<alive, stale>>
      PROVE  OwnMemory!libread(p, a)
  BY <1>2, <1>5 DEF OwnMemory!libread, Places, Mem, Content
<1>6. CASE /\ Served(p, g, o, NULL)
           /\ \E data \in Loaded(p, g, o) : destination' = [destination EXCEPT ![p] = data]
  <2>1. /\ AsWritten(p, g, o, NULL) /\ UNCHANGED <<alive, reaped>>
        /\ InPlace(p, g, NULL) \/ Brought(p, g)
    BY <1>2, <1>6, ServedDoes
  <2>2. Mem' = Mem
    BY <1>1, <1>2, <2>1, MemWritten
  <2>3. PICK data \in Loaded(p, g, o) : destination' = [destination EXCEPT ![p] = data]
    BY <1>6
  <2>4. CASE OwnMemory!Present(p, a) /\ stale' = stale /\ Resident(p, g)'
    <3>1. Loaded(p, g, o) = {written'[p][g][o]}
      BY <1>2, <2>1, <2>4, LoadedIs
    <3>2. written'[p][g][o] = Mem'[p][a] /\ Mem'[p][a] = Mem[p][a]
      BY <1>1, <1>2, <2>2 DEF Mem, Wrote
    <3>3. destination' = [destination EXCEPT ![p] = Mem[p][a]]
      BY <2>3, <3>1, <3>2
    <3>4. OwnMemory!libread(p, a)
      BY <1>2, <2>1, <2>2, <2>4, <3>3 DEF OwnMemory!libread, Mem
    <3>5. QED
      BY <1>4, <3>4
  <2>5. CASE Places[p][a] = "swap" /\ Places' = Places /\ stale' = (stale \/ NULL # NULL)
    <3>1. data \in Content
      BY <1>2, LoadedIs
    <3>2. stale' = stale
      BY <1>2, <2>5
    <3>3. QED
      BY <1>4, <1>5, <2>1, <2>2, <2>3, <2>5, <3>1, <3>2
  <2>6. QED
    BY <1>1, <1>2, <2>1, <2>4, <2>5, PresentOr
<1>7. ASSUME Refused(p, g) \/ Crash(p, g)
      PROVE  /\ Places[p][a] = "unused" /\ Places' = Places /\ Mem' = Mem
             /\ UNCHANGED <<alive, stale>>
  BY <1>1, <1>2, <1>7, NotServed DEF Places, Mem, Where, Wrote, Swapped
<1>8. CASE /\ Refused(p, g)
           /\ \E data \in Content : destination' = [destination EXCEPT ![p] = data]
  BY <1>4, <1>5, <1>7, <1>8
<1>9. CASE Crash(p, g) /\ UNCHANGED destination
  BY <1>2, <1>7, <1>9 DEF OwnMemory!vars, Mem, Places
<1>10. QED
  BY <1>3, <1>6, <1>8, <1>9 DEF pg_getval

\* A write, while none went to a page in swap before.
LEMMA WriteRefines ==
  ASSUME InstInv, ~stale, NEW p \in Live, NEW r \in Rgid, NEW offset \in Offsets,
         NEW a, NEW w \in Value, Writes(p, r, offset, a, w)
  PROVE  [OwnMemory!Next]_(OwnMemory!vars)
<1> USE DEF InstInv
<1>1. PICK g, o : g = PAGING_PGN(a) /\ o = PAGING_OFFST(a)
  OBVIOUS
<1>2. /\ p \in alive /\ p \in Proc /\ stale \in BOOLEAN /\ w # NULL
      /\ g \in Page /\ o \in Offset /\ a \in Address
      /\ a = symrgtbl[p][r].rg_start + offset /\ UNCHANGED <<symrgtbl, destination>>
  BY <1>1, PagingAssumption DEF Live, Inv, TypeOK, Writes, regions
<1>3. Access(p, g, o, w)
  BY <1>1 DEF Writes
<1>4. CASE Served(p, g, o, w)
  <2>1. /\ AsWritten(p, g, o, w) /\ UNCHANGED <<alive, reaped>>
        /\ InPlace(p, g, w) \/ Brought(p, g)
    BY <1>2, <1>4, ServedDoes
  <2>2. Mem' = [Mem EXCEPT ![p][a] = w]
    BY <1>1, <1>2, <2>1, MemWritten
  <2>3. \/ OwnMemory!Present(p, a) /\ stale' = stale
        \/ Places[p][a] = "swap" /\ Places' = Places /\ stale' = (stale \/ w # NULL)
    BY <1>1, <1>2, <2>1, PresentOr
  <2>4. \/ OwnMemory!Present(p, a) /\ stale' = stale
        \/ Places[p][a] = "swap" /\ Places' = Places /\ stale' = TRUE
    BY <1>2, <2>3
  <2>5. OwnMemory!libwrite(p, a, w)
    BY <1>2, <2>1, <2>2, <2>4 DEF OwnMemory!libwrite, Mem, Places
  <2>6. QED
    BY <1>2, <2>5 DEF OwnMemory!Access, OwnMemory!Next
<1>5. CASE Refused(p, g) \/ Crash(p, g)
  <2>1. /\ Places' = Places /\ Mem' = Mem /\ UNCHANGED <<alive, stale>>
    BY <1>5, NotServed DEF Places, Mem, Where, Wrote, Swapped
  <2>2. QED
    BY <1>2, <2>1 DEF OwnMemory!vars, Mem, Places
<1>6. QED
  BY <1>3, <1>4, <1>5 DEF Access

\* Every step of the instructions is a step of the memory a program is promised.
LEMMA InstRefines ==
  ASSUME InstInv, InstInv', [InstNext]_instVars
  PROVE  [OwnMemory!Next]_(OwnMemory!vars)
<1> USE DEF InstInv
<1>1. CASE stale
  BY <1>1, InstNextInv DEF OwnMemory!Next
<1>2. ASSUME ~stale PROVE [OwnMemory!Next]_(OwnMemory!vars)
  <2>1. Kinds
    BY StepKinds
  <2>2. \A p \in Live : p \in Proc /\ p \in alive
    BY DEF Live, Inv, TypeOK
  <2>3. ASSUME UNCHANGED <<pgd, written>> PROVE Mem' = Mem /\ Places' = Places
    BY <2>3 DEF Mem, Places, Wrote, Where, Swapped
  <2>4. ASSUME NEW p \in Live, NEW r \in Rgid, NEW size \in Size, liballoc(p, r, size)
        PROVE  OwnMemory!Next
    <3>1. PICK start \in Address :
            symrgtbl' = [symrgtbl EXCEPT ![p][r] =
                          [rg_start |-> start, rg_end |-> start + size]]
      BY <2>2, <2>4, AllocGives DEF region
    <3>2. UNCHANGED <<pgd, written, destination, alive, stale>>
      BY <2>4 DEF liballoc, vars
    <3>3. OwnMemory!liballoc(p, r)
      BY <2>3, <3>1, <3>2 DEF OwnMemory!liballoc, Mem, Places
    <3>4. QED
      BY <2>2, <3>3 DEF OwnMemory!Next
  <2>5. ASSUME NEW p \in Live, NEW r \in Rgid, libfree(p, r) PROVE OwnMemory!Next
    <3>1. symrgtbl' = [symrgtbl EXCEPT ![p][r] = [rg_start |-> 0, rg_end |-> 0]]
      BY <2>5 DEF libfree, None, region
    <3>2. UNCHANGED <<pgd, written, destination, alive, stale>>
      BY <2>5 DEF libfree, vars
    <3>3. OwnMemory!libfree(p, r)
      BY <2>3, <3>1, <3>2 DEF OwnMemory!libfree, Mem, Places
    <3>4. QED
      BY <2>2, <3>3 DEF OwnMemory!Next
  <2>6. ASSUME NEW p \in Live, End(p), UNCHANGED <<regions, destination>>
        PROVE  OwnMemory!Next
    <3>1. UNCHANGED <<pgd, written, stale, symrgtbl>> /\ alive' = alive \ {p}
      BY <2>6 DEF End, tables, history, regions
    <3>2. OwnMemory!End(p)
      BY <2>3, <2>6, <3>1 DEF OwnMemory!End, Mem, Places
    <3>3. QED
      BY <2>2, <3>2 DEF OwnMemory!Next
  <2>7. ASSUME UNCHANGED <<pgd, written, stale, alive, regions, destination>>
        PROVE  UNCHANGED OwnMemory!vars
    BY <2>3, <2>7 DEF OwnMemory!vars, Mem, Places, regions
  <2>8. ASSUME NEW p \in Proc, Reap(p), UNCHANGED <<regions, destination>>
        PROVE  UNCHANGED OwnMemory!vars
    BY <2>7, <2>8 DEF Reap, tables, history
  <2>9. CASE UNCHANGED instVars
    BY <2>7, <2>9 DEF instVars, vars
  <2>10. QED
    BY <1>2, <2>1, <2>4, <2>5, <2>6, <2>8, <2>9, ReadRefines, WriteRefines DEF Kinds
<1>3. QED
  BY <1>1, <1>2

\* Regions, page tables, shared frames, eviction and the reuse of frames give each
\* process a memory of its own: its reads return what it wrote itself, but for
\* pages its own accesses put to swap and pages that never got a frame, until a
\* write goes to a page in swap.  The refinement ImplementsMemory holds for every
\* number of processes, variables, pages and frames.
THEOREM MemoryPromised == InstSpec => ImplementsMemory
<1>1. InstInv /\ InstInv' /\ [InstNext]_instVars => [OwnMemory!Next]_(OwnMemory!vars)
  BY InstRefines
<1>2. QED
  BY <1>1, OwnInit, InstInvariant, PTL DEF InstSpec, ImplementsMemory, OwnMemory!Spec, instVars
=============================================================================
