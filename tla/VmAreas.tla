--------------------------------- MODULE VmAreas ---------------------------------
(***************************************************************************)
(* The areas of an address space, src/mm-vm.c: a list linked by vm_next,   *)
(* which add, remove, merge and split rewrite in place.  Calls that return *)
(* -1 change nothing and are stuttering steps.  The functions have no      *)
(* caller yet: any areas may be added, merged and split, as far as the     *)
(* code lets them, and history says which calls it took but does not serve *)
(* well.  init_mm links the first region to whatever vm_freerg_list held   *)
(* (src/mm.c:310-322); the list is taken to end there.                     *)
(***************************************************************************)
EXTENDS Integers, FiniteSets, SequencesExt

CONSTANTS MaxNodes,  \* bound on the areas ever allocated at a time
          MaxId,     \* bound on vm_id
          MaxAddr,   \* bound on addresses
          MaxFree,   \* bound on the regions of a free list when one is added
          MaxAmiss   \* bound on the kinds of calls that are not served well

ASSUME VmAreasAssumption ==
  /\ MaxNodes \in Nat \ {0} /\ MaxId \in Nat /\ MaxAddr \in Nat /\ MaxFree \in Nat
  /\ MaxAmiss \in Nat

Node == 1 .. MaxNodes
NULL == 0
Addr == 0 .. MaxAddr
Id == 0 .. MaxId
Region == {rg \in [rg_start : Addr, rg_end : Addr] : rg.rg_start <= rg.rg_end}
region(start, end) == [rg_start |-> start, rg_end |-> end]

VARIABLES mmap,  \* the first area
          area,  \* the areas allocated, in a partial function of Node
          live,  \* history: added, and since then not removed nor merged away
          amiss  \* history: what calls did that the code does not check

vars == <<mmap, area, live, amiss>>

Amiss == {"order",    \* merged areas of which one does not follow the other
          "empty",    \* merged an area with an empty one that starts where it starts
          "taken",    \* added an area with an id that another one has
          "next id",  \* split an area when another one has the next id
          "cut",      \* split an area whose free list does not fall into two parts
          "shared",   \* split a region with others behind it: two lists share them
          "no node"}  \* had no node for the second part of a free region

vma(id, start, end, brk, free, next) ==
  [vm_id |-> id, vm_start |-> start, vm_end |-> end, sbrk |-> brk,
   vm_freerg_list |-> free, vm_next |-> next]

\* init_mm
Init ==
  /\ mmap = 1
  /\ area = [n \in {1} |-> vma(0, 0, 0, 0, <<region(0, 0)>>, NULL)]
  /\ live = {1}
  /\ amiss = {}

-----------------------------------------------------------------------------
(* The list.                                                               *)

\* The area k steps behind the first.
Behind[k \in 0 .. MaxNodes] ==
  IF k = 0 THEN mmap
  ELSE IF Behind[k - 1] = NULL THEN NULL ELSE area[Behind[k - 1]].vm_next

Steps == {k \in 0 .. MaxNodes - 1 : Behind[k] # NULL}
List == [k \in 1 .. Cardinality(Steps) |-> Behind[k - 1]]

\* The first area whose id is not smaller, NULL where the code follows NULL.
get_vma_by_num(id) ==
  LET i == SelectInSeq(List, LAMBDA n : area[n].vm_id >= id) IN
  IF i = 0 THEN NULL ELSE List[i]

OVERLAP(x1, x2, y1, y2) == x1 < y2 /\ y1 < x2

\* An address is in an area, and in a region of a list.
Within(a, x) == a.vm_start <= x /\ x < a.vm_end
Frees(list, x) == \E i \in DOMAIN list : list[i].rg_start <= x /\ x < list[i].rg_end

\* malloc, while there is a node left.
Fresh == Node \ DOMAIN area
malloc == CHOOSE n \in Fresh : \A m \in Fresh : n <= m
Put(f, n, a) == [x \in DOMAIN f \cup {n} |-> IF x = n THEN a ELSE f[x]]
Drop(f, n) == [x \in DOMAIN f \ {n} |-> f[x]]

-----------------------------------------------------------------------------
(* The operations.                                                         *)

\* The area behind which add_vm_area puts an area of this id, NULL for none.
InsertLast(id) == IF List = <<>> THEN NULL ELSE Last(List) \* mutant: no order
InsertAfter(id) ==
  IF List = <<>> \/ area[mmap].vm_id > id THEN NULL
  ELSE LET i == SelectInSeq(Tail(List), LAMBDA n : area[n].vm_id >= id)
       IN  List[IF i = 0 THEN Len(List) ELSE i]

Ids == {area[n].vm_id : n \in live}

\* create_vm_area and add_vm_area.  Without a node for its first region, the new
\* area has no free list.
AddUnchecked(id, start, end, free) == \* mutant: only the first area is compared
  LET n == malloc
      prev == InsertAfter(id)
      next == IF prev = NULL THEN mmap ELSE area[prev].vm_next
      new == Put(area, n, vma(id, start, end, start, free, next))
  IN
  /\ Fresh # {}
  /\ List # <<>> => ~OVERLAP(area[mmap].vm_start, area[mmap].vm_end, start, end)
  /\ mmap' = IF prev = NULL THEN n ELSE mmap
  /\ area' = IF prev = NULL THEN new ELSE [new EXCEPT ![prev].vm_next = n]
  /\ live' = live \cup {n}
  /\ amiss' = amiss \cup {w \in {"taken"} : id \in Ids}
Add(id, start, end, free) ==
  LET n == malloc
      prev == InsertAfter(id)
      next == IF prev = NULL THEN mmap ELSE area[prev].vm_next
      new == Put(area, n, vma(id, start, end, start, free, next))
  IN
  /\ Fresh # {}
  /\ \A i \in DOMAIN List :
       ~OVERLAP(area[List[i]].vm_start, area[List[i]].vm_end, start, end)
  /\ mmap' = IF prev = NULL THEN n ELSE mmap
  /\ area' = IF prev = NULL THEN new ELSE [new EXCEPT ![prev].vm_next = n]
  /\ live' = live \cup {n}
  /\ amiss' = amiss \cup {w \in {"taken"} : id \in Ids}

\* remove_vm_area
RemoveArea(id) ==
  LET i == SelectInSeq(List, LAMBDA n : area[n].vm_id = id)
      cur == List[i]
      next == area[cur].vm_next
  IN
  /\ i # 0
  /\ mmap' = IF i = 1 THEN next ELSE mmap
  /\ area' = Drop(IF i = 1 THEN area ELSE [area EXCEPT ![List[i - 1]].vm_next = next], cur)
  /\ live' = live \ {cur}
  /\ UNCHANGED amiss

greater(a, b) == IF a > b THEN a ELSE b

\* merge_vm_areas.  The second area is not freed.
Lower(x, y) == IF area[x].vm_start > area[y].vm_start THEN y ELSE x
ListsReplaced(l1, l2) == l2 \* mutant: the list of the first is overwritten
ListsMerged(l1, l2) == l1 \o l2
NextOfFirst(vma1, vma2) == area[vma1].vm_next \* mutant: vm_next is not updated
NextOfMerged(vma1, vma2) == area[vma2].vm_next

\* The links are right if the areas follow each other in the list, too, and the
\* border if it is the upper end of the first.
InOrder(vma1, vma2) == area[vma1].vm_next = vma2
Meets(vma1, vma2) == area[vma1].vm_end = area[vma2].vm_start

Merge(x, y) ==
  LET vma1 == Lower(x, y)
      vma2 == IF vma1 = x THEN y ELSE x
  IN
  /\ area[x].vm_end = area[y].vm_start \/ area[y].vm_end = area[x].vm_start
  /\ area' = [area EXCEPT
       ![vma1].vm_end = area[vma2].vm_end,
       ![vma1].sbrk = greater(@, area[vma2].sbrk),
       ![vma1].vm_freerg_list = ListsMerged(@, area[vma2].vm_freerg_list),
       ![vma1].vm_next = NextOfMerged(vma1, vma2),
       ![vma2].vm_freerg_list = <<>>]
  /\ live' = live \ {vma2}
  /\ amiss' = amiss \cup {w \in {"order"} : ~InOrder(vma1, vma2)}
                    \cup {w \in {"empty"} : ~Meets(vma1, vma2)}
  /\ UNCHANGED mmap

\* Where split_vm_area cuts a free list, 0 for nowhere, and what it makes of
\* it, <<of the lower, of the upper>>, if there is a node for a second part.
CutAt(list, addr) == SelectInSeq(list, LAMBDA rg : rg.rg_start >= addr \/ rg.rg_end > addr)
Spans(list, addr) == CutAt(list, addr) # 0 /\ list[CutAt(list, addr)].rg_start < addr
SplitRegions(list, addr, node) ==
  LET i == CutAt(list, addr) IN
  IF i = 0 \/ (Spans(list, addr) /\ ~node) THEN <<list, <<>>>>
  ELSE IF list[i].rg_start >= addr
       THEN <<SubSeq(list, 1, i - 1), SubSeq(list, i, Len(list))>>
  ELSE <<[list EXCEPT ![i].rg_end = addr],
         <<region(addr, list[i].rg_end)>> \o SubSeq(list, i + 1, Len(list))>>

\* What is behind a region that spans the address stays in the lower list, too.
Shares(list, addr) == Spans(list, addr) /\ CutAt(list, addr) < Len(list)

\* The addresses of the lower part that only regions behind the cut have, in a
\* list that has no order: the cut takes them along to the upper area.
Misplaced(a, addr) ==
  LET list == a.vm_freerg_list
      i == CutAt(list, addr)
  IN
  IF i = 0 \/ Spans(list, addr) THEN {}
  ELSE {x \in a.vm_start .. (addr - 1) :
          Frees(list, x) /\ ~Frees(SubSeq(list, 1, i - 1), x)}

\* split_vm_area
BreakCut(brk, addr) == IF brk > addr THEN addr ELSE brk
Split(n, addr, node) ==
  LET new == malloc
      a == area[n]
      lists == SplitRegions(a.vm_freerg_list, addr, node)
  IN
  /\ a.vm_start < addr /\ addr < a.vm_end
  /\ Fresh # {} /\ a.vm_id < MaxId
  /\ area' = Put([area EXCEPT ![n].vm_end = addr,
                              ![n].sbrk = BreakCut(@, addr),
                              ![n].vm_freerg_list = lists[1],
                              ![n].vm_next = new],
                 new, vma(a.vm_id + 1, addr, a.vm_end, greater(a.sbrk, addr),
                          lists[2], a.vm_next))
  /\ live' = live \cup {new}
  /\ amiss' = amiss
       \cup {w \in {"next id"} : a.vm_id + 1 \in Ids}
       \cup {w \in {"cut"} : Misplaced(a, addr) # {}}
       \cup {w \in {"shared"} : node /\ Shares(a.vm_freerg_list, addr)}
       \cup {w \in {"no node"} : ~node /\ Spans(a.vm_freerg_list, addr)}
  /\ UNCHANGED mmap

\* enlist_vm_freerg_list, with the region of a variable in the first area.
Release(rg) ==
  LET a == area[mmap] IN
  /\ mmap # NULL
  /\ a.vm_start <= rg.rg_start /\ rg.rg_start < rg.rg_end /\ rg.rg_end <= a.vm_end
  /\ Len(a.vm_freerg_list) < MaxFree
  /\ \A i \in DOMAIN a.vm_freerg_list :
       LET r == a.vm_freerg_list[i] IN
       ~OVERLAP(r.rg_start, r.rg_end, rg.rg_start, rg.rg_end)
  /\ area' = [area EXCEPT ![mmap].vm_freerg_list = <<rg>> \o @]
  /\ UNCHANGED <<mmap, live, amiss>>

-----------------------------------------------------------------------------

\* Of links or borders that are wrong, or of nodes in two lists, a call may make
\* anything: what comes after them is left open.
Next ==
  /\ amiss \cap {"order", "empty", "shared"} = {} /\ Cardinality(amiss) < MaxAmiss
  /\ \/ \E id \in Id, start, end \in Addr :
          /\ start < end
          /\ \E free \in {<<region(start, start)>>, <<>>} : Add(id, start, end, free)
     \/ \E id \in Id : RemoveArea(id)
     \/ \E x \in live : \E y \in live \ {x} : Merge(x, y)
     \/ \E n \in live, addr \in Addr, node \in BOOLEAN : Split(n, addr, node)
     \/ \E rg \in Region : Release(rg)

Spec == Init /\ [][Next]_vars

-----------------------------------------------------------------------------

TypeOK ==
  /\ mmap \in Node \cup {NULL}
  /\ DOMAIN area \subseteq Node
  /\ live \subseteq DOMAIN area
  /\ amiss \subseteq Amiss
  /\ \A n \in DOMAIN area :
       /\ area[n] = vma(area[n].vm_id, area[n].vm_start, area[n].vm_end,
                        area[n].sbrk, area[n].vm_freerg_list, area[n].vm_next)
       /\ area[n].vm_id \in Id
       /\ region(area[n].vm_start, area[n].vm_end) \in Region
       /\ area[n].sbrk \in area[n].vm_start .. area[n].vm_end
       /\ area[n].vm_freerg_list \in Seq(Region)
       /\ area[n].vm_next \in Node \cup {NULL}

\* The links lead through every area that was added and neither removed nor merged
\* away, once, and end.
Whole ==
  \E n \in 0 .. MaxNodes : \E L \in [1 .. n -> live] :
    /\ ToSet(L) = live /\ IsInjective(L)
    /\ mmap = IF n = 0 THEN NULL ELSE L[1]
    /\ \A i \in 1 .. n : area[L[i]].vm_next = IF i < n THEN L[i + 1] ELSE NULL

\* No rewriting of links loses an area or leaves one behind, whatever the ids and the
\* free lists, until two areas are merged of which the upper one does not follow the
\* lower one in the list, though their addresses meet: and that always does.
ListWhole ==
  /\ amiss \cap {"order", "empty"} = {} => Whole /\ TypeOK
  /\ "order" \in amiss => ~Whole

\* The areas do not overlap, whatever was added, split and merged.
AreasDisjoint ==
  \A m, n \in live : m # n =>
    ~OVERLAP(area[m].vm_start, area[m].vm_end, area[n].vm_start, area[n].vm_end)

\* get_vma_by_num, which stops at the first id that is not smaller, finds every
\* area by its id.
Findable == \A n \in live : get_vma_by_num(area[n].vm_id) = n

\* The area that a call makes has an id of its own.
NewId == \A n \in live' \ live : area'[n].vm_id \notin Ids

\* As long as no id was taken twice, a call leaves every area to be found, if and only
\* if the area it makes has an id of its own.  split_vm_area does not look for one: it
\* takes the next id, and the search then misses an area.
LookupFinds ==
  [][amiss \cap {"taken", "next id"} = {} /\ amiss' \cap {"order", "empty"} = {} =>
       (Findable' <=> NewId)]_vars

FreeAddrs ==
  {x \in Addr : \E n \in live : Within(area[n], x) /\ Frees(area[n].vm_freerg_list, x)}
Covered == {x \in Addr : \E n \in live : Within(area[n], x)}

\* The free memory of an area stays free, in the area it comes to belong to, and
\* goes only when its area is removed: across all calls, up to the first split of a
\* free list that has a region of the lower part behind the cut, or of one that
\* lacks a node, and these always lose some.
FreeKept ==
  [][amiss \cap {"cut", "no node"} = {} /\ amiss' \cap {"order", "empty"} = {} =>
       (FreeAddrs \cap Covered' \subseteq FreeAddrs' <=> amiss' \cap {"cut", "no node"} = {})]_vars
=============================================================================
