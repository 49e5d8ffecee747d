------------------------------ MODULE PageTable64 ------------------------------
(***************************************************************************)
(* The page table of the MM64 build, src/mm64.c: a tree of tables, five    *)
(* levels of 512 entries, of which only the root exists at first.  The     *)
(* setters allocate the tables on the way to an entry as they are missing, *)
(* any of these allocations may fail, and pte_get_entry stops at the first *)
(* missing one.  All run under mmvm_lock, so a call is a step.  The ranges *)
(* of pages and free_mm are for a client: the shell that SYSCALL 17 passes *)
(* to vmap_pgd_memset has no page table, and free_mm has no caller.        *)
(***************************************************************************)
EXTENDS Pte, SequencesExt

CONSTANTS WIDTH,  \* the entries of a table: 512
          Pgn,    \* the page numbers in use
          Fpn,    \* the frames a page is mapped to
          Swpoff, \* the frames a page is moved to in swap
          Ranges  \* the numbers of pages that are mapped or cleared at once

LEVELS == 5 \* pgd, p4d, pud, pmd, pt

\* The number of pages that an entry of a table of each level stands for.
Span == <<WIDTH * WIDTH * WIDTH * WIDTH, WIDTH * WIDTH * WIDTH, WIDTH * WIDTH, WIDTH, 1>>
PageNumber == 0 .. (WIDTH * Span[1] - 1)

ASSUME TableAssumption ==
  /\ WIDTH \in Nat \ {0, 1}
  /\ Pgn \subseteq PageNumber
  /\ Fpn \subseteq 0 .. (FPNS - 1) /\ Swpoff \subseteq 0 .. (SWPOFFS - 1)
  /\ Ranges \subseteq Nat \ {0}

VARIABLES heap, \* the tables in the order of their allocation; a pointer to a
                \* table is its number here, and the root is table 1
          freed \* history: the tables the last call of free_mm freed, in order

vars == <<heap, freed>>

Level == 1 .. LEVELS
Index == 0 .. (WIDTH - 1)
NULL == 0

\* get_pd_from_pagenum: the digits of the page number, the highest first.
NarrowDigit(g, l) == \* mutant: the mask of the last table is too short
  (g \div Span[l]) % (IF l = LEVELS THEN WIDTH - 1 ELSE WIDTH)
Digit(g, l) == (g \div Span[l]) % WIDTH

\* A fresh table of level l, cleared by the loop after malloc.
Table(l) == [i \in Index |-> IF l = LEVELS THEN NoPte ELSE NULL]

Init == heap = <<Table(1)>> /\ freed = <<>>

\* free_mm leaves pgd NULL.
Root(h) == IF h = <<>> THEN NULL ELSE 1

\* The tables on the way to page g in h, one for each level; NULL from the
\* first missing one on.
Entry(h, t, i) == IF t = NULL THEN NULL ELSE h[t][i]
Walk(h, g) ==
  LET p4d == Entry(h, Root(h), Digit(g, 1))
      pud == Entry(h, p4d, Digit(g, 2))
      pmd == Entry(h, pud, Digit(g, 3))
      pt == Entry(h, pmd, Digit(g, 4))
  IN  <<Root(h), p4d, pud, pmd, pt>>

\* "Access or allocate": h with a table of level l behind entry i of table t.
AllocAlways(h, t, i, l) == \* mutant: the test for NULL is missing
  Append([h EXCEPT ![t][i] = Len(h) + 1], Table(l))
Alloc(h, t, i, l) ==
  IF h[t][i] # NULL THEN h
  ELSE Append([h EXCEPT ![t][i] = Len(h) + 1], Table(l))

\* h with the missing tables on the way to g allocated, down to level k.
Grow(h, g, k) ==
  LET h2 == Alloc(h, 1, Digit(g, 1), 2)
      h3 == Alloc(h2, Walk(h2, g)[2], Digit(g, 2), 3)
      h4 == Alloc(h3, Walk(h3, g)[3], Digit(g, 3), 4)
      h5 == Alloc(h4, Walk(h4, g)[4], Digit(g, 4), 5)
  IN  CASE k = 1 -> h [] k = 2 -> h2 [] k = 3 -> h3 [] k = 4 -> h4 [] k = 5 -> h5

EntryIn(h, g) ==
  LET pt == Walk(h, g)[LEVELS] IN
  IF pt = NULL THEN NoPte ELSE h[pt][Digit(g, LEVELS)]
pte_get_entry(g) == EntryIn(heap, g)

\* h with the entry of g set: a table just made has zeros.
SetIn(h, g, pte) ==
  LET grown == Grow(h, g, LEVELS) IN
  [grown EXCEPT ![Walk(grown, g)[LEVELS]][Digit(g, LEVELS)] = pte]

\* The common body of the setters, which return -1 when there is no root.
SetEntry(g, pte) == heap # <<>> /\ heap' = SetIn(heap, g, pte) /\ UNCHANGED freed

SetFpn(g, fpn) == SetEntry(g, pte_set_fpn(pte_get_entry(g), fpn))
SetSwap(g, off) == SetEntry(g, pte_set_swap(pte_get_entry(g), off))
\* pg_setval sets what it just got, and dirty.
SetDirty(g) == SetEntry(g, [pte_get_entry(g) EXCEPT !.dirty = TRUE])

\* A setter returns -1 since the allocation of level k + 1 failed; the tables
\* that it made in h until then stay.
AllocFails(h, g, k) ==
  /\ h # <<>>
  /\ Walk(h, g)[k + 1] = NULL
  /\ heap' = Grow(h, g, k)
  /\ UNCHANGED freed

\* vmap_page_range and vmap_pgd_memset: h with frames, or zeros, in the entries
\* from g on, one after the other.
Mapped(h, g, frames) ==
  LET after[k \in 0 .. Len(frames)] ==
        IF k = 0 THEN h
        ELSE LET page == g + k - 1
             IN  SetIn(after[k - 1], page,
                       pte_set_fpn(EntryIn(after[k - 1], page), frames[k]))
  IN  after[Len(frames)]
Cleared(h, g, n) ==
  LET after[k \in 0 .. n] == IF k = 0 THEN h ELSE SetIn(after[k - 1], g + k - 1, NoPte)
  IN  after[n]

MapRange(g, frames) ==
  heap # <<>> /\ heap' = Mapped(heap, g, frames) /\ UNCHANGED freed
ClearRange(g, n) ==
  heap # <<>> /\ heap' = Cleared(heap, g, n) /\ UNCHANGED freed

\* They stop at the first page that cannot be set; the pages before it are.
MapRangeFails(g, frames, k) ==
  heap # <<>> /\ AllocFails(Mapped(heap, g, Front(frames)), g + Len(frames) - 1, k)
ClearRangeFails(g, n, k) ==
  heap # <<>> /\ AllocFails(Cleared(heap, g, n - 1), g + n - 1, k)

\* free_mm frees what a table leads to, entry by entry, and then the table:
\* below[u] lists, in order, what it frees for the table u of the next level.
FreeEntryButFirst(t, i, below) == \* mutant: the loop starts at 1
  IF i = 0 \/ heap[t][i] = NULL THEN <<>> ELSE below[heap[t][i]]
FreeEntry(t, i, below) ==
  IF heap[t][i] = NULL THEN <<>> ELSE below[heap[t][i]]
FreeTable(t, below) ==
  LET upTo[i \in 0 .. WIDTH] ==
        IF i = 0 THEN <<>> ELSE upTo[i - 1] \o FreeEntry(t, i - 1, below)
  IN  Append(upTo[WIDTH], t)
\* Its nested loops, from the last level, whose tables lead nowhere, to the root.
FreeBelow ==
  LET pt == [t \in DOMAIN heap |-> <<t>>]
      pmd == [t \in DOMAIN heap |-> FreeTable(t, pt)]
      pud == [t \in DOMAIN heap |-> FreeTable(t, pmd)]
      p4d == [t \in DOMAIN heap |-> FreeTable(t, pud)]
      pgd == [t \in DOMAIN heap |-> FreeTable(t, p4d)]
  IN  pgd[1]
FreeMm ==
  /\ freed' = IF heap = <<>> THEN <<>> ELSE FreeBelow
  /\ heap' = <<>>

InUse(g, n) == g .. (g + n - 1) \subseteq Pgn

Next ==
  \/ \E g \in Pgn, fpn \in Fpn : SetFpn(g, fpn)
  \/ \E g \in Pgn, off \in Swpoff : SetSwap(g, off)
  \/ \E g \in Pgn : SetDirty(g)
  \/ \E g \in Pgn, k \in 1 .. (LEVELS - 1) : AllocFails(heap, g, k)
  \/ \E g \in Pgn, n \in Ranges : InUse(g, n) /\
       \/ \E frames \in [1 .. n -> Fpn] : MapRange(g, frames)
       \/ ClearRange(g, n)
       \/ \E frames \in [1 .. n -> Fpn], k \in 1 .. (LEVELS - 1) : MapRangeFails(g, frames, k)
       \/ \E k \in 1 .. (LEVELS - 1) : ClearRangeFails(g, n, k)
  \/ FreeMm

Spec == Init /\ [][Next]_vars

-----------------------------------------------------------------------------

\* What an entry holds: a swap offset, or a frame in place of its lower part.
Lows ==
  LET offs == {0} \cup {off * SWPSTRIDE : off \in Swpoff}
  IN  offs \cup {off - (off % FPNS) + f : off \in offs, f \in Fpn}

TypeOK ==
  \A g \in Pgn :
    /\ Walk(heap, g) \in [Level -> 0 .. Len(heap)]
    /\ pte_get_entry(g) \in PteType(Lows)

\* The entries as src/libmem.c sees them are those of an array: a call on one
\* page changes no other page, and a failed call none at all.
Flat == INSTANCE FlatPageTable WITH pgd <- [g \in Pgn |-> pte_get_entry(g)]
ImplementsFlat == Flat!Spec

\* Two pages that meet in a table came there the same way, and leave the last
\* one by different entries: the tables form a tree, and no entry serves two
\* page numbers.
TreeShaped ==
  /\ TypeOK
  /\ \A g1, g2 \in Pgn :
       LET way1 == Walk(heap, g1)
           way2 == Walk(heap, g2)
       IN  \A l, m \in Level :
             (way1[l] # NULL /\ way1[l] = way2[m]) =>
               /\ l = m
               /\ \A k \in 1 .. l : way1[k] = way2[k]
               /\ (l = LEVELS /\ Digit(g1, l) = Digit(g2, l)) => g1 = g2

\* A table once linked stays where it is until free_mm: what a caller got on the
\* way to one page is not replaced by later calls, and nothing in it is lost.
NeverRelinked ==
  [][heap' # <<>> =>
       \A g \in Pgn : LET old == Walk(heap, g)
                         new == Walk(heap', g)
                     IN  \A l \in Level : old[l] \in {NULL, new[l]}]_vars

\* free_mm frees every table that was ever allocated, after calls that failed at
\* any level too, each once, and none before a table it reads through it.
EachFreedOnce ==
  [][heap # <<>> /\ heap' = <<>> =>
       /\ IsInjective(freed')
       /\ ToSet(freed') = DOMAIN heap
       /\ \A g \in Pgn : LET way == Walk(heap, g) IN
            \A l \in Level \ {1}, i, j \in DOMAIN freed' :
              freed'[i] = way[l] /\ freed'[j] = way[l - 1] => i < j]_vars
=============================================================================
