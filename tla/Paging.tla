-------------------------------- MODULE Paging --------------------------------
(***************************************************************************)
(* Demand paging of the 32-bit build: pg_getpage, pg_getval and pg_setval  *)
(* of src/libmem.c over the flat page table of src/mm.c, the frame lists   *)
(* of src/mm-memphy.c and the page copies of SYSCALL 17.  libread and      *)
(* libwrite hold mmvm_lock from end to end, so an instruction is a step.   *)
(* free_pcb_memph has no caller: it is here for a client that calls it     *)
(* once for each process that has ended.                                   *)
(***************************************************************************)
EXTENDS Pte, FrameLists, FiniteSets

CONSTANTS Proc, Page,
          PAGESZ,     \* the bytes of a page, and of a frame
          Value,      \* what programs write, besides the 0 of a fresh page
          NULL,       \* the operand of a read
          RamFrames,  \* mram->maxsz / PAGING_PAGESZ
          SwpFrames   \* active_mswp->maxsz / PAGING_PAGESZ

\* The numbers of the frames fit in an entry.
ASSUME PagingAssumption ==
  /\ RamFrames \in Nat /\ RamFrames <= FPNS
  /\ SwpFrames \in Nat /\ SwpFrames <= SWPOFFS
  /\ PAGESZ \in Nat \ {0}
  /\ Value \subseteq Nat /\ 0 \notin Value /\ NULL \notin Value
  /\ IsFiniteSet(Proc) /\ IsFiniteSet(Page)

VARIABLES pgd,       \* the page table entry of each page
          fifo_pgn,  \* the loaded pages of each process, the latest first
          ramFree, swpFree,  \* free_fp_list of the two devices
          ram, swp,  \* their storage, a byte for each address
          alive,     \* the processes that have not ended
          reaped,    \* ended processes that free_pcb_memph was called for
          crashed,   \* the program was killed by a null or a stray pointer
          written,   \* history: what each byte of each page should be
          loads,     \* history: the pages of each process as they were loaded
          stale      \* history: a write went to a page that is in swap

tables == <<pgd, fifo_pgn>>
memory == <<ramFree, swpFree, ram, swp>>
history == <<written, loads, stale>>
vars == <<pgd, fifo_pgn, ramFree, swpFree, ram, swp, alive, reaped, crashed,
          written, loads, stale>>

Frame == 0 .. (RamFrames - 1)
SwapFrame == 0 .. (SwpFrames - 1)
Offset == 0 .. (PAGESZ - 1)
Content == Value \cup {0}

Swapped(p, g) == pgd[p][g].swapped
Resident(p, g) == pgd[p][g].present /\ ~Swapped(p, g)

-----------------------------------------------------------------------------

Init ==
  /\ pgd = [p \in Proc |-> [g \in Page |-> NoPte]]
  /\ fifo_pgn = [p \in Proc |-> <<>>]
  /\ ramFree = MEMPHY_format(RamFrames)
  /\ swpFree = MEMPHY_format(SwpFrames)
  /\ ram = [a \in 0 .. (RamFrames * PAGESZ - 1) |-> 0]
  /\ swp = [a \in 0 .. (SwpFrames * PAGESZ - 1) |-> 0]
  /\ alive = Proc
  /\ reaped = {}
  /\ crashed = FALSE
  /\ written = [p \in Proc |-> [g \in Page |-> [o \in Offset |-> 0]]]
  /\ loads = [p \in Proc |-> <<>>]
  /\ stale = FALSE

(* Storage.                                                                *)

Physical(fpn, o) == fpn * PAGESZ + o

\* An address outside the device is refused, which pg_setval does not notice.
MEMPHY_write(storage, a, w) ==
  IF a \in DOMAIN storage THEN [storage EXCEPT ![a] = w] ELSE storage

\* A write of w to offset o of frame fpn, nothing for a read.
Store(storage, fpn, o, w) ==
  IF w = NULL THEN storage ELSE MEMPHY_write(storage, Physical(fpn, o), w)

ZeroFirst(storage, fpn) == MEMPHY_write(storage, Physical(fpn, 0), 0) \* mutant: one byte only
ZeroFill(storage, fpn) ==
  [a \in DOMAIN storage |-> IF a \div PAGESZ = fpn THEN 0 ELSE storage[a]]

CopyButLast(src, srcfpn, dst, dstfpn) == \* mutant: the loop stops one byte early
  [a \in DOMAIN dst |-> IF a \div PAGESZ = dstfpn /\ a % PAGESZ # PAGESZ - 1
                        THEN src[Physical(srcfpn, a % PAGESZ)] ELSE dst[a]]
swap_cp_page(src, srcfpn, dst, dstfpn) ==
  [a \in DOMAIN dst |-> IF a \div PAGESZ = dstfpn
                        THEN src[Physical(srcfpn, a % PAGESZ)] ELSE dst[a]]

(* What an access by process p to offset o of page g does; w is NULL for a *)
(* read, or the value that pg_setval then stores.                          *)

\* The entry says present, which it also does once the page is in swap.
Hit(p, g, o, w) ==
  /\ pgd[p][g].present
  /\ ram' = Store(ram, PAGING_FPN(pgd[p][g]), o, w)
  /\ pgd' = [pgd EXCEPT ![p][g].dirty = @ \/ w # NULL]
  /\ written' = [written EXCEPT ![p][g][o] = IF w = NULL THEN @ ELSE w]
  /\ stale' = (stale \/ (w # NULL /\ Swapped(p, g)))
  /\ UNCHANGED <<fifo_pgn, ramFree, swpFree, swp, alive, reaped, crashed, loads>>

\* The end of pg_getpage, for a page that was never loaded: frame fpn is
\* zero-filled, entered in the table t, and the page put first in the queue.
\* The branch for a page that comes back from swap is missing: it asks for an
\* entry swapped and not present, which pte_set_swap never leaves behind
\* (SwapIsForever).
Load(p, g, o, w, fpn, t, q) ==
  /\ ram' = Store(ZeroFill(ram, fpn), fpn, o, w)
  /\ pgd' = [pgd EXCEPT ![p] =
              [t EXCEPT ![g] = [pte_set_fpn(@, fpn) EXCEPT !.dirty = w # NULL]]]
  /\ fifo_pgn' = [fifo_pgn EXCEPT ![p] = <<g>> \o q]
  /\ written' = [written EXCEPT ![p][g] =
       [b \in Offset |-> IF b = o /\ w # NULL THEN w ELSE 0]]
  /\ loads' = [loads EXCEPT ![p] = Append(@, g)]
  /\ UNCHANGED <<alive, reaped, crashed, stale>>

FillKeepFrame(p, g, o, w) == \* mutant: get_freefp leaves the frame in its list
  /\ ~pgd[p][g].present
  /\ ramFree # <<>>
  /\ Load(p, g, o, w, Head(ramFree), pgd[p], fifo_pgn[p])
  /\ UNCHANGED <<ramFree, swpFree, swp>>

Fill(p, g, o, w) ==
  /\ ~pgd[p][g].present
  /\ ramFree # <<>>
  /\ Load(p, g, o, w, Head(ramFree), pgd[p], fifo_pgn[p])
  /\ ramFree' = freefp_taken(ramFree)
  /\ UNCHANGED <<swpFree, swp>>

\* find_victim_page takes the oldest page of the process itself.
NewestFirst(q) == Head(q) \* mutant: the latest page is the victim
find_victim_page(q) == Last(q)

LeaveNewest(q) == Tail(q) \* mutant: another page leaves the queue
LeaveNothing(q) == <<>> \* mutant: the queue is cut at its first node
LeaveQueue(q) == Front(q)

ReplaceNoCopy(p, g, o, w) == \* mutant: SYSMEM_SWP_OP does nothing
  LET vic == find_victim_page(fifo_pgn[p]) IN
  /\ ~pgd[p][g].present /\ ramFree = <<>> /\ Len(fifo_pgn[p]) >= 2 /\ swpFree # <<>>
  /\ Load(p, g, o, w, PAGING_FPN(pgd[p][vic]),
          [pgd[p] EXCEPT ![vic] = pte_set_swap(@, Head(swpFree))], Front(fifo_pgn[p]))
  /\ swpFree' = freefp_taken(swpFree)
  /\ UNCHANGED <<ramFree, swp>>
ReplaceKeepSwapFrame(p, g, o, w) == \* mutant: the swap frame stays free
  LET vic == find_victim_page(fifo_pgn[p]) IN
  /\ ~pgd[p][g].present /\ ramFree = <<>> /\ Len(fifo_pgn[p]) >= 2 /\ swpFree # <<>>
  /\ swp' = swap_cp_page(ram, PAGING_FPN(pgd[p][vic]), swp, Head(swpFree))
  /\ Load(p, g, o, w, PAGING_FPN(pgd[p][vic]),
          [pgd[p] EXCEPT ![vic] = pte_set_swap(@, Head(swpFree))], Front(fifo_pgn[p]))
  /\ UNCHANGED <<ramFree, swpFree>>

Replace(p, g, o, w) ==
  LET vic == find_victim_page(fifo_pgn[p])
      vicfpn == PAGING_FPN(pgd[p][vic])
      swpfpn == Head(swpFree)
  IN
  /\ ~pgd[p][g].present
  /\ ramFree = <<>>
  /\ Len(fifo_pgn[p]) >= 2
  /\ swpFree # <<>>
  /\ swp' = swap_cp_page(ram, vicfpn, swp, swpfpn)
  /\ Load(p, g, o, w, vicfpn, [pgd[p] EXCEPT ![vic] = pte_set_swap(@, swpfpn)],
          LeaveQueue(fifo_pgn[p]))
  /\ swpFree' = freefp_taken(swpFree)
  /\ UNCHANGED ramFree

\* RAM is full and the process has no page to give: the access fails, and
\* __read and __write return 0 all the same.
NoVictim(p, g) ==
  /\ ~pgd[p][g].present
  /\ ramFree = <<>>
  /\ fifo_pgn[p] = <<>>
  /\ UNCHANGED vars

\* With a single page in the queue, prev->pg_next writes through NULL.
CrashInVictim(p, g) ==
  /\ ~pgd[p][g].present
  /\ ramFree = <<>>
  /\ Len(fifo_pgn[p]) = 1
  /\ crashed' = TRUE
  /\ UNCHANGED <<tables, memory, alive, reaped, history>>

\* Swap is full: the access fails after the victim has left the queue.
SwapFull(p, g) ==
  /\ ~pgd[p][g].present
  /\ ramFree = <<>>
  /\ Len(fifo_pgn[p]) >= 2
  /\ swpFree = <<>>
  /\ fifo_pgn' = [fifo_pgn EXCEPT ![p] = LeaveQueue(@)]
  /\ UNCHANGED <<pgd, memory, alive, reaped, crashed, history>>

\* MEMPHY_format sets fp_next of a frame but for the first, which the second
\* sets: with a single frame nobody does, and where the list goes on behind it,
\* once it is taken, is not defined.  It ends there, or following it kills the
\* program.
CrashInList(p, g) ==
  /\ ~pgd[p][g].present
  /\ ramFree = <<>>
  /\ \/ RamFrames = 1
     \/ SwpFrames = 1 /\ swpFree = <<>> /\ Len(fifo_pgn[p]) >= 2
  /\ crashed' = TRUE
  /\ UNCHANGED <<tables, memory, alive, reaped, history>>

\* What pg_getval and pg_setval may do: pg_getpage finds a frame for the page,
\* fails, or ends the program.
Served(p, g, o, w) == Hit(p, g, o, w) \/ Fill(p, g, o, w) \/ Replace(p, g, o, w)
Refused(p, g) == NoVictim(p, g) \/ SwapFull(p, g)
Crash(p, g) == CrashInVictim(p, g) \/ CrashInList(p, g)
Access(p, g, o, w) == Served(p, g, o, w) \/ Refused(p, g) \/ Crash(p, g)

\* cpu_routine frees the PCB and nothing it points to.
End(p) ==
  /\ alive' = alive \ {p}
  /\ UNCHANGED <<tables, memory, reaped, crashed, history>>

\* The members of S in queue q, in their order.  SelectSeq without recursion, so
\* that it can be reasoned about.
Those(q, S) ==
  LET at == {i \in DOMAIN q : q[i] \in S}
      nth(k) == CHOOSE i \in at : Cardinality({j \in at : j < i}) = k - 1
  IN  [k \in 1 .. Cardinality(at) |-> q[nth(k)]]

\* free_pcb_memph, of a process that has ended: the frames of the pages in its
\* queue are put back one by one.  What left the queue is not looked at, neither
\* a page in swap nor one that a failed replacement took out.
PutBack(frames, list) == Reverse(frames) \o list
Reap(p) ==
  LET loaded == Those(fifo_pgn[p], {g \in Page : pgd[p][g].present})
      moved == Those(fifo_pgn[p], {g \in Page : ~pgd[p][g].present /\ Swapped(p, g)})
  IN
  /\ p \notin alive \cup reaped
  /\ ramFree' = PutBack([i \in DOMAIN loaded |-> PAGING_FPN(pgd[p][loaded[i]])], ramFree)
  /\ swpFree' = PutBack([i \in DOMAIN moved |-> PAGING_SWP(pgd[p][moved[i]])], swpFree)
  /\ reaped' = reaped \cup {p}
  /\ UNCHANGED <<tables, ram, swp, alive, crashed, history>>

\* The processes that may execute an instruction or end.
Live == IF crashed THEN {} ELSE alive

Next ==
  \/ \E p \in Live, g \in Page, o \in Offset, w \in Value \cup {NULL} : Access(p, g, o, w)
  \/ \E p \in Live : End(p)
  \/ ~crashed /\ \E p \in Proc : Reap(p)

Spec == Init /\ [][Next]_vars

-----------------------------------------------------------------------------

TypeOK ==
  /\ pgd \in [Proc -> [Page ->
                PteType({0} \cup Frame \cup {f * SWPSTRIDE : f \in SwapFrame})]]
  /\ fifo_pgn \in [Proc -> Seq(Page)] /\ loads \in [Proc -> Seq(Page)]
  /\ ramFree \in Seq(Frame) /\ swpFree \in Seq(SwapFrame)
  /\ ram \in [0 .. (RamFrames * PAGESZ - 1) -> Content]
  /\ swp \in [0 .. (SwpFrames * PAGESZ - 1) -> Content]
  /\ alive \subseteq Proc /\ reaped \subseteq Proc \ alive
  /\ crashed \in BOOLEAN /\ stale \in BOOLEAN
  /\ written \in [Proc -> [Page -> [Offset -> Content]]]

Pages == Proc \X Page
ResidentPages == {x \in Pages : Resident(x[1], x[2])}
SwappedPages == {x \in Pages : Swapped(x[1], x[2])}
RamOf(x) == PAGING_FPN(pgd[x[1]][x[2]])
SwpOf(x) == PAGING_SWP(pgd[x[1]][x[2]])

\* A page keeps its frame unless free_pcb_memph put it back, which it did with
\* those of the pages in the queue.
KeepsFrame(x) == x[1] \in reaped => ~Contains(fifo_pgn[x[1]], x[2])

\* Every RAM frame is either in the free list, once, or belongs to exactly one
\* resident page of one process: pg_getpage neither shares nor loses a frame, and
\* free_pcb_memph puts none back that somebody has.
FramesApart ==
  /\ TypeOK
  /\ IsInjective(ramFree)
  /\ \A f \in Frame :
       Cardinality({x \in ResidentPages : RamOf(x) = f /\ KeepsFrame(x)}) =
         IF Contains(ramFree, f) THEN 0 ELSE 1

\* The same for swap: a frame of the active swap device is free or belongs to
\* exactly one page, and the entry of that page leads to it.  That holds of the
\* pages of reaped processes, too: their swap frames do not come back.
SwapApart ==
  /\ IsInjective(swpFree)
  /\ \A f \in SwapFrame :
       Cardinality({x \in SwappedPages : SwpOf(x) = f}) =
         IF Contains(swpFree, f) THEN 0 ELSE 1

\* As long as no write was sent to a page in swap, the last value written to
\* each byte is where the entry of its page says: neither replacement nor the
\* reuse of frames of ended processes loses data.
NothingLost ==
  ~stale =>
    \A o \in Offset :
      /\ \A x \in ResidentPages : KeepsFrame(x) =>
           ram[Physical(RamOf(x), o)] = written[x[1]][x[2]][o]
      /\ \A x \in SwappedPages : swp[Physical(SwpOf(x), o)] = written[x[1]][x[2]][o]

\* The program is killed for lack of memory only when two processes share RAM, or
\* swap is full, or RAM has a single frame: a process that has two frames or more
\* for itself always finds a victim with a predecessor in the queue.
CrashNeedsTwo ==
  crashed /\ swpFree # <<>> /\ RamFrames > 1 =>
    Cardinality({p \in Proc \ reaped : fifo_pgn[p] # <<>>}) >= 2

\* g was loaded before h, in a history s.
Before(s, g, h) == \E i, j \in DOMAIN s : i < j /\ s[i] = g /\ s[j] = h

\* While swap has room, the queue of a process holds its resident pages,
\* each once, the latest first: no page escapes replacement.
FifoTracksResident ==
  swpFree # <<>> =>
    \A p \in Proc :
      LET q == fifo_pgn[p] IN
      /\ \A g \in Page : Contains(q, g) <=> Resident(p, g)
      /\ \A i, j \in DOMAIN q : i < j =>
           Before(loads[p], q[j], q[i]) /\ ~Before(loads[p], q[i], q[j])

\* A page that leaves RAM was loaded before every other resident page of its
\* process, and no step evicts a page of a process that did not fault.
EvictsOldest ==
  [][\A p \in Proc, g \in Page :
       (Resident(p, g) /\ Swapped(p, g)') =>
         /\ \A h \in Page \ {g} : Resident(p, h) => Before(loads[p], g, h)
         /\ loads'[p] # loads[p]]_vars

\* A page in swap never becomes resident again: its entry stays present, so
\* pg_getpage reaches its swap-in branch for no page at all.
SwapIsForever ==
  [][\A x \in Pages : Swapped(x[1], x[2]) =>
       pgd'[x[1]][x[2]] = [pgd[x[1]][x[2]] EXCEPT !.dirty = pgd'[x[1]][x[2]].dirty]]_vars

-----------------------------------------------------------------------------
(* What the documentation claims.                                          *)

\* Where pg_getval reads page g of p.
ReadsFrom(p, g) == PAGING_FPN(pgd[p][g])

\* A page in memory reads back what was written to it, after it was swapped
\* too (COMPLETE_MEMORY_SYSTEM.md, "Read after swap").
ReadsBack ==
  \A p \in alive, g \in Page, o \in Offset :
    pgd[p][g].present =>
      /\ ReadsFrom(p, g) \in Frame
      /\ ram[Physical(ReadsFrom(p, g), o)] = written[p][g][o]
=============================================================================
