------------------------------ MODULE Instructions ------------------------------
(***************************************************************************)
(* The instructions of the processes, src/cpu.c, with the memory they work *)
(* on: regions (RegionLists) give a variable its addresses, and pages      *)
(* (Paging) give an address its byte.  mmvm_lock serialises the calls of   *)
(* all CPUs, so the processes interleave by instructions; a program is any *)
(* sequence of them, as long as it is loaded from a file.                  *)
(***************************************************************************)
EXTENDS Paging, RegionLists

CONSTANTS Rgid,      \* the variables of a program
          Size,      \* the sizes programs ask for
          Offsets,   \* the offsets of reads and writes
          MaxFree    \* bound on the nodes of a free list when libfree is called

Address == {g * PAGESZ + o : g \in Page, o \in Offset}

\* The pages modelled hold the largest size.
ASSUME InstructionsAssumption ==
  /\ IsFiniteSet(Rgid) /\ Size \subseteq Nat
  /\ Offsets \subseteq Nat /\ MaxFree \in Nat
  /\ Page \subseteq Nat /\ \A size \in Size : 0 .. size \subseteq Address

VARIABLES symrgtbl,       \* the region of each variable of each process
          vm_freerg_list, \* the free regions of each process
          destination     \* what libread returned last to each process

regions == <<symrgtbl, vm_freerg_list>>

PAGING_PGN(a) == a \div PAGESZ
PAGING_OFFST(a) == a % PAGESZ

InstInit ==
  /\ Init
  /\ symrgtbl = [p \in Proc |-> [r \in Rgid |-> None]]
  /\ vm_freerg_list = [p \in Proc |-> InitialList]
  /\ destination = [p \in Proc |-> 0]

-----------------------------------------------------------------------------
(* cpu.c run: what each instruction calls.  calc changes nothing.          *)

\* A size no node has comes from the break, which stays.
liballoc(p, r, size) ==
  LET list == vm_freerg_list[p]
      i == FirstFit(list, size)
      start == IF i = 0 THEN sbrk ELSE list[i].rg_start
  IN
  /\ symrgtbl' = [symrgtbl EXCEPT ![p][r] = region(start, start + size)]
  /\ vm_freerg_list' =
       [vm_freerg_list EXCEPT ![p] = IF i = 0 THEN @ ELSE Take(@, i, size)]
  /\ UNCHANGED <<vars, destination>>

libfree(p, r) ==
  /\ symrgtbl[p][r] # None
  /\ Len(vm_freerg_list[p]) < MaxFree
  /\ vm_freerg_list' =
       [vm_freerg_list EXCEPT ![p] = enlist_vm_freerg_list(symrgtbl[p][r], @)]
  /\ symrgtbl' = [symrgtbl EXCEPT ![p][r] = None]
  /\ UNCHANGED <<vars, destination>>

\* pg_getval reads RAM where the entry says, in RAM or not.  MEMPHY_read leaves
\* the value as it is if that is no address of the device, pg_getval if it has no
\* frame, and what was in it is not defined.
Loaded(p, g, o) ==
  LET phyaddr == Physical(PAGING_FPN(pgd'[p][g]), o) IN
  IF phyaddr \in DOMAIN ram' THEN {ram'[phyaddr]} ELSE Content

pg_getval(p, g, o) ==
  \/ /\ Served(p, g, o, NULL)
     /\ \E data \in Loaded(p, g, o) : destination' = [destination EXCEPT ![p] = data]
  \/ /\ Refused(p, g)
     /\ \E data \in Content : destination' = [destination EXCEPT ![p] = data]
  \/ Crash(p, g) /\ UNCHANGED destination

\* The end of the region is not looked at, nor whether there is one.  __read and
\* __write return 0, whether or not the access failed.
libread(p, r, offset) ==
  LET a == symrgtbl[p][r].rg_start + offset IN
  /\ PAGING_PGN(a) \in Page
  /\ UNCHANGED regions
  /\ pg_getval(p, PAGING_PGN(a), PAGING_OFFST(a))

libwrite(p, r, offset, w) ==
  LET a == symrgtbl[p][r].rg_start + offset IN
  /\ PAGING_PGN(a) \in Page
  /\ UNCHANGED <<regions, destination>>
  /\ Access(p, PAGING_PGN(a), PAGING_OFFST(a), w)

run(p) ==
  \/ \E r \in Rgid, size \in Size : liballoc(p, r, size)
  \/ \E r \in Rgid : libfree(p, r)
  \/ \E r \in Rgid, offset \in Offsets : libread(p, r, offset)
  \/ \E r \in Rgid, offset \in Offsets, w \in Value : libwrite(p, r, offset, w)

InstNext ==
  \/ \E p \in Live : run(p)
  \/ \E p \in Live : End(p) /\ UNCHANGED <<regions, destination>>
  \/ ~crashed /\ \E p \in Proc : Reap(p) /\ UNCHANGED <<regions, destination>>

InstSpec == InstInit /\ [][InstNext]_<<vars, regions, destination>>

-----------------------------------------------------------------------------

\* What process p wrote last to address a, and where its page is.
Wrote(p, a) == written[p][PAGING_PGN(a)][PAGING_OFFST(a)]
Where(p, a) ==
  IF ~pgd[p][PAGING_PGN(a)].present THEN "unused"
  ELSE IF Swapped(p, PAGING_PGN(a)) THEN "swap" ELSE "ram"

\* Through regions, page tables, the frames all processes share, eviction and the
\* reuse of frames of ended processes, each process has a memory of its own: a
\* variable is where it was allocated, and a read returns what the process itself
\* wrote there last, or 0 - unless the page is in swap, where its own accesses
\* alone put it, or never got a frame.  That ends with the first write to a page
\* in swap.
OwnMemory ==
  INSTANCE ProcMemory WITH wild <- stale,
    mem <- [p \in Proc |-> [a \in Address |-> Wrote(p, a)]],
    place <- [p \in Proc |-> [a \in Address |-> Where(p, a)]]
ImplementsMemory == OwnMemory!Spec
=============================================================================
