--------------------------------- MODULE Regions ---------------------------------
(***************************************************************************)
(* The memory regions of a process: liballoc and libfree of src/libmem.c   *)
(* on the symbol table and the free list of vm area 0.  mmvm_lock is held  *)
(* from end to end, and a process is run by one CPU at a time, so a call   *)
(* is a step.  The list that init_mm starts is read as ending with its one *)
(* node: vm_freerg_list is not initialised before that node is put on it.  *)
(***************************************************************************)
EXTENDS RegionLists, FiniteSets

CONSTANTS Rgid,    \* the variables of the program, of PAGING_MAX_SYMTBL_SZ
          MaxSize, \* bound on the sizes asked for
          MaxFree, \* bound on the nodes of the free list when libfree is called
          MaxFresh \* bound on the regions taken at sbrk

ASSUME RegionsAssumption ==
  /\ MaxSize \in Nat /\ MaxFree \in Nat /\ MaxFresh \in Nat
  /\ IsFiniteSet(Rgid)

VARIABLES symrgtbl,        \* the region of each variable, [0,0) for none
          vm_freerg_list,  \* free regions, the last freed first
          fresh,           \* history: regions taken at sbrk
          dropped          \* history: a variable with a region got another one

vars == <<symrgtbl, vm_freerg_list, fresh, dropped>>

Address == 0 .. (MaxSize - 1)
Size == 0 .. MaxSize
Region == {rg \in [rg_start : Size, rg_end : Size] : rg.rg_start <= rg.rg_end}

Init ==
  /\ symrgtbl = [r \in Rgid |-> None]
  /\ vm_freerg_list = InitialList
  /\ fresh = <<>>
  /\ dropped = FALSE

-----------------------------------------------------------------------------
(* libmem.c *)

Assign(r, rg) ==
  /\ symrgtbl' = [symrgtbl EXCEPT ![r] = rg]
  /\ dropped' = (dropped \/ symrgtbl[r] # None)

AllocFree(r, size) ==
  LET i == FirstFit(vm_freerg_list, size)
      start == vm_freerg_list[i].rg_start
  IN
  /\ i # 0
  /\ Assign(r, region(start, start + size))
  /\ vm_freerg_list' = Take(vm_freerg_list, i, size)
  /\ UNCHANGED fresh

AllocAtBrk(r, size) ==
  /\ FirstFit(vm_freerg_list, size) = 0
  /\ Len(fresh) < MaxFresh
  /\ Assign(r, region(sbrk, sbrk + size))
  /\ fresh' = Append(fresh, region(sbrk, sbrk + size))
  /\ UNCHANGED vm_freerg_list

FreeReplacing(r) == \* mutant: rg_next of the new node stays NULL
  /\ symrgtbl[r] # None
  /\ vm_freerg_list' = enlist_vm_freerg_list(symrgtbl[r], <<>>)
  /\ symrgtbl' = [symrgtbl EXCEPT ![r] = None]
  /\ UNCHANGED <<fresh, dropped>>
Free(r) ==
  /\ symrgtbl[r] # None
  /\ Len(vm_freerg_list) < MaxFree
  /\ vm_freerg_list' = enlist_vm_freerg_list(symrgtbl[r], vm_freerg_list)
  /\ symrgtbl' = [symrgtbl EXCEPT ![r] = None]
  /\ UNCHANGED <<fresh, dropped>>

\* __free refuses a variable without a region.
FreeNothing(r) == symrgtbl[r] = None /\ UNCHANGED vars

Next ==
  \/ \E r \in Rgid, size \in Size : AllocFree(r, size)
  \/ \E r \in Rgid, size \in Size : AllocAtBrk(r, size)
  \/ \E r \in Rgid : Free(r)
  \/ \E r \in Rgid : FreeNothing(r)

Spec == Init /\ [][Next]_vars

-----------------------------------------------------------------------------

TypeOK ==
  /\ symrgtbl \in [Rgid -> Region]
  /\ vm_freerg_list \in Seq(Region) /\ vm_freerg_list # <<>>
  /\ fresh \in Seq(Region)
  /\ dropped \in BOOLEAN

Covers(rg, a) == rg.rg_start <= a /\ a < rg.rg_end
FreeAt(a) == Cardinality({i \in DOMAIN vm_freerg_list : Covers(vm_freerg_list[i], a)})
UsedAt(a) == Cardinality({r \in Rgid : Covers(symrgtbl[r], a)})
FreshAt(a) == Cardinality({i \in DOMAIN fresh : Covers(fresh[i], a)})

\* Splitting, reuse, free and the dummy nodes conserve memory: an address is in
\* as many regions, free or of a variable, as were taken at sbrk with it, and in
\* fewer only if a variable was allocated over.  So what overlaps was overlapping
\* when it was taken at sbrk, and never because of the free list.
Conserved ==
  /\ TypeOK
  /\ \A a \in Address :
       /\ FreeAt(a) + UsedAt(a) <= FreshAt(a)
       /\ ~dropped => FreeAt(a) + UsedAt(a) = FreshAt(a)

\* A call changes the region of one variable at most, and memory leaves the
\* free list only for that variable.
OthersKept ==
  [][\A r \in Rgid : symrgtbl'[r] # symrgtbl[r] =>
       /\ \A q \in Rgid \ {r} : symrgtbl'[q] = symrgtbl[q]
       /\ \A a \in Address : FreeAt(a)' < FreeAt(a) => Covers(symrgtbl'[r], a)]_vars
=============================================================================
