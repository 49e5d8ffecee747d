# A verification of the btl-hdh operating-system simulator

The repository simulates a small operating system in C: CPU threads run
programs of a handful of instructions under a multi-level queue scheduler, a
loader starts them, a timer cuts time into slots, and a paging system gives
each process a virtual memory over a RAM and a swap device.  This directory
models it in TLA+, checks the models with TLC and proves theorems about them
with TLAPS.  Paths below are relative to the repository; line numbers are in
`PROJECT.json`, which maps every definition to the code it stands for.

## 1. The system: inventory

| Part | Code | State | Operations | Shared with |
|---|---|---|---|---|
| Ready queues | `src/queue.c` | array of PCB pointers and a size, at most `MAX_QUEUE_SIZE` | `enqueue`, `dequeue`, `purgequeue` | scheduler only, under `queue_lock` |
| Scheduler | `src/sched.c` | one queue per level, `running_list`, the static `curr_prio` and `curr_slot` | `get_proc`, `put_proc`, `add_proc` | CPU threads, loader |
| Time slots | `src/timer.c` 34-148 | `_time`, per device `done` and `fsh` with two locks and two condition variables | `next_slot`, `detach_event`, `attach_event`, `stop_timer`, timer thread | CPU threads, loader, main |
| Turns | `src/timer.c` 150-237 | `_current_cpu_turn`, `_cpu_active` | `wait_cpu_turn`, `signal_next_cpu`, `mark_cpu_inactive`, `reset_cpu_order` | CPU threads, loader, timer |
| CPUs | `src/os.c` 62-129, `src/cpu.c` | `proc`, `time_left`; `pc` of the process | fetch, dispatch, run, put back, finish, stop | all of the above |
| Loader | `src/os.c` 131-191, `src/loader.c` | `i`, `done` | wait for the start time, create the PCB and its memory map, publish | scheduler, timer |
| Memory library | `src/libmem.c` | per process: symbol table, free regions, FIFO of pages | `liballoc`, `libfree`, `libread`, `libwrite`, page faults, `free_pcb_memph` | under `mmvm_lock` |
| Page tables | `src/mm.c` (32 bit), `src/mm64.c` (64 bit) | page table entries | get, set, mark present, mark swapped, map and clear ranges, release | memory library |
| Virtual memory areas | `src/mm-vm.c` | list of areas, free regions | `inc_vma_limit`, create, add, remove, merge, split | memory system call |
| Physical memory | `src/mm-memphy.c` | storage, free and used frame lists | read, write, get and put frames, clean up | all processes |
| System calls | `src/syscall.c`, `src/sys_mem.c`, `src/libstd.c` | none of their own | dispatch by number | memory library, programs |

Interaction: all CPUs, the loader and the timer are threads.  In each slot the
timer hands the turn to the highest CPU; each CPU, in its turn, finishes,
puts back or fetches a process, runs one instruction, passes the turn on and
waits in `next_slot`; after CPU 0 comes the loader.  When every thread is in
`next_slot` or has detached, the timer starts the next slot.

What is hard in it:

* the barrier of the timer is built from two flags, two locks and two
  condition variables per device, which it visits one after the other;
* the turns are passed *before* a CPU is done with its slot, and the loader
  passes it on even before it has created the next process;
* threads leave both protocols one by one, while the others go on;
* the scheduler keeps state in static variables between calls and releases
  its lock in the middle of one;
* page faults evict pages of the same process, through entries whose bits are
  shared between frame numbers and swap offsets;
* a byte a program writes goes through a region, an address, an entry, a frame
  shared by all processes and perhaps a swap frame, and must come out again;
* growing an area takes several steps, of which each can fail when others have
  been done;
* free memory is kept in singly linked lists (frames, regions, areas) that are
  rewritten in place by searches, splits and merges.

What makes each component correct:

| Part | Correct when |
|---|---|
| Scheduler, queues | no process is lost, queued twice or on two CPUs; each is served in its turn; `running_list` names those that run |
| Time slots | nobody runs ahead of or behind the clock; no wakeup is lost; every slot ends |
| Turns, CPUs, loader | one thread at a time works on the queues, in order; every process runs to its end; threads stop when nothing is left |
| Page faults | every frame holds one page or is free; eviction takes the oldest page and loses no data |
| Page tables | an entry read is the entry last written for that page, even when allocations fail; every table is freed, once |
| Memory of a process | a read returns what that process wrote there last |
| Frame lists | every frame is in one place |
| Regions | an address belongs to as many variables as it was handed out for |
| Areas | they do not overlap, and each can be found; what is below the break has memory |

## 2. Modules

| Module | Models | Relation |
|---|---|---|
| `PrioritySched` | what the scheduler comes to: strict priority, first come first served (its documents promise another policy, section 4) | abstract |
| `Mlq` | `sched.c` and `queue.c`, one action per critical section of `queue_lock` | implements `PrioritySched` |
| `MlqRounds` | the rounds that the comment of `get_mlq_proc` promises, as a history beside the scheduler | extends `Mlq` |
| `SlotBarrier` | what time slots promise: a barrier that threads may leave | abstract |
| `SlotTimer` | the timer half of `timer.c`, one action per critical section or wait | implements `SlotBarrier` |
| `CpuOrder` | the turns of `timer.c` as operators | used by `Kernel` |
| `Kernel` | `os.c`: CPU threads, loader and timer | composes `Mlq`, `CpuOrder` and `SlotBarrier` |
| `Pte` | a page table entry under `pte_set_fpn` and `pte_set_swap` | used by the next ones |
| `FrameLists` | the free list of a memory device | used by `Paging`, `Memphy` |
| `Paging` | `pg_getpage`, `pg_getval`, `pg_setval`, `find_victim_page`, `free_pcb_memph` and the calls of SYSCALL 17 they make, over the flat table of `mm.c` and the bytes of both devices | |
| `FlatPageTable` | what a page table promises: an entry for each page | abstract |
| `PageTable64` | the five-level table of `mm64.c` with failing allocations, ranges of pages and `free_mm` | implements `FlatPageTable` |
| `Memphy` | the free and the used frame list of `mm-memphy.c` with all operations | |
| `VmaLimit` | `inc_vma_limit` with `vm_map_ram` below it | extends `Memphy` |
| `RegionLists` | searching, splitting and extending a list of free regions, as operators | used by the next ones |
| `Regions` | `liballoc`, `libfree` and `get_free_vmrg_area` of `libmem.c` | |
| `ProcMemory` | what a program is promised: a memory of its own | abstract |
| `Instructions` | the instructions of several processes, from variables to bytes | composes `Paging` and `RegionLists`, implements `ProcMemory` |
| `VmAreas` | create, add, remove, merge and split of `mm-vm.c` | |
| `MlqProofs`, `SlotTimerProofs`, `KernelProofs`, `PageTable64Proofs`, `RegionsProofs`, `VmaLimitProofs`, `VmAreasProofs` | theorems about the module of that name | extend it |
| `PagingProofs` | theorems about `Paging` and `Instructions` | extends `Instructions` |
| `MC...` | definitions for TLC | |

`Kernel` uses `SlotBarrier` in place of `SlotTimer`: the theorem
`ImplementsBarrier` justifies it, and it keeps the composition small.

### How the state corresponds

* `Mlq`: `mlq_ready_queue`, `running_list`, `curr_prio`, `curr_slot` are the
  variables of that name; `held[c]` is the local `proc` of CPU `c`; `unborn`
  and `finished` say where the other PCBs are, and `pcb[p]` is the address of
  the one of `p`: `load` takes any address that no live PCB has, one that
  `FinishProc` freed included.  `running_list` holds addresses, the ready queues
  processes, whose PCBs are all alive.  A call of `get_mlq_proc` is
  `GetRetry` any number of times, followed by `GetProc` or `GetNull`: other
  threads may enter between the attempts, as they can when the code releases
  `queue_lock`.
* `SlotTimer`: `done` and `fsh` are the flags; `temp` is the position in
  `dev_list`; `timerAsleep` and `asleep` record who sleeps in
  `pthread_cond_wait`.  Entering the wait and testing the condition again are
  separate actions, and `SpuriousWakeup` wakes anybody at any time.
* `Kernel`: `pc[c]` and `ldPc` are the places in `cpu_routine` and
  `ld_routine` between which other threads can act.
* `Paging`: `pgd[p][g]` is the entry of page `g` of process `p`, with its
  frame number or swap offset in `low`, since both share bits; `fifo_pgn` has
  the latest page first, as the list has; `ram` and `swp` are the bytes of the
  devices, by physical address.  `libread` and `libwrite` hold `mmvm_lock`
  throughout, so a page access is one step: `Hit`, `Fill`, `Replace`, or one
  of the ways to fail, `NoVictim`, `SwapFull`, `CrashInVictim`, `CrashInList`.
  The last is that of a device with a single frame, whose `fp_next` nobody
  sets: where the free list goes on once that frame is taken is not defined,
  and the model takes it to end there or to kill the program.  `End(p)` is the
  end of a process in `cpu_routine`, `Reap(p)` a later call of
  `free_pcb_memph` for it, which is a client's, since nothing in the
  repository calls it.  `written`, `loads` and `stale` are history.
* `Instructions` adds the symbol table, the free regions and `destination`,
  what `libread` returned last, of each process.  `run(p)` is one instruction.
  A read returns the byte of RAM at the frame number in the entry (`Loaded`),
  whether the page is there or in swap; any byte, where `pg_getval` leaves its
  variable unset.  The refinement maps `written` to the abstract `mem`, the
  entries to `place`, which says of an address whether its page is in RAM, in
  swap or was never used, and `stale`, a write to a page in swap, to `wild`,
  from where `ProcMemory` promises nothing.
* `PageTable64`: the variable `heap` holds the tables in the order of their
  allocation, a pointer being a number; `AllocFails(heap, g, k)` is a setter
  that ran out of memory at level `k` and leaves the tables above it behind.
  `MapRangeFails` and `ClearRangeFails` stop after some of the pages, and the
  abstract table does, too.  `freed` lists what `free_mm` freed, in order:
  `FreeTable` is a loop over the entries of a table, and `FreeBelow` nests it.
* `Memphy`: the two lists of frames; `taken` are the frames callers hold, `lost`
  those in no list that nobody holds.
* `VmaLimit`: two areas with `vm_start`, `vm_end` and `sbrk`, a page table and
  its queue, on a device with other users (`Others`).  A growth ends as
  `GrowMapped`, as `GrowUnmapped` when RAM runs out, or as `GrowPartly` when a
  node of the list of frames cannot be allocated; `short` records the pages that
  got no frame.  It is the call as a process makes it whose `krnl->mm` is its
  own: that of SYSCALL 17 returns at once (section 4).
* `Regions`: `symrgtbl` and `vm_freerg_list` of area 0.  `sbrk` is constant,
  because `inc_vma_limit` always fails (see the findings).
* `VmAreas`: `area[n].vm_next` are the links, as `merge_vm_areas` and
  `split_vm_area` rewrite them without looking at the list.  These functions
  have no caller in the repository: `Next` calls them with any areas, ids and
  addresses, with or without a node for a free region, and only the checks of
  the code keep a call from having an effect.  The history `amiss` says which
  calls the code took that it does not serve: areas merged that do not follow
  each other in the list, an id taken twice by an add or by a split, a free
  list cut that does not fall into two parts, a missing node.  The properties
  name the entries of `amiss` they need to be absent.  After a merge out of
  order, or a split that leaves a node in two free lists, anything could
  follow, and `Next` ends.  `init_mm` reads `vm_freerg_list` before it is set
  when it links the first region; the model takes the list to end there, as
  that of `Regions` does.

## 3. Runs

| Run | Instance | Shows |
|---|---|---|
| `mlq` | 2 CPUs, 4 processes and 4 addresses for their PCBs, 3 levels, queues of 4 | nothing is lost or duplicated, `running_list` has an entry for each process that runs or ran to its end, strict priority (refinement) |
| `mlq_rounds` | 1 CPU, a process on each of 3 levels | finding: a level gets no slot in a round |
| `slot_timer` | 2 CPUs, the loader, 3 slots | barrier (refinement), no lost wakeup, termination |
| `kernel` | 3 CPUs, 3 processes of 0 or 3 instructions, start times 0 or 5, slices of 2 | mutual exclusion, order of turns, full slices, stopping only when done; all slots end and all processes finish |
| `kernel_halts` | 2 CPUs, sizes 1 | finding: an idle CPU never stops |
| `paging` | 2 processes of 4 pages, 3 RAM and 2 swap frames | frames are neither shared nor lost, before and after those of ended processes are put back; eviction takes the oldest page and keeps its data; with more than one frame, the crash needs a second process |
| `paging_read_back` | 3 pages, 2 RAM and 2 swap frames | finding: a page in swap cannot be read back |
| `page_table64` | tables of 2 entries, pages 15, 16 and 17, ranges of 2 | the tree implements a flat table, with failures at each level and within ranges, and is freed whole |
| `vma_limit` | 4 frames, 2 owners, 2 areas in 5 pages, growth by 0, 1 or 3 bytes | every frame is in one place and keeps its owner; areas stay apart; break, mapping and queue agree |
| `instructions` | 2 processes with a variable of 1 or 3 bytes, 3 pages of 2 bytes, 2 RAM frames and 1 of swap | each process has a memory of its own, and reads return what is in it (refinement) |
| `regions` | 3 variables, sizes 0 to 4 | splitting and reuse conserve memory |
| `vm_areas` | 3 areas, 2 ids, addresses to 3, up to 2 kinds of calls that go amiss | areas disjoint; list whole, lookup right, free memory kept, each exactly until the call that the code takes but does not serve |

Bounds.  Two CPUs suffice for every interleaving of two critical sections; the
third in `kernel` gives the order of turns a middle.  Two processes share a
level and two levels remain above and below, so that FIFO order, preemption
and the wrap of the scan all occur; with an address for each process there is
always one that is free, fresh or not.  Queues too short for all processes,
which drop some, are left to the theorem `NoDuplication`.  Size 3 with slices
of 2 gives programs that are put back and end within their second slice; 0 is
the empty program.  The late start time lies after the other processes can
have ended, so that the loader waits while CPUs idle.  `MaxSlots` bounds how
long devices go on before they detach; 3 slots let a device overtake and be
overtaken twice.  The clock of `Kernel` saturates at the latest start time,
the only thing it is compared with.  `MAX_ACTIVE`, the 64 entries of
`_cpu_active`, is as large as the number of CPUs (`KernelAssumption`).

Four pages on three RAM and two swap frames make one process evict the pages
of its own twice, run out of swap, and meet another process that holds no
page, one page or several when RAM is full.  Entries have the layout of the
32-bit build: of the two swap offsets, one read as a frame number is a frame
of RAM, the other is none.  Frame numbers and swap offsets fit in their bits
(`PagingAssumption`).  The single swap frame of `instructions` is one whose
list ends anywhere once it is taken (`CrashInList`); two bytes in a page tell
a page that was zero-filled from one where only the first byte was.
`page_table64` has narrower fields, and tables of two entries where the code
has 512; pages 16 and 17 share all tables, and 15 shares the root only, so
that a range of two pages may cross all tables or none.

`instructions` has pages of two bytes, sizes that end within a page and
offsets that reach the first and the last byte of a page and all three pages,
from a region at the start or from one that was split.  What a read returns is
part of the refinement.  It explores states only up to the first write to a
page in swap (`Tame`, a state constraint), after which the property says
nothing, and takes states for the same that differ only in what no later step
and no property reads (`View`): history variables, the bytes of free frames,
the tables of reaped and the regions of ended processes.  The pages hold a
variable of the largest size (`InstructionsAssumption`), so that the abstract
memory has an address for wherever one can start or end; accesses go to a few
`Offsets`, behind the end of a variable too, since the code does not look at
it. In `vma_limit` a growth may need more frames than there are, in one go or
after several, and the second area starts two pages above the first. `Regions`
bounds the sizes, the nodes of the free list and the regions taken at the
break (`MaxSize`, `MaxFree`, `MaxFresh`), so that a region can be split in
four and the list holds nodes before, at and behind the one taken.  In
`VmAreas` three areas are one to rewrite and one on each side, with addresses
to 3 so that all three can meet, in each order of their links, beside the
empty one of `init_mm`.  Two ids make adds and splits take one twice, before
and behind the area that has it.  Free lists of up to two regions, longer when
lists are merged, are cut in any order.  `MaxAmiss` ends a behaviour when two
kinds of calls went amiss: one does not hide what another does, and the
properties speak of the first of each kind.  `VmaLimit`, `VmAreas`, `Paging` and
`Instructions` may stop: all frames can be lost, all areas merged away, all
processes ended.

Fairness.  `SlotTimer!Fairness` and `Kernel!FairSpec` assume weak fairness of
each thread: a thread that can run is eventually run by the host.  A device is
also assumed to reach the end of its slot: a CPU executes one instruction and
the loader loads one file per slot.  Nothing is assumed of spurious wakeups.

## 4. Findings

Three runs end in a counterexample: the code does not do what its comments or
documents say.

* `mlq_rounds`: the comment in `get_mlq_proc` (`src/sched.c` 77-82) and the
  scheduler's documents promise `MAX_PRIO - i` slots to level `i` in each
  round, and so no starvation.  The loop "check for higher priority processes"
  before the scan undoes every hand-over to a lower level: a level that has
  processes is passed over for longer than a round, without end.  What the
  code does implement is strict priority (`StrictPriority`, which is also
  proved).
* `kernel_halts`: a CPU that is idle when the last process finishes never
  stops, because `continue` skips the test of `done`.
* `paging_read_back`: `pte_set_swap` leaves the present bit set, so that a page
  never comes back from swap, against `COMPLETE_MEMORY_SYSTEM.md` 193-196.
  `SwapIsForever`, in the run `paging`, says the same of every step.

Other claims are shown to fail by a property that passes because it says
exactly when: it would be violated if the code kept the claim.

* "Maintains list integrity" and "validates adjacency", of the functions for
  areas (`MEMORY_SEGMENTS_IMPLEMENTATION.md` 118-130): `merge_vm_areas` looks
  at the borders of the areas only, and takes the next pointer of the upper
  one.  If the two do not follow each other in the list, the lower one first,
  it closes to a cycle or loses an area, always (`ListWhole`).
* "Maintains list linkage", of a split (145): `split_vm_area` gives the new
  area the next id, which another may have, as in the documented layout of
  heap 0 and stack 1; a search by id then misses one of them (`LookupFinds`).
* "Splits free region lists appropriately" (144): it takes along what is behind
  the first region of the upper part, wherever that lies, while `libfree` puts
  regions in the list as they come.  Free memory of the lower part is then lost
  (`FreeKept`).
* "List of currently executing processes" (`SYNCHRONIZATION_REPORT.md` 30): a
  process that has ended stays in `running_list`, since `cpu_routine` frees its
  PCB and purges nothing (`Mlq!FinishProc`), and its address there may come to
  be that of another process.  `RunningTracked` says what the list has, with as
  many entries as there are processes to account for, of which those at one
  address cannot be told apart.  The scheduler works all the same:
  `NeverDuplicated` is proved for every queue size.

The models show more, as steps that the code can take.

* `find_victim_page` writes through NULL when the queue has one page.  With one
  frame of RAM, to which `os.c` rounds up small sizes and which two of the test
  inputs have in the 64-bit build, that is the second page that the first
  process uses, whatever room swap has (`Paging!CrashInVictim`).
  `CrashNeedsTwo` says that with more frames it takes a second process, or swap
  that is full.
* The swap offset of a page in swap is used as a frame number of RAM, and that
  frame may be one of another process, against the isolation that
  `COMPLETE_OS_IMPLEMENTATION.md` 377 lists (`Paging!Hit`).  `ImplementsMemory`
  shows how far the promise of a memory of its own goes: reads are right but
  for pages that the process itself pushed out, and with the first write to
  one of these all bets are off.
* `inc_vma_limit` needs `krnl->mm`, which is set nowhere, and `__alloc` does not
  notice that it failed: variables overlap, where
  `COMPLETE_MEMORY_SYSTEM.md` 419-423 has each read its own
  (`Regions!AllocAtBrk`).
* `vm_map_ram` returns an unsigned address, so that `inc_vma_limit` never sees
  it fail: limits are not rolled back, and the frames taken by then are lost
  (`VmaLimit!GrowUnmapped`).  With MM64 its frames are not even asked for.
* `free_pcb_memph` reaches only the pages in the queue; swap frames, and pages
  that a failed replacement took out of the queue, do not come back
  (`Paging!Reap`).  With MM64 its `uint32_t pte` cuts off the flags of an entry,
  and nothing comes back at all.
* A page access that fails leaves `__read` and `__write` returning 0, and the
  value read uninitialised (`Paging!Refused`, `Instructions!pg_getval`).
* `fp_next` of the only frame of a device is never set (`Paging!CrashInList`).
* A split that finds no node for a region that spans the address leaves it
  whole in the lower list; with a node and more regions behind it, both lists
  have these (`VmAreas!SplitRegions`, `Shares`).
* Frames are not given back when a process ends (`Paging!End`), as nothing calls
  `free_pcb_memph`.
* `MEMPHY_get_usedfp` moves the first free frame, not the one it is asked for
  (`Memphy!GetUsed`).  `MEMPHY_validate` counts frames, and would not notice one
  that is in the free list twice; no caller puts one back twice.

## 5. Theorems

The proofs are in eight modules, for every value of the constants that
satisfies the named assumptions of the modules they are about.  These are: at
least one CPU, level and slot; no more CPUs than `_cpu_active` has entries,
which the code does not check; frame numbers and swap offsets that fit in
their bits of an entry, which it does not check either and which holds of
every configuration in `input`; a page size that is not 0; tables of two
entries or more; pages that hold the largest variable.  `Paging` admits any
number of frames; `Memphy` leaves out a device with a single one, whose list
of free frames is not defined.

**`MlqProofs`.**  `Inv` is `TypeOK`, `NeverDuplicated` and `Loaded`, that a
published process has a PCB.  Each action preserves it, which gives
`TypeCorrect` and `NoDuplication` for every queue size.  `NoLoss`,
`RunningListTracks` and `ImplementsStrictPriority` need `Capacity`, that no
queue can fill up. `Complete` adds to `Inv` that no process is lost and that
`running_list` has its entries (`RunningTracked`): a bijection from its
positions to the processes that run or have ended.  A dispatch extends it by
the last position (`TracksAppend`). `purgequeue` takes away the first position
with an address, which may be that of an ended process with the same one;
exchanging the two before, the bijection is as it should be (`TracksWithout`).
That `get_proc` serves the highest nonempty level (`ServesHighest`) follows
from the code of one attempt alone, whatever the slot counters are.

**`SlotTimerProofs`.**  `Inv` adds to `TypeOK` and `InStep` where the timer
stands between its two loops and whom it has already visited.  `LockStep`,
`WakeupsKept` and `ImplementsBarrier` follow.

**`KernelProofs`.**  Every step of the kernel is a step of the scheduler it
contains or leaves it alone (`SchedulerSteps`), so that what `MlqProofs` proves
holds in the kernel as well and is not proved again.  `TurnInv` says where
each thread can be with respect to the turn: who has had it in this slot is
above it, who has not is at it or below.  It gives `CpusExclude`, and
`OrderKept` with a look at each step.  `MutualExclusion` alone is not inductive:
that nobody else is in its turn follows only from who has had his.  `SlicesFull`
rests on `Slices`, that a CPU without a process has no slice left.  `StopsLast`
needs `Capacity` and the invariants `Loaded`, what the loader has created by
now, and `Draining`: once a CPU has stopped, at most one process is
queued, and it is the one the CPU in its turn has just put back.

**`PagingProofs`.**  `Inv` ties entries, lists and queues together.
`Entries`: an entry is one the code writes, empty, with a frame, or with a
swap offset. `RamOnce` and `SwpOnce`: a frame is in its list at most once, and
not if a page has it; two pages do not have the same.  `RamKept` and
`SwpKept`: no frame is in none of these places.  `LoadsOnce`, `QueueOrder`,
`QueueResident` and `QueueWhole`: a queue is a part of the pages loaded, in
their order, each with a frame, and all of those with one as long as no failed
replacement took one out. `FramesApart` alone is not inductive: the frame of a
victim must not be free, which `SwapApart`, `FifoTracksResident` and the form
of the entries decide together.  `RamShared`, `SwapShared`, `QueueTracks`
follow from `Inv`; `OldestLeaves` and `NeverBack` from `Inv` at each step.
`CrashTakesTwo` counts: with RAM full and one page in the queue, a second
frame, if there is one, has another owner. `DataSurvives` adds `DataInv`, on
the bytes behind the frames, and the arithmetic of `frame * PAGESZ + offset`:
two frames meet in no byte, so that a page that is filled, copied or written
leaves the bytes of every other one.

`MemoryPromised` is the refinement of `ProcMemory` by `Instructions`.  Every
step of an instruction is a step of `Paging` or leaves it alone
(`PagingSteps`), so that `Inv` and `DataInv` hold there as well and are not
proved again. `InstInv` adds `Blank`, that nothing was written to a page that
was never loaded, and `RegionsOK`, that no variable or free region ends behind
the largest size programs ask for. As long as no write went to a page in swap,
a read of a page in RAM returns what was written there last (`LoadedIs`), by
`DataInv`.  What is left is that each way an access can end changes `written`
at one byte of its own process or nowhere (`AccessKeeps`), and brings pages of
that process only into RAM and out of it (`PresentOr`): `ReadRefines` and
`WriteRefines` put this together.

**`PageTable64Proofs`.**  `Inv` is that there are no tables, or that each has
a level such that the root is on level 1, a link leads one level down
(`Leads`), the last level holds entries (`Holds`), no two links lead to one
table (`LinkedOnce`) and every table but the root has one (`Reached`).  Two
pages that meet in a table then came the same way (`Meet`), and two page
numbers with the same five digits are the same (`DigitsApart`), which together
are `TreeShaped`; it is not inductive itself, as it says nothing of tables
that only a failed call left behind.  The rest is a chain of facts about one
call: allocating one missing table extends the tree and changes no entry
(`AllocTree`, `ExtendsKeeps`), hence so does growing it down to any level
(`GrowKept`); setting an entry then changes that of one page only
(`SetInTree`); a range does this page by page, by induction on how many are
done (`MappedRange`, `ClearedRange`).  `Effect` collects what a step does to
links and entries: `LinksStay` is one half, and `TreeIsFlat` reads the other
as a step of `FlatPageTable`, a range that stops after some pages being a
shorter one, and an allocation that fails a stutter.  `FreedWhole` goes up the
levels. A list is whole (`WholeList`) if it has a table once only, and at an
earlier place each one it leads to.  If the loops of a level give such a list
for every table of that level, with every table below in exactly one of them
(`WholeBelow`), so does the loop around them (`FreedLevel`): that no table has
two parents keeps the lists apart, and that all but the root have one makes
them complete.

**`RegionsProofs`.**  `Inv` counts, for each address, the free regions, the
variables and the regions taken at the break that cover it.  A call changes
these counts by one at most and together (`Effect`); that the list's search,
its splits and `enlist_vm_freerg_list` do so is shown position by position
(`AllocFreeStep`).  `MemoryConserved` and `OneVariable` follow.

**`VmaLimitProofs`.**  `FramesInv` says of every frame that it is somewhere
(`Somewhere`), in one place only (`Once`), and once in its list
(`ListedOnce`); the last is what makes `MEMPHY_find_frame` and the removal of
the first node mean the same frame.  All operations of `Memphy` keep it, and
so do growths, whose three outcomes are one lemma: `k` frames of the `m` that
leave the free list are mapped.  `FramesStay` and `OwnersStay` follow.
`AreasOK`, that an area ends with a page and its break is inside, makes the
new pages those behind the old end, which are in no area (`AreasGrow`); that
these are not mapped yet is what `PagesInv` needs to stay, and with it
`BreakStays`.  `AreasGrowApart` comes from `validate_overlap_vm_area` and the
two areas being all there are.

**`VmAreasProofs`.**  `ListWhole` speaks of what a walk along `vm_next` finds,
and is hard to reason with where links change.  `Inv` says instead that there
is a numbering `L` of the `live` areas by which each one's `vm_next` is the
next number, and the last one's NULL (`Chained`), with growing ids as long as
none was taken twice (`Sorted`, `Distinct`); `ListIs` shows that the list is
then `L`.  Putting an area into such a numbering, or taking one out, leaves
one (`ChainWith`, `ChainWithout`), and this is what the rewriting of links in
add, remove and merge comes to; a split adds an area, too.  `IInv` is `Inv`
until a merge out of order, `AreasDisjoint` for good, and that after such a
merge the list is not whole: the link that
led to the upper area still leads there.  `Next` ends
after it.  From this follow `ListStaysWhole` and, since ids grow,
`LookupAlwaysFinds`, whose other half is that of two areas with one id a
search finds one only.  `AreasStayApart` needs `SomeSize`: only the area that
`init_mm` makes, which ends at 0, may be empty.  An empty one elsewhere could
lie inside another, as `OVERLAP` is strict, and would overlap once merged; the
merge itself keeps areas apart in any order (`MergeApart`).  `FreeStaysFree`
follows a free region through the concatenation of two lists and the cut of
one (`FreesBoth`, `FreesParts`), and for its other half an address that a cut
takes along or a missing node leaves behind (`SplitLoses`).  None of the three
has a condition on the merges and splits a client may ask for: a call that goes amiss is part
of the statement, which says that the property ends with it.

Model-checked only is liveness (`NextSlotReturns`, `StopReturns`, `AllFinish`,
`SlotsEnd`), which is outside what TLAPS can prove.  Every other property of a
passing run is a theorem.

Some definitions were restated for the proofs, with the same meaning:
`Those(q, S)` of `Paging` selects the pages of a queue without recursion, and
`FifoTracksResident` and `EvictsOldest` speak of `Before`, the order of two
pages in a queue; `Span` of `PageTable64` lists the powers of `WIDTH`, since
the provers do not know exponentiation; `List` of `VmAreas` counts `Steps` along
the links, and `FreeTable` of `PageTable64` adds list to list, where a library
operator on sequences would be out of the provers' reach.

## 6. Plan

Done: all of the plan.  Scheduler, timer, turns, CPUs and loader; paging with
the release of frames, page tables with their release, frame lists, regions,
areas and their growth, instructions; the theorems of section 5 about all of
them.

What could follow: areas and regions of one process in a single module, so that
`brk` and `Regions` share `sbrk`, once `krnl->mm` is set and `inc_vma_limit` can
succeed; paging of the 64-bit build with setters that fail.

## 7. Not modelled

* Parsing of configuration and program files, output, statistics and dumps; the
  code without `MLQ_SCHED`; the scheduling barrier at the end of `timer.c`,
  which nothing calls; `mem.c` and `paging.c`, which the build does not use.
* Programs that issue SYSCALL 17 themselves: no program of the repository does.
* Sequential memory devices: all are created with random access, and one that
  is not would refuse every read and write, since `MEMPHY_seq_read` and
  `MEMPHY_seq_write` test the flag the wrong way round.
* The lists of areas, regions and pages that `free_mm` frees node by node.
* A symbol table index of `PAGING_MAX_SYMTBL_SZ`, which `get_symrg_byid` lets
  pass: what lies behind the table depends on the layout of `mm_struct`.
* Failing allocations, but for those the code tests in `mm.c`, `mm64.c`,
  `mm-vm.c` and `MEMPHY_get_usedfp`.
* More than 64 CPUs: `_cpu_active` has no entry for the others, and the scans
  for the next turn read what lies behind it.
* Page faults in the MM64 build whose `pte_set_fpn` or `pte_set_swap` fails;
  `pg_getpage` does not look at their results.
* Addresses have no width in `Regions` and `VmAreas`, as sizes stay far from
  the limits of `addr_t`.
* The 64-bit build pages with the same code as `Paging` models, with `FPNS`
  2^32 in place of 2^13 and `SWPOFFS` 2^27 in place of 2^21.
