------------------------------ MODULE CpuOrder ------------------------------
(***************************************************************************)
(* The turns within a time slot (src/timer.c, the second half): CPU        *)
(* num_cpus - 1 first, then the lower ones, then the loader, which is -1.  *)
(* Every change of the turn broadcasts _cpu_order_cond under               *)
(* _cpu_order_lock, so that waiting for a turn is testing it.              *)
(*                                                                         *)
(* A CPU whose number is MAX_ACTIVE or more has no entry in _cpu_active:   *)
(* it is neither marked active nor inactive, and the two scans read what   *)
(* lies behind the array.  That read is not modelled; the clients assume   *)
(* num_cpus <= MAX_ACTIVE.                                                 *)
(***************************************************************************)
EXTENDS Integers, FiniteSetsExt

CONSTANTS num_cpus,
          MAX_ACTIVE  \* the entries of _cpu_active: 64

VARIABLES turn,    \* _current_cpu_turn
          active   \* the CPUs i with _cpu_active[i]

Cpu == 0 .. (num_cpus - 1)
Loader == -1

init_cpu_order ==
  /\ turn = num_cpus - 1
  /\ active = {i \in Cpu : i < MAX_ACTIVE}

\* mutant: the scan runs upwards
lowest_active_cpu(from) ==
  LET A == {i \in active : i <= from} IN IF A = {} THEN Loader ELSE Min(A)

find_next_active_cpu(from) ==
  LET A == {i \in active : i <= from} IN IF A = {} THEN Loader ELSE Max(A)

find_highest_active_cpu == find_next_active_cpu(num_cpus - 1)

NoWait(id) == TRUE \* mutant: the CPUs race
wait_cpu_turn(id) == turn = id

mark_cpu_inactive(id) ==
  /\ active' = IF id >= 0 /\ id < MAX_ACTIVE THEN active \ {id} ELSE active
  /\ UNCHANGED turn

\* After the loader the turn goes around; after CPU 0 it is the loader's.
signal_next_cpu(id) ==
  /\ turn' = IF id = Loader THEN find_highest_active_cpu
             ELSE find_next_active_cpu(id - 1)
  /\ UNCHANGED active

reset_cpu_order == turn' = find_highest_active_cpu /\ UNCHANGED active
=============================================================================
