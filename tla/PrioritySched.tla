---------------------------- MODULE PrioritySched ----------------------------
(***************************************************************************)
(* What the scheduler of src/sched.c comes to for the CPUs and the loader: *)
(* strict priorities, first come first served within a priority.  Nothing  *)
(* of the slot counters, of the scan over the levels or of the retry of    *)
(* get_mlq_proc is visible here; Mlq implements this specification.  It is *)
(* what the code does, not the policy that the comment of get_mlq_proc and *)
(* the documentation state, a number of slots per round for every level:   *)
(* MlqRounds states that one, and the scheduler violates it.               *)
(***************************************************************************)
EXTENDS Integers, Sequences

CONSTANTS Cpu,      \* the CPU threads
          Proc,     \* the processes of the configuration file
          NULL,     \* no process
          MAX_PRIO, \* the number of priority levels
          prio      \* proc->prio: the level of each process, 0 is the highest

VARIABLES ready,    \* ready[i]: the waiting processes of level i, oldest first
          held,     \* held[c]: the process CPU c was given, or NULL
          unborn,   \* the processes the loader has not published yet
          finished  \* the processes that ran to their end

vars == <<ready, held, unborn, finished>>

Level == 0 .. (MAX_PRIO - 1)

Init ==
  /\ ready = [i \in Level |-> <<>>]
  /\ held = [c \in Cpu |-> NULL]
  /\ unborn = Proc
  /\ finished = {}

Admit(p) ==
  /\ p \in unborn
  /\ ready' = [ready EXCEPT ![prio[p]] = Append(@, p)]
  /\ unborn' = unborn \ {p}
  /\ UNCHANGED <<held, finished>>

\* The oldest process of the highest nonempty level, and no other.
Dispatch(c) ==
  /\ held[c] = NULL
  /\ \E i \in Level :
       /\ ready[i] # <<>>
       /\ \A j \in 0 .. (i - 1) : ready[j] = <<>>
       /\ held' = [held EXCEPT ![c] = Head(ready[i])]
       /\ ready' = [ready EXCEPT ![i] = Tail(@)]
  /\ UNCHANGED <<unborn, finished>>

Requeue(c) ==
  /\ held[c] # NULL
  /\ ready' = [ready EXCEPT ![prio[held[c]]] = Append(@, held[c])]
  /\ held' = [held EXCEPT ![c] = NULL]
  /\ UNCHANGED <<unborn, finished>>

Retire(c) ==
  /\ held[c] # NULL
  /\ finished' = finished \cup {held[c]}
  /\ held' = [held EXCEPT ![c] = NULL]
  /\ UNCHANGED <<ready, unborn>>

Next ==
  \/ \E p \in Proc : Admit(p)
  \/ \E c \in Cpu : Dispatch(c) \/ Requeue(c) \/ Retire(c)

Spec == Init /\ [][Next]_vars
=============================================================================
