------------------------------ MODULE MlqRounds ------------------------------
(***************************************************************************)
(* The policy that get_mlq_proc states for itself: "Each priority level i  *)
(* gets slot[i] = MAX_PRIO - i time slots", "After exhausting slots for a  *)
(* level, move to next level", "After scanning all levels, restart from    *)
(* priority 0".  A history variable beside Mlq counts how long each level  *)
(* is kept waiting.                                                        *)
(***************************************************************************)
EXTENDS Mlq

VARIABLE waited  \* waited[j]: the processes of other levels dispatched since
                 \*   level j was last empty or served

\* A round without level j: what the other levels may take before j's turn.
RoundWithout(j) ==
  FoldSet(LAMBDA i, sum : slot(i) + sum, 0, Level \ {j})

\* The level whose queue the step takes a process from.
Dispatches(i) == \E c \in Cpu : GetProc(c) /\ Len(mlq_ready_queue'[i]) < Len(mlq_ready_queue[i])

\* waited is not counted beyond the first number that is too large.
Count ==
  waited' =
    [j \in Level |->
       IF mlq_ready_queue[j] = <<>> \/ Dispatches(j) THEN 0
       ELSE IF waited[j] <= RoundWithout(j) /\ \E i \in Level : Dispatches(i)
       THEN waited[j] + 1
       ELSE waited[j]]

RoundsInit == Init /\ waited = [j \in Level |-> 0]
RoundsNext == Next /\ Count
RoundsSpec == RoundsInit /\ [][RoundsNext]_<<vars, waited>>

\* "No Starvation: Even lowest priority gets 1 slot per round": a level that
\* has a process is served before the other levels have used more than their
\* slots of one round.  Not so: a level above it that refills is served again
\* as soon as its slots are used up.
EveryRound == \A j \in Level : waited[j] <= RoundWithout(j)
=============================================================================
