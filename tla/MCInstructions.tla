------------------------------ MODULE MCInstructions ------------------------------
(* Instructions of two processes on a machine of two frames. *)
EXTENDS Instructions, TLC

InstSymmetry == Permutations(Proc)

\* After a wild write the property holds of anything.
Tame == ~stale

\* What a state is as far as the property and the steps to come can tell: the
\* history variables, what was read, the bytes of free frames, the tables of a
\* process that was reaped and the regions of one that ended make no difference.
Bytes(list, storage) ==
  [a \in DOMAIN storage |-> IF Contains(list, a \div PAGESZ) THEN 0 ELSE storage[a]]
View ==
  <<[p \in Proc |-> IF p \in reaped THEN <<>> ELSE <<pgd[p], fifo_pgn[p]>>],
    [p \in Proc |-> IF p \in alive THEN <<symrgtbl[p], vm_freerg_list[p]>> ELSE <<>>],
    ramFree, swpFree, Bytes(ramFree, ram), Bytes(swpFree, swp),
    alive, reaped, crashed, stale>>
=============================================================================
