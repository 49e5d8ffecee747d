------------------------------- MODULE ProcMemory -------------------------------
(***************************************************************************)
(* What the memory library promises a program: a memory of its own, byte   *)
(* by byte, which only its own writes change and its reads return, and     *)
(* variables that are addresses in it.  The promise has three limits.      *)
(* What a process never used may be refused it, silently, when memory is   *)
(* full.  What its own accesses pushed out to swap it cannot read again: a *)
(* read returns any byte.  And with the first write to what is in swap     *)
(* everything is possible (wild).                                          *)
(***************************************************************************)
EXTENDS Integers

CONSTANTS Proc, Rgid,
          Address,  \* the addresses programs use
          Size,     \* the sizes programs ask for
          Offsets,  \* the offsets of reads and writes
          Value     \* what programs write, besides the 0 memory starts with

VARIABLES mem,      \* what each process wrote last to each address
          place,    \* where each address is: "unused", "ram" or "swap"
          destination, \* what the last read of each process returned
          symrgtbl, \* the region of each variable
          alive,    \* the processes that have not ended
          wild

vars == <<mem, place, destination, symrgtbl, alive, wild>>

Init ==
  /\ mem = [p \in Proc |-> [a \in Address |-> 0]]
  /\ place = [p \in Proc |-> [a \in Address |-> "unused"]]
  /\ destination = [p \in Proc |-> 0]
  /\ symrgtbl = [p \in Proc |-> [r \in Rgid |-> [rg_start |-> 0, rg_end |-> 0]]]
  /\ alive = Proc
  /\ wild = FALSE

liballoc(p, r) ==
  /\ \E start \in Address, size \in Size :
       symrgtbl' = [symrgtbl EXCEPT ![p][r] =
                     [rg_start |-> start, rg_end |-> start + size]]
  /\ UNCHANGED <<mem, place, destination, alive, wild>>

libfree(p, r) ==
  /\ symrgtbl' = [symrgtbl EXCEPT ![p][r] = [rg_start |-> 0, rg_end |-> 0]]
  /\ UNCHANGED <<mem, place, destination, alive, wild>>

\* Address a of p comes into RAM, with others that p did not use yet, and others
\* of p may leave it.
Comes(p, a) ==
  /\ place[p][a] = "unused" /\ place'[p][a] = "ram"
  /\ place' = [place EXCEPT ![p] = place'[p]]
  /\ \A b \in Address :
       \/ place'[p][b] = place[p][b]
       \/ place[p][b] = "unused" /\ place'[p][b] = "ram"
       \/ place[p][b] = "ram" /\ place'[p][b] = "swap"

\* Address a of p is in RAM, or comes into it.
Present(p, a) == (place[p][a] = "ram" /\ UNCHANGED place) \/ Comes(p, a)

libread(p, a) ==
  /\ \/ Present(p, a) /\ destination' = [destination EXCEPT ![p] = mem[p][a]]
     \/ /\ place[p][a] # "ram" /\ UNCHANGED place
        /\ \E any \in Value \cup {0} : destination' = [destination EXCEPT ![p] = any]
  /\ UNCHANGED <<mem, symrgtbl, alive, wild>>

\* A write that is refused changes nothing.
libwrite(p, a, w) ==
  /\ \/ Present(p, a) /\ UNCHANGED wild
     \/ place[p][a] = "swap" /\ UNCHANGED place /\ wild' = TRUE
  /\ mem' = [mem EXCEPT ![p][a] = w]
  /\ UNCHANGED <<destination, symrgtbl, alive>>

\* The byte at an offset of a variable is accessed.
Access(p, r, offset) ==
  LET a == symrgtbl[p][r].rg_start + offset IN
  a \in Address /\ (libread(p, a) \/ \E w \in Value : libwrite(p, a, w))

End(p) ==
  /\ alive' = alive \ {p}
  /\ UNCHANGED <<mem, place, destination, symrgtbl, wild>>

Next ==
  \/ \E p \in alive, r \in Rgid : liballoc(p, r)
  \/ \E p \in alive, r \in Rgid : libfree(p, r)
  \/ \E p \in alive, r \in Rgid, offset \in Offsets : Access(p, r, offset)
  \/ \E p \in alive : End(p)
  \/ wild /\ wild'

Spec == Init /\ [][Next]_vars
=============================================================================
