----------------------------- MODULE MCSlotTimer -----------------------------
(* Instances of SlotTimer for TLC: two CPUs and the loader, in the order in  *)
(* which main attaches them, the last one first in the list.                 *)
EXTENDS SlotTimer

CONSTANTS cpu0, cpu1, loader

MCDev == {cpu0, cpu1, loader}
MCDevList == <<loader, cpu1, cpu0>>
=============================================================================
