------------------------------ MODULE MCSmpRun ------------------------------
(* TLC instances of SmpRun.                                                *)
EXTENDS SmpRun

CONSTANTS b, a1, a2      \* three cores

MCCpuIndex == [c \in Cores |-> CASE c = b -> 0 [] c = a1 -> 1 [] c = a2 -> 2]
=============================================================================
