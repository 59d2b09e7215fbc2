------------------------------ MODULE MCIoApic ------------------------------
(* TLC instances of IoApic.                                                *)
EXTENDS IoApic, TLC

\* Two chips, the second with the interrupts that follow the first's.
MCChips == << [gsi_base |-> 0, max_redir |-> 1], [gsi_base |-> 2, max_redir |-> 0] >>

\* The firmware leaves an entry as reset made it, or routed to vector 9.
MCFirmware == {MASKED, 9}

\* Callers are interchangeable.
CallerSymmetry == Permutations(Callers)
=============================================================================
