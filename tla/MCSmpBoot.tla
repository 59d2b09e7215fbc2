----------------------------- MODULE MCSmpBoot ------------------------------
(* TLC instances of SmpBoot.                                               *)
EXTENDS SmpBoot, TLC

\* The BSP is the second entry and one processor is disabled.
MCMadt ==
    << [apic_id |-> 4, enabled |-> TRUE], [apic_id |-> 0, enabled |-> TRUE],
       [apic_id |-> 1, enabled |-> FALSE], [apic_id |-> 2, enabled |-> TRUE],
       [apic_id |-> 6, enabled |-> TRUE] >>

MCCores == {Madt[i].apic_id : i \in 1..Len(Madt)}
=============================================================================
