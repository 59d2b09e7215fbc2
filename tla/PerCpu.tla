------------------------------- MODULE PerCpu -------------------------------
(***************************************************************************)
(* The per-CPU registry of src/src/percpu.rs: a static array of pointers,  *)
(* the count of registrations and the GS base of every core.  A PerCpu     *)
(* block is named by the core that allocated it.                           *)
(***************************************************************************)
EXTENDS Integers

CONSTANTS
    Cores,         \* the cores, by APIC ID
    MAX_CPUS,      \* slots of the array: 256 in the code
    Null           \* the null pointer

ASSUME PerCpuAssumption == MAX_CPUS \in Nat \ {0} /\ Null \notin Cores

VARIABLES
    percpu_array,  \* PERCPU_ARRAY
    percpu_count,  \* PERCPU_COUNT
    gs_base        \* IA32_GS_BASE of every core

percpuVars == <<percpu_array, percpu_count, gs_base>>

Slots == 0..(MAX_CPUS - 1)

PerCpuInit ==
    /\ percpu_array = [i \in Slots |-> Null]
    /\ percpu_count = 0
    /\ gs_base = [c \in Cores |-> Null]

PerCpuTypeOK ==
    /\ percpu_array \in [Slots -> Cores \cup {Null}]
    /\ percpu_count \in Nat
    /\ gs_base \in [Cores -> Cores \cup {Null}]

\* register_percpu() takes three steps others can see: the slot ...
StoreSlot(c, index) ==
    /\ percpu_array' = [percpu_array EXCEPT ![index] = c]
    /\ UNCHANGED <<percpu_count, gs_base>>

\* ... the count ...
CountOne ==
    /\ percpu_count' = percpu_count + 1
    /\ UNCHANGED <<percpu_array, gs_base>>

\* ... and the core's own GS base.
SetGsBase(c) ==
    /\ gs_base' = [gs_base EXCEPT ![c] = c]
    /\ UNCHANGED <<percpu_array, percpu_count>>

\* get_cpu(): the block in a slot, Null for none and past the end.
GetCpu(index) == IF index \in Slots THEN percpu_array[index] ELSE Null

\* Mutant: all_cpus() looks at as many slots as there are cores.
ScanEndAtCount(count) == count

\* all_cpus(): where the loop over the slots ends.
ScanEnd(count) == MAX_CPUS
=============================================================================
