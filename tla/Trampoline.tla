----------------------------- MODULE Trampoline -----------------------------
(***************************************************************************)
(* The page an application processor (AP) starts in, of                    *)
(* src/src/trampoline.rs: the TrampolineData block the bootstrap processor *)
(* (BSP) fills, and the hand-assembled code that reads it.                 *)
(*                                                                         *)
(* The block is modelled by its 32-bit words.  The addresses the machine   *)
(* code was assembled with, and the place install() copies the GDT to, are *)
(* constants, so that the code as it is and code that agrees with the      *)
(* struct can be compared.                                                 *)
(***************************************************************************)
EXTENDS Integers

CONSTANTS
    READY_OPERAND,     \* offset the code stores 1 to: 0x18 (line 214)
    INDEX_OPERAND,     \* offset the code loads the index from: 0x14 (line 219)
    GDT_DESC_OFFSET,   \* where install() copies the GDT: 0x80 (line 309)
    Garbage            \* a word nobody meant to be there

VARIABLE block         \* the words of TrampolineData

\* repr(C): three u64, then two u32 (lines 41-51).
STACK_TOP == 8
ENTRY_POINT == 16
ENTRY_POINT_HIGH == 20
CPU_INDEX == 24
AP_READY == 28

Words == {STACK_TOP, ENTRY_POINT, ENTRY_POINT_HIGH, CPU_INDEX, AP_READY}

ASSUME TrampolineAssumption ==
    /\ READY_OPERAND \in Words
    /\ INDEX_OPERAND \in Words
    /\ GDT_DESC_OFFSET \in Nat

\* The instructions that use the block end at these offsets of the page.
CodeEnd == [stack |-> 121, ready |-> 132, index |-> 140, entry |-> 148, call |-> 150]

\* install() copies the code first and the GDT over it.
Intact(instruction) == CodeEnd[instruction] <= GDT_DESC_OFFSET

\* install(): the page is zeroed.
Install == block' = [w \in Words |-> 0]

\* set_ap_data(), in the order of its stores.  A stack is named by the
\* cpu_index it was allocated for; ap_entry is a function below 4 GiB.
SetStack(stack) ==
    block' = [block EXCEPT ![STACK_TOP] = stack, ![ENTRY_POINT] = 1, ![ENTRY_POINT_HIGH] = 0]

SetIndex(index) == block' = [block EXCEPT ![CPU_INDEX] = index]

\* Mutant: the ready flag of the previous AP stays.
ClearNothing == UNCHANGED block

ClearReady == block' = [block EXCEPT ![AP_READY] = 0]

\* is_ap_ready().
IsApReady == block[AP_READY] # 0

\* The AP's `mov dword [0x8F18], 1`; the GDT overwrites its immediate.
StoreReady ==
    block' = [block EXCEPT ![READY_OPERAND] = IF Intact("ready") THEN 1 ELSE Garbage]
=============================================================================
