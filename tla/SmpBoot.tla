------------------------------ MODULE SmpBoot -------------------------------
(***************************************************************************)
(* SmpController::init of src/src/driver.rs: the BSP registers itself,     *)
(* boots the APs of the MADT one after the other with INIT-SIPI-SIPI and a *)
(* shared trampoline block, and makes a scheduler for the cores it         *)
(* counted; each AP goes through the trampoline into ap_entry().           *)
(*                                                                         *)
(* What the processor does with an IPI is external: INIT makes a core wait *)
(* for a SIPI, a SIPI starts a waiting core and is ignored by any other.   *)
(* The first SIPI may be missed; a core that is dead misses both.          *)
(***************************************************************************)
EXTENDS Trampoline, PerCpu, Sequences, FiniteSets

CONSTANTS
    Madt,          \* the local APICs: records with an apic_id and enabled
    BspId,         \* bsp_apic_id
    LateAnswers    \* TRUE: an AP may be slower than the spin timeout

\* init(): the enabled local APICs other than the BSP's, in MADT order.
EnabledAps ==
    LET IsAp(la) == la.enabled /\ la.apic_id # BspId
    IN  [i \in 1..Len(SelectSeq(Madt, IsAp)) |-> SelectSeq(Madt, IsAp)[i].apic_id]

ApCount == Len(EnabledAps)
Aps == {EnabledAps[i] : i \in 1..ApCount}

\* The MADT lists each core once, and the list of APs is what its filter says.
ASSUME BootAssumption ==
    /\ BspId \in Cores \ Aps
    /\ EnabledAps \in Seq(Cores)
    /\ \A i, j \in 1..ApCount : EnabledAps[i] = EnabledAps[j] => i = j
    /\ LateAnswers \in BOOLEAN

VARIABLES
    pc,            \* where each core is
    alive,         \* the APs that answer a SIPI
    cpu_index,     \* the BSP's loop: the AP it is booting
    total_cores,   \* AtomicU32 of the controller
    sched_cores,   \* cores of the scheduler, 0 before there is one
    aps_booted,    \* APS_BOOTED
    rsp,           \* the stack an AP runs on
    rdi            \* the cpu_index an AP was passed

driverVars == <<alive, cpu_index, total_cores, sched_cores, aps_booted, rsp, rdi>>
vars == <<pc, block, percpuVars, driverVars>>

Goto(c, label) == pc' = [pc EXCEPT ![c] = label]

\* The AP the BSP is booting.
Target == EnabledAps[cpu_index]

Init ==
    /\ block = [w \in Words |-> Garbage]
    /\ PerCpuInit
    /\ pc = [c \in Cores |-> IF c = BspId THEN "register" ELSE "off"]
    /\ alive \in SUBSET Aps
    /\ cpu_index = 0
    /\ total_cores = 1
    /\ sched_cores = 0
    /\ aps_booted = 0
    /\ rsp = [a \in Aps |-> Garbage]
    /\ rdi = [a \in Aps |-> Garbage]
-----------------------------------------------------------------------------
(* register_percpu(), by the BSP and by every AP                           *)

IndexOf(c) == IF c = BspId THEN 0 ELSE rdi[c]

\* A core whose index fails the assertion panics: it goes no further.
RegisterSlot(c) ==
    /\ pc[c] = "register"
    /\ IndexOf(c) \in Slots
    /\ StoreSlot(c, IndexOf(c))
    /\ Goto(c, "count")
    /\ UNCHANGED <<block, driverVars>>

RegisterCount(c) ==
    /\ pc[c] = "count"
    /\ CountOne
    /\ Goto(c, "gs_base")
    /\ UNCHANGED <<block, driverVars>>

\* The BSP goes on to boot_aps(), an AP to APS_BOOTED.
RegisterGsBase(c) ==
    /\ pc[c] = "gs_base"
    /\ SetGsBase(c)
    /\ Goto(c, IF c # BspId THEN "booted" ELSE IF ApCount > 0 THEN "install" ELSE "boot")
    /\ UNCHANGED <<block, driverVars>>
-----------------------------------------------------------------------------
(* The BSP: boot_aps() and the end of init()                               *)

InstallTrampoline ==
    /\ pc[BspId] = "install"
    /\ Install
    /\ Goto(BspId, "boot")
    /\ UNCHANGED <<percpuVars, driverVars>>

\* The loop over the APs: the next one, with a stack of its own.
BootNext ==
    /\ pc[BspId] = "boot"
    /\ cpu_index < ApCount
    /\ cpu_index' = cpu_index + 1
    /\ Goto(BspId, "set_stack")
    /\ UNCHANGED <<block, percpuVars, alive, total_cores, sched_cores, aps_booted, rsp, rdi>>

SetApStack ==
    /\ pc[BspId] = "set_stack"
    /\ SetStack(cpu_index)
    /\ Goto(BspId, "set_index")
    /\ UNCHANGED <<percpuVars, driverVars>>

SetApIndex ==
    /\ pc[BspId] = "set_index"
    /\ SetIndex(cpu_index)
    /\ Goto(BspId, "clear_ready")
    /\ UNCHANGED <<percpuVars, driverVars>>

ClearApReady ==
    /\ pc[BspId] = "clear_ready"
    /\ ClearReady
    /\ Goto(BspId, "init_ipi")
    /\ UNCHANGED <<percpuVars, driverVars>>

\* send_init_ipi().
SendInit ==
    /\ pc[BspId] = "init_ipi"
    /\ pc' = [pc EXCEPT ![BspId] = "sipi", ![Target] = "wait_sipi"]
    /\ UNCHANGED <<block, percpuVars, driverVars>>

\* What a SIPI does to a core, and where the BSP goes on.
Sipi(a, label) ==
    IF pc[a] = "wait_sipi" /\ a \in alive
    THEN pc' = [pc EXCEPT ![BspId] = label, ![a] = "load_stack"]
    ELSE Goto(BspId, label)

\* send_startup_ipi(), the first time.
FirstSipi ==
    /\ pc[BspId] = "sipi"
    /\ Sipi(Target, "check") \/ Goto(BspId, "check")
    /\ UNCHANGED <<block, percpuVars, driverVars>>

\* is_ap_ready(), and the second SIPI when it is not.
SecondSipi ==
    /\ pc[BspId] = "check"
    /\ IF IsApReady THEN Goto(BspId, "wait") ELSE Sipi(Target, "wait")
    /\ UNCHANGED <<block, percpuVars, driverVars>>

\* Mutant: the next AP is booted without waiting for this one.
WaitReadyAny ==
    /\ pc[BspId] = "wait"
    /\ total_cores' = total_cores + 1
    /\ Goto(BspId, "boot")
    /\ UNCHANGED <<block, percpuVars, alive, cpu_index, sched_cores, aps_booted, rsp, rdi>>

\* wait_ap_ready() returns true and the AP is counted.
WaitReady ==
    /\ pc[BspId] = "wait"
    /\ IsApReady
    /\ total_cores' = total_cores + 1
    /\ Goto(BspId, "boot")
    /\ UNCHANGED <<block, percpuVars, alive, cpu_index, sched_cores, aps_booted, rsp, rdi>>

\* An AP between its SIPI and its ready signal.
OnItsWay(a) == pc[a] = "store_ready" \/ (pc[a] = "load_stack" /\ Intact("stack"))

\* wait_ap_ready() gives up.
WaitTimeout ==
    /\ pc[BspId] = "wait"
    /\ ~IsApReady
    /\ LateAnswers \/ ~OnItsWay(Target)
    /\ Goto(BspId, "boot")
    /\ UNCHANGED <<block, percpuVars, driverVars>>

\* init(): the scheduler is made for num_cores() cores.
CreateScheduler ==
    /\ pc[BspId] = "boot"
    /\ cpu_index = ApCount
    /\ sched_cores' = total_cores
    /\ Goto(BspId, "initialized")
    /\ UNCHANGED <<block, percpuVars, alive, cpu_index, total_cores, aps_booted, rsp, rdi>>
-----------------------------------------------------------------------------
(* An AP: the trampoline's code and ap_entry().  An AP that comes to an    *)
(* instruction that is not intact executes other bytes and goes no further. *)

\* `mov rsp, [0x8F08]`; the mode switches before it use nothing that varies.
LoadStack(a) ==
    /\ pc[a] = "load_stack"
    /\ Intact("stack")
    /\ rsp' = [rsp EXCEPT ![a] = block[STACK_TOP]]
    /\ Goto(a, "store_ready")
    /\ UNCHANGED <<block, percpuVars, alive, cpu_index, total_cores, sched_cores,
                   aps_booted, rdi>>

SignalReady(a) ==
    /\ pc[a] = "store_ready"
    /\ StoreReady
    /\ Goto(a, "load_index")
    /\ UNCHANGED <<percpuVars, driverVars>>

\* `mov rdi, [0x8F14]`, of which ap_entry() uses the low half.
LoadIndex(a) ==
    /\ pc[a] = "load_index"
    /\ Intact("index")
    /\ rdi' = [rdi EXCEPT ![a] = block[INDEX_OPERAND]]
    /\ Goto(a, "call")
    /\ UNCHANGED <<block, percpuVars, alive, cpu_index, total_cores, sched_cores,
                   aps_booted, rsp>>

\* `mov rax, [0x8F10]`, `call rax` and the set-up of the local APIC.
CallEntry(a) ==
    /\ pc[a] = "call"
    /\ Intact("call")
    /\ Goto(a, "register")
    /\ UNCHANGED <<block, percpuVars, driverVars>>

\* Mutant: a store where the code has a fetch_add.
SignalBootedStore(a) ==
    /\ pc[a] = "booted"
    /\ aps_booted' = 1
    /\ Goto(a, "idle")
    /\ UNCHANGED <<block, percpuVars, alive, cpu_index, total_cores, sched_cores, rsp, rdi>>

\* ap_entry(): APS_BOOTED.fetch_add(1), and the idle loop.
SignalBooted(a) ==
    /\ pc[a] = "booted"
    /\ aps_booted' = aps_booted + 1
    /\ Goto(a, "idle")
    /\ UNCHANGED <<block, percpuVars, alive, cpu_index, total_cores, sched_cores, rsp, rdi>>
-----------------------------------------------------------------------------
Register(c) == RegisterSlot(c) \/ RegisterCount(c) \/ RegisterGsBase(c)

Bsp ==
    \/ Register(BspId)
    \/ InstallTrampoline \/ BootNext \/ SetApStack \/ SetApIndex \/ ClearApReady
    \/ SendInit \/ FirstSipi \/ SecondSipi \/ WaitReady \/ WaitTimeout \/ CreateScheduler

Ap(a) ==
    \/ LoadStack(a) \/ SignalReady(a) \/ LoadIndex(a) \/ CallEntry(a)
    \/ Register(a) \/ SignalBooted(a)

Next == Bsp \/ \E a \in Aps : Ap(a)

\* Every core executes its instructions.
Fairness == WF_vars(Bsp) /\ \A a \in Aps : WF_vars(Ap(a))

Spec == Init /\ [][Next]_vars
FairSpec == Spec /\ Fairness
-----------------------------------------------------------------------------
Labels ==
    {"off", "register", "count", "gs_base",
     "install", "boot", "set_stack", "set_index", "clear_ready", "init_ipi", "sipi",
     "check", "wait", "initialized",
     "wait_sipi", "load_stack", "store_ready", "load_index", "call",
     "booted", "idle"}

Indices == 0..ApCount

TypeOK ==
    /\ block \in [Words -> Indices \cup {1, Garbage}]
    /\ PerCpuTypeOK
    /\ pc \in [Cores -> Labels]
    /\ alive \subseteq Aps
    /\ cpu_index \in Indices
    /\ total_cores \in 1..(ApCount + 1)
    /\ sched_cores \in 0..(ApCount + 1)
    /\ aps_booted \in 0..ApCount
    /\ rsp \in [Aps -> Indices \cup {Garbage}]
    /\ rdi \in [Aps -> Indices \cup {1, Garbage}]

Initialized == pc[BspId] = "initialized"

\* "AP sets this to 1 when it has reached long mode and is running"
\* (trampoline.rs:50): an AP that starts is counted by the BSP, a dead one is
\* not.
AliveAreCounted == Initialized => total_cores = 1 + Cardinality(alive)

\* No two APs run on the stack allocated for one of them (driver.rs:316-328):
\* the block is shared, and refilled while earlier APs are still starting.
StackIsOwn ==
    \A a, b \in Aps : a # b /\ rsp[a] # Garbage => rsp[a] # rsp[b]

\* The two counts of cores meet: total_cores, made by the BSP, and APS_BOOTED,
\* made by the APs (driver.rs:395-413).
CountsMeet == <>[](Initialized /\ aps_booted = total_cores - 1)

\* Cores that have reached ap_entry().
Entered == {a \in Aps : pc[a] \in {"register", "count", "gs_base", "booted", "idle"}}

\* "CPU index assigned to this AP (set by BSP before each SIPI)"
\* (trampoline.rs:48): the index an AP gets is the one assigned to it.
\* TLC finds it violated: the BSP may store the next index first (README, 4).
IndexIsAssigned == \A a \in Entered : EnabledAps[rdi[a]] = a

\* "Per-core run queues, indexed by core ID" (scheduler.rs:340): every core that
\* runs has a queue.  TLC finds it violated after an AP has failed (README, 4).
EveryCoreHasQueue ==
    Initialized => \A a \in Entered : rdi[a] < sched_cores
=============================================================================
