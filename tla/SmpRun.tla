------------------------------- MODULE SmpRun -------------------------------
(***************************************************************************)
(* The running system of src/src/driver.rs: the BSP calibrates its timer,  *)
(* spawns tasks on cores, looks cores up and halts the APs; the APs come   *)
(* out of ap_entry(), in any order, into the idle loop.                    *)
(*                                                                         *)
(* The kernel's handlers are external: on the scheduling vector a core     *)
(* takes the tasks of its queue (Scheduler is about the queue itself), and *)
(* a handler of the BSP may call spawn_on_core() as the thread may.        *)
(***************************************************************************)
EXTENDS LocalApic, PerCpu, FiniteSets

CONSTANTS
    Bsp,           \* the bootstrap processor
    CpuIndex,      \* cpu_index of each core
    Tasks,         \* tasks to spawn
    MaxTicks       \* bound: clock ticks a calibration lasts

Aps == Cores \ {Bsp}
NumCores == Cardinality(Cores)                 \* num_cores()
Indices == 0..(NumCores - 1)

IPI_SCHEDULE_VECTOR == 254
HALT_VECTOR == 2

ASSUME RunAssumption ==
    /\ IsFiniteSet(Cores)
    /\ Bsp \in Cores
    /\ CpuIndex \in [Cores -> Indices]
    /\ \A c, d \in Cores : CpuIndex[c] = CpuIndex[d] => c = d
    /\ CpuIndex[Bsp] = 0
    /\ NumCores > 1 /\ NumCores <= MAX_CPUS
    /\ MaxTicks \in Nat

VARIABLES
    ap_halt,       \* AP_HALT
    pc,            \* where each AP is
    spc,           \* where the BSP's thread is
    target,        \* the core index a call is at
    vector, dest,  \* vector and APIC ID of the IPI it sends
    crossed,       \* history: a handler has sent since wait_icr_idle() returned
    want, found, scan,         \* all_cpus(): count, cpus and i
    state, home,   \* where a task has got to, and the index of its core
    elapsed,       \* clock ticks of the calibration
    ticks_per_ms   \* its result

callVars == <<target, vector, dest, crossed>>
scanVars == <<want, found, scan>>
taskVars == <<state, home>>
clockVars == <<elapsed, ticks_per_ms>>
vars == <<percpuVars, apicVars, ap_halt, pc, spc, callVars, scanVars, taskVars, clockVars>>

\* What setup_timer() and stop_timer() may have left before the calibration.
EarlierTimers == {SetUp(8, 3), Stopped(SetUp(16, 1))}

Init ==
    /\ PerCpuInit
    /\ LocalApicInit(Cores, Bsp)
    /\ timer \in EarlierTimers
    /\ ap_halt = FALSE
    /\ pc = [a \in Aps |-> "enable"]
    /\ spc = "boot"
    /\ target = 0
    /\ vector = 0
    /\ dest = Null
    /\ crossed = FALSE
    /\ want = 0 /\ found = {} /\ scan = 0
    /\ state = [t \in Tasks |-> "new"]
    /\ home = [t \in Tasks |-> 0]
    /\ elapsed = 0
    /\ ticks_per_ms = 0

Goto(label) == spc' = label

\* The kernel calibrates, then init() starts the APs.
Started == spc \notin {"boot", "delay", "calibrated", "percpu"}
-----------------------------------------------------------------------------
(* The BSP's timer                                                         *)

CalibrateTimer ==
    /\ spc = "boot"
    /\ timer' = Calibrating(timer)
    /\ Goto("delay")
    /\ UNCHANGED <<percpuVars, enabled, icrVars, irr, isr, ap_halt, pc, callVars, scanVars,
                   taskVars, clockVars>>

\* Time passes in delay_fn().
ClockTick ==
    /\ spc = "delay"
    /\ elapsed < MaxTicks
    /\ elapsed' = elapsed + 1
    /\ timer' = Ticking(timer)
    /\ UNCHANGED <<percpuVars, enabled, icrVars, irr, isr, ap_halt, pc, spc, callVars, scanVars,
                   taskVars, ticks_per_ms>>

CalibrateEnd ==
    /\ spc = "delay"
    /\ ticks_per_ms' = TicksPerMs(timer)
    /\ timer' = Calibrated(timer)
    /\ Goto("calibrated")
    /\ UNCHANGED <<percpuVars, enabled, icrVars, irr, isr, ap_halt, pc, callVars, scanVars,
                   taskVars, elapsed>>

\* The kernel has used the result; init_bsp_apic(), of init().
InitBspApic ==
    /\ spc = "calibrated"
    /\ Enable(Bsp)
    /\ timer' = LvtMasked(timer)
    /\ elapsed' = 0
    /\ ticks_per_ms' = 0
    /\ Goto("percpu")
    /\ UNCHANGED <<percpuVars, icrVars, irr, isr, ap_halt, pc, callVars, scanVars, taskVars>>

\* init_bsp_percpu(), with nobody there to see its steps; boot_aps() follows.
InitBspPercpu ==
    /\ spc = "percpu"
    /\ percpu_array' = [percpu_array EXCEPT ![CpuIndex[Bsp]] = Bsp]
    /\ percpu_count' = percpu_count + 1
    /\ gs_base' = [gs_base EXCEPT ![Bsp] = Bsp]
    /\ Goto("idle")
    /\ UNCHANGED <<apicVars, ap_halt, pc, callVars, scanVars, taskVars, clockVars>>
-----------------------------------------------------------------------------
(* Calls of the controller, by the BSP's thread                            *)

\* spawn_on_core(): the push, and ipi_send() next.
SpawnOnCore(t, i) ==
    /\ spc = "idle"
    /\ state[t] = "new"
    /\ state' = [state EXCEPT ![t] = "queued"]
    /\ home' = [home EXCEPT ![t] = i]
    /\ target' = i
    /\ vector' = IPI_SCHEDULE_VECTOR
    /\ Goto("get_cpu")
    /\ UNCHANGED <<percpuVars, apicVars, ap_halt, pc, dest, crossed, scanVars, clockVars>>

\* spawn(): the push alone, to whatever core was the least loaded.
Spawn(t, i) ==
    /\ spc = "idle"
    /\ state[t] = "new"
    /\ state' = [state EXCEPT ![t] = "queued"]
    /\ home' = [home EXCEPT ![t] = i]
    /\ UNCHANGED <<percpuVars, apicVars, ap_halt, pc, spc, callVars, scanVars, clockVars>>

\* halt_aps(): AP_HALT, and the loop of ipi_send() from core 1 on.  The model
\* calls it once.
HaltAps ==
    /\ spc = "idle"
    /\ ~ap_halt
    /\ ap_halt' = TRUE
    /\ target' = 1
    /\ vector' = HALT_VECTOR
    /\ Goto("get_cpu")
    /\ UNCHANGED <<percpuVars, apicVars, pc, dest, crossed, scanVars, taskVars, clockVars>>

\* The last index of the loop.
LastCore == NumCores - 1

\* What follows an ipi_send(): the next core of halt_aps(), or the end.
AfterIpi ==
    /\ crossed' = FALSE
    /\ IF vector = HALT_VECTOR /\ target < LastCore
       THEN /\ target' = target + 1
            /\ Goto("get_cpu")
            /\ UNCHANGED <<vector, dest>>
       ELSE /\ target' = 0
            /\ vector' = 0
            /\ dest' = Null
            /\ Goto("idle")

\* ipi_send(): the APIC ID of the core, if it is registered.
LookUp ==
    /\ spc = "get_cpu"
    /\ \/ /\ GetCpu(target) # Null
          /\ dest' = GetCpu(target)
          /\ Goto("wait_icr")
          /\ UNCHANGED <<target, vector, crossed>>
       \/ /\ GetCpu(target) = Null
          /\ AfterIpi
    /\ UNCHANGED <<percpuVars, apicVars, ap_halt, pc, scanVars, taskVars, clockVars>>

\* send_ipi(): wait_icr_idle(), and the two writes.
WaitIcr ==
    /\ spc = "wait_icr"
    /\ IcrIdle(Bsp)
    /\ Goto("icr_high")
    /\ UNCHANGED <<percpuVars, apicVars, ap_halt, pc, callVars, scanVars, taskVars, clockVars>>

SendHigh ==
    /\ spc = "icr_high"
    /\ WriteIcrHigh(Bsp, dest)
    /\ Goto("icr_low")
    /\ UNCHANGED <<percpuVars, enabled, isr, timer, ap_halt, pc, callVars, scanVars, taskVars,
                   clockVars>>

SendLow ==
    /\ spc = "icr_low"
    /\ WriteIcrLow(Bsp, vector)
    /\ AfterIpi
    /\ UNCHANGED <<percpuVars, enabled, isr, timer, ap_halt, pc, scanVars, taskVars, clockVars>>

\* all_cpus(): the count ...
AllCpus ==
    /\ spc = "idle"
    /\ want' = percpu_count
    /\ Goto("scan")
    /\ UNCHANGED <<percpuVars, apicVars, ap_halt, pc, callVars, found, scan, taskVars, clockVars>>

\* ... and one iteration of the loop, which ends when it has found as many.
ScanSlot ==
    LET now == found \cup ({GetCpu(scan)} \ {Null})
        done == Cardinality(now) = want \/ scan + 1 = ScanEnd(want)
    IN  /\ spc = "scan"
        /\ scan' = IF done THEN 0 ELSE scan + 1
        /\ found' = IF done THEN {} ELSE now
        /\ want' = IF done THEN 0 ELSE want
        /\ Goto(IF done THEN "idle" ELSE "scan")
        /\ UNCHANGED <<percpuVars, apicVars, ap_halt, pc, callVars, taskVars, clockVars>>
-----------------------------------------------------------------------------
(* The handlers (external)                                                 *)

\* The core takes the tasks of its queue.
Queue(c) == {t \in Tasks : home[t] = CpuIndex[c] /\ state[t] = "queued"}
Take(c) ==
    /\ state' = [t \in Tasks |-> IF t \in Queue(c) THEN "taken" ELSE state[t]]
    /\ home' = [t \in Tasks |-> IF t \in Queue(c) THEN 0 ELSE home[t]]

\* The BSP's scheduling interrupt, from its acknowledgement to eoi().
BspSchedule ==
    /\ Started
    /\ IPI_SCHEDULE_VECTOR \in irr[Bsp]
    /\ irr' = [irr EXCEPT ![Bsp] = @ \ {IPI_SCHEDULE_VECTOR}]
    /\ Take(Bsp)
    /\ UNCHANGED <<percpuVars, enabled, icrVars, isr, timer, ap_halt, pc, spc, callVars, scanVars,
                   clockVars>>

\* Another handler of the BSP calls spawn_on_core(), between any two steps of the
\* thread, which waits for it, so that the call is one step here.
HandlerSpawn(t, i) ==
    LET m == [dest |-> GetCpu(i), vector |-> IPI_SCHEDULE_VECTOR] IN
    /\ Started
    /\ state[t] = "new"
    /\ home' = [home EXCEPT ![t] = i]
    /\ state' = [state EXCEPT ![t] = "queued"]
    /\ IF m.dest = Null
       THEN UNCHANGED <<icrVars, crossed>>
       ELSE /\ IcrIdle(Bsp)
            /\ icr_high' = [icr_high EXCEPT ![Bsp] = m.dest]
            /\ icr' = [icr EXCEPT ![Bsp] = m]
            /\ crossed' = (spc \in {"icr_high", "icr_low"})
    /\ UNCHANGED <<percpuVars, enabled, irr, isr, timer, ap_halt, pc, spc, target, vector, dest,
                   scanVars, clockVars>>
-----------------------------------------------------------------------------
(* An AP: the end of ap_entry() and its idle loop                          *)

ApGoto(a, label) == pc' = [pc EXCEPT ![a] = label]

\* enable(), and a task priority of 0, before the core can be looked up.
ApEnable(a) ==
    /\ pc[a] = "enable"
    /\ Started
    /\ Enable(a)
    /\ ApGoto(a, "register")
    /\ UNCHANGED <<percpuVars, icrVars, irr, isr, timer, ap_halt, spc, callVars, scanVars,
                   taskVars, clockVars>>

ApRegisterSlot(a) ==
    /\ pc[a] = "register"
    /\ StoreSlot(a, CpuIndex[a])
    /\ ApGoto(a, "count")
    /\ UNCHANGED <<apicVars, ap_halt, spc, callVars, scanVars, taskVars, clockVars>>

ApRegisterCount(a) ==
    /\ pc[a] = "count"
    /\ CountOne
    /\ ApGoto(a, "gs_base")
    /\ UNCHANGED <<apicVars, ap_halt, spc, callVars, scanVars, taskVars, clockVars>>

ApRegisterGsBase(a) ==
    /\ pc[a] = "gs_base"
    /\ SetGsBase(a)
    /\ ApGoto(a, "check")
    /\ UNCHANGED <<apicVars, ap_halt, spc, callVars, scanVars, taskVars, clockVars>>

\* AP_HALT.load(): `cli; hlt`, for good, or on to `sti; hlt`.
CheckHalt(a) ==
    /\ pc[a] = "check"
    /\ ApGoto(a, IF ap_halt THEN "halted" ELSE "sti")
    /\ UNCHANGED <<percpuVars, apicVars, ap_halt, spc, callVars, scanVars, taskVars, clockVars>>

\* Mutant: the core may take an interrupt between sti and hlt.
StiHltApart(a) ==
    /\ pc[a] = "sti"
    /\ \/ irr[a] = {} /\ UNCHANGED <<irr, taskVars>>
       \/ irr[a] # {} /\ irr' = [irr EXCEPT ![a] = {}] /\ Take(a)
    /\ ApGoto(a, "hlt")
    /\ UNCHANGED <<percpuVars, enabled, icrVars, isr, timer, ap_halt, spc, callVars, scanVars,
                   clockVars>>

\* `sti; hlt`: sti takes effect after the next instruction.
StiHlt(a) ==
    /\ pc[a] = "sti"
    /\ ApGoto(a, "hlt")
    /\ UNCHANGED <<percpuVars, apicVars, ap_halt, spc, callVars, scanVars, taskVars, clockVars>>

\* Mutant: ap_entry() is called with interrupts on.
InterruptsOnEarly(a) == pc[a] \in {"count", "gs_base", "hlt"}

\* ap_entry() is called with interrupts off, and `sti; hlt; cli` lets them in
\* during hlt alone.
InterruptsOn(a) == pc[a] = "hlt"

ApInterrupt(a, v) ==
    /\ InterruptsOn(a)
    /\ Acknowledge(a, v)
    /\ ApGoto(a, "handler")
    /\ UNCHANGED <<percpuVars, ap_halt, spc, callVars, scanVars, taskVars, clockVars>>

\* The handler's work, and back behind hlt: `cli` and the loop.
ApIret(a) ==
    /\ pc[a] = "handler"
    /\ Take(a)
    /\ Eoi(a)
    /\ ApGoto(a, "check")
    /\ UNCHANGED <<percpuVars, ap_halt, spc, callVars, scanVars, clockVars>>
-----------------------------------------------------------------------------
DeliverIpi ==
    /\ Deliver(Bsp)
    /\ UNCHANGED <<percpuVars, ap_halt, pc, spc, callVars, scanVars, taskVars, clockVars>>

\* Steps the thread takes once it has begun something.
Thread ==
    \/ CalibrateTimer \/ CalibrateEnd \/ InitBspApic \/ InitBspPercpu
    \/ LookUp \/ WaitIcr \/ SendHigh \/ SendLow
    \/ ScanSlot

Ap(a) ==
    \/ ApEnable(a) \/ ApRegisterSlot(a) \/ ApRegisterCount(a) \/ ApRegisterGsBase(a)
    \/ CheckHalt(a) \/ StiHlt(a) \/ ApIret(a)
    \/ ApInterrupt(a, IPI_SCHEDULE_VECTOR)

Next ==
    \/ Thread \/ ClockTick \/ AllCpus \/ HaltAps
    \/ \E t \in Tasks, i \in Indices : SpawnOnCore(t, i) \/ Spawn(t, i) \/ HandlerSpawn(t, i)
    \/ BspSchedule
    \/ DeliverIpi
    \/ \E a \in Aps : Ap(a)

\* Cores execute, messages are accepted, and the BSP takes its interrupts.
Fairness ==
    /\ WF_vars(Thread)
    /\ WF_vars(DeliverIpi)
    /\ WF_vars(BspSchedule)
    /\ \A a \in Aps : WF_vars(Ap(a))

Spec == Init /\ [][Next]_vars
FairSpec == Spec /\ Fairness
-----------------------------------------------------------------------------
TypeOK ==
    /\ PerCpuTypeOK
    /\ enabled \in [Cores -> BOOLEAN]
    /\ icr_high \in [Cores -> Cores]
    /\ irr \in [Cores -> SUBSET {IPI_SCHEDULE_VECTOR}]
    /\ isr \in [Cores -> SUBSET {IPI_SCHEDULE_VECTOR}]
    /\ ap_halt \in BOOLEAN
    /\ pc \in [Aps -> {"enable", "register", "count", "gs_base", "check", "sti", "hlt", "handler", "halted"}]
    /\ spc \in {"boot", "delay", "calibrated", "percpu", "idle", "get_cpu", "wait_icr", "icr_high",
               "icr_low", "scan"}
    /\ target \in Indices
    /\ vector \in {0, IPI_SCHEDULE_VECTOR, HALT_VECTOR}
    /\ dest \in Cores \cup {Null} /\ crossed \in BOOLEAN
    /\ want \in 0..NumCores /\ found \subseteq Cores /\ scan \in Slots
    /\ state \in [Tasks -> {"new", "queued", "taken"}]
    /\ home \in [Tasks -> Indices]
    /\ elapsed \in 0..MaxTicks /\ ticks_per_ms \in 0..MAX_COUNT

\* "GS base must have been set via register_percpu() on this core"
\* (percpu.rs:161): a core can be looked up, and sent an IPI, before its GS base is
\* set, but no handler runs before it is.
HandlersHaveGsBase == \A a \in Aps : pc[a] = "handler" => gs_base[a] = a

\* all_cpus() finds as many cores as it counted, whichever APs register while
\* it scans and in whatever order of indices: it never runs out of slots.
AllCpusFindsCount ==
    spc = "scan" =>
        Cardinality(found) + Cardinality({i \in scan..(ScanEnd(want) - 1) : GetCpu(i) # Null})
            >= want

\* "Returns approximate ticks per millisecond" (apic.rs:666): the result counts the
\* clock, up to the width of the counter, whatever the timer did before.
CalibrationIsExact ==
    spc = "calibrated" =>
        ticks_per_ms = (IF elapsed < MAX_COUNT THEN elapsed ELSE MAX_COUNT) \div DelayMs

\* Every message that leaves the BSP is one that a call has asked for, to the
\* core it asked for, and none is overwritten before it is accepted, with the
\* handlers sending between any two steps of the thread (apic.rs:574-579).  The one
\* exception is the thread's own message when a handler has sent after the
\* thread's wait: the handler's message is right even then, and so is the
\* thread's next one.
IpiAsAsked ==
    [][icr'[Bsp] # icr[Bsp] /\ icr'[Bsp] # NoMessage =>
          \/ spc = "icr_low" /\ crossed
          \/ /\ icr[Bsp] = NoMessage
             /\ \/ spc = "icr_low" /\ icr'[Bsp] = [dest |-> dest, vector |-> vector]
                \/ \E t \in Tasks : /\ state[t] = "new" /\ state'[t] = "queued"
                                    /\ icr'[Bsp] = [dest |-> GetCpu(home'[t]),
                                                    vector |-> IPI_SCHEDULE_VECTOR]]_vars

\* The task is in the queue of a core that a scheduling IPI has got to or is on its
\* way to, and the thread is not about to overwrite the message.
Announced(t) ==
    \E c \in Cores :
        /\ t \in Queue(c)
        /\ \/ IPI_SCHEDULE_VECTOR \in irr[c]
           \/ icr[Bsp] = [dest |-> c, vector |-> IPI_SCHEDULE_VECTOR] /\ ~crossed

\* "Send scheduling IPI to wake the target core" (driver.rs:445): a task in the
\* queue of a core that an IPI was sent to is taken by it, wherever the core was
\* in its loop, unless the APs have been told to halt.
AnnouncedTaskRuns ==
    \A t \in Tasks : Announced(t) ~> state[t] = "taken" \/ (ap_halt /\ home[t] # 0)

\* An AP with an interrupt pending after AP_HALT was stored halts: it looks at
\* the flag after every interrupt and cannot go to sleep on a pending one
\* (driver.rs:99-110).
HaltsWhenWoken ==
    \A a \in Aps : ap_halt /\ irr[a] # {} ~> pc[a] = "halted"
=============================================================================
