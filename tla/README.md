# A TLA+ model of smp-nostd

`smp-nostd` brings up the cores of an x86_64 machine without an operating system
below it and gives them locks, per-CPU data and a work-stealing scheduler. This
directory models the parts of it where several cores, or a core and its
interrupt handlers, work on the same words: TLC checks small instances in every
interleaving, and TLAPS proves the central invariants for any number of threads,
cores and tasks.

## 1. The system

| Component | Source | State | Operations | What is hard about it |
|---|---|---|---|---|
| `TicketLock` | `spinlock.rs` 65-160 | `next_ticket`, `now_serving` | `lock`, `try_lock`, `is_locked`, guard drop | two counters read at two moments; everyone waits for everyone before |
| `SpinLock`, interrupt helpers | 14-59, 166-265 | `locked`, the core's IF, the flag each guard saved | `lock`, `try_lock`, drop, `disable/enable/restore_interrupts` | handlers that want the lock their core holds; nested guards |
| `RwLock` | 272-421 | one `u32` | `read`, `try_read`, `write`, `try_write`, drops | compare-and-exchange on an old value; the count meets `WRITER_BIT` |
| `Once` | 428-476 | one `u32` | `call_once`, `is_completed` | losers of the race must wait for the closure |
| Fences | 483-523 | none | | |
| `RunQueue`, `Scheduler` | `scheduler.rs` 242-531 | a locked `VecDeque` and an atomic length per core | `spawn`, `spawn_on_core`, `wake`, `preempt_current`, `schedule`, `block_current` | lengths read without the lock; theft from the back during pops from the front |
| `Task`, `context_switch` | 49-238, 537-601 | a task's registers, stack, state, affinity | `Task::new`, `context_switch` | offsets and registers by hand; interrupts come back half way |
| Per-CPU registry | `percpu.rs` | `PERCPU_ARRAY`, `PERCPU_COUNT`, GS base | `register_percpu`, `get_cpu`, `all_cpus`, `get_current_cpu` | registration takes three visible steps |
| AP trampoline | `trampoline.rs` | one page: code, GDT, `TrampolineData` | `install`, `set_ap_data`, `is_ap_ready`, `wait_ap_ready`; the machine code | one block for all APs, refilled while they start |
| `SmpController` | `driver.rs` | `total_cores`, `APS_BOOTED`, `AP_HALT`, the scheduler | `init`, `boot_aps`, `ap_entry`, `spawn`, `ipi_send`, `route_irq`, `halt_aps` | lost SIPIs, dead APs, timeouts, counts made by two parties; cores that sleep while they are wanted |
| Local APIC | `apic.rs` | device registers | `enable`, `send_ipi`, `eoi`, timer, `calibrate_timer` | an IPI is a wait and two writes |
| I/O APIC | `ioapic.rs` | select, window, redirection entries | `route_irq`, `mask`, `unmask` | select and access are two steps; entries are two words |

**How they interact.** `SmpController::init` filters the MADT, sets up the APICs,
registers the BSP, installs the trampoline and boots one AP after the other:
fill `TrampolineData`, INIT, SIPI, perhaps a second SIPI, spin on `ap_ready`. Each
AP runs the trampoline and `ap_entry`, registers itself and idles. Then a
`Scheduler` is made with one queue per counted core. Each queue is a
`SpinLock<VecDeque<Box<Task>>>`; the scheduler is called from timer interrupts of
every core and from threads that spawn or wake. `spawn_on_core` of the controller
sends an IPI through the registry and the local APIC, which ends the `hlt` of the
idle core; `route_irq` finds the core in the registry and writes an entry of the
I/O APIC that serves the interrupt.

**What makes each part correct.** Locks: exclusion, no lost update, service in
the promised order, and for `SpinLock` interrupts that are off as long as a guard
lives and afterwards what they were. `Once`: one run of the closure, and nobody goes
on before it ends. Scheduler: no task lost or duplicated, lengths that can be
trusted, thieves that leave the front alone, idle cores that find work. Boot: the
APs that start are the ones counted, each on its own stack, with its own index and a
queue. Running system: an interrupt reaches the core it was meant for, and no core
sleeps over it. I/O APIC: a table whose entries change as asked, and no others. Context
switch: a task finds itself as it left itself. The list `hazards` of `PROJECT.json` has each of these at the line where it
could go wrong.

## 2. Modules

| Module | Models |
|---|---|
| `TicketLock` | the lock, one action per atomic access |
| `FifoMutex` | what it promises: a queue of requesters, served in order |
| `SpinLock` | the lock on cores with a thread and an interrupt handler each |
| `RwLock`, `Once` | the lock and the one-shot initializer |
| `Scheduler` | queues, lengths, scans, theft, and the callers' side of spawn, wake, preempt, block |
| `WorkStealing` | `Scheduler` with histories of one core's searches for work |
| `TaskPool` | what it promises: a pool that gives every ready task to one core |
| `Trampoline` | the words of `TrampolineData`, the operations on them, the code's addresses |
| `PerCpu` | the registry's array, count and GS bases |
| `SmpBoot` | composes the two with `init`, `boot_aps` and `ap_entry` |
| `LocalApic` | enable bit, ICR, pending and in-service interrupts, the timer |
| `SmpRun` | composes `LocalApic` and `PerCpu` with the controller's calls and the idle loop |
| `IoApic` | the chips' registers behind select and window, the calls that use them |
| `RoutingTable` | what they promise: one table, entries that change in one step |
| `ContextSwitch` | `CpuContext` and the assembly, instruction by instruction |
| `MC*` | instances for TLC |
| `*Proofs` | the theorems, one module per component; `RwLock` and `Once` share one |

Conventions. `pc[p]` is the place of thread or core `p` in the code it executes; an
action is one access other parties can see together with the local work up to the
next one. A spin loop is the step that leaves it: the loads before change nothing. A
`Mutant` above a definition is a plausible slip of that definition; no
specification uses it. `PROJECT.json` maps every definition to its lines.

**Memory model.** Steps interleave sequentially consistently. All accesses that
matter are atomics whose read-modify-writes are locked instructions on x86, and the
protocols have no store-then-load pattern that a store buffer could reorder. Two
cautions: `is_locked` uses relaxed loads, whose order the compiler may change
(IsLockedFalseIsTrue speaks of the order written), and `cli`/`sti` are marked
`nomem`. `compare_exchange_weak` does not fail spuriously on x86.

### TicketLock
`LockFetchAdd` and `LockSpin` are `lock`; `TryLoadServing`, `TryLoadNext` and
`TryCas` are `try_lock`; `IsLockedLoadServing` and `IsLockedLoadNext` are
`is_locked`. A holder increments the protected value in two steps, `DerefLoad` and
`DerefMutStore`, as `*guard += 1` does, and `Drop` adds to `now_serving`. The
refinement maps the queue of `FifoMutex` to the owners of the tickets from
`now_serving` to `next_ticket - 1`; `try_lock` maps to an acquisition that happens
only on an empty queue.

### SpinLock
A core has two contexts, a thread and a handler; while the handler runs the thread
stands still. `ReadFlags` and `Cli` are the helper `disable_interrupts`, in two
steps because an interrupt may come between them; then `Cas` or `TryCas`,
`DropStore` and `Restore`. `Interrupt` needs IF and clears it, `Iret` sets it.
Threads also turn interrupts on and off outside of critical sections, and `outer`
remembers what they chose. Locks are taken in increasing order, the callers'
discipline against the usual deadlock of two cores. `LifoDrops` says whether guards
are dropped in scope order, the newest first.

### RwLock
A thread may own a read guard per slot. The word has width `WRITER_BIT + 1` and
its additions wrap. The protected value has two words written and read one after
the other, so that a torn read is visible.

### Once
The closure takes `ClosureSteps` steps before its effect is complete; `told` are
the callers whose `call_once`, or whose `is_completed`, has said that it is.

### Scheduler
Taking a queue's SpinLock and changing the `VecDeque` are one step; the update of
the atomic length and the release are the next one: lengths are read
between them (`ScanMin`, `ScanMax`, one core per step). `Steal` takes `StealCount`
tasks from the back, keeps the first in `held` and the rest in `hand`, and pushes
them one by one to its own queue before `schedule` returns. A running task is
preempted and parked by its core; parked tasks are woken by spawners; both hold the
`Box<Task>`, so a task has one owner. `spawn_on_core` and `wake` ignore the
affinity, as in the code. `block_current` schedules without marking the task, as in
the code, whose doc comment says "mark as blocked".

`WorkStealing` adds two histories to it that last as long as one core, `Thief`, is in
`busiest_core` or on its way to the victim: the queues that were long at every
moment of the search, and those that were long at one.

### Trampoline, PerCpu, SmpBoot
The BSP goes through `boot_aps` with one action per store to the block and per
IPI; an AP loads its stack, stores the ready flag, loads its index and calls
`ap_entry`, which registers it and adds to `APS_BOOTED`. `alive` are the APs
that react to a SIPI, chosen freely at the start; the first SIPI may be missed. A
stack is named by the index it was allocated for.

The addresses in the machine code and the place of the GDT are constants.
In the source they are `READY_OPERAND` = 0x18, `INDEX_OPERAND` = 0x14 and
`GDT_DESC_OFFSET` = 0x80, which agree neither with the struct, where `cpu_index` is at
0x18 and `ap_ready` at 0x1C, nor with the length of the code, which ends at 0x9A.
`SmpBoot_asbuilt` is the code as it is: no AP is ever counted. The
run `SmpBoot` takes the values the struct asks for (0x1C, 0x18) and a GDT
behind the code (0xA0), so that it says something about `driver.rs`, which is
independent of the two slips. An AP that reaches an overwritten instruction executes
other bytes; the model lets it go no further.

`LateAnswers` = FALSE assumes that an AP that has received a SIPI signals within the
10^8 spins of `wait_ap_ready`. With TRUE an AP may come after the timeout, and TLC
finds two APs on one stack: the block has been refilled.

### LocalApic, SmpRun
The BSP calibrates, initializes its APIC and its block, and from then on makes calls
of the controller one after the other: `SpawnOnCore` and `Spawn`, `HaltAps`,
`AllCpus`. Under them lie `LookUp` (`get_cpu`), `WaitIcr`, `SendHigh` and `SendLow`,
and `ScanSlot`. An AP enables its APIC, registers in three steps and loops:
`CheckHalt`, `StiHlt`, an interrupt, `ApIret`. `sti` takes effect after the instruction
behind it, so that `sti; hlt` is one step; interrupts are on only in `hlt`. Indices
are distinct, as `driver.rs` means them to be (section 4 tells when they are not).

A task is `queued` by its push and `taken` by the kernel's handler, which is not in the
repository and takes all tasks of its core's queue. A handler of the BSP may call
`spawn_on_core` between any two steps of the thread, those of `send_ipi` included, which
masks nothing; the history `crossed` remembers that one has sent since the thread's
`wait_icr_idle` returned. The hardware's side
is external: a message stays in the ICR until it is accepted, an APIC that is not
enabled takes none, reserved vectors are not sent, equal vectors are one request.

The mode is xAPIC: `LocalApic::new` starts in it, the controller keeps its driver
to itself, and nothing in the crate calls `enable_x2apic`.

The timer's clock ticks during the calibration, up to `MaxTicks`; `MAX_COUNT` is the
width of the counter, and the timer starts from two earlier settings, one periodic
with another divisor.

### IoApic
A call is a sequence of accesses, each a write to `IOREGSEL` and a read or write of
`IOWIN`; an entry is two of them, and `mask_irq` and `unmask_irq` read it, change a bit and
write it back. Words are numbers of which the vector, the mask bit and the
destination byte are used; register numbers are u8. Each pin starts as the firmware
left it, masked or routed to a vector of its own. The driver has no
lock and neither have its actions; `CallersTakeTurns` is a rule for the callers, beside
them in `Next`: with `Serialised`, a call begins when no other one uses a chip that
it needs. The refinement maps
`RoutingTable` to the entries as a device would meet them, a half-written one
counting as written, and to the pins a call has still to come to.

### ContextSwitch
`Code` is the assembly as a sequence of stores, loads and moves with the offsets of
the source, `Layout` the order of the fields. Tasks change their registers at will
and are switched out at any point, from their own code or from a handler, which keeps
the caller's registers in a frame on the task's stack. `op` is the pair of registers
the build chose for `old` and `new`. A jump anywhere but to an entry point or to a
return with a frame is `LOST`.

## 3. Runs

| Run | Instance | Distinct states | Shows |
|---|---|---|---|
| `TicketLock` | 3 threads, 3 tickets | 191,799 | exclusion, no lost update, `is_locked`, FIFO refinement, no starvation |
| `SpinLock` | 2 cores, 2 locks, symmetry | 771,687 | exclusive guards, interrupts off and restored, no self-deadlock |
| `RwLock` | 2 threads, 2 slots, `WRITER_BIT` 3 | 27,296 | exclusion, no torn read, exact count at its limit, a free lock is taken, service |
| `Once` | 3 threads | 126 | one run, complete when told, every call returns |
| `Scheduler` | 2 cores, 1 spawner, 4 tasks, 3 of them pinned | 328,416 | exact lengths, one place per task, front for the owner, pool refinement, the front task runs |
| `Scheduler_steal` | 3 cores, 1 spawner, 4 tasks that do not block, symmetry | 461,180 | a search that fails beside a long queue was misled by another one |
| `Scheduler_affinity` | 2 cores, 2 pinned tasks | | **violation**: a pinned task is stolen |
| `SmpBoot` | BSP, 3 APs, 1 disabled; agreed layout | 17,184 | the alive are counted, own stacks, counts meet |
| `SmpBoot_asbuilt` | the same, layout of the source | | **violation**: an alive AP is not counted |
| `ContextSwitch` | 3 tasks, operands in `rcx` and `rsi` | 216,462 | tasks resume as suspended, start with their argument, no jump astray |
| `IoApic` | 2 callers, chips of 2 and 1 pins, symmetry | 214,698 | the firmware's routes are gone, no line unmasked unasked, table refinement |
| `SmpRun` | BSP, 2 APs, 2 tasks | 277,296 | GS base before handlers, `all_cpus` complete, exact calibration, IPIs as asked, announced tasks run, woken APs halt |

The configurations of `TicketLock`, `SpinLock` and `Scheduler` list `TypeOK`; in
the other modules it describes the state, holds on the same instances, and is left out
of the configurations in favour of properties that say more.

**Bounds.** Three tickets let a thread come back while two others are at any place
of `lock` or `try_lock`. `WRITER_BIT` = 3 with four possible guards makes the count
reach the writer's value. Two locks are what a drop out of order needs. Four tasks on
two cores allow a theft of two, so that a thief pushes while the victim pops, and a
theft of what was just stolen. Pinned tasks are spawned without a scan, which keeps
the instance small, and are alike, so that `FrontTaskRuns` follows one of them and the one
that is not pinned. In `Scheduler_steal`, three cores and
four tasks give a thief two victims that can be long at once, so that one is long throughout
while the other comes and goes: the exception of `ThievesFindWork` occurs. The constraint
`NobodyIsParked` leaves out tasks that block; without it the property holds as well
(4,172,351 states with all tasks pinned), which takes too long for every day. Three APs let one be late in `ap_entry` while a
second is dead and a third is being booted. Two APs let the one of the higher index
register first and be counted by `all_cpus`; four slots leave one that stays empty. Six
ticks run the counter of width five out. Two tasks let a handler's IPI
follow the thread's, to the same core and to another one. Two pins on one chip and one
on the next take `mask_all` from pin to pin and from chip to chip. Three tasks let
a task be resumed after two others have used the registers. `MaxTicket`, `Slots`,
`ClosureSteps`, `MaxTicks`, `MaxWork` and `NobodyIsParked` are the only cut-offs; everything else in the
models is finite by itself.

**Deadlock** is checked except in `TicketLock` (the bound on tickets ends every run), `RwLock`
(a thread that asks to write while it owns a read guard waits for itself, in the
code too) and `SmpBoot` (boot comes to an end).

**Fairness.** A core executes the call it is in (`WF`); nobody has to make a call.
Guards are dropped in the end: `RwLock` asks strong fairness of it, because the owner
may do other things in between. `Scheduler` assumes timer ticks, and strong fairness
for the cores' steps, since a queue's SpinLock is not fair by itself: it is held for a few
instructions and wanted again a tick later. Spawners get `WF` in their calls. No fairness is assumed of spawners making
calls, of interrupts in `SpinLock`, or of APs being alive. In `SmpRun` cores execute, the
thread finishes the call it is in, a message in the ICR is accepted, and the BSP takes an interrupt that waits (`WF`).

**Limits of the liveness results.** That an idle core finds work
in the end beside a long queue does not hold with three cores: another queue that goes up
to the same length and down again can be the victim of every search, and be short each
time. `ThievesFindWork` is what holds of one search, and that exception is part of it.
`FrontTaskRuns` cannot be
strengthened to every ready task: with four tasks TLC finds a behaviour in which two
cores steal a task from each other's back end for ever, each time behind a freshly
woken one. Nothing better than `ServedWhenOthersStop` holds of `RwLock`, whose writers
starve under a stream of readers. `SpinLock` promises no order at all, and no
liveness of it is checked.

## 4. Disagreements found

Two are runs that end in a violation:

1. *Affinity* (`Scheduler_affinity`). `steal_half` does not look at it, against
   `scheduler.rs` 164.
2. *Trampoline layout* (`SmpBoot_asbuilt`). Ready flag and index are one word off, and
   the GDT lies over the code that uses them, against `trampoline.rs` 50.

The others show when a passing run's configuration is changed as said:

3. *Guards dropped out of order*: `SpinLock` with `LifoDrops` = FALSE, `NoSelfDeadlock`.
   Every guard restores the flag of its own `lock` call, so the outer guard's drop
   turns interrupts on while the inner lock is held, against `spinlock.rs` 166-169.
4. *Index after ready*: `SmpBoot` with `IndexIsAssigned`. The AP releases the block
   before it has read it all, against `trampoline.rs` 48.
5. *Queues by number, indices by position*: `SmpBoot` with `EveryCoreHasQueue`. After
   one AP fails, the last core has no queue, against `scheduler.rs` 340.
6. *Interrupts before the jump*: `ContextSwitch` with `InWindow` = TRUE, `NeverLost`.
   `popfq` turns interrupts on for a new task before its entry point has been loaded;
   a switch in the handler overwrites it with the label, and the task returns from an
   empty stack. The contract of `scheduler.rs` 543, interrupts off at the call, does
   not prevent it.
7. *Operands that are overwritten*: `ContextSwitch` with `r12` in `OperandRegs`,
   `NeverLost`. The asm block declares only `rax` and `rdi` as clobbered.
8. *Two cores at one I/O APIC*: `IoApic` with `Serialised` = FALSE,
   `UnmasksOnlyWhenAsked`. One core's select moves the other's window.
9. *A handler between the halves of an IPI*: `SmpRun`, `IpiAsAsked` without its
   disjunct `spc = "icr_low" /\ crossed`. `send_ipi` masks nothing: the thread's message
   goes to the handler's destination, or over the handler's message.
10. *The halt that nobody hears*: `SmpRun`, `ap_halt ~> \A a \in Aps : pc[a] =
    "halted"`. Vector 2 of a fixed IPI is reserved and not sent, where `driver.rs` 526
    says NMI; an AP in `hlt` stays there. What holds is `HaltsWhenWoken`.
11. *Tasks that wake nobody*: `SmpRun`, `state[t] = "queued" ~> state[t] = "taken"`.
    `spawn` sends no IPI, and `spawn_on_core` none to a core that is counted and not
    yet registered.

## 5. Proofs

Each theorem holds for every value of the constants that satisfies the
module's assumption; where it says more, the hypothesis is part of the theorem.

- **TicketLock** (`TicketTypeCorrect`, `TicketMutualExclusion`, `TicketNoLostUpdate`,
  `TicketIsLockedSound`). Exclusion is not inductive: two spinning threads with
  the same ticket would enter together. The invariant adds that tickets in circulation
  lie in `[now_serving, next_ticket)` and are distinct, that the holder's
  ticket is the served one, that earlier loads of `now_serving` are not ahead of it,
  and that a holder's copy of the data is fresh. `try_lock` is then safe because
  its comparison pins `now_serving` between its first load and its exchange.
  `TicketImplementsFifo` is the refinement of `FifoMutex` without its fairness. It needs
  that no ticket of the window is lost, so that the queue of owners has no gap;
  then a ticket taken is an `Append`, a drop is a `Tail`, and everything else leaves
  the queue as it is.
- **SpinLock** (`SpinTypeCorrect`, `SpinGuardExclusive`, and under the hypothesis
  `LifoDrops`: `SpinInterruptsOff`, `SpinNoSelfDeadlock`,
  `SpinPreviousStateRestored`). The invariant says of every guard which flag it has
  saved: the outermost one the flag the program chose, every other one "off"; of a
  suspended thread, that it is at a place where interrupts may be on; and of the
  flag, that it follows from where the running context is. Exclusion needs
  none of it and holds in any order.
- **RwLock** (`RwWriterIsAlone`, `RwStateEncodesGuards`, `RwNoTornRead`). The word equals the number of read guards or `WRITER_BIT`; nobody
  holds an old value equal to `WRITER_BIT`; a reader in the middle of a read owns a
  guard. Cardinality facts come from `FiniteSetTheorems`.
- **Once** (`OnceRunsOnce`, `OnceCompleteWhenTold`). The state word tells the phase:
  who is inside, and how far the closure is. The proofs share a module
  with those of `RwLock`; the two specifications have no variable in common.
- **Scheduler** (`SchedulerTypeCorrect`, `SchedulerLenIsExact`,
  `SchedulerOnlyOwnerTakesFront`, `SchedulerOnePlace`, `SchedulerImplementsTaskPool`,
  `SchedulerThievesFindWork`).
  The holder of a queue's lock is exactly the caller in that queue's critical section,
  and inside the length differs from the queue by what that caller has still to
  add. The action property follows from the arithmetic of half a queue. `OnePlace` needs
  to know of a call what it has in its hands: a task is kept only by a core and only
  between its pop or theft and the return, hands are empty outside of pushes, and a core
  in a call runs nothing, so that no return overwrites a running task. Each action then
  moves the tasks it touches from one place to one other. With `OnePlace` the refinement
  is short: what is neither fresh, parked nor running is ready, and a return that
  carries a task is a dispatch. For `SchedulerThievesFindWork` the invariant follows the
  scan: a queue that has been long throughout is counted as long, because an uncounted
  push was not accepted as the start of being long and every count of a pop or theft leaves
  what the queue has; a scan that has passed such a queue has a victim; and the victim was
  long at some moment of the search.
- **SmpBoot** (`BootStackIsOwn`, `BootNobodyIsCounted`, `BootOperandDecides`). The
  hypothesis of the first, `InTime`, says that no AP is slower than the timeout
  (`LateAnswers` = FALSE) and that the flag is not written over the stack; the layout of
  the source satisfies it, so the stacks are apart there too. The invariant: the block
  names the stack of the AP the loop is at, only that AP is between its SIPI and its
  signal, and a flag that is set was set by it. `BootNobodyIsCounted` is about the code as
  built: as long as the operand of the store is not the offset of `ap_ready`, whatever the
  timing, the flag stays 0 and `total_cores` stays 1. `BootOperandDecides` puts the
  two sides together: at the end of `init` the count is right exactly if the operand is
  the flag's offset or no AP is alive. One half rests on the lemma `AgreedIsCounted`, whose
  invariant adds that the count is the number of alive APs the loop has passed; that half
  needs the code up to the store intact, which the theorem asks only of an
  operand that agrees.
- **SmpRun** (`RunTypeCorrect`, `RunHandlersHaveGsBase`, `RunAllCpusFindsCount`,
  `RunCalibrationIsExact`, `RunIpiAsAsked`). The registry's
  part of the invariant: a block lies in the slot of its core's index, and the count is
  behind the taken slots by the APs between their two stores; `all_cpus` therefore
  never counts a core whose slot it could miss. The timer's part: during the delay it
  counts the clock down from `MAX_COUNT` to zero. The sender's part: from the
  thread's wait on, unless a handler has sent since (`crossed`), the ICR is idle, and between
  the two writes its high half is the call's destination. Nothing is assumed of handlers:
  `send_ipi` waits for itself in them, and their messages are right in any case.
- **IoApic** (`IoApicTypeCorrect`, `IoApicFirmwareIsGone`, and under `Serialised`:
  `IoApicUnmasksOnlyWhenAsked`, `IoApicImplementsRoutingTable`). The invariant: a caller is
  at the pin of its interrupt; before `init` returns, one caller at most is in a call, and
  the pins it has passed are clean; serialised calls have no chip in common, so that
  `IOREGSEL` of a chip in use is the register its caller selected. The refinement adds
  that what `mask_irq` and `unmask_irq` have read is still what the table says when
  they write it back. The assumption on the chips (one chip per interrupt, register
  numbers that fit a u8) is what the MADT and the chips guarantee.
- **ContextSwitch** (`SwitchResumesAsSuspended`, `SwitchNeverLost`). The hypothesis
  `Undisturbed` says that no interrupt hits the code after `popfq` (`InWindow` = FALSE)
  and that `old` and `new` are in no register the code loads before its last use of them;
  points 6 and 7 of section 4 are what happens otherwise. The invariant follows the 23
  instructions: a register still has the old task's value before its store, the field has
  it after; a register has the new context's value after its load; the operands point
  to the two contexts throughout, and every task but the old one is suspended: its context
  is its view of itself, with its entry point or with a return on its stack. At the jump
  the old task is suspended too, and `rax` and `rsp` say which of the two the new one is.

The assumptions are evaluated by TLC on every run. One of them says more than the types
of constants: `BootAssumption` states that the list of enabled APs, a filter over the
MADT, has cores in it and none twice, because the library defines filters recursively.

TLC checks the same properties on the instances above. Left to TLC, because the prover
has no means for them, are the properties with fairness (`ImplementsFifoMutex`,
`NoStarvation`, `ServedWhenOthersStop`, `FreeLockIsTaken`, `CallReturns`, `FrontTaskRuns`,
`CountsMeet`, `AnnouncedTaskRuns`, `HaltsWhenWoken`).

## 6. Not modelled, and the plan

Not modelled: fences and re-exports (no state), logging, allocation failure, the
64-bit wrap of the ticket counters; x2APIC mode, which the controller never enters;
the one-register accessors of the local APIC, whose meaning is the kernel's; polarity,
trigger and delivery mode of a redirection entry; `set_kernel_stack` and the fields of
`PerCpu` that nothing in the crate reads; chips with more than 120 redirection
entries, whose register numbers would not fit the code's u8; handlers that use a
`TicketLock`, `RwLock` or `Once` of their own core, and closures of `Once` that do not
return, which wait for ever by design; the order the compiler gives to `cli` and `sti`,
which are marked `nomem`; the mode switches at the start of the
trampoline, which use nothing that varies.

What would add most next is a composition of the scheduler with
`context_switch`: the code leaves to its user who calls it, with which task, and how a
task's context is reached while the queues are locked.
