------------------------------ MODULE SpinLock ------------------------------
(***************************************************************************)
(* SpinLock<T> of src/src/spinlock.rs together with the interrupt flag it  *)
(* manipulates.  Every core runs a thread and may be interrupted by a      *)
(* handler that uses the same locks: the two contexts of a core share its  *)
(* RFLAGS.IF, and the thread is suspended while the handler runs.          *)
(*                                                                         *)
(* A context may hold several locks.  Locks are numbered and a context     *)
(* blocks only on a lock above those it holds: the usual discipline        *)
(* against deadly embraces, which no spinlock can provide by itself.       *)
(* Dropping guards in the reverse order is what scopes do; an explicit     *)
(* drop() may come in any order.                                           *)
(***************************************************************************)
EXTENDS Naturals

CONSTANTS
    Cpus,          \* the cores
    Locks,         \* the spinlocks, numbered in their acquisition order
    LifoDrops      \* TRUE: guards are dropped in reverse order of acquisition

ASSUME SpinAssumption ==
    Locks \subseteq Nat /\ Locks # {} /\ LifoDrops \in BOOLEAN

VARIABLES
    locked,        \* the AtomicBool of each lock
    if_flag,       \* RFLAGS.IF of each core
    in_irq,        \* whether the handler has suspended the thread of a core
    pc,            \* where each context is in the lock's code
    arg,           \* the lock of the call a context is in
    was_enabled,   \* local `was_enabled` of the call a context is in
    owns,          \* the locks each context has a guard for
    saved,         \* interrupts_were_enabled of each of those guards
    outer          \* ghost: IF as the thread of a core set it outside guards

vars == <<locked, if_flag, in_irq, pc, arg, was_enabled, owns, saved, outer>>

Contexts == Cpus \X {"thread", "irq"}
Cpu(p) == p[1]
Thread(c) == <<c, "thread">>
Irq(c) == <<c, "irq">>

IsIrq(p) == p[2] = "irq"

\* A suspended thread and an inactive handler execute nothing.
Running(p) == in_irq[Cpu(p)] = IsIrq(p)

\* The interrupt state of a context when it holds no guard.
Base(p) == ~IsIrq(p) /\ outer[Cpu(p)]

Goto(p, label) == pc' = [pc EXCEPT ![p] = label]

Init ==
    /\ locked = [l \in Locks |-> FALSE]
    /\ outer \in [Cpus -> BOOLEAN]
    /\ if_flag = outer
    /\ in_irq = [c \in Cpus |-> FALSE]
    /\ pc = [p \in Contexts |-> "idle"]
    /\ arg = [p \in Contexts |-> CHOOSE l \in Locks : TRUE]
    /\ was_enabled = [p \in Contexts |-> FALSE]
    /\ owns = [p \in Contexts |-> {}]
    /\ saved = [p \in Contexts |-> [l \in Locks |-> FALSE]]
-----------------------------------------------------------------------------
Above(p, l) == \A m \in owns[p] : m < l

\* disable_interrupts(), first half: RFLAGS is read.  An interrupt may still
\* come between this and the cli.
ReadFlags(p, l, label) ==
    /\ Running(p)
    /\ pc[p] = "idle"
    /\ arg' = [arg EXCEPT ![p] = l]
    /\ was_enabled' = [was_enabled EXCEPT ![p] = if_flag[Cpu(p)]]
    /\ Goto(p, label)
    /\ UNCHANGED <<locked, if_flag, in_irq, owns, saved, outer>>

CallLock(p, l) == Above(p, l) /\ ReadFlags(p, l, "cli")

\* try_lock() does not block: asking again for an owned lock is harmless.
CallTryLock(p, l) == (Above(p, l) \/ l \in owns[p]) /\ ReadFlags(p, l, "try_cli")

\* Mutant: the flag is read but never cleared.
CliOmitted(p) ==
    /\ Running(p)
    /\ pc[p] \in {"cli", "try_cli"}
    /\ Goto(p, IF pc[p] = "cli" THEN "cas" ELSE "try_cas")
    /\ UNCHANGED <<locked, if_flag, in_irq, arg, was_enabled, owns, saved, outer>>

\* disable_interrupts(), second half: cli.
Cli(p) ==
    /\ Running(p)
    /\ pc[p] \in {"cli", "try_cli"}
    /\ if_flag' = [if_flag EXCEPT ![Cpu(p)] = FALSE]
    /\ Goto(p, IF pc[p] = "cli" THEN "cas" ELSE "try_cas")
    /\ UNCHANGED <<locked, in_irq, arg, was_enabled, owns, saved, outer>>

\* Mutant: a context keeps one saved flag, that of its newest guard.
TakeGuardOneFlag(p) ==
    /\ locked' = [locked EXCEPT ![arg[p]] = TRUE]
    /\ owns' = [owns EXCEPT ![p] = @ \cup {arg[p]}]
    /\ saved' = [saved EXCEPT ![p] = [l \in {arg[p]} |-> was_enabled[p]]]
    /\ Goto(p, "idle")

\* The guard built when a compare_exchange wins.
TakeGuard(p) ==
    /\ locked' = [locked EXCEPT ![arg[p]] = TRUE]
    /\ owns' = [owns EXCEPT ![p] = @ \cup {arg[p]}]
    /\ saved' = [saved EXCEPT ![p][arg[p]] = was_enabled[p]]
    /\ Goto(p, "idle")

\* Mutant: a load and a store where the code has one compare_exchange.
CasBlind(p) ==
    /\ Running(p)
    /\ pc[p] = "cas"
    /\ TakeGuard(p)
    /\ UNCHANGED <<if_flag, in_irq, arg, was_enabled, outer>>

\* lock(): the compare_exchange that wins; the failed ones and the relaxed
\* loads between them change nothing.
Cas(p) ==
    /\ Running(p)
    /\ pc[p] = "cas"
    /\ ~locked[arg[p]]
    /\ TakeGuard(p)
    /\ UNCHANGED <<if_flag, in_irq, arg, was_enabled, outer>>

\* try_lock(): one compare_exchange; a loser goes on to restore the flag.
TryCas(p) ==
    /\ Running(p)
    /\ pc[p] = "try_cas"
    /\ \/ ~locked[arg[p]] /\ TakeGuard(p)
       \/ locked[arg[p]] /\ Goto(p, "restore") /\ UNCHANGED <<locked, owns, saved>>
    /\ UNCHANGED <<if_flag, in_irq, arg, was_enabled, outer>>

\* drop(): locked.store(false); the flag is restored by the next step.
DropStore(p, l) ==
    /\ Running(p)
    /\ pc[p] = "idle"
    /\ l \in owns[p]
    /\ LifoDrops => \A m \in owns[p] : m <= l
    /\ locked' = [locked EXCEPT ![l] = FALSE]
    /\ owns' = [owns EXCEPT ![p] = @ \ {l}]
    /\ was_enabled' = [was_enabled EXCEPT ![p] = saved[p][l]]
    /\ Goto(p, "restore")
    /\ UNCHANGED <<if_flag, in_irq, arg, saved, outer>>

\* Mutant: the drop enables interrupts whatever their earlier state.
RestoreAlways(p) ==
    /\ Running(p)
    /\ pc[p] = "restore"
    /\ if_flag' = [if_flag EXCEPT ![Cpu(p)] = TRUE]
    /\ Goto(p, "idle")
    /\ UNCHANGED <<locked, in_irq, arg, was_enabled, owns, saved, outer>>

\* restore_interrupts(was_enabled): sti, or nothing.
Restore(p) ==
    /\ Running(p)
    /\ pc[p] = "restore"
    /\ if_flag' = [if_flag EXCEPT ![Cpu(p)] = @ \/ was_enabled[p]]
    /\ Goto(p, "idle")
    /\ UNCHANGED <<locked, in_irq, arg, was_enabled, owns, saved, outer>>

-----------------------------------------------------------------------------
\* The processor delivers an interrupt between two instructions and clears IF.
Interrupt(c) ==
    /\ if_flag[c]
    /\ ~in_irq[c]
    /\ in_irq' = [in_irq EXCEPT ![c] = TRUE]
    /\ if_flag' = [if_flag EXCEPT ![c] = FALSE]
    /\ UNCHANGED <<locked, pc, arg, was_enabled, owns, saved, outer>>

\* iretq: the handler has dropped its guards; the saved RFLAGS had IF set.
Iret(c) ==
    /\ in_irq[c]
    /\ pc[Irq(c)] = "idle"
    /\ owns[Irq(c)] = {}
    /\ in_irq' = [in_irq EXCEPT ![c] = FALSE]
    /\ if_flag' = [if_flag EXCEPT ![c] = TRUE]
    /\ UNCHANGED <<locked, pc, arg, was_enabled, owns, saved, outer>>

\* enable_interrupts() or disable_interrupts() called by a thread that holds
\* no guard.
SetInterrupts(c, on) ==
    /\ ~in_irq[c]
    /\ pc[Thread(c)] = "idle"
    /\ owns[Thread(c)] = {}
    /\ outer' = [outer EXCEPT ![c] = on]
    /\ if_flag' = [if_flag EXCEPT ![c] = on]
    /\ UNCHANGED <<locked, in_irq, pc, arg, was_enabled, owns, saved>>

-----------------------------------------------------------------------------
InCall(p) == Cli(p) \/ Cas(p) \/ TryCas(p) \/ Restore(p)

DropSome(p) == \E l \in Locks : DropStore(p, l)

Next ==
    \/ \E p \in Contexts :
          \/ \E l \in Locks : CallLock(p, l) \/ CallTryLock(p, l)
          \/ InCall(p)
          \/ DropSome(p)
    \/ \E c \in Cpus :
          \/ Interrupt(c)
          \/ Iret(c)
          \/ \E on \in BOOLEAN : SetInterrupts(c, on)

Spec == Init /\ [][Next]_vars
-----------------------------------------------------------------------------
Labels == {"idle", "cli", "try_cli", "cas", "try_cas", "restore"}

\* Flags are Boolean, guards and calls name locks.
TypeOK ==
    /\ locked \in [Locks -> BOOLEAN]
    /\ if_flag \in [Cpus -> BOOLEAN]
    /\ in_irq \in [Cpus -> BOOLEAN]
    /\ pc \in [Contexts -> Labels]
    /\ arg \in [Contexts -> Locks]
    /\ was_enabled \in [Contexts -> BOOLEAN]
    /\ owns \in [Contexts -> SUBSET Locks]
    /\ saved \in [Contexts -> [Locks -> BOOLEAN]]
    /\ outer \in [Cpus -> BOOLEAN]

\* A lock has at most one guard among all contexts of all cores
\* (spinlock.rs:188-233).
GuardExclusive ==
    \A p, q \in Contexts : owns[p] \cap owns[q] # {} => p = q

\* "A spinlock that disables interrupts while held" (spinlock.rs:166).
InterruptsOffWhileHeld ==
    \A p \in Contexts : owns[p] # {} => ~if_flag[Cpu(p)]

\* "This prevents deadlocks from interrupt handlers trying to acquire the
\* same lock" (spinlock.rs:168): no handler spins on its own core's thread.
NoSelfDeadlock ==
    \A c \in Cpus :
        in_irq[c] /\ pc[Irq(c)] = "cas" => arg[Irq(c)] \notin owns[Thread(c)]

\* "Interrupts are restored to their previous state on drop"
\* (spinlock.rs:169): once the last guard is gone and the call is over, the
\* flag of the running context is what it was before the first lock().
PreviousStateRestored ==
    \A p \in Contexts :
        Running(p) /\ pc[p] = "idle" /\ owns[p] = {} =>
            if_flag[Cpu(p)] = Base(p)

-----------------------------------------------------------------------------
(* The inductive strengthening.                                            *)

HeldIsLocked == \A p \in Contexts : \A l \in owns[p] : locked[l]

\* A call asks for a lock above those held, or tries again for one of them.
ArgAbove ==
    \A p \in Contexts :
        /\ pc[p] \in {"cli", "cas"} => Above(p, arg[p])
        /\ pc[p] \in {"try_cli", "try_cas"} => Above(p, arg[p]) \/ arg[p] \in owns[p]

\* Where a context may be interrupted: no guard, and no flag to put back.
Interruptible(p) == owns[p] = {} /\ pc[p] \in {"idle", "cli", "try_cli"}

\* A handler that is not active is nowhere; a thread was suspended with its
\* interrupts enabled, hence outside every critical section.
SuspendedOutside ==
    \A p \in Contexts : ~Running(p) =>
        /\ Interruptible(p)
        /\ IF IsIrq(p) THEN pc[p] = "idle" ELSE Base(p)

\* The flag is the context's own outside and clear everywhere else.
FlagFollows ==
    \A p \in Contexts : Running(p) =>
        if_flag[Cpu(p)] = (Interruptible(p) /\ Base(p))

\* What a call will put back is the base state for the outermost guard and
\* "disabled" for every inner one.
WasIsOutermost ==
    \A p \in Contexts : pc[p] # "idle" => was_enabled[p] = (owns[p] = {} /\ Base(p))

SavedIsOutermost ==
    \A p \in Contexts : \A l \in owns[p] :
        saved[p][l] = ((\A m \in owns[p] : l <= m) /\ Base(p))
=============================================================================
