--------------------------- MODULE SpinLockProofs ---------------------------
(***************************************************************************)
(* SpinLock for any number of cores and locks: with guards dropped in the  *)
(* reverse order of their acquisition, the lock keeps the three promises   *)
(* of its documentation (spinlock.rs:166-169) under every interrupt        *)
(* schedule.  Without that hypothesis only exclusion remains.              *)
(***************************************************************************)
EXTENDS SpinLock, TLAPS

IInv ==
    /\ TypeOK
    /\ HeldIsLocked
    /\ GuardExclusive
    /\ ArgAbove
    /\ SuspendedOutside
    /\ FlagFollows
    /\ WasIsOutermost
    /\ SavedIsOutermost

\* The two contexts of a core are told apart by IsIrq alone.
LEMMA ContextFacts ==
    /\ \A p \in Contexts : Cpu(p) \in Cpus /\ IsIrq(p) \in BOOLEAN
    /\ \A p, q \in Contexts : Cpu(p) = Cpu(q) /\ IsIrq(p) = IsIrq(q) => p = q
    /\ \A c \in Cpus : /\ Thread(c) \in Contexts /\ Irq(c) \in Contexts
                       /\ Cpu(Thread(c)) = c /\ Cpu(Irq(c)) = c
                       /\ ~IsIrq(Thread(c)) /\ IsIrq(Irq(c))
BY DEF Contexts, Cpu, IsIrq, Thread, Irq

\* At most one context of a core runs.
LEMMA OneRuns ==
    \A p, q \in Contexts : Running(p) /\ Running(q) /\ Cpu(p) = Cpu(q) => p = q
BY ContextFacts DEF Running

\* The inductive invariant holds with every lock free (spinlock.rs:180-185).
LEMMA InitIInv == Init => IInv
<1> SUFFICES ASSUME Init PROVE IInv
    OBVIOUS
<1> USE ContextFacts DEF Init
<1>1. TypeOK
    BY SpinAssumption DEF TypeOK, Labels
<1>2. HeldIsLocked /\ GuardExclusive /\ ArgAbove /\ SavedIsOutermost
    BY DEF HeldIsLocked, GuardExclusive, ArgAbove, SavedIsOutermost
<1>3. SuspendedOutside /\ FlagFollows /\ WasIsOutermost
    BY DEF SuspendedOutside, FlagFollows, WasIsOutermost, Running, Interruptible, Base
<1> QED BY <1>1, <1>2, <1>3 DEF IInv

\* lock() and try_lock() read the flag their guard will restore.
LEMMA ReadFlagsIInv ==
    ASSUME IInv, NEW p \in Contexts, NEW l \in Locks, NEW label \in {"cli", "try_cli"},
           ReadFlags(p, l, label),
           Above(p, l) \/ (label = "try_cli" /\ l \in owns[p])
    PROVE  IInv'
<1> USE ContextFacts DEF IInv, ReadFlags, Goto
<1>1. TypeOK'
    BY DEF TypeOK, Labels
<1>2. HeldIsLocked' /\ GuardExclusive' /\ SavedIsOutermost'
    BY DEF TypeOK, HeldIsLocked, GuardExclusive, SavedIsOutermost, Base
<1>3. ArgAbove'
    BY DEF TypeOK, ArgAbove, Above
<1>4. SuspendedOutside'
    BY DEF TypeOK, SuspendedOutside, Running, Interruptible, Base
<1>5. FlagFollows'
    BY DEF TypeOK, FlagFollows, Running, Interruptible, Base
<1>6. WasIsOutermost'
    BY DEF TypeOK, WasIsOutermost, FlagFollows, Interruptible, Base
<1> QED BY <1>1, <1>2, <1>3, <1>4, <1>5, <1>6

\* cli makes the flag clear wherever a guard may be taken.
LEMMA CliIInv ==
    ASSUME IInv, NEW p \in Contexts, Cli(p)
    PROVE  IInv'
<1> USE ContextFacts DEF IInv, Cli, Goto
<1>1. TypeOK'
    BY DEF TypeOK, Labels
<1>2. HeldIsLocked' /\ GuardExclusive' /\ SavedIsOutermost'
    BY DEF TypeOK, HeldIsLocked, GuardExclusive, SavedIsOutermost, Base
<1>3. ArgAbove' /\ WasIsOutermost'
    BY DEF TypeOK, ArgAbove, Above, WasIsOutermost, Base
<1>4. SuspendedOutside'
    BY DEF TypeOK, SuspendedOutside, Running, Interruptible, Base
<1>5. FlagFollows'
    <2> SUFFICES ASSUME NEW q \in Contexts, Running(q)
                 PROVE  if_flag'[Cpu(q)] = (Interruptible(q)' /\ Base(q)')
        BY DEF FlagFollows, Running
    <2>1. CASE q = p
        BY <2>1 DEF TypeOK, Interruptible, Base
    <2>2. CASE q # p
        BY <2>2, OneRuns DEF TypeOK, FlagFollows, Interruptible, Base
    <2> QED BY <2>1, <2>2
<1> QED BY <1>1, <1>2, <1>3, <1>4, <1>5

\* A winning compare_exchange: the new guard is above the others, so it is
\* the outermost one exactly when there is no other.
LEMMA TakeGuardIInv ==
    ASSUME IInv, NEW p \in Contexts, Running(p), pc[p] \in {"cas", "try_cas"},
           ~locked[arg[p]], TakeGuard(p),
           UNCHANGED <<if_flag, in_irq, arg, was_enabled, outer>>
    PROVE  IInv'
<1> USE ContextFacts DEF IInv, TakeGuard, Goto
<1>1. TypeOK'
    BY DEF TypeOK, Labels
<1>2. Above(p, arg[p]) /\ \A q \in Contexts : arg[p] \notin owns[q]
    BY DEF HeldIsLocked, ArgAbove
<1>3. HeldIsLocked' /\ GuardExclusive'
    BY <1>2 DEF TypeOK, HeldIsLocked, GuardExclusive
<1>4. ArgAbove' /\ WasIsOutermost'
    BY DEF TypeOK, ArgAbove, Above, WasIsOutermost, Base
<1>5. SuspendedOutside'
    BY DEF TypeOK, SuspendedOutside, Running, Interruptible, Base
<1>6. FlagFollows'
    BY DEF TypeOK, FlagFollows, Running, Interruptible, Base
<1>7. SavedIsOutermost'
    <2> SUFFICES ASSUME NEW q \in Contexts, NEW k \in owns'[q]
                 PROVE  saved'[q][k] = ((\A m \in owns'[q] : k <= m) /\ Base(q)')
        BY DEF SavedIsOutermost
    <2>1. CASE q # p
        BY <2>1 DEF TypeOK, SavedIsOutermost, Base
    <2>2. CASE q = p /\ k # arg[p]
        <3>0. owns'[p] = owns[p] \cup {arg[p]}
            BY DEF TypeOK
        <3>1. k \in owns[p] /\ k \in Nat /\ arg[p] \in Nat
            BY <2>2, <3>0, SpinAssumption DEF TypeOK
        <3>4. k <= arg[p]
            BY <1>2, <3>1 DEF Above
        <3>2. (\A m \in owns'[p] : k <= m) <=> (\A m \in owns[p] : k <= m)
            BY <3>1, <3>4 DEF TypeOK
        <3>3. saved'[p][k] = saved[p][k]
            BY <2>2, <3>1 DEF TypeOK
        <3> QED BY <2>2, <3>1, <3>2, <3>3 DEF SavedIsOutermost, Base
    <2>3. CASE q = p /\ k = arg[p]
        <3>1. saved'[p][k] = was_enabled[p]
            BY <2>3 DEF TypeOK
        <3>2. owns'[p] = owns[p] \cup {k}
            BY <2>3 DEF TypeOK
        <3>3. k \in Nat /\ owns[p] \subseteq Nat /\ \A m \in owns[p] : m < k
            BY <1>2, <2>3, SpinAssumption DEF TypeOK, Above
        <3>4. (\A m \in owns'[p] : k <= m) <=> owns[p] = {}
            BY <3>2, <3>3
        <3> QED BY <2>3, <3>1, <3>4 DEF WasIsOutermost, Base
    <2> QED BY <2>1, <2>2, <2>3
<1> QED BY <1>1, <1>3, <1>4, <1>5, <1>6, <1>7

\* A try_lock() that loses goes on to restore the flag.
LEMMA TryLostIInv ==
    ASSUME IInv, NEW p \in Contexts, Running(p), pc[p] = "try_cas", Goto(p, "restore"),
           UNCHANGED <<locked, owns, saved, if_flag, in_irq, arg, was_enabled, outer>>
    PROVE  IInv'
<1> USE ContextFacts DEF IInv, Goto
<1>1. TypeOK'
    BY DEF TypeOK, Labels
<1>2. HeldIsLocked' /\ GuardExclusive' /\ SavedIsOutermost'
    BY DEF TypeOK, HeldIsLocked, GuardExclusive, SavedIsOutermost, Base
<1>3. ArgAbove' /\ WasIsOutermost'
    BY DEF TypeOK, ArgAbove, Above, WasIsOutermost, Base
<1>4. SuspendedOutside' /\ FlagFollows'
    BY DEF TypeOK, SuspendedOutside, FlagFollows, Running, Interruptible, Base
<1> QED BY <1>1, <1>2, <1>3, <1>4

\* Dropping the innermost guard leaves the outermost one outermost; it is
\* both only when it is the last.
LEMMA DropStoreIInv ==
    ASSUME LifoDrops, IInv, NEW p \in Contexts, NEW l \in Locks, DropStore(p, l)
    PROVE  IInv'
<1> USE ContextFacts DEF IInv, DropStore, Goto
<1>1. TypeOK'
    BY DEF TypeOK, Labels
<1>2. HeldIsLocked' /\ GuardExclusive'
    BY DEF TypeOK, HeldIsLocked, GuardExclusive
<1>3. ArgAbove'
    BY DEF TypeOK, ArgAbove, Above
<1>4. SuspendedOutside' /\ FlagFollows'
    BY DEF TypeOK, SuspendedOutside, FlagFollows, Running, Interruptible, Base
<1>5. WasIsOutermost'
    <2>3. l \in Nat /\ owns[p] \subseteq Nat /\ owns'[p] = owns[p] \ {l}
        BY SpinAssumption DEF TypeOK
    <2>1. (\A m \in owns[p] : l <= m) <=> owns'[p] = {}
        <3>1. ASSUME \A m \in owns[p] : l <= m, NEW k \in owns'[p] PROVE FALSE
            BY <2>3, <3>1
        <3>2. ASSUME owns'[p] = {}, NEW m \in owns[p] PROVE l <= m
            BY <2>3, <3>2
        <3> QED BY <3>1, <3>2
    <2>2. was_enabled'[p] = (owns'[p] = {} /\ Base(p)')
        BY <2>1 DEF TypeOK, SavedIsOutermost, Base
    <2> QED BY <2>2 DEF TypeOK, WasIsOutermost, Base
<1>6. SavedIsOutermost'
    <2> SUFFICES ASSUME NEW q \in Contexts, NEW k \in owns'[q]
                 PROVE  saved'[q][k] = ((\A m \in owns'[q] : k <= m) /\ Base(q)')
        BY DEF SavedIsOutermost
    <2>1. CASE q # p
        BY <2>1 DEF TypeOK, SavedIsOutermost, Base
    <2>2. CASE q = p
        <3>1. k \in owns[p] /\ k <= l
            BY <2>2 DEF TypeOK
        <3>2. (\A m \in owns'[p] : k <= m) <=> (\A m \in owns[p] : k <= m)
            BY <3>1 DEF TypeOK
        <3> QED BY <2>2, <3>1, <3>2 DEF SavedIsOutermost, Base
    <2> QED BY <2>1, <2>2
<1> QED BY <1>1, <1>2, <1>3, <1>4, <1>5, <1>6

\* restore_interrupts() enables interrupts only for the last guard.
LEMMA RestoreIInv ==
    ASSUME IInv, NEW p \in Contexts, Restore(p)
    PROVE  IInv'
<1> USE ContextFacts DEF IInv, Restore, Goto
<1>1. TypeOK'
    BY DEF TypeOK, Labels
<1>2. HeldIsLocked' /\ GuardExclusive' /\ SavedIsOutermost'
    BY DEF TypeOK, HeldIsLocked, GuardExclusive, SavedIsOutermost, Base
<1>3. ArgAbove' /\ WasIsOutermost'
    BY DEF TypeOK, ArgAbove, Above, WasIsOutermost, Base
<1>4. SuspendedOutside'
    BY DEF TypeOK, SuspendedOutside, Running, Interruptible, Base
<1>5. FlagFollows'
    <2>1. if_flag'[Cpu(p)] = (owns[p] = {} /\ Base(p))
        BY DEF TypeOK, FlagFollows, WasIsOutermost, Interruptible
    <2> QED BY <2>1, OneRuns DEF TypeOK, FlagFollows, Running, Interruptible, Base
<1> QED BY <1>1, <1>2, <1>3, <1>4, <1>5

\* An interrupt finds the thread of its core outside every critical section.
LEMMA InterruptIInv ==
    ASSUME IInv, NEW c \in Cpus, Interrupt(c)
    PROVE  IInv'
<1> USE ContextFacts DEF IInv, Interrupt
<1>1. TypeOK'
    BY DEF TypeOK
<1>2. HeldIsLocked' /\ GuardExclusive' /\ SavedIsOutermost' /\ ArgAbove' /\ WasIsOutermost'
    BY DEF HeldIsLocked, GuardExclusive, SavedIsOutermost, Base, ArgAbove, Above,
       WasIsOutermost
<1>3. Interruptible(Thread(c)) /\ Base(Thread(c))
    BY DEF TypeOK, FlagFollows, Running
<1>4. SuspendedOutside'
    <2> SUFFICES ASSUME NEW p \in Contexts, ~Running(p)'
                 PROVE  /\ Interruptible(p)'
                        /\ IF IsIrq(p) THEN pc'[p] = "idle" ELSE Base(p)'
        BY DEF SuspendedOutside
    <2>1. CASE Cpu(p) = c
        <3>1. in_irq'[c] = TRUE
            BY DEF TypeOK
        <3>2. ~IsIrq(p)
            BY <2>1, <3>1 DEF Running
        <3>3. p = Thread(c)
            BY <2>1, <3>2
        <3> QED BY <1>3, <3>3 DEF Interruptible, Base
    <2>2. CASE Cpu(p) # c
        BY <2>2 DEF TypeOK, SuspendedOutside, Running, Interruptible, Base
    <2> QED BY <2>1, <2>2
<1>5. FlagFollows'
    BY DEF TypeOK, FlagFollows, SuspendedOutside, Running, Interruptible, Base
<1> QED BY <1>1, <1>2, <1>4, <1>5

\* iretq gives the thread back the enabled flag it was suspended with.
LEMMA IretIInv ==
    ASSUME IInv, NEW c \in Cpus, Iret(c)
    PROVE  IInv'
<1> USE ContextFacts DEF IInv, Iret
<1>1. TypeOK'
    BY DEF TypeOK
<1>2. HeldIsLocked' /\ GuardExclusive' /\ SavedIsOutermost' /\ ArgAbove' /\ WasIsOutermost'
    BY DEF HeldIsLocked, GuardExclusive, SavedIsOutermost, Base, ArgAbove, Above,
       WasIsOutermost
<1>3. SuspendedOutside'
    BY DEF TypeOK, SuspendedOutside, Running, Interruptible, Base
<1>4. FlagFollows'
    BY DEF TypeOK, FlagFollows, SuspendedOutside, Running, Interruptible, Base
<1> QED BY <1>1, <1>2, <1>3, <1>4

\* A thread without guards may set the flag as it likes.
LEMMA SetInterruptsIInv ==
    ASSUME IInv, NEW c \in Cpus, NEW on \in BOOLEAN, SetInterrupts(c, on)
    PROVE  IInv'
<1> USE ContextFacts DEF IInv, SetInterrupts
<1>1. TypeOK'
    BY DEF TypeOK
<1>2. HeldIsLocked' /\ GuardExclusive' /\ ArgAbove'
    BY DEF HeldIsLocked, GuardExclusive, ArgAbove, Above
<1>3. SavedIsOutermost' /\ WasIsOutermost'
    BY DEF TypeOK, SavedIsOutermost, WasIsOutermost, Base
<1>4. SuspendedOutside' /\ FlagFollows'
    BY DEF TypeOK, SuspendedOutside, FlagFollows, Running, Interruptible, Base
<1> QED BY <1>1, <1>2, <1>3, <1>4

\* Every step of every context keeps the inductive invariant.
LEMMA NextIInv ==
    ASSUME LifoDrops PROVE IInv /\ [Next]_vars => IInv'
<1> SUFFICES ASSUME IInv, [Next]_vars PROVE IInv'
    OBVIOUS
<1>1. ASSUME NEW p \in Contexts, NEW l \in Locks, CallLock(p, l) \/ CallTryLock(p, l)
      PROVE IInv'
    BY <1>1, ReadFlagsIInv DEF CallLock, CallTryLock
<1>2. ASSUME NEW p \in Contexts, Cli(p) PROVE IInv'
    BY <1>2, CliIInv
<1>3. ASSUME NEW p \in Contexts, Cas(p) PROVE IInv'
    BY <1>3, TakeGuardIInv DEF Cas
<1>4. ASSUME NEW p \in Contexts, TryCas(p) PROVE IInv'
    BY <1>4, TakeGuardIInv, TryLostIInv DEF TryCas
<1>5. ASSUME NEW p \in Contexts, Restore(p) PROVE IInv'
    BY <1>5, RestoreIInv
<1>6. ASSUME NEW p \in Contexts, DropSome(p) PROVE IInv'
    BY <1>6, DropStoreIInv DEF DropSome
<1>7. ASSUME NEW c \in Cpus, Interrupt(c) PROVE IInv'
    BY <1>7, InterruptIInv
<1>8. ASSUME NEW c \in Cpus, Iret(c) PROVE IInv'
    BY <1>8, IretIInv
<1>9. ASSUME NEW c \in Cpus, NEW on \in BOOLEAN, SetInterrupts(c, on) PROVE IInv'
    BY <1>9, SetInterruptsIInv
<1>10. CASE UNCHANGED vars
    BY <1>10 DEF IInv, vars, TypeOK, HeldIsLocked, GuardExclusive, ArgAbove, Above,
       SuspendedOutside, FlagFollows, WasIsOutermost, SavedIsOutermost, Running,
       Interruptible, Base
<1> QED
    BY <1>1, <1>2, <1>3, <1>4, <1>5, <1>6, <1>7, <1>8, <1>9, <1>10 DEF Next, InCall

\* The inductive invariant holds in every reachable state.
LEMMA AlwaysIInv == ASSUME LifoDrops PROVE Spec => []IInv
BY InitIInv, NextIInv, PTL DEF Spec

-----------------------------------------------------------------------------
(* Types and exclusion need no hypothesis on the order of the drops.       *)

ExclusionInv == TypeOK /\ HeldIsLocked /\ GuardExclusive

\* Every step keeps the part of the invariant that concerns the locks alone.
LEMMA NextExclusionInv == ExclusionInv /\ [Next]_vars => ExclusionInv'
<1> SUFFICES ASSUME ExclusionInv, [Next]_vars PROVE ExclusionInv'
    OBVIOUS
<1> USE ContextFacts DEF ExclusionInv, Goto
<1>1. ASSUME NEW p \in Contexts, NEW l \in Locks, NEW label \in {"cli", "try_cli"},
             ReadFlags(p, l, label)
      PROVE  ExclusionInv'
    BY <1>1 DEF ReadFlags, TypeOK, Labels, HeldIsLocked, GuardExclusive
<1>2. ASSUME NEW p \in Contexts, Cli(p) PROVE ExclusionInv'
    BY <1>2 DEF Cli, TypeOK, Labels, HeldIsLocked, GuardExclusive
<1>3. ASSUME NEW p \in Contexts, ~locked[arg[p]], TakeGuard(p),
             UNCHANGED <<if_flag, in_irq, arg, was_enabled, outer>>
      PROVE  ExclusionInv'
    <2> USE <1>3 DEF TakeGuard
    <2>1. TypeOK'
        BY DEF TypeOK, Labels
    <2>2. \A q \in Contexts : arg[p] \notin owns[q]
        BY DEF HeldIsLocked
    <2>3. HeldIsLocked' /\ GuardExclusive'
        BY <2>2 DEF TypeOK, HeldIsLocked, GuardExclusive
    <2> QED BY <2>1, <2>3
<1>4. ASSUME NEW p \in Contexts, Goto(p, "restore"),
             UNCHANGED <<locked, owns, saved, if_flag, in_irq, arg, was_enabled, outer>>
      PROVE  ExclusionInv'
    BY <1>4 DEF TypeOK, Labels, HeldIsLocked, GuardExclusive
<1>5. ASSUME NEW p \in Contexts, Restore(p) PROVE ExclusionInv'
    BY <1>5 DEF Restore, TypeOK, Labels, HeldIsLocked, GuardExclusive
<1>6. ASSUME NEW p \in Contexts, NEW l \in Locks, DropStore(p, l) PROVE ExclusionInv'
    <2> USE <1>6 DEF DropStore
    <2>1. TypeOK'
        BY DEF TypeOK, Labels
    <2>2. HeldIsLocked' /\ GuardExclusive'
        BY DEF TypeOK, HeldIsLocked, GuardExclusive
    <2> QED BY <2>1, <2>2
<1>7. ASSUME NEW c \in Cpus, Interrupt(c) \/ Iret(c) PROVE ExclusionInv'
    BY <1>7 DEF Interrupt, Iret, TypeOK, HeldIsLocked, GuardExclusive
<1>8. ASSUME NEW c \in Cpus, NEW on \in BOOLEAN, SetInterrupts(c, on)
      PROVE  ExclusionInv'
    BY <1>8 DEF SetInterrupts, TypeOK, HeldIsLocked, GuardExclusive
<1>9. CASE UNCHANGED vars
    BY <1>9 DEF vars, TypeOK, HeldIsLocked, GuardExclusive
<1>10. ASSUME NEW p \in Contexts, InCall(p) PROVE ExclusionInv'
    BY <1>10, <1>2, <1>3, <1>4, <1>5 DEF InCall, Cas, TryCas
<1> QED
    BY <1>1, <1>6, <1>7, <1>8, <1>9, <1>10 DEF Next, CallLock, CallTryLock, DropSome

\* That part holds in every reachable state.
LEMMA AlwaysExclusionInv == Spec => []ExclusionInv
<1>1. Init => ExclusionInv
    BY InitIInv DEF IInv, ExclusionInv
<1> QED BY <1>1, NextExclusionInv, PTL DEF Spec

-----------------------------------------------------------------------------
\* Flags, guards and calls keep their types (spinlock.rs:170-173, 242-245).
THEOREM SpinTypeCorrect == Spec => []TypeOK
<1>1. ExclusionInv => TypeOK
    BY DEF ExclusionInv
<1> QED BY <1>1, AlwaysExclusionInv, PTL

\* A lock has one guard at most, whoever asks, thread or handler, with lock()
\* or try_lock(), and in whatever order guards are dropped (spinlock.rs:188-233).
THEOREM SpinGuardExclusive == Spec => []GuardExclusive
<1>1. ExclusionInv => GuardExclusive
    BY DEF ExclusionInv
<1> QED BY <1>1, AlwaysExclusionInv, PTL

\* Interrupts are off on a core as long as one of its contexts has a guard
\* (spinlock.rs:166).
THEOREM SpinInterruptsOff == ASSUME LifoDrops PROVE Spec => []InterruptsOffWhileHeld
<1>1. IInv => InterruptsOffWhileHeld
    BY DEF IInv, InterruptsOffWhileHeld, SuspendedOutside, FlagFollows, Interruptible
<1> QED BY <1>1, AlwaysIInv, PTL

\* No interrupt handler ever spins on a lock of the thread it suspended
\* (spinlock.rs:168-169).
THEOREM SpinNoSelfDeadlock == ASSUME LifoDrops PROVE Spec => []NoSelfDeadlock
<1>1. IInv => NoSelfDeadlock
    BY ContextFacts DEF IInv, NoSelfDeadlock, SuspendedOutside, Running, Interruptible
<1> QED BY <1>1, AlwaysIInv, PTL

\* After its last guard a context has the interrupt state it had before its
\* first (spinlock.rs:169).
THEOREM SpinPreviousStateRestored ==
    ASSUME LifoDrops PROVE Spec => []PreviousStateRestored
<1>1. IInv => PreviousStateRestored
    BY DEF IInv, PreviousStateRestored, FlagFollows, Interruptible, Base, TypeOK
<1> QED BY <1>1, AlwaysIInv, PTL
=============================================================================
