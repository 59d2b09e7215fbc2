-------------------------------- MODULE Once --------------------------------
(***************************************************************************)
(* Once of src/src/spinlock.rs: call_once() and is_completed() over one    *)
(* AtomicU32.  The closure takes several steps; what it initialises is     *)
(* complete after the last of them.  Names carry a prefix where those of   *)
(* RwLock, which the proofs have beside this module, would be the same.    *)
(***************************************************************************)
EXTENDS Naturals

CONSTANTS
    Callers,       \* the callers
    ClosureSteps   \* steps the closure takes: unbounded in the code

ASSUME OnceAssumption == ClosureSteps \in Nat \ {0}

ONCE_UNINIT == 0
ONCE_RUNNING == 1
ONCE_DONE == 2

VARIABLES
    once_state,    \* the AtomicU32
    once_pc,       \* where each thread is in call_once()
    effect,        \* steps of the closure whose effect is visible
    told           \* ghost: threads that were told that it is complete

once_vars == <<once_state, once_pc, effect, told>>

OnceGoto(t, label) == once_pc' = [once_pc EXCEPT ![t] = label]

OnceInit ==
    /\ once_state = ONCE_UNINIT
    /\ once_pc = [t \in Callers |-> "idle"]
    /\ effect = 0
    /\ told = {}
-----------------------------------------------------------------------------
\* Returning from call_once() tells the caller that initialisation is over.
Return(t) == OnceGoto(t, "idle") /\ told' = told \cup {t}

\* Mutant: any state but ONCE_UNINIT makes the fast path return.
CallOnceEager(t) ==
    /\ once_pc[t] = "idle"
    /\ IF once_state # ONCE_UNINIT THEN Return(t) ELSE OnceGoto(t, "cas") /\ UNCHANGED told
    /\ UNCHANGED <<once_state, effect>>

\* call_once(): the load of the fast path.
CallOnce(t) ==
    /\ once_pc[t] = "idle"
    /\ IF once_state = ONCE_DONE THEN Return(t) ELSE OnceGoto(t, "cas") /\ UNCHANGED told
    /\ UNCHANGED <<once_state, effect>>

\* Mutant: whoever is not first runs the closure too, unless it is done.
CasLoose(t) ==
    /\ once_pc[t] = "cas"
    /\ IF once_state # ONCE_DONE
       THEN once_state' = ONCE_RUNNING /\ OnceGoto(t, "closure")
       ELSE OnceGoto(t, "wait") /\ UNCHANGED once_state
    /\ UNCHANGED <<effect, told>>

\* call_once(): compare_exchange(ONCE_UNINIT, ONCE_RUNNING).  The loser waits,
\* also when the closure was finished in the meantime.
Cas(t) ==
    /\ once_pc[t] = "cas"
    /\ IF once_state = ONCE_UNINIT
       THEN once_state' = ONCE_RUNNING /\ OnceGoto(t, "closure")
       ELSE OnceGoto(t, "wait") /\ UNCHANGED once_state
    /\ UNCHANGED <<effect, told>>

\* f(): one step of the closure.
RunClosure(t) ==
    /\ once_pc[t] = "closure"
    /\ effect' = effect + 1
    /\ OnceGoto(t, IF effect + 1 < ClosureSteps THEN "closure" ELSE "store")
    /\ UNCHANGED <<once_state, told>>

\* call_once(): state.store(ONCE_DONE) and return.
StoreDone(t) ==
    /\ once_pc[t] = "store"
    /\ once_state' = ONCE_DONE
    /\ Return(t)
    /\ UNCHANGED effect

\* Mutant: the wrong constant in the loop's condition.
WaitUninit(t) ==
    /\ once_pc[t] = "wait"
    /\ once_state = ONCE_UNINIT
    /\ Return(t)
    /\ UNCHANGED <<once_state, effect>>

\* call_once(): the load that ends the spin loop.
Wait(t) ==
    /\ once_pc[t] = "wait"
    /\ once_state = ONCE_DONE
    /\ Return(t)
    /\ UNCHANGED <<once_state, effect>>

\* is_completed() answers true; false tells nothing and changes nothing.
IsCompleted(t) ==
    /\ once_pc[t] = "idle"
    /\ once_state = ONCE_DONE
    /\ told' = told \cup {t}
    /\ UNCHANGED <<once_state, once_pc, effect>>
-----------------------------------------------------------------------------
InCallOnce(t) == Cas(t) \/ RunClosure(t) \/ StoreDone(t) \/ Wait(t)

OnceNext == \E t \in Callers : CallOnce(t) \/ IsCompleted(t) \/ InCallOnce(t)

\* A core executes the call it is in; the closure neither panics nor calls
\* the same Once.
OnceFairness == \A t \in Callers : WF_once_vars(InCallOnce(t))

OnceSpec == OnceInit /\ [][OnceNext]_once_vars
OnceFairSpec == OnceSpec /\ OnceFairness
-----------------------------------------------------------------------------
OnceLabels == {"idle", "cas", "closure", "store", "wait"}

\* The state is one of three; the closure's steps are counted up to its last.
OnceTypeOK ==
    /\ once_state \in {ONCE_UNINIT, ONCE_RUNNING, ONCE_DONE}
    /\ once_pc \in [Callers -> OnceLabels]
    /\ effect \in 0..ClosureSteps
    /\ told \subseteq Callers

\* "Ensures a closure runs exactly once, even under concurrent access"
\* (spinlock.rs:434): one thread at most is in it, it is never entered again,
\* and the effect is that of one run.
Inside(t) == once_pc[t] \in {"closure", "store"}

RunsOnce ==
    /\ \A t, u \in Callers : Inside(t) /\ Inside(u) => t = u
    /\ \A t \in Callers : once_pc[t] = "closure" => effect < ClosureSteps

\* Whoever call_once() returned to, or is_completed() answered true to, sees
\* the whole effect of the closure (spinlock.rs:447-476).
CompleteWhenTold == told # {} => effect = ClosureSteps

\* The inductive strengthening: the three states of the word say who is where.
StateTellsPhase ==
    /\ once_state = ONCE_UNINIT => effect = 0 /\ \A t \in Callers : ~Inside(t)
    /\ once_state = ONCE_RUNNING => \E t \in Callers : Inside(t)
    /\ once_state = ONCE_DONE => effect = ClosureSteps /\ \A t \in Callers : ~Inside(t)
    /\ \A t \in Callers : once_pc[t] = "store" => effect = ClosureSteps
    /\ told # {} => once_state = ONCE_DONE

\* Every call_once() returns, the losers of the race included.
CallReturns == \A t \in Callers : once_pc[t] # "idle" ~> once_pc[t] = "idle"
=============================================================================
