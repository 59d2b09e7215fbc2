------------------------------ MODULE TaskPool ------------------------------
(***************************************************************************)
(* What the scheduler promises its caller, without queues, counters, locks *)
(* or stealing: a task that is ready is handed to exactly one core, and    *)
(* only to a core that has none.                                           *)
(***************************************************************************)
CONSTANTS
    Cores, Tasks,
    None           \* no task

VARIABLES
    fresh,         \* tasks created and not yet spawned
    ready,         \* tasks the scheduler is in charge of
    blocked,       \* tasks parked by their owner
    running        \* the task of each core, or None

vars == <<fresh, ready, blocked, running>>

Init ==
    /\ fresh = Tasks
    /\ ready = {}
    /\ blocked = {}
    /\ running = [c \in Cores |-> None]

Spawn(t) ==
    /\ t \in fresh
    /\ fresh' = fresh \ {t}
    /\ ready' = ready \cup {t}
    /\ UNCHANGED <<blocked, running>>

Wake(t) ==
    /\ t \in blocked
    /\ blocked' = blocked \ {t}
    /\ ready' = ready \cup {t}
    /\ UNCHANGED <<fresh, running>>

Dispatch(c, t) ==
    /\ running[c] = None
    /\ t \in ready
    /\ ready' = ready \ {t}
    /\ running' = [running EXCEPT ![c] = t]
    /\ UNCHANGED <<fresh, blocked>>

Preempt(c) ==
    /\ running[c] # None
    /\ ready' = ready \cup {running[c]}
    /\ running' = [running EXCEPT ![c] = None]
    /\ UNCHANGED <<fresh, blocked>>

Block(c) ==
    /\ running[c] # None
    /\ blocked' = blocked \cup {running[c]}
    /\ running' = [running EXCEPT ![c] = None]
    /\ UNCHANGED <<fresh, ready>>

Next ==
    \/ \E t \in Tasks : Spawn(t) \/ Wake(t)
    \/ \E c \in Cores : Preempt(c) \/ Block(c) \/ \E t \in Tasks : Dispatch(c, t)

Spec == Init /\ [][Next]_vars
=============================================================================
