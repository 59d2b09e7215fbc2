----------------------------- MODULE FifoMutex ------------------------------
(***************************************************************************)
(* What the crate promises of its fair lock: "waiters acquire the lock in  *)
(* the order they requested it" (src/src/spinlock.rs:67).  The state is    *)
(* one queue: its head is being served, the rest wait in arrival order.    *)
(***************************************************************************)
EXTENDS Sequences

CONSTANT Threads   \* the threads that may ask for the lock

VARIABLES
    queue,         \* threads that own a place, in the order they got it
    held           \* whether the head of the queue has entered

vars == <<queue, held>>

Queued(t) == \E i \in DOMAIN queue : queue[i] = t

Init ==
    /\ queue = <<>>
    /\ held = FALSE

\* A thread joins at the back and will wait for its turn.
Request(t) ==
    /\ ~Queued(t)
    /\ queue' = Append(queue, t)
    /\ UNCHANGED held

\* A thread that does not want to wait is let in only past an empty queue.
TryAcquire(t) ==
    /\ queue = <<>>
    /\ queue' = <<t>>
    /\ held' = TRUE

\* Only the head may enter.
Enter(t) ==
    /\ queue # <<>>
    /\ Head(queue) = t
    /\ ~held
    /\ held' = TRUE
    /\ UNCHANGED queue

\* Only the head, once inside, may leave.
Release(t) ==
    /\ held
    /\ Head(queue) = t
    /\ queue' = Tail(queue)
    /\ held' = FALSE

Next == \E t \in Threads : Request(t) \/ TryAcquire(t) \/ Enter(t) \/ Release(t)

Fairness == \A t \in Threads : WF_vars(Enter(t)) /\ WF_vars(Release(t))

Safety == Init /\ [][Next]_vars

Spec == Safety /\ Fairness
=============================================================================
