----------------------------- MODULE TicketLock -----------------------------
(***************************************************************************)
(* TicketLock<T> of src/src/spinlock.rs: two u64 counters, one fetch_add   *)
(* to take a ticket and a spin until the ticket is served, plus the        *)
(* non-blocking try_lock (two loads and a compare_exchange) and is_locked  *)
(* (two loads).  Each atomic access of the code is one step here.          *)
(*                                                                         *)
(* The protected value is a counter that every holder reads and writes     *)
(* back incremented in two steps, as `*guard += 1` does through DerefMut.  *)
(***************************************************************************)
EXTENDS Naturals, Sequences

CONSTANTS
    Threads,       \* the threads (cores) sharing the lock
    MaxTicket      \* bound on next_ticket: u64::MAX in the code

ASSUME TicketAssumption == MaxTicket \in Nat

VARIABLES
    next_ticket,   \* AtomicU64: the next ticket to hand out
    now_serving,   \* AtomicU64: the ticket whose owner may enter
    data,          \* the value inside the UnsafeCell
    pc,            \* where each thread is in the lock's code
    ticket,        \* local `ticket` of lock(), `next` of try_lock()
    current,       \* local first load of try_lock() and is_locked()
    seen           \* the holder's copy of data between its load and store

vars == <<next_ticket, now_serving, data, pc, ticket, current, seen>>

-----------------------------------------------------------------------------
(* A guard exists from the moment the lock is won until its drop.          *)
Holding(t) == pc[t] \in {"enter", "update", "drop"}

(* A thread owns its ticket while it spins and while it holds.             *)
HasTicket(t) == pc[t] = "spin" \/ Holding(t)

Free == now_serving = next_ticket

Goto(t, label) == pc' = [pc EXCEPT ![t] = label]

-----------------------------------------------------------------------------
Init ==
    /\ next_ticket = 0
    /\ now_serving = 0
    /\ data = 0
    /\ pc = [t \in Threads |-> "idle"]
    /\ ticket = [t \in Threads |-> 0]
    /\ current = [t \in Threads |-> 0]
    /\ seen = [t \in Threads |-> 0]

\* lock(): next_ticket.fetch_add(1).
LockFetchAdd(t) ==
    /\ pc[t] = "idle"
    /\ next_ticket < MaxTicket
    /\ ticket' = [ticket EXCEPT ![t] = next_ticket]
    /\ next_ticket' = next_ticket + 1
    /\ Goto(t, "spin")
    /\ UNCHANGED <<now_serving, data, current, seen>>

\* Mutant: the spin loop lets every ticket up to the served one through.
LockSpinEarly(t) ==
    /\ pc[t] = "spin"
    /\ ticket[t] <= now_serving + 1
    /\ Goto(t, "enter")
    /\ UNCHANGED <<next_ticket, now_serving, data, ticket, current, seen>>

\* lock(): the load that ends the spin loop; the loads before it change nothing.
LockSpin(t) ==
    /\ pc[t] = "spin"
    /\ now_serving = ticket[t]
    /\ Goto(t, "enter")
    /\ UNCHANGED <<next_ticket, now_serving, data, ticket, current, seen>>

\* try_lock(): now_serving.load.
TryLoadServing(t) ==
    /\ pc[t] = "idle"
    /\ current' = [current EXCEPT ![t] = now_serving]
    /\ Goto(t, "try_next")
    /\ UNCHANGED <<next_ticket, now_serving, data, ticket, seen>>

\* Mutant: try_lock() does not compare its two loads.
TryLoadNextBlind(t) ==
    /\ pc[t] = "try_next"
    /\ ticket' = [ticket EXCEPT ![t] = next_ticket]
    /\ Goto(t, "try_cas")
    /\ UNCHANGED <<next_ticket, now_serving, data, current, seen>>

\* try_lock(): next_ticket.load and the comparison; None when they differ.
TryLoadNext(t) ==
    /\ pc[t] = "try_next"
    /\ ticket' = [ticket EXCEPT ![t] = next_ticket]
    /\ Goto(t, IF current[t] = next_ticket THEN "try_cas" ELSE "idle")
    /\ UNCHANGED <<next_ticket, now_serving, data, current, seen>>

\* Mutant: a plain store where the code has a compare_exchange.
TryStore(t) ==
    /\ pc[t] = "try_cas"
    /\ ticket[t] < MaxTicket
    /\ next_ticket' = ticket[t] + 1
    /\ Goto(t, "enter")
    /\ UNCHANGED <<now_serving, data, ticket, current, seen>>

\* try_lock(): the compare_exchange on next_ticket; None when it fails.
TryCas(t) ==
    /\ pc[t] = "try_cas"
    /\ \/ /\ next_ticket = ticket[t]
          /\ next_ticket < MaxTicket
          /\ next_ticket' = ticket[t] + 1
          /\ Goto(t, "enter")
       \/ /\ next_ticket # ticket[t]
          /\ Goto(t, "idle")
          /\ UNCHANGED next_ticket
    /\ UNCHANGED <<now_serving, data, ticket, current, seen>>

\* Mutant: both operands of != load next_ticket.
IsLockedLoadNextTwice(t) ==
    /\ pc[t] = "idle"
    /\ current' = [current EXCEPT ![t] = next_ticket]
    /\ Goto(t, "is_locked")
    /\ UNCHANGED <<next_ticket, now_serving, data, ticket, seen>>

\* is_locked(): the left operand, now_serving, is loaded first.
IsLockedLoadServing(t) ==
    /\ pc[t] = "idle"
    /\ current' = [current EXCEPT ![t] = now_serving]
    /\ Goto(t, "is_locked")
    /\ UNCHANGED <<next_ticket, now_serving, data, ticket, seen>>

\* is_locked(): next_ticket is loaded and compared with the earlier load.
IsLockedAnswer(t) == current[t] # next_ticket

IsLockedLoadNext(t) ==
    /\ pc[t] = "is_locked"
    /\ Goto(t, "idle")
    /\ UNCHANGED <<next_ticket, now_serving, data, ticket, current, seen>>

\* Deref through the guard.
DerefLoad(t) ==
    /\ pc[t] = "enter"
    /\ seen' = [seen EXCEPT ![t] = data]
    /\ Goto(t, "update")
    /\ UNCHANGED <<next_ticket, now_serving, data, ticket, current>>

\* DerefMut through the guard.
DerefMutStore(t) ==
    /\ pc[t] = "update"
    /\ data' = seen[t] + 1
    /\ Goto(t, "drop")
    /\ UNCHANGED <<next_ticket, now_serving, ticket, current, seen>>

\* Mutant: the release is guarded by "someone else is waiting", so the last
\* holder leaves the lock taken.
DropIfWaiting(t) ==
    /\ pc[t] = "drop"
    /\ now_serving' = IF next_ticket > now_serving + 1
                      THEN now_serving + 1 ELSE now_serving
    /\ Goto(t, "idle")
    /\ UNCHANGED <<next_ticket, data, ticket, current, seen>>

\* Mutant: fetch_sub where the code has fetch_add.
DropSub(t) ==
    /\ pc[t] = "drop"
    /\ now_serving' = now_serving - 1
    /\ Goto(t, "idle")
    /\ UNCHANGED <<next_ticket, data, ticket, current, seen>>

\* drop(): now_serving.fetch_add(1).
Drop(t) ==
    /\ pc[t] = "drop"
    /\ now_serving' = now_serving + 1
    /\ Goto(t, "idle")
    /\ UNCHANGED <<next_ticket, data, ticket, current, seen>>

-----------------------------------------------------------------------------
(* The steps a thread takes without being asked: those of a call it is in. *)
InCall(t) ==
    \/ LockSpin(t) \/ DerefLoad(t) \/ DerefMutStore(t) \/ Drop(t)
    \/ TryLoadNext(t) \/ TryCas(t) \/ IsLockedLoadNext(t)

Next == \E t \in Threads :
    LockFetchAdd(t) \/ TryLoadServing(t) \/ IsLockedLoadServing(t) \/ InCall(t)

\* A core keeps executing the call it is in; nobody has to make a call.
Fairness == \A t \in Threads : WF_vars(InCall(t))

Spec == Init /\ [][Next]_vars
FairSpec == Spec /\ Fairness
-----------------------------------------------------------------------------
Labels == {"idle", "spin", "try_next", "try_cas", "is_locked",
           "enter", "update", "drop"}

\* Counters are naturals below the bound, every local has its type.
TypeOK ==
    /\ next_ticket \in 0..MaxTicket
    /\ now_serving \in Nat
    /\ data \in Nat
    /\ pc \in [Threads -> Labels]
    /\ ticket \in [Threads -> Nat]
    /\ current \in [Threads -> Nat]
    /\ seen \in [Threads -> Nat]

\* At most one guard exists, whether it came from lock() or from try_lock()
\* (spinlock.rs:90-129).
MutualExclusion == \A t, u \in Threads : Holding(t) /\ Holding(u) => t = u

\* The inductive strengthening.  Tickets in circulation lie in the window
\* [now_serving, next_ticket) and are distinct, so the counters name at most
\* one owner of the served ticket; a first load can only be behind.
TicketWindow ==
    /\ now_serving <= next_ticket
    /\ \A t \in Threads : HasTicket(t) =>
           now_serving <= ticket[t] /\ ticket[t] < next_ticket

TicketsDistinct ==
    \A t, u \in Threads :
        HasTicket(t) /\ HasTicket(u) /\ ticket[t] = ticket[u] => t = u

HolderIsServed == \A t \in Threads : Holding(t) => ticket[t] = now_serving

LoadsAreBehind ==
    \A t \in Threads :
        /\ pc[t] \in {"try_next", "try_cas", "is_locked"} =>
               current[t] <= now_serving
        /\ pc[t] = "try_cas" => ticket[t] = current[t]

CopyIsFresh == \A t \in Threads : pc[t] = "update" => seen[t] = data

\* No holder's update of the protected value is lost: it equals the number of
\* released guards, plus the one whose holder has stored and not yet dropped.
NoLostUpdate ==
    data = now_serving + (IF \E t \in Threads : pc[t] = "drop" THEN 1 ELSE 0)

\* When the second load of is_locked() makes it answer false, the lock is free
\* at that instant: nobody holds it and nobody waits (spinlock.rs:132-134).
IsLockedFalseIsTrue ==
    \A t \in Threads :
        pc[t] = "is_locked" /\ ~IsLockedAnswer(t) =>
            \A u \in Threads : ~HasTicket(u)

-----------------------------------------------------------------------------
(* The ticket order as a queue: place i belongs to the owner of ticket     *)
(* now_serving + i - 1.                                                    *)
TicketQueue ==
    [i \in 1..(next_ticket - now_serving) |->
        CHOOSE t \in Threads : HasTicket(t) /\ ticket[t] = now_serving + i - 1]

Fifo == INSTANCE FifoMutex WITH
    queue <- TicketQueue, held <- \E t \in Threads : Holding(t)

\* The lock implements the FIFO mutex: requests are served in ticket order,
\* try_lock never overtakes a waiter, and whoever has a ticket is served.
ImplementsFifoMutex == Fifo!Spec

\* Every thread that has taken a ticket eventually holds the lock.
NoStarvation == \A t \in Threads : pc[t] = "spin" ~> Holding(t)
=============================================================================
