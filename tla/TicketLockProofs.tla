-------------------------- MODULE TicketLockProofs --------------------------
(***************************************************************************)
(* TicketLock for any set of threads and any bound on the counters: type   *)
(* correctness, mutual exclusion, no lost update, the soundness of a       *)
(* negative is_locked() answer, and the order in which threads are served. *)
(***************************************************************************)
EXTENDS TicketLock, SequenceTheorems, TLAPS

IInv ==
    /\ TypeOK
    /\ TicketWindow
    /\ TicketsDistinct
    /\ HolderIsServed
    /\ LoadsAreBehind
    /\ CopyIsFresh
    /\ NoLostUpdate

\* The inductive invariant holds in a new lock (spinlock.rs:81-87).
LEMMA InitIInv == Init => IInv
BY TicketAssumption DEF Init, IInv, TypeOK, Labels, TicketWindow, TicketsDistinct,
   HolderIsServed, LoadsAreBehind, CopyIsFresh, NoLostUpdate, HasTicket, Holding

\* Two guards would own the same served ticket.
LEMMA ExclusionFromIInv == IInv => MutualExclusion
BY DEF IInv, TicketsDistinct, HolderIsServed, MutualExclusion, HasTicket, Holding

\* Every step of every thread keeps the inductive invariant.
LEMMA NextIInv == IInv /\ [Next]_vars => IInv'
<1> SUFFICES ASSUME IInv, [Next]_vars PROVE IInv'
    OBVIOUS
<1> USE DEF Goto, HasTicket, Holding, Labels
<1>m. MutualExclusion
    BY ExclusionFromIInv
<1>1. ASSUME NEW t \in Threads, LockFetchAdd(t) PROVE IInv'
    <2> USE <1>1, TicketAssumption DEF IInv, LockFetchAdd, TypeOK
    <2>1. TypeOK'
        OBVIOUS
    <2>2. TicketWindow'
        BY DEF TicketWindow
    <2>3. TicketsDistinct'
        BY DEF TicketWindow, TicketsDistinct
    <2>4. HolderIsServed' /\ LoadsAreBehind' /\ CopyIsFresh' /\ NoLostUpdate'
        BY DEF HolderIsServed, LoadsAreBehind, CopyIsFresh, NoLostUpdate
    <2> QED BY <2>1, <2>2, <2>3, <2>4
<1>2. ASSUME NEW t \in Threads, LockSpin(t) PROVE IInv'
    BY <1>2 DEF IInv, LockSpin, TypeOK, TicketWindow, TicketsDistinct,
       HolderIsServed, LoadsAreBehind, CopyIsFresh, NoLostUpdate
<1>3. ASSUME NEW t \in Threads, TryLoadServing(t) PROVE IInv'
    BY <1>3 DEF IInv, TryLoadServing, TypeOK, TicketWindow, TicketsDistinct,
       HolderIsServed, LoadsAreBehind, CopyIsFresh, NoLostUpdate
<1>4. ASSUME NEW t \in Threads, TryLoadNext(t) PROVE IInv'
    BY <1>4 DEF IInv, TryLoadNext, TypeOK, TicketWindow, TicketsDistinct,
       HolderIsServed, LoadsAreBehind, CopyIsFresh, NoLostUpdate
<1>5. ASSUME NEW t \in Threads, TryCas(t) PROVE IInv'
    <2>1. CASE next_ticket = ticket[t]
        \* The first load was behind now_serving, which is behind
        \* next_ticket: equality at both ends means the lock is free.
        <3> USE <1>5, <2>1, TicketAssumption DEF IInv, TryCas, TypeOK
        <3>1. now_serving = next_ticket
            BY DEF TicketWindow, LoadsAreBehind
        <3>2. \A u \in Threads : ~HasTicket(u)
            BY <3>1 DEF TicketWindow
        <3>3. TypeOK' /\ TicketWindow' /\ TicketsDistinct'
            BY <3>1, <3>2 DEF TicketWindow, TicketsDistinct
        <3>4. HolderIsServed' /\ LoadsAreBehind' /\ CopyIsFresh' /\ NoLostUpdate'
            BY <3>1, <3>2 DEF HolderIsServed, LoadsAreBehind, CopyIsFresh,
               NoLostUpdate
        <3> QED BY <3>3, <3>4
    <2>2. CASE next_ticket # ticket[t]
        BY <1>5, <2>2 DEF IInv, TryCas, TypeOK, TicketWindow, TicketsDistinct,
           HolderIsServed, LoadsAreBehind, CopyIsFresh, NoLostUpdate
    <2> QED BY <2>1, <2>2
<1>6. ASSUME NEW t \in Threads, IsLockedLoadServing(t) PROVE IInv'
    BY <1>6 DEF IInv, IsLockedLoadServing, TypeOK, TicketWindow, TicketsDistinct,
       HolderIsServed, LoadsAreBehind, CopyIsFresh, NoLostUpdate
<1>7. ASSUME NEW t \in Threads, IsLockedLoadNext(t) PROVE IInv'
    BY <1>7 DEF IInv, IsLockedLoadNext, TypeOK, TicketWindow, TicketsDistinct,
       HolderIsServed, LoadsAreBehind, CopyIsFresh, NoLostUpdate
<1>8. ASSUME NEW t \in Threads, DerefLoad(t) PROVE IInv'
    BY <1>8 DEF IInv, DerefLoad, TypeOK, TicketWindow, TicketsDistinct,
       HolderIsServed, LoadsAreBehind, CopyIsFresh, NoLostUpdate
<1>9. ASSUME NEW t \in Threads, DerefMutStore(t) PROVE IInv'
    <2> USE <1>9 DEF IInv, DerefMutStore, TypeOK
    <2>1. \A u \in Threads : Holding(u) => u = t
        BY <1>m DEF MutualExclusion
    <2>2. TypeOK' /\ TicketWindow' /\ TicketsDistinct'
        BY DEF TicketWindow, TicketsDistinct
    <2>3. HolderIsServed' /\ LoadsAreBehind' /\ CopyIsFresh'
        BY <2>1 DEF HolderIsServed, LoadsAreBehind, CopyIsFresh
    <2>4. NoLostUpdate'
        BY <2>1 DEF CopyIsFresh, NoLostUpdate
    <2> QED BY <2>2, <2>3, <2>4
<1>10. ASSUME NEW t \in Threads, Drop(t) PROVE IInv'
    <2> USE <1>10 DEF IInv, Drop, TypeOK
    <2>1. \A u \in Threads : Holding(u) => u = t
        BY <1>m DEF MutualExclusion
    <2>2. \A u \in Threads : HasTicket(u) /\ u # t => now_serving < ticket[u]
        BY DEF TicketWindow, TicketsDistinct, HolderIsServed
    <2>3. TypeOK' /\ TicketWindow' /\ TicketsDistinct'
        BY <2>2 DEF TicketWindow, TicketsDistinct, HolderIsServed
    <2>4. HolderIsServed' /\ LoadsAreBehind' /\ CopyIsFresh'
        BY <2>1 DEF HolderIsServed, LoadsAreBehind, CopyIsFresh
    <2>5. NoLostUpdate'
        BY <2>1 DEF NoLostUpdate
    <2> QED BY <2>3, <2>4, <2>5
<1>11. CASE UNCHANGED vars
    BY <1>11 DEF IInv, vars, TypeOK, TicketWindow, TicketsDistinct,
       HolderIsServed, LoadsAreBehind, CopyIsFresh, NoLostUpdate
<1> QED
    BY <1>1, <1>2, <1>3, <1>4, <1>5, <1>6, <1>7, <1>8, <1>9, <1>10, <1>11
    DEF Next, InCall

\* The inductive invariant holds in every reachable state.
LEMMA AlwaysIInv == Spec => []IInv
BY InitIInv, NextIInv, PTL DEF Spec

\* Counters and locals keep their types (spinlock.rs:70-74).
THEOREM TicketTypeCorrect == Spec => []TypeOK
<1>1. IInv => TypeOK
    BY DEF IInv
<1> QED BY <1>1, AlwaysIInv, PTL

\* At most one TicketLockGuard exists at a time, for any number of threads
\* mixing lock() and try_lock() (spinlock.rs:90-129).
THEOREM TicketMutualExclusion == Spec => []MutualExclusion
BY ExclusionFromIInv, AlwaysIInv, PTL

\* No update made through a guard is ever lost (spinlock.rs:142-160).
THEOREM TicketNoLostUpdate == Spec => []NoLostUpdate
<1>1. IInv => NoLostUpdate
    BY DEF IInv
<1> QED BY <1>1, AlwaysIInv, PTL

\* A false answer of is_locked() is right when it is given (spinlock.rs:132-134).
THEOREM TicketIsLockedSound == Spec => []IsLockedFalseIsTrue
<1>1. IInv => IsLockedFalseIsTrue
    BY DEF IInv, TypeOK, IsLockedFalseIsTrue, IsLockedAnswer, TicketWindow,
       LoadsAreBehind, HasTicket, Holding
<1> QED BY <1>1, AlwaysIInv, PTL
-----------------------------------------------------------------------------
(* The order of service                                                    *)

Owns(t, n) == HasTicket(t) /\ ticket[t] = n

\* No ticket of the window is lost: somebody waits with it or is being served.
TicketsOwned ==
    \A n \in Nat : now_serving <= n /\ n < next_ticket => \E t \in Threads : Owns(t, n)

\* Who owns which ticket, from one step to the next.
SameOwners == \A u \in Threads : \A n \in Nat : Owns(u, n)' <=> Owns(u, n)

\* The steps that take no ticket and release none (spinlock.rs:90-160).
LEMMA OwnersStay ==
    ASSUME IInv, NEW t \in Threads,
           \/ LockSpin(t) \/ TryLoadServing(t) \/ TryLoadNext(t) \/ IsLockedLoadServing(t)
           \/ IsLockedLoadNext(t) \/ DerefLoad(t) \/ DerefMutStore(t)
           \/ TryCas(t) /\ next_ticket # ticket[t]
    PROVE  SameOwners /\ UNCHANGED <<next_ticket, now_serving>>
<1> USE DEF Owns, HasTicket, Holding, Goto, IInv, TypeOK, SameOwners
<1>1. CASE LockSpin(t)
    BY <1>1 DEF LockSpin
<1>2. CASE TryLoadServing(t) \/ IsLockedLoadServing(t) \/ IsLockedLoadNext(t)
    BY <1>2 DEF TryLoadServing, IsLockedLoadServing, IsLockedLoadNext
<1>3. CASE TryLoadNext(t)
    BY <1>3 DEF TryLoadNext
<1>4. CASE DerefLoad(t) \/ DerefMutStore(t)
    BY <1>4 DEF DerefLoad, DerefMutStore
<1>5. CASE TryCas(t) /\ next_ticket # ticket[t]
    BY <1>5 DEF TryCas
<1> QED BY <1>1, <1>2, <1>3, <1>4, <1>5

\* The new ticket is the thread's that took it (spinlock.rs:92, 117-127).
LEMMA OwnerAdded ==
    ASSUME IInv, NEW t \in Threads,
           LockFetchAdd(t) \/ (TryCas(t) /\ next_ticket = ticket[t])
    PROVE  /\ now_serving' = now_serving /\ next_ticket' = next_ticket + 1
           /\ ~HasTicket(t) /\ HasTicket(t)' /\ ticket'[t] = next_ticket
           /\ \A u \in Threads : \A n \in Nat : n # next_ticket => (Owns(u, n)' <=> Owns(u, n))
<1> USE DEF Owns, HasTicket, Holding, Goto, IInv, TypeOK
<1>1. CASE LockFetchAdd(t)
    BY <1>1 DEF LockFetchAdd
<1>2. CASE TryCas(t) /\ next_ticket = ticket[t]
    BY <1>2 DEF TryCas
<1> QED BY <1>1, <1>2

\* drop() gives up the ticket that is served, and no other (spinlock.rs:155-160).
LEMMA OwnerGone ==
    ASSUME IInv, NEW t \in Threads, Drop(t)
    PROVE  /\ now_serving' = now_serving + 1 /\ next_ticket' = next_ticket
           /\ Owns(t, now_serving)
           /\ \A u \in Threads : \A n \in Nat : n # now_serving => (Owns(u, n)' <=> Owns(u, n))
BY DEF Owns, HasTicket, Holding, Goto, IInv, TypeOK, Drop, HolderIsServed

\* The tickets of the window have owners at first and after every step.
LEMMA AlwaysOwned == Spec => []TicketsOwned
<1>1. Init => TicketsOwned
    BY DEF Init, TicketsOwned
<1>2. ASSUME IInv, TicketsOwned, [Next]_vars PROVE TicketsOwned'
    <2>0. next_ticket \in Nat /\ now_serving \in Nat
        BY <1>2, TicketAssumption DEF IInv, TypeOK
    <2>1. CASE SameOwners /\ UNCHANGED <<next_ticket, now_serving>>
        BY <1>2, <2>1 DEF TicketsOwned, SameOwners
    <2>2. ASSUME NEW t \in Threads, LockFetchAdd(t) \/ (TryCas(t) /\ next_ticket = ticket[t])
          PROVE  TicketsOwned'
        <3> SUFFICES ASSUME NEW n \in Nat, now_serving' <= n, n < next_ticket'
                     PROVE  \E u \in Threads : Owns(u, n)'
            BY DEF TicketsOwned
        <3>1. CASE n = next_ticket
            BY <1>2, <2>2, <3>1, OwnerAdded DEF Owns
        <3>2. CASE n # next_ticket
            <4>1. now_serving <= n /\ n < next_ticket
                BY <1>2, <2>0, <2>2, <3>2, OwnerAdded
            <4>2. PICK u \in Threads : Owns(u, n)
                BY <1>2, <4>1 DEF TicketsOwned
            <4> QED BY <1>2, <2>2, <3>2, <4>2, OwnerAdded
        <3> QED BY <3>1, <3>2
    <2>3. ASSUME NEW t \in Threads, Drop(t) PROVE TicketsOwned'
        <3> SUFFICES ASSUME NEW n \in Nat, now_serving' <= n, n < next_ticket'
                     PROVE  \E u \in Threads : Owns(u, n)'
            BY DEF TicketsOwned
        <3>1. now_serving <= n /\ n < next_ticket /\ n # now_serving
            BY <1>2, <2>0, <2>3, OwnerGone
        <3>2. PICK u \in Threads : Owns(u, n)
            BY <1>2, <3>1 DEF TicketsOwned
        <3> QED BY <1>2, <2>3, <3>1, <3>2, OwnerGone
    <2>4. CASE UNCHANGED vars
        BY <1>2, <2>4 DEF vars, TicketsOwned, Owns, HasTicket, Holding
    <2> QED BY <1>2, <2>1, <2>2, <2>3, <2>4, OwnersStay DEF Next, InCall
<1> QED BY <1>1, <1>2, AlwaysIInv, PTL DEF Spec

\* What the queue is: place i is the owner's of ticket now_serving + i - 1.
QueueIsOwners ==
    /\ TicketQueue \in Seq(Threads)
    /\ Len(TicketQueue) = next_ticket - now_serving
    /\ \A i \in 1..Len(TicketQueue) : \A t \in Threads :
          TicketQueue[i] = t <=> Owns(t, now_serving + i - 1)

\* The served tickets in order, each with one owner.
LEMMA QueueFacts == IInv /\ TicketsOwned => QueueIsOwners
<1> SUFFICES ASSUME IInv, TicketsOwned PROVE QueueIsOwners
    OBVIOUS
<1> DEFINE len == next_ticket - now_serving
           owner(i) == CHOOSE t \in Threads : Owns(t, now_serving + i - 1)
<1>1. len \in Nat /\ now_serving \in Nat /\ next_ticket \in Nat
    BY TicketAssumption DEF IInv, TypeOK, TicketWindow
<1>2. ASSUME NEW i \in 1..len, NEW t \in Threads
      PROVE  owner(i) \in Threads /\ (owner(i) = t <=> Owns(t, now_serving + i - 1))
    <2>1. now_serving + i - 1 \in Nat /\ now_serving <= now_serving + i - 1
          /\ now_serving + i - 1 < next_ticket
        BY <1>1
    <2> DEFINE n == now_serving + i - 1
    <2> HIDE DEF n
    <2>2. \E u \in Threads : Owns(u, n)
        BY <2>1 DEF TicketsOwned, n
    <2>3. owner(i) \in Threads /\ Owns(owner(i), n)
        BY <2>2 DEF n
    <2>4. \A u, v \in Threads : Owns(u, n) /\ Owns(v, n) => u = v
        BY DEF Owns, IInv, TicketsDistinct
    <2> HIDE DEF owner
    <2>5. owner(i) = t <=> Owns(t, n)
        BY <2>3, <2>4
    <2> QED BY <2>3, <2>5 DEF n
<1>3. TicketQueue = [i \in 1..len |-> owner(i)]
    BY DEF TicketQueue, Owns
<1>4. \A i \in 1..len : owner(i) \in Threads
    <2>1. ASSUME NEW i \in 1..len PROVE \E u \in Threads : TRUE
        <3>1. now_serving \in Nat /\ now_serving <= now_serving /\ now_serving < next_ticket
            BY <1>1, <2>1
        <3> QED BY <3>1 DEF TicketsOwned
    <2> QED BY <1>2, <2>1
<1> HIDE DEF owner, len
<1>5. TicketQueue \in Seq(Threads) /\ Len(TicketQueue) = len
    BY <1>1, <1>3, <1>4
<1>6. \A i \in 1..len : TicketQueue[i] = owner(i)
    BY <1>3
<1> QED BY <1>2, <1>5, <1>6 DEF QueueIsOwners, len

\* ... and in the next state.
LEMMA QueueFactsNext == IInv' /\ TicketsOwned' => QueueIsOwners'
BY QueueFacts, PTL

\* Steps that leave the tickets alone leave the queue alone.
LEMMA QueueStays ==
    ASSUME IInv, TicketsOwned, QueueIsOwners', SameOwners, UNCHANGED <<next_ticket, now_serving>>
    PROVE  TicketQueue' = TicketQueue
<1>0. QueueIsOwners /\ now_serving \in Nat /\ next_ticket \in Nat
    BY QueueFacts, TicketAssumption DEF IInv, TypeOK
<1>1. /\ TicketQueue \in Seq(Threads) /\ TicketQueue' \in Seq(Threads)
      /\ Len(TicketQueue') = Len(TicketQueue) /\ Len(TicketQueue) \in Nat
    BY <1>0 DEF QueueIsOwners
<1>2. ASSUME NEW i \in 1..Len(TicketQueue) PROVE TicketQueue'[i] = TicketQueue[i]
    <2>0. PICK n \in Nat : n = now_serving + i - 1
        BY <1>0, <1>1
    <2>1. PICK t \in Threads : TicketQueue[i] = t
        BY <1>1, ElementOfSeq
    <2>2. Owns(t, n)
        BY <1>0, <2>0, <2>1 DEF QueueIsOwners
    <2>3. Owns(t, n)'
        BY <2>2 DEF SameOwners
    <2>4. TicketQueue'[i] = t <=> HasTicket(t)' /\ ticket'[t] = now_serving' + i - 1
        BY <1>1 DEF QueueIsOwners, Owns
    <2> QED BY <2>0, <2>1, <2>3, <2>4 DEF Owns
<1> QED BY <1>1, <1>2, SeqEqual

\* A ticket is taken at the end of the queue (spinlock.rs:92, 117-127).
LEMMA QueueGrows ==
    ASSUME IInv, TicketsOwned, QueueIsOwners', NEW t \in Threads,
           LockFetchAdd(t) \/ (TryCas(t) /\ next_ticket = ticket[t])
    PROVE  TicketQueue' = Append(TicketQueue, t) /\ ~Fifo!Queued(t)
<1>0. /\ QueueIsOwners /\ now_serving \in Nat /\ next_ticket \in Nat
      /\ now_serving' = now_serving /\ next_ticket' = next_ticket + 1
    BY QueueFacts, OwnerAdded, TicketAssumption DEF IInv, TypeOK
<1> DEFINE q == TicketQueue
           len == Len(TicketQueue)
<1>1. /\ q \in Seq(Threads) /\ TicketQueue' \in Seq(Threads)
      /\ len \in Nat /\ len = next_ticket - now_serving /\ Len(TicketQueue') = len + 1
    BY <1>0 DEF QueueIsOwners
<1>2. /\ Append(q, t) \in Seq(Threads) /\ Len(Append(q, t)) = len + 1
      /\ Append(q, t)[len + 1] = t /\ \A i \in 1..len : Append(q, t)[i] = q[i]
    BY <1>1
<1>3. ASSUME NEW i \in 1..len PROVE TicketQueue'[i] = q[i]
    <2>0. PICK n \in Nat : n = now_serving + i - 1
        BY <1>0, <1>1
    <2>1. PICK u \in Threads : q[i] = u
        BY <1>1, ElementOfSeq
    <2>2. Owns(u, n)
        BY <1>0, <2>0, <2>1 DEF QueueIsOwners
    <2>3. n # next_ticket
        BY <1>0, <1>1, <2>0
    <2>4. Owns(u, n)'
        BY <2>2, <2>3, OwnerAdded
    <2>5. i \in 1..Len(TicketQueue')
        BY <1>1
    <2>6. TicketQueue'[i] = u <=> HasTicket(u)' /\ ticket'[u] = now_serving' + i - 1
        BY <2>5 DEF QueueIsOwners, Owns
    <2> QED BY <1>0, <2>0, <2>1, <2>4, <2>6 DEF Owns
<1>4. TicketQueue'[len + 1] = t
    <2>1. len + 1 \in 1..Len(TicketQueue') /\ now_serving + (len + 1) - 1 = next_ticket
        BY <1>0, <1>1
    <2>2. HasTicket(t)' /\ ticket'[t] = next_ticket
        BY OwnerAdded
    <2>3. PICK i \in 1..Len(TicketQueue') : i = len + 1
        BY <2>1
    <2>4. TicketQueue'[i] = t <=> HasTicket(t)' /\ ticket'[t] = now_serving' + i - 1
        BY DEF QueueIsOwners, Owns
    <2> QED BY <1>0, <2>1, <2>2, <2>3, <2>4
<1>5. TicketQueue' = Append(q, t)
    <2> DEFINE s == Append(q, t)
               r == TicketQueue'
    <2>1. \A i \in 1..Len(r) : i \in 1..len \/ i = len + 1
        BY <1>1
    <2>2. \A i \in 1..Len(r) : r[i] = s[i]
        BY <1>2, <1>3, <1>4, <2>1
    <2>3. r \in Seq(Threads) /\ s \in Seq(Threads) /\ Len(r) = Len(s)
        BY <1>1, <1>2
    <2> HIDE DEF r, s
    <2>4. r = s
        BY <2>2, <2>3, SeqEqual
    <2> QED BY <2>4 DEF r, s
<1>6. ~Fifo!Queued(t)
    <2>1. \A i \in 1..len : q[i] # t
        BY <1>0, OwnerAdded DEF QueueIsOwners, Owns
    <2>2. DOMAIN q = 1..len
        BY <1>1
    <2> QED BY <2>1, <2>2 DEF Fifo!Queued
<1> QED BY <1>5, <1>6

\* The owner of the served ticket is the head of the queue.
LEMMA HeadIsServed ==
    ASSUME IInv, TicketsOwned, NEW t \in Threads, HasTicket(t), ticket[t] = now_serving
    PROVE  TicketQueue \in Seq(Threads) /\ TicketQueue # <<>> /\ Head(TicketQueue) = t
<1>0. QueueIsOwners /\ now_serving \in Nat /\ next_ticket \in Nat /\ now_serving < next_ticket
    BY QueueFacts, TicketAssumption DEF IInv, TypeOK, TicketWindow
<1>1. 1 \in 1..Len(TicketQueue) /\ now_serving + 1 - 1 = now_serving
    BY <1>0 DEF QueueIsOwners
<1>2. TicketQueue[1] = t
    BY <1>0, <1>1 DEF QueueIsOwners, Owns
<1>3. TicketQueue \in Seq(Threads) /\ Len(TicketQueue) # 0
    BY <1>1, <1>0 DEF QueueIsOwners
<1> HIDE DEF TicketQueue
<1> QED BY <1>2, <1>3

\* drop() takes the head off (spinlock.rs:155-160).
LEMMA QueueShrinks ==
    ASSUME IInv, TicketsOwned, QueueIsOwners', NEW t \in Threads, Drop(t)
    PROVE  /\ TicketQueue' = Tail(TicketQueue)
           /\ Head(TicketQueue) = t
<1>0. /\ QueueIsOwners /\ now_serving \in Nat /\ next_ticket \in Nat
      /\ now_serving' = now_serving + 1 /\ next_ticket' = next_ticket
      /\ HasTicket(t) /\ ticket[t] = now_serving
    BY QueueFacts, OwnerGone, TicketAssumption DEF IInv, TypeOK, Owns
<1>1. TicketQueue \in Seq(Threads) /\ TicketQueue # <<>> /\ Head(TicketQueue) = t
    BY <1>0, HeadIsServed
<1> DEFINE q == TicketQueue
           r == TicketQueue'
<1>2. /\ r \in Seq(Threads) /\ Len(r) = Len(q) - 1 /\ Len(q) \in Nat /\ Len(r) \in Nat
      /\ Len(q) = next_ticket - now_serving
    BY <1>0, <1>1 DEF QueueIsOwners
<1>3. /\ Tail(q) \in Seq(Threads) /\ Len(Tail(q)) = Len(q) - 1
      /\ \A i \in 1..Len(Tail(q)) : Tail(q)[i] = q[i + 1]
    BY <1>1, HeadTailProperties
<1>4. ASSUME NEW i \in 1..Len(r) PROVE r[i] = q[i + 1]
    <2>0. PICK n \in Nat : n = now_serving + (i + 1) - 1 /\ n # now_serving
        BY <1>0, <1>2
    <2>1. i + 1 \in 1..Len(q)
        BY <1>2
    <2>2. PICK u \in Threads : q[i + 1] = u
        BY <1>1, <2>1, ElementOfSeq
    <2>3. Owns(u, n)
        BY <1>0, <2>0, <2>1, <2>2 DEF QueueIsOwners
    <2>4. Owns(u, n)'
        BY <2>0, <2>3, OwnerGone
    <2>5. r[i] = u <=> HasTicket(u)' /\ ticket'[u] = now_serving' + i - 1
        BY DEF QueueIsOwners, Owns
    <2>6. now_serving' + i - 1 = n
        BY <1>0, <1>2, <2>0
    <2> QED BY <2>2, <2>4, <2>5, <2>6 DEF Owns
<1>5. r = Tail(q)
    <2>1. \A i \in 1..Len(r) : r[i] = Tail(q)[i]
        BY <1>2, <1>3, <1>4
    <2> HIDE DEF r, q
    <2> QED BY <1>2, <1>3, <2>1, SeqEqual
<1> QED BY <1>1, <1>5

\* Each step of a thread is a step of the queue's, or one it does not see.
LEMMA StepIsFifoStep ==
    IInv /\ TicketsOwned /\ QueueIsOwners' /\ [Next]_vars => [Fifo!Next]_(Fifo!vars)
<1> SUFFICES ASSUME IInv, TicketsOwned, QueueIsOwners', [Next]_vars
             PROVE  Fifo!Next \/ UNCHANGED Fifo!vars
    OBVIOUS
<1> DEFINE held == \E t \in Threads : Holding(t)
<1>m. MutualExclusion
    BY ExclusionFromIInv
<1>1. ASSUME NEW t \in Threads, LockFetchAdd(t) PROVE Fifo!Request(t)
    <2>1. held' <=> held
        BY <1>1 DEF LockFetchAdd, Goto, Holding, IInv, TypeOK
    <2> QED BY <1>1, <2>1, QueueGrows DEF Fifo!Request
<1>2. ASSUME NEW t \in Threads, LockSpin(t) PROVE Fifo!Enter(t)
    <2>1. TicketQueue' = TicketQueue
        BY <1>2, OwnersStay, QueueStays
    <2>2. HasTicket(t) /\ ticket[t] = now_serving /\ ~Holding(t) /\ Holding(t)'
        BY <1>2 DEF LockSpin, HasTicket, Holding, Goto, IInv, TypeOK
    <2>3. TicketQueue # <<>> /\ Head(TicketQueue) = t
        BY <2>2, HeadIsServed
    <2>4. ~held
        BY <2>2 DEF IInv, TicketsDistinct, HolderIsServed, HasTicket
    <2> QED BY <2>1, <2>2, <2>3, <2>4 DEF Fifo!Enter
<1>3. ASSUME NEW t \in Threads, TryCas(t), next_ticket = ticket[t] PROVE Fifo!TryAcquire(t)
    <2>0. now_serving \in Nat /\ next_ticket \in Nat
        BY TicketAssumption DEF IInv, TypeOK
    <2>1. now_serving = next_ticket
        BY <1>3, <2>0 DEF IInv, TypeOK, TryCas, TicketWindow, LoadsAreBehind
    <2>2. TicketQueue \in Seq(Threads) /\ Len(TicketQueue) = 0
        BY <2>0, <2>1, QueueFacts DEF QueueIsOwners
    <2>3. TicketQueue' = Append(TicketQueue, t)
        BY <1>3, QueueGrows
    <2>4. TicketQueue = <<>>
        <3> HIDE DEF TicketQueue
        <3> QED BY <2>2, EmptySeq
    <2>5. Append(<<>>, t) = <<t>>
        OBVIOUS
    <2>6. Holding(t)'
        BY <1>3 DEF TryCas, Holding, Goto, IInv, TypeOK
    <2> QED BY <2>3, <2>4, <2>5, <2>6 DEF Fifo!TryAcquire
<1>4. ASSUME NEW t \in Threads, Drop(t) PROVE Fifo!Release(t)
    <2>1. Holding(t) /\ ~held'
        BY <1>4, <1>m DEF Drop, Holding, Goto, MutualExclusion, IInv, TypeOK
    <2> QED BY <1>4, <2>1, QueueShrinks DEF Fifo!Release
<1>5. ASSUME NEW t \in Threads,
             \/ TryLoadServing(t) \/ TryLoadNext(t) \/ IsLockedLoadServing(t)
             \/ IsLockedLoadNext(t) \/ DerefLoad(t) \/ DerefMutStore(t)
             \/ TryCas(t) /\ next_ticket # ticket[t]
      PROVE  UNCHANGED Fifo!vars
    <2>1. TicketQueue' = TicketQueue
        BY <1>5, OwnersStay, QueueStays
    <2>2. \A u \in Threads : Holding(u)' <=> Holding(u)
        BY <1>5 DEF TryLoadServing, TryLoadNext, IsLockedLoadServing, IsLockedLoadNext,
           DerefLoad, DerefMutStore, TryCas, Holding, Goto, IInv, TypeOK
    <2>3. held' = held
        BY <2>2
    <2> QED BY <2>1, <2>3 DEF Fifo!vars
<1>6. CASE UNCHANGED vars
    <2>1. TicketQueue' = TicketQueue
        BY <1>6 DEF vars, TicketQueue, HasTicket, Holding
    <2>2. held' = held
        BY <1>6 DEF vars, Holding
    <2> QED BY <2>1, <2>2 DEF Fifo!vars
<1>7. Next => Fifo!Next \/ UNCHANGED Fifo!vars
    <2> SUFFICES ASSUME NEW t \in Threads,
                        \/ LockFetchAdd(t) \/ TryLoadServing(t) \/ IsLockedLoadServing(t)
                        \/ InCall(t)
                 PROVE  Fifo!Next \/ UNCHANGED Fifo!vars
        BY DEF Next
    <2>1. \/ Fifo!Request(t) \/ Fifo!TryAcquire(t) \/ Fifo!Enter(t) \/ Fifo!Release(t)
          \/ UNCHANGED Fifo!vars
        BY <1>1, <1>2, <1>3, <1>4, <1>5 DEF InCall
    <2> QED BY <2>1 DEF Fifo!Next
<1> QED BY <1>6, <1>7

\* TicketLock implements the queue the module documentation promises: "waiters
\* acquire the lock in the order they requested it" (spinlock.rs:67), and a
\* try_lock() never overtakes a waiter (spinlock.rs:104-129).  What the queue
\* says of progress (ImplementsFifoMutex) needs fairness and is model-checked.
THEOREM TicketImplementsFifo == Spec => Fifo!Safety
<1>1. Init => Fifo!Init
    <2> SUFFICES ASSUME Init PROVE Fifo!Init
        OBVIOUS
    <2>1. TicketQueue = <<>>
        <3>1. TicketQueue \in Seq(Threads) /\ Len(TicketQueue) = 0
            <4>1. TicketsOwned
                BY DEF Init, TicketsOwned
            <4>2. QueueIsOwners
                BY <4>1, InitIInv, QueueFacts
            <4> QED BY <4>2 DEF QueueIsOwners, Init
        <3> HIDE DEF TicketQueue
        <3> QED BY <3>1, EmptySeq
    <2>2. ~ \E t \in Threads : Holding(t)
        BY DEF Init, Holding
    <2> QED BY <2>1, <2>2 DEF Fifo!Init
<1> QED BY <1>1, StepIsFifoStep, AlwaysIInv, AlwaysOwned, QueueFacts, PTL DEF Spec, Fifo!Safety
=============================================================================
