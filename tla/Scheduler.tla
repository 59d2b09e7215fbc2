----------------------------- MODULE Scheduler ------------------------------
(***************************************************************************)
(* RunQueue and Scheduler of src/src/scheduler.rs.  Every core calls       *)
(* preempt_current(), schedule() and block_current(); other threads call   *)
(* spawn(), spawn_on_core() and wake() at the same time.                   *)
(*                                                                         *)
(* A queue's SpinLock is taken together with the change of the VecDeque;   *)
(* the update of the atomic length and the release are the next step,      *)
(* because lengths are read without the lock, one core after the other.    *)
(* The caller of the crate owns the tasks that run and those that are      *)
(* parked: a Box<Task> has one owner.                                      *)
(***************************************************************************)
EXTENDS Integers, Sequences, Functions

CONSTANTS
    NumCores,      \* num_cores
    Tasks,         \* the tasks
    Spawners,      \* threads that spawn and wake
    Affinity,      \* task.affinity: a core or None
    U64_MAX,       \* u64::MAX: more than any queue is long
    None           \* Option::None

Cores == 0..(NumCores - 1)
Procs == Cores \cup Spawners

ASSUME SchedulerAssumption ==
    /\ NumCores \in Nat \ {0}
    /\ U64_MAX \in Nat
    /\ Affinity \in [Tasks -> Cores \cup {None}]
    /\ Cores \cap Spawners = {}
    /\ None \notin Tasks \cup Procs

VARIABLES
    queue,         \* the VecDeque of each core
    len,           \* its AtomicU64
    qlock,         \* who holds the queue's SpinLock, or None
    fresh,         \* tasks created and not yet spawned
    parked,        \* blocked tasks, with their owner
    running,       \* the task each core runs, or None
    tstate,        \* task.state
    pc,            \* where each caller is
    target,        \* the queue a call works on; min_core, max_core of a scan
    hand,          \* tasks a call has still to push
    held,          \* the task schedule() will return
    idx, best      \* index and min_load or max_load of a scan

vars == <<queue, len, qlock, fresh, parked, running, tstate,
          pc, target, hand, held, idx, best>>

Goto(p, label) == pc' = [pc EXCEPT ![p] = label]

Init ==
    /\ queue = [c \in Cores |-> <<>>]
    /\ len = [c \in Cores |-> 0]
    /\ qlock = [c \in Cores |-> None]
    /\ fresh = Tasks
    /\ parked = {}
    /\ running = [c \in Cores |-> None]
    /\ tstate = [t \in Tasks |-> "Ready"]
    /\ pc = [p \in Procs |-> "idle"]
    /\ target = [p \in Procs |-> None]
    /\ hand = [p \in Procs |-> <<>>]
    /\ held = [p \in Procs |-> None]
    /\ idx = [p \in Procs |-> 0]
    /\ best = [p \in Procs |-> 0]
-----------------------------------------------------------------------------
(* RunQueue                                                                *)

\* Mutant: push_front.
PushFront(q, t) == <<t>> \o q

\* push_back.
PushBack(q, t) == Append(q, t)

\* push(): the lock and push_back.
Push(p) ==
    /\ pc[p] = "push"
    /\ qlock[target[p]] = None
    /\ qlock' = [qlock EXCEPT ![target[p]] = p]
    /\ queue' = [queue EXCEPT ![target[p]] = PushBack(@, Head(hand[p]))]
    /\ hand' = [hand EXCEPT ![p] = Tail(@)]
    /\ Goto(p, "push_len")
    /\ UNCHANGED <<len, fresh, parked, running, tstate, target, held, idx, best>>

\* What follows the last push of a call: schedule() returns its first stolen
\* task, the other calls return nothing.
Return(p) ==
    /\ IF held[p] # None
       THEN running' = [running EXCEPT ![p] = held[p]]
       ELSE UNCHANGED running
    /\ held' = [held EXCEPT ![p] = None]
    /\ target' = [target EXCEPT ![p] = None]
    /\ Goto(p, "idle")

\* push(): len.fetch_add(1) and the release; a thief goes on with the rest.
PushLen(p) ==
    /\ pc[p] = "push_len"
    /\ len' = [len EXCEPT ![target[p]] = @ + 1]
    /\ qlock' = [qlock EXCEPT ![target[p]] = None]
    /\ IF hand[p] = <<>> THEN Return(p)
                         ELSE Goto(p, "push") /\ UNCHANGED <<running, held, target>>
    /\ UNCHANGED <<queue, fresh, parked, tstate, hand, idx, best>>

\* Mutant: pop() counts down before it looks whether there is a task.
PopEager(c) ==
    /\ pc[c] = "pop"
    /\ qlock[c] = None
    /\ queue[c] = <<>>
    /\ len' = [len EXCEPT ![c] = @ - 1]
    /\ Goto(c, "scan_max")
    /\ UNCHANGED <<queue, qlock, fresh, parked, running, tstate, target, hand, held, idx, best>>

\* Mutant: a core with two tasks is left alone too.
StealThresholdTwo == 2

\* busiest_core(): max_load starts here.
StealThreshold == 1

\* pop(): the lock and pop_front; on an empty queue schedule() goes stealing.
Pop(c) ==
    /\ pc[c] = "pop"
    /\ qlock[c] = None
    /\ \/ /\ queue[c] # <<>>
          /\ held' = [held EXCEPT ![c] = Head(queue[c])]
          /\ queue' = [queue EXCEPT ![c] = Tail(@)]
          /\ qlock' = [qlock EXCEPT ![c] = c]
          /\ Goto(c, "pop_len")
          /\ UNCHANGED <<target, idx, best>>
       \/ /\ queue[c] = <<>>
          /\ idx' = [idx EXCEPT ![c] = 0]
          /\ best' = [best EXCEPT ![c] = StealThreshold]
          /\ Goto(c, "scan_max")
          /\ UNCHANGED <<held, queue, qlock, target>>
    /\ UNCHANGED <<len, fresh, parked, running, tstate, hand>>

\* pop(): len.fetch_sub(1) and the release.
PopLen(c) ==
    /\ pc[c] = "pop_len"
    /\ len' = [len EXCEPT ![c] = @ - 1]
    /\ qlock' = [qlock EXCEPT ![c] = None]
    /\ Return(c)
    /\ UNCHANGED <<queue, fresh, parked, tstate, hand, idx, best>>

\* Mutant: half, rounded up.
StealCountUp(v) == (Len(queue[v]) + 1) \div 2

\* steal_half(): half, rounded down.
StealCount(v) == Len(queue[v]) \div 2

\* The back half of a queue, in the order pop_back() yields it.
Stolen(v) == [i \in 1..StealCount(v) |-> queue[v][Len(queue[v]) + 1 - i]]

\* Mutant: the stolen tasks are read and not removed.
LeftCopied(v) == queue[v]

\* What the pop_back loop leaves.
Left(v) == SubSeq(queue[v], 1, Len(queue[v]) - StealCount(v))

\* Mutant: the tasks after the first are dropped with the iterator.
ToPushNothing(v) == <<>>

\* What schedule() pushes to its own queue: all but the first.
ToPush(v) == Tail(Stolen(v))

\* Mutant: the length goes down by one, however many were stolen.
StolenLenOne(c) == 1

\* stolen.len() of the theft a core is in.
StolenLen(c) == 1 + Len(hand[c])

\* steal_half(): the lock and the pop_back loop; with less than two tasks
\* there it returns nothing and schedule() gives up.
Steal(c) ==
    LET v == target[c] IN
    /\ pc[c] = "steal"
    /\ qlock[v] = None
    /\ \/ /\ StealCount(v) > 0
          /\ held' = [held EXCEPT ![c] = Head(Stolen(v))]
          /\ hand' = [hand EXCEPT ![c] = ToPush(v)]
          /\ queue' = [queue EXCEPT ![v] = Left(v)]
          /\ qlock' = [qlock EXCEPT ![v] = c]
          /\ Goto(c, "steal_len")
          /\ UNCHANGED <<running, target>>
       \/ /\ StealCount(v) = 0
          /\ Return(c)
          /\ UNCHANGED <<hand, queue, qlock>>
    /\ UNCHANGED <<len, fresh, parked, tstate, idx, best>>

\* steal_half(): len.fetch_sub(stolen.len()) and the release; the first task
\* is kept, the others go to the thief's own queue.
StealLen(c) ==
    LET v == target[c] IN
    /\ pc[c] = "steal_len"
    /\ len' = [len EXCEPT ![v] = @ - StolenLen(c)]
    /\ qlock' = [qlock EXCEPT ![v] = None]
    /\ IF hand[c] = <<>>
       THEN Return(c)
       ELSE /\ target' = [target EXCEPT ![c] = c]
            /\ Goto(c, "push")
            /\ UNCHANGED <<running, held>>
    /\ UNCHANGED <<queue, fresh, parked, tstate, hand, idx, best>>
-----------------------------------------------------------------------------
(* Scheduler                                                               *)

\* least_loaded_core(): one len() of the loop.
ScanMin(p) ==
    /\ pc[p] = "scan_min"
    /\ idx[p] < NumCores
    /\ idx' = [idx EXCEPT ![p] = @ + 1]
    /\ IF len[idx[p]] < best[p]
       THEN /\ best' = [best EXCEPT ![p] = len[idx[p]]]
            /\ target' = [target EXCEPT ![p] = idx[p]]
       ELSE UNCHANGED <<best, target>>
    /\ UNCHANGED <<queue, len, qlock, fresh, parked, running, tstate, pc, hand, held>>

\* The locals of a scan die with it.
ForgetScan(p) ==
    /\ idx' = [idx EXCEPT ![p] = 0]
    /\ best' = [best EXCEPT ![p] = 0]

\* spawn(): the core is chosen and the task pushed there.
ScanMinDone(p) ==
    /\ pc[p] = "scan_min"
    /\ idx[p] = NumCores
    /\ ForgetScan(p)
    /\ Goto(p, "push")
    /\ UNCHANGED <<queue, len, qlock, fresh, parked, running, tstate, target, hand, held>>

\* busiest_core(): one iteration of the loop, the caller's core excluded.
ScanMax(c) ==
    /\ pc[c] = "scan_max"
    /\ idx[c] < NumCores
    /\ idx' = [idx EXCEPT ![c] = @ + 1]
    /\ IF idx[c] # c /\ len[idx[c]] > best[c]
       THEN /\ best' = [best EXCEPT ![c] = len[idx[c]]]
            /\ target' = [target EXCEPT ![c] = idx[c]]
       ELSE UNCHANGED <<best, target>>
    /\ UNCHANGED <<queue, len, qlock, fresh, parked, running, tstate, pc, hand, held>>

\* schedule(): a victim was found, or there is no work.
ScanMaxDone(c) ==
    /\ pc[c] = "scan_max"
    /\ idx[c] = NumCores
    /\ IF target[c] # None
       THEN Goto(c, "steal") /\ UNCHANGED <<running, held, target>>
       ELSE Return(c)
    /\ ForgetScan(c)
    /\ UNCHANGED <<queue, len, qlock, fresh, parked, tstate, hand>>

\* The caller hands a task to the scheduler, to be pushed on queue c.
Give(p, t, c) ==
    /\ hand' = [hand EXCEPT ![p] = <<t>>]
    /\ target' = [target EXCEPT ![p] = c]
    /\ Goto(p, "push")

\* spawn(): to the core of its affinity, or to the least loaded one.
Spawn(s, t) ==
    /\ pc[s] = "idle"
    /\ t \in fresh
    /\ fresh' = fresh \ {t}
    /\ \/ /\ Affinity[t] # None
          /\ Give(s, t, Affinity[t])
          /\ UNCHANGED <<idx, best>>
       \/ /\ Affinity[t] = None
          /\ hand' = [hand EXCEPT ![s] = <<t>>]
          /\ target' = [target EXCEPT ![s] = 0]
          /\ idx' = [idx EXCEPT ![s] = 0]
          /\ best' = [best EXCEPT ![s] = U64_MAX]
          /\ Goto(s, "scan_min")
    /\ UNCHANGED <<queue, len, qlock, parked, running, tstate, held>>

\* spawn_on_core(): the assertion on core_id is the range of c.
SpawnOnCore(s, t, c) ==
    /\ pc[s] = "idle"
    /\ t \in fresh
    /\ fresh' = fresh \ {t}
    /\ Give(s, t, c)
    /\ UNCHANGED <<queue, len, qlock, parked, running, tstate, held, idx, best>>

\* wake(): the state is set, the task goes where the caller says.
Wake(s, t, c) ==
    /\ pc[s] = "idle"
    /\ t \in parked
    /\ parked' = parked \ {t}
    /\ tstate' = [tstate EXCEPT ![t] = "Ready"]
    /\ Give(s, t, c)
    /\ UNCHANGED <<queue, len, qlock, fresh, running, held, idx, best>>

\* preempt_current(): the running task goes to the back of its core's queue.
PreemptCurrent(c) ==
    /\ pc[c] = "idle"
    /\ running[c] # None
    /\ tstate' = [tstate EXCEPT ![running[c]] = "Ready"]
    /\ Give(c, running[c], c)
    /\ running' = [running EXCEPT ![c] = None]
    /\ UNCHANGED <<queue, len, qlock, fresh, parked, held, idx, best>>

\* schedule(), called on a core whose caller has no current task.
Schedule(c) ==
    /\ pc[c] = "idle"
    /\ running[c] = None
    /\ Goto(c, "pop")
    /\ UNCHANGED <<queue, len, qlock, fresh, parked, running, tstate,
                   target, hand, held, idx, best>>

\* block_current(): schedule() again; the caller has taken its task out.
BlockCurrent(c) ==
    /\ pc[c] = "idle"
    /\ running[c] # None
    /\ parked' = parked \cup {running[c]}
    /\ running' = [running EXCEPT ![c] = None]
    /\ Goto(c, "pop")
    /\ UNCHANGED <<queue, len, qlock, fresh, tstate, target, hand, held, idx, best>>
-----------------------------------------------------------------------------
\* The steps of a call on a core, and of one on another thread.
CoreInCall(c) ==
    \/ Pop(c) \/ PopLen(c) \/ ScanMax(c) \/ ScanMaxDone(c) \/ Steal(c) \/ StealLen(c)
    \/ Push(c) \/ PushLen(c)

SpawnerInCall(s) == ScanMin(s) \/ ScanMinDone(s) \/ Push(s) \/ PushLen(s)

\* The timer interrupt of a core.
Tick(c) == PreemptCurrent(c) \/ Schedule(c)

Next ==
    \/ \E c \in Cores : CoreInCall(c) \/ Tick(c) \/ BlockCurrent(c)
    \/ \E s \in Spawners :
          \/ SpawnerInCall(s)
          \/ \E t \in Tasks :
                \/ Spawn(s, t)
                \/ \E c \in Cores : SpawnOnCore(s, t, c) \/ Wake(s, t, c)

\* Timers keep firing and cores execute the calls they are in.  Strong for the
\* cores: a queue's lock is held for a few instructions and wanted again only a
\* tick later, so that no core loses the race for it for ever.
Fairness ==
    /\ \A c \in Cores : SF_vars(CoreInCall(c) \/ Tick(c))
    /\ \A s \in Spawners : WF_vars(SpawnerInCall(s))

Spec == Init /\ [][Next]_vars
FairSpec == Spec /\ Fairness
-----------------------------------------------------------------------------
Labels == {"idle", "push", "push_len", "pop", "pop_len", "scan_min", "scan_max",
           "steal", "steal_len"}

\* Queues and hands hold tasks, locks are held by callers, and no fetch_sub
\* takes a length below zero.
TypeOK ==
    /\ queue \in [Cores -> Seq(Tasks)]
    /\ len \in [Cores -> Nat]
    /\ qlock \in [Cores -> Procs \cup {None}]
    /\ fresh \subseteq Tasks
    /\ parked \subseteq Tasks
    /\ running \in [Cores -> Tasks \cup {None}]
    /\ tstate \in [Tasks -> {"Ready", "Running", "Blocked", "Dead"}]
    /\ pc \in [Procs -> Labels]
    /\ target \in [Procs -> Cores \cup {None}]
    /\ hand \in [Procs -> Seq(Tasks)]
    /\ held \in [Procs -> Tasks \cup {None}]
    /\ idx \in [Procs -> 0..NumCores]
    /\ best \in [Procs -> Nat]

\* The counter read for "quick steal decisions" (scheduler.rs:251) is exact
\* whenever the queue's lock is free: no update is lost and none underflows.
LenIsExact == \A c \in Cores : qlock[c] = None => len[c] = Len(queue[c])

-----------------------------------------------------------------------------
(* The inductive strengthening of the two.                                 *)

\* What a call knows at each of its steps.
CallsAreSound ==
    \A p \in Procs :
        /\ pc[p] \in {"pop", "pop_len", "scan_max", "steal", "steal_len"} => p \in Cores
        /\ pc[p] \in {"push", "push_len", "scan_min", "steal", "steal_len"} =>
               target[p] \in Cores
        /\ pc[p] \in {"push", "scan_min"} => hand[p] # <<>>

\* Caller p is inside the critical section of queue c.
Inside(p, c) ==
    \/ pc[p] \in {"push_len", "steal_len"} /\ target[p] = c
    \/ pc[p] = "pop_len" /\ p = c

HolderIsInside == \A c \in Cores, p \in Procs : qlock[c] = p <=> Inside(p, c)

\* Inside, the length is behind by what the caller has still to add.
LenIsBehind ==
    \A c \in Cores : \A p \in Procs : Inside(p, c) =>
        /\ pc[p] = "push_len" => len[c] + 1 = Len(queue[c])
        /\ pc[p] = "pop_len" => len[c] = Len(queue[c]) + 1
        /\ pc[p] = "steal_len" => len[c] = Len(queue[c]) + StolenLen(p)

-----------------------------------------------------------------------------
\* Where a task can be: with a core or a caller, or with nobody yet or for now.
Kinds == {"queue", "hand", "held", "running", "fresh", "parked"}
Owners == Procs \cup {None}

IsAt(t, kind, p) ==
    \/ kind = "queue" /\ p \in Cores /\ t \in Range(queue[p])
    \/ kind = "hand" /\ p \in Procs /\ t \in Range(hand[p])
    \/ kind = "held" /\ p \in Procs /\ t = held[p]
    \/ kind = "running" /\ p \in Cores /\ t = running[p]
    \/ kind = "fresh" /\ p = None /\ t \in fresh
    \/ kind = "parked" /\ p = None /\ t \in parked

InOnePlace(t) ==
    \E kind \in Kinds, p \in Owners :
        /\ IsAt(t, kind, p)
        /\ \A k \in Kinds, q \in Owners : IsAt(t, k, q) => k = kind /\ q = p

NoRepeats ==
    /\ \A c \in Cores : IsInjective(queue[c])
    /\ \A p \in Procs : IsInjective(hand[p])

\* Stealing, preemption, blocking and waking neither lose a task nor duplicate
\* one: every task is in one place, once, under any interleaving of cores.
OnePlace == NoRepeats /\ \A t \in Tasks : InOnePlace(t)

Pool == INSTANCE TaskPool WITH
    ready <- Tasks \ (fresh \cup parked \cup {running[c] : c \in Cores}),
    blocked <- parked

\* The queues, counters, scans and thefts amount to a pool of ready tasks.
ImplementsTaskPool == Pool!Spec

\* A core's own pop takes the front of its queue and nobody else ever does: a
\* thief, however stale the length it read, leaves the front and at least half
\* ("Don't steal from cores with only 1 task", scheduler.rs:473).
OnlyOwnerTakesFront ==
    [][\A c \in Cores : Len(queue'[c]) < Len(queue[c]) =>
          \/ pc[c] = "pop" /\ queue'[c] = Tail(queue[c])
          \/ /\ 2 * Len(queue'[c]) >= Len(queue[c])
             /\ Head(queue'[c]) = Head(queue[c])]_vars

Running(t) == \E c \in Cores : running[c] = t

AtFront(t) == \E c \in Cores : queue[c] # <<>> /\ Head(queue[c]) = t

\* "if Some, this task can only run on the specified core" (scheduler.rs:164):
\* a core steals no task that is bound to another one.
AffinityRespected ==
    \A c \in Cores : pc[c] = "steal_len" => Affinity[held[c]] \in {c, None}
=============================================================================
