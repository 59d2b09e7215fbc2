-------------------------- MODULE SchedulerProofs ---------------------------
(***************************************************************************)
(* Scheduler for any number of cores, tasks and spawning threads: the      *)
(* atomic length of a queue is exact whenever its lock is free and never   *)
(* goes below zero, only the owner of a queue takes its front, every task  *)
(* is in one place, the whole implements TaskPool, and a thief overlooks   *)
(* no queue.                                                               *)
(***************************************************************************)
EXTENDS WorkStealing, SequenceTheorems, TLAPS

IInv == TypeOK /\ LenIsExact /\ CallsAreSound /\ HolderIsInside /\ LenIsBehind

\* The inductive invariant holds in a new scheduler (scheduler.rs:352-369).
LEMMA InitIInv == Init => IInv
<1> SUFFICES ASSUME Init PROVE IInv
    OBVIOUS
<1>1. \A S : <<>> \in Seq(S) /\ Len(<<>>) = 0
    OBVIOUS
<1>2. TypeOK
    BY <1>1, SchedulerAssumption DEF Init, TypeOK, Labels, Cores
<1>3. LenIsExact /\ CallsAreSound /\ HolderIsInside /\ LenIsBehind
    BY <1>1, SchedulerAssumption
       DEF Init, LenIsExact, CallsAreSound, HolderIsInside, LenIsBehind, Inside, Procs
<1> QED BY <1>2, <1>3 DEF IInv

CriticalLabels == {"push_len", "pop_len", "steal_len"}

\* The locals of every caller but p stay as they are.
OthersRest(p) ==
    \A q \in Procs \ {p} :
        pc'[q] = pc[q] /\ target'[q] = target[q] /\ hand'[q] = hand[q]

\* A step outside every critical section leaves queues and lengths alone.
LEMMA OutsideIInv ==
    ASSUME IInv, NEW p \in Procs, TypeOK', CallsAreSound', OthersRest(p),
           pc[p] \notin CriticalLabels, pc'[p] \notin CriticalLabels,
           UNCHANGED <<queue, len, qlock>>
    PROVE  IInv'
<1> USE DEF IInv, OthersRest, CriticalLabels
<1>1. \A q \in Procs, c \in Cores : Inside(q, c)' <=> Inside(q, c)
    BY DEF Inside
<1>2. LenIsExact'
    BY DEF LenIsExact
<1>3. HolderIsInside'
    BY <1>1 DEF HolderIsInside
<1>4. LenIsBehind'
    <2> SUFFICES ASSUME NEW c \in Cores, NEW q \in Procs, Inside(q, c)'
                 PROVE  /\ pc'[q] = "push_len" => len[c] + 1 = Len(queue[c])
                        /\ pc'[q] = "pop_len" => len[c] = Len(queue[c]) + 1
                        /\ pc'[q] = "steal_len" =>
                               len[c] = Len(queue[c]) + StolenLen(q)'
        BY DEF LenIsBehind
    <2>1. q # p
        BY DEF Inside
    <2>2. Inside(q, c) /\ pc'[q] = pc[q] /\ StolenLen(q)' = StolenLen(q)
        BY <1>1, <2>1 DEF StolenLen
    <2> QED BY <2>2 DEF LenIsBehind
<1> QED BY <1>2, <1>3, <1>4

\* A step that takes a free lock and changes its queue: the length is behind
\* by what the caller owes.
LEMMA EnterIInv ==
    ASSUME IInv, NEW p \in Procs, NEW c \in Cores,
           TypeOK', CallsAreSound', OthersRest(p), pc[p] \notin CriticalLabels,
           qlock[c] = None, qlock' = [qlock EXCEPT ![c] = p],
           \A d \in Cores : Inside(p, d)' <=> d = c,
           \A d \in Cores \ {c} : queue'[d] = queue[d],
           UNCHANGED len,
           /\ pc'[p] = "push_len" => Len(queue[c]) + 1 = Len(queue'[c])
           /\ pc'[p] = "pop_len" => Len(queue[c]) = Len(queue'[c]) + 1
           /\ pc'[p] = "steal_len" => Len(queue[c]) = Len(queue'[c]) + StolenLen(p)'
    PROVE  IInv'
<1> USE DEF IInv, OthersRest, CriticalLabels
<1>1. \A q \in Procs \ {p}, d \in Cores : Inside(q, d)' <=> Inside(q, d)
    BY DEF Inside
<1>2. \A d \in Cores : ~Inside(p, d)
    BY DEF Inside
<1>3. /\ qlock'[c] = p
      /\ \A d \in Cores \ {c} : qlock'[d] = qlock[d]
      /\ \A d \in Cores : qlock[d] # None => qlock[d] \in Procs
    BY DEF TypeOK
<1>4. p # None
    BY SchedulerAssumption
<1>5. LenIsExact'
    BY <1>3, <1>4 DEF LenIsExact
<1>6. HolderIsInside'
    <2> SUFFICES ASSUME NEW d \in Cores, NEW q \in Procs
                 PROVE  qlock'[d] = q <=> Inside(q, d)'
        BY DEF HolderIsInside
    <2>1. CASE q = p
        BY <1>2, <1>3, <2>1 DEF HolderIsInside
    <2>2. CASE q # p
        <3>1. qlock[d] = q <=> Inside(q, d)'
            BY <1>1, <2>2 DEF HolderIsInside
        <3>2. q # None
            BY SchedulerAssumption
        <3> QED BY <1>3, <2>2, <3>1, <3>2
    <2> QED BY <2>1, <2>2
<1>7. LenIsBehind'
    <2> SUFFICES ASSUME NEW d \in Cores, NEW q \in Procs, Inside(q, d)'
                 PROVE  /\ pc'[q] = "push_len" => len[d] + 1 = Len(queue'[d])
                        /\ pc'[q] = "pop_len" => len[d] = Len(queue'[d]) + 1
                        /\ pc'[q] = "steal_len" =>
                               len[d] = Len(queue'[d]) + StolenLen(q)'
        BY DEF LenIsBehind
    <2>1. CASE q = p
        BY <2>1 DEF LenIsExact
    <2>2. CASE q # p
        <3>1. d # c
            BY <1>1, <2>2, SchedulerAssumption DEF HolderIsInside
        <3>2. Inside(q, d) /\ pc'[q] = pc[q] /\ StolenLen(q)' = StolenLen(q)
            BY <1>1, <2>2 DEF StolenLen
        <3> QED BY <3>1, <3>2 DEF LenIsBehind
    <2> QED BY <2>1, <2>2
<1> QED BY <1>5, <1>6, <1>7

\* A step that pays what is owed and releases the lock.
LEMMA LeaveIInv ==
    ASSUME IInv, NEW p \in Procs, NEW c \in Cores, Inside(p, c),
           TypeOK', CallsAreSound', OthersRest(p), pc'[p] \notin CriticalLabels,
           qlock' = [qlock EXCEPT ![c] = None],
           UNCHANGED queue,
           len'[c] = Len(queue[c]),
           \A d \in Cores \ {c} : len'[d] = len[d]
    PROVE  IInv'
<1> USE DEF IInv, OthersRest, CriticalLabels
<1>1. \A q \in Procs \ {p}, d \in Cores : Inside(q, d)' <=> Inside(q, d)
    BY DEF Inside
<1>2. \A d \in Cores : ~Inside(p, d)'
    BY DEF Inside
<1>3. /\ qlock'[c] = None
      /\ \A d \in Cores \ {c} : qlock'[d] = qlock[d]
      /\ \A d \in Cores : qlock[d] # None => qlock[d] \in Procs
    BY DEF TypeOK
<1>4. \A d \in Cores : Inside(p, d) => d = c
    BY DEF Inside
<1>5. LenIsExact'
    BY <1>3 DEF LenIsExact
<1>6. \A q \in Procs \ {p} : ~Inside(q, c)
    BY DEF HolderIsInside
<1>7. HolderIsInside'
    <2> SUFFICES ASSUME NEW d \in Cores, NEW q \in Procs
                 PROVE  qlock'[d] = q <=> Inside(q, d)'
        BY DEF HolderIsInside
    <2>1. q # None
        BY SchedulerAssumption
    <2>2. CASE d = c
        BY <1>1, <1>2, <1>3, <1>6, <2>1, <2>2
    <2>3. CASE d # c
        <3>1. qlock'[d] = q <=> Inside(q, d)
            BY <1>3, <2>3 DEF HolderIsInside
        <3> QED BY <1>1, <1>2, <1>4, <2>3, <3>1
    <2> QED BY <2>2, <2>3
<1>8. LenIsBehind'
    <2> SUFFICES ASSUME NEW d \in Cores, NEW q \in Procs, Inside(q, d)'
                 PROVE  /\ pc'[q] = "push_len" => len'[d] + 1 = Len(queue[d])
                        /\ pc'[q] = "pop_len" => len'[d] = Len(queue[d]) + 1
                        /\ pc'[q] = "steal_len" =>
                               len'[d] = Len(queue[d]) + StolenLen(q)'
        BY DEF LenIsBehind
    <2>1. q # p /\ d # c
        BY <1>1, <1>2, <1>6
    <2>2. Inside(q, d) /\ pc'[q] = pc[q] /\ StolenLen(q)' = StolenLen(q)
        BY <1>1, <2>1 DEF StolenLen
    <2> QED BY <2>1, <2>2 DEF LenIsBehind
<1> QED BY <1>5, <1>7, <1>8

\* push() keeps the invariant (scheduler.rs:267-275).
LEMMA PushIInv ==
    ASSUME IInv, NEW p \in Procs, Push(p) PROVE IInv'
<1> DEFINE c == target[p]
<1>1. c \in Cores /\ hand[p] # <<>> /\ hand[p] \in Seq(Tasks) /\ queue[c] \in Seq(Tasks)
    BY DEF IInv, Push, CallsAreSound, TypeOK
<1>2. Head(hand[p]) \in Tasks /\ Tail(hand[p]) \in Seq(Tasks)
    BY <1>1, HeadTailProperties
<1> DEFINE q == Append(queue[c], Head(hand[p]))
<1>3. q \in Seq(Tasks) /\ Len(q) = Len(queue[c]) + 1
    BY <1>1, <1>2, AppendProperties
<1>4. queue' = [queue EXCEPT ![c] = q]
    BY DEF Push, PushBack
<1>5. TypeOK'
    <2>1. queue' \in [Cores -> Seq(Tasks)]
        BY <1>3, <1>4 DEF IInv, TypeOK
    <2>2. hand' \in [Procs -> Seq(Tasks)]
        BY <1>2 DEF IInv, Push, TypeOK
    <2>3. pc' \in [Procs -> Labels]
        BY DEF IInv, Push, Goto, TypeOK, Labels
    <2>4. qlock' \in [Cores -> Procs \cup {None}]
        BY DEF IInv, Push, TypeOK
    <2> QED BY <2>1, <2>2, <2>3, <2>4 DEF IInv, Push, TypeOK
<1>6. CallsAreSound'
    BY DEF IInv, Push, Goto, CallsAreSound, TypeOK
<1>7. OthersRest(p) /\ pc'[p] = "push_len" /\ pc[p] = "push" /\ target'[p] = c
    BY DEF IInv, Push, Goto, OthersRest, TypeOK
<1>8. \A d \in Cores : Inside(p, d)' <=> d = c
    BY <1>7 DEF Inside
<1>9. /\ qlock[c] = None
      /\ qlock' = [qlock EXCEPT ![c] = p]
      /\ UNCHANGED len
    BY DEF Push
<1>10. queue'[c] = q /\ \A d \in Cores \ {c} : queue'[d] = queue[d]
    BY <1>1, <1>4 DEF IInv, TypeOK
<1> QED
    BY <1>1, <1>3, <1>5, <1>6, <1>7, <1>8, <1>9, <1>10, EnterIInv DEF CriticalLabels

\* What a returning call leaves behind.
LEMMA ReturnFacts ==
    ASSUME TypeOK, NEW p \in Procs, Return(p)
    PROVE  /\ running' \in [Cores -> Tasks \cup {None}]
           /\ held' \in [Procs -> Tasks \cup {None}]
           /\ target' \in [Procs -> Cores \cup {None}]
           /\ pc' \in [Procs -> Labels]
           /\ pc'[p] = "idle"
           /\ \A q \in Procs \ {p} : pc'[q] = pc[q] /\ target'[q] = target[q]
<1>1. running' \in [Cores -> Tasks \cup {None}]
    <2>1. held[p] # None => held[p] \in Tasks
        BY DEF TypeOK
    <2>2. CASE held[p] # None
        BY <2>1, <2>2 DEF TypeOK, Return
    <2>3. CASE held[p] = None
        BY <2>3 DEF TypeOK, Return
    <2> QED BY <2>2, <2>3
<1>2. /\ held' \in [Procs -> Tasks \cup {None}]
      /\ target' \in [Procs -> Cores \cup {None}]
      /\ pc' \in [Procs -> Labels]
    BY DEF TypeOK, Return, Goto, Labels
<1>3. pc'[p] = "idle"
    BY DEF TypeOK, Return, Goto
<1>4. \A q \in Procs \ {p} : pc'[q] = pc[q] /\ target'[q] = target[q]
    BY DEF TypeOK, Return, Goto
<1> QED BY <1>1, <1>2, <1>3, <1>4

\* The length after push() (scheduler.rs:276).
LEMMA PushLenIInv ==
    ASSUME IInv, NEW p \in Procs, PushLen(p) PROVE IInv'
<1> DEFINE c == target[p]
<1>1. c \in Cores /\ pc[p] = "push_len"
    BY DEF IInv, PushLen, CallsAreSound
<1>2. Inside(p, c)
    BY <1>1 DEF Inside
<1>3. len[c] + 1 = Len(queue[c]) /\ len[c] \in Nat
    BY <1>1, <1>2 DEF IInv, LenIsBehind, TypeOK
<1>4. /\ len' = [len EXCEPT ![c] = @ + 1]
      /\ qlock' = [qlock EXCEPT ![c] = None]
      /\ UNCHANGED <<queue, hand>>
    BY DEF PushLen
<1>5. /\ len' \in [Cores -> Nat]
      /\ len'[c] = Len(queue[c])
      /\ \A d \in Cores \ {c} : len'[d] = len[d]
    BY <1>1, <1>3, <1>4 DEF IInv, TypeOK
<1>6. qlock' \in [Cores -> Procs \cup {None}]
    BY <1>4 DEF IInv, TypeOK
<1>7. CASE hand[p] = <<>>
    <2>1. Return(p)
        BY <1>7 DEF PushLen
    <2>2. TypeOK'
        BY <1>5, <1>6, <2>1, ReturnFacts DEF IInv, PushLen, TypeOK
    <2>3. OthersRest(p) /\ pc'[p] = "idle"
        BY <1>4, <2>1, ReturnFacts DEF IInv, OthersRest
    <2>4. CallsAreSound'
        BY <1>4, <2>3 DEF IInv, CallsAreSound, OthersRest
    <2> QED BY <1>1, <1>2, <1>4, <1>5, <2>2, <2>3, <2>4, LeaveIInv DEF CriticalLabels
<1>8. CASE hand[p] # <<>>
    <2>1. Goto(p, "push") /\ UNCHANGED <<running, held, target>>
        BY <1>8 DEF PushLen
    <2>2. TypeOK'
        BY <1>5, <1>6, <2>1 DEF IInv, PushLen, TypeOK, Goto, Labels
    <2>3. OthersRest(p) /\ pc'[p] = "push"
        BY <1>4, <2>1 DEF IInv, OthersRest, Goto, TypeOK
    <2>4. CallsAreSound'
        BY <1>1, <1>4, <1>8, <2>1, <2>3 DEF IInv, CallsAreSound, OthersRest
    <2> QED BY <1>1, <1>2, <1>4, <1>5, <2>2, <2>3, <2>4, LeaveIInv DEF CriticalLabels
<1> QED BY <1>7, <1>8

\* pop() keeps the invariant, on a queue with tasks and on an empty one
\* (scheduler.rs:280-294).
LEMMA PopIInv ==
    ASSUME IInv, NEW c \in Cores, Pop(c) PROVE IInv'
<1>1. c \in Procs /\ pc[c] = "pop" /\ qlock[c] = None
    BY DEF Pop, Procs
<1>2. CASE queue[c] # <<>>
    <2>1. queue[c] \in Seq(Tasks)
        BY DEF IInv, TypeOK
    <2>2. /\ Head(queue[c]) \in Tasks
          /\ Tail(queue[c]) \in Seq(Tasks)
          /\ Len(queue[c]) = Len(Tail(queue[c])) + 1
        BY <1>2, <2>1, HeadTailProperties, LenProperties
    <2>3. /\ held' = [held EXCEPT ![c] = Head(queue[c])]
          /\ queue' = [queue EXCEPT ![c] = Tail(queue[c])]
          /\ qlock' = [qlock EXCEPT ![c] = c]
          /\ Goto(c, "pop_len")
          /\ UNCHANGED <<target, idx, best, len, fresh, parked, running, tstate, hand>>
        BY <1>2 DEF Pop
    <2>4. TypeOK'
        <3>1. queue' \in [Cores -> Seq(Tasks)]
            BY <2>2, <2>3 DEF IInv, TypeOK
        <3>2. held' \in [Procs -> Tasks \cup {None}]
            BY <2>2, <2>3 DEF IInv, TypeOK
        <3>3. pc' \in [Procs -> Labels] /\ qlock' \in [Cores -> Procs \cup {None}]
            BY <1>1, <2>3 DEF IInv, Goto, TypeOK, Labels
        <3> QED BY <2>3, <3>1, <3>2, <3>3 DEF IInv, TypeOK
    <2>5. OthersRest(c) /\ pc'[c] = "pop_len"
        BY <1>1, <2>3 DEF IInv, OthersRest, Goto, TypeOK
    <2>6. CallsAreSound'
        BY <2>3, <2>5 DEF IInv, CallsAreSound, OthersRest
    <2>7. \A d \in Cores : Inside(c, d)' <=> d = c
        BY <2>5 DEF Inside
    <2>8. queue'[c] = Tail(queue[c]) /\ \A d \in Cores \ {c} : queue'[d] = queue[d]
        BY <2>3 DEF IInv, TypeOK
    <2> QED
        BY <1>1, <2>2, <2>3, <2>4, <2>5, <2>6, <2>7, <2>8, EnterIInv DEF CriticalLabels
<1>3. CASE queue[c] = <<>>
    <2>1. /\ idx' = [idx EXCEPT ![c] = 0]
          /\ best' = [best EXCEPT ![c] = 1]
          /\ Goto(c, "scan_max")
          /\ UNCHANGED <<held, queue, qlock, target, len, fresh, parked, running,
                         tstate, hand>>
        BY <1>3 DEF Pop, StealThreshold
    <2>2. TypeOK'
        BY <1>1, <2>1, SchedulerAssumption DEF IInv, Goto, TypeOK, Labels
    <2>3. OthersRest(c) /\ pc'[c] = "scan_max"
        BY <1>1, <2>1 DEF IInv, OthersRest, Goto, TypeOK
    <2>4. CallsAreSound'
        BY <2>1, <2>3 DEF IInv, CallsAreSound, OthersRest
    <2> QED BY <1>1, <2>1, <2>2, <2>3, <2>4, OutsideIInv DEF CriticalLabels
<1> QED BY <1>2, <1>3

\* The length after pop() (scheduler.rs:283).
LEMMA PopLenIInv ==
    ASSUME IInv, NEW c \in Cores, PopLen(c) PROVE IInv'
<1>1. c \in Procs /\ pc[c] = "pop_len" /\ Inside(c, c)
    BY DEF PopLen, Procs, Inside
<1>2. len[c] = Len(queue[c]) + 1 /\ Len(queue[c]) \in Nat
    BY <1>1, LenProperties DEF IInv, LenIsBehind, TypeOK
<1>3. /\ len' = [len EXCEPT ![c] = @ - 1]
      /\ qlock' = [qlock EXCEPT ![c] = None]
      /\ Return(c)
      /\ UNCHANGED <<queue, fresh, parked, tstate, hand, idx, best>>
    BY DEF PopLen
<1>4. /\ len' \in [Cores -> Nat]
      /\ len'[c] = Len(queue[c])
      /\ \A d \in Cores \ {c} : len'[d] = len[d]
    BY <1>2, <1>3 DEF IInv, TypeOK
<1>5. TypeOK'
    BY <1>1, <1>3, <1>4, ReturnFacts DEF IInv, TypeOK
<1>6. OthersRest(c) /\ pc'[c] = "idle"
    BY <1>1, <1>3, ReturnFacts DEF IInv, OthersRest
<1>7. CallsAreSound'
    BY <1>3, <1>6 DEF IInv, CallsAreSound, OthersRest
<1> QED BY <1>1, <1>3, <1>4, <1>5, <1>6, <1>7, LeaveIInv DEF CriticalLabels

\* What steal_half() takes and what it leaves add up (scheduler.rs:297-318).
LEMMA TheftAddsUp ==
    ASSUME NEW v \in Cores, queue[v] \in Seq(Tasks), StealCount(v) > 0
    PROVE  /\ Head(Stolen(v)) \in Tasks
           /\ ToPush(v) \in Seq(Tasks)
           /\ Left(v) \in Seq(Tasks)
           /\ Len(queue[v]) = Len(Left(v)) + 1 + Len(ToPush(v))
           /\ 2 * Len(Left(v)) >= Len(queue[v])
           /\ Head(Left(v)) = Head(queue[v])
<1> DEFINE n == Len(queue[v])
           k == StealCount(v)
<1>1. n \in Nat /\ k \in Nat /\ k > 0 /\ 2 * k <= n
    <2>1. Len(queue[v]) \in Nat
        BY LenProperties
    <2>2. \A m \in Nat : m \div 2 \in Nat /\ 2 * (m \div 2) <= m
        OBVIOUS
    <2> QED BY <2>1, <2>2 DEF StealCount
<1>2. \A i \in 1..n : queue[v][i] \in Tasks
    BY ElementOfSeq
<1>3. Stolen(v) \in Seq(Tasks) /\ Len(Stolen(v)) = k
    <2>1. \A i \in 1..k : n + 1 - i \in 1..n
        BY <1>1
    <2>2. Stolen(v) \in [1..k -> Tasks]
        BY <1>2, <2>1 DEF Stolen
    <2> HIDE DEF k
    <2> QED BY <1>1, <2>2, SeqDef, LenProperties
<1>4. Stolen(v) # <<>>
    BY <1>1, <1>3
<1>5. /\ Head(Stolen(v)) \in Tasks
      /\ ToPush(v) \in Seq(Tasks)
      /\ Len(ToPush(v)) = k - 1
    BY <1>3, <1>4, HeadTailProperties DEF ToPush
<1>6. /\ Left(v) \in Seq(Tasks)
      /\ Len(Left(v)) = n - k
      /\ Left(v)[1] = queue[v][1]
    <2> HIDE DEF k
    <2>1. Left(v) = SubSeq(queue[v], 1, n - k)
        BY DEF Left, k
    <2>2. 1 \in 1..n /\ n - k \in 1..n
        BY <1>1
    <2> QED BY <1>1, <2>1, <2>2, SubSeqProperties
<1>7. Head(Left(v)) = Head(queue[v])
    BY <1>6
<1> QED BY <1>1, <1>5, <1>6, <1>7

\* steal_half() keeps the invariant, whether it finds enough or not
\* (scheduler.rs:297-318).
LEMMA StealIInv ==
    ASSUME IInv, NEW c \in Cores, Steal(c) PROVE IInv'
<1> DEFINE v == target[c]
<1>1. c \in Procs /\ v \in Cores /\ pc[c] = "steal" /\ qlock[v] = None
    BY DEF IInv, Steal, Procs, CallsAreSound
<1>2. queue[v] \in Seq(Tasks)
    BY <1>1 DEF IInv, TypeOK
<1>3. CASE StealCount(v) > 0
    <2>1. /\ held' = [held EXCEPT ![c] = Head(Stolen(v))]
          /\ hand' = [hand EXCEPT ![c] = ToPush(v)]
          /\ queue' = [queue EXCEPT ![v] = Left(v)]
          /\ qlock' = [qlock EXCEPT ![v] = c]
          /\ Goto(c, "steal_len")
          /\ UNCHANGED <<running, target, len, fresh, parked, tstate, idx, best>>
        BY <1>3 DEF Steal
    <2>2. /\ Head(Stolen(v)) \in Tasks
          /\ ToPush(v) \in Seq(Tasks)
          /\ Left(v) \in Seq(Tasks)
          /\ Len(queue[v]) = Len(Left(v)) + 1 + Len(ToPush(v))
        BY <1>1, <1>2, <1>3, TheftAddsUp
    <2>3. TypeOK'
        <3>1. queue' \in [Cores -> Seq(Tasks)]
            BY <2>1, <2>2 DEF IInv, TypeOK
        <3>2. hand' \in [Procs -> Seq(Tasks)]
            BY <2>1, <2>2 DEF IInv, TypeOK
        <3>3. held' \in [Procs -> Tasks \cup {None}]
            BY <2>1, <2>2 DEF IInv, TypeOK
        <3>4. pc' \in [Procs -> Labels] /\ qlock' \in [Cores -> Procs \cup {None}]
            BY <1>1, <2>1 DEF IInv, Goto, TypeOK, Labels
        <3> QED BY <2>1, <3>1, <3>2, <3>3, <3>4 DEF IInv, TypeOK
    <2>4. OthersRest(c) /\ pc'[c] = "steal_len" /\ target'[c] = v
        BY <1>1, <2>1 DEF IInv, OthersRest, Goto, TypeOK
    <2>5. CallsAreSound'
        BY <1>1, <2>1, <2>4 DEF IInv, CallsAreSound, OthersRest
    <2>6. \A d \in Cores : Inside(c, d)' <=> d = v
        BY <2>4 DEF Inside
    <2>7. queue'[v] = Left(v) /\ \A d \in Cores \ {v} : queue'[d] = queue[d]
        BY <1>1, <2>1 DEF IInv, TypeOK
    <2>8. Len(queue[v]) = Len(queue'[v]) + StolenLen(c)'
        <3>1. hand'[c] = ToPush(v)
            BY <1>1, <2>1 DEF IInv, TypeOK
        <3>2. Len(Left(v)) \in Nat /\ Len(ToPush(v)) \in Nat
            BY <2>2, LenProperties
        <3> QED BY <2>2, <2>7, <3>1, <3>2 DEF StolenLen
    <2> QED
        BY <1>1, <2>1, <2>3, <2>4, <2>5, <2>6, <2>7, <2>8, EnterIInv DEF CriticalLabels
<1>4. CASE ~(StealCount(v) > 0)
    <2>1. /\ Return(c)
          /\ UNCHANGED <<hand, queue, qlock, len, fresh, parked, tstate, idx, best>>
        BY <1>4 DEF Steal
    <2>2. TypeOK'
        BY <1>1, <2>1, ReturnFacts DEF IInv, TypeOK
    <2>3. OthersRest(c) /\ pc'[c] = "idle"
        BY <1>1, <2>1, ReturnFacts DEF IInv, OthersRest
    <2>4. CallsAreSound'
        BY <2>1, <2>3 DEF IInv, CallsAreSound, OthersRest
    <2> QED BY <1>1, <2>1, <2>2, <2>3, <2>4, OutsideIInv DEF CriticalLabels
<1> QED BY <1>3, <1>4

\* The length after a theft (scheduler.rs:315-316).
LEMMA StealLenIInv ==
    ASSUME IInv, NEW c \in Cores, StealLen(c) PROVE IInv'
<1> DEFINE v == target[c]
<1>1. c \in Procs /\ v \in Cores /\ pc[c] = "steal_len" /\ Inside(c, v)
    BY DEF IInv, StealLen, Procs, CallsAreSound, Inside
<1>2. /\ len[v] = Len(queue[v]) + StolenLen(c)
      /\ Len(queue[v]) \in Nat /\ StolenLen(c) \in Nat
    <2>1. Len(queue[v]) \in Nat /\ Len(hand[c]) \in Nat
        BY <1>1, LenProperties DEF IInv, TypeOK
    <2>2. len[v] = Len(queue[v]) + StolenLen(c)
        BY <1>1 DEF IInv, LenIsBehind
    <2> QED BY <2>1, <2>2 DEF StolenLen
<1>3. /\ len' = [len EXCEPT ![v] = @ - StolenLen(c)]
      /\ qlock' = [qlock EXCEPT ![v] = None]
      /\ UNCHANGED <<queue, fresh, parked, tstate, hand, idx, best>>
    BY DEF StealLen
<1>4. /\ len' \in [Cores -> Nat]
      /\ len'[v] = Len(queue[v])
      /\ \A d \in Cores \ {v} : len'[d] = len[d]
    BY <1>1, <1>2, <1>3 DEF IInv, TypeOK
<1>5. qlock' \in [Cores -> Procs \cup {None}]
    BY <1>3 DEF IInv, TypeOK
<1>6. CASE hand[c] = <<>>
    <2>1. Return(c)
        BY <1>6 DEF StealLen
    <2>2. TypeOK'
        BY <1>1, <1>3, <1>4, <1>5, <2>1, ReturnFacts DEF IInv, TypeOK
    <2>3. OthersRest(c) /\ pc'[c] = "idle"
        BY <1>1, <1>3, <2>1, ReturnFacts DEF IInv, OthersRest
    <2>4. CallsAreSound'
        BY <1>3, <2>3 DEF IInv, CallsAreSound, OthersRest
    <2> QED BY <1>1, <1>3, <1>4, <2>2, <2>3, <2>4, LeaveIInv DEF CriticalLabels
<1>7. CASE hand[c] # <<>>
    <2>1. /\ target' = [target EXCEPT ![c] = c]
          /\ Goto(c, "push")
          /\ UNCHANGED <<running, held>>
        BY <1>7 DEF StealLen
    <2>2. TypeOK'
        BY <1>1, <1>3, <1>4, <1>5, <2>1 DEF IInv, TypeOK, Goto, Labels
    <2>3. OthersRest(c) /\ pc'[c] = "push" /\ target'[c] = c
        BY <1>1, <1>3, <2>1 DEF IInv, OthersRest, Goto, TypeOK
    <2>4. CallsAreSound'
        BY <1>3, <1>7, <2>3 DEF IInv, CallsAreSound, OthersRest
    <2> QED BY <1>1, <1>3, <1>4, <2>2, <2>3, <2>4, LeaveIInv DEF CriticalLabels
<1> QED BY <1>6, <1>7

\* A step of least_loaded_core() or busiest_core() (scheduler.rs:412-424,
\* 472-486).
LEMMA ScanIInv ==
    ASSUME IInv, NEW p \in Procs,
           ScanMin(p) \/ (p \in Cores /\ ScanMax(p))
    PROVE  IInv'
<1>1. /\ idx[p] \in Cores
      /\ idx' = [idx EXCEPT ![p] = @ + 1]
      /\ UNCHANGED <<queue, len, qlock, fresh, parked, running, tstate, pc, hand, held>>
      /\ pc[p] \in {"scan_min", "scan_max"}
    BY SchedulerAssumption DEF IInv, TypeOK, ScanMin, ScanMax, Cores
<1>2. \/ UNCHANGED <<best, target>>
      \/ /\ best' = [best EXCEPT ![p] = len[idx[p]]]
         /\ target' = [target EXCEPT ![p] = idx[p]]
    BY DEF ScanMin, ScanMax
<1>3. TypeOK'
    <2>1. idx' \in [Procs -> 0..NumCores]
        BY <1>1, SchedulerAssumption DEF IInv, TypeOK, Cores
    <2>2. best' \in [Procs -> Nat] /\ target' \in [Procs -> Cores \cup {None}]
        BY <1>1, <1>2 DEF IInv, TypeOK
    <2> QED BY <1>1, <2>1, <2>2 DEF IInv, TypeOK
<1>4. OthersRest(p)
    BY <1>1, <1>2 DEF IInv, OthersRest, TypeOK
<1>5. CallsAreSound'
    BY <1>1, <1>2 DEF IInv, CallsAreSound, TypeOK
<1> QED BY <1>1, <1>3, <1>4, <1>5, OutsideIInv DEF CriticalLabels

\* The end of a scan: spawn() pushes, schedule() steals or gives up.
LEMMA ScanDoneIInv ==
    ASSUME IInv, NEW p \in Procs,
           ScanMinDone(p) \/ (p \in Cores /\ ScanMaxDone(p))
    PROVE  IInv'
<1>1. /\ ForgetScan(p)
      /\ UNCHANGED <<queue, len, qlock, fresh, parked, tstate, hand>>
    BY DEF ScanMinDone, ScanMaxDone
<1>2. idx' \in [Procs -> 0..NumCores] /\ best' \in [Procs -> Nat]
    BY <1>1, SchedulerAssumption DEF IInv, TypeOK, ForgetScan
<1>3. CASE Return(p) /\ pc[p] = "scan_max"
    <2>1. TypeOK'
        BY <1>1, <1>2, <1>3, ReturnFacts DEF IInv, TypeOK
    <2>2. OthersRest(p) /\ pc'[p] = "idle"
        BY <1>1, <1>3, ReturnFacts DEF IInv, OthersRest
    <2>3. CallsAreSound'
        BY <1>1, <2>2 DEF IInv, CallsAreSound, OthersRest
    <2> QED BY <1>1, <1>3, <2>1, <2>2, <2>3, OutsideIInv DEF CriticalLabels
<1>4. ASSUME NEW to \in {"push", "steal"}, Goto(p, to),
             UNCHANGED <<running, held, target>>,
             \/ to = "push" /\ pc[p] = "scan_min"
             \/ to = "steal" /\ pc[p] = "scan_max" /\ p \in Cores /\ target[p] # None
      PROVE  IInv'
    <2>1. TypeOK'
        BY <1>1, <1>2, <1>4 DEF IInv, TypeOK, Goto, Labels
    <2>2. OthersRest(p) /\ pc'[p] = to
        BY <1>1, <1>4 DEF IInv, OthersRest, Goto, TypeOK
    <2>3. CallsAreSound'
        <3>1. target[p] \in Cores
            BY <1>4 DEF IInv, CallsAreSound, TypeOK
        <3> QED BY <1>1, <1>4, <2>2, <3>1 DEF IInv, CallsAreSound, OthersRest
    <2> QED BY <1>1, <1>4, <2>1, <2>2, <2>3, OutsideIInv DEF CriticalLabels
<1>5. CASE ScanMinDone(p)
    BY <1>4, <1>5 DEF ScanMinDone
<1>6. CASE p \in Cores /\ ScanMaxDone(p)
    BY <1>3, <1>4, <1>6 DEF ScanMaxDone
<1> QED BY <1>5, <1>6

\* spawn(), spawn_on_core(), wake() and preempt_current() take a task in hand
\* and make for push() (scheduler.rs:373-409, 499-520).
LEMMA GiveIInv ==
    ASSUME IInv, NEW p \in Procs, NEW t \in Tasks, NEW c \in Cores,
           pc[p] = "idle",
           hand' = [hand EXCEPT ![p] = <<t>>],
           target' = [target EXCEPT ![p] = c],
           Goto(p, "push") \/ Goto(p, "scan_min"),
           UNCHANGED <<queue, len, qlock, held>>,
           fresh' \subseteq Tasks, parked' \subseteq Tasks,
           running' \in [Cores -> Tasks \cup {None}],
           tstate' \in [Tasks -> {"Ready", "Running", "Blocked", "Dead"}],
           idx' \in [Procs -> 0..NumCores], best' \in [Procs -> Nat]
    PROVE  IInv'
<1>1. <<t>> \in Seq(Tasks) /\ <<t>> # <<>>
    OBVIOUS
<1>2. TypeOK'
    <2>1. hand' \in [Procs -> Seq(Tasks)]
        BY <1>1 DEF IInv, TypeOK
    <2>2. target' \in [Procs -> Cores \cup {None}] /\ pc' \in [Procs -> Labels]
        BY DEF IInv, TypeOK, Goto, Labels
    <2> QED BY <2>1, <2>2 DEF IInv, TypeOK
<1>3. /\ OthersRest(p)
      /\ pc'[p] \in {"push", "scan_min"} /\ target'[p] = c /\ hand'[p] = <<t>>
    BY DEF IInv, OthersRest, Goto, TypeOK
<1>4. CallsAreSound'
    BY <1>1, <1>3 DEF IInv, CallsAreSound, OthersRest
<1> QED BY <1>2, <1>3, <1>4, OutsideIInv DEF CriticalLabels

\* A spawning thread's calls.
LEMMA SpawnerIInv ==
    ASSUME IInv, NEW s \in Spawners, NEW t \in Tasks,
           Spawn(s, t) \/ (\E c \in Cores : SpawnOnCore(s, t, c) \/ Wake(s, t, c))
    PROVE  IInv'
<1>1. s \in Procs
    BY DEF Procs
<1>2. CASE Spawn(s, t)
    <2>1. 0 \in Cores /\ (Affinity[t] # None => Affinity[t] \in Cores)
        BY SchedulerAssumption DEF Cores
    <2>2. /\ pc[s] = "idle"
          /\ hand' = [hand EXCEPT ![s] = <<t>>]
          /\ \E c \in Cores : target' = [target EXCEPT ![s] = c]
          /\ Goto(s, "push") \/ Goto(s, "scan_min")
          /\ UNCHANGED <<queue, len, qlock, parked, running, tstate, held>>
          /\ fresh' \subseteq fresh
        BY <1>2, <2>1 DEF Spawn, Give
    <2>3. idx' \in [Procs -> 0..NumCores] /\ best' \in [Procs -> Nat]
        <3>1. CASE UNCHANGED <<idx, best>>
            BY <3>1 DEF IInv, TypeOK
        <3>2. CASE /\ idx' = [idx EXCEPT ![s] = 0]
                   /\ best' = [best EXCEPT ![s] = U64_MAX]
            <4>1. U64_MAX \in Nat /\ 0 \in 0..NumCores
                BY SchedulerAssumption
            <4> QED BY <3>2, <4>1 DEF IInv, TypeOK
        <3> QED BY <1>2, <3>1, <3>2 DEF Spawn
    <2> QED BY <1>1, <2>2, <2>3, GiveIInv DEF IInv, TypeOK
<1>3. ASSUME NEW c \in Cores, SpawnOnCore(s, t, c) PROVE IInv'
    BY <1>1, <1>3, GiveIInv DEF IInv, TypeOK, SpawnOnCore, Give
<1>4. ASSUME NEW c \in Cores, Wake(s, t, c) PROVE IInv'
    BY <1>1, <1>4, GiveIInv DEF IInv, TypeOK, Wake, Give
<1> QED BY <1>2, <1>3, <1>4

\* A core's timer, and its task that blocks.
LEMMA CoreIInv ==
    ASSUME IInv, NEW c \in Cores, Tick(c) \/ BlockCurrent(c) PROVE IInv'
<1>1. c \in Procs
    BY DEF Procs
<1>2. CASE PreemptCurrent(c)
    <2>1. running[c] \in Tasks
        BY <1>2 DEF IInv, TypeOK, PreemptCurrent
    <2>2. running' \in [Cores -> Tasks \cup {None}]
        BY <1>2 DEF IInv, TypeOK, PreemptCurrent
    <2>3. tstate' \in [Tasks -> {"Ready", "Running", "Blocked", "Dead"}]
        BY <1>2 DEF IInv, TypeOK, PreemptCurrent
    <2> QED BY <1>1, <1>2, <2>1, <2>2, <2>3, GiveIInv DEF IInv, TypeOK, PreemptCurrent, Give
<1>3. CASE Schedule(c) \/ BlockCurrent(c)
    <2>1. TypeOK'
        <3>1. parked' \subseteq Tasks /\ running' \in [Cores -> Tasks \cup {None}]
            BY <1>3 DEF IInv, TypeOK, Schedule, BlockCurrent
        <3>2. pc' \in [Procs -> Labels]
            BY <1>3 DEF IInv, TypeOK, Schedule, BlockCurrent, Goto, Labels
        <3> QED BY <1>3, <3>1, <3>2 DEF IInv, TypeOK, Schedule, BlockCurrent
    <2>2. /\ OthersRest(c) /\ pc'[c] = "pop" /\ pc[c] = "idle"
          /\ UNCHANGED <<queue, len, qlock, target, hand>>
        BY <1>1, <1>3 DEF IInv, TypeOK, OthersRest, Schedule, BlockCurrent, Goto
    <2>3. CallsAreSound'
        BY <2>2 DEF IInv, CallsAreSound, OthersRest
    <2> QED BY <1>1, <2>1, <2>2, <2>3, OutsideIInv DEF CriticalLabels
<1> QED BY <1>2, <1>3 DEF Tick

\* Every step of a core or of a spawning thread keeps the invariant.
LEMMA NextIInv == IInv /\ [Next]_vars => IInv'
<1> SUFFICES ASSUME IInv, [Next]_vars PROVE IInv'
    OBVIOUS
<1>1. Cores \subseteq Procs /\ Spawners \subseteq Procs
    BY DEF Procs
<1>2. ASSUME NEW c \in Cores, CoreInCall(c) PROVE IInv'
    BY <1>1, <1>2, PopIInv, PopLenIInv, ScanIInv, ScanDoneIInv, StealIInv, StealLenIInv,
       PushIInv, PushLenIInv DEF CoreInCall
<1>3. ASSUME NEW c \in Cores, Tick(c) \/ BlockCurrent(c) PROVE IInv'
    BY <1>3, CoreIInv
<1>4. ASSUME NEW s \in Spawners, SpawnerInCall(s) PROVE IInv'
    BY <1>1, <1>4, ScanIInv, ScanDoneIInv, PushIInv, PushLenIInv DEF SpawnerInCall
<1>5. ASSUME NEW s \in Spawners, NEW t \in Tasks,
             Spawn(s, t) \/ (\E c \in Cores : SpawnOnCore(s, t, c) \/ Wake(s, t, c))
      PROVE  IInv'
    BY <1>5, SpawnerIInv
<1>6. CASE UNCHANGED vars
    BY <1>6 DEF vars, IInv, TypeOK, LenIsExact, CallsAreSound, HolderIsInside,
                LenIsBehind, Inside, StolenLen
<1> QED BY <1>2, <1>3, <1>4, <1>5, <1>6 DEF Next

\* The scheduler keeps the invariant for ever.
LEMMA AlwaysIInv == Spec => []IInv
<1> QED BY InitIInv, NextIInv, PTL DEF Spec

\* Queues and hands hold tasks, and no fetch_sub takes the length of a queue
\* below zero, for any number of cores and tasks (scheduler.rs:267-318).
THEOREM SchedulerTypeCorrect == Spec => []TypeOK
<1>1. IInv => TypeOK
    BY DEF IInv
<1> QED BY <1>1, AlwaysIInv, PTL

\* The length read for steal decisions is exact whenever the lock of the queue
\* is free (scheduler.rs:251).
THEOREM SchedulerLenIsExact == Spec => []LenIsExact
<1>1. IInv => LenIsExact
    BY DEF IInv
<1> QED BY <1>1, AlwaysIInv, PTL

\* A queue gets shorter in its owner's pop() and in a theft, and there only as
\* OnlyOwnerTakesFront says.
LEMMA ShorterStep ==
    ASSUME IInv, [Next]_vars, NEW c \in Cores, Len(queue'[c]) < Len(queue[c])
    PROVE  \/ pc[c] = "pop" /\ queue'[c] = Tail(queue[c])
           \/ /\ 2 * Len(queue'[c]) >= Len(queue[c])
              /\ Head(queue'[c]) = Head(queue[c])
<1>1. queue \in [Cores -> Seq(Tasks)] /\ Len(queue[c]) \in Nat
    BY LenProperties DEF IInv, TypeOK
<1>2. queue' # queue
    BY <1>1
<1>3. ASSUME NEW p \in Procs, Push(p) PROVE FALSE
    <2>1. target[p] \in Cores /\ hand[p] # <<>> /\ hand[p] \in Seq(Tasks)
        BY <1>3 DEF IInv, Push, CallsAreSound, TypeOK
    <2>2. Head(hand[p]) \in Tasks
        BY <2>1, HeadTailProperties
    <2>3. queue' = [queue EXCEPT ![target[p]] = Append(queue[target[p]], Head(hand[p]))]
        BY <1>3 DEF Push, PushBack
    <2>4. CASE target[p] = c
        <3>1. queue'[c] = Append(queue[c], Head(hand[p]))
            BY <1>1, <2>3, <2>4
        <3>2. Len(queue'[c]) = Len(queue[c]) + 1
            BY <1>1, <2>2, <3>1, AppendProperties
        <3> QED BY <1>1, <3>2
    <2>5. CASE target[p] # c
        BY <1>1, <2>3, <2>5
    <2> QED BY <2>4, <2>5
<1>4. ASSUME NEW d \in Cores, Pop(d)
      PROVE  pc[c] = "pop" /\ queue'[c] = Tail(queue[c])
    <2>1. queue' = [queue EXCEPT ![d] = Tail(queue[d])] /\ pc[d] = "pop"
        BY <1>2, <1>4 DEF Pop
    <2>2. d = c
        BY <1>1, <2>1
    <2> QED BY <1>1, <2>1, <2>2
<1>5. ASSUME NEW d \in Cores, Steal(d)
      PROVE  2 * Len(queue'[c]) >= Len(queue[c]) /\ Head(queue'[c]) = Head(queue[c])
    <2>1. /\ StealCount(target[d]) > 0
          /\ queue' = [queue EXCEPT ![target[d]] = Left(target[d])]
        BY <1>2, <1>5 DEF Steal
    <2>2. target[d] = c
        BY <1>1, <2>1
    <2>3. queue'[c] = Left(c)
        BY <1>1, <2>1, <2>2
    <2> QED BY <1>1, <2>1, <2>2, <2>3, TheftAddsUp
<1>6. Cores \subseteq Procs /\ Spawners \subseteq Procs
    BY DEF Procs
<1>7. ASSUME NEW d \in Cores, CoreInCall(d)
      PROVE  Push(d) \/ Pop(d) \/ Steal(d)
    BY <1>2, <1>7 DEF CoreInCall, PopLen, ScanMax, ScanMaxDone, StealLen, PushLen
<1>8. ASSUME NEW s \in Spawners, SpawnerInCall(s) PROVE Push(s)
    BY <1>2, <1>8 DEF SpawnerInCall, ScanMin, ScanMinDone, PushLen
<1>9. \/ \E d \in Cores : CoreInCall(d)
      \/ \E s \in Spawners : SpawnerInCall(s)
    BY <1>2 DEF Next, vars, Tick, PreemptCurrent, Schedule, BlockCurrent, Spawn,
                SpawnOnCore, Wake
<1> QED BY <1>3, <1>4, <1>5, <1>6, <1>7, <1>8, <1>9

\* Nobody but the owner of a queue takes its front, and a thief leaves at least
\* half, whatever the length it read was (scheduler.rs:280-318, 473).
THEOREM SchedulerOnlyOwnerTakesFront == Spec => OnlyOwnerTakesFront
<1>1. IInv /\ [Next]_vars =>
          [\A c \in Cores : Len(queue'[c]) < Len(queue[c]) =>
              \/ pc[c] = "pop" /\ queue'[c] = Tail(queue[c])
              \/ /\ 2 * Len(queue'[c]) >= Len(queue[c])
                 /\ Head(queue'[c]) = Head(queue[c])]_vars
    BY ShorterStep
<1> QED BY <1>1, AlwaysIInv, PTL DEF Spec, OnlyOwnerTakesFront
-----------------------------------------------------------------------------
(* Every task is in one place                                              *)

\* What a call has in its hands, and what the core it runs on does not have:
\* a task kept for the caller, tasks to push, a running task.
LocalsAreOwed ==
    /\ \A p \in Procs : held[p] # None =>
          p \in Cores /\ pc[p] \in {"pop_len", "steal_len", "push", "push_len"}
    /\ \A p \in Procs : hand[p] # <<>> =>
          pc[p] \in {"push", "push_len", "steal_len", "scan_min"}
    /\ \A c \in Cores : pc[c] # "idle" => running[c] = None

PlaceInv == OnePlace /\ LocalsAreOwed

\* IsAt spelled out: t is with p as kind, and nowhere else.
Only(t, kind, p) ==
    /\ kind \in Kinds /\ p \in Owners
    /\ kind \in {"queue", "running"} => p \in Cores
    /\ kind \in {"hand", "held"} => p \in Procs
    /\ kind \in {"fresh", "parked"} => p = None
    /\ \A c \in Cores : t \in Range(queue[c]) <=> kind = "queue" /\ p = c
    /\ \A q \in Procs : t \in Range(hand[q]) <=> kind = "hand" /\ p = q
    /\ \A q \in Procs : t = held[q] <=> kind = "held" /\ p = q
    /\ \A c \in Cores : t = running[c] <=> kind = "running" /\ p = c
    /\ t \in fresh <=> kind = "fresh"
    /\ t \in parked <=> kind = "parked"

OnlyAgrees ==
    \A t \in Tasks : InOnePlace(t) <=> \E kind \in Kinds, p \in Owners : Only(t, kind, p)

\* The two ways to say it agree.
LEMMA OnlyIsOnePlace == OnlyAgrees
<1> SUFFICES ASSUME NEW t \in Tasks
             PROVE  InOnePlace(t) <=> \E kind \in Kinds, p \in Owners : Only(t, kind, p)
    BY DEF OnlyAgrees
<1>0. Cores \subseteq Procs /\ Procs \subseteq Owners /\ None \in Owners /\ None \notin Procs
    BY SchedulerAssumption DEF Procs, Owners
<1>1. ASSUME NEW kind \in Kinds, NEW p \in Owners,
             \A k \in Kinds, q \in Owners : IsAt(t, k, q) <=> k = kind /\ q = p
      PROVE  Only(t, kind, p)
    <2>1. IsAt(t, kind, p)
        BY <1>1
    <2>2. /\ kind \in {"queue", "running"} => p \in Cores
          /\ kind \in {"hand", "held"} => p \in Procs
          /\ kind \in {"fresh", "parked"} => p = None
        BY <2>1 DEF IsAt
    <2>3. \A c \in Cores : t \in Range(queue[c]) <=> kind = "queue" /\ p = c
        <3> SUFFICES ASSUME NEW c \in Cores
                     PROVE  t \in Range(queue[c]) <=> kind = "queue" /\ p = c
            OBVIOUS
        <3>1. "queue" \in Kinds /\ c \in Owners
            BY <1>0 DEF Kinds
        <3>2. IsAt(t, "queue", c) <=> kind = "queue" /\ p = c
            BY <1>1, <3>1
        <3> QED BY <3>2 DEF IsAt
    <2>4. \A q \in Procs : t \in Range(hand[q]) <=> kind = "hand" /\ p = q
        <3> SUFFICES ASSUME NEW q \in Procs
                     PROVE  t \in Range(hand[q]) <=> kind = "hand" /\ p = q
            OBVIOUS
        <3>1. "hand" \in Kinds /\ q \in Owners
            BY <1>0 DEF Kinds
        <3>2. IsAt(t, "hand", q) <=> kind = "hand" /\ p = q
            BY <1>1, <3>1
        <3> QED BY <3>2 DEF IsAt
    <2>5. \A q \in Procs : t = held[q] <=> kind = "held" /\ p = q
        <3> SUFFICES ASSUME NEW q \in Procs PROVE t = held[q] <=> kind = "held" /\ p = q
            OBVIOUS
        <3>1. "held" \in Kinds /\ q \in Owners
            BY <1>0 DEF Kinds
        <3>2. IsAt(t, "held", q) <=> kind = "held" /\ p = q
            BY <1>1, <3>1
        <3> QED BY <3>2 DEF IsAt
    <2>6. \A c \in Cores : t = running[c] <=> kind = "running" /\ p = c
        <3> SUFFICES ASSUME NEW c \in Cores PROVE t = running[c] <=> kind = "running" /\ p = c
            OBVIOUS
        <3>1. "running" \in Kinds /\ c \in Owners
            BY <1>0 DEF Kinds
        <3>2. IsAt(t, "running", c) <=> kind = "running" /\ p = c
            BY <1>1, <3>1
        <3> QED BY <3>2 DEF IsAt
    <2>7. /\ t \in fresh <=> kind = "fresh"
          /\ t \in parked <=> kind = "parked"
        <3>1. "fresh" \in Kinds /\ "parked" \in Kinds
            BY DEF Kinds
        <3>2. /\ IsAt(t, "fresh", None) <=> kind = "fresh" /\ p = None
              /\ IsAt(t, "parked", None) <=> kind = "parked" /\ p = None
            BY <1>0, <1>1, <3>1
        <3> QED BY <2>2, <3>2 DEF IsAt
    <2> QED BY <2>2, <2>3, <2>4, <2>5, <2>6, <2>7 DEF Only
<1>2. ASSUME NEW kind \in Kinds, NEW p \in Owners, Only(t, kind, p)
      PROVE  \A k \in Kinds, q \in Owners : IsAt(t, k, q) <=> k = kind /\ q = p
    BY <1>0, <1>2 DEF Only, IsAt, Kinds
<1>3. InOnePlace(t) => \E kind \in Kinds, p \in Owners : Only(t, kind, p)
    <2> SUFFICES ASSUME InOnePlace(t) PROVE \E kind \in Kinds, p \in Owners : Only(t, kind, p)
        OBVIOUS
    <2>1. PICK kind \in Kinds, p \in Owners :
              /\ IsAt(t, kind, p)
              /\ \A k \in Kinds, q \in Owners : IsAt(t, k, q) => k = kind /\ q = p
        BY DEF InOnePlace
    <2>2. \A k \in Kinds, q \in Owners : IsAt(t, k, q) <=> k = kind /\ q = p
        BY <2>1
    <2>3. Only(t, kind, p)
        BY <1>1, <2>2
    <2> QED BY <2>3
<1>4. ASSUME NEW kind \in Kinds, NEW p \in Owners, Only(t, kind, p) PROVE InOnePlace(t)
    <2>1. \A k \in Kinds, q \in Owners : IsAt(t, k, q) <=> k = kind /\ q = p
        BY <1>2, <1>4
    <2> QED BY <2>1 DEF InOnePlace
<1> QED BY <1>3, <1>4

\* ... in the next state as well.
LEMMA OnlyIsOnePlaceNext == OnlyAgrees'
BY OnlyIsOnePlace, PTL

\* A step that does not touch task t.
Untouched(t) ==
    /\ \A c \in Cores : t \in Range(queue[c])' <=> t \in Range(queue[c])
    /\ \A q \in Procs : t \in Range(hand[q])' <=> t \in Range(hand[q])
    /\ \A q \in Procs : t = held'[q] <=> t = held[q]
    /\ \A c \in Cores : t = running'[c] <=> t = running[c]
    /\ t \in fresh' <=> t \in fresh
    /\ t \in parked' <=> t \in parked

\* A step keeps every task in one place when each task it touches ends up in one.
LEMMA PlacesAfter ==
    ASSUME OnePlace,
           \A t \in Tasks : \/ Untouched(t)
                            \/ \E kind \in Kinds, p \in Owners : Only(t, kind, p)'
    PROVE  \A t \in Tasks : InOnePlace(t)'
<1> SUFFICES ASSUME NEW t \in Tasks PROVE InOnePlace(t)'
    OBVIOUS
<1>1. \A u \in Tasks : InOnePlace(u)' <=> \E kind \in Kinds, p \in Owners : Only(u, kind, p)'
    BY OnlyIsOnePlaceNext DEF OnlyAgrees
<1>2. CASE Untouched(t)
    <2>1. PICK kind \in Kinds, p \in Owners : Only(t, kind, p)
        BY OnlyIsOnePlace DEF OnlyAgrees, OnePlace
    <2>2. Only(t, kind, p)'
        BY <1>2, <2>1 DEF Only, Untouched
    <2> QED BY <1>1, <2>2
<1> QED BY <1>1, <1>2

\* Where a task is found is the only place it is at.
LEMMA FoundOnly ==
    ASSUME OnePlace, NEW t \in Tasks
    PROVE  /\ \A c \in Cores : t \in Range(queue[c]) => Only(t, "queue", c)
           /\ \A p \in Procs : t \in Range(hand[p]) => Only(t, "hand", p)
           /\ \A p \in Procs : t = held[p] => Only(t, "held", p)
           /\ \A c \in Cores : t = running[c] => Only(t, "running", c)
           /\ t \in fresh => Only(t, "fresh", None)
           /\ t \in parked => Only(t, "parked", None)
<1>1. PICK kind \in Kinds, p \in Owners : Only(t, kind, p)
    BY OnlyIsOnePlace DEF OnlyAgrees, OnePlace
<1> QED BY <1>1 DEF Only

\* The members of a sequence, by position.
LEMMA MemberAt ==
    ASSUME NEW S, NEW s \in Seq(S), NEW e
    PROVE  e \in Range(s) <=> \E i \in 1..Len(s) : s[i] = e
<1>1. DOMAIN s = 1..Len(s)
    BY LenProperties
<1> QED BY <1>1 DEF Range

\* push_back() adds one member (scheduler.rs:273).
LEMMA AppendMembers ==
    ASSUME NEW S, NEW s \in Seq(S), NEW e \in S
    PROVE  /\ \A x : x \in Range(Append(s, e)) <=> x \in Range(s) \/ x = e
           /\ IsInjective(s) /\ e \notin Range(s) => IsInjective(Append(s, e))
<1> DEFINE a == Append(s, e)
<1>1. /\ a \in Seq(S) /\ Len(s) \in Nat /\ Len(a) = Len(s) + 1
      /\ \A i \in 1..Len(s) : a[i] = s[i]
      /\ a[Len(s) + 1] = e
      /\ DOMAIN s = 1..Len(s) /\ DOMAIN a = 1..Len(a)
    BY AppendProperties, LenProperties
<1> HIDE DEF a
<1>2. \A i \in 1..Len(a) : i \in 1..Len(s) \/ i = Len(s) + 1
    BY <1>1
<1>3. \A i \in 1..Len(s) : i \in 1..Len(a)
    BY <1>1
<1>4. Len(s) + 1 \in 1..Len(a)
    BY <1>1
<1>5. ASSUME NEW x PROVE x \in Range(a) <=> x \in Range(s) \/ x = e
    BY <1>1, <1>2, <1>3, <1>4, MemberAt
<1>6. ASSUME IsInjective(s), e \notin Range(s) PROVE IsInjective(a)
    <2>1. \A i \in 1..Len(s) : s[i] # e
        BY <1>6, MemberAt
    <2>2. \A i, j \in 1..Len(s) : s[i] = s[j] => i = j
        BY <1>1, <1>6 DEF IsInjective
    <2>3. \A i, j \in 1..Len(a) : a[i] = a[j] => i = j
        BY <1>1, <1>2, <2>1, <2>2
    <2> QED BY <1>1, <2>3 DEF IsInjective
<1> QED BY <1>5, <1>6 DEF a

\* pop_front() takes one member out (scheduler.rs:282).
LEMMA TailMembers ==
    ASSUME NEW S, NEW s \in Seq(S), s # <<>>, IsInjective(s)
    PROVE  /\ Head(s) \in S /\ Head(s) \in Range(s)
           /\ \A x : x \in Range(Tail(s)) <=> x \in Range(s) /\ x # Head(s)
           /\ IsInjective(Tail(s))
<1> DEFINE r == Tail(s)
<1>1. /\ r \in Seq(S) /\ Len(s) \in Nat /\ Len(r) = Len(s) - 1 /\ Len(s) # 0
      /\ \A i \in 1..Len(r) : r[i] = s[i + 1]
      /\ Head(s) = s[1] /\ Head(s) \in S
      /\ DOMAIN s = 1..Len(s) /\ DOMAIN r = 1..Len(r)
    BY HeadTailProperties, LenProperties
<1> HIDE DEF r
<1>2. \A i, j \in 1..Len(s) : s[i] = s[j] => i = j
    BY <1>1 DEF IsInjective
<1>3. 1 \in 1..Len(s) /\ \A i \in 1..Len(r) : i + 1 \in 1..Len(s) /\ i + 1 # 1
    BY <1>1
<1>4. \A i \in 1..Len(s) : i # 1 => i - 1 \in 1..Len(r) /\ (i - 1) + 1 = i
    BY <1>1
<1>5. ASSUME NEW x PROVE x \in Range(r) <=> x \in Range(s) /\ x # Head(s)
    <2>1. ASSUME NEW i \in 1..Len(r), r[i] = x PROVE x \in Range(s) /\ x # Head(s)
        BY <1>1, <1>2, <1>3, <2>1, MemberAt
    <2>2. ASSUME NEW i \in 1..Len(s), s[i] = x, x # Head(s) PROVE x \in Range(r)
        <3>1. i # 1
            BY <1>1, <2>2
        <3>2. r[i - 1] = x
            BY <1>1, <1>4, <2>2, <3>1
        <3> QED BY <1>1, <1>4, <3>1, <3>2, MemberAt
    <2> QED BY <1>1, <2>1, <2>2, MemberAt
<1>6. IsInjective(r)
    <2>1. \A i, j \in 1..Len(r) : r[i] = r[j] => i + 1 = j + 1
        BY <1>1, <1>2, <1>3
    <2>2. \A i, j \in 1..Len(r) : i + 1 = j + 1 => i = j
        BY <1>1
    <2> QED BY <1>1, <2>1, <2>2 DEF IsInjective
<1>7. Head(s) \in Range(s)
    BY <1>1, <1>3, MemberAt
<1> QED BY <1>1, <1>5, <1>6, <1>7 DEF r

\* A queue of one task.
LEMMA SingleMember ==
    ASSUME NEW t PROVE (\A x : x \in Range(<<t>>) <=> x = t) /\ IsInjective(<<t>>)
<1>1. DOMAIN <<t>> = {1} /\ <<t>>[1] = t
    OBVIOUS
<1> QED BY <1>1 DEF Range, IsInjective

\* No task is in an empty queue.
LEMMA NoMember == (\A x : x \notin Range(<<>>)) /\ IsInjective(<<>>)
<1>1. DOMAIN <<>> = {}
    OBVIOUS
<1> QED BY <1>1 DEF Range, IsInjective

\* steal_half() splits the queue of the victim in two (scheduler.rs:297-318).
LEMMA TheftSplits ==
    ASSUME NEW v \in Cores, queue[v] \in Seq(Tasks), IsInjective(queue[v]), StealCount(v) > 0
    PROVE  /\ Stolen(v) \in Seq(Tasks) /\ Stolen(v) # <<>>
           /\ IsInjective(Stolen(v)) /\ IsInjective(Left(v))
           /\ \A x : x \in Range(queue[v]) <=> x \in Range(Stolen(v)) \/ x \in Range(Left(v))
           /\ \A x : ~(x \in Range(Stolen(v)) /\ x \in Range(Left(v)))
<1> DEFINE q == queue[v]
           n == Len(queue[v])
           k == StealCount(v)
           st == Stolen(v)
           lf == Left(v)
<1>1. n \in Nat /\ k \in Nat /\ k > 0 /\ 2 * k <= n
    <2>1. Len(queue[v]) \in Nat
        BY LenProperties
    <2>2. \A m \in Nat : m \div 2 \in Nat /\ 2 * (m \div 2) <= m
        OBVIOUS
    <2> QED BY <2>1, <2>2 DEF StealCount
<1>2. \A i, j \in 1..n : q[i] = q[j] => i = j
    BY LenProperties DEF IsInjective
<1>3. /\ st \in Seq(Tasks) /\ Len(st) = k /\ DOMAIN st = 1..k
      /\ \A i \in 1..k : st[i] = q[n + 1 - i]
    <2>1. \A i \in 1..k : n + 1 - i \in 1..n
        BY <1>1
    <2>2. \A i \in 1..n : q[i] \in Tasks
        BY ElementOfSeq
    <2>3. st = [i \in 1..k |-> q[n + 1 - i]]
        BY DEF Stolen
    <2> HIDE DEF k, q, n
    <2>4. st \in [1..k -> Tasks]
        BY <2>1, <2>2, <2>3
    <2>5. \A i \in 1..k : st[i] = q[n + 1 - i]
        BY <2>3
    <2> HIDE DEF st
    <2> QED BY <1>1, <2>4, <2>5, SeqDef, LenProperties
<1>4. /\ lf \in Seq(Tasks) /\ Len(lf) = n - k /\ DOMAIN lf = 1..(n - k)
      /\ \A i \in 1..(n - k) : lf[i] = q[i]
    <2>1. lf = SubSeq(q, 1, n - k)
        BY DEF Left
    <2>2. 1 \in 1..n /\ n - k \in 1..n /\ n - k \in Nat
        BY <1>1
    <2> HIDE DEF k, lf
    <2>3. /\ lf \in Seq(Tasks) /\ Len(lf) = n - k
          /\ \A i \in 1..(n - k) : lf[i] = q[i]
        BY <1>1, <2>1, <2>2, SubSeqProperties
    <2> QED BY <2>2, <2>3, LenProperties
<1> HIDE DEF q, n, k, st, lf
<1>5. q \in Seq(Tasks) /\ n = Len(q)
    BY DEF q, n
<1>6. /\ \A i \in 1..k : n + 1 - i \in 1..n /\ n + 1 - i > n - k
      /\ \A i \in 1..(n - k) : i \in 1..n /\ i <= n - k
      /\ \A i \in 1..n : i \in 1..(n - k) \/ (n + 1 - i \in 1..k /\ n + 1 - (n + 1 - i) = i)
    BY <1>1
<1>7. IsInjective(st)
    <2>1. \A i, j \in 1..k : st[i] = st[j] => n + 1 - i = n + 1 - j
        BY <1>2, <1>3, <1>6
    <2>2. \A i, j \in 1..k : n + 1 - i = n + 1 - j => i = j
        BY <1>1
    <2> QED BY <1>3, <2>1, <2>2 DEF IsInjective
<1>8. IsInjective(lf)
    BY <1>2, <1>4, <1>6 DEF IsInjective
<1>9. ASSUME NEW x
      PROVE  /\ x \in Range(q) <=> x \in Range(st) \/ x \in Range(lf)
             /\ ~(x \in Range(st) /\ x \in Range(lf))
    <2>1. x \in Range(st) => \E i \in 1..n : q[i] = x /\ i > n - k
        BY <1>3, <1>6, MemberAt
    <2>2. x \in Range(lf) => \E i \in 1..n : q[i] = x /\ i <= n - k
        BY <1>4, <1>6, MemberAt
    <2>3. ASSUME NEW i \in 1..n, q[i] = x PROVE x \in Range(st) \/ x \in Range(lf)
        <3>1. CASE i \in 1..(n - k)
            BY <1>4, <2>3, <3>1, MemberAt
        <3>2. CASE n + 1 - i \in 1..k /\ n + 1 - (n + 1 - i) = i
            BY <1>3, <2>3, <3>2, MemberAt
        <3> QED BY <1>6, <3>1, <3>2
    <2>4. ~(x \in Range(st) /\ x \in Range(lf))
        <3> SUFFICES ASSUME x \in Range(st), x \in Range(lf) PROVE FALSE
            OBVIOUS
        <3>1. PICK i \in 1..n : q[i] = x /\ i > n - k
            BY <2>1
        <3>2. PICK j \in 1..n : q[j] = x /\ j <= n - k
            BY <2>2
        <3> QED BY <1>1, <1>2, <3>1, <3>2
    <2> QED BY <1>5, <2>1, <2>2, <2>3, <2>4, MemberAt
<1>10. st # <<>>
    BY <1>1, <1>3
<1> QED BY <1>3, <1>7, <1>8, <1>9, <1>10 DEF q, st, lf

\* A step that moves no task (scheduler.rs:412-424, 472-486).
LEMMA RestPlaces ==
    ASSUME PlaceInv, UNCHANGED <<queue, hand, held, running, fresh, parked>>, LocalsAreOwed'
    PROVE  PlaceInv'
<1>1. NoRepeats'
    BY DEF PlaceInv, OnePlace, NoRepeats
<1>2. \A t \in Tasks : Untouched(t)
    BY DEF Untouched
<1>3. \A t \in Tasks : InOnePlace(t)'
    BY <1>2, PlacesAfter DEF PlaceInv
<1> QED BY <1>1, <1>3 DEF PlaceInv, OnePlace

\* push() moves a task from the caller's hands to a queue (scheduler.rs:267-275).
LEMMA PushPlaces ==
    ASSUME IInv, PlaceInv, NEW p \in Procs, Push(p) PROVE PlaceInv'
<1>0. target[p] \in Cores /\ hand[p] # <<>> /\ hand[p] \in Seq(Tasks)
      /\ queue \in [Cores -> Seq(Tasks)] /\ hand \in [Procs -> Seq(Tasks)]
      /\ IsInjective(hand[p]) /\ pc \in [Procs -> Labels]
    BY DEF IInv, Push, CallsAreSound, TypeOK, PlaceInv, OnePlace, NoRepeats
<1>1. PICK c \in Cores : c = target[p]
    BY <1>0
<1>2. PICK t \in Tasks : t = Head(hand[p]) /\ t \in Range(hand[p])
    BY <1>0, TailMembers
<1>3. /\ queue' = [queue EXCEPT ![c] = Append(queue[c], t)]
      /\ hand' = [hand EXCEPT ![p] = Tail(hand[p])]
      /\ UNCHANGED <<held, running, fresh, parked>>
      /\ pc' = [pc EXCEPT ![p] = "push_len"] /\ pc[p] = "push"
    BY <1>1, <1>2 DEF Push, PushBack, Goto
<1>4. Only(t, "hand", p)
    BY <1>2, FoundOnly DEF PlaceInv
<1>5. t \notin Range(queue[c]) /\ IsInjective(queue[c]) /\ queue[c] \in Seq(Tasks)
    BY <1>0, <1>4 DEF Only, PlaceInv, OnePlace, NoRepeats
<1>6. /\ \A x : x \in Range(queue'[c]) <=> x \in Range(queue[c]) \/ x = t
      /\ IsInjective(queue'[c])
      /\ \A d \in Cores \ {c} : queue'[d] = queue[d]
    <2>1. queue'[c] = Append(queue[c], t) /\ \A d \in Cores \ {c} : queue'[d] = queue[d]
        BY <1>0, <1>3
    <2> QED BY <1>5, <2>1, AppendMembers
<1>7. /\ \A x : x \in Range(hand'[p]) <=> x \in Range(hand[p]) /\ x # t
      /\ IsInjective(hand'[p])
      /\ \A q \in Procs \ {p} : hand'[q] = hand[q]
    <2>1. hand'[p] = Tail(hand[p]) /\ \A q \in Procs \ {p} : hand'[q] = hand[q]
        BY <1>0, <1>3
    <2> QED BY <1>0, <1>2, <2>1, TailMembers
<1>8. NoRepeats'
    BY <1>6, <1>7 DEF PlaceInv, OnePlace, NoRepeats
<1>9. \A u \in Tasks : u # t => Untouched(u)
    BY <1>3, <1>6, <1>7 DEF Untouched
<1>10. Only(t, "queue", c)'
    BY <1>3, <1>4, <1>6, <1>7 DEF Only, Kinds, Owners, Procs
<1>11. \A u \in Tasks : InOnePlace(u)'
    <2>1. "queue" \in Kinds /\ c \in Owners
        BY DEF Kinds, Owners, Procs
    <2> QED BY <1>9, <1>10, <2>1, PlacesAfter DEF PlaceInv
<1>12. LocalsAreOwed'
    BY <1>0, <1>3, <1>7 DEF PlaceInv, LocalsAreOwed, Procs
<1> QED BY <1>8, <1>11, <1>12 DEF PlaceInv, OnePlace

\* A call that returns hands its task to the core (scheduler.rs:433-466).
LEMMA ReturnPlaces ==
    ASSUME IInv, PlaceInv, NEW p \in Procs, Return(p), pc[p] # "idle", hand[p] = <<>>,
           UNCHANGED <<queue, hand, fresh, parked>>
    PROVE  PlaceInv'
<1>0. /\ pc \in [Procs -> Labels] /\ held \in [Procs -> Tasks \cup {None}]
      /\ running \in [Cores -> Tasks \cup {None}] /\ None \notin Tasks
    BY SchedulerAssumption DEF IInv, TypeOK
<1>1. pc' = [pc EXCEPT ![p] = "idle"] /\ held' = [held EXCEPT ![p] = None]
    BY DEF Return, Goto
<1>2. NoRepeats'
    BY DEF PlaceInv, OnePlace, NoRepeats
<1>3. CASE held[p] = None
    <2>1. held' = held /\ running' = running
        BY <1>0, <1>1, <1>3 DEF Return
    <2>2. LocalsAreOwed'
        BY <1>0, <1>1, <1>3, <2>1 DEF PlaceInv, LocalsAreOwed
    <2> QED BY <2>1, <2>2, RestPlaces
<1>4. CASE held[p] # None
    <2>1. p \in Cores /\ running[p] = None
        BY <1>4 DEF PlaceInv, LocalsAreOwed
    <2>2. PICK t \in Tasks : t = held[p]
        BY <1>0, <1>4
    <2>3. running' = [running EXCEPT ![p] = t]
        BY <1>4, <2>2 DEF Return
    <2>4. Only(t, "held", p)
        BY <2>2, FoundOnly DEF PlaceInv
    <2>5. /\ held'[p] = None /\ \A q \in Procs \ {p} : held'[q] = held[q]
          /\ running'[p] = t /\ \A c \in Cores \ {p} : running'[c] = running[c]
        BY <1>0, <1>1, <2>1, <2>3
    <2>6. \A u \in Tasks : u # t => Untouched(u)
        BY <1>0, <2>1, <2>2, <2>5 DEF Untouched
    <2>7. Only(t, "running", p)'
        BY <1>0, <2>1, <2>4, <2>5 DEF Only, Kinds
    <2>8. \A u \in Tasks : InOnePlace(u)'
        <3>1. "running" \in Kinds /\ p \in Owners
            BY DEF Kinds, Owners
        <3> QED BY <2>6, <2>7, <3>1, PlacesAfter DEF PlaceInv
    <2>9. LocalsAreOwed'
        BY <1>0, <1>1, <2>1, <2>5 DEF PlaceInv, LocalsAreOwed
    <2> QED BY <1>2, <2>8, <2>9 DEF PlaceInv, OnePlace
<1> QED BY <1>3, <1>4

\* pop() moves the front of a queue into the caller's keeping (scheduler.rs:280-294).
LEMMA PopPlaces ==
    ASSUME IInv, PlaceInv, NEW c \in Cores, Pop(c) PROVE PlaceInv'
<1>0. /\ pc \in [Procs -> Labels] /\ held \in [Procs -> Tasks \cup {None}]
      /\ queue \in [Cores -> Seq(Tasks)] /\ None \notin Tasks /\ c \in Procs
      /\ queue[c] \in Seq(Tasks) /\ IsInjective(queue[c])
    BY SchedulerAssumption DEF IInv, TypeOK, Procs, PlaceInv, OnePlace, NoRepeats
<1>1. pc[c] = "pop" /\ UNCHANGED <<hand, running, fresh, parked>> /\ held[c] = None
    BY <1>0 DEF Pop, PlaceInv, LocalsAreOwed
<1>2. CASE queue[c] = <<>>
    <2>1. UNCHANGED <<queue, held>> /\ pc' = [pc EXCEPT ![c] = "scan_max"]
        BY <1>2 DEF Pop, Goto
    <2>2. LocalsAreOwed'
        BY <1>0, <1>1, <2>1 DEF PlaceInv, LocalsAreOwed, Procs
    <2> QED BY <1>1, <2>1, <2>2, RestPlaces
<1>3. CASE queue[c] # <<>>
    <2>1. PICK t \in Tasks : t = Head(queue[c]) /\ t \in Range(queue[c])
        BY <1>0, <1>3, TailMembers
    <2>2. /\ held' = [held EXCEPT ![c] = t]
          /\ queue' = [queue EXCEPT ![c] = Tail(queue[c])]
          /\ pc' = [pc EXCEPT ![c] = "pop_len"]
        BY <1>3, <2>1 DEF Pop, Goto
    <2>3. Only(t, "queue", c)
        BY <2>1, FoundOnly DEF PlaceInv
    <2>4. /\ \A x : x \in Range(queue'[c]) <=> x \in Range(queue[c]) /\ x # t
          /\ IsInjective(queue'[c])
          /\ \A d \in Cores \ {c} : queue'[d] = queue[d]
        <3>1. queue'[c] = Tail(queue[c]) /\ \A d \in Cores \ {c} : queue'[d] = queue[d]
            BY <1>0, <2>2
        <3> QED BY <1>0, <1>3, <2>1, <3>1, TailMembers
    <2>5. held'[c] = t /\ \A q \in Procs \ {c} : held'[q] = held[q]
        BY <1>0, <2>2
    <2>6. NoRepeats'
        BY <1>1, <2>4 DEF PlaceInv, OnePlace, NoRepeats
    <2>7. \A u \in Tasks : u # t => Untouched(u)
        BY <1>0, <1>1, <2>4, <2>5 DEF Untouched
    <2>8. Only(t, "held", c)'
        BY <1>0, <1>1, <2>3, <2>4, <2>5 DEF Only, Kinds
    <2>9. \A u \in Tasks : InOnePlace(u)'
        <3>1. "held" \in Kinds /\ c \in Owners
            BY <1>0 DEF Kinds, Owners
        <3> QED BY <2>7, <2>8, <3>1, PlacesAfter DEF PlaceInv
    <2>10. LocalsAreOwed'
        BY <1>0, <1>1, <2>2, <2>5 DEF PlaceInv, LocalsAreOwed
    <2> QED BY <2>6, <2>9, <2>10 DEF PlaceInv, OnePlace
<1> QED BY <1>2, <1>3

\* steal_half() moves the back half of a queue to the thief: the first task is
\* kept, the others go to its hands (scheduler.rs:297-318, 450-461).
LEMMA StealPlaces ==
    ASSUME IInv, PlaceInv, NEW c \in Cores, Steal(c) PROVE PlaceInv'
<1>0. /\ pc \in [Procs -> Labels] /\ held \in [Procs -> Tasks \cup {None}]
      /\ queue \in [Cores -> Seq(Tasks)] /\ hand \in [Procs -> Seq(Tasks)]
      /\ None \notin Tasks /\ c \in Procs
    BY SchedulerAssumption DEF IInv, TypeOK, Procs
<1>1. pc[c] = "steal" /\ UNCHANGED <<fresh, parked>> /\ held[c] = None /\ hand[c] = <<>>
    BY <1>0 DEF Steal, PlaceInv, LocalsAreOwed
<1>2. PICK v \in Cores : v = target[c]
    BY <1>0, <1>1 DEF IInv, CallsAreSound
<1>3. CASE ~(StealCount(v) > 0)
    BY <1>0, <1>1, <1>2, <1>3, ReturnPlaces DEF Steal
<1>4. CASE StealCount(v) > 0
    <2> DEFINE st == Stolen(v)
               lf == Left(v)
    <2>1. /\ st \in Seq(Tasks) /\ st # <<>> /\ IsInjective(st) /\ IsInjective(lf)
          /\ \A x : x \in Range(queue[v]) <=> x \in Range(st) \/ x \in Range(lf)
          /\ \A x : ~(x \in Range(st) /\ x \in Range(lf))
        BY <1>0, <1>4, TheftSplits DEF PlaceInv, OnePlace, NoRepeats
    <2>2. /\ held' = [held EXCEPT ![c] = Head(st)]
          /\ hand' = [hand EXCEPT ![c] = Tail(st)]
          /\ queue' = [queue EXCEPT ![v] = lf]
          /\ pc' = [pc EXCEPT ![c] = "steal_len"] /\ UNCHANGED running
        BY <1>2, <1>4 DEF Steal, Goto, ToPush
    <2> HIDE DEF st, lf
    <2>3. PICK t \in Tasks : t = Head(st) /\ t \in Range(st)
        BY <2>1, TailMembers
    <2>4. /\ \A x : x \in Range(Tail(st)) <=> x \in Range(st) /\ x # t
          /\ IsInjective(Tail(st))
        BY <2>1, <2>3, TailMembers
    <2>5. /\ held'[c] = t /\ \A q \in Procs \ {c} : held'[q] = held[q]
          /\ hand'[c] = Tail(st) /\ \A q \in Procs \ {c} : hand'[q] = hand[q]
          /\ queue'[v] = lf /\ \A d \in Cores \ {v} : queue'[d] = queue[d]
        BY <1>0, <2>2, <2>3
    <2>6. NoRepeats'
        BY <2>1, <2>4, <2>5 DEF PlaceInv, OnePlace, NoRepeats
    <2>7. \A x : x \notin Range(hand[c])
        BY <1>1, NoMember
    <2>8. ASSUME NEW u \in Tasks, u \notin Range(st) PROVE Untouched(u)
        BY <1>0, <1>1, <2>1, <2>2, <2>3, <2>4, <2>5, <2>7, <2>8 DEF Untouched
    <2>9. ASSUME NEW u \in Tasks, u \in Range(st) PROVE Only(u, "queue", v)
        BY <2>1, <2>9, FoundOnly DEF PlaceInv
    <2>0. "held" \in Kinds /\ "hand" \in Kinds /\ c \in Owners
        BY <1>0 DEF Kinds, Owners
    <2>10. Only(t, "held", c)'
        BY <1>0, <2>0, <1>1, <2>1, <2>2, <2>3, <2>4, <2>5, <2>9 DEF Only, Kinds
    <2>11. ASSUME NEW u \in Tasks, u \in Range(st), u # t PROVE Only(u, "hand", c)'
        BY <1>0, <2>0, <1>1, <2>1, <2>2, <2>3, <2>4, <2>5, <2>9, <2>11 DEF Only, Kinds
    <2>12. \A u \in Tasks : InOnePlace(u)'
        BY <2>0, <2>8, <2>10, <2>11, PlacesAfter DEF PlaceInv
    <2>13. LocalsAreOwed'
        BY <1>0, <1>1, <2>2, <2>5 DEF PlaceInv, LocalsAreOwed
    <2> QED BY <2>6, <2>12, <2>13 DEF PlaceInv, OnePlace
<1> QED BY <1>3, <1>4

\* spawn(), spawn_on_core(), wake() and preempt_current() take a task in hand:
\* it leaves the place it was in (scheduler.rs:373-409, 499-520).
LEMMA GivePlaces ==
    ASSUME IInv, PlaceInv, NEW p \in Procs, NEW t \in Tasks, pc[p] = "idle",
           \/ t \in fresh \/ t \in parked \/ (\E c \in Cores : t = running[c]),
           hand' = [hand EXCEPT ![p] = <<t>>],
           Goto(p, "push") \/ Goto(p, "scan_min"),
           UNCHANGED <<queue, held>>,
           fresh' = fresh \ {t}, parked' = parked \ {t},
           \A c \in Cores : \/ running'[c] = running[c] /\ running[c] # t
                            \/ running'[c] = None /\ running[c] = t,
           p \in Cores => running'[p] = None
    PROVE  PlaceInv'
<1>0. /\ pc \in [Procs -> Labels] /\ hand \in [Procs -> Seq(Tasks)]
      /\ None \notin Tasks /\ p \in Owners /\ Cores \subseteq Procs
    BY SchedulerAssumption DEF IInv, TypeOK, Owners, Procs
<1>1. hand[p] = <<>> /\ held[p] = None
    BY DEF PlaceInv, LocalsAreOwed
<1>2. /\ hand'[p] = <<t>> /\ \A q \in Procs \ {p} : hand'[q] = hand[q]
      /\ pc'[p] \in {"push", "scan_min"} /\ \A q \in Procs \ {p} : pc'[q] = pc[q]
    BY <1>0 DEF Goto
<1>3. /\ \A x : x \in Range(hand'[p]) <=> x = t
      /\ \A x : x \notin Range(hand[p])
      /\ IsInjective(hand'[p])
    BY <1>1, <1>2, SingleMember, NoMember
<1>4. NoRepeats'
    BY <1>2, <1>3 DEF PlaceInv, OnePlace, NoRepeats
<1>5. \A u \in Tasks : u # t => Untouched(u)
    BY <1>0, <1>2, <1>3 DEF Untouched
<1>6. Only(t, "hand", p)'
    <2>1. PICK kind \in Kinds, q \in Owners :
              Only(t, kind, q) /\ kind \in {"fresh", "parked", "running"}
        <3>1. "fresh" \in Kinds /\ "parked" \in Kinds /\ "running" \in Kinds
            BY DEF Kinds
        <3>2. None \in Owners /\ Cores \subseteq Owners
            BY DEF Owners, Procs
        <3> QED BY <3>1, <3>2, FoundOnly DEF PlaceInv
    <2>2. "hand" \in Kinds
        BY DEF Kinds
    <2>3. \A c \in Cores : running'[c] # t
        BY <1>0
    <2>4. /\ \A c \in Cores : t \notin Range(queue[c])
          /\ \A q2 \in Procs : t \notin Range(hand[q2]) /\ t # held[q2]
        BY <2>1 DEF Only
    <2> QED BY <1>0, <1>2, <1>3, <2>2, <2>3, <2>4 DEF Only
<1>7. \A u \in Tasks : InOnePlace(u)'
    <2>1. "hand" \in Kinds
        BY DEF Kinds
    <2> QED BY <1>0, <1>5, <1>6, <2>1, PlacesAfter DEF PlaceInv
<1>8. LocalsAreOwed'
    BY <1>0, <1>1, <1>2 DEF PlaceInv, LocalsAreOwed
<1> QED BY <1>4, <1>7, <1>8 DEF PlaceInv, OnePlace

\* The calls of a spawning thread.
LEMMA SpawnerPlaces ==
    ASSUME IInv, PlaceInv, NEW s \in Spawners, NEW t \in Tasks,
           Spawn(s, t) \/ (\E c \in Cores : SpawnOnCore(s, t, c) \/ Wake(s, t, c))
    PROVE  PlaceInv'
<1>0. s \in Procs /\ s \notin Cores /\ None \notin Tasks /\ fresh \subseteq Tasks
      /\ parked \subseteq Tasks /\ running \in [Cores -> Tasks \cup {None}]
    BY SchedulerAssumption DEF Procs, IInv, TypeOK
<1>1. CASE t \in fresh /\ fresh' = fresh \ {t} /\ UNCHANGED parked
    <2>1. Only(t, "fresh", None)
        BY <1>1, FoundOnly DEF PlaceInv
    <2>2. parked' = parked \ {t} /\ \A c \in Cores : running[c] # t
        BY <1>1, <2>1 DEF Only
    <2>3. /\ pc[s] = "idle" /\ hand' = [hand EXCEPT ![s] = <<t>>]
          /\ Goto(s, "push") \/ Goto(s, "scan_min")
          /\ UNCHANGED <<queue, held, running>>
        BY DEF Spawn, SpawnOnCore, Wake, Give
    <2> QED BY <1>0, <1>1, <2>2, <2>3, GivePlaces
<1>2. CASE t \in parked /\ parked' = parked \ {t} /\ UNCHANGED fresh
    <2>1. Only(t, "parked", None)
        BY <1>2, FoundOnly DEF PlaceInv
    <2>2. fresh' = fresh \ {t} /\ \A c \in Cores : running[c] # t
        BY <1>2, <2>1 DEF Only
    <2>3. /\ pc[s] = "idle" /\ hand' = [hand EXCEPT ![s] = <<t>>]
          /\ Goto(s, "push") \/ Goto(s, "scan_min")
          /\ UNCHANGED <<queue, held, running>>
        BY DEF Spawn, SpawnOnCore, Wake, Give
    <2> QED BY <1>0, <1>2, <2>2, <2>3, GivePlaces
<1> QED BY <1>1, <1>2 DEF Spawn, SpawnOnCore, Wake

\* The running task goes back to the queue, or blocks (scheduler.rs:488-520).
LEMMA CorePlaces ==
    ASSUME IInv, PlaceInv, NEW c \in Cores, Tick(c) \/ BlockCurrent(c) PROVE PlaceInv'
<1>0. /\ c \in Procs /\ None \notin Tasks /\ running \in [Cores -> Tasks \cup {None}]
      /\ pc \in [Procs -> Labels] /\ fresh \subseteq Tasks /\ parked \subseteq Tasks
    BY SchedulerAssumption DEF Procs, IInv, TypeOK
<1>1. CASE PreemptCurrent(c)
    <2>1. PICK t \in Tasks : t = running[c]
        BY <1>0, <1>1 DEF PreemptCurrent
    <2>2. Only(t, "running", c)
        BY <2>1, FoundOnly DEF PlaceInv
    <2>3. /\ fresh' = fresh \ {t} /\ parked' = parked \ {t}
          /\ \A d \in Cores : \/ running'[d] = running[d] /\ running[d] # t
                              \/ running'[d] = None /\ running[d] = t
          /\ running'[c] = None
        BY <1>0, <1>1, <2>2 DEF PreemptCurrent, Only
    <2>4. /\ pc[c] = "idle" /\ hand' = [hand EXCEPT ![c] = <<t>>]
          /\ Goto(c, "push") /\ UNCHANGED <<queue, held>>
        BY <1>1, <2>1 DEF PreemptCurrent, Give
    <2> QED BY <1>0, <2>1, <2>3, <2>4, GivePlaces
<1>2. CASE Schedule(c)
    <2>1. /\ UNCHANGED <<queue, hand, held, running, fresh, parked>>
          /\ pc' = [pc EXCEPT ![c] = "pop"] /\ pc[c] = "idle" /\ running[c] = None
        BY <1>2 DEF Schedule, Goto
    <2>2. LocalsAreOwed'
        BY <1>0, <2>1 DEF PlaceInv, LocalsAreOwed, Procs
    <2> QED BY <2>1, <2>2, RestPlaces
<1>3. CASE BlockCurrent(c)
    <2>1. PICK t \in Tasks : t = running[c]
        BY <1>0, <1>3 DEF BlockCurrent
    <2>2. Only(t, "running", c)
        BY <2>1, FoundOnly DEF PlaceInv
    <2>3. /\ parked' = parked \cup {t} /\ running' = [running EXCEPT ![c] = None]
          /\ pc' = [pc EXCEPT ![c] = "pop"] /\ pc[c] = "idle"
          /\ UNCHANGED <<queue, hand, held, fresh>>
        BY <1>3, <2>1 DEF BlockCurrent, Goto
    <2>4. running'[c] = None /\ \A d \in Cores \ {c} : running'[d] = running[d]
        BY <1>0, <2>3
    <2>5. NoRepeats'
        BY <2>3 DEF PlaceInv, OnePlace, NoRepeats
    <2>6. \A u \in Tasks : u # t => Untouched(u)
        BY <1>0, <2>1, <2>3, <2>4 DEF Untouched
    <2>7. "parked" \in Kinds /\ None \in Owners
        BY DEF Kinds, Owners
    <2>8. Only(t, "parked", None)'
        BY <1>0, <2>2, <2>3, <2>4, <2>7 DEF Only
    <2>9. \A u \in Tasks : InOnePlace(u)'
        BY <2>6, <2>7, <2>8, PlacesAfter DEF PlaceInv
    <2>10. LocalsAreOwed'
        BY <1>0, <2>3, <2>4 DEF PlaceInv, LocalsAreOwed, Procs
    <2> QED BY <2>5, <2>9, <2>10 DEF PlaceInv, OnePlace
<1> QED BY <1>1, <1>2, <1>3 DEF Tick

\* The steps that pay a length or scan, and end a call or go on with it.
LEMMA CallPlaces ==
    ASSUME IInv, PlaceInv, NEW p \in Procs,
           \/ PushLen(p) \/ ScanMin(p) \/ ScanMinDone(p)
           \/ PopLen(p) \/ ScanMax(p) \/ ScanMaxDone(p) \/ StealLen(p)
    PROVE  PlaceInv'
<1>0. pc \in [Procs -> Labels] /\ UNCHANGED <<queue, hand, fresh, parked>> /\ pc[p] # "idle"
    BY DEF IInv, TypeOK, PushLen, ScanMin, ScanMinDone, PopLen, ScanMax, ScanMaxDone, StealLen
<1>1. \/ /\ Return(p) /\ hand[p] = <<>>
      \/ /\ UNCHANGED <<running, held>>
         /\ \/ pc[p] \in {"push_len", "steal_len", "scan_min"} /\ pc' = [pc EXCEPT ![p] = "push"]
            \/ pc[p] = "scan_max" /\ pc' = [pc EXCEPT ![p] = "steal"]
            \/ UNCHANGED pc
    <2>1. pc[p] \in {"pop_len", "scan_max"} => hand[p] = <<>>
        BY DEF PlaceInv, LocalsAreOwed
    <2> QED BY <2>1 DEF PushLen, ScanMin, ScanMinDone, PopLen, ScanMax, ScanMaxDone, StealLen, Goto
<1>2. CASE Return(p) /\ hand[p] = <<>>
    BY <1>0, <1>2, ReturnPlaces
<1>3. CASE ~(Return(p) /\ hand[p] = <<>>)
    <2>1. LocalsAreOwed'
        BY <1>0, <1>1, <1>3 DEF PlaceInv, LocalsAreOwed, Procs
    <2> QED BY <1>0, <1>1, <1>3, <2>1, RestPlaces
<1> QED BY <1>2, <1>3

\* At first every task is with its creator (scheduler.rs:352-369).
LEMMA InitPlaces == Init => PlaceInv
<1> SUFFICES ASSUME Init PROVE PlaceInv
    OBVIOUS
<1>1. NoRepeats
    BY NoMember DEF Init, NoRepeats
<1>2. ASSUME NEW t \in Tasks PROVE InOnePlace(t)
    <2>1. "fresh" \in Kinds /\ None \in Owners /\ t # None
        BY SchedulerAssumption DEF Kinds, Owners
    <2>2. Only(t, "fresh", None)
        BY <2>1, NoMember DEF Only, Init
    <2> QED BY <2>1, <2>2, OnlyIsOnePlace DEF OnlyAgrees
<1>3. LocalsAreOwed
    BY DEF Init, LocalsAreOwed, Procs
<1> QED BY <1>1, <1>2, <1>3 DEF PlaceInv, OnePlace

\* Every step of a core or of a spawning thread keeps every task in one place.
LEMMA NextPlaces == IInv /\ PlaceInv /\ [Next]_vars => PlaceInv'
<1> SUFFICES ASSUME IInv, PlaceInv, [Next]_vars PROVE PlaceInv'
    OBVIOUS
<1>1. Cores \subseteq Procs /\ Spawners \subseteq Procs
    BY DEF Procs
<1>2. ASSUME NEW c \in Cores, CoreInCall(c) PROVE PlaceInv'
    BY <1>1, <1>2, PopPlaces, StealPlaces, PushPlaces, CallPlaces DEF CoreInCall
<1>3. ASSUME NEW c \in Cores, Tick(c) \/ BlockCurrent(c) PROVE PlaceInv'
    BY <1>3, CorePlaces
<1>4. ASSUME NEW s \in Spawners, SpawnerInCall(s) PROVE PlaceInv'
    BY <1>1, <1>4, PushPlaces, CallPlaces DEF SpawnerInCall
<1>5. ASSUME NEW s \in Spawners, NEW t \in Tasks,
             Spawn(s, t) \/ (\E c \in Cores : SpawnOnCore(s, t, c) \/ Wake(s, t, c))
      PROVE  PlaceInv'
    BY <1>5, SpawnerPlaces
<1>6. CASE UNCHANGED vars
    <2>1. LocalsAreOwed'
        BY <1>6 DEF vars, PlaceInv, LocalsAreOwed
    <2> QED BY <1>6, <2>1, RestPlaces DEF vars
<1> QED BY <1>2, <1>3, <1>4, <1>5, <1>6 DEF Next

\* ... for ever.
LEMMA AlwaysPlaces == Spec => []PlaceInv
BY InitPlaces, NextPlaces, AlwaysIInv, PTL DEF Spec

\* No interleaving of pops, thefts, preemptions, blocks and wakes loses a task
\* or runs it twice: each is always in one place, once (scheduler.rs:267-520).
THEOREM SchedulerOnePlace == Spec => []OnePlace
<1>1. PlaceInv => OnePlace
    BY DEF PlaceInv
<1> QED BY <1>1, AlwaysPlaces, PTL
-----------------------------------------------------------------------------
(* The scheduler is a pool of ready tasks                                  *)

\* The tasks in a queue, in a caller's hands or in its keeping.
Ready == Tasks \ (fresh \cup parked \cup {running[c] : c \in Cores})

\* A call that returns a task dispatches it to a core that had none
\* (scheduler.rs:433-466); one that returns nothing changes nothing.
LEMMA ReturnDispatches ==
    ASSUME IInv, PlaceInv, NEW p \in Procs, Return(p), pc[p] # "idle",
           UNCHANGED <<fresh, parked>>
    PROVE  Pool!Next \/ UNCHANGED Pool!vars
<1>0. /\ held \in [Procs -> Tasks \cup {None}] /\ running \in [Cores -> Tasks \cup {None}]
    BY DEF IInv, TypeOK
<1>1. CASE held[p] = None
    <2>1. UNCHANGED <<fresh, parked, running>>
        BY <1>1 DEF Return
    <2> QED BY <2>1 DEF Pool!vars
<1>2. CASE held[p] # None
    <2>1. p \in Cores /\ running[p] = None
        BY <1>2 DEF PlaceInv, LocalsAreOwed
    <2>2. PICK t \in Tasks : t = held[p]
        BY <1>0, <1>2
    <2>3. running' = [running EXCEPT ![p] = t]
        BY <1>2, <2>2 DEF Return
    <2>4. Only(t, "held", p)
        BY <2>2, FoundOnly DEF PlaceInv
    <2>5. t \in Ready
        BY <2>4 DEF Only, Ready
    <2>6. Ready' = Ready \ {t}
        <3>1. running'[p] = t /\ \A c \in Cores \ {p} : running'[c] = running[c]
            BY <1>0, <2>1, <2>3
        <3>2. running[p] \notin Tasks
            BY <2>1, SchedulerAssumption
        <3>3. \A u : u \in Ready' <=> u \in Ready \ {t}
            BY <2>1, <3>1, <3>2 DEF Ready
        <3> QED BY <3>3
    <2>7. Pool!Dispatch(p, t)
        BY <2>1, <2>3, <2>5, <2>6 DEF Pool!Dispatch, Ready
    <2> QED BY <2>1, <2>7 DEF Pool!Next
<1> QED BY <1>1, <1>2

\* spawn(), spawn_on_core() and wake() make a task ready (scheduler.rs:373-409,
\* 499-509).
LEMMA SpawnerReadies ==
    ASSUME IInv, PlaceInv, NEW s \in Spawners, NEW t \in Tasks,
           Spawn(s, t) \/ (\E c \in Cores : SpawnOnCore(s, t, c) \/ Wake(s, t, c))
    PROVE  Pool!Next
<1>0. UNCHANGED running
    BY DEF Spawn, SpawnOnCore, Wake
<1>1. CASE t \in fresh /\ fresh' = fresh \ {t} /\ UNCHANGED parked
    <2>1. Only(t, "fresh", None)
        BY <1>1, FoundOnly DEF PlaceInv
    <2>2. \A u : u \in Ready' <=> u \in Ready \cup {t}
        BY <1>0, <1>1, <2>1 DEF Ready, Only
    <2>3. Ready' = Ready \cup {t}
        BY <2>2
    <2>4. Pool!Spawn(t)
        BY <1>0, <1>1, <2>3 DEF Pool!Spawn, Ready
    <2> QED BY <2>4 DEF Pool!Next
<1>2. CASE t \in parked /\ parked' = parked \ {t} /\ UNCHANGED fresh
    <2>1. Only(t, "parked", None)
        BY <1>2, FoundOnly DEF PlaceInv
    <2>2. \A u : u \in Ready' <=> u \in Ready \cup {t}
        BY <1>0, <1>2, <2>1 DEF Ready, Only
    <2>3. Ready' = Ready \cup {t}
        BY <2>2
    <2>4. Pool!Wake(t)
        BY <1>0, <1>2, <2>3 DEF Pool!Wake, Ready
    <2> QED BY <2>4 DEF Pool!Next
<1> QED BY <1>1, <1>2 DEF Spawn, SpawnOnCore, Wake

\* preempt_current() makes the running task ready, block_current() parks it
\* (scheduler.rs:488-520).
LEMMA CoreReadies ==
    ASSUME IInv, PlaceInv, NEW c \in Cores, PreemptCurrent(c) \/ BlockCurrent(c)
    PROVE  Pool!Next
<1>0. running \in [Cores -> Tasks \cup {None}] /\ running[c] # None /\ UNCHANGED fresh
      /\ running' = [running EXCEPT ![c] = None] /\ None \notin Tasks
    BY SchedulerAssumption DEF IInv, TypeOK, PreemptCurrent, BlockCurrent
<1>1. PICK t \in Tasks : t = running[c]
    BY <1>0
<1>2. Only(t, "running", c)
    BY <1>1, FoundOnly DEF PlaceInv
<1>3. running'[c] = None /\ \A d \in Cores \ {c} : running'[d] = running[d]
    BY <1>0
<1>4. CASE PreemptCurrent(c)
    <2>1. UNCHANGED parked
        BY <1>4 DEF PreemptCurrent
    <2>2. \A u : u \in Ready' <=> u \in Ready \cup {t}
        BY <1>0, <1>1, <1>2, <1>3, <2>1 DEF Ready, Only
    <2>3. Ready' = Ready \cup {t}
        BY <2>2
    <2>4. Pool!Preempt(c)
        BY <1>0, <1>1, <2>1, <2>3 DEF Pool!Preempt, Ready
    <2> QED BY <2>4 DEF Pool!Next
<1>5. CASE BlockCurrent(c)
    <2>1. parked' = parked \cup {t}
        BY <1>1, <1>5 DEF BlockCurrent
    <2>2. \A u : u \in Ready' <=> u \in Ready
        BY <1>0, <1>1, <1>2, <1>3, <2>1 DEF Ready, Only
    <2>3. Ready' = Ready
        BY <2>2
    <2>4. Pool!Block(c)
        BY <1>0, <1>1, <2>1, <2>3 DEF Pool!Block, Ready
    <2> QED BY <2>4 DEF Pool!Next
<1> QED BY <1>4, <1>5

\* Each step of the scheduler is a step of the pool, or one the pool does not see.
LEMMA StepIsPoolStep == IInv /\ PlaceInv /\ [Next]_vars => [Pool!Next]_(Pool!vars)
<1> SUFFICES ASSUME IInv, PlaceInv, [Next]_vars PROVE Pool!Next \/ UNCHANGED Pool!vars
    OBVIOUS
<1>1. Cores \subseteq Procs /\ Spawners \subseteq Procs
    BY DEF Procs
<1>2. CASE UNCHANGED <<fresh, parked, running>>
    BY <1>2 DEF Pool!vars
<1>3. ASSUME NEW p \in Procs,
             \/ Push(p) \/ PushLen(p) \/ ScanMin(p) \/ ScanMinDone(p) \/ Pop(p) \/ PopLen(p)
             \/ ScanMax(p) \/ ScanMaxDone(p) \/ Steal(p) \/ StealLen(p)
      PROVE  Pool!Next \/ UNCHANGED Pool!vars
    <2>1. UNCHANGED <<fresh, parked>> /\ pc[p] # "idle"
        BY <1>3 DEF Push, PushLen, ScanMin, ScanMinDone, Pop, PopLen, ScanMax, ScanMaxDone,
                    Steal, StealLen
    <2>2. UNCHANGED running \/ Return(p)
        BY <1>3 DEF Push, PushLen, ScanMin, ScanMinDone, Pop, PopLen, ScanMax, ScanMaxDone,
                    Steal, StealLen
    <2> QED BY <1>2, <2>1, <2>2, ReturnDispatches
<1>4. ASSUME NEW c \in Cores, CoreInCall(c) \/ Tick(c) \/ BlockCurrent(c)
      PROVE  Pool!Next \/ UNCHANGED Pool!vars
    <2>1. Schedule(c) => UNCHANGED <<fresh, parked, running>>
        BY DEF Schedule
    <2> QED BY <1>1, <1>2, <1>3, <1>4, <2>1, CoreReadies DEF CoreInCall, Tick
<1>5. ASSUME NEW s \in Spawners, SpawnerInCall(s) PROVE Pool!Next \/ UNCHANGED Pool!vars
    BY <1>1, <1>3, <1>5 DEF SpawnerInCall
<1>6. CASE UNCHANGED vars
    BY <1>2, <1>6 DEF vars
<1> QED BY <1>4, <1>5, <1>6, SpawnerReadies DEF Next

\* The scheduler implements the pool its callers rely on: a ready task is handed
\* to exactly one core, and only to a core that has none (scheduler.rs:373-520).
THEOREM SchedulerImplementsTaskPool == Spec => ImplementsTaskPool
<1>1. Init => Pool!Init
    <2> SUFFICES ASSUME Init PROVE Pool!Init
        OBVIOUS
    <2>1. Tasks \ (fresh \cup parked \cup {running[c] : c \in Cores}) = {}
        BY DEF Init
    <2> QED BY <2>1 DEF Init, Pool!Init
<1> QED BY <1>1, StepIsPoolStep, AlwaysIInv, AlwaysPlaces, PTL
    DEF Spec, ImplementsTaskPool, Pool!Spec
-----------------------------------------------------------------------------
(* What a search for work finds.                                           *)

\* What the followed core knows: it starts without a victim; the queues that
\* stay long are counted so, and the ones it has read have given it a victim;
\* its victim was long at some moment.
SearchInv ==
    /\ pc[Thief] \in {"idle", "pop"} => target[Thief] = None
    /\ Searching =>
        /\ Thief \notin throughout
        /\ throughout \subseteq Queued \cap Counted
        /\ target[Thief] # None => target[Thief] \in sometime
    /\ pc[Thief] = "scan_max" =>
        /\ target[Thief] = None => best[Thief] = 1
        /\ best[Thief] >= 1
        /\ \A d \in throughout : d < idx[Thief] => target[Thief] # None

\* The locals of the followed core stay as they are.
ThiefRests ==
    /\ pc'[Thief] = pc[Thief]
    /\ target'[Thief] = target[Thief]
    /\ idx'[Thief] = idx[Thief]
    /\ best'[Thief] = best[Thief]

\* A step of another caller leaves the locals of a core alone.
LEMMA OthersLeaveThief ==
    ASSUME IInv, NEW p \in Procs, p # Thief,
           \/ /\ p \in Cores
              /\ CoreInCall(p) \/ Tick(p) \/ BlockCurrent(p)
           \/ SpawnerInCall(p)
           \/ \E t \in Tasks : \/ Spawn(p, t)
                               \/ \E c \in Cores : SpawnOnCore(p, t, c) \/ Wake(p, t, c)
    PROVE  ThiefRests
<1> USE ThiefAssumption DEF IInv, TypeOK, ThiefRests, Goto, Procs
<1>1. ASSUME Return(p) PROVE pc'[Thief] = pc[Thief] /\ target'[Thief] = target[Thief]
    BY <1>1 DEF Return
<1>2. ASSUME ForgetScan(p) PROVE idx'[Thief] = idx[Thief] /\ best'[Thief] = best[Thief]
    BY <1>2 DEF ForgetScan
<1>3. CASE Push(p) \/ PushLen(p)
    BY <1>1, <1>3 DEF Push, PushLen
<1>4. CASE Pop(p) \/ PopLen(p)
    BY <1>1, <1>4 DEF Pop, PopLen
<1>5. CASE Steal(p) \/ StealLen(p)
    BY <1>1, <1>5 DEF Steal, StealLen
<1>6. CASE ScanMax(p) \/ ScanMaxDone(p)
    BY <1>1, <1>2, <1>6 DEF ScanMax, ScanMaxDone
<1>7. CASE ScanMin(p) \/ ScanMinDone(p)
    BY <1>1, <1>2, <1>7 DEF ScanMin, ScanMinDone
<1>8. CASE Tick(p) \/ BlockCurrent(p)
    BY <1>8 DEF Tick, PreemptCurrent, Schedule, BlockCurrent, Give
<1>9. CASE \E t \in Tasks : \/ Spawn(p, t)
                            \/ \E c \in Cores : SpawnOnCore(p, t, c) \/ Wake(p, t, c)
    BY <1>9 DEF Spawn, SpawnOnCore, Wake, Give
<1> QED BY <1>3, <1>4, <1>5, <1>6, <1>7, <1>8, <1>9 DEF CoreInCall, SpawnerInCall

\* The steps that matter to a search: its beginning, its readings, its choice
\* of a victim and its end.
LEMMA SearchSteps ==
    ASSUME IInv, Next
    PROVE  \/ ThiefRests
           \/ Pop(Thief) \/ ScanMax(Thief) \/ ScanMaxDone(Thief) \/ Steal(Thief)
           \/ /\ ~Searching /\ ~Searching'
              /\ pc'[Thief] \in {"idle", "pop"} =>
                    \/ target'[Thief] = None
                    \/ pc[Thief] \in {"idle", "pop"} /\ target'[Thief] = target[Thief]
<1> USE ThiefAssumption, SchedulerAssumption
<1>1. Thief \in Procs /\ Thief \notin Spawners /\ Cores \subseteq Procs
      /\ Spawners \subseteq Procs
    BY DEF Procs
<1>2. CASE PushLen(Thief) \/ PopLen(Thief) \/ StealLen(Thief)
    <2>1. ASSUME Return(Thief) PROVE pc'[Thief] = "idle" /\ target'[Thief] = None
        BY <1>1, <2>1 DEF IInv, TypeOK, Return, Goto
    <2> QED BY <1>1, <1>2, <2>1 DEF IInv, TypeOK, PushLen, PopLen, StealLen, Goto, Searching
<1>3. CASE Push(Thief) \/ Tick(Thief) \/ BlockCurrent(Thief)
    BY <1>1, <1>3 DEF IInv, TypeOK, Push, Tick, PreemptCurrent, Schedule, BlockCurrent, Give,
                      Goto, Searching
<1>4. ASSUME NEW c \in Cores, CoreInCall(c) \/ Tick(c) \/ BlockCurrent(c)
      PROVE  \/ ThiefRests
             \/ c = Thief
    BY <1>1, <1>4, OthersLeaveThief
<1>5. ASSUME NEW s \in Spawners,
             \/ SpawnerInCall(s)
             \/ \E t \in Tasks : \/ Spawn(s, t)
                                 \/ \E c \in Cores : SpawnOnCore(s, t, c) \/ Wake(s, t, c)
      PROVE  ThiefRests
    BY <1>1, <1>5, OthersLeaveThief
<1> QED BY <1>2, <1>3, <1>4, <1>5 DEF Next, CoreInCall

\* Wherever a step changes a length, it leaves it exact (scheduler.rs:276-316).
LEMMA CountsFollow ==
    ASSUME IInv, Next, NEW d \in Cores
    PROVE  len'[d] = len[d] \/ len'[d] = Len(queue'[d])
<1>1. IInv'
    BY NextIInv
<1>2. ASSUME NEW p \in Procs, PushLen(p) PROVE len'[d] = len[d] \/ qlock'[d] = None
    BY <1>2 DEF IInv, TypeOK, PushLen
<1>3. ASSUME NEW c \in Cores, PopLen(c) \/ StealLen(c)
      PROVE  len'[d] = len[d] \/ qlock'[d] = None
    BY <1>3 DEF IInv, TypeOK, PopLen, StealLen
<1>4. len'[d] = len[d] \/ qlock'[d] = None
    <2>1. ASSUME NEW c \in Cores, CoreInCall(c) PROVE len'[d] = len[d] \/ qlock'[d] = None
        BY <1>2, <1>3, <2>1
        DEF Procs, CoreInCall, Pop, ScanMax, ScanMaxDone, Steal, Push
    <2>2. ASSUME NEW c \in Cores, Tick(c) \/ BlockCurrent(c) PROVE len' = len
        BY <2>2 DEF Tick, PreemptCurrent, Schedule, BlockCurrent
    <2>3. ASSUME NEW s \in Spawners, SpawnerInCall(s)
          PROVE  len'[d] = len[d] \/ qlock'[d] = None
        BY <1>2, <2>3 DEF Procs, SpawnerInCall, ScanMin, ScanMinDone, Push
    <2>4. ASSUME NEW s \in Spawners, NEW t \in Tasks,
                 Spawn(s, t) \/ (\E c \in Cores : SpawnOnCore(s, t, c) \/ Wake(s, t, c))
          PROVE  len' = len
        BY <2>4 DEF Spawn, SpawnOnCore, Wake
    <2> QED BY <2>1, <2>2, <2>3, <2>4 DEF Next
<1> QED BY <1>1, <1>4 DEF IInv, LenIsExact

\* A queue that stays long stays counted, whatever is pushed, popped and stolen
\* meanwhile.
LEMMA StaysCounted ==
    ASSUME IInv, SearchInv, Next, Remember, Searching, Searching'
    PROVE  /\ throughout' \subseteq (Queued \cap Counted)'
           /\ throughout' \subseteq throughout /\ sometime \subseteq sometime'
           /\ Counted' \subseteq sometime'
<1>1. throughout' = throughout \cap Queued' /\ sometime' = sometime \cup Counted'
    BY DEF Remember
<1>2. ASSUME NEW d \in throughout' PROVE d \in Counted'
    <2>1. d \in Cores /\ len[d] >= 2 /\ Len(queue'[d]) >= 2
        BY <1>1, <1>2 DEF SearchInv, Queued, Counted
    <2>2. len'[d] >= 2
        BY <2>1, CountsFollow
    <2> QED BY <2>1, <2>2 DEF Counted
<1> QED BY <1>1, <1>2

\* Every step of every caller keeps what the search knows.
LEMMA NextSearchInv ==
    ASSUME IInv, SearchInv, Next, Remember PROVE SearchInv'
<1> USE ThiefAssumption, SchedulerAssumption
<1>1. Thief \in Procs /\ Thief \in Cores
    BY DEF Procs
<1>2. CASE ThiefRests
    <2>1. CASE Searching
        <3>1. Searching'
            BY <1>2, <2>1 DEF ThiefRests, Searching
        <3> QED BY <1>2, <2>1, <3>1, StaysCounted DEF ThiefRests, SearchInv
    <2>2. CASE ~Searching
        BY <1>2, <2>2 DEF ThiefRests, SearchInv, Searching
    <2> QED BY <2>1, <2>2
<1>3. CASE Pop(Thief)
    <2>1. CASE queue[Thief] # <<>>
        <3>1. pc'[Thief] = "pop_len"
            BY <1>1, <1>3, <2>1 DEF Pop, Goto, IInv, TypeOK
        <3> QED BY <3>1 DEF SearchInv, Searching
    <2>2. CASE queue[Thief] = <<>>
        <3>1. /\ pc'[Thief] = "scan_max" /\ pc[Thief] = "pop"
              /\ idx'[Thief] = 0 /\ best'[Thief] = 1
              /\ target'[Thief] = target[Thief] /\ queue' = queue
            BY <1>1, <1>3, <2>2 DEF Pop, Goto, IInv, TypeOK, StealThreshold
        <3>2. target'[Thief] = None
            BY <3>1 DEF SearchInv
        <3>3. throughout' = Queued' \cap Counted'
            BY <3>1 DEF Remember, Searching
        <3>4. Thief \notin Queued'
            BY <2>2, <3>1 DEF Queued
        <3>5. \A d \in throughout' : ~(d < 0)
            BY <3>3 DEF Queued, Cores
        <3> QED BY <3>1, <3>2, <3>3, <3>4, <3>5 DEF SearchInv
    <2> QED BY <2>1, <2>2
<1>4. CASE ScanMax(Thief)
    <2>1. /\ pc[Thief] = "scan_max" /\ pc'[Thief] = "scan_max"
          /\ idx[Thief] \in Cores /\ idx'[Thief] = idx[Thief] + 1
          /\ UNCHANGED <<len, queue>>
        BY <1>1, <1>4 DEF ScanMax, IInv, TypeOK, Cores
    <2>2. Searching /\ Searching'
        BY <2>1 DEF Searching
    <2>3. \A d \in throughout : d \in Cores /\ d # Thief /\ len[d] >= 2
        BY <2>2 DEF SearchInv, Counted
    <2>4. CASE idx[Thief] # Thief /\ len[idx[Thief]] > best[Thief]
        <3>1. best'[Thief] = len[idx[Thief]] /\ target'[Thief] = idx[Thief]
            BY <1>1, <1>4, <2>4 DEF ScanMax, IInv, TypeOK
        <3>2. len[idx[Thief]] \in Nat /\ best[Thief] \in Nat /\ best[Thief] >= 1
            BY <1>1, <2>1 DEF IInv, TypeOK, SearchInv
        <3>3. len[idx[Thief]] >= 2
            BY <2>4, <3>2
        <3>4. target'[Thief] \in Counted' /\ target'[Thief] # None
            BY <2>1, <3>1, <3>3 DEF Counted, Procs
        <3> QED BY <2>1, <2>2, <3>1, <3>2, <3>3, <3>4, StaysCounted DEF SearchInv
    <2>5. CASE ~(idx[Thief] # Thief /\ len[idx[Thief]] > best[Thief])
        <3>1. best'[Thief] = best[Thief] /\ target'[Thief] = target[Thief]
            BY <1>4, <2>5 DEF ScanMax
        <3>2. ASSUME NEW d \in throughout', d < idx'[Thief] PROVE target'[Thief] # None
            <4>1. d \in throughout /\ d \in Cores /\ d # Thief /\ len[d] >= 2
                BY <2>2, <2>3, <3>2, StaysCounted
            <4>2. CASE d < idx[Thief]
                BY <2>1, <3>1, <4>1, <4>2 DEF SearchInv
            <4>3. CASE ~(d < idx[Thief])
                <5>1. d = idx[Thief]
                    BY <2>1, <3>2, <4>1, <4>3 DEF Cores
                <5>2. best[Thief] # 1
                    BY <2>5, <4>1, <5>1 DEF IInv, TypeOK
                <5> QED BY <2>1, <3>1, <5>2 DEF SearchInv
            <4> QED BY <4>2, <4>3
        <3> QED BY <2>1, <2>2, <3>1, <3>2, StaysCounted DEF SearchInv
    <2> QED BY <2>4, <2>5
<1>5. CASE ScanMaxDone(Thief)
    <2>1. CASE target[Thief] # None
        <3>1. pc[Thief] = "scan_max" /\ pc'[Thief] = "steal" /\ target'[Thief] = target[Thief]
            BY <1>1, <1>5, <2>1 DEF ScanMaxDone, Goto, IInv, TypeOK
        <3>2. Searching /\ Searching'
            BY <3>1 DEF Searching
        <3> QED BY <3>1, <3>2, StaysCounted DEF SearchInv
    <2>2. CASE target[Thief] = None
        <3>1. pc'[Thief] = "idle" /\ target'[Thief] = None
            BY <1>1, <1>5, <2>2 DEF ScanMaxDone, Return, Goto, IInv, TypeOK
        <3> QED BY <3>1 DEF SearchInv, Searching
    <2> QED BY <2>1, <2>2
<1>6. CASE Steal(Thief)
    <2>1. \/ pc'[Thief] = "steal_len"
          \/ pc'[Thief] = "idle" /\ target'[Thief] = None
        BY <1>1, <1>6 DEF Steal, Return, Goto, IInv, TypeOK
    <2> QED BY <2>1 DEF SearchInv, Searching
<1>7. CASE /\ ~Searching /\ ~Searching'
           /\ pc'[Thief] \in {"idle", "pop"} =>
                 \/ target'[Thief] = None
                 \/ pc[Thief] \in {"idle", "pop"} /\ target'[Thief] = target[Thief]
    BY <1>7 DEF SearchInv, Searching
<1> QED BY <1>2, <1>3, <1>4, <1>5, <1>6, <1>7, SearchSteps

\* A search that ends with nothing had nothing to find, or was led astray.
LEMMA GivesUpRightly ==
    ASSUME IInv, SearchInv, Next, GivesUp
    PROVE  \/ throughout = {}
           \/ pc[Thief] = "steal" /\ target[Thief] \in sometime \ throughout
<1> USE ThiefAssumption, SchedulerAssumption
<1>1. Thief \in Procs /\ Thief \in Cores
    BY DEF Procs
<1>2. Searching /\ pc[Thief] # "idle" /\ pc'[Thief] = "idle"
    BY DEF GivesUp, Searching
<1>3. CASE ScanMaxDone(Thief)
    <2>1. target[Thief] = None /\ idx[Thief] = NumCores /\ pc[Thief] = "scan_max"
        BY <1>1, <1>2, <1>3 DEF ScanMaxDone, Goto, IInv, TypeOK
    <2>2. \A d \in throughout : d \in Cores /\ d < NumCores
        BY <1>2 DEF SearchInv, Queued, Cores
    <2> QED BY <2>1, <2>2 DEF SearchInv
<1>4. CASE Steal(Thief)
    <2>1. pc[Thief] = "steal" /\ target[Thief] \in Cores /\ target[Thief] # None
        BY <1>1, <1>4 DEF Steal, IInv, CallsAreSound, Procs
    <2>2. StealCount(target[Thief]) = 0
        BY <1>1, <1>2, <1>4 DEF Steal, Goto, IInv, TypeOK
    <2>3. Len(queue[target[Thief]]) \in Nat
        BY <2>1, LenProperties DEF IInv, TypeOK
    <2>4. \A n \in Nat : n \div 2 = 0 => n < 2
        OBVIOUS
    <2>5. Len(queue[target[Thief]]) < 2
        BY <2>2, <2>3, <2>4 DEF StealCount
    <2>6. target[Thief] \notin throughout
        BY <1>2, <2>3, <2>5 DEF SearchInv, Queued
    <2> QED BY <1>2, <2>1, <2>6 DEF SearchInv
<1>5. ~ThiefRests /\ ~Pop(Thief) /\ ~ScanMax(Thief)
    BY <1>1, <1>2 DEF ThiefRests, Pop, ScanMax, Searching
<1> QED BY <1>2, <1>3, <1>4, <1>5, SearchSteps

\* A core that looks for work finds it, for any number of cores and tasks: it
\* gives up while a queue is long all the time only at a queue that was long
\* when it was read (scheduler.rs:447-469, 472-486).
THEOREM SchedulerThievesFindWork == StealSpec => ThievesFindWork
<1>1. StealInit => IInv /\ SearchInv
    <2> SUFFICES ASSUME StealInit PROVE IInv /\ SearchInv
        OBVIOUS
    <2>1. Thief \in Procs /\ pc[Thief] = "idle" /\ target[Thief] = None
        BY ThiefAssumption DEF StealInit, Init, Procs
    <2>2. SearchInv
        BY <2>1 DEF SearchInv, Searching
    <2> QED BY <2>2, InitIInv DEF StealInit
<1>2. IInv /\ SearchInv /\ [StealNext]_<<vars, histories>> => (IInv /\ SearchInv)'
    <2> SUFFICES ASSUME IInv, SearchInv, [StealNext]_<<vars, histories>>
                 PROVE  IInv' /\ SearchInv'
        OBVIOUS
    <2>1. CASE StealNext
        BY <2>1, NextIInv, NextSearchInv DEF StealNext
    <2>2. CASE UNCHANGED <<vars, histories>>
        <3>1. IInv'
            BY <2>2, NextIInv
        <3>2. SearchInv'
            BY <2>2 DEF vars, histories, SearchInv, Searching, Queued, Counted
        <3> QED BY <3>1, <3>2
    <2> QED BY <2>1, <2>2
<1>3. IInv /\ SearchInv /\ StealNext =>
        (GivesUp => \/ throughout = {}
                    \/ pc[Thief] = "steal" /\ target[Thief] \in sometime \ throughout)
    BY GivesUpRightly DEF StealNext
<1> QED BY <1>1, <1>2, <1>3, PTL DEF StealSpec, ThievesFindWork
=============================================================================
