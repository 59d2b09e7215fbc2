-------------------------- MODULE RwLockOnceProofs --------------------------
(***************************************************************************)
(* RwLock for any set of threads, any number of read guards per thread and *)
(* any width of the word: exclusion, the encoding of the state and the     *)
(* absence of torn reads, also when the reader count reaches WRITER_BIT;   *)
(* and Once, beside it, for any set of callers and any closure that ends.  *)
(***************************************************************************)
EXTENDS RwLock, Once, FiniteSetTheorems, TLAPS

IInv ==
    /\ TypeOK
    /\ IsFiniteSet(readers)
    /\ WriterIsAlone
    /\ StateEncodesGuards
    /\ NeverCountsWriter
    /\ PeekerOwns
    /\ WordsAgree

\* Adding one below the top of the word does not wrap.
LEMMA AddOne ==
    ASSUME NEW n \in Nat, n < WRITER_BIT PROVE (n + 1) % (WRITER_BIT + 1) = n + 1
BY RwAssumption

\* fetch_sub(1) of a positive word is the predecessor.
LEMMA SubOne ==
    ASSUME NEW n \in Nat, n # 0, n <= WRITER_BIT
    PROVE  (n + WRITER_BIT) % (WRITER_BIT + 1) = n - 1
<1>1. ASSUME NEW k \in Nat, NEW m \in Nat, k < m PROVE (k + m) % m = k
    BY <1>1
<1>2. n - 1 \in Nat /\ WRITER_BIT + 1 \in Nat /\ n - 1 < WRITER_BIT + 1
    BY RwAssumption
<1>3. ((n - 1) + (WRITER_BIT + 1)) % (WRITER_BIT + 1) = n - 1
    BY <1>1, <1>2
<1>4. (n - 1) + (WRITER_BIT + 1) = n + WRITER_BIT
    BY RwAssumption
<1> QED BY <1>3, <1>4

\* The inductive invariant holds in a new lock (spinlock.rs:293-298).
LEMMA InitIInv == Init => IInv
<1> SUFFICES ASSUME Init PROVE IInv
    OBVIOUS
<1>1. TypeOK /\ NeverCountsWriter /\ PeekerOwns /\ WordsAgree
    BY RwAssumption DEF Init, TypeOK, Labels, NeverCountsWriter, PeekerOwns, WordsAgree
<1>2. IsFiniteSet(readers) /\ WriterIsAlone /\ StateEncodesGuards
    BY FS_EmptySet DEF Init, WriterIsAlone, StateEncodesGuards, OwnsWrite
<1> QED BY <1>1, <1>2 DEF IInv

\* Steps that leave the word, the guards and the data alone, and move a
\* thread that is no writer to a place that claims nothing.
LEMMA MoveIInv ==
    ASSUME IInv, NEW t \in Threads, NEW label \in Labels,
           pc[t] \notin {"write_1", "write_2", "drop_write"},
           label \notin {"write_1", "write_2", "drop_write", "peek"},
           Goto(t, label), UNCHANGED <<state, readers, data, seen>>,
           \/ /\ UNCHANGED current
              /\ label \notin {"read_cas", "try_read_cas"}
           \/ /\ state # WRITER_BIT
              /\ current' = [current EXCEPT ![t] = state]
    PROVE  IInv'
<1> USE DEF IInv, Goto
<1>1. TypeOK'
    BY DEF TypeOK
<1>2. \A u \in Threads : OwnsWrite(u)' = OwnsWrite(u)
    BY DEF TypeOK, OwnsWrite
<1>3. WriterIsAlone' /\ StateEncodesGuards' /\ IsFiniteSet(readers)'
    BY <1>2 DEF WriterIsAlone, StateEncodesGuards
<1>4. NeverCountsWriter'
    BY DEF TypeOK, NeverCountsWriter
<1>5. PeekerOwns' /\ WordsAgree'
    BY DEF TypeOK, PeekerOwns, OwnsRead, WordsAgree
<1> QED BY <1>1, <1>3, <1>4, <1>5

\* A reader's compare_exchange found no writer and counts one guard more.
LEMMA ReadCasIInv ==
    ASSUME IInv, NEW t \in Threads, NEW i \in Slots, ReadCas(t, i)
    PROVE  IInv'
<1> USE DEF IInv, ReadCas, Goto
<1>1. state # WRITER_BIT /\ state \in Nat /\ state < WRITER_BIT
    BY RwAssumption DEF TypeOK, NeverCountsWriter
<1>2. state' = state + 1
    BY <1>1, AddOne
<1>3. \A u \in Threads : ~OwnsWrite(u) /\ ~OwnsWrite(u)'
    BY <1>1 DEF TypeOK, StateEncodesGuards, OwnsWrite
<1>4. state = Cardinality(readers)
    BY <1>3 DEF StateEncodesGuards
<1>5. IsFiniteSet(readers') /\ Cardinality(readers') = Cardinality(readers) + 1
    BY FS_AddElement
<1>6. TypeOK'
    BY <1>1, <1>2, RwAssumption DEF TypeOK, Labels
<1>7. WriterIsAlone' /\ StateEncodesGuards'
    BY <1>2, <1>3, <1>4, <1>5 DEF WriterIsAlone, StateEncodesGuards
<1>8. NeverCountsWriter'
    BY DEF TypeOK, NeverCountsWriter
<1>9. PeekerOwns' /\ WordsAgree'
    BY DEF TypeOK, PeekerOwns, OwnsRead, WordsAgree
<1> QED BY <1>5, <1>6, <1>7, <1>8, <1>9

\* A writer's compare_exchange found no guard at all.
LEMMA WriteCasIInv ==
    ASSUME IInv, NEW t \in Threads, WriteCas(t)
    PROVE  IInv'
<1> USE DEF IInv, WriteCas, Goto
<1>1. \A u \in Threads : ~OwnsWrite(u)
    BY RwAssumption DEF StateEncodesGuards
<1>2. readers = {}
    BY <1>1, FS_EmptySet DEF StateEncodesGuards
<1>3. \A u \in Threads : OwnsWrite(u)' <=> u = t
    BY <1>1 DEF TypeOK, OwnsWrite
<1>4. TypeOK'
    BY RwAssumption DEF TypeOK, Labels
<1>5. WriterIsAlone' /\ StateEncodesGuards' /\ IsFiniteSet(readers)'
    BY <1>2, <1>3 DEF WriterIsAlone, StateEncodesGuards
<1>6. NeverCountsWriter' /\ PeekerOwns' /\ WordsAgree'
    BY DEF TypeOK, NeverCountsWriter, PeekerOwns, OwnsRead, WordsAgree
<1> QED BY <1>4, <1>5, <1>6

\* A writer's stores disturb no reader: there is none.
LEMMA WriteWordIInv ==
    ASSUME IInv, NEW t \in Threads, WriteWord(t)
    PROVE  IInv'
<1> USE DEF IInv, WriteWord, Goto
<1>1. OwnsWrite(t) /\ readers = {} /\ \A u \in Threads : OwnsWrite(u) => u = t
    BY DEF WriterIsAlone, OwnsWrite
<1>2. \A u \in Threads : OwnsWrite(u)' = OwnsWrite(u)
    BY DEF TypeOK, OwnsWrite
<1>3. TypeOK'
    BY DEF TypeOK, Labels
<1>4. WriterIsAlone' /\ StateEncodesGuards' /\ IsFiniteSet(readers)'
    BY <1>2 DEF WriterIsAlone, StateEncodesGuards
<1>5. NeverCountsWriter' /\ PeekerOwns'
    BY <1>1 DEF TypeOK, NeverCountsWriter, PeekerOwns, OwnsRead
<1>6. WordsAgree'
    <2>1. \A u \in Threads \ {t} : pc[u] # "write_2" /\ pc'[u] # "write_2"
        BY <1>1 DEF TypeOK, OwnsWrite
    <2>2. CASE pc[t] = "write_1"
        BY <2>1, <2>2 DEF TypeOK, WordsAgree
    <2>3. CASE pc[t] = "write_2"
        BY <2>1, <2>3 DEF TypeOK, WordsAgree
    <2> QED BY <2>2, <2>3
<1> QED BY <1>3, <1>4, <1>5, <1>6

\* A reader begins to look: it has a guard, so the words agree.
LEMMA PeekIInv ==
    ASSUME IInv, NEW t \in Threads, PeekFirst(t)
    PROVE  IInv'
<1> USE DEF IInv, PeekFirst, Goto
<1>1. TypeOK'
    BY DEF TypeOK, Labels
<1>2. \A u \in Threads : OwnsWrite(u)' = OwnsWrite(u)
    BY DEF TypeOK, OwnsWrite
<1>3. WriterIsAlone' /\ StateEncodesGuards' /\ IsFiniteSet(readers)'
    BY <1>2 DEF WriterIsAlone, StateEncodesGuards
<1>4. NeverCountsWriter' /\ PeekerOwns' /\ WordsAgree'
    BY DEF TypeOK, NeverCountsWriter, PeekerOwns, OwnsRead, WordsAgree
<1> QED BY <1>1, <1>3, <1>4

\* Dropping a read guard: there is one, so the word is a positive count.
LEMMA DropReadIInv ==
    ASSUME IInv, NEW t \in Threads, NEW i \in Slots, DropRead(t, i)
    PROVE  IInv'
<1> USE DEF IInv, DropRead
<1>1. \A u \in Threads : ~OwnsWrite(u) /\ ~OwnsWrite(u)'
    BY DEF WriterIsAlone, OwnsWrite
<1>2. state = Cardinality(readers) /\ state \in Nat /\ state # 0 /\ state <= WRITER_BIT
    BY <1>1, FS_EmptySet, RwAssumption DEF StateEncodesGuards, TypeOK
<1>3. state' = state - 1
    BY <1>2, SubOne
<1>4. IsFiniteSet(readers') /\ Cardinality(readers') = Cardinality(readers) - 1
    BY FS_RemoveElement
<1>5. TypeOK'
    BY <1>2, <1>3, RwAssumption DEF TypeOK
<1>6. WriterIsAlone' /\ StateEncodesGuards'
    BY <1>1, <1>2, <1>3, <1>4 DEF WriterIsAlone, StateEncodesGuards
<1>7. NeverCountsWriter' /\ WordsAgree'
    BY DEF NeverCountsWriter, WordsAgree
<1>8. PeekerOwns'
    BY DEF TypeOK, PeekerOwns, OwnsRead
<1> QED BY <1>4, <1>5, <1>6, <1>7, <1>8

\* Dropping the write guard: no guard is left, and the word is 0.
LEMMA DropWriteIInv ==
    ASSUME IInv, NEW t \in Threads, DropWrite(t)
    PROVE  IInv'
<1> USE DEF IInv, DropWrite, Goto
<1>1. OwnsWrite(t) /\ readers = {} /\ \A u \in Threads : OwnsWrite(u) => u = t
    BY DEF WriterIsAlone, OwnsWrite
<1>2. \A u \in Threads : ~OwnsWrite(u)'
    BY <1>1 DEF TypeOK, OwnsWrite
<1>3. TypeOK'
    BY RwAssumption DEF TypeOK, Labels
<1>4. WriterIsAlone' /\ StateEncodesGuards' /\ IsFiniteSet(readers)'
    BY <1>1, <1>2, FS_EmptySet DEF WriterIsAlone, StateEncodesGuards
<1>5. NeverCountsWriter' /\ PeekerOwns' /\ WordsAgree'
    BY DEF TypeOK, NeverCountsWriter, PeekerOwns, OwnsRead, WordsAgree
<1> QED BY <1>3, <1>4, <1>5

\* Every step of every thread keeps the inductive invariant.
LEMMA NextIInv == IInv /\ [Next]_vars => IInv'
<1> SUFFICES ASSUME IInv, [Next]_vars PROVE IInv'
    OBVIOUS
<1> USE DEF Labels
<1>1. ASSUME NEW t \in Threads, CallRead(t) \/ CallWrite(t) PROVE IInv'
    BY <1>1, MoveIInv DEF CallRead, CallWrite
<1>2. ASSUME NEW t \in Threads, ReadLoad(t) \/ TryReadLoad(t) PROVE IInv'
    BY <1>2, MoveIInv DEF ReadLoad, TryReadLoad
<1>3. ASSUME NEW t \in Threads, ReadCasLost(t) \/ WriteCasLost(t) PROVE IInv'
    <2>1. CASE ReadCasLost(t)
        BY <2>1, MoveIInv DEF ReadCasLost
    <2>2. CASE WriteCasLost(t)
        BY <2>2, MoveIInv DEF WriteCasLost
    <2> QED BY <1>3, <2>1, <2>2
<1>4. ASSUME NEW t \in Threads, PeekSecond(t) PROVE IInv'
    BY <1>4, MoveIInv DEF PeekSecond
<1>5. ASSUME NEW t \in Threads, InCall(t) PROVE IInv'
    BY <1>5, <1>2, <1>3, <1>4, ReadCasIInv, WriteCasIInv, WriteWordIInv, DropWriteIInv
    DEF InCall
<1>6. CASE UNCHANGED vars
    BY <1>6 DEF IInv, vars, TypeOK, WriterIsAlone, StateEncodesGuards, OwnsWrite,
       OwnsRead, NeverCountsWriter, PeekerOwns, WordsAgree
<1> QED
    BY <1>1, <1>2, <1>5, <1>6, PeekIInv, DropReadIInv DEF Next, DropSomeRead

\* The inductive invariant holds in every reachable state.
LEMMA AlwaysIInv == Spec => []IInv
BY InitIInv, NextIInv, PTL DEF Spec

\* A write guard excludes every other guard, for any number of threads and
\* guards, a saturated reader count included (spinlock.rs:274-275).
THEOREM RwWriterIsAlone == Spec => []WriterIsAlone
<1>1. IInv => WriterIsAlone
    BY DEF IInv
<1> QED BY <1>1, AlwaysIInv, PTL

\* The word always encodes the guards that exist (spinlock.rs:277-280).
THEOREM RwStateEncodesGuards == Spec => []StateEncodesGuards
<1>1. IInv => StateEncodesGuards
    BY DEF IInv
<1> QED BY <1>1, AlwaysIInv, PTL

\* No reader sees half of a write (spinlock.rs:384-414).
THEOREM RwNoTornRead == Spec => []NoTornRead
<1>1. IInv => NoTornRead
    <2> SUFFICES ASSUME IInv, NEW t \in Threads, pc[t] = "peek"
                 PROVE  \A w \in 1..2 : data[w] = seen[t]
        BY DEF NoTornRead
    <2>1. \A u \in Threads : ~OwnsWrite(u)
        BY DEF IInv, PeekerOwns, OwnsRead, WriterIsAlone
    <2>2. data[1] = seen[t] /\ data[1] = data[2]
        BY <2>1 DEF IInv, PeekerOwns, WordsAgree, OwnsWrite
    <2> QED BY <2>2
<1> QED BY <1>1, AlwaysIInv, PTL
-----------------------------------------------------------------------------
(* Once: its word and its callers are apart from those of the lock.        *)

OnceIInv == OnceTypeOK /\ RunsOnce /\ StateTellsPhase

\* The inductive invariant holds before the first call (spinlock.rs:441-445).
LEMMA OnceInitIInv == OnceInit => OnceIInv
BY OnceAssumption DEF OnceIInv, OnceInit, OnceTypeOK, OnceLabels, RunsOnce,
   StateTellsPhase, Inside, ONCE_UNINIT, ONCE_RUNNING, ONCE_DONE

\* Every step of every caller keeps the inductive invariant.
LEMMA OnceNextIInv == OnceIInv /\ [OnceNext]_once_vars => OnceIInv'
<1> SUFFICES ASSUME OnceIInv, [OnceNext]_once_vars PROVE OnceIInv'
    OBVIOUS
<1> USE OnceAssumption DEF OnceIInv, OnceTypeOK, OnceLabels, RunsOnce, StateTellsPhase,
        Inside, OnceGoto, Return, ONCE_UNINIT, ONCE_RUNNING, ONCE_DONE
<1>1. ASSUME NEW t \in Callers, CallOnce(t) PROVE OnceIInv'
    BY <1>1 DEF CallOnce
<1>2. ASSUME NEW t \in Callers, Cas(t) PROVE OnceIInv'
    <2>1. CASE once_state = ONCE_UNINIT
        BY <1>2, <2>1 DEF Cas
    <2>2. CASE once_state # ONCE_UNINIT
        BY <1>2, <2>2 DEF Cas
    <2> QED BY <2>1, <2>2
<1>3. ASSUME NEW t \in Callers, RunClosure(t) PROVE OnceIInv'
    <2> USE <1>3 DEF RunClosure
    <2>1. once_state = ONCE_RUNNING /\ \A u \in Callers : Inside(u) => u = t
        OBVIOUS
    <2>2. OnceTypeOK'
        OBVIOUS
    <2>3. RunsOnce' /\ StateTellsPhase'
        BY <2>1
    <2> QED BY <2>2, <2>3
<1>4. ASSUME NEW t \in Callers, StoreDone(t) PROVE OnceIInv'
    BY <1>4 DEF StoreDone
<1>5. ASSUME NEW t \in Callers, Wait(t) PROVE OnceIInv'
    BY <1>5 DEF Wait
<1>6. ASSUME NEW t \in Callers, IsCompleted(t) PROVE OnceIInv'
    BY <1>6 DEF IsCompleted
<1>7. CASE UNCHANGED once_vars
    BY <1>7 DEF once_vars
<1> QED BY <1>1, <1>2, <1>3, <1>4, <1>5, <1>6, <1>7 DEF OnceNext, InCallOnce

\* The inductive invariant holds in every reachable state.
LEMMA OnceAlwaysIInv == OnceSpec => []OnceIInv
BY OnceInitIInv, OnceNextIInv, PTL DEF OnceSpec

\* The closure is entered by one caller and once (spinlock.rs:434).
THEOREM OnceRunsOnce == OnceSpec => []RunsOnce
<1>1. OnceIInv => RunsOnce
    BY DEF OnceIInv
<1> QED BY <1>1, OnceAlwaysIInv, PTL

\* Nobody is told that initialisation is over before it is (spinlock.rs:447-476).
THEOREM OnceCompleteWhenTold == OnceSpec => []CompleteWhenTold
<1>1. OnceIInv => CompleteWhenTold
    BY DEF OnceIInv, StateTellsPhase, CompleteWhenTold
<1> QED BY <1>1, OnceAlwaysIInv, PTL
=============================================================================
