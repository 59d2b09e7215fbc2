------------------------------- MODULE RwLock -------------------------------
(***************************************************************************)
(* RwLock<T> of src/src/spinlock.rs: one AtomicU32 that is 0, a number of  *)
(* read guards, or WRITER_BIT.  WRITER_BIT is u32::MAX, one above every    *)
(* other value of the word, so that many read guards look like a writer.   *)
(*                                                                         *)
(* A thread may own several read guards.  The protected value has two      *)
(* words, written one after the other through a write guard and read one   *)
(* after the other through a read guard.                                   *)
(***************************************************************************)
EXTENDS Naturals, FiniteSets

CONSTANTS
    Threads,       \* the threads sharing the lock
    Slots,         \* where a thread keeps its read guards
    WRITER_BIT     \* u32::MAX in the code

ASSUME RwAssumption == WRITER_BIT \in Nat \ {0}

VARIABLES
    state,         \* the AtomicU32
    readers,       \* the live read guards, as <<thread, slot>>
    pc,            \* where each thread is in the lock's code
    current,       \* local `current` of read() and try_read()
    data,          \* the two words of the protected value
    seen           \* the first word as a reader saw it

vars == <<state, readers, pc, current, data, seen>>

Goto(t, label) == pc' = [pc EXCEPT ![t] = label]

OwnsRead(t) == \E i \in Slots : <<t, i>> \in readers
OwnsWrite(t) == pc[t] \in {"write_1", "write_2", "drop_write"}

Init ==
    /\ state = 0
    /\ readers = {}
    /\ pc = [t \in Threads |-> "idle"]
    /\ current = [t \in Threads |-> 0]
    /\ data = [w \in 1..2 |-> 0]
    /\ seen = [t \in Threads |-> 0]
-----------------------------------------------------------------------------
\* Bound: a thread owns at most one read guard per slot.
HasRoom(t) == \E i \in Slots : <<t, i>> \notin readers

\* read() is entered; its loop begins.
CallRead(t) ==
    /\ pc[t] = "idle"
    /\ HasRoom(t)
    /\ Goto(t, "read")
    /\ UNCHANGED <<state, readers, current, data, seen>>

\* write() or try_write() is entered.
CallWrite(t) ==
    /\ pc[t] = "idle"
    /\ \/ Goto(t, "write")
       \/ Goto(t, "try_write")
    /\ UNCHANGED <<state, readers, current, data, seen>>

\* Mutant: the test for a writer is dropped from read().
ReadLoadBlind(t) ==
    /\ pc[t] = "read"
    /\ current' = [current EXCEPT ![t] = state]
    /\ Goto(t, "read_cas")
    /\ UNCHANGED <<state, readers, data, seen>>

\* read(): the load that finds no writer; the others only spin.
ReadLoad(t) ==
    /\ pc[t] = "read"
    /\ state # WRITER_BIT
    /\ current' = [current EXCEPT ![t] = state]
    /\ Goto(t, "read_cas")
    /\ UNCHANGED <<state, readers, data, seen>>

\* try_read(): the load; with a writer there it returns None.
TryReadLoad(t) ==
    /\ pc[t] = "idle"
    /\ HasRoom(t)
    /\ state # WRITER_BIT
    /\ current' = [current EXCEPT ![t] = state]
    /\ Goto(t, "try_read_cas")
    /\ UNCHANGED <<state, readers, data, seen>>

\* Mutant: load, add, store.
ReadCasBlind(t, i) ==
    /\ pc[t] \in {"read_cas", "try_read_cas"}
    /\ <<t, i>> \notin readers
    /\ state' = (current[t] + 1) % (WRITER_BIT + 1)
    /\ readers' = readers \cup {<<t, i>>}
    /\ Goto(t, "idle")
    /\ UNCHANGED <<current, data, seen>>

\* read() and try_read(): the compare_exchange that wins; a u32 addition.
ReadCas(t, i) ==
    /\ pc[t] \in {"read_cas", "try_read_cas"}
    /\ <<t, i>> \notin readers
    /\ state = current[t]
    /\ state' = (current[t] + 1) % (WRITER_BIT + 1)
    /\ readers' = readers \cup {<<t, i>>}
    /\ Goto(t, "idle")
    /\ UNCHANGED <<current, data, seen>>

\* Mutant: read() tries again with the value it has.
ReadCasLostStale(t) ==
    /\ pc[t] \in {"read_cas", "try_read_cas"}
    /\ state # current[t]
    /\ Goto(t, IF pc[t] = "read_cas" THEN "read_cas" ELSE "idle")
    /\ UNCHANGED <<state, readers, current, data, seen>>

\* The compare_exchange that loses: read() loops, try_read() returns None.
ReadCasLost(t) ==
    /\ pc[t] \in {"read_cas", "try_read_cas"}
    /\ state # current[t]
    /\ Goto(t, IF pc[t] = "read_cas" THEN "read" ELSE "idle")
    /\ UNCHANGED <<state, readers, current, data, seen>>

\* write() and try_write(): the compare_exchange that wins.
WriteCas(t) ==
    /\ pc[t] \in {"write", "try_write"}
    /\ state = 0
    /\ state' = WRITER_BIT
    /\ Goto(t, "write_1")
    /\ UNCHANGED <<readers, current, data, seen>>

\* The one that loses: try_write() returns None; write() stays in its loop.
WriteCasLost(t) ==
    /\ pc[t] = "try_write"
    /\ state # 0
    /\ Goto(t, "idle")
    /\ UNCHANGED <<state, readers, current, data, seen>>

\* DerefMut through a write guard: one word, then the other.
WriteWord(t) ==
    /\ pc[t] \in {"write_1", "write_2"}
    /\ LET w == IF pc[t] = "write_1" THEN 1 ELSE 2
       IN  data' = [data EXCEPT ![w] = 1 - data[w]]
    /\ Goto(t, IF pc[t] = "write_1" THEN "write_2" ELSE "drop_write")
    /\ UNCHANGED <<state, readers, current, seen>>

\* Deref through a read guard: the first word, then the second.
PeekFirst(t) ==
    /\ pc[t] = "idle"
    /\ OwnsRead(t)
    /\ seen' = [seen EXCEPT ![t] = data[1]]
    /\ Goto(t, "peek")
    /\ UNCHANGED <<state, readers, current, data>>

PeekSecond(t) ==
    /\ pc[t] = "peek"
    /\ Goto(t, "idle")
    /\ UNCHANGED <<state, readers, current, data, seen>>

\* Mutant: the read guard is dropped without the fetch_sub.
DropReadKept(t, i) ==
    /\ pc[t] = "idle"
    /\ <<t, i>> \in readers
    /\ readers' = readers \ {<<t, i>>}
    /\ UNCHANGED <<state, pc, current, data, seen>>

\* Drop of a read guard: state.fetch_sub(1), which wraps at the width.
DropRead(t, i) ==
    /\ pc[t] = "idle"
    /\ <<t, i>> \in readers
    /\ readers' = readers \ {<<t, i>>}
    /\ state' = (state + WRITER_BIT) % (WRITER_BIT + 1)
    /\ UNCHANGED <<pc, current, data, seen>>

\* Mutant: the write guard is dropped without the store.
DropWriteKept(t) ==
    /\ pc[t] = "drop_write"
    /\ Goto(t, "idle")
    /\ UNCHANGED <<state, readers, current, data, seen>>

\* Drop of the write guard: state.store(0).
DropWrite(t) ==
    /\ pc[t] = "drop_write"
    /\ state' = 0
    /\ Goto(t, "idle")
    /\ UNCHANGED <<readers, current, data, seen>>
-----------------------------------------------------------------------------
DropSomeRead(t) == \E i \in Slots : DropRead(t, i)

\* Steps of a call a thread is in, and the end of a writer's section.
InCall(t) ==
    \/ ReadLoad(t) \/ ReadCasLost(t) \/ (\E i \in Slots : ReadCas(t, i))
    \/ WriteCas(t) \/ WriteCasLost(t)
    \/ WriteWord(t) \/ DropWrite(t) \/ PeekSecond(t)

Next ==
    \E t \in Threads :
        \/ CallRead(t) \/ CallWrite(t) \/ TryReadLoad(t)
        \/ PeekFirst(t) \/ DropSomeRead(t) \/ InCall(t)

\* A core executes the call it is in; a read guard is dropped in the end,
\* however many other things its owner does before.
Fairness == \A t \in Threads : WF_vars(InCall(t)) /\ SF_vars(DropSomeRead(t))

Spec == Init /\ [][Next]_vars
FairSpec == Spec /\ Fairness
-----------------------------------------------------------------------------
Labels == {"idle", "read", "read_cas", "try_read_cas", "peek",
           "write", "try_write", "write_1", "write_2", "drop_write"}

\* The word has its width, guards name threads and slots.
TypeOK ==
    /\ state \in 0..WRITER_BIT
    /\ readers \subseteq Threads \X Slots
    /\ pc \in [Threads -> Labels]
    /\ current \in [Threads -> 0..WRITER_BIT]
    /\ data \in [1..2 -> 0..1]
    /\ seen \in [Threads -> 0..1]

\* "a writer gets exclusive access" (spinlock.rs:274-275): no second write
\* guard and no read guard beside a write guard.
WriterIsAlone ==
    \A t \in Threads : OwnsWrite(t) =>
        /\ readers = {}
        /\ \A u \in Threads : OwnsWrite(u) => u = t

\* A read guard sees one value: neither word changes between the two loads.
NoTornRead ==
    \A t \in Threads : pc[t] = "peek" => \A w \in 1..2 : data[w] = seen[t]

\* "State encoding in `state`" (spinlock.rs:277-280): the word counts the read
\* guards exactly, or is WRITER_BIT; that many readers are taken for a writer
\* without harm.
StateEncodesGuards ==
    state = IF \E t \in Threads : OwnsWrite(t) THEN WRITER_BIT ELSE Cardinality(readers)

-----------------------------------------------------------------------------
(* The inductive strengthening.                                            *)

\* Nobody adds a reader to WRITER_BIT.
NeverCountsWriter ==
    \A t \in Threads : pc[t] \in {"read_cas", "try_read_cas"} => current[t] # WRITER_BIT

\* Between its two loads a reader still has a guard and its first word.
PeekerOwns == \A t \in Threads : pc[t] = "peek" => OwnsRead(t) /\ seen[t] = data[1]

\* The words differ exactly in the middle of a write.
WordsAgree == data[1] = data[2] <=> \A t \in Threads : pc[t] # "write_2"

-----------------------------------------------------------------------------
\* A thread that waits is served if the others stop asking for the lock, unless
\* it waits for a read guard of its own (spinlock.rs:301-325, 345-363).
Asking(t) == pc[t] \in {"read", "read_cas", "try_read_cas", "write", "try_write"}

ServedWhenOthersStop ==
    \A t \in Threads :
        <>[](\A u \in Threads \ {t} : ~Asking(u)) =>
            (Asking(t) /\ ~OwnsRead(t) ~> ~Asking(t))

\* Threads that ask at the same time do not hold each other up: a lock without a
\* guard does not stay so while somebody is in read(), write() or a try.  A
\* compare_exchange that loses has lost to a guard, for compare_exchange_weak never
\* fails spuriously on x86-64 (spinlock.rs:310-318, 350-356).
FreeLockIsTaken ==
    (\E t \in Threads : Asking(t)) ~>
        \/ readers # {} \/ \E t \in Threads : OwnsWrite(t)
        \/ \A t \in Threads : ~Asking(t)
=============================================================================
