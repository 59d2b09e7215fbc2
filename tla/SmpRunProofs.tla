---------------------------- MODULE SmpRunProofs ----------------------------
(***************************************************************************)
(* SmpRun for any number of cores, tasks and slots, any width of the timer *)
(* and any order in which the APs come up: the registry, the scan of       *)
(* all_cpus(), the calibration of the timer and the sending of IPIs.       *)
(***************************************************************************)
EXTENDS SmpRun, FiniteSetTheorems, TLAPS

(* The inductive invariant, part by part.                                  *)

Vectors == {0, IPI_SCHEDULE_VECTOR, HALT_VECTOR}
Messages == [dest : Cores, vector : Vectors]

\* Every AP that has left register_percpu() has its GS base.
GsBaseIsSet ==
    \A a \in Aps : pc[a] \in {"check", "sti", "hlt", "handler", "halted"} => gs_base[a] = a

\* The slots that are taken, and the APs between the slot and the count.
Taken == {i \in Slots : percpu_array[i] # Null}
Uncounted == {a \in Aps : pc[a] = "count"}

\* A block is in the slot of its core's index and nowhere else.
SlotsAreOwn == \A i \in Taken : CpuIndex[percpu_array[i]] = i

\* The slot of a core that has not registered is free.
NotYetThere ==
    /\ ~Started => percpu_array[0] = Null
    /\ \A a \in Aps : pc[a] \in {"enable", "register"} => percpu_array[CpuIndex[a]] = Null

\* The count is behind the slots by the APs that are about to count.
CountIsBehind == percpu_count + Cardinality(Uncounted) = Cardinality(Taken)

\* all_cpus() has found only cores of the slots it has passed.
FoundIsBehind == found \subseteq {c \in Cores : CpuIndex[c] < scan}

\* Outside of all_cpus() its locals are as at the start.
ScanIsFresh == spc # "scan" => want = 0 /\ found = {} /\ scan = 0

\* The APs start after the BSP.
ApsAreLater == ~Started => \A a \in Aps : pc[a] = "enable"

\* The timer counts the clock down to zero.
Counting(n) ==
    [divide |-> 16, masked |-> TRUE, periodic |-> FALSE, initial |-> MAX_COUNT, current |-> n]
Left == IF elapsed < MAX_COUNT THEN MAX_COUNT - elapsed ELSE 0
CountsDown ==
    /\ spc = "boot" => elapsed = 0
    /\ spc = "delay" => timer = Counting(Left)

\* The IPI that is being sent has a core to go to and, as long as no handler has
\* sent one since the wait, an idle ICR and, before the low half is written, its
\* destination in the high half.
SendIsReady ==
    /\ spc \in {"wait_icr", "icr_high", "icr_low"} => dest \in Cores
    /\ spc \in {"icr_high", "icr_low"} /\ ~crossed => icr[Bsp] = NoMessage
    /\ spc = "icr_low" /\ ~crossed => icr_high[Bsp] = dest

Typed == TypeOK /\ icr \in [Cores -> Messages \cup {NoMessage}]
Registry == GsBaseIsSet /\ SlotsAreOwn /\ NotYetThere /\ CountIsBehind /\ ApsAreLater
Scan == FoundIsBehind /\ ScanIsFresh /\ AllCpusFindsCount
Calibration == CountsDown /\ CalibrationIsExact

IInv == Typed /\ Registry /\ Scan /\ Calibration /\ SendIsReady
-----------------------------------------------------------------------------
(* What the steps leave alone.                                             *)

\* Nobody but the calibration and init_bsp_apic() touches the timer, and
\* nobody goes back to it (apic.rs:662-688, driver.rs:221-250).
LEMMA TimerSteps ==
    ASSUME [Next]_vars
    PROVE  \/ CalibrateTimer \/ ClockTick \/ CalibrateEnd \/ InitBspApic
           \/ /\ UNCHANGED <<timer, clockVars>>
              /\ spc' = spc \/ spc' \notin {"boot", "delay", "calibrated"}
BY DEF Next, Thread, Ap, vars, clockVars, apicVars, percpuVars, callVars, scanVars, taskVars,
   icrVars, Goto, ApGoto, AfterIpi, InitBspPercpu, SpawnOnCore, Spawn, HaltAps, LookUp, WaitIcr,
   SendHigh, SendLow, AllCpus, ScanSlot, BspSchedule, HandlerSpawn, ApEnable, ApRegisterSlot,
   ApRegisterCount, ApRegisterGsBase, CheckHalt, StiHlt, ApInterrupt, ApIret, DeliverIpi,
   Deliver, Acknowledge, Eoi

\* Only register_percpu() changes the registry, and a core that is through with
\* it stays so (percpu.rs:129-156).
LEMMA RegistrySteps ==
    ASSUME [Next]_vars
    PROVE  \/ InitBspPercpu
           \/ \E a \in Aps : \/ ApEnable(a) \/ ApRegisterSlot(a)
                            \/ ApRegisterCount(a) \/ ApRegisterGsBase(a)
           \/ /\ UNCHANGED percpuVars
              /\ Started' <=> Started
              /\ \/ pc' = pc
                 \/ \E a \in Aps :
                       /\ pc[a] \in {"check", "sti", "hlt", "handler"}
                       /\ \E to \in {"check", "sti", "hlt", "handler", "halted"} :
                             pc' = [pc EXCEPT ![a] = to]
BY DEF Next, Thread, Ap, vars, clockVars, apicVars, percpuVars, callVars, scanVars, taskVars,
   icrVars, Goto, ApGoto, AfterIpi, Started, CalibrateTimer, ClockTick, CalibrateEnd,
   InitBspApic, SpawnOnCore, Spawn, HaltAps, LookUp, WaitIcr, SendHigh, SendLow, AllCpus,
   ScanSlot, BspSchedule, HandlerSpawn, CheckHalt, StiHlt, ApInterrupt, InterruptsOn, ApIret,
   DeliverIpi

\* Only all_cpus() touches its locals, and only the stores of
\* register_percpu() the slots it looks at (percpu.rs:202-220).
LEMMA ScanSteps ==
    ASSUME [Next]_vars
    PROVE  \/ AllCpus \/ ScanSlot
           \/ InitBspPercpu \/ \E a \in Aps : ApRegisterSlot(a)
           \/ /\ UNCHANGED <<percpu_array, scanVars>>
              /\ spc' = "scan" <=> spc = "scan"
BY DEF Next, Thread, Ap, vars, clockVars, apicVars, percpuVars, callVars, scanVars, taskVars,
   icrVars, Goto, ApGoto, AfterIpi, CalibrateTimer, ClockTick, CalibrateEnd,
   InitBspApic, SpawnOnCore, Spawn, HaltAps, LookUp, WaitIcr, SendHigh, SendLow,
   BspSchedule, HandlerSpawn, ApEnable, ApRegisterCount, ApRegisterGsBase, CountOne, SetGsBase,
   CheckHalt, StiHlt, ApInterrupt, ApIret, DeliverIpi

\* The interrupt command register belongs to send_ipi(), and what send_ipi()
\* keeps to the thread that is in it (apic.rs:557-579).
LEMMA SendSteps ==
    ASSUME [Next]_vars
    PROVE  \/ LookUp \/ WaitIcr \/ SendHigh \/ SendLow \/ DeliverIpi
           \/ \E t \in Tasks, i \in Indices : HandlerSpawn(t, i)
           \/ /\ UNCHANGED icrVars
              /\ \/ spc' \notin {"wait_icr", "icr_high", "icr_low"}
                 \/ UNCHANGED <<spc, dest, crossed>>
BY DEF Next, Thread, Ap, vars, clockVars, apicVars, percpuVars, callVars, scanVars, taskVars,
   icrVars, Goto, ApGoto, AfterIpi, CalibrateTimer, ClockTick, CalibrateEnd, InitBspPercpu,
   InitBspApic, SpawnOnCore, Spawn, HaltAps, AllCpus, ScanSlot,
   BspSchedule, ApEnable, ApRegisterSlot, ApRegisterCount, ApRegisterGsBase, CountOne, SetGsBase,
   CheckHalt, StiHlt, ApInterrupt, ApIret, Acknowledge, Eoi
-----------------------------------------------------------------------------
(* The calibration                                                         *)

\* A count that fits the register is not changed by its width.
LEMMA Fits == \A n \in 0..MAX_COUNT : n % (MAX_COUNT + 1) = n
BY LocalApicAssumption

\* A part of a number is no more than the number.
LEMMA PartOf == \A n \in Nat : n \div DelayMs \in 0..n
BY LocalApicAssumption

\* A tick of the calibrating timer takes one off, and stops at zero: divided by
\* 16, one-shot (apic.rs:662-672).
LEMMA TickCounts ==
    \A n \in Nat : Ticking(Counting(n)) = Counting(IF n > 0 THEN n - 1 ELSE 0)
<1> TAKE n \in Nat
<1> DEFINE t == Counting(n)
<1>1. /\ t \in [divide : Nat, masked : BOOLEAN, periodic : BOOLEAN, initial : Nat, current : Nat]
      /\ t.divide = 16 /\ t.masked = TRUE /\ t.periodic = FALSE
      /\ t.initial = MAX_COUNT /\ t.current = n
    BY LocalApicAssumption DEF Counting
<1>2. 16 \div t.divide = 1
    BY <1>1
<1> HIDE DEF t
<1>3. CASE n = 0
    BY <1>1, <1>3 DEF Ticking, t, Counting
<1>4. CASE n # 0
    <2>1. Ticking(t) = [t EXCEPT !.current = n - 1]
        BY <1>1, <1>2, <1>4 DEF Ticking
    <2>2. [t EXCEPT !.current = n - 1] =
          [divide |-> t.divide, masked |-> t.masked, periodic |-> t.periodic,
           initial |-> t.initial, current |-> n - 1]
        BY <1>1
    <2>3. [t EXCEPT !.current = n - 1] = Counting(n - 1)
        BY <1>1, <2>2 DEF Counting
    <2> QED BY <1>4, <2>1, <2>3 DEF t
<1> QED BY <1>3, <1>4

\* The counter is the clock, from the first write to the read
\* (apic.rs:667-688).
LEMMA TimerKept ==
    ASSUME TypeOK, Calibration, [Next]_vars
    PROVE  Calibration'
<1> USE LocalApicAssumption, RunAssumption DEF Calibration, CountsDown, CalibrationIsExact, Left, Goto
<1>1. CASE CalibrateTimer
    <2>1. Left' = MAX_COUNT
        BY <1>1 DEF CalibrateTimer, clockVars
    <2>2. timer' = Counting(MAX_COUNT)
        BY <1>1 DEF CalibrateTimer, Calibrating, Counting
    <2> QED BY <1>1, <2>1, <2>2 DEF CalibrateTimer
<1>2. CASE ClockTick
    <2>1. timer = Counting(Left) /\ elapsed \in Nat
        BY <1>2 DEF ClockTick, TypeOK
    <2>2. timer' = Counting(Left')
        BY <1>2, <2>1, TickCounts DEF ClockTick
    <2> QED BY <1>2, <2>2 DEF ClockTick
<1>3. CASE CalibrateEnd
    <2>1. timer.current = Left /\ elapsed \in Nat
        BY <1>3 DEF CalibrateEnd, Counting, TypeOK
    <2>2. MAX_COUNT - timer.current = (IF elapsed < MAX_COUNT THEN elapsed ELSE MAX_COUNT)
        BY <2>1
    <2>3. TicksPerMs(timer) = (IF elapsed < MAX_COUNT THEN elapsed ELSE MAX_COUNT) \div DelayMs
        BY <2>1, <2>2, Fits DEF TicksPerMs
    <2> QED BY <1>3, <2>3 DEF CalibrateEnd
<1>4. CASE InitBspApic
    BY <1>4 DEF InitBspApic
<1>5. CASE /\ UNCHANGED <<timer, clockVars>>
           /\ spc' = spc \/ spc' \notin {"boot", "delay", "calibrated"}
    BY <1>5 DEF clockVars
<1> QED BY <1>1, <1>2, <1>3, <1>4, <1>5, TimerSteps
-----------------------------------------------------------------------------
(* The registry                                                            *)

\* There are as many indices as cores, and a slot for each of them.
LEMMA IndexFacts ==
    /\ NumCores \in Nat /\ NumCores > 1 /\ NumCores <= MAX_CPUS
    /\ IsFiniteSet(Indices) /\ Cardinality(Indices) = NumCores
    /\ Indices \subseteq Slots /\ 0 \in Indices
    /\ \A c \in Cores : CpuIndex[c] \in Indices
    /\ \A a \in Aps : a \in Cores /\ CpuIndex[a] # 0 /\ a # Null
<1>1. NumCores \in Nat
    BY RunAssumption, FS_CardinalityType DEF NumCores
<1>2. IsFiniteSet(Indices) /\ Cardinality(Indices) = NumCores
    BY <1>1, RunAssumption, FS_Interval DEF Indices
<1> QED BY <1>1, <1>2, RunAssumption, PerCpuAssumption DEF Indices, Slots, Aps

\* The sets that are counted are finite, and no more slots are taken than there
\* are cores.
LEMMA CountedSets ==
    ASSUME TypeOK, SlotsAreOwn
    PROVE  /\ IsFiniteSet(Taken) /\ Cardinality(Taken) \in 0..NumCores
           /\ IsFiniteSet(Uncounted) /\ Cardinality(Uncounted) \in Nat
<1>1. Taken \subseteq Indices
    BY IndexFacts DEF TypeOK, PerCpuTypeOK, SlotsAreOwn, Taken
<1>2. IsFiniteSet(Taken) /\ Cardinality(Taken) <= NumCores
    BY <1>1, IndexFacts, FS_Subset
<1>3. IsFiniteSet(Uncounted)
    BY RunAssumption, FS_Subset DEF Uncounted, Aps
<1> QED BY <1>2, <1>3, FS_CardinalityType, IndexFacts

\* A store to a free slot takes one more slot (percpu.rs:146).
LEMMA SlotStored ==
    ASSUME TypeOK, SlotsAreOwn, NEW c \in Cores, percpu_array[CpuIndex[c]] = Null,
           percpu_array' = [percpu_array EXCEPT ![CpuIndex[c]] = c]
    PROVE  /\ SlotsAreOwn'
           /\ Taken' = Taken \cup {CpuIndex[c]}
           /\ Cardinality(Taken') = Cardinality(Taken) + 1
<1> USE IndexFacts, PerCpuAssumption
<1>1. Taken' = Taken \cup {CpuIndex[c]} /\ CpuIndex[c] \notin Taken
    BY DEF TypeOK, PerCpuTypeOK, Taken
<1>2. SlotsAreOwn'
    BY <1>1 DEF TypeOK, PerCpuTypeOK, SlotsAreOwn, Taken
<1>3. Cardinality(Taken') = Cardinality(Taken) + 1
    BY <1>1, CountedSets, FS_AddElement
<1> QED BY <1>1, <1>2, <1>3

\* The BSP and the APs may go through register_percpu() in any order: each
\* finds its slot free, and the count follows the slots (percpu.rs:129-156).
LEMMA RegistryKept ==
    ASSUME TypeOK, Registry, [Next]_vars
    PROVE  Registry'
<1> USE IndexFacts DEF Registry
<1>0. /\ IsFiniteSet(Taken) /\ Cardinality(Taken) \in Nat
      /\ IsFiniteSet(Uncounted) /\ Cardinality(Uncounted) \in Nat
    BY CountedSets
<1>1. CASE InitBspPercpu
    <2> USE <1>1 DEF InitBspPercpu, Goto
    <2>1. percpu_array[CpuIndex[Bsp]] = Null /\ CpuIndex[Bsp] = 0 /\ Bsp \in Cores
        BY RunAssumption DEF NotYetThere, Started
    <2>2. SlotsAreOwn' /\ Cardinality(Taken') = Cardinality(Taken) + 1
        BY <2>1, SlotStored
    <2>3. Uncounted' = Uncounted
        BY DEF Uncounted
    <2>4. CountIsBehind'
        BY <1>0, <2>2, <2>3 DEF CountIsBehind, TypeOK, PerCpuTypeOK
    <2>5. GsBaseIsSet' /\ ApsAreLater'
        BY DEF GsBaseIsSet, ApsAreLater, Started, TypeOK, PerCpuTypeOK, Aps
    <2>6. NotYetThere'
        BY <2>1 DEF NotYetThere, Started, TypeOK, PerCpuTypeOK
    <2> QED BY <2>2, <2>4, <2>5, <2>6
<1>2. ASSUME NEW a \in Aps, ApEnable(a) PROVE Registry'
    <2> USE <1>2 DEF ApEnable, ApGoto, TypeOK, PerCpuTypeOK, percpuVars
    <2>1. Uncounted' = Uncounted /\ Taken' = Taken
        BY DEF Uncounted, Taken
    <2>2. SlotsAreOwn' /\ CountIsBehind'
        BY <2>1 DEF SlotsAreOwn, CountIsBehind
    <2>3. GsBaseIsSet' /\ NotYetThere' /\ ApsAreLater'
        BY DEF GsBaseIsSet, NotYetThere, ApsAreLater, Started
    <2> QED BY <2>2, <2>3
<1>3. ASSUME NEW a \in Aps, ApRegisterSlot(a) PROVE Registry'
    <2> USE <1>3 DEF ApRegisterSlot, ApGoto, StoreSlot
    <2>1. SlotsAreOwn' /\ Cardinality(Taken') = Cardinality(Taken) + 1
        BY SlotStored DEF NotYetThere
    <2>2. Uncounted' = Uncounted \cup {a} /\ a \notin Uncounted
        BY DEF Uncounted, TypeOK
    <2>3. Cardinality(Uncounted') = Cardinality(Uncounted) + 1
        BY <1>0, <2>2, FS_AddElement
    <2>4. CountIsBehind'
        BY <1>0, <2>1, <2>3 DEF CountIsBehind, TypeOK, PerCpuTypeOK
    <2>5. GsBaseIsSet' /\ ApsAreLater'
        BY DEF GsBaseIsSet, ApsAreLater, Started, TypeOK, PerCpuTypeOK, Aps
    <2>6. NotYetThere'
        BY RunAssumption DEF NotYetThere, Started, TypeOK, PerCpuTypeOK, ApsAreLater
    <2> QED BY <2>1, <2>4, <2>5, <2>6
<1>4. ASSUME NEW a \in Aps, ApRegisterCount(a) PROVE Registry'
    <2> USE <1>4 DEF ApRegisterCount, ApGoto, CountOne, TypeOK, PerCpuTypeOK
    <2>1. Uncounted' = Uncounted \ {a} /\ a \in Uncounted /\ Taken' = Taken
        BY DEF Uncounted, Taken
    <2>2. Cardinality(Uncounted') = Cardinality(Uncounted) - 1
        BY <1>0, <2>1, FS_RemoveElement
    <2>3. SlotsAreOwn' /\ CountIsBehind'
        BY <1>0, <2>1, <2>2 DEF SlotsAreOwn, CountIsBehind
    <2>4. GsBaseIsSet' /\ NotYetThere' /\ ApsAreLater'
        BY DEF GsBaseIsSet, NotYetThere, ApsAreLater, Started
    <2> QED BY <2>3, <2>4
<1>5. ASSUME NEW a \in Aps, ApRegisterGsBase(a) PROVE Registry'
    <2> USE <1>5 DEF ApRegisterGsBase, ApGoto, SetGsBase, TypeOK, PerCpuTypeOK
    <2>1. Uncounted' = Uncounted /\ Taken' = Taken
        BY DEF Uncounted, Taken
    <2>2. SlotsAreOwn' /\ CountIsBehind'
        BY <2>1 DEF SlotsAreOwn, CountIsBehind
    <2>3. GsBaseIsSet' /\ NotYetThere' /\ ApsAreLater'
        BY DEF GsBaseIsSet, NotYetThere, ApsAreLater, Started, Aps
    <2> QED BY <2>2, <2>3
<1>6. CASE /\ UNCHANGED percpuVars
           /\ Started' <=> Started
           /\ \/ pc' = pc
              \/ \E a \in Aps :
                    /\ pc[a] \in {"check", "sti", "hlt", "handler"}
                    /\ \E to \in {"check", "sti", "hlt", "handler", "halted"} :
                          pc' = [pc EXCEPT ![a] = to]
    <2> USE <1>6 DEF percpuVars
    <2>1. Uncounted' = Uncounted /\ Taken' = Taken
        BY DEF Uncounted, Taken, TypeOK
    <2>2. SlotsAreOwn' /\ CountIsBehind'
        BY <2>1 DEF SlotsAreOwn, CountIsBehind
    <2>3. GsBaseIsSet' /\ NotYetThere' /\ ApsAreLater'
        BY DEF GsBaseIsSet, NotYetThere, ApsAreLater, TypeOK
    <2> QED BY <2>2, <2>3
<1> QED BY <1>1, <1>2, <1>3, <1>4, <1>5, <1>6, RegistrySteps
-----------------------------------------------------------------------------
(* The scan of all_cpus()                                                  *)

\* The taken slots the loop has still to look at.
Ahead == {i \in scan..(ScanEnd(want) - 1) : GetCpu(i) # Null}

\* The two sets the promise of all_cpus() counts are finite.
LEMMA ScannedSets ==
    ASSUME TypeOK
    PROVE  /\ IsFiniteSet(found) /\ Cardinality(found) \in Nat
           /\ IsFiniteSet(Ahead) /\ Cardinality(Ahead) \in Nat
<1>1. IsFiniteSet(found)
    BY RunAssumption, FS_Subset DEF TypeOK
<1>2. IsFiniteSet(scan..(ScanEnd(want) - 1))
    BY PerCpuAssumption, FS_Interval DEF TypeOK, ScanEnd, Slots
<1>3. IsFiniteSet(Ahead)
    BY <1>2, FS_Subset DEF Ahead
<1> QED BY <1>1, <1>3, FS_CardinalityType

\* An iteration that finds a core moves one slot from those ahead to those
\* found, and registrations only add to those ahead (percpu.rs:202-220).
LEMMA ScanKept ==
    ASSUME TypeOK, Registry, Scan, [Next]_vars
    PROVE  Scan'
<1> USE DEF Scan, Goto
<1>0. /\ MAX_CPUS \in Nat \ {0}
      /\ IsFiniteSet(found) /\ Cardinality(found) \in Nat
      /\ IsFiniteSet(Ahead) /\ Cardinality(Ahead) \in Nat
      /\ IsFiniteSet(Taken) /\ Cardinality(Taken) \in Nat /\ Cardinality(Uncounted) \in Nat
    BY PerCpuAssumption, ScannedSets, CountedSets DEF Registry
<1>1. CASE AllCpus
    <2> USE <1>1 DEF AllCpus
    <2>1. found' = {} /\ scan' = 0 /\ found = {} /\ scan = 0
        BY DEF ScanIsFresh
    <2>2. Ahead' = Taken
        BY <1>0, <2>1 DEF Ahead, Taken, ScanEnd, GetCpu, Slots, percpuVars
    <2>3. percpu_count <= Cardinality(Taken)
        BY <1>0 DEF Registry, CountIsBehind, TypeOK, PerCpuTypeOK
    <2>4. Cardinality(found') + Cardinality(Ahead') >= want'
        BY <1>0, <2>1, <2>2, <2>3, FS_EmptySet DEF TypeOK, PerCpuTypeOK
    <2>5. AllCpusFindsCount'
        BY <2>4 DEF AllCpusFindsCount, Ahead
    <2> QED BY <2>1, <2>5 DEF FoundIsBehind, ScanIsFresh
<1>2. CASE ScanSlot
    <2> DEFINE now == found \cup ({GetCpu(scan)} \ {Null})
               done == Cardinality(now) = want \/ scan + 1 = ScanEnd(want)
    <2>1. CASE done
        BY <1>2, <2>1 DEF ScanSlot, FoundIsBehind, ScanIsFresh, AllCpusFindsCount
    <2>2. CASE ~done
        <3>1. /\ spc = "scan" /\ spc' = "scan" /\ scan' = scan + 1 /\ found' = now
              /\ want' = want /\ percpu_array' = percpu_array
            BY <1>2, <2>2 DEF ScanSlot, percpuVars
        <3>2. scan + 1 \in Slots /\ scan \in Slots
            BY <1>0, <2>2 DEF TypeOK, Slots, ScanEnd
        <3>3. Ahead' = Ahead \ {scan}
            BY <1>0, <3>1, <3>2 DEF Ahead, ScanEnd, GetCpu, Slots
        <3>4. CASE GetCpu(scan) = Null
            <4>1. found' = found /\ scan \notin Ahead
                BY <3>1, <3>4 DEF Ahead
            <4>2. Ahead' = Ahead
                BY <3>3, <4>1
            <4>3. AllCpusFindsCount'
                BY <3>1, <4>1, <4>2 DEF AllCpusFindsCount, Ahead
            <4> QED BY <3>1, <3>2, <4>1, <4>3, IndexFacts
                DEF FoundIsBehind, ScanIsFresh, Slots, Indices
        <3>5. CASE GetCpu(scan) # Null
            <4> DEFINE c == GetCpu(scan)
            <4>1. scan \in Ahead
                BY <1>0, <3>2, <3>5 DEF Ahead, ScanEnd, Slots
            <4>2. c \in Cores /\ CpuIndex[c] = scan
                BY <3>2, <3>5 DEF TypeOK, PerCpuTypeOK, Registry, SlotsAreOwn, Taken, GetCpu
            <4>3. c \notin found
                BY <3>2, <4>2 DEF FoundIsBehind, Slots
            <4>4. found' = found \cup {c}
                BY <3>1, <3>5
            <4>5. Cardinality(found') = Cardinality(found) + 1
                BY <1>0, <4>3, <4>4, FS_AddElement
            <4>6. Cardinality(Ahead') = Cardinality(Ahead) - 1
                BY <1>0, <3>3, <4>1, FS_RemoveElement
            <4>7. AllCpusFindsCount'
                BY <1>0, <3>1, <4>5, <4>6 DEF AllCpusFindsCount, Ahead, TypeOK
            <4>8. FoundIsBehind'
                BY <3>1, <3>2, <4>2, <4>4, IndexFacts DEF FoundIsBehind, Slots, Indices
            <4> QED BY <3>1, <4>7, <4>8 DEF ScanIsFresh
        <3> QED BY <3>4, <3>5
    <2> QED BY <2>1, <2>2
<1>3. CASE InitBspPercpu
    BY <1>3 DEF InitBspPercpu, scanVars, FoundIsBehind, ScanIsFresh, AllCpusFindsCount
<1>4. ASSUME NEW a \in Aps, ApRegisterSlot(a) PROVE Scan'
    <2>1. UNCHANGED <<spc, scanVars>>
        BY <1>4 DEF ApRegisterSlot
    <2>2. Ahead \subseteq Ahead' /\ Ahead' \subseteq scan..(MAX_CPUS - 1)
        BY <1>0, <1>4, <2>1, IndexFacts
        DEF Ahead, GetCpu, ScanEnd, scanVars, ApRegisterSlot, StoreSlot, TypeOK, PerCpuTypeOK
    <2>3. IsFiniteSet(scan..(MAX_CPUS - 1))
        BY <1>0, FS_Interval DEF TypeOK, Slots
    <2>4. IsFiniteSet(Ahead')
        BY <2>2, <2>3, FS_Subset
    <2>5. Cardinality(Ahead) <= Cardinality(Ahead') /\ Cardinality(Ahead') \in Nat
        BY <2>2, <2>4, FS_Subset, FS_CardinalityType
    <2>6. AllCpusFindsCount'
        BY <1>0, <2>1, <2>5 DEF AllCpusFindsCount, Ahead, scanVars, TypeOK
    <2> QED BY <2>1, <2>6 DEF FoundIsBehind, ScanIsFresh, scanVars
<1>5. CASE UNCHANGED <<percpu_array, scanVars>> /\ (spc' = "scan" <=> spc = "scan")
    BY <1>5 DEF scanVars, FoundIsBehind, ScanIsFresh, AllCpusFindsCount, GetCpu
<1> QED BY <1>1, <1>2, <1>3, <1>4, <1>5, ScanSteps
-----------------------------------------------------------------------------
(* The sending of IPIs                                                     *)

\* While the thread is in send_ipi() and no handler sends, the register is its
\* own (apic.rs:557-579).
LEMMA SendKept ==
    ASSUME TypeOK, SendIsReady, [Next]_vars
    PROVE  SendIsReady'
<1> USE DEF SendIsReady, Goto, TypeOK
<1>1. CASE LookUp
    BY <1>1, PerCpuAssumption DEF LookUp, AfterIpi, GetCpu, PerCpuTypeOK
<1>2. CASE WaitIcr
    BY <1>2 DEF WaitIcr, IcrIdle, apicVars, callVars
<1>3. CASE SendHigh
    BY <1>3, RunAssumption DEF SendHigh, WriteIcrHigh, callVars
<1>4. CASE SendLow
    BY <1>4 DEF SendLow, AfterIpi
<1>5. CASE DeliverIpi
    BY <1>5, RunAssumption DEF DeliverIpi, Deliver, callVars
<1>6. ASSUME NEW t \in Tasks, NEW i \in Indices, HandlerSpawn(t, i) PROVE SendIsReady'
    <2>1. \/ UNCHANGED <<icrVars, crossed>>
          \/ crossed' = (spc \in {"icr_high", "icr_low"})
        BY <1>6 DEF HandlerSpawn
    <2> QED BY <1>6, <2>1 DEF HandlerSpawn, icrVars
<1>7. CASE /\ UNCHANGED icrVars
           /\ \/ spc' \notin {"wait_icr", "icr_high", "icr_low"}
              \/ UNCHANGED <<spc, dest, crossed>>
    BY <1>7 DEF icrVars
<1> QED BY <1>1, <1>2, <1>3, <1>4, <1>5, <1>6, <1>7, SendSteps
-----------------------------------------------------------------------------
(* Types                                                                   *)

\* Every step keeps the types.
LEMMA TypesKept ==
    ASSUME IInv, [Next]_vars
    PROVE  Typed'
<1> USE IndexFacts, RunAssumption, LocalApicAssumption, PerCpuAssumption
    DEF IInv, Typed, TypeOK, PerCpuTypeOK, Goto, ApGoto, percpuVars, apicVars, icrVars, callVars,
        scanVars, taskVars, clockVars
<1>1. CASE CalibrateTimer
    BY <1>1 DEF CalibrateTimer
<1>2. CASE ClockTick
    BY <1>2 DEF ClockTick
<1>3. CASE CalibrateEnd
    <2>1. timer.current = Left /\ elapsed \in Nat
        BY <1>3 DEF CalibrateEnd, Calibration, CountsDown, Counting
    <2>2. MAX_COUNT - timer.current \in 0..MAX_COUNT
        BY <2>1 DEF Left
    <2>3. TicksPerMs(timer) \in 0..MAX_COUNT
        BY <2>2, Fits, PartOf DEF TicksPerMs
    <2> QED BY <1>3, <2>3 DEF CalibrateEnd
<1>4. CASE InitBspApic
    BY <1>4 DEF InitBspApic, Enable
<1>5. CASE InitBspPercpu
    BY <1>5 DEF InitBspPercpu
<1>6. ASSUME NEW t \in Tasks, NEW i \in Indices, SpawnOnCore(t, i) PROVE Typed'
    BY <1>6 DEF SpawnOnCore
<1>7. ASSUME NEW t \in Tasks, NEW i \in Indices, Spawn(t, i) PROVE Typed'
    BY <1>7 DEF Spawn
<1>8. CASE HaltAps
    BY <1>8 DEF HaltAps, Indices
<1>9. CASE LookUp
    <2>1. crossed' \in BOOLEAN
        BY <1>9 DEF LookUp, AfterIpi
    <2>2. target' \in Indices /\ vector' \in {0, IPI_SCHEDULE_VECTOR, HALT_VECTOR}
        BY <1>9 DEF LookUp, AfterIpi, LastCore, Indices
    <2>3. dest' \in Cores \cup {Null} /\ spc' \in {"idle", "get_cpu", "wait_icr"}
        BY <1>9 DEF LookUp, AfterIpi, GetCpu
    <2> QED BY <1>9, <2>1, <2>2, <2>3 DEF LookUp
<1>10. CASE WaitIcr
    BY <1>10 DEF WaitIcr
<1>11. CASE SendHigh
    BY <1>11 DEF SendHigh, WriteIcrHigh, SendIsReady
<1>12. CASE SendLow
    <2>1. icr' \in [Cores -> Messages \cup {NoMessage}]
        BY <1>12 DEF SendLow, WriteIcrLow, Messages, Vectors
    <2>2. crossed' \in BOOLEAN
        BY <1>12 DEF SendLow, AfterIpi
    <2>3. target' \in Indices /\ vector' \in {0, IPI_SCHEDULE_VECTOR, HALT_VECTOR}
        BY <1>12 DEF SendLow, AfterIpi, LastCore, Indices
    <2>4. dest' \in Cores \cup {Null} /\ spc' \in {"idle", "get_cpu"}
        BY <1>12 DEF SendLow, AfterIpi
    <2> QED BY <1>12, <2>1, <2>2, <2>3, <2>4 DEF SendLow, WriteIcrLow
<1>13. CASE AllCpus
    <2>1. percpu_count \in 0..NumCores
        BY CountedSets DEF Registry, CountIsBehind
    <2> QED BY <1>13, <2>1 DEF AllCpus
<1>14. CASE ScanSlot
    <2>1. GetCpu(scan) \in Cores \cup {Null}
        BY DEF GetCpu
    <2>2. scan + 1 # MAX_CPUS => scan + 1 \in Slots
        BY DEF Slots
    <2>3. 0 \in Slots
        BY DEF Slots
    <2> QED BY <1>14, <2>1, <2>2, <2>3 DEF ScanSlot, ScanEnd
<1>15. CASE BspSchedule
    BY <1>15 DEF BspSchedule, Take
<1>16. ASSUME NEW t \in Tasks, NEW i \in Indices, HandlerSpawn(t, i) PROVE Typed'
    <2> DEFINE m == [dest |-> GetCpu(i), vector |-> IPI_SCHEDULE_VECTOR]
    <2>1. GetCpu(i) \in Cores \cup {Null}
        BY DEF GetCpu
    <2>2. CASE GetCpu(i) = Null
        BY <1>16, <2>2 DEF HandlerSpawn
    <2>3. CASE GetCpu(i) # Null
        <3>1. m \in Messages /\ m.dest = GetCpu(i)
            BY <2>1, <2>3 DEF Messages, Vectors
        <3>2. /\ icr_high' = [icr_high EXCEPT ![Bsp] = GetCpu(i)]
              /\ icr' = [icr EXCEPT ![Bsp] = m]
            BY <1>16, <2>3, <3>1 DEF HandlerSpawn
        <3>3. icr_high' \in [Cores -> Cores] /\ icr' \in [Cores -> Messages \cup {NoMessage}]
            BY <2>1, <2>3, <3>1, <3>2
        <3>4. crossed' \in BOOLEAN
            BY <1>16, <2>3, <3>1 DEF HandlerSpawn
        <3> QED BY <1>16, <3>3, <3>4 DEF HandlerSpawn
    <2> QED BY <2>2, <2>3
<1>17. CASE DeliverIpi
    <2>1. icr[Bsp] \in Messages
        BY <1>17 DEF DeliverIpi, Deliver
    <2>2. irr' \in [Cores -> SUBSET {IPI_SCHEDULE_VECTOR}]
        BY <1>17, <2>1
        DEF DeliverIpi, Deliver, Requested, Reserved, Messages, Vectors, HALT_VECTOR
    <2> QED BY <1>17, <2>2 DEF DeliverIpi, Deliver
<1>18. ASSUME NEW a \in Aps, ApEnable(a) PROVE Typed'
    BY <1>18 DEF ApEnable, Enable
<1>19. ASSUME NEW a \in Aps, ApRegisterSlot(a) PROVE Typed'
    BY <1>19 DEF ApRegisterSlot, StoreSlot
<1>20. ASSUME NEW a \in Aps, ApRegisterCount(a) PROVE Typed'
    BY <1>20 DEF ApRegisterCount, CountOne
<1>21. ASSUME NEW a \in Aps, ApRegisterGsBase(a) PROVE Typed'
    BY <1>21 DEF ApRegisterGsBase, SetGsBase
<1>22. ASSUME NEW a \in Aps, CheckHalt(a) PROVE Typed'
    BY <1>22 DEF CheckHalt
<1>23. ASSUME NEW a \in Aps, StiHlt(a) PROVE Typed'
    BY <1>23 DEF StiHlt
<1>24. ASSUME NEW a \in Aps, ApInterrupt(a, IPI_SCHEDULE_VECTOR) PROVE Typed'
    BY <1>24 DEF ApInterrupt, Acknowledge
<1>25. ASSUME NEW a \in Aps, ApIret(a) PROVE Typed'
    BY <1>25 DEF ApIret, Eoi, Take
<1>26. CASE UNCHANGED vars
    BY <1>26 DEF vars
<1> QED
    BY <1>1, <1>2, <1>3, <1>4, <1>5, <1>6, <1>7, <1>8, <1>9, <1>10, <1>11, <1>12, <1>13, <1>14,
       <1>15, <1>16, <1>17, <1>18, <1>19, <1>20, <1>21, <1>22, <1>23, <1>24, <1>25, <1>26
    DEF Next, Thread, Ap
-----------------------------------------------------------------------------
(* The theorems                                                            *)

\* The inductive invariant holds before the calibration, with no core
\* registered and no IPI sent.
LEMMA InitIInv == Init => IInv
<1> SUFFICES ASSUME Init PROVE IInv
    OBVIOUS
<1> USE IndexFacts, RunAssumption, LocalApicAssumption, PerCpuAssumption
    DEF Init, PerCpuInit, LocalApicInit
<1>1. Typed
    <2>1. PerCpuTypeOK /\ icr \in [Cores -> Messages \cup {NoMessage}]
        BY DEF PerCpuTypeOK
    <2>2. /\ enabled \in [Cores -> BOOLEAN] /\ icr_high \in [Cores -> Cores]
          /\ irr \in [Cores -> SUBSET {IPI_SCHEDULE_VECTOR}]
          /\ isr \in [Cores -> SUBSET {IPI_SCHEDULE_VECTOR}]
        OBVIOUS
    <2>3. want \in 0..NumCores /\ found \subseteq Cores /\ scan \in Slots
        BY DEF Slots
    <2>4. elapsed \in 0..MaxTicks /\ ticks_per_ms \in 0..MAX_COUNT
        OBVIOUS
    <2> QED BY <2>1, <2>2, <2>3, <2>4 DEF Typed, TypeOK
<1>2. Taken = {} /\ Uncounted = {}
    BY DEF Taken, Uncounted
<1>3. CountIsBehind
    BY <1>2, FS_EmptySet DEF CountIsBehind
<1>4. Registry
    BY <1>2, <1>3 DEF Registry, GsBaseIsSet, SlotsAreOwn, NotYetThere, ApsAreLater, Slots
<1>5. Scan /\ Calibration /\ SendIsReady
    BY DEF Scan, FoundIsBehind, ScanIsFresh, AllCpusFindsCount, Calibration, CountsDown,
       CalibrationIsExact, SendIsReady
<1> QED BY <1>1, <1>4, <1>5 DEF IInv

\* Every step of the BSP, its handlers, the APs and the hardware keeps it.
LEMMA NextIInv == IInv /\ [Next]_vars => IInv'
BY TypesKept, RegistryKept, ScanKept, TimerKept, SendKept DEF IInv, Typed

\* The inductive invariant holds in every reachable state.
LEMMA AlwaysIInv == Spec => []IInv
BY InitIInv, NextIInv, PTL DEF Spec

\* Registers, registry and locals keep their types: no count exceeds the
\* number of cores, no call leaves the array (percpu.rs:129-156).
THEOREM RunTypeCorrect == Spec => []TypeOK
<1>1. IInv => TypeOK
    BY DEF IInv, Typed
<1> QED BY <1>1, AlwaysIInv, PTL

\* An AP takes no interrupt before its GS base is set, though it can be looked
\* up and sent an IPI before (percpu.rs:129-156, driver.rs:98-111).
THEOREM RunHandlersHaveGsBase == Spec => []HandlersHaveGsBase
<1>1. IInv => HandlersHaveGsBase
    BY DEF IInv, Registry, GsBaseIsSet, HandlersHaveGsBase
<1> QED BY <1>1, AlwaysIInv, PTL

\* all_cpus() never runs out of slots before it has found as many cores as it
\* counted, whichever cores register during its scan (percpu.rs:202-220).
THEOREM RunAllCpusFindsCount == Spec => []AllCpusFindsCount
<1>1. IInv => AllCpusFindsCount
    BY DEF IInv, Scan
<1> QED BY <1>1, AlwaysIInv, PTL

\* The calibration returns the clock's ticks per millisecond for any width of
\* the counter and whatever the timer did before (apic.rs:662-688).
THEOREM RunCalibrationIsExact == Spec => []CalibrationIsExact
<1>1. IInv => CalibrationIsExact
    BY DEF IInv, Calibration
<1> QED BY <1>1, AlwaysIInv, PTL

\* What leaves the BSP is what a call asked for, and no message overwrites
\* another, whenever its handlers send; only the message of a call that a handler's
\* send has crossed is excepted (apic.rs:557-579).
THEOREM RunIpiAsAsked == Spec => IpiAsAsked
<1> DEFINE Asked ==
      icr'[Bsp] # icr[Bsp] /\ icr'[Bsp] # NoMessage =>
          \/ spc = "icr_low" /\ crossed
          \/ /\ icr[Bsp] = NoMessage
             /\ \/ spc = "icr_low" /\ icr'[Bsp] = [dest |-> dest, vector |-> vector]
                \/ \E t \in Tasks : /\ state[t] = "new" /\ state'[t] = "queued"
                                    /\ icr'[Bsp] = [dest |-> GetCpu(home'[t]),
                                                    vector |-> IPI_SCHEDULE_VECTOR]
<1>1. ASSUME IInv, [Next]_vars PROVE Asked
    <2> USE <1>1, RunAssumption DEF IInv, Typed, TypeOK
    <2>1. CASE LookUp \/ WaitIcr \/ SendHigh \/ UNCHANGED icrVars
        BY <2>1 DEF LookUp, WaitIcr, SendHigh, WriteIcrHigh, icrVars, apicVars
    <2>2. CASE DeliverIpi
        BY <2>2 DEF DeliverIpi, Deliver
    <2>3. CASE SendLow
        BY <2>3 DEF SendLow, WriteIcrLow, SendIsReady
    <2>4. ASSUME NEW t \in Tasks, NEW i \in Indices, HandlerSpawn(t, i) PROVE Asked
        <3>1. CASE GetCpu(i) = Null
            BY <2>4, <3>1 DEF HandlerSpawn, icrVars
        <3>2. CASE GetCpu(i) # Null
            <4>1. /\ icr[Bsp] = NoMessage
                  /\ icr' = [icr EXCEPT ![Bsp] =
                               [dest |-> GetCpu(i), vector |-> IPI_SCHEDULE_VECTOR]]
                BY <2>4, <3>2 DEF HandlerSpawn, IcrIdle
            <4>2. icr'[Bsp] = [dest |-> GetCpu(i), vector |-> IPI_SCHEDULE_VECTOR]
                BY <4>1
            <4>3. state[t] = "new" /\ state'[t] = "queued" /\ home'[t] = i
                BY <2>4, <3>2 DEF HandlerSpawn
            <4> QED BY <4>1, <4>2, <4>3
        <3> QED BY <3>1, <3>2
    <2> QED BY <2>1, <2>2, <2>3, <2>4, SendSteps
<1>2. ASSUME IInv, [Next]_vars PROVE [Asked]_vars
    BY <1>1, <1>2
<1> QED BY <1>2, AlwaysIInv, PTL DEF Spec, IpiAsAsked
=============================================================================
