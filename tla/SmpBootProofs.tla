---------------------------- MODULE SmpBootProofs ---------------------------
(***************************************************************************)
(* SmpBoot for any number of cores, in any order of the MADT: APs that     *)
(* answer in time never share a stack; the operand of the ready store      *)
(* decides whether the BSP counts them; with the operand of the source it  *)
(* counts none, however the cores are timed.                               *)
(***************************************************************************)
EXTENDS SmpBoot, FiniteSetTheorems, TLAPS

\* No AP is slower than the timeout, and the ready flag is not where the stack is.
InTime == ~LateAnswers /\ READY_OPERAND # STACK_TOP

\* ... it is the struct's ap_ready, and the code up to its store is intact.
Answers == InTime /\ READY_OPERAND = AP_READY /\ Intact("stack") /\ Intact("ready")

(* The inductive invariant, part by part.                                  *)

InLoop == {"set_stack", "set_index", "clear_ready", "init_ipi", "sipi", "check", "wait"}
BspLabels == InLoop \cup {"register", "count", "gs_base", "install", "boot", "initialized"}
Answered == {"load_index", "call", "register", "count", "gs_base", "booted", "idle"}
ApLabels == Answered \cup {"off", "wait_sipi", "load_stack", "store_ready"}

Typed ==
    /\ block \in [Words -> Indices \cup {1, Garbage}]
    /\ pc \in [Cores -> Labels]
    /\ alive \subseteq Aps
    /\ cpu_index \in Indices
    /\ total_cores \in Nat
    /\ rsp \in [Aps -> Indices \cup {Garbage}]

\* The BSP is in its code and the APs in theirs; the loop is at one of the APs.
PlacesAreOwn ==
    /\ pc[BspId] \in BspLabels
    /\ \A a \in Aps : pc[a] \in ApLabels
    /\ pc[BspId] \in InLoop => cpu_index \in 1..ApCount
    /\ pc[BspId] = "initialized" => cpu_index = ApCount

\* The block names the stack of the AP that is being booted.
StackIsSet == pc[BspId] \in InLoop \ {"set_stack"} => block[STACK_TOP] = cpu_index

\* Only that AP is between its SIPI and its ready signal.
OneStarts ==
    \A a \in Aps : OnItsWay(a) => pc[BspId] \in {"check", "wait"} /\ a = Target

\* The ready flag is that AP's, and set after its stack was loaded.
ReadyIsAnswer ==
    pc[BspId] \in {"init_ipi", "sipi", "check", "wait"} /\ IsApReady =>
        pc[BspId] \in {"check", "wait"} /\ pc[Target] \in Answered

\* An AP has the stack that was allocated for it.
StacksAreAssigned ==
    \A a \in Aps : rsp[a] # Garbage => rsp[a] \in 1..ApCount /\ EnabledAps[rsp[a]] = a

\* APs that run are alive, and one that is alive has answered or is about to.
AliveAnswer ==
    /\ \A a \in Aps : pc[a] \notin {"off", "wait_sipi"} => a \in alive
    /\ pc[BspId] = "sipi" => pc[Target] = "wait_sipi"
    /\ pc[BspId] = "check" /\ Target \in alive =>
          IsApReady \/ pc[Target] \in {"wait_sipi", "load_stack", "store_ready"}
    /\ pc[BspId] = "wait" /\ Target \in alive =>
          IsApReady \/ pc[Target] \in {"load_stack", "store_ready"}

\* The APs among the first n that are alive.
AliveUpTo(n) == {EnabledAps[i] : i \in 1..n} \cap alive

\* The loop has counted those it has been through.
CountIsSoFar ==
    total_cores = 1 + Cardinality(AliveUpTo(IF pc[BspId] \in InLoop THEN cpu_index - 1
                                                                    ELSE cpu_index))

IInv ==
    /\ Typed
    /\ PlacesAreOwn
    /\ StackIsSet
    /\ OneStarts
    /\ ReadyIsAnswer
    /\ StacksAreAssigned

CountInv == AliveAnswer /\ CountIsSoFar
-----------------------------------------------------------------------------
(* Facts about the constants                                               *)

\* The BSP is not among the APs, and the loop's index is an AP's.
LEMMA ApFacts ==
    /\ ApCount \in Nat
    /\ BspId \in Cores /\ BspId \notin Aps /\ Aps \subseteq Cores
    /\ \A i \in 1..ApCount : EnabledAps[i] \in Aps /\ EnabledAps[i] \in Cores
    /\ \A i, j \in 1..ApCount : EnabledAps[i] = EnabledAps[j] => i = j
<1>1. EnabledAps \in Seq(Cores)
    BY BootAssumption
<1>2. ApCount \in Nat /\ \A i \in 1..ApCount : EnabledAps[i] \in Cores
    BY <1>1 DEF ApCount
<1>3. Aps \subseteq Cores
    BY <1>2 DEF Aps
<1> QED BY <1>2, <1>3, BootAssumption DEF Aps

\* The words of the block are apart (trampoline.rs:41-51).
LEMMA WordFacts ==
    /\ STACK_TOP \in Words /\ CPU_INDEX \in Words /\ AP_READY \in Words
    /\ STACK_TOP # CPU_INDEX /\ STACK_TOP # AP_READY /\ CPU_INDEX # AP_READY
    /\ ENTRY_POINT # AP_READY /\ ENTRY_POINT_HIGH # AP_READY
    /\ ENTRY_POINT # STACK_TOP /\ ENTRY_POINT_HIGH # STACK_TOP
    /\ READY_OPERAND \in Words
BY TrampolineAssumption DEF Words, STACK_TOP, CPU_INDEX, AP_READY, ENTRY_POINT, ENTRY_POINT_HIGH

\* The BSP and the AP it boots are two cores.
LEMMA TargetFacts ==
    ASSUME IInv, pc[BspId] \in InLoop
    PROVE  /\ cpu_index \in 1..ApCount /\ cpu_index \in Nat
           /\ Target \in Aps /\ Target \in Cores /\ Target # BspId
<1>1. cpu_index \in 1..ApCount /\ ApCount \in Nat
    BY ApFacts DEF IInv, PlacesAreOwn
<1>2. cpu_index \in Nat
    BY <1>1
<1> QED BY <1>1, <1>2, ApFacts DEF Target
-----------------------------------------------------------------------------
(* The steps keep the invariant                                            *)

\* A step of core c that changes nothing else the invariant is about.
Quiet(c, label) ==
    /\ pc' = [pc EXCEPT ![c] = label]
    /\ UNCHANGED <<block, alive, cpu_index, total_cores, rsp>>

\* An AP that has answered may do what it likes (driver.rs:395-440).
LEMMA AnsweredKept ==
    ASSUME IInv, NEW a \in Aps, pc[a] \in Answered, NEW label \in Answered, Quiet(a, label)
    PROVE  IInv'
<1> USE DEF Quiet
<1>1. /\ a \in Cores /\ a # BspId /\ pc'[a] = label /\ pc'[BspId] = pc[BspId]
      /\ \A b \in Cores : b # a => pc'[b] = pc[b]
    BY ApFacts DEF IInv, Typed
<1>2. Typed'
    <2>1. label \in Labels
        BY DEF Answered, Labels
    <2> QED BY <2>1 DEF IInv, Typed
<1>3. PlacesAreOwn'
    BY <1>1, ApFacts DEF IInv, PlacesAreOwn, ApLabels
<1>4. StackIsSet' /\ StacksAreAssigned'
    BY <1>1 DEF IInv, StackIsSet, StacksAreAssigned
<1>5. Target' = Target
    BY DEF Target
<1>6. OneStarts'
    <2>1. \A b \in Aps : OnItsWay(b)' => OnItsWay(b)
        BY <1>1, ApFacts DEF OnItsWay, Answered
    <2> QED BY <1>1, <1>5, <2>1 DEF IInv, OneStarts
<1>7. ReadyIsAnswer'
    <2> SUFFICES ASSUME pc[BspId] \in {"init_ipi", "sipi", "check", "wait"}, IsApReady
                 PROVE  pc[BspId] \in {"check", "wait"} /\ pc'[Target] \in Answered
        BY <1>1, <1>5 DEF ReadyIsAnswer, IsApReady
    <2>1. Target \in Cores
        BY TargetFacts DEF InLoop
    <2> QED BY <1>1, <2>1 DEF IInv, ReadyIsAnswer
<1> QED BY <1>2, <1>3, <1>4, <1>6, <1>7 DEF IInv

\* `mov rsp, [0x8F08]`: the stack in the block is the AP's own
\* (trampoline.rs:208).
LEMMA LoadStackKept ==
    ASSUME IInv, NEW a \in Aps, LoadStack(a)
    PROVE  IInv'
<1> USE DEF LoadStack, Goto
<1>1. /\ a \in Cores /\ a # BspId /\ pc'[a] = "store_ready" /\ pc'[BspId] = pc[BspId]
      /\ \A b \in Cores : b # a => pc'[b] = pc[b]
    BY ApFacts DEF IInv, Typed
<1>2. /\ pc[BspId] \in {"check", "wait"} /\ a = Target /\ cpu_index \in 1..ApCount
      /\ block[STACK_TOP] = cpu_index
    BY ApFacts DEF OnItsWay, IInv, OneStarts, StackIsSet, InLoop, PlacesAreOwn
<1>3. Typed'
    <2>1. cpu_index \in Indices
        BY DEF IInv, Typed
    <2>2. rsp' \in [Aps -> Indices \cup {Garbage}]
        BY <1>2, <2>1 DEF IInv, Typed
    <2>3. pc' \in [Cores -> Labels]
        BY DEF IInv, Typed, Labels
    <2> QED BY <2>2, <2>3 DEF IInv, Typed
<1>4. PlacesAreOwn'
    BY <1>1, ApFacts DEF IInv, PlacesAreOwn, ApLabels
<1>5. StackIsSet'
    BY <1>1 DEF IInv, StackIsSet
<1>6. Target' = Target
    BY DEF Target
<1>7. OneStarts'
    <2>1. \A b \in Aps : OnItsWay(b)' => OnItsWay(b)
        BY <1>1, ApFacts DEF OnItsWay
    <2> QED BY <1>1, <1>6, <2>1 DEF IInv, OneStarts
<1>8. ReadyIsAnswer'
    <2>1. ~IsApReady
        BY <1>2 DEF IInv, ReadyIsAnswer, Answered
    <2> QED BY <2>1 DEF ReadyIsAnswer, IsApReady
<1>9. StacksAreAssigned'
    <2>1. rsp'[a] = cpu_index /\ EnabledAps[cpu_index] = a /\ \A b \in Aps : b # a => rsp'[b] = rsp[b]
        BY <1>2 DEF IInv, Typed, Target
    <2> QED BY <1>2, <2>1 DEF IInv, StacksAreAssigned
<1> QED BY <1>3, <1>4, <1>5, <1>7, <1>8, <1>9 DEF IInv

\* `mov dword [0x8F18], 1`, wherever the code stores it (trampoline.rs:214).
LEMMA SignalReadyKept ==
    ASSUME IInv, InTime, NEW a \in Aps, SignalReady(a)
    PROVE  IInv'
<1> DEFINE word == IF Intact("ready") THEN 1 ELSE Garbage
<1>1. /\ pc[a] = "store_ready" /\ pc' = [pc EXCEPT ![a] = "load_index"]
      /\ block' = [block EXCEPT ![READY_OPERAND] = word]
      /\ UNCHANGED <<alive, cpu_index, total_cores, rsp>>
    BY DEF SignalReady, Goto, StoreReady, driverVars
<1>2. /\ a \in Cores /\ a # BspId /\ pc'[a] = "load_index" /\ pc'[BspId] = pc[BspId]
      /\ \A b \in Cores : b # a => pc'[b] = pc[b]
    BY <1>1, ApFacts DEF IInv, Typed
<1>3. pc[BspId] \in {"check", "wait"} /\ a = Target
    BY <1>1 DEF OnItsWay, IInv, OneStarts
<1>4. Typed'
    <2>1. word \in Indices \cup {1, Garbage}
        OBVIOUS
    <2> HIDE DEF word
    <2>2. block' \in [Words -> Indices \cup {1, Garbage}]
        BY <1>1, <2>1, WordFacts DEF IInv, Typed
    <2>3. pc' \in [Cores -> Labels]
        BY <1>1 DEF IInv, Typed, Labels
    <2> QED BY <1>1, <2>2, <2>3 DEF IInv, Typed
<1>5. PlacesAreOwn'
    BY <1>1, <1>2, ApFacts DEF IInv, PlacesAreOwn, ApLabels, Answered
<1>6. StackIsSet' /\ StacksAreAssigned'
    <2>1. block'[STACK_TOP] = block[STACK_TOP]
        BY <1>1, WordFacts DEF IInv, Typed, InTime
    <2> QED BY <1>1, <1>2, <2>1 DEF IInv, StackIsSet, StacksAreAssigned
<1>7. Target' = Target
    BY <1>1 DEF Target
<1>8. OneStarts'
    <2>1. \A b \in Aps : OnItsWay(b)' => OnItsWay(b)
        BY <1>2, ApFacts DEF OnItsWay
    <2> QED BY <1>2, <1>7, <2>1 DEF IInv, OneStarts
<1>9. ReadyIsAnswer'
    BY <1>2, <1>3, <1>7 DEF ReadyIsAnswer, Answered
<1> QED BY <1>4, <1>5, <1>6, <1>8, <1>9 DEF IInv

\* The BSP moves on while no AP is on its way.
LEMMA BspMoves ==
    ASSUME IInv, NEW label \in BspLabels \ {"sipi", "check", "wait"},
           pc' = [pc EXCEPT ![BspId] = label],
           UNCHANGED <<alive, rsp>>,
           block' \in [Words -> Indices \cup {1, Garbage}],
           cpu_index' \in Indices, total_cores' \in Nat,
           \A a \in Aps : ~OnItsWay(a),
           label \in InLoop => cpu_index' \in 1..ApCount,
           label = "initialized" => cpu_index' = ApCount,
           label \in InLoop \ {"set_stack"} => block'[STACK_TOP] = cpu_index',
           label = "init_ipi" => block'[AP_READY] = 0
    PROVE  IInv'
<1>1. pc'[BspId] = label /\ \A a \in Aps : pc'[a] = pc[a]
    BY ApFacts DEF IInv, Typed
<1>2. Typed'
    <2>1. label \in Labels
        BY DEF BspLabels, InLoop, Labels
    <2> QED BY <2>1 DEF IInv, Typed
<1>3. PlacesAreOwn' /\ StackIsSet'
    BY <1>1 DEF IInv, PlacesAreOwn, StackIsSet
<1>4. OneStarts'
    BY <1>1 DEF OneStarts, OnItsWay
<1>5. ReadyIsAnswer'
    BY <1>1 DEF ReadyIsAnswer, IsApReady
<1>6. StacksAreAssigned'
    BY DEF IInv, StacksAreAssigned
<1> QED BY <1>2, <1>3, <1>4, <1>5, <1>6 DEF IInv

\* No AP is on its way unless the BSP waits for it.
LEMMA NobodyStarts ==
    ASSUME IInv, pc[BspId] \notin {"check", "wait"}
    PROVE  \A a \in Aps : ~OnItsWay(a)
BY DEF IInv, OneStarts

\* Before, between and after the APs (driver.rs:205-345).
LEMMA OutsideKept ==
    ASSUME IInv,
           Register(BspId) \/ InstallTrampoline \/ BootNext \/ CreateScheduler
    PROVE  IInv'
<1>0. /\ block \in [Words -> Indices \cup {1, Garbage}]
      /\ cpu_index \in Indices /\ total_cores \in Nat /\ ApCount \in Nat
    BY ApFacts DEF IInv, Typed
<1>1. CASE Register(BspId)
    <2>1. PICK label \in {"count", "gs_base", "install", "boot"} :
             /\ pc[BspId] \in {"register", "count", "gs_base"} /\ Quiet(BspId, label)
        BY <1>1 DEF Register, RegisterSlot, RegisterCount, RegisterGsBase, Goto, driverVars, Quiet
    <2>2. label \in BspLabels /\ label \notin InLoop /\ label # "initialized"
        BY <2>1 DEF BspLabels, InLoop
    <2>3. \A a \in Aps : ~OnItsWay(a)
        BY <2>1, NobodyStarts
    <2> QED BY <1>0, <2>1, <2>2, <2>3, BspMoves DEF Quiet, InLoop
<1>2. CASE InstallTrampoline
    <2>1. /\ pc[BspId] = "install" /\ pc' = [pc EXCEPT ![BspId] = "boot"]
          /\ block' = [w \in Words |-> 0] /\ UNCHANGED <<alive, cpu_index, total_cores, rsp>>
        BY <1>2 DEF InstallTrampoline, Install, Goto, driverVars
    <2>2. block' \in [Words -> Indices \cup {1, Garbage}]
        BY <1>0, <2>1 DEF Indices
    <2>3. \A a \in Aps : ~OnItsWay(a)
        BY <2>1, NobodyStarts
    <2> QED BY <1>0, <2>1, <2>2, <2>3, BspMoves DEF BspLabels, InLoop
<1>3. CASE BootNext
    <2>1. /\ pc[BspId] = "boot" /\ pc' = [pc EXCEPT ![BspId] = "set_stack"]
          /\ cpu_index < ApCount /\ cpu_index' = cpu_index + 1
          /\ UNCHANGED <<block, alive, total_cores, rsp>>
        BY <1>3 DEF BootNext, Goto
    <2>2. cpu_index' \in 1..ApCount /\ cpu_index' \in Indices
        BY <1>0, <2>1 DEF Indices
    <2>3. \A a \in Aps : ~OnItsWay(a)
        BY <2>1, NobodyStarts
    <2> QED BY <1>0, <2>1, <2>2, <2>3, BspMoves DEF BspLabels, InLoop
<1>4. CASE CreateScheduler
    <2>1. /\ pc[BspId] = "boot" /\ pc' = [pc EXCEPT ![BspId] = "initialized"]
          /\ cpu_index = ApCount /\ UNCHANGED <<block, alive, cpu_index, total_cores, rsp>>
        BY <1>4 DEF CreateScheduler, Goto
    <2>2. \A a \in Aps : ~OnItsWay(a)
        BY <2>1, NobodyStarts
    <2> QED BY <1>0, <2>1, <2>2, BspMoves DEF BspLabels, InLoop
<1> QED BY <1>1, <1>2, <1>3, <1>4

\* set_ap_data(): the stack, the index and the ready flag (trampoline.rs:325-345).
LEMMA PrepareKept ==
    ASSUME IInv, SetApStack \/ SetApIndex \/ ClearApReady
    PROVE  IInv'
<1>0. /\ block \in [Words -> Indices \cup {1, Garbage}]
      /\ cpu_index \in Indices /\ total_cores \in Nat /\ 0 \in Indices
      /\ pc[BspId] \in {"set_stack", "set_index", "clear_ready"}
    BY ApFacts DEF IInv, Typed, Indices, SetApStack, SetApIndex, ClearApReady
<1>1. (\A a \in Aps : ~OnItsWay(a)) /\ cpu_index \in 1..ApCount
    BY <1>0, NobodyStarts, TargetFacts DEF InLoop
<1>2. CASE SetApStack
    <2>1. /\ pc' = [pc EXCEPT ![BspId] = "set_index"]
          /\ block' = [block EXCEPT ![STACK_TOP] = cpu_index, ![ENTRY_POINT] = 1,
                                    ![ENTRY_POINT_HIGH] = 0]
          /\ UNCHANGED <<alive, cpu_index, total_cores, rsp>>
        BY <1>2 DEF SetApStack, SetStack, Goto, driverVars
    <2>2. /\ block' \in [Words -> Indices \cup {1, Garbage}]
          /\ block'[STACK_TOP] = cpu_index
        BY <1>0, <2>1, WordFacts
    <2> QED BY <1>0, <1>1, <2>1, <2>2, BspMoves DEF BspLabels, InLoop
<1>3. CASE SetApIndex
    <2>1. /\ pc[BspId] = "set_index" /\ pc' = [pc EXCEPT ![BspId] = "clear_ready"]
          /\ block' = [block EXCEPT ![CPU_INDEX] = cpu_index]
          /\ UNCHANGED <<alive, cpu_index, total_cores, rsp>>
        BY <1>3 DEF SetApIndex, SetIndex, Goto, driverVars
    <2>2. /\ block' \in [Words -> Indices \cup {1, Garbage}]
          /\ block'[STACK_TOP] = block[STACK_TOP]
        BY <1>0, <2>1, WordFacts
    <2>3. block[STACK_TOP] = cpu_index
        BY <2>1 DEF IInv, StackIsSet, InLoop
    <2> QED BY <1>0, <1>1, <2>1, <2>2, <2>3, BspMoves DEF BspLabels, InLoop
<1>4. CASE ClearApReady
    <2>1. /\ pc[BspId] = "clear_ready" /\ pc' = [pc EXCEPT ![BspId] = "init_ipi"]
          /\ block' = [block EXCEPT ![AP_READY] = 0]
          /\ UNCHANGED <<alive, cpu_index, total_cores, rsp>>
        BY <1>4 DEF ClearApReady, ClearReady, Goto, driverVars
    <2>2. /\ block' \in [Words -> Indices \cup {1, Garbage}]
          /\ block'[STACK_TOP] = block[STACK_TOP] /\ block'[AP_READY] = 0
        BY <1>0, <2>1, WordFacts
    <2>3. block[STACK_TOP] = cpu_index
        BY <2>1 DEF IInv, StackIsSet, InLoop
    <2> QED BY <1>0, <1>1, <2>1, <2>2, <2>3, BspMoves DEF BspLabels, InLoop
<1> QED BY <1>2, <1>3, <1>4

\* wait_ap_ready() returns: the AP has answered, or is not coming
\* (driver.rs:353-381).
LEMMA WaitKept ==
    ASSUME IInv, InTime, WaitReady \/ WaitTimeout
    PROVE  IInv' /\ \A a \in Aps : ~OnItsWay(a)
<1>0. /\ block \in [Words -> Indices \cup {1, Garbage}]
      /\ cpu_index \in Indices /\ total_cores \in Nat
      /\ pc[BspId] = "wait" /\ pc' = [pc EXCEPT ![BspId] = "boot"]
      /\ UNCHANGED <<block, alive, cpu_index, rsp>> /\ total_cores' \in Nat
    BY DEF IInv, Typed, WaitReady, WaitTimeout, Goto, driverVars
<1>1. ~OnItsWay(Target)
    <2>1. CASE WaitReady
        <3>1. pc[Target] \in Answered
            BY <1>0, <2>1 DEF WaitReady, IInv, ReadyIsAnswer
        <3> QED BY <3>1 DEF OnItsWay, Answered
    <2>2. CASE WaitTimeout
        BY <2>2 DEF WaitTimeout, InTime
    <2> QED BY <2>1, <2>2
<1>2. \A a \in Aps : ~OnItsWay(a)
    BY <1>1 DEF IInv, OneStarts
<1> QED BY <1>0, <1>2, BspMoves DEF BspLabels, InLoop

\* INIT and the two SIPIs (driver.rs:331-352).
LEMMA IpiKept ==
    ASSUME IInv, SendInit \/ FirstSipi \/ SecondSipi
    PROVE  IInv'
<1>0. /\ pc \in [Cores -> Labels]
      /\ pc[BspId] \in {"init_ipi", "sipi", "check"} /\ pc[BspId] \in InLoop
      /\ UNCHANGED <<block, alive, cpu_index, total_cores, rsp>>
      /\ Target' = Target
    BY DEF IInv, Typed, SendInit, FirstSipi, SecondSipi, InLoop, driverVars, Target
<1>1. /\ cpu_index \in 1..ApCount /\ Target \in Aps /\ Target \in Cores /\ Target # BspId
      /\ BspId \in Cores /\ BspId \notin Aps /\ Aps \subseteq Cores
    BY <1>0, TargetFacts, ApFacts
<1> DEFINE next == CASE pc[BspId] = "init_ipi" -> "sipi"
                     [] pc[BspId] = "sipi" -> "check"
                     [] OTHER -> "wait"
<1>2. /\ pc'[BspId] = next /\ pc' \in [Cores -> Labels]
      /\ \A a \in Aps : a # Target => pc'[a] = pc[a]
      /\ \/ pc'[Target] = pc[Target]
         \/ pc[BspId] = "init_ipi" /\ pc'[Target] = "wait_sipi"
         \/ pc[Target] = "wait_sipi" /\ pc'[Target] = "load_stack" /\ next \in {"check", "wait"}
    <2>1. /\ pc \in [Cores -> Labels]
          /\ {"sipi", "check", "wait", "wait_sipi", "load_stack"} \subseteq Labels
        BY <1>0 DEF Labels
    <2>2. CASE SendInit
        <3>1. /\ pc[BspId] = "init_ipi" /\ next = "sipi"
              /\ pc' = [pc EXCEPT ![BspId] = "sipi", ![Target] = "wait_sipi"]
            BY <2>2 DEF SendInit
        <3> HIDE DEF next
        <3> QED BY <1>1, <2>1, <3>1
    <2>3. CASE FirstSipi
        <3>1. /\ pc[BspId] = "sipi" /\ next = "check"
              /\ \/ /\ pc[Target] = "wait_sipi"
                    /\ pc' = [pc EXCEPT ![BspId] = "check", ![Target] = "load_stack"]
                 \/ pc' = [pc EXCEPT ![BspId] = "check"]
            BY <2>3 DEF FirstSipi, Sipi, Goto
        <3> HIDE DEF next
        <3> QED BY <1>1, <2>1, <3>1
    <2>4. CASE SecondSipi
        <3>1. /\ pc[BspId] = "check" /\ next = "wait"
              /\ \/ /\ pc[Target] = "wait_sipi"
                    /\ pc' = [pc EXCEPT ![BspId] = "wait", ![Target] = "load_stack"]
                 \/ pc' = [pc EXCEPT ![BspId] = "wait"]
            BY <2>4 DEF SecondSipi, Sipi, Goto
        <3> HIDE DEF next
        <3> QED BY <1>1, <2>1, <3>1
    <2> QED BY <2>2, <2>3, <2>4
<1>3. next \in {"sipi", "check", "wait"} /\ (next = "sipi" <=> pc[BspId] = "init_ipi")
    BY <1>0
<1> HIDE DEF next
<1>4. Typed'
    BY <1>0, <1>2 DEF IInv, Typed
<1>5. PlacesAreOwn'
    BY <1>0, <1>1, <1>2, <1>3 DEF IInv, PlacesAreOwn, BspLabels, ApLabels, InLoop
<1>6. StackIsSet' /\ StacksAreAssigned'
    <2>1. block[STACK_TOP] = cpu_index
        BY <1>0 DEF IInv, StackIsSet, InLoop
    <2> QED BY <1>0, <2>1 DEF IInv, StackIsSet, StacksAreAssigned
<1>7. OneStarts'
    <2> SUFFICES ASSUME NEW a \in Aps, OnItsWay(a)'
                 PROVE  pc'[BspId] \in {"check", "wait"} /\ a = Target
        BY <1>0 DEF OneStarts
    <2>1. CASE a # Target
        <3>1. OnItsWay(a)
            BY <1>2, <2>1 DEF OnItsWay
        <3> QED BY <2>1, <3>1 DEF IInv, OneStarts
    <2>2. CASE a = Target
        <3>1. pc[BspId] = "init_ipi" => ~OnItsWay(a)
            BY NobodyStarts
        <3>2. pc'[a] # "wait_sipi"
            BY DEF OnItsWay
        <3>3. pc[BspId] # "init_ipi"
            BY <1>2, <1>3, <2>2, <3>1, <3>2 DEF OnItsWay
        <3> QED BY <1>2, <1>3, <2>2, <3>3
    <2> QED BY <2>1, <2>2
<1>8. ReadyIsAnswer'
    <2> SUFFICES ASSUME IsApReady
                 PROVE  pc'[BspId] \in {"check", "wait"} /\ pc'[Target] \in Answered
        BY <1>0 DEF ReadyIsAnswer, IsApReady
    <2>1. pc[BspId] = "check" /\ pc[Target] \in Answered
        BY <1>0 DEF IInv, ReadyIsAnswer
    <2>2. pc'[Target] = pc[Target]
        BY <1>2, <2>1 DEF Answered
    <2> QED BY <1>2, <1>3, <2>1, <2>2
<1> QED BY <1>4, <1>5, <1>6, <1>7, <1>8 DEF IInv

\* One step, with APs that answer in time.
LEMMA NextIInv == InTime /\ IInv /\ [Next]_vars => IInv'
<1> SUFFICES ASSUME InTime, IInv, [Next]_vars PROVE IInv'
    OBVIOUS
<1>1. CASE Bsp
    BY <1>1, OutsideKept, PrepareKept, WaitKept, IpiKept DEF Bsp
<1>2. ASSUME NEW a \in Aps, Ap(a) PROVE IInv'
    <2>1. CASE LoadStack(a)
        BY <2>1, LoadStackKept
    <2>2. CASE SignalReady(a)
        BY <2>2, SignalReadyKept
    <2>3. CASE LoadIndex(a) \/ CallEntry(a) \/ Register(a) \/ SignalBooted(a)
        <3>1. PICK label \in Answered : pc[a] \in Answered /\ Quiet(a, label)
            BY <2>3, ApFacts DEF LoadIndex, CallEntry, Register, RegisterSlot, RegisterCount,
               RegisterGsBase, SignalBooted, Goto, driverVars, Quiet, Answered
        <3> QED BY <3>1, AnsweredKept
    <2> QED BY <1>2, <2>1, <2>2, <2>3 DEF Ap
<1>3. CASE UNCHANGED vars
    BY <1>3 DEF vars, driverVars, IInv, Typed, PlacesAreOwn, StackIsSet, OneStarts, OnItsWay,
       ReadyIsAnswer, IsApReady, StacksAreAssigned, Target
<1> QED BY <1>1, <1>2, <1>3 DEF Next

\* The invariant holds at first.
LEMMA InitIInv == Init => IInv
<1> SUFFICES ASSUME Init PROVE IInv
    OBVIOUS
<1>0. /\ ApCount \in Nat /\ 0 \in Indices
      /\ pc \in [Cores -> {"register", "off"}]
      /\ pc[BspId] = "register" /\ \A a \in Aps : pc[a] = "off"
    BY ApFacts DEF Init, Indices
<1>1. Typed
    BY <1>0 DEF Init, Typed, Labels
<1>2. PlacesAreOwn /\ StackIsSet /\ ReadyIsAnswer
    BY <1>0 DEF PlacesAreOwn, StackIsSet, ReadyIsAnswer, BspLabels, ApLabels, InLoop
<1>3. OneStarts
    BY <1>0 DEF OneStarts, OnItsWay
<1>4. StacksAreAssigned
    BY DEF Init, StacksAreAssigned
<1> QED BY <1>1, <1>2, <1>3, <1>4 DEF IInv

\* The inductive invariant holds in every reachable state.
LEMMA AlwaysIInv == InTime => (Spec => []IInv)
<1> SUFFICES ASSUME InTime PROVE Spec => []IInv
    OBVIOUS
<1>1. IInv /\ [Next]_vars => IInv'
    BY NextIInv
<1> QED BY <1>1, InitIInv, PTL DEF Spec

\* No two APs run on one stack, for every list of APs, every set of them that
\* answers and every place of the ready flag but the stack's
\* (driver.rs:316-328, trampoline.rs:208).
THEOREM BootStackIsOwn == InTime => (Spec => []StackIsOwn)
<1> SUFFICES ASSUME InTime PROVE Spec => []StackIsOwn
    OBVIOUS
<1>1. IInv => StackIsOwn
    BY DEF IInv, StacksAreAssigned, StackIsOwn
<1> QED BY <1>1, AlwaysIInv, PTL
-----------------------------------------------------------------------------
(* The count                                                               *)

\* The APs among the first n can be counted, one by one.
LEMMA AliveUpToFacts ==
    ASSUME alive \subseteq Aps
    PROVE  /\ \A n \in 0..ApCount : /\ IsFiniteSet(AliveUpTo(n))
                                    /\ Cardinality(AliveUpTo(n)) \in Nat
           /\ AliveUpTo(0) = {} /\ Cardinality(AliveUpTo(0)) = 0
           /\ AliveUpTo(ApCount) = alive
           /\ \A n \in 1..ApCount : Cardinality(AliveUpTo(n)) =
                 Cardinality(AliveUpTo(n - 1)) + IF EnabledAps[n] \in alive THEN 1 ELSE 0
<1>0. ApCount \in Nat
    BY ApFacts
<1>1. ASSUME NEW n \in 0..ApCount
      PROVE  IsFiniteSet(AliveUpTo(n)) /\ Cardinality(AliveUpTo(n)) \in Nat
    <2> DEFINE f == [i \in 1..n |-> EnabledAps[i]]
               S == {EnabledAps[i] : i \in 1..n}
    <2>1. IsFiniteSet(1..n)
        BY <1>0, FS_Interval
    <2>2. S = {f[i] : i \in 1..n}
        OBVIOUS
    <2>3. IsFiniteSet({f[i] : i \in 1..n})
        <3>1. f \in Surjection(1..n, S)
            BY DEF Surjection
        <3>2. IsFiniteSet(S)
            BY <2>1, <3>1, FS_Surjection
        <3> QED BY <2>2, <3>2
    <2>4. IsFiniteSet(AliveUpTo(n))
        BY <2>2, <2>3, FS_Subset DEF AliveUpTo
    <2> QED BY <2>4, FS_CardinalityType
<1>2. AliveUpTo(0) = {} /\ Cardinality(AliveUpTo(0)) = 0
    <2>1. AliveUpTo(0) = {}
        BY DEF AliveUpTo
    <2> QED BY <2>1, FS_EmptySet
<1>3. AliveUpTo(ApCount) = alive
    BY DEF AliveUpTo, Aps
<1>4. ASSUME NEW n \in 1..ApCount
      PROVE  Cardinality(AliveUpTo(n)) =
                 Cardinality(AliveUpTo(n - 1)) + IF EnabledAps[n] \in alive THEN 1 ELSE 0
    <2>1. n - 1 \in 0..ApCount /\ n \in Nat /\ 1..n = 1..(n - 1) \cup {n} /\ n \notin 1..(n - 1)
          /\ 1..(n - 1) \subseteq 1..ApCount
        BY <1>0
    <2>2. EnabledAps[n] \notin AliveUpTo(n - 1)
        BY <2>1, ApFacts DEF AliveUpTo
    <2>3. /\ IsFiniteSet(AliveUpTo(n - 1)) /\ Cardinality(AliveUpTo(n - 1)) \in Nat
        BY <1>1, <2>1
    <2>4. CASE EnabledAps[n] \in alive
        <3>1. AliveUpTo(n) = AliveUpTo(n - 1) \cup {EnabledAps[n]}
            BY <2>1, <2>4 DEF AliveUpTo
        <3> QED BY <2>2, <2>3, <2>4, <3>1, FS_AddElement
    <2>5. CASE EnabledAps[n] \notin alive
        <3>1. AliveUpTo(n) = AliveUpTo(n - 1)
            BY <2>1, <2>5 DEF AliveUpTo
        <3> QED BY <2>3, <2>5, <3>1
    <2> QED BY <2>4, <2>5
<1> QED BY <1>1, <1>2, <1>3, <1>4

\* A step of an AP leaves the count alone, and brings it nearer to its answer.
LEMMA ApCountKept ==
    ASSUME IInv, CountInv, Answers, NEW a \in Aps, Ap(a)
    PROVE  CountInv'
<1>0. /\ pc \in [Cores -> Labels] /\ block \in [Words -> Indices \cup {1, Garbage}]
      /\ BspId \in Cores /\ a \in Cores /\ a # BspId /\ Aps \subseteq Cores
    BY ApFacts DEF IInv, Typed
<1>1. /\ UNCHANGED <<alive, cpu_index, total_cores>> /\ Target' = Target
      /\ pc'[BspId] = pc[BspId] /\ \A b \in Aps : b # a => pc'[b] = pc[b]
      /\ \/ pc[a] = "load_stack" /\ pc'[a] = "store_ready" /\ UNCHANGED block
         \/ pc[a] = "store_ready" /\ pc'[a] = "load_index" /\ IsApReady'
         \/ pc[a] \in Answered /\ pc'[a] \in Answered /\ UNCHANGED block
    <2>1. CASE LoadStack(a)
        BY <1>0, <2>1 DEF LoadStack, Goto, Target
    <2>2. CASE SignalReady(a)
        <3>1. /\ pc[a] = "store_ready" /\ pc' = [pc EXCEPT ![a] = "load_index"]
              /\ block' = [block EXCEPT ![AP_READY] = 1]
              /\ UNCHANGED <<alive, cpu_index, total_cores>>
            BY <2>2 DEF SignalReady, Goto, StoreReady, driverVars, Answers
        <3>2. block'[AP_READY] = 1
            BY <1>0, <3>1, WordFacts
        <3> QED BY <1>0, <3>1, <3>2 DEF IsApReady, Target
    <2>3. CASE LoadIndex(a) \/ CallEntry(a) \/ Register(a) \/ SignalBooted(a)
        <3>1. PICK label \in Answered : pc[a] \in Answered /\ Quiet(a, label)
            BY <2>3, ApFacts DEF LoadIndex, CallEntry, Register, RegisterSlot, RegisterCount,
               RegisterGsBase, SignalBooted, Goto, driverVars, Quiet, Answered
        <3> QED BY <1>0, <3>1 DEF Quiet, Target
    <2> QED BY <2>1, <2>2, <2>3 DEF Ap
<1>2. CountIsSoFar'
    BY <1>1 DEF CountInv, CountIsSoFar, AliveUpTo
<1>3. \A b \in Aps : pc'[b] \notin {"off", "wait_sipi"} => b \in alive'
    BY <1>1 DEF CountInv, AliveAnswer, Answered
<1>4. /\ pc'[BspId] = "sipi" => pc'[Target] = "wait_sipi"
      /\ pc'[BspId] = "check" /\ Target \in alive =>
            IsApReady' \/ pc'[Target] \in {"wait_sipi", "load_stack", "store_ready"}
      /\ pc'[BspId] = "wait" /\ Target \in alive =>
            IsApReady' \/ pc'[Target] \in {"load_stack", "store_ready"}
    <2>1. pc[BspId] \in {"sipi", "check", "wait"} => Target \in Aps
        BY TargetFacts DEF InLoop
    <2>2. CASE UNCHANGED block
        BY <1>1, <2>1, <2>2 DEF CountInv, AliveAnswer, IsApReady, Answered
    <2>3. CASE IsApReady'
        <3>1. pc[BspId] = "sipi" => a # Target
            BY <1>1, <2>1 DEF CountInv, AliveAnswer, Answered
        <3> QED BY <1>1, <2>1, <2>3, <3>1 DEF CountInv, AliveAnswer
    <2> QED BY <1>1, <2>2, <2>3
<1> QED BY <1>1, <1>2, <1>3, <1>4 DEF CountInv, AliveAnswer

\* The BSP outside its wait: the count stays, of the APs it has been through.
LEMMA BspCountMoves ==
    ASSUME IInv, CountInv, NEW label \in BspLabels \ {"sipi", "check", "wait"},
           pc' = [pc EXCEPT ![BspId] = label], alive' = alive,
           total_cores' = 1 + Cardinality(AliveUpTo(IF label \in InLoop THEN cpu_index' - 1
                                                                         ELSE cpu_index'))
    PROVE  CountInv'
<1>1. pc'[BspId] = label /\ \A a \in Aps : pc'[a] = pc[a]
    BY ApFacts DEF IInv, Typed
<1>2. AliveAnswer'
    BY <1>1 DEF CountInv, AliveAnswer
<1>3. CountIsSoFar'
    BY <1>1 DEF CountIsSoFar, AliveUpTo
<1> QED BY <1>2, <1>3 DEF CountInv

\* The BSP's own steps, but for the IPIs and the wait (driver.rs:205-345).
LEMMA BspCountKept ==
    ASSUME IInv, CountInv,
           \/ Register(BspId) \/ InstallTrampoline \/ BootNext \/ CreateScheduler
           \/ SetApStack \/ SetApIndex \/ ClearApReady
    PROVE  CountInv'
<1>0. cpu_index \in Nat /\ total_cores \in Nat
    BY ApFacts DEF IInv, Typed, Indices
<1>1. total_cores = 1 + Cardinality(AliveUpTo(IF pc[BspId] \in InLoop THEN cpu_index - 1
                                                                       ELSE cpu_index))
    BY DEF CountInv, CountIsSoFar
<1>2. CASE Register(BspId) \/ InstallTrampoline \/ CreateScheduler
    <2>1. PICK label \in {"count", "gs_base", "install", "boot", "initialized"} :
             /\ pc[BspId] \in {"register", "count", "gs_base", "install", "boot"}
             /\ pc' = [pc EXCEPT ![BspId] = label]
             /\ UNCHANGED <<alive, cpu_index, total_cores>>
        BY <1>2 DEF Register, RegisterSlot, RegisterCount, RegisterGsBase, InstallTrampoline,
           CreateScheduler, Goto, driverVars
    <2>2. label \in BspLabels /\ label \notin InLoop /\ pc[BspId] \notin InLoop
        BY <2>1 DEF BspLabels, InLoop
    <2>3. total_cores' = 1 + Cardinality(AliveUpTo(IF label \in InLoop THEN cpu_index' - 1
                                                                        ELSE cpu_index'))
        BY <1>1, <2>1, <2>2
    <2>4. label \in BspLabels \ {"sipi", "check", "wait"}
        BY <2>1, <2>2
    <2> QED BY <2>1, <2>3, <2>4, BspCountMoves
<1>3. CASE BootNext
    <2>1. /\ pc[BspId] = "boot" /\ pc' = [pc EXCEPT ![BspId] = "set_stack"]
          /\ cpu_index' = cpu_index + 1 /\ UNCHANGED <<alive, total_cores>>
        BY <1>3 DEF BootNext, Goto
    <2>2. pc[BspId] \notin InLoop /\ "set_stack" \in InLoop /\ cpu_index' - 1 = cpu_index
        BY <1>0, <2>1 DEF InLoop
    <2> QED BY <1>1, <2>1, <2>2, BspCountMoves DEF BspLabels
<1>4. CASE SetApStack \/ SetApIndex \/ ClearApReady
    <2>1. PICK label \in {"set_index", "clear_ready", "init_ipi"} :
             /\ pc[BspId] \in {"set_stack", "set_index", "clear_ready"}
             /\ pc' = [pc EXCEPT ![BspId] = label]
             /\ UNCHANGED <<alive, cpu_index, total_cores>>
        BY <1>4 DEF SetApStack, SetApIndex, ClearApReady, Goto, driverVars
    <2>2. label \in InLoop /\ pc[BspId] \in InLoop
        BY <2>1 DEF InLoop
    <2>3. label \in BspLabels \ {"sipi", "check", "wait"}
        BY <2>1, <2>2 DEF BspLabels
    <2> QED BY <1>1, <2>1, <2>2, <2>3, BspCountMoves
<1> QED BY <1>2, <1>3, <1>4

\* wait_ap_ready() is true of an AP that is alive and false of one that is
\* not (driver.rs:353-381).
LEMMA WaitCountKept ==
    ASSUME IInv, CountInv, Answers, WaitReady \/ WaitTimeout
    PROVE  CountInv'
<1>0. /\ pc[BspId] = "wait" /\ pc' = [pc EXCEPT ![BspId] = "boot"] /\ UNCHANGED <<alive, cpu_index>>
    BY DEF WaitReady, WaitTimeout, Goto, driverVars
<1>1. /\ cpu_index \in 1..ApCount /\ Target \in Aps /\ alive \subseteq Aps
      /\ pc[BspId] \in InLoop /\ "boot" \in BspLabels /\ "boot" \notin InLoop
      /\ total_cores \in Nat /\ ApCount \in Nat
    BY <1>0, TargetFacts, ApFacts DEF InLoop, BspLabels, IInv, Typed
<1>2. total_cores = 1 + Cardinality(AliveUpTo(cpu_index - 1))
    BY <1>1 DEF CountInv, CountIsSoFar
<1>3. Cardinality(AliveUpTo(cpu_index)) =
          Cardinality(AliveUpTo(cpu_index - 1)) + IF Target \in alive THEN 1 ELSE 0
    BY <1>1, AliveUpToFacts DEF Target
<1>4. cpu_index - 1 \in 0..ApCount
    BY <1>1
<1>5. Cardinality(AliveUpTo(cpu_index - 1)) \in Nat
    BY <1>1, <1>4, AliveUpToFacts
<1>6. total_cores' = 1 + Cardinality(AliveUpTo(cpu_index))
    <2>1. CASE WaitReady
        <3>1. pc[Target] \in Answered /\ total_cores' = total_cores + 1
            BY <1>0, <2>1 DEF WaitReady, IInv, ReadyIsAnswer
        <3>2. Target \in alive
            BY <1>1, <3>1 DEF CountInv, AliveAnswer, Answered
        <3> QED BY <1>2, <1>3, <1>5, <3>1, <3>2
    <2>2. CASE WaitTimeout
        <3>1. ~IsApReady /\ ~OnItsWay(Target) /\ total_cores' = total_cores
            BY <2>2 DEF WaitTimeout, Answers, InTime, driverVars
        <3>2. Target \notin alive
            BY <1>0, <3>1 DEF OnItsWay, Answers, CountInv, AliveAnswer
        <3> QED BY <1>2, <1>3, <1>5, <3>1, <3>2
    <2> QED BY <2>1, <2>2
<1> QED BY <1>0, <1>1, <1>6, BspCountMoves

\* INIT and the SIPIs start an AP that is alive and no other (driver.rs:331-352).
LEMMA IpiCountKept ==
    ASSUME IInv, CountInv, SendInit \/ FirstSipi \/ SecondSipi
    PROVE  CountInv'
<1>0. /\ pc \in [Cores -> Labels]
      /\ pc[BspId] \in {"init_ipi", "sipi", "check"} /\ pc[BspId] \in InLoop
      /\ UNCHANGED <<block, alive, cpu_index, total_cores>>
      /\ Target' = Target
    BY DEF IInv, Typed, SendInit, FirstSipi, SecondSipi, InLoop, driverVars, Target
<1>1. /\ Target \in Aps /\ Target \in Cores /\ Target # BspId
      /\ BspId \in Cores /\ BspId \notin Aps /\ Aps \subseteq Cores
    BY <1>0, TargetFacts, ApFacts
<1>2. ASSUME pc'[BspId] \in InLoop PROVE CountIsSoFar'
    BY <1>0, <1>2 DEF CountInv, CountIsSoFar, AliveUpTo
<1>3. CASE SendInit
    <2>1. /\ pc'[BspId] = "sipi" /\ pc'[Target] = "wait_sipi"
          /\ \A a \in Aps : a # Target => pc'[a] = pc[a]
        BY <1>0, <1>1, <1>3 DEF SendInit
    <2>2. AliveAnswer'
        BY <1>0, <2>1 DEF CountInv, AliveAnswer
    <2> QED BY <1>2, <2>1, <2>2 DEF CountInv, InLoop
<1>4. CASE FirstSipi
    <2>1. /\ pc[BspId] = "sipi"
          /\ \/ /\ Target \in alive
                /\ pc' = [pc EXCEPT ![BspId] = "check", ![Target] = "load_stack"]
             \/ pc' = [pc EXCEPT ![BspId] = "check"]
        BY <1>4 DEF FirstSipi, Sipi, Goto
    <2>2. /\ pc'[BspId] = "check"
          /\ \A a \in Aps : a # Target => pc'[a] = pc[a]
          /\ pc'[Target] = pc[Target] \/ (pc'[Target] = "load_stack" /\ Target \in alive)
        BY <1>0, <1>1, <2>1
    <2>3. pc[Target] = "wait_sipi"
        BY <2>1 DEF CountInv, AliveAnswer
    <2>4. AliveAnswer'
        BY <1>0, <2>2, <2>3 DEF CountInv, AliveAnswer
    <2> QED BY <1>2, <2>2, <2>4 DEF CountInv, InLoop
<1>5. CASE SecondSipi
    <2>1. /\ pc[BspId] = "check"
          /\ \/ /\ Target \in alive
                /\ pc' = [pc EXCEPT ![BspId] = "wait", ![Target] = "load_stack"]
             \/ /\ IsApReady \/ pc[Target] # "wait_sipi" \/ Target \notin alive
                /\ pc' = [pc EXCEPT ![BspId] = "wait"]
        BY <1>5 DEF SecondSipi, Sipi, Goto
    <2>2. /\ pc'[BspId] = "wait"
          /\ \A a \in Aps : a # Target => pc'[a] = pc[a]
          /\ \/ /\ IsApReady \/ pc[Target] # "wait_sipi" \/ Target \notin alive
                /\ pc'[Target] = pc[Target]
             \/ pc'[Target] = "load_stack" /\ Target \in alive
        BY <1>0, <1>1, <2>1
    <2>3. AliveAnswer'
        BY <1>0, <2>1, <2>2 DEF CountInv, AliveAnswer, IsApReady
    <2> QED BY <1>2, <2>2, <2>3 DEF CountInv, InLoop
<1> QED BY <1>3, <1>4, <1>5

\* One step, with a trampoline whose APs can answer.
LEMMA NextCountInv == Answers /\ IInv /\ CountInv /\ [Next]_vars => CountInv'
<1> SUFFICES ASSUME Answers, IInv, CountInv, [Next]_vars PROVE CountInv'
    OBVIOUS
<1>1. CASE Bsp
    BY <1>1, BspCountKept, WaitCountKept, IpiCountKept DEF Bsp
<1>2. ASSUME NEW a \in Aps, Ap(a) PROVE CountInv'
    BY <1>2, ApCountKept
<1>3. CASE UNCHANGED vars
    BY <1>3 DEF vars, driverVars, CountInv, AliveAnswer, CountIsSoFar, AliveUpTo, IsApReady, Target
<1> QED BY <1>1, <1>2, <1>3 DEF Next

\* With a flag that the BSP reads, it has counted itself and the APs that
\* started once init() is done, missed first SIPIs or not (driver.rs:331-381).
LEMMA AgreedIsCounted == Answers => (Spec => []AliveAreCounted)
<1> SUFFICES ASSUME Answers PROVE Spec => []AliveAreCounted
    OBVIOUS
<1>0. InTime
    BY DEF Answers
<1>1. Init => CountInv
    <2> SUFFICES ASSUME Init PROVE CountInv
        OBVIOUS
    <2>1. /\ pc[BspId] = "register" /\ alive \subseteq Aps /\ cpu_index = 0 /\ total_cores = 1
          /\ \A a \in Aps : pc[a] = "off"
        BY ApFacts DEF Init
    <2>2. CountIsSoFar
        BY <2>1, AliveUpToFacts DEF CountIsSoFar, InLoop
    <2> QED BY <2>1, <2>2 DEF CountInv, AliveAnswer
<1>2. IInv /\ CountInv /\ [Next]_vars => CountInv'
    BY NextCountInv
<1>3. IInv /\ CountInv => AliveAreCounted
    <2> SUFFICES ASSUME IInv, CountInv, pc[BspId] = "initialized"
                 PROVE  total_cores = 1 + Cardinality(alive)
        BY DEF AliveAreCounted, Initialized
    <2>1. cpu_index = ApCount /\ alive \subseteq Aps
        BY DEF IInv, PlacesAreOwn, Typed
    <2> QED BY <2>1, AliveUpToFacts DEF CountInv, CountIsSoFar, InLoop
<1> QED BY <1>0, <1>1, <1>2, <1>3, AlwaysIInv, PTL DEF Spec
-----------------------------------------------------------------------------
(* The operand of the source: 0x18, where the struct has its cpu_index     *)

\* While the BSP waits for an answer, the flag it reads stays clear.
NoAnswer ==
    /\ total_cores = 1
    /\ pc = [c \in Cores |-> pc[c]]
    /\ block = [w \in Words |-> block[w]]
    /\ pc[BspId] \in {"init_ipi", "sipi", "check", "wait"} => block[AP_READY] = 0

\* No step sets the flag: the APs store elsewhere (trampoline.rs:211-214).
LEMMA NextNoAnswer ==
    ASSUME READY_OPERAND # AP_READY, NoAnswer, [Next]_vars PROVE NoAnswer'
<1>0. BspId \in Cores /\ BspId \notin Aps /\ Aps \subseteq Cores
    BY ApFacts
<1>1. ASSUME NEW a \in Aps, Ap(a) PROVE NoAnswer'
    <2>1. CASE SignalReady(a)
        <3>1. /\ pc' = [pc EXCEPT ![a] = "load_index"] /\ total_cores' = total_cores
              /\ \E x : block' = [block EXCEPT ![READY_OPERAND] = x]
            BY <2>1 DEF SignalReady, Goto, StoreReady, driverVars
        <3>2. pc'[BspId] = pc[BspId] /\ block'[AP_READY] = block[AP_READY]
            BY <1>0, <3>1, WordFacts DEF NoAnswer
        <3>3. pc' = [c \in Cores |-> pc'[c]] /\ block' = [w \in Words |-> block'[w]]
            BY <1>0, <3>1, WordFacts DEF NoAnswer
        <3> QED BY <3>1, <3>2, <3>3 DEF NoAnswer
    <2>2. CASE \/ LoadStack(a) \/ LoadIndex(a) \/ CallEntry(a) \/ Register(a)
               \/ SignalBooted(a)
        <3>1. /\ \E label : pc' = [pc EXCEPT ![a] = label]
              /\ UNCHANGED <<block, total_cores>>
            BY <2>2 DEF LoadStack, LoadIndex, CallEntry, Register, RegisterSlot, RegisterCount,
               RegisterGsBase, SignalBooted, Goto, driverVars
        <3>2. pc'[BspId] = pc[BspId] /\ pc' = [c \in Cores |-> pc'[c]]
            BY <1>0, <3>1 DEF NoAnswer
        <3> QED BY <3>1, <3>2 DEF NoAnswer
    <2> QED BY <1>1, <2>1, <2>2 DEF Ap
<1>2. ASSUME NEW label, pc' = [pc EXCEPT ![BspId] = label], total_cores' = total_cores,
             block' = [w \in Words |-> block'[w]],
             label \in {"init_ipi", "sipi", "check", "wait"} => block'[AP_READY] = 0
      PROVE  NoAnswer'
    BY <1>0, <1>2 DEF NoAnswer
<1>3. CASE Register(BspId) \/ BootNext \/ WaitTimeout \/ CreateScheduler
    <2>1. PICK label \in {"count", "gs_base", "install", "boot", "set_stack", "initialized", "booted"} :
             /\ pc' = [pc EXCEPT ![BspId] = label]
             /\ UNCHANGED <<block, total_cores>>
        BY <1>3 DEF Register, RegisterSlot, RegisterCount, RegisterGsBase, BootNext, WaitTimeout,
           CreateScheduler, Goto, driverVars
    <2> QED BY <1>2, <2>1 DEF NoAnswer
<1>4. CASE InstallTrampoline
    BY <1>2, <1>4 DEF InstallTrampoline, Install, Goto, driverVars
<1>5. CASE SetApStack \/ SetApIndex
    BY <1>2, <1>5 DEF SetApStack, SetApIndex, SetStack, SetIndex, Goto, driverVars, NoAnswer
<1>6. CASE ClearApReady
    <2>1. block'[AP_READY] = 0 /\ block' = [w \in Words |-> block'[w]]
        BY <1>6, WordFacts DEF ClearApReady, ClearReady, NoAnswer
    <2> QED BY <1>2, <1>6, <2>1 DEF ClearApReady, Goto, driverVars
<1>7. CASE SendInit \/ FirstSipi \/ SecondSipi
    <2>1. /\ UNCHANGED <<block, total_cores>> /\ block[AP_READY] = 0
          /\ pc[BspId] \in {"init_ipi", "sipi", "check"}
        BY <1>7 DEF SendInit, FirstSipi, SecondSipi, driverVars, NoAnswer
    <2>2. pc' = [c \in Cores |-> pc'[c]]
        BY <1>7 DEF SendInit, FirstSipi, SecondSipi, Sipi, Goto, NoAnswer
    <2> QED BY <2>1, <2>2 DEF NoAnswer
<1>8. ~WaitReady
    BY DEF WaitReady, IsApReady, NoAnswer
<1>9. CASE UNCHANGED vars
    BY <1>9 DEF vars, driverVars, NoAnswer
<1> QED BY <1>1, <1>3, <1>4, <1>5, <1>6, <1>7, <1>8, <1>9 DEF Next, Bsp

\* With the operand of the source no AP is ever counted, whatever the MADT lists,
\* however many APs run and however long the BSP waits: total_cores stays 1
\* (trampoline.rs:214 against 41-51, driver.rs:353-381).
THEOREM BootNobodyIsCounted == READY_OPERAND # AP_READY => (Spec => [](total_cores = 1))
<1> SUFFICES ASSUME READY_OPERAND # AP_READY PROVE Spec => [](total_cores = 1)
    OBVIOUS
<1>1. Init => NoAnswer
    <2> SUFFICES ASSUME Init PROVE NoAnswer
        OBVIOUS
    <2>1. pc[BspId] = "register"
        BY ApFacts DEF Init
    <2> QED BY <2>1 DEF Init, NoAnswer
<1>2. NoAnswer /\ [Next]_vars => NoAnswer'
    BY NextNoAnswer
<1>3. NoAnswer => total_cores = 1
    BY DEF NoAnswer
<1> QED BY <1>1, <1>2, <1>3, PTL DEF Spec

\* The operand decides: when init() is done the count is right exactly if the AP
\* stores to the flag the BSP reads, or no AP is alive.  With the operand of the
\* source every machine on which an AP starts is miscounted; with the struct's
\* none is (trampoline.rs:41-51, 208-214, driver.rs:331-381).
THEOREM BootOperandDecides ==
    InTime /\ (READY_OPERAND = AP_READY => Intact("stack") /\ Intact("ready")) =>
        (Spec => [](Initialized => (AliveAreCounted <=> READY_OPERAND = AP_READY \/ alive = {})))
<1> SUFFICES ASSUME InTime, READY_OPERAND = AP_READY => Intact("stack") /\ Intact("ready")
             PROVE  Spec => [](Initialized =>
                                  (AliveAreCounted <=> READY_OPERAND = AP_READY \/ alive = {}))
    OBVIOUS
<1>1. CASE READY_OPERAND = AP_READY
    <2>1. Answers
        BY <1>1 DEF Answers
    <2>2. AliveAreCounted =>
              (Initialized => (AliveAreCounted <=> READY_OPERAND = AP_READY \/ alive = {}))
        BY <1>1
    <2> QED BY <2>1, <2>2, AgreedIsCounted, PTL
<1>2. CASE READY_OPERAND # AP_READY
    <2>1. IInv /\ total_cores = 1 =>
              (Initialized => (AliveAreCounted <=> READY_OPERAND = AP_READY \/ alive = {}))
        <3> SUFFICES ASSUME IInv, total_cores = 1, Initialized
                     PROVE  1 = 1 + Cardinality(alive) <=> alive = {}
            BY <1>2 DEF AliveAreCounted
        <3>1. IsFiniteSet(alive)
            BY ApFacts, AliveUpToFacts DEF IInv, Typed
        <3>2. Cardinality(alive) \in Nat /\ (Cardinality(alive) = 0 <=> alive = {})
            BY <3>1, FS_EmptySet, FS_CardinalityType
        <3> QED BY <3>2
    <2> QED BY <1>2, <2>1, BootNobodyIsCounted, AlwaysIInv, PTL
<1> QED BY <1>1, <1>2
=============================================================================
