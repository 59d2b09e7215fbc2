------------------------ MODULE ContextSwitchProofs -------------------------
(***************************************************************************)
(* context_switch() for any tasks, any registers the compiler may choose   *)
(* for its operands and any amount of work, as long as nothing disturbs    *)
(* the code: a task resumes as it was suspended, and no jump goes astray.  *)
(*                                                                         *)
(* The invariant follows the instructions: up to where the code stands,    *)
(* the fields hold what the old task had, then the registers hold what the *)
(* new task's context has; everyone else is suspended all along.           *)
(***************************************************************************)
EXTENDS ContextSwitch, SequenceTheorems, TLAPS

\* Interrupts stay off until the jump, and the registers of `old` and `new` are
\* none that the code loads before it is through with them.
Undisturbed == ~InWindow /\ OperandRegs \cap Preserved = {}

(* The inductive invariant, part by part.                                  *)

\* The registers that are stored and loaded, in the order of the code.
Seven == 1..7

Typed ==
    /\ regs \in [Fields -> Values]
    /\ pc \in InCode \cup {TASK}
    /\ ctx \in [Tasks -> [Fields -> Values]]
    /\ frames \in [Tasks -> Seq([regs : [Fields -> Values], pc : {TASK}])]
    /\ cur \in Tasks
    /\ op \in [old : OperandRegs, new : OperandRegs] /\ op.old # op.new
    /\ own \in [Tasks -> [work : Nat, regs : [Preserved -> Values]]]

\* A task that has not run yet, and one with a return on its stack.
Unstarted(t) ==
    /\ frames[t] = <<>>
    /\ ctx[t]["rsp"] = StackAt(t, 0) /\ ctx[t]["rip"] = ENTRY
    /\ ctx[t]["rdi"] = Arg(t) /\ ctx[t]["rflags"] = IF_ON

HasReturn(t) == Len(frames[t]) = 1 /\ frames[t][1].regs["rsp"] = StackAt(t, 0)
Waiting(t) == HasReturn(t) /\ ctx[t]["rsp"] = StackAt(t, 1) /\ ctx[t]["rip"] = RESUME

\* The context of a task that does not run is its view of itself.
Suspended(t) ==
    /\ \A r \in Preserved : ctx[t][r] = own[t].regs[r]
    /\ Unstarted(t) \/ Waiting(t)

\* What a task that called context_switch() has in a register.
View(t, r) == IF r = "rsp" THEN StackAt(t, 1) ELSE own[t].regs[r]

\* The task that is switched out.
Old == regs[op.old].task

TaskRuns ==
    pc = TASK =>
        /\ regs["rsp"] = StackAt(cur, 0)
        /\ frames[cur] = <<>>
        /\ \A r \in Preserved : regs[r] = own[cur].regs[r]
        /\ \A t \in Tasks \ {cur} : Suspended(t)

\* `old` and `new` point to the two contexts; everyone but the old task is
\* suspended, and the old one is as soon as its rip is stored.
OperandsPoint ==
    pc \in InCode =>
        /\ Old \in Tasks \ {cur} /\ regs[op.old] = Pointer(Old) /\ regs[op.new] = Pointer(cur)
        /\ HasReturn(Old)
        /\ \A t \in Tasks \ {Old} : Suspended(t)

\* The registers before their instruction stores them, the fields after it.
SavesSoFar ==
    pc \in InCode =>
        /\ \A j \in Seven : pc <= j => regs[Layout[j]] = View(Old, Layout[j])
        /\ \A j \in Seven : pc > j => ctx[Old][Layout[j]] = View(Old, Layout[j])
        /\ pc = 9 => regs["rax"] = RESUME
        /\ pc > 9 => ctx[Old]["rip"] = RESUME

\* The registers after their instruction has loaded them.
LoadsSoFar ==
    pc \in InCode =>
        /\ \A j \in Seven : pc > 11 + j => regs[Layout[j]] = ctx[cur][Layout[j]]
        /\ pc = 20 => regs["rax"] = ctx[cur]["rflags"]
        /\ pc > 20 => regs["rflags"] = ctx[cur]["rflags"]
        /\ pc > 21 => regs["rdi"] = ctx[cur]["rdi"]
        /\ pc = 23 => regs["rax"] = ctx[cur]["rip"]

IInv == Typed /\ TaskRuns /\ OperandsPoint /\ SavesSoFar /\ LoadsSoFar
-----------------------------------------------------------------------------
(* The code and the layout                                                 *)

\* The code of context_switch(), as one list (scheduler.rs:550-601).
LEMMA CodeIs ==
    /\ Len(Code) = 23
    /\ \A j \in Seven : Code[j] = Stored(Layout[j], 8 * (j - 1))
    /\ Code[8] = Other("lea") /\ Code[9] = Stored("rax", 56)
    /\ Code[10] = Other("pushfq") /\ Code[11] = Stored("rax", 64)
    /\ \A j \in Seven : Code[j + 11] = Loaded(Layout[j], 8 * (j - 1))
    /\ Code[19] = Loaded("rax", 64) /\ Code[20] = Other("popfq")
    /\ Code[21] = Loaded("rdi", 104)
    /\ Code[22] = Loaded("rax", 56) /\ Code[23] = Other("jmp")
<1>1. Len(Code) = 23
    BY DEF Code
<1>2. /\ Code[1] = Stored("rsp", 0) /\ Code[2] = Stored("rbp", 8) /\ Code[3] = Stored("rbx", 16)
      /\ Code[4] = Stored("r12", 24) /\ Code[5] = Stored("r13", 32)
      /\ Code[6] = Stored("r14", 40) /\ Code[7] = Stored("r15", 48)
    BY DEF Code, SaveR15
<1>3. /\ Code[12] = Loaded("rsp", 0) /\ Code[13] = Loaded("rbp", 8)
      /\ Code[14] = Loaded("rbx", 16) /\ Code[15] = Loaded("r12", 24)
      /\ Code[16] = Loaded("r13", 32) /\ Code[17] = Loaded("r14", 40)
      /\ Code[18] = Loaded("r15", 48)
    BY DEF Code
<1>4. /\ Code[8] = Other("lea") /\ Code[9] = Stored("rax", 56)
      /\ Code[10] = Other("pushfq") /\ Code[11] = Stored("rax", 64)
      /\ Code[19] = Loaded("rax", 64) /\ Code[20] = Other("popfq")
      /\ Code[21] = Loaded("rdi", 104)
      /\ Code[22] = Loaded("rax", 56) /\ Code[23] = Other("jmp")
    BY DEF Code, SaveRip
<1>5. /\ Layout[1] = "rsp" /\ Layout[2] = "rbp" /\ Layout[3] = "rbx" /\ Layout[4] = "r12"
      /\ Layout[5] = "r13" /\ Layout[6] = "r14" /\ Layout[7] = "r15"
    BY DEF Layout
<1>6. \A j \in Seven : j = 1 \/ j = 2 \/ j = 3 \/ j = 4 \/ j = 5 \/ j = 6 \/ j = 7
    BY DEF Seven
<1>7. \A j \in Seven : Code[j] = Stored(Layout[j], 8 * (j - 1))
    BY <1>2, <1>5, <1>6
<1>8. \A j \in Seven : Code[j + 11] = Loaded(Layout[j], 8 * (j - 1))
    BY <1>3, <1>5, <1>6
<1> QED BY <1>1, <1>4, <1>7, <1>8

\* The fields of CpuContext that context_switch() uses (scheduler.rs:49-90).
LEMMA LayoutIs ==
    /\ \A j \in Seven : FieldAt(8 * (j - 1)) = Layout[j]
    /\ FieldAt(56) = "rip" /\ FieldAt(64) = "rflags" /\ FieldAt(104) = "rdi"
    /\ \A j \in Seven : Layout[j] \in Preserved \cup {"rsp"}
    /\ \A r \in Preserved \cup {"rsp"} : \E j \in Seven : Layout[j] = r
    /\ \A j, k \in Seven : Layout[j] = Layout[k] => j = k
    /\ Preserved \cup {"rsp", "rax", "rdi", "rip", "rflags"} \subseteq Fields
<1>1. /\ Layout[1] = "rsp" /\ Layout[2] = "rbp" /\ Layout[3] = "rbx" /\ Layout[4] = "r12"
      /\ Layout[5] = "r13" /\ Layout[6] = "r14" /\ Layout[7] = "r15" /\ Layout[8] = "rip"
      /\ Layout[9] = "rflags" /\ Layout[10] = "rax" /\ Layout[14] = "rdi" /\ Len(Layout) = 20
    BY DEF Layout
<1>2. \A j \in Seven : j = 1 \/ j = 2 \/ j = 3 \/ j = 4 \/ j = 5 \/ j = 6 \/ j = 7
    BY DEF Seven
<1>3. \A j \in Seven : (8 * (j - 1)) \div 8 + 1 = j
    BY DEF Seven
<1>4. 56 \div 8 + 1 = 8 /\ 64 \div 8 + 1 = 9 /\ 104 \div 8 + 1 = 14
    OBVIOUS
<1>5. \A j \in Seven : FieldAt(8 * (j - 1)) = Layout[j]
    BY <1>3 DEF FieldAt
<1>6. FieldAt(56) = "rip" /\ FieldAt(64) = "rflags" /\ FieldAt(104) = "rdi"
    BY <1>1, <1>4 DEF FieldAt
<1>7. \A j \in Seven : Layout[j] \in Preserved \cup {"rsp"}
    BY <1>1, <1>2 DEF Preserved
<1>8. \A r \in Preserved \cup {"rsp"} : \E j \in Seven : Layout[j] = r
    <2>1. /\ 1 \in Seven /\ 2 \in Seven /\ 3 \in Seven /\ 4 \in Seven /\ 5 \in Seven
          /\ 6 \in Seven /\ 7 \in Seven
        BY DEF Seven
    <2> QED BY <1>1, <2>1 DEF Preserved
<1>9. \A j, k \in Seven : Layout[j] = Layout[k] => j = k
    BY <1>1, <1>2
<1>10. Preserved \cup {"rsp", "rax", "rdi", "rip", "rflags"} \subseteq Fields
    <2> DEFINE N == 1..Len(Layout)
    <2>1. /\ 1 \in N /\ 2 \in N /\ 3 \in N /\ 4 \in N /\ 5 \in N /\ 6 \in N /\ 7 \in N
          /\ 8 \in N /\ 9 \in N /\ 10 \in N /\ 14 \in N
        BY <1>1
    <2> HIDE DEF N
    <2>2. Fields = {Layout[i] : i \in N}
        BY DEF Fields, N
    <2> QED BY <1>1, <2>1, <2>2 DEF Preserved
<1> QED BY <1>5, <1>6, <1>7, <1>8, <1>9, <1>10
-----------------------------------------------------------------------------
(* Values and operands                                                     *)

\* Registers and fields hold values of one shape, and the two places rax may
\* point to at the jump differ.
LEMMA ValuesAre ==
    /\ ENTRY # RESUME
    /\ {Zero, Garbage, ENTRY, RESUME, IF_ON, IF_OFF} \subseteq Values
    /\ \A t \in Tasks, n \in Nat :
          /\ StackAt(t, n) \in Values /\ StackAt(t, n).kind = "stack"
          /\ StackAt(t, n).task = t /\ StackAt(t, n).n = n
    /\ \A t \in Tasks :
          /\ Pointer(t) \in Values /\ Pointer(t).kind = "context" /\ Pointer(t).task = t
          /\ Arg(t) \in Values
    /\ \A t \in Tasks, n \in Nat : Val("number", t, n) \in Values
BY SwitchAssumption DEF Values, Val, Zero, Garbage, ENTRY, RESUME, IF_ON, IF_OFF,
   StackAt, Pointer, Arg

\* The registers of `old` and `new` are none that context_switch() changes.
LEMMA OperandsAreFree ==
    ASSUME Undisturbed, Typed
    PROVE  /\ op.old \in Fields /\ op.new \in Fields /\ op.old # op.new
           /\ \A r \in Preserved \cup {"rsp", "rax", "rdi", "rflags"} : r # op.old /\ r # op.new
<1>1. op.old \in OperandRegs /\ op.new \in OperandRegs /\ op.old # op.new
    BY DEF Typed
<1> QED BY <1>1, SwitchAssumption DEF Undisturbed

\* Before the first switch every task but the one that runs is fresh
\* (scheduler.rs:93-134, 196-236).
LEMMA InitIInv == Init => IInv
<1> SUFFICES ASSUME Init PROVE IInv
    OBVIOUS
<1>1. pc = TASK /\ pc \notin InCode
    BY CodeIs DEF Init, InCode, TASK
<1>2. \A t \in Tasks : NewTask(t) \in [Fields -> Values]
    BY ValuesAre, LayoutIs DEF NewTask, ZeroedContext
<1>3. \A t \in Tasks :
         /\ NewTask(t)["rsp"] = StackAt(t, 0) /\ NewTask(t)["rip"] = ENTRY
         /\ NewTask(t)["rdi"] = Arg(t) /\ NewTask(t)["rflags"] = IF_ON
    BY LayoutIs DEF NewTask, ZeroedContext
<1>4. Typed
    <2>1. regs \in [Fields -> Values]
        BY ValuesAre, SwitchAssumption DEF Init
    <2>2. ctx \in [Tasks -> [Fields -> Values]]
        BY ValuesAre, <1>2 DEF Init, ZeroedContext
    <2>3. own \in [Tasks -> [work : Nat, regs : [Preserved -> Values]]]
        BY ValuesAre, <1>2, LayoutIs DEF Init
    <2>4. cur \in Tasks /\ frames \in [Tasks -> Seq([regs : [Fields -> Values], pc : {TASK}])]
        BY SwitchAssumption DEF Init
    <2>5. op \in [old : OperandRegs, new : OperandRegs] /\ op.old # op.new
        BY DEF Init
    <2> QED BY <1>1, <2>1, <2>2, <2>3, <2>4, <2>5 DEF Typed
<1>5. TaskRuns
    <2>1. regs["rsp"] = StackAt(cur, 0) /\ frames[cur] = <<>>
        BY LayoutIs, SwitchAssumption DEF Init
    <2>2. \A r \in Preserved : regs[r] = own[cur].regs[r]
        <3>1. \A r \in Preserved : r \in Fields /\ r # "rsp" /\ r # "rflags"
            BY LayoutIs DEF Preserved
        <3> QED BY <3>1, SwitchAssumption DEF Init
    <2>3. ASSUME NEW t \in Tasks, t # cur PROVE Suspended(t)
        <3>1. /\ ctx[t] = NewTask(t) /\ frames[t] = <<>>
              /\ \A r \in Preserved : own[t].regs[r] = NewTask(t)[r]
            BY <2>3 DEF Init
        <3> QED BY <1>3, <3>1 DEF Suspended, Unstarted
    <2> QED BY <2>1, <2>2, <2>3 DEF TaskRuns
<1> QED BY <1>1, <1>4, <1>5 DEF IInv, OperandsPoint, SavesSoFar, LoadsSoFar
-----------------------------------------------------------------------------
(* The tasks                                                               *)

\* A task that computes changes its own view and nobody else's.
LEMMA WorkIInv ==
    ASSUME IInv, Work
    PROVE  IInv'
<1> USE DEF IInv, Work
<1>1. pc = TASK /\ pc' = TASK /\ pc' \notin InCode
    BY CodeIs DEF InCode, TASK
<1>2. "rsp" \in Fields /\ "rsp" \notin Preserved /\ \A r \in Preserved : r \in Fields
    BY LayoutIs DEF Preserved
<1> DEFINE mine == [r \in Preserved |-> Val("number", cur, own[cur].work + 1)]
<1>3. own[cur].work + 1 \in Nat /\ mine \in [Preserved -> Values] /\ cur \in Tasks
    BY ValuesAre DEF Typed
<1>4. /\ regs' = [f \in Fields |-> IF f \in Preserved THEN mine[f] ELSE regs[f]]
      /\ own' = [own EXCEPT ![cur] = [work |-> own[cur].work + 1, regs |-> mine]]
    OBVIOUS
<1> HIDE DEF mine
<1>5. Typed'
    <2>1. regs' \in [Fields -> Values]
        BY <1>3, <1>4 DEF Typed
    <2>2. own' \in [Tasks -> [work : Nat, regs : [Preserved -> Values]]]
        <3>1. [work |-> own[cur].work + 1, regs |-> mine] \in
                 [work : Nat, regs : [Preserved -> Values]]
            BY <1>3
        <3> QED BY <1>4, <3>1 DEF Typed
    <2> QED BY <2>1, <2>2 DEF Typed
<1>6. regs'["rsp"] = regs["rsp"] /\ \A r \in Preserved : regs'[r] = own'[cur].regs[r]
    BY <1>2, <1>3, <1>4 DEF Typed
<1>7. \A t \in Tasks \ {cur} : Suspended(t)'
    <2> SUFFICES ASSUME NEW t \in Tasks \ {cur} PROVE Suspended(t)'
        OBVIOUS
    <2>1. own'[t] = own[t] /\ Suspended(t)
        BY <1>1, <1>4 DEF Typed, TaskRuns
    <2> QED BY <2>1 DEF Suspended, Unstarted, Waiting, HasReturn
<1>8. TaskRuns'
    BY <1>1, <1>6, <1>7 DEF TaskRuns
<1> QED BY <1>1, <1>5, <1>8 DEF OperandsPoint, SavesSoFar, LoadsSoFar

\* The call leaves a return on the stack of the task that gives up the core.
LEMMA SwitchIInv ==
    ASSUME Undisturbed, IInv, NEW t \in Tasks, Switch(t)
    PROVE  IInv'
<1> USE DEF IInv
<1>1. pc = TASK /\ Call(t)
    BY DEF Switch, Interruptible, Undisturbed
<1>2. pc' = 1 /\ pc' \in InCode /\ pc' # TASK /\ cur' = t /\ t # cur
      /\ UNCHANGED <<ctx, op, own>>
    BY <1>1, CodeIs DEF Call, InCode, TASK
<1>3. cur \in Tasks /\ frames[cur] = <<>> /\ regs["rsp"] = StackAt(cur, 0)
    BY <1>1 DEF Typed, TaskRuns
<1>4. frames' = [frames EXCEPT ![cur] = <<[regs |-> regs, pc |-> TASK]>>]
    BY <1>1, <1>3 DEF Call
<1>5. regs' = [regs EXCEPT !["rsp"] = StackAt(cur, 1), !["rflags"] = IF_OFF,
                           ![op.old] = Pointer(cur), ![op.new] = Pointer(t)]
    <2>1. Len(frames[cur]) + 1 = 1
        BY <1>3
    <2> QED BY <1>1, <2>1 DEF Call
<1>6. "rsp" \in Fields /\ \A r \in Preserved : r \in Fields /\ r # "rsp" /\ r # "rflags"
    BY LayoutIs DEF Preserved
<1>7. /\ regs'["rsp"] = StackAt(cur, 1)
      /\ \A r \in Preserved : regs'[r] = regs[r]
      /\ regs'[op.old] = Pointer(cur) /\ regs'[op.new] = Pointer(t)
    BY <1>5, <1>6, OperandsAreFree DEF Typed
<1>8. Typed'
    <2>1. regs' \in [Fields -> Values]
        <3>1. /\ StackAt(cur, 1) \in Values /\ IF_OFF \in Values
              /\ Pointer(cur) \in Values /\ Pointer(t) \in Values
            BY <1>3, ValuesAre
        <3> QED BY <1>5, <3>1 DEF Typed
    <2>2. frames' \in [Tasks -> Seq([regs : [Fields -> Values], pc : {TASK}])]
        <3>1. [regs |-> regs, pc |-> TASK] \in [regs : [Fields -> Values], pc : {TASK}]
            BY DEF Typed
        <3>2. <<[regs |-> regs, pc |-> TASK]>> \in Seq([regs : [Fields -> Values], pc : {TASK}])
            BY <3>1
        <3> QED BY <1>4, <3>2 DEF Typed
    <2> QED BY <1>2, <2>1, <2>2 DEF Typed
<1>9. PICK c \in Tasks : c = cur
    BY <1>3
<1>10. Old' = c
    BY <1>2, <1>7, <1>9, ValuesAre DEF Old
<1>11. HasReturn(c)'
    <2>1. frames'[c] = <<[regs |-> regs, pc |-> TASK]>>
        BY <1>4, <1>9 DEF Typed
    <2>2. Len(frames'[c]) = 1 /\ frames'[c][1].regs["rsp"] = StackAt(c, 0)
        BY <1>3, <1>9, <2>1
    <2> QED BY <2>2 DEF HasReturn
<1>12. ASSUME NEW u \in Tasks, u # c PROVE Suspended(u)'
    <2>1. Suspended(u) /\ frames'[u] = frames[u]
        BY <1>1, <1>4, <1>9, <1>12 DEF Typed, TaskRuns
    <2> QED BY <1>2, <2>1 DEF Suspended, Unstarted, Waiting, HasReturn
<1>13. OperandsPoint'
    BY <1>2, <1>7, <1>9, <1>10, <1>11, <1>12 DEF OperandsPoint
<1>14. SavesSoFar'
    <2>1. \A j \in Seven : 1 <= j /\ ~(1 > j)
        BY DEF Seven
    <2>2. ASSUME NEW j \in Seven PROVE regs'[Layout[j]] = View(c, Layout[j])'
        <3>1. CASE Layout[j] = "rsp"
            BY <1>7, <1>9, <3>1 DEF View
        <3>2. CASE Layout[j] # "rsp"
            <4>1. Layout[j] \in Preserved
                BY <3>2, LayoutIs
            <4> QED BY <1>1, <1>2, <1>7, <1>9, <3>2, <4>1 DEF View, TaskRuns
        <3> QED BY <3>1, <3>2
    <2> QED BY <1>2, <1>10, <2>1, <2>2 DEF SavesSoFar
<1>15. LoadsSoFar'
    <2>1. \A j \in Seven : ~(1 > 11 + j)
        BY DEF Seven
    <2> QED BY <1>2, <2>1 DEF LoadsSoFar
<1> QED BY <1>2, <1>8, <1>13, <1>14, <1>15 DEF TaskRuns
-----------------------------------------------------------------------------
(* context_switch(), instruction by instruction                            *)

\* Where an instruction stands says what it does.
LEMMA Places ==
    ASSUME pc \in InCode
    PROVE  \/ pc \in Seven \/ pc = 8 \/ pc = 9 \/ pc = 10 \/ pc = 11
           \/ (pc - 11 \in Seven /\ pc = (pc - 11) + 11)
           \/ pc = 19 \/ pc = 20 \/ pc = 21 \/ pc = 22 \/ pc = 23
BY CodeIs DEF InCode, Seven

\* The kinds of instructions exclude each other.
LEMMA Kinds ==
    /\ \A r, n : Stored(r, n).do = "store" /\ Stored(r, n).reg = r /\ Stored(r, n).at = n
    /\ \A r, n : Loaded(r, n).do = "load" /\ Loaded(r, n).reg = r /\ Loaded(r, n).at = n
    /\ \A w : Other(w).do = w
BY DEF Stored, Loaded, Other

\* A store changes one field of the old task's context, before any load.
LEMMA StoreKeeps ==
    ASSUME Undisturbed, IInv, pc \in InCode, pc <= 11, Store,
           NEW r \in Fields, NEW f \in Fields,
           Instruction.reg = r, FieldAt(Instruction.at) = f
    PROVE  /\ Typed' /\ TaskRuns' /\ OperandsPoint' /\ LoadsSoFar'
           /\ pc' = pc + 1 /\ pc' \in InCode /\ Old' = Old /\ Old \in Tasks
           /\ UNCHANGED <<regs, own>>
           /\ ctx'[Old][f] = regs[r]
           /\ \A g \in Fields : g # f => ctx'[Old][g] = ctx[Old][g]
<1> USE DEF IInv
<1>1. pc' = pc + 1 /\ pc' \in InCode /\ pc' # TASK /\ pc' <= 12
    BY CodeIs DEF Store, Follow, InCode, TASK
<1>2. UNCHANGED <<regs, frames, cur, op, own>> /\ Old' = Old
    BY DEF Store, Old
<1>3. Old \in Tasks /\ Old # cur
    BY DEF OperandsPoint
<1>4. ctx' = [ctx EXCEPT ![Old][f] = regs[r]]
    BY DEF Store, Old
<1>5. ctx'[Old][f] = regs[r] /\ \A g \in Fields : g # f => ctx'[Old][g] = ctx[Old][g]
    BY <1>3, <1>4 DEF Typed
<1>6. \A t \in Tasks : t # Old => ctx'[t] = ctx[t]
    BY <1>3, <1>4 DEF Typed
<1>7. Typed'
    <2>1. ctx' \in [Tasks -> [Fields -> Values]]
        BY <1>3, <1>4 DEF Typed
    <2> QED BY <1>1, <1>2, <2>1 DEF Typed
<1>8. OperandsPoint'
    <2>1. ASSUME NEW t \in Tasks, t # Old PROVE Suspended(t)'
        BY <1>2, <1>6, <2>1 DEF OperandsPoint, Suspended, Unstarted, Waiting, HasReturn
    <2>2. HasReturn(Old)'
        BY <1>2 DEF OperandsPoint, HasReturn
    <2> QED BY <1>2, <2>1, <2>2 DEF OperandsPoint
<1>9. LoadsSoFar'
    <2>1. \A j \in Seven : ~(pc' > 11 + j)
        BY <1>1 DEF Seven, InCode
    <2> QED BY <1>1, <2>1 DEF LoadsSoFar, InCode
<1> QED BY <1>1, <1>2, <1>3, <1>5, <1>7, <1>8, <1>9 DEF TaskRuns

\* The first seven stores.
LEMMA SaveRegsIInv ==
    ASSUME Undisturbed, IInv, pc \in InCode, pc \in Seven, Store PROVE IInv'
<1>1. Instruction = Stored(Layout[pc], 8 * (pc - 1))
    BY CodeIs DEF Instruction
<1>2. Instruction.reg = Layout[pc] /\ FieldAt(Instruction.at) = Layout[pc]
      /\ Layout[pc] \in Fields /\ pc <= 11
    BY <1>1, Kinds, LayoutIs DEF Seven
<1>3. /\ Typed' /\ TaskRuns' /\ OperandsPoint' /\ LoadsSoFar'
      /\ pc' = pc + 1 /\ pc' \in InCode /\ Old' = Old /\ Old \in Tasks
      /\ UNCHANGED <<regs, own>>
      /\ ctx'[Old][Layout[pc]] = regs[Layout[pc]]
      /\ \A g \in Fields : g # Layout[pc] => ctx'[Old][g] = ctx[Old][g]
    BY <1>2, StoreKeeps
<1>4. \A j \in Seven : View(Old, Layout[j])' = View(Old, Layout[j])
    BY <1>3 DEF View
<1>5. ASSUME NEW j \in Seven, pc' <= j PROVE regs'[Layout[j]] = View(Old, Layout[j])'
    <2>1. pc <= j
        BY <1>3, <1>5 DEF Seven
    <2> QED BY <1>3, <1>4, <2>1 DEF IInv, SavesSoFar
<1>6. ASSUME NEW j \in Seven, pc' > j PROVE ctx'[Old][Layout[j]] = View(Old, Layout[j])'
    <2>1. CASE j = pc
        BY <1>3, <1>4, <2>1 DEF IInv, SavesSoFar, Seven
    <2>2. CASE j # pc
        <3>1. pc > j /\ Layout[j] # Layout[pc] /\ Layout[j] \in Fields
            BY <1>3, <1>6, <2>2, LayoutIs DEF Seven
        <3> QED BY <1>3, <1>4, <3>1 DEF IInv, SavesSoFar
    <2> QED BY <2>1, <2>2
<1>7. pc' # 9 /\ ~(pc' > 9)
    BY <1>3 DEF Seven
<1>8. SavesSoFar'
    BY <1>3, <1>5, <1>6, <1>7 DEF SavesSoFar
<1> QED BY <1>3, <1>8 DEF IInv

\* The stores of rip and rflags.
LEMMA SaveRestIInv ==
    ASSUME Undisturbed, IInv, pc \in InCode, pc = 9 \/ pc = 11, Store PROVE IInv'
<1>1. /\ Instruction.reg = "rax" /\ "rax" \in Fields
      /\ pc = 9 => FieldAt(Instruction.at) = "rip"
      /\ pc = 11 => FieldAt(Instruction.at) = "rflags"
    BY CodeIs, Kinds, LayoutIs DEF Instruction
<1>2. PICK f \in {"rip", "rflags"} : FieldAt(Instruction.at) = f
    BY <1>1
<1>3. f \in Fields /\ pc <= 11
    BY LayoutIs
<1>4. /\ Typed' /\ TaskRuns' /\ OperandsPoint' /\ LoadsSoFar'
      /\ pc' = pc + 1 /\ pc' \in InCode /\ Old' = Old /\ Old \in Tasks
      /\ UNCHANGED <<regs, own>>
      /\ ctx'[Old][f] = regs["rax"]
      /\ \A g \in Fields : g # f => ctx'[Old][g] = ctx[Old][g]
    BY <1>1, <1>2, <1>3, StoreKeeps
<1>5. ASSUME NEW j \in Seven PROVE ~(pc' <= j) /\ ctx'[Old][Layout[j]] = View(Old, Layout[j])'
    <2>1. Layout[j] \in Fields /\ Layout[j] # f
        BY LayoutIs DEF Preserved
    <2>2. pc > j /\ ~(pc' <= j)
        BY <1>4 DEF Seven
    <2>3. View(Old, Layout[j])' = View(Old, Layout[j])
        BY <1>4 DEF View
    <2> QED BY <1>4, <2>1, <2>2, <2>3 DEF IInv, SavesSoFar
<1>6. pc' # 9 /\ ctx'[Old]["rip"] = RESUME
    BY <1>1, <1>2, <1>4, LayoutIs DEF IInv, SavesSoFar
<1>7. SavesSoFar'
    BY <1>4, <1>5, <1>6 DEF SavesSoFar
<1> QED BY <1>4, <1>7 DEF IInv

\* An instruction that writes a register leaves the operands and the contexts.
LEMMA RegisterKeeps ==
    ASSUME Undisturbed, IInv, pc \in InCode, pc < 23, Follow,
           NEW r \in Preserved \cup {"rsp", "rax", "rdi", "rflags"}, NEW v \in Values,
           regs' = [regs EXCEPT ![r] = v], UNCHANGED <<ctx, frames, cur, op, own>>
    PROVE  /\ Typed' /\ TaskRuns' /\ OperandsPoint'
           /\ pc' = pc + 1 /\ pc' \in InCode /\ Old' = Old
           /\ regs'[r] = v /\ \A q \in Fields : q # r => regs'[q] = regs[q]
<1> USE DEF IInv
<1>1. pc' = pc + 1 /\ pc' \in InCode /\ pc' # TASK
    BY CodeIs DEF Follow, InCode, TASK
<1>2. r \in Fields /\ r # op.old /\ r # op.new /\ op.old \in Fields /\ op.new \in Fields
    BY OperandsAreFree, LayoutIs
<1>3. regs'[r] = v /\ \A q \in Fields : q # r => regs'[q] = regs[q]
    BY <1>2 DEF Typed
<1>4. Old' = Old /\ regs'[op.old] = regs[op.old] /\ regs'[op.new] = regs[op.new]
    BY <1>2, <1>3 DEF Old
<1>5. Typed'
    <2>1. regs' \in [Fields -> Values]
        BY DEF Typed
    <2> QED BY <1>1, <2>1 DEF Typed
<1>6. OperandsPoint'
    <2>1. ASSUME NEW t \in Tasks, t # Old PROVE Suspended(t)'
        BY <2>1 DEF OperandsPoint, Suspended, Unstarted, Waiting, HasReturn
    <2>2. HasReturn(Old)'
        BY <1>4 DEF OperandsPoint, HasReturn
    <2> QED BY <1>4, <2>1, <2>2 DEF OperandsPoint
<1> QED BY <1>1, <1>3, <1>4, <1>5, <1>6 DEF TaskRuns

\* lea and pushfq: rax gets the label, then the flags.
LEMMA SaveMovesIInv ==
    ASSUME Undisturbed, IInv, pc \in InCode, pc = 8 \/ pc = 10, Move PROVE IInv'
<1>1. /\ pc = 8 => Instruction.do = "lea"
      /\ pc = 10 => Instruction.do = "pushfq"
    BY CodeIs, Kinds DEF Instruction
<1>2. PICK v \in Values : /\ regs' = [regs EXCEPT !["rax"] = v]
                          /\ pc = 8 => v = RESUME
    <2>1. RESUME \in Values /\ regs["rflags"] \in Values
        BY ValuesAre, LayoutIs DEF IInv, Typed
    <2> QED BY <1>1, <2>1 DEF Move
<1>3. /\ Typed' /\ TaskRuns' /\ OperandsPoint'
      /\ pc' = pc + 1 /\ pc' \in InCode /\ Old' = Old
      /\ regs'["rax"] = v /\ UNCHANGED <<ctx, cur, own>>
    <2>1. /\ Follow /\ UNCHANGED <<ctx, frames, cur, op, own>> /\ pc < 23
          /\ "rax" \in Preserved \cup {"rsp", "rax", "rdi", "rflags"}
        BY DEF Move
    <2> QED BY <1>2, <2>1, RegisterKeeps
<1>4. ASSUME NEW j \in Seven
      PROVE  /\ ~(pc' <= j) /\ ~(pc' > 11 + j)
             /\ ctx'[Old][Layout[j]] = View(Old, Layout[j])'
    <2>1. pc > j /\ ~(pc' <= j) /\ ~(pc' > 11 + j)
        BY <1>3 DEF Seven
    <2>2. View(Old, Layout[j])' = View(Old, Layout[j])
        BY <1>3 DEF View
    <2> QED BY <1>3, <2>1, <2>2 DEF IInv, SavesSoFar
<1>5. SavesSoFar'
    BY <1>2, <1>3, <1>4 DEF IInv, SavesSoFar
<1>6. LoadsSoFar'
    BY <1>3, <1>4 DEF LoadsSoFar
<1> QED BY <1>3, <1>5, <1>6 DEF IInv

\* What was saved stays saved while the registers are loaded.
LEMMA SavedStays ==
    ASSUME IInv, pc \in InCode, pc > 11, pc' = pc + 1, Old' = Old, UNCHANGED <<ctx, own>>
    PROVE  SavesSoFar'
<1>1. ASSUME NEW j \in Seven PROVE ~(pc' <= j) /\ ctx'[Old][Layout[j]] = View(Old, Layout[j])'
    <2>1. pc > j /\ ~(pc' <= j)
        BY DEF Seven, InCode
    <2>2. View(Old, Layout[j])' = View(Old, Layout[j])
        BY DEF View
    <2> QED BY <2>1, <2>2 DEF IInv, SavesSoFar
<1>2. pc > 9 /\ pc' # 9
    BY DEF InCode
<1> QED BY <1>1, <1>2 DEF IInv, SavesSoFar

\* `new` still points to the context, so a load finds the field it is after.
LEMMA LoadFinds ==
    ASSUME Undisturbed, IInv, pc \in InCode, NEW f \in Fields, FieldAt(Instruction.at) = f
    PROVE  AtNew(Instruction.at) = ctx[cur][f] /\ ctx[cur][f] \in Values
BY ValuesAre DEF IInv, OperandsPoint, Typed, AtNew

\* The seven loads of the stack and the preserved registers.
LEMMA LoadRegsIInv ==
    ASSUME Undisturbed, IInv, pc \in InCode, pc - 11 \in Seven, Load PROVE IInv'
<1>1. PICK k \in Seven : pc = k + 11 /\ k = pc - 11
    BY DEF InCode
<1>2. Instruction = Loaded(Layout[k], 8 * (k - 1))
    BY <1>1, CodeIs DEF Instruction
<1>3. /\ Instruction.reg = Layout[k] /\ FieldAt(Instruction.at) = Layout[k]
      /\ Layout[k] \in Fields /\ Layout[k] \in Preserved \cup {"rsp"}
      /\ pc > 11 /\ pc < 23
    BY <1>1, <1>2, Kinds, LayoutIs DEF Seven
<1>4. regs' = [regs EXCEPT ![Layout[k]] = ctx[cur][Layout[k]]] /\ ctx[cur][Layout[k]] \in Values
    BY <1>3, LoadFinds DEF Load
<1>5. /\ Typed' /\ TaskRuns' /\ OperandsPoint'
      /\ pc' = pc + 1 /\ pc' \in InCode /\ Old' = Old
      /\ regs'[Layout[k]] = ctx[cur][Layout[k]]
      /\ \A q \in Fields : q # Layout[k] => regs'[q] = regs[q]
      /\ UNCHANGED <<ctx, cur, own>>
    <2>1. /\ Follow /\ UNCHANGED <<ctx, frames, cur, op, own>>
          /\ Layout[k] \in Preserved \cup {"rsp", "rax", "rdi", "rflags"}
        BY <1>3 DEF Load
    <2>2. PICK r \in Preserved \cup {"rsp", "rax", "rdi", "rflags"} : r = Layout[k]
        BY <2>1
    <2>3. PICK v \in Values : v = ctx[cur][Layout[k]]
        BY <1>4
    <2>4. regs' = [regs EXCEPT ![r] = v]
        BY <1>4, <2>2, <2>3
    <2>5. /\ Typed' /\ TaskRuns' /\ OperandsPoint'
          /\ pc' = pc + 1 /\ pc' \in InCode /\ Old' = Old
          /\ regs'[r] = v /\ \A q \in Fields : q # r => regs'[q] = regs[q]
        BY <1>3, <2>1, <2>4, RegisterKeeps
    <2> QED BY <2>1, <2>2, <2>3, <2>5
<1>6. ASSUME NEW j \in Seven, pc' > 11 + j PROVE regs'[Layout[j]] = ctx'[cur'][Layout[j]]
    <2>1. CASE j = k
        BY <1>5, <2>1
    <2>2. CASE j # k
        <3>1. pc > 11 + j /\ Layout[j] # Layout[k] /\ Layout[j] \in Fields
            BY <1>1, <1>5, <1>6, <2>2, LayoutIs DEF Seven
        <3> QED BY <1>5, <3>1 DEF IInv, LoadsSoFar
    <2> QED BY <2>1, <2>2
<1>7. pc' < 20
    BY <1>1, <1>5 DEF Seven
<1>8. LoadsSoFar'
    BY <1>5, <1>6, <1>7 DEF LoadsSoFar, InCode
<1> QED BY <1>3, <1>5, <1>8, SavedStays DEF IInv

\* The instructions after the seven loads and before the jump: rax gets the flags,
\* the flags get rax, rdi its argument and rax the place to jump to.
LEMMA LoadRestIInv ==
    ASSUME Undisturbed, IInv, pc \in InCode, pc \in 19..22, Load \/ Move PROVE IInv'
<1>0. pc = 19 \/ pc = 20 \/ pc = 21 \/ pc = 22
    OBVIOUS
<1> DEFINE target == CASE pc = 20 -> "rflags" [] pc = 21 -> "rdi" [] OTHER -> "rax"
           field == CASE pc = 21 -> "rdi" [] pc = 22 -> "rip" [] OTHER -> "rflags"
<1>1. /\ target \in {"rax", "rdi", "rflags"} /\ field \in {"rip", "rdi", "rflags"}
      /\ field \in Fields
    BY LayoutIs
<1>2. /\ regs' = [regs EXCEPT ![target] = ctx[cur][field]] /\ ctx[cur][field] \in Values
      /\ Follow /\ UNCHANGED <<ctx, frames, cur, op, own>>
    <2>1. CASE pc = 20
        <3>1. Instruction.do = "popfq"
            BY <2>1, CodeIs, Kinds DEF Instruction
        <3>2. regs["rax"] = ctx[cur]["rflags"] /\ ctx[cur]["rflags"] \in Values
            BY <2>1, LayoutIs DEF IInv, LoadsSoFar, Typed
        <3> QED BY <2>1, <3>1, <3>2 DEF Move, Load
    <2>2. CASE pc # 20
        <3>1. Instruction.do = "load" /\ Instruction.reg = target /\ FieldAt(Instruction.at) = field
            BY <1>0, <2>2, CodeIs, Kinds, LayoutIs DEF Instruction
        <3>2. AtNew(Instruction.at) = ctx[cur][field] /\ ctx[cur][field] \in Values
            BY <1>1, <3>1, LoadFinds
        <3> HIDE DEF target, field
        <3> QED BY <3>1, <3>2 DEF Move, Load
    <2> QED BY <2>1, <2>2
<1>3. /\ Typed' /\ TaskRuns' /\ OperandsPoint'
      /\ pc' = pc + 1 /\ pc' \in InCode /\ Old' = Old
      /\ regs'[target] = ctx[cur][field]
      /\ \A q \in Fields : q # target => regs'[q] = regs[q]
    <2>1. target \in Preserved \cup {"rsp", "rax", "rdi", "rflags"} /\ pc < 23
        BY <1>0, <1>1
    <2> HIDE DEF target, field
    <2> QED BY <1>2, <2>1, RegisterKeeps
<1>4. ASSUME NEW j \in Seven PROVE regs'[Layout[j]] = ctx'[cur'][Layout[j]]
    <2>1. Layout[j] \in Fields /\ Layout[j] # target
        BY <1>1, LayoutIs DEF Preserved
    <2>2. pc > 11 + j
        BY <1>0 DEF Seven
    <2> HIDE DEF target, field
    <2> QED BY <1>2, <1>3, <2>1, <2>2 DEF IInv, LoadsSoFar
<1>5. /\ pc' = 20 => regs'["rax"] = ctx[cur]["rflags"]
      /\ pc' > 20 => regs'["rflags"] = ctx[cur]["rflags"]
      /\ pc' > 21 => regs'["rdi"] = ctx[cur]["rdi"]
      /\ pc' = 23 => regs'["rax"] = ctx[cur]["rip"]
    BY <1>0, <1>3, LayoutIs DEF IInv, LoadsSoFar
<1>6. LoadsSoFar'
    BY <1>2, <1>3, <1>4, <1>5 DEF LoadsSoFar
<1>7. pc > 11
    OBVIOUS
<1> QED BY <1>2, <1>3, <1>6, <1>7, SavedStays DEF IInv

\* At the jump both tasks are as they should be: everybody is suspended, and the
\* registers are the context of the new one.
LEMMA AtTheJump ==
    ASSUME IInv, pc = 23
    PROVE  /\ \A t \in Tasks : Suspended(t)
           /\ regs["rsp"] = ctx[cur]["rsp"] /\ regs["rax"] = ctx[cur]["rip"]
           /\ regs["rflags"] = ctx[cur]["rflags"] /\ regs["rdi"] = ctx[cur]["rdi"]
           /\ \A r \in Preserved : regs[r] = own[cur].regs[r]
<1> USE DEF IInv
<1>1. pc \in InCode
    BY CodeIs DEF InCode
<1>2. \A j \in Seven : pc > j /\ pc > 11 + j
    BY DEF Seven
<1>3. \A r \in Preserved \cup {"rsp"} : regs[r] = ctx[cur][r] /\ ctx[Old][r] = View(Old, r)
    BY <1>1, <1>2, LayoutIs DEF SavesSoFar, LoadsSoFar
<1>4. "rsp" \notin Preserved
    BY DEF Preserved
<1>5. Suspended(Old)
    <2>1. HasReturn(Old) /\ ctx[Old]["rip"] = RESUME
        BY <1>1 DEF OperandsPoint, SavesSoFar
    <2>2. ctx[Old]["rsp"] = StackAt(Old, 1) /\ \A r \in Preserved : ctx[Old][r] = own[Old].regs[r]
        BY <1>3, <1>4 DEF View
    <2> QED BY <2>1, <2>2 DEF Suspended, Waiting
<1>6. \A t \in Tasks : Suspended(t)
    BY <1>1, <1>5 DEF OperandsPoint
<1>7. \A r \in Preserved : ctx[cur][r] = own[cur].regs[r]
    BY <1>6 DEF Suspended, Typed
<1> QED BY <1>1, <1>3, <1>6, <1>7 DEF LoadsSoFar

\* A fresh task starts at its entry point (scheduler.rs:106-134).
LEMMA EntryIInv ==
    ASSUME IInv, pc = 23, JumpToEntry PROVE IInv'
<1> USE DEF IInv
<1>1. pc' = TASK /\ pc' \notin InCode /\ UNCHANGED <<regs, ctx, frames, cur, op, own>>
    BY CodeIs DEF JumpToEntry, InCode, TASK
<1>2. Typed'
    BY <1>1 DEF Typed
<1>3. cur \in Tasks /\ Suspended(cur) /\ ctx[cur]["rip"] = ENTRY
    BY AtTheJump DEF JumpToEntry, Typed
<1>4. Unstarted(cur)
    BY <1>3, ValuesAre DEF Suspended, Waiting
<1>5. regs["rsp"] = StackAt(cur, 0) /\ frames[cur] = <<>>
    BY <1>4, AtTheJump DEF Unstarted
<1>6. \A t \in Tasks \ {cur} : Suspended(t)'
    BY <1>1, AtTheJump DEF Suspended, Unstarted, Waiting, HasReturn
<1>7. TaskRuns'
    BY <1>1, <1>5, <1>6, AtTheJump DEF TaskRuns
<1> QED BY <1>1, <1>2, <1>7 DEF OperandsPoint, SavesSoFar, LoadsSoFar

\* A task that was switched out returns from its call (scheduler.rs:594-600).
LEMMA LabelIInv ==
    ASSUME IInv, pc = 23, JumpToLabel PROVE IInv'
<1> USE DEF IInv
<1>1. cur \in Tasks /\ Suspended(cur) /\ ctx[cur]["rip"] # ENTRY
    BY AtTheJump DEF JumpToLabel, Typed
<1>2. Waiting(cur)
    BY <1>1 DEF Suspended, Unstarted
<1>3. regs["rax"] = RESUME /\ regs["rsp"] = StackAt(cur, 1)
    BY <1>2, AtTheJump DEF Waiting
<1>4. /\ regs["rsp"].kind = "stack" /\ regs["rsp"].task = cur /\ regs["rsp"].n = 1
      /\ Len(frames[cur]) = 1
    BY <1>1, <1>2, <1>3, ValuesAre DEF Waiting, HasReturn
<1>5. HasFrame /\ Frame = frames[cur][1]
    BY <1>4 DEF HasFrame, Frame
<1>6. Frame.pc = TASK /\ Frame.regs \in [Fields -> Values] /\ Frame.regs["rsp"] = StackAt(cur, 0)
    <2>1. frames[cur] \in Seq([regs : [Fields -> Values], pc : {TASK}])
        BY <1>1 DEF Typed
    <2>2. frames[cur][1] \in [regs : [Fields -> Values], pc : {TASK}]
        <3>1. 1 \in 1..Len(frames[cur])
            BY <1>4
        <3> QED BY <2>1, <3>1, ElementOfSeq
    <2> QED BY <1>2, <1>5, <2>2 DEF Waiting, HasReturn
<1>7. /\ pc' = TASK /\ UNCHANGED <<ctx, cur, op, own>>
      /\ regs' = [regs EXCEPT !["rsp"] = Frame.regs["rsp"], !["rflags"] = Frame.regs["rflags"]]
      /\ frames' = [frames EXCEPT ![cur] = SubSeq(frames[cur], 1, 0)]
    <2>1. regs["rsp"].n - 1 = 0
        BY <1>4
    <2>2. /\ pc' = Frame.pc /\ UNCHANGED <<ctx, cur, op, own>>
          /\ regs' = [regs EXCEPT !["rsp"] = Frame.regs["rsp"],
                                  !["rflags"] = Frame.regs["rflags"]]
          /\ frames' = [frames EXCEPT ![regs["rsp"].task] =
                                         SubSeq(frames[regs["rsp"].task], 1, regs["rsp"].n - 1)]
        BY <1>3, <1>5, <1>6 DEF JumpToLabel
    <2> QED BY <1>4, <1>6, <2>1, <2>2
<1>8. frames' = [frames EXCEPT ![cur] = <<>>]
    <2>1. SubSeq(frames[cur], 1, 0) = <<>>
        BY <1>1 DEF Typed
    <2> QED BY <1>7, <2>1
<1>9. pc' \notin InCode
    BY <1>7, CodeIs DEF InCode, TASK
<1>10. "rsp" \in Fields /\ "rflags" \in Fields /\
       \A r \in Preserved : r \in Fields /\ r # "rsp" /\ r # "rflags"
    BY LayoutIs DEF Preserved
<1>11. Typed'
    <2>1. regs' \in [Fields -> Values]
        <3>1. Frame.regs["rsp"] \in Values /\ Frame.regs["rflags"] \in Values
            BY <1>6, <1>10
        <3> QED BY <1>7, <3>1 DEF Typed
    <2>2. frames' \in [Tasks -> Seq([regs : [Fields -> Values], pc : {TASK}])]
        <3>1. <<>> \in Seq([regs : [Fields -> Values], pc : {TASK}])
            BY EmptySeq
        <3> QED BY <1>8, <3>1 DEF Typed
    <2> QED BY <1>7, <2>1, <2>2 DEF Typed
<1>12. regs'["rsp"] = StackAt(cur, 0) /\ \A r \in Preserved : regs'[r] = regs[r]
    BY <1>6, <1>7, <1>10 DEF Typed
<1>13. frames'[cur] = <<>> /\ \A t \in Tasks \ {cur} : frames'[t] = frames[t]
    BY <1>1, <1>8 DEF Typed
<1>14. ASSUME NEW t \in Tasks, t # cur PROVE Suspended(t)'
    <2>1. Suspended(t) /\ frames'[t] = frames[t]
        BY <1>13, <1>14, AtTheJump
    <2> QED BY <1>7, <2>1 DEF Suspended, Unstarted, Waiting, HasReturn
<1>15. TaskRuns'
    BY <1>7, <1>12, <1>13, <1>14, AtTheJump DEF TaskRuns
<1> QED BY <1>9, <1>11, <1>15 DEF OperandsPoint, SavesSoFar, LoadsSoFar
-----------------------------------------------------------------------------
\* Every step of the tasks and every instruction keeps the inductive invariant.
LEMMA NextIInv ==
    ASSUME Undisturbed PROVE IInv /\ [Next]_vars => IInv'
<1> SUFFICES ASSUME IInv, [Next]_vars PROVE IInv'
    OBVIOUS
<1>1. CASE Work
    BY <1>1, WorkIInv
<1>2. ASSUME NEW t \in Tasks, Switch(t) PROVE IInv'
    BY <1>2, SwitchIInv
<1>3. CASE Switching
    <2> USE <1>3 DEF Switching
    <2>1. CASE pc \in Seven
        <3>1. Instruction.do = "store"
            BY <2>1, CodeIs, Kinds DEF Instruction
        <3> QED BY <2>1, <3>1, SaveRegsIInv DEF Load, Move, JumpToEntry, JumpToLabel
    <2>2. CASE pc = 9 \/ pc = 11
        <3>1. Instruction.do = "store"
            BY <2>2, CodeIs, Kinds DEF Instruction
        <3> QED BY <2>2, <3>1, SaveRestIInv DEF Load, Move, JumpToEntry, JumpToLabel
    <2>3. CASE pc = 8 \/ pc = 10
        <3>1. Instruction.do \in {"lea", "pushfq"}
            BY <2>3, CodeIs, Kinds DEF Instruction
        <3> QED BY <2>3, <3>1, SaveMovesIInv DEF Store, Load, JumpToEntry, JumpToLabel
    <2>4. CASE pc - 11 \in Seven
        <3>1. PICK k \in Seven : pc = k + 11
            BY <2>4 DEF InCode
        <3>2. Instruction.do = "load"
            BY <3>1, CodeIs, Kinds DEF Instruction
        <3> QED BY <2>4, <3>2, LoadRegsIInv DEF Store, Move, JumpToEntry, JumpToLabel
    <2>5. CASE pc \in 19..22
        <3>1. Instruction.do \in {"load", "popfq"}
            <4>1. pc = 19 \/ pc = 20 \/ pc = 21 \/ pc = 22
                BY <2>5
            <4> QED BY <4>1, CodeIs, Kinds DEF Instruction
        <3> QED BY <2>5, <3>1, LoadRestIInv DEF Store, JumpToEntry, JumpToLabel
    <2>6. CASE pc = 23
        <3>1. Instruction.do = "jmp"
            BY <2>6, CodeIs, Kinds DEF Instruction
        <3> QED BY <2>6, <3>1, EntryIInv, LabelIInv DEF Store, Load, Move
    <2> QED BY <2>1, <2>2, <2>3, <2>4, <2>5, <2>6, Places
<1>4. CASE UNCHANGED vars
    <2> USE <1>4 DEF vars, IInv
    <2>1. Typed'
        BY DEF Typed
    <2>2. Old' = Old
        BY DEF Old
    <2>3. \A t \in Tasks : Suspended(t)' = Suspended(t) /\ HasReturn(t)' = HasReturn(t)
        BY DEF Suspended, Unstarted, Waiting, HasReturn
    <2>4. TaskRuns' /\ OperandsPoint'
        BY <2>2, <2>3 DEF TaskRuns, OperandsPoint
    <2>5. SavesSoFar' /\ LoadsSoFar'
        BY <2>2 DEF SavesSoFar, LoadsSoFar, View
    <2> QED BY <2>1, <2>4, <2>5
<1> QED BY <1>1, <1>2, <1>3, <1>4 DEF Next

\* The inductive invariant holds in every reachable state.
LEMMA AlwaysIInv ==
    ASSUME Undisturbed PROVE Spec => []IInv
BY InitIInv, NextIInv, PTL DEF Spec

\* Whatever the others did in between, a task finds its stack and its preserved
\* registers as it left them, and a new one its argument (scheduler.rs:539-601).
THEOREM SwitchResumesAsSuspended ==
    ASSUME Undisturbed PROVE Spec => []ResumesAsSuspended
<1>1. IInv => ResumesAsSuspended
    <2> SUFFICES ASSUME IInv PROVE ResumesAsSuspended
        OBVIOUS
    <2>1. ASSUME pc \in InCode, Instruction.do = "jmp", regs["rax"] = ENTRY
          PROVE  regs["rdi"] = Arg(cur) /\ regs["rflags"] = IF_ON
        <3>1. pc = 23
            <4>1. \A j \in Seven : Code[j].do = "store" /\ Code[j + 11].do = "load"
                BY CodeIs, Kinds
            <4> QED BY <2>1, <4>1, CodeIs, Kinds, Places DEF Instruction
        <3>2. Suspended(cur) /\ ctx[cur]["rip"] = ENTRY
            BY <2>1, <3>1, AtTheJump DEF IInv, Typed
        <3>3. Unstarted(cur)
            BY <3>2, ValuesAre DEF Suspended, Waiting
        <3> QED BY <3>1, <3>3, AtTheJump DEF Unstarted
    <2> QED BY <2>1 DEF ResumesAsSuspended, StartsWithArgument, IInv, TaskRuns
<1> QED BY <1>1, AlwaysIInv, PTL

\* Every jump goes to an entry point or to a return that has a frame
\* (scheduler.rs:590-600).
THEOREM SwitchNeverLost ==
    ASSUME Undisturbed PROVE Spec => []NeverLost
<1>1. IInv => NeverLost
    BY CodeIs DEF IInv, Typed, NeverLost, InCode, TASK, LOST
<1> QED BY <1>1, AlwaysIInv, PTL
=============================================================================
