--------------------------- MODULE ContextSwitch ----------------------------
(***************************************************************************)
(* CpuContext, the fresh context of Task::new() and the assembly of        *)
(* context_switch() in src/src/scheduler.rs, on one core.                  *)
(*                                                                         *)
(* The kernel calls context_switch() with interrupts off, from a task that *)
(* gives up the core or from the timer's handler; the handler keeps the    *)
(* registers of what it interrupted on the stack of the task.  A stack is  *)
(* the sequence of such frames, rsp names a task's stack and its depth.    *)
(***************************************************************************)
EXTENDS Integers, Sequences

CONSTANTS
    Tasks,         \* the tasks
    Boot,          \* the one that runs at first
    OperandRegs,   \* registers the compiler may choose for `old` and `new`
    MaxWork,       \* bound: how often a task changes its registers
    InWindow       \* TRUE: an interrupt may hit context_switch() itself

\* CpuContext: eight bytes for each field, in this order (repr(C)).
Layout ==
    <<"rsp", "rbp", "rbx", "r12", "r13", "r14", "r15", "rip", "rflags",
      "rax", "rcx", "rdx", "rsi", "rdi", "r8", "r9", "r10", "r11", "cs", "ss">>

Fields == {Layout[i] : i \in 1..Len(Layout)}
FieldAt(offset) == Layout[offset \div 8 + 1]

\* What the compiler takes for granted across a call, besides rsp.
Preserved == {"rbp", "rbx", "r12", "r13", "r14", "r15"}

ASSUME SwitchAssumption ==
    /\ Boot \in Tasks
    /\ OperandRegs \subseteq Fields \ {"rsp", "rax", "rdi", "rip", "rflags", "cs", "ss"}
    /\ MaxWork \in Nat
    /\ InWindow \in BOOLEAN

VARIABLES
    regs,          \* the register file; rip is pc
    pc,            \* an instruction of context_switch(), TASK or LOST
    ctx,           \* task.context
    frames,        \* what lies on the stack of each task
    cur,           \* the task the scheduler takes to be running
    op,            \* the registers of `old` and `new`, fixed by the build
    own            \* each task's view: its preserved registers and its work

vars == <<regs, pc, ctx, frames, cur, op, own>>

\* Values of registers, one shape for all of them.
Val(kind, t, n) == [kind |-> kind, task |-> t, n |-> n]
Zero == Val("number", Boot, 0)
Garbage == Val("garbage", Boot, 0)
ENTRY == Val("entry", Boot, 0)
RESUME == Val("resume", Boot, 0)
IF_ON == Val("rflags", Boot, 1)
IF_OFF == Val("rflags", Boot, 0)
StackAt(t, depth) == Val("stack", t, depth)
Pointer(t) == Val("context", t, 0)
Arg(t) == Val("arg", t, 0)
-----------------------------------------------------------------------------
\* CpuContext::zeroed().
ZeroedContext == [f \in Fields |-> Zero]

\* Task::new() and CpuContext::new_task(): the top of the task's own stack,
\* its entry point, and IF set; cs and ss, which nothing loads, are left out.
NewTask(t) ==
    [ZeroedContext EXCEPT !["rsp"] = StackAt(t, 0), !["rbp"] = StackAt(t, 0),
                          !["rip"] = ENTRY, !["rflags"] = IF_ON, !["rdi"] = Arg(t)]

\* The registers context_switch() stores and loads, at these offsets.
Stored(r, offset) == [do |-> "store", reg |-> r, at |-> offset]
Loaded(r, offset) == [do |-> "load", reg |-> r, at |-> offset]
Other(what) == [do |-> what, reg |-> "rax", at |-> 0]

\* Mutant: r15 is stored over r14.
SaveR15Over == Stored("r15", 40)

SaveR15 == Stored("r15", 48)

\* Mutant: the address of the label is stored where the flags go.
SaveRipAtFlags == Stored("rax", 64)

SaveRip == Stored("rax", 56)

\* The assembly of context_switch(); `pushfq; pop rax` and `push rax; popfq`
\* are one instruction each.
Code ==
    << Stored("rsp", 0), Stored("rbp", 8), Stored("rbx", 16), Stored("r12", 24),
       Stored("r13", 32), Stored("r14", 40), SaveR15,
       Other("lea"), SaveRip, Other("pushfq"), Stored("rax", 64),
       Loaded("rsp", 0), Loaded("rbp", 8), Loaded("rbx", 16), Loaded("r12", 24),
       Loaded("r13", 32), Loaded("r14", 40), Loaded("r15", 48),
       Loaded("rax", 64), Other("popfq"), Loaded("rdi", 104),
       Loaded("rax", 56), Other("jmp") >>

\* Values of pc: in the code of a task, nowhere, or in Code.
TASK == 0
LOST == -1
InCode == 1..Len(Code)

Init ==
    /\ regs = [f \in Fields |-> CASE f = "rsp" -> StackAt(Boot, 0)
                                  [] f = "rflags" -> IF_ON
                                  [] OTHER -> Zero]
    /\ pc = TASK
    /\ ctx = [t \in Tasks |-> IF t = Boot THEN ZeroedContext ELSE NewTask(t)]
    /\ frames = [t \in Tasks |-> <<>>]
    /\ cur = Boot
    /\ op \in {o \in [old : OperandRegs, new : OperandRegs] : o.old # o.new}
    /\ own = [t \in Tasks |->
                [work |-> 0,
                 regs |-> [r \in Preserved |-> IF t = Boot THEN Zero ELSE NewTask(t)[r]]]]
-----------------------------------------------------------------------------
(* The tasks and the kernel around them (external).                        *)

\* The task computes: its preserved registers get new values.
Work ==
    LET mine == [r \in Preserved |-> Val("number", cur, own[cur].work + 1)] IN
    /\ pc = TASK
    /\ own[cur].work < MaxWork
    /\ regs' = [f \in Fields |-> IF f \in Preserved THEN mine[f] ELSE regs[f]]
    /\ own' = [own EXCEPT ![cur] = [work |-> @.work + 1, regs |-> mine]]
    /\ UNCHANGED <<pc, ctx, frames, cur, op>>

\* A call of context_switch(&mut cur.context, &t.context), interrupts off;
\* what its return or the handler's iret needs is on the stack.
Call(t) ==
    /\ t # cur
    /\ frames' = [frames EXCEPT ![cur] = Append(@, [regs |-> regs, pc |-> pc])]
    /\ regs' = [regs EXCEPT !["rsp"] = StackAt(cur, Len(frames[cur]) + 1),
                            !["rflags"] = IF_OFF,
                            ![op.old] = Pointer(cur), ![op.new] = Pointer(t)]
    /\ cur' = t
    /\ pc' = 1
    /\ UNCHANGED <<ctx, op, own>>

\* Between two instructions of context_switch() the flag may be on again: an
\* interrupt's handler then takes the new task for the one that runs.
Interruptible == InWindow /\ pc \in InCode /\ regs["rflags"] = IF_ON

\* A task gives up the core, or the timer takes it away.
Switch(t) == (pc = TASK \/ Interruptible) /\ Call(t)
-----------------------------------------------------------------------------
(* context_switch(), instruction by instruction.                           *)

Instruction == Code[pc]
Follow == pc' = pc + 1

Store ==
    /\ Instruction.do = "store"
    /\ ctx' = [ctx EXCEPT ![regs[op.old].task][FieldAt(Instruction.at)] =
                              regs[Instruction.reg]]
    /\ Follow
    /\ UNCHANGED <<regs, frames, cur, op, own>>

\* What lies where `new` points; anything, once `new` has been overwritten.
AtNew(offset) ==
    IF regs[op.new].kind = "context" THEN ctx[regs[op.new].task][FieldAt(offset)]
                                     ELSE Garbage

Load ==
    /\ Instruction.do = "load"
    /\ regs' = [regs EXCEPT ![Instruction.reg] = AtNew(Instruction.at)]
    /\ Follow
    /\ UNCHANGED <<ctx, frames, cur, op, own>>

\* lea rax, [rip + 2f]; pushfq, pop rax; push rax, popfq.
Move ==
    /\ \/ Instruction.do = "lea" /\ regs' = [regs EXCEPT !["rax"] = RESUME]
       \/ Instruction.do = "pushfq" /\ regs' = [regs EXCEPT !["rax"] = regs["rflags"]]
       \/ Instruction.do = "popfq" /\ regs' = [regs EXCEPT !["rflags"] = regs["rax"]]
    /\ Follow
    /\ UNCHANGED <<ctx, frames, cur, op, own>>

\* jmp rax to the entry point of a task that starts.
JumpToEntry ==
    /\ Instruction.do = "jmp"
    /\ regs["rax"] = ENTRY
    /\ pc' = TASK
    /\ UNCHANGED <<regs, ctx, frames, cur, op, own>>

\* The frame a return finds, if rsp is where one was pushed.
HasFrame == regs["rsp"].kind = "stack" /\ regs["rsp"].n \in 1..Len(frames[regs["rsp"].task])
Frame == frames[regs["rsp"].task][regs["rsp"].n]

\* jmp rax to the label: context_switch() returns.  A caller that is a task
\* goes on with the registers it finds; an interrupted context_switch() gets
\* all of its own back from the handler.  With nothing on the stack, or with
\* anything else in rax, the core executes whatever is there.
JumpToLabel ==
    /\ Instruction.do = "jmp"
    /\ regs["rax"] # ENTRY
    /\ IF regs["rax"] = RESUME /\ HasFrame
       THEN /\ pc' = Frame.pc
            /\ regs' = IF Frame.pc = TASK
                       THEN [regs EXCEPT !["rsp"] = Frame.regs["rsp"],
                                         !["rflags"] = Frame.regs["rflags"]]
                       ELSE Frame.regs
            /\ frames' = [frames EXCEPT ![regs["rsp"].task] = SubSeq(@, 1, regs["rsp"].n - 1)]
       ELSE pc' = LOST /\ UNCHANGED <<regs, frames>>
    /\ UNCHANGED <<ctx, cur, op, own>>

Switching ==
    /\ pc \in InCode
    /\ Store \/ Load \/ Move \/ JumpToEntry \/ JumpToLabel
-----------------------------------------------------------------------------
Next == Work \/ Switching \/ \E t \in Tasks : Switch(t)

Spec == Init /\ [][Next]_vars
-----------------------------------------------------------------------------
Values ==
    [kind : {"number", "garbage", "entry", "resume", "rflags", "stack", "context", "arg"},
     task : Tasks, n : Nat]

\* Registers and contexts hold values, and a stack never holds more than the
\* frame of the one switch its task is in.
TypeOK ==
    /\ regs \in [Fields -> Values]
    /\ pc \in InCode \cup {TASK, LOST}
    /\ ctx \in [Tasks -> [Fields -> Values]]
    /\ \A t \in Tasks : Len(frames[t]) <= 1
    /\ cur \in Tasks

\* "arg -- argument passed in rdi" (scheduler.rs:115): a task that starts gets its
\* own argument, and runs with interrupts on.
StartsWithArgument ==
    pc \in InCode /\ Instruction.do = "jmp" /\ regs["rax"] = ENTRY =>
        regs["rdi"] = Arg(cur) /\ regs["rflags"] = IF_ON

\* "Saves the current CPU state into `old` and restores from `new`"
\* (scheduler.rs:539): whatever the other tasks did in between, a task finds the
\* stack and the preserved registers it left, or starts from its fresh context,
\* with its own argument.
ResumesAsSuspended ==
    /\ StartsWithArgument
    /\ pc = TASK =>
          /\ regs["rsp"] = StackAt(cur, 0)
          /\ frames[cur] = <<>>
          /\ \A r \in Preserved : regs[r] = own[cur].regs[r]

\* The core never leaves the tasks and context_switch(): every jump goes to an
\* entry point or to a return that has a frame.
NeverLost == pc # LOST
=============================================================================
