------------------------------- MODULE IoApic -------------------------------
(***************************************************************************)
(* The I/O APICs of src/src/ioapic.rs, with the calls of                   *)
(* src/src/driver.rs that set them up and route interrupts.                *)
(*                                                                         *)
(* Registers are reached through a pair, IOREGSEL and IOWIN: every access  *)
(* is two steps, and an entry of the redirection table is two registers.   *)
(* The code has no lock around them; with Serialised its callers see to it *)
(* that no two of them use one chip at the same time.                      *)
(***************************************************************************)
EXTENDS Integers, Sequences

CONSTANTS
    Callers,       \* threads that hold the controller
    Chips,         \* the MADT's I/O APICs: gsi_base, and max_redir of IOAPICVER
    ApicIds,       \* the apic_id of the registered cores
    Vectors,       \* vectors interrupts are routed to
    Firmware,      \* low words the firmware may have left in the table
    NoCall,
    Serialised     \* TRUE: callers keep off a chip that is in use

U8 == 256                \* u8 arithmetic wraps here
REG_IOAPICVER == 1       \* the version register
REG_REDTBL_BASE == 16    \* first register of the redirection table
MASKED == 65536          \* bit 16 of the low word
DEST == 16777216         \* the destination is in the top byte of the high word

ChipIds == 1..Len(Chips)
GsiBase(k) == Chips[k].gsi_base

\* IoApic::new(): a u8, one more than the version register says.
MaxEntries(k) == (Chips[k].max_redir + 1) % U8

Pins(k) == 0..(MaxEntries(k) - 1)

\* Mutant: entries are one register apart.
RegBaseOne(pin) == (REG_REDTBL_BASE + pin) % U8

\* The low register of an entry; the high one is next to it.
RegBase(pin) == (REG_REDTBL_BASE + pin * 2) % U8

\* The chip's side of it: where an entry really is, and all of them.
EntryReg(pin) == REG_REDTBL_BASE + 2 * pin
TableRegs(k) == REG_REDTBL_BASE..(REG_REDTBL_BASE + 2 * MaxEntries(k) - 1)

\* The interrupts of all chips, and where each of them is connected.
PinsOfGsi(g) == {<<k, g - GsiBase(k)>> : k \in {j \in ChipIds : g - GsiBase(j) \in Pins(j)}}
Gsis == UNION {{GsiBase(k) + i : i \in Pins(k)} : k \in ChipIds}
PinOf == [g \in Gsis |-> CHOOSE at \in PinsOfGsi(g) : TRUE]

\* What a caller may ask for.
Requests ==
    [op : {"route"}, gsi : Gsis, vector : Vectors, dest : ApicIds] \cup
    [op : {"mask", "unmask"}, gsi : Gsis] \cup [op : {"mask_all"}]

\* There is a chip, an entry's register number fits u8, interrupts have one
\* chip, APIC IDs fit the destination byte, and the firmware's vectors can be
\* told from ours.
ASSUME IoApicAssumption ==
    /\ Chips \in Seq([gsi_base : Nat, max_redir : Nat]) /\ Chips # <<>>
    /\ \A k \in ChipIds : Chips[k].max_redir < (U8 - REG_REDTBL_BASE) \div 2
    /\ \A g \in Gsis : \A at, other \in PinsOfGsi(g) : at = other
    /\ ApicIds \subseteq 0..(U8 - 1)
    /\ Vectors \subseteq 1..(U8 - 1)
    /\ Firmware \subseteq Nat /\ \A low \in Firmware : low % U8 \notin Vectors
    /\ NoCall \notin Requests
    /\ Serialised \in BOOLEAN

VARIABLES
    regs,          \* the table registers of each chip
    regsel,        \* IOREGSEL of each chip
    managed,       \* chips in the IoApicManager
    req,           \* the call each caller is in, with its arguments
    pc,            \* where the call is
    chip, irq,     \* the chip and pin it is at
    half,          \* 0 for the low register of the entry, 1 for the high one
    entry          \* the RedirectionEntry it has in hand

callVars == <<req, pc, chip, irq, half, entry>>
vars == <<regs, regsel, managed, callVars>>
-----------------------------------------------------------------------------
(* RedirectionEntry, as its two words                                      *)

\* RedirectionEntry::simple(): fixed, physical, edge, active high, unmasked.
Simple(vector, dest) == [low |-> vector, high |-> (dest % U8) * DEST]

\* RedirectionEntry::masked().
MaskedEntry == [low |-> MASKED, high |-> 0]

IsMasked(e) == (e.low \div MASKED) % 2 = 1

\* Mutant: masking writes the masked() entry.
SetMaskedBlank(e, mask) == IF mask THEN MaskedEntry ELSE [e EXCEPT !.low = @ % MASKED]

\* set_masked(): one bit, whatever the others are.
SetMasked(e, mask) ==
    [e EXCEPT !.low = @ - (IF IsMasked(e) THEN MASKED ELSE 0) + (IF mask THEN MASKED ELSE 0)]

\* vector(), destination() and is_masked().
Decode(e) == [vector |-> e.low % U8, dest |-> (e.high \div DEST) % U8, masked |-> IsMasked(e)]

\* The table as the firmware left it; IoApic::new() has read the version.
Init ==
    /\ regs \in [ChipIds -> UNION {[TableRegs(k) -> Firmware \cup {0}] : k \in ChipIds}]
    /\ \A k \in ChipIds :
          /\ DOMAIN regs[k] = TableRegs(k)
          /\ \A i \in Pins(k) : regs[k][EntryReg(i)] \in Firmware /\ regs[k][EntryReg(i) + 1] = 0
    /\ regsel = [k \in ChipIds |-> REG_IOAPICVER]
    /\ managed = 0
    /\ req = [p \in Callers |-> NoCall]
    /\ pc = [p \in Callers |-> "idle"]
    /\ chip = [p \in Callers |-> 1]
    /\ irq = [p \in Callers |-> 0]
    /\ half = [p \in Callers |-> 0]
    /\ entry = [p \in Callers |-> MaskedEntry]
-----------------------------------------------------------------------------
(* Calls                                                                   *)

ChipsOf(r) == IF r.op = "mask_all" THEN ChipIds ELSE {PinOf[r.gsi][1]}

\* The caller is in call r, at a chip and a pin, with an entry.
Enter(p, r, label, k, i, e) ==
    /\ pc[p] = "idle"
    /\ req' = [req EXCEPT ![p] = r]
    /\ pc' = [pc EXCEPT ![p] = label]
    /\ chip' = [chip EXCEPT ![p] = k]
    /\ irq' = [irq EXCEPT ![p] = i]
    /\ half' = [half EXCEPT ![p] = 0]
    /\ entry' = [entry EXCEPT ![p] = e]
    /\ UNCHANGED <<regs, regsel, managed>>

\* init() has returned: the controller is shared.
Shared == managed = Len(Chips)

\* find_for_gsi(): the first chip whose range has the interrupt.
FindForGsi(g) ==
    {k \in 1..managed : /\ g >= GsiBase(k) /\ g < GsiBase(k) + MaxEntries(k)
                        /\ \A j \in 1..(k - 1) : g < GsiBase(j) \/ g >= GsiBase(j) + MaxEntries(j)}

\* init_io_apics(): mask_all() on each chip before it is added.
InitIoApics(p) ==
    /\ managed = 0
    /\ \A q \in Callers : pc[q] = "idle"
    /\ Enter(p, [op |-> "mask_all"], "write_select", 1, 0, MaskedEntry)

\* route_gsi() and route_irq() of the chip; with no chip for the interrupt
\* nothing happens.
RouteGsi(p, g, vector, dest) ==
    \E k \in FindForGsi(g) :
        Enter(p, [op |-> "route", gsi |-> g, vector |-> vector, dest |-> dest],
              "write_select", k, (g - GsiBase(k)) % U8, Simple(vector, dest))

\* SmpController::route_irq(), for a core that is registered.
RouteIrq(p, g, vector, apic_id) ==
    /\ Shared
    /\ RouteGsi(p, g, vector, apic_id % U8)

\* mask_irq() and unmask_irq() of the chip find_for_gsi() returned.
MaskIrq(p, g, op) ==
    /\ Shared
    /\ \E k \in FindForGsi(g) :
          Enter(p, [op |-> op, gsi |-> g], "read_select", k, (g - GsiBase(k)) % U8, MaskedEntry)

\* IoApicManager::mask_all().
MaskAll(p) ==
    /\ Shared
    /\ Enter(p, [op |-> "mask_all"], "write_select", 1, 0, MaskedEntry)
-----------------------------------------------------------------------------
(* Register accesses                                                       *)

Register(p) == (RegBase(irq[p]) + half[p]) % U8
Word(p) == IF half[p] = 0 THEN entry[p].low ELSE entry[p].high

Goto(p, label) == pc' = [pc EXCEPT ![p] = label]

\* read_reg() and write_reg(): the write to IOREGSEL.
Select(p) ==
    /\ pc[p] \in {"read_select", "write_select"}
    /\ regsel' = [regsel EXCEPT ![chip[p]] = Register(p)]
    /\ Goto(p, IF pc[p] = "read_select" THEN "read_window" ELSE "write_window")
    /\ UNCHANGED <<regs, managed, req, chip, irq, half, entry>>

\* read_redirection(): the read of IOWIN.
ReadLow(p) ==
    /\ pc[p] = "read_window"
    /\ half[p] = 0
    /\ entry' = [entry EXCEPT ![p].low = regs[chip[p]][regsel[chip[p]]]]
    /\ half' = [half EXCEPT ![p] = 1]
    /\ Goto(p, "read_select")
    /\ UNCHANGED <<regs, regsel, managed, req, chip, irq>>

\* ... of the high half, and set_masked() on the whole.
ReadHigh(p) ==
    /\ pc[p] = "read_window"
    /\ half[p] = 1
    /\ entry' = [entry EXCEPT ![p] =
                    SetMasked([@ EXCEPT !.high = regs[chip[p]][regsel[chip[p]]]],
                              req[p].op = "mask")]
    /\ half' = [half EXCEPT ![p] = 0]
    /\ Goto(p, "write_select")
    /\ UNCHANGED <<regs, regsel, managed, req, chip, irq>>

WriteWindow(p) ==
    /\ pc[p] = "write_window"
    /\ regs' = [regs EXCEPT ![chip[p]][regsel[chip[p]]] = Word(p)]

\* write_redirection(): the low half goes first.
WriteLow(p) ==
    /\ half[p] = 0
    /\ WriteWindow(p)
    /\ half' = [half EXCEPT ![p] = 1]
    /\ Goto(p, "write_select")
    /\ UNCHANGED <<regsel, managed, req, chip, irq, entry>>

\* Mutant: the loop of mask_all() ends one pin early.
HasNextPinEarly(p) == req[p].op = "mask_all" /\ irq[p] + 2 < MaxEntries(chip[p])

\* The loops of mask_all(): over the pins of a chip, over the chips.
HasNextPin(p) == req[p].op = "mask_all" /\ irq[p] + 1 < MaxEntries(chip[p])
HasNextChip(p) == req[p].op = "mask_all" /\ chip[p] < Len(Chips)

\* A chip init_io_apics() is done with is added.
Added(p) == IF req[p].op = "mask_all" /\ managed < chip[p] THEN chip[p] ELSE managed

\* The locals of a call die with it.
Forget(p) ==
    /\ chip' = [chip EXCEPT ![p] = 1]
    /\ irq' = [irq EXCEPT ![p] = 0]
    /\ entry' = [entry EXCEPT ![p] = MaskedEntry]

\* write_redirection(): the high half, and what comes after the call.
WriteHigh(p) ==
    /\ half[p] = 1
    /\ WriteWindow(p)
    /\ half' = [half EXCEPT ![p] = 0]
    /\ \/ /\ HasNextPin(p)
          /\ irq' = [irq EXCEPT ![p] = @ + 1]
          /\ Goto(p, "write_select")
          /\ UNCHANGED <<chip, managed, req, entry>>
       \/ /\ ~HasNextPin(p)
          /\ HasNextChip(p)
          /\ irq' = [irq EXCEPT ![p] = 0]
          /\ chip' = [chip EXCEPT ![p] = @ + 1]
          /\ managed' = Added(p)
          /\ Goto(p, "write_select")
          /\ UNCHANGED <<req, entry>>
       \/ /\ ~HasNextPin(p)
          /\ ~HasNextChip(p)
          /\ managed' = Added(p)
          /\ req' = [req EXCEPT ![p] = NoCall]
          /\ Goto(p, "idle")
          /\ Forget(p)
    /\ UNCHANGED regsel
-----------------------------------------------------------------------------
Access(p) == Select(p) \/ ReadLow(p) \/ ReadHigh(p) \/ WriteLow(p) \/ WriteHigh(p)

Call(p) ==
    \/ InitIoApics(p)
    \/ MaskAll(p)
    \/ \E g \in Gsis :
          \/ \E op \in {"mask", "unmask"} : MaskIrq(p, g, op)
          \/ \E vector \in Vectors, dest \in ApicIds : RouteIrq(p, g, vector, dest)

\* Nothing in the drivers, a rule for those who call them: with Serialised, a call
\* begins when no other one uses a chip that it needs.
CallersTakeTurns(p) ==
    Serialised => \A q \in Callers \ {p} :
                     req[q] # NoCall => ChipsOf(req[q]) \cap ChipsOf(req'[p]) = {}

Next == \E p \in Callers : Access(p) \/ (Call(p) /\ CallersTakeTurns(p))

Spec == Init /\ [][Next]_vars
-----------------------------------------------------------------------------
\* Calls are at a pin their chip has, and IOREGSEL never leaves the table.
TypeOK ==
    /\ \A k \in ChipIds : regs[k] \in [TableRegs(k) -> Nat]
    /\ \A k \in ChipIds : regsel[k] \in TableRegs(k) \cup {REG_IOAPICVER}
    /\ managed \in 0..Len(Chips)
    /\ req \in [Callers -> Requests \cup {NoCall}]
    /\ pc \in [Callers -> {"idle", "read_select", "read_window", "write_select", "write_window"}]
    /\ chip \in [Callers -> ChipIds]
    /\ \A p \in Callers : irq[p] \in Pins(chip[p])
    /\ half \in [Callers -> 0..1]
    /\ entry \in [Callers -> [low : Nat, high : Nat]]

\* What a device on an interrupt line meets at this moment.
Line(g) ==
    LET k == PinOf[g][1]
        r == EntryReg(PinOf[g][2])
    IN  Decode([low |-> regs[k][r], high |-> regs[k][r + 1]])

\* "all IRQs masked" (driver.rs:270): after init() nothing the firmware left in
\* the table can deliver an interrupt, on any pin of any chip.
FirmwareIsGone ==
    Shared => \A g \in Gsis, low \in Firmware :
                 low % U8 # 0 => Line(g).vector # low % U8

\* "Mask (disable) an IRQ pin" (ioapic.rs:311): no line is unmasked, not even between
\* the two halves of another call's write, but by a call that asks for it.
UnmasksOnlyWhenAsked ==
    [][\A g \in Gsis : Line(g).masked /\ ~Line(g)'.masked =>
          \E p \in Callers : /\ req[p] # NoCall
                             /\ req[p].op \in {"route", "unmask"}
                             /\ req[p].gsi = g]_vars

\* Caller p has written the low half of the entry it is at, and not the high one.
HalfWritten(p) == pc[p] \in {"write_select", "write_window"} /\ half[p] = 1

At(p) == GsiBase(chip[p]) + irq[p]

\* An entry counts as changed from the write of its low half on.
Table ==
    [g \in Gsis |-> IF \E p \in Callers : HalfWritten(p) /\ At(p) = g
                    THEN Decode(entry[CHOOSE p \in Callers : HalfWritten(p) /\ At(p) = g])
                    ELSE Line(g)]

\* The interrupts a call has not come to yet.
Todo(p) ==
    CASE req[p] = NoCall -> {}
      [] req[p] # NoCall /\ req[p].op = "mask_all" ->
            {g \in Gsis :
                \/ PinOf[g][1] > chip[p]
                \/ PinOf[g][1] = chip[p] /\ PinOf[g][2] > irq[p]
                \/ PinOf[g] = <<chip[p], irq[p]>> /\ ~HalfWritten(p)}
      [] OTHER -> IF HalfWritten(p) THEN {} ELSE {req[p].gsi}

Routing == INSTANCE RoutingTable WITH
    table <- Table, call <- req, todo <- [p \in Callers |-> Todo(p)]

\* The select and window accesses, the two halves and the read-modify-writes of
\* all callers amount to a table whose entries change one at a time, each to
\* what the call asked for.
ImplementsRoutingTable == Routing!Spec
=============================================================================
