---------------------------- MODULE IoApicProofs ----------------------------
(***************************************************************************)
(* IoApic for any number of chips, pins, callers and interrupts: what      *)
(* init() leaves of the firmware's table, what may unmask a line, and that *)
(* serialised calls amount to RoutingTable.                                *)
(***************************************************************************)
EXTENDS IoApic, TLAPS

(* The inductive invariant, part by part.                                  *)

Windows == {"read_window", "write_window"}
Reading == {"read_select", "read_window"}
Writing == {"write_select", "write_window"}

\* TypeOK, and there are registers for every chip and a pin for every caller.
Typed ==
    /\ TypeOK
    /\ regs = [k \in ChipIds |-> regs[k]]
    /\ regsel \in [ChipIds -> Nat]
    /\ irq \in [Callers -> Nat]

\* A caller is in a call or idle, at the pin it asked for, and a loop over all
\* pins is writing masked().
CallsAreInOrder ==
    \A p \in Callers :
        /\ pc[p] = "idle" <=> req[p] = NoCall
        /\ pc[p] \in Reading => req[p].op \in {"mask", "unmask"}
        /\ req[p] # NoCall /\ req[p].op # "mask_all" => PinOf[req[p].gsi] = <<chip[p], irq[p]>>
        /\ pc[p] \in Writing /\ req[p].op \in {"mask", "mask_all"} => IsMasked(entry[p])

\* Before init() returns one caller at most is in a call: mask_all(), of the
\* chip that is added next.
InitIsAlone ==
    ~Shared => \A p \in Callers :
        pc[p] # "idle" => /\ req[p].op = "mask_all"
                          /\ managed = chip[p] - 1
                          /\ \A q \in Callers \ {p} : pc[q] = "idle"

\* Calls that are serialised have no chip in common.
CallsAreApart ==
    Serialised => \A p, q \in Callers :
        p # q /\ req[p] # NoCall /\ req[q] # NoCall => ChipsOf(req[p]) \cap ChipsOf(req[q]) = {}

\* A window access uses a register of the table, and the one its caller selected
\* if nobody could interfere.
SelectedIsThere ==
    \A p \in Callers : pc[p] \in Windows =>
        /\ regsel[chip[p]] \in TableRegs(chip[p])
        /\ Serialised \/ ~Shared => regsel[chip[p]] = Register(p)

\* Words whose vector is one of ours, or none.
Clean(w) == w % U8 \in Vectors \cup {0}

\* Callers hold such words only, a chip that has been added has no others, and the
\* chip that is being masked has none behind the loop.
TableIsClean ==
    /\ \A p \in Callers : Clean(entry[p].low) /\ Clean(entry[p].high)
    /\ \A k \in 1..managed : \A r \in TableRegs(k) : Clean(regs[k][r])
    /\ ~Shared => \A p \in Callers : pc[p] # "idle" =>
          \A r \in TableRegs(chip[p]) :
             r < EntryReg(irq[p]) + half[p] => Clean(regs[chip[p]][r])

IInv ==
    /\ Typed
    /\ CallsAreInOrder
    /\ InitIsAlone
    /\ CallsAreApart
    /\ SelectedIsThere
    /\ TableIsClean
-----------------------------------------------------------------------------
(* Facts about the constants and the operators                             *)

\* A chip has 1 to 120 entries, so that u8 arithmetic on its pins and registers
\* does not wrap (ioapic.rs:164-189).
LEMMA ChipFacts ==
    \A k \in ChipIds :
        /\ GsiBase(k) \in Nat
        /\ MaxEntries(k) \in 1..120
        /\ Pins(k) \subseteq 0..119 /\ 0 \in Pins(k)
<1> TAKE k \in ChipIds
<1> DEFINE Infos == [gsi_base : Nat, max_redir : Nat]
<1>0. Chips \in Seq(Infos) /\ k \in 1..Len(Chips)
    BY IoApicAssumption DEF ChipIds
<1> HIDE DEF Infos
<1>a. Chips[k] \in Infos
    BY <1>0
<1>1. Chips[k] \in [gsi_base : Nat, max_redir : Nat]
    BY <1>a DEF Infos
<1>2. Chips[k].max_redir < 120
    BY IoApicAssumption, (256 - 16) \div 2 = 120 DEF U8, REG_REDTBL_BASE
<1>3. GsiBase(k) \in Nat /\ MaxEntries(k) \in 1..120
    BY <1>1, <1>2 DEF GsiBase, MaxEntries, U8
<1> QED BY <1>3 DEF Pins

\* There is a first chip and a last one.
LEMMA ChipRange ==
    /\ Len(Chips) \in Nat \ {0} /\ ChipIds = 1..Len(Chips) /\ 1 \in ChipIds
    /\ \A k \in ChipIds : k \in Nat /\ k <= Len(Chips)
<1>1. Len(Chips) \in Nat \ {0} /\ ChipIds = 1..Len(Chips) /\ 1 \in ChipIds
    BY IoApicAssumption DEF ChipIds
<1>2. \A n \in Nat : \A k \in 1..n : k \in Nat /\ k <= n
    OBVIOUS
<1> QED BY <1>1, <1>2, Zenon

\* The register the code computes for half of an entry is the one the chip has
\* there (ioapic.rs:258-260).
LEMMA RegFacts ==
    \A k \in ChipIds : \A i \in Pins(k) : \A h \in 0..1 :
        /\ (RegBase(i) + h) % U8 = EntryReg(i) + h
        /\ EntryReg(i) + h \in TableRegs(k)
BY ChipFacts DEF RegBase, EntryReg, TableRegs, Pins, U8, REG_REDTBL_BASE

\* The low register of an entry is not the high one of another.
LEMMA LowIsLow ==
    \A i, j \in 0..119 : \A h \in 0..1 : EntryReg(i) = EntryReg(j) + h => i = j /\ h = 0
BY DEF EntryReg, REG_REDTBL_BASE

\* A byte is not changed by its width.
LEMMA Bytes == \A n \in 0..(U8 - 1) : n % U8 = n
BY DEF U8

\* Every interrupt has one pin, and every pin one interrupt.
LEMMA PinFacts ==
    /\ \A g \in Gsis : \E k \in ChipIds : \E i \in Pins(k) :
          PinOf[g] = <<k, i>> /\ g = GsiBase(k) + i
    /\ \A k \in ChipIds : \A i \in Pins(k) :
          GsiBase(k) + i \in Gsis /\ PinOf[GsiBase(k) + i] = <<k, i>>
<1>1. ASSUME NEW g \in Gsis PROVE PinsOfGsi(g) # {}
    <2>1. PICK k \in ChipIds : \E i \in Pins(k) : g = GsiBase(k) + i
        BY DEF Gsis
    <2>2. g - GsiBase(k) \in Pins(k)
        BY <2>1, ChipFacts
    <2> QED BY <2>2 DEF PinsOfGsi
<1>2. \A g \in Gsis : PinOf[g] \in PinsOfGsi(g)
    BY <1>1 DEF PinOf
<1>3. \A g \in Gsis : g \in Nat
    BY ChipFacts DEF Gsis, Pins
<1>4. \A g \in Gsis : \E k \in ChipIds : \E i \in Pins(k) :
          PinOf[g] = <<k, i>> /\ g = GsiBase(k) + i
    BY <1>2, <1>3, ChipFacts DEF PinsOfGsi
<1>5. ASSUME NEW k \in ChipIds, NEW i \in Pins(k)
      PROVE  GsiBase(k) + i \in Gsis /\ PinOf[GsiBase(k) + i] = <<k, i>>
    <2> DEFINE g == GsiBase(k) + i
    <2>1. g \in Gsis
        BY DEF Gsis
    <2>2. g - GsiBase(k) = i
        BY ChipFacts
    <2>3. <<k, i>> \in PinsOfGsi(g)
        BY <2>2 DEF PinsOfGsi
    <2>4. PinOf[g] \in PinsOfGsi(g)
        BY <1>2, <2>1
    <2> QED BY <2>1, <2>3, <2>4, IoApicAssumption
<1> QED BY <1>4, <1>5

\* The shapes of requests.
LEMMA RequestFacts ==
    \A r \in Requests :
        /\ r # NoCall
        /\ r.op \in {"route", "mask", "unmask", "mask_all"}
        /\ r.op # "mask_all" => r.gsi \in Gsis
        /\ ChipsOf(r) \subseteq ChipIds
<1> TAKE r \in Requests
<1>1. r # NoCall
    BY IoApicAssumption
<1>2. r.op \in {"route", "mask", "unmask", "mask_all"} /\ (r.op # "mask_all" => r.gsi \in Gsis)
    BY DEF Requests
<1>3. ChipsOf(r) \subseteq ChipIds
    BY <1>2, PinFacts DEF ChipsOf
<1> QED BY <1>1, <1>2, <1>3

\* find_for_gsi() returns the chip the interrupt is connected to, and the
\* difference it is called with is the pin (ioapic.rs:366-371).
LEMMA FindFacts ==
    ASSUME managed \in 0..Len(Chips), NEW g \in Gsis, NEW k \in FindForGsi(g)
    PROVE  /\ k \in ChipIds
           /\ (g - GsiBase(k)) % U8 = g - GsiBase(k)
           /\ g - GsiBase(k) \in Pins(k)
           /\ PinOf[g] = <<k, g - GsiBase(k)>>
<1>1. k \in ChipIds /\ g >= GsiBase(k) /\ g < GsiBase(k) + MaxEntries(k)
    BY ChipRange DEF FindForGsi
<1>2. g \in Nat
    BY ChipFacts DEF Gsis, Pins
<1>3. g - GsiBase(k) \in Pins(k) /\ (g - GsiBase(k)) % U8 = g - GsiBase(k)
    <2>1. \A b, n \in Nat : \A m \in 1..120 :
              n >= b /\ n < b + m => n - b \in 0..(U8 - 1) /\ n - b \in 0..(m - 1)
        BY DEF U8
    <2>2. g - GsiBase(k) \in 0..(U8 - 1) /\ g - GsiBase(k) \in 0..(MaxEntries(k) - 1)
        BY <1>1, <1>2, <2>1, ChipFacts
    <2> QED BY <2>2, Bytes DEF Pins
<1>4. GsiBase(k) + (g - GsiBase(k)) = g
    BY <1>1, <1>2, ChipFacts
<1> QED BY <1>1, <1>3, <1>4, PinFacts

\* Setting or clearing bit 16 gives a word with or without it, and the same
\* low byte (ioapic.rs:135-142).
LEMMA MaskBit ==
    \A n \in Nat :
        /\ (n \div MASKED) % 2 = 1 => /\ n - MASKED \in Nat
                                     /\ ((n - MASKED) \div MASKED) % 2 = 0
                                     /\ (n - MASKED) % U8 = n % U8
        /\ (n \div MASKED) % 2 # 1 => /\ ((n + MASKED) \div MASKED) % 2 = 1
                                     /\ (n + MASKED) % U8 = n % U8
BY DEF MASKED, U8

\* set_masked() on an entry (ioapic.rs:135-142).
LEMMA SetMaskedFacts ==
    ASSUME NEW e \in [low : Nat, high : Nat], NEW mask \in BOOLEAN
    PROVE  /\ SetMasked(e, mask) \in [low : Nat, high : Nat]
           /\ IsMasked(SetMasked(e, mask)) <=> mask
           /\ SetMasked(e, mask).low % U8 = e.low % U8
           /\ SetMasked(e, mask).high = e.high
<1> DEFINE low == e.low - (IF IsMasked(e) THEN MASKED ELSE 0) + (IF mask THEN MASKED ELSE 0)
<1>1. low \in Nat /\ ((low \div MASKED) % 2 = 1 <=> mask) /\ low % U8 = e.low % U8
    BY MaskBit DEF IsMasked, MASKED
<1>2. SetMasked(e, mask) = [e EXCEPT !.low = low]
    BY DEF SetMasked
<1> HIDE DEF low
<1> QED BY <1>1, <1>2 DEF IsMasked
-----------------------------------------------------------------------------
(* What holds of a caller in a call                                        *)

Entries == [low : Nat, high : Nat]

\* The types of a call's parts, and the register it is at.
LEMMA CallFacts ==
    ASSUME IInv, NEW p \in Callers
    PROVE  /\ chip[p] \in ChipIds /\ irq[p] \in Pins(chip[p]) /\ irq[p] \in 0..119
           /\ half[p] \in 0..1 /\ entry[p] \in Entries
           /\ Register(p) = EntryReg(irq[p]) + half[p]
           /\ Register(p) \in TableRegs(chip[p]) /\ Register(p) \in Nat
           /\ Word(p) \in Nat /\ Clean(Word(p))
<1>1. /\ chip[p] \in ChipIds /\ irq[p] \in Pins(chip[p]) /\ half[p] \in 0..1
      /\ entry[p] \in Entries
    BY DEF IInv, Typed, TypeOK, Entries
<1>2. irq[p] \in 0..119
    BY <1>1, ChipFacts
<1>3. Register(p) = EntryReg(irq[p]) + half[p] /\ Register(p) \in TableRegs(chip[p])
    BY <1>1, RegFacts DEF Register
<1>4. Register(p) \in Nat
    BY <1>1, <1>2, <1>3 DEF EntryReg, REG_REDTBL_BASE
<1>5. Word(p) \in Nat /\ Clean(Word(p))
    BY <1>1 DEF Word, Entries, IInv, TableIsClean
<1> QED BY <1>1, <1>2, <1>3, <1>4, <1>5

\* A call is at one of its chips.
LEMMA AtItsChip ==
    ASSUME IInv, NEW p \in Callers, req[p] # NoCall
    PROVE  req[p] \in Requests /\ chip[p] \in ChipsOf(req[p])
<1>1. req[p] \in Requests /\ chip[p] \in ChipIds
    BY DEF IInv, Typed, TypeOK
<1>2. req[p].op # "mask_all" => PinOf[req[p].gsi] = <<chip[p], irq[p]>>
    BY DEF IInv, CallsAreInOrder
<1> QED BY <1>1, <1>2 DEF ChipsOf

\* While init() runs, or with callers serialised, no two calls are at one chip.
LEMMA ChipsApart ==
    ASSUME IInv, NEW p \in Callers, NEW q \in Callers, p # q,
           req[p] # NoCall, req[q] # NoCall, Serialised \/ ~Shared
    PROVE  chip[p] # chip[q]
<1>1. pc[p] # "idle" /\ pc[q] # "idle"
    BY DEF IInv, CallsAreInOrder
<1>2. CASE ~Shared
    BY <1>1, <1>2 DEF IInv, InitIsAlone
<1>3. CASE Serialised
    BY <1>3, AtItsChip DEF IInv, CallsAreApart
<1> QED BY <1>2, <1>3
-----------------------------------------------------------------------------
(* The steps keep the invariant                                            *)

\* The write to IOREGSEL (ioapic.rs:195-209).
LEMMA SelectKept ==
    ASSUME IInv, NEW p \in Callers, Select(p)
    PROVE  IInv'
<1> USE DEF Select, Goto
<1>1. /\ pc[p] \in {"read_select", "write_select"}
      /\ pc' = [pc EXCEPT ![p] = IF pc[p] = "read_select" THEN "read_window" ELSE "write_window"]
      /\ regsel' = [regsel EXCEPT ![chip[p]] = Register(p)]
      /\ UNCHANGED <<regs, managed, req, chip, irq, half, entry>>
    OBVIOUS
<1>2. pc \in [Callers -> {"idle", "read_select", "read_window", "write_select", "write_window"}]
    BY DEF IInv, Typed, TypeOK
<1>3. \A q \in Callers : /\ pc'[q] = "idle" <=> pc[q] = "idle"
                         /\ pc'[q] \in Reading <=> pc[q] \in Reading
                         /\ pc'[q] \in Writing <=> pc[q] \in Writing
                         /\ q # p => pc'[q] = pc[q]
    BY <1>1, <1>2 DEF Reading, Writing
<1>4. Typed'
    <2>1. chip[p] \in ChipIds /\ Register(p) \in TableRegs(chip[p]) /\ Register(p) \in Nat
        BY CallFacts
    <2>2. regsel' \in [ChipIds -> Nat]
        BY <1>1, <2>1 DEF IInv, Typed
    <2>3. \A k \in ChipIds : regsel'[k] \in TableRegs(k) \cup {REG_IOAPICVER}
        BY <1>1, <2>1 DEF IInv, Typed, TypeOK
    <2>4. pc' \in [Callers -> {"idle", "read_select", "read_window", "write_select", "write_window"}]
        BY <1>1, <1>2
    <2> QED BY <1>1, <2>2, <2>3, <2>4 DEF IInv, Typed, TypeOK
<1>5. CallsAreInOrder'
    BY <1>1, <1>3 DEF IInv, CallsAreInOrder
<1>6. InitIsAlone' /\ CallsAreApart' /\ TableIsClean'
    BY <1>1, <1>3 DEF IInv, InitIsAlone, CallsAreApart, TableIsClean, Shared
<1>7. SelectedIsThere'
    <2> SUFFICES ASSUME NEW q \in Callers, pc'[q] \in Windows
                 PROVE  /\ regsel'[chip[q]] \in TableRegs(chip[q])
                        /\ Serialised \/ ~Shared => regsel'[chip[q]] = Register(q)
        BY <1>1 DEF SelectedIsThere, Shared, Register
    <2>1. chip[p] \in ChipIds /\ chip[q] \in ChipIds /\ regsel \in [ChipIds -> Nat]
        BY CallFacts DEF IInv, Typed
    <2>2. CASE q = p
        BY <1>1, <2>1, <2>2, CallFacts
    <2>3. CASE q # p
        <3>1. pc[q] \in Windows /\ req[p] # NoCall /\ req[q] # NoCall
            BY <1>1, <1>3, <2>3 DEF IInv, CallsAreInOrder, Windows
        <3>2. CASE chip[q] # chip[p]
            BY <1>1, <2>1, <3>1, <3>2 DEF IInv, SelectedIsThere
        <3>3. CASE chip[q] = chip[p]
            BY <1>1, <2>1, <2>3, <3>1, <3>3, CallFacts, ChipsApart
        <3> QED BY <3>2, <3>3
    <2> QED BY <2>2, <2>3
<1> QED BY <1>4, <1>5, <1>6, <1>7 DEF IInv

\* The reads of IOWIN, of the low half and of the high one, which
\* set_masked() follows (ioapic.rs:250-270, 311-325).
LEMMA ReadKept ==
    ASSUME IInv, NEW p \in Callers, ReadLow(p) \/ ReadHigh(p)
    PROVE  IInv'
<1> DEFINE w == regs[chip[p]][regsel[chip[p]]]
           to == IF half[p] = 0 THEN "read_select" ELSE "write_select"
           e == IF half[p] = 0 THEN [entry[p] EXCEPT !.low = w]
                ELSE SetMasked([entry[p] EXCEPT !.high = w], req[p].op = "mask")
<1>1. /\ pc[p] = "read_window" /\ half[p] \in 0..1
      /\ pc' = [pc EXCEPT ![p] = to]
      /\ half' = [half EXCEPT ![p] = 1 - half[p]]
      /\ entry' = [entry EXCEPT ![p] = e]
      /\ UNCHANGED <<regs, regsel, managed, req, chip, irq>>
    BY DEF ReadLow, ReadHigh, Goto, IInv, Typed, TypeOK
<1>2. /\ pc \in [Callers -> {"idle", "read_select", "read_window", "write_select", "write_window"}]
      /\ half \in [Callers -> 0..1] /\ entry \in [Callers -> Entries]
    BY DEF IInv, Typed, TypeOK, Entries
<1>3. /\ req[p] \in Requests /\ req[p].op \in {"mask", "unmask"} /\ Shared
      /\ chip[p] \in ChipIds /\ regsel[chip[p]] \in TableRegs(chip[p]) /\ entry[p] \in Entries
    <2>1. req[p] # NoCall /\ req[p].op \in {"mask", "unmask"} /\ pc[p] # "idle"
        BY <1>1 DEF IInv, CallsAreInOrder, Reading
    <2>2. Shared
        BY <2>1 DEF IInv, InitIsAlone
    <2> QED BY <1>1, <2>1, <2>2, AtItsChip, CallFacts DEF IInv, SelectedIsThere, Windows
<1>4. w \in Nat /\ Clean(w)
    <2>1. regs[chip[p]] \in [TableRegs(chip[p]) -> Nat]
        BY <1>3 DEF IInv, Typed, TypeOK
    <2>2. chip[p] \in 1..managed
        BY <1>3, ChipRange DEF Shared
    <2> QED BY <1>3, <2>1, <2>2 DEF IInv, TableIsClean
<1>5. /\ e \in Entries /\ Clean(e.low) /\ Clean(e.high)
      /\ half[p] = 1 /\ req[p].op = "mask" => IsMasked(e)
    <2>1. Clean(entry[p].low) /\ Clean(entry[p].high)
        BY DEF IInv, TableIsClean
    <2>2. CASE half[p] = 0
        <3>1. e = [entry[p] EXCEPT !.low = w]
            BY <2>2
        <3> QED BY <1>3, <1>4, <2>1, <2>2, <3>1 DEF Entries
    <2>3. CASE half[p] = 1
        <3> DEFINE d == [entry[p] EXCEPT !.high = w]
        <3>1. d \in Entries /\ d.low = entry[p].low /\ d.high = w
            BY <1>3, <1>4 DEF Entries
        <3>2. e = SetMasked(d, req[p].op = "mask")
            BY <2>3
        <3> HIDE DEF d, w
        <3>3. /\ e \in Entries /\ (IsMasked(e) <=> req[p].op = "mask")
              /\ e.low % U8 = d.low % U8 /\ e.high = d.high
            BY <3>1, <3>2, SetMaskedFacts DEF Entries
        <3> QED BY <1>4, <2>1, <3>1, <3>3 DEF Clean
    <2> QED BY <1>1, <2>2, <2>3
<1> HIDE DEF w, e
<1>6. \A q \in Callers : /\ pc'[q] = "idle" <=> pc[q] = "idle"
                         /\ pc'[q] \in Reading => pc[q] \in Reading
                         /\ pc'[q] \in Windows => pc[q] \in Windows /\ q # p
                         /\ q # p => pc'[q] = pc[q] /\ half'[q] = half[q] /\ entry'[q] = entry[q]
    BY <1>1, <1>2 DEF Reading, Windows
<1>7. Typed'
    <2>1. entry' \in [Callers -> Entries] /\ half' \in [Callers -> 0..1]
          /\ pc' \in [Callers -> {"idle", "read_select", "read_window", "write_select", "write_window"}]
        BY <1>1, <1>2, <1>5
    <2> QED BY <1>1, <2>1 DEF IInv, Typed, TypeOK, Entries
<1>8. CallsAreInOrder'
    <2> SUFFICES ASSUME NEW q \in Callers
                 PROVE  /\ pc'[q] = "idle" <=> req[q] = NoCall
                        /\ pc'[q] \in Reading => req[q].op \in {"mask", "unmask"}
                        /\ req[q] # NoCall /\ req[q].op # "mask_all"
                               => PinOf[req[q].gsi] = <<chip[q], irq[q]>>
                        /\ pc'[q] \in Writing /\ req[q].op \in {"mask", "mask_all"}
                               => IsMasked(entry'[q])
        BY <1>1 DEF CallsAreInOrder, IsMasked
    <2>1. CASE q # p
        BY <1>6, <2>1 DEF IInv, CallsAreInOrder
    <2>2. CASE q = p
        <3>1. pc'[q] \in Writing => half[p] = 1
            BY <1>1, <1>2, <2>2 DEF Writing
        <3>2. entry'[p] = e
            BY <1>1, <1>2
        <3> QED BY <1>3, <1>5, <1>6, <2>2, <3>1, <3>2 DEF IInv, CallsAreInOrder
    <2> QED BY <2>1, <2>2
<1>9. InitIsAlone' /\ CallsAreApart'
    BY <1>1, <1>6 DEF IInv, InitIsAlone, CallsAreApart, Shared
<1>10. SelectedIsThere'
    BY <1>1, <1>6 DEF IInv, SelectedIsThere, Shared, Register
<1>11. TableIsClean'
    <2>1. \A q \in Callers : Clean(entry'[q].low) /\ Clean(entry'[q].high)
        BY <1>1, <1>2, <1>5, <1>6 DEF IInv, TableIsClean
    <2> QED BY <1>1, <1>3, <2>1 DEF IInv, TableIsClean, Shared
<1> QED BY <1>7, <1>8, <1>9, <1>10, <1>11 DEF IInv

\* The write to IOWIN changes one register of the table (ioapic.rs:203-209).
LEMMA WindowWritten ==
    ASSUME IInv, NEW p \in Callers, WriteWindow(p)
    PROVE  /\ pc[p] = "write_window" /\ req[p] \in Requests /\ req[p] # NoCall
           /\ regsel[chip[p]] \in TableRegs(chip[p])
           /\ Serialised \/ ~Shared => regsel[chip[p]] = EntryReg(irq[p]) + half[p]
           /\ regs' = [k \in ChipIds |-> regs'[k]]
           /\ \A k \in ChipIds : regs'[k] \in [TableRegs(k) -> Nat]
           /\ \A k \in ChipIds : \A r \in TableRegs(k) :
                 regs'[k][r] = IF k = chip[p] /\ r = regsel[k] THEN Word(p) ELSE regs[k][r]
<1>1. pc[p] = "write_window" /\ regs' = [regs EXCEPT ![chip[p]][regsel[chip[p]]] = Word(p)]
    BY DEF WriteWindow
<1>2. req[p] # NoCall
    BY <1>1 DEF IInv, CallsAreInOrder
<1>3. /\ chip[p] \in ChipIds /\ Word(p) \in Nat /\ regsel[chip[p]] \in TableRegs(chip[p])
      /\ Serialised \/ ~Shared => regsel[chip[p]] = EntryReg(irq[p]) + half[p]
    BY <1>1, CallFacts DEF IInv, SelectedIsThere, Windows
<1>4. regs = [k \in ChipIds |-> regs[k]] /\ \A k \in ChipIds : regs[k] \in [TableRegs(k) -> Nat]
    BY DEF IInv, Typed, TypeOK
<1>5. /\ regs' = [k \in ChipIds |-> regs'[k]]
      /\ regs'[chip[p]] = [regs[chip[p]] EXCEPT ![regsel[chip[p]]] = Word(p)]
      /\ \A k \in ChipIds : k # chip[p] => regs'[k] = regs[k]
    BY <1>1, <1>3, <1>4
<1>6. \A k \in ChipIds : regs'[k] \in [TableRegs(k) -> Nat]
    BY <1>3, <1>4, <1>5
<1>7. \A k \in ChipIds : \A r \in TableRegs(k) :
          regs'[k][r] = IF k = chip[p] /\ r = regsel[k] THEN Word(p) ELSE regs[k][r]
    BY <1>3, <1>4, <1>5
<1> QED BY <1>1, <1>2, <1>3, <1>5, <1>6, <1>7, AtItsChip

\* The write of the low half (ioapic.rs:272-289).
LEMMA WriteLowKept ==
    ASSUME IInv, NEW p \in Callers, WriteLow(p)
    PROVE  IInv'
<1>1. /\ half[p] = 0 /\ WriteWindow(p)
      /\ pc' = [pc EXCEPT ![p] = "write_select"]
      /\ half' = [half EXCEPT ![p] = 1]
      /\ UNCHANGED <<regsel, managed, req, chip, irq, entry>>
    BY DEF WriteLow, Goto
<1>2. /\ pc \in [Callers -> {"idle", "read_select", "read_window", "write_select", "write_window"}]
      /\ half \in [Callers -> 0..1]
    BY DEF IInv, Typed, TypeOK
<1>3. pc[p] = "write_window"
    BY <1>1 DEF WriteWindow
<1>4. \A q \in Callers : /\ pc'[q] = "idle" <=> pc[q] = "idle"
                         /\ pc'[q] \in Reading <=> pc[q] \in Reading
                         /\ pc'[q] \in Writing <=> pc[q] \in Writing
                         /\ pc'[q] \in Windows => pc[q] \in Windows /\ q # p
                         /\ q # p => pc'[q] = pc[q] /\ half'[q] = half[q]
    BY <1>1, <1>2, <1>3 DEF Reading, Writing, Windows
<1>5. Typed'
    <2>1. /\ half' \in [Callers -> 0..1]
          /\ pc' \in [Callers -> {"idle", "read_select", "read_window", "write_select", "write_window"}]
        BY <1>1, <1>2
    <2> QED BY <1>1, <2>1, WindowWritten DEF IInv, Typed, TypeOK
<1>6. CallsAreInOrder'
    BY <1>1, <1>4 DEF IInv, CallsAreInOrder
<1>7. InitIsAlone' /\ CallsAreApart'
    BY <1>1, <1>4 DEF IInv, InitIsAlone, CallsAreApart, Shared
<1>8. SelectedIsThere'
    BY <1>1, <1>4 DEF IInv, SelectedIsThere, Shared, Register
<1>9. TableIsClean'
    <2>1. \A k \in 1..managed : \A r \in TableRegs(k) : Clean(regs'[k][r])
        <3>1. 1..managed \subseteq ChipIds
            BY ChipRange DEF IInv, Typed, TypeOK
        <3> QED BY <1>1, <3>1, WindowWritten, CallFacts DEF IInv, TableIsClean
    <2>2. ASSUME ~Shared, NEW q \in Callers, pc'[q] # "idle", NEW r \in TableRegs(chip[q]),
                 r < EntryReg(irq[q]) + half'[q]
          PROVE  Clean(regs'[chip[q]][r])
        <3>1. q = p
            BY <1>3, <1>4, <2>2 DEF IInv, InitIsAlone
        <3>2. r < EntryReg(irq[p]) + 1 /\ regsel[chip[p]] = EntryReg(irq[p])
            BY <1>1, <1>2, <2>2, <3>1, WindowWritten, CallFacts DEF EntryReg, REG_REDTBL_BASE
        <3>3. r \in Nat /\ EntryReg(irq[p]) \in Nat
            BY <3>1, CallFacts, ChipFacts DEF TableRegs, EntryReg, REG_REDTBL_BASE
        <3>4. r < EntryReg(irq[p]) => Clean(regs[chip[p]][r])
            BY <1>1, <1>3, <2>2, <3>1, <3>3 DEF IInv, TableIsClean
        <3>5. chip[p] \in ChipIds /\ Clean(Word(p))
            BY CallFacts
        <3>6. regs'[chip[p]][r] = IF r = regsel[chip[p]] THEN Word(p) ELSE regs[chip[p]][r]
            BY <1>1, <2>2, <3>1, <3>5, WindowWritten
        <3>7. Clean(regs'[chip[p]][r])
            BY <3>2, <3>3, <3>4, <3>5, <3>6
        <3> QED BY <3>1, <3>7
    <2> QED BY <1>1, <2>1, <2>2 DEF IInv, TableIsClean, Shared
<1> QED BY <1>5, <1>6, <1>7, <1>8, <1>9 DEF IInv

\* The write of the high half, with the ends of the loops
\* (ioapic.rs:290-291, 327-333, 383-388, driver.rs:252-265).
LEMMA WriteHighKept ==
    ASSUME IInv, NEW p \in Callers, WriteHigh(p)
    PROVE  IInv'
<1>1. /\ half[p] = 1 /\ WriteWindow(p) /\ half' = [half EXCEPT ![p] = 0]
      /\ UNCHANGED regsel
    BY DEF WriteHigh
<1>2. /\ pc \in [Callers -> {"idle", "read_select", "read_window", "write_select", "write_window"}]
      /\ half \in [Callers -> 0..1] /\ chip \in [Callers -> ChipIds] /\ irq \in [Callers -> Nat]
      /\ entry \in [Callers -> Entries] /\ managed \in 0..Len(Chips)
      /\ req \in [Callers -> Requests \cup {NoCall}]
    BY DEF IInv, Typed, TypeOK, Entries
<1>3. pc[p] = "write_window" /\ req[p] \in Requests /\ req[p] # NoCall
    BY <1>1, WindowWritten
<1>4. /\ chip[p] \in ChipIds /\ irq[p] \in Pins(chip[p]) /\ irq[p] \in 0..119
      /\ Clean(Word(p))
    BY CallFacts
\* The registers of the chips that were clean, and of the entry just written.
<1>5. \A k \in 1..managed : \A r \in TableRegs(k) : Clean(regs'[k][r])
    <2>1. 1..managed \subseteq ChipIds
        BY <1>2, ChipRange
    <2> QED BY <1>1, <1>4, <2>1, WindowWritten DEF IInv, TableIsClean
<1>6. ASSUME ~Shared, NEW r \in TableRegs(chip[p]), r < EntryReg(irq[p]) + 2
      PROVE  Clean(regs'[chip[p]][r])
    <2>1. regsel[chip[p]] = EntryReg(irq[p]) + 1
        BY <1>1, <1>6, WindowWritten
    <2>2. r \in Nat /\ EntryReg(irq[p]) \in Nat
        BY <1>4, ChipFacts DEF TableRegs, EntryReg, REG_REDTBL_BASE
    <2>3. r < EntryReg(irq[p]) + 1 => Clean(regs[chip[p]][r])
        BY <1>1, <1>3, <1>6, <2>2 DEF IInv, TableIsClean
    <2>4. regs'[chip[p]][r] = IF r = regsel[chip[p]] THEN Word(p) ELSE regs[chip[p]][r]
        BY <1>1, <1>4, <1>6, WindowWritten
    <2> QED BY <1>4, <1>6, <2>1, <2>2, <2>3, <2>4
<1>7. ~Shared => /\ req[p].op = "mask_all" /\ managed = chip[p] - 1
                 /\ \A q \in Callers \ {p} : pc[q] = "idle"
    BY <1>3 DEF IInv, InitIsAlone
<1>8. EntryReg(irq[p] + 1) = EntryReg(irq[p]) + 2 /\ EntryReg(irq[p]) \in Nat
    BY <1>4 DEF EntryReg, REG_REDTBL_BASE
<1>9. Shared => managed = Len(Chips)
    BY DEF Shared
<1>10. CASE /\ HasNextPin(p)
            /\ irq' = [irq EXCEPT ![p] = @ + 1]
            /\ Goto(p, "write_select")
            /\ UNCHANGED <<chip, managed, req, entry>>
    <2> USE <1>10 DEF Goto
    <2>1. \A q \in Callers : /\ pc'[q] = "idle" <=> pc[q] = "idle"
                             /\ pc'[q] \in Reading <=> pc[q] \in Reading
                             /\ pc'[q] \in Writing <=> pc[q] \in Writing
                             /\ pc'[q] \in Windows => pc[q] \in Windows /\ q # p
                             /\ q # p => pc'[q] = pc[q] /\ half'[q] = half[q] /\ irq'[q] = irq[q]
        BY <1>1, <1>2, <1>3 DEF Reading, Writing, Windows
    <2>2. irq' \in [Callers -> Nat] /\ irq'[p] = irq[p] + 1 /\ half'[p] = 0
        BY <1>1, <1>2
    <2>3. \A q \in Callers : irq'[q] \in Pins(chip[q])
        <3>1. irq[p] + 1 \in Pins(chip[p])
            BY <1>4, ChipFacts DEF HasNextPin, Pins
        <3> QED BY <2>1, <2>2, <3>1, CallFacts
    <2>4. Typed'
        <3>1. /\ half' \in [Callers -> 0..1]
              /\ pc' \in [Callers -> {"idle", "read_select", "read_window", "write_select", "write_window"}]
            BY <1>1, <1>2
        <3> QED BY <1>1, <2>2, <2>3, <3>1, WindowWritten DEF IInv, Typed, TypeOK
    <2>5. CallsAreInOrder'
        BY <1>1, <2>1 DEF IInv, CallsAreInOrder, HasNextPin
    <2>6. InitIsAlone' /\ CallsAreApart'
        BY <1>1, <2>1 DEF IInv, InitIsAlone, CallsAreApart, Shared
    <2>7. SelectedIsThere'
        BY <1>1, <2>1 DEF IInv, SelectedIsThere, Shared, Register
    <2>8. ASSUME ~Shared, NEW q \in Callers, pc'[q] # "idle", NEW r \in TableRegs(chip[q]),
                 r < EntryReg(irq'[q]) + half'[q]
          PROVE  Clean(regs'[chip[q]][r])
        <3>1. q = p
            BY <1>7, <2>1, <2>8
        <3>2. r < EntryReg(irq[p]) + 2
            BY <1>8, <2>2, <2>8, <3>1
        <3> QED BY <1>6, <2>8, <3>1, <3>2
    <2>9. TableIsClean'
        BY <1>5, <2>8 DEF IInv, TableIsClean, Shared
    <2> QED BY <2>4, <2>5, <2>6, <2>7, <2>9 DEF IInv
\* The chip is done.
<1>11. ASSUME ~HasNextPin(p), ~Shared, NEW r \in TableRegs(chip[p])
       PROVE  Clean(regs'[chip[p]][r])
    <2>1. ~(irq[p] + 1 < MaxEntries(chip[p]))
        BY <1>7, <1>11 DEF HasNextPin
    <2>2. r < EntryReg(irq[p]) + 2
        BY <1>4, <1>11, <2>1, ChipFacts DEF EntryReg, TableRegs, REG_REDTBL_BASE
    <2> QED BY <1>6, <1>11, <2>2
<1>12. ASSUME ~HasNextPin(p), managed' = Added(p)
       PROVE  /\ managed' \in 0..Len(Chips) /\ managed <= managed'
              /\ Shared => managed' = managed
              /\ ~Shared => managed' = chip[p]
              /\ \A k \in 1..managed' : \A r \in TableRegs(k) : Clean(regs'[k][r])
    <2>1. /\ managed' \in 0..Len(Chips) /\ managed <= managed'
          /\ Shared => managed' = managed
          /\ ~Shared => managed' = chip[p]
        BY <1>2, <1>4, <1>7, <1>12, ChipRange DEF Added, Shared
    <2>2. CASE Shared
        BY <1>5, <2>1, <2>2
    <2>3. CASE ~Shared
        <3>1. \A k \in 1..managed' : k = chip[p] \/ k \in 1..managed
            BY <1>2, <1>4, <1>7, <2>1, <2>3, ChipRange
        <3>2. \A r \in TableRegs(chip[p]) : Clean(regs'[chip[p]][r])
            BY <1>11, <1>12, <2>3
        <3>3. ASSUME NEW k \in 1..managed', NEW r \in TableRegs(k) PROVE Clean(regs'[k][r])
            <4>1. CASE k = chip[p]
                BY <3>2, <4>1
            <4>2. CASE k \in 1..managed
                BY <1>5, <4>2
            <4> QED BY <3>1, <4>1, <4>2
        <3> QED BY <2>1, <3>3
    <2> QED BY <2>1, <2>2, <2>3
<1>13. CASE /\ ~HasNextPin(p)
            /\ HasNextChip(p)
            /\ irq' = [irq EXCEPT ![p] = 0]
            /\ chip' = [chip EXCEPT ![p] = @ + 1]
            /\ managed' = Added(p)
            /\ Goto(p, "write_select")
            /\ UNCHANGED <<req, entry>>
    <2> USE <1>13 DEF Goto
    <2>1. \A q \in Callers : /\ pc'[q] = "idle" <=> pc[q] = "idle"
                             /\ pc'[q] \in Reading <=> pc[q] \in Reading
                             /\ pc'[q] \in Writing <=> pc[q] \in Writing
                             /\ pc'[q] \in Windows => pc[q] \in Windows /\ q # p
                             /\ q # p => /\ pc'[q] = pc[q] /\ half'[q] = half[q]
                                         /\ irq'[q] = irq[q] /\ chip'[q] = chip[q]
        BY <1>1, <1>2, <1>3 DEF Reading, Writing, Windows
    <2>2. /\ irq' \in [Callers -> Nat] /\ irq'[p] = 0 /\ half'[p] = 0
          /\ chip' \in [Callers -> ChipIds] /\ chip'[p] = chip[p] + 1
        BY <1>1, <1>2, <1>4, ChipRange DEF HasNextChip
    <2>3. \A q \in Callers : irq'[q] \in Pins(chip'[q])
        BY <2>1, <2>2, CallFacts, ChipFacts
    <2>4. Typed'
        <3>1. /\ half' \in [Callers -> 0..1] /\ managed' \in 0..Len(Chips)
              /\ pc' \in [Callers -> {"idle", "read_select", "read_window", "write_select", "write_window"}]
            BY <1>1, <1>2, <1>12
        <3> QED BY <1>1, <2>2, <2>3, <3>1, WindowWritten DEF IInv, Typed, TypeOK
    <2>5. CallsAreInOrder'
        BY <1>1, <2>1 DEF IInv, CallsAreInOrder, HasNextChip
    <2>6. ~Shared' => ~Shared
        BY <1>2, <1>12 DEF Shared
    <2>7. InitIsAlone'
        BY <1>2, <1>4, <1>7, <1>12, <2>1, <2>2, <2>6, ChipRange DEF InitIsAlone
    <2>8. CallsAreApart'
        BY <1>1 DEF IInv, CallsAreApart
    <2>9. SelectedIsThere'
        BY <1>1, <2>1, <2>6 DEF IInv, SelectedIsThere, Register
    <2>10. ASSUME ~Shared', NEW q \in Callers, pc'[q] # "idle", NEW r \in TableRegs(chip'[q]),
                  r < EntryReg(irq'[q]) + half'[q]
           PROVE  Clean(regs'[chip'[q]][r])
        <3>1. q = p
            BY <1>7, <2>1, <2>6, <2>10
        <3>2. r < REG_REDTBL_BASE
            BY <2>2, <2>10, <3>1 DEF EntryReg, REG_REDTBL_BASE
        <3> QED BY <2>2, <2>10, <3>1, <3>2, ChipFacts DEF TableRegs, REG_REDTBL_BASE
    <2>11. TableIsClean'
        BY <1>12, <2>10 DEF IInv, TableIsClean
    <2> QED BY <2>4, <2>5, <2>7, <2>8, <2>9, <2>11 DEF IInv
<1>14. CASE /\ ~HasNextPin(p)
            /\ ~HasNextChip(p)
            /\ managed' = Added(p)
            /\ req' = [req EXCEPT ![p] = NoCall]
            /\ Goto(p, "idle")
            /\ Forget(p)
    <2> USE <1>14 DEF Goto, Forget
    <2>1. \A q \in Callers : q # p => /\ pc'[q] = pc[q] /\ half'[q] = half[q] /\ req'[q] = req[q]
                                      /\ irq'[q] = irq[q] /\ chip'[q] = chip[q]
                                      /\ entry'[q] = entry[q]
        BY <1>1, <1>2
    <2>2. /\ irq' \in [Callers -> Nat] /\ irq'[p] = 0 /\ half'[p] = 0
          /\ chip' \in [Callers -> ChipIds] /\ chip'[p] = 1
          /\ req' \in [Callers -> Requests \cup {NoCall}] /\ req'[p] = NoCall /\ pc'[p] = "idle"
        BY <1>1, <1>2, <1>4, ChipRange
    <2>3. MaskedEntry \in Entries /\ Clean(MaskedEntry.low) /\ Clean(MaskedEntry.high)
        BY DEF MaskedEntry, Entries, Clean, MASKED, U8
    <2>4. entry' \in [Callers -> Entries] /\ entry'[p] = MaskedEntry
        BY <1>2, <2>3
    <2>5. Typed'
        <3>1. \A q \in Callers : irq'[q] \in Pins(chip'[q])
            BY <2>1, <2>2, CallFacts, ChipFacts, ChipRange
        <3>2. /\ half' \in [Callers -> 0..1] /\ managed' \in 0..Len(Chips)
              /\ pc' \in [Callers -> {"idle", "read_select", "read_window", "write_select", "write_window"}]
            BY <1>1, <1>2, <1>12
        <3> QED BY <1>1, <2>2, <2>4, <3>1, <3>2, WindowWritten DEF IInv, Typed, TypeOK, Entries
    <2>6. CallsAreInOrder'
        BY <2>1, <2>2 DEF IInv, CallsAreInOrder, IsMasked, Reading, Writing
    <2>7. Shared'
        BY <1>2, <1>4, <1>7, <1>12, ChipRange DEF Shared, HasNextChip
    <2>8. InitIsAlone' /\ CallsAreApart'
        BY <2>1, <2>2, <2>7 DEF IInv, InitIsAlone, CallsAreApart
    <2>9. SelectedIsThere'
        <3> SUFFICES ASSUME NEW q \in Callers, pc'[q] \in Windows
                     PROVE  /\ regsel[chip'[q]] \in TableRegs(chip'[q])
                            /\ Serialised => regsel[chip'[q]] = Register(q)'
            BY <1>1, <2>7 DEF SelectedIsThere
        <3>1. q # p
            BY <2>2 DEF Windows
        <3> QED BY <2>1, <3>1 DEF IInv, SelectedIsThere, Register
    <2>10. TableIsClean'
        BY <1>12, <2>1, <2>3, <2>4, <2>7 DEF IInv, TableIsClean
    <2> QED BY <2>5, <2>6, <2>8, <2>9, <2>10 DEF IInv
<1> QED BY <1>10, <1>13, <1>14 DEF WriteHigh

\* The entry masked() and the entry simple() (ioapic.rs:78-123).
LEMMA EntryFacts ==
    /\ MaskedEntry \in Entries /\ IsMasked(MaskedEntry)
    /\ Clean(MaskedEntry.low) /\ Clean(MaskedEntry.high)
    /\ \A vector \in Vectors : \A d \in 0..(U8 - 1) :
          /\ Simple(vector, d) \in Entries
          /\ Clean(Simple(vector, d).low) /\ Clean(Simple(vector, d).high)
<1>1. /\ MaskedEntry \in Entries /\ IsMasked(MaskedEntry)
      /\ Clean(MaskedEntry.low) /\ Clean(MaskedEntry.high)
    BY DEF MaskedEntry, Entries, IsMasked, Clean, MASKED, U8
<1>2. ASSUME NEW vector \in Vectors, NEW d \in 0..(U8 - 1)
      PROVE  /\ Simple(vector, d) \in Entries
             /\ Clean(Simple(vector, d).low) /\ Clean(Simple(vector, d).high)
    <2>a. vector \in Nat /\ vector \in 0..(U8 - 1)
        BY IoApicAssumption DEF U8
    <2>1. vector \in Nat /\ vector % U8 = vector
        BY <2>a, Bytes
    <2>2. d % U8 \in Nat /\ (d % U8) * DEST \in Nat /\ ((d % U8) * DEST) % U8 = 0
        BY DEF U8, DEST
    <2> QED BY <2>1, <2>2 DEF Simple, Entries, Clean
<1> QED BY <1>1, <1>2

\* A call begins: at one of its chips, at the pin it names, with a clean entry
\* in hand, that of its request if it has no entry to read.
Beginning(p, r, label, k, i, e) ==
    /\ r \in Requests /\ label \in {"read_select", "write_select"}
    /\ k \in ChipIds /\ i \in Pins(k)
    /\ e \in Entries /\ Clean(e.low) /\ Clean(e.high)
    /\ Enter(p, r, label, k, i, e) /\ CallersTakeTurns(p)
    /\ label = "read_select" <=> r.op \in {"mask", "unmask"}
    /\ r.op = "route" => e = Simple(r.vector, r.dest)
    /\ r.op = "mask_all" => e = MaskedEntry /\ k = 1 /\ i = 0
    /\ r.op # "mask_all" => PinOf[r.gsi] = <<k, i>>
    /\ ~Shared => r.op = "mask_all" /\ managed = 0 /\ \A q \in Callers : pc[q] = "idle"

\* Every call of the drivers begins like that (ioapic.rs:293-333, 382-388,
\* driver.rs:252-265, 474-493).
LEMMA Calls ==
    ASSUME IInv, NEW p \in Callers,
           Call(p), CallersTakeTurns(p)
    PROVE  \E r, label, k, i, e : Beginning(p, r, label, k, i, e)
<1>0. managed \in 0..Len(Chips)
    BY DEF IInv, Typed, TypeOK
<1>1. CASE InitIoApics(p) \/ MaskAll(p)
    <2> DEFINE r == [op |-> "mask_all"]
    <2>1. r \in Requests /\ r.op = "mask_all"
        BY DEF Requests
    <2>2. ~Shared => managed = 0 /\ \A q \in Callers : pc[q] = "idle"
        BY <1>1 DEF InitIoApics, MaskAll
    <2>3. Enter(p, r, "write_select", 1, 0, MaskedEntry)
        BY <1>1 DEF InitIoApics, MaskAll
    <2> HIDE DEF r
    <2>4. Beginning(p, r, "write_select", 1, 0, MaskedEntry)
        BY <2>1, <2>2, <2>3, ChipRange, ChipFacts, EntryFacts DEF Beginning
    <2> QED BY <2>4
<1>2. ASSUME NEW g \in Gsis, NEW op \in {"mask", "unmask"}, MaskIrq(p, g, op)
      PROVE  \E r, label, k, i, e : Beginning(p, r, label, k, i, e)
    <2> DEFINE r == [op |-> op, gsi |-> g]
    <2>1. r \in Requests /\ r.op \in {"mask", "unmask"} /\ r.gsi = g
        BY DEF Requests
    <2>2. PICK k \in FindForGsi(g) :
             Enter(p, r, "read_select", k, (g - GsiBase(k)) % U8, MaskedEntry)
        BY <1>2 DEF MaskIrq
    <2>3. Shared
        BY <1>2 DEF MaskIrq
    <2> HIDE DEF r
    <2>4. /\ k \in ChipIds /\ g - GsiBase(k) \in Pins(k) /\ PinOf[g] = <<k, g - GsiBase(k)>>
          /\ Enter(p, r, "read_select", k, g - GsiBase(k), MaskedEntry)
        BY <1>0, <2>2, FindFacts
    <2>5. Beginning(p, r, "read_select", k, g - GsiBase(k), MaskedEntry)
        BY <2>1, <2>3, <2>4, EntryFacts DEF Beginning
    <2> QED BY <2>5
<1>3. ASSUME NEW g \in Gsis, NEW vector \in Vectors, NEW dest \in ApicIds,
             RouteIrq(p, g, vector, dest)
      PROVE  \E r, label, k, i, e : Beginning(p, r, label, k, i, e)
    <2> DEFINE d == dest % U8
               r == [op |-> "route", gsi |-> g, vector |-> vector, dest |-> d]
    <2>1. d = dest /\ d \in 0..(U8 - 1)
        BY IoApicAssumption, Bytes
    <2>2. r \in Requests /\ r.op = "route" /\ r.gsi = g /\ r.vector = vector /\ r.dest = d
        BY <2>1 DEF Requests
    <2>3. PICK k \in FindForGsi(g) :
             Enter(p, r, "write_select", k, (g - GsiBase(k)) % U8, Simple(vector, d))
        BY <1>3 DEF RouteIrq, RouteGsi
    <2>4. Shared
        BY <1>3 DEF RouteIrq
    <2> HIDE DEF r, d
    <2>5. /\ k \in ChipIds /\ g - GsiBase(k) \in Pins(k) /\ PinOf[g] = <<k, g - GsiBase(k)>>
          /\ Enter(p, r, "write_select", k, g - GsiBase(k), Simple(vector, d))
        BY <1>0, <2>3, FindFacts
    <2>6. Beginning(p, r, "write_select", k, g - GsiBase(k), Simple(vector, d))
        BY <2>1, <2>2, <2>4, <2>5, EntryFacts DEF Beginning
    <2> QED BY <2>6
<1> QED BY <1>1, <1>2, <1>3 DEF Call

\* The beginning of a call keeps the invariant.
LEMMA EnterKept ==
    ASSUME IInv, NEW p \in Callers, NEW r, NEW label, NEW k, NEW i, NEW e,
           Beginning(p, r, label, k, i, e)
    PROVE  IInv'
<1>0. /\ r \in Requests /\ label \in {"read_select", "write_select"}
      /\ k \in ChipIds /\ i \in Pins(k)
      /\ e \in Entries /\ Clean(e.low) /\ Clean(e.high)
      /\ Enter(p, r, label, k, i, e)
      /\ label = "read_select" => r.op \in {"mask", "unmask"}
      /\ label = "write_select" /\ r.op \in {"mask", "mask_all"} => IsMasked(e)
      /\ r.op # "mask_all" => PinOf[r.gsi] = <<k, i>>
      /\ ~Shared => /\ r.op = "mask_all" /\ k = managed + 1 /\ i = 0
                    /\ \A q \in Callers : pc[q] = "idle"
    BY EntryFacts DEF Beginning
<1>1. /\ pc[p] = "idle"
      /\ req' = [req EXCEPT ![p] = r]
      /\ pc' = [pc EXCEPT ![p] = label]
      /\ chip' = [chip EXCEPT ![p] = k]
      /\ irq' = [irq EXCEPT ![p] = i]
      /\ half' = [half EXCEPT ![p] = 0]
      /\ entry' = [entry EXCEPT ![p] = e]
      /\ UNCHANGED <<regs, regsel, managed>>
    BY <1>0 DEF Enter
<1>2. /\ pc \in [Callers -> {"idle", "read_select", "read_window", "write_select", "write_window"}]
      /\ half \in [Callers -> 0..1] /\ chip \in [Callers -> ChipIds] /\ irq \in [Callers -> Nat]
      /\ entry \in [Callers -> Entries] /\ managed \in 0..Len(Chips)
      /\ req \in [Callers -> Requests \cup {NoCall}]
    BY DEF IInv, Typed, TypeOK, Entries
<1>3. \A q \in Callers : q # p => /\ pc'[q] = pc[q] /\ half'[q] = half[q] /\ req'[q] = req[q]
                                  /\ irq'[q] = irq[q] /\ chip'[q] = chip[q] /\ entry'[q] = entry[q]
    BY <1>1, <1>2
<1>4. /\ pc'[p] = label /\ half'[p] = 0 /\ req'[p] = r /\ irq'[p] = i /\ chip'[p] = k
      /\ entry'[p] = e /\ r # NoCall
    BY <1>0, <1>1, <1>2, RequestFacts
<1>5. Typed'
    <2>1. i \in Nat
        BY <1>0, ChipFacts
    <2>2. /\ half' \in [Callers -> 0..1] /\ chip' \in [Callers -> ChipIds]
          /\ irq' \in [Callers -> Nat] /\ entry' \in [Callers -> Entries]
          /\ req' \in [Callers -> Requests \cup {NoCall}]
          /\ pc' \in [Callers -> {"idle", "read_select", "read_window", "write_select", "write_window"}]
        BY <1>0, <1>1, <1>2, <2>1
    <2>3. \A q \in Callers : irq'[q] \in Pins(chip'[q])
        BY <1>0, <1>3, <1>4, CallFacts
    <2> QED BY <1>1, <2>2, <2>3 DEF IInv, Typed, TypeOK, Entries
<1>6. CallsAreInOrder'
    <2> SUFFICES ASSUME NEW q \in Callers
                 PROVE  /\ pc'[q] = "idle" <=> req'[q] = NoCall
                        /\ pc'[q] \in Reading => req'[q].op \in {"mask", "unmask"}
                        /\ req'[q] # NoCall /\ req'[q].op # "mask_all"
                               => PinOf[req'[q].gsi] = <<chip'[q], irq'[q]>>
                        /\ pc'[q] \in Writing /\ req'[q].op \in {"mask", "mask_all"}
                               => IsMasked(entry'[q])
        BY DEF CallsAreInOrder, IsMasked
    <2>1. CASE q # p
        BY <1>3, <2>1 DEF IInv, CallsAreInOrder
    <2>2. CASE q = p
        BY <1>0, <1>4, <2>2 DEF Reading, Writing
    <2> QED BY <2>1, <2>2
<1>7. InitIsAlone'
    <2> SUFFICES ASSUME ~Shared, NEW q \in Callers, pc'[q] # "idle"
                 PROVE  /\ req'[q].op = "mask_all" /\ managed = chip'[q] - 1
                        /\ \A u \in Callers \ {q} : pc'[u] = "idle"
        BY <1>1 DEF InitIsAlone, Shared
    <2>1. q = p
        BY <1>0, <1>3
    <2>2. managed \in Nat /\ k = managed + 1
        BY <1>0, <1>2
    <2> QED BY <1>0, <1>3, <1>4, <2>1, <2>2
<1>8. CallsAreApart'
    <2> SUFFICES ASSUME Serialised, NEW q1 \in Callers, NEW q2 \in Callers, q1 # q2,
                        req'[q1] # NoCall, req'[q2] # NoCall
                 PROVE  ChipsOf(req'[q1]) \cap ChipsOf(req'[q2]) = {}
        BY DEF CallsAreApart, ChipsOf
    <2>1. CASE q1 # p /\ q2 # p
        BY <1>3, <2>1 DEF IInv, CallsAreApart
    <2>2. CASE q1 = p
        BY <1>3, <1>4, <2>2 DEF Beginning, CallersTakeTurns
    <2>3. CASE q2 = p
        BY <1>3, <1>4, <2>3 DEF Beginning, CallersTakeTurns
    <2> QED BY <2>1, <2>2, <2>3
<1>9. SelectedIsThere'
    <2> SUFFICES ASSUME NEW q \in Callers, pc'[q] \in Windows
                 PROVE  /\ regsel[chip'[q]] \in TableRegs(chip'[q])
                        /\ Serialised \/ ~Shared => regsel[chip'[q]] = Register(q)'
        BY <1>1 DEF SelectedIsThere, Shared
    <2>1. q # p
        BY <1>0, <1>4 DEF Windows
    <2> QED BY <1>3, <2>1 DEF IInv, SelectedIsThere, Register
<1>10. TableIsClean'
    <2>1. \A q \in Callers : Clean(entry'[q].low) /\ Clean(entry'[q].high)
        BY <1>0, <1>3, <1>4 DEF IInv, TableIsClean
    <2>2. ASSUME ~Shared, NEW q \in Callers, pc'[q] # "idle", NEW x \in TableRegs(chip'[q])
          PROVE  ~(x < EntryReg(irq'[q]) + half'[q])
        <3>1. q = p
            BY <1>0, <1>3, <2>2
        <3>2. EntryReg(irq'[q]) + half'[q] = REG_REDTBL_BASE
            BY <1>0, <1>4, <2>2, <3>1 DEF EntryReg, REG_REDTBL_BASE
        <3>3. x \in Nat /\ x >= REG_REDTBL_BASE
            BY <1>4, <2>2, <3>1, ChipFacts DEF TableRegs, REG_REDTBL_BASE
        <3> QED BY <3>2, <3>3 DEF REG_REDTBL_BASE
    <2> QED BY <1>1, <2>1, <2>2 DEF IInv, TableIsClean, Shared
<1> QED BY <1>5, <1>6, <1>7, <1>8, <1>9, <1>10 DEF IInv

\* Every step keeps the invariant.
LEMMA NextIInv == IInv /\ [Next]_vars => IInv'
<1> SUFFICES ASSUME IInv, [Next]_vars PROVE IInv'
    OBVIOUS
<1>1. ASSUME NEW p \in Callers, Access(p) PROVE IInv'
    BY <1>1, SelectKept, ReadKept, WriteLowKept, WriteHighKept DEF Access
<1>2. ASSUME NEW p \in Callers, Call(p), CallersTakeTurns(p) PROVE IInv'
    BY <1>2, Calls, EnterKept
<1>3. CASE UNCHANGED vars
    BY <1>3 DEF vars, callVars, IInv, Typed, TypeOK, CallsAreInOrder, InitIsAlone, CallsAreApart,
       SelectedIsThere, TableIsClean, Shared, Register
<1> QED BY <1>1, <1>2, <1>3 DEF Next

\* The invariant holds of what the firmware leaves (ioapic.rs:346-353).
LEMMA InitIInv == Init => IInv
<1> SUFFICES ASSUME Init PROVE IInv
    OBVIOUS
<1>1. /\ regs = [k \in ChipIds |-> regs[k]]
      /\ \A k \in ChipIds : regs[k] \in [TableRegs(k) -> Firmware \cup {0}]
    <2>1. regs \in [ChipIds -> UNION {[TableRegs(k) -> Firmware \cup {0}] : k \in ChipIds}]
        BY DEF Init
    <2>2. \A k \in ChipIds : \E j \in ChipIds : regs[k] \in [TableRegs(j) -> Firmware \cup {0}]
        BY <2>1
    <2>3. \A k \in ChipIds : DOMAIN regs[k] = TableRegs(k)
        BY DEF Init
    <2> QED BY <2>1, <2>2, <2>3
<1>2. Typed
    <2>1. \A k \in ChipIds : regs[k] \in [TableRegs(k) -> Nat]
        BY <1>1, IoApicAssumption
    <2>2. 1 \in ChipIds /\ 0 \in Pins(1) /\ Len(Chips) \in Nat
        BY ChipRange, ChipFacts
    <2> QED BY <1>1, <2>1, <2>2, EntryFacts DEF Init, Typed, TypeOK, Entries, REG_IOAPICVER
<1>3. managed = 0 /\ \A p \in Callers : pc[p] = "idle" /\ req[p] = NoCall /\ entry[p] = MaskedEntry
    BY DEF Init
<1>4. CallsAreInOrder /\ InitIsAlone /\ CallsAreApart /\ SelectedIsThere
    BY <1>3 DEF CallsAreInOrder, InitIsAlone, CallsAreApart, SelectedIsThere, Reading, Writing,
       Windows
<1>5. TableIsClean
    BY <1>3, EntryFacts DEF TableIsClean
<1> QED BY <1>2, <1>4, <1>5 DEF IInv

\* The inductive invariant holds in every reachable state.
LEMMA AlwaysIInv == Spec => []IInv
BY InitIInv, NextIInv, PTL DEF Spec
-----------------------------------------------------------------------------
(* The theorems                                                            *)

\* Calls stay at pins their chip has and IOREGSEL within the table
\* (ioapic.rs:195-209, 258-260).
THEOREM IoApicTypeCorrect == Spec => []TypeOK
<1>1. IInv => TypeOK
    BY DEF IInv, Typed
<1> QED BY <1>1, AlwaysIInv, PTL

\* Once init() has shared the controller, no line has a vector of the
\* firmware's, whatever the callers do and whether or not they keep off each
\* other's chips (driver.rs:252-270).
THEOREM IoApicFirmwareIsGone == Spec => []FirmwareIsGone
<1>1. ASSUME IInv, Shared, NEW g \in Gsis, NEW low \in Firmware, low % U8 # 0
      PROVE  Line(g).vector # low % U8
    <2>0. PICK k \in ChipIds : \E i \in Pins(k) : PinOf[g] = <<k, i>>
        BY PinFacts
    <2>1. PICK i \in Pins(k) : PinOf[g] = <<k, i>>
        BY <2>0
    <2>2. EntryReg(i) \in TableRegs(k)
        <3>1. EntryReg(i) + 0 \in TableRegs(k) /\ EntryReg(i) + 0 = EntryReg(i)
            BY RegFacts, ChipFacts DEF EntryReg, REG_REDTBL_BASE
        <3> QED BY <3>1
    <2>3. k \in 1..managed
        BY <1>1, ChipRange DEF Shared
    <2>4. regs[k][EntryReg(i)] % U8 \in Vectors \cup {0}
        BY <1>1, <2>2, <2>3 DEF IInv, TableIsClean, Clean
    <2>5. Line(g).vector = regs[k][EntryReg(i)] % U8
        BY <2>1 DEF Line, Decode
    <2> QED BY <1>1, <2>4, <2>5, IoApicAssumption
<1>2. IInv => FirmwareIsGone
    BY <1>1 DEF FirmwareIsGone
<1> QED BY <1>2, AlwaysIInv, PTL

\* With callers serialised a masked line is unmasked by a call that asks for
\* it and by no other, at every single register write (ioapic.rs:272-333).
THEOREM IoApicUnmasksOnlyWhenAsked == Serialised => (Spec => UnmasksOnlyWhenAsked)
<1> SUFFICES ASSUME Serialised PROVE Spec => UnmasksOnlyWhenAsked
    OBVIOUS
<1> DEFINE Asked ==
      \A g \in Gsis : Line(g).masked /\ ~Line(g)'.masked =>
          \E p \in Callers : /\ req[p] # NoCall
                             /\ req[p].op \in {"route", "unmask"}
                             /\ req[p].gsi = g
<1>1. ASSUME IInv, NEW p \in Callers, WriteLow(p) \/ WriteHigh(p), NEW g \in Gsis,
             Line(g).masked, ~Line(g)'.masked
      PROVE  req[p] # NoCall /\ req[p].op \in {"route", "unmask"} /\ req[p].gsi = g
    <2>0. PICK k \in ChipIds : \E i \in Pins(k) : PinOf[g] = <<k, i>> /\ g = GsiBase(k) + i
        BY PinFacts
    <2>1. PICK i \in Pins(k) : PinOf[g] = <<k, i>> /\ g = GsiBase(k) + i
        BY <2>0
    <2>2. Line(g).masked = IsMasked([low |-> regs[k][EntryReg(i)], high |-> 0])
        BY <2>1 DEF Line, Decode, IsMasked
    <2>3. Line(g)'.masked = IsMasked([low |-> regs'[k][EntryReg(i)], high |-> 0])
        BY <2>1 DEF Line, Decode, IsMasked
    <2>4. regs'[k][EntryReg(i)] # regs[k][EntryReg(i)]
        BY <1>1, <2>2, <2>3
    <2>5. /\ EntryReg(i) \in TableRegs(k) /\ i \in 0..119 /\ WriteWindow(p) /\ half[p] \in 0..1
          /\ irq[p] \in 0..119
        <3>1. EntryReg(i) + 0 \in TableRegs(k) /\ EntryReg(i) + 0 = EntryReg(i)
            BY RegFacts, ChipFacts DEF EntryReg, REG_REDTBL_BASE
        <3> QED BY <1>1, <3>1, CallFacts, ChipFacts DEF WriteLow, WriteHigh
    <2>6. /\ k = chip[p] /\ EntryReg(i) = EntryReg(irq[p]) + half[p]
          /\ regs'[k][EntryReg(i)] = Word(p)
        BY <1>1, <2>4, <2>5, WindowWritten
    <2>7. i = irq[p] /\ half[p] = 0
        BY <2>5, <2>6, LowIsLow
    <2>8. ~IsMasked(entry[p])
        BY <1>1, <2>3, <2>6, <2>7 DEF Word, IsMasked
    <2>9. /\ pc[p] \in Writing /\ req[p] # NoCall
          /\ req[p].op \in {"route", "mask", "unmask", "mask_all"}
          /\ req[p].op # "mask_all" => req[p].gsi \in Gsis
        BY <1>1, <2>5, WindowWritten, RequestFacts DEF Writing
    <2>10. req[p].op \in {"route", "unmask"} /\ PinOf[req[p].gsi] = <<k, i>>
        BY <1>1, <2>6, <2>7, <2>8, <2>9 DEF IInv, CallsAreInOrder
    <2>11. req[p].gsi = g
        BY <2>1, <2>9, <2>10, PinFacts
    <2> QED BY <2>9, <2>10, <2>11
<1>2. ASSUME UNCHANGED regs, NEW g \in Gsis PROVE Line(g)' = Line(g)
    BY <1>2 DEF Line
<1>3. ASSUME IInv, Next PROVE Asked
    <2>1. CASE UNCHANGED regs
        BY <1>2, <2>1
    <2>2. CASE \E p \in Callers : WriteLow(p) \/ WriteHigh(p)
        BY <1>1, <1>3, <2>2
    <2>3. ASSUME NEW p \in Callers, Select(p) \/ ReadLow(p) \/ ReadHigh(p) PROVE UNCHANGED regs
        BY <2>3 DEF Select, ReadLow, ReadHigh
    <2>4. ASSUME NEW p \in Callers, InitIoApics(p) \/ MaskAll(p) PROVE UNCHANGED regs
        BY <2>4 DEF InitIoApics, MaskAll, Enter
    <2>5. ASSUME NEW p \in Callers, NEW g \in Gsis, NEW op, MaskIrq(p, g, op) PROVE UNCHANGED regs
        BY <2>5 DEF MaskIrq, Enter
    <2>6. ASSUME NEW p \in Callers, NEW g \in Gsis, NEW vector, NEW dest,
                 RouteIrq(p, g, vector, dest)
          PROVE  UNCHANGED regs
        BY <2>6 DEF RouteIrq, RouteGsi, Enter
    <2> QED BY <1>3, <2>1, <2>2, <2>3, <2>4, <2>5, <2>6 DEF Next, Access, Call
<1>4. ASSUME IInv, [Next]_vars PROVE [Asked]_vars
    BY <1>3, <1>4
<1> QED BY <1>4, AlwaysIInv, PTL DEF Spec, UnmasksOnlyWhenAsked
-----------------------------------------------------------------------------
(* The abstract table                                                      *)

\* The two registers of the entry a caller is at.
Low(p) == regs[chip[p]][EntryReg(irq[p])]
High(p) == regs[chip[p]][EntryReg(irq[p]) + 1]

\* The entry a caller has in hand is what its request makes of the entry in the
\* table, as it still is; after the first write half of it is there.
Current(p) ==
    /\ pc[p] \in Reading /\ half[p] = 1 => entry[p].low = Low(p)
    /\ pc[p] \in Writing /\ req[p].op = "route" => entry[p] = Simple(req[p].vector, req[p].dest)
    /\ pc[p] \in Writing /\ req[p].op = "mask_all" => entry[p] = MaskedEntry
    /\ pc[p] \in Writing /\ req[p].op \in {"mask", "unmask"} /\ half[p] = 0 =>
          entry[p] = SetMasked([low |-> Low(p), high |-> High(p)], req[p].op = "mask")
    /\ HalfWritten(p) => entry[p].low = Low(p)

EntryIsCurrent == \A p \in Callers : Current(p)

\* Both registers of the entry a caller is at are in the table.
LEMMA EntryInTable ==
    ASSUME IInv, NEW p \in Callers
    PROVE  /\ EntryReg(irq[p]) \in Nat
           /\ EntryReg(irq[p]) \in TableRegs(chip[p])
           /\ EntryReg(irq[p]) + 1 \in TableRegs(chip[p])
           /\ Low(p) \in Nat /\ High(p) \in Nat
<1>1. chip[p] \in ChipIds /\ irq[p] \in Pins(chip[p]) /\ irq[p] \in 0..119
    BY CallFacts
<1>2. EntryReg(irq[p]) \in Nat
    BY <1>1 DEF EntryReg, REG_REDTBL_BASE
<1>3. EntryReg(irq[p]) + 0 \in TableRegs(chip[p]) /\ EntryReg(irq[p]) + 1 \in TableRegs(chip[p])
    BY <1>1, RegFacts
<1>4. EntryReg(irq[p]) \in TableRegs(chip[p])
    BY <1>2, <1>3
<1>5. regs[chip[p]] \in [TableRegs(chip[p]) -> Nat]
    BY <1>1 DEF IInv, Typed, TypeOK
<1> QED BY <1>2, <1>3, <1>4, <1>5 DEF Low, High

\* An access leaves the other callers alone, and the entries they are at
\* (with callers serialised they are at other chips).
LEMMA OthersStay ==
    ASSUME IInv, Serialised, NEW p \in Callers, Access(p), NEW q \in Callers, q # p
    PROVE  /\ pc'[q] = pc[q] /\ half'[q] = half[q] /\ irq'[q] = irq[q] /\ chip'[q] = chip[q]
           /\ entry'[q] = entry[q] /\ req'[q] = req[q]
           /\ req[q] # NoCall => Low(q)' = Low(q) /\ High(q)' = High(q)
<1>1. /\ pc \in [Callers -> {"idle", "read_select", "read_window", "write_select", "write_window"}]
      /\ half \in [Callers -> 0..1] /\ chip \in [Callers -> ChipIds] /\ irq \in [Callers -> Nat]
      /\ entry \in [Callers -> Entries] /\ req \in [Callers -> Requests \cup {NoCall}]
    BY DEF IInv, Typed, TypeOK, Entries
<1>2. /\ pc'[q] = pc[q] /\ half'[q] = half[q] /\ irq'[q] = irq[q] /\ chip'[q] = chip[q]
      /\ entry'[q] = entry[q] /\ req'[q] = req[q]
    <2>1. CASE Select(p)
        BY <1>1, <2>1 DEF Select, Goto
    <2>2. CASE ReadLow(p) \/ ReadHigh(p)
        BY <1>1, <2>2 DEF ReadLow, ReadHigh, Goto
    <2>3. CASE WriteLow(p)
        BY <1>1, <2>3 DEF WriteLow, Goto
    <2>4. CASE WriteHigh(p)
        BY <1>1, <2>4 DEF WriteHigh, Goto, Forget
    <2> QED BY <2>1, <2>2, <2>3, <2>4 DEF Access
<1>3. ASSUME req[q] # NoCall PROVE Low(q)' = Low(q) /\ High(q)' = High(q)
    <2>1. CASE UNCHANGED regs
        BY <1>2, <2>1 DEF Low, High
    <2>2. CASE WriteWindow(p)
        <3>1. chip[q] # chip[p] /\ chip[q] \in ChipIds
            BY <1>3, <2>2, WindowWritten, ChipsApart, CallFacts
        <3> QED BY <1>2, <2>2, <3>1, WindowWritten, EntryInTable DEF Low, High
    <2> QED BY <2>1, <2>2 DEF Access, Select, ReadLow, ReadHigh, WriteLow, WriteHigh
<1> QED BY <1>2, <1>3

\* What is read and written is the entry of the call, and stays so until the
\* call is done with it (ioapic.rs:250-325).
LEMMA CurrentKept ==
    ASSUME IInv, EntryIsCurrent, Serialised, [Next]_vars
    PROVE  EntryIsCurrent'
<1>0. /\ pc \in [Callers -> {"idle", "read_select", "read_window", "write_select", "write_window"}]
      /\ half \in [Callers -> 0..1] /\ chip \in [Callers -> ChipIds] /\ irq \in [Callers -> Nat]
      /\ entry \in [Callers -> Entries] /\ req \in [Callers -> Requests \cup {NoCall}]
    BY DEF IInv, Typed, TypeOK, Entries
<1>1. ASSUME NEW p \in Callers, Access(p) PROVE EntryIsCurrent'
    <2>1. ASSUME NEW q \in Callers, q # p PROVE Current(q)'
        <3>1. CASE req[q] = NoCall
            <4>1. pc'[q] = "idle"
                BY <1>1, <2>1, <3>1, OthersStay DEF IInv, CallsAreInOrder
            <4> QED BY <4>1 DEF Current, HalfWritten, Reading, Writing
        <3>2. CASE req[q] # NoCall
            <4>1. /\ pc'[q] = pc[q] /\ half'[q] = half[q] /\ entry'[q] = entry[q]
                  /\ req'[q] = req[q] /\ Low(q)' = Low(q) /\ High(q)' = High(q)
                BY <1>1, <2>1, <3>2, OthersStay
            <4>2. Current(q)
                BY DEF EntryIsCurrent
            <4> QED BY <4>1, <4>2 DEF Current, HalfWritten
        <3> QED BY <3>1, <3>2
    <2>2. Current(p)
        BY DEF EntryIsCurrent
    <2>3. CASE Select(p)
        <3>1. /\ pc'[p] \in Reading <=> pc[p] \in Reading
              /\ pc'[p] \in Writing <=> pc[p] \in Writing
              /\ UNCHANGED <<regs, req, chip, irq, half, entry>>
            BY <1>0, <2>3 DEF Select, Goto, Reading, Writing
        <3>2. Low(p)' = Low(p) /\ High(p)' = High(p)
            BY <3>1 DEF Low, High
        <3>3. Current(p)'
            BY <2>2, <3>1, <3>2 DEF Current, HalfWritten, Writing
        <3> QED BY <2>1, <3>3 DEF EntryIsCurrent
    <2>4. CASE ReadLow(p)
        <3>1. pc[p] \in Windows /\ half[p] = 0
            BY <2>4 DEF ReadLow, Windows
        <3>2. regsel[chip[p]] = EntryReg(irq[p])
            BY <3>1, CallFacts, EntryInTable DEF IInv, SelectedIsThere
        <3>3. /\ pc'[p] = "read_select" /\ half'[p] = 1 /\ UNCHANGED <<regs, chip, irq>>
              /\ entry'[p].low = Low(p)
            BY <1>0, <2>4, <3>2 DEF ReadLow, Goto, Low, Entries
        <3>4. Low(p)' = Low(p)
            BY <3>3 DEF Low
        <3>5. Current(p)'
            BY <3>3, <3>4 DEF Current, HalfWritten, Reading, Writing
        <3> QED BY <2>1, <3>5 DEF EntryIsCurrent
    <2>5. CASE ReadHigh(p)
        <3>1. pc[p] \in Windows /\ pc[p] \in Reading /\ half[p] = 1
            BY <2>5 DEF ReadHigh, Windows, Reading
        <3>2. regsel[chip[p]] = EntryReg(irq[p]) + 1
            BY <3>1, CallFacts DEF IInv, SelectedIsThere
        <3>3. /\ pc'[p] = "write_select" /\ half'[p] = 0 /\ UNCHANGED <<regs, req, chip, irq>>
              /\ entry'[p] = SetMasked([entry[p] EXCEPT !.high = High(p)], req[p].op = "mask")
            BY <1>0, <2>5, <3>2 DEF ReadHigh, Goto, High
        <3>4. [entry[p] EXCEPT !.high = High(p)] = [low |-> Low(p), high |-> High(p)]
            <4>1. entry[p] \in Entries /\ entry[p].low = Low(p)
                BY <2>2, <3>1, CallFacts DEF Current
            <4> QED BY <4>1 DEF Entries
        <3>5. req[p].op \in {"mask", "unmask"}
            BY <3>1 DEF IInv, CallsAreInOrder
        <3>6. Low(p)' = Low(p) /\ High(p)' = High(p)
            BY <3>3 DEF Low, High
        <3>7. Current(p)'
            BY <3>3, <3>4, <3>5, <3>6 DEF Current, HalfWritten, Reading, Writing
        <3> QED BY <2>1, <3>7 DEF EntryIsCurrent
    <2>6. CASE WriteLow(p)
        <3>1. /\ half[p] = 0 /\ WriteWindow(p) /\ pc'[p] = "write_select" /\ half'[p] = 1
              /\ UNCHANGED <<req, chip, irq, entry>>
            BY <1>0, <2>6 DEF WriteLow, Goto
        <3>2. pc[p] \in Writing /\ regsel[chip[p]] = EntryReg(irq[p])
            BY <3>1, WindowWritten, EntryInTable DEF Writing
        <3>3. Low(p)' = entry[p].low
            BY <3>1, <3>2, WindowWritten, EntryInTable, CallFacts DEF Low, Word
        <3>4. Current(p)'
            BY <2>2, <3>1, <3>2, <3>3 DEF Current, HalfWritten, Reading, Writing
        <3> QED BY <2>1, <3>4 DEF EntryIsCurrent
    <2>7. CASE WriteHigh(p)
        <3>1. WriteWindow(p) /\ half'[p] = 0
            BY <1>0, <2>7 DEF WriteHigh
        <3>2. pc[p] \in Writing
            BY <3>1, WindowWritten DEF Writing
        <3>3. \/ pc'[p] = "idle"
              \/ /\ pc'[p] = "write_select" /\ UNCHANGED <<req, entry>>
                 /\ req[p].op = "mask_all"
            BY <1>0, <2>7 DEF WriteHigh, Goto, HasNextPin, HasNextChip
        <3>4. Current(p)'
            BY <2>2, <3>1, <3>2, <3>3 DEF Current, HalfWritten, Reading, Writing
        <3> QED BY <2>1, <3>4 DEF EntryIsCurrent
    <2> QED BY <1>1, <2>3, <2>4, <2>5, <2>6, <2>7 DEF Access
<1>2. ASSUME NEW p \in Callers, NEW r, NEW label, NEW k, NEW i, NEW e,
             Beginning(p, r, label, k, i, e)
      PROVE  EntryIsCurrent'
    <2>1. /\ pc'[p] = label /\ req'[p] = r /\ half'[p] = 0 /\ entry'[p] = e /\ UNCHANGED regs
          /\ \A q \in Callers : q # p =>
                /\ pc'[q] = pc[q] /\ half'[q] = half[q] /\ irq'[q] = irq[q] /\ chip'[q] = chip[q]
                /\ entry'[q] = entry[q] /\ req'[q] = req[q]
        BY <1>0, <1>2 DEF Beginning, Enter
    <2>2. ASSUME NEW q \in Callers, q # p PROVE Current(q)'
        <3>1. Low(q)' = Low(q) /\ High(q)' = High(q)
            BY <2>1, <2>2 DEF Low, High
        <3>2. Current(q)
            BY DEF EntryIsCurrent
        <3> QED BY <2>1, <2>2, <3>1, <3>2 DEF Current, HalfWritten
    <2>3. Current(p)'
        BY <1>2, <2>1 DEF Beginning, Current, HalfWritten, Reading, Writing
    <2> QED BY <2>2, <2>3 DEF EntryIsCurrent
<1>3. CASE UNCHANGED vars
    BY <1>3 DEF vars, callVars, EntryIsCurrent, Current, HalfWritten, Low, High
<1> QED BY <1>1, <1>2, <1>3, Calls DEF Next

\* With callers serialised, two calls are never at one interrupt.
LEMMA CallsAtOwn ==
    ASSUME IInv, Serialised
    PROVE  /\ \A p \in Callers : At(p) \in Gsis /\ PinOf[At(p)] = <<chip[p], irq[p]>>
           /\ \A p, q \in Callers :
                 p # q /\ req[p] # NoCall /\ req[q] # NoCall => At(p) # At(q)
<1>1. \A p \in Callers : At(p) \in Gsis /\ PinOf[At(p)] = <<chip[p], irq[p]>>
    BY CallFacts, PinFacts DEF At
<1>2. ASSUME NEW p \in Callers, NEW q \in Callers, p # q, req[p] # NoCall, req[q] # NoCall
      PROVE  At(p) # At(q)
    BY <1>1, <1>2, ChipsApart
<1> QED BY <1>1, <1>2

\* What the abstract table has for an interrupt.
TableEntries ==
    \A g \in Gsis :
        /\ \A p \in Callers : HalfWritten(p) /\ At(p) = g => Table[g] = Decode(entry[p])
        /\ (\A p \in Callers : ~(HalfWritten(p) /\ At(p) = g)) => Table[g] = Line(g)

\* The entry in hand stands for a half-written one, and there is one such caller.
LEMMA TableFacts == IInv /\ Serialised => TableEntries
<1> SUFFICES ASSUME IInv, Serialised, NEW g \in Gsis
             PROVE  /\ \A p \in Callers :
                          HalfWritten(p) /\ At(p) = g => Table[g] = Decode(entry[p])
                    /\ (\A p \in Callers : ~(HalfWritten(p) /\ At(p) = g)) => Table[g] = Line(g)
    BY DEF TableEntries
<1> DEFINE Here(p) == HalfWritten(p) /\ At(p) = g
           first == CHOOSE p \in Callers : Here(p)
<1>1. Table[g] = IF \E p \in Callers : Here(p) THEN Decode(entry[first]) ELSE Line(g)
    BY DEF Table
<1>2. \A p \in Callers : HalfWritten(p) => req[p] # NoCall
    BY DEF IInv, CallsAreInOrder, HalfWritten
<1>3. ASSUME NEW p \in Callers, NEW q \in Callers, Here(p), Here(q) PROVE p = q
    BY <1>2, <1>3, CallsAtOwn
<1>4. ASSUME NEW p \in Callers, Here(p) PROVE first = p
    <2>1. first \in Callers /\ Here(first)
        BY <1>4
    <2> HIDE DEF first, Here
    <2> QED BY <1>3, <1>4, <2>1
<1> QED BY <1>1, <1>4

\* ... and in the next state.
LEMMA TableFactsNext == IInv' /\ Serialised => TableEntries'
<1>1. IInv /\ Serialised => TableEntries
    BY TableFacts
<1>2. IInv' /\ Serialised' => TableEntries'
    BY <1>1, PTL
<1> QED BY <1>2

\* The table changes at the interrupts whose registers or half-written entries do.
LEMMA EntryStays ==
    ASSUME IInv, IInv', Serialised, NEW g \in Gsis, Line(g)' = Line(g),
           \A q \in Callers : (HalfWritten(q) /\ At(q) = g)' <=> HalfWritten(q) /\ At(q) = g,
           \A q \in Callers : HalfWritten(q) /\ At(q) = g => entry'[q] = entry[q]
    PROVE  Table'[g] = Table[g]
<1>1. TableEntries /\ TableEntries'
    BY TableFacts, TableFactsNext
<1>2. CASE \A q \in Callers : ~(HalfWritten(q) /\ At(q) = g)
    <2>1. Table[g] = Line(g)
        BY <1>1, <1>2 DEF TableEntries
    <2>2. Table'[g] = Line(g)'
        BY <1>1, <1>2 DEF TableEntries
    <2> QED BY <2>1, <2>2
<1>3. ASSUME NEW q \in Callers, HalfWritten(q) /\ At(q) = g PROVE Table'[g] = Table[g]
    <2>1. Table[g] = Decode(entry[q])
        BY <1>1, <1>3 DEF TableEntries
    <2>2. Table'[g] = Decode(entry[q])'
        BY <1>1, <1>3 DEF TableEntries
    <2>3. Decode(entry[q])' = Decode(entry[q])
        BY <1>3 DEF Decode, IsMasked
    <2> QED BY <2>1, <2>2, <2>3
<1> QED BY <1>2, <1>3

\* What RedirectionEntry's constructors and set_masked() decode to: the request's
\* effect on the entry (ioapic.rs:67-142).
LEMMA DecodeFacts ==
    /\ \A v \in Vectors, d \in ApicIds :
          Decode(Simple(v, d)) = [vector |-> v, dest |-> d, masked |-> FALSE]
    /\ Decode(MaskedEntry) = [vector |-> 0, dest |-> 0, masked |-> TRUE]
    /\ \A e \in Entries, m \in BOOLEAN :
          Decode(SetMasked(e, m)) =
              [vector |-> Decode(e).vector, dest |-> Decode(e).dest, masked |-> m]
<1>1. ASSUME NEW v \in Vectors, NEW d \in ApicIds
      PROVE  Decode(Simple(v, d)) = [vector |-> v, dest |-> d, masked |-> FALSE]
    <2>1. v \in 0..255 /\ d \in 0..255
        BY IoApicAssumption DEF U8
    <2>2. /\ v % U8 = v /\ (((d % U8) * DEST) \div DEST) % U8 = d
          /\ ~((v \div MASKED) % 2 = 1)
        BY <2>1, SMT DEF U8, DEST, MASKED
    <2>3. Simple(v, d).low = v /\ Simple(v, d).high = (d % U8) * DEST
        BY DEF Simple
    <2>4. IsMasked(Simple(v, d)) = FALSE
        BY <2>2, <2>3 DEF IsMasked
    <2> QED BY <2>2, <2>3, <2>4 DEF Decode
<1>2. Decode(MaskedEntry) = [vector |-> 0, dest |-> 0, masked |-> TRUE]
    <2>1. MASKED % U8 = 0 /\ (0 \div DEST) % U8 = 0 /\ (MASKED \div MASKED) % 2 = 1
        BY SMT DEF U8, DEST, MASKED
    <2>2. MaskedEntry.low = MASKED /\ MaskedEntry.high = 0
        BY DEF MaskedEntry
    <2>3. IsMasked(MaskedEntry) = TRUE
        BY <2>1, <2>2 DEF IsMasked
    <2> QED BY <2>1, <2>2, <2>3 DEF Decode
<1>3. ASSUME NEW e \in Entries, NEW m \in BOOLEAN
      PROVE  Decode(SetMasked(e, m)) =
                 [vector |-> Decode(e).vector, dest |-> Decode(e).dest, masked |-> m]
    <2>1. /\ SetMasked(e, m).low % U8 = e.low % U8 /\ SetMasked(e, m).high = e.high
          /\ IsMasked(SetMasked(e, m)) <=> m
        BY SetMaskedFacts DEF Entries
    <2>2. IsMasked(SetMasked(e, m)) = m
        BY <2>1 DEF IsMasked
    <2> QED BY <2>1, <2>2 DEF Decode
<1> QED BY <1>1, <1>2, <1>3

\* What a request does to an entry of the abstract table, its parts spelled out.
LEMMA EffectFacts ==
    ASSUME NEW r, NEW e, e = [vector |-> e.vector, dest |-> e.dest, masked |-> e.masked]
    PROVE  /\ r.op = "route" =>
                 Routing!Effect(r, e) = [vector |-> r.vector, dest |-> r.dest, masked |-> FALSE]
           /\ r.op = "mask" =>
                 Routing!Effect(r, e) = [vector |-> e.vector, dest |-> e.dest, masked |-> TRUE]
           /\ r.op = "unmask" =>
                 Routing!Effect(r, e) = [vector |-> e.vector, dest |-> e.dest, masked |-> FALSE]
           /\ r.op = "mask_all" =>
                 Routing!Effect(r, e) = [vector |-> 0, dest |-> 0, masked |-> TRUE]
<1> DEFINE to(b) == [vector |-> e.vector, dest |-> e.dest, masked |-> b]
           masking == [e EXCEPT !.masked = TRUE]
           unmasking == [e EXCEPT !.masked = FALSE]
           routing == [vector |-> r.vector, dest |-> r.dest, masked |-> FALSE]
           clearing == [vector |-> 0, dest |-> 0, masked |-> TRUE]
<1>1. ASSUME NEW b PROVE [e EXCEPT !.masked = b] = to(b)
    <2>1. ASSUME NEW v, NEW d, NEW m
          PROVE  [[vector |-> v, dest |-> d, masked |-> m] EXCEPT !.masked = b] =
                     [vector |-> v, dest |-> d, masked |-> b]
        BY SMT
    <2> QED BY <2>1, Zenon
<1>2. masking = to(TRUE) /\ unmasking = to(FALSE)
    BY <1>1, Zenon
<1>3. Routing!Effect(r, e) = CASE r.op = "route"    -> routing
                               [] r.op = "mask"     -> masking
                               [] r.op = "unmask"   -> unmasking
                               [] r.op = "mask_all" -> clearing
    BY DEF Routing!Effect
<1> HIDE DEF masking, unmasking, routing, clearing
<1>4. /\ r.op = "route" => Routing!Effect(r, e) = routing
      /\ r.op = "mask" => Routing!Effect(r, e) = masking
      /\ r.op = "unmask" => Routing!Effect(r, e) = unmasking
      /\ r.op = "mask_all" => Routing!Effect(r, e) = clearing
    BY <1>3
<1> QED BY <1>2, <1>4 DEF routing, clearing

\* The line a caller is at.
LEMMA LineAt ==
    ASSUME IInv, Serialised, NEW p \in Callers
    PROVE  Line(At(p)) = Decode([low |-> Low(p), high |-> High(p)])
BY CallsAtOwn DEF Line, Low, High

\* A write to the table changes the line its caller is at and no other.
LEMMA LinesStay ==
    ASSUME IInv, Serialised, NEW p \in Callers, WriteWindow(p), NEW g \in Gsis, g # At(p)
    PROVE  Line(g)' = Line(g)
<1>1. PICK k \in ChipIds : \E i \in Pins(k) : PinOf[g] = <<k, i>> /\ g = GsiBase(k) + i
    BY PinFacts
<1>2. PICK i \in Pins(k) : PinOf[g] = <<k, i>> /\ g = GsiBase(k) + i
    BY <1>1
<1>3. chip[p] \in ChipIds /\ irq[p] \in 0..119 /\ i \in 0..119 /\ half[p] \in 0..1
    BY CallFacts, ChipFacts
<1>4. k # chip[p] \/ i # irq[p]
    BY <1>2 DEF At
<1>5. /\ EntryReg(i) \in TableRegs(k) /\ EntryReg(i) + 1 \in TableRegs(k)
    <2>1. EntryReg(i) + 0 \in TableRegs(k) /\ EntryReg(i) + 1 \in TableRegs(k)
        BY RegFacts
    <2>2. EntryReg(i) + 0 = EntryReg(i)
        BY <1>3 DEF EntryReg, REG_REDTBL_BASE
    <2> QED BY <2>1, <2>2
<1>6. regsel[chip[p]] = EntryReg(irq[p]) + half[p]
    BY WindowWritten
<1>7. i # irq[p] => EntryReg(i) # EntryReg(irq[p]) + half[p]
                    /\ EntryReg(i) + 1 # EntryReg(irq[p]) + half[p]
    BY <1>3 DEF EntryReg, REG_REDTBL_BASE
<1>8. regs'[k][EntryReg(i)] = regs[k][EntryReg(i)]
      /\ regs'[k][EntryReg(i) + 1] = regs[k][EntryReg(i) + 1]
    BY <1>4, <1>5, <1>6, <1>7, WindowWritten
<1> QED BY <1>2, <1>8 DEF Line

\* An access that writes nothing, and the beginning of a call, leave the
\* abstract table alone.
LEMMA TableStays ==
    ASSUME IInv, IInv', Serialised, UNCHANGED regs,
           \A q \in Callers : /\ HalfWritten(q)' <=> HalfWritten(q)
                              /\ HalfWritten(q) => At(q)' = At(q) /\ entry'[q] = entry[q]
    PROVE  Table' = Table
<1>1. ASSUME NEW g \in Gsis PROVE Table'[g] = Table[g]
    <2>1. Line(g)' = Line(g)
        BY DEF Line
    <2> QED BY <2>1, EntryStays
<1>2. Table = [g \in Gsis |-> Table[g]] /\ Table' = [g \in Gsis |-> Table'[g]]
    BY DEF Table
<1> QED BY <1>1, <1>2

\* The write of the low half changes the entry of one interrupt, to what the
\* request makes of it (ioapic.rs:272-333).
LEMMA LowApplies ==
    ASSUME IInv, IInv', EntryIsCurrent, Serialised, NEW p \in Callers, WriteLow(p)
    PROVE  Table' = [Table EXCEPT ![At(p)] = Routing!Effect(req[p], @)]
<1>0. /\ pc \in [Callers -> {"idle", "read_select", "read_window", "write_select", "write_window"}]
      /\ half \in [Callers -> 0..1]
    BY DEF IInv, Typed, TypeOK
<1>1. /\ half[p] = 0 /\ WriteWindow(p) /\ UNCHANGED <<req, chip, irq, entry>>
      /\ half' = [half EXCEPT ![p] = 1] /\ pc' = [pc EXCEPT ![p] = "write_select"]
    BY DEF WriteLow, Goto
<1>2. /\ req[p] # NoCall /\ req[p] \in Requests /\ pc[p] \in Writing
      /\ At(p) \in Gsis /\ At(p)' = At(p) /\ HalfWritten(p)' /\ ~HalfWritten(p)
    BY <1>0, <1>1, WindowWritten, CallsAtOwn DEF At, HalfWritten, Writing
<1>3. \A q \in Callers : q # p => (HalfWritten(q)' <=> HalfWritten(q)) /\ At(q)' = At(q)
    BY <1>0, <1>1 DEF HalfWritten, At
<1>4. ASSUME NEW g \in Gsis, g # At(p) PROVE Table'[g] = Table[g]
    <2>1. Line(g)' = Line(g)
        BY <1>1, <1>4, LinesStay
    <2>2. \A q \in Callers : (HalfWritten(q) /\ At(q) = g)' <=> HalfWritten(q) /\ At(q) = g
        BY <1>2, <1>3, <1>4
    <2> QED BY <1>1, <2>1, <2>2, EntryStays
<1>5. Table'[At(p)] = Decode(entry[p])
    <2>1. Table'[At(p)] = Decode(entry[p])'
        BY <1>2, TableFactsNext DEF TableEntries
    <2> QED BY <1>1, <2>1 DEF Decode, IsMasked
<1>6. Table[At(p)] = Decode([low |-> Low(p), high |-> High(p)])
    <2>1. \A q \in Callers : HalfWritten(q) => req[q] # NoCall
        BY DEF IInv, CallsAreInOrder, HalfWritten
    <2>2. \A q \in Callers : ~(HalfWritten(q) /\ At(q) = At(p))
        BY <1>2, <2>1, CallsAtOwn
    <2> QED BY <1>2, <2>2, TableFacts, LineAt DEF TableEntries
<1>7. Decode(entry[p]) = Routing!Effect(req[p], Table[At(p)])
    <2> DEFINE old == [low |-> Low(p), high |-> High(p)]
    <2>1. old \in Entries
        BY EntryInTable DEF Entries
    <2>2. Current(p)
        BY DEF EntryIsCurrent
    <2>3. Decode(old) = [vector |-> Decode(old).vector, dest |-> Decode(old).dest,
                         masked |-> Decode(old).masked]
        BY DEF Decode
    <2>4. Table[At(p)] = Decode(old)
        BY <1>6
    <2> HIDE DEF old
    <2> DEFINE effect == Routing!Effect(req[p], Decode(old))
    <2>5. /\ req[p].op = "route" =>
                effect = [vector |-> req[p].vector, dest |-> req[p].dest, masked |-> FALSE]
          /\ req[p].op = "mask" =>
                effect = [vector |-> Decode(old).vector, dest |-> Decode(old).dest,
                          masked |-> TRUE]
          /\ req[p].op = "unmask" =>
                effect = [vector |-> Decode(old).vector, dest |-> Decode(old).dest,
                          masked |-> FALSE]
          /\ req[p].op = "mask_all" => effect = [vector |-> 0, dest |-> 0, masked |-> TRUE]
        BY <2>3, EffectFacts, Zenon
    <2> HIDE DEF effect
    <2> SUFFICES Decode(entry[p]) = effect
        BY <2>4 DEF effect
    <2>6. CASE req[p].op = "route"
        <3>1. req[p].vector \in Vectors /\ req[p].dest \in ApicIds
            BY <1>2, <2>6 DEF Requests
        <3>2. entry[p] = Simple(req[p].vector, req[p].dest)
            BY <1>2, <2>2, <2>6 DEF Current
        <3> QED BY <2>6, <2>5, <3>1, <3>2, DecodeFacts, Zenon
    <2>7. CASE req[p].op = "mask_all"
        <3>1. entry[p] = MaskedEntry
            BY <1>2, <2>2, <2>7 DEF Current
        <3> QED BY <2>7, <2>5, <3>1, DecodeFacts, Zenon
    <2>8. CASE req[p].op = "mask"
        <3>1. entry[p] = SetMasked(old, TRUE)
            BY <1>1, <1>2, <2>2, <2>8 DEF Current, old
        <3>2. Decode(entry[p]) = [vector |-> Decode(old).vector, dest |-> Decode(old).dest,
                                  masked |-> TRUE]
            BY <2>1, <3>1, DecodeFacts
        <3> QED BY <2>8, <2>5, <3>2
    <2>9. CASE req[p].op = "unmask"
        <3>1. entry[p] = SetMasked(old, FALSE)
            BY <1>1, <1>2, <2>2, <2>9 DEF Current, old
        <3>2. Decode(entry[p]) = [vector |-> Decode(old).vector, dest |-> Decode(old).dest,
                                  masked |-> FALSE]
            BY <2>1, <3>1, DecodeFacts
        <3> QED BY <2>9, <2>5, <3>2
    <2> QED BY <1>2, <2>6, <2>7, <2>8, <2>9, RequestFacts
<1>8. Table = [g \in Gsis |-> Table[g]] /\ Table' = [g \in Gsis |-> Table'[g]]
    BY DEF Table
<1> QED BY <1>2, <1>4, <1>5, <1>7, <1>8

\* The write of the high half completes the entry, and changes no other
\* (ioapic.rs:272-282).
LEMMA HighCompletes ==
    ASSUME IInv, IInv', EntryIsCurrent, Serialised, NEW p \in Callers, WriteHigh(p)
    PROVE  Table' = Table
<1>0. /\ pc \in [Callers -> {"idle", "read_select", "read_window", "write_select", "write_window"}]
      /\ half \in [Callers -> 0..1]
    BY DEF IInv, Typed, TypeOK
<1>1. half[p] = 1 /\ WriteWindow(p) /\ half' = [half EXCEPT ![p] = 0] /\ Access(p)
    BY DEF WriteHigh, Access
<1>2. /\ req[p] # NoCall /\ pc[p] \in Writing /\ At(p) \in Gsis
      /\ HalfWritten(p) /\ ~HalfWritten(p)'
    BY <1>0, <1>1, WindowWritten, CallsAtOwn DEF HalfWritten, Writing
<1>3. ASSUME NEW q \in Callers, q # p
      PROVE  (HalfWritten(q)' <=> HalfWritten(q)) /\ At(q)' = At(q) /\ entry'[q] = entry[q]
    <2>1. /\ pc'[q] = pc[q] /\ half'[q] = half[q] /\ irq'[q] = irq[q] /\ chip'[q] = chip[q]
          /\ entry'[q] = entry[q]
        BY <1>1, <1>3, OthersStay
    <2> QED BY <2>1 DEF HalfWritten, At
<1>4. ASSUME NEW g \in Gsis, g # At(p) PROVE Table'[g] = Table[g]
    <2>1. Line(g)' = Line(g)
        BY <1>1, <1>4, LinesStay
    <2>2. \A q \in Callers : (HalfWritten(q) /\ At(q) = g)' <=> HalfWritten(q) /\ At(q) = g
        BY <1>2, <1>3, <1>4
    <2>3. \A q \in Callers : HalfWritten(q) /\ At(q) = g => entry'[q] = entry[q]
        BY <1>3, <1>4
    <2> QED BY <2>1, <2>2, <2>3, EntryStays
<1>5. Table[At(p)] = Decode(entry[p])
    BY <1>2, TableFacts DEF TableEntries
<1>6. Table'[At(p)] = Decode(entry[p])
    <2> DEFINE k == chip[p]
               r == EntryReg(irq[p])
    <2>0. PICK g \in Gsis : g = At(p)
        BY <1>2
    <2>1. \A q \in Callers : HalfWritten(q) => req[q] # NoCall
        BY DEF IInv, CallsAreInOrder, HalfWritten
    <2>2. \A q \in Callers : ~(HalfWritten(q)' /\ At(q)' = g)
        BY <1>2, <1>3, <2>0, <2>1, CallsAtOwn
    <2>3. k \in ChipIds /\ r \in Nat /\ r \in TableRegs(k) /\ r + 1 \in TableRegs(k)
        BY CallFacts, EntryInTable
    <2>4. regsel[k] = r + 1
        BY <1>1, WindowWritten
    <2>5. regs'[k][r] = regs[k][r] /\ regs'[k][r + 1] = entry[p].high
        BY <1>1, <2>3, <2>4, WindowWritten DEF Word
    <2>6. regs[k][r] = entry[p].low /\ entry[p] \in Entries
        BY <1>2, CallFacts DEF EntryIsCurrent, Current, Low
    <2>7. [low |-> regs'[k][r], high |-> regs'[k][r + 1]] = entry[p]
        BY <2>5, <2>6 DEF Entries
    <2>8. PinOf[g] = <<k, irq[p]>>
        BY <2>0, CallsAtOwn
    <2>9. Line(g)' = Decode([low |-> regs'[k][r], high |-> regs'[k][r + 1]])
        BY <2>8 DEF Line
    <2>10. Table'[g] = Line(g)'
        BY <2>2, TableFactsNext DEF TableEntries
    <2> QED BY <2>0, <2>7, <2>9, <2>10
<1>7. Table = [g \in Gsis |-> Table[g]] /\ Table' = [g \in Gsis |-> Table'[g]]
    BY DEF Table
<1> QED BY <1>2, <1>4, <1>5, <1>6, <1>7

\* What a call has not come to, case by case.
LEMMA TodoFacts ==
    ASSUME NEW p \in Callers
    PROVE  /\ req[p] = NoCall => Todo(p) = {}
           /\ req[p] # NoCall /\ req[p].op # "mask_all" =>
                 Todo(p) = IF HalfWritten(p) THEN {} ELSE {req[p].gsi}
           /\ req[p] # NoCall /\ req[p].op = "mask_all" =>
                 Todo(p) = {g \in Gsis :
                               \/ PinOf[g][1] > chip[p]
                               \/ PinOf[g][1] = chip[p] /\ PinOf[g][2] > irq[p]
                               \/ PinOf[g] = <<chip[p], irq[p]>> /\ ~HalfWritten(p)}
BY DEF Todo

\* ... and in the next state.
LEMMA TodoFactsNext ==
    ASSUME NEW p \in Callers
    PROVE  /\ req'[p] = NoCall => Todo(p)' = {}
           /\ req'[p] # NoCall /\ req'[p].op # "mask_all" =>
                 Todo(p)' = IF HalfWritten(p)' THEN {} ELSE {req'[p].gsi}
           /\ req'[p] # NoCall /\ req'[p].op = "mask_all" =>
                 Todo(p)' = {g \in Gsis :
                                \/ PinOf[g][1] > chip'[p]
                                \/ PinOf[g][1] = chip'[p] /\ PinOf[g][2] > irq'[p]
                                \/ PinOf[g] = <<chip'[p], irq'[p]>> /\ ~HalfWritten(p)'}
BY DEF Todo

\* A call that is where it was has the same to do.
LEMMA TodoStays ==
    ASSUME NEW p \in Callers, req'[p] = req[p], chip'[p] = chip[p], irq'[p] = irq[p],
           HalfWritten(p)' <=> HalfWritten(p)
    PROVE  Todo(p)' = Todo(p)
BY DEF Todo

\* The selects and the reads do not show in the abstract table.
LEMMA ReadsAreHidden ==
    ASSUME IInv, IInv', Serialised, NEW p \in Callers, Select(p) \/ ReadLow(p) \/ ReadHigh(p)
    PROVE  UNCHANGED Routing!vars
<1>0. /\ pc \in [Callers -> {"idle", "read_select", "read_window", "write_select", "write_window"}]
      /\ half \in [Callers -> 0..1] /\ entry \in [Callers -> Entries]
    BY DEF IInv, Typed, TypeOK, Entries
<1>1. UNCHANGED <<regs, req, chip, irq>>
    BY DEF Select, ReadLow, ReadHigh
<1>2. \A q \in Callers : /\ HalfWritten(q)' <=> HalfWritten(q)
                         /\ HalfWritten(q) => entry'[q] = entry[q]
    <2>1. CASE Select(p)
        BY <1>0, <2>1 DEF Select, Goto, HalfWritten
    <2>2. CASE ReadLow(p)
        BY <1>0, <2>2 DEF ReadLow, Goto, HalfWritten
    <2>3. CASE ReadHigh(p)
        BY <1>0, <2>3 DEF ReadHigh, Goto, HalfWritten
    <2> QED BY <2>1, <2>2, <2>3
<1>3. Table' = Table
    <2>1. \A q \in Callers : At(q)' = At(q)
        BY <1>1 DEF At
    <2> QED BY <1>1, <1>2, <2>1, TableStays
<1>4. \A q \in Callers : Todo(q)' = Todo(q)
    BY <1>1, <1>2, TodoStays
<1> QED BY <1>1, <1>3, <1>4 DEF Routing!vars

\* The write of the low half is the abstract change of the entry.
LEMMA LowIsApply ==
    ASSUME IInv, IInv', EntryIsCurrent, Serialised, NEW p \in Callers, WriteLow(p)
    PROVE  Routing!Apply(p, At(p))
<1>0. /\ pc \in [Callers -> {"idle", "read_select", "read_window", "write_select", "write_window"}]
      /\ half \in [Callers -> 0..1]
    BY DEF IInv, Typed, TypeOK
<1>1. /\ half[p] = 0 /\ WriteWindow(p) /\ UNCHANGED <<req, chip, irq>>
      /\ half' = [half EXCEPT ![p] = 1] /\ pc' = [pc EXCEPT ![p] = "write_select"]
    BY DEF WriteLow, Goto
<1>2. req[p] # NoCall /\ HalfWritten(p)' /\ ~HalfWritten(p)
    BY <1>0, <1>1, WindowWritten DEF HalfWritten
<1>3. At(p) \in Todo(p) /\ Todo(p)' = Todo(p) \ {At(p)}
    <2>1. At(p) \in Gsis /\ PinOf[At(p)] = <<chip[p], irq[p]>>
        BY CallsAtOwn
    <2>2. \A g \in Gsis : PinOf[g] = <<chip[p], irq[p]>> => g = At(p)
        BY PinFacts DEF At
    <2>3. CASE req[p].op = "mask_all"
        <3>1. Todo(p) = {g \in Gsis : \/ PinOf[g][1] > chip[p]
                                      \/ PinOf[g][1] = chip[p] /\ PinOf[g][2] > irq[p]
                                      \/ PinOf[g] = <<chip[p], irq[p]>>}
            BY <1>2, <2>3, TodoFacts
        <3>2. Todo(p)' = {g \in Gsis : \/ PinOf[g][1] > chip[p]
                                       \/ PinOf[g][1] = chip[p] /\ PinOf[g][2] > irq[p]}
            BY <1>1, <1>2, <2>3, TodoFactsNext
        <3>3. ~(PinOf[At(p)][1] > chip[p]) /\ ~(PinOf[At(p)][2] > irq[p])
            <4>1. PinOf[At(p)][1] = chip[p] /\ PinOf[At(p)][2] = irq[p]
                BY <2>1
            <4>2. chip[p] \in Nat /\ irq[p] \in Nat
                BY ChipRange DEF IInv, Typed, TypeOK
            <4> QED BY <4>1, <4>2
        <3> QED BY <2>1, <2>2, <3>1, <3>2, <3>3
    <2>4. CASE req[p].op # "mask_all"
        <3>1. Todo(p) = {req[p].gsi} /\ Todo(p)' = {}
            BY <1>1, <1>2, <2>4, TodoFacts, TodoFactsNext
        <3>2. req[p].gsi \in Gsis /\ PinOf[req[p].gsi] = <<chip[p], irq[p]>>
            BY <1>1, <1>2, <2>4, WindowWritten, RequestFacts DEF IInv, CallsAreInOrder
        <3> QED BY <2>2, <3>1, <3>2
    <2> QED BY <2>3, <2>4
<1>4. \A q \in Callers : q # p => Todo(q)' = Todo(q)
    BY <1>0, <1>1, TodoStays DEF HalfWritten
<1>5. Table' = [Table EXCEPT ![At(p)] = Routing!Effect(req[p], @)]
    BY LowApplies
<1> DEFINE todo == [q \in Callers |-> Todo(q)]
<1>6. At(p) \in todo[p] /\ todo' = [todo EXCEPT ![p] = @ \ {At(p)}]
    BY <1>3, <1>4
<1> QED BY <1>1, <1>5, <1>6 DEF Routing!Apply

\* The write of the high half does not show, but for the last one of a call:
\* that is its return (ioapic.rs:327-333, 382-388).
LEMMA HighIsReturn ==
    ASSUME IInv, IInv', EntryIsCurrent, Serialised, NEW p \in Callers, WriteHigh(p)
    PROVE  UNCHANGED Routing!vars \/ Routing!Return(p)
<1>0. /\ pc \in [Callers -> {"idle", "read_select", "read_window", "write_select", "write_window"}]
      /\ half \in [Callers -> 0..1] /\ chip \in [Callers -> ChipIds] /\ irq \in [Callers -> Nat]
      /\ req \in [Callers -> Requests \cup {NoCall}]
    BY DEF IInv, Typed, TypeOK
<1>1. half[p] = 1 /\ WriteWindow(p) /\ half' = [half EXCEPT ![p] = 0] /\ Access(p)
    BY DEF WriteHigh, Access
<1>2. /\ req[p] # NoCall /\ req[p] \in Requests /\ HalfWritten(p) /\ ~HalfWritten(p)'
      /\ chip[p] \in 1..Len(Chips) /\ chip[p] \in Nat /\ irq[p] \in Nat /\ Len(Chips) \in Nat
      /\ MaxEntries(chip[p]) \in Nat
    <2>1. /\ chip[p] \in 1..Len(Chips) /\ chip[p] \in Nat /\ Len(Chips) \in Nat
          /\ irq[p] \in Nat
        BY <1>0, CallFacts, ChipRange
    <2>2. req[p] # NoCall /\ req[p] \in Requests /\ HalfWritten(p) /\ ~HalfWritten(p)'
        BY <1>0, <1>1, WindowWritten DEF HalfWritten
    <2>3. MaxEntries(chip[p]) \in Nat
        BY CallFacts, ChipFacts
    <2> QED BY <2>1, <2>2, <2>3
<1>3. Table' = Table
    BY HighCompletes
<1>4. ASSUME NEW q \in Callers, q # p PROVE Todo(q)' = Todo(q)
    <2>1. /\ pc'[q] = pc[q] /\ half'[q] = half[q] /\ irq'[q] = irq[q] /\ chip'[q] = chip[q]
          /\ req'[q] = req[q]
        BY <1>1, <1>4, OthersStay
    <2> QED BY <2>1, TodoStays DEF HalfWritten
<1>5. \A g \in Gsis : /\ PinOf[g] = <<PinOf[g][1], PinOf[g][2]>>
                       /\ PinOf[g][1] \in 1..Len(Chips) /\ PinOf[g][1] \in Nat
                       /\ PinOf[g][2] \in Nat /\ PinOf[g][2] < MaxEntries(PinOf[g][1])
    <2> TAKE g \in Gsis
    <2>1. PICK k \in ChipIds : \E i \in Pins(k) : PinOf[g] = <<k, i>>
        BY PinFacts
    <2>2. PICK i \in Pins(k) : PinOf[g] = <<k, i>>
        BY <2>1
    <2>3. k \in 1..Len(Chips) /\ k \in Nat /\ i \in Nat /\ i < MaxEntries(k)
        <3>1. k \in 1..Len(Chips) /\ k \in Nat
            BY ChipRange
        <3>2. MaxEntries(k) \in 1..120 /\ i \in 0..(MaxEntries(k) - 1)
            BY ChipFacts DEF Pins
        <3>3. i \in Nat /\ i < MaxEntries(k)
            BY <3>2
        <3> QED BY <3>1, <3>3, Zenon
    <2> QED BY <2>2, <2>3
<1>6. CASE /\ HasNextPin(p)
           /\ irq' = [irq EXCEPT ![p] = @ + 1]
           /\ UNCHANGED <<chip, req>>
    <2>1. /\ req'[p] = req[p] /\ req[p].op = "mask_all"
          /\ chip'[p] = chip[p] /\ irq'[p] = irq[p] + 1
        BY <1>0, <1>6 DEF HasNextPin
    <2>2. Todo(p) = {g \in Gsis : \/ PinOf[g][1] > chip[p]
                                  \/ PinOf[g][1] = chip[p] /\ PinOf[g][2] > irq[p]}
        BY <1>2, <2>1, TodoFacts
    <2>3. Todo(p)' = {g \in Gsis : \/ PinOf[g][1] > chip[p]
                                   \/ PinOf[g][1] = chip[p] /\ PinOf[g][2] > irq[p] + 1
                                   \/ PinOf[g] = <<chip[p], irq[p] + 1>>}
        BY <1>2, <2>1, TodoFactsNext
    <2>4. ASSUME NEW g \in Gsis
          PROVE  PinOf[g][1] = chip[p] /\ PinOf[g][2] > irq[p] <=>
                     \/ PinOf[g][1] = chip[p] /\ PinOf[g][2] > irq[p] + 1
                     \/ PinOf[g] = <<chip[p], irq[p] + 1>>
        <3>1. PinOf[g] = <<chip[p], irq[p] + 1>> <=>
                  PinOf[g][1] = chip[p] /\ PinOf[g][2] = irq[p] + 1
            BY <1>5
        <3> QED BY <1>2, <1>5, <3>1
    <2>5. Todo(p)' = Todo(p)
        BY <2>2, <2>3, <2>4
    <2> QED BY <1>3, <1>4, <1>6, <2>5 DEF Routing!vars
<1>7. CASE /\ ~HasNextPin(p) /\ HasNextChip(p)
           /\ irq' = [irq EXCEPT ![p] = 0]
           /\ chip' = [chip EXCEPT ![p] = @ + 1]
           /\ UNCHANGED req
    <2>1. /\ req'[p] = req[p] /\ req[p].op = "mask_all"
          /\ chip'[p] = chip[p] + 1 /\ irq'[p] = 0
          /\ ~(irq[p] + 1 < MaxEntries(chip[p]))
        BY <1>0, <1>7 DEF HasNextPin, HasNextChip
    <2>2. Todo(p) = {g \in Gsis : \/ PinOf[g][1] > chip[p]
                                  \/ PinOf[g][1] = chip[p] /\ PinOf[g][2] > irq[p]}
        BY <1>2, <2>1, TodoFacts
    <2>3. Todo(p)' = {g \in Gsis : \/ PinOf[g][1] > chip[p] + 1
                                   \/ PinOf[g][1] = chip[p] + 1 /\ PinOf[g][2] > 0
                                   \/ PinOf[g] = <<chip[p] + 1, 0>>}
        BY <1>2, <2>1, TodoFactsNext
    <2>4. ASSUME NEW g \in Gsis
          PROVE  \/ PinOf[g][1] > chip[p]
                 \/ PinOf[g][1] = chip[p] /\ PinOf[g][2] > irq[p]
                 <=> \/ PinOf[g][1] > chip[p] + 1
                     \/ PinOf[g][1] = chip[p] + 1 /\ PinOf[g][2] > 0
                     \/ PinOf[g] = <<chip[p] + 1, 0>>
        <3>1. PinOf[g] = <<chip[p] + 1, 0>> <=> PinOf[g][1] = chip[p] + 1 /\ PinOf[g][2] = 0
            BY <1>5
        <3>2. PinOf[g][1] = chip[p] => ~(PinOf[g][2] > irq[p])
            BY <1>2, <1>5, <2>1
        <3> QED BY <1>2, <1>5, <3>1, <3>2
    <2>5. Todo(p)' = Todo(p)
        BY <2>2, <2>3, <2>4
    <2> QED BY <1>3, <1>4, <1>7, <2>5 DEF Routing!vars
<1>8. CASE ~HasNextPin(p) /\ ~HasNextChip(p) /\ req' = [req EXCEPT ![p] = NoCall]
    <2>1. Todo(p) = {}
        <3>1. CASE req[p].op = "mask_all"
            <4>1. ~(irq[p] + 1 < MaxEntries(chip[p])) /\ chip[p] = Len(Chips)
                BY <1>2, <1>8, <3>1 DEF HasNextPin, HasNextChip
            <4>2. Todo(p) = {g \in Gsis : \/ PinOf[g][1] > chip[p]
                                          \/ PinOf[g][1] = chip[p] /\ PinOf[g][2] > irq[p]}
                BY <1>2, <3>1, TodoFacts
            <4>3. ASSUME NEW g \in Gsis
                  PROVE  /\ ~(PinOf[g][1] > chip[p])
                         /\ ~(PinOf[g][1] = chip[p] /\ PinOf[g][2] > irq[p])
                BY <1>2, <1>5, <4>1
            <4> QED BY <4>2, <4>3
        <3>2. CASE req[p].op # "mask_all"
            BY <1>2, <3>2, TodoFacts
        <3> QED BY <3>1, <3>2
    <2>2. req'[p] = NoCall
        BY <1>0, <1>8
    <2>3. Todo(p)' = {}
        BY <2>2, TodoFactsNext
    <2> DEFINE todo == [q \in Callers |-> Todo(q)]
    <2>4. todo[p] = {} /\ todo' = todo
        BY <1>4, <2>1, <2>3
    <2> QED BY <1>2, <1>3, <1>8, <2>4 DEF Routing!Return
<1> QED BY <1>6, <1>7, <1>8 DEF WriteHigh

\* The beginning of a call is the abstract one's.
LEMMA CallIsBegin ==
    ASSUME IInv, IInv', Serialised, NEW p \in Callers, NEW r, NEW label, NEW k, NEW i, NEW e,
           Beginning(p, r, label, k, i, e)
    PROVE  r \in Requests /\ Routing!Begin(p, r)
<1>0. /\ pc \in [Callers -> {"idle", "read_select", "read_window", "write_select", "write_window"}]
      /\ half \in [Callers -> 0..1] /\ chip \in [Callers -> ChipIds] /\ irq \in [Callers -> Nat]
      /\ req \in [Callers -> Requests \cup {NoCall}] /\ entry \in [Callers -> Entries]
    BY DEF IInv, Typed, TypeOK, Entries
<1>1. /\ pc[p] = "idle" /\ r \in Requests /\ r # NoCall
      /\ req' = [req EXCEPT ![p] = r] /\ UNCHANGED regs
      /\ chip'[p] = k /\ irq'[p] = i
      /\ half'[p] = 0
      /\ \A q \in Callers : q # p =>
            /\ pc'[q] = pc[q] /\ half'[q] = half[q] /\ irq'[q] = irq[q] /\ chip'[q] = chip[q]
            /\ entry'[q] = entry[q] /\ req'[q] = req[q]
    BY <1>0, RequestFacts DEF Beginning, Enter
<1>2. req[p] = NoCall /\ ~HalfWritten(p) /\ ~HalfWritten(p)' /\ req'[p] = r
    BY <1>0, <1>1 DEF IInv, CallsAreInOrder, HalfWritten
<1>3. \A q \in Callers : q # p =>
          (HalfWritten(q)' <=> HalfWritten(q)) /\ At(q)' = At(q) /\ Todo(q)' = Todo(q)
    BY <1>1, TodoStays DEF HalfWritten, At
<1>4. Table' = Table
    BY <1>1, <1>2, <1>3, TableStays
<1>5. Todo(p)' = Routing!Names(r)
    <2>1. CASE r.op = "mask_all"
        <3>1. k = 1 /\ i = 0
            BY <2>1 DEF Beginning
        <3>2. Todo(p)' = {g \in Gsis : \/ PinOf[g][1] > 1
                                       \/ PinOf[g][1] = 1 /\ PinOf[g][2] > 0
                                       \/ PinOf[g] = <<1, 0>>}
            BY <1>1, <1>2, <2>1, <3>1, TodoFactsNext
        <3>3. ASSUME NEW g \in Gsis
              PROVE  PinOf[g][1] > 1 \/ (PinOf[g][1] = 1 /\ PinOf[g][2] > 0) \/ PinOf[g] = <<1, 0>>
            <4>1. PICK j \in ChipIds : \E n \in Pins(j) : PinOf[g] = <<j, n>>
                BY PinFacts
            <4>2. PICK n \in Pins(j) : PinOf[g] = <<j, n>>
                BY <4>1
            <4>3. j \in 1..Len(Chips) /\ n \in Nat /\ Len(Chips) \in Nat
                BY ChipRange, ChipFacts DEF Pins
            <4>4. j > 1 \/ (j = 1 /\ n > 0) \/ (j = 1 /\ n = 0)
                BY <4>3
            <4> QED BY <4>2, <4>4
        <3>4. Todo(p)' = Gsis
            BY <3>2, <3>3
        <3> QED BY <2>1, <3>4 DEF Routing!Names
    <2>2. CASE r.op # "mask_all"
        BY <1>1, <1>2, <2>2, TodoFactsNext DEF Routing!Names
    <2> QED BY <2>1, <2>2
<1> DEFINE todo == [q \in Callers |-> Todo(q)]
<1>6. todo' = [todo EXCEPT ![p] = Routing!Names(r)]
    BY <1>3, <1>5
<1> QED BY <1>1, <1>2, <1>4, <1>6 DEF Routing!Begin

\* What the callers hold is current in every reachable state.
LEMMA AlwaysCurrent == Serialised => (Spec => []EntryIsCurrent)
<1> SUFFICES ASSUME Serialised PROVE Spec => []EntryIsCurrent
    OBVIOUS
<1>1. Init => EntryIsCurrent
    BY DEF Init, EntryIsCurrent, Current, HalfWritten, Reading, Writing
<1>2. IInv /\ EntryIsCurrent /\ [Next]_vars => EntryIsCurrent'
    BY CurrentKept
<1> QED BY <1>1, <1>2, AlwaysIInv, PTL DEF Spec

\* With callers serialised the registers implement the table of RoutingTable:
\* every access is a step of it or hidden (ioapic.rs:195-388).
THEOREM IoApicImplementsRoutingTable == Serialised => (Spec => ImplementsRoutingTable)
<1> SUFFICES ASSUME Serialised PROVE Spec => ImplementsRoutingTable
    OBVIOUS
<1>1. Init => Routing!Init
    <2> SUFFICES ASSUME Init PROVE Routing!Init
        OBVIOUS
    <2>1. DOMAIN Table = Gsis
        BY DEF Table
    <2>2. req = [p \in Callers |-> NoCall]
        BY DEF Init
    <2>3. \A p \in Callers : Todo(p) = {}
        BY <2>2, TodoFacts
    <2> QED BY <2>1, <2>2, <2>3 DEF Routing!Init
<1>2. ASSUME IInv, IInv', EntryIsCurrent, [Next]_vars PROVE [Routing!Next]_(Routing!vars)
    <2>1. ASSUME NEW p \in Callers, Access(p) PROVE [Routing!Next]_(Routing!vars)
        <3>1. CASE Select(p) \/ ReadLow(p) \/ ReadHigh(p)
            BY <1>2, <3>1, ReadsAreHidden
        <3>2. CASE WriteLow(p)
            <4>1. At(p) \in Gsis /\ Routing!Apply(p, At(p))
                BY <1>2, <3>2, LowIsApply, CallsAtOwn
            <4> QED BY <4>1 DEF Routing!Next
        <3>3. CASE WriteHigh(p)
            BY <1>2, <3>3, HighIsReturn DEF Routing!Next
        <3> QED BY <2>1, <3>1, <3>2, <3>3 DEF Access
    <2>2. ASSUME NEW p \in Callers, NEW r, NEW label, NEW k, NEW i, NEW e,
                 Beginning(p, r, label, k, i, e)
          PROVE  Routing!Next
        BY <1>2, <2>2, CallIsBegin DEF Routing!Next
    <2>3. CASE UNCHANGED vars
        <3>1. UNCHANGED <<regs, pc, half, req, chip, irq, entry>>
            BY <2>3 DEF vars, callVars
        <3>2. \A q \in Callers : (HalfWritten(q)' <=> HalfWritten(q)) /\ At(q)' = At(q)
            BY <3>1 DEF HalfWritten, At
        <3>3. Table' = Table
            BY <1>2, <3>1, <3>2, TableStays
        <3>4. \A q \in Callers : Todo(q)' = Todo(q)
            BY <3>1, <3>2, TodoStays
        <3> QED BY <3>1, <3>3, <3>4 DEF Routing!vars
    <2> QED BY <1>2, <2>1, <2>2, <2>3, Calls DEF Next
<1> QED BY <1>1, <1>2, AlwaysIInv, AlwaysCurrent, PTL DEF Spec, ImplementsRoutingTable, Routing!Spec
=============================================================================
