----------------------------- MODULE LocalApic ------------------------------
(***************************************************************************)
(* The local APICs of src/src/apic.rs as far as they carry interrupts: the *)
(* software enable bit, the interrupt command register, requests pending   *)
(* and in service, and the timer of one core.  The mode is xAPIC, in which *)
(* LocalApic::new() leaves every driver and the crate keeps it: an IPI is  *)
(* a wait for the one before it, and two writes.                           *)
(*                                                                         *)
(* What the hardware does with a message is external: it reaches the core  *)
(* named in it after a while, and requests with the same vector are one.   *)
(***************************************************************************)
EXTENDS Integers

CONSTANTS
    MAX_COUNT,     \* u32::MAX, where the timer starts for a calibration
    DelayMs,       \* the delay of calibrate_timer(), in milliseconds
    NoMessage      \* an idle ICR

ASSUME LocalApicAssumption == MAX_COUNT \in Nat \ {0} /\ DelayMs \in Nat \ {0}

VARIABLES
    enabled,       \* bit 8 of each core's SVR
    icr_high,      \* destination half of each core's ICR
    icr,           \* the message whose delivery is pending, or NoMessage
    irr,           \* vectors requested at each core
    isr,           \* vectors in service
    timer          \* divide, mode, mask, initial and current count

icrVars == <<icr_high, icr>>
apicVars == <<enabled, icr_high, icr, irr, isr, timer>>

LocalApicInit(cores, c0) ==
    /\ enabled = [c \in cores |-> FALSE]
    /\ icr_high = [c \in cores |-> c0]
    /\ icr = [c \in cores |-> NoMessage]
    /\ irr = [c \in cores |-> {}]
    /\ isr = [c \in cores |-> {}]
-----------------------------------------------------------------------------
(* Interprocessor interrupts                                               *)

\* enable(): the software enable bit.
Enable(c) == enabled' = [enabled EXCEPT ![c] = TRUE]

\* Vectors below 16 are reserved: a fixed IPI with one is an error, not sent.
Reserved == 0..15

\* An APIC that is not enabled takes no fixed interrupt.
Requested(m) ==
    IF m.vector \in Reserved \/ ~enabled[m.dest] THEN irr
    ELSE [irr EXCEPT ![m.dest] = @ \cup {m.vector}]

\* Mutant: the delivery status is not waited for.
IcrIdleAlways(c) == TRUE

\* wait_icr_idle().
IcrIdle(c) == icr[c] = NoMessage

\* Mutant: the destination is left as it is.
WriteIcrHighNot(c, dest) == UNCHANGED <<icr_high, icr, irr>>

\* send_ipi(): the destination ...
WriteIcrHigh(c, dest) ==
    /\ icr_high' = [icr_high EXCEPT ![c] = dest]
    /\ UNCHANGED <<icr, irr>>

\* ... and the low half, which sends to whatever destination is there.
WriteIcrLow(c, vector) ==
    /\ icr' = [icr EXCEPT ![c] = [dest |-> icr_high[c], vector |-> vector]]
    /\ UNCHANGED <<icr_high, irr>>

\* The message is accepted.
Deliver(c) ==
    /\ icr[c] # NoMessage
    /\ irr' = Requested(icr[c])
    /\ icr' = [icr EXCEPT ![c] = NoMessage]
    /\ UNCHANGED <<icr_high, enabled, isr, timer>>

\* The processor acknowledges a request while nothing is in service.
Acknowledge(c, vector) ==
    /\ vector \in irr[c]
    /\ isr[c] = {}
    /\ irr' = [irr EXCEPT ![c] = @ \ {vector}]
    /\ isr' = [isr EXCEPT ![c] = {vector}]
    /\ UNCHANGED <<icrVars, enabled, timer>>

\* eoi().
Eoi(c) ==
    /\ isr' = [isr EXCEPT ![c] = {}]
    /\ UNCHANGED <<icrVars, enabled, irr, timer>>
-----------------------------------------------------------------------------
(* The timer.  One tick of the clock is sixteen bus cycles.                *)

Ticking(t) ==
    LET left == t.current - 16 \div t.divide IN
    IF t.current = 0 THEN t
    ELSE [t EXCEPT !.current = IF left > 0 THEN left ELSE IF t.periodic THEN t.initial ELSE 0]

\* stop_timer(): masked, and a count of zero.
Stopped(t) == [t EXCEPT !.masked = TRUE, !.periodic = FALSE, !.initial = 0, !.current = 0]

\* write_lvt_timer(LVT_MASKED): masked, and one-shot; the count goes on.
LvtMasked(t) == [t EXCEPT !.masked = TRUE, !.periodic = FALSE]

\* Mutant: the timer counts on in the mode and with the divisor it has.
CalibratingAsIs(t) == [t EXCEPT !.initial = MAX_COUNT, !.current = MAX_COUNT]

\* calibrate_timer(): divide by 16, one-shot and masked, from the top.
Calibrating(t) ==
    [divide |-> 16, masked |-> TRUE, periodic |-> FALSE,
     initial |-> MAX_COUNT, current |-> MAX_COUNT]

\* ... what it returns, and the timer it leaves.
TicksPerMs(t) == ((MAX_COUNT - t.current) % (MAX_COUNT + 1)) \div DelayMs
Calibrated(t) == [t EXCEPT !.initial = 0, !.current = 0]

\* setup_timer() for a periodic timer: divide, mode, initial count.
SetUp(divide, count) ==
    [divide |-> divide, masked |-> FALSE, periodic |-> TRUE,
     initial |-> count, current |-> count]

=============================================================================
