---------------------------- MODULE RoutingTable ----------------------------
(***************************************************************************)
(* What the I/O APICs promise their callers: one table of interrupts, in   *)
(* which a call changes the entries it names, each of them in one step.    *)
(***************************************************************************)
CONSTANTS
    Callers,
    Gsis,          \* the interrupts that have an entry
    Requests,      \* what may be asked for
    NoCall

VARIABLES
    table,         \* vector, destination and mask of each interrupt
    call,          \* what each caller is asking for, or NoCall
    todo           \* the interrupts whose entries the call has still to change

vars == <<table, call, todo>>

\* The entry a request makes out of an entry.
Effect(r, e) ==
    CASE r.op = "route"    -> [vector |-> r.vector, dest |-> r.dest, masked |-> FALSE]
      [] r.op = "mask"     -> [e EXCEPT !.masked = TRUE]
      [] r.op = "unmask"   -> [e EXCEPT !.masked = FALSE]
      [] r.op = "mask_all" -> [vector |-> 0, dest |-> 0, masked |-> TRUE]

Names(r) == IF r.op = "mask_all" THEN Gsis ELSE {r.gsi}

Init ==
    /\ DOMAIN table = Gsis
    /\ call = [p \in Callers |-> NoCall]
    /\ todo = [p \in Callers |-> {}]

Begin(p, r) ==
    /\ call[p] = NoCall
    /\ call' = [call EXCEPT ![p] = r]
    /\ todo' = [todo EXCEPT ![p] = Names(r)]
    /\ UNCHANGED table

Apply(p, g) ==
    /\ g \in todo[p]
    /\ table' = [table EXCEPT ![g] = Effect(call[p], @)]
    /\ todo' = [todo EXCEPT ![p] = @ \ {g}]
    /\ UNCHANGED call

Return(p) ==
    /\ call[p] # NoCall
    /\ todo[p] = {}
    /\ call' = [call EXCEPT ![p] = NoCall]
    /\ UNCHANGED <<table, todo>>

Next ==
    \E p \in Callers :
        \/ \E r \in Requests : Begin(p, r)
        \/ \E g \in Gsis : Apply(p, g)
        \/ Return(p)

Spec == Init /\ [][Next]_vars
=============================================================================
