---------------------------- MODULE WorkStealing ----------------------------
(***************************************************************************)
(* What busiest_core() and steal_half() can miss: Scheduler, and two       *)
(* histories of a core's search for work.  The search reads the lengths    *)
(* one after the other, without a lock, while the queues go up and down.   *)
(***************************************************************************)
EXTENDS Scheduler

CONSTANTS Thief    \* the core whose searches are followed

ASSUME ThiefAssumption == Thief \in Cores

VARIABLES
    throughout,    \* history: queues that were long at every moment of the search
    sometime       \* history: queues that were long at one of them

histories == <<throughout, sometime>>

\* The core is in busiest_core(), or on its way to the victim.
Searching == pc[Thief] \in {"scan_max", "steal"}

\* Long by its VecDeque, and by the counter that the search reads.
Queued == {d \in Cores : Len(queue[d]) >= 2}
Counted == {d \in Cores : len[d] >= 2}

\* The histories last as long as a search.  A push that is not counted yet when
\* the search begins does not make a queue long.
Remember ==
    /\ throughout' = IF ~Searching' THEN {}
                     ELSE IF Searching THEN throughout \cap Queued' ELSE Queued' \cap Counted'
    /\ sometime' = IF ~Searching' THEN {}
                   ELSE IF Searching THEN sometime \cup Counted' ELSE Counted'

StealInit == Init /\ throughout = {} /\ sometime = {}
StealNext == Next /\ Remember
StealSpec == StealInit /\ [][StealNext]_<<vars, histories>>
-----------------------------------------------------------------------------
\* schedule() finds no work.
GivesUp == Searching /\ pc'[Thief] = "idle" /\ running'[Thief] = None

\* "Idle cores steal tasks from busy cores" (scheduler.rs:3): a core comes back
\* empty-handed although a queue had two tasks all the time only when it went to
\* another queue, which was long when it was read and is not any more.  No
\* queue is overlooked because its counter follows its tasks, or because it
\* changes under the scan.
ThievesFindWork ==
    [][GivesUp => \/ throughout = {}
                  \/ pc[Thief] = "steal" /\ target[Thief] \in sometime \ throughout
      ]_<<vars, histories>>
=============================================================================
