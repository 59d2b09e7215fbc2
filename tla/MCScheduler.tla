---------------------------- MODULE MCScheduler -----------------------------
(* TLC instances of Scheduler.                                             *)
EXTENDS Scheduler

CONSTANTS Pinned   \* the tasks with an affinity

\* Pinned tasks belong to core 0, the others to no core.
MCAffinity == [t \in Tasks |-> IF t \in Pinned THEN 0 ELSE None]

\* The task at the front of a queue runs in the end: own pops take it, and no
\* theft ever does (scheduler.rs:280-318).  One task of each affinity stands for
\* the others, which the specification does not tell apart.
FrontTaskRuns ==
    \A a \in Range(Affinity) :
        LET t == CHOOSE t \in Tasks : Affinity[t] = a
        IN  AtFront(t) ~> Running(t)
=============================================================================
