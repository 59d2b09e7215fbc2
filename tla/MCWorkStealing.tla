-------------------------- MODULE MCWorkStealing ---------------------------
(* TLC instance of WorkStealing.                                           *)
EXTENDS WorkStealing, TLC

MCAffinity == [t \in Tasks |-> None]

\* Tasks without an affinity are interchangeable.
TaskSymmetry == Permutations(Tasks)

\* The bound of the run: its tasks do not block, they are spawned, popped, stolen
\* and preempted.  All four can be in queues while a third core searches.
NobodyIsParked == parked = {}
=============================================================================
