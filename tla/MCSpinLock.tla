----------------------------- MODULE MCSpinLock -----------------------------
(* TLC instance of SpinLock.                                               *)
EXTENDS SpinLock, TLC

\* Cores are interchangeable: safety runs may identify their permutations.
CpuSymmetry == Permutations(Cpus)
=============================================================================
