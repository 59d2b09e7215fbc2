------------------------------ MODULE MCRwLock ------------------------------
(* TLC instance of RwLock.                                                 *)
EXTENDS RwLock
=============================================================================
