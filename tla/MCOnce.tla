------------------------------- MODULE MCOnce -------------------------------
(* TLC instance of Once.                                                   *)
EXTENDS Once
=============================================================================
