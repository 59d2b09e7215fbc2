---------------------------- MODULE MCTicketLock ----------------------------
(* TLC instance of TicketLock.                                             *)
EXTENDS TicketLock
=============================================================================
