---------------------------- MODULE MCTicketRing ----------------------------
(***************************************************************************)
(* A small instance of TicketRing.                                         *)
(***************************************************************************)
EXTENDS TicketRing

CONSTANTS w1
=============================================================================
