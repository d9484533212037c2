---------------------------- MODULE MCTicketKeys ----------------------------
(***************************************************************************)
(* A small instance of TicketKeys, in half periods of rotation: 3 slots,   *)
(* rotation every 2 units and lifetime 4, as 3, 1h and 2h; grace 1, so     *)
(* that the age bound of a key fits under MaxTime.                         *)
(***************************************************************************)
EXTENDS TicketKeys

CONSTANT w1
=============================================================================
