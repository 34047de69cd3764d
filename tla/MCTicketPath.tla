---------------------------- MODULE MCTicketPath -----------------------------
(* TicketPath on a small instance.  A cfg gives every constant its value.   *)
EXTENDS TicketPath
=============================================================================
