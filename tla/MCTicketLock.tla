--------------------------- MODULE MCTicketLock ---------------------------
(* TLC instance of TicketLock: as many threads as ticket values, so that   *)
(* the halves wrap with the queue full.                                    *)
EXTENDS TicketLock

CONSTANTS p1, p2, p3

MCProcs == {p1, p2, p3}
=============================================================================
