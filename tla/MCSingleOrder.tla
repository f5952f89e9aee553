--------------------------- MODULE MCSingleOrder ---------------------------
(* A small instance of SingleOrder: a loss of one R, a small gain and a    *)
(* gain that makes up for a loss.                                          *)
EXTENDS SingleOrder

MCOutcomes == {-100, 20, 150}
MCEntryNet == -10
MCSumFloor == -120
MCLongFloor == -5
MCDrawdownFloor == -100
=============================================================================
