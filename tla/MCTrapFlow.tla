----------------------------- MODULE MCTrapFlow -----------------------------
(* TrapFlow with two guest addresses.                                      *)
EXTENDS TrapFlow

MCGuestPc == {0, 8}
=============================================================================
