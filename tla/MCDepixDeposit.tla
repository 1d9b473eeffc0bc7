--------------------------- MODULE MCDepixDeposit ---------------------------
(* Finite instances of DepixDeposit.                                        *)
EXTENDS DepixDeposit

CONSTANTS c1, c2

=============================================================================
