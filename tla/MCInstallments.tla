--------------------------- MODULE MCInstallments ---------------------------
(* Finite instances of Installments: the first instalment is large enough  *)
(* to be paid in part (less than one cent short closes it), the others are *)
(* closed by any payment.                                                  *)
EXTENDS Installments

CONSTANTS p1, p2, p3, t1, t2, t3

MCAmount == [i \in Parts |-> IF i = p1 THEN 3 ELSE 1]

=============================================================================
