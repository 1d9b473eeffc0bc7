------------------------- MODULE MCDepixAuthorization -------------------------
(* Finite instances of DepixAuthorization.                                  *)
EXTENDS DepixAuthorization, TLC

CONSTANTS d1, d2, d3, k1, s1, s2, s3

\* Two deliveries of one order.
OneOrder == [r \in Requests |-> k1]

=============================================================================
