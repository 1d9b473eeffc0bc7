---------------------------- MODULE MCCashDrawer ----------------------------
(***************************************************************************)
(* Instances of CashDrawer: one operator, who may open a session twice,    *)
(* and at most two calls of each operation, all of them in flight at once. *)
(***************************************************************************)
EXTENDS CashDrawer

CONSTANTS ana, s1, s2, open1, open2, close1, force1, auto1, review1, review2,
          take1, take2, put1, pay1, back1

MCOwner == [s \in Sessions |-> CHOOSE u \in Users : TRUE]
MCActor == [c \in Calls |-> CHOOSE u \in Users : TRUE]

MCOp == [c \in Calls |->
  CASE c \in {open1, open2} -> "open"
    [] c = close1 -> "close"
    [] c = force1 -> "forceClose"
    [] c = auto1 -> "autoClose"
    [] c \in {review1, review2} -> "review"
    [] c \in {take1, take2} -> "withdrawal"
    [] c = put1 -> "inflow"
    [] c = pay1 -> "outflow"
    [] c = back1 -> "downgrade"]

\* A session opens with 2 in the drawer: one withdrawal is covered, two are
\* only if cash came in between.
MCAmount == [c \in Calls |-> IF c \in {put1, pay1} THEN 1 ELSE 2]
=============================================================================
