---------------------------- MODULE MCServiceOrder ----------------------------
(* Finite instances of ServiceOrder.                                        *)
EXTENDS ServiceOrder, TLC

CONSTANTS o1, i1, i2, i3, i4, q1, q2, c1, c2

Alike == Permutations(Calls) \cup Permutations(Items)

\* Single pieces everywhere.
Singles ==
  /\ \A i \in Items : qty[i] <= 1 /\ out[i] <= 1
  /\ \A k \in Quotes : \A i \in DOMAIN quote[k].snap : quote[k].snap[i] = 1
  /\ \A t \in Calls : tx[t].qty <= 1

\* Bound: what follows a write by id over an order that had moved, or a change of a
\* deleted order, is not explored (the state it leads to is), and what follows
\* another stray only with single pieces.  An order has two pieces at most, of one
\* item or of two, and those of one item are not paid in the PDV, whose sale does
\* not look at items.
Bounded ==
  /\ \A o \in Orders :
       strayed[o] \subseteq {"late", "pickup", "undone"} /\ (strayed[o] # {} => Singles)
  /\ qty[i1] + qty[i2] <= 2
  /\ Singles \/ \A o \in Orders : ~money[o].draft

=============================================================================
