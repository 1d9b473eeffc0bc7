------------------------------ MODULE MCPdvSale ------------------------------
(***************************************************************************)
(* Small instances of PdvSale: the sales of two sellers who want the only  *)
(* serialized item; one of them may give her cart up, the finalize of the  *)
(* other is sent twice and his sale is refunded twice.                     *)
(***************************************************************************)
EXTENDS PdvSale, TLC

CONSTANTS s1, s2, u1, g,
          add1, addMore1, set1, twoOf1, fin1, again1, refund1, refund2, cancel1,
          add2, remove2, cancel2, abandon2, fin2, job

MCSeller == (s1 :> "ann") @@ (s2 :> "bob")
MCPrice == (u1 :> 2) @@ (g :> 1)

MCOp == [c \in Calls |->
  CASE c \in {add1, addMore1, add2} -> "addItem"
    [] c = remove2 -> "removeItem"
    [] c \in {set1, twoOf1} -> "setQuantity"
    [] c \in {fin1, again1, fin2} -> "finalize"
    [] c \in {refund1, refund2} -> "refund"
    [] c \in {cancel1, cancel2} -> "cancel"
    [] c = abandon2 -> "abandon"
    [] c = job -> "release"]

MCSaleOf == [c \in Calls |->
  IF c \in {add2, remove2, cancel2, abandon2, fin2, job} THEN s2 ELSE s1]

MCLineOf == [c \in Calls |->
  IF c \in {addMore1, set1, refund2} THEN g ELSE u1]

\* One refund brings the goods back or leaves them with the customer, the
\* other is of goods that came back broken.
MCBack == [c \in Calls |-> IF c = refund2 THEN {"defect"} ELSE {"shelf", "kept"}]

\* The two sendings of one finalize are interchangeable.
Twice == Permutations({fin1, again1})
\* Bound: of the three ways to give goods up the second seller tries one, and none
\* where the first sets the line of the item to two; he changes the quantity of
\* one line.
OneWayOut ==
  /\ Cardinality({c \in {remove2, cancel2, abandon2, twoOf1} : pc[c] # "start"}) <= 1
  /\ Cardinality({c \in {set1, twoOf1} : pc[c] # "start"}) <= 1
=============================================================================
