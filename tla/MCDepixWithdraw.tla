--------------------------- MODULE MCDepixWithdraw ---------------------------
(* Finite instances of DepixWithdraw: named requests and their parameters. *)
EXTENDS DepixWithdraw, TLC

CONSTANTS p1, p2, o1, o2, q1, k1, same, other

Pix == {p1, p2}

MCKind == [r \in Requests |-> IF r \in Pix THEN "PIX" ELSE "ONCHAIN"]
MCIntent == [r \in Requests |-> IF r \in Pix THEN same ELSE other]

\* Two PIX requests are one that the client sent twice; the on-chain ones have
\* no key and differ in nothing.
MCKey == [r \in Requests |-> IF r \in Pix THEN k1 ELSE NoKey]
Sends == Permutations({o1, o2})
Copies == Permutations(Pix)

\* Two unrelated payments.
OwnIntent == [r \in Requests |-> r]
NoKeys == [r \in Requests |-> NoKey]

MCGross == [r \in Requests |-> 2]

\* The provider asks for what was estimated, or for more.
MCQuotes == [r \in Requests |-> {2, 3}]
ExactQuotes == [r \in Requests |-> {2}]

=============================================================================
