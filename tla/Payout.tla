------------------------------- MODULE Payout -------------------------------
(***************************************************************************)
(* What a withdrawal promises, without saying how: the money of a payment  *)
(* leaves the wallet at most once and never after the payment was given    *)
(* up, it is delivered only after it left, and what the tenant is told     *)
(* ("paid", "not paid") is said only when it is true.  Delivered and       *)
(* dropped are for ever; so is having left.                                *)
(***************************************************************************)
CONSTANTS
  Payments,  \* the withdrawals asked for
  OnChain    \* those that are delivered by leaving: there is no provider

VARIABLES
  left,  \* the money left the wallet
  fate,  \* open; delivered to the recipient; closed by the provider without
         \* delivering; dropped: given up before anything could leave
  word   \* what the tenant reads: none, open, paid, unpaid

payoutVars == <<left, fate, word>>

Fate == {"open", "delivered", "closed", "dropped"}
Word == {"none", "open", "paid", "unpaid"}

Init ==
  /\ left = [p \in Payments |-> FALSE]
  /\ fate = [p \in Payments |-> "open"]
  /\ word = [p \in Payments |-> "none"]

\* What may be told of a payment that has met this fate.
Truthful(w, f) ==
  /\ w = "paid" => f = "delivered"
  /\ w = "unpaid" => f \in {"closed", "dropped"}

\* A step that shows or hides something of a payment's fate.
Tell(p) ==
  \E w \in Word \ {"none"} :
    /\ Truthful(w, fate[p])
    /\ word' = [word EXCEPT ![p] = w]
    /\ UNCHANGED <<left, fate>>

Leave(p) ==
  /\ ~left[p]
  /\ word[p] # "none"
  /\ fate[p] # "dropped"
  /\ left' = [left EXCEPT ![p] = TRUE]
  /\ fate' = IF p \in OnChain THEN [fate EXCEPT ![p] = "delivered"] ELSE fate
  /\ UNCHANGED word

Deliver(p) ==
  /\ p \notin OnChain
  /\ left[p]
  /\ fate[p] = "open"
  /\ fate' = [fate EXCEPT ![p] = "delivered"]
  /\ UNCHANGED <<left, word>>

\* The provider closes the payment; money that left by then, or leaves later,
\* is with the provider and not with the recipient.
Close(p) ==
  /\ p \notin OnChain
  /\ fate[p] = "open"
  /\ fate' = [fate EXCEPT ![p] = "closed"]
  /\ UNCHANGED <<left, word>>

\* Giving up, and saying so or not, while nothing has left.
Drop(p) ==
  /\ ~left[p]
  /\ fate' = [fate EXCEPT ![p] = "dropped"]
  /\ \/ UNCHANGED word
     \/ word[p] # "none" /\ \E w \in {"open", "unpaid"} : word' = [word EXCEPT ![p] = w]
  /\ UNCHANGED left

Next == \E p \in Payments : Tell(p) \/ Leave(p) \/ Deliver(p) \/ Close(p) \/ Drop(p)

Spec == Init /\ [][Next]_payoutVars

=============================================================================
