-------------------------- MODULE DepixAuthorization --------------------------
(***************************************************************************)
(* Withdrawals that a partner asks for over the API and a person of the    *)
(* tenant approves (depix-withdraw-authorization.service.ts).  A delivery  *)
(* of the partner's HTTP request leaves at most one request per partner    *)
(* key; screens approve or reject it; the reconciliation job expires it.   *)
(* An approval calls createWithdraw, which is not modelled again: what it  *)
(* may do to a payment is what module Payout allows, and DepixWithdraw     *)
(* implements Payout.  A payment is one attempt's withdrawal; its row's    *)
(* idempotency key is derived from the request, the same for all attempts. *)
(***************************************************************************)
EXTENDS Naturals

CONSTANTS
  Requests,     \* deliveries of partner requests; each names the row it would insert
  PartnerKey,   \* idempotency key the partner sent with a delivery
  Screens,      \* calls of authorizeWithdrawRequest in flight at one time
  MaxAttempts,  \* bound: approvals tried per request
  none          \* no payment

ASSUME KeysAssumption == none \notin Requests \X Nat
ASSUME AttemptsAssumption == MaxAttempts \in Nat

Attempts == 1 .. MaxAttempts
Payments == Requests \X Attempts

VARIABLES
  ask,      \* where a delivery stands
  auth,     \* DepixWithdrawAuthorization: status and transactionId
  stale,    \* the request's day is over
  tried,    \* approvals that claimed the request so far
  call,     \* where a screen's call stands, for which payment
  left, fate, word  \* the payments, as in Payout

payVars == <<left, fate, word>>
vars == <<ask, auth, stale, tried, call, left, fate, word>>

Pay == INSTANCE Payout WITH Payments <- Payments, OnChain <- {}

Idle == [at |-> "idle", pay |-> none]
Made(p) == word[p] # "none"
RequestOf(p) == p[1]

Init ==
  /\ ask = [r \in Requests |-> "look"]
  /\ auth = [r \in Requests |-> [status |-> "NONE", tx |-> none]]
  /\ stale = [r \in Requests |-> FALSE]
  /\ tried = [r \in Requests |-> 0]
  /\ call = [s \in Screens |-> Idle]
  /\ Pay!Init

SetStatus(r, status) == auth' = [auth EXCEPT ![r].status = status]

-----------------------------------------------------------------------------
(* The partner's delivery: look for the key, insert, reuse on a clash.     *)

Asked(r) == \E q \in Requests : auth[q].status # "NONE" /\ PartnerKey[q] = PartnerKey[r]

AskLooks(r) ==
  /\ ask[r] = "look"
  /\ ask' = [ask EXCEPT ![r] = IF Asked(r) THEN "done" ELSE "insert"]
  /\ UNCHANGED <<auth, stale, tried, call, payVars>>

\* The unique index turns the second of two racing inserts into a reuse.
AskInserts(r) ==
  /\ ask[r] = "insert"
  /\ ask' = [ask EXCEPT ![r] = "done"]
  /\ IF Asked(r) THEN UNCHANGED auth ELSE SetStatus(r, "PENDING")
  /\ UNCHANGED <<stale, tried, call, payVars>>

-----------------------------------------------------------------------------
(* The approval.                                                           *)

Move(s, at, p) == call' = [call EXCEPT ![s] = [at |-> at, pay |-> p]]

ApproveReads(s, r) ==
  /\ call[s] = Idle
  /\ auth[r].status = "PENDING" /\ ~stale[r]
  /\ tried[r] < MaxAttempts
  /\ Move(s, "claim", <<r, 1>>)
  /\ UNCHANGED <<ask, auth, stale, tried, payVars>>

\* Mutant: the claim updates the request by id.
ClaimsById(s) ==
  LET r == RequestOf(call[s].pay) IN
  /\ call[s].at = "claim"
  /\ tried[r] < MaxAttempts
  /\ SetStatus(r, "AUTHORIZED")
  /\ tried' = [tried EXCEPT ![r] = @ + 1]
  /\ Move(s, "pay", <<r, tried'[r]>>)
  /\ UNCHANGED <<ask, stale, payVars>>

Claims(s) ==
  LET r == RequestOf(call[s].pay) IN
  /\ call[s].at = "claim"
  /\ auth[r].status = "PENDING" /\ tried[r] < MaxAttempts
  /\ SetStatus(r, "AUTHORIZED")
  /\ tried' = [tried EXCEPT ![r] = @ + 1]
  /\ Move(s, "pay", <<r, tried'[r]>>)
  /\ UNCHANGED <<ask, stale, payVars>>

ClaimLost(s) ==
  LET r == RequestOf(call[s].pay) IN
  /\ call[s].at = "claim"
  /\ auth[r].status # "PENDING" \/ tried[r] = MaxAttempts
  /\ call' = [call EXCEPT ![s] = Idle]
  /\ UNCHANGED <<ask, auth, stale, tried, payVars>>

\* Mutant: a key of its own for each attempt.
FreshKey(p) == p

withdrawKeyFor(p) == RequestOf(p)

Twins(p) == {q \in Payments : Made(q) /\ withdrawKeyFor(q) = withdrawKeyFor(p)}

\* createWithdraw finds a row with its key and answers with it, whatever it says.
PayReplays(s) ==
  /\ call[s].at = "pay"
  /\ \E q \in Twins(call[s].pay) : Move(s, "link", q)
  /\ UNCHANGED <<ask, auth, stale, tried, payVars>>

PayBegins(s) ==
  LET p == call[s].pay IN
  /\ call[s].at = "pay"
  /\ Twins(p) = {}
  /\ Pay!Tell(p) /\ word'[p] = "open"
  /\ Move(s, "paying", p)
  /\ UNCHANGED <<ask, auth, stale, tried>>

\* It returns only after its transfer was answered.
PaySent(s) ==
  /\ call[s].at = "paying"
  /\ left[call[s].pay]
  /\ Move(s, "link", call[s].pay)
  /\ UNCHANGED <<ask, auth, stale, tried, payVars>>

\* A call that ends before it asked for its transfer gives the payment up.
MayGiveUp(s) == UNCHANGED payVars \/ (call[s].at = "paying" /\ Pay!Drop(call[s].pay))

\* It throws without a row, or with one that failed, may still go out, or went.
PayThrows(s) ==
  /\ call[s].at \in {"pay", "paying"}
  /\ MayGiveUp(s)
  /\ Move(s, "revert", call[s].pay)
  /\ UNCHANGED <<ask, auth, stale, tried>>

Link(s) ==
  LET r == RequestOf(call[s].pay) IN
  /\ call[s].at = "link"
  /\ auth' = [auth EXCEPT ![r].tx = call[s].pay]
  /\ call' = [call EXCEPT ![s] = Idle]
  /\ UNCHANGED <<ask, stale, tried, payVars>>

LinkThrows(s) ==
  /\ call[s].at = "link"
  /\ Move(s, "revert", call[s].pay)
  /\ UNCHANGED <<ask, auth, stale, tried, payVars>>

\* The request goes back to the queue, if it is still claimed.
Revert(s) ==
  LET r == RequestOf(call[s].pay) IN
  /\ call[s].at = "revert"
  /\ IF auth[r].status = "AUTHORIZED" THEN SetStatus(r, "PENDING") ELSE UNCHANGED auth
  /\ call' = [call EXCEPT ![s] = Idle]
  /\ UNCHANGED <<ask, stale, tried, payVars>>

\* The process dies; nothing undoes the claim.
Crash(s) ==
  /\ call[s] # Idle
  /\ MayGiveUp(s)
  /\ call' = [call EXCEPT ![s] = Idle]
  /\ UNCHANGED <<ask, auth, stale, tried>>

Approval(s) ==
  \/ Claims(s) \/ ClaimLost(s) \/ PayReplays(s) \/ PayBegins(s) \/ PaySent(s)
  \/ PayThrows(s) \/ Link(s) \/ LinkThrows(s) \/ Revert(s)

-----------------------------------------------------------------------------
(* Rejection, expiry, time, and the payments going their way.              *)

Reject(r) ==
  /\ auth[r].status = "PENDING"
  /\ SetStatus(r, "REJECTED")
  /\ UNCHANGED <<ask, stale, tried, call, payVars>>

\* Mutant: the job looks only at requests nobody has tried.
ExpireUntried(r) ==
  /\ auth[r].status = "PENDING" /\ stale[r] /\ tried[r] = 0
  /\ SetStatus(r, "EXPIRED")
  /\ UNCHANGED <<ask, stale, tried, call, payVars>>

Expire(r) ==
  /\ auth[r].status = "PENDING" /\ stale[r]
  /\ SetStatus(r, "EXPIRED")
  /\ UNCHANGED <<ask, stale, tried, call, payVars>>

DayPasses(r) ==
  /\ auth[r].status # "NONE" /\ ~stale[r]
  /\ stale' = [stale EXCEPT ![r] = TRUE]
  /\ UNCHANGED <<ask, auth, tried, call, payVars>>

PaymentMoves(p) ==
  /\ Made(p)
  /\ Pay!Tell(p) \/ Pay!Leave(p) \/ Pay!Deliver(p) \/ Pay!Close(p)
  /\ UNCHANGED <<ask, auth, stale, tried, call>>

Next ==
  \/ \E r \in Requests :
       AskLooks(r) \/ AskInserts(r) \/ Reject(r) \/ Expire(r) \/ DayPasses(r)
  \/ \E s \in Screens : Approval(s) \/ Crash(s) \/ \E r \in Requests : ApproveReads(s, r)
  \/ \E p \in Payments : PaymentMoves(p)

Spec == Init /\ [][Next]_vars

-----------------------------------------------------------------------------
(* Fairness: a call runs on until it answers or dies, and the job comes    *)
(* back every ten minutes.  Nothing is assumed of people and payments.     *)

Fairness ==
  /\ \A s \in Screens : WF_vars(Approval(s))
  /\ \A r \in Requests : WF_vars(Expire(r))

FairSpec == Spec /\ Fairness

-----------------------------------------------------------------------------
(* Properties.                                                             *)

AuthStatus == {"NONE", "PENDING", "AUTHORIZED", "REJECTED", "EXPIRED"}

\* The shape of the state.
TypeOK ==
  /\ ask \in [Requests -> {"look", "insert", "done"}]
  /\ auth \in [Requests -> [status : AuthStatus, tx : Payments \cup {none}]]
  /\ stale \in [Requests -> BOOLEAN]
  /\ tried \in [Requests -> 0 .. MaxAttempts]
  /\ call \in [Screens -> {Idle} \cup
                 [at : {"claim", "pay", "paying", "link", "revert"}, pay : Payments]]
  /\ left \in [Payments -> BOOLEAN]
  /\ fate \in [Payments -> Pay!Fate]
  /\ word \in [Payments -> Pay!Word]

\* However often the partner delivers an order, however many screens approve it
\* and however many approvals fail and are tried again, at most one withdrawal
\* is ever made for it.
OnePaymentPerOrder ==
  \A p, q \in Payments :
    p # q /\ Made(p) /\ Made(q) => PartnerKey[RequestOf(p)] # PartnerKey[RequestOf(q)]

\* Between its claim and its answer a call has the request to itself: nobody
\* else is approving it, and nobody has rejected or expired it.
Holds(s, r) == call[s].at \in {"pay", "paying", "link", "revert"} /\ RequestOf(call[s].pay) = r
ClaimIsExclusive ==
  \A s \in Screens : \A r \in Requests : Holds(s, r) =>
    /\ auth[r].status = "AUTHORIZED"
    /\ \A t \in Screens \ {s} : ~Holds(t, r)

\* A request whose day is over leaves the queue for good, also when an approval
\* that was under way fails and puts it back.
StaleLeavesQueue == \A r \in Requests : stale[r] ~> [](auth[r].status # "PENDING")

\* What a comment says and the code does not do: an approval that failed (wrong
\* password, cache to repair) goes back to the queue to be corrected and tried
\* again.  The request is then AUTHORIZED with a withdrawal that was given up.
RetryCanPay ==
  \A r \in Requests :
    auth[r].status = "AUTHORIZED" /\ auth[r].tx # none => fate[auth[r].tx] # "dropped"

=============================================================================
