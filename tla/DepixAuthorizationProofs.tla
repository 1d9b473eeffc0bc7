------------------------ MODULE DepixAuthorizationProofs ------------------------
(***************************************************************************)
(* For any number of deliveries, screens and approvals: a claim is         *)
(* exclusive and an order of the partner is paid by one withdrawal at      *)
(* most.  The second rests on the first: a call looks for a withdrawal of  *)
(* its request and makes one only while nobody else holds the request, on  *)
(* the request's own key (OnePerRequest), and on the unique index on the   *)
(* partner's key (OneRequestPerKey).                                       *)
(***************************************************************************)
EXTENDS DepixAuthorization, TLAPS

Stages == {"claim", "pay", "paying", "link", "revert"}
CallType == {Idle} \cup [at : Stages, pay : Payments]

\* A row exists for every request in the hands of a call or with a payment.
Rooted ==
  /\ \A s \in Screens : call[s] # Idle => auth[RequestOf(call[s].pay)].status # "NONE"
  /\ \A p \in Payments : Made(p) => auth[RequestOf(p)].status # "NONE"

OneRequestPerKey ==
  \A r, q \in Requests :
    r # q /\ auth[r].status # "NONE" /\ auth[q].status # "NONE"
      => PartnerKey[r] # PartnerKey[q]

OnePerRequest ==
  \A p, q \in Payments : Made(p) /\ Made(q) /\ RequestOf(p) = RequestOf(q) => p = q

\* The inductive invariant.
IInv == TypeOK /\ ClaimIsExclusive /\ Rooted /\ OneRequestPerKey /\ OnePerRequest

-----------------------------------------------------------------------------
(* Lemmas.                                                                 *)

\* A payment belongs to a request.
LEMMA Belongs == \A p \in Payments : RequestOf(p) \in Requests
  BY DEF Payments, RequestOf

\* A request's attempt is a payment.
LEMMA Attempt ==
  ASSUME NEW r \in Requests, NEW n \in 1 .. MaxAttempts
  PROVE  <<r, n>> \in Payments /\ RequestOf(<<r, n>>) = r
  BY DEF Payments, Attempts, RequestOf

\* A call is idle or has a stage and a payment.
LEMMA CallShape ==
  ASSUME TypeOK, NEW s \in Screens, call[s] # Idle
  PROVE  call[s].at \in Stages /\ call[s].pay \in Payments
         /\ RequestOf(call[s].pay) \in Requests
  BY Belongs DEF TypeOK, Stages

\* The moves of a payment keep its type and leave the others alone; none but
\* Tell makes one.
LEMMA PayMoves ==
  ASSUME TypeOK, NEW p \in Payments,
         Pay!Tell(p) \/ Pay!Leave(p) \/ Pay!Deliver(p) \/ Pay!Close(p) \/ Pay!Drop(p)
  PROVE  /\ left' \in [Payments -> BOOLEAN]
         /\ fate' \in [Payments -> Pay!Fate]
         /\ word' \in [Payments -> Pay!Word]
         /\ \A q \in Payments : Made(q)' => Made(q) \/ (q = p /\ Pay!Tell(p))
         /\ \A q \in Payments : Made(q) => Made(q)'
<1> USE DEF TypeOK, Pay!Fate, Pay!Word, Made
<1>1. CASE Pay!Tell(p)
  BY <1>1 DEF Pay!Tell
<1>2. CASE Pay!Leave(p)
  BY <1>2 DEF Pay!Leave
<1>3. CASE Pay!Deliver(p)
  BY <1>3 DEF Pay!Deliver
<1>4. CASE Pay!Close(p)
  BY <1>4 DEF Pay!Close
<1>5. CASE Pay!Drop(p)
  BY <1>5 DEF Pay!Drop
<1> QED BY <1>1, <1>2, <1>3, <1>4, <1>5

\* A call that gives up, or dies, makes no payment.
LEMMA GivesUp ==
  ASSUME TypeOK, NEW s \in Screens, call[s] # Idle, MayGiveUp(s)
  PROVE  /\ left' \in [Payments -> BOOLEAN]
         /\ fate' \in [Payments -> Pay!Fate]
         /\ word' \in [Payments -> Pay!Word]
         /\ \A q \in Payments : Made(q)' <=> Made(q)
<1>1. call[s].pay \in Payments
  BY CallShape
<1>2. CASE UNCHANGED payVars
  BY <1>2 DEF payVars, TypeOK, Made
<1>3. CASE Pay!Drop(call[s].pay)
  <2>1. word' = word \/ word[call[s].pay] # "none"
    BY <1>3 DEF Pay!Drop
  <2>2. \A q \in Payments : Made(q)' => Made(q)
    BY <1>1, <1>3, <2>1 DEF Pay!Drop, Made, TypeOK
  <2> QED BY <1>1, <1>3, <2>2, PayMoves
<1> QED BY <1>2, <1>3 DEF MayGiveUp

-----------------------------------------------------------------------------
(* Type correctness.                                                       *)

\* The first state.
LEMMA TypeInit == Init => TypeOK
  BY AttemptsAssumption DEF Init, TypeOK, Pay!Init, Pay!Fate, Pay!Word, AuthStatus, Idle

\* Requests asked for, rejected, expired, aging.
LEMMA TypeRequest ==
  ASSUME TypeOK, NEW r \in Requests,
         AskLooks(r) \/ AskInserts(r) \/ Reject(r) \/ Expire(r) \/ DayPasses(r)
  PROVE  TypeOK'
<1> USE DEF TypeOK, payVars, SetStatus, AuthStatus
<1>1. CASE AskLooks(r)
  BY <1>1 DEF AskLooks
<1>2. CASE AskInserts(r)
  BY <1>2 DEF AskInserts
<1>3. CASE Reject(r)
  BY <1>3 DEF Reject
<1>4. CASE Expire(r)
  BY <1>4 DEF Expire
<1>5. CASE DayPasses(r)
  BY <1>5 DEF DayPasses
<1> QED BY <1>1, <1>2, <1>3, <1>4, <1>5

\* An approval, from its read to its death.
LEMMA TypeScreen ==
  ASSUME TypeOK, NEW s \in Screens,
         Approval(s) \/ Crash(s) \/ \E r \in Requests : ApproveReads(s, r)
  PROVE  TypeOK'
<1> USE DEF TypeOK, payVars, SetStatus, AuthStatus, Move
<1>1. CASE \E r \in Requests : ApproveReads(s, r)
  <2>1. PICK r \in Requests : ApproveReads(s, r)
    BY <1>1
  <2>2. <<r, 1>> \in Payments
    BY <2>1, Attempt, AttemptsAssumption DEF ApproveReads
  <2> QED BY <2>1, <2>2 DEF ApproveReads
<1>2. CASE Claims(s)
  <2>1. call[s] # Idle
    BY <1>2 DEF Claims, Idle
  <2> DEFINE r == RequestOf(call[s].pay)
  <2>2. r \in Requests
    BY <2>1, CallShape
  <2>3. tried[r] + 1 \in 1 .. MaxAttempts /\ tried' = [tried EXCEPT ![r] = @ + 1]
    BY <1>2, <2>2, AttemptsAssumption DEF Claims
  <2>4. tried' \in [Requests -> 0 .. MaxAttempts] /\ tried'[r] \in 1 .. MaxAttempts
    BY <2>2, <2>3, AttemptsAssumption
  <2>5. <<r, tried'[r]>> \in Payments
    BY <2>2, <2>4, Attempt
  <2> HIDE DEF r
  <2>6. call' \in [Screens -> {Idle} \cup
                 [at : {"claim", "pay", "paying", "link", "revert"}, pay : Payments]]
    BY <1>2, <2>5 DEF Claims, r
  <2>7. auth' \in [Requests -> [status : AuthStatus, tx : Payments \cup {none}]]
    BY <1>2, <2>2 DEF Claims, r
  <2> QED BY <1>2, <2>4, <2>6, <2>7 DEF Claims
<1>3. CASE ClaimLost(s)
  BY <1>3 DEF ClaimLost
<1>4. CASE PayReplays(s)
  BY <1>4 DEF PayReplays, Twins
<1>5. CASE PayBegins(s)
  <2>1. call[s].pay \in Payments
    BY <1>5, CallShape DEF PayBegins, Idle
  <2> QED BY <1>5, <2>1, PayMoves DEF PayBegins
<1>6. CASE PaySent(s)
  <2>1. call[s].pay \in Payments
    BY <1>6, CallShape DEF PaySent, Idle
  <2> QED BY <1>6, <2>1 DEF PaySent
<1>7. CASE PayThrows(s)
  <2>1. call[s] # Idle
    BY <1>7 DEF PayThrows, Idle
  <2>2. call[s].pay \in Payments
    BY <2>1, CallShape
  <2> QED BY <1>7, <2>1, <2>2, GivesUp DEF PayThrows
<1>8. CASE Link(s)
  <2>1. call[s].pay \in Payments /\ RequestOf(call[s].pay) \in Requests
    BY <1>8, CallShape DEF Link, Idle
  <2> QED BY <1>8, <2>1 DEF Link
<1>9. CASE LinkThrows(s)
  <2>1. call[s].pay \in Payments
    BY <1>9, CallShape DEF LinkThrows, Idle
  <2> QED BY <1>9, <2>1 DEF LinkThrows
<1>10. CASE Revert(s)
  BY <1>10 DEF Revert
<1>11. CASE Crash(s)
  BY <1>11, GivesUp DEF Crash
<1> QED BY <1>1, <1>2, <1>3, <1>4, <1>5, <1>6, <1>7, <1>8, <1>9, <1>10, <1>11 DEF Approval

\* Every step.
LEMMA TypeStep == TypeOK /\ [Next]_vars => TypeOK'
<1> SUFFICES ASSUME TypeOK, [Next]_vars PROVE TypeOK'
  OBVIOUS
<1>1. CASE UNCHANGED vars
  BY <1>1 DEF vars, TypeOK
<1>2. CASE \E p \in Payments : PaymentMoves(p)
  <2>1. PICK p \in Payments : PaymentMoves(p)
    BY <1>2
  <2>2. /\ left' \in [Payments -> BOOLEAN]
        /\ fate' \in [Payments -> Pay!Fate]
        /\ word' \in [Payments -> Pay!Word]
    BY <2>1, PayMoves DEF PaymentMoves
  <2> QED BY <2>1, <2>2 DEF PaymentMoves, TypeOK
<1> QED BY <1>1, <1>2, TypeRequest, TypeScreen DEF Next

\* Type correctness of the approval of partner withdrawals.
THEOREM TypeCorrect == Spec => []TypeOK
  BY TypeInit, TypeStep, PTL DEF Spec

-----------------------------------------------------------------------------
(* The claim is exclusive.                                                 *)


\* Requests' own steps touch a status only when it is NONE or PENDING.
LEMMA RequestKeeps ==
  ASSUME IInv, NEW r \in Requests,
         AskLooks(r) \/ AskInserts(r) \/ Reject(r) \/ Expire(r) \/ DayPasses(r)
  PROVE  ClaimIsExclusive' /\ Rooted' /\ OneRequestPerKey' /\ OnePerRequest'
<1> USE DEF IInv, TypeOK, payVars, SetStatus
<1>1. UNCHANGED <<call, word>>
  BY DEF AskLooks, AskInserts, Reject, Expire, DayPasses
<1>2. \/ UNCHANGED auth
      \/ /\ auth[r].status \in {"NONE", "PENDING"}
         /\ \E st \in {"PENDING", "REJECTED", "EXPIRED"} :
              auth' = [auth EXCEPT ![r].status = st]
  BY DEF AskLooks, AskInserts, Reject, Expire, DayPasses, Asked, AuthStatus
<1>3. auth[r].status = "NONE" => UNCHANGED auth \/ ~Asked(r)
  BY DEF AskLooks, AskInserts, Reject, Expire, DayPasses
<1>4. \A q \in Requests : q # r => auth'[q] = auth[q]
  BY <1>2
<1>5. \A q \in Requests : auth[q].status # "NONE" => auth'[q].status # "NONE"
  BY <1>2
<1>6. ClaimIsExclusive'
  BY <1>1, <1>2, <1>4 DEF ClaimIsExclusive, Holds
<1>7. Rooted'
  <2>1. ASSUME NEW s \in Screens, call[s] # Idle
        PROVE  auth'[RequestOf(call[s].pay)].status # "NONE"
    BY <2>1, <1>5, CallShape DEF Rooted
  <2>2. ASSUME NEW p \in Payments, Made(p) PROVE auth'[RequestOf(p)].status # "NONE"
    BY <2>2, <1>5, Belongs DEF Rooted
  <2> QED BY <1>1, <2>1, <2>2 DEF Rooted, Made
<1>8. OneRequestPerKey'
  <2>1. CASE auth[r].status = "NONE" /\ ~Asked(r)
    BY <2>1, <1>4 DEF OneRequestPerKey, Asked
  <2>2. CASE auth[r].status # "NONE" \/ UNCHANGED auth
    BY <2>2, <1>4 DEF OneRequestPerKey
  <2> QED BY <1>3, <2>1, <2>2
<1>9. OnePerRequest'
  BY <1>1 DEF OnePerRequest, Made
<1> QED BY <1>6, <1>7, <1>8, <1>9

\* What an approval's step does to the call and to the rows.
LEMMA ScreenKeeps ==
  ASSUME IInv, NEW s \in Screens,
         Approval(s) \/ Crash(s) \/ \E r \in Requests : ApproveReads(s, r)
  PROVE  ClaimIsExclusive' /\ Rooted' /\ OneRequestPerKey' /\ OnePerRequest'
<1> USE DEF IInv
<1>t. TypeOK /\ TypeOK'
  BY TypeStep DEF Next
<1>1. CASE \E r \in Requests : ApproveReads(s, r)
  <2>1. PICK r \in Requests : ApproveReads(s, r)
    BY <1>1
  <2>2. /\ call' = [call EXCEPT ![s] = [at |-> "claim", pay |-> <<r, 1>>]]
        /\ UNCHANGED <<auth, word>>
        /\ auth[r].status = "PENDING"
        /\ RequestOf(<<r, 1>>) = r
    BY <2>1 DEF ApproveReads, Move, payVars, RequestOf
  <2>3. ClaimIsExclusive'
    BY <2>2 DEF ClaimIsExclusive, Holds, TypeOK
  <2>4. Rooted'
    BY <2>2 DEF Rooted, Made, TypeOK
  <2> QED BY <2>2, <2>3, <2>4 DEF OneRequestPerKey, OnePerRequest, Made
<1>2. CASE Claims(s)
  <2>1. call[s] # Idle
    BY <1>2 DEF Claims, Idle
  <2> DEFINE r == RequestOf(call[s].pay)
             p == <<r, tried'[r]>>
  <2>2. r \in Requests
    BY <2>1, CallShape
  <2>3. RequestOf(p) = r
    BY DEF RequestOf
  <2>4. /\ call' = [call EXCEPT ![s] = [at |-> "pay", pay |-> p]]
        /\ auth[r].status = "PENDING"
        /\ auth' = [auth EXCEPT ![r].status = "AUTHORIZED"]
        /\ UNCHANGED word
    BY <1>2 DEF Claims, Move, SetStatus, payVars
  <2> HIDE DEF p, r
  <2>5. \A t \in Screens : ~Holds(t, r)
    BY <2>2, <2>4 DEF ClaimIsExclusive
  <2>6. /\ \A q \in Requests \ {r} : auth'[q] = auth[q]
        /\ auth'[r].status = "AUTHORIZED"
        /\ \A t \in Screens \ {s} : call'[t] = call[t]
        /\ call'[s] = [at |-> "pay", pay |-> p]
    BY <2>2, <2>4, <1>t DEF TypeOK
  <2>7. ClaimIsExclusive'
    <3>1. ASSUME NEW t \in Screens, NEW q \in Requests, Holds(t, q)'
          PROVE  auth'[q].status = "AUTHORIZED" /\ (t # s => q # r)
      <4>1. CASE t = s
        BY <4>1, <3>1, <2>3, <2>6 DEF Holds
      <4>2. CASE t # s
        BY <4>2, <3>1, <2>5, <2>6 DEF Holds, ClaimIsExclusive
      <4> QED BY <4>1, <4>2
    <3>2. \A q \in Requests : Holds(s, q)' => q = r
      BY <2>3, <2>6 DEF Holds
    <3>3. \A t \in Screens \ {s} : \A q \in Requests : Holds(t, q)' <=> Holds(t, q)
      BY <2>6 DEF Holds
    <3> QED BY <3>1, <3>2, <3>3 DEF ClaimIsExclusive
  <2>8. Rooted'
    <3>1. \A q \in Requests : auth[q].status # "NONE" => auth'[q].status # "NONE"
      BY <2>6
    <3>2. ASSUME NEW t \in Screens, call'[t] # Idle
          PROVE  auth'[RequestOf(call'[t].pay)].status # "NONE"
      <4>1. CASE t = s
        BY <4>1, <2>3, <2>6
      <4>2. CASE t # s
        BY <4>2, <3>1, <3>2, <2>6, CallShape DEF Rooted
      <4> QED BY <4>1, <4>2
    <3>3. ASSUME NEW q \in Payments, Made(q) PROVE auth'[RequestOf(q)].status # "NONE"
      BY <3>1, <3>3, Belongs DEF Rooted
    <3> QED BY <3>2, <3>3, <2>4 DEF Rooted, Made
  <2>9. OneRequestPerKey'
    BY <2>2, <2>4, <2>6 DEF OneRequestPerKey
  <2> QED BY <2>4, <2>7, <2>8, <2>9 DEF OnePerRequest, Made
<1>3. CASE ClaimLost(s)
  BY <1>3, <1>t DEF ClaimLost, payVars, TypeOK, Idle, ClaimIsExclusive, Holds, Rooted,
       OneRequestPerKey, OnePerRequest, Made
<1>4. CASE PayReplays(s)
  <2>1. PICK q \in Twins(call[s].pay) :
          call' = [call EXCEPT ![s] = [at |-> "link", pay |-> q]]
    BY <1>4 DEF PayReplays, Move
  <2>2. q \in Payments /\ RequestOf(q) = RequestOf(call[s].pay) /\ Made(q)
    BY <2>1 DEF Twins, withdrawKeyFor
  <2>3. call[s].at = "pay" /\ UNCHANGED <<auth, word>>
    BY <1>4 DEF PayReplays, payVars
  <2>4. \A t \in Screens : \A r \in Requests : Holds(t, r)' <=> Holds(t, r)
    BY <2>1, <2>2, <2>3, <1>t DEF Holds, TypeOK
  <2>5. Rooted'
    BY <2>1, <2>2, <2>3, <1>t DEF Rooted, Made, TypeOK
  <2> QED BY <2>3, <2>4, <2>5 DEF ClaimIsExclusive, OneRequestPerKey, OnePerRequest, Made
<1>5. CASE PayBegins(s)
  <2> DEFINE p == call[s].pay
  <2>1. call[s].at = "pay" /\ call[s] # Idle
    BY <1>5 DEF PayBegins, Idle
  <2>2. p \in Payments /\ RequestOf(p) \in Requests
    BY <2>1, CallShape
  <2>3. /\ call' = [call EXCEPT ![s] = [at |-> "paying", pay |-> p]]
        /\ UNCHANGED auth
        /\ \A q \in Payments : Made(q)' => Made(q) \/ q = p
    BY <1>5, <2>2, PayMoves DEF PayBegins, Move
  <2>4. \A q \in Payments : Made(q) => RequestOf(q) # RequestOf(p)
    BY <1>5, <2>2 DEF PayBegins, Twins, withdrawKeyFor
  <2> HIDE DEF p
  <2>5. \A t \in Screens : \A r \in Requests : Holds(t, r)' <=> Holds(t, r)
    BY <2>1, <2>3, <1>t DEF Holds, TypeOK, p
  <2>6. Rooted'
    <3>1. auth[RequestOf(p)].status # "NONE"
      BY <2>1 DEF Rooted, p
    <3>2. \A t \in Screens : t # s => call'[t] = call[t]
      BY <2>3, <1>t DEF TypeOK
    <3>3. call'[s].pay = p
      BY <2>3, <1>t DEF TypeOK
    <3> QED BY <2>3, <3>1, <3>2, <3>3 DEF Rooted
  <2>7. OnePerRequest'
    BY <2>3, <2>4 DEF OnePerRequest
  <2> QED BY <2>3, <2>5, <2>6, <2>7 DEF ClaimIsExclusive, OneRequestPerKey
<1>6. CASE PaySent(s) \/ LinkThrows(s)
  <2>1. PICK at \in {"link", "revert"} :
          /\ call' = [call EXCEPT ![s] = [at |-> at, pay |-> call[s].pay]]
          /\ UNCHANGED <<auth, word>>
          /\ call[s].at \in {"paying", "link"}
    BY <1>6 DEF PaySent, LinkThrows, Move, payVars
  <2>2. \A t \in Screens : \A r \in Requests : Holds(t, r)' <=> Holds(t, r)
    BY <2>1, <1>t DEF Holds, TypeOK
  <2>3. Rooted'
    BY <2>1, <1>t DEF Rooted, Made, TypeOK, Idle
  <2> QED BY <2>1, <2>2, <2>3 DEF ClaimIsExclusive, OneRequestPerKey, OnePerRequest, Made
<1>7. CASE PayThrows(s)
  <2>1. call[s].at \in {"pay", "paying"} /\ call[s] # Idle
    BY <1>7 DEF PayThrows, Idle
  <2>2. /\ call' = [call EXCEPT ![s] = [at |-> "revert", pay |-> call[s].pay]]
        /\ UNCHANGED auth
        /\ \A q \in Payments : Made(q)' <=> Made(q)
    BY <1>7, <2>1, GivesUp DEF PayThrows, Move
  <2>3. \A t \in Screens : \A r \in Requests : Holds(t, r)' <=> Holds(t, r)
    BY <2>1, <2>2, <1>t DEF Holds, TypeOK
  <2>4. Rooted'
    BY <2>1, <2>2, <1>t DEF Rooted, TypeOK
  <2> QED BY <2>2, <2>3, <2>4 DEF ClaimIsExclusive, OneRequestPerKey, OnePerRequest
<1>8. CASE Link(s)
  <2>1. call[s] # Idle
    BY <1>8 DEF Link, Idle
  <2>2. RequestOf(call[s].pay) \in Requests
    BY <2>1, CallShape
  <2>3. /\ \A r \in Requests : auth'[r].status = auth[r].status
        /\ call' = [call EXCEPT ![s] = Idle]
        /\ UNCHANGED word
    BY <1>8, <2>2, <1>t DEF Link, payVars, TypeOK
  <2>4. \A t \in Screens : call'[t] = IF t = s THEN Idle ELSE call[t]
    BY <2>3, <1>t DEF TypeOK
  <2>5. ClaimIsExclusive'
    BY <2>3, <2>4 DEF ClaimIsExclusive, Holds, Idle
  <2>6. Rooted'
    BY <2>3, <2>4, CallShape, Belongs DEF Rooted, Made
  <2> QED BY <2>3, <2>5, <2>6 DEF OneRequestPerKey, OnePerRequest, Made
<1>9. CASE Revert(s)
  <2>1. call[s] # Idle /\ call[s].at = "revert"
    BY <1>9 DEF Revert, Idle
  <2> DEFINE r == RequestOf(call[s].pay)
  <2>2. r \in Requests /\ Holds(s, r)
    BY <2>1, CallShape DEF Holds
  <2>3. /\ \A q \in Requests : q # r => auth'[q] = auth[q]
        /\ \A q \in Requests : auth[q].status # "NONE" <=> auth'[q].status # "NONE"
        /\ call' = [call EXCEPT ![s] = Idle]
        /\ UNCHANGED word
    BY <1>9, <2>2, <1>t DEF Revert, SetStatus, payVars, TypeOK
  <2> HIDE DEF r
  <2>4. \A t \in Screens : call'[t] = IF t = s THEN Idle ELSE call[t]
    BY <2>3, <1>t DEF TypeOK
  <2>5. \A t \in Screens \ {s} : ~Holds(t, r)
    BY <2>2 DEF ClaimIsExclusive
  <2>6. \A t \in Screens : \A q \in Requests : Holds(t, q)' => t # s /\ Holds(t, q)
    BY <2>4 DEF Holds, Idle
  <2>7. ClaimIsExclusive'
    BY <2>3, <2>5, <2>6 DEF ClaimIsExclusive
  <2>8. Rooted'
    BY <2>3, <2>4, CallShape, Belongs DEF Rooted, Made
  <2> QED BY <2>3, <2>7, <2>8 DEF OneRequestPerKey, OnePerRequest, Made
<1>10. CASE Crash(s)
  <2>1. /\ \A q \in Payments : Made(q)' <=> Made(q)
        /\ UNCHANGED auth
        /\ \A t \in Screens : call'[t] = IF t = s THEN Idle ELSE call[t]
    BY <1>10, GivesUp, <1>t DEF Crash, TypeOK
  <2>2. ClaimIsExclusive'
    BY <2>1 DEF ClaimIsExclusive, Holds, Idle
  <2> QED BY <2>1, <2>2 DEF Rooted, OneRequestPerKey, OnePerRequest
<1> QED BY <1>1, <1>2, <1>3, <1>4, <1>5, <1>6, <1>7, <1>8, <1>9, <1>10 DEF Approval

\* The invariant is inductive.
LEMMA IInvStep == IInv /\ [Next]_vars => IInv'
<1> SUFFICES ASSUME IInv, [Next]_vars PROVE IInv'
  OBVIOUS
<1>1. TypeOK'
  BY TypeStep DEF IInv
<1>2. CASE UNCHANGED vars
  BY <1>1, <1>2 DEF vars, IInv, ClaimIsExclusive, Holds, Rooted, OneRequestPerKey,
       OnePerRequest, Made
<1>3. CASE \E p \in Payments : PaymentMoves(p)
  <2>1. PICK p \in Payments : PaymentMoves(p)
    BY <1>3
  <2>2. Made(p) /\ UNCHANGED <<auth, call>>
    BY <2>1 DEF PaymentMoves
  <2>3. \A q \in Payments : Made(q)' <=> Made(q)
    BY <2>1, <2>2, PayMoves DEF PaymentMoves, IInv
  <2> QED BY <1>1, <2>2, <2>3 DEF IInv, ClaimIsExclusive, Holds, Rooted, OneRequestPerKey,
            OnePerRequest
<1>4. CASE \E r \in Requests :
             AskLooks(r) \/ AskInserts(r) \/ Reject(r) \/ Expire(r) \/ DayPasses(r)
  BY <1>1, <1>4, RequestKeeps DEF IInv
<1>5. CASE \E s \in Screens : Approval(s) \/ Crash(s) \/ \E r \in Requests : ApproveReads(s, r)
  BY <1>1, <1>5, ScreenKeeps DEF IInv
<1> QED BY <1>2, <1>3, <1>4, <1>5 DEF Next

\* It holds at first: there is no row, no call and no payment.
LEMMA IInvInit == Init => IInv
<1> SUFFICES ASSUME Init PROVE IInv
  OBVIOUS
<1>1. TypeOK
  BY TypeInit
<1>2. /\ \A s \in Screens : call[s] = Idle
      /\ \A r \in Requests : auth[r].status = "NONE"
      /\ \A p \in Payments : ~Made(p)
  BY DEF Init, Pay!Init, Made
<1> QED BY <1>1, <1>2 DEF IInv, ClaimIsExclusive, Holds, Idle, Rooted, OneRequestPerKey,
           OnePerRequest

\* The invariant holds always.
LEMMA Invariance == Spec => []IInv
  BY IInvInit, IInvStep, PTL DEF Spec

\* Between its claim and its answer an approval has its request to itself, for
\* any number of screens: the claim is a compare-and-set and what it needs is
\* written back only by the call that holds it.
THEOREM Exclusive == Spec => []ClaimIsExclusive
  BY Invariance, PTL DEF IInv

\* One payment per request and one request per key give one payment per order.
LEMMA OneOrder == IInv => OnePaymentPerOrder
<1> SUFFICES ASSUME IInv, NEW p \in Payments, NEW q \in Payments,
                    p # q, Made(p), Made(q)
             PROVE  PartnerKey[RequestOf(p)] # PartnerKey[RequestOf(q)]
  BY DEF OnePaymentPerOrder
<1>1. RequestOf(p) # RequestOf(q)
  BY DEF IInv, OnePerRequest
<1>2. auth[RequestOf(p)].status # "NONE" /\ auth[RequestOf(q)].status # "NONE"
  BY DEF IInv, Rooted
<1> QED BY <1>1, <1>2, Belongs DEF IInv, OneRequestPerKey

\* An order of the partner is paid by at most one withdrawal, for any number of
\* deliveries, approvals, failures and retries.
THEOREM OnePayment == Spec => []OnePaymentPerOrder
  BY Invariance, OneOrder, PTL

=============================================================================
