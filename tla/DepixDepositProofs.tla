------------------------- MODULE DepixDepositProofs -------------------------
(***************************************************************************)
(* Proofs about DepixDeposit, for any number of webhooks, screens and      *)
(* deaths: no credit without a confirmed transfer, no release without the  *)
(* payer's money.  Both rest on what a call in flight still knows: facts   *)
(* about Eulen and the chain do not go stale, whatever happens to the row. *)
(***************************************************************************)
EXTENDS DepixDeposit, TLAPS

By == {"none", "hook", "poll", "verify", "markPaid", "cancel"}
CallType == [at : Steps, out : Status \cup {"none"}, by : By]

GivenBack == pix \in {"refunded", "returned"}

\* What the place of a call says of Eulen and of the chain, and of its outcome.
Knows(k) ==
  /\ k.at \in {"settle", "complete", "book", "effects"} => conf
  /\ k.at \in {"note", "look", "stamp"} => Sent
  /\ k.at \in {"approve", "corroborate", "flip", "release", "find", "mark"} => Received
  /\ k.at = "return" => GivenBack
  /\ k.at \in {"close", "unpay", "expire"} => k.out \in {"EXPIRED", "FAILED"}
  /\ k.at = "decide" /\ k.out \in Releasable => Received

IInv ==
  /\ TypeOK
  /\ pix # "none" => made \in {"asked", "stored", "shown"}
  /\ conf => Sent
  /\ row.status = "MED_REFUNDED" => GivenBack
  /\ CreditIsConfirmed
  /\ ReleasedWasPaid
  /\ \A c \in Callers : Knows(call[c])

-----------------------------------------------------------------------------

RowType == [status : Status, approved : BOOLEAN, txid : BOOLEAN]

\* Writing a status, an approval or a txid into a row leaves a row.
LEMMA RowWritten ==
  ASSUME NEW r \in RowType, NEW st \in Status
  PROVE  /\ [r EXCEPT !.status = st] \in RowType
         /\ [r EXCEPT !.status = st, !.approved = TRUE] \in RowType
         /\ [r EXCEPT !.status = st, !.txid = TRUE] \in RowType
BY DEF RowType

\* Writing where a call stands and what it concluded leaves a call.
LEMMA CallWritten ==
  ASSUME NEW f \in [Callers -> CallType], NEW c \in Callers, NEW st \in Status
  PROVE  [f EXCEPT ![c].at = "decide", ![c].out = st] \in [Callers -> CallType]
<1>1. \A k \in CallType : [k EXCEPT !.at = "decide", !.out = st] \in CallType
  BY DEF CallType, Steps
<1>2. [f EXCEPT ![c].at = "decide", ![c].out = st]
        = [f EXCEPT ![c] = [f[c] EXCEPT !.at = "decide", !.out = st]]
  OBVIOUS
<1> QED BY <1>1, <1>2

\* A step of a call keeps the types: what it writes is a status, a place or a flag.
LEMMA StepType ==
  ASSUME IInv, NEW c \in Callers, Step(c)
  PROVE  TypeOK'
<1> RowType = [status : Status, approved : BOOLEAN, txid : BOOLEAN] BY DEF RowType
<1>a. TypeOK /\ row \in RowType BY DEF TypeOK, IInv
<1>c. row.status \in Status BY <1>a DEF RowType
<1>b. {"PROCESSING", "COMPLETED", "EXPIRED", "FAILED"} \subseteq Status BY DEF Status
<1> USE DEF TypeOK, Go, Ends, Polled, Idle, world, Status, Steps, Releasable, Open, Credited
<1>1. CASE Hook(c)
  <2>1. CASE Approves(c)
    <3>1. row' \in RowType BY <1>a, <1>b, <2>1, RowWritten DEF Approves
    <3>2. QED BY <1>a, <2>1, <3>1 DEF Approves
  <2>2. CASE Corroborates(c) BY <1>a, <2>2 DEF Corroborates
  <2>3. CASE Notes(c) BY <1>a, <2>3 DEF Notes
  <2>4. CASE Closes(c)
    <3>1. Knows(call[c]) /\ call[c].at = "close" BY <1>a, <2>4 DEF Closes, IInv
    <3>2. call[c].out \in Status BY <3>1 DEF Knows
    <3>3. row' \in RowType BY <1>a, <3>2, <2>4, RowWritten DEF Closes
    <3>4. QED BY <1>a, <2>4, <3>3 DEF Closes
  <2>5. CASE Unpays(c) BY <1>a, <2>5 DEF Unpays
  <2>6. CASE Returns(c) BY <1>a, <2>6 DEF Returns
  <2>7. CASE Looks(c) BY <1>a, <2>7 DEF Looks
  <2>8. CASE Stamps(c)
    <3>1. row' \in RowType BY <1>a, <1>b, <2>8, RowWritten DEF Stamps
    <3>2. QED BY <1>a, <2>8, <3>1 DEF Stamps
  <2>9. QED BY <1>1, <2>1, <2>2, <2>3, <2>4, <2>5, <2>6, <2>7, <2>8 DEF Hook
<1>2. CASE Credit(c)
  <2>1. CASE CheckPasses(c) BY <1>a, <2>1 DEF CheckPasses
  <2>2. CASE CheckFails(c) BY <1>a, <2>2 DEF CheckFails
  <2>3. CASE SettleFinds(c) BY <1>a, <2>3 DEF SettleFinds
  <2>4. CASE Completes(c)
    <3>1. CASE Open
      <4>1. row' = [row EXCEPT !.status = "COMPLETED", !.txid = TRUE] BY <2>4, <3>1 DEF Completes
      <4>2. row' \in RowType BY <1>a, <1>b, <4>1, RowWritten
      <4>3. QED BY <1>a, <2>4, <3>1, <4>2 DEF Completes
    <3>2. CASE ~Open
      <4>1. UNCHANGED row /\ Polled(c) BY <2>4, <3>2 DEF Completes
      <4>2. QED BY <1>a, <2>4, <4>1 DEF Completes
    <3>3. QED BY <3>1, <3>2
  <2>5. CASE Books(c) BY <1>a, <2>5 DEF Books
  <2>6. QED BY <1>2, <2>1, <2>2, <2>3, <2>4, <2>5 DEF Credit
<1>3. CASE Release(c)
  <2>1. CASE Releases(c) BY <1>a, <2>1 DEF Releases
  <2>2. CASE Withholds(c) BY <1>a, <2>2 DEF Withholds
  <2>3. CASE FindsSale(c) BY <1>a, <2>3 DEF FindsSale
  <2>4. CASE MarksSale(c) BY <1>a, <2>4 DEF MarksSale
  <2>5. QED BY <1>3, <2>1, <2>2, <2>3, <2>4 DEF Release
<1>4. CASE Poll(c)
  <2>1. CASE Expires(c) BY <1>a, <2>1 DEF Expires
  <2>2. CASE Queries(c) BY <1>a, <2>2 DEF Queries
  <2>3. CASE Flips(c)
    <3>1. row' \in RowType BY <1>a, <1>b, <2>3, RowWritten DEF Flips
    <3>2. QED BY <1>a, <2>3, <3>1 DEF Flips
  <2>4. CASE Lapses(c) BY <1>a, <2>4 DEF Lapses
  <2>5. QED BY <1>4, <2>1, <2>2, <2>3, <2>4 DEF Poll
<1>5. CASE Screen(c)
  <2>1. CASE Judges(c)
    <3>2. call \in [Callers -> CallType] BY <1>a DEF CallType, By
    <3>3. call' = [call EXCEPT ![c].at = "decide", ![c].out = row.status] BY <1>a, <2>1 DEF Judges
    <3>4. call' \in [Callers -> CallType] BY <1>c, <3>2, <3>3, CallWritten
    <3>5. QED BY <1>a, <2>1, <3>4 DEF Judges, CallType, By
  <2>2. CASE Decides(c) BY <1>a, <2>2 DEF Decides, Verified
  <2>3. CASE Voids(c) BY <1>a, <2>3 DEF Voids
  <2>4. QED BY <1>5, <2>1, <2>2, <2>3 DEF Screen
<1>6. QED BY <1>1, <1>2, <1>3, <1>4, <1>5 DEF Step

\* A step of a call leaves Eulen and the chain alone, and what it writes it knows.
LEMMA StepKeeps ==
  ASSUME IInv, NEW c \in Callers, Step(c)
  PROVE  /\ CreditIsConfirmed' /\ ReleasedWasPaid'
         /\ (row.status = "MED_REFUNDED" => GivenBack)'
         /\ \A d \in Callers : Knows(call[d])'
<1> USE DEF IInv, TypeOK, Knows, CreditIsConfirmed, ReleasedWasPaid, Releasable, Received, GivenBack,
            Sent, Open, Credited, Go, Ends, Polled, Idle, world
<1>1. CASE Hook(c)
  <2>1. CASE Approves(c) BY <2>1 DEF Approves
  <2>2. CASE Corroborates(c) BY <2>2 DEF Corroborates
  <2>3. CASE Notes(c) BY <2>3 DEF Notes
  <2>4. CASE Closes(c) BY <2>4 DEF Closes
  <2>5. CASE Unpays(c) BY <2>5 DEF Unpays
  <2>6. CASE Returns(c) BY <2>6 DEF Returns
  <2>7. CASE Looks(c) BY <2>7 DEF Looks
  <2>8. CASE Stamps(c) BY <2>8 DEF Stamps
  <2>9. QED BY <1>1, <2>1, <2>2, <2>3, <2>4, <2>5, <2>6, <2>7, <2>8 DEF Hook
<1>2. CASE Credit(c)
  <2>1. CASE CheckPasses(c) BY <2>1 DEF CheckPasses
  <2>2. CASE CheckFails(c) BY <2>2 DEF CheckFails
  <2>3. CASE SettleFinds(c) BY <2>3 DEF SettleFinds
  <2>4. CASE Completes(c)
    <3>1. CASE Open
      <4>1. /\ row'.status = "COMPLETED" /\ UNCHANGED <<world, fee, sale>>
            /\ call[c].at = "complete"
            /\ call' = [call EXCEPT ![c].at = "book"]
        BY <2>4, <3>1 DEF Completes
      <4>2. conf /\ Sent
        BY <4>1
      <4>3. \A d \in Callers : Knows(call[d])'
        BY <4>1, <4>2
      <4> QED BY <4>1, <4>2, <4>3
    <3>2. CASE ~Open BY <2>4, <3>2 DEF Completes
    <3>3. QED BY <3>1, <3>2
  <2>5. CASE Books(c) BY <2>5 DEF Books
  <2>6. QED BY <1>2, <2>1, <2>2, <2>3, <2>4, <2>5 DEF Credit
<1>3. CASE Release(c)
  <2>1. CASE Releases(c) BY <2>1 DEF Releases
  <2>2. CASE Withholds(c) BY <2>2 DEF Withholds
  <2>3. CASE FindsSale(c) BY <2>3 DEF FindsSale
  <2>4. CASE MarksSale(c) BY <2>4 DEF MarksSale
  <2>5. QED BY <1>3, <2>1, <2>2, <2>3, <2>4 DEF Release
<1>4. CASE Poll(c)
  <2>1. CASE Expires(c) BY <2>1 DEF Expires
  <2>2. CASE Queries(c) BY <2>2 DEF Queries
  <2>3. CASE Flips(c) BY <2>3 DEF Flips
  <2>4. CASE Lapses(c) BY <2>4 DEF Lapses
  <2>5. QED BY <1>4, <2>1, <2>2, <2>3, <2>4 DEF Poll
<1>5. CASE Screen(c)
  <2>1. CASE Judges(c) BY <2>1 DEF Judges
  <2>2. CASE Decides(c) BY <2>2 DEF Decides, Verified
  <2>3. CASE Voids(c) BY <2>3 DEF Voids
  <2>4. QED BY <1>5, <2>1, <2>2, <2>3 DEF Screen
<1>6. QED BY <1>1, <1>2, <1>3, <1>4, <1>5 DEF Step

\* Who begins, begins with what it was told or read, and touches nothing else.
LEMMA BeginKeeps ==
  ASSUME IInv,
         (\E c \in Calls : Begins(c) \/ Crash(c)) \/ Sweeps \/ ExtractReads \/ JobDies \/ JobRestarts
  PROVE  IInv'
<1>a. cron \in Callers /\ Calls \subseteq Callers BY DEF Callers
<1> USE DEF IInv, TypeOK, Knows, CreditIsConfirmed, ReleasedWasPaid, Releasable, Received, GivenBack,
            Sent, Open, Credited, Ends, Idle, world, Status, Steps
<1>1. ASSUME NEW c \in Calls, NEW e \in Events, Receives(c, e) PROVE IInv'
  <2>1. PICK at \in FirstSteps[e] :
          UNCHANGED call \/ call' = [call EXCEPT ![c] = [at |-> at, out |-> Outcome(e), by |-> "hook"]]
    BY <1>1 DEF Receives
  <2>2. Happened[e] BY <1>1 DEF Receives
  <2>3. /\ at \in Steps /\ Outcome(e) \in Status \cup {"none"}
        /\ Knows([at |-> at, out |-> Outcome(e), by |-> "hook"])
    <3>1. CASE e \in {"expired", "refunded"}
      <4>1. at = "close" /\ Outcome(e) \in {"EXPIRED", "FAILED"} BY <2>1, <3>1 DEF FirstSteps, Outcome
      <4> QED BY <4>1
    <3>2. CASE e \in {"approved", "med", "confirmed"}
      <4>a. CASE e = "approved" BY <2>1, <2>2, <4>a DEF FirstSteps, Happened, Outcome
      <4>b. CASE e = "med"
        <5>1. pix = "returned" BY <2>2, <4>b DEF Happened
        <5>2. at = "return" BY <2>1, <4>b DEF FirstSteps
        <5> QED BY <4>b, <5>1, <5>2 DEF Outcome
      <4>c. CASE e = "confirmed" BY <2>1, <4>c DEF FirstSteps, Outcome
      <4> QED BY <3>2, <4>a, <4>b, <4>c
    <3>3. CASE e \in {"depix_sent", "pending"} BY <2>1, <2>2, <3>3 DEF FirstSteps, Outcome, Happened
    <3>4. QED BY <3>1, <3>2, <3>3 DEF Events
  <2>4. seen' \subseteq Events BY <1>1 DEF Receives
  <2>5. call' \in [Callers -> CallType] BY <1>a, <2>1, <2>3 DEF CallType, By
  <2>6. \A d \in Callers : Knows(call'[d])
    BY <1>a, <2>1, <2>3
  <2>7. QED BY <1>1, <2>4, <2>5, <2>6 DEF Receives, CallType, By
<1>b. /\ FirstStep \in Steps /\ Foregone \in Status \cup {"none"}
      /\ \A by \in By : Knows([at |-> FirstStep, out |-> Foregone, by |-> by])
  BY DEF FirstStep, Foregone
<1>2. ASSUME NEW c \in Calls, NEW by \in {"verify", "markPaid"}, SaleReads(c, by) PROVE IInv'
  <2>1. by \in By BY DEF By
  <2>2. call' = [call EXCEPT ![c] = [at |-> FirstStep, out |-> Foregone, by |-> by]]
    BY <1>2 DEF SaleReads
  <2>3. call' \in [Callers -> CallType] BY <1>a, <1>b, <2>1, <2>2 DEF CallType, By
  <2>4. \A d \in Callers : Knows(call'[d]) BY <1>a, <1>b, <2>1, <2>2
  <2>5. QED BY <1>2, <2>3, <2>4 DEF SaleReads, CallType, By
<1>3. ASSUME NEW c \in Calls, ScreenPolls(c) PROVE IInv'
  <2>1. "poll" \in By BY DEF By
  <2>2. call' = [call EXCEPT ![c] = [at |-> FirstStep, out |-> Foregone, by |-> "poll"]]
    BY <1>3 DEF ScreenPolls
  <2>3. call' \in [Callers -> CallType] BY <1>a, <1>b, <2>1, <2>2 DEF CallType, By
  <2>4. \A d \in Callers : Knows(call'[d]) BY <1>a, <1>b, <2>1, <2>2
  <2>5. QED BY <1>3, <2>3, <2>4 DEF ScreenPolls, CallType, By
<1>4. CASE Sweeps
  <2>1. "poll" \in By BY DEF By
  <2>2. call' = [call EXCEPT ![cron] = [at |-> FirstStep, out |-> Foregone, by |-> "poll"]]
    BY <1>4 DEF Sweeps
  <2>3. call' \in [Callers -> CallType] BY <1>a, <1>b, <2>1, <2>2 DEF CallType, By
  <2>4. \A d \in Callers : Knows(call'[d]) BY <1>a, <1>b, <2>1, <2>2
  <2>5. QED BY <1>4, <2>3, <2>4 DEF Sweeps, CallType, By
<1>5. ASSUME NEW c \in Calls, CancelReads(c) PROVE IInv' BY <1>a, <1>5 DEF CancelReads
<1>6. ASSUME NEW c \in Calls, Crash(c) PROVE IInv' BY <1>a, <1>6 DEF Crash
<1>7. CASE ExtractReads BY <1>a, <1>7 DEF ExtractReads
<1>8. CASE JobDies BY <1>a, <1>8 DEF JobDies
<1>9. CASE JobRestarts BY <1>a, <1>9 DEF JobRestarts
<1>10. QED BY <1>1, <1>2, <1>3, <1>4, <1>5, <1>6, <1>7, <1>8, <1>9 DEF Begins

\* The world only moves on: what was paid stays paid, what was sent stays sent.
LEMMA WorldKeeps ==
  ASSUME IInv, World
  PROVE  IInv'
<1>b. row \in RowType /\ {"PENDING", "FAILED"} \subseteq Status BY DEF IInv, TypeOK, RowType, Status
<1> USE DEF IInv, TypeOK, Knows, CreditIsConfirmed, ReleasedWasPaid, Releasable, Received, GivenBack,
            Sent, Open, Credited
<1>1. CASE Inserts
  <2>1. row' \in RowType BY <1>b, <1>1, RowWritten DEF Inserts
  <2>2. QED BY <1>1, <2>1 DEF Inserts, RowType
<1>2. CASE CreationFails
  <2>1. row' \in RowType BY <1>b, <1>2, RowWritten DEF CreationFails
  <2>2. QED BY <1>2, <2>1 DEF CreationFails, RowType
<1>3. CASE QrCreated BY <1>3 DEF QrCreated
<1>4. CASE QrStored BY <1>4 DEF QrStored
<1>5. CASE QrShown BY <1>5 DEF QrShown
<1>6. CASE PixMoves BY <1>6 DEF PixMoves, Status
<1>7. CASE Confirms BY <1>7 DEF Confirms
<1>8. CASE HalfHourPasses BY <1>8 DEF HalfHourPasses
<1>9. CASE TwoDaysPass BY <1>9 DEF TwoDaysPass
<1>10. QED BY <1>1, <1>2, <1>3, <1>4, <1>5, <1>6, <1>7, <1>8, <1>9 DEF World

\* At first there is no deposit, and every call is idle.
LEMMA InitKeeps == Init => IInv
<1> SUFFICES ASSUME Init PROVE IInv
  OBVIOUS
<1> USE DEF Init, Idle
<1>1. TypeOK BY DEF TypeOK, Status, Steps, Events
<1>2. CreditIsConfirmed /\ ReleasedWasPaid
  BY DEF CreditIsConfirmed, ReleasedWasPaid, Credited, Releasable
<1>3. \A c \in Callers : Knows(call[c]) BY DEF Knows
<1>4. QED BY <1>1, <1>2, <1>3 DEF IInv, Sent, GivenBack

\* A step of a call says nothing new of the world.
LEMMA StepIInv ==
  ASSUME IInv, NEW c \in Callers, Step(c)
  PROVE  IInv'
<1>1. UNCHANGED world
  BY DEF Step, Hook, Credit, Release, Poll, Screen, Approves, Corroborates, Notes, Closes, Unpays,
         Returns, Looks, Stamps, CheckPasses, CheckFails, SettleFinds, Completes, Books, Releases,
         Withholds, FindsSale, MarksSale, Expires, Queries, Flips, Lapses, Judges, Decides, Voids
<1>2. (conf => Sent)' /\ (pix # "none" => made \in {"asked", "stored", "shown"})'
  BY <1>1 DEF world, IInv, Sent
<1>3. QED BY <1>2, StepType, StepKeeps DEF IInv

\* The invariant is inductive.
LEMMA Inductive == IInv /\ [Next]_vars => IInv'
<1> SUFFICES ASSUME IInv, [Next]_vars PROVE IInv'
  OBVIOUS
<1>1. CASE World BY <1>1, WorldKeeps
<1>2. CASE (\E c \in Calls : Begins(c) \/ Crash(c)) \/ Sweeps \/ ExtractReads \/ JobDies \/ JobRestarts
  BY <1>2, BeginKeeps
<1>3. CASE \E c \in Callers : Step(c) BY <1>3, StepIInv
<1>4. CASE UNCHANGED vars
  BY <1>4 DEF vars, IInv, TypeOK, CreditIsConfirmed, ReleasedWasPaid, Releasable, Received, Sent,
              Credited, Knows, GivenBack
<1>5. QED BY <1>1, <1>2, <1>3, <1>4 DEF Next

-----------------------------------------------------------------------------

\* The invariant holds of every run, whatever arrives and whoever dies.
THEOREM Holds == Spec => []IInv
<1>1. QED BY InitKeeps, Inductive, PTL DEF Spec

\* The state keeps its shape, for any number of calls and events.
THEOREM TypeCorrect == Spec => []TypeOK
<1>1. IInv => TypeOK BY DEF IInv
<1>2. QED BY <1>1, Holds, PTL

\* No order of webhooks, polls and deaths credits a deposit, or books its fee,
\* before its transfer has the confirmations: every way to the credit is through
\* the check of the chain, and what was confirmed stays confirmed.
THEOREM CreditConfirmed == Spec => []CreditIsConfirmed
<1>1. IInv => CreditIsConfirmed BY DEF IInv
<1>2. QED BY <1>1, Holds, PTL

\* No order of them releases a sale whose payer's money never reached Eulen.
THEOREM ReleasedPaid == Spec => []ReleasedWasPaid
<1>1. IInv => ReleasedWasPaid BY DEF IInv
<1>2. QED BY <1>1, Holds, PTL

\* A step of a call that had not read the row open leaves a marked return marked,
\* and does not come to a place from where it would be overwritten.
LEMMA StepStands ==
  ASSUME IInv, Returned, NEW c \in Callers, Step(c)
  PROVE  row'.status = "MED_REFUNDED" /\ call'[c].at \notin ByIdSteps
         /\ \A d \in Callers \ {c} : call'[d] = call[d]
<1> USE DEF IInv, TypeOK, Returned, ByIdSteps, Open, Credited, Go, Ends, Polled, Idle
<1>1. CASE Hook(c)
  <2>1. CASE Approves(c) BY <2>1 DEF Approves
  <2>2. CASE Corroborates(c) BY <2>2 DEF Corroborates
  <2>3. CASE Notes(c) BY <2>3 DEF Notes
  <2>4. CASE Closes(c) BY <2>4 DEF Closes
  <2>5. CASE Unpays(c) BY <2>5 DEF Unpays
  <2>6. CASE Returns(c) BY <2>6 DEF Returns
  <2>7. CASE Looks(c) BY <2>7 DEF Looks
  <2>8. CASE Stamps(c) BY <2>8 DEF Stamps
  <2>9. QED BY <1>1, <2>1, <2>2, <2>3, <2>4, <2>5, <2>6, <2>7, <2>8 DEF Hook
<1>2. CASE Credit(c)
  <2>1. CASE CheckPasses(c) BY <2>1 DEF CheckPasses
  <2>2. CASE CheckFails(c) BY <2>2 DEF CheckFails
  <2>3. CASE SettleFinds(c) BY <2>3 DEF SettleFinds
  <2>4. CASE Completes(c) BY <2>4 DEF Completes
  <2>5. CASE Books(c) BY <2>5 DEF Books
  <2>6. QED BY <1>2, <2>1, <2>2, <2>3, <2>4, <2>5 DEF Credit
<1>3. CASE Release(c)
  <2>1. CASE Releases(c) BY <2>1 DEF Releases
  <2>2. CASE Withholds(c) BY <2>2 DEF Withholds
  <2>3. CASE FindsSale(c) BY <2>3 DEF FindsSale
  <2>4. CASE MarksSale(c) BY <2>4 DEF MarksSale
  <2>5. QED BY <1>3, <2>1, <2>2, <2>3, <2>4 DEF Release
<1>4. CASE Poll(c)
  <2>1. CASE Expires(c) BY <2>1 DEF Expires
  <2>2. CASE Queries(c) BY <2>2 DEF Queries
  <2>3. CASE Flips(c) BY <2>3 DEF Flips
  <2>4. CASE Lapses(c) BY <2>4 DEF Lapses
  <2>5. QED BY <1>4, <2>1, <2>2, <2>3, <2>4 DEF Poll
<1>5. CASE Screen(c)
  <2>1. CASE Judges(c) BY <2>1 DEF Judges
  <2>2. CASE Decides(c) BY <2>2 DEF Decides
  <2>3. CASE Voids(c) BY <2>3 DEF Voids
  <2>4. QED BY <1>5, <2>1, <2>2, <2>3 DEF Screen
<1>6. QED BY <1>1, <1>2, <1>3, <1>4, <1>5 DEF Step

\* Who begins reads the row as returned, and so never comes to overwrite it.
LEMMA BeginStands ==
  ASSUME IInv, Returned,
         (\E c \in Calls : Begins(c) \/ Crash(c)) \/ Sweeps \/ ExtractReads \/ JobDies \/ JobRestarts
  PROVE  Returned'
<1>a. cron \in Callers /\ Calls \subseteq Callers BY DEF Callers
<1>b. FirstStep = "judge" /\ ~(Overdue \/ Unanswered \/ Uncredited)
  BY DEF FirstStep, Overdue, Unanswered, Uncredited, Returned
<1> USE DEF IInv, TypeOK, Returned, ByIdSteps, Ends, Idle
<1>1. ASSUME NEW c \in Calls, NEW e \in Events, Receives(c, e) PROVE Returned'
  <2>1. PICK at \in FirstSteps[e] :
          UNCHANGED call \/ call' = [call EXCEPT ![c] = [at |-> at, out |-> Outcome(e), by |-> "hook"]]
    BY <1>1 DEF Receives
  <2>2. at \notin ByIdSteps BY <2>1 DEF FirstSteps, Events
  <2>3. QED BY <1>a, <1>1, <2>1, <2>2 DEF Receives
<1>2. ASSUME NEW c \in Calls, NEW by \in {"verify", "markPaid"}, SaleReads(c, by) PROVE Returned'
  BY <1>a, <1>b, <1>2 DEF SaleReads
<1>3. ASSUME NEW c \in Calls, ScreenPolls(c) PROVE Returned'
  BY <1>b, <1>3 DEF ScreenPolls
<1>4. CASE Sweeps BY <1>b, <1>4 DEF Sweeps
<1>5. ASSUME NEW c \in Calls, CancelReads(c) PROVE Returned' BY <1>a, <1>5 DEF CancelReads
<1>6. ASSUME NEW c \in Calls, Crash(c) PROVE Returned' BY <1>a, <1>6 DEF Crash
<1>7. CASE ExtractReads BY <1>7 DEF ExtractReads
<1>8. CASE JobDies BY <1>a, <1>8 DEF JobDies
<1>9. CASE JobRestarts BY <1>a, <1>9 DEF JobRestarts
<1>10. QED BY <1>1, <1>2, <1>3, <1>4, <1>5, <1>6, <1>7, <1>8, <1>9 DEF Begins

\* A return that is marked stands: only who had read the row open before, and
\* writes by id, takes it out of MED_REFUNDED.
THEOREM ReturnKept == Spec => ReturnStands
<1>1. ASSUME IInv, Returned, Next PROVE Returned'
  <2>1. CASE World
    <3>1. UNCHANGED <<row, call>>
      <4>1. made # "no" /\ made # "row"
        BY <1>1 DEF IInv, Returned, GivenBack
      <4> QED BY <2>1, <4>1 DEF World, Inserts, CreationFails, QrCreated, QrStored, QrShown,
                PixMoves, Confirms, HalfHourPasses, TwoDaysPass
    <3> QED BY <1>1, <3>1 DEF Returned
  <2>2. CASE (\E c \in Calls : Begins(c) \/ Crash(c)) \/ Sweeps \/ ExtractReads \/ JobDies \/ JobRestarts
    BY <1>1, <2>2, BeginStands
  <2>3. CASE \E c \in Callers : Step(c)
    BY <1>1, <2>3, StepStands DEF Returned
  <2> QED BY <1>1, <2>1, <2>2, <2>3 DEF Next
<1>2. IInv /\ [Next]_vars => [Returned => Returned']_vars
  BY <1>1
<1> QED BY Holds, <1>2, PTL DEF Spec, ReturnStands

=============================================================================
