------------------------- MODULE InstallmentsProofs -------------------------
(***************************************************************************)
(* What Installments promises for any number of instalments and calls.     *)
(* The invariants say what a call may rely on between its steps: it holds  *)
(* the row it changed, which still has the amount it read (Held), a        *)
(* cancellation holds open rows (SweptOpen), no two hold the same (Apart), *)
(* and, while no two recalculations overlapped, the total that a call is   *)
(* about to write is that of the rows it will leave (TotalInv).            *)
(***************************************************************************)
EXTENDS Installments, TLAPS

\* A record with the fields of Idle.
Fields(r) ==
  [at |-> r.at, of |-> r.of, sum |-> r.sum, gen |-> r.gen, saw |-> r.saw,
   row |-> r.row, view |-> r.view, swept |-> r.swept]

CallShape == call = [c \in Calls |-> Fields(call[c])]

\* What a call that has read relies on.
ReadOK(c) ==
  /\ call[c].at \in {"pay", "reverse", "booking"} =>
       call[c].of \in Parts /\ call[c].sum \in Int /\ call[c].saw.paid \in Nat
  /\ call[c].at = "pay" =>
       /\ call[c].saw.status \in Open /\ call[c].sum > 0
       /\ call[c].saw.paid + call[c].sum <= Amount[call[c].of] + 1
  /\ call[c].at = "reverse" => call[c].saw.paid + call[c].sum >= 0

\* A row that was changed and not committed has what was read, and gets what the
\* ledger gets, but for a cent when it is closed.
Held(c) ==
  LET i == call[c].of
      off == call[c].row.paid - (inst[i].paid + call[c].sum)
  IN call[c].at = "booking" =>
       /\ call[c].row \in Row
       /\ -1 <= off /\ off <= 1
       /\ call[c].row.status # "PAID" => off = 0

SweptOpen(c) ==
  call[c].at = "cancelling" =>
    /\ call[c].swept \subseteq Parts
    /\ \A i \in call[c].swept : inst[i].status \in Open

Apart(c, d) ==
  c # d /\ call[d].at \in {"booking", "cancelling"} =>
    /\ call[c].at = "booking" =>
         IF call[d].at = "booking" THEN call[c].of # call[d].of
         ELSE call[c].of \notin call[d].swept
    /\ call[c].at = "cancelling" /\ call[d].at = "cancelling" =>
         call[c].swept \cap call[d].swept = {}

RowsOK ==
  /\ inst \in [Parts -> Row]
  /\ ledger \in [Parts -> [net : Int, any : BOOLEAN]]
  /\ rounded \in [Parts -> Nat]

CallsOK ==
  /\ CallShape
  /\ \A c \in Calls : ReadOK(c) /\ Held(c) /\ SweptOpen(c)
  /\ \A c, d \in Calls : Apart(c, d)

IInv == RowsOK /\ CallsOK /\ LedgerTracksPaid

-----------------------------------------------------------------------------
(* How call changes.                                                       *)

\* One call changes, to a record of the same fields.
LEMMA CallWritten ==
  ASSUME CallShape, NEW c \in Calls, NEW x, x = Fields(x), call' = [call EXCEPT ![c] = x]
  PROVE  /\ CallShape'
         /\ call'[c] = x
         /\ \A d \in Calls : d # c => call'[d] = call[d]
<1>1. DOMAIN call = Calls /\ \A d \in Calls : call[d] = Fields(call[d])
  BY DEF CallShape
<1>2. DOMAIN call' = Calls /\ call' = [d \in Calls |-> call'[d]]
  BY <1>1
<1>3. call'[c] = x /\ \A d \in Calls : d # c => call'[d] = call[d]
  BY <1>1
<1>4. \A d \in Calls : call'[d] = Fields(call'[d])
  BY <1>1, <1>3
<1> QED BY <1>2, <1>3, <1>4 DEF CallShape

\* The record of a step has its fields.
LEMMA StepMade ==
  ASSUME NEW at, NEW of, NEW sum, NEW g, NEW saw
  PROVE  LET x == Step(at, of, sum, g, saw)
         IN /\ x = Fields(x)
            /\ x.at = at /\ x.of = of /\ x.sum = sum /\ x.gen = g /\ x.saw = saw
            /\ x.row = [status |-> "PENDING", paid |-> 0] /\ x.swept = {}
BY DEF Step, Fields

\* A call that begins.
LEMMA ReadsWritten ==
  ASSUME CallShape, NEW c \in Calls, NEW at, NEW of, NEW sum, NEW g, NEW saw,
         Reads(c, Step(at, of, sum, g, saw))
  PROVE  /\ CallShape'
         /\ call'[c].at = at /\ call'[c].of = of /\ call'[c].sum = sum
         /\ call'[c].gen = g /\ call'[c].saw = saw
         /\ call'[c].row = [status |-> "PENDING", paid |-> 0] /\ call'[c].swept = {}
         /\ \A d \in Calls : d # c => call'[d] = call[d]
         /\ UNCHANGED <<conta, inst, gen, ledger, rounded, late, crossed>>
<1>1. call' = [call EXCEPT ![c] = Step(at, of, sum, g, saw)]
  BY DEF Reads
<1> DEFINE x == Step(at, of, sum, g, saw)
<1>2. /\ x = Fields(x)
      /\ x.at = at /\ x.of = of /\ x.sum = sum /\ x.gen = g /\ x.saw = saw
      /\ x.row = [status |-> "PENDING", paid |-> 0] /\ x.swept = {}
  BY StepMade
<1>3. UNCHANGED <<conta, inst, gen, ledger, rounded, late, crossed>>
  BY DEF Reads, rows
<1> HIDE DEF x
<1>4. CallShape' /\ call'[c] = x /\ \A d \in Calls : d # c => call'[d] = call[d]
  <2>1. call' = [call EXCEPT ![c] = x]
    BY <1>1 DEF x
  <2> QED BY <1>2, <2>1, CallWritten
<1> QED BY <1>2, <1>3, <1>4

\* A call that ends.
LEMMA OverWritten ==
  ASSUME CallShape, NEW c \in Calls, Over(c)
  PROVE  /\ CallShape'
         /\ call'[c].at = "over"
         /\ call'[c] = Step("over", none, 0, 0, Clean)
         /\ \A d \in Calls : d # c => call'[d] = call[d]
<1> DEFINE x == Step("over", none, 0, 0, Clean)
<1>1. x = Fields(x) /\ x.at = "over"
  BY StepMade
<1>2. call' = [call EXCEPT ![c] = x]
  BY DEF Over
<1>3. x = Step("over", none, 0, 0, Clean)
  OBVIOUS
<1> HIDE DEF x
<1> QED BY <1>1, <1>2, <1>3, CallWritten

\* A call that changed its row.
LEMMA HoldsWritten ==
  ASSUME CallShape, NEW c \in Calls, NEW row, Holds(c, row)
  PROVE  /\ CallShape'
         /\ call'[c].at = "booking" /\ call'[c].of = call[c].of
         /\ call'[c].sum = call[c].sum /\ call'[c].saw = call[c].saw
         /\ call'[c].row = row /\ call'[c].gen = call[c].gen /\ call'[c].swept = call[c].swept
         /\ call'[c].view = Recalculated([inst EXCEPT ![call[c].of] = row])
         /\ \A d \in Calls : d # c => call'[d] = call[d]
         /\ crossed' = (crossed \/ \E d \in Calls : call[d].at = "booking")
         /\ UNCHANGED <<conta, inst, gen, ledger, rounded, late>>
<1> DEFINE v == Recalculated([inst EXCEPT ![call[c].of] = row])
           x == [call[c] EXCEPT !.at = "booking", !.row = row, !.view = v]
<1>1. call[c] = Fields(call[c])
  BY DEF CallShape
<1>3. call' = [call EXCEPT ![c] = x]
  BY Zenon DEF Holds
<1>4. /\ x = Fields(x)
      /\ x.at = "booking" /\ x.of = call[c].of /\ x.sum = call[c].sum
      /\ x.saw = call[c].saw /\ x.row = row /\ x.view = v
      /\ x.gen = call[c].gen /\ x.swept = call[c].swept
  <2> HIDE DEF v
  <2>1. x = [Fields(call[c]) EXCEPT !.at = "booking", !.row = row, !.view = v]
    BY Zenon, <1>1
  <2> HIDE DEF x
  <2>2. x = [at |-> "booking", of |-> call[c].of, sum |-> call[c].sum, gen |-> call[c].gen,
             saw |-> call[c].saw, row |-> row, view |-> v, swept |-> call[c].swept]
    BY <2>1 DEF Fields
  <2> QED BY <2>2 DEF Fields
<1>5. CallShape' /\ call'[c] = x /\ \A d \in Calls : d # c => call'[d] = call[d]
  <2> HIDE DEF x
  <2> QED BY <1>3, <1>4, CallWritten
<1>6. /\ crossed' = (crossed \/ \E d \in Calls : call[d].at = "booking")
      /\ UNCHANGED <<conta, inst, gen, ledger, rounded, late>>
  BY DEF Holds, rows
<1> HIDE DEF x
<1> QED BY <1>4, <1>5, <1>6

\* A cancellation that swept the open instalments.
LEMMA SweepWritten ==
  ASSUME CallShape, NEW c \in Calls, CancelSweeps(c)
  PROVE  /\ CallShape'
         /\ call'[c].at = "cancelling" /\ call'[c].saw = call[c].saw
         /\ call'[c].of = call[c].of /\ call'[c].sum = call[c].sum
         /\ call'[c].gen = call[c].gen /\ call'[c].row = call[c].row
         /\ call'[c].swept = {i \in Parts : inst[i].status \in Open}
         /\ \A d \in Calls : d # c => call'[d] = call[d]
<1> DEFINE S == {i \in Parts : inst[i].status \in Open}
           x == [call[c] EXCEPT !.at = "cancelling", !.swept = S]
<1>1. call[c] = Fields(call[c])
  BY DEF CallShape
<1>3. call' = [call EXCEPT ![c] = x]
  BY Zenon DEF CancelSweeps
<1>4. /\ x = Fields(x)
      /\ x.at = "cancelling" /\ x.saw = call[c].saw /\ x.swept = S
      /\ x.of = call[c].of /\ x.sum = call[c].sum /\ x.gen = call[c].gen /\ x.row = call[c].row
  <2> HIDE DEF S
  <2>1. x = [Fields(call[c]) EXCEPT !.at = "cancelling", !.swept = S]
    BY Zenon, <1>1
  <2> HIDE DEF x
  <2>2. x = [at |-> "cancelling", of |-> call[c].of, sum |-> call[c].sum, gen |-> call[c].gen,
             saw |-> call[c].saw, row |-> call[c].row, view |-> call[c].view, swept |-> S]
    BY <2>1 DEF Fields
  <2> QED BY <2>2 DEF Fields
<1> HIDE DEF x
<1> QED BY <1>3, <1>4, CallWritten

-----------------------------------------------------------------------------
(* Calls keep to their rows, and the ledger to what they write.            *)

\* A call that holds nothing gets in nobody's way.
LEMMA Harmless ==
  ASSUME CallsOK, CallShape', NEW c \in Calls, ReadOK(c)',
         call'[c].at \notin {"booking", "cancelling"},
         \A d \in Calls : d # c => call'[d] = call[d],
         UNCHANGED inst
  PROVE  CallsOK'
<1>1. \A d \in Calls : ReadOK(d)'
  BY DEF CallsOK, ReadOK
<1>2. \A d \in Calls : Held(d)'
  BY DEF CallsOK, Held
<1>3. \A d \in Calls : SweptOpen(d)'
  BY DEF CallsOK, SweptOpen
<1>4. \A d, e \in Calls : Apart(d, e)'
  BY DEF CallsOK, Apart
<1> QED BY <1>1, <1>2, <1>3, <1>4 DEF CallsOK

\* A call that reads.
LEMMA StartKeeps ==
  ASSUME IInv, NEW c \in Calls, Start(c)
  PROVE  IInv'
<1> USE DEF IInv
<1>1. ASSUME NEW at \in {"pay", "reverse", "cancel", "edit"}, NEW of, NEW sum, NEW g, NEW saw,
             Reads(c, Step(at, of, sum, g, saw)),
             at \in {"pay", "reverse"} => of \in Parts /\ sum \in Int /\ saw.paid \in Nat,
             at = "pay" => /\ saw.status \in Open /\ sum > 0
                           /\ saw.paid + sum <= Amount[of] + 1,
             at = "reverse" => saw.paid + sum >= 0
      PROVE  IInv'
  <2>1. /\ CallShape'
        /\ call'[c].at = at /\ call'[c].of = of /\ call'[c].sum = sum /\ call'[c].saw = saw
        /\ \A d \in Calls : d # c => call'[d] = call[d]
        /\ UNCHANGED <<conta, inst, gen, ledger, rounded, late, crossed>>
    BY <1>1, ReadsWritten DEF CallsOK
  <2>2. ReadOK(c)'
    BY <1>1, <2>1 DEF ReadOK
  <2>3. CallsOK'
    BY <1>1, <2>1, <2>2, Harmless
  <2> QED BY <2>1, <2>3 DEF RowsOK, LedgerTracksPaid
<1>2. ASSUME NEW i \in Parts, NEW sum \in Sums, PayReads(c, i, sum) PROVE IInv'
  <2>1. inst[i].paid \in Nat /\ sum \in Nat /\ sum > 0 /\ Amount[i] \in Nat
    BY Worth DEF RowsOK, Row
  <2>2. inst[i].paid + sum <= Amount[i] + 1 /\ inst[i].status \in Open
    BY <1>2, <2>1 DEF PayReads
  <2> QED BY <1>1, <1>2, <2>1, <2>2 DEF PayReads
<1>3. ASSUME NEW i \in Parts, NEW sum \in Sums, ReverseReads(c, i, sum) PROVE IInv'
  <2>1. inst[i].paid \in Nat /\ sum \in Nat
    BY Worth DEF RowsOK, Row
  <2>2. -sum \in Int /\ inst[i].paid + (-sum) >= 0
    BY <1>3, <2>1 DEF ReverseReads
  <2> QED BY <1>1, <1>3, <2>1, <2>2 DEF ReverseReads
<1>4. CASE CancelReads(c)
  BY <1>1, <1>4 DEF CancelReads
<1>5. CASE EditReads(c)
  BY <1>1, <1>5 DEF EditReads
<1> QED BY <1>2, <1>3, <1>4, <1>5 DEF Start

\* A call that changes a row that is still what it read.
LEMMA HoldsKeeps ==
  ASSUME IInv, NEW c \in Calls, NEW row \in Row, Holds(c, row), ReadOK(c),
         call[c].at \in {"pay", "reverse"}, ~Locked(call[c].of),
         inst[call[c].of].paid = call[c].saw.paid,
         LET off == row.paid - (call[c].saw.paid + call[c].sum)
         IN -1 <= off /\ off <= 1 /\ (row.status # "PAID" => off = 0)
  PROVE  IInv'
<1>1. /\ CallShape'
      /\ call'[c].at = "booking" /\ call'[c].of = call[c].of
      /\ call'[c].sum = call[c].sum /\ call'[c].saw = call[c].saw
      /\ call'[c].row = row
      /\ \A d \in Calls : d # c => call'[d] = call[d]
      /\ UNCHANGED <<conta, inst, gen, ledger, rounded, late>>
  BY HoldsWritten DEF IInv, CallsOK
<1>2. \A d \in Calls : ReadOK(d)'
  BY <1>1 DEF IInv, CallsOK, ReadOK
<1>3. \A d \in Calls : Held(d)'
  BY <1>1 DEF IInv, CallsOK, Held
<1>4. \A d \in Calls : SweptOpen(d)'
  BY <1>1 DEF IInv, CallsOK, SweptOpen
<1>5. \A d, e \in Calls : Apart(d, e)'
  BY <1>1 DEF IInv, CallsOK, Apart, Locked
<1> QED BY <1>1, <1>2, <1>3, <1>4, <1>5 DEF IInv, CallsOK, RowsOK, LedgerTracksPaid

\* The row a payment or a reversal writes is worth what was read and the sum, but
\* for a cent when the payment closes it.
LEMMA WriteKeeps ==
  ASSUME IInv, NEW c \in Calls, Write(c)
  PROVE  IInv'
<1> USE DEF IInv
<1>1. CASE PayWrites(c)
  <2>1. /\ call[c].at = "pay" /\ ~Locked(call[c].of) /\ Holds(c, Paid(c))
        /\ inst[call[c].of].paid = call[c].saw.paid
    BY <1>1 DEF PayWrites, Same
  <2> DEFINE i == call[c].of
             saw == call[c].saw
  <2>2. ReadOK(c)
    BY DEF CallsOK
  <2>3. /\ i \in Parts /\ call[c].sum \in Int /\ saw.paid \in Nat /\ Amount[i] \in Nat
        /\ saw.status \in Open /\ call[c].sum > 0
        /\ saw.paid + call[c].sum <= Amount[i] + 1
    BY <2>1, <2>2, Worth DEF ReadOK
  <2>4. Paid(c) \in Row
    BY <2>3 DEF Paid, Row, Returnable
  <2>5. LET off == Paid(c).paid - (saw.paid + call[c].sum)
        IN -1 <= off /\ off <= 1 /\ (Paid(c).status # "PAID" => off = 0)
    BY <2>3 DEF Paid
  <2> QED BY <2>1, <2>2, <2>4, <2>5, HoldsKeeps
<1>2. CASE ReverseWrites(c)
  <2>1. /\ call[c].at = "reverse" /\ ~Locked(call[c].of) /\ Holds(c, Returned(c))
        /\ inst[call[c].of].paid = call[c].saw.paid
    BY <1>2 DEF ReverseWrites, Same
  <2>2. ReadOK(c)
    BY DEF CallsOK
  <2>3. /\ call[c].sum \in Int /\ call[c].saw.paid \in Nat
        /\ call[c].saw.paid + call[c].sum >= 0
    BY <2>1, <2>2 DEF ReadOK
  <2>4. Returned(c) \in Row
    BY <2>3 DEF Returned, Row, Open, Returnable
  <2>5. LET off == Returned(c).paid - (call[c].saw.paid + call[c].sum)
        IN -1 <= off /\ off <= 1 /\ (Returned(c).status # "PAID" => off = 0)
    BY <2>3 DEF Returned
  <2> QED BY <2>1, <2>2, <2>4, <2>5, HoldsKeeps
<1>3. CASE CancelSweeps(c)
  <2> DEFINE S == {i \in Parts : inst[i].status \in Open}
  <2>1. /\ CallShape'
        /\ call'[c].at = "cancelling" /\ call'[c].swept = S
        /\ \A d \in Calls : d # c => call'[d] = call[d]
    BY <1>3, SweepWritten DEF CallsOK
  <2>2. UNCHANGED <<inst, ledger, rounded>> /\ \A i \in S : ~Locked(i)
    BY <1>3 DEF CancelSweeps, rows
  <2>3. \A d \in Calls : ReadOK(d)'
    BY <2>1 DEF CallsOK, ReadOK
  <2>4. \A d \in Calls : Held(d)'
    BY <2>1, <2>2 DEF CallsOK, Held
  <2>5. \A d \in Calls : SweptOpen(d)'
    BY <2>1, <2>2 DEF CallsOK, SweptOpen
  <2>6. \A d, e \in Calls : Apart(d, e)'
    BY <2>1, <2>2 DEF CallsOK, Apart, Locked
  <2> QED BY <2>1, <2>2, <2>3, <2>4, <2>5, <2>6 DEF CallsOK, RowsOK, LedgerTracksPaid
<1> QED BY <1>1, <1>2, <1>3 DEF Write

\* What a commit writes into an instalment, the ledger was given; others' rows stay.
LEMMA BooksKeeps ==
  ASSUME IInv, NEW c \in Calls, Books(c)
  PROVE  IInv'
<1> USE DEF IInv
<1> DEFINE i == call[c].of
<1>1. /\ call[c].at = "booking" /\ ReadOK(c) /\ Held(c)
      /\ inst' = [inst EXCEPT ![i] = call[c].row]
      /\ ledger' = [ledger EXCEPT ![i] = [net |-> @.net + call[c].sum, any |-> TRUE]]
      /\ rounded' = IF call[c].row.status = "PAID" THEN [rounded EXCEPT ![i] = @ + 1] ELSE rounded
  BY DEF Books, CallsOK
<1>2. CallShape' /\ call'[c].at = "over" /\ \A d \in Calls : d # c => call'[d] = call[d]
  BY OverWritten DEF Books, CallsOK
<1>3. i \in Parts /\ call[c].sum \in Int /\ call[c].row \in Row
  BY <1>1 DEF ReadOK, Held
<1>4. \A j \in Parts : inst'[j] = IF j = i THEN call[c].row ELSE inst[j]
  BY <1>1, <1>3 DEF RowsOK
<1>5. RowsOK'
  <2>1. inst' \in [Parts -> Row]
    BY <1>1, <1>3 DEF RowsOK
  <2>2. ledger' \in [Parts -> [net : Int, any : BOOLEAN]]
    BY <1>1, <1>3 DEF RowsOK
  <2>3. rounded' \in [Parts -> Nat]
    BY <1>1, <1>3 DEF RowsOK
  <2> QED BY <2>1, <2>2, <2>3 DEF RowsOK
<1>6. LedgerTracksPaid'
  <2> SUFFICES ASSUME NEW j \in Parts
               PROVE  /\ inst'[j].paid - ledger'[j].net <= rounded'[j]
                      /\ ledger'[j].net - inst'[j].paid <= rounded'[j]
    BY DEF LedgerTracksPaid
  <2>1. CASE j # i
    <3>1. inst'[j] = inst[j] /\ ledger'[j] = ledger[j] /\ rounded'[j] = rounded[j]
      BY <1>1, <2>1 DEF RowsOK
    <3> QED BY <3>1 DEF LedgerTracksPaid
  <2>2. CASE j = i
    <3>1. /\ inst'[i].paid = call[c].row.paid
          /\ ledger'[i].net = ledger[i].net + call[c].sum
          /\ rounded'[i] = IF call[c].row.status = "PAID" THEN rounded[i] + 1 ELSE rounded[i]
      BY <1>1, <1>3 DEF RowsOK
    <3>2. /\ inst[i].paid \in Nat /\ ledger[i].net \in Int /\ rounded[i] \in Nat
          /\ call[c].row.paid \in Nat
      BY <1>3 DEF RowsOK, Row
    <3>3. /\ inst[i].paid - ledger[i].net <= rounded[i]
          /\ ledger[i].net - inst[i].paid <= rounded[i]
      BY <1>3 DEF LedgerTracksPaid
    <3> DEFINE off == call[c].row.paid - (inst[i].paid + call[c].sum)
    <3>4. -1 <= off /\ off <= 1 /\ (call[c].row.status # "PAID" => off = 0)
      BY <1>1 DEF Held
    <3> QED BY <1>3, <2>2, <3>1, <3>2, <3>3, <3>4
  <2> QED BY <2>1, <2>2
<1>7. \A d \in Calls : ReadOK(d)'
  BY <1>2 DEF CallsOK, ReadOK
<1>8. ASSUME NEW d \in Calls PROVE Held(d)'
  BY <1>1, <1>2, <1>4, <1>7 DEF CallsOK, Held, Apart, ReadOK
<1>9. ASSUME NEW d \in Calls PROVE SweptOpen(d)'
  BY <1>1, <1>2, <1>4 DEF CallsOK, SweptOpen, Apart
<1>10. \A d, e \in Calls : Apart(d, e)'
  BY <1>2 DEF CallsOK, Apart
<1> QED BY <1>2, <1>5, <1>6, <1>7, <1>8, <1>9, <1>10 DEF CallsOK

\* A cancellation and the overdue job change statuses, the one of open rows that it
\* swept itself and the other of rows that nobody holds.
LEMMA StatusKeeps ==
  ASSUME IInv, CallShape', UNCHANGED <<ledger, rounded>>,
         inst' \in [Parts -> Row], \A i \in Parts : inst'[i].paid = inst[i].paid,
         \A d \in Calls : call'[d] = call[d] \/ call'[d].at = "over",
         \A d \in Calls, i \in Parts :
           call'[d].at = "cancelling" /\ i \in call'[d].swept => inst'[i].status \in Open
  PROVE  IInv'
<1> USE DEF IInv
<1>1. \A d \in Calls : ReadOK(d)'
  BY DEF CallsOK, ReadOK
<1>2. \A d \in Calls : Held(d)'
  BY DEF CallsOK, Held, ReadOK
<1>3. \A d \in Calls : SweptOpen(d)'
  BY DEF CallsOK, SweptOpen
<1>4. \A d, e \in Calls : Apart(d, e)'
  BY DEF CallsOK, Apart
<1>5. RowsOK' /\ LedgerTracksPaid'
  BY DEF RowsOK, LedgerTracksPaid
<1> QED BY <1>1, <1>2, <1>3, <1>4, <1>5 DEF CallsOK

\* The cancelled rows are no other cancellation's.
LEMMA CancelKeeps ==
  ASSUME IInv, NEW c \in Calls, CancelCommits(c)
  PROVE  IInv'
<1> USE DEF IInv
<1>1. CallShape' /\ call'[c].at = "over" /\ \A d \in Calls : d # c => call'[d] = call[d]
  BY OverWritten DEF CancelCommits, CallsOK
<1>2. /\ call[c].at = "cancelling" /\ UNCHANGED <<ledger, rounded>>
      /\ inst' = [i \in Parts |-> IF i \in call[c].swept
                                  THEN [inst[i] EXCEPT !.status = "CANCELLED"] ELSE inst[i]]
  BY DEF CancelCommits
<1>3. inst' \in [Parts -> Row] /\ \A i \in Parts : inst'[i].paid = inst[i].paid
  BY <1>2 DEF RowsOK, Row
<1>4. ASSUME NEW d \in Calls, NEW i \in Parts, call'[d].at = "cancelling", i \in call'[d].swept
      PROVE  inst'[i].status \in Open
  <2>1. d # c /\ call'[d] = call[d] /\ inst[i].status \in Open
    BY <1>1, <1>4 DEF CallsOK, SweptOpen
  <2>2. i \notin call[c].swept
    BY <1>2, <1>4, <2>1 DEF CallsOK, Apart
  <2> QED BY <1>2, <2>1, <2>2
<1> QED BY <1>1, <1>2, <1>3, <1>4, StatusKeeps

\* So are the rows that fall overdue.
LEMMA OverdueKeeps == IInv /\ MarkOverdue => IInv'
<1> SUFFICES ASSUME IInv, MarkOverdue PROVE IInv'
  OBVIOUS
<1>1. UNCHANGED <<ledger, rounded, call>> /\ inst' = Marked
  BY DEF MarkOverdue
<1>2. inst' \in [Parts -> Row] /\ \A i \in Parts : inst'[i].paid = inst[i].paid
  BY <1>1 DEF IInv, RowsOK, Row, Marked, Open
<1>3. ASSUME NEW d \in Calls, NEW i \in Parts, call'[d].at = "cancelling", i \in call'[d].swept
      PROVE  inst'[i].status \in Open
  BY <1>1, <1>3 DEF IInv, CallsOK, SweptOpen, Marked, Open
<1>4. CallShape' /\ \A d \in Calls : call'[d] = call[d]
  BY <1>1 DEF IInv, CallsOK, CallShape, Fields
<1> QED BY <1>1, <1>2, <1>3, <1>4, StatusKeeps

\* The rows of an edit are new, and nobody held an old one.
LEMMA EditKeeps ==
  ASSUME IInv, NEW c \in Calls, EditCommits(c)
  PROVE  IInv'
<1> USE DEF IInv
<1>1. CallShape' /\ call'[c].at = "over" /\ \A d \in Calls : d # c => call'[d] = call[d]
  BY OverWritten DEF EditCommits, CallsOK
<1>2. /\ \A i \in Parts : ~Locked(i)
      /\ inst' = Unpaid /\ ledger' = NoEntry /\ rounded' = [i \in Parts |-> 0]
  BY DEF EditCommits
<1>3. \A d \in Calls : ReadOK(d)'
  BY <1>1 DEF CallsOK, ReadOK
<1>4. \A d \in Calls : Held(d)'
  BY <1>1, <1>2 DEF CallsOK, Held, ReadOK, Locked
<1>5. \A d \in Calls : SweptOpen(d)'
  BY <1>1, <1>2 DEF CallsOK, SweptOpen, Locked
<1>6. \A d, e \in Calls : Apart(d, e)'
  BY <1>1 DEF CallsOK, Apart
<1>7. RowsOK'
  BY <1>2 DEF RowsOK, Unpaid, NoEntry, Row, Open
<1>8. LedgerTracksPaid'
  BY <1>2 DEF LedgerTracksPaid, Unpaid, NoEntry
<1> QED BY <1>1, <1>3, <1>4, <1>5, <1>6, <1>7, <1>8 DEF CallsOK

\* A call that is rolled back.
LEMMA FailsKeeps ==
  ASSUME IInv, NEW c \in Calls, Fails(c)
  PROVE  IInv'
<1>1. CallShape' /\ call'[c].at = "over" /\ \A d \in Calls : d # c => call'[d] = call[d]
  BY OverWritten DEF Fails, IInv, CallsOK
<1>2. UNCHANGED <<inst, ledger, rounded>>
  BY DEF Fails, rows
<1>3. ReadOK(c)'
  BY <1>1 DEF ReadOK
<1>4. CallsOK'
  BY <1>1, <1>2, <1>3, Harmless DEF IInv
<1> QED BY <1>2, <1>4 DEF IInv, RowsOK, LedgerTracksPaid

\* Nothing is paid and nobody calls at first.
LEMMA IInvInit == Init => IInv
<1> SUFFICES ASSUME Init PROVE IInv
  OBVIOUS
<1>1. Idle = Fields(Idle) /\ Idle.at = "idle"
  BY StepMade DEF Idle
<1>2. call = [c \in Calls |-> Idle] /\ \A c \in Calls : call[c] = Idle
  BY DEF Init
<1>3. CallShape
  <2>1. \A c \in Calls : call[c] = Fields(call[c])
    BY <1>1, <1>2
  <2> QED BY <1>2, <2>1 DEF CallShape
<1>4. \A c \in Calls : ReadOK(c) /\ Held(c) /\ SweptOpen(c)
  BY <1>1, <1>2 DEF ReadOK, Held, SweptOpen
<1>5. \A c, d \in Calls : Apart(c, d)
  BY <1>1, <1>2 DEF Apart
<1>6. RowsOK /\ LedgerTracksPaid
  BY DEF Init, RowsOK, LedgerTracksPaid, Unpaid, NoEntry, Row, Open
<1> QED BY <1>3, <1>4, <1>5, <1>6 DEF IInv, CallsOK

\* The invariant is inductive.
LEMMA IInvStep == IInv /\ [Next]_vars => IInv'
<1> SUFFICES ASSUME IInv, [Next]_vars PROVE IInv'
  OBVIOUS
<1>1. CASE \E c \in Calls : Start(c)
  BY <1>1, StartKeeps
<1>2. CASE \E c \in Calls : Write(c)
  BY <1>2, WriteKeeps
<1>3. CASE \E c \in Calls : Commit(c)
  BY <1>3, BooksKeeps, CancelKeeps, EditKeeps DEF Commit
<1>4. CASE \E c \in Calls : Fails(c)
  BY <1>4, FailsKeeps
<1>5. CASE MarkOverdue
  BY <1>5, OverdueKeeps
<1>6. CASE UNCHANGED <<inst, ledger, rounded, call>>
  <2>1. CallsOK'
    BY <1>6 DEF IInv, CallsOK, CallShape, Fields, ReadOK, Held, SweptOpen, Apart
  <2> QED BY <1>6, <2>1 DEF IInv, RowsOK, LedgerTracksPaid
<1>7. \/ \E c \in Calls : Start(c) \/ Write(c) \/ Commit(c) \/ Fails(c)
      \/ MarkOverdue
      \/ UNCHANGED <<inst, ledger, rounded, call>>
  BY DEF Next, FallsDue, vars, rows
<1> QED BY <1>1, <1>2, <1>3, <1>4, <1>5, <1>6, <1>7

\* However payments, reversals, edits and cancellations overlap, what each instalment
\* says it received is what the ledger received for it, but for the rounded cents.
THEOREM LedgerTracks == Spec => []LedgerTracksPaid
<1>1. IInv => LedgerTracksPaid
  BY DEF IInv
<1> QED BY <1>1, IInvInit, IInvStep, PTL DEF Spec

\* What TypeOK says of one call.
CallType(c) ==
  /\ call[c].at \in Stage
  /\ call[c].sum \in Int /\ call[c].gen \in Nat
  /\ call[c].of \in Parts \cup {none}
  /\ call[c].row \in Row
  /\ call[c].swept \subseteq Parts

\* The rows that IInv speaks of, and the rest.
TypeInv ==
  /\ gen \in Nat /\ late \in [Parts -> BOOLEAN] /\ crossed \in BOOLEAN
  /\ \A c \in Calls : CallType(c)

\* A call keeps its type, whichever step it takes.
LEMMA CallTyped ==
  ASSUME IInv, IInv', TypeInv, NEW c \in Calls, Start(c) \/ Write(c) \/ Commit(c) \/ Fails(c)
  PROVE  CallType(c)' /\ \A d \in Calls : d # c => call'[d] = call[d]
<1>1. CallShape
  BY DEF IInv, CallsOK
<1>2. ASSUME NEW at \in {"pay", "reverse", "cancel", "edit"}, NEW of \in Parts \cup {none},
             NEW sum \in Int, NEW g \in Nat, NEW saw, Reads(c, Step(at, of, sum, g, saw))
      PROVE  CallType(c)' /\ \A d \in Calls : d # c => call'[d] = call[d]
  BY <1>1, <1>2, ReadsWritten DEF CallType, Stage, Row, Open
<1>3. CASE Start(c)
  <2>1. \A sum \in Sums : sum \in Int /\ -sum \in Int
    BY Worth
  <2>2. gen \in Nat
    BY DEF TypeInv
  <2> QED BY <1>2, <1>3, <2>1, <2>2 DEF Start, PayReads, ReverseReads, CancelReads, EditReads
<1>4. ASSUME NEW row, Holds(c, row)
      PROVE  CallType(c)' /\ \A d \in Calls : d # c => call'[d] = call[d]
  <2>1. /\ call'[c].at = "booking" /\ call'[c].of = call[c].of
        /\ call'[c].sum = call[c].sum
        /\ call'[c].gen = call[c].gen /\ call'[c].swept = call[c].swept
        /\ \A d \in Calls : d # c => call'[d] = call[d]
    BY <1>1, <1>4, HoldsWritten
  <2>2. call'[c].row \in Row
    BY <2>1 DEF IInv, CallsOK, Held
  <2> QED BY <2>1, <2>2 DEF TypeInv, CallType, Stage
<1>5. CASE CancelSweeps(c)
  <2>1. /\ call'[c].at = "cancelling" /\ call'[c].swept \subseteq Parts
        /\ call'[c].of = call[c].of /\ call'[c].sum = call[c].sum
        /\ call'[c].gen = call[c].gen /\ call'[c].row = call[c].row
        /\ \A d \in Calls : d # c => call'[d] = call[d]
    BY <1>1, <1>5, SweepWritten
  <2> QED BY <2>1 DEF TypeInv, CallType, Stage
<1>6. CASE Over(c)
  <2>1. call'[c] = Step("over", none, 0, 0, Clean) /\ \A d \in Calls : d # c => call'[d] = call[d]
    BY <1>1, <1>6, OverWritten
  <2> QED BY <2>1, StepMade DEF CallType, Stage, Row, Open
<1> QED BY <1>3, <1>4, <1>5, <1>6
        DEF Write, Commit, PayWrites, ReverseWrites, Books, CancelCommits, EditCommits, Fails

\* Types hold at first.
LEMMA TypeStart == Init => TypeInv
<1> SUFFICES ASSUME Init PROVE TypeInv
  OBVIOUS
<1>1. \A c \in Calls : call[c] = Idle
  BY DEF Init
<1>2. \A c \in Calls : CallType(c)
  BY <1>1, StepMade DEF Idle, CallType, Stage, Row, Open
<1> QED BY <1>2 DEF Init, TypeInv

\* They are kept.
LEMMA TypeStep == IInv /\ IInv' /\ TypeInv /\ [Next]_vars => TypeInv'
<1> SUFFICES ASSUME IInv, IInv', TypeInv, [Next]_vars PROVE TypeInv'
  OBVIOUS
<1>1. gen' \in Nat /\ late' \in [Parts -> BOOLEAN] /\ crossed' \in BOOLEAN
  <2>1. \/ UNCHANGED <<gen, late, crossed>>
        \/ \E c \in Calls : EditCommits(c)
        \/ \E c \in Calls : PayWrites(c) \/ ReverseWrites(c)
        \/ \E i \in Falling : FallsDue(i)
    BY DEF Next, Start, Write, Commit, Fails, PayReads, ReverseReads, CancelReads,
           EditReads, Reads, CancelSweeps, Books, CancelCommits, MarkOverdue, vars, rows
  <2>2. CASE \E c \in Calls : EditCommits(c)
    <3>1. /\ gen' = gen + 1 /\ crossed' = (crossed \/ conta # Clean)
          /\ late' = late \/ late' = [i \in Parts |-> FALSE]
      BY <2>2 DEF EditCommits
    <3>2. gen' \in Nat
      BY <3>1 DEF TypeInv
    <3>3. late' \in [Parts -> BOOLEAN]
      <4>1. [i \in Parts |-> FALSE] \in [Parts -> BOOLEAN]
        OBVIOUS
      <4> QED BY <3>1, <4>1 DEF TypeInv
    <3>4. crossed' \in BOOLEAN
      BY Zenon, <3>1
    <3> QED BY <3>2, <3>3, <3>4
  <2>3. CASE \E c \in Calls : PayWrites(c) \/ ReverseWrites(c)
    <3>1. /\ crossed' = (crossed \/ \E d \in Calls : call[d].at = "booking")
          /\ UNCHANGED <<gen, late>>
      BY <2>3 DEF PayWrites, ReverseWrites, Holds, rows
    <3> QED BY <3>1 DEF TypeInv
  <2>4. CASE \E i \in Falling : FallsDue(i)
    BY <2>4 DEF FallsDue, rows, TypeInv
  <2> QED BY <2>1, <2>2, <2>3, <2>4 DEF TypeInv
<1>2. CASE \E c \in Calls : Start(c) \/ Write(c) \/ Commit(c) \/ Fails(c)
  BY <1>1, <1>2, CallTyped DEF TypeInv, CallType
<1>3. CASE UNCHANGED call
  BY <1>1, <1>3 DEF TypeInv, CallType
<1> QED BY <1>2, <1>3 DEF Next, FallsDue, MarkOverdue, vars

\* Types are kept; in particular no reversal, however late, makes a paid amount negative.
THEOREM TypeCorrect == Spec => []TypeOK
<1>1. IInv /\ TypeInv => TypeOK
  BY DEF IInv, RowsOK, TypeInv, CallType, TypeOK
<1> QED BY <1>1, IInvInit, IInvStep, TypeStart, TypeStep, PTL DEF Spec

-----------------------------------------------------------------------------
(* The account's total.                                                    *)

\* What the account says is what its closed instalments received.
TotalOf(v, r) ==
  /\ v.paid = PaidSum(r)
  /\ v.status = "PAID" <=> PaidOnes(r) = Parts

\* What the account will say when c commits.
NextRows(c) == [inst EXCEPT ![call[c].of] = call[c].row]

\* A cancellation saw an account that was not paid.
SawUnpaid(c) == call[c].at \in {"cancel", "cancelling"} => call[c].saw.status # "PAID"

\* A status and an amount.
Account(v) == v = [status |-> v.status, paid |-> v.paid]

\* The only call that is about to write a total has the right one.
TotalInv ==
  /\ Account(conta)
  /\ \A c \in Calls : call[c].at = "booking" => Account(call[c].view)
  /\ \A c \in Calls : SawUnpaid(c)
  /\ ~crossed => /\ TotalOf(conta, inst)
                 /\ \A c \in Calls : call[c].at = "booking" => TotalOf(call[c].view, NextRows(c))
                 /\ \A c, d \in Calls : call[c].at = "booking" /\ call[d].at = "booking" => c = d

\* The total of some rows is theirs.
LEMMA Totalled == \A r : TotalOf(Recalculated(r), r) /\ Account(Recalculated(r))
  BY DEF TotalOf, Account, Recalculated, StatusOf

\* Only closed instalments count.
LEMMA ClosedCount ==
  ASSUME NEW r, NEW s,
         \A i \in Parts : /\ r[i].status = "PAID" <=> s[i].status = "PAID"
                          /\ r[i].status = "PAID" => r[i].paid = s[i].paid
  PROVE  PaidOnes(r) = PaidOnes(s) /\ PaidSum(r) = PaidSum(s)
<1>1. PaidOnes(r) = PaidOnes(s)
  BY DEF PaidOnes
<1>2. Closed(r) = Closed(s)
  BY <1>1 DEF Closed, PaidOnes
<1> QED BY <1>1, <1>2 DEF PaidSum

\* A new account has received nothing.
LEMMA CleanTotal == TotalOf(Clean, Unpaid) /\ Account(Clean)
<1>1. PaidOnes(Unpaid) = {}
  BY DEF PaidOnes, Unpaid
<1> QED BY <1>1, Worth DEF TotalOf, Account, Clean

\* The total is true at first.
LEMMA TotalInit == Init => TotalInv
<1> SUFFICES ASSUME Init PROVE TotalInv
  OBVIOUS
<1>1. \A c \in Calls : call[c].at = "idle"
  BY StepMade DEF Init, Idle
<1> QED BY <1>1, CleanTotal DEF Init, TotalInv, SawUnpaid

\* A step that touches no total, and at most calls that hold nothing.
LEMMA TotalKept ==
  ASSUME TotalInv, UNCHANGED <<conta, inst>>, crossed => crossed',
         \A c \in Calls : SawUnpaid(c)',
         \A c \in Calls : call'[c].at = "booking" => call'[c] = call[c]
  PROVE  TotalInv'
<1>1. \A c \in Calls : call'[c].at = "booking" => NextRows(c)' = NextRows(c)
  BY DEF NextRows
<1> QED BY <1>1 DEF TotalInv

\* A call that starts, sweeps or fails.
LEMMA TotalCall ==
  ASSUME IInv, TotalInv, NEW c \in Calls, Start(c) \/ CancelSweeps(c) \/ Fails(c)
  PROVE  TotalInv'
<1>1. CallShape
  BY DEF IInv, CallsOK
<1>2. ASSUME NEW at \in {"pay", "reverse", "cancel", "edit"}, NEW of, NEW sum, NEW g, NEW saw,
             Reads(c, Step(at, of, sum, g, saw)), at = "cancel" => saw.status # "PAID"
      PROVE  TotalInv'
  <2>1. /\ call'[c].at = at /\ call'[c].saw = saw
        /\ \A d \in Calls : d # c => call'[d] = call[d]
        /\ UNCHANGED <<conta, inst, crossed>>
    BY <1>1, <1>2, ReadsWritten
  <2> QED BY <1>2, <2>1, TotalKept DEF TotalInv, SawUnpaid
<1>3. CASE Start(c)
  BY <1>2, <1>3 DEF Start, PayReads, ReverseReads, CancelReads, EditReads
<1>4. CASE CancelSweeps(c)
  <2>1. /\ call'[c].at = "cancelling" /\ call'[c].saw = call[c].saw
        /\ \A d \in Calls : d # c => call'[d] = call[d]
    BY <1>1, <1>4, SweepWritten
  <2>2. call[c].at = "cancel" /\ UNCHANGED <<conta, inst, crossed>>
    BY <1>4 DEF CancelSweeps, rows
  <2> QED BY <2>1, <2>2, TotalKept DEF TotalInv, SawUnpaid
<1>5. CASE Fails(c)
  <2>1. call'[c].at = "over" /\ \A d \in Calls : d # c => call'[d] = call[d]
    BY <1>1, <1>5, OverWritten DEF Fails
  <2>2. UNCHANGED <<conta, inst, crossed>>
    BY <1>5 DEF Fails, rows
  <2> QED BY <2>1, <2>2, TotalKept DEF TotalInv, SawUnpaid
<1> QED BY <1>3, <1>4, <1>5

\* A call that computes a total while nobody else is about to write one.
LEMMA TotalHolds ==
  ASSUME IInv, TotalInv, NEW c \in Calls, NEW row, Holds(c, row)
  PROVE  TotalInv'
<1>1. /\ call'[c].at = "booking" /\ call'[c].of = call[c].of /\ call'[c].row = row
      /\ call'[c].view = Recalculated([inst EXCEPT ![call[c].of] = row])
      /\ \A d \in Calls : d # c => call'[d] = call[d]
      /\ crossed' = (crossed \/ \E d \in Calls : call[d].at = "booking")
      /\ UNCHANGED <<conta, inst>>
  BY HoldsWritten DEF IInv, CallsOK
<1>2. /\ \A d \in Calls : SawUnpaid(d)'
      /\ Account(conta)' /\ \A d \in Calls : call'[d].at = "booking" => Account(call[d].view)'
  BY <1>1, Totalled DEF TotalInv, SawUnpaid
<1>3. ASSUME ~crossed'
      PROVE  /\ TotalOf(conta, inst)'
             /\ \A d \in Calls : call'[d].at = "booking" => d = c
             /\ TotalOf(call[c].view, NextRows(c))'
  <2>1. ~crossed /\ \A d \in Calls : call[d].at # "booking"
    BY <1>1, <1>3
  <2>2. TotalOf(conta, inst)'
    BY <1>1, <2>1 DEF TotalInv
  <2>3. \A d \in Calls : call'[d].at = "booking" => d = c
    BY <1>1, <2>1
  <2>4. NextRows(c)' = [inst EXCEPT ![call[c].of] = row]
    BY <1>1 DEF NextRows
  <2>5. TotalOf(call'[c].view, [inst EXCEPT ![call[c].of] = row])
    BY <1>1, Totalled
  <2>6. TotalOf(call[c].view, NextRows(c))'
    BY <2>4, <2>5
  <2> QED BY <2>2, <2>3, <2>6
<1> QED BY <1>2, <1>3 DEF TotalInv

\* The total is written with the row it was computed for.
LEMMA TotalBooks ==
  ASSUME IInv, TotalInv, NEW c \in Calls, Books(c)
  PROVE  TotalInv'
<1>1. call'[c].at = "over" /\ \A d \in Calls : d # c => call'[d] = call[d]
  BY OverWritten DEF Books, IInv, CallsOK
<1>2. /\ call[c].at = "booking" /\ crossed' = crossed
      /\ inst' = NextRows(c) /\ conta' = call[c].view
  BY DEF Books, NextRows
<1>3. \A d \in Calls : SawUnpaid(d)'
  BY <1>1 DEF TotalInv, SawUnpaid
<1>4. ~crossed => \A d \in Calls : call'[d].at # "booking"
  BY <1>1, <1>2 DEF TotalInv
<1>5. ~crossed => TotalOf(call[c].view, NextRows(c))
  BY <1>2 DEF TotalInv
<1>6. ~crossed => TotalOf(conta, inst)'
  BY <1>2, <1>5
<1>7. Account(conta)' /\ \A d \in Calls : call'[d].at = "booking" => Account(call[d].view)'
  BY <1>1, <1>2 DEF TotalInv
<1> QED BY <1>2, <1>3, <1>4, <1>6, <1>7 DEF TotalInv

\* Statuses change of rows that are not closed, before and after, and of an account that
\* is not paid.
LEMMA TotalStatus ==
  ASSUME IInv, TotalInv, crossed' = crossed, inst' \in [Parts -> Row],
         Account(conta)', conta'.paid = conta.paid,
         conta'.status = "PAID" <=> conta.status = "PAID",
         \A i \in Parts : /\ inst'[i].paid = inst[i].paid
                          /\ inst'[i].status = "PAID" <=> inst[i].status = "PAID",
         \A c \in Calls : SawUnpaid(c)',
         \A c \in Calls : call'[c].at = "booking" => call'[c] = call[c]
  PROVE  TotalInv'
<1>1. PaidOnes(inst') = PaidOnes(inst) /\ PaidSum(inst') = PaidSum(inst)
  BY ClosedCount
<1>2. ~crossed => TotalOf(conta, inst)'
  <2> SUFFICES ASSUME ~crossed PROVE TotalOf(conta', inst')
    OBVIOUS
  <2>1. TotalOf(conta, inst)
    BY DEF TotalInv
  <2> QED BY <1>1, <2>1 DEF TotalOf
<1>3. ASSUME NEW c \in Calls, ~crossed, call'[c].at = "booking"
      PROVE  TotalOf(call[c].view, NextRows(c))'
  <2>1. call'[c] = call[c] /\ TotalOf(call[c].view, NextRows(c)) /\ call[c].of \in Parts
    BY <1>3 DEF TotalInv, IInv, CallsOK, ReadOK
  <2> DEFINE s == [inst' EXCEPT ![call[c].of] = call[c].row]
             r == [inst EXCEPT ![call[c].of] = call[c].row]
  <2>2. \A i \in Parts : /\ s[i].status = "PAID" <=> r[i].status = "PAID"
                         /\ s[i].status = "PAID" => s[i].paid = r[i].paid
    BY <2>1 DEF IInv, RowsOK
  <2>3. PaidOnes(s) = PaidOnes(r) /\ PaidSum(s) = PaidSum(r)
    <3> HIDE DEF s, r
    <3> QED BY <2>2, ClosedCount
  <2>4. TotalOf(call'[c].view, s)
    BY <2>1, <2>3 DEF TotalOf, NextRows
  <2> QED BY <2>1, <2>4 DEF NextRows
<1> QED BY <1>2, <1>3 DEF TotalInv

\* A cancellation of an account that is not paid.
LEMMA TotalCancel ==
  ASSUME IInv, IInv', TotalInv, NEW c \in Calls, CancelCommits(c)
  PROVE  TotalInv'
<1>1. call'[c].at = "over" /\ \A d \in Calls : d # c => call'[d] = call[d]
  BY OverWritten DEF CancelCommits, IInv, CallsOK
<1>2. /\ call[c].at = "cancelling" /\ conta = call[c].saw /\ crossed' = crossed
      /\ conta' = [conta EXCEPT !.status = "CANCELLED"]
      /\ inst' = [i \in Parts |-> IF i \in call[c].swept
                                  THEN [inst[i] EXCEPT !.status = "CANCELLED"] ELSE inst[i]]
  BY DEF CancelCommits
<1>3. \A d \in Calls : SawUnpaid(d)'
  BY <1>1 DEF TotalInv, SawUnpaid
<1>4. /\ conta.status # "PAID" /\ conta'.paid = conta.paid /\ conta'.status # "PAID"
      /\ Account(conta)'
  <2>1. conta = [status |-> conta.status, paid |-> conta.paid] /\ conta.status # "PAID"
    BY <1>2 DEF TotalInv, SawUnpaid, Account
  <2>2. conta' = [status |-> "CANCELLED", paid |-> conta.paid]
    BY <1>2, <2>1
  <2> QED BY <2>1, <2>2 DEF Account
<1>5. \A i \in Parts : /\ inst'[i].paid = inst[i].paid
                       /\ inst'[i].status = "PAID" <=> inst[i].status = "PAID"
  BY <1>2 DEF IInv, CallsOK, SweptOpen, RowsOK, Row, Open
<1>6. inst' \in [Parts -> Row]
  BY DEF IInv, RowsOK
<1> QED BY <1>1, <1>2, <1>3, <1>4, <1>5, <1>6, TotalStatus

\* The job marks rows that were pending, and an account that was.
LEMMA TotalOverdue ==
  ASSUME IInv, IInv', TotalInv, MarkOverdue
  PROVE  TotalInv'
<1>1. /\ UNCHANGED <<call, crossed>> /\ inst' = Marked
      /\ conta' = IF conta.status = "PENDING" /\ \E i \in Parts : inst'[i].status = "OVERDUE"
                  THEN [conta EXCEPT !.status = "OVERDUE"] ELSE conta
  BY DEF MarkOverdue
<1>2. \A c \in Calls : SawUnpaid(c)' /\ call'[c] = call[c]
  BY <1>1 DEF TotalInv, SawUnpaid
<1>3. \A i \in Parts : /\ inst'[i].paid = inst[i].paid
                       /\ inst'[i].status = "PAID" <=> inst[i].status = "PAID"
  BY <1>1 DEF IInv, RowsOK, Row, Marked
<1>4. /\ Account(conta)' /\ conta'.paid = conta.paid
      /\ conta'.status = "PAID" <=> conta.status = "PAID"
  <2>1. conta = [status |-> conta.status, paid |-> conta.paid]
    BY DEF TotalInv, Account
  <2>2. CASE conta' = conta
    BY <2>1, <2>2 DEF Account
  <2>3. CASE conta.status = "PENDING" /\ conta' = [conta EXCEPT !.status = "OVERDUE"]
    <3>1. conta' = [status |-> "OVERDUE", paid |-> conta.paid]
      BY <2>1, <2>3
    <3> QED BY <2>3, <3>1 DEF Account
  <2> QED BY <1>1, <2>2, <2>3
<1>5. inst' \in [Parts -> Row]
  BY DEF IInv, RowsOK
<1> QED BY <1>1, <1>2, <1>3, <1>4, <1>5, TotalStatus

\* An edit finds a clean account, or the total no longer counts.
LEMMA TotalEdit ==
  ASSUME IInv, TotalInv, NEW c \in Calls, EditCommits(c)
  PROVE  TotalInv'
<1>1. call'[c].at = "over" /\ \A d \in Calls : d # c => call'[d] = call[d]
  BY OverWritten DEF EditCommits, IInv, CallsOK
<1>2. /\ \A i \in Parts : ~Locked(i)
      /\ inst' = Unpaid /\ crossed' = (crossed \/ conta # Clean) /\ conta' = conta
  BY DEF EditCommits
<1>3. \A d \in Calls : SawUnpaid(d)'
  BY <1>1 DEF TotalInv, SawUnpaid
<1>4. \A d \in Calls : call'[d].at # "booking"
  BY <1>1, <1>2 DEF Locked, IInv, CallsOK, ReadOK
<1>5. ~crossed' => TotalOf(conta, inst)'
  BY <1>2, CleanTotal
<1> QED BY <1>2, <1>3, <1>4, <1>5 DEF TotalInv

\* The invariant of the total is inductive.
LEMMA TotalStep == IInv /\ IInv' /\ TotalInv /\ [Next]_vars => TotalInv'
<1> SUFFICES ASSUME IInv, IInv', TotalInv, [Next]_vars PROVE TotalInv'
  OBVIOUS
<1>1. CASE \E c \in Calls : Start(c) \/ CancelSweeps(c) \/ Fails(c)
  BY <1>1, TotalCall
<1>2. CASE \E c \in Calls : PayWrites(c) \/ ReverseWrites(c)
  BY <1>2, TotalHolds DEF PayWrites, ReverseWrites
<1>3. CASE \E c \in Calls : Commit(c)
  BY <1>3, TotalBooks, TotalCancel, TotalEdit DEF Commit
<1>4. CASE MarkOverdue
  BY <1>4, TotalOverdue
<1>5. CASE UNCHANGED <<conta, inst, call, crossed>>
  BY <1>5, TotalKept DEF TotalInv, SawUnpaid
<1>6. \/ \E c \in Calls : Start(c) \/ Write(c) \/ Commit(c) \/ Fails(c)
      \/ MarkOverdue
      \/ UNCHANGED <<conta, inst, call, crossed>>
  BY DEF Next, FallsDue, vars, rows
<1> QED BY <1>1, <1>2, <1>3, <1>4, <1>5, <1>6 DEF Write

\* Both invariants hold in every state.
LEMMA TotalAlways == Spec => [](IInv /\ TotalInv)
  BY IInvInit, IInvStep, TotalInit, TotalStep, PTL DEF Spec

\* While no two recalculations overlap, and no edit meets a payment it had not seen, the
\* account's total is what its closed instalments received.
THEOREM TotalTrue == Spec => []TotalIsThePaidOnes
<1>1. TotalInv => TotalIsThePaidOnes
  BY DEF TotalInv, TotalOf, TotalIsThePaidOnes
<1> QED BY <1>1, TotalAlways, PTL

\* And a cancellation that goes through finds the money it read.
THEOREM CancelSees == Spec => CancelSeesTotal
<1> DEFINE Sees == \A c \in Calls :
             call[c].at = "cancelling" /\ conta'.status = "CANCELLED" /\ conta' # conta
               /\ call'[c].at = "over" /\ ~crossed
                 => PaidSum(inst) = call[c].saw.paid
<1>1. IInv /\ TotalInv /\ [Next]_vars => [Sees]_vars
  <2> SUFFICES ASSUME IInv, TotalInv, [Next]_vars, NEW c \in Calls,
                      call[c].at = "cancelling", conta' # conta, call'[c].at = "over", ~crossed
               PROVE  PaidSum(inst) = call[c].saw.paid
    OBVIOUS
  <2>1. ASSUME NEW d \in Calls, d # c, Start(d) \/ Write(d) \/ Commit(d) \/ Fails(d)
        PROVE  call'[c] = call[c]
    BY <2>1 DEF Start, Write, Commit, Fails, PayReads, ReverseReads, CancelReads, EditReads,
                Reads, PayWrites, ReverseWrites, CancelSweeps, Holds, Books, CancelCommits,
                EditCommits, Over, IInv, CallsOK, CallShape
  <2>2. ~(MarkOverdue \/ \E i \in Falling : FallsDue(i)) /\ ~UNCHANGED vars
    BY DEF MarkOverdue, FallsDue, vars
  <2>3. Start(c) \/ Write(c) \/ Commit(c) \/ Fails(c)
    BY <2>1, <2>2 DEF Next
  <2>4. CancelCommits(c)
    BY <2>3 DEF Start, Write, Commit, Fails, PayReads, ReverseReads, CancelReads, EditReads,
                Reads, PayWrites, ReverseWrites, CancelSweeps, Holds, Books, EditCommits
  <2>5. conta = call[c].saw
    BY <2>4 DEF CancelCommits
  <2> QED BY <2>5 DEF TotalInv, TotalOf
<1> QED BY <1>1, TotalAlways, PTL DEF Spec, CancelSeesTotal

=============================================================================
