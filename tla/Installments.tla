---------------------------- MODULE Installments ----------------------------
(***************************************************************************)
(* One account of financial.ts, payable or receivable, that was entered by *)
(* hand: its instalments, the ledger of what was paid and given back, and  *)
(* the total and status kept beside them.  A call is a READ COMMITTED      *)
(* transaction, made once, in three steps: it reads; it changes instalment *)
(* rows by compare-and-set, holds them and adds up what others committed;  *)
(* it commits.  The drawer's part is CashDrawer's: a movement that its     *)
(* session refuses fails the call.                                         *)
(***************************************************************************)
EXTENDS Integers, FiniteSetsExt

CONSTANTS
  Parts,     \* the instalments of the account
  Amount,    \* cents each of them is worth; an edit is taken to repeat them
  Sums,      \* cents a payment or a reversal may be of
  Calls,     \* procedure calls, each made once
  MaxEdits,  \* bound: edits of the account's value
  Falling,   \* bound: the instalments whose day comes
  none

ASSUME Worth ==
  /\ Parts # {}
  /\ Amount \in [Parts -> Nat \ {0}]
  /\ Sums \subseteq Nat \ {0}
  /\ Falling \subseteq Parts
  /\ none \notin Parts

VARIABLES
  conta,   \* FinancialTransaction: status and paidAmount
  inst,    \* Installment rows: status and paidAmount
  gen,     \* how often the rows were deleted and made anew
  ledger,  \* installment_payments of each row: their sum, whether there are any
  late,    \* the dueDate is in the past
  call,    \* what a call read, wrote and has not committed
  rounded, \* history: payments of a row that closed it
  crossed  \* history: a total was computed from rows about to change

rows == <<inst, gen, ledger, rounded>>
vars == <<conta, rows, late, call, crossed>>

Open == {"PENDING", "OVERDUE"}
Returnable == {"PAID", "PARTIALLY_PAID"}

Unpaid == [i \in Parts |-> [status |-> "PENDING", paid |-> 0]]
NoEntry == [i \in Parts |-> [net |-> 0, any |-> FALSE]]

\* The account's total counts only what closed instalments received.
PaidOnes(r) == {i \in Parts : r[i].status = "PAID"}
Closed(r) == [i \in Parts |-> IF i \in PaidOnes(r) THEN r[i].paid ELSE 0]
Cents(f) == MapThenSumSet(LAMBDA i : f[i], Parts)
PaidSum(r) == Cents(Closed(r))

Clean == [status |-> "PENDING", paid |-> PaidSum(Unpaid)]

\* A call at a step, about an instalment read in generation g, and what it read.
Step(at, of, sum, g, saw) ==
  [at |-> at, of |-> of, sum |-> sum, gen |-> g, saw |-> saw,
   row |-> [status |-> "PENDING", paid |-> 0], view |-> Clean, swept |-> {}]
Idle == Step("idle", none, 0, 0, Clean)

\* financial.create.
Init ==
  /\ conta = Clean
  /\ inst = Unpaid
  /\ gen = 0
  /\ ledger = NoEntry
  /\ late = [i \in Parts |-> FALSE]
  /\ call = [c \in Calls |-> Idle]
  /\ rounded = [i \in Parts |-> 0]
  /\ crossed = FALSE

-----------------------------------------------------------------------------
(* The account's total.                                                    *)

StatusOf(r) ==
  CASE PaidOnes(r) = Parts -> "PAID"
    [] PaidOnes(r) \notin {{}, Parts} -> "PARTIALLY_PAID"
    [] PaidOnes(r) = {} /\ (\E i \in Parts : r[i].status = "OVERDUE") -> "OVERDUE"
    [] OTHER -> "PENDING"

Recalculated(r) == [status |-> StatusOf(r), paid |-> PaidSum(r)]

-----------------------------------------------------------------------------
(* Steps every call has.                                                   *)

\* Rows that a transaction changed and has not committed.
Locked(i) ==
  \E c \in Calls :
    \/ call[c].at = "booking" /\ call[c].of = i
    \/ call[c].at = "cancelling" /\ i \in call[c].swept

Reads(c, read) ==
  /\ call[c] = Idle
  /\ call' = [call EXCEPT ![c] = read]
  /\ UNCHANGED <<conta, rows, late, crossed>>

Over(c) == call' = [call EXCEPT ![c] = Step("over", none, 0, 0, Clean)]

\* A compare-and-set that found nothing, no session to give the money back from,
\* a session closed meanwhile, a timeout, a death: all of it is rolled back.
Fails(c) ==
  /\ call[c].at \notin {"idle", "over"}
  /\ Over(c)
  /\ UNCHANGED <<conta, rows, late, crossed>>

\* Mutant: a row in the right status will do.
SameStatus(c, S) ==
  /\ ~Locked(call[c].of)
  /\ call[c].gen = gen
  /\ inst[call[c].of].status \in S

\* The row is still the one that was read.
Same(c, S) ==
  LET i == call[c].of IN
  /\ ~Locked(i)
  /\ call[c].gen = gen
  /\ inst[i].status \in S
  /\ inst[i].paid = call[c].saw.paid

\* The row is changed and held; the total is that of its new value and of what
\* others had committed by now.
Holds(c, row) ==
  /\ call' = [call EXCEPT ![c] = [@ EXCEPT
       !.at = "booking", !.row = row, !.view = Recalculated([inst EXCEPT ![call[c].of] = row])]]
  /\ crossed' = (crossed \/ \E d \in Calls : call[d].at = "booking")
  /\ UNCHANGED <<conta, rows, late>>

\* Mutant: a reversal does not recalculate the account.
BooksPayments(c) ==
  LET i == call[c].of IN
  /\ call[c].at = "booking"
  /\ inst' = [inst EXCEPT ![i] = call[c].row]
  /\ ledger' = [ledger EXCEPT ![i] = [net |-> @.net + call[c].sum, any |-> TRUE]]
  /\ rounded' = IF call[c].row.status = "PAID" THEN [rounded EXCEPT ![i] = @ + 1] ELSE rounded
  /\ conta' = IF call[c].sum > 0 THEN call[c].view ELSE conta
  /\ Over(c)
  /\ UNCHANGED <<gen, late, crossed>>

\* Ledger, row and total become visible; the total is written by id.
Books(c) ==
  LET i == call[c].of IN
  /\ call[c].at = "booking"
  /\ inst' = [inst EXCEPT ![i] = call[c].row]
  /\ ledger' = [ledger EXCEPT ![i] = [net |-> @.net + call[c].sum, any |-> TRUE]]
  /\ rounded' = IF call[c].row.status = "PAID" THEN [rounded EXCEPT ![i] = @ + 1] ELSE rounded
  /\ conta' = call[c].view
  /\ Over(c)
  /\ UNCHANGED <<gen, late, crossed>>

-----------------------------------------------------------------------------
(* payInstallment and reverseInstallment.                                  *)

PayReads(c, i, sum) ==
  /\ inst[i].status \in Open
  /\ sum <= Amount[i] - inst[i].paid + 1
  /\ Reads(c, Step("pay", i, sum, gen, inst[i]))

\* One cent more or less closes an instalment, at its exact amount; else it keeps
\* the status that was read.
Paid(c) ==
  LET total == call[c].saw.paid + call[c].sum
      amount == Amount[call[c].of]
  IN IF total >= amount - 1 THEN [status |-> "PAID", paid |-> amount]
     ELSE [status |-> call[c].saw.status, paid |-> total]

PayWrites(c) ==
  /\ call[c].at = "pay"
  /\ Same(c, Open)
  /\ Holds(c, Paid(c))

ReverseReads(c, i, sum) ==
  /\ inst[i].status \in Returnable
  /\ sum <= inst[i].paid
  /\ Reads(c, Step("reverse", i, -sum, gen, inst[i]))

Returned(c) ==
  LET left == call[c].saw.paid + call[c].sum
  IN [status |-> IF left = 0 THEN "PENDING" ELSE "PARTIALLY_PAID", paid |-> left]

ReverseWrites(c) ==
  /\ call[c].at = "reverse"
  /\ Same(c, Returnable)
  /\ Holds(c, Returned(c))

-----------------------------------------------------------------------------
(* cancel, and update with a new value.                                    *)

CancelReads(c) ==
  /\ conta.status # "PAID"
  /\ Reads(c, Step("cancel", none, 0, 0, conta))

\* Every open instalment is cancelled; it waits for those that others hold.
CancelSweeps(c) ==
  LET S == {i \in Parts : inst[i].status \in Open} IN
  /\ call[c].at = "cancel"
  /\ \A i \in S : ~Locked(i)
  /\ call' = [call EXCEPT ![c] = [@ EXCEPT !.at = "cancelling", !.swept = S]]
  /\ UNCHANGED <<conta, rows, late, crossed>>

\* Mutant: the compare-and-set is on the status alone.
CancelCommitsByStatus(c) ==
  /\ call[c].at = "cancelling"
  /\ conta.status = call[c].saw.status
  /\ conta' = [conta EXCEPT !.status = "CANCELLED"]
  /\ inst' = [i \in Parts |-> IF i \in call[c].swept
                              THEN [inst[i] EXCEPT !.status = "CANCELLED"] ELSE inst[i]]
  /\ Over(c)
  /\ UNCHANGED <<gen, ledger, rounded, late, crossed>>

\* Compare-and-set on the account's status and total.
CancelCommits(c) ==
  /\ call[c].at = "cancelling"
  /\ conta = call[c].saw
  /\ conta' = [conta EXCEPT !.status = "CANCELLED"]
  /\ inst' = [i \in Parts |-> IF i \in call[c].swept
                              THEN [inst[i] EXCEPT !.status = "CANCELLED"] ELSE inst[i]]
  /\ Over(c)
  /\ UNCHANGED <<gen, ledger, rounded, late, crossed>>

EditReads(c) ==
  /\ gen < MaxEdits
  /\ conta = Clean
  /\ \A i \in Parts : ~ledger[i].any
  /\ Reads(c, Step("edit", none, 0, 0, Clean))

\* The rows are deleted, once nobody holds one, and their ledger with them; new ones
\* are made, due at other dates.  Status and total stay what they are.
EditCommits(c) ==
  /\ call[c].at = "edit"
  /\ \A i \in Parts : ~Locked(i)
  /\ gen < MaxEdits
  /\ gen' = gen + 1
  /\ inst' = Unpaid
  /\ ledger' = NoEntry
  /\ rounded' = [i \in Parts |-> 0]
  /\ late' \in {late, [i \in Parts |-> FALSE]}
  /\ crossed' = (crossed \/ conta # Clean)
  /\ Over(c)
  /\ UNCHANGED conta

-----------------------------------------------------------------------------
(* The job of every night.                                                 *)

FallsDue(i) ==
  /\ ~late[i]
  /\ late' = [late EXCEPT ![i] = TRUE]
  /\ UNCHANGED <<conta, rows, call, crossed>>

\* Mutant: only the instalments of an account that is still pending.
MarkedIfPending ==
  [i \in Parts |-> IF late[i] /\ inst[i].status = "PENDING" /\ conta.status = "PENDING"
                   THEN [inst[i] EXCEPT !.status = "OVERDUE"] ELSE inst[i]]

Marked == [i \in Parts |-> IF late[i] /\ inst[i].status = "PENDING"
                           THEN [inst[i] EXCEPT !.status = "OVERDUE"] ELSE inst[i]]

MarkOverdue ==
  /\ \A i \in Parts : Marked[i] # inst[i] => ~Locked(i)
  /\ inst' = Marked
  /\ conta' = IF conta.status = "PENDING" /\ \E i \in Parts : inst'[i].status = "OVERDUE"
              THEN [conta EXCEPT !.status = "OVERDUE"] ELSE conta
  /\ <<inst, conta>>' # <<inst, conta>>
  /\ UNCHANGED <<gen, ledger, rounded, late, call, crossed>>

-----------------------------------------------------------------------------

Write(c) ==
  PayWrites(c) \/ ReverseWrites(c) \/ CancelSweeps(c)

Commit(c) ==
  Books(c) \/ CancelCommits(c) \/ EditCommits(c)

Start(c) ==
  \/ \E i \in Parts, sum \in Sums : PayReads(c, i, sum) \/ ReverseReads(c, i, sum)
  \/ CancelReads(c)
  \/ EditReads(c)

Next ==
  \/ \E c \in Calls : Start(c) \/ Write(c) \/ Commit(c) \/ Fails(c)
  \/ \E i \in Falling : FallsDue(i)
  \/ MarkOverdue

Spec == Init /\ [][Next]_vars

\* The database ends every transaction, and the timer runs the job every night.
Fairness ==
  /\ \A c \in Calls : WF_vars(Write(c) \/ Commit(c) \/ Fails(c))
  /\ WF_vars(MarkOverdue)

FairSpec == Spec /\ Fairness

-----------------------------------------------------------------------------
(* Properties.                                                             *)

Row == [status : Open \cup Returnable \cup {"CANCELLED"}, paid : Nat]
Stage == {"idle", "pay", "reverse", "cancel", "edit", "booking", "cancelling", "over"}

\* Paid amounts never fall below nothing, and what is kept has its type.
TypeOK ==
  /\ inst \in [Parts -> Row]
  /\ gen \in Nat
  /\ ledger \in [Parts -> [net : Int, any : BOOLEAN]]
  /\ late \in [Parts -> BOOLEAN]
  /\ rounded \in [Parts -> Nat]
  /\ crossed \in BOOLEAN
  /\ \A c \in Calls :
       /\ call[c].at \in Stage
       /\ call[c].sum \in Int /\ call[c].gen \in Nat
       /\ call[c].of \in Parts \cup {none}
       /\ call[c].row \in Row
       /\ call[c].swept \subseteq Parts

\* What an instalment says it received is what the ledger, and so the drawer, received
\* for it, but for the cent that each closing payment may round away: no payment
\* or reversal is lost or counted twice, however they overlap.
LedgerTracksPaid ==
  \A i \in Parts :
    /\ inst[i].paid - ledger[i].net <= rounded[i]
    /\ ledger[i].net - inst[i].paid <= rounded[i]

\* The account's total is what its closed instalments received, and it is paid just
\* when all of them are closed, as long as no two recalculations overlapped and
\* no edit came after a payment it had not seen.
TotalIsThePaidOnes ==
  ~crossed => /\ conta.paid = PaidSum(inst)
              /\ conta.status = "PAID" <=> PaidOnes(inst) = Parts

\* On the same condition a cancellation finds the money it read: none that
\* instalment closed or reversed in between goes down with the account.
CancelSeesTotal ==
  [][\A c \in Calls :
       call[c].at = "cancelling" /\ conta'.status = "CANCELLED" /\ conta' # conta
         /\ call'[c].at = "over" /\ ~crossed
           => PaidSum(inst) = call[c].saw.paid]_vars

\* An instalment past its day does not go on as pending, nor does its account,
\* though payments write back the status they read and totals computed earlier.
OverdueShows ==
  \A i \in Parts :
    <>[]late[i] => <>[](/\ inst[i].status # "PENDING"
                        /\ inst[i].status = "OVERDUE" => conta.status # "PENDING")

\* What a test's header says cancel's compare-and-set prevents: money received by an
\* account that is gone.
CancelledHoldsNothing ==
  \A i \in Parts : inst[i].status = "CANCELLED" => ledger[i].net = 0

\* What the schema says of the ledger: its entries stay.
EntriesStay == [][\A i \in Parts : ledger[i].any => ledger'[i].any]_vars

\* What the module's documentation says: card and cash flow tell the same story.
TotalIsAlwaysThePaidOnes == conta.paid = PaidSum(inst)

\* What reverseInstallment says: an instalment paid in part can be reversed.
PartIsReturnable ==
  \A i \in Parts : inst[i].paid \in 1..(Amount[i] - 1) => inst[i].status \notin Open
=============================================================================
