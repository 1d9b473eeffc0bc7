---------------------------- MODULE ServiceOrder ----------------------------
(***************************************************************************)
(* Service orders (service-order.ts, os-stock.service.ts,                  *)
(* os-cancellation.service.ts): their way through thirteen statuses, the   *)
(* parts they take off the shelf, the revisions of a signed budget that    *)
(* wait for the customer, the payment at the counter or in the PDV, and    *)
(* the four ways of undoing an order.  A call is a READ COMMITTED          *)
(* transaction in two steps: it reads the order (and item or quote) and    *)
(* checks it; it writes and commits.  The first row a call changes for     *)
(* good is the order's or the quote's, so its writes are one step.  What   *)
(* else is on the shelf is not modelled: a reservation finds enough, or    *)
(* the call rolls back.                                                    *)
(***************************************************************************)
EXTENDS Integers

CONSTANTS
  Orders, Items, Quotes,  \* rows that may be created, each once
  Calls,                  \* procedure calls in flight at one time
  Reached,                \* bound: statuses that updateStatus is asked for
  MaxQty,                 \* bound: pieces of one item
  none

ASSUME SomePieces == MaxQty \in Nat \ {0}

VARIABLES
  ord,    \* ServiceOrder: status, deletedAt, pendingQuoteId, entry signature
  past,   \* what is looked up in its history
  owner, qty,  \* ServiceOrderItem: its order, its quantity (0: deleted)
  out,    \* pieces taken off the shelf for an item and not given back
  quote,  \* ServiceOrderQuote: order, status and items before the revision
  money,  \* income in the drawer, PDV sales, receivables of an order
  tx,     \* calls under way: what they read
  strayed \* history: what happened to an order that the code does not guard against

itemVars == <<owner, qty, out>>
vars == <<ord, past, itemVars, quote, money, tx, strayed>>

-----------------------------------------------------------------------------
(* Statuses.                                                               *)

Working == {"OPEN", "IN_DIAGNOSIS", "WAITING_APPROVAL", "APPROVED", "WAITING_PARTS",
            "IN_PROGRESS"}
Refundable == {"PAID", "READY_FOR_PICKUP", "DELIVERED"}
Undone == {"CANCELLED", "REFUNDED"}
Status == Working \cup Refundable \cup Undone \cup {"NONE", "COMPLETED", "IN_WARRANTY"}

ASSUME NoneIsNothing == none \notin Orders \cup Items \cup Quotes \cup Status

\* What updateStatus may do by itself: it refuses CANCELLED, and from COMPLETED to
\* PAID (forced, or without the PDV) it does what Pay does.
ToWork == {"APPROVED", "WAITING_PARTS", "IN_PROGRESS", "COMPLETED"}
ALLOWED_TRANSITIONS ==
  [s \in Status |->
    CASE s = "OPEN" -> ToWork \cup {"IN_DIAGNOSIS", "WAITING_APPROVAL"}
      [] s = "IN_DIAGNOSIS" -> ToWork \cup {"WAITING_APPROVAL"}
      [] s \in {"WAITING_APPROVAL", "APPROVED", "WAITING_PARTS"} -> ToWork \ {s}
      [] s = "IN_PROGRESS" -> {"COMPLETED", "WAITING_PARTS"}
      [] s = "PAID" -> {"READY_FOR_PICKUP", "DELIVERED"}
      [] s = "READY_FOR_PICKUP" -> {"DELIVERED"}
      [] s = "IN_WARRANTY" -> {"IN_DIAGNOSIS"}
      [] OTHER -> {}]

isCancellable(s) == s \in Working \cup {"IN_WARRANTY"}
Editable(s) == s \notin {"NONE", "PAID", "DELIVERED"} \cup Undone

\* An order whose items lie in the workshop.
Holds(o) == ~ord[o].deleted /\ ord[o].status \notin Undone
Of(o) == {i \in Items : owner[i] = o /\ qty[i] > 0}
Unborn == {i \in Items : owner[i] = none}

NoOrder == [status |-> "NONE", deleted |-> FALSE, quote |-> none, signed |-> FALSE]
NoPast == [wait |-> none, origin |-> none, cancel |-> none]
NoQuote == [ord |-> none, status |-> "none", snap |-> [i \in {} |-> 0]]
NoMoney == [cash |-> 0, draft |-> FALSE, sales |-> 0, open |-> 0, paid |-> 0, shelved |-> 0]
Idle == [op |-> "idle", ord |-> none, of |-> none, saw |-> NoOrder, qty |-> 0]

Init ==
  /\ ord = [o \in Orders |-> NoOrder]
  /\ past = [o \in Orders |-> NoPast]
  /\ owner = [i \in Items |-> none]
  /\ qty = [i \in Items |-> 0]
  /\ out = [i \in Items |-> 0]
  /\ quote = [k \in Quotes |-> NoQuote]
  /\ money = [o \in Orders |-> NoMoney]
  /\ tx = [t \in Calls |-> Idle]
  /\ strayed = [o \in Orders |-> {}]

-----------------------------------------------------------------------------
(* The first step of a call.                                               *)

Looks(t, op, o, of) ==
  /\ tx[t] = Idle
  /\ ord[o].status # "NONE"
  /\ tx' = [tx EXCEPT ![t] = [op |-> op, ord |-> o, of |-> of, saw |-> ord[o],
                              qty |-> IF of \in Items THEN qty[of] ELSE 0]]
  /\ UNCHANGED <<ord, past, itemVars, quote, money, strayed>>

\* Mutant: a pending revision does not stop the order.
LookAdvanceAnyway(t, o, s) ==
  /\ ~ord[o].deleted /\ ord[o].signed
  /\ s \in ALLOWED_TRANSITIONS[ord[o].status] \cap Reached
  /\ Looks(t, "advance", o, s)

LookAdvance(t, o, s) ==
  /\ ~ord[o].deleted /\ ord[o].signed /\ ord[o].quote = none
  /\ s \in ALLOWED_TRANSITIONS[ord[o].status] \cap Reached
  /\ Looks(t, "advance", o, s)

\* registerPayment, and updateStatus to PAID.
LookPay(t, o) ==
  /\ ~ord[o].deleted /\ ord[o].status = "COMPLETED" /\ ord[o].quote = none
  /\ Looks(t, "pay", o, none)

\* finalize of the draft sale looks at the order's status only.
LookPdv(t, o) ==
  /\ money[o].draft /\ ord[o].status = "COMPLETED"
  /\ Looks(t, "pdv", o, none)

\* cancel, and the three confirmations of a return, which do not look at deletedAt.
LookCancel(t, o) == isCancellable(ord[o].status) /\ Looks(t, "cancel", o, none)

LookUncancel(t, o) == ord[o].status = "CANCELLED" /\ Looks(t, "uncancel", o, none)

LookRefund(t, o) == ord[o].status \in Refundable /\ Looks(t, "refund", o, none)

LookDelete(t, o) ==
  /\ ord[o].status \notin Refundable \cup Undone \cup {"IN_WARRANTY"}
  /\ Looks(t, "delete", o, none)

LookDeliver(t, o) ==
  /\ ord[o].status \in {"PAID", "READY_FOR_PICKUP"}
  /\ Looks(t, "deliver", o, none)

LookAdd(t, o) == ~ord[o].deleted /\ Editable(ord[o].status) /\ Looks(t, "add", o, none)

LookItem(t, i, op) ==
  /\ qty[i] > 0 /\ Editable(ord[owner[i]].status)
  /\ Looks(t, op, owner[i], i)

\* assertOrderAcceptsQuote.
Accepts(o) == ~ord[o].deleted /\ ord[o].status \notin Undone \cup {"DELIVERED"}

LookAnswer(t, k, op) ==
  /\ quote[k].status = "pending" /\ Accepts(quote[k].ord)
  /\ Looks(t, op, quote[k].ord, k)

LookWithdraw(t, o) ==
  /\ ord[o].quote # none /\ Accepts(o)
  /\ Looks(t, "withdraw", o, ord[o].quote)

\* The customer signs the revision's document: of the order only deletedAt counts.
LookSign(t, k) ==
  /\ quote[k].status = "pending" /\ ~ord[quote[k].ord].deleted
  /\ Looks(t, "sign", quote[k].ord, k)

-----------------------------------------------------------------------------
(* The second step.                                                        *)

\* Operations that repeat in their write the status they read.
Guarded == {"advance", "pay", "cancel", "uncancel", "refund"}

Commits(t, op) == tx[t].op = op /\ tx' = [tx EXCEPT ![t] = Idle]

\* The status is repeated in the write.
Unmoved(t) == ord[tx[t].ord].status = tx[t].saw.status

\* The order, or its item, is no longer what a write by id rests on.
ByIdOver(t) ==
  LET now == ord[tx[t].ord] IN
  \/ /\ tx[t].op \notin Guarded
     /\ \/ <<now.status, now.deleted, now.quote>>
             # <<tx[t].saw.status, tx[t].saw.deleted, tx[t].saw.quote>>
        \/ tx[t].of \in Items /\ qty[tx[t].of] # tx[t].qty
  \/ tx[t].op = "advance" /\ now.quote # tx[t].saw.quote

\* What this write does that the code does not guard against.
Leaks(t) ==
  LET o == tx[t].ord
      op == tx[t].op
  IN
  (IF ByIdOver(t) THEN {"overlap"} ELSE {})
  \cup (IF ord[o].deleted /\ op \in {"cancel", "uncancel", "refund", "change", "remove"}
          THEN {"deleted"} ELSE {})
  \cup (IF op = "sign" /\ ord[o].status # "WAITING_APPROVAL" THEN {"late"} ELSE {})
  \cup (IF op \in {"add", "change"} /\ ord[o].status = "READY_FOR_PICKUP"
            /\ ord'[o].status # "READY_FOR_PICKUP"
          THEN {"pickup"} ELSE {})
  \cup (IF op \in {"approve", "withdraw", "sign"} /\ ord'[o].status \in Undone
          THEN {"undone"} ELSE {})

Records(t) == strayed' = [strayed EXCEPT ![tx[t].ord] = @ \cup Leaks(t)]

SetStatus(o, s) == ord' = [ord EXCEPT ![o].status = s]

\* A row of the history that says the order entered WAITING_APPROVAL.
Enters(o, s, from) ==
  past' = IF s # "WAITING_APPROVAL" THEN past
          ELSE [past EXCEPT ![o].wait = from,
                            ![o].origin = IF from = "WAITING_APPROVAL" THEN @ ELSE from]

GiveBackAll(o) == out' = [i \in Items |-> IF i \in Of(o) THEN out[i] - qty[i] ELSE out[i]]
TakeAll(o) == out' = [i \in Items |-> IF i \in Of(o) THEN out[i] + qty[i] ELSE out[i]]

Advance(t) ==
  LET o == tx[t].ord IN
  /\ Commits(t, "advance") /\ Unmoved(t)
  /\ SetStatus(o, tx[t].of)
  /\ Enters(o, tx[t].of, tx[t].saw.status)
  /\ UNCHANGED <<itemVars, quote, money>>
  /\ Records(t)

\* settleOsPaymentRecords: income in the drawer, and a receivable if there is none.
Settles(o) ==
  LET new == IF money[o].open + money[o].paid = 0 THEN 1 ELSE 0 IN
  \/ money' = [money EXCEPT ![o].cash = @ + 1, ![o].open = @ + new]
  \/ money' = [money EXCEPT ![o].cash = @ + 1, ![o].paid = @ + new]

\* Mutant: two payments both pass the check of COMPLETED.
PayById(t) ==
  LET o == tx[t].ord IN
  /\ Commits(t, "pay")
  /\ SetStatus(o, "PAID") /\ Settles(o)
  /\ UNCHANGED <<past, itemVars, quote>>
  /\ Records(t)

Pay(t) ==
  LET o == tx[t].ord IN
  /\ Commits(t, "pay") /\ Unmoved(t)
  /\ SetStatus(o, "PAID") /\ Settles(o)
  /\ UNCHANGED <<past, itemVars, quote>>
  /\ Records(t)

\* The PDV writes the order by id.
PayInPdv(t) ==
  LET o == tx[t].ord IN
  /\ Commits(t, "pdv") /\ money[o].draft
  /\ SetStatus(o, "PAID")
  /\ money' = [money EXCEPT ![o].draft = FALSE, ![o].cash = @ + 1, ![o].sales = @ + 1]
  /\ UNCHANGED <<past, itemVars, quote>>
  /\ Records(t)

Cancels(o, from) ==
  /\ SetStatus(o, "CANCELLED")
  /\ GiveBackAll(o)
  /\ money' = [money EXCEPT ![o].shelved = @ + money[o].open, ![o].open = 0]
  /\ past' = [past EXCEPT ![o].cancel = from]
  /\ UNCHANGED <<owner, qty, quote>>

\* Mutant: the cancellation writes by id.
CancelById(t) ==
  Commits(t, "cancel") /\ Cancels(tx[t].ord, tx[t].saw.status) /\ Records(t)

\* applyOsCancellation.
Cancel(t) ==
  /\ Commits(t, "cancel") /\ Unmoved(t)
  /\ Cancels(tx[t].ord, tx[t].saw.status)
  /\ Records(t)

\* Back to where it was cancelled, with its parts and its receivables.
Uncancel(t) ==
  LET o == tx[t].ord
      s == IF past[o].cancel \in Status \ ({"PAID", "DELIVERED"} \cup Undone)
             THEN past[o].cancel ELSE "IN_DIAGNOSIS"
  IN
  /\ Commits(t, "uncancel") /\ Unmoved(t)
  /\ SetStatus(o, s)
  /\ TakeAll(o)
  /\ money' = [money EXCEPT ![o].open = @ + money[o].shelved, ![o].shelved = 0]
  /\ Enters(o, s, "CANCELLED")
  /\ UNCHANGED <<owner, qty, quote>>
  /\ Records(t)

\* One finished PDV sale is reversed; if there is none, the direct receivables.
Refund(t) ==
  LET o == tx[t].ord IN
  /\ Commits(t, "refund") /\ Unmoved(t)
  /\ SetStatus(o, "REFUNDED")
  /\ \/ /\ money[o].sales > 0
        /\ money' = [money EXCEPT ![o].sales = @ - 1, ![o].cash = @ - 1]
     \/ /\ money[o].sales = 0
        /\ money' = [money EXCEPT ![o].open = 0, ![o].paid = 0,
             ![o].cash = IF money[o].open + money[o].paid > 0 THEN @ - 1 ELSE @]
  /\ GiveBackAll(o)
  /\ UNCHANGED <<past, owner, qty, quote>>
  /\ Records(t)

Delete(t) ==
  LET o == tx[t].ord IN
  /\ Commits(t, "delete") /\ ~ord[o].deleted
  /\ ord' = [ord EXCEPT ![o].deleted = TRUE]
  /\ GiveBackAll(o)
  /\ UNCHANGED <<past, owner, qty, quote, money>>
  /\ Records(t)

\* The term of delivery is confirmed; it writes by id.
Deliver(t) ==
  /\ Commits(t, "deliver")
  /\ SetStatus(tx[t].ord, "DELIVERED")
  /\ UNCHANGED <<past, itemVars, quote, money>>
  /\ Records(t)

-----------------------------------------------------------------------------
(* Items, and the revision of a signed budget that a dearer one opens.     *)

\* ensureBudgetRevision, from the order as it was read.
Revises(t, o) ==
  \E k \in Quotes :
    /\ quote[k].status = "none"
    /\ quote' = [quote EXCEPT ![k] = [ord |-> o, status |-> "pending",
                                      snap |-> [i \in Of(o) |-> qty[i]]]]
    /\ ord' = [ord EXCEPT ![o].quote = k, ![o].status = "WAITING_APPROVAL"]
    /\ Enters(o, "WAITING_APPROVAL", tx[t].saw.status)

NeedsRevision(t) == tx[t].saw.signed /\ tx[t].saw.quote = none

\* Its own row in the history repeats the status.
AddItem(t) ==
  LET o == tx[t].ord IN
  /\ Commits(t, "add")
  /\ \E i \in Unborn, n \in 1 .. MaxQty :
       /\ owner' = [owner EXCEPT ![i] = o]
       /\ qty' = [qty EXCEPT ![i] = n]
       /\ out' = [out EXCEPT ![i] = @ + n]
  /\ \/ NeedsRevision(t) /\ Revises(t, o)
     \/ Enters(o, tx[t].saw.status, tx[t].saw.status) /\ UNCHANGED <<ord, quote>>
  /\ UNCHANGED money
  /\ Records(t)

ChangeItem(t) ==
  LET o == tx[t].ord
      i == tx[t].of
  IN
  /\ Commits(t, "change") /\ qty[i] > 0
  /\ \E n \in 1 .. MaxQty :
       /\ qty' = [qty EXCEPT ![i] = n]
       /\ out' = [out EXCEPT ![i] = @ + n - tx[t].qty]
  /\ \/ NeedsRevision(t) /\ Revises(t, o)
     \/ UNCHANGED <<ord, quote, past>>
  /\ UNCHANGED <<owner, money>>
  /\ Records(t)

RemoveItem(t) ==
  LET i == tx[t].of IN
  /\ Commits(t, "remove") /\ qty[i] > 0
  /\ qty' = [qty EXCEPT ![i] = 0]
  /\ out' = [out EXCEPT ![i] = @ - tx[t].qty]
  /\ UNCHANGED <<ord, past, owner, quote, money>>
  /\ Records(t)

-----------------------------------------------------------------------------
(* The customer's answer to a revision, and the team's withdrawal.         *)

Answered(o, k, answer, s) ==
  /\ quote' = [quote EXCEPT ![k].status = answer]
  /\ ord' = [ord EXCEPT ![o].quote = none, ![o].status = s]

statusAfterQuote(from, otherwise) == IF from = none THEN otherwise ELSE from

\* Mutant: the answer is not claimed.
ApproveUnclaimed(t) ==
  LET o == tx[t].ord IN
  /\ Commits(t, "approve")
  /\ Answered(o, tx[t].of, "approved", statusAfterQuote(past[o].origin, "APPROVED"))
  /\ UNCHANGED <<past, itemVars, money>>
  /\ Records(t)

Approve(t) ==
  LET o == tx[t].ord IN
  /\ Commits(t, "approve") /\ quote[tx[t].of].status = "pending"
  /\ Answered(o, tx[t].of, "approved", statusAfterQuote(past[o].origin, "APPROVED"))
  /\ UNCHANGED <<past, itemVars, money>>
  /\ Records(t)

\* The webhook writes by id, and looks at the last row of the history only.
Sign(t) ==
  LET o == tx[t].ord IN
  /\ Commits(t, "sign")
  /\ Answered(o, tx[t].of, "approved", statusAfterQuote(past[o].wait, "APPROVED"))
  /\ UNCHANGED <<past, itemVars, money>>
  /\ Records(t)

\* revertItemsToSnapshot: all items go, those of the snapshot come as new rows.
Reverts(o, snap) ==
  \E new \in [DOMAIN snap -> Unborn] :
    /\ \A i, j \in DOMAIN snap : new[i] = new[j] => i = j
    /\ LET back(i) == CHOOSE j \in DOMAIN snap : new[j] = i
           Fresh == {new[j] : j \in DOMAIN snap}
       IN
       /\ owner' = [i \in Items |-> IF i \in Fresh THEN o ELSE owner[i]]
       /\ qty' = [i \in Items |-> IF i \in Fresh THEN snap[back(i)]
                                  ELSE IF i \in Of(o) THEN 0 ELSE qty[i]]
       /\ out' = [i \in Items |-> IF i \in Fresh THEN out[i] + snap[back(i)]
                                  ELSE IF i \in Of(o) THEN out[i] - qty[i] ELSE out[i]]

Reject(t) ==
  LET o == tx[t].ord
      k == tx[t].of
  IN
  /\ Commits(t, "reject") /\ quote[k].status = "pending"
  /\ Reverts(o, quote[k].snap)
  /\ Answered(o, k, "rejected", "IN_DIAGNOSIS")
  /\ UNCHANGED <<past, money>>
  /\ Records(t)

\* cancelQuote writes the quote by id.
Withdraw(t) ==
  LET o == tx[t].ord
      k == tx[t].of
  IN
  /\ Commits(t, "withdraw")
  /\ Reverts(o, quote[k].snap)
  /\ Answered(o, k, "rejected", statusAfterQuote(past[o].origin, "IN_DIAGNOSIS"))
  /\ UNCHANGED <<past, money>>
  /\ Records(t)

-----------------------------------------------------------------------------
(* Steps of their own.                                                     *)

\* A new order, with one item or none.
Create(o) ==
  /\ ord[o].status = "NONE"
  /\ SetStatus(o, "OPEN")
  /\ \/ UNCHANGED itemVars
     \/ \E i \in Unborn :
          /\ owner' = [owner EXCEPT ![i] = o]
          /\ qty' = [qty EXCEPT ![i] = 1]
          /\ out' = [out EXCEPT ![i] = @ + 1]
  /\ UNCHANGED <<past, quote, money, tx, strayed>>

ConfirmEntry(o) ==
  /\ ord[o].status # "NONE" /\ ~ord[o].signed
  /\ ord' = [ord EXCEPT ![o].signed = TRUE]
  /\ UNCHANGED <<past, itemVars, quote, money, tx, strayed>>

\* createFromOS and cancelOSMode: the draft sale that will pay the order.
OpenDraft(o) ==
  /\ ~ord[o].deleted /\ ord[o].status = "COMPLETED"
  /\ ~money[o].draft /\ money[o].sales = 0
  /\ money' = [money EXCEPT ![o].draft = TRUE]
  /\ UNCHANGED <<ord, past, itemVars, quote, tx, strayed>>

DropDraft(o) ==
  /\ money[o].draft
  /\ money' = [money EXCEPT ![o].draft = FALSE]
  /\ UNCHANGED <<ord, past, itemVars, quote, tx, strayed>>

\* The shelf is short, a write finds its row changed, the process dies.
RollBack(t) ==
  /\ tx[t] # Idle
  /\ tx' = [tx EXCEPT ![t] = Idle]
  /\ UNCHANGED <<ord, past, itemVars, quote, money, strayed>>

Reads(t) ==
  \/ \E o \in Orders :
       \/ \E s \in Reached : LookAdvance(t, o, s)
       \/ LookPay(t, o) \/ LookPdv(t, o) \/ LookCancel(t, o) \/ LookUncancel(t, o)
       \/ LookRefund(t, o) \/ LookDelete(t, o) \/ LookDeliver(t, o)
       \/ LookAdd(t, o) \/ LookWithdraw(t, o)
  \/ \E i \in Items, op \in {"change", "remove"} : LookItem(t, i, op)
  \/ \E k \in Quotes : LookSign(t, k) \/ \E op \in {"approve", "reject"} : LookAnswer(t, k, op)

Writes(t) ==
  \/ Advance(t) \/ Pay(t) \/ PayInPdv(t) \/ Cancel(t) \/ Uncancel(t) \/ Refund(t)
  \/ Delete(t) \/ Deliver(t) \/ AddItem(t) \/ ChangeItem(t) \/ RemoveItem(t)
  \/ Approve(t) \/ Reject(t) \/ Sign(t) \/ Withdraw(t)

Next ==
  \/ \E t \in Calls : Reads(t) \/ Writes(t) \/ RollBack(t)
  \/ \E o \in Orders : Create(o) \/ ConfirmEntry(o) \/ OpenDraft(o) \/ DropDraft(o)

Spec == Init /\ [][Next]_vars

-----------------------------------------------------------------------------
(* Properties.                                                             *)

Op == Guarded \cup {"pdv", "delete", "deliver", "add", "change", "remove", "withdraw",
                    "approve", "reject", "sign"}
OrderRow == [status : Status, deleted : BOOLEAN, quote : Quotes \cup {none}, signed : BOOLEAN]
PastRow == [wait : Status \cup {none}, origin : Status \cup {none}, cancel : Status \cup {none}]
Snapshot == UNION {[S -> 1 .. MaxQty] : S \in SUBSET Items}
QuoteRow == [ord : Orders \cup {none}, status : {"none", "pending", "approved", "rejected"},
             snap : Snapshot]
MoneyRow == [cash : Int, draft : BOOLEAN, sales : Nat, open : Nat, paid : Nat, shelved : Nat]
Call == [op : Op, ord : Orders, of : Items \cup Quotes \cup Status \cup {none},
         saw : OrderRow, qty : 0 .. MaxQty]

Stray == {"overlap", "deleted", "late", "pickup", "undone"}

\* The shape of the state.
TypeOK ==
  /\ ord \in [Orders -> OrderRow]
  /\ past \in [Orders -> PastRow]
  /\ owner \in [Items -> Orders \cup {none}]
  /\ qty \in [Items -> 0 .. MaxQty]
  /\ out \in [Items -> Int]
  /\ quote \in [Quotes -> QuoteRow]
  /\ money \in [Orders -> MoneyRow]
  /\ tx \in [Calls -> Call \cup {Idle}]
  /\ strayed \in [Orders -> SUBSET Stray]

\* What is off the shelf is what lies in the workshop: every piece of an item of
\* an order that stands, and nothing for one that was cancelled, refunded or
\* deleted, whatever cancels, restores, pays, refunds and answers it at the same
\* time.  Not of an order that a call wrote by id after it had moved, that was
\* undone or edited once deleted, or that an answer brought back from CANCELLED or
\* into it: each of these loses parts in the code too.
PartsMatch ==
  \A i \in Items :
    (owner[i] # none => strayed[owner[i]] \subseteq {"pickup"}) =>
      out[i] = IF qty[i] > 0 /\ Holds(owner[i]) THEN qty[i] ELSE 0

\* An order's income stands in the drawer once, and once in the books (as a sale
\* or as a receivable), from its payment to its refund and at no other time; also
\* of an order that was deleted, signed too late or cancelled by an answer, but not
\* of one that was written by id after it had moved or edited on the pickup shelf.
BooksAgree ==
  \A o \in Orders : strayed[o] \cap {"overlap", "pickup"} = {} =>
    /\ money[o].cash = IF ord[o].status \in Refundable THEN 1 ELSE 0
    /\ money[o].sales + money[o].open + money[o].paid = money[o].cash

\* While a customer has not answered a dearer budget, the order waits, or lies
\* cancelled or deleted: no payment, delivery or work goes on without the answer,
\* unless a call wrote the order by id after it had moved.
WaitsForConsent ==
  \A k \in Quotes : quote[k].status = "pending" =>
    LET o == quote[k].ord IN
    \/ ord[o].status \in {"WAITING_APPROVAL", "CANCELLED"} \/ ord[o].deleted
    \/ "overlap" \in strayed[o]

\* A budget that was answered keeps its answer, and one answer moves the order.
\* Only the two writers by id can answer again, the customer's signature and the
\* team's withdrawal, and only of an order that moved after they read it.
AnsweredOnce ==
  [][\A k \in Quotes :
       quote[k].status \in {"approved", "rejected"} /\ quote'[k] # quote[k] =>
         /\ "overlap" \in strayed'[quote[k].ord]
         /\ \E t \in Calls : /\ tx[t].op \in {"sign", "withdraw"} /\ tx[t].of = k
                             /\ tx'[t] = Idle]_vars

\* An order that was cancelled stays cancelled until somebody uncancels it; a
\* revision signed too late does not.  Broken by Sign: an order that waits for the
\* customer is cancelled, and the customer signs.
OnlyUncancelReopens ==
  [][\A o \in Orders : ord[o].status = "CANCELLED" /\ ord'[o].status # "CANCELLED" =>
       \E t \in Calls : tx[t].op = "uncancel" /\ tx[t].ord = o /\ tx'[t] = Idle]_vars

\* The shop keeps no money of a cancelled order.  Broken when a paid order is edited
\* on the pickup shelf and cancelled.
CancelledOwesNothing ==
  \A o \in Orders : ord[o].status = "CANCELLED" => money[o].cash = 0

\* An order is paid once.  Broken by the counter and the PDV together: both read
\* COMPLETED, and the PDV writes by id.
PaidOnce == \A o \in Orders : money[o].cash \in {0, 1}

\* A revision that is approved lets the order go on.  Broken by Sign after a second
\* item was added to the waiting order.
ApprovalReleases ==
  [][\A k \in Quotes : quote[k].status = "pending" /\ quote'[k].status = "approved" =>
       ord'[quote[k].ord].status # "WAITING_APPROVAL"]_vars

\* An answer gives the order back the status it had before it waited.  Broken when
\* a waiting order is cancelled and uncancelled: the row that says so is taken for
\* its last entry into WAITING_APPROVAL, and the answer makes it CANCELLED.
AnswersCancelNothing ==
  [][\A k \in Quotes : quote[k].status = "pending" /\ quote'[k].status # "pending" =>
       ord'[quote[k].ord].status # "CANCELLED"]_vars

\* No more parts are given back than were taken.  Broken when an item of a deleted
\* order is removed: the deletion had given its parts back.
ReturnedOnce == \A i \in Items : out[i] >= 0

=============================================================================
