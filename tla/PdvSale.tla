------------------------------- MODULE PdvSale -------------------------------
(***************************************************************************)
(* Sales at the counter (PDV): the draft and its cart, the reservation of  *)
(* serialized devices, finalize, cancel, refund, and the job that frees    *)
(* stale reservations.  Code: src/server/api/routers/sale.ts, its claim in *)
(* services/finalize-idempotency.service.ts, releaseStaleReservations in   *)
(* services/stock-item.service.ts.                                         *)
(*                                                                         *)
(* Each procedure is one READ COMMITTED transaction.  Look is what it      *)
(* reads before it locks anything, Tally the rows recalculateSale reads,   *)
(* and the commit everything it writes: the compare-and-sets of the code   *)
(* are decided there, as the row locks they take are kept to the end.      *)
(* Money is what finalize collects and refund gives back; receivables,     *)
(* commissions, rewards, discounts, change and trade-ins are left out, and *)
(* a product has at most one line: two calls that add a first one at once  *)
(* are not both modelled.                                                  *)
(***************************************************************************)
EXTENDS Integers, FiniteSets, FiniteSetsExt

CONSTANTS
  Sales,      \* sale rows
  Seller,     \* the operator of each
  Units,      \* serialized devices, one row of stock_items each
  Goods,      \* a product kept by count
  Devices,    \* the lines whose product is marked as a device, serialized or not
  Price,      \* price of a line's unit
  Stock,      \* how many of Goods there are
  MaxQty,     \* bound on the quantity of a line
  Calls,      \* calls of the procedures
  Op,         \* which procedure
  SaleOf,     \* the sale it names
  LineOf,     \* the device or product it names
  Back,       \* where a refund may put the goods
  Cash,       \* amounts of a payment that are in cash
  OneScreen   \* assume an operator's call is answered before the next is made

Lines == Units \cup {Goods}
Edits == {"addItem", "removeItem", "setQuantity"}
Destinations == {"shelf", "defect", "kept"}
Ops == Edits \cup {"cancel", "abandon", "finalize", "refund", "release"}

ASSUME PdvAssumption ==
  /\ IsFiniteSet(Units) /\ Goods \notin Units /\ Devices \subseteq Lines
  /\ Price \in [Lines -> Nat \ {0}]
  /\ Stock \in Nat /\ MaxQty \in Nat \ {0}
  /\ Op \in [Calls -> Ops]
  /\ SaleOf \in [Calls -> Sales]
  /\ LineOf \in [Calls -> Lines]
  /\ Back \in [Calls -> SUBSET Destinations]
  /\ Cash \subseteq Nat
  /\ OneScreen \in BOOLEAN

VARIABLES
  sale,    \* status, totalAmount; what was collected and given back, and how
           \* much of each in cash
  cart,    \* sale_items: quantity and total of each line, 0 if there is none
  unit,    \* stock_items: status, sale, and whether the reservation is recent
  stock,   \* currentStock of Goods
  moved,   \* stock_movements: exits less entries of a line
  pc,      \* where a call stands
  mine,    \* the cart it read
  due,     \* the total it read, or the one it is about to write
  lines,   \* the lines a refund names, the devices the job will free
  how      \* where a refund puts the goods

rows == <<sale, cart, unit, stock, moved>>
vars == <<rows, pc, mine, due, lines, how>>

Finalized == {"COMPLETED", "PARTIALLY_REFUNDED", "REFUNDED"}
Refundable == {"COMPLETED", "PARTIALLY_REFUNDED"}
Status == {"none", "DRAFT", "CANCELLED", "deleted"} \cup Finalized

NoLine == [qty |-> 0, total |-> 0]
NoCart == [l \in Lines |-> NoLine]
Row(l, n) == [qty |-> n, total |-> n * Price[l]]
RowsOf(c) == {l \in Lines : c[l].qty > 0}
Worth(c, S) == SumFunctionOnSet([l \in Lines |-> c[l].total], S)
TotalOf(c) == Worth(c, Lines)
Shelved == [status |-> "AVAILABLE", sale |-> "none", recent |-> FALSE]

Init ==
  /\ sale = [s \in Sales |->
       [status |-> "none", total |-> 0,
        paid |-> 0, cashIn |-> 0, refunded |-> 0, cashOut |-> 0]]
  /\ cart = [s \in Sales |-> NoCart]
  /\ unit = [u \in Units |-> Shelved]
  /\ stock = Stock
  /\ moved = [l \in Lines |-> 0]
  /\ pc = [c \in Calls |-> "start"]
  /\ mine = [c \in Calls |-> NoCart]
  /\ due = [c \in Calls |-> 0]
  /\ lines = [c \in Calls |-> {}]
  /\ how = [c \in Calls |-> "shelf"]

-----------------------------------------------------------------------------
(* Steps every call has.                                                   *)

IsDraft(s) == sale[s].status = "DRAFT"
InFlight(c) == pc[c] \in {"looked", "tallied"}

\* The screens themselves guard only adding and finalize against a second
\* click.  finalize is sent by the button and again by the payment's
\* confirmation; refunds are the managers', and the job runs when it likes.
MayOverlap(c, d) ==
  \/ {Op[c], Op[d]} \cap {"refund", "release"} # {}
  \/ {Op[c], Op[d]} = {"finalize"}
  \/ Seller[SaleOf[c]] # Seller[SaleOf[d]]

Begins(c, op) ==
  /\ pc[c] = "start"
  /\ Op[c] = op
  /\ OneScreen => \A d \in Calls : InFlight(d) => MayOverlap(c, d)

Goto(c, at) == pc' = [pc EXCEPT ![c] = at]

Ends(c) ==
  /\ Goto(c, "over")
  /\ mine' = [mine EXCEPT ![c] = NoCart]
  /\ due' = [due EXCEPT ![c] = 0]
  /\ lines' = [lines EXCEPT ![c] = {}]
  /\ how' = [how EXCEPT ![c] = "shelf"]

\* Refused by one of the checks on payments and devices, rolled back, timed out, or a
\* deadlock's victim.
Fail(c) == InFlight(c) /\ Ends(c) /\ UNCHANGED rows

Read(c) ==
  /\ Goto(c, "looked")
  /\ mine' = [mine EXCEPT ![c] = cart[SaleOf[c]]]
  /\ UNCHANGED <<rows, lines, how>>

-----------------------------------------------------------------------------
(* The draft and its cart.                                                 *)

\* One draft per operator: an existing one is handed out again.
CreateDraft(s) ==
  /\ sale[s].status = "none"
  /\ \A t \in Sales : Seller[t] = Seller[s] => ~IsDraft(t)
  /\ sale' = [sale EXCEPT ![s].status = "DRAFT"]
  /\ UNCHANGED <<cart, unit, stock, moved, pc, mine, due, lines, how>>

\* A cart is of devices or of accessories.
SameKind(k, l) == \A x \in RowsOf(k) : x \in Devices <=> l \in Devices

\* A serialized item is added once; a product is added to the line it already has.
LookToAdd(c) ==
  LET l == LineOf[c] IN
  /\ Begins(c, "addItem")
  /\ IsDraft(SaleOf[c])
  /\ SameKind(cart[SaleOf[c]], l)
  /\ cart[SaleOf[c]][l].qty < (IF l = Goods THEN MaxQty ELSE 1)
  /\ Read(c)
  /\ UNCHANGED due

LookToRemove(c) ==
  /\ Begins(c, "removeItem")
  /\ IsDraft(SaleOf[c])
  /\ LineOf[c] \in RowsOf(cart[SaleOf[c]])
  /\ Read(c)
  /\ UNCHANGED due

\* Of any line, a serialized one too.
LookToSetQuantity(c) ==
  /\ Begins(c, "setQuantity")
  /\ IsDraft(SaleOf[c])
  /\ LineOf[c] \in RowsOf(cart[SaleOf[c]])
  /\ Read(c)
  /\ UNCHANGED due

\* What the line will hold: a quantity added to the one read, a new quantity,
\* or nothing.
NewRows(c) ==
  LET l == LineOf[c] IN
  CASE Op[c] = "addItem"     -> {Row(l, mine[c][l].qty + 1)}
    [] Op[c] = "setQuantity" -> {Row(l, n) : n \in 1..MaxQty}
    [] Op[c] = "removeItem"  -> {NoLine}

Edited(c, row) == [cart[SaleOf[c]] EXCEPT ![LineOf[c]] = row]

\* A line is created where there was none; else it must still be there.
Creates(c) == Op[c] = "addItem" /\ mine[c][LineOf[c]].qty = 1
LineStands(c) ==
  Creates(c) <=> LineOf[c] \notin RowsOf(cart[SaleOf[c]])

\* The row is written and recalculateSale reads the cart with it.
Tally(c) ==
  /\ pc[c] = "looked"
  /\ Op[c] \in Edits
  /\ \E row \in NewRows(c) :
       /\ mine' = [mine EXCEPT ![c] = [NoCart EXCEPT ![LineOf[c]] = row]]
       /\ due' = [due EXCEPT ![c] = TotalOf(Edited(c, row))]
  /\ Goto(c, "tallied")
  /\ UNCHANGED <<rows, lines, how>>

\* Mutant: the device is freed and its holder is not cleared.
FreeKeepingHolder(S) ==
  [u \in Units |-> IF u \in S THEN [unit[u] EXCEPT !.status = "AVAILABLE"]
                  ELSE unit[u]]

FreeOf(S) == [u \in Units |-> IF u \in S THEN Shelved ELSE unit[u]]

\* Mutant: nothing is found to release.
HeldForNobody(s) == {}

HeldFor(s) == {u \in Units : unit[u].status = "RESERVED" /\ unit[u].sale = s}

\* Compare-and-set AVAILABLE -> RESERVED.
Reserve(c, u) ==
  /\ unit[u].status = "AVAILABLE"
  /\ unit' = [unit EXCEPT
       ![u] = [status |-> "RESERVED", sale |-> SaleOf[c], recent |-> TRUE]]

\* The write of an edit: the line, its reservation, the total recalculated.
Edit(c) ==
  LET s == SaleOf[c]
      l == LineOf[c]
  IN
  /\ pc[c] = "tallied"
  /\ sale[s].status # "deleted"
  /\ LineStands(c)
  /\ CASE Op[c] = "addItem" /\ l \in Units -> Reserve(c, l)
       [] Op[c] = "removeItem"               -> unit' = FreeOf(HeldFor(s) \cap {l})
       [] OTHER                              -> UNCHANGED unit
  /\ cart' = [cart EXCEPT ![s] = Edited(c, mine[c][l])]
  /\ sale' = [sale EXCEPT ![s].total = due[c]]
  /\ Ends(c)
  /\ UNCHANGED <<stock, moved>>

LookToCancel(c) ==
  /\ Begins(c, "cancel")
  /\ IsDraft(SaleOf[c])
  /\ Read(c)
  /\ UNCHANGED due

\* The reservations go, and the status is written whatever it has become.
Cancel(c) ==
  /\ pc[c] = "looked"
  /\ Op[c] = "cancel"
  /\ sale[SaleOf[c]].status # "deleted"
  /\ unit' = FreeOf(HeldFor(SaleOf[c]))
  /\ sale' = [sale EXCEPT ![SaleOf[c]].status = "CANCELLED"]
  /\ Ends(c)
  /\ UNCHANGED <<cart, stock, moved>>

\* The screen opens: the operator's drafts are deleted with their lines and
\* their reservations.
LookToAbandon(c) ==
  /\ Begins(c, "abandon")
  /\ IsDraft(SaleOf[c])
  /\ Read(c)
  /\ UNCHANGED due

\* The sale goes only if it is still a draft; its lines, which a finalize
\* under way does not lock, may be gone by the time that is found out.
Abandon(c) ==
  LET s == SaleOf[c]
      emptied == [cart EXCEPT ![s] = NoCart]
  IN
  /\ pc[c] = "looked"
  /\ Op[c] = "abandon"
  /\ unit' = FreeOf(HeldFor(s))
  /\ cart' \in (IF IsDraft(s) THEN {emptied} ELSE {cart, emptied})
  /\ sale' = IF IsDraft(s) THEN [sale EXCEPT ![s].status = "deleted"] ELSE sale
  /\ Ends(c)
  /\ UNCHANGED <<stock, moved>>

-----------------------------------------------------------------------------
(* Finalize.                                                               *)

\* A sale already COMPLETED by the same request is answered as it is, which
\* changes nothing; one that is neither is refused.
LookToFinalize(c) ==
  /\ Begins(c, "finalize")
  /\ IsDraft(SaleOf[c])
  /\ Read(c)
  /\ due' = [due EXCEPT ![c] = sale[SaleOf[c]].total]

\* claimDraftSaleForFinalize: compare-and-set DRAFT -> COMPLETED.
ClaimDraft(c) == IsDraft(SaleOf[c])

\* Its own reservation, or, for old drafts, a device nobody holds.
Obtainable(c) ==
  \A u \in Units \cap RowsOf(mine[c]) :
    \/ unit[u].status = "RESERVED" /\ unit[u].sale = SaleOf[c]
    \/ unit[u].status = "AVAILABLE"

\* Mutant: the stock is taken down without comparing.
TakeStock(c) == TRUE

InStock(c) == stock >= mine[c][Goods].qty

Finalize(c) ==
  LET s == SaleOf[c]
      sold == RowsOf(mine[c])
  IN
  /\ pc[c] = "looked"
  /\ Op[c] = "finalize"
  /\ ClaimDraft(c)
  /\ sold # {}
  /\ Obtainable(c)
  /\ InStock(c)
  /\ unit' = [u \in Units |->
       IF u \in sold THEN [status |-> "SOLD", sale |-> s, recent |-> FALSE]
       ELSE unit[u]]
  /\ stock' = stock - mine[c][Goods].qty
  /\ moved' = [l \in Lines |-> moved[l] + mine[c][l].qty]
  /\ \E cash \in Cash \cap 0..due[c] :
       sale' = [sale EXCEPT ![s].status = "COMPLETED",
                            ![s].paid = @ + due[c],
                            ![s].cashIn = @ + cash]
  /\ Ends(c)
  /\ UNCHANGED cart

-----------------------------------------------------------------------------
(* Refund.                                                                 *)

\* A line at zero was refunded before.
Unrefunded(k) == {l \in Lines : k[l].total > 0}
ToRefund(c) == lines[c] \cap Unrefunded(mine[c])

\* It names lines, or none for all of them, and where the goods go.
LookToRefund(c) ==
  LET s == SaleOf[c] IN
  /\ Begins(c, "refund")
  /\ sale[s].status \in Refundable
  /\ \E S \in {RowsOf(cart[s]), {LineOf[c]}}, h \in Back[c] :
       /\ S \cap Unrefunded(cart[s]) # {}
       /\ lines' = [lines EXCEPT ![c] = S \cap RowsOf(cart[s])]
       /\ how' = [how EXCEPT ![c] = h]
  /\ Goto(c, "looked")
  /\ mine' = [mine EXCEPT ![c] = cart[s]]
  /\ due' = [due EXCEPT ![c] = sale[s].total]
  /\ UNCHANGED rows

\* Mutant: the lines are refunded as they were read.
ClaimAsRead(c) == TRUE

\* The claim on the lines: all of them still above zero, or none is touched.
ClaimLines(c) == ToRefund(c) \subseteq Unrefunded(cart[SaleOf[c]])

\* Mutant: the movement of a defective product says it came back.
ComeBackAll(c) == IF how[c] = "kept" THEN {} ELSE ToRefund(c)

\* The lines with an ENTRY movement: a defective product is written off.
ComeBack(c) ==
  CASE how[c] = "shelf"  -> ToRefund(c)
    [] how[c] = "defect" -> ToRefund(c) \ {Goods}
    [] how[c] = "kept"   -> {}

StillSoldTo(s, S) ==
  \A u \in Units \cap S : unit[u].status = "SOLD" /\ unit[u].sale = s

Refund(c) ==
  LET s == SaleOf[c]
      S == ToRefund(c)
      back == ComeBack(c) \cap Units
      value == Worth(mine[c], S)
      partial == lines[c] # RowsOf(mine[c])
      inCash == IF value < sale[s].cashIn THEN value ELSE sale[s].cashIn
      left == IF due[c] > value THEN due[c] - value ELSE 0
  IN
  /\ pc[c] = "looked"
  /\ Op[c] = "refund"
  /\ sale[s].status \in Refundable
  /\ ClaimLines(c)
  /\ StillSoldTo(s, back)
  /\ unit' = [u \in Units |->
       IF u \notin back THEN unit[u]
       ELSE IF how[c] = "shelf" THEN Shelved
       ELSE [Shelved EXCEPT !.status = "DEFECTIVE"]]
  /\ stock' = IF how[c] = "shelf" /\ Goods \in S
              THEN stock + mine[c][Goods].qty ELSE stock
  /\ moved' = [l \in Lines |->
       IF l \in ComeBack(c) THEN moved[l] - mine[c][l].qty ELSE moved[l]]
  /\ cart' = [cart EXCEPT ![s] =
       [l \in Lines |-> [qty |-> cart[s][l].qty,
                         total |-> IF l \in S THEN 0 ELSE cart[s][l].total]]]
  /\ sale' = [sale EXCEPT
       ![s].status = IF partial THEN "PARTIALLY_REFUNDED" ELSE "REFUNDED",
       ![s].total = IF partial THEN left ELSE @,
       ![s].refunded = @ + value,
       ![s].cashOut = @ + inCash]
  /\ Ends(c)

-----------------------------------------------------------------------------
(* The job that frees stale reservations, and time.                        *)

GrowStale(u) ==
  /\ unit[u].status = "RESERVED"
  /\ unit[u].recent
  /\ unit' = [unit EXCEPT ![u].recent = FALSE]
  /\ UNCHANGED <<sale, cart, stock, moved, pc, mine, due, lines, how>>

LookToRelease(c) ==
  /\ Begins(c, "release")
  /\ lines' = [lines EXCEPT ![c] =
       {u \in Units : unit[u].status = "RESERVED" /\ ~unit[u].recent
                      /\ IsDraft(unit[u].sale)}]
  /\ Goto(c, "looked")
  /\ UNCHANGED <<rows, mine, due, how>>

\* Mutant: the devices it read are freed whatever became of them.
FreeAsRead(S) == S

\* Those still RESERVED are freed, by whomever they are held by now.
StillReserved(S) == {u \in S : unit[u].status = "RESERVED"}

Release(c) ==
  /\ pc[c] = "looked"
  /\ Op[c] = "release"
  /\ unit' = FreeOf(StillReserved(lines[c]))
  /\ Ends(c)
  /\ UNCHANGED <<sale, cart, stock, moved>>

-----------------------------------------------------------------------------
Call(c) ==
  \/ LookToAdd(c) \/ LookToRemove(c) \/ LookToSetQuantity(c)
  \/ Tally(c) \/ Edit(c)
  \/ LookToCancel(c) \/ Cancel(c)
  \/ LookToAbandon(c) \/ Abandon(c)
  \/ LookToFinalize(c) \/ Finalize(c)
  \/ LookToRefund(c) \/ Refund(c)
  \/ LookToRelease(c) \/ Release(c)
  \/ Fail(c)

Next ==
  \/ \E s \in Sales : CreateDraft(s)
  \/ \E u \in Units : GrowStale(u)
  \/ \E c \in Calls : Call(c)

Spec == Init /\ [][Next]_vars

-----------------------------------------------------------------------------
(* Types.                                                                  *)

SaleRow == [status : Status, total : Nat,
            paid : Nat, cashIn : Nat, refunded : Nat, cashOut : Nat]
Cart == [Lines -> [qty : Nat, total : Nat]]
UnitRow ==
  [status : {"AVAILABLE", "DEFECTIVE"}, sale : {"none"}, recent : {FALSE}]
  \cup [status : {"RESERVED"}, sale : Sales, recent : BOOLEAN]
  \cup [status : {"SOLD"}, sale : Sales, recent : {FALSE}]

\* Every row and what every call remembers has its type; a device has a
\* holder exactly while it is reserved or sold.
TypeOK ==
  /\ sale \in [Sales -> SaleRow]
  /\ cart \in [Sales -> Cart]
  /\ unit \in [Units -> UnitRow]
  /\ stock \in Int
  /\ moved \in [Lines -> Int]
  /\ pc \in [Calls -> {"start", "looked", "tallied", "over"}]
  /\ mine \in [Calls -> Cart]
  /\ due \in [Calls -> Nat]
  /\ lines \in [Calls -> SUBSET Lines]
  /\ how \in [Calls -> Destinations]

-----------------------------------------------------------------------------
(* What must hold.                                                         *)

IsFinalized(s) == sale[s].status \in Finalized

\* currentStock never goes below zero, whoever sells the last ones at once.
NoOversell == stock >= 0

\* The exits less the entries of a product kept by count are what it lacks.
GoodsAgree == stock + moved[Goods] = Stock

\* The movements explain the stock. Those of a serialized item stand at the
\* quantity of the line that sold it while it is SOLD, and at zero otherwise.
KardexAgrees ==
  /\ \A u \in Units :
       moved[u] = (IF unit[u].status = "SOLD" THEN cart[unit[u].sale][u].qty ELSE 0)
  /\ GoodsAgree

\* "Aparelhos serializados sao vendidos um por vez." Broken by a new quantity
\* for the line of one, of which finalize books as many exits.
OneExitPerUnit == \A u \in Units : moved[u] <= 1

\* A device is SOLD only to a finalized sale that has it in a line, and every
\* line of a finalized sale not yet refunded still has its device.
SoldMeansCharged ==
  /\ \A u \in Units : unit[u].status = "SOLD" =>
       \E s \in Sales :
         unit[u].sale = s /\ IsFinalized(s) /\ cart[s][u].qty > 0
  /\ \A s \in Sales, u \in Units :
       IsFinalized(s) /\ cart[s][u].total > 0 =>
         unit[u].status = "SOLD" /\ unit[u].sale = s

\* A finalized sale was paid once, for the lines it has; what was given back
\* is exactly the lines at zero, whatever refunds overlapped. A sale that is
\* not was neither paid nor refunded.
MoneyMatchesGoods ==
  \A s \in Sales :
    IF IsFinalized(s)
    THEN /\ sale[s].paid =
              SumFunctionOnSet([l \in Lines |-> cart[s][l].qty * Price[l]], Lines)
         /\ sale[s].paid - sale[s].refunded = TotalOf(cart[s])
    ELSE sale[s].paid = 0 /\ sale[s].refunded = 0

\* A reserved device is in the cart of the draft it is reserved for: no
\* cancelled, deleted or finalized sale keeps one from being sold.
NoLeakedReservation ==
  \A u \in Units : unit[u].status = "RESERVED" =>
    \E s \in Sales :
      unit[u].sale = s /\ IsDraft(s) /\ cart[s][u].qty > 0

\* A sale that was finalized is not cancelled: "Apenas rascunhos podem ser
\* cancelados. Use 'estornar' para vendas finalizadas."
FinalizedStays ==
  [][\A s \in Sales : IsFinalized(s) => sale'[s].status \in Finalized]_vars

\* The cash given back does not exceed the cash received: "A parcela do
\* estorno lastreada em dinheiro nao pode exceder nem o dinheiro originalmente
\* recebido nem o total estornado."
CashBackWithinCashIn == \A s \in Sales : sale[s].cashOut <= sale[s].cashIn
=============================================================================
