-------------------------- MODULE ServiceOrderProofs --------------------------
(***************************************************************************)
(* For any number of orders, items, revisions and calls in flight, and     *)
(* with no assumption on what overlaps what: the parts off the shelf are   *)
(* those of the standing orders, each payment is in the drawer and in the  *)
(* books once, and an order with an unanswered revision waits, until the   *)
(* order strays in one of the ways that strayed records.  A call knows     *)
(* what it read; whether that still holds at its second step is what the   *)
(* record tells (Recorded).  A step changes one order (Elsewhere), so the  *)
(* proofs look at that order.                                              *)
(***************************************************************************)
EXTENDS ServiceOrder, TLAPS

Answers == {"approve", "reject", "sign", "withdraw"}
Cancellable == Working \cup {"IN_WARRANTY"}
Known == Status \ {"NONE"}

\* What the three properties ask of an order's history.
Straight(o) == "overlap" \notin strayed[o]
Solvent(o) == strayed[o] \cap {"overlap", "pickup"} = {}
Whole(o) == strayed[o] \subseteq {"pickup"}

RowInv(o) ==
  /\ ord[o].status = "NONE" => ~ord[o].deleted
  /\ ord[o].quote # none =>
       /\ quote[ord[o].quote].ord = o
       /\ quote[ord[o].quote].status # "none"
       /\ Straight(o) => quote[ord[o].quote].status = "pending"

PastInv(o) ==
  /\ past[o].cancel \in Cancellable \cup {none}
  /\ past[o].origin \in Known \cup {none}
  /\ past[o].wait \in Known \cup {none}

MoneyInv(o) ==
  Solvent(o) =>
    /\ money[o].shelved = 0
    /\ money[o].cash = IF ord[o].status \in Refundable THEN 1 ELSE 0
    /\ money[o].sales + money[o].open + money[o].paid = money[o].cash
    /\ past[o].origin \notin Refundable
    /\ past[o].wait \notin Refundable

OrderInv(o) == RowInv(o) /\ PastInv(o) /\ MoneyInv(o)

\* An order whose customer has not answered.
Waits(o) ==
  \/ ord[o].deleted
  \/ ord[o].status = "WAITING_APPROVAL"
  \/ ord[o].status = "CANCELLED" /\ past[o].cancel = "WAITING_APPROVAL"

QuoteInv(k) ==
  /\ quote[k].status # "none" => quote[k].ord \in Orders
  /\ quote[k].status = "pending" /\ Straight(quote[k].ord) =>
       ord[quote[k].ord].quote = k /\ Waits(quote[k].ord)

ItemInv(i) ==
  IF owner[i] = none THEN qty[i] = 0 /\ out[i] = 0
  ELSE Whole(owner[i]) => out[i] = IF qty[i] > 0 /\ Holds(owner[i]) THEN qty[i] ELSE 0

\* What a call read, and what of it nobody changes.
CallInv(t) ==
  /\ ord[tx[t].ord].status # "NONE"
  /\ tx[t].saw.status \in Known
  /\ tx[t].op \in {"advance", "pay", "add"} \cup Answers => ~tx[t].saw.deleted
  /\ tx[t].op = "advance" => /\ tx[t].of \in ALLOWED_TRANSITIONS[tx[t].saw.status]
                             /\ tx[t].saw.quote = none
  /\ tx[t].op \in {"pay", "pdv"} => tx[t].saw.status = "COMPLETED"
  /\ tx[t].op = "cancel" => tx[t].saw.status \in Cancellable
  /\ tx[t].op = "uncancel" => tx[t].saw.status = "CANCELLED"
  /\ tx[t].op = "refund" => tx[t].saw.status \in Refundable
  /\ tx[t].op = "delete" => tx[t].saw.status \notin Refundable \cup Undone
  /\ tx[t].op = "deliver" => tx[t].saw.status \in {"PAID", "READY_FOR_PICKUP"}
  /\ tx[t].op \in {"add", "change", "remove"} => Editable(tx[t].saw.status)
  /\ tx[t].op \in {"change", "remove"} => tx[t].of \in Items /\ owner[tx[t].of] = tx[t].ord
  /\ tx[t].op \in {"approve", "reject", "withdraw"} => tx[t].saw.status \notin Undone
  /\ tx[t].op \in Answers =>
       /\ tx[t].of \in Quotes
       /\ quote[tx[t].of].ord = tx[t].ord
       /\ quote[tx[t].of].status # "none"
       /\ Straight(tx[t].ord) => tx[t].saw.quote = tx[t].of

\* The inductive invariant.
IInv ==
  /\ TypeOK
  /\ \A o \in Orders : OrderInv(o)
  /\ \A k \in Quotes : QuoteInv(k)
  /\ \A i \in Items : ItemInv(i)
  /\ \A t \in Calls : tx[t] # Idle => CallInv(t)

-----------------------------------------------------------------------------
(* Frames.                                                                 *)

\* A step changes one order, with its items and revisions.
Elsewhere(o) ==
  /\ \A p \in Orders \ {o} : /\ ord'[p] = ord[p] /\ past'[p] = past[p] /\ money'[p] = money[p]
                             /\ strayed'[p] = strayed[p]
  /\ \A k \in Quotes : quote[k].status # "none" /\ quote[k].ord # o => quote'[k] = quote[k]
  /\ \A i \in Items : owner[i] \notin {o, none} =>
       owner'[i] = owner[i] /\ qty'[i] = qty[i] /\ out'[i] = out[i]

\* What nothing undoes: an order exists, an item and a revision stay with theirs,
\* and what an order went through stays recorded.
Lasting ==
  /\ \A o \in Orders : /\ ord[o].status # "NONE" => ord'[o].status # "NONE"
                       /\ strayed[o] \subseteq strayed'[o]
  /\ \A i \in Items : owner[i] # none => owner'[i] = owner[i]
  /\ \A k \in Quotes : quote[k].status # "none" =>
       quote'[k].ord = quote[k].ord /\ quote'[k].status # "none"

\* So a call keeps what it knows.
LEMMA CallKept ==
  ASSUME NEW u, CallInv(u), tx'[u] = tx[u], tx[u].ord \in Orders, Lasting
  PROVE  CallInv(u)'
<1> USE NoneIsNothing
<1>1. ord'[tx[u].ord].status # "NONE"
  BY DEF CallInv, Lasting
<1>2. tx[u].op \in {"change", "remove"} =>
        tx[u].of \in Items /\ owner'[tx[u].of] = tx[u].ord
  BY DEF CallInv, Lasting
<1>3. tx[u].op \in Answers =>
        /\ tx[u].of \in Quotes
        /\ quote'[tx[u].of].ord = tx[u].ord
        /\ quote'[tx[u].of].status # "none"
        /\ Straight(tx[u].ord)' => tx[u].saw.quote = tx[u].of
  BY DEF CallInv, Lasting, Straight
<1> QED BY <1>1, <1>2, <1>3 DEF CallInv, Editable, Known, Answers

\* The invariant need only be looked at where the step was.
LEMMA Localized ==
  ASSUME IInv, TypeOK', NEW o \in Orders, Elsewhere(o), Lasting,
         OrderInv(o)',
         \A k \in Quotes : quote[k].status = "none" \/ quote[k].ord = o => QuoteInv(k)',
         \A i \in Items : owner[i] \in {o, none} => ItemInv(i)',
         \A u \in Calls : tx'[u] = Idle \/ tx'[u] = tx[u]
  PROVE  IInv'
<1> USE NoneIsNothing
<1>1. ASSUME NEW p \in Orders PROVE OrderInv(p)'
  <2>1. CASE p = o
    BY <2>1
  <2>2. CASE p # o
    <3>1. /\ OrderInv(p) /\ ord'[p] = ord[p] /\ past'[p] = past[p] /\ money'[p] = money[p]
          /\ strayed'[p] = strayed[p]
      BY <2>2 DEF IInv, Elsewhere
    <3>2. ord[p].quote \in Quotes \cup {none}
      BY DEF IInv, TypeOK, OrderRow
    <3>3. ord[p].quote # none => quote'[ord[p].quote] = quote[ord[p].quote]
      BY <2>2, <3>1, <3>2 DEF Elsewhere, OrderInv, RowInv
    <3>4. RowInv(p)'
      BY <3>1, <3>3 DEF OrderInv, RowInv, Straight
    <3>5. PastInv(p)' /\ MoneyInv(p)'
      BY <3>1 DEF OrderInv, PastInv, MoneyInv, Solvent, Known, Cancellable
    <3> QED BY <3>4, <3>5 DEF OrderInv
  <2> QED BY <2>1, <2>2
<1>2. ASSUME NEW k \in Quotes PROVE QuoteInv(k)'
  <2>1. CASE quote[k].status = "none" \/ quote[k].ord = o
    BY <2>1
  <2>2. CASE quote[k].status # "none" /\ quote[k].ord # o
    <3>1. QuoteInv(k) /\ quote'[k] = quote[k]
      BY <2>2 DEF IInv, Elsewhere
    <3>2. quote[k].ord \in Orders \ {o}
      BY <2>2, <3>1 DEF QuoteInv
    <3> QED BY <3>1, <3>2 DEF QuoteInv, Elsewhere, Straight, Waits
  <2> QED BY <2>1, <2>2
<1>3. ASSUME NEW i \in Items PROVE ItemInv(i)'
  <2>1. CASE owner[i] \in {o, none}
    BY <2>1
  <2>2. CASE owner[i] \notin {o, none}
    <3>1. ItemInv(i) /\ owner'[i] = owner[i] /\ qty'[i] = qty[i] /\ out'[i] = out[i]
      BY <2>2 DEF IInv, Elsewhere
    <3>2. owner[i] \in Orders \ {o}
      BY <2>2 DEF IInv, TypeOK
    <3>3. (Holds(owner[i])' <=> Holds(owner[i])) /\ (Whole(owner[i])' <=> Whole(owner[i]))
      BY <3>1, <3>2 DEF Holds, Whole, Elsewhere
    <3> QED BY <2>2, <3>1, <3>3 DEF ItemInv
  <2> QED BY <2>1, <2>2
<1>4. ASSUME NEW u \in Calls, tx'[u] # Idle PROVE CallInv(u)'
  <2>1. tx'[u] = tx[u] /\ CallInv(u) /\ tx[u].ord \in Orders
    BY <1>4 DEF IInv, TypeOK, Call
  <2> QED BY <2>1, CallKept
<1> QED BY <1>1, <1>2, <1>3, <1>4 DEF IInv

-----------------------------------------------------------------------------
(* The first step of a call.                                               *)

\* A call that begins writes its own slot.
LEMMA LookKeeps ==
  ASSUME IInv, NEW t \in Calls, NEW op \in Op, NEW o \in Orders,
         NEW of \in Items \cup Quotes \cup Status \cup {none},
         Looks(t, op, o, of), CallInv(t)'
  PROVE  IInv'
<1> USE NoneIsNothing
<1>1. /\ ord' = ord /\ past' = past /\ owner' = owner /\ qty' = qty /\ out' = out
      /\ quote' = quote /\ money' = money /\ strayed' = strayed
  BY DEF Looks, itemVars
<1>2. /\ tx'[t].op = op /\ tx'[t].ord = o
      /\ \A u \in Calls : u # t => tx'[u] = tx[u]
  BY DEF Looks, IInv, TypeOK
<1>3. TypeOK'
  <2>1. ord[o] \in OrderRow /\ (IF of \in Items THEN qty[of] ELSE 0) \in 0 .. MaxQty
    BY SomePieces DEF IInv, TypeOK
  <2>2. [op |-> op, ord |-> o, of |-> of, saw |-> ord[o],
         qty |-> IF of \in Items THEN qty[of] ELSE 0] \in Call
    BY <2>1 DEF Call
  <2> QED BY <1>1, <2>2 DEF Looks, IInv, TypeOK
<1>4. ASSUME NEW p \in Orders PROVE OrderInv(p)'
  BY <1>1 DEF IInv, OrderInv, RowInv, PastInv, MoneyInv, Known, Cancellable, Straight, Solvent
<1>5. ASSUME NEW k \in Quotes PROVE QuoteInv(k)'
  BY <1>1 DEF IInv, QuoteInv, Straight, Waits
<1>6. ASSUME NEW i \in Items PROVE ItemInv(i)'
  BY <1>1 DEF IInv, ItemInv, Holds, Whole
<1>7. ASSUME NEW u \in Calls, tx'[u] # Idle PROVE CallInv(u)'
  <2>1. CASE u = t
    BY <2>1
  <2>2. CASE u # t
    <3>1. tx'[u] = tx[u] /\ CallInv(u) /\ tx[u].ord \in Orders
      BY <1>2, <1>7, <2>2 DEF IInv, TypeOK, Call
    <3>2. Lasting
      BY <1>1 DEF Lasting
    <3> QED BY <3>1, <3>2, CallKept
  <2> QED BY <2>1, <2>2
<1> QED BY <1>3, <1>4, <1>5, <1>6, <1>7 DEF IInv

\* What a call knows when it has just looked.
LEMMA Looked ==
  ASSUME IInv, NEW t \in Calls, NEW op \in Op, NEW o \in Orders, NEW of, Looks(t, op, o, of)
  PROVE  /\ tx'[t].op = op /\ tx'[t].ord = o /\ tx'[t].of = of /\ tx'[t].saw = ord[o]
         /\ ord' = ord /\ owner' = owner /\ quote' = quote /\ strayed' = strayed
         /\ ord[o].status \in Known /\ OrderInv(o)
  BY DEF IInv, TypeOK, OrderRow, Looks, itemVars, Known

\* Every first step keeps the invariant.
LEMMA ReadStep ==
  ASSUME IInv, NEW t \in Calls, Reads(t)
  PROVE  IInv'
<1> USE NoneIsNothing
<1>1. ASSUME NEW o \in Orders, NEW s \in Reached, LookAdvance(t, o, s) PROVE IInv'
  <2>1. Looks(t, "advance", o, s) /\ ~ord[o].deleted /\ ord[o].quote = none
        /\ s \in ALLOWED_TRANSITIONS[ord[o].status]
    BY <1>1 DEF LookAdvance
  <2>2. ord[o].status \in Status
    BY DEF IInv, TypeOK, OrderRow
  <2>3. s \in Status
    BY <2>1, <2>2 DEF ALLOWED_TRANSITIONS, Status, ToWork, Working, Refundable, Undone
  <2>4. "advance" \in Op
    BY DEF Op, Guarded
  <2>5. CallInv(t)'
    BY <2>1, <2>4, Looked DEF CallInv, Known, Answers
  <2> QED BY <2>1, <2>3, <2>4, <2>5, LookKeeps
<1>2. ASSUME NEW o \in Orders, LookPay(t, o) PROVE IInv'
  <2>1. Looks(t, "pay", o, none) /\ ~ord[o].deleted /\ ord[o].status = "COMPLETED"
    BY <1>2 DEF LookPay
  <2>2. "pay" \in Op
    BY DEF Op, Guarded
  <2>3. CallInv(t)'
    BY <2>1, <2>2, Looked DEF CallInv, Known, Answers
  <2> QED BY <2>1, <2>2, <2>3, LookKeeps
<1>3. ASSUME NEW o \in Orders, LookPdv(t, o) PROVE IInv'
  <2>1. Looks(t, "pdv", o, none) /\ ord[o].status = "COMPLETED"
    BY <1>3 DEF LookPdv
  <2>2. "pdv" \in Op
    BY DEF Op
  <2>3. CallInv(t)'
    BY <2>1, <2>2, Looked DEF CallInv, Known, Answers
  <2> QED BY <2>1, <2>2, <2>3, LookKeeps
<1>4. ASSUME NEW o \in Orders, LookCancel(t, o) PROVE IInv'
  <2>1. Looks(t, "cancel", o, none) /\ ord[o].status \in Cancellable
    BY <1>4 DEF LookCancel, isCancellable, Cancellable
  <2>2. "cancel" \in Op
    BY DEF Op, Guarded
  <2>3. CallInv(t)'
    BY <2>1, <2>2, Looked DEF CallInv, Known, Answers, Cancellable
  <2> QED BY <2>1, <2>2, <2>3, LookKeeps
<1>5. ASSUME NEW o \in Orders, LookUncancel(t, o) PROVE IInv'
  <2>1. Looks(t, "uncancel", o, none) /\ ord[o].status = "CANCELLED"
    BY <1>5 DEF LookUncancel
  <2>2. "uncancel" \in Op
    BY DEF Op, Guarded
  <2>3. CallInv(t)'
    BY <2>1, <2>2, Looked DEF CallInv, Known, Answers
  <2> QED BY <2>1, <2>2, <2>3, LookKeeps
<1>6. ASSUME NEW o \in Orders, LookRefund(t, o) PROVE IInv'
  <2>1. Looks(t, "refund", o, none) /\ ord[o].status \in Refundable
    BY <1>6 DEF LookRefund
  <2>2. "refund" \in Op
    BY DEF Op, Guarded
  <2>3. CallInv(t)'
    BY <2>1, <2>2, Looked DEF CallInv, Known, Answers
  <2> QED BY <2>1, <2>2, <2>3, LookKeeps
<1>7. ASSUME NEW o \in Orders, LookDelete(t, o) PROVE IInv'
  <2>1. Looks(t, "delete", o, none) /\ ord[o].status \notin Refundable \cup Undone
    BY <1>7 DEF LookDelete
  <2>2. "delete" \in Op
    BY DEF Op
  <2>3. CallInv(t)'
    BY <2>1, <2>2, Looked DEF CallInv, Known, Answers
  <2> QED BY <2>1, <2>2, <2>3, LookKeeps
<1>8. ASSUME NEW o \in Orders, LookDeliver(t, o) PROVE IInv'
  <2>1. Looks(t, "deliver", o, none) /\ ord[o].status \in {"PAID", "READY_FOR_PICKUP"}
    BY <1>8 DEF LookDeliver
  <2>2. "deliver" \in Op
    BY DEF Op
  <2>3. CallInv(t)'
    BY <2>1, <2>2, Looked DEF CallInv, Known, Answers
  <2> QED BY <2>1, <2>2, <2>3, LookKeeps
<1>9. ASSUME NEW o \in Orders, LookAdd(t, o) PROVE IInv'
  <2>1. Looks(t, "add", o, none) /\ ~ord[o].deleted /\ Editable(ord[o].status)
    BY <1>9 DEF LookAdd
  <2>2. "add" \in Op
    BY DEF Op
  <2>3. CallInv(t)'
    BY <2>1, <2>2, Looked DEF CallInv, Known, Answers, Editable
  <2> QED BY <2>1, <2>2, <2>3, LookKeeps
<1>10. ASSUME NEW i \in Items, NEW op \in {"change", "remove"}, LookItem(t, i, op) PROVE IInv'
  <2>1. Looks(t, op, owner[i], i) /\ Editable(ord[owner[i]].status) /\ qty[i] > 0
    BY <1>10 DEF LookItem
  <2>2. op \in Op
    BY DEF Op
  <2>3. owner[i] \in Orders
    BY <2>1 DEF IInv, TypeOK, ItemInv
  <2>4. CallInv(t)'
    BY <2>1, <2>2, <2>3, Looked DEF CallInv, Known, Answers, Editable
  <2> QED BY <2>1, <2>2, <2>3, <2>4, LookKeeps
<1>11. ASSUME NEW k \in Quotes, NEW op \in {"approve", "reject", "sign"}, quote[k].status = "pending",
              ~ord[quote[k].ord].deleted, Looks(t, op, quote[k].ord, k),
              op # "sign" => ord[quote[k].ord].status \notin Undone
       PROVE  IInv'
  <2>1. quote[k].ord \in Orders /\ QuoteInv(k)
    BY <1>11 DEF IInv, QuoteInv
  <2>2. op \in Op
    BY DEF Op
  <2>3. CallInv(t)'
    BY <1>11, <2>1, <2>2, Looked DEF CallInv, Known, Answers, QuoteInv, Straight
  <2> QED BY <1>11, <2>1, <2>2, <2>3, LookKeeps
<1>12. ASSUME NEW o \in Orders, LookWithdraw(t, o) PROVE IInv'
  <2>1. /\ Looks(t, "withdraw", o, ord[o].quote) /\ ~ord[o].deleted /\ ord[o].quote # none
        /\ ord[o].status \notin Undone
    BY <1>12 DEF LookWithdraw, Accepts
  <2>2. ord[o].quote \in Quotes
    BY <2>1 DEF IInv, TypeOK, OrderRow
  <2>3. "withdraw" \in Op
    BY DEF Op
  <2>4. CallInv(t)'
    BY <2>1, <2>2, <2>3, Looked DEF CallInv, Known, Answers, OrderInv, RowInv, Straight
  <2> QED BY <2>1, <2>2, <2>3, <2>4, LookKeeps
<1> QED
  BY <1>1, <1>2, <1>3, <1>4, <1>5, <1>6, <1>7, <1>8, <1>9, <1>10, <1>11, <1>12
  DEF Reads, LookSign, LookAnswer, Accepts

-----------------------------------------------------------------------------
(* The second step of a call: what it may count on.                        *)

\* The call that commits is a call, and is idle afterwards.
LEMMA Committing ==
  ASSUME IInv, NEW t \in Calls, NEW op \in Op, Commits(t, op)
  PROVE  /\ tx[t] \in Call /\ tx[t].op = op /\ CallInv(t)
         /\ tx' \in [Calls -> Call \cup {Idle}]
         /\ \A u \in Calls : tx'[u] = Idle \/ tx'[u] = tx[u]
         /\ tx[t].ord \in Orders /\ OrderInv(tx[t].ord)
<1>1. tx[t] # Idle
  BY DEF Commits, Idle, Op, Guarded
<1>2. tx[t] \in Call
  BY <1>1 DEF IInv, TypeOK
<1> QED BY <1>1, <1>2 DEF Commits, IInv, TypeOK, Call

\* What the record says of a step that it does not mention.
LEMMA Recorded ==
  ASSUME IInv, NEW t \in Calls, Records(t), NEW o \in Orders, o = tx[t].ord
  PROVE  /\ strayed' \in [Orders -> SUBSET Stray]
         /\ strayed[o] \subseteq strayed'[o]
         /\ \A p \in Orders \ {o} : strayed'[p] = strayed[p]
         /\ Straight(o)' =>
              /\ Straight(o)
              /\ tx[t].op \notin Guarded =>
                   /\ ord[o].status = tx[t].saw.status
                   /\ ord[o].deleted = tx[t].saw.deleted
                   /\ ord[o].quote = tx[t].saw.quote
                   /\ tx[t].of \in Items => qty[tx[t].of] = tx[t].qty
              /\ tx[t].op = "advance" => ord[o].quote = tx[t].saw.quote
         /\ Solvent(o)' =>
              /\ Solvent(o) /\ Straight(o)'
              /\ tx[t].op \in {"add", "change"} =>
                   ord[o].status # "READY_FOR_PICKUP" \/ ord'[o].status = "READY_FOR_PICKUP"
         /\ Whole(o)' =>
              /\ Whole(o) /\ Straight(o)'
              /\ tx[t].op \in {"cancel", "uncancel", "refund", "change", "remove"} => ~ord[o].deleted
              /\ tx[t].op = "sign" => ord[o].status = "WAITING_APPROVAL"
              /\ tx[t].op \in {"approve", "withdraw", "sign"} => ord'[o].status \notin Undone
<1>1. strayed \in [Orders -> SUBSET Stray]
  BY DEF IInv, TypeOK
<1>2. Leaks(t) \subseteq Stray
  BY DEF Leaks, Stray
<1>3. strayed'[o] = strayed[o] \cup Leaks(t)
  BY <1>1 DEF Records
<1>4. /\ strayed' \in [Orders -> SUBSET Stray]
      /\ \A p \in Orders \ {o} : strayed'[p] = strayed[p]
  BY <1>1, <1>2 DEF Records
<1>5. "overlap" \notin Leaks(t) => ~ByIdOver(t)
  BY DEF Leaks
<1>6. Straight(o)' =>
        /\ Straight(o)
        /\ tx[t].op \notin Guarded =>
             /\ ord[o].status = tx[t].saw.status
             /\ ord[o].deleted = tx[t].saw.deleted
             /\ ord[o].quote = tx[t].saw.quote
             /\ tx[t].of \in Items => qty[tx[t].of] = tx[t].qty
        /\ tx[t].op = "advance" => ord[o].quote = tx[t].saw.quote
  BY <1>3, <1>5 DEF Straight, ByIdOver
<1>7. "pickup" \notin Leaks(t) =>
        (tx[t].op \in {"add", "change"} =>
           ord[o].status # "READY_FOR_PICKUP" \/ ord'[o].status = "READY_FOR_PICKUP")
  BY DEF Leaks
<1>8. Solvent(o)' => Solvent(o) /\ Straight(o)' /\ "pickup" \notin Leaks(t)
  BY <1>3 DEF Solvent, Straight
<1>9. Whole(o)' => /\ Whole(o) /\ Straight(o)'
                   /\ "deleted" \notin Leaks(t) /\ "late" \notin Leaks(t) /\ "undone" \notin Leaks(t)
  BY <1>3 DEF Whole, Straight
<1>10. "deleted" \notin Leaks(t) =>
         (tx[t].op \in {"cancel", "uncancel", "refund", "change", "remove"} => ~ord[o].deleted)
  BY DEF Leaks
<1>11. "late" \notin Leaks(t) => (tx[t].op = "sign" => ord[o].status = "WAITING_APPROVAL")
  BY DEF Leaks
<1>12. "undone" \notin Leaks(t) =>
         (tx[t].op \in {"approve", "withdraw", "sign"} => ord'[o].status \notin Undone)
  BY DEF Leaks
<1> QED BY <1>3, <1>4, <1>6, <1>7, <1>8, <1>9, <1>10, <1>11, <1>12

\* A revision that waits is its order's, and its order waits.
LEMMA Pending ==
  ASSUME IInv, NEW o \in Orders, Straight(o), NEW k \in Quotes, quote[k].ord = o,
         quote[k].status = "pending"
  PROVE  ord[o].quote = k /\ Waits(o) /\ ord[o].quote # none
  BY NoneIsNothing DEF IInv, QuoteInv

\* Where a transition may lead, and from where.
LEMMA Transitions ==
  ASSUME NEW from \in Status, NEW to \in ALLOWED_TRANSITIONS[from]
  PROVE  /\ to \in Known \ Undone
         /\ from \in Known \ Undone
         /\ to \in Refundable <=> from \in Refundable
         /\ to = "WAITING_APPROVAL" => from \notin Refundable
  BY DEF ALLOWED_TRANSITIONS, Status, ToWork, Working, Refundable, Undone, Known

\* The history remembers from where an order began to wait.
LEMMA Remembered ==
  ASSUME IInv, NEW o \in Orders, NEW s, NEW from, Enters(o, s, from),
         s = "WAITING_APPROVAL" => from \in Known
  PROVE  /\ past' \in [Orders -> PastRow]
         /\ PastInv(o)'
         /\ past'[o].cancel = past[o].cancel
         /\ past'[o].origin \in {past[o].origin, from}
         /\ past'[o].wait \in {past[o].wait, from}
         /\ s = "WAITING_APPROVAL" \/ past' = past
         /\ \A p \in Orders \ {o} : past'[p] = past[p]
<1>1. PastInv(o) /\ past \in [Orders -> PastRow] /\ past[o] \in PastRow
  BY DEF IInv, OrderInv, TypeOK
<1>2. CASE s # "WAITING_APPROVAL"
  BY <1>1, <1>2 DEF Enters, PastInv, Known, Cancellable
<1>3. CASE s = "WAITING_APPROVAL"
  <2> DEFINE first == IF from = "WAITING_APPROVAL" THEN past[o].origin ELSE from
  <2>1. from \in Status \cup {none} /\ first \in Status \cup {none} /\ first \in Known \cup {none}
    BY <1>1, <1>3 DEF PastRow, PastInv, Known
  <2>2. past' = [past EXCEPT ![o] = [past[o] EXCEPT !.wait = from, !.origin = first]]
    BY <1>3 DEF Enters
  <2>3. [past[o] EXCEPT !.wait = from, !.origin = first] \in PastRow
    BY <1>1, <2>1 DEF PastRow
  <2>4. past'[o].wait = from /\ past'[o].origin = first /\ past'[o].cancel = past[o].cancel
    BY <1>1, <2>2 DEF PastRow
  <2> QED BY <1>1, <1>3, <2>1, <2>2, <2>3, <2>4 DEF PastInv, Known, Cancellable
<1> QED BY <1>2, <1>3

-----------------------------------------------------------------------------
(* The second step of a call: the calls that move the status.              *)

\* A call that is not an answer moves an order with its history, its money and the
\* parts of its items; a revision that waits must find the order waiting.
LEMMA StatusStep ==
  ASSUME IInv, NEW t \in Calls, NEW op \in Op, Commits(t, op), Records(t),
         NEW o \in Orders, o = tx[t].ord,
         NEW s \in Known, SetStatus(o, s),
         past' \in [Orders -> PastRow], PastInv(o)',
         money' \in [Orders -> MoneyRow], MoneyInv(o)',
         \A p \in Orders \ {o} : past'[p] = past[p] /\ money'[p] = money[p],
         UNCHANGED <<owner, qty, quote>>,
         out' \in [Items -> Int],
         \A i \in Items : IF owner[i] = o THEN ItemInv(i)' ELSE out'[i] = out[i],
         \A k \in Quotes : quote[k].status = "pending" /\ quote[k].ord = o /\ Straight(o)' => Waits(o)'
  PROVE  IInv'
<1> USE NoneIsNothing
<1>1. /\ ord[o] \in OrderRow /\ ord \in [Orders -> OrderRow] /\ OrderInv(o)
      /\ tx' \in [Calls -> Call \cup {Idle}]
      /\ \A u \in Calls : tx'[u] = Idle \/ tx'[u] = tx[u]
  BY Committing DEF IInv, TypeOK
<1>2. /\ ord' \in [Orders -> OrderRow]
      /\ ord'[o].status = s /\ ord'[o].quote = ord[o].quote /\ ord'[o].deleted = ord[o].deleted
      /\ \A p \in Orders \ {o} : ord'[p] = ord[p]
  BY <1>1 DEF SetStatus, OrderRow, Known
<1>r. /\ strayed' \in [Orders -> SUBSET Stray]
      /\ strayed[o] \subseteq strayed'[o]
      /\ \A p \in Orders \ {o} : strayed'[p] = strayed[p]
      /\ Straight(o)' => Straight(o)
  BY Recorded
<1>3. TypeOK'
  BY <1>1, <1>2, <1>r DEF IInv, TypeOK
<1>4. Elsewhere(o)
  BY <1>2, <1>r DEF Elsewhere
<1>5. Lasting
  BY <1>2, <1>r DEF Lasting, Known
<1>6. OrderInv(o)'
  <2>1. RowInv(o)'
    BY <1>1, <1>2, <1>r DEF OrderInv, RowInv, Known
  <2> QED BY <2>1 DEF OrderInv
<1>7. ASSUME NEW k \in Quotes, quote[k].status = "none" \/ quote[k].ord = o PROVE QuoteInv(k)'
  <2>1. QuoteInv(k) /\ quote'[k] = quote[k]
    BY DEF IInv
  <2>2. CASE quote[k].status = "pending" /\ quote[k].ord = o
    BY <1>2, <1>r, <2>1, <2>2 DEF QuoteInv
  <2>3. CASE quote[k].status # "pending"
    BY <2>1, <2>3 DEF QuoteInv
  <2> QED BY <1>7, <2>2, <2>3
<1>8. ASSUME NEW i \in Items, owner[i] \in {o, none} PROVE ItemInv(i)'
  <2>1. CASE owner[i] = none
    BY <1>1, <2>1 DEF IInv, ItemInv, Holds
  <2> QED BY <1>8, <2>1
<1> QED BY <1>1, <1>3, <1>4, <1>5, <1>6, <1>7, <1>8, Localized

\* Parts that stay where they are.
LEMMA PartsStay ==
  ASSUME IInv, NEW o \in Orders, UNCHANGED itemVars, Whole(o)' => Whole(o) /\ (Holds(o)' <=> Holds(o))
  PROVE  /\ out' \in [Items -> Int]
         /\ \A i \in Items : IF owner[i] = o THEN ItemInv(i)' ELSE out'[i] = out[i]
  BY NoneIsNothing DEF IInv, TypeOK, ItemInv, itemVars

\* Parts that all go back to the shelf with the order.
LEMMA PartsReturn ==
  ASSUME IInv, NEW o \in Orders, GiveBackAll(o), UNCHANGED <<owner, qty>>,
         Whole(o)' => Whole(o) /\ Holds(o) /\ ~Holds(o)'
  PROVE  /\ out' \in [Items -> Int]
         /\ \A i \in Items : IF owner[i] = o THEN ItemInv(i)' ELSE out'[i] = out[i]
<1>0. owner \in [Items -> Orders \cup {none}] /\ qty \in [Items -> 0 .. MaxQty] /\ out \in [Items -> Int]
      /\ MaxQty \in Nat
  BY SomePieces DEF IInv, TypeOK
<1>1. out' = [i \in Items |-> IF owner[i] = o /\ qty[i] > 0 THEN out[i] - qty[i] ELSE out[i]]
  BY DEF GiveBackAll, Of
<1>2. out' \in [Items -> Int]
  BY <1>0, <1>1
<1>3. ASSUME NEW i \in Items, owner[i] = o PROVE ItemInv(i)'
  <2>1. ItemInv(i) /\ o # none /\ qty[i] \in Nat /\ out[i] \in Int
    BY <1>0, NoneIsNothing DEF IInv
  <2>2. Whole(o)' => out'[i] = 0
    BY <1>1, <1>3, <2>1 DEF ItemInv
  <2> QED BY <1>3, <2>1, <2>2 DEF ItemInv
<1>4. \A i \in Items : owner[i] # o => out'[i] = out[i]
  BY <1>1
<1> QED BY <1>2, <1>3, <1>4

\* Parts that are all taken again.
LEMMA PartsReturnToWork ==
  ASSUME IInv, NEW o \in Orders, TakeAll(o), UNCHANGED <<owner, qty>>,
         Whole(o)' => Whole(o) /\ ~Holds(o) /\ Holds(o)'
  PROVE  /\ out' \in [Items -> Int]
         /\ \A i \in Items : IF owner[i] = o THEN ItemInv(i)' ELSE out'[i] = out[i]
<1>0. owner \in [Items -> Orders \cup {none}] /\ qty \in [Items -> 0 .. MaxQty] /\ out \in [Items -> Int]
      /\ MaxQty \in Nat
  BY SomePieces DEF IInv, TypeOK
<1>1. out' = [i \in Items |-> IF owner[i] = o /\ qty[i] > 0 THEN out[i] + qty[i] ELSE out[i]]
  BY DEF TakeAll, Of
<1>2. out' \in [Items -> Int]
  BY <1>0, <1>1
<1>3. ASSUME NEW i \in Items, owner[i] = o PROVE ItemInv(i)'
  <2>1. ItemInv(i) /\ o # none /\ qty[i] \in Nat
    BY <1>0, NoneIsNothing DEF IInv
  <2>2. Whole(o)' => out[i] = 0
    BY <1>3, <2>1 DEF ItemInv
  <2>3. Whole(o)' => out'[i] = IF qty[i] > 0 THEN qty[i] ELSE 0
    BY <1>1, <1>3, <2>1, <2>2
  <2> QED BY <1>3, <2>1, <2>3 DEF ItemInv
<1>4. \A i \in Items : owner[i] # o => out'[i] = out[i]
  BY <1>1
<1> QED BY <1>2, <1>3, <1>4

\* The new status of the order that a call moves.
LEMMA NewStatus ==
  ASSUME IInv, NEW o \in Orders, NEW s, SetStatus(o, s)
  PROVE  ord'[o].status = s /\ ord'[o].deleted = ord[o].deleted /\ ord[o] \in OrderRow
         /\ ord[o].status \in Status
  BY DEF IInv, TypeOK, OrderRow, SetStatus

\* A transition repeats the status it read, so it leads where the table says.
LEMMA AdvanceStep ==
  ASSUME IInv, NEW t \in Calls, Advance(t) PROVE IInv'
<1>0. "advance" \in Op /\ Commits(t, "advance") /\ Records(t)
  BY DEF Op, Guarded, Advance
<1>a. PICK o \in Orders, s \in Items \cup Quotes \cup Status \cup {none} : o = tx[t].ord /\ s = tx[t].of
  BY <1>0, Committing DEF Call
<1>1. /\ ord[o].status = tx[t].saw.status /\ SetStatus(o, s)
      /\ Enters(o, s, ord[o].status) /\ UNCHANGED <<itemVars, quote, money>>
  BY <1>a DEF Advance, Unmoved
<1>2. CallInv(t) /\ OrderInv(o) /\ tx[t].op = "advance"
  BY <1>0, <1>a, Committing
<1>3. tx[t].saw.quote = none /\ s \in ALLOWED_TRANSITIONS[ord[o].status]
  BY <1>1, <1>2, <1>a DEF CallInv
<1>4. ord[o].status \in Status /\ ord'[o].status = s /\ ord'[o].deleted = ord[o].deleted
  BY <1>1, <1>2, <1>3, NewStatus
<1>5. /\ s \in Known \ Undone /\ ord[o].status \in Known \ Undone
      /\ s \in Refundable <=> ord[o].status \in Refundable
      /\ s = "WAITING_APPROVAL" => ord[o].status \notin Refundable
  BY <1>3, <1>4, Transitions
<1>6. /\ past' \in [Orders -> PastRow] /\ PastInv(o)'
      /\ \A p \in Orders \ {o} : past'[p] = past[p]
      /\ past'[o].origin \in {past[o].origin, ord[o].status}
      /\ past'[o].wait \in {past[o].wait, ord[o].status}
      /\ s = "WAITING_APPROVAL" \/ past' = past
  BY <1>1, <1>5, Remembered
<1>r. /\ Straight(o)' => Straight(o) /\ ord[o].quote = tx[t].saw.quote
      /\ Solvent(o)' => Solvent(o)
      /\ Whole(o)' => Whole(o)
  BY <1>0, <1>a, <1>2, Recorded
<1>7. MoneyInv(o)' /\ money' \in [Orders -> MoneyRow]
  <2>1. money' = money
    BY <1>1
  <2>2. MoneyInv(o)'
    BY <1>2, <1>4, <1>5, <1>6, <1>r, <2>1, SMTT(30) DEF MoneyInv, OrderInv
  <2> QED BY <2>1, <2>2 DEF IInv, TypeOK
<1>8. Whole(o)' => Whole(o) /\ (Holds(o)' <=> Holds(o))
  BY <1>4, <1>5, <1>r DEF Holds
<1>9. /\ out' \in [Items -> Int]
      /\ \A i \in Items : IF owner[i] = o THEN ItemInv(i)' ELSE out'[i] = out[i]
  BY <1>1, <1>8, PartsStay, SMTT(30)
<1>10. \A k \in Quotes : quote[k].status = "pending" /\ quote[k].ord = o /\ Straight(o)' => Waits(o)'
  BY <1>3, <1>r, Pending
<1> QED BY <1>0, <1>a, <1>1, <1>5, <1>6, <1>7, <1>9, <1>10, StatusStep, SMTT(30) DEF itemVars

\* The counter's payment and the PDV's.
LEMMA PayStep ==
  ASSUME IInv, NEW t \in Calls, Pay(t) \/ PayInPdv(t) PROVE IInv'
<1> DEFINE new(o) == IF money[o].open + money[o].paid = 0 THEN 1 ELSE 0
<1>0. PICK op \in {"pay", "pdv"} :
        /\ Commits(t, op) /\ Records(t)
        /\ (Pay(t) \/ op = "pdv") /\ (PayInPdv(t) \/ op = "pay")
  BY DEF Pay, PayInPdv
<1>2. op \in Op
  BY DEF Op, Guarded
<1>a. PICK o \in Orders : o = tx[t].ord
  BY <1>0, <1>2, Committing
<1>1. /\ SetStatus(o, "PAID") /\ UNCHANGED <<past, itemVars, quote>>
      /\ \/ op = "pay" /\ ord[o].status = tx[t].saw.status
            /\ \/ money' = [money EXCEPT ![o].cash = @ + 1, ![o].open = @ + new(o)]
               \/ money' = [money EXCEPT ![o].cash = @ + 1, ![o].paid = @ + new(o)]
         \/ op = "pdv"
            /\ money' = [money EXCEPT ![o].draft = FALSE, ![o].cash = @ + 1, ![o].sales = @ + 1]
  BY <1>0, <1>a, ZenonT(40) DEF Pay, PayInPdv, Unmoved, Settles, Commits
<1>3. CallInv(t) /\ OrderInv(o) /\ tx[t].op = op
  BY <1>0, <1>2, <1>a, Committing
<1>r. /\ Straight(o)' => Straight(o) /\ (op \notin Guarded => ord[o].status = tx[t].saw.status)
      /\ Solvent(o)' => Solvent(o) /\ Straight(o)'
      /\ Whole(o)' => Whole(o) /\ Straight(o)'
  BY <1>0, <1>a, <1>3, Recorded
<1>4. Straight(o)' => ord[o].status = "COMPLETED"
  BY <1>1, <1>3, <1>r DEF CallInv, Guarded
<1>5. ord'[o].status = "PAID" /\ ord'[o].deleted = ord[o].deleted /\ "PAID" \in Known
  BY <1>1, NewStatus DEF Status, Refundable, Known
<1>6. \A k \in Quotes : quote[k].status = "pending" /\ quote[k].ord = o /\ Straight(o)' => Waits(o)'
  BY <1>4, <1>5, <1>r, Pending DEF Waits
<1>7. past' \in [Orders -> PastRow] /\ PastInv(o)' /\ past' = past
  BY <1>1, <1>3 DEF IInv, TypeOK, OrderInv, PastInv, Known, Cancellable
<1>8. money \in [Orders -> MoneyRow] /\ money[o] \in MoneyRow
  BY <1>3 DEF IInv, TypeOK
<1>9. /\ money' \in [Orders -> MoneyRow]
      /\ money'[o].cash = money[o].cash + 1 /\ money'[o].shelved = money[o].shelved
      /\ money[o].sales = 0 /\ money[o].open = 0 /\ money[o].paid = 0 =>
           money'[o].sales + money'[o].open + money'[o].paid = 1
      /\ \A p \in Orders \ {o} : money'[p] = money[p]
  <2>1. \A r \in MoneyRow, c \in Int, n \in Nat :
          /\ [r EXCEPT !.cash = c, !.open = n] \in MoneyRow
          /\ [r EXCEPT !.cash = c, !.paid = n] \in MoneyRow
          /\ [r EXCEPT !.draft = FALSE, !.cash = c, !.sales = n] \in MoneyRow
    BY DEF MoneyRow
  <2>2. /\ money[o].cash \in Int /\ money[o].open \in Nat /\ money[o].paid \in Nat
        /\ money[o].sales \in Nat /\ new(o) \in {0, 1}
    BY <1>8 DEF MoneyRow
  <2>3. CASE money' = [money EXCEPT ![o].cash = @ + 1, ![o].open = @ + new(o)]
    <3>1. money' = [money EXCEPT ![o] = [money[o] EXCEPT !.cash = money[o].cash + 1,
                                                         !.open = money[o].open + new(o)]]
      BY <1>8, <2>3
    <3>2. money[o].cash + 1 \in Int /\ money[o].open + new(o) \in Nat
      BY <2>2
    <3>3. money' \in [Orders -> MoneyRow] /\ \A p \in Orders \ {o} : money'[p] = money[p]
      BY <1>8, <2>1, <3>1, <3>2
    <3> QED BY <1>8, <2>2, <3>1, <3>3 DEF MoneyRow
  <2>4. CASE money' = [money EXCEPT ![o].cash = @ + 1, ![o].paid = @ + new(o)]
    <3>1. money' = [money EXCEPT ![o] = [money[o] EXCEPT !.cash = money[o].cash + 1,
                                                         !.paid = money[o].paid + new(o)]]
      BY <1>8, <2>4
    <3>2. money[o].cash + 1 \in Int /\ money[o].paid + new(o) \in Nat
      BY <2>2
    <3>3. money' \in [Orders -> MoneyRow] /\ \A p \in Orders \ {o} : money'[p] = money[p]
      BY <1>8, <2>1, <3>1, <3>2
    <3> QED BY <1>8, <2>2, <3>1, <3>3 DEF MoneyRow
  <2>5. CASE money' = [money EXCEPT ![o].draft = FALSE, ![o].cash = @ + 1, ![o].sales = @ + 1]
    <3>1. money' = [money EXCEPT ![o] = [money[o] EXCEPT !.draft = FALSE,
                                  !.cash = money[o].cash + 1, !.sales = money[o].sales + 1]]
      BY <1>8, <2>5
    <3>2. money[o].cash + 1 \in Int /\ money[o].sales + 1 \in Nat
      BY <2>2
    <3>3. money' \in [Orders -> MoneyRow] /\ \A p \in Orders \ {o} : money'[p] = money[p]
      BY <1>8, <2>1, <3>1, <3>2
    <3> QED BY <1>8, <2>2, <3>1, <3>3 DEF MoneyRow
  <2> QED BY <1>1, <2>3, <2>4, <2>5
<1>10. MoneyInv(o)'
  <2> SUFFICES ASSUME Solvent(o)'
               PROVE  /\ money'[o].shelved = 0 /\ money'[o].cash = 1
                      /\ money'[o].sales + money'[o].open + money'[o].paid = 1
                      /\ past'[o].origin \notin Refundable /\ past'[o].wait \notin Refundable
    BY <1>5 DEF MoneyInv, Refundable
  <2>1. /\ money[o].shelved = 0 /\ money[o].cash = 0
        /\ money[o].sales + money[o].open + money[o].paid = 0
        /\ past[o].origin \notin Refundable /\ past[o].wait \notin Refundable
    BY <1>3, <1>4, <1>r DEF OrderInv, MoneyInv, Refundable
  <2>2. money[o].sales = 0 /\ money[o].open = 0 /\ money[o].paid = 0
    BY <1>8, <2>1 DEF MoneyRow
  <2> QED BY <1>7, <1>9, <2>1, <2>2
<1>12. Whole(o)' => Whole(o) /\ (Holds(o)' <=> Holds(o))
  BY <1>4, <1>5, <1>r DEF Holds, Undone
<1>13. /\ out' \in [Items -> Int]
       /\ \A i \in Items : IF owner[i] = o THEN ItemInv(i)' ELSE out'[i] = out[i]
  BY <1>1, <1>12, PartsStay, SMTT(30)
<1>q. /\ SetStatus(o, "PAID") /\ UNCHANGED <<owner, qty, quote>>
      /\ \A p \in Orders \ {o} : past'[p] = past[p] /\ money'[p] = money[p]
  BY <1>1, <1>7, <1>9 DEF itemVars
<1>m. money' \in [Orders -> MoneyRow] /\ "PAID" \in Known /\ Commits(t, op) /\ Records(t)
  BY <1>0, <1>5, <1>9
<1> QED BY <1>a, <1>q, <1>m, <1>2, <1>6, <1>7, <1>10, <1>13, StatusStep, SMTT(30)

\* A cancelled order remembers where it was, so that its revision still waits.
LEMMA CancelStep ==
  ASSUME IInv, NEW t \in Calls, Cancel(t) PROVE IInv'
<1>0. "cancel" \in Op /\ Commits(t, "cancel") /\ Records(t)
  BY DEF Op, Guarded, Cancel
<1>a. PICK o \in Orders : o = tx[t].ord
  BY <1>0, Committing
<1>1. /\ ord[o].status = tx[t].saw.status /\ SetStatus(o, "CANCELLED") /\ GiveBackAll(o)
      /\ money' = [money EXCEPT ![o].shelved = @ + money[o].open, ![o].open = 0]
      /\ past' = [past EXCEPT ![o].cancel = ord[o].status]
      /\ UNCHANGED <<owner, qty, quote>>
  BY <1>a DEF Cancel, Cancels, Unmoved
<1>2. CallInv(t) /\ tx[t].op = "cancel" /\ OrderInv(o)
  BY <1>0, <1>a, Committing
<1>3. /\ ord[o].status \in Cancellable /\ ord[o].status \notin Refundable \cup Undone
      /\ ord[o].status \in Status
  BY <1>1, <1>2 DEF CallInv, Cancellable, Working, Refundable, Undone, Status
<1>4. /\ ord'[o].status = "CANCELLED" /\ ord'[o].deleted = ord[o].deleted /\ "CANCELLED" \in Known
      /\ "CANCELLED" \notin Refundable
  BY <1>1, NewStatus DEF Status, Undone, Refundable, Known
<1>r. /\ Straight(o)' => Straight(o)
      /\ Solvent(o)' => Solvent(o)
      /\ Whole(o)' => Whole(o) /\ ~ord[o].deleted
  BY <1>0, <1>a, <1>2, Recorded
<1>5. past \in [Orders -> PastRow] /\ past[o] \in PastRow /\ PastInv(o)
  BY <1>2 DEF IInv, TypeOK, OrderInv
<1>6. /\ past' \in [Orders -> PastRow] /\ past'[o].cancel = ord[o].status
      /\ past'[o].wait = past[o].wait /\ past'[o].origin = past[o].origin
      /\ \A p \in Orders \ {o} : past'[p] = past[p]
  BY <1>1, <1>3, <1>5 DEF PastRow
<1>7. PastInv(o)'
  BY <1>3, <1>5, <1>6 DEF PastInv, Known, Cancellable
<1>8. money \in [Orders -> MoneyRow] /\ money[o] \in MoneyRow
  BY DEF IInv, TypeOK
<1>9. /\ money' \in [Orders -> MoneyRow]
      /\ money'[o].cash = money[o].cash /\ money'[o].shelved = money[o].shelved + money[o].open
      /\ money'[o].sales = money[o].sales /\ money'[o].open = 0 /\ money'[o].paid = money[o].paid
      /\ \A p \in Orders \ {o} : money'[p] = money[p]
  <2>1. \A n \in Nat : [money[o] EXCEPT !.shelved = n, !.open = 0] \in MoneyRow
    BY <1>8 DEF MoneyRow
  <2>2. money' = [money EXCEPT ![o] =
                   [money[o] EXCEPT !.shelved = money[o].shelved + money[o].open, !.open = 0]]
    BY <1>1, <1>8
  <2>3. money[o].shelved + money[o].open \in Nat
    BY <1>8 DEF MoneyRow
  <2>4. money' \in [Orders -> MoneyRow] /\ \A p \in Orders \ {o} : money'[p] = money[p]
    BY <1>8, <2>1, <2>2, <2>3
  <2> QED BY <1>8, <2>2, <2>4 DEF MoneyRow
<1>10. MoneyInv(o)'
  <2> SUFFICES ASSUME Solvent(o)'
               PROVE  /\ money'[o].shelved = 0 /\ money'[o].cash = 0
                      /\ money'[o].sales + money'[o].open + money'[o].paid = 0
                      /\ past'[o].origin \notin Refundable /\ past'[o].wait \notin Refundable
    BY <1>4 DEF MoneyInv
  <2>1. /\ money[o].shelved = 0 /\ money[o].cash = 0
        /\ money[o].sales + money[o].open + money[o].paid = 0
        /\ past[o].origin \notin Refundable /\ past[o].wait \notin Refundable
    BY <1>2, <1>3, <1>r DEF OrderInv, MoneyInv
  <2>2. money[o].sales = 0 /\ money[o].open = 0 /\ money[o].paid = 0
    BY <1>8, <2>1 DEF MoneyRow
  <2> QED BY <1>6, <1>9, <2>1, <2>2
<1>12. Whole(o)' => Whole(o) /\ Holds(o) /\ ~Holds(o)'
  BY <1>3, <1>4, <1>r DEF Holds, Undone
<1>13. /\ out' \in [Items -> Int]
       /\ \A i \in Items : IF owner[i] = o THEN ItemInv(i)' ELSE out'[i] = out[i]
  BY <1>1, <1>12, PartsReturn
<1>14. \A k \in Quotes : quote[k].status = "pending" /\ quote[k].ord = o /\ Straight(o)' => Waits(o)'
  BY <1>3, <1>4, <1>6, <1>r, Pending DEF Waits, Undone
<1>q. /\ SetStatus(o, "CANCELLED") /\ UNCHANGED <<owner, qty, quote>>
      /\ \A p \in Orders \ {o} : past'[p] = past[p] /\ money'[p] = money[p]
  BY <1>1, <1>6, <1>9
<1>m. money' \in [Orders -> MoneyRow] /\ past' \in [Orders -> PastRow] /\ "CANCELLED" \in Known
  BY <1>4, <1>6, <1>9
<1> QED BY <1>0, <1>a, <1>q, <1>m, <1>7, <1>10, <1>13, <1>14, StatusStep, SMTT(30)

\* Back to where it was.
LEMMA UncancelStep ==
  ASSUME IInv, NEW t \in Calls, Uncancel(t) PROVE IInv'
<1> USE NoneIsNothing
<1>0. "uncancel" \in Op /\ Commits(t, "uncancel") /\ Records(t)
  BY DEF Op, Guarded, Uncancel
<1>a. PICK o \in Orders : o = tx[t].ord
  BY <1>0, Committing
<1> DEFINE s == IF past[o].cancel \in Status \ ({"PAID", "DELIVERED"} \cup Undone)
                  THEN past[o].cancel ELSE "IN_DIAGNOSIS"
<1>1. /\ ord[o].status = tx[t].saw.status /\ SetStatus(o, s) /\ TakeAll(o)
      /\ money' = [money EXCEPT ![o].open = @ + money[o].shelved, ![o].shelved = 0]
      /\ Enters(o, s, "CANCELLED")
      /\ UNCHANGED <<owner, qty, quote>>
  BY <1>a DEF Uncancel, Unmoved
<1>2. CallInv(t) /\ tx[t].op = "uncancel" /\ OrderInv(o)
  BY <1>0, <1>a, Committing
<1>3. ord[o].status = "CANCELLED" /\ past[o].cancel \in Cancellable \cup {none}
  BY <1>1, <1>2 DEF CallInv, OrderInv, PastInv
<1>4. /\ s \in Cancellable /\ s \in Known /\ s \notin Refundable \cup Undone
      /\ past[o].cancel = "WAITING_APPROVAL" => s = "WAITING_APPROVAL"
  BY <1>3 DEF Cancellable, Working, Known, Status, Refundable, Undone
<1> HIDE DEF s
<1>5. ord'[o].status = s /\ ord'[o].deleted = ord[o].deleted
  BY <1>1, NewStatus
<1>r. /\ Straight(o)' => Straight(o)
      /\ Solvent(o)' => Solvent(o)
      /\ Whole(o)' => Whole(o) /\ ~ord[o].deleted
  BY <1>0, <1>a, <1>2, Recorded
<1>6. /\ past' \in [Orders -> PastRow] /\ PastInv(o)'
      /\ \A p \in Orders \ {o} : past'[p] = past[p]
      /\ past'[o].origin \in {past[o].origin, "CANCELLED"}
      /\ past'[o].wait \in {past[o].wait, "CANCELLED"}
  <2>1. "CANCELLED" \in Known
    BY DEF Known, Status, Undone
  <2> QED BY <1>1, <2>1, Remembered
<1>8. money \in [Orders -> MoneyRow] /\ money[o] \in MoneyRow
  BY DEF IInv, TypeOK
<1>9. /\ money' \in [Orders -> MoneyRow]
      /\ money'[o].cash = money[o].cash /\ money'[o].shelved = 0
      /\ money'[o].sales = money[o].sales /\ money'[o].open = money[o].open + money[o].shelved
      /\ money'[o].paid = money[o].paid
      /\ \A p \in Orders \ {o} : money'[p] = money[p]
  <2>1. \A n \in Nat : [money[o] EXCEPT !.open = n, !.shelved = 0] \in MoneyRow
    BY <1>8 DEF MoneyRow
  <2>2. money' = [money EXCEPT ![o] =
                   [money[o] EXCEPT !.open = money[o].open + money[o].shelved, !.shelved = 0]]
    BY <1>1, <1>8
  <2>3. money[o].open + money[o].shelved \in Nat
    BY <1>8 DEF MoneyRow
  <2>4. money' \in [Orders -> MoneyRow] /\ \A p \in Orders \ {o} : money'[p] = money[p]
    BY <1>8, <2>1, <2>2, <2>3
  <2> QED BY <1>8, <2>2, <2>4 DEF MoneyRow
<1>10. MoneyInv(o)'
  <2> SUFFICES ASSUME Solvent(o)'
               PROVE  /\ money'[o].shelved = 0 /\ money'[o].cash = 0
                      /\ money'[o].sales + money'[o].open + money'[o].paid = 0
                      /\ past'[o].origin \notin Refundable /\ past'[o].wait \notin Refundable
    BY <1>4, <1>5 DEF MoneyInv
  <2>1. /\ money[o].shelved = 0 /\ money[o].cash = 0
        /\ money[o].sales + money[o].open + money[o].paid = 0
        /\ past[o].origin \notin Refundable /\ past[o].wait \notin Refundable
    BY <1>2, <1>3, <1>r DEF OrderInv, MoneyInv, Refundable
  <2>2. money[o].sales = 0 /\ money[o].open = 0 /\ money[o].paid = 0
    BY <1>8, <2>1 DEF MoneyRow
  <2> QED BY <1>6, <1>9, <2>1, <2>2 DEF Refundable
<1>12. Whole(o)' => Whole(o) /\ ~Holds(o) /\ Holds(o)'
  BY <1>3, <1>4, <1>5, <1>r DEF Holds, Undone
<1>13. /\ out' \in [Items -> Int]
       /\ \A i \in Items : IF owner[i] = o THEN ItemInv(i)' ELSE out'[i] = out[i]
  BY <1>1, <1>12, PartsReturnToWork
<1>14. \A k \in Quotes : quote[k].status = "pending" /\ quote[k].ord = o /\ Straight(o)' => Waits(o)'
  BY <1>3, <1>4, <1>5, <1>r, Pending DEF Waits
<1>q. /\ SetStatus(o, s) /\ UNCHANGED <<owner, qty, quote>>
      /\ \A p \in Orders \ {o} : past'[p] = past[p] /\ money'[p] = money[p]
  BY <1>1, <1>6, <1>9
<1>m. money' \in [Orders -> MoneyRow] /\ past' \in [Orders -> PastRow] /\ PastInv(o)' /\ s \in Known
  BY <1>4, <1>6, <1>9
<1> QED BY <1>0, <1>a, <1>q, <1>m, <1>10, <1>13, <1>14, StatusStep, SMTT(30)

\* Money and parts go back together.
LEMMA RefundStep ==
  ASSUME IInv, NEW t \in Calls, Refund(t) PROVE IInv'
<1>0. "refund" \in Op /\ Commits(t, "refund") /\ Records(t)
  BY DEF Op, Guarded, Refund
<1>a. PICK o \in Orders : o = tx[t].ord
  BY <1>0, Committing, SMTT(30)
<1> DEFINE kept == IF money[o].open + money[o].paid > 0 THEN money[o].cash - 1 ELSE money[o].cash
<1>1. /\ ord[o].status = tx[t].saw.status /\ SetStatus(o, "REFUNDED") /\ GiveBackAll(o)
      /\ \/ /\ money[o].sales > 0
            /\ money' = [money EXCEPT ![o].sales = @ - 1, ![o].cash = @ - 1]
         \/ /\ money[o].sales = 0
            /\ money' = [money EXCEPT ![o].open = 0, ![o].paid = 0,
                 ![o].cash = IF money[o].open + money[o].paid > 0 THEN @ - 1 ELSE @]
      /\ UNCHANGED <<past, owner, qty, quote>>
  BY <1>a, SMTT(30) DEF Refund, Unmoved
<1>2. CallInv(t) /\ tx[t].op = "refund" /\ OrderInv(o)
  BY <1>0, <1>a, Committing
<1>3. ord[o].status \in Refundable
  BY <1>1, <1>2 DEF CallInv
<1>4. /\ ord'[o].status = "REFUNDED" /\ ord'[o].deleted = ord[o].deleted /\ "REFUNDED" \in Known
      /\ "REFUNDED" \notin Refundable
  BY <1>1, NewStatus DEF Status, Undone, Refundable, Known
<1>r. /\ Straight(o)' => Straight(o)
      /\ Solvent(o)' => Solvent(o)
      /\ Whole(o)' => Whole(o) /\ ~ord[o].deleted
  BY <1>0, <1>a, <1>2, Recorded
<1>5. past' \in [Orders -> PastRow] /\ PastInv(o)' /\ past' = past
  BY <1>1, <1>2 DEF IInv, TypeOK, OrderInv, PastInv, Known, Cancellable
<1>6. money \in [Orders -> MoneyRow] /\ money[o] \in MoneyRow
  BY DEF IInv, TypeOK
<1>7. /\ money' \in [Orders -> MoneyRow]
      /\ money'[o].shelved = money[o].shelved
      /\ money[o].cash = 1 /\ money[o].sales + money[o].open + money[o].paid = 1 =>
           money'[o].cash = 0 /\ money'[o].sales + money'[o].open + money'[o].paid = 0
      /\ \A p \in Orders \ {o} : money'[p] = money[p]
  <2>1. \A c \in Int, n \in Nat : /\ [money[o] EXCEPT !.sales = n, !.cash = c] \in MoneyRow
                                  /\ [money[o] EXCEPT !.open = 0, !.paid = 0, !.cash = c] \in MoneyRow
    BY <1>6 DEF MoneyRow
  <2>2. /\ money[o].cash \in Int /\ money[o].open \in Nat /\ money[o].paid \in Nat
        /\ money[o].sales \in Nat /\ kept \in Int
    BY <1>6 DEF MoneyRow
  <2>3. CASE money[o].sales > 0 /\ money' = [money EXCEPT ![o].sales = @ - 1, ![o].cash = @ - 1]
    <3>1. money' = [money EXCEPT ![o] = [money[o] EXCEPT !.sales = money[o].sales - 1,
                                                         !.cash = money[o].cash - 1]]
      BY <1>6, <2>3
    <3>2. money[o].sales - 1 \in Nat /\ money[o].cash - 1 \in Int
      BY <2>2, <2>3
    <3>3. money' \in [Orders -> MoneyRow] /\ \A p \in Orders \ {o} : money'[p] = money[p]
      BY <1>6, <2>1, <3>1, <3>2
    <3> QED BY <1>6, <2>2, <2>3, <3>1, <3>3 DEF MoneyRow
  <2>4. CASE money[o].sales = 0 /\ money' = [money EXCEPT ![o].open = 0, ![o].paid = 0,
                 ![o].cash = IF money[o].open + money[o].paid > 0 THEN @ - 1 ELSE @]
    <3>1. money' = [money EXCEPT ![o] = [money[o] EXCEPT !.open = 0, !.paid = 0, !.cash = kept]]
      BY <1>6, <2>4
    <3>3. money' \in [Orders -> MoneyRow] /\ \A p \in Orders \ {o} : money'[p] = money[p]
      BY <1>6, <2>1, <2>2, <3>1
    <3> QED BY <1>6, <2>2, <2>4, <3>1, <3>3 DEF MoneyRow
  <2> QED BY <1>1, <2>3, <2>4
<1>8. MoneyInv(o)'
  BY <1>2, <1>3, <1>4, <1>5, <1>7, <1>r DEF OrderInv, MoneyInv
<1>10. Whole(o)' => Whole(o) /\ Holds(o) /\ ~Holds(o)'
  BY <1>3, <1>4, <1>r DEF Holds, Undone, Refundable
<1>11. /\ out' \in [Items -> Int]
       /\ \A i \in Items : IF owner[i] = o THEN ItemInv(i)' ELSE out'[i] = out[i]
  BY <1>1, <1>10, PartsReturn
<1>12. \A k \in Quotes : quote[k].status = "pending" /\ quote[k].ord = o /\ Straight(o)' => Waits(o)'
  BY <1>3, <1>4, <1>r, Pending DEF Waits, Refundable
<1>q. /\ SetStatus(o, "REFUNDED") /\ UNCHANGED <<owner, qty, quote>>
      /\ \A p \in Orders \ {o} : past'[p] = past[p] /\ money'[p] = money[p]
  BY <1>1, <1>5, <1>7
<1>m. money' \in [Orders -> MoneyRow] /\ "REFUNDED" \in Known
  BY <1>4, <1>7
<1> QED BY <1>0, <1>a, <1>q, <1>m, <1>5, <1>8, <1>11, <1>12, StatusStep, SMTT(30)

\* The delivery writes by id.
LEMMA DeliverStep ==
  ASSUME IInv, NEW t \in Calls, Deliver(t) PROVE IInv'
<1>0. "deliver" \in Op \ Guarded /\ Commits(t, "deliver") /\ Records(t)
  BY DEF Op, Guarded, Deliver
<1>a. PICK o \in Orders : o = tx[t].ord
  BY <1>0, Committing
<1>1. SetStatus(o, "DELIVERED") /\ UNCHANGED <<past, itemVars, quote, money>>
  BY <1>a DEF Deliver
<1>2. CallInv(t) /\ tx[t].op = "deliver" /\ OrderInv(o)
  BY <1>0, <1>a, Committing
<1>3. ord'[o].status = "DELIVERED" /\ ord'[o].deleted = ord[o].deleted /\ "DELIVERED" \in Known
  BY <1>1, NewStatus DEF Status, Refundable, Known
<1>r. /\ Straight(o)' => Straight(o) /\ ord[o].status = tx[t].saw.status
      /\ Solvent(o)' => Solvent(o) /\ Straight(o)'
      /\ Whole(o)' => Whole(o) /\ Straight(o)'
  BY <1>0, <1>a, <1>2, Recorded
<1>4. Straight(o)' => ord[o].status \in {"PAID", "READY_FOR_PICKUP"}
  BY <1>2, <1>r DEF CallInv
<1>5. past' \in [Orders -> PastRow] /\ PastInv(o)' /\ past' = past
  BY <1>1, <1>2 DEF IInv, TypeOK, OrderInv, PastInv, Known, Cancellable
<1>6. money' \in [Orders -> MoneyRow] /\ MoneyInv(o)' /\ money' = money
  <2>1. money' = money
    BY <1>1
  <2>2. MoneyInv(o)'
    BY <1>2, <1>3, <1>4, <1>5, <1>r, <2>1 DEF OrderInv, MoneyInv, Refundable
  <2> QED BY <2>1, <2>2 DEF IInv, TypeOK
<1>7. Whole(o)' => Whole(o) /\ (Holds(o)' <=> Holds(o))
  BY <1>3, <1>4, <1>r DEF Holds, Undone
<1>8. /\ out' \in [Items -> Int]
      /\ \A i \in Items : IF owner[i] = o THEN ItemInv(i)' ELSE out'[i] = out[i]
  BY <1>1, <1>7, PartsStay
<1>9. \A k \in Quotes : quote[k].status = "pending" /\ quote[k].ord = o /\ Straight(o)' => Waits(o)'
  BY <1>3, <1>4, <1>r, Pending DEF Waits
<1>10. UNCHANGED <<owner, qty, quote>>
  BY <1>1 DEF itemVars
<1> QED BY <1>0, <1>a, <1>1, <1>3, <1>5, <1>6, <1>8, <1>9, <1>10, StatusStep, SMTT(30)

\* A deleted order may still have a revision pending: nobody waits for it.
LEMMA DeleteStep ==
  ASSUME IInv, NEW t \in Calls, Delete(t) PROVE IInv'
<1> USE NoneIsNothing
<1>0. "delete" \in Op \ Guarded /\ Commits(t, "delete") /\ Records(t)
  BY DEF Op, Guarded, Delete
<1>a. PICK o \in Orders : o = tx[t].ord
  BY <1>0, Committing
<1>1. /\ ~ord[o].deleted /\ ord' = [ord EXCEPT ![o].deleted = TRUE] /\ GiveBackAll(o)
      /\ UNCHANGED <<past, owner, qty, quote, money>>
  BY <1>a DEF Delete
<1>2. CallInv(t) /\ tx[t].op = "delete" /\ OrderInv(o)
  BY <1>0, <1>a, Committing
<1>3. /\ ord' \in [Orders -> OrderRow]
      /\ ord'[o].status = ord[o].status /\ ord'[o].quote = ord[o].quote /\ ord'[o].deleted
      /\ \A p \in Orders \ {o} : ord'[p] = ord[p]
  <2>1. ord \in [Orders -> OrderRow] /\ ord[o] \in OrderRow
    BY DEF IInv, TypeOK
  <2>2. [ord[o] EXCEPT !.deleted = TRUE] \in OrderRow
    BY <2>1 DEF OrderRow
  <2> QED BY <1>1, <2>1, <2>2 DEF OrderRow
<1>r. /\ strayed' \in [Orders -> SUBSET Stray]
      /\ strayed[o] \subseteq strayed'[o]
      /\ \A p \in Orders \ {o} : strayed'[p] = strayed[p]
      /\ Straight(o)' => Straight(o) /\ ord[o].status = tx[t].saw.status
      /\ Solvent(o)' => Solvent(o)
      /\ Whole(o)' => Whole(o) /\ Straight(o)'
  BY <1>0, <1>a, <1>2, Recorded
<1>4. Whole(o)' => Whole(o) /\ Holds(o) /\ ~Holds(o)'
  BY <1>1, <1>2, <1>3, <1>r DEF Holds, CallInv
<1>5. /\ out' \in [Items -> Int]
      /\ \A i \in Items : IF owner[i] = o THEN ItemInv(i)' ELSE out'[i] = out[i]
  BY <1>1, <1>4, PartsReturn
<1>c. /\ tx' \in [Calls -> Call \cup {Idle}]
      /\ \A u \in Calls : tx'[u] = Idle \/ tx'[u] = tx[u]
  BY <1>0, Committing
<1>6. TypeOK'
  BY <1>c, <1>1, <1>3, <1>5, <1>r DEF IInv, TypeOK
<1>7. Elsewhere(o)
  BY <1>1, <1>3, <1>5, <1>r DEF Elsewhere
<1>l. Lasting
  BY <1>1, <1>3, <1>r DEF Lasting
<1>8. OrderInv(o)'
  <2>1. RowInv(o)'
    BY <1>a, <1>1, <1>2, <1>3, <1>r DEF OrderInv, RowInv, CallInv
  <2>2. PastInv(o)' /\ MoneyInv(o)'
    BY <1>1, <1>2, <1>3, <1>r DEF OrderInv, PastInv, MoneyInv, Known, Cancellable
  <2> QED BY <2>1, <2>2 DEF OrderInv
<1>9. ASSUME NEW k \in Quotes, quote[k].status = "none" \/ quote[k].ord = o PROVE QuoteInv(k)'
  <2>1. QuoteInv(k) /\ quote'[k] = quote[k]
    BY <1>1 DEF IInv
  <2>2. CASE quote[k].status = "pending" /\ quote[k].ord = o
    BY <1>3, <1>r, <2>1, <2>2 DEF QuoteInv, Waits
  <2>3. CASE quote[k].status # "pending"
    BY <2>1, <2>3 DEF QuoteInv
  <2> QED BY <1>9, <2>2, <2>3
<1>10. ASSUME NEW i \in Items, owner[i] \in {o, none} PROVE ItemInv(i)'
  <2>1. CASE owner[i] = none
    BY <1>1, <1>5, <2>1 DEF IInv, ItemInv, Holds
  <2> QED BY <1>5, <1>10, <2>1
<1> QED BY <1>c, <1>6, <1>7, <1>l, <1>8, <1>9, <1>10, Localized

-----------------------------------------------------------------------------
(* The second step of a call: the calls that edit items.                   *)

\* What a step leaves of the items of the order it writes, and of the unborn ones.
ItemsFit(o) ==
  /\ owner' \in [Items -> Orders \cup {none}]
  /\ qty' \in [Items -> 0 .. MaxQty]
  /\ out' \in [Items -> Int]
  /\ \A i \in Items :
       /\ owner[i] # none => owner'[i] = owner[i]
       /\ IF owner[i] \in {o, none} THEN owner'[i] \in {o, none} /\ ItemInv(i)'
          ELSE qty'[i] = qty[i] /\ out'[i] = out[i]

\* An order whose parts are all in the workshop, before and after.
Stocked(o) == Whole(o)' => Whole(o) /\ Holds(o) /\ Holds(o)'

\* What is known of the items before the step.
LEMMA Fitting ==
  ASSUME IInv
  PROVE  /\ owner \in [Items -> Orders \cup {none}] /\ qty \in [Items -> 0 .. MaxQty]
         /\ out \in [Items -> Int] /\ MaxQty \in Nat
         /\ \A i \in Items : owner[i] = none => qty[i] = 0 /\ out[i] = 0
         /\ \A i \in Items, o \in Orders :
              owner[i] = o /\ Whole(o) /\ Holds(o) => out[i] = qty[i]
<1>1. /\ owner \in [Items -> Orders \cup {none}] /\ qty \in [Items -> 0 .. MaxQty]
      /\ out \in [Items -> Int] /\ MaxQty \in Nat
  BY SomePieces DEF IInv, TypeOK
<1>2. \A i \in Items : owner[i] = none => qty[i] = 0 /\ out[i] = 0
  BY DEF IInv, ItemInv
<1>3. ASSUME NEW i \in Items, NEW o \in Orders, owner[i] = o, Whole(o), Holds(o)
      PROVE  out[i] = qty[i]
  BY <1>1, <1>3, NoneIsNothing DEF IInv, ItemInv
<1> QED BY <1>1, <1>2, <1>3

\* A row that is written fits if its parts are as many as it says.
LEMMA RowFits ==
  ASSUME IInv, NEW o \in Orders, NEW i \in Items, owner'[i] = o, qty'[i] \in 0 .. MaxQty,
         Whole(o)' => Holds(o)' /\ out'[i] = qty'[i]
  PROVE  ItemInv(i)'
  BY NoneIsNothing, SomePieces DEF ItemInv

\* A row that is left alone fits.
LEMMA RowKept ==
  ASSUME IInv, NEW o \in Orders, Stocked(o), NEW i \in Items, owner[i] \in {o, none},
         owner'[i] = owner[i], qty'[i] = qty[i], out'[i] = out[i]
  PROVE  ItemInv(i)'
<1>1. CASE owner[i] = none
  BY <1>1, Fitting DEF ItemInv
<1>2. CASE owner[i] = o
  BY <1>2, Fitting, RowFits DEF Stocked
<1> QED BY <1>1, <1>2

\* A row of an item is written: n pieces of it are off the shelf.
LEMMA WrittenItem ==
  ASSUME IInv, NEW o \in Orders, Stocked(o), NEW i \in Items, owner[i] \in {o, none},
         NEW n \in 0 .. MaxQty, NEW m \in Int, Whole(o)' => m = n,
         owner' = [owner EXCEPT ![i] = o], qty' = [qty EXCEPT ![i] = n], out' = [out EXCEPT ![i] = m]
  PROVE  ItemsFit(o)
<1>1. /\ owner' \in [Items -> Orders \cup {none}] /\ qty' \in [Items -> 0 .. MaxQty]
      /\ out' \in [Items -> Int]
      /\ owner'[i] = o /\ qty'[i] = n /\ out'[i] = m
      /\ \A j \in Items \ {i} : owner'[j] = owner[j] /\ qty'[j] = qty[j] /\ out'[j] = out[j]
  BY Fitting
<1>2. ItemInv(i)'
  BY <1>1, RowFits DEF Stocked
<1>3. \A j \in Items \ {i} : owner[j] \in {o, none} => ItemInv(j)'
  BY <1>1, RowKept
<1> QED BY <1>1, <1>2, <1>3 DEF ItemsFit

\* Items that a step leaves alone.
LEMMA ItemsKept ==
  ASSUME IInv, NEW o \in Orders, Stocked(o), UNCHANGED itemVars
  PROVE  ItemsFit(o)
<1>1. owner' = owner /\ qty' = qty /\ out' = out
  BY DEF itemVars
<1>2. \A i \in Items : owner[i] \in {o, none} => ItemInv(i)'
  BY <1>1, RowKept
<1> QED BY <1>1, <1>2, Fitting DEF ItemsFit

\* A dearer budget opens a revision on an order that has none.
LEMMA EditStep ==
  ASSUME IInv, NEW t \in Calls, NEW op \in {"add", "change", "remove"}, Commits(t, op), Records(t),
         NEW o \in Orders, o = tx[t].ord, ItemsFit(o), UNCHANGED money,
         \/ op # "remove" /\ NeedsRevision(t) /\ Revises(t, o)
         \/ UNCHANGED <<ord, quote>> /\ (UNCHANGED past \/ Enters(o, tx[t].saw.status, tx[t].saw.status))
  PROVE  IInv'
<1> USE NoneIsNothing
<1>0. op \in Op \ Guarded
  BY DEF Op, Guarded
<1>1. /\ CallInv(t) /\ OrderInv(o) /\ ord[o] \in OrderRow /\ ord \in [Orders -> OrderRow]
      /\ tx[t].op = op
      /\ tx' \in [Calls -> Call \cup {Idle}]
      /\ \A u \in Calls : tx'[u] = Idle \/ tx'[u] = tx[u]
  BY <1>0, Committing DEF IInv, TypeOK
<1>2. tx[t].saw.status \in Known /\ Editable(tx[t].saw.status) /\ ord[o].status # "NONE"
  BY <1>1 DEF CallInv
<1>r. /\ strayed' \in [Orders -> SUBSET Stray]
      /\ strayed[o] \subseteq strayed'[o]
      /\ \A p \in Orders \ {o} : strayed'[p] = strayed[p]
      /\ Straight(o)' => /\ Straight(o) /\ ord[o].status = tx[t].saw.status
                         /\ ord[o].quote = tx[t].saw.quote
      /\ Solvent(o)' => /\ Solvent(o) /\ Straight(o)'
                        /\ op # "remove" =>
                             ord[o].status # "READY_FOR_PICKUP" \/ ord'[o].status = "READY_FOR_PICKUP"
  BY <1>0, <1>1, Recorded
<1>4. money' \in [Orders -> MoneyRow] /\ money' = money
  BY DEF IInv, TypeOK
<1>5. CASE op # "remove" /\ NeedsRevision(t) /\ Revises(t, o)
  <2>1. PICK k \in Quotes :
          /\ quote[k].status = "none"
          /\ quote' = [quote EXCEPT ![k] = [ord |-> o, status |-> "pending",
                                            snap |-> [i \in Of(o) |-> qty[i]]]]
          /\ ord' = [ord EXCEPT ![o].quote = k, ![o].status = "WAITING_APPROVAL"]
          /\ Enters(o, "WAITING_APPROVAL", tx[t].saw.status)
    BY <1>5, Zenon DEF Revises
  <2>2. Straight(o)' => ord[o].quote = none
    BY <1>5, <1>r DEF NeedsRevision
  <2>3. [i \in Of(o) |-> qty[i]] \in Snapshot
    <3>1. Of(o) \in SUBSET Items /\ \A i \in Of(o) : qty[i] \in 1 .. MaxQty
      BY SomePieces DEF Of, IInv, TypeOK
    <3>2. [i \in Of(o) |-> qty[i]] \in [Of(o) -> 1 .. MaxQty]
      BY <3>1
    <3> QED BY <3>1, <3>2 DEF Snapshot
  <2>4. /\ quote' \in [Quotes -> QuoteRow] /\ quote'[k].ord = o /\ quote'[k].status = "pending"
        /\ \A j \in Quotes \ {k} : quote'[j] = quote[j]
    BY <2>1, <2>3, SMTT(30) DEF IInv, TypeOK, QuoteRow
  <2>5. /\ ord' \in [Orders -> OrderRow]
        /\ ord'[o].quote = k /\ ord'[o].status = "WAITING_APPROVAL"
        /\ ord'[o].deleted = ord[o].deleted
        /\ \A p \in Orders \ {o} : ord'[p] = ord[p]
    <3>1. "WAITING_APPROVAL" \in Status
      BY DEF Status, Working
    <3> QED BY <1>1, <2>1, <3>1 DEF OrderRow
  <2>6. /\ past' \in [Orders -> PastRow] /\ PastInv(o)'
        /\ past'[o].origin \in {past[o].origin, tx[t].saw.status}
        /\ past'[o].wait \in {past[o].wait, tx[t].saw.status}
        /\ \A p \in Orders \ {o} : past'[p] = past[p]
    BY <1>2, <2>1, Remembered
  <2>7. TypeOK'
    BY <1>1, <1>4, <1>r, <2>4, <2>5, <2>6, SMTT(30) DEF TypeOK, ItemsFit
  <2>8. Elsewhere(o)
    BY <1>4, <1>r, <2>1, <2>4, <2>5, <2>6 DEF Elsewhere, ItemsFit
  <2>l. Lasting
    BY <1>r, <2>1, <2>4, <2>5 DEF Lasting, ItemsFit
  <2>9. OrderInv(o)'
    <3>1. RowInv(o)'
      BY <2>4, <2>5 DEF RowInv
    <3>2. MoneyInv(o)'
      <4> SUFFICES ASSUME Solvent(o)'
                   PROVE  /\ money[o].shelved = 0 /\ money[o].cash = 0
                          /\ money[o].sales + money[o].open + money[o].paid = money[o].cash
                          /\ past'[o].origin \notin Refundable /\ past'[o].wait \notin Refundable
        BY <1>4, <2>5 DEF MoneyInv, Refundable
      <4>1. /\ ord[o].status = tx[t].saw.status
            /\ ord[o].status \notin {"READY_FOR_PICKUP", "PAID", "DELIVERED"}
        BY <1>2, <1>5, <1>r, <2>5 DEF Editable
      <4> QED BY <1>1, <1>r, <2>6, <4>1 DEF OrderInv, MoneyInv, Refundable
    <3> QED BY <2>6, <3>1, <3>2 DEF OrderInv
  <2>10. ASSUME NEW j \in Quotes, quote[j].status = "none" \/ quote[j].ord = o PROVE QuoteInv(j)'
    <3>1. CASE j = k
      BY <2>4, <2>5, <3>1 DEF QuoteInv, Waits
    <3>2. CASE j # k
      <4>1. quote'[j] = quote[j] /\ QuoteInv(j)
        BY <2>4, <3>2 DEF IInv
      <4>2. quote[j].status = "pending" => ~Straight(o)'
        BY <1>r, <2>2, <2>10, Pending
      <4>3. quote[j].status = "pending" => quote[j].ord = o
        BY <2>10
      <4> QED BY <4>1, <4>2, <4>3 DEF QuoteInv
    <3> QED BY <3>1, <3>2
  <2>11. \A i \in Items : owner[i] \in {o, none} => ItemInv(i)'
    BY DEF ItemsFit
  <2> QED BY <1>1, <2>7, <2>8, <2>l, <2>9, <2>10, <2>11, Localized, SMTT(30)
<1>6. CASE UNCHANGED <<ord, quote>> /\ (UNCHANGED past \/ Enters(o, tx[t].saw.status, tx[t].saw.status))
  <2>1. /\ past' \in [Orders -> PastRow] /\ PastInv(o)' /\ past'[o].cancel = past[o].cancel
        /\ past'[o].origin \in {past[o].origin, "WAITING_APPROVAL"}
        /\ past'[o].wait \in {past[o].wait, "WAITING_APPROVAL"}
        /\ \A p \in Orders \ {o} : past'[p] = past[p]
    <3>1. CASE UNCHANGED past
      BY <1>1, <3>1 DEF IInv, TypeOK, OrderInv, PastInv, Known, Cancellable
    <3>2. CASE Enters(o, tx[t].saw.status, tx[t].saw.status)
      BY <1>2, <3>2, Remembered
    <3> QED BY <1>6, <3>1, <3>2
  <2>2. TypeOK'
    BY <1>1, <1>4, <1>6, <1>r, <2>1 DEF IInv, TypeOK, ItemsFit
  <2>3. Elsewhere(o)
    BY <1>4, <1>6, <1>r, <2>1 DEF Elsewhere, ItemsFit
  <2>l. Lasting
    BY <1>6, <1>r DEF Lasting, ItemsFit
  <2>4. OrderInv(o)'
    <3>1. RowInv(o)'
      BY <1>1, <1>6, <1>r DEF OrderInv, RowInv
    <3>2. MoneyInv(o)'
      BY <1>1, <1>4, <1>6, <1>r, <2>1 DEF OrderInv, MoneyInv, Refundable
    <3> QED BY <2>1, <3>1, <3>2 DEF OrderInv
  <2>5. ASSUME NEW j \in Quotes, quote[j].status = "none" \/ quote[j].ord = o PROVE QuoteInv(j)'
    <3>1. quote'[j] = quote[j] /\ QuoteInv(j)
      BY <1>6 DEF IInv
    <3>2. CASE quote[j].status = "pending" /\ quote[j].ord = o
      BY <1>6, <1>r, <2>1, <3>1, <3>2 DEF QuoteInv, Waits
    <3>3. CASE quote[j].status # "pending"
      BY <3>1, <3>3 DEF QuoteInv
    <3> QED BY <2>5, <3>2, <3>3
  <2>6. \A i \in Items : owner[i] \in {o, none} => ItemInv(i)'
    BY DEF ItemsFit
  <2> QED BY <1>1, <2>2, <2>3, <2>l, <2>4, <2>5, <2>6, Localized
<1> QED BY <1>5, <1>6

\* Of an order that did not stray, the items that are edited lie in the workshop.
LEMMA EditedStocked ==
  ASSUME IInv, NEW t \in Calls, NEW op \in {"add", "change", "remove"}, Commits(t, op), Records(t),
         NEW o \in Orders, o = tx[t].ord,
         (NeedsRevision(t) /\ Revises(t, o)) \/ UNCHANGED ord
  PROVE  /\ Stocked(o)
         /\ Whole(o)' => Whole(o) /\ Holds(o) /\ (op # "add" => qty[tx[t].of] = tx[t].qty)
<1>0. op \in Op \ Guarded
  BY DEF Op, Guarded
<1>1. CallInv(t) /\ tx[t].op = op /\ ord[o] \in OrderRow
  BY <1>0, Committing DEF IInv, TypeOK
<1>2. Whole(o)' => /\ Whole(o) /\ ord[o].status = tx[t].saw.status /\ ~ord[o].deleted
                   /\ op # "add" => qty[tx[t].of] = tx[t].qty
  BY <1>0, <1>1, Recorded DEF CallInv
<1>3. Editable(tx[t].saw.status)
  BY <1>1 DEF CallInv
<1>4. ord'[o].deleted = ord[o].deleted /\ ord'[o].status \in {ord[o].status, "WAITING_APPROVAL"}
  <2>1. CASE UNCHANGED ord
    BY <2>1
  <2>2. CASE Revises(t, o)
    <3>1. PICK k \in Quotes : ord' = [ord EXCEPT ![o].quote = k, ![o].status = "WAITING_APPROVAL"]
      BY <2>2, Zenon DEF Revises
    <3> QED BY <1>1, <3>1 DEF IInv, TypeOK, OrderRow
  <2> QED BY <2>1, <2>2
<1> QED BY <1>2, <1>3, <1>4 DEF Stocked, Holds, Undone, Editable

\* An item that is added, changed or removed.
LEMMA ItemSteps ==
  ASSUME IInv, NEW t \in Calls, AddItem(t) \/ ChangeItem(t) \/ RemoveItem(t)
  PROVE  IInv'
<1> USE NoneIsNothing
<1>0. PICK op \in {"add", "change", "remove"} :
        /\ Commits(t, op) /\ Records(t) /\ (AddItem(t) \/ op # "add")
        /\ (ChangeItem(t) \/ op # "change") /\ (RemoveItem(t) \/ op # "remove")
  BY DEF AddItem, ChangeItem, RemoveItem
<1>1. op \in Op
  BY DEF Op
<1>2. PICK o \in Orders : o = tx[t].ord
  BY <1>0, <1>1, Committing
<1>3. CallInv(t) /\ tx[t].op = op /\ tx[t] \in Call
  BY <1>0, <1>1, <1>2, Committing
<1>4. /\ \/ op # "remove" /\ NeedsRevision(t) /\ Revises(t, o)
         \/ /\ UNCHANGED <<ord, quote>>
            /\ UNCHANGED past \/ Enters(o, tx[t].saw.status, tx[t].saw.status)
      /\ UNCHANGED money
  BY <1>0, <1>2, Zenon DEF AddItem, ChangeItem, RemoveItem
<1>s. /\ Stocked(o)
      /\ Whole(o)' => Whole(o) /\ Holds(o) /\ (op # "add" => qty[tx[t].of] = tx[t].qty)
  BY <1>0, <1>2, <1>4, EditedStocked
<1>5. CASE op = "add"
  <2>1. PICK i \in Unborn, n \in 1 .. MaxQty :
          /\ owner' = [owner EXCEPT ![i] = o] /\ qty' = [qty EXCEPT ![i] = n]
          /\ out' = [out EXCEPT ![i] = out[i] + n]
    BY <1>0, <1>2, <1>5 DEF AddItem
  <2>2. i \in Items /\ owner[i] = none
    BY DEF Unborn
  <2>3. out[i] + n = n /\ out[i] + n \in Int /\ n \in 0 .. MaxQty
    BY <2>2, Fitting
  <2>4. ItemsFit(o)
    BY <1>s, <2>1, <2>2, <2>3, WrittenItem
  <2> QED BY <1>0, <1>2, <1>4, <2>4, EditStep
<1>6. CASE op \in {"change", "remove"}
  <2>1. PICK i \in Items : i = tx[t].of /\ owner[i] = o
    BY <1>2, <1>3, <1>6 DEF CallInv
  <2>2. PICK n \in 0 .. MaxQty :
          qty' = [qty EXCEPT ![i] = n] /\ out' = [out EXCEPT ![i] = out[i] + n - tx[t].qty]
    <3>1. CASE op = "change"
      <4>1. PICK n \in 1 .. MaxQty :
              qty' = [qty EXCEPT ![i] = n] /\ out' = [out EXCEPT ![i] = out[i] + n - tx[t].qty]
        BY <1>0, <2>1, <3>1 DEF ChangeItem
      <4>2. n \in 0 .. MaxQty
        BY SomePieces
      <4> QED BY <4>1, <4>2
    <3>2. CASE op = "remove"
      <4>1. qty' = [qty EXCEPT ![i] = 0] /\ out' = [out EXCEPT ![i] = out[i] - tx[t].qty]
        BY <1>0, <2>1, <3>2 DEF RemoveItem
      <4>2. out[i] - tx[t].qty = out[i] + 0 - tx[t].qty /\ 0 \in 0 .. MaxQty
        BY <1>3, Fitting, SomePieces DEF Call
      <4> QED BY <4>1, <4>2
    <3> QED BY <1>6, <3>1, <3>2
  <2>3. owner' = [owner EXCEPT ![i] = o]
    <3>1. owner' = owner
      BY <1>0, <1>6 DEF ChangeItem, RemoveItem
    <3> QED BY <2>1, <3>1, Fitting
  <2>4. /\ out[i] + n - tx[t].qty \in Int
        /\ Whole(o)' => out[i] + n - tx[t].qty = n
    <3>1. out[i] \in Int /\ tx[t].qty \in Int /\ n \in Int
      BY <1>3, Fitting, SomePieces DEF Call
    <3>2. Whole(o)' => out[i] = tx[t].qty
      BY <1>s, <1>6, <2>1, Fitting
    <3> QED BY <3>1, <3>2
  <2>5. ItemsFit(o)
    BY <1>s, <2>1, <2>2, <2>3, <2>4, WrittenItem
  <2> QED BY <1>0, <1>2, <1>4, <2>5, EditStep
<1> QED BY <1>5, <1>6

-----------------------------------------------------------------------------
(* The second step of a call: the answers to a revision.                   *)

\* A revision of an order is answered and the order goes where it may.
LEMMA AnswerStep ==
  ASSUME IInv, NEW t \in Calls, NEW op \in Answers, Commits(t, op), Records(t),
         NEW o \in Orders, o = tx[t].ord, NEW k \in Quotes, k = tx[t].of,
         NEW answer \in {"approved", "rejected"}, NEW s \in Known, Solvent(o) => s \notin Refundable,
         Answered(o, k, answer, s), ItemsFit(o), UNCHANGED <<past, money>>
  PROVE  IInv'
<1> USE NoneIsNothing
<1>0. op \in Op \ Guarded
  BY DEF Op, Guarded, Answers
<1>1. /\ CallInv(t) /\ OrderInv(o) /\ ord[o] \in OrderRow /\ ord \in [Orders -> OrderRow]
      /\ tx[t].op = op
      /\ tx' \in [Calls -> Call \cup {Idle}]
      /\ \A u \in Calls : tx'[u] = Idle \/ tx'[u] = tx[u]
  BY <1>0, Committing DEF IInv, TypeOK
<1>2. /\ quote[k].ord = o /\ quote[k].status # "none" /\ ~tx[t].saw.deleted
      /\ Straight(o) => tx[t].saw.quote = k
  BY <1>1 DEF CallInv
<1>r. /\ strayed' \in [Orders -> SUBSET Stray]
      /\ strayed[o] \subseteq strayed'[o]
      /\ \A p \in Orders \ {o} : strayed'[p] = strayed[p]
      /\ Straight(o)' => /\ Straight(o) /\ ord[o].deleted = tx[t].saw.deleted
                         /\ ord[o].quote = tx[t].saw.quote
      /\ Solvent(o)' => Solvent(o) /\ Straight(o)'
  BY <1>0, <1>1, Recorded
<1>3. Straight(o)' => ord[o].quote = k /\ quote[k].status = "pending" /\ Waits(o) /\ ~ord[o].deleted
  BY <1>1, <1>2, <1>r, Pending DEF OrderInv, RowInv
<1>4. /\ ord' \in [Orders -> OrderRow]
      /\ ord'[o].quote = none /\ ord'[o].status = s /\ ord'[o].deleted = ord[o].deleted
      /\ \A p \in Orders \ {o} : ord'[p] = ord[p]
  BY <1>1 DEF Answered, OrderRow, Known
<1>5. /\ quote' \in [Quotes -> QuoteRow]
      /\ quote'[k].ord = o /\ quote'[k].status = answer
      /\ \A j \in Quotes \ {k} : quote'[j] = quote[j]
  BY <1>2 DEF IInv, TypeOK, Answered, QuoteRow
<1>6. TypeOK'
  BY <1>1, <1>4, <1>5, <1>r DEF IInv, TypeOK, ItemsFit
<1>7. Elsewhere(o)
  BY <1>2, <1>4, <1>5, <1>r DEF Elsewhere, ItemsFit
<1>l. Lasting
  BY <1>2, <1>4, <1>5, <1>r DEF Lasting, ItemsFit, Known
<1>8. OrderInv(o)'
  <2>1. RowInv(o)'
    BY <1>4 DEF RowInv, Known
  <2>2. PastInv(o)'
    BY <1>1 DEF OrderInv, PastInv, Known, Cancellable
  <2>3. Solvent(o)' => ord[o].status \notin Refundable
    BY <1>3, <1>r DEF Waits, Refundable
  <2>4. MoneyInv(o)'
    BY <1>1, <1>4, <1>r, <2>3 DEF OrderInv, MoneyInv
  <2> QED BY <2>1, <2>2, <2>4 DEF OrderInv
<1>9. ASSUME NEW j \in Quotes, quote[j].status = "none" \/ quote[j].ord = o PROVE QuoteInv(j)'
  <2>1. CASE j = k
    BY <1>5, <2>1 DEF QuoteInv
  <2>2. CASE j # k
    <3>1. quote'[j] = quote[j] /\ QuoteInv(j)
      BY <1>5, <2>2 DEF IInv
    <3>2. quote[j].status = "pending" => quote[j].ord = o /\ ~Straight(o)'
      BY <1>3, <1>9, <1>r, <2>2, Pending
    <3> QED BY <3>1, <3>2 DEF QuoteInv
  <2> QED BY <2>1, <2>2
<1>10. \A i \in Items : owner[i] \in {o, none} => ItemInv(i)'
  BY DEF ItemsFit
<1> QED BY <1>1, <1>6, <1>7, <1>l, <1>8, <1>9, <1>10, Localized

\* Where an answer sends the order.
LEMMA Restored ==
  ASSUME IInv, NEW o \in Orders, NEW otherwise \in {"APPROVED", "IN_DIAGNOSIS"},
         NEW from \in {past[o].origin, past[o].wait}
  PROVE  /\ statusAfterQuote(from, otherwise) \in Known
         /\ Solvent(o) => statusAfterQuote(from, otherwise) \notin Refundable
<1>1. otherwise \in Known \ Refundable
  BY DEF Known, Status, Working, Refundable
<1>2. PastInv(o) /\ MoneyInv(o)
  BY DEF IInv, OrderInv
<1> QED BY <1>1, <1>2 DEF PastInv, MoneyInv, statusAfterQuote

\* Items that are put back to the revision's snapshot.
LEMMA ItemsReverted ==
  ASSUME IInv, NEW o \in Orders, Stocked(o), NEW k \in Quotes, Reverts(o, quote[k].snap)
  PROVE  ItemsFit(o)
<1> USE NoneIsNothing
<1> DEFINE snap == quote[k].snap
<1>1. PICK S \in SUBSET Items : snap \in [S -> 1 .. MaxQty]
  <2>1. quote[k].snap \in Snapshot
    BY DEF IInv, TypeOK, QuoteRow
  <2> QED BY <2>1 DEF Snapshot
<1>2. PICK new \in [DOMAIN snap -> Unborn] :
        /\ \A i, j \in DOMAIN snap : new[i] = new[j] => i = j
        /\ LET back(i) == CHOOSE j \in DOMAIN snap : new[j] = i
               Fresh == {new[j] : j \in DOMAIN snap}
           IN
           /\ owner' = [i \in Items |-> IF i \in Fresh THEN o ELSE owner[i]]
           /\ qty' = [i \in Items |-> IF i \in Fresh THEN snap[back(i)]
                                      ELSE IF i \in Of(o) THEN 0 ELSE qty[i]]
           /\ out' = [i \in Items |-> IF i \in Fresh THEN out[i] + snap[back(i)]
                                      ELSE IF i \in Of(o) THEN out[i] - qty[i] ELSE out[i]]
  BY DEF Reverts
<1> DEFINE back(i) == CHOOSE j \in DOMAIN snap : new[j] = i
           Fresh == {new[j] : j \in DOMAIN snap}
<1>3. ASSUME NEW i \in Items PROVE
        /\ owner'[i] = IF i \in Fresh THEN o ELSE owner[i]
        /\ qty'[i] = IF i \in Fresh THEN snap[back(i)] ELSE IF i \in Of(o) THEN 0 ELSE qty[i]
        /\ out'[i] = IF i \in Fresh THEN out[i] + snap[back(i)]
                     ELSE IF i \in Of(o) THEN out[i] - qty[i] ELSE out[i]
  BY <1>2
<1>4. ASSUME NEW i \in Fresh PROVE snap[back(i)] \in 1 .. MaxQty
  <2>1. \E j \in DOMAIN snap : new[j] = i
    OBVIOUS
  <2>2. back(i) \in DOMAIN snap
    BY <2>1
  <2> QED BY <1>1, <2>2
<1>5. ASSUME NEW i \in Items PROVE
        /\ owner'[i] \in Orders \cup {none} /\ qty'[i] \in 0 .. MaxQty /\ out'[i] \in Int
        /\ owner[i] # none => owner'[i] = owner[i]
        /\ IF owner[i] \in {o, none} THEN owner'[i] \in {o, none} /\ ItemInv(i)'
           ELSE qty'[i] = qty[i] /\ out'[i] = out[i]
  <2> HIDE DEF Fresh, back, snap
  <2>1. owner[i] \in Orders \cup {none} /\ qty[i] \in 0 .. MaxQty /\ out[i] \in Int /\ MaxQty \in Nat
    BY Fitting
  <2>3. CASE i \in Fresh
    <3>1. owner[i] = none
      BY <1>2, <2>3 DEF Unborn, Fresh
    <3>2. snap[back(i)] \in 1 .. MaxQty /\ out[i] = 0
      BY <1>4, <2>3, <3>1, Fitting
    <3>3. owner'[i] = o /\ qty'[i] = snap[back(i)] /\ out'[i] = qty'[i]
      BY <1>3, <2>3, <3>2
    <3>4. qty'[i] \in 0 .. MaxQty /\ out'[i] \in Int
      BY <2>1, <3>2, <3>3
    <3>5. ItemInv(i)'
      BY <3>3, <3>4, RowFits DEF Stocked
    <3> QED BY <3>1, <3>3, <3>4, <3>5
  <2>4. CASE i \notin Fresh /\ i \in Of(o)
    <3>1. owner'[i] = owner[i] /\ qty'[i] = 0 /\ out'[i] = out[i] - qty[i] /\ owner[i] = o
      BY <1>3, <2>4 DEF Of
    <3>2. Whole(o)' => out'[i] = 0
      BY <2>1, <3>1, Fitting DEF Stocked
    <3>3. out'[i] \in Int /\ qty'[i] \in 0 .. MaxQty
      BY <2>1, <3>1
    <3>4. ItemInv(i)'
      BY <3>1, <3>2, <3>3, RowFits DEF Stocked
    <3> QED BY <3>1, <3>3, <3>4
  <2>5. CASE i \notin Fresh /\ i \notin Of(o)
    <3>1. owner'[i] = owner[i] /\ qty'[i] = qty[i] /\ out'[i] = out[i]
      BY <1>3, <2>5
    <3>2. owner[i] \in {o, none} => ItemInv(i)'
      BY <3>1, RowKept
    <3> QED BY <2>1, <3>1, <3>2
  <2> QED BY <2>3, <2>4, <2>5
<1>6. /\ owner' = [i \in Items |-> owner'[i]] /\ qty' = [i \in Items |-> qty'[i]]
      /\ out' = [i \in Items |-> out'[i]]
  BY <1>2
<1> HIDE DEF Fresh, back, snap
<1> QED BY <1>5, <1>6 DEF ItemsFit

\* Of an order that did not stray, an answer finds the parts in the workshop and
\* leaves them there.
LEMMA AnsweredStocked ==
  ASSUME IInv, NEW t \in Calls, NEW op \in Answers, Commits(t, op), Records(t),
         NEW o \in Orders, o = tx[t].ord, NEW k \in Quotes, NEW answer, NEW s,
         Answered(o, k, answer, s), op = "reject" => s \notin Undone
  PROVE  Stocked(o)
<1>0. op \in Op \ Guarded
  BY DEF Op, Guarded, Answers
<1>1. CallInv(t) /\ tx[t].op = op /\ ord[o] \in OrderRow
  BY <1>0, Committing DEF IInv, TypeOK
<1>2. ord'[o].deleted = ord[o].deleted /\ ord'[o].status = s
  BY <1>1 DEF Answered, IInv, TypeOK, OrderRow
<1>3. Whole(o)' => /\ Whole(o) /\ ord[o].status = tx[t].saw.status /\ ~ord[o].deleted
                   /\ op = "sign" => ord[o].status = "WAITING_APPROVAL"
                   /\ op # "reject" => s \notin Undone
  BY <1>0, <1>1, <1>2, Recorded DEF CallInv, Answers
<1>4. op # "sign" => tx[t].saw.status \notin Undone
  BY <1>1 DEF CallInv, Answers
<1> QED BY <1>2, <1>3, <1>4 DEF Stocked, Holds, Undone

\* The four answers.
LEMMA AnswerSteps ==
  ASSUME IInv, NEW t \in Calls, Approve(t) \/ Reject(t) \/ Sign(t) \/ Withdraw(t)
  PROVE  IInv'
<1> USE NoneIsNothing
<1>0. PICK op \in Answers :
        /\ Commits(t, op) /\ Records(t) /\ (Approve(t) \/ op # "approve") /\ (Reject(t) \/ op # "reject")
        /\ (Sign(t) \/ op # "sign") /\ (Withdraw(t) \/ op # "withdraw")
  BY DEF Approve, Reject, Sign, Withdraw, Answers
<1>1. op \in Op
  BY DEF Op, Answers
<1>2. PICK o \in Orders, k \in Quotes : o = tx[t].ord /\ k = tx[t].of
  BY <1>0, <1>1, Committing DEF CallInv
<1>6. CASE op = "approve"
  <2>1. Answered(o, k, "approved", statusAfterQuote(past[o].origin, "APPROVED"))
        /\ UNCHANGED <<past, money>> /\ UNCHANGED itemVars
    BY <1>0, <1>2, <1>6 DEF Approve
  <2>2. ItemsFit(o)
    BY <1>0, <1>2, <1>6, <2>1, ItemsKept, AnsweredStocked
  <2> QED BY <1>0, <1>2, <2>1, <2>2, Restored, AnswerStep
<1>7. CASE op = "sign"
  <2>1. Answered(o, k, "approved", statusAfterQuote(past[o].wait, "APPROVED"))
        /\ UNCHANGED <<past, money>> /\ UNCHANGED itemVars
    BY <1>0, <1>2, <1>7 DEF Sign
  <2>2. ItemsFit(o)
    BY <1>0, <1>2, <1>7, <2>1, ItemsKept, AnsweredStocked
  <2> QED BY <1>0, <1>2, <2>1, <2>2, Restored, AnswerStep
<1>8. CASE op = "reject"
  <2>1. Answered(o, k, "rejected", "IN_DIAGNOSIS") /\ UNCHANGED <<past, money>>
        /\ Reverts(o, quote[k].snap)
    BY <1>0, <1>2, <1>8 DEF Reject
  <2>2. "IN_DIAGNOSIS" \in Known /\ "IN_DIAGNOSIS" \notin Refundable \cup Undone
    BY DEF Known, Status, Working, Refundable, Undone
  <2>3. ItemsFit(o)
    BY <1>0, <1>2, <2>1, <2>2, ItemsReverted, AnsweredStocked
  <2> QED BY <1>0, <1>2, <2>1, <2>2, <2>3, AnswerStep
<1>9. CASE op = "withdraw"
  <2>1. Answered(o, k, "rejected", statusAfterQuote(past[o].origin, "IN_DIAGNOSIS"))
        /\ UNCHANGED <<past, money>> /\ Reverts(o, quote[k].snap)
    BY <1>0, <1>2, <1>9 DEF Withdraw
  <2>2. ItemsFit(o)
    BY <1>0, <1>2, <1>9, <2>1, ItemsReverted, AnsweredStocked
  <2> QED BY <1>0, <1>2, <2>1, <2>2, Restored, AnswerStep
<1> QED BY <1>6, <1>7, <1>8, <1>9 DEF Answers

-----------------------------------------------------------------------------
(* Steps of their own.                                                     *)

\* A new order holds no part, and no revision of it can be pending.
LEMMA CreateStep ==
  ASSUME IInv, NEW o \in Orders, Create(o) PROVE IInv'
<1> USE NoneIsNothing
<1>1. ord[o].status = "NONE" /\ SetStatus(o, "OPEN") /\ UNCHANGED <<past, quote, money, tx, strayed>>
  BY DEF Create
<1>2. ~ord[o].deleted /\ OrderInv(o) /\ ord \in [Orders -> OrderRow] /\ ord[o] \in OrderRow
  BY <1>1 DEF IInv, TypeOK, OrderInv, RowInv
<1>3. /\ ord' \in [Orders -> OrderRow]
      /\ ord'[o].status = "OPEN" /\ ~ord'[o].deleted /\ ord'[o].quote = ord[o].quote
      /\ \A p \in Orders \ {o} : ord'[p] = ord[p]
  <2>1. "OPEN" \in Status
    BY DEF Status, Working
  <2> QED BY <1>1, <1>2, <2>1 DEF SetStatus, OrderRow
<1>4. Stocked(o)
  BY <1>1, <1>2, <1>3 DEF Stocked, Whole, Holds, Undone
<1>5. ItemsFit(o)
  <2>1. CASE UNCHANGED itemVars
    BY <1>4, <2>1, ItemsKept
  <2>2. CASE \E i \in Unborn :
          /\ owner' = [owner EXCEPT ![i] = o] /\ qty' = [qty EXCEPT ![i] = 1]
          /\ out' = [out EXCEPT ![i] = @ + 1]
    <3>1. PICK i \in Items :
            /\ owner[i] = none
            /\ owner' = [owner EXCEPT ![i] = o] /\ qty' = [qty EXCEPT ![i] = 1]
            /\ out' = [out EXCEPT ![i] = out[i] + 1]
      BY <2>2 DEF Unborn
    <3>2. out[i] + 1 = 1 /\ out[i] + 1 \in Int /\ 1 \in 0 .. MaxQty
      BY <3>1, Fitting, SomePieces
    <3> QED BY <1>4, <3>1, <3>2, WrittenItem
  <2> QED BY <2>1, <2>2 DEF Create
<1>6. TypeOK'
  BY <1>1, <1>3, <1>5 DEF IInv, TypeOK, ItemsFit
<1>7. Elsewhere(o)
  BY <1>1, <1>3, <1>5 DEF Elsewhere, ItemsFit
<1>l. Lasting
  BY <1>1, <1>3, <1>5 DEF Lasting, ItemsFit
<1>8. OrderInv(o)'
  BY <1>1, <1>2, <1>3
  DEF OrderInv, RowInv, PastInv, MoneyInv, Refundable, Straight, Solvent, Known, Cancellable
<1>9. ASSUME NEW k \in Quotes, quote[k].status = "none" \/ quote[k].ord = o PROVE QuoteInv(k)'
  <2>1. QuoteInv(k) /\ quote'[k] = quote[k] /\ strayed' = strayed
    BY <1>1 DEF IInv
  <2>2. quote[k].status = "pending" => ~Straight(o) /\ quote[k].ord = o
    BY <1>1, <1>2, <1>9, <2>1 DEF QuoteInv, Waits
  <2> QED BY <2>1, <2>2 DEF QuoteInv, Straight
<1>10. \A i \in Items : owner[i] \in {o, none} => ItemInv(i)'
  BY <1>5 DEF ItemsFit
<1>11. \A u \in Calls : tx'[u] = Idle \/ tx'[u] = tx[u]
  BY <1>1
<1> QED BY <1>6, <1>7, <1>l, <1>8, <1>9, <1>10, <1>11, Localized

\* The steps that touch neither status nor items.
LEMMA SmallStep ==
  ASSUME IInv, NEW o \in Orders, ConfirmEntry(o) \/ OpenDraft(o) \/ DropDraft(o) PROVE IInv'
<1> USE NoneIsNothing
<1>1. UNCHANGED <<past, itemVars, quote, tx, strayed>>
  BY DEF ConfirmEntry, OpenDraft, DropDraft
<1>2. /\ ord' \in [Orders -> OrderRow]
      /\ ord'[o].status = ord[o].status /\ ord'[o].deleted = ord[o].deleted
      /\ ord'[o].quote = ord[o].quote
      /\ \A p \in Orders \ {o} : ord'[p] = ord[p]
  <2>1. ord \in [Orders -> OrderRow] /\ ord[o] \in OrderRow
    BY DEF IInv, TypeOK
  <2>2. CASE ConfirmEntry(o)
    <3>1. ord' = [ord EXCEPT ![o] = [ord[o] EXCEPT !.signed = TRUE]]
      BY <2>1, <2>2 DEF ConfirmEntry
    <3>2. [ord[o] EXCEPT !.signed = TRUE] \in OrderRow
      BY <2>1 DEF OrderRow
    <3>3. /\ ord'[o] = [ord[o] EXCEPT !.signed = TRUE]
          /\ \A p \in Orders \ {o} : ord'[p] = ord[p]
      BY <2>1, <3>1
    <3>4. ord' \in [Orders -> OrderRow]
      BY <2>1, <3>1, <3>2
    <3> QED BY <2>1, <3>3, <3>4 DEF OrderRow
  <2>3. CASE OpenDraft(o) \/ DropDraft(o)
    BY <2>1, <2>3 DEF OpenDraft, DropDraft
  <2> QED BY <2>2, <2>3
<1>3. /\ money' \in [Orders -> MoneyRow]
      /\ money'[o].cash = money[o].cash /\ money'[o].shelved = money[o].shelved
      /\ money'[o].sales = money[o].sales /\ money'[o].open = money[o].open
      /\ money'[o].paid = money[o].paid
      /\ \A p \in Orders \ {o} : money'[p] = money[p]
  <2>1. money \in [Orders -> MoneyRow] /\ money[o] \in MoneyRow
    BY DEF IInv, TypeOK
  <2>2. ASSUME NEW b \in BOOLEAN, money' = [money EXCEPT ![o].draft = b]
        PROVE  /\ money' \in [Orders -> MoneyRow]
               /\ money'[o].cash = money[o].cash /\ money'[o].shelved = money[o].shelved
               /\ money'[o].sales = money[o].sales /\ money'[o].open = money[o].open
               /\ money'[o].paid = money[o].paid
               /\ \A p \in Orders \ {o} : money'[p] = money[p]
    <3>1. money' = [money EXCEPT ![o] = [money[o] EXCEPT !.draft = b]]
      BY <2>1, <2>2
    <3>2. [money[o] EXCEPT !.draft = b] \in MoneyRow
      BY <2>1 DEF MoneyRow
    <3>3. /\ money'[o] = [money[o] EXCEPT !.draft = b]
          /\ \A p \in Orders \ {o} : money'[p] = money[p]
      BY <2>1, <3>1
    <3>4. money' \in [Orders -> MoneyRow]
      BY <2>1, <3>1, <3>2
    <3> QED BY <2>1, <3>3, <3>4 DEF MoneyRow
  <2>3. CASE ConfirmEntry(o)
    BY <2>1, <2>3 DEF ConfirmEntry
  <2> QED BY <2>2, <2>3 DEF OpenDraft, DropDraft
<1>4. TypeOK'
  BY <1>1, <1>2, <1>3 DEF IInv, TypeOK, itemVars
<1>5. Elsewhere(o)
  BY <1>1, <1>2, <1>3 DEF Elsewhere, itemVars
<1>l. Lasting
  BY <1>1, <1>2 DEF Lasting, itemVars
<1>6. OrderInv(o)'
  <2>1. OrderInv(o)
    BY DEF IInv
  <2> QED BY <1>1, <1>2, <1>3, <2>1
      DEF OrderInv, RowInv, PastInv, MoneyInv, Straight, Solvent, Known, Cancellable
<1>7. ASSUME NEW k \in Quotes, quote[k].status = "none" \/ quote[k].ord = o PROVE QuoteInv(k)'
  <2>1. QuoteInv(k)
    BY DEF IInv
  <2> QED BY <1>1, <1>2, <1>7, <2>1 DEF QuoteInv, Waits, Straight
<1>8. ASSUME NEW i \in Items, owner[i] \in {o, none} PROVE ItemInv(i)'
  <2>1. ItemInv(i)
    BY DEF IInv
  <2>2. CASE owner[i] = o
    BY <1>1, <1>2, <2>1, <2>2 DEF ItemInv, Holds, Whole, itemVars
  <2>3. CASE owner[i] = none
    BY <1>1, <2>1, <2>3 DEF ItemInv, Holds, itemVars
  <2> QED BY <1>8, <2>2, <2>3
<1>9. \A u \in Calls : tx'[u] = Idle \/ tx'[u] = tx[u]
  BY <1>1
<1> QED BY <1>4, <1>5, <1>l, <1>6, <1>7, <1>8, <1>9, Localized

\* A call that rolls back, and a step that changes nothing.
LEMMA NothingStep ==
  ASSUME IInv, (\E t \in Calls : RollBack(t)) \/ UNCHANGED vars
  PROVE  IInv'
<1> USE NoneIsNothing
<1>1. UNCHANGED <<ord, past, itemVars, quote, money, strayed>>
  BY DEF RollBack, vars
<1>2. /\ \A u \in Calls : tx'[u] = Idle \/ tx'[u] = tx[u]
      /\ tx' \in [Calls -> Call \cup {Idle}]
  BY DEF RollBack, vars, IInv, TypeOK
<1>3. TypeOK'
  BY <1>1, <1>2 DEF IInv, TypeOK, itemVars
<1>4. Lasting
  BY <1>1 DEF Lasting, itemVars
<1>5. \A o \in Orders : OrderInv(o)'
  BY <1>1 DEF IInv, OrderInv, RowInv, PastInv, MoneyInv, Straight, Solvent, Known, Cancellable
<1>6. \A k \in Quotes : QuoteInv(k)'
  BY <1>1 DEF IInv, QuoteInv, Straight, Waits
<1>7. \A i \in Items : ItemInv(i)'
  BY <1>1 DEF IInv, ItemInv, Holds, Whole, itemVars
<1>8. ASSUME NEW u \in Calls, tx'[u] # Idle PROVE CallInv(u)'
  <2>1. tx'[u] = tx[u] /\ CallInv(u) /\ tx[u].ord \in Orders
    BY <1>2, <1>8 DEF IInv, TypeOK, Call
  <2> QED BY <1>4, <2>1, CallKept
<1> QED BY <1>3, <1>5, <1>6, <1>7, <1>8 DEF IInv

-----------------------------------------------------------------------------
(* Theorems.                                                               *)

\* Nothing has happened yet.
LEMMA InitInv == Init => IInv
<1> SUFFICES ASSUME Init PROVE IInv
  OBVIOUS
<1> USE NoneIsNothing
<1>1. TypeOK
  <2>1. NoOrder \in OrderRow
    BY DEF NoOrder, OrderRow, Status
  <2>2. NoPast \in PastRow
    BY DEF NoPast, PastRow
  <2>3. NoMoney \in MoneyRow
    BY DEF NoMoney, MoneyRow
  <2>4. NoQuote \in QuoteRow
    <3>1. [i \in {} |-> 0] \in [{} -> 1 .. MaxQty] /\ {} \in SUBSET Items
      OBVIOUS
    <3>2. [i \in {} |-> 0] \in Snapshot
      BY <3>1 DEF Snapshot
    <3> QED BY <3>2 DEF NoQuote, QuoteRow
  <2> QED BY <2>1, <2>2, <2>3, <2>4, SomePieces DEF Init, TypeOK
<1>2. ASSUME NEW o \in Orders PROVE OrderInv(o)
  <2>1. /\ ord[o].status = "NONE" /\ ord[o].quote = none /\ ~ord[o].deleted
        /\ past[o].cancel = none /\ past[o].origin = none /\ past[o].wait = none
    BY DEF Init, NoOrder, NoPast
  <2>2. /\ money[o].shelved = 0 /\ money[o].cash = 0 /\ money[o].sales = 0
        /\ money[o].open = 0 /\ money[o].paid = 0
    BY DEF Init, NoMoney
  <2>3. RowInv(o) /\ PastInv(o)
    BY <2>1 DEF RowInv, PastInv
  <2>4. MoneyInv(o)
    BY <2>1, <2>2 DEF MoneyInv, Refundable, Status
  <2> QED BY <2>3, <2>4 DEF OrderInv
<1>3. ASSUME NEW k \in Quotes PROVE QuoteInv(k)
  BY DEF Init, QuoteInv, NoQuote
<1>4. ASSUME NEW i \in Items PROVE ItemInv(i)
  BY DEF Init, ItemInv
<1>5. \A t \in Calls : tx[t] = Idle
  BY DEF Init
<1> QED BY <1>1, <1>2, <1>3, <1>4, <1>5 DEF IInv

\* Without orders nothing ever happens.
LEMMA NoOrders == ASSUME IInv, [Next]_vars, Orders = {} PROVE UNCHANGED vars
<1>1. ASSUME NEW t \in Calls, tx[t] # Idle PROVE FALSE
  BY <1>1 DEF IInv, TypeOK, Call
<1>2. ASSUME NEW t \in Calls PROVE ~Reads(t)
  <2>1. \A k \in Quotes : quote[k].status = "none"
    BY DEF IInv, QuoteInv
  <2>2. \A i \in Items : owner[i] = none /\ ~(qty[i] > 0)
    BY DEF IInv, TypeOK, ItemInv
  <2>3. \A i \in Items, op \in {"change", "remove"} : ~LookItem(t, i, op)
    BY <2>2 DEF LookItem
  <2>4. \A k \in Quotes : ~LookSign(t, k)
    BY <2>1 DEF LookSign
  <2>5. \A k \in Quotes, op \in {"approve", "reject"} : ~LookAnswer(t, k, op)
    BY <2>1 DEF LookAnswer
  <2>6. Reads(t) => \/ \E o \in Orders : TRUE
                    \/ \E i \in Items, op \in {"change", "remove"} : LookItem(t, i, op)
                    \/ \E k \in Quotes : LookSign(t, k)
                    \/ \E k \in Quotes, op \in {"approve", "reject"} : LookAnswer(t, k, op)
    BY Zenon DEF Reads
  <2>7. ~ \E o \in Orders : TRUE
    OBVIOUS
  <2> QED BY <2>3, <2>4, <2>5, <2>6, <2>7, Zenon
<1>3. ASSUME NEW t \in Calls PROVE ~Writes(t) /\ ~RollBack(t)
  <2>1. tx[t] = Idle
    BY <1>1
  <2>2. \A op \in Op : ~Commits(t, op)
    BY <2>1 DEF Commits, Idle, Op, Guarded
  <2>3. /\ ~Commits(t, "advance") /\ ~Commits(t, "pay") /\ ~Commits(t, "pdv")
        /\ ~Commits(t, "cancel") /\ ~Commits(t, "uncancel") /\ ~Commits(t, "refund")
        /\ ~Commits(t, "delete") /\ ~Commits(t, "deliver") /\ ~Commits(t, "add")
        /\ ~Commits(t, "change") /\ ~Commits(t, "remove") /\ ~Commits(t, "approve")
        /\ ~Commits(t, "reject") /\ ~Commits(t, "sign") /\ ~Commits(t, "withdraw")
    BY <2>2 DEF Op, Guarded
  <2>4. ~Writes(t)
    BY <2>3, Zenon DEF Writes, Advance, Pay, PayInPdv, Cancel, Uncancel, Refund, Delete,
      Deliver, AddItem, ChangeItem, RemoveItem, Approve, Reject, Sign, Withdraw
  <2> QED BY <2>1, <2>4 DEF RollBack
<1> QED BY <1>2, <1>3 DEF Next

\* Every step keeps the invariant.
LEMMA StepInv == ASSUME IInv, [Next]_vars PROVE IInv'
<1>1. CASE Orders = {}
  BY <1>1, NoOrders, NothingStep
<1>2. CASE Orders # {}
  <2>1. ASSUME NEW t \in Calls, Reads(t) PROVE IInv'
    BY <2>1, ReadStep
  <2>2. ASSUME NEW t \in Calls, Writes(t) PROVE IInv'
    BY <2>2, AdvanceStep, PayStep, CancelStep, UncancelStep, RefundStep, DeleteStep, DeliverStep,
       ItemSteps, AnswerSteps DEF Writes
  <2>3. ASSUME NEW o \in Orders, Create(o) \/ ConfirmEntry(o) \/ OpenDraft(o) \/ DropDraft(o)
        PROVE  IInv'
    BY <2>3, CreateStep, SmallStep
  <2>4. ASSUME (\E t \in Calls : RollBack(t)) \/ UNCHANGED vars PROVE IInv'
    BY <2>4, NothingStep
  <2> QED BY <2>1, <2>2, <2>3, <2>4 DEF Next
<1> QED BY <1>1, <1>2

\* The invariant holds in every reachable state.
LEMMA Invariance == Spec => []IInv
<1>1. IInv /\ [Next]_vars => IInv'
  BY StepInv
<1> QED BY InitInv, <1>1, PTL DEF Spec

\* Every reachable state is well typed.
THEOREM TypeCorrect == Spec => []TypeOK
<1>1. IInv => TypeOK
  BY DEF IInv
<1> QED BY Invariance, <1>1, PTL

\* The parts off the shelf are those of the orders that stand, until an order is
\* written by id after it moved, undone or edited once deleted, or brought out of
\* CANCELLED or into it by an answer.
THEOREM Parts == Spec => []PartsMatch
<1>1. IInv => PartsMatch
  BY DEF IInv, ItemInv, PartsMatch, Whole
<1> QED BY Invariance, <1>1, PTL

\* An order's payment is in the drawer once and in the books once, until an order is
\* written by id after it moved, or edited dearer on the pickup shelf.
THEOREM Books == Spec => []BooksAgree
<1>1. IInv => BooksAgree
  BY DEF IInv, OrderInv, MoneyInv, BooksAgree, Solvent
<1> QED BY Invariance, <1>1, PTL

\* An order with an unanswered revision waits for its customer, or was cancelled or
\* deleted, until it is written by id after it moved.
THEOREM Consent == Spec => []WaitsForConsent
<1>1. IInv => WaitsForConsent
  BY DEF IInv, QuoteInv, WaitsForConsent, Straight, Waits
<1> QED BY Invariance, <1>1, PTL

\* Who writes a revision that was answered.
LEMMA QuotesWritten ==
  ASSUME IInv, NEW t \in Calls, Writes(t), NEW k \in Quotes,
         quote[k].status \in {"approved", "rejected"}, quote'[k] # quote[k]
  PROVE  /\ "overlap" \in strayed'[quote[k].ord]
         /\ tx[t].op \in {"sign", "withdraw"} /\ tx[t].of = k /\ tx'[t] = Idle
<1>1. quote \in [Quotes -> QuoteRow]
  BY DEF IInv, TypeOK
<1>2. ASSUME NEW o, Revises(t, o) PROVE FALSE
  <2>1. PICK n \in Quotes :
          /\ quote[n].status = "none"
          /\ quote' = [quote EXCEPT ![n] = [ord |-> o, status |-> "pending",
                                            snap |-> [i \in Of(o) |-> qty[i]]]]
    BY <1>2, Zenon DEF Revises
  <2> QED BY <1>1, <2>1
<1>3. ASSUME Approve(t) \/ Reject(t) PROVE FALSE
  <2>1. PICK answer, s : Answered(tx[t].ord, tx[t].of, answer, s) /\ quote[tx[t].of].status = "pending"
    BY <1>3 DEF Approve, Reject
  <2> QED BY <1>1, <2>1 DEF Answered
<1>4. ASSUME NEW op \in {"sign", "withdraw"}, Commits(t, op), Records(t),
             NEW answer, NEW s, Answered(tx[t].ord, tx[t].of, answer, s)
      PROVE  /\ "overlap" \in strayed'[quote[k].ord]
             /\ tx[t].op \in {"sign", "withdraw"} /\ tx[t].of = k /\ tx'[t] = Idle
  <2>0. op \in Op \ Guarded
    BY DEF Op, Guarded
  <2>a. PICK o \in Orders : o = tx[t].ord
    BY <1>4, <2>0, Committing
  <2>1. /\ CallInv(t) /\ tx[t].op = op /\ OrderInv(o) /\ tx[t].of \in Quotes
        /\ tx'[t] = Idle
    <3>1. tx'[t] = Idle
      BY <1>4 DEF Commits, IInv, TypeOK
    <3>2. CallInv(t) /\ tx[t].op = op /\ OrderInv(o)
      BY <1>4, <2>0, <2>a, Committing
    <3> QED BY <3>1, <3>2 DEF CallInv, Answers
  <2>2. tx[t].of = k
    <3>1. quote' = [quote EXCEPT ![tx[t].of].status = answer]
      BY <1>4 DEF Answered
    <3> QED BY <1>1, <3>1
  <2>3. quote[k].ord = o /\ (Straight(o) => tx[t].saw.quote = k)
    BY <2>a, <2>1, <2>2 DEF CallInv, Answers
  <2>4. Straight(o)' => Straight(o) /\ ord[o].quote = tx[t].saw.quote
    BY <1>4, <2>0, <2>a, <2>1, Recorded
  <2>5. ~Straight(o)'
    BY <2>1, <2>3, <2>4, NoneIsNothing DEF OrderInv, RowInv
  <2> QED BY <2>1, <2>2, <2>3, <2>5 DEF Straight
<1>5. CASE Sign(t)
  BY <1>4, <1>5 DEF Sign
<1>6. CASE Withdraw(t)
  BY <1>4, <1>6 DEF Withdraw
<1>7. CASE AddItem(t) \/ ChangeItem(t)
  BY <1>2, <1>7 DEF AddItem, ChangeItem
<1>8. Advance(t) \/ Pay(t) \/ PayInPdv(t) \/ Cancel(t) => UNCHANGED quote
  BY Zenon DEF Advance, Pay, PayInPdv, Cancel, Cancels
<1>9. Uncancel(t) \/ Refund(t) \/ Delete(t) \/ Deliver(t) \/ RemoveItem(t) => UNCHANGED quote
  BY Zenon DEF Uncancel, Refund, Delete, Deliver, RemoveItem
<1> QED BY <1>3, <1>5, <1>6, <1>7, <1>8, <1>9, Zenon DEF Writes

\* An answer is given once: screens never answer again, whatever overlaps what, and
\* a signature or a withdrawal does so only of an order that moved in between.
THEOREM Answer == Spec => AnsweredOnce
<1> DEFINE Again(k) == quote[k].status \in {"approved", "rejected"} /\ quote'[k] # quote[k]
           ById(k) == /\ "overlap" \in strayed'[quote[k].ord]
                      /\ \E t \in Calls : /\ tx[t].op \in {"sign", "withdraw"} /\ tx[t].of = k
                                          /\ tx'[t] = Idle
           Kept == \A k \in Quotes : Again(k) => ById(k)
<1>1. ASSUME IInv, Next, NEW k \in Quotes, Again(k)
      PROVE  ById(k)
  <2>1. ASSUME NEW t \in Calls, Writes(t) PROVE ById(k)
    BY <1>1, <2>1, QuotesWritten
  <2>2. quote' # quote
    BY <1>1
  <2>3. ASSUME NEW t \in Calls, Reads(t) PROVE UNCHANGED quote
    <3>1. ASSUME NEW op, NEW o, NEW of, Looks(t, op, o, of) PROVE UNCHANGED quote
      BY <3>1, Zenon DEF Looks
    <3> QED BY <2>3, <3>1, Zenon DEF Reads, LookAdvance, LookPay, LookPdv, LookCancel,
       LookUncancel, LookRefund, LookDelete, LookDeliver, LookAdd, LookWithdraw, LookItem,
       LookSign, LookAnswer
  <2>4. ASSUME NEW t \in Calls, RollBack(t) PROVE UNCHANGED quote
    BY <2>4 DEF RollBack
  <2>5. ASSUME NEW o \in Orders, Create(o) \/ ConfirmEntry(o) \/ OpenDraft(o) \/ DropDraft(o)
        PROVE  UNCHANGED quote
    BY <2>5, Zenon DEF Create, ConfirmEntry, OpenDraft, DropDraft
  <2> HIDE DEF ById, Again
  <2> QED BY <1>1, <2>1, <2>2, <2>3, <2>4, <2>5, Zenon DEF Next
<1>2. IInv /\ Next => Kept
  BY <1>1
<1> HIDE DEF Kept
<1>3. IInv /\ [Next]_vars => [Kept]_vars
  BY <1>2, Zenon
<1>4. Spec => [][Kept]_vars
  BY Invariance, <1>3, PTL DEF Spec
<1> QED BY <1>4 DEF Kept, AnsweredOnce


=============================================================================
