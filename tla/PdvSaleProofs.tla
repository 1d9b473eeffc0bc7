--------------------------- MODULE PdvSaleProofs ---------------------------
(***************************************************************************)
(* What is proved of PdvSale for any sales, devices, calls and prices.     *)
(*                                                                         *)
(* Whether or not the screens wait for each other: the state is well       *)
(* typed, stock is never sold twice and the movements of the product kept  *)
(* by count explain what is left of it (StockInv).                         *)
(*                                                                         *)
(* With one screen to a sale: the movements of a device explain where it   *)
(* is, the money matches the goods, a device that is out was charged for,  *)
(* and no cart that is gone holds one.  These need what each call knows    *)
(* between its reads and its writes (CallSees), which only the calls       *)
(* taking turns (InTurn) keeps true.                                       *)
(***************************************************************************)
EXTENDS PdvSale, FiniteSetTheorems, WellFoundedInduction, TLAPS

GoodLine(l, r) ==
  /\ r \in [qty : Nat, total : Nat]
  /\ r.total > 0 => r.qty > 0

GoodCarts == {k \in Cart : \A l \in Lines : GoodLine(l, k[l])}

CartsGood ==
  /\ cart \in [Sales -> GoodCarts]
  /\ mine \in [Calls -> GoodCarts]
  /\ pc \in [Calls -> {"start", "looked", "tallied", "over"}]

\* A line of n pieces, priced, is a good line.
LEMMA RowGood ==
  ASSUME NEW l \in Lines, NEW n \in Nat
  PROVE  GoodLine(l, Row(l, n))
<1>1. Price[l] \in Nat
  BY PdvAssumption
<1>2. n * Price[l] \in Nat /\ (n = 0 => n * Price[l] = 0)
  BY <1>1
<1> QED
  BY <1>2 DEF GoodLine, Row

\* A good line put into a good cart leaves it good.
LEMMA PutLine ==
  ASSUME NEW k \in GoodCarts, NEW l \in Lines, NEW r, GoodLine(l, r)
  PROVE  [k EXCEPT ![l] = r] \in GoodCarts
BY DEF GoodCarts, GoodLine, Cart

\* The empty cart is good.
LEMMA EmptyGood == NoCart \in GoodCarts
BY DEF NoCart, NoLine, GoodCarts, GoodLine, Cart

\* Forgetting or remembering a good cart keeps the rest.
LEMMA EndsKeeps ==
  ASSUME CartsGood, NEW c \in Calls, Ends(c), cart' \in [Sales -> GoodCarts]
  PROVE  CartsGood'
<1>1. mine' \in [Calls -> GoodCarts]
  BY EmptyGood DEF Ends, CartsGood
<1>2. pc' \in [Calls -> {"start", "looked", "tallied", "over"}]
  BY DEF Ends, Goto, CartsGood
<1> QED
  BY <1>1, <1>2 DEF CartsGood

\* A call that only reads keeps the carts well formed.
LEMMA ReadKeeps ==
  ASSUME CartsGood, NEW c \in Calls, UNCHANGED cart, Goto(c, "looked"),
         mine' = [mine EXCEPT ![c] = cart[SaleOf[c]]]
  PROVE  CartsGood'
<1>1. SaleOf[c] \in Sales
  BY PdvAssumption
<1>2. mine' \in [Calls -> GoodCarts]
  BY <1>1 DEF CartsGood
<1>3. pc' \in [Calls -> {"start", "looked", "tallied", "over"}]
  BY DEF Goto, CartsGood
<1> QED
  BY <1>2, <1>3 DEF CartsGood

\* Carts are good at the start and every step keeps them so.
LEMMA CartsStep ==
  ASSUME CartsGood, [Next]_vars
  PROVE  CartsGood'
<1>1. CASE UNCHANGED vars
  BY <1>1 DEF vars, rows, CartsGood
<1>2. ASSUME NEW s \in Sales, CreateDraft(s) PROVE CartsGood'
  BY <1>2 DEF CreateDraft, CartsGood
<1>3. ASSUME NEW u \in Units, GrowStale(u) PROVE CartsGood'
  BY <1>3 DEF GrowStale, CartsGood
<1>4. ASSUME NEW c \in Calls, Call(c) PROVE CartsGood'
  <2> DEFINE s == SaleOf[c]
             l == LineOf[c]
  <2> s \in Sales /\ l \in Lines
    BY PdvAssumption
  <2> cart[s] \in GoodCarts /\ mine[c] \in GoodCarts
    BY DEF CartsGood
  <2>1. CASE LookToAdd(c) \/ LookToRemove(c) \/ LookToSetQuantity(c)
    BY <2>1, ReadKeeps DEF LookToAdd, LookToRemove, LookToSetQuantity, Read, rows
  <2>2. CASE LookToCancel(c) \/ LookToAbandon(c) \/ LookToFinalize(c)
    BY <2>2, ReadKeeps DEF LookToCancel, LookToAbandon, LookToFinalize, Read, rows
  <2>4. CASE Tally(c)
    <3>1. PICK row \in NewRows(c) :
            mine' = [mine EXCEPT ![c] = [NoCart EXCEPT ![l] = row]]
      BY <2>4 DEF Tally
    <3>2. mine[c][l].qty \in Nat
      BY DEF GoodCarts, Cart
    <3>3. pc[c] = "looked" /\ Op[c] \in Edits
      BY <2>4 DEF Tally
    <3>4. CASE Op[c] = "addItem"
      <4>1. row = Row(l, mine[c][l].qty + 1)
        BY <3>1, <3>4 DEF NewRows
      <4>2. mine[c][l].qty + 1 \in Nat
        BY <3>2
      <4> QED
        BY <4>1, <4>2, RowGood, <3>1, PutLine, EmptyGood, <2>4
        DEF Tally, Goto, CartsGood, rows
    <3>5. CASE Op[c] = "setQuantity"
      <4>1. PICK n \in 1..MaxQty : row = Row(l, n)
        BY <3>1, <3>5 DEF NewRows
      <4>2. GoodLine(l, row)
        BY <4>1, RowGood
      <4> QED
        BY <4>2, <3>1, PutLine, EmptyGood, <2>4
        DEF Tally, Goto, CartsGood, rows
    <3>6. CASE Op[c] = "removeItem"
      <4>1. row = NoLine
        BY <3>1, <3>6 DEF NewRows
      <4>2. GoodLine(l, row)
        BY <4>1 DEF NoLine, GoodLine
      <4> QED
        BY <4>2, <3>1, PutLine, EmptyGood, <2>4
        DEF Tally, Goto, CartsGood, rows
    <3> QED
      BY <3>3, <3>4, <3>5, <3>6 DEF Edits
  <2>5. CASE Edit(c)
    <3>1. GoodLine(l, mine[c][l])
      BY DEF GoodCarts
    <3>2. Edited(c, mine[c][l]) \in GoodCarts
      BY <3>1, PutLine DEF Edited
    <3>3. cart' \in [Sales -> GoodCarts]
      BY <2>5, <3>2 DEF Edit, CartsGood
    <3> QED
      BY <2>5, <3>3, EndsKeeps DEF Edit
  <2>6. CASE Cancel(c) \/ Finalize(c) \/ Release(c) \/ Fail(c)
    <3>1. Ends(c) /\ UNCHANGED cart
      BY <2>6 DEF Cancel, Finalize, Release, Fail, rows
    <3> QED
      BY <3>1, EndsKeeps DEF CartsGood
  <2>7. CASE Abandon(c)
    <3>1. cart' \in {cart, [cart EXCEPT ![s] = NoCart]} /\ Ends(c)
      BY <2>7 DEF Abandon
    <3>2. cart' \in [Sales -> GoodCarts]
      BY <3>1, EmptyGood DEF CartsGood
    <3> QED
      BY <3>1, <3>2, EndsKeeps
  <2>8. CASE LookToRefund(c)
    <3>1. Op[c] = "refund" /\ Goto(c, "looked") /\ UNCHANGED cart
          /\ mine' = [mine EXCEPT ![c] = cart[s]]
      BY <2>8 DEF LookToRefund, Begins, rows
    <3> QED
      BY <3>1, ReadKeeps
  <2>9. CASE Refund(c)
    <3> DEFINE k == [x \in Lines |->
                 [qty |-> cart[s][x].qty,
                  total |-> IF x \in ToRefund(c) THEN 0 ELSE cart[s][x].total]]
    <3>1. cart' = [cart EXCEPT ![s] = k] /\ Ends(c)
      BY <2>9 DEF Refund
    <3>2. k \in GoodCarts
      BY DEF GoodCarts, GoodLine, Cart
    <3>3. cart' \in [Sales -> GoodCarts]
      BY <3>1, <3>2 DEF CartsGood
    <3> QED
      BY <3>1, <3>3, EndsKeeps
  <2>10. CASE LookToRelease(c)
    <3>1. Op[c] = "release" /\ Goto(c, "looked") /\ UNCHANGED <<cart, mine>>
      BY <2>10 DEF LookToRelease, Begins, rows
    <3> QED
      BY <3>1 DEF Goto, CartsGood
  <2> QED
    BY <1>4, <2>1, <2>2, <2>4, <2>5, <2>6, <2>7, <2>8, <2>9, <2>10 DEF Call
<1> QED
  BY <1>1, <1>2, <1>3, <1>4 DEF Next

-----------------------------------------------------------------------------
(* Devices, stock and movements.                                           *)

StockInv ==
  /\ unit \in [Units -> UnitRow]
  /\ stock \in Nat
  /\ moved \in [Lines -> Int]
  /\ how \in [Calls -> Destinations]
  /\ GoodsAgree

IInv == CartsGood /\ StockInv

\* Freeing devices leaves well-typed rows.
LEMMA FreeTyped ==
  ASSUME StockInv, NEW S
  PROVE  FreeOf(S) \in [Units -> UnitRow]
BY DEF FreeOf, Shelved, StockInv, UnitRow

\* Reserving one does too.
LEMMA ReserveTyped ==
  ASSUME StockInv, NEW c \in Calls, NEW u \in Units, Reserve(c, u)
  PROVE  unit' \in [Units -> UnitRow]
<1>1. SaleOf[c] \in Sales
  BY PdvAssumption
<1>2. [status |-> "RESERVED", sale |-> SaleOf[c], recent |-> TRUE] \in UnitRow
  BY <1>1 DEF UnitRow
<1> QED
  BY <1>2 DEF Reserve, StockInv

\* A step that neither sells nor takes back any of the product keeps its count.
LEMMA CountKept ==
  ASSUME StockInv, UNCHANGED <<stock, moved>>, unit' \in [Units -> UnitRow],
         how' \in [Calls -> Destinations]
  PROVE  StockInv'
BY DEF StockInv, GoodsAgree

\* A call that ends forgets where its goods were to go.
LEMMA EndsHow ==
  ASSUME StockInv, NEW c \in Calls, Ends(c)
  PROVE  how' \in [Calls -> Destinations]
BY DEF Ends, StockInv, Destinations

\* Finalize takes down what it books as an exit, and no more than there is.
LEMMA FinalizeCounts ==
  ASSUME IInv, NEW c \in Calls, Finalize(c)
  PROVE  StockInv'
<1> DEFINE k == mine[c]
<1>1. SaleOf[c] \in Sales /\ k \in GoodCarts /\ Goods \in Lines
  BY PdvAssumption DEF IInv, CartsGood, Lines
<1>2. \A l \in Lines : k[l].qty \in Nat
  BY <1>1 DEF GoodCarts, Cart
<1>3. /\ stock >= k[Goods].qty
      /\ stock' = stock - k[Goods].qty
      /\ moved' = [l \in Lines |-> moved[l] + k[l].qty]
  BY DEF Finalize, InStock
<1>4. unit' \in [Units -> UnitRow]
  <2>1. [status |-> "SOLD", sale |-> SaleOf[c], recent |-> FALSE] \in UnitRow
    BY <1>1 DEF UnitRow
  <2> QED
    BY <2>1 DEF Finalize, IInv, StockInv
<1>5. stock' \in Nat /\ moved' \in [Lines -> Int]
  BY <1>1, <1>2, <1>3 DEF IInv, StockInv
<1>6. GoodsAgree'
  <2>1. moved'[Goods] = moved[Goods] + k[Goods].qty /\ moved[Goods] \in Int
    BY <1>1, <1>3 DEF IInv, StockInv
  <2> QED
    BY <2>1, <1>1, <1>2, <1>3 DEF IInv, StockInv, GoodsAgree
<1>7. how' \in [Calls -> Destinations]
  BY EndsHow DEF Finalize, IInv
<1> QED
  BY <1>4, <1>5, <1>6, <1>7 DEF StockInv

\* Refund puts back what it books as an entry.
LEMMA RefundCounts ==
  ASSUME IInv, NEW c \in Calls, Refund(c)
  PROVE  StockInv'
<1> DEFINE k == mine[c]
           S == ToRefund(c)
           back == ComeBack(c) \cap Units
           row == IF how[c] = "shelf" THEN Shelved
                  ELSE [Shelved EXCEPT !.status = "DEFECTIVE"]
<1>1. /\ k \in GoodCarts
      /\ Goods \in Lines
      /\ how[c] \in {"shelf", "defect", "kept"}
  BY PdvAssumption DEF IInv, CartsGood, StockInv, Lines, Destinations
<1>2. \A l \in Lines : k[l].qty \in Nat
  BY <1>1 DEF GoodCarts, Cart
<1>3. /\ unit' = [u \in Units |-> IF u \notin back THEN unit[u] ELSE row]
      /\ stock' = IF how[c] = "shelf" /\ Goods \in S
                  THEN stock + k[Goods].qty ELSE stock
      /\ moved' = [l \in Lines |-> IF l \in ComeBack(c) THEN moved[l] - k[l].qty
                                   ELSE moved[l]]
      /\ Ends(c)
  <2>1. unit' = [u \in Units |-> IF u \notin back THEN unit[u] ELSE row]
    BY Zenon DEF Refund
  <2> QED
    BY <2>1 DEF Refund
<1>4. row \in UnitRow
  BY DEF Shelved, UnitRow
<1> HIDE DEF row
<1>5. unit' \in [Units -> UnitRow]
  BY <1>3, <1>4 DEF IInv, StockInv
<1>6. stock' \in Nat /\ moved' \in [Lines -> Int]
  BY <1>1, <1>2, <1>3 DEF IInv, StockInv
<1>7. GoodsAgree'
  <2>1. Goods \in ComeBack(c) <=> how[c] = "shelf" /\ Goods \in S
    BY <1>1 DEF ComeBack
  <2>2. moved[Goods] \in Int /\ stock \in Nat /\ k[Goods].qty \in Nat
    BY <1>1, <1>2 DEF IInv, StockInv
  <2>3. stock + moved[Goods] = Stock
    BY DEF IInv, StockInv, GoodsAgree
  <2>4. CASE Goods \in ComeBack(c)
    BY <2>1, <2>2, <2>3, <2>4, <1>1, <1>3 DEF GoodsAgree
  <2>5. CASE Goods \notin ComeBack(c)
    BY <2>1, <2>2, <2>3, <2>5, <1>1, <1>3 DEF GoodsAgree
  <2> QED
    BY <2>4, <2>5
<1>8. how' \in [Calls -> Destinations]
  BY <1>3, EndsHow DEF IInv
<1> QED
  BY <1>5, <1>6, <1>7, <1>8 DEF StockInv

\* Every step keeps the count right.
LEMMA StockStep ==
  ASSUME IInv, [Next]_vars
  PROVE  StockInv'
<1> StockInv
  BY DEF IInv
<1>1. CASE UNCHANGED vars
  BY <1>1 DEF vars, rows, StockInv, GoodsAgree
<1>2. ASSUME NEW s \in Sales, CreateDraft(s) PROVE StockInv'
  BY <1>2 DEF CreateDraft, StockInv, GoodsAgree
<1>3. ASSUME NEW u \in Units, GrowStale(u) PROVE StockInv'
  <2>1. unit' = [unit EXCEPT ![u].recent = FALSE]
        /\ unit[u].status = "RESERVED" /\ unit[u] \in UnitRow
    BY <1>3 DEF GrowStale, StockInv
  <2>2. [unit[u] EXCEPT !.recent = FALSE] \in UnitRow
    BY <2>1 DEF UnitRow
  <2>3. unit' \in [Units -> UnitRow]
    BY <2>1, <2>2 DEF StockInv
  <2> QED
    BY <1>3, <2>3, CountKept DEF GrowStale, StockInv
<1>4. ASSUME NEW c \in Calls, Call(c) PROVE StockInv'
  <2>1. CASE LookToAdd(c) \/ LookToRemove(c) \/ LookToSetQuantity(c)
             \/ LookToCancel(c) \/ LookToAbandon(c) \/ LookToFinalize(c)
             \/ LookToRelease(c) \/ Tally(c)
    <3>1. UNCHANGED <<rows, how>>
      BY <2>1 DEF LookToAdd, LookToRemove, LookToSetQuantity, LookToCancel,
         LookToAbandon, LookToFinalize, LookToRelease, Tally, Read
    <3> QED
      BY <3>1 DEF rows, StockInv, GoodsAgree
  <2>2. CASE LookToRefund(c)
    <3>1. UNCHANGED rows /\ \E h \in Back[c] : how' = [how EXCEPT ![c] = h]
      BY <2>2 DEF LookToRefund
    <3>2. how' \in [Calls -> Destinations]
      BY <3>1, PdvAssumption DEF StockInv
    <3> QED
      BY <3>1, <3>2 DEF rows, StockInv, GoodsAgree
  <2>3. CASE Edit(c)
    <3>1. Ends(c) /\ UNCHANGED <<stock, moved>>
      BY <2>3 DEF Edit
    <3>2. \/ UNCHANGED unit
          \/ LineOf[c] \in Units /\ Reserve(c, LineOf[c])
          \/ unit' = FreeOf(HeldFor(SaleOf[c]) \cap {LineOf[c]})
      BY <2>3 DEF Edit
    <3>3. unit' \in [Units -> UnitRow]
      BY <3>2, ReserveTyped, FreeTyped DEF StockInv
    <3> QED
      BY <3>1, <3>3, EndsHow, CountKept
  <2>4. CASE Cancel(c) \/ Abandon(c) \/ Release(c)
    <3>1. /\ Ends(c) /\ UNCHANGED <<stock, moved>>
          /\ \E S : unit' = FreeOf(S)
      BY <2>4 DEF Cancel, Abandon, Release
    <3> QED
      BY <3>1, FreeTyped, EndsHow, CountKept
  <2>5. CASE Fail(c)
    BY <2>5, EndsHow DEF Fail, rows, StockInv, GoodsAgree
  <2> QED
    BY <1>4, <2>1, <2>2, <2>3, <2>4, <2>5, FinalizeCounts, RefundCounts DEF Call
<1> QED
  BY <1>1, <1>2, <1>3, <1>4 DEF Next

\* The invariant holds at the start.
LEMMA InitIInv == Init => IInv
<1> SUFFICES ASSUME Init PROVE IInv
  OBVIOUS
<1>1. CartsGood
  BY EmptyGood DEF Init, CartsGood
<1>2. Shelved \in UnitRow
  BY DEF Shelved, UnitRow
<1>3. StockInv
  BY <1>2, PdvAssumption DEF Init, StockInv, GoodsAgree, Lines, Destinations
<1> QED
  BY <1>1, <1>3 DEF IInv

\* The inductive invariant holds always.
LEMMA Inductive == Spec => []IInv
<1>1. IInv /\ [Next]_vars => IInv'
  BY CartsStep, StockStep DEF IInv
<1> QED
  BY InitIInv, <1>1, PTL DEF Spec

\* However many sellers finalize at once, on whatever screens, a product kept
\* by count is never sold below zero.
THEOREM NeverOversold == Spec => []NoOversell
<1>1. IInv => NoOversell
  BY DEF IInv, StockInv, NoOversell
<1> QED
  BY <1>1, Inductive, PTL

\* However the calls overlap, the exits less the entries of a product kept by count are
\* what it lacks: no exit is booked without its stock, and none comes back twice.
THEOREM CountKardex == Spec => []GoodsAgree
<1>1. IInv => GoodsAgree
  BY DEF IInv, StockInv
<1> QED
  BY <1>1, Inductive, PTL

-----------------------------------------------------------------------------
(* Sums over finite sets.  SumFunctionOnSet is a fold; what it comes to is  *)
(* argued with smallest counterexamples among the parts of the index set.  *)

\* A non-empty set of subsets of a finite set has a smallest member.
LEMMA SmallestSubset ==
  ASSUME NEW S, IsFiniteSet(S), NEW C \in SUBSET (SUBSET S), C # {}
  PROVE  \E s \in C : \A t \in C : t \subseteq s => t = s
<1>1. IsWellFoundedOn(StrictSubsetOrdering(S), SUBSET S)
  BY FS_StrictSubsetOrderingWellFounded, FS_FiniteSubsetsOfFinite
<1>2. PICK s \in C : \A t \in C : ~(<<t, s>> \in StrictSubsetOrdering(S))
  BY <1>1, WFMin
<1> QED BY <1>2 DEF StrictSubsetOrdering

\* A non-empty set of naturals has a least member.
LEMMA SmallestNat ==
  ASSUME NEW C \in SUBSET Nat, C # {}
  PROVE  \E n \in C : \A m \in C : n <= m
<1>1. PICK n \in C : \A m \in C : ~(<<m, n>> \in OpToRel(<, Nat))
  BY NatLessThanWellFounded, WFMin
<1>2. \A m \in C : ~(m < n)
  BY <1>1 DEF OpToRel
<1> QED BY <1>2

\* The element the fold takes first, and one step of it.
Chosen(s) == CHOOSE x \in s : TRUE
SumStep(f, g, s) == IF s = {} THEN 0 ELSE f[Chosen(s)] + g[s \ {Chosen(s)}]

\* The fold of SumFunctionOnSet is a function on all parts of the index set that
\* takes one element away at a time: the recursion the library defines it by has a
\* solution, and CHOOSE finds one.
LEMMA SumUnfolds ==
  ASSUME NEW S, IsFiniteSet(S), NEW f
  PROVE  \E g : /\ g = [s \in SUBSET S |-> SumStep(f, g, s)]
                /\ SumFunctionOnSet(f, S) = g[S]
<1> DEFINE UpTo(g, n) == \A s \in SUBSET S : Cardinality(s) < n => g[s] = SumStep(f, g, s)
           Bad == {n \in Nat : ~ \E g : g = [s \in SUBSET S |-> g[s]] /\ UpTo(g, n)}
           iter == CHOOSE g : g = [s \in SUBSET S |->
                  IF s = {} THEN 0
                  ELSE f[CHOOSE x \in s : TRUE] + g[s \ {CHOOSE x \in s : TRUE}]]
<1>1. SumFunctionOnSet(f, S) = iter[S]
  BY DEF SumFunctionOnSet, FoldFunctionOnSet, MapThenFoldSet
<1>s. \A s \in SUBSET S :
         /\ IsFiniteSet(s)
         /\ Cardinality(s) \in Nat
         /\ Cardinality(s) <= Cardinality(S)
  BY FS_Subset, FS_CardinalityType
<1>2. Bad = {}
  <2> SUFFICES ASSUME Bad # {} PROVE FALSE
    OBVIOUS
  <2>1. PICK n \in Bad : \A m \in Bad : n <= m
    <3> HIDE DEF Bad
    <3>1. Bad \subseteq Nat BY DEF Bad
    <3> QED BY <3>1, SmallestNat
  <2>2. n # 0
    <3> DEFINE g == [s \in SUBSET S |-> 0]
    <3>1. g = [s \in SUBSET S |-> g[s]] OBVIOUS
    <3>2. UpTo(g, 0)  BY <1>s
    <3> QED BY <3>1, <3>2
  <2>3. PICK g : g = [s \in SUBSET S |-> g[s]] /\ UpTo(g, n-1)
    <3>1. n - 1 \in Nat /\ ~(n <= n - 1) BY <2>2
    <3> QED BY <3>1, <2>1
  <2> DEFINE h == [s \in SUBSET S |-> SumStep(f, g, s)]
  <2>4. h = [s \in SUBSET S |-> h[s]] OBVIOUS
  <2>5. ASSUME NEW s \in SUBSET S, Cardinality(s) < n PROVE h[s] = SumStep(f, h, s)
    <3>1. CASE s = {} BY <3>1 DEF SumStep
    <3>2. CASE s # {}
      <4> DEFINE t == s \ {Chosen(s)}
      <4>1. Chosen(s) \in s BY <3>2 DEF Chosen
      <4>2. Cardinality(t) < n - 1
        BY <4>1, <1>s, <2>5, FS_RemoveElement
      <4>3. t \in SUBSET S OBVIOUS
      <4>4. g[t] = h[t] BY <4>2, <4>3, <2>3
      <4> QED BY <4>4, <3>2 DEF SumStep
    <3> QED BY <3>1, <3>2
  <2>6. UpTo(h, n) BY <2>5
  <2> QED BY <2>4, <2>6, <2>1
<1>3. PICK g : g = [s \in SUBSET S |-> g[s]] /\ UpTo(g, Cardinality(S) + 1)
  <2>1. S \in SUBSET S
    OBVIOUS
  <2>2. Cardinality(S) + 1 \in Nat
    BY <1>s, <2>1
  <2>3. Cardinality(S) + 1 \notin Bad
    BY <1>2
  <2> QED BY <2>2, <2>3
<1>4. g = [s \in SUBSET S |->
             IF s = {} THEN 0
             ELSE f[CHOOSE x \in s : TRUE] + g[s \ {CHOOSE x \in s : TRUE}]]
  <2>1. \A s \in SUBSET S : g[s] = SumStep(f, g, s)
    <3>1. ASSUME NEW s \in SUBSET S PROVE Cardinality(s) < Cardinality(S) + 1
      <4>1. S \in SUBSET S OBVIOUS
      <4>2. /\ Cardinality(s) \in Nat
            /\ Cardinality(S) \in Nat
            /\ Cardinality(s) <= Cardinality(S)
        BY <1>s, <4>1
      <4> QED BY <4>2
    <3> QED BY <1>3, <3>1
  <2> QED BY <1>3, <2>1 DEF SumStep, Chosen
<1>5. iter = [s \in SUBSET S |->
             IF s = {} THEN 0
             ELSE f[CHOOSE x \in s : TRUE] + iter[s \ {CHOOSE x \in s : TRUE}]]
  BY <1>4
<1>6. iter = [s \in SUBSET S |-> SumStep(f, iter, s)]
  BY <1>5 DEF SumStep, Chosen
<1> QED BY <1>1, <1>6

\* A sum satisfies this on all parts of its index set.
Adds(f, g, S) ==
  /\ g[{}] = 0
  /\ \A s \in SUBSET S : g[s] \in Int
  /\ \A s \in SUBSET S : \A x \in s : g[s] = f[x] + g[s \ {x}]

\* The element taken away is the one CHOOSE gives; it might be any.
LEMMA SumAdds ==
  ASSUME NEW S, IsFiniteSet(S), NEW f, \A x \in S : f[x] \in Int
  PROVE  \E g : Adds(f, g, S) /\ SumFunctionOnSet(f, S) = g[S]
<1>1. PICK g : g = [s \in SUBSET S |-> SumStep(f, g, s)] /\ SumFunctionOnSet(f, S) = g[S]
  BY SumUnfolds
<1>2. \A s \in SUBSET S : g[s] = SumStep(f, g, s)
  BY <1>1
<1>3. \A s \in SUBSET S : s # {} => Chosen(s) \in s
  BY DEF Chosen
<1> DEFINE Fine(s) == g[s] \in Int /\ \A x \in s : g[s] = f[x] + g[s \ {x}]
           Bad == {s \in SUBSET S : ~Fine(s)}
<1>4. Bad = {}
  <2> SUFFICES ASSUME Bad # {} PROVE FALSE
    OBVIOUS
  <2>1. PICK s \in Bad : \A t \in Bad : t \subseteq s => t = s
    <3> HIDE DEF Bad
    <3>1. Bad \subseteq SUBSET S BY DEF Bad
    <3> QED BY <3>1, SmallestSubset
  <2>2. \A t \in SUBSET s : t # s => Fine(t)
    BY <2>1
  <2>3. s # {}
    <3> SUFFICES ASSUME s = {} PROVE FALSE
      OBVIOUS
    <3>1. g[s] = 0
      BY <2>1, <1>2 DEF SumStep
    <3> QED BY <2>1, <3>1
  <2> DEFINE c == Chosen(s)
  <2>4. c \in s /\ g[s] = f[c] + g[s \ {c}] /\ s \in SUBSET S
    BY <1>2, <1>3, <2>3 DEF SumStep
  <2> HIDE DEF c
  <2>5. g[s \ {c}] \in Int
    BY <2>2, <2>4
  <2>6. ASSUME NEW x \in s, x # c PROVE g[s] = f[x] + g[s \ {x}]
    <3>1. g[s \ {c}] = f[x] + g[(s \ {c}) \ {x}] /\ g[s \ {x}] = f[c] + g[(s \ {x}) \ {c}]
      <4>1. Fine(s \ {c}) /\ x \in s \ {c} BY <2>6, <2>2, <2>4
      <4>2. Fine(s \ {x}) /\ c \in s \ {x} BY <2>6, <2>2, <2>4
      <4> QED BY <4>1, <4>2
    <3>2. /\ (s \ {c}) \ {x} = (s \ {x}) \ {c}
          /\ (s \ {c}) \ {x} \in SUBSET s
          /\ (s \ {c}) \ {x} # s
      BY <2>4
    <3>3. g[(s \ {c}) \ {x}] \in Int /\ f[x] \in Int /\ f[c] \in Int
      BY <3>2, <2>2, <2>4
    <3>4. g[s] = f[c] + (f[x] + g[(s \ {c}) \ {x}])
      BY <2>4, <3>1
    <3>5. g[s \ {x}] = f[c] + g[(s \ {c}) \ {x}]
      BY <3>1, <3>2
    <3> QED BY <3>3, <3>4, <3>5
  <2>7. f[c] \in Int
    BY <2>4
  <2>8. g[s] \in Int
    BY <2>4, <2>5, <2>7
  <2>9. \A x \in s : g[s] = f[x] + g[s \ {x}]
    BY <2>4, <2>6
  <2> QED BY <2>1, <2>8, <2>9
<1>5. g[{}] = 0
  BY <1>2 DEF SumStep
<1>6. \A s \in SUBSET S : Fine(s)
  BY <1>4
<1> HIDE DEF Bad
<1> QED BY <1>1, <1>5, <1>6 DEF Adds

\* Only one function adds so.
LEMMA AddsOnce ==
  ASSUME NEW S, IsFiniteSet(S), NEW f, NEW g, NEW h, Adds(f, g, S), Adds(f, h, S)
  PROVE  g[S] = h[S]
<1> DEFINE Bad == {s \in SUBSET S : g[s] # h[s]}
<1> SUFFICES ASSUME Bad # {} PROVE FALSE
  OBVIOUS
<1>1. PICK s \in Bad : \A t \in Bad : t \subseteq s => t = s
  <2> HIDE DEF Bad
  <2>1. Bad \subseteq SUBSET S BY DEF Bad
  <2> QED BY <2>1, SmallestSubset
<1>2. s # {}
  BY <1>1 DEF Adds
<1>3. PICK x \in s : TRUE
  BY <1>2
<1>4. s \ {x} \notin Bad /\ s \ {x} \in SUBSET S
  BY <1>1, <1>3
<1>5. g[s \ {x}] = h[s \ {x}]
  BY <1>4
<1>6. g[s] = f[x] + g[s \ {x}] /\ h[s] = f[x] + h[s \ {x}] /\ g[s] # h[s]
  BY <1>1, <1>3 DEF Adds
<1> QED BY <1>5, <1>6

\* Over nothing the sum is zero.
LEMMA SumEmpty == \A f : SumFunctionOnSet(f, {}) = 0
<1> TAKE f
<1>1. PICK g : g = [s \in SUBSET {} |-> SumStep(f, g, s)] /\ SumFunctionOnSet(f, {}) = g[{}]
  BY SumUnfolds, FS_EmptySet
<1> QED BY <1>1 DEF SumStep

\* Any element may be taken out of a sum of integers.
LEMMA SumSplits ==
  ASSUME NEW S, IsFiniteSet(S), NEW f, \A x \in S : f[x] \in Int
  PROVE  /\ SumFunctionOnSet(f, S) \in Int
         /\ \A x \in S : SumFunctionOnSet(f, S) = f[x] + SumFunctionOnSet(f, S \ {x})
<1>1. PICK g : Adds(f, g, S) /\ SumFunctionOnSet(f, S) = g[S]
  BY SumAdds
<1>2. ASSUME NEW x \in S PROVE SumFunctionOnSet(f, S \ {x}) = g[S \ {x}]
  <2>1. IsFiniteSet(S \ {x})
    BY FS_RemoveElement
  <2>2. PICK h : Adds(f, h, S \ {x}) /\ SumFunctionOnSet(f, S \ {x}) = h[S \ {x}]
    BY <2>1, SumAdds
  <2>3. Adds(f, g, S \ {x})
    BY <1>1 DEF Adds
  <2> QED BY <2>1, <2>2, <2>3, AddsOnce
<1> QED BY <1>1, <1>2 DEF Adds

\* A sum of smaller integers is smaller; in particular equal functions have equal sums.
LEMMA SumMonotone ==
  ASSUME NEW S, IsFiniteSet(S), NEW f, NEW g,
         \A x \in S : f[x] \in Int /\ g[x] \in Int /\ f[x] <= g[x]
  PROVE  SumFunctionOnSet(f, S) <= SumFunctionOnSet(g, S)
<1> DEFINE Below(s) == SumFunctionOnSet(f, s) <= SumFunctionOnSet(g, s)
           Bad == {s \in SUBSET S : ~Below(s)}
<1> SUFFICES ASSUME Bad # {} PROVE FALSE
  <2>1. S \in SUBSET S
    OBVIOUS
  <2> QED BY <2>1
<1>1. PICK s \in Bad : \A t \in Bad : t \subseteq s => t = s
  <2> HIDE DEF Bad
  <2>1. Bad \subseteq SUBSET S BY DEF Bad
  <2> QED BY <2>1, SmallestSubset
<1>2. IsFiniteSet(s)
  BY <1>1, FS_Subset
<1>3. PICK x \in s : TRUE
  <2>1. Below({})
    BY SumEmpty
  <2>2. ~Below(s)
    BY <1>1
  <2>3. s # {}
    BY ONLY <2>1, <2>2
  <2> QED BY <2>3
<1>4. Below(s \ {x})
  BY <1>1, <1>3
<1>5. /\ SumFunctionOnSet(f, s) = f[x] + SumFunctionOnSet(f, s \ {x})
      /\ SumFunctionOnSet(g, s) = g[x] + SumFunctionOnSet(g, s \ {x})
  BY <1>1, <1>2, <1>3, SumSplits
<1>6. SumFunctionOnSet(f, s \ {x}) \in Int /\ SumFunctionOnSet(g, s \ {x}) \in Int
  <2>1. IsFiniteSet(s \ {x}) /\ \A y \in s \ {x} : f[y] \in Int /\ g[y] \in Int
    BY <1>1, <1>2, FS_RemoveElement
  <2> QED BY <2>1, SumSplits
<1>7. f[x] \in Int /\ g[x] \in Int /\ f[x] <= g[x]
  BY <1>1, <1>3
<1> HIDE DEF Bad
<1>8. Below(s)
  BY <1>4, <1>5, <1>6, <1>7
<1> QED BY <1>1, <1>8 DEF Bad

\* A change at one place changes the sum by as much.
LEMMA SumChanges ==
  ASSUME NEW S, IsFiniteSet(S), NEW f, NEW g, NEW x \in S,
         \A y \in S : f[y] \in Int /\ g[y] \in Int,
         \A y \in S \ {x} : f[y] = g[y]
  PROVE  SumFunctionOnSet(g, S) = SumFunctionOnSet(f, S) - f[x] + g[x]
<1> DEFINE R == S \ {x}
<1>1. IsFiniteSet(R)
  BY FS_RemoveElement
<1>2. SumFunctionOnSet(f, R) \in Int /\ SumFunctionOnSet(g, R) \in Int
  BY <1>1, SumSplits
<1>3. \A y \in R : f[y] \in Int /\ g[y] \in Int /\ f[y] <= g[y] /\ g[y] <= f[y]
  OBVIOUS
<1>4. /\ SumFunctionOnSet(f, R) <= SumFunctionOnSet(g, R)
      /\ SumFunctionOnSet(g, R) <= SumFunctionOnSet(f, R)
  <2> HIDE DEF R
  <2> QED BY <1>1, <1>3, SumMonotone
<1>5. /\ SumFunctionOnSet(f, S) = f[x] + SumFunctionOnSet(f, R)
      /\ SumFunctionOnSet(g, S) = g[x] + SumFunctionOnSet(g, R)
  BY SumSplits
<1>6. f[x] \in Int /\ g[x] \in Int
  OBVIOUS
<1> HIDE DEF R
<1> QED BY <1>2, <1>4, <1>5, <1>6

\* Nothing adds up to nothing.
LEMMA SumZero ==
  ASSUME NEW S, IsFiniteSet(S)
  PROVE  SumFunctionOnSet([x \in S |-> 0], S) = 0
<1> DEFINE f == [x \in S |-> 0]
<1>1. PICK g : Adds(f, g, S) /\ SumFunctionOnSet(f, S) = g[S]
  BY SumAdds
<1> DEFINE h == [s \in SUBSET S |-> 0]
<1>2. Adds(f, h, S)
  BY DEF Adds
<1>3. S \in SUBSET S
  OBVIOUS
<1>4. g[S] = h[S]
  <2> HIDE DEF f, h
  <2> QED BY <1>1, <1>2, AddsOnce
<1> QED BY <1>1, <1>3, <1>4

\* Functions that agree on the index set have equal sums.
LEMMA SumSame ==
  ASSUME NEW S, IsFiniteSet(S), NEW f, NEW g, \A x \in S : f[x] \in Int /\ g[x] = f[x]
  PROVE  SumFunctionOnSet(f, S) = SumFunctionOnSet(g, S)
<1>1. \A x \in S : f[x] \in Int /\ g[x] \in Int /\ f[x] <= g[x] /\ g[x] <= f[x]
  OBVIOUS
<1>2. SumFunctionOnSet(f, S) \in Int /\ SumFunctionOnSet(g, S) \in Int
  BY <1>1, SumSplits
<1>3. SumFunctionOnSet(f, S) <= SumFunctionOnSet(g, S)
  BY <1>1, SumMonotone
<1>4. SumFunctionOnSet(g, S) <= SumFunctionOnSet(f, S)
  BY <1>1, SumMonotone
<1> QED BY <1>2, <1>3, <1>4

\* A sum of naturals is one.
LEMMA SumNat ==
  ASSUME NEW S, IsFiniteSet(S), NEW f, \A x \in S : f[x] \in Nat
  PROVE  SumFunctionOnSet(f, S) \in Nat
<1> DEFINE z == [x \in S |-> 0]
<1>1. \A x \in S : z[x] \in Int /\ f[x] \in Int /\ z[x] <= f[x]
  OBVIOUS
<1>2. SumFunctionOnSet(z, S) = 0
  BY SumZero
<1> HIDE DEF z
<1>3. SumFunctionOnSet(z, S) <= SumFunctionOnSet(f, S) /\ SumFunctionOnSet(f, S) \in Int
  BY <1>1, SumMonotone, SumSplits
<1> QED BY <1>2, <1>3

\* Setting the values of a part to zero takes their sum away.
LEMMA SumZeroed ==
  ASSUME NEW S, IsFiniteSet(S), NEW f, \A x \in S : f[x] \in Int, NEW T \in SUBSET S
  PROVE  SumFunctionOnSet(f, S) =
           SumFunctionOnSet(f, T)
           + SumFunctionOnSet([x \in S |-> IF x \in T THEN 0 ELSE f[x]], S)
<1> DEFINE z(t) == [x \in S |-> IF x \in t THEN 0 ELSE f[x]]
           Fine(t) == SumFunctionOnSet(f, S) =
                        SumFunctionOnSet(f, t) + SumFunctionOnSet(z(t), S)
           Bad == {t \in SUBSET S : ~Fine(t)}
<1>1. \A t \in SUBSET S : \A x \in S : z(t)[x] \in Int /\ z(t)[x] = IF x \in t THEN 0 ELSE f[x]
  OBVIOUS
<1> SUFFICES ASSUME Bad # {} PROVE FALSE
  OBVIOUS
<1>2. PICK t \in Bad : \A u \in Bad : u \subseteq t => u = t
  <2> HIDE DEF Bad
  <2>1. Bad \subseteq SUBSET S BY DEF Bad
  <2> QED BY <2>1, SmallestSubset
<1>3. t \in SUBSET S /\ ~Fine(t)
  BY <1>2
<1>4. IsFiniteSet(t)
  BY <1>3, FS_Subset
<1>5. CASE t = {}
  <2>1. SumFunctionOnSet(f, t) = 0
    BY <1>5, SumEmpty
  <2>2. \A x \in S : f[x] \in Int /\ z(t)[x] = f[x]
    BY <1>5
  <2> HIDE DEF z
  <2>3. /\ SumFunctionOnSet(f, S) = SumFunctionOnSet(z(t), S)
        /\ SumFunctionOnSet(f, S) \in Int
    BY <2>2, SumSame, SumSplits
  <2> QED BY <1>3, <2>1, <2>3
<1>6. CASE t # {}
  <2>1. PICK x \in t : TRUE
    BY <1>6
  <2> DEFINE u == t \ {x}
  <2>2. x \in S /\ f[x] \in Int /\ u \in SUBSET S
    BY <1>3
  <2>3. Fine(u)
    BY <1>2, <2>2
  <2>4. \A y \in S : z(t)[y] \in Int /\ z(u)[y] \in Int
    BY <1>1, <1>3, <2>2
  <2>5. z(u)[x] = f[x] /\ z(t)[x] = 0 /\ \A y \in S \ {x} : z(u)[y] = z(t)[y]
    BY <2>1, <2>2
  <2>6. IsFiniteSet(u) /\ \A y \in u : f[y] \in Int
    BY <1>4, <2>2, FS_RemoveElement
  <2>7. SumFunctionOnSet(f, t) = f[x] + SumFunctionOnSet(f, u)
    BY <1>3, <1>4, SumSplits
  <2>8. SumFunctionOnSet(z(t), S) = SumFunctionOnSet(z(u), S) - z(u)[x] + z(t)[x]
    <3>1. \A y \in S \ {x} : z(u)[y] = z(t)[y]
      BY <2>5
    <3>2. ASSUME NEW a, NEW b, a = z(t), b = z(u)
          PROVE  SumFunctionOnSet(a, S) = SumFunctionOnSet(b, S) - b[x] + a[x]
      <4>1. \A y \in S : b[y] \in Int /\ a[y] \in Int
        BY <3>2, <2>4
      <4>2. \A y \in S \ {x} : b[y] = a[y]
        BY <3>2, <3>1
      <4>3. x \in S
        BY <2>2
      <4>4. IsFiniteSet(S)
        OBVIOUS
      <4> HIDE DEF z, u, Fine, Bad
      <4> QED BY ONLY <4>1, <4>2, <4>3, <4>4, SumChanges
    <3> QED BY ONLY <3>2
  <2> HIDE DEF z, u
  <2>9. SumFunctionOnSet(z(u), S) \in Int /\ SumFunctionOnSet(f, u) \in Int
    BY <2>4, <2>6, SumSplits
  <2>10. SumFunctionOnSet(f, S) = SumFunctionOnSet(f, u) + SumFunctionOnSet(z(u), S)
    BY <2>3
  <2>11. Fine(t)
    BY <2>2, <2>5, <2>7, <2>8, <2>9, <2>10
  <2> QED BY <1>3, <2>11
<1> QED BY <1>5, <1>6

-----------------------------------------------------------------------------
(* Type correctness.                                                       *)

\* The lines are finitely many, and prices are integers.
LEMMA LinesFinite ==
  /\ IsFiniteSet(Lines) /\ Goods \in Lines /\ Units \subseteq Lines /\ Goods \notin Units
  /\ \A l \in Lines : Price[l] \in Nat /\ Price[l] > 0
  /\ \A c \in Calls : SaleOf[c] \in Sales /\ LineOf[c] \in Lines
<1>1. IsFiniteSet(Units)
  BY PdvAssumption
<1>2. IsFiniteSet(Units \cup {Goods})
  BY <1>1, FS_AddElement
<1> QED BY <1>2, PdvAssumption DEF Lines

\* What a good cart is worth is a natural.
LEMMA WorthNat ==
  ASSUME NEW k \in GoodCarts, NEW S \in SUBSET Lines
  PROVE  Worth(k, S) \in Nat
<1> DEFINE f == [l \in Lines |-> k[l].total]
<1>1. \A l \in S : f[l] \in Nat
  BY DEF GoodCarts, Cart
<1>2. IsFiniteSet(S)
  BY LinesFinite, FS_Subset
<1>3. Worth(k, S) = SumFunctionOnSet(f, S)
  BY DEF Worth
<1> HIDE DEF f
<1> QED BY <1>1, <1>2, <1>3, SumNat

\* The rest of TypeOK.
SaleType ==
  /\ sale \in [Sales -> SaleRow]
  /\ due \in [Calls -> Nat]
  /\ lines \in [Calls -> SUBSET Lines]

\* The end of a call keeps the rows typed if the sales are.
LEMMA EndsType ==
  ASSUME SaleType, NEW c \in Calls, Ends(c), sale' \in [Sales -> SaleRow]
  PROVE  SaleType'
BY DEF SaleType, Ends

\* Every step keeps sales, totals and refund lines typed.
LEMMA SaleTypeStep ==
  ASSUME IInv, IInv', SaleType, [Next]_vars
  PROVE  SaleType'
<1> USE LinesFinite
<1>1. CASE UNCHANGED vars
  BY <1>1 DEF vars, rows, SaleType
<1>2. ASSUME NEW s \in Sales, CreateDraft(s) PROVE SaleType'
  <2>1. [sale[s] EXCEPT !.status = "DRAFT"] \in SaleRow
    BY DEF SaleType, SaleRow, Status
  <2> QED BY <1>2, <2>1 DEF CreateDraft, SaleType
<1>3. ASSUME NEW u \in Units, GrowStale(u) PROVE SaleType'
  BY <1>3 DEF GrowStale, SaleType
<1>4. ASSUME NEW c \in Calls, Call(c) PROVE SaleType'
  <2> DEFINE s == SaleOf[c]
             l == LineOf[c]
  <2>0. s \in Sales /\ l \in Lines /\ sale[s] \in SaleRow /\ due[c] \in Nat
        /\ cart[s] \in GoodCarts /\ mine[c] \in GoodCarts
    BY DEF SaleType, IInv, CartsGood
  <2>1. CASE LookToAdd(c) \/ LookToRemove(c) \/ LookToSetQuantity(c) \/ LookToCancel(c)
             \/ LookToAbandon(c)
    BY <2>1 DEF LookToAdd, LookToRemove, LookToSetQuantity, LookToCancel, LookToAbandon,
                Read, rows, SaleType
  <2>2. CASE LookToFinalize(c)
    BY <2>0, <2>2 DEF LookToFinalize, Read, rows, SaleType, SaleRow
  <2>3. CASE Tally(c)
    <3>1. PICK row \in NewRows(c) :
            /\ mine' = [mine EXCEPT ![c] = [NoCart EXCEPT ![l] = row]]
            /\ due' = [due EXCEPT ![c] = TotalOf(Edited(c, row))]
      BY <2>3 DEF Tally
    <3>2. GoodLine(l, row)
      <4>1. mine'[c] \in GoodCarts /\ mine'[c] = [NoCart EXCEPT ![l] = row]
        BY <3>1 DEF IInv, CartsGood
      <4>2. mine'[c][l] = row
        BY <2>0, <4>1 DEF NoCart
      <4> QED BY <2>0, <4>1, <4>2 DEF GoodCarts
    <3>3. Edited(c, row) \in GoodCarts
      BY <2>0, <3>2, PutLine DEF Edited
    <3>4. TotalOf(Edited(c, row)) \in Nat
      BY <3>3, WorthNat DEF TotalOf
    <3>5. UNCHANGED <<sale, lines>>
      BY <2>3 DEF Tally, rows
    <3> QED BY <3>1, <3>4, <3>5 DEF SaleType
  <2>4. CASE Edit(c)
    <3>1. sale' = [sale EXCEPT ![s].total = due[c]] /\ Ends(c)
      BY <2>4 DEF Edit
    <3>2. [sale[s] EXCEPT !.total = due[c]] \in SaleRow
      BY <2>0 DEF SaleRow
    <3>3. sale' \in [Sales -> SaleRow]
      BY <3>1, <3>2 DEF SaleType
    <3> QED BY <3>1, <3>3, EndsType
  <2>5. CASE Cancel(c) \/ Abandon(c)
    <3>1. /\ Ends(c)
          /\ sale' = sale \/ \E st \in Status : sale' = [sale EXCEPT ![s].status = st]
      BY <2>5 DEF Cancel, Abandon, Status
    <3>2. \A st \in Status : [sale[s] EXCEPT !.status = st] \in SaleRow
      BY <2>0 DEF SaleRow
    <3>3. sale' \in [Sales -> SaleRow]
      <4>1. CASE sale' = sale
        BY <4>1 DEF SaleType
      <4>2. ASSUME NEW st \in Status, sale' = [sale EXCEPT ![s].status = st]
            PROVE  sale' \in [Sales -> SaleRow]
        BY <2>0, <3>2, <4>2 DEF SaleType
      <4> QED BY <3>1, <4>1, <4>2
    <3> QED BY <3>1, <3>3, EndsType
  <2>6. CASE Finalize(c)
    <3>1. PICK cash \in Cash \cap 0..due[c] :
            sale' = [sale EXCEPT ![s].status = "COMPLETED",
                                 ![s].paid = @ + due[c],
                                 ![s].cashIn = @ + cash]
      BY <2>6 DEF Finalize
    <3>2. cash \in Nat
      BY <2>0, <3>1
    <3>3. [sale[s] EXCEPT !.status = "COMPLETED", !.paid = @ + due[c], !.cashIn = @ + cash]
            \in SaleRow
      <4>1. \A st \in Status, p \in Nat, q \in Nat :
              [sale[s] EXCEPT !.status = st, !.paid = p, !.cashIn = q] \in SaleRow
        BY <2>0 DEF SaleRow
      <4>2. /\ "COMPLETED" \in Status
            /\ sale[s].paid + due[c] \in Nat
            /\ sale[s].cashIn + cash \in Nat
        BY <2>0, <3>2 DEF SaleRow, Status, Finalized
      <4> QED BY <4>1, <4>2
    <3>4. sale' \in [Sales -> SaleRow]
      BY <3>1, <3>3 DEF SaleType
    <3> QED BY <2>6, <3>4, EndsType DEF Finalize
  <2>7. CASE LookToRefund(c)
    <3>1. PICK S : lines' = [lines EXCEPT ![c] = S \cap RowsOf(cart[s])]
      BY <2>7 DEF LookToRefund
    <3>2. due' = [due EXCEPT ![c] = sale[s].total] /\ sale' = sale
      BY <2>7 DEF LookToRefund, rows
    <3>3. sale[s].total \in Nat /\ S \cap RowsOf(cart[s]) \in SUBSET Lines
      BY <2>0 DEF SaleRow, RowsOf
    <3> QED BY <3>1, <3>2, <3>3 DEF SaleType
  <2>8. CASE Refund(c)
    <3> DEFINE value == Worth(mine[c], ToRefund(c))
               inCash == IF value < sale[s].cashIn THEN value ELSE sale[s].cashIn
               left == IF due[c] > value THEN due[c] - value ELSE 0
               partial == lines[c] # RowsOf(mine[c])
               st == IF partial THEN "PARTIALLY_REFUNDED" ELSE "REFUNDED"
               total == IF partial THEN left ELSE sale[s].total
    <3>1. sale' = [sale EXCEPT ![s].status = st,
                               ![s].total = IF partial THEN left ELSE @,
                               ![s].refunded = @ + value,
                               ![s].cashOut = @ + inCash]
      BY <2>8, Zenon DEF Refund
    <3>2. ToRefund(c) \in SUBSET Lines
      BY DEF ToRefund, Unrefunded
    <3>3. value \in Nat
      BY <2>0, <3>2, WorthNat
    <3>4. inCash \in Nat /\ left \in Nat /\ st \in Status /\ total \in Nat
      <4> HIDE DEF value
      <4> QED BY <2>0, <3>3 DEF SaleRow, Status, Finalized
    <3>5. [sale[s] EXCEPT !.status = st, !.total = IF partial THEN left ELSE @,
                          !.refunded = @ + value, !.cashOut = @ + inCash] \in SaleRow
      <4>1. \A x \in Status, t \in Nat, r \in Nat, o \in Nat :
              [sale[s] EXCEPT !.status = x, !.total = t, !.refunded = r, !.cashOut = o] \in SaleRow
        BY <2>0 DEF SaleRow
      <4> HIDE DEF value, inCash, left, st, partial
      <4>2. sale[s].refunded + value \in Nat /\ sale[s].cashOut + inCash \in Nat
        BY <2>0, <3>3, <3>4 DEF SaleRow
      <4> QED BY <3>4, <4>1, <4>2
    <3> HIDE DEF value, inCash, left, st, partial
    <3>6. sale' \in [Sales -> SaleRow]
      BY <3>1, <3>5 DEF SaleType
    <3> QED BY <2>8, <3>6, EndsType DEF Refund
  <2>9. CASE LookToRelease(c)
    BY <2>9 DEF LookToRelease, rows, SaleType
  <2>10. CASE Release(c) \/ Fail(c)
    <3>1. Ends(c) /\ sale' = sale
      BY <2>10 DEF Release, Fail, rows
    <3> QED BY <3>1, EndsType DEF SaleType
  <2> QED
    BY <1>4, <2>1, <2>2, <2>3, <2>4, <2>5, <2>6, <2>7, <2>8, <2>9, <2>10 DEF Call
<1> QED BY <1>1, <1>2, <1>3, <1>4 DEF Next

\* So they are typed in every behaviour.
LEMMA SaleTypes == Spec => []SaleType
<1>1. Init => SaleType
  BY DEF Init, SaleType, SaleRow, Status
<1>2. IInv /\ IInv' /\ SaleType /\ [Next]_vars => SaleType'
  BY SaleTypeStep
<1> QED BY <1>1, <1>2, Inductive, PTL DEF Spec

\* Every variable has its type, in every behaviour, with one screen or several.
THEOREM TypeCorrect == Spec => []TypeOK
<1>1. IInv /\ SaleType => TypeOK
  BY DEF IInv, CartsGood, StockInv, SaleType, TypeOK, GoodCarts
<1> QED BY <1>1, Inductive, SaleTypes, PTL

-----------------------------------------------------------------------------
(* One screen to a sale: what a call knows when it writes.                 *)

\* Two calls in flight are calls that may overlap.
InTurn ==
  \A c, d \in Calls : c # d /\ InFlight(c) /\ InFlight(d) => MayOverlap(c, d)

\* The calls that act on a draft.
DraftWriter(c) == Op[c] \in Edits \cup {"cancel", "abandon"}

\* A line is as dear as its pieces.
Priced(l, r) == r.total = r.qty * Price[l]

\* What a call read of its sale is still so when it writes: the draft is a draft, the
\* total it tallied is the total of the cart with its line, what it finalizes is what
\* the rows say, and a refund may find lines zeroed since, but no others.
CallSees(c) ==
  LET s == SaleOf[c]
      l == LineOf[c]
  IN
  /\ InFlight(c) /\ DraftWriter(c) => IsDraft(s)
  /\ pc[c] = "tallied" =>
       /\ Op[c] \in Edits
       /\ Priced(l, mine[c][l])
       /\ due[c] = TotalOf(Edited(c, mine[c][l]))
       /\ (mine[c][l].qty = 0) <=> Op[c] = "removeItem"
  /\ InFlight(c) /\ Op[c] = "finalize" =>
       /\ sale[s].status # "none"
       /\ IsDraft(s) => mine[c] = cart[s] /\ due[c] = sale[s].total
  /\ InFlight(c) /\ Op[c] = "refund" =>
       /\ IsFinalized(s)
       /\ \A k \in Lines :
            /\ cart[s][k].qty = mine[c][k].qty
            /\ cart[s][k].total \in {0, mine[c][k].total}

\* No draft writer shares its sale with another call but a refund or the job.
LEMMA WritesAlone ==
  ASSUME InTurn, NEW c \in Calls, NEW d \in Calls \ {c}, InFlight(c), InFlight(d),
         SaleOf[d] = SaleOf[c], DraftWriter(c)
  PROVE  Op[d] \in {"refund", "release"}
<1>1. MayOverlap(c, d)
  BY DEF InTurn
<1> QED BY <1>1 DEF MayOverlap, DraftWriter, Edits

\* What a step of a call leaves alone.
LEMMA OthersKept ==
  ASSUME IInv, SaleType, NEW c \in Calls, Call(c)
  PROVE  /\ \A d \in Calls \ {c} : pc'[d] = pc[d] /\ mine'[d] = mine[d] /\ due'[d] = due[d]
         /\ \A t \in Sales \ {SaleOf[c]} : sale'[t] = sale[t] /\ cart'[t] = cart[t]
<1> USE DEF IInv, CartsGood, SaleType
<1>1. CASE LookToAdd(c) \/ LookToRemove(c) \/ LookToSetQuantity(c) \/ LookToCancel(c)
           \/ LookToAbandon(c) \/ LookToFinalize(c) \/ LookToRefund(c) \/ LookToRelease(c)
           \/ Tally(c)
  BY <1>1 DEF LookToAdd, LookToRemove, LookToSetQuantity, LookToCancel, LookToAbandon,
     LookToFinalize, LookToRefund, LookToRelease, Tally, Read, Goto, rows
<1>2. CASE Edit(c) \/ Cancel(c) \/ Finalize(c) \/ Release(c) \/ Fail(c)
  BY <1>2 DEF Edit, Cancel, Finalize, Release, Fail, Ends, Goto, rows
<1>3. CASE Abandon(c)
  BY <1>3 DEF Abandon, Ends, Goto
<1>4. CASE Refund(c)
  <2>1. Ends(c) /\ (\E k : cart' = [cart EXCEPT ![SaleOf[c]] = k])
    BY <1>4 DEF Refund
  <2>2. \A t \in Sales \ {SaleOf[c]} : sale'[t] = sale[t]
    BY <1>4 DEF Refund
  <2> QED BY <2>1, <2>2 DEF Ends, Goto
<1> QED BY <1>1, <1>2, <1>3, <1>4 DEF Call

\* A call is in flight after a step if it was, or if it began when it might.
LEMMA FlightStep ==
  ASSUME OneScreen, IInv, NEW c \in Calls, Call(c), InFlight(c)'
  PROVE  InFlight(c) \/ \A d \in Calls : InFlight(d) => MayOverlap(c, d)
<1>1. CASE \E op \in Ops : Begins(c, op)
  BY <1>1 DEF Begins
<1>2. CASE InFlight(c)
  BY <1>2
<1> QED
  BY <1>1, <1>2 DEF Call, LookToAdd, LookToRemove, LookToSetQuantity, LookToCancel,
     LookToAbandon, LookToFinalize, LookToRefund, LookToRelease, Tally, Edit, Cancel,
     Finalize, Release, Fail, Abandon, Refund, InFlight, Ops, Edits

\* Every step keeps the calls in turn.
LEMMA InTurnStep ==
  ASSUME OneScreen, IInv, SaleType, InTurn, [Next]_vars
  PROVE  InTurn'
<1>1. CASE UNCHANGED pc
  BY <1>1 DEF InTurn, InFlight, MayOverlap
<1>2. ASSUME NEW c \in Calls, Call(c) PROVE InTurn'
  <2>1. \A d \in Calls \ {c} : InFlight(d)' <=> InFlight(d)
    BY <1>2, OthersKept DEF InFlight
  <2>2. ASSUME InFlight(c)', NEW d \in Calls \ {c}, InFlight(d)
        PROVE  MayOverlap(c, d) /\ MayOverlap(d, c)
    <3>1. MayOverlap(c, d)
      BY <1>2, <2>2, FlightStep DEF InTurn
    <3> QED BY <3>1 DEF MayOverlap
  <2>3. \A d, e \in Calls : MayOverlap(d, e)' = MayOverlap(d, e)
    BY DEF MayOverlap
  <2> QED BY <2>1, <2>2, <2>3 DEF InTurn
<1> QED BY <1>1, <1>2 DEF Next, vars, CreateDraft, GrowStale

\* A call whose sale nobody wrote sees what it saw.
LEMMA SeesKept ==
  ASSUME NEW d \in Calls, CallSees(d), pc'[d] = pc[d], mine'[d] = mine[d], due'[d] = due[d],
         sale'[SaleOf[d]] = sale[SaleOf[d]], cart'[SaleOf[d]] = cart[SaleOf[d]]
  PROVE  CallSees(d)'
BY DEF CallSees, InFlight, IsDraft, IsFinalized, Edited

\* One that is not in flight, or is the job, sees nothing.
LEMMA SeesNothing ==
  ASSUME NEW d \in Calls, CallSees(d), pc'[d] = pc[d], ~InFlight(d) \/ Op[d] = "release"
  PROVE  CallSees(d)'
BY DEF CallSees, InFlight, DraftWriter, Edits

\* A call that ended has nothing more to see.
LEMMA SeesOver ==
  ASSUME IInv, NEW c \in Calls, Ends(c)
  PROVE  CallSees(c)'
<1>1. pc'[c] = "over"
  BY DEF Ends, Goto, IInv, CartsGood
<1> QED BY <1>1 DEF CallSees, InFlight

\* The other calls of the sale, over a write to it.
LEMMA SeesWrite ==
  ASSUME IInv, SaleType, InTurn, NEW c \in Calls, NEW d \in Calls \ {c}, Call(c),
         CallSees(c), CallSees(d), SaleOf[d] = SaleOf[c],
         Edit(c) \/ Cancel(c) \/ Abandon(c) \/ Finalize(c) \/ Refund(c)
  PROVE  CallSees(d)'
<1> DEFINE s == SaleOf[c]
<1> USE LinesFinite
<1>1. pc'[d] = pc[d] /\ mine'[d] = mine[d] /\ due'[d] = due[d]
  BY OthersKept
<1>2. CASE ~InFlight(d) \/ Op[d] = "release"
  BY <1>1, <1>2, SeesNothing
<1>3. CASE InFlight(d) /\ Op[d] # "release" /\ (Edit(c) \/ Cancel(c) \/ Abandon(c))
  <2>1. InFlight(c) /\ DraftWriter(c)
    BY <1>3 DEF Edit, Cancel, Abandon, InFlight, DraftWriter, CallSees
  <2>2. IsDraft(s)
    BY <2>1 DEF CallSees
  <2>3. Op[d] = "refund"
    BY <1>3, <2>1, WritesAlone
  <2>4. IsFinalized(s)
    BY <1>3, <2>3 DEF CallSees
  <2> QED BY <2>2, <2>4 DEF IsDraft, IsFinalized, Finalized
<1>4. CASE InFlight(d) /\ Op[d] # "release" /\ Finalize(c)
  <2>1. InFlight(c) /\ Op[c] = "finalize" /\ IsDraft(s)
    BY <1>4 DEF Finalize, InFlight, ClaimDraft
  <2>2. ~DraftWriter(d)
    BY <1>4, <2>1, WritesAlone
  <2>3. Op[d] # "refund"
    BY <1>4, <2>1 DEF CallSees, IsDraft, IsFinalized, Finalized
  <2>4. Op[d] = "finalize" /\ pc[d] # "tallied"
    <3>1. Op[d] \in Ops
      BY PdvAssumption
    <3> QED BY <2>2, <2>3, <3>1, <1>4 DEF Ops, DraftWriter, CallSees
  <2>5. sale'[s].status = "COMPLETED"
    BY <1>4 DEF Finalize, SaleType, SaleRow
  <2> QED BY <1>1, <2>4, <2>5 DEF CallSees, IsDraft, InFlight, DraftWriter, Edits
<1>5. CASE InFlight(d) /\ Op[d] # "release" /\ Refund(c)
  <2>1. IsFinalized(s)
    BY <1>5 DEF Refund, Refundable, IsFinalized, Finalized
  <2>2. ~DraftWriter(d)
    BY <1>5, <2>1 DEF CallSees, IsDraft, IsFinalized, Finalized
  <2>3. Op[d] \in {"finalize", "refund"} /\ pc[d] # "tallied"
    <3>1. Op[d] \in Ops
      BY PdvAssumption
    <3> QED BY <2>2, <3>1, <1>5 DEF Ops, DraftWriter, CallSees
  <2>4. sale'[s].status \in {"PARTIALLY_REFUNDED", "REFUNDED"}
    BY <1>5 DEF Refund, SaleType, SaleRow
  <2>5. \A k \in Lines : /\ cart'[s][k].qty = cart[s][k].qty
                         /\ cart'[s][k].total \in {0, cart[s][k].total}
    BY <1>5 DEF Refund, IInv, CartsGood
  <2> QED
    BY <1>1, <2>2, <2>3, <2>4, <2>5
       DEF CallSees, IsDraft, IsFinalized, Finalized, InFlight, DraftWriter
<1> QED BY <1>2, <1>3, <1>4, <1>5

\* What a call reads as it begins, and what it tallies.
LEMMA SeesRead ==
  ASSUME IInv, SaleType, NEW c \in Calls, CallSees(c),
         LookToAdd(c) \/ LookToRemove(c) \/ LookToSetQuantity(c) \/ LookToCancel(c)
           \/ LookToAbandon(c) \/ LookToFinalize(c) \/ LookToRefund(c) \/ LookToRelease(c)
  PROVE  CallSees(c)'
<1> USE LinesFinite DEF IInv, CartsGood, SaleType
<1>1. pc'[c] = "looked" /\ UNCHANGED <<sale, cart>>
  BY DEF LookToAdd, LookToRemove, LookToSetQuantity, LookToCancel,
     LookToAbandon, LookToFinalize, LookToRefund, LookToRelease, Read, Goto, rows
<1>2. CASE LookToAdd(c) \/ LookToRemove(c) \/ LookToSetQuantity(c) \/ LookToCancel(c)
           \/ LookToAbandon(c)
  <2>1. IsDraft(SaleOf[c]) /\ Op[c] \in Edits \cup {"cancel", "abandon"}
    BY <1>2 DEF LookToAdd, LookToRemove, LookToSetQuantity, LookToCancel,
       LookToAbandon, Begins, Edits
  <2> QED BY <1>1, <2>1 DEF CallSees, IsDraft, Edits
<1>3. CASE LookToFinalize(c)
  <2>1. IsDraft(SaleOf[c]) /\ Op[c] = "finalize"
        /\ mine'[c] = cart[SaleOf[c]] /\ due'[c] = sale[SaleOf[c]].total
    BY <1>3 DEF LookToFinalize, Begins, Read
  <2> QED BY <1>1, <2>1 DEF CallSees, IsDraft, DraftWriter, Edits
<1>4. CASE LookToRefund(c)
  <2>1. IsFinalized(SaleOf[c]) /\ Op[c] = "refund" /\ mine'[c] = cart[SaleOf[c]]
    BY <1>4 DEF LookToRefund, Begins, IsFinalized, Refundable, Finalized
  <2> QED BY <1>1, <2>1 DEF CallSees, IsFinalized, DraftWriter, Edits
<1>5. CASE LookToRelease(c)
  <2>1. Op[c] = "release"
    BY <1>5 DEF LookToRelease, Begins
  <2> QED BY <1>1, <2>1 DEF CallSees, DraftWriter, Edits
<1> QED BY <1>2, <1>3, <1>4, <1>5

\* What is tallied is priced, and is the total of the cart with the line in it.
LEMMA SeesTally ==
  ASSUME IInv, SaleType, NEW c \in Calls, CallSees(c), Tally(c)
  PROVE  CallSees(c)'
<1> DEFINE l == LineOf[c]
<1> USE LinesFinite
<1>1. PICK row \in NewRows(c) :
        /\ mine' = [mine EXCEPT ![c] = [NoCart EXCEPT ![l] = row]]
        /\ due' = [due EXCEPT ![c] = TotalOf(Edited(c, row))]
  BY DEF Tally
<1>2. /\ pc[c] = "looked"
      /\ Op[c] \in Edits
      /\ pc'[c] = "tallied"
      /\ UNCHANGED <<sale, cart>>
  BY DEF Tally, Goto, rows, IInv, CartsGood
<1>3. mine'[c][l] = row /\ due'[c] = TotalOf(Edited(c, row))
  BY <1>1 DEF IInv, CartsGood, SaleType, NoCart
<1>4. mine[c][l].qty \in Nat
  BY DEF IInv, CartsGood, GoodCarts, Cart
<1>5. Priced(l, row) /\ ((row.qty = 0) <=> Op[c] = "removeItem")
  <2>1. CASE Op[c] = "addItem"
    BY <1>1, <1>4, <2>1 DEF NewRows, Row, Priced
  <2>2. CASE Op[c] = "setQuantity"
    <3>1. PICK n \in 1..MaxQty : row = Row(l, n)
      BY <1>1, <2>2 DEF NewRows
    <3> QED BY <2>2, <3>1, PdvAssumption DEF Row, Priced
  <2>3. CASE Op[c] = "removeItem"
    <3>1. row = NoLine
      BY <1>1, <2>3 DEF NewRows
    <3> QED BY <2>3, <3>1 DEF NoLine, Priced
  <2> QED BY <1>2, <2>1, <2>2, <2>3 DEF Edits
<1>6. IsDraft(SaleOf[c])
  BY <1>2 DEF CallSees, InFlight, DraftWriter
<1>7. Edited(c, row)' = Edited(c, row)
  BY <1>2 DEF Edited
<1> QED
  BY <1>2, <1>3, <1>5, <1>6, <1>7 DEF CallSees, IsDraft, Edits, Edited

\* Every step leaves every call with a true picture of its sale.
LEMMA SeesStep ==
  ASSUME IInv, SaleType, InTurn, \A c \in Calls : CallSees(c), [Next]_vars
  PROVE  \A c \in Calls : CallSees(c)'
<1> USE LinesFinite
<1>1. CASE UNCHANGED vars
  BY <1>1, SeesKept DEF vars, rows
<1>2. ASSUME NEW s \in Sales, CreateDraft(s), NEW d \in Calls PROVE CallSees(d)'
  <2>1. pc'[d] = pc[d] /\ mine'[d] = mine[d] /\ due'[d] = due[d] /\ cart' = cart
    BY <1>2 DEF CreateDraft
  <2>2. CASE SaleOf[d] # s
    BY <1>2, <2>1, <2>2, SeesKept DEF CreateDraft, SaleType
  <2>3. CASE SaleOf[d] = s
    <3>1. sale[s].status = "none"
      BY <1>2 DEF CreateDraft
    <3>2. ~InFlight(d) \/ Op[d] = "release"
      <4>1. Op[d] \in Ops
        BY PdvAssumption
      <4> QED BY <2>3, <3>1, <4>1
             DEF CallSees, IsDraft, IsFinalized, Finalized, DraftWriter, Ops
    <3> QED BY <2>1, <3>2, SeesNothing
  <2> QED BY <2>2, <2>3
<1>3. ASSUME NEW u \in Units, GrowStale(u), NEW d \in Calls PROVE CallSees(d)'
  BY <1>3, SeesKept DEF GrowStale
<1>4. ASSUME NEW c \in Calls, Call(c), NEW d \in Calls \ {c} PROVE CallSees(d)'
  <2>1. CASE SaleOf[d] # SaleOf[c]
    BY <1>4, <2>1, OthersKept, SeesKept
  <2>2. CASE SaleOf[d] = SaleOf[c]
    <3>1. CASE UNCHANGED <<sale, cart>>
      BY <1>4, <3>1, OthersKept, SeesKept
    <3>2. CASE Edit(c) \/ Cancel(c) \/ Abandon(c) \/ Finalize(c) \/ Refund(c)
      BY <1>4, <2>2, <3>2, SeesWrite
    <3> QED
      BY <1>4, <3>1, <3>2
         DEF Call, LookToAdd, LookToRemove, LookToSetQuantity, LookToCancel,
         LookToAbandon, LookToFinalize, LookToRefund, LookToRelease, Read, Tally, Release,
         Fail, rows
  <2> QED BY <2>1, <2>2
<1>5. ASSUME NEW c \in Calls, Call(c) PROVE CallSees(c)'
  <2>1. CASE Tally(c)
    BY <2>1, SeesTally
  <2>2. CASE Ends(c)
    BY <2>2, SeesOver
  <2> QED
    BY <1>5, <2>1, <2>2, SeesRead DEF Call, Edit, Cancel, Abandon, Finalize, Refund,
       Release, Fail
<1> QED BY <1>1, <1>2, <1>3, <1>4, <1>5 DEF Next

-----------------------------------------------------------------------------
(* The money of a sale.                                                    *)

\* A sale not opened is empty, and the stored total of a draft is that of its lines.
SaleAdds(s) ==
  /\ sale[s].status = "none" => cart[s] = NoCart /\ sale[s].total = 0
  /\ IsDraft(s) => sale[s].total = TotalOf(cart[s]) /\ \A l \in Lines : Priced(l, cart[s][l])

\* What MoneyMatchesGoods says of one sale.
PriceOf(k) == SumFunctionOnSet([l \in Lines |-> k[l].qty * Price[l]], Lines)
MoneyAdds(s) ==
  IF IsFinalized(s)
  THEN sale[s].paid = PriceOf(cart[s]) /\ sale[s].paid - sale[s].refunded = TotalOf(cart[s])
  ELSE sale[s].paid = 0 /\ sale[s].refunded = 0

\* The empty cart is worth nothing, and its lines are priced.
LEMMA EmptyAdds == TotalOf(NoCart) = 0 /\ \A l \in Lines : Priced(l, NoCart[l])
<1>1. TotalOf(NoCart) = SumFunctionOnSet([l \in Lines |-> 0], Lines)
  BY DEF TotalOf, Worth, NoCart, NoLine
<1>2. TotalOf(NoCart) = 0
  BY <1>1, SumZero, LinesFinite
<1> QED BY <1>2, LinesFinite DEF Priced, NoCart, NoLine

\* A cart whose lines are priced is worth its price.
LEMMA PricedTotal ==
  ASSUME NEW k \in GoodCarts, \A l \in Lines : Priced(l, k[l])
  PROVE  TotalOf(k) = PriceOf(k)
<1>1. [l \in Lines |-> k[l].total] = [l \in Lines |-> k[l].qty * Price[l]]
  BY DEF Priced
<1> QED BY <1>1 DEF TotalOf, Worth, PriceOf

\* A sale nobody wrote still adds up.
LEMMA AddsKept ==
  ASSUME NEW s \in Sales, SaleAdds(s), MoneyAdds(s), sale'[s] = sale[s], cart'[s] = cart[s]
  PROVE  SaleAdds(s)' /\ MoneyAdds(s)'
<1>1. IsDraft(s)' = IsDraft(s) /\ IsFinalized(s)' = IsFinalized(s)
  BY DEF IsDraft, IsFinalized
<1>2. TotalOf(cart[s])' = TotalOf(cart[s]) /\ PriceOf(cart[s])' = PriceOf(cart[s])
  BY DEF TotalOf, Worth, PriceOf
<1> QED BY <1>1, <1>2 DEF SaleAdds, MoneyAdds, Priced

\* An edit stores the line with the total it makes, and the draft adds up again.
LEMMA EditAdds ==
  ASSUME IInv, SaleType, NEW c \in Calls, Edit(c), CallSees(c),
         SaleAdds(SaleOf[c]), MoneyAdds(SaleOf[c])
  PROVE  SaleAdds(SaleOf[c])' /\ MoneyAdds(SaleOf[c])'
<1> DEFINE s == SaleOf[c]
           l == LineOf[c]
           k == Edited(c, mine[c][l])
<1> USE LinesFinite
<1>1. pc[c] = "tallied" /\ Op[c] \in Edits /\ Priced(l, mine[c][l]) /\ due[c] = TotalOf(k)
  BY DEF Edit, CallSees
<1>2. IsDraft(s)
  BY <1>1 DEF CallSees, InFlight, DraftWriter
<1>3. cart'[s] = k /\ k = [cart[s] EXCEPT ![l] = mine[c][l]] /\ cart[s] \in GoodCarts
  BY DEF Edit, IInv, CartsGood, Edited
<1>4. sale' = [sale EXCEPT ![s].total = due[c]]
  BY DEF Edit
<1>5. /\ sale'[s].total = due[c] /\ sale'[s].status = sale[s].status
      /\ sale'[s].paid = sale[s].paid /\ sale'[s].refunded = sale[s].refunded
  BY <1>4 DEF SaleType, SaleRow
<1>6. \A x \in Lines : Priced(x, k[x])
  <2>1. \A x \in Lines : Priced(x, cart[s][x])
    BY <1>2 DEF SaleAdds
  <2>2. \A x \in Lines : k[x] = IF x = l THEN mine[c][l] ELSE cart[s][x]
    BY <1>3 DEF GoodCarts, Cart
  <2> QED BY <1>1, <2>1, <2>2
<1>7. sale'[s].status = "DRAFT"
  BY <1>2, <1>5 DEF IsDraft
<1>8. SaleAdds(s)'
  <2> HIDE DEF k
  <2>1. sale'[s].total = TotalOf(cart'[s]) /\ \A x \in Lines : Priced(x, cart'[s][x])
    BY <1>1, <1>3, <1>5, <1>6
  <2> QED BY <1>7, <2>1 DEF SaleAdds, IsDraft, TotalOf, Worth, Priced
<1>9. MoneyAdds(s)'
  BY <1>2, <1>5, <1>7 DEF MoneyAdds, IsDraft, IsFinalized, Finalized
<1> QED BY <1>8, <1>9

\* A draft given up took no money.
LEMMA GiveUpAdds ==
  ASSUME IInv, SaleType, NEW c \in Calls, Cancel(c) \/ Abandon(c), CallSees(c),
         SaleAdds(SaleOf[c]), MoneyAdds(SaleOf[c])
  PROVE  SaleAdds(SaleOf[c])' /\ MoneyAdds(SaleOf[c])'
<1> DEFINE s == SaleOf[c]
<1> USE LinesFinite
<1>1. IsDraft(s)
  BY DEF Cancel, Abandon, CallSees, InFlight, DraftWriter
<1>2. \E st \in {"CANCELLED", "deleted"} : sale' = [sale EXCEPT ![s].status = st]
  BY <1>1 DEF Cancel, Abandon
<1>3. /\ sale'[s].status \in {"CANCELLED", "deleted"}
      /\ sale'[s].paid = sale[s].paid /\ sale'[s].refunded = sale[s].refunded
  BY <1>2 DEF SaleType, SaleRow
<1>4. MoneyAdds(s)'
  BY <1>1, <1>3 DEF MoneyAdds, IsDraft, IsFinalized, Finalized
<1> QED BY <1>3, <1>4 DEF SaleAdds, IsDraft

\* A finalized sale was paid the price of its goods.
LEMMA FinalizeAdds ==
  ASSUME IInv, SaleType, NEW c \in Calls, Finalize(c), CallSees(c),
         SaleAdds(SaleOf[c]), MoneyAdds(SaleOf[c])
  PROVE  SaleAdds(SaleOf[c])' /\ MoneyAdds(SaleOf[c])'
<1> DEFINE s == SaleOf[c]
<1> USE LinesFinite
<1>1. IsDraft(s) /\ due[c] = sale[s].total /\ cart' = cart
  BY DEF Finalize, ClaimDraft, CallSees, InFlight
<1>2. /\ sale'[s].status = "COMPLETED"
      /\ sale'[s].paid = sale[s].paid + due[c] /\ sale'[s].refunded = sale[s].refunded
  BY DEF Finalize, SaleType, SaleRow
<1>3. sale[s].paid = 0 /\ sale[s].refunded = 0
  BY <1>1 DEF MoneyAdds, IsDraft, IsFinalized, Finalized
<1>4. due[c] = TotalOf(cart[s]) /\ TotalOf(cart[s]) = PriceOf(cart[s]) /\ due[c] \in Nat
  <2>1. cart[s] \in GoodCarts /\ due[c] \in Nat
    BY DEF IInv, CartsGood, SaleType
  <2> QED BY <1>1, <2>1, PricedTotal DEF SaleAdds
<1>5. TotalOf(cart[s])' = TotalOf(cart[s]) /\ PriceOf(cart[s])' = PriceOf(cart[s])
  BY <1>1 DEF TotalOf, Worth, PriceOf
<1>6. MoneyAdds(s)'
  <2>1. IsFinalized(s)'
    BY <1>2 DEF IsFinalized, Finalized
  <2>2. sale'[s].paid = due[c] /\ sale'[s].refunded = 0
    BY <1>2, <1>3, <1>4
  <2>3. /\ sale'[s].paid = PriceOf(cart[s])'
        /\ sale'[s].paid - sale'[s].refunded = TotalOf(cart[s])'
    BY <1>4, <1>5, <2>2
  <2> QED BY <2>1, <2>3 DEF MoneyAdds
<1> QED BY <1>2, <1>6 DEF SaleAdds, IsDraft

\* A refund gives back what the lines it zeroes were worth.
LEMMA RefundAdds ==
  ASSUME IInv, SaleType, NEW c \in Calls, Refund(c), CallSees(c),
         SaleAdds(SaleOf[c]), MoneyAdds(SaleOf[c])
  PROVE  SaleAdds(SaleOf[c])' /\ MoneyAdds(SaleOf[c])'
<1> DEFINE s == SaleOf[c]
           S == ToRefund(c)
           k == cart[s]
           j == [l \in Lines |-> [qty |-> k[l].qty, total |-> IF l \in S THEN 0 ELSE k[l].total]]
           value == Worth(mine[c], S)
           f == [l \in Lines |-> k[l].total]
           g == [l \in Lines |-> mine[c][l].total]
<1> USE LinesFinite
<1>1. /\ IsFinalized(s) /\ S \subseteq Lines /\ k \in GoodCarts /\ mine[c] \in GoodCarts
      /\ cart'[s] = j /\ sale[s] \in SaleRow
  BY
     DEF Refund, IsFinalized, Refundable, Finalized, ToRefund, Unrefunded, IInv, CartsGood, SaleType
<1>2. /\ sale'[s].status \in {"PARTIALLY_REFUNDED", "REFUNDED"}
      /\ sale'[s].paid = sale[s].paid /\ sale'[s].refunded = sale[s].refunded + value
  BY DEF Refund, SaleType, SaleRow
<1>3. \A l \in Lines : f[l] \in Int /\ g[l] \in Int
  BY <1>1 DEF GoodCarts, Cart
<1>4. \A l \in S : f[l] = g[l]
  <2>1. \A l \in S : l \in Lines /\ k[l].total > 0
    BY DEF Refund, ClaimLines, Unrefunded, ToRefund
  <2>2. \A l \in Lines : k[l].total \in {0, mine[c][l].total}
    BY DEF Refund, CallSees, InFlight
  <2> QED BY <2>1, <2>2
<1>5. TotalOf(k) = value + TotalOf(j)
  <2>1. SumFunctionOnSet(f, S) = SumFunctionOnSet(g, S)
    <3>1. IsFiniteSet(S) /\ \A l \in S : f[l] \in Int /\ g[l] = f[l]
      BY <1>1, <1>3, <1>4, FS_Subset
    <3> HIDE DEF f, g
    <3> QED BY <3>1, SumSame
  <2>2. SumFunctionOnSet(f, Lines)
          = SumFunctionOnSet(f, S) + SumFunctionOnSet([l \in Lines |-> IF l \in S THEN 0 ELSE f[l]], Lines)
    <3>1. S \in SUBSET Lines
      BY <1>1
    <3> HIDE DEF f, S
    <3> QED BY <1>3, <3>1, SumZeroed
  <2>3. [l \in Lines |-> IF l \in S THEN 0 ELSE f[l]] = [l \in Lines |-> j[l].total]
    OBVIOUS
  <2> QED BY <2>1, <2>2, <2>3 DEF TotalOf, Worth
<1>6. TotalOf(k) \in Int /\ value \in Int /\ TotalOf(j) \in Int
  <2>1. j \in GoodCarts
    BY <1>1 DEF GoodCarts, GoodLine, Cart
  <2> QED BY <1>1, <2>1, WorthNat DEF TotalOf
<1>7. PriceOf(j) = PriceOf(k)
  <2>1. [l \in Lines |-> j[l].qty * Price[l]] = [l \in Lines |-> k[l].qty * Price[l]]
    OBVIOUS
  <2> QED BY <2>1 DEF PriceOf
<1>8. MoneyAdds(s)'
  <2>1. IsFinalized(s)'
    BY <1>2 DEF IsFinalized, Finalized
  <2>2. sale[s].paid = PriceOf(k) /\ sale[s].paid - sale[s].refunded = TotalOf(k)
    BY <1>1 DEF MoneyAdds
  <2>3. sale[s].paid \in Int /\ sale[s].refunded \in Int
    BY <1>1 DEF SaleRow
  <2>4. TotalOf(cart[s])' = TotalOf(j) /\ PriceOf(cart[s])' = PriceOf(j)
    BY <1>1 DEF TotalOf, Worth, PriceOf
  <2> HIDE DEF value, j, k
  <2>5. sale'[s].paid - sale'[s].refunded = TotalOf(j)
    BY <1>2, <1>5, <1>6, <2>2, <2>3
  <2>6. /\ sale'[s].paid = PriceOf(cart[s])'
        /\ sale'[s].paid - sale'[s].refunded = TotalOf(cart[s])'
    BY <1>2, <1>7, <2>2, <2>4, <2>5
  <2> QED BY <2>1, <2>6 DEF MoneyAdds
<1> QED BY <1>2, <1>8 DEF SaleAdds, IsDraft

\* Every step leaves every sale adding up.
LEMMA AddsStep ==
  ASSUME IInv, SaleType, \A c \in Calls : CallSees(c),
         \A s \in Sales : SaleAdds(s) /\ MoneyAdds(s), [Next]_vars
  PROVE  \A s \in Sales : SaleAdds(s)' /\ MoneyAdds(s)'
<1> USE LinesFinite
<1>1. CASE UNCHANGED <<sale, cart>>
  BY <1>1, AddsKept
<1>2. ASSUME NEW t \in Sales, CreateDraft(t), NEW s \in Sales
      PROVE  SaleAdds(s)' /\ MoneyAdds(s)'
  <2>1. CASE s # t
    BY <1>2, <2>1, AddsKept DEF CreateDraft, SaleType
  <2>2. CASE s = t
    <3>1. /\ sale[s].status = "none" /\ sale'[s].status = "DRAFT" /\ sale'[s].total = sale[s].total
          /\ sale'[s].paid = sale[s].paid /\ sale'[s].refunded = sale[s].refunded
          /\ cart'[s] = cart[s]
      BY <1>2, <2>2 DEF CreateDraft, SaleType, SaleRow
    <3>2. cart[s] = NoCart /\ sale[s].total = 0
      BY <3>1 DEF SaleAdds
    <3>3. SaleAdds(s)'
      <4>1. TotalOf(cart[s])' = TotalOf(NoCart)
        BY <3>1, <3>2 DEF TotalOf, Worth, NoCart, NoLine
      <4> QED BY <3>1, <3>2, <4>1, EmptyAdds DEF SaleAdds, Priced
    <3>4. MoneyAdds(s)'
      BY <3>1 DEF MoneyAdds, IsFinalized, Finalized
    <3> QED BY <3>3, <3>4
  <2> QED BY <2>1, <2>2
<1>3. ASSUME NEW c \in Calls, Call(c), NEW s \in Sales
      PROVE  SaleAdds(s)' /\ MoneyAdds(s)'
  <2>1. CASE s # SaleOf[c]
    BY <1>3, <2>1, OthersKept, AddsKept
  <2>2. CASE s = SaleOf[c]
    <3>1. CASE UNCHANGED <<sale, cart>>
      BY <3>1, AddsKept
    <3> QED
      BY <1>3, <2>2, <3>1, EditAdds, GiveUpAdds, FinalizeAdds, RefundAdds
      DEF Call, LookToAdd, LookToRemove, LookToSetQuantity, LookToCancel,
         LookToAbandon, LookToFinalize, LookToRefund, LookToRelease, Read, Tally, Release,
         Fail, rows
  <2> QED BY <2>1, <2>2
<1> QED BY <1>1, <1>2, <1>3 DEF Next, vars, rows, GrowStale

-----------------------------------------------------------------------------
(* The place of a device.                                                  *)

\* Of one device and one sale, what SoldMeansCharged, NoLeakedReservation and the
\* first part of KardexAgrees say.
UnitPlaced(u) ==
  /\ unit[u].status = "RESERVED" => IsDraft(unit[u].sale) /\ cart[unit[u].sale][u].qty > 0
  /\ unit[u].status = "SOLD" => IsFinalized(unit[u].sale) /\ cart[unit[u].sale][u].qty > 0
  /\ moved[u] = IF unit[u].status = "SOLD" THEN cart[unit[u].sale][u].qty ELSE 0

\* A device a finalized sale charges for is out with that sale.
Delivered(s, u) ==
  IsFinalized(s) /\ cart[s][u].total > 0 => unit[u].status = "SOLD" /\ unit[u].sale = s

\* Both, of every device.
Placed == \A u \in Units : UnitPlaced(u) /\ \A s \in Sales : Delivered(s, u)

\* Said of every device, they give the three properties.
LEMMA PlacedMeans ==
  ASSUME unit \in [Units -> UnitRow], GoodsAgree, Placed
  PROVE  SoldMeansCharged /\ NoLeakedReservation /\ KardexAgrees
<1>1. \A u \in Units : unit[u].status \in {"RESERVED", "SOLD"} => unit[u].sale \in Sales
  BY DEF UnitRow
<1> QED
  BY <1>1 DEF Placed, UnitPlaced, Delivered, SoldMeansCharged, NoLeakedReservation,
     KardexAgrees

\* A step that writes no sale, and holds or gives back no device, keeps them.
LEMMA PlacedKept ==
  ASSUME IInv, Placed, UNCHANGED <<sale, cart, moved>>,
         \A u \in Units : /\ unit'[u].status = "RESERVED" =>
                               unit[u].status = "RESERVED" /\ unit'[u].sale = unit[u].sale
                          /\ unit'[u].status = "SOLD" \/ unit[u].status = "SOLD" =>
                               unit'[u] = unit[u]
  PROVE  Placed'
BY DEF Placed, UnitPlaced, Delivered, IsDraft, IsFinalized

\* An edit holds the device with its line, or lets it go with it.
LEMMA EditPlaces ==
  ASSUME IInv, SaleType, Placed, NEW c \in Calls, Edit(c), CallSees(c)
  PROVE  Placed'
<1> DEFINE s == SaleOf[c]
           l == LineOf[c]
<1> USE LinesFinite
<1>1. /\ pc[c] = "tallied"
      /\ Op[c] \in Edits
      /\ Op[c] # "removeItem" => mine[c][l].qty > 0
      /\ moved' = moved
  <2>1. mine[c][l].qty \in Nat
    BY PdvAssumption DEF IInv, CartsGood, GoodCarts, Cart
  <2> QED BY <2>1 DEF Edit, CallSees
<1>2. IsDraft(s)
  BY <1>1 DEF CallSees, InFlight, DraftWriter
<1>3. \A t \in Sales : IsDraft(t)' = IsDraft(t) /\ IsFinalized(t)' = IsFinalized(t)
  BY DEF Edit, SaleType, SaleRow, IsDraft, IsFinalized
<1>4. \A t \in Sales, x \in Lines : t # s \/ x # l => cart'[t][x] = cart[t][x]
  BY DEF Edit, Edited, IInv, CartsGood, GoodCarts, Cart
<1>5. cart'[s][l] = mine[c][l]
  BY DEF Edit, Edited, IInv, CartsGood, GoodCarts, Cart
<1>6. ~IsFinalized(s)
  BY <1>2 DEF IsDraft, IsFinalized, Finalized
<1>t. \A u \in Units : unit[u] \in UnitRow
  BY DEF IInv, StockInv
<1>7. \A u \in Units : unit[u].status \in {"RESERVED", "SOLD"} => unit[u].sale \in Sales
  BY <1>t DEF UnitRow
<1>8. ASSUME NEW u \in Units, u # l
      PROVE  UnitPlaced(u)' /\ \A t \in Sales : Delivered(t, u)'
  <2>1. unit'[u] = unit[u]
    BY <1>8 DEF Edit, Reserve, FreeOf, IInv, StockInv, Edits
  <2>2. UnitPlaced(u) /\ \A t \in Sales : Delivered(t, u)
    BY DEF Placed
  <2>3. \A t \in Sales : cart'[t][u] = cart[t][u]
    BY <1>4, <1>8
  <2> QED BY <1>1, <1>3, <1>7, <2>1, <2>2, <2>3 DEF UnitPlaced, Delivered
<1>9. ASSUME l \in Units
      PROVE  UnitPlaced(l)' /\ \A t \in Sales : Delivered(t, l)'
  <2>1. UnitPlaced(l) /\ \A t \in Sales : Delivered(t, l)
    BY <1>9 DEF Placed
  <2>2. CASE Op[c] = "addItem"
    <3>1. /\ unit[l].status = "AVAILABLE"
          /\ unit'[l] = [status |-> "RESERVED", sale |-> s, recent |-> TRUE]
      BY <1>9, <2>2 DEF Edit, Reserve, IInv, StockInv
    <3>2. cart'[s][l].qty > 0
      BY <1>1, <1>5, <2>2
    <3>3. UnitPlaced(l)'
      BY <1>1, <1>2, <1>3, <2>1, <3>1, <3>2 DEF UnitPlaced
    <3>4. ASSUME NEW t \in Sales PROVE Delivered(t, l)'
      <4>1. CASE t = s
        BY <1>3, <1>6, <4>1 DEF Delivered
      <4>2. CASE t # s
        BY <1>3, <1>4, <2>1, <3>1, <4>2 DEF Delivered
      <4> QED BY <4>1, <4>2
    <3> QED BY <3>3, <3>4
  <2>3. CASE Op[c] = "setQuantity"
    <3>1. unit' = unit
      BY <2>3 DEF Edit
    <3>2. cart'[s][l].qty > 0
      BY <1>1, <1>5, <2>3
    <3>3. ~(unit[l].status = "SOLD" /\ unit[l].sale = s)
      BY <1>6, <2>1 DEF UnitPlaced
    <3>4. UnitPlaced(l)'
      BY <1>1, <1>3, <1>4, <1>7, <1>9, <2>1, <3>1, <3>2, <3>3 DEF UnitPlaced
    <3>5. \A t \in Sales : Delivered(t, l)'
      BY <1>3, <1>4, <1>6, <2>1, <3>1 DEF Delivered
    <3> QED BY <3>4, <3>5
  <2>4. CASE Op[c] = "removeItem"
    <3>1. unit' = FreeOf(HeldFor(s) \cap {l})
      BY <2>4 DEF Edit
    <3>2. CASE unit[l].status = "RESERVED" /\ unit[l].sale = s
      <4>1. unit'[l] = Shelved
        BY <1>9, <3>1, <3>2 DEF FreeOf, HeldFor
      <4>2. \A t \in Sales : ~(IsFinalized(t) /\ cart[t][l].total > 0)
        BY <2>1, <3>2 DEF Delivered
      <4>3. \A t \in Sales : Delivered(t, l)'
        BY <1>3, <1>4, <1>6, <4>2 DEF Delivered
      <4>4. UnitPlaced(l)'
        BY <1>1, <2>1, <3>2, <4>1 DEF UnitPlaced, Shelved
      <4> QED BY <4>3, <4>4
    <3>3. CASE ~(unit[l].status = "RESERVED" /\ unit[l].sale = s)
      <4>1. unit'[l] = unit[l]
        BY <1>9, <3>1, <3>3 DEF FreeOf, HeldFor
      <4>2. unit[l].status \in {"RESERVED", "SOLD"} => unit[l].sale # s
        BY <1>6, <2>1, <3>3 DEF UnitPlaced
      <4>3. UnitPlaced(l)'
        BY <1>1, <1>3, <1>4, <1>7, <1>9, <2>1, <4>1, <4>2 DEF UnitPlaced
      <4>4. \A t \in Sales : Delivered(t, l)'
        BY <1>3, <1>4, <1>6, <2>1, <4>1 DEF Delivered
      <4> QED BY <4>3, <4>4
    <3> QED BY <3>2, <3>3
  <2> QED BY <1>1, <2>2, <2>3, <2>4 DEF Edits
<1> QED BY <1>8, <1>9 DEF Placed

\* A draft given up lets go of all it held.
LEMMA GiveUpPlaces ==
  ASSUME IInv, SaleType, Placed, NEW c \in Calls, Cancel(c) \/ Abandon(c), CallSees(c)
  PROVE  Placed'
<1> DEFINE s == SaleOf[c]
<1> USE LinesFinite
<1>1. IsDraft(s) /\ ~IsFinalized(s)
  BY DEF Cancel, Abandon, CallSees, InFlight, DraftWriter, IsDraft, IsFinalized, Finalized
<1>2. unit' = FreeOf(HeldFor(s)) /\ moved' = moved
  BY DEF Cancel, Abandon
<1>3. \A t \in Sales \ {s} : sale'[t] = sale[t] /\ cart'[t] = cart[t]
  BY OthersKept DEF Call
<1>4. sale'[s].status \in {"CANCELLED", "deleted"}
  BY <1>1 DEF Cancel, Abandon, SaleType, SaleRow
<1>5. ASSUME NEW u \in Units
      PROVE  UnitPlaced(u)' /\ \A t \in Sales : Delivered(t, u)'
  <2>1. UnitPlaced(u) /\ (\A t \in Sales : Delivered(t, u)) /\ unit[u] \in UnitRow
    BY DEF Placed, IInv, StockInv
  <2>2. unit[u].status \in {"RESERVED", "SOLD"} => unit[u].sale \in Sales
    BY <2>1 DEF UnitRow
  <2>3. CASE u \in HeldFor(s)
    <3>1. unit'[u] = Shelved /\ unit[u].status = "RESERVED"
      BY <1>2, <2>3 DEF FreeOf, HeldFor
    <3>2. UnitPlaced(u)'
      BY <1>2, <2>1, <3>1 DEF UnitPlaced, Shelved
    <3>3. ASSUME NEW t \in Sales PROVE Delivered(t, u)'
      BY <1>3, <1>4, <2>1, <3>1 DEF Delivered, IsFinalized, Finalized
    <3> QED BY <3>2, <3>3
  <2>4. CASE u \notin HeldFor(s)
    <3>1. unit'[u] = unit[u] /\ (unit[u].status = "RESERVED" => unit[u].sale # s)
      BY <1>2, <2>4 DEF FreeOf, HeldFor
    <3>2. unit[u].status = "SOLD" => unit[u].sale # s
      BY <1>1, <2>1 DEF UnitPlaced
    <3>3. UnitPlaced(u)'
      BY <1>2, <1>3, <2>1, <2>2, <3>1, <3>2 DEF UnitPlaced, IsDraft, IsFinalized
    <3>4. ASSUME NEW t \in Sales PROVE Delivered(t, u)'
      BY <1>3, <1>4, <2>1, <3>1 DEF Delivered, IsFinalized, Finalized
    <3> QED BY <3>3, <3>4
  <2> QED BY <2>3, <2>4
<1> QED BY <1>5 DEF Placed

\* The devices of the cart go out with the sale.
LEMMA FinalizePlaces ==
  ASSUME IInv, SaleType, Placed, NEW c \in Calls, Finalize(c), CallSees(c)
  PROVE  Placed'
<1> DEFINE s == SaleOf[c]
<1> USE LinesFinite
<1>1. IsDraft(s) /\ ~IsFinalized(s) /\ mine[c] = cart[s] /\ cart' = cart
  BY DEF Finalize, ClaimDraft, CallSees, InFlight, IsDraft, IsFinalized, Finalized
<1>2. \A t \in Sales \ {s} : sale'[t] = sale[t]
  BY DEF Finalize, SaleType
<1>3. IsFinalized(s)' /\ ~IsDraft(s)'
  BY DEF Finalize, SaleType, SaleRow, IsDraft, IsFinalized, Finalized
<1>4. cart[s] \in GoodCarts
  BY DEF IInv, CartsGood
<1>m. \A u \in Units : moved'[u] = moved[u] + cart[s][u].qty
  BY <1>1 DEF Finalize, Lines
<1>5. ASSUME NEW u \in Units
      PROVE  UnitPlaced(u)' /\ \A t \in Sales : Delivered(t, u)'
  <2>1. UnitPlaced(u) /\ (\A t \in Sales : Delivered(t, u)) /\ unit[u] \in UnitRow
    BY DEF Placed, IInv, StockInv
  <2>2. unit[u].status \in {"RESERVED", "SOLD"} => unit[u].sale \in Sales
    BY <2>1 DEF UnitRow
  <2>3. GoodLine(u, cart[s][u])
    BY <1>4 DEF GoodCarts
  <2>4. unit' = [v \in Units |->
           IF v \in RowsOf(mine[c]) THEN [status |-> "SOLD", sale |-> s, recent |-> FALSE]
           ELSE unit[v]]
    BY DEF Finalize
  <2>5. CASE cart[s][u].qty > 0
    <3>1. unit'[u] = [status |-> "SOLD", sale |-> s, recent |-> FALSE]
      BY <1>1, <2>4, <2>5 DEF RowsOf
    <3>2. cart[s][u].qty \in Nat
      BY <2>3 DEF GoodLine
    <3>3. unit[u].status # "SOLD"
      BY <1>1, <2>5 DEF Finalize, Obtainable, RowsOf
    <3>4. UnitPlaced(u)'
      BY <1>1, <1>3, <1>m, <2>1, <2>5, <3>1, <3>2, <3>3 DEF UnitPlaced
    <3>5. ASSUME NEW t \in Sales PROVE Delivered(t, u)'
      <4>1. CASE t = s
        BY <3>1, <4>1 DEF Delivered
      <4>2. CASE t # s
        BY <1>1, <1>2, <2>1, <3>3, <4>2 DEF Delivered, IsFinalized
      <4> QED BY <4>1, <4>2
    <3> QED BY <3>4, <3>5
  <2>6. CASE ~(cart[s][u].qty > 0)
    <3>1. unit'[u] = unit[u]
      BY <1>1, <2>4, <2>6 DEF RowsOf
    <3>2. cart[s][u].qty = 0 /\ cart[s][u].total = 0
      BY <2>3, <2>6 DEF GoodLine
    <3>3. unit[u].status \in {"RESERVED", "SOLD"} => unit[u].sale # s
      BY <2>1, <3>2 DEF UnitPlaced
    <3>m. moved[u] \in Int
      BY DEF IInv, StockInv, Lines
    <3>4. UnitPlaced(u)'
      BY <1>1, <1>2, <1>m, <2>1, <2>2, <3>1, <3>2, <3>3, <3>m
         DEF UnitPlaced, IsDraft, IsFinalized
    <3>5. ASSUME NEW t \in Sales PROVE Delivered(t, u)'
      <4>1. CASE t = s
        BY <1>1, <3>2, <4>1 DEF Delivered
      <4>2. CASE t # s
        BY <1>1, <1>2, <2>1, <3>1, <4>2 DEF Delivered, IsFinalized
      <4> QED BY <4>1, <4>2
    <3> QED BY <3>4, <3>5
  <2> QED BY <2>5, <2>6
<1> QED BY <1>5 DEF Placed

\* The devices of the refunded lines come back, and no others.
LEMMA RefundPlaces ==
  ASSUME IInv, SaleType, Placed, NEW c \in Calls, Refund(c), CallSees(c)
  PROVE  Placed'
<1> DEFINE s == SaleOf[c]
           S == ToRefund(c)
           back == ComeBack(c) \cap Units
           off == IF how[c] = "shelf" THEN Shelved ELSE [Shelved EXCEPT !.status = "DEFECTIVE"]
<1> USE LinesFinite
<1>1. IsFinalized(s) /\ ~IsDraft(s)
  BY DEF Refund, Refundable, IsDraft, IsFinalized, Finalized
<1>2. \A t \in Sales \ {s} : sale'[t] = sale[t] /\ cart'[t] = cart[t]
  BY OthersKept DEF Call
<1>3. IsFinalized(s)' /\ ~IsDraft(s)'
  <2>1. sale'[s].status \in {"PARTIALLY_REFUNDED", "REFUNDED"}
    BY DEF Refund, SaleType, SaleRow
  <2> QED BY <2>1 DEF IsDraft, IsFinalized, Finalized
<1>4. \A l \in Lines : /\ cart'[s][l].qty = cart[s][l].qty
                       /\ cart'[s][l].total = IF l \in S THEN 0 ELSE cart[s][l].total
  BY DEF Refund, IInv, CartsGood
<1>5. unit' = [u \in Units |-> IF u \notin back THEN unit[u] ELSE off]
  BY Zenon DEF Refund
<1>6. back \subseteq S /\ off.status \notin {"RESERVED", "SOLD"}
  <2>1. how[c] \in Destinations
    BY DEF IInv, StockInv
  <2> QED BY <2>1 DEF ComeBack, Destinations, Shelved
<1>7. \A u \in back : unit[u].status = "SOLD" /\ unit[u].sale = s
  BY DEF Refund, StillSoldTo
<1>m. moved' = [l \in Lines |->
         IF l \in ComeBack(c) THEN moved[l] - mine[c][l].qty ELSE moved[l]]
  BY DEF Refund
<1>q. \A l \in Lines : mine[c][l].qty = cart[s][l].qty /\ cart[s][l].qty \in Nat
  BY DEF Refund, CallSees, InFlight, IInv, CartsGood, GoodCarts, Cart
<1>b. \A u \in Units : u \in back <=> u \in ComeBack(c)
  OBVIOUS
<1> HIDE DEF off, back
<1>8. ASSUME NEW u \in Units
      PROVE  UnitPlaced(u)' /\ \A t \in Sales : Delivered(t, u)'
  <2>1. /\ UnitPlaced(u)
        /\ (\A t \in Sales : Delivered(t, u))
        /\ unit[u] \in UnitRow
        /\ u \in Lines
    BY DEF Placed, IInv, StockInv, Lines
  <2>2. unit[u].status \in {"RESERVED", "SOLD"} => unit[u].sale \in Sales
    BY <2>1 DEF UnitRow
  <2>3. CASE u \in back
    <3>1. unit'[u] = off /\ u \in S
      BY <1>5, <1>6, <2>3
    <3>2. moved'[u] = 0
      BY <1>7, <1>m, <1>q, <1>b, <2>1, <2>3 DEF UnitPlaced
    <3>3. UnitPlaced(u)'
      BY <1>6, <3>1, <3>2 DEF UnitPlaced
    <3>4. ASSUME NEW t \in Sales PROVE Delivered(t, u)'
      <4>1. CASE t = s
        BY <1>4, <2>1, <3>1, <4>1 DEF Delivered
      <4>2. CASE t # s
        BY <1>2, <1>7, <2>1, <2>3, <4>2 DEF Delivered, IsFinalized
      <4> QED BY <4>1, <4>2
    <3> QED BY <3>3, <3>4
  <2>4. CASE u \notin back
    <3>1. unit'[u] = unit[u] /\ moved'[u] = moved[u]
      BY <1>5, <1>m, <1>b, <2>1, <2>4
    <3>2. UnitPlaced(u)'
      <4>1. CASE unit[u].sale = s
        BY <1>1, <1>3, <1>4, <2>1, <3>1, <4>1 DEF UnitPlaced
      <4>2. CASE unit[u].sale # s
        BY <1>2, <2>1, <2>2, <3>1, <4>2 DEF UnitPlaced, IsDraft, IsFinalized
      <4> QED BY <4>1, <4>2
    <3>3. ASSUME NEW t \in Sales PROVE Delivered(t, u)'
      <4>1. CASE t = s
        BY <1>1, <1>4, <2>1, <3>1, <4>1 DEF Delivered
      <4>2. CASE t # s
        BY <1>2, <2>1, <3>1, <4>2 DEF Delivered, IsFinalized
      <4> QED BY <4>1, <4>2
    <3> QED BY <3>2, <3>3
  <2> QED BY <2>3, <2>4
<1> QED BY <1>8 DEF Placed

\* Every step leaves every device where the sales say.
LEMMA PlacedStep ==
  ASSUME IInv, SaleType, Placed, \A c \in Calls : CallSees(c), [Next]_vars
  PROVE  Placed'
<1>1. CASE UNCHANGED rows
  BY <1>1, PlacedKept DEF rows
<1>2. ASSUME NEW s \in Sales, CreateDraft(s) PROVE Placed'
  <2>1. /\ \A t \in Sales : IsDraft(t) => IsDraft(t)'
        /\ \A t \in Sales : IsFinalized(t)' <=> IsFinalized(t)
    BY <1>2 DEF CreateDraft, SaleType, SaleRow, IsDraft, IsFinalized, Finalized
  <2>2. cart' = cart /\ unit' = unit /\ moved' = moved
    BY <1>2 DEF CreateDraft
  <2>3. \A u \in Units : unit[u].status \in {"RESERVED", "SOLD"} => unit[u].sale \in Sales
    BY DEF IInv, StockInv, UnitRow
  <2> QED BY <2>1, <2>2, <2>3 DEF Placed, UnitPlaced, Delivered
<1>3. ASSUME NEW u \in Units, GrowStale(u) PROVE Placed'
  <2>1. \A v \in Units : /\ unit'[v].status = unit[v].status /\ unit'[v].sale = unit[v].sale
                         /\ unit[v].status = "SOLD" => unit'[v] = unit[v]
    BY <1>3 DEF GrowStale, IInv, StockInv, UnitRow
  <2> QED BY <1>3, <2>1, PlacedKept DEF GrowStale
<1>4. ASSUME NEW c \in Calls, Release(c) PROVE Placed'
  <2>1. unit' = FreeOf(StillReserved(lines[c])) /\ UNCHANGED <<sale, cart, moved>>
    BY <1>4 DEF Release
  <2>2. \A u \in Units : unit'[u] = unit[u] \/ (unit[u].status = "RESERVED" /\ unit'[u] = Shelved)
    BY <2>1 DEF FreeOf, StillReserved
  <2>3. \A u \in Units :
          /\ unit'[u].status = "RESERVED" =>
               unit[u].status = "RESERVED" /\ unit'[u].sale = unit[u].sale
          /\ unit'[u].status = "SOLD" \/ unit[u].status = "SOLD" => unit'[u] = unit[u]
    BY <2>2 DEF Shelved
  <2> QED BY <2>1, <2>3, PlacedKept
<1> QED
  BY <1>1, <1>2, <1>3, <1>4, EditPlaces, GiveUpPlaces, FinalizePlaces, RefundPlaces
  DEF Next, vars, Call, LookToAdd, LookToRemove, LookToSetQuantity, LookToCancel,
      LookToAbandon, LookToFinalize, LookToRefund, LookToRelease, Read, Tally, Fail

-----------------------------------------------------------------------------
(* Together.                                                               *)

\* The inductive invariant: the calls take turns, so each sees what it read, so the
\* sales add up and the devices are where the sales say.
ScreenInv ==
  /\ InTurn
  /\ \A c \in Calls : CallSees(c)
  /\ \A s \in Sales : SaleAdds(s) /\ MoneyAdds(s)
  /\ Placed

\* Initially there is no call, no sale and no held device.
LEMMA ScreenInit == Init => ScreenInv
<1> SUFFICES ASSUME Init PROVE ScreenInv
  OBVIOUS
<1>1. InTurn /\ \A c \in Calls : CallSees(c)
  BY DEF Init, InTurn, CallSees, InFlight
<1>2. \A s \in Sales : SaleAdds(s) /\ MoneyAdds(s)
  BY DEF Init, SaleAdds, MoneyAdds, IsDraft, IsFinalized, Finalized
<1>3. Placed
  BY DEF Init, Placed, UnitPlaced, Delivered, Shelved, IsFinalized, Finalized, Lines
<1> QED BY <1>1, <1>2, <1>3 DEF ScreenInv

\* Where the calls on a sale wait for each other, the invariant holds in every behaviour.
LEMMA Screens ==
  ASSUME OneScreen
  PROVE  Spec => []ScreenInv
<1>1. IInv /\ SaleType /\ ScreenInv /\ [Next]_vars => ScreenInv'
  <2> SUFFICES ASSUME IInv, SaleType, ScreenInv, [Next]_vars PROVE ScreenInv'
    OBVIOUS
  <2>1. InTurn'
    BY InTurnStep DEF ScreenInv
  <2>2. \A c \in Calls : CallSees(c)'
    BY SeesStep DEF ScreenInv
  <2>3. \A s \in Sales : SaleAdds(s)' /\ MoneyAdds(s)'
    BY AddsStep DEF ScreenInv
  <2>4. Placed'
    BY PlacedStep DEF ScreenInv
  <2> QED BY <2>1, <2>2, <2>3, <2>4 DEF ScreenInv
<1> QED BY ScreenInit, <1>1, Inductive, SaleTypes, PTL DEF Spec

\* Where one screen works on a sale, the movements of a device come to the quantity it
\* was sold in while it is SOLD and to nothing otherwise: it is never sold twice.
THEOREM Kardex ==
  ASSUME OneScreen
  PROVE  Spec => []KardexAgrees
<1>1. IInv /\ ScreenInv => KardexAgrees
  BY PlacedMeans DEF IInv, StockInv, ScreenInv
<1> QED BY <1>1, Inductive, Screens, PTL

\* Where one screen works on a sale, a device that is out was charged for: it is a
\* line of the finalized sale it names, and a charged device is out.
THEOREM Charged ==
  ASSUME OneScreen
  PROVE  Spec => []SoldMeansCharged
<1>1. IInv /\ ScreenInv => SoldMeansCharged
  BY PlacedMeans DEF IInv, StockInv, ScreenInv
<1> QED BY <1>1, Inductive, Screens, PTL

\* Where one screen works on a sale, a reserved device is in the cart of a live draft:
\* no cancel, removal or abandoned draft leaves one behind.
THEOREM NoneLeaked ==
  ASSUME OneScreen
  PROVE  Spec => []NoLeakedReservation
<1>1. IInv /\ ScreenInv => NoLeakedReservation
  BY PlacedMeans DEF IInv, StockInv, ScreenInv
<1> QED BY <1>1, Inductive, Screens, PTL

\* Where one screen works on a sale, what was paid is the price of the goods, and what
\* is not refunded is the worth of the lines still sold.
THEOREM Money ==
  ASSUME OneScreen
  PROVE  Spec => []MoneyMatchesGoods
<1>1. ScreenInv => MoneyMatchesGoods
  BY DEF ScreenInv, MoneyAdds, PriceOf, MoneyMatchesGoods
<1> QED BY <1>1, Screens, PTL

=============================================================================
