# Verification of the Arena Tech application

Arena Tech is a multi-tenant back office for phone shops: a Next.js application
whose tRPC routers work on PostgreSQL through Prisma, a Python service that keeps
Liquid wallets, webhooks of payment providers and a set of timed jobs. This
directory holds TLA+ models of the parts where money, goods and concurrency
meet, the TLC runs that check them and the TLAPS proofs about them: withdrawals
and their authorization, deposits, the cash drawer, sales, service orders, accounts in
instalments, rewards and the lease the timed jobs run under.

Paths below are relative to the repository (`src/`); "service" is
`src/server/services/`, "router" `src/server/api/routers/`.

Contents: [1 the system](#1-the-system) · [2 modules](#2-the-modules-and-the-code) ·
[3 runs](#3-the-runs) · [4 disagreements found](#4-where-code-and-comments-disagree) ·
[5 proofs](#5-the-proofs) · [6 not modelled](#6-what-is-not-modelled) · [7 plan](#7-plan) ·
[8 how to run](#8-how-to-run)

## 1 The system

Every request runs inside `withTenant` or `withAdmin` (`src/server/db.ts`), one
database transaction at READ COMMITTED under row-level security. Several
application processes and the jobs run at once; what serializes them is row
locks (`SELECT ... FOR UPDATE`), conditional updates ("compare-and-set"),
unique indexes and, for withdrawals, a transaction-level advisory lock. That is
where the hard behaviour is: what is read before a lock and used after it, the
transaction boundary around a call to a provider, webhooks that come late, twice
or never, and a process that dies between two transactions.

| Component | State it keeps | Operations | Talks to | Hard behaviour | Correct when |
|---|---|---|---|---|---|
| DePix withdrawals | one row per withdrawal: status, failure kind, provider order, transaction, gross amount; idempotency key; webhook events seen | PIX and on-chain withdrawal, webhook, status poll, reconciliation | wallet service, Eulen (provider) | admission races, lost answers, reordered webhooks, crashes between steps | never more admitted than held or capped; a row never claims or denies a payment wrongly; every payout settles |
| Cash sessions | open/closed session, movements, balance recorded | open, movement, close, forced close, job's close, review | PDV, service orders, instalments, purchases (all write movements) | lock against compare-and-set, stale snapshots | one open session per operator; a closed one is frozen; what was counted is what it held |
| PDV sales | sale, cart, payments | draft, add, set, remove, finalize, cancel, abandon, refund | stock, cash session, receivables, commissions | two sellers for the last device, double finalize, overlapping refunds | sold once, paid once; goods and money given back agree |
| Serialized stock items | status and holder of each device | reserve, release, sell, return, block, repair | PDV, service orders, stale-reservation job | stale reads of the job | a device has one buyer or one holder |
| DePix authorization | a partner's request: status, transaction linked; the partner's key | deliver, approve, reject, expire, put back after a failure | withdrawals | screens racing, retry after a failed first attempt | one payment per order, whatever is delivered or tried twice |
| DePix deposits | deposit row (status, PIX approved, transaction id), fee ledger entry, the sale that waits for it | create, four Eulen events, two events of the chain monitor, poll, two reconciliation jobs, verify, mark paid, cancel | Eulen, wallet service, quick sales | five kinds of writer, none of which locks; events recorded before they are applied | credited only when confirmed, released only when paid, a return that was marked stands |
| Repayments, fee wallet | legacy repayments; gas | drain, refill | wallet service | crash between ledger and row | repaid once |
| DePix limits and holds, swap | limits per recipient; swap rows | administration; quote, execute | exchange | retries | limits hold at the moment of use |
| Cron lock | one lease per job | acquire, release, lapse | all jobs | a run that dies or is late | one run at a time |
| Service orders | order status, items and the parts they hold, revisions of the budget, payments | thirteen statuses, add/change/remove item, revise, answer, pay, deliver, refund, cancel, restore, delete | stock, PDV, cash | cancellation against payment, late signatures, by-id writers | parts and money agree with the order; nothing goes on without the customer's consent |
| Financial ledger, instalments | payable/receivable accounts with status and total, their instalments, the ledger of payments | create, edit, cancel, pay, reverse, mark overdue | cash, sales, orders, purchases | partial payments in parallel, totals computed from rows about to change | instalment, ledger and drawer received the same; the total is that of its parts; what is overdue shows |
| Receivables, commissions | card receivables; what providers are owed | settle, reverse, regenerate | sales, refunds | settlement against refund | each sale is settled or reversed once |
| Rewards | status of each action, the balance, what each order was discounted with | create, approve, reject, cancel, use, return, lock, expire | PDV, service orders, cron | approval against rejection, expiry against redemption | credited once, used by one order, expired once |
| Subscriptions | period, status | renew, dun, expire | payments, jobs | job against payment | a paid tenant is not suspended |
| Payment links, quick sales, purchases, partner API, recurring expenses, numbering | their rows | create, pay, deliver, retry, number | providers, partners | a link paid twice, delivery retried | once and only once |
| Interests, valuations, fiscal, chatbot, reports, settings, tenants and users, UI, deployment | their rows, or none | mostly editing of one row and queries | external issuers, language services | little concurrency of their own | — |

`PROJECT.json` lists the same components with their files, and the hazards of this
code, each at the line where it bites, with the property that watches it or the
reason why none does yet.

## 2 The modules and the code

| Module | What it is |
|---|---|
| `Payout` | the abstract specification of a withdrawal: what may become of it and what may be said of it |
| `DepixWithdraw`, `MCDepixWithdraw` | the withdrawals, with wallet service, provider, webhook handler, poll and reconciliation as parties; `Promise` is the instance of `Payout` it implements |
| `DepixWithdrawProofs` | theorems about its rows, the refinement, the uniqueness of keys, the reserve and the daily cap |
| `DepixAuthorization`, `MCDepixAuthorization`, `DepixAuthorizationProofs` | partner requests and their approval, composed with `Payout` |
| `DepixDeposit`, `MCDepixDeposit`, `DepixDepositProofs` | one deposit of a quick sale with all its writers |
| `CashDrawer`, `MCCashDrawer`, `CashDrawerProofs` | the sessions and every kind of writer |
| `PdvSale`, `MCPdvSale`, `PdvSaleProofs` | sales, carts, devices, stock |
| `ServiceOrder`, `MCServiceOrder`, `ServiceOrderProofs` | orders, parts, revisions, payment |
| `Installments`, `MCInstallments`, `InstallmentsProofs` | an account entered by hand, its instalments and ledger, the overdue job |
| `CronLease` | the lease of a timed job |
| `Rewards`, `MCRewards`, `RewardsProofs` | the rewards of a customer and their cron, composed with `CronLease` |

Two modules are composed with others by `INSTANCE`, and `DepixWithdraw` is mapped to its
abstraction by a third (`Promise`, an instance of `Payout`). `DepixAuthorization` calls `createWithdraw` and
does not model it again: between its steps a payment may do whatever `Payout` allows,
and `DepixWithdraw` is shown to do nothing else. `Rewards` runs its cron with the
actions of `CronLease` on the lease's own variables.

**One rule for steps.** What PostgreSQL does at one instant is one step. In
`CashDrawer`, `PdvSale`, `ServiceOrder`, `Installments` and `Rewards` a transaction is two or three: what it reads before it
holds a lock (`Look...`), the rows a total is computed from (`Tally`), and the
commit, at which its compare-and-sets are decided, because the row locks that
decide them are kept to the end. `Fail` is the transaction that throws, times
out, loses a deadlock or dies: it leaves nothing (`RollBack` in `ServiceOrder`, `Fails` in `Installments`, `Conflict` in `Rewards`).

### 2.1 DepixWithdraw

A request is one call of `createWithdraw` (service
`depix-transaction.service.ts` 1310-1774) or `createOnchainWithdraw` (2546-2750). `pc`
is where it stands:

| Stage | Code | Actions |
|---|---|---|
| `key` | idempotency key looked up | `ReplayKey`, `NewKey` |
| `duplicate` | the same recipient and amount within ten minutes (PIX only) | `RefuseDuplicate`, `PassDuplicate` |
| `balance` | refusals without effect; on-chain balance read | `Refuse`, `ReadBalance` |
| `lock`, `reserve`, `cap`, `insert` | one transaction under the advisory lock | `AcquireLock`, `ReadReserve`, `CapAdmits`, `CapRefuses`, `Insert`, `KeyClash` |
| `payout`, `quoted` | order at the provider; the row learns it | `EulenAccepts/Rejects/Unknown`, `QuoteTooBig`, `StoreQuote` |
| `window`, `sweep` | deadline check, transfer, final write | `WindowExpired`, `FeeWalletUnavailable`, `StartSweep`, `SweepOk/Refused/Lost` |

`Crash` ends a call anywhere. The wallet service (`lwk/app.py`) holds a lock over coin
selection, signing and broadcast, so these are the one step `LwkBroadcast`; it may
report failure for a transaction the network has. The provider moves through
its own states (`ProviderNext`), pays only after the deposit is seen, and announces
each state; an announcement may be lost, delayed or overtaken (`hook`). The handler
(`src/lib/webhooks/eulen-withdraw-handler.ts`) records the event, reads the row and writes it
by id: three steps. The poll (`checkTransactionStatus`) reads, asks, writes: three
steps. `ResolveIndeterminate` is the job's lookup of a broadcast by its key.

Amounts are small numbers; keys, recipients and orders are model values or
flags. Assumed: no deposit arrives during a behaviour (the wallet only loses
money, the hard case for admission); the provider moves the amount asked; a
4xx answer means that no order exists; the rows' ages advance independently; the
job's read and write of an indeterminate row are one step (no other writer sets
that field). `MaxAge` and `MaxUses` are bounds.

`reopened` is a history variable that no guard reads: the requests whose row left FAILED, CANCELLED or
EXPIRED for a status that counts, or a terminal one for an open one. Late webhooks and slow polls do that
(section 4). `OpenWithinBalance` and `WithinDailyCap` leave those rows out of the two sums, since nothing admits
them a second time, and speak of all others.

### 2.2 CashDrawer

`session` is the row with the cash sum of its movements (`drawer`). Every router
that writes a movement is one of four kinds, by what it locks and what it
compares: a withdrawal or cash expense is covered by the drawer (`Withdraw`); money
in (`TakeIn`) and refunds, bought devices, downward adjustments (`PayOut`) lock the
session and compare nothing; the cash a trade-in gives back (`GiveBack`) locks nothing.
The operator's `Close` reads the movements after its lock. `ForceClose` and `AutoClose` read
them before, and close by compare-and-set on `closedAt`. `Review` replaces the balance of
a closed session, once. No bound is needed: each call is made once.

### 2.3 PdvSale

`sale`, `cart`, `unit`, `stock` and `moved` are the rows of `sales`, `sale_items`, `stock_items`, the
count of a product and the stock movements; `mine`, `due` and `lines` are what a call
read. `finalize` claims the draft by compare-and-set (`claimDraftSaleForFinalize`), obtains each
device by compare-and-set, takes the product with `currentStock >= quantity`, and records
payments. `refund` claims its lines by compare-and-set on a total above zero, and returns
goods to the shelf, to repair or not at all. `cancel` and `abandon` free reservations. The job
(`releaseStaleReservations`) reads stale devices of drafts, then frees those still reserved.

`Units` are the serialized items, each a row of `stock_items`; `Devices` are the lines whose product is marked as a device, which is
another flag of a product (`isDevice` and `isSerialized` "são flags distintas", `lib/validators/stock.ts:592`). A cart holds devices or
accessories, never both (`SameKind`); `Devices` is empty in the runs, where `u1` is an accessory with a serial number, so that a serialized
and a counted line meet in one cart. `addItem` adds a serialized item once, but `updateItemQuantity` accepts its line like
any other: `finalize` then books as many exits for one item (`TwoOfOne.cfg`, section 4), which is why the kardex of an item is stated with
the quantity of the line that sold it.

`OneScreen` is an assumption about people, TRUE in `counter`: an operator's call is answered
before she makes the next. The screens enforce it for adding
(`pdv-screen.tsx:394`) and for the finalize button, not for the other edits, and the
server not at all. Under it a finalize may still overlap itself (the button and the payment's
confirmation both send it, possibly from two screens), and refunds, the job and other
operators overlap anything. It is FALSE in `Cancelled.cfg`: two tabs of one operator, or a confirmation
that arrives while a cart is being cancelled. The types, `NoOversell` and the count of the product (`GoodsAgree`) are proved either
way; `KardexAgrees`, `SoldMeansCharged`, `MoneyMatchesGoods` and `NoLeakedReservation` do not hold without it, since `cancel`, `abandon`
and the edits of a cart do not lock the sale they read as a draft. `MaxQty` is a bound. `Cash` is the set of cash amounts tried.

Left out here: discounts, change, trade-ins, service-order payments, receivables,
commissions, rewards, charges of a draft, and two simultaneous first
additions of one product (which in the code make two lines).

### 2.4 Payout, and what DepixWithdraw promises

`Payout` knows of a payment whether its money left the wallet (`left`), what became of it
(`fate`: open, delivered, closed by the provider, dropped before it could leave) and what
the tenant reads (`word`: none, open, paid, unpaid). `Truthful` is the whole promise: "paid" is said only
of what was delivered, "unpaid" only of what was closed or dropped. The mapping
is in `DepixWithdraw`: `left` is `sent`, `fate` is read off `prov` (or, on chain, off
`sent`) and off the call having given up, `word` off the row's status, failure kind included.
A row that is reopened is a `Tell` of "open", which is allowed: `Payout` promises truth, not
that a row is never rewritten.

### 2.5 DepixAuthorization

A delivery of the partner's HTTP request looks for the partner's key and inserts
(`AskLooks`, `AskInserts`, `depix-withdraw-authorization.service.ts`); the unique index turns
the second insert into a reuse. A screen's approval reads (`ApproveReads`), claims by
compare-and-set on PENDING (`Claims`), calls `createWithdraw` with a key derived from
the request (`PayReplays`, `PayBegins`, `PaySent`, `PayThrows`), links the transaction, or puts the
request back (`Revert`). `Crash` leaves a claimed request claimed. The job expires
what is PENDING and out of date. `MaxAttempts` bounds the approvals tried.

### 2.6 DepixDeposit

The row, its fee entry and its sale are written by calls that lock nothing: each
is a chain of short transactions with calls to Eulen or to the wallet service in between, and a
call's place in its chain is `call[c].at`.

| Call | Code | Chain |
|---|---|---|
| `createDeposit` and the sale's link | service `depix-transaction.service.ts`, router `quick-sale.ts` | `Inserts`, `QrCreated`, `QrStored`, `QrShown` or `CreationFails` |
| Eulen's webhooks | `lib/webhooks/eulen-deposit-handler.ts`, `eulen-med-handler.ts` | `Receives`; `Approves`, `Corroborates` and the release; `Notes` and the check; `Closes`, `Unpays`; `Returns` |
| the monitor's webhook | `lib/webhooks/lwk-deposit-handler.ts` | `Looks`, `Stamps`; or the check |
| crediting | `verify-deposit-onchain.ts`, `settleDepositConfirmed` | `CheckPasses`/`CheckFails`, `SettleFinds`, `Completes`, `Books`, then the release |
| release | `applyPixReceivedEffects` | `Releases`/`Withholds`, `FindsSale`, `MarksSale` |
| poll | `checkTransactionStatus` | `Expires`, or `Queries`, `Flips`/`Lapses`, or the check |
| jobs | `reconcileStaleDepixTransactions`, the extract | `Sweeps`, `ExtractReads`; `JobDies`, `JobRestarts` |
| the sale | `checkPixStatus`, `markPaid`, `cancel` | `SaleReads` and the poll, `Judges`, `Decides`; `CancelReads`, `Voids` |

Which writes repeat the status they read and which go by id is kept exactly: `Approves`,
`Notes`, `Closes`, `Completes` are conditional, `Returns`, `Stamps`, `Expires`, `Flips`, `Lapses`, `MarksSale` and `Voids` are
not. The world outside (`PixMoves`, `Confirms`, `HalfHourPasses`) moves on its own and is never undone.

Abstractions: the two jobs are one caller, `cron`; a second simultaneous run is what the
lease prevents, and a second simultaneous poll is that of a call in `Calls`. The hour is only read of
pending rows, so it only passes for them. A screen that only polls a deposit whose sale
is undecided is a verification that dies before it judges.

### 2.7 ServiceOrder

A call reads the order, item or revision (`Look...`) and later writes and commits.
Five kinds of call repeat in the write the status they read (`Guarded`: advance, pay, cancel, uncancel, refund) and two repeat
that the revision is pending (approve, reject); the others (PDV payment, deletion, delivery, the three edits of
items, withdrawing a revision, a signature) write by id. `past` holds what is looked up in the order's history. `out` counts, for each item, the
pieces reserved by `reserveOsStock` and not given back. `money` counts the
income movements, PDV sales and receivables of the order.

No guard is added to those of the code: any calls overlap, on one order or on several, and
every sequence its checks allow is a behaviour. Where the code lets an order stray, the history variable
`strayed`, which no guard reads, marks it:

| Mark | The write that leaves it | Excused by it | Shown by |
|---|---|---|---|
| `overlap` | by id, over an order, item or revision that is not as the call read it | all but `AnsweredOnce`, which names it | `PaidTwice.cfg` |
| `deleted` | an edit of items, cancellation, restoration or refund of a deleted order | `PartsMatch` | `ReturnedOnce` (`OrderStrays.cfg`) |
| `late` | a signature of an order that no longer waits | `PartsMatch` | `OnlyUncancelReopens` (`OrderStrays.cfg`) |
| `undone` | an answer that makes the order CANCELLED, because its last row before waiting says so | `PartsMatch` | `AnswersCancelNothing` (`OrderStrays.cfg`) |
| `pickup` | a dearer edit of a paid order on the pickup shelf | `BooksAgree` | `CancelledOwesNothing` (`OrderStrays.cfg`) |

Each property names the marks that break it in the code and no other: an order that waits for its customer may be
cancelled, a paid one edited on the shelf, a deleted one edited, and what those sequences leave intact
is still required. `WaitsForConsent` excuses nothing but overlap.

### 2.8 CronLease and Rewards

`Acquire` is the upsert that takes a lease nobody holds or whose time is over, `Release` the update that
frees it if it is still one's own. Time is `Lapse`: a held lease may lapse at any moment, but if
`Fits`, not while its holder works. `Fits = TRUE` is justified for the reward job: it works in one `withAdmin`
transaction, which `src/server/db.ts` (143-152) ends after 20 s, and its lease is 15
minutes.

`Rewards` has one action per procedure and step: what a call read is in `tx`, and a row that a transaction has
written and not committed is `Locked`. The cron's transaction is three steps
(`CronFinds`, `CronMarks`, `CronCommits`) because the row lock it takes and the balance it reads are at different
moments; the check constraint on the balance may abort it. `given` and `swept` are
history variables; `MaxDeaths` and `MaxLocks` are bounds.

### 2.9 Installments

One account of `financial.ts` that was entered by hand (`create`): `conta` is its row, `inst` its
instalments, `ledger` the sum of the `installment_payments` of each. A call is one transaction in three steps:

| Call | reads | writes rows and holds them | commits |
|---|---|---|---|
| `payInstallment` | `PayReads`: open, at most a cent too much | `PayWrites`: compare-and-set on status and amount (`Same`); the account's new total from what others committed (`Holds`) | `Books` |
| `reverseInstallment` | `ReverseReads`: paid, no more than was paid | `ReverseWrites`, likewise | `Books` |
| `cancel` | `CancelReads`: not paid | `CancelSweeps`: every open instalment | `CancelCommits`: compare-and-set on the account's status and total |
| `update` with a new value | `EditReads`: pending, nothing paid, no ledger | | `EditCommits`: rows deleted with their ledger, and made anew |

`MarkOverdue` is the job, `FallsDue` a day that passes. `gen` tells the instalments of an edit from those before
it, so that a call which read an old one finds nothing. The total counts only closed instalments, as
`recalculateTransactionStatus` does, and is written by id: two calls that both hold a row when they compute it are
recorded in `crossed`, and so is an edit that finds the account no longer clean. `rounded` counts the
payments that closed a row, each of which may round a cent away. Both are history variables.

Amounts are cents, small: one instalment of three, which a payment of one leaves open, and two of one. An edit is taken
to repeat the amounts; the drawer's movement is `CashDrawer`'s, and a session that refuses it fails the call (`Fails`).
Two edits at one time are left out: the second's deletion does not see the rows the first has just made, which would need two
sets of instalments (a hazard in `PROJECT.json`). `MaxEdits` and `Falling` (the instalments whose day comes) are bounds.

## 3 The runs

Every passing run is an exhaustive search; section 8 has the sizes.

| Run | Instance | Checks | Shows |
|---|---|---|---|
| `admission` | one PIX, two on-chain sends; balance 4, cap 5, each 2, quotes 2 or 3 | `TypeOK`, `OpenWithinBalance`, `WithinDailyCap` | three calls in every order through the critical section, with crashes, admit no more than was held at first, or is capped |
| `duplicates` | one PIX sent twice with a key; webhooks, one poll, ageing | `OneRowPerKey`, `NotPaidIsTrue`, `SentIsTraceable`, `DuplicateGuardSound` | one row per key; rows tell the truth about the payment; the guard stops a second one while the first may pay |
| `settling` | one PIX, webhooks and a poll, fairness | `PayoutSettles`, `KeepsPromise` | a payout the provider finished ends up reading, for ever, what the provider gave it, or the failure its own call ended with; every step is one of `Payout` (of any number of requests by `Implements`, section 5) |
| `approval` | an order delivered twice, three screens, three approvals, fairness | `OnePaymentPerOrder`, `ClaimIsExclusive`, `StaleLeavesQueue` | one withdrawal per order, one approver at a time, nothing stale stays in the queue |
| `deposits` | any two webhooks, one handler or screen beside the jobs, deaths, fairness | `CreditIsConfirmed`, `ReleasedWasPaid`, `KnownTransferIsCredited`, `ReturnStands` | no credit unconfirmed, no release unpaid; a known transfer is credited; who finds a return marked leaves it so |
| `drawer` | 2 openings, 3 closes, 2 reviews, 1 deposit | `OperatorCountIsTrue`, `ClosedIsFrozen`, `FirstCloseStands` | no movement after a close, the first close stands, counts are complete |
| `overdraw` | 2 openings, a close, 2 withdrawals, deposit, refund, give-back | `OneOpenPerUser`, `WithdrawalsAreCovered` | one open session per operator; no withdrawal overdraws |
| `counter` | two sellers, one serialized item, one piece of a product, 13 calls and the job | `TypeOK`, `NoOversell`, `SoldMeansCharged`, `KardexAgrees`, `MoneyMatchesGoods`, `NoLeakedReservation` | sold once, paid once, refunded once, movements explain stock, nothing stays reserved |
| `orders` | one order, two items of one or two pieces, one revision, two calls of any kind | `PartsMatch`, `BooksAgree`, `WaitsForConsent`, `AnsweredOnce` | parts, money and consent agree with the order at every commit, until the order strays (2.7) |
| `loyalty` | two rewards, one with cashback, limit 1, two orders, two calls, two cron runs, one death, fairness | `CreditedOnce`, `WithinLimit`, `OneOrderPerReward`, `SweptOnce`, `OverdueLeaves` | credited once, expired once, one order per reward, and what is overdue leaves |
| `accounts` | three instalments of 3, 1 and 1 cents, sums of 1 and 2, three calls of any kind, one edit, two that fall due, fairness | `LedgerTracksPaid`, `TotalIsThePaidOnes`, `CancelSeesTotal`, `OverdueShows` | nothing paid is lost or booked twice; total and cancellation agree with the instalments while recalculations do not overlap; what is overdue shows |
| `cash_back` | the smallest that shows it | `CashBackWithinCashIn` | section 4 |

**Why these bounds.** Each hazard needs a fixed cast. An admission race needs two calls
in flight and a third that is one too many: three requests of 2 against a balance
of 4 and a cap of 5, so that the third is stopped by the reserve while the first
two are open and by the cap when one of them has left the wallet after the third
read its balance. Truth
of a row needs its call, a webhook and a poll as three concurrent writers, and the
duplicate guard a second request. The drawer needs every pair of operations in
flight on one session, and a second opening. The counter needs two buyers for one device, a cart that asks for more
pieces than there are, one sale finalized twice and refunded twice, and the job; the
second seller tries at most one of remove, cancel and abandon, and none where the first sets the item's line to two; he changes the quantity of one of his lines (`OneWayOut`, a bound of
that run), since each of the former is the end of her wish for the item. A second device or a third
seller only repeats these pairs, since no step of the code touches more than one
sale, apart from the job, which treats each device alone.

An approval needs two claimants and a third that comes after a failure, hence three screens and
three attempts, and two deliveries for the partner's key. A deposit needs two news in
either order (a third webhook of another kind finds a row that the second already made terminal or
left open, both of which are starts of the same chains), one caller beside the jobs, since
every race in the code is between a read and a write of two callers, and deaths anywhere. An order needs two
calls of any kind, since every race in the code is between the read and the write of two, two items, so that one can be added to
another, and a rejected revision can bring one back as a new row; two pieces show a wrong quantity. `updateStatus` is asked for COMPLETED alone: what waits for a revision,
pays or is delivered is reached through the other calls. `Bounded` stops where an order was written by id over
what it had become, or changed once deleted (the state itself is checked), and continues single-piece orders only
after the other marks; it lets an order have two pieces, of one item or of two, and pays an item of two at the counter only (the PDV's
draft does not look at items). The theorems of section 5 have no such bound. Rewards need a
claim beyond the limit, two orders for one reward, and two cron runs of which one dies. An account needs
two calls that overlap and a third that meets what they left (a reversal of what was paid, a cancellation after both),
an instalment that can be paid in part, two that fall due at different times and one that does not; after one edit the account is
as new, so a second only repeats.

**Every property can fail.** For each property of a passing run `PROJECT.json` names a
change to the code (no lock, no unique index, a compare-and-set dropped, a status
mapped too early, a snapshot taken for the truth) as an operator marked "Mutant" beside the
definition it replaces; TLC then finds the property violated in the same instance.

**Fairness** (`FairSpec` of five modules). Everywhere: weak fairness of a call's own steps, since a process
runs until it answers or dies, and deaths are separate actions of which none is fair. Nothing is
assumed of clients, screens, webhooks, partners or the provider's progress. In particular:

- `settling`: strong fairness of the poll's read, answer and write. The
  reconciliation job comes back on its timer for ever, so a poll that can fail each
  time is nevertheless tried without end, and we assume that it does not fail
  every time.
- `approval`: weak fairness of `Expire`; the job comes back every ten minutes.
- `deposits`: strong fairness of the job's starts (`Sweeps`; a job that finds the row busy comes back), and of its
  on-chain check passing (the wallet server is not away each time a job asks); a job that died is started
  again and jobs do not die for ever. The job takes the fifty oldest rows (`depix-transaction.service.ts:3157`), so this holds
  only while fewer than fifty older rows never settle: `Crowded = FALSE` says so in `deposits`, and
  `Crowded.cfg` (section 4) is what happens otherwise. Nothing is assumed of the extract, which lists
  two days only (`listed`, ended by `TwoDaysPass`): that every return is marked in the end is not a property (`LateReturn.cfg`).
- `accounts`: weak fairness of the overdue job, which the timer runs every night (`deploy/systemd/arenatech-mark-overdue.timer`).
- `loyalty`: weak fairness of the scheduler taking the lease, and of a lapse, which is time.

**Deadlock** is checked in the withdrawal runs, where `Finished` is the only resting
state. The other runs say `CHECK_DEADLOCK FALSE`: every call, order or request
is made once, and a drawer, an order, an account or a reward that nobody uses any more is a legal end.

**Symmetry** is used where calls differ in nothing but their names: the two on-chain sends of
`admission`, the two copies of `duplicates`, the two sendings of one finalize in `counter`, the two
calls of `orders`. The properties of those runs are invariants and action properties that treat them
alike; the runs with liveness use none.

## 4 Where code and comments disagree

One run checks what a comment says, and TLC shows a behaviour of the code that contradicts it.

| Run | The text says | The code does |
|---|---|---|
| `cash_back` | cash given back never exceeds the cash received (`sale.ts:2744`) | each refund is capped by the whole sale's cash; two partial refunds together exceed it |

The configurations below are kept beside the runs. Each gives TLC one property that a text in the
repository states and the same module refutes; `tlc -config <file> <module>` prints the behaviour.
`OrderStrays.cfg` (one call after another, no overlap) and `AccountGaps.cfg` list several; TLC stops at the first that it refutes, so
leave only the line of the one to be seen.

| Configuration | Property | The text says | The code does |
|---|---|---|---|
| `Reopened.cfg` | `NeverReopened` | a terminal transaction is skipped, never reopened (`src/__tests__/unit/eulen-withdraw-handler.test.ts:105`) | the handler updates by id after an earlier read; the call's own FAILED in between is overwritten with PROCESSING. The same holds of a slow poll |
| `Orphan.cfg` | `NoOrphanPayout` | the critical section stops two withdrawals from adding up to more than the balance and leaving an orphan payout (`depix-transaction.service.ts:1482`) | the balance is read before the lock: a withdrawal that has left and is settled between the two reads is in neither |
| `LostAnswer.cfg` | `LostAnswerStaysOpen` | an indeterminate transfer must stay open until reconciled (`src/lib/services/lwk-service.ts:272`) | `createOnchainWithdraw` writes FAILED for any unsuccessful answer, a lost one included, while the transaction is broadcast |
| `ForcedClose.cfg` | `EveryCountIsTrue` | close and all writers serialize on one lock and re-read after it (`cash-session.service.ts:34`) | forced and automatic closes record a balance read before their compare-and-set; a deposit that commits in between is missing |
| `Cancelled.cfg` | `FinalizedStays` | only drafts can be cancelled (`sale.ts:2419`) | cancel checks a status read earlier and updates by id: a finalize in between is cancelled |
| `TwoOfOne.cfg` | `OneExitPerUnit` | serialized devices are sold one at a time (`sale.ts:721`) | only `addItem` checks it: `updateItemQuantity` sets the line of one item to two, and `finalize` charges two and books an exit of two for it |
| `Retry.cfg` | `RetryCanPay` | a failed approval goes back to the queue to be corrected and tried again (`depix-withdraw-authorization.service.ts:198`) | the retry carries the same key and is answered with the first attempt's FAILED row; the request ends AUTHORIZED and unpaid |
| `RejectedCredit.cfg` | `RejectedHasNoCredit` | only what is pending may be rejected (`reward.ts:497`) | `rejectAction` checks first and writes by id (`reward.ts:501`): an approval in between has already credited |
| `PaidTwice.cfg` | `PaidOnce` | a payment in the PDV of an order paid by another way is blocked, where it used to be counted twice (`sale.ts:2176`, "PDV5") | the order is read as COMPLETED and written by id; the counter's payment, which commits in between, is in drawer and books too |
| `OrderStrays.cfg` | `CancelledOwesNothing` | a paid order is refunded and not cancelled, since that would leave its payment recorded (`lib/validators/service-order.ts:173`) | a paid order on the pickup shelf may be edited; a dearer budget makes it WAITING_APPROVAL, which may be cancelled |
| `OrderStrays.cfg` | `OnlyUncancelReopens` | a revision is not answered when the order is no longer eligible, so that an old link cannot make a cancelled order live again (`service-order.ts:4530`; the signature handler says it mirrors that path, `quote-signature-approval.ts:10`) | the handler checks only `deletedAt` and writes the status by id (line 59): a signature after the cancellation puts the order back to APPROVED without its parts |
| `OrderStrays.cfg` | `AnswersCancelNothing` | an answer restores the status the order had before the revision (`service-order.ts:274`) | an order that waited, was cancelled and restored has CANCELLED as what came last before waiting; the answer makes it CANCELLED, with its parts still out |
| `OrderStrays.cfg` | `ReturnedOnce` | a second deletion aborts and releases nothing, since giving back twice would count the parts double (`service-order.ts:1689`, "F6") | `updateItem` (1798) and `removeItem` (1866) do not look at `deletedAt`: removing an item of a deleted order gives its parts back again |
| `OrderStrays.cfg` | `ApprovalReleases` | rows that enter WAITING_APPROVAL from itself are ignored, else the order is caught in a loop (`quote-status.ts:8`) | the signature's handler has its own look-up, which does not ignore them: after a second item the signed order stays in WAITING_APPROVAL |
| `Unreleased.cfg` | `NextCycleReleases` | when Eulen cannot corroborate at once, the next poll asks again and releases the sale (`eulen-deposit-handler.ts:59`, 189) | the poll asks Eulen only while the row is PENDING, and the handler has just made it PROCESSING; the sale waits for the chain |
| `LostNews.cfg` | `LostNewsIsCredited` | the extract job is the net for when both the webhook and the monitor fail (`depix-transaction.service.ts:3269`) | only those two ever store the transaction id, without which the poll the job makes has nothing to check |
| `LateReturn.cfg` | `ReturnedEndsReturned` | the extract is the net under a lost webhook, and marks what Eulen lists as refunded (`depix-transaction.service.ts:3263`) | it lists deposits of the last 48 hours (3287); of an older one nobody marks the return |
| `Crowded.cfg` | `KnownTransferIsCredited` | the job goes through the stuck transactions that no screen polls (`depix-transaction.service.ts:3047`) | it takes the fifty oldest (3157); fifty that never settle keep it from a younger one for ever |
| `ExpiredPaid.cfg` | `ApprovedNotExpired` | a deposit whose PIX arrived is not expired (`depix-transaction.service.ts:2928`) | the expiry writes by id after an earlier read; an approval in between is overwritten |
| `AccountGaps.cfg` | `CancelledHoldsNothing` | anchoring the cancellation in status and total also covers a payment in part (`financial.ts:556`) | a payment in part changes neither, since the total counts closed instalments only: the instalment is cancelled with its money |
| `AccountGaps.cfg` | `EntriesStay` | the ledger's lines are immutable (`prisma/schema/financial.prisma`, `InstallmentPayment`); the account whose instalments are made anew has none paid (`financial.ts:469`) | the edit checked before; a payment that commits in between is deleted with its instalment and its ledger |
| `AccountGaps.cfg` | `TotalIsAlwaysThePaidOnes` | card, result and cash flow tell the same story of the same money (`docs/FINALIZACAO/05-financeiro.md`, "Invariantes", 3) | two payments of two instalments each compute the total without the other's; the later commit stands |
| `AccountGaps.cfg` | `PartIsReturnable` | an instalment paid in part can be reversed (`financial.ts:754`) | it keeps the status PENDING, which `reverseInstallment` refuses |

## 5 The proofs

TLC answers for the instances above; the theorems hold for every value of the constants.
They rest on the modules' named `ASSUME`s (finite sets, ranges of the
parameters) and nothing else, except what is written in the statement: `NoGiveBack`, `OneScreen` and
`Fits` are the assumptions about overlap that sections 2 and 4 discuss, and `CallsReopenNothing` and `Reserve` speak of the
calls alone (no webhook, no poll). Where the code has no guard, the property itself says of which rows it speaks, by a history variable
(`reopened`, `strayed`, `crossed`), and the theorem is about every behaviour.
A property in parentheses is proved and not run: its module's run spends its time on the others.

| Module | Theorem | Property | Argument |
|---|---|---|---|
| `DepixWithdrawProofs` | `TypeCorrect` | `TypeOK` | action by action |
| | `LockExclusion` | (`LockIsExclusive`) | inductive with `TypeOK` |
| | `NotPaid`, `Completed`, `Traceable` | `NotPaidIsTrue`, (`CompletedIsTrue`), `SentIsTraceable` | consequences of `Inv` |
| | `DuplicateGuard` | `DuplicateGuardSound` | the step that passes the guard, under `Inv` |
| | `Implements` | `KeepsPromise` | refinement, step by step, from the two invariants |
| | `OneRow` | `OneRowPerKey` | inductive: a row in the making has no twin |
| | `WithinBalance`, `WithinCap` | `OpenWithinBalance`, `WithinDailyCap` | consequences of `ReserveInv` and `CapInv` |
| | `CallsReopenNothing`, `Reserve` | (`reopened = {}`), (`TotalOpen <= InitialBalance`) | without webhooks and polls nobody reopens a row, and the reserve is that of all rows |
| `DepixAuthorizationProofs` | `TypeCorrect`, `Exclusive` | (`TypeOK`), `ClaimIsExclusive` | inductive together |
| | `OnePayment` | `OnePaymentPerOrder` | consequence of `IInv` |
| `DepixDepositProofs` | `TypeCorrect`, `CreditConfirmed`, `ReleasedPaid` | (`TypeOK`), `CreditIsConfirmed`, `ReleasedWasPaid` | consequences of `IInv` |
| | `ReturnKept` | `ReturnStands` | step by step, under `IInv` |
| `ServiceOrderProofs` | `TypeCorrect`, `Parts`, `Books`, `Consent` | (`TypeOK`), `PartsMatch`, `BooksAgree`, `WaitsForConsent` | consequences of `IInv` |
| | `Answer` | `AnsweredOnce` | the steps that write a revision, under `IInv` |
| `RewardsProofs` | `Alone`, `UnderLease` | (`OneRunAtATime`), `Spec => Lease!Spec` | whoever works holds the lease; the job's steps are the lease's |
| | `TypeCorrect`, `Credited`, `Limited`, `OneOrder` | (`TypeOK`), `CreditedOnce`, `WithinLimit`, `OneOrderPerReward` | consequences of `IInv` |
| | `Swept` | `SweptOnce` | consequence of `IInv`, assuming `Fits` |
| `CashDrawerProofs` | `TypeCorrect`, `OneOpen` | (`TypeOK`), `OneOpenPerUser` | inductive |
| | `FirstClose`, `Covers` | `FirstCloseStands`, `WithdrawalsAreCovered` | action properties from `TypeOK` |
| | `Frozen`, `CountIsTrue` | `ClosedIsFrozen`, `OperatorCountIsTrue` | assuming `NoGiveBack` |
| `InstallmentsProofs` | `TypeCorrect`, `LedgerTracks` | (`TypeOK`), `LedgerTracksPaid` | inductive with what calls hold (`IInv`) |
| | `TotalTrue`, `CancelSees` | `TotalIsThePaidOnes`, `CancelSeesTotal` | consequences of `TotalInv` |
| `PdvSaleProofs` | `TypeCorrect`, `NeverOversold`, `CountKardex` | `TypeOK`, `NoOversell`, (`GoodsAgree`) | consequences of `IInv` and `SaleType`, for both values of `OneScreen` |
| | `Money`, `Charged`, `NoneLeaked`, `Kardex` | `MoneyMatchesGoods`, `SoldMeansCharged`, `NoLeakedReservation`, `KardexAgrees` | consequences of `ScreenInv`, assuming `OneScreen` |

**Withdrawals.** That a row tells the truth is not inductive: a poll about to write `COMPLETED`
is as dangerous as the row. `Inv == TypeOK /\ CallInv /\ WriterInv` adds what is in flight.
`CallInv` ties the stage of a call to its row, order and transfer: the row exists exactly
from the insert on, the wallet service works only for a call that stored its order,
REJECTED is written only by a call that never asked for a transfer. `WriterInv` says that a final
status in a row, in a recorded webhook or in an answered poll is the one the provider
gave, which it never takes back. Steps are taken in three groups (the call, the
world outside it, the poll), with one lemma for each group and part.

**The refinement.** `Implements` proves `Spec => Promise!Spec` (`KeepsPromise`): the initial state is one of
`Payout`, and under `Inv` and `LeaveInv` each step is a step of `Payout` or a stutter. `LeaveInv` adds
that a transfer not yet broadcast has sent nothing and that the provider pays only a
deposit it has seen. `CallMoves`, `OutsideMoves` and `PollMoves` show that a step changes what the promise sees of one request at most, and
that for this request it is nothing or one of the promise's moves (`Moves`: tell, leave, finish at the provider, give
up); `OneMoves` puts that together. That a `Tell` is truthful is `Inv` *after* the step: the truth of rows, proved before,
is what makes the refinement go through.

**Authorization.** `ClaimIsExclusive` is inductive with the types: only a compare-and-set from PENDING
begins a claim, and a request in somebody's hands is AUTHORIZED. On it rests `OnePerRequest`: between the
search for a withdrawal with the request's key and the making of one, nobody else acts for
the request. `OneRequestPerKey` is the unique index on the partner's key. Both together are `OnePaymentPerOrder`.
What the payments do meanwhile is any step of `Payout`, of which only `Tell` makes a row (`PayMoves`).

**Deposits.** The row may say anything of the past, since half of its writers go by id; so the
invariant hardly looks at the row. `Knows` says what the *place* of a call implies of Eulen and the
chain: whoever is past the check knows that the transfer is confirmed, whoever is about to flip,
release or mark knows that the PIX was received. These facts never become false again (money that
is returned was received), so they do not go stale however slow the call, and each write is
justified by its writer's place alone. `ReturnKept` needs one fact about the row: one marked as returned belongs to
money that was given back, so nobody finds it to be approved or settled; the five writers that go by id (`ByIdSteps`) overwrite it
only if they were on their way before, and none sets out once it is marked.

**Orders.** `IInv` has parts for an order (`RowInv`, `PastInv`, `MoneyInv`), one for a revision (`QuoteInv`), one for an
item (`ItemInv`) and one for a call: `CallInv` says what a call has read that nobody can change any more. That the rest of
what it read still holds is not so, in the code or in the invariant; but if it does not hold at the second step, `strayed` says so
(`Recorded`), and the parts about parts, books and consent are conditional on that (`Straight`, `Solvent`, `Whole`). A mark is
never taken off (`Lasting`), so a condition that fails stays failed. `Elsewhere` says that a step
changes one order with its items and revisions, and `Localized` reduces the invariant to that order, so that
each of the fifteen commits is looked at once.

**Instalments.** `IInv` says what a call may rely on between its steps: a row it changed still has, in the table, the amount
it read (`Held`), and the new amount is that plus its sum, or a cent away when it closes the row; the rows a
cancellation swept are still open (`SweptOpen`); no two calls hold the same row (`Apart`). A commit then gives row and
ledger the same. `TotalInv` adds the total: while nothing `crossed`, at most one call is about to write one, and what it
will write is right for the rows it will leave (`TotalOf` of `NextRows`). The job and a cancellation change only the statuses of rows
that are not closed, and such rows do not count (`ClosedCount`); the sum itself stays opaque, since only equal sets of closed rows are compared.

**The reserve and the cap.** The amounts a call checks are sums over all rows, read under the advisory lock, while other
calls, webhooks and polls write. `ReserveInv` says that from the reading on (`cap`, `insert`) a call holds an *upper bound* of
what is reserved: what one row reserves only falls once it is inserted (`ReservedStep`), and only the holder of the lock inserts
(`InsertsAlone`). `AdmissionInv` gives that a stored quote never exceeds what was admitted. So the insert keeps the sum
within the balance it read, and no more than was held at first is ever admitted (not: than is held now, which `Orphan.cfg` refutes).
All that can raise what a row reserves or counts is that somebody reopens it, and `Reopened.cfg` shows that webhooks and polls do; the history
variable `reopened` records it, and `HistoryStep` shows that it misses none, so `WithinBalance` and `WithinCap` hold of `Spec` as it
stands, webhooks and polls included. `CallsReopenNothing` shows that calls alone (crashes, retries and rollbacks
included) reopen nothing, and `Reserve` that then the open rows *all* stay within what was held.

**Sums.** `SumFunctionOnSet` is a fold, and its library defines it by a recursion whose solution is picked with
`CHOOSE`. That a solution exists, that it does not depend on the order, and that it splits, grows and is changed as a sum is
(`SumUnfolds` to `SumZeroed`) is proved without an induction principle: a statement that failed for some part of
the index set would fail for a smallest one, by the well-foundedness of the strict subsets of a finite set. The section is
in `DepixWithdrawProofs` and in `PdvSaleProofs`, which do not extend each other.

**Rewards and the lease.** `HolderWorks`: a run that works owns the lease, which is held. A late `Release` compares the owner, so it
cannot free the lease of the run that came after. `UnderLease` shows that the expiry job is one of
those runs, so `Alone` holds of it. In `IInv`, a reward not yet approved was never credited and one that may still be used is in
no order (`ActionInv`), whoever is at work; what a call has found exists for ever (`CallsInv`); and under `Fits` what a run has listed was not
swept before, and what was swept is in no status from which the job lists (`JobsInv`, `SweptInv`). The limit is preserved by the
count that a grant makes of the rewards generated, at its commit.

**Drawer.** `StepEffect` says once what a step can do to a session: nothing, age it, or one of
the five effects of a commit (opened, posted, counted, snapped, reviewed).
Each theorem is read off those cases. `CountIsTrue` needs two facts more: a review in
flight has read the balance its session still has (`ReviewsAgree`), and only closed sessions
are verified (`VerifiedIsClosed`). Both, and `Frozen`, need `NoGiveBack`: that write is the
one which does not lock the session, and it breaks them. The `drawer` run leaves those
calls out for the same reason; `overdraw` includes them.

**Stock.** `IInv == CartsGood /\ StockInv`. `CartsGood` (a line with money has goods, also in what calls remember) is
inductive by itself; with it, `StockInv` (the count of the product) is preserved by finalize, which compares before it takes, and by refund,
which puts back what it books, however the calls overlap. `SaleType` adds the types of totals and payments.

**One screen to a sale.** Money and reservations are right only if what a call read of its sale is still so when it writes, and no lock
says that: between the two transactions of an edit another edit may come. `InTurn` says of the calls in flight
that they may overlap; from it `WritesAlone`: who shares a sale with a call that acts on a draft is a refund or the job, and these do not
touch drafts. `CallSees` is what a call therefore knows: a draft is still one, the total it tallied is the total of the
cart with its line, a refund finds the lines it read or lines zeroed since. `SaleAdds` and `MoneyAdds` (of one sale) and `Placed` (of each
item: where it is, in which line, and what its movements come to) are then preserved by one lemma for each kind of commit. Without `OneScreen` the four
properties are false: with `Counter.cfg` and `OneScreen = FALSE`, TLC finds a counterexample of each.

**Model-checked only.** `PayoutSettles`, `StaleLeavesQueue`, `KnownTransferIsCredited`, `OverdueShows` and `OverdueLeaves` are liveness under
fairness, out of the provers' reach. Every invariant and every action property of a passing run is a theorem; what the configurations of section 4
refute is not, of course. No proof is about a `RECURSIVE` operator: the model has none.

## 6 What is not modelled

- Clock times. Deadlines (quote, lease, HTTP timeouts, the half hour of a QR) are nondeterministic choices; which
  of two clocks runs out first is not decided.
- Fees, rounding, currency. Amounts are small naturals; in `DepixDeposit` and `ServiceOrder` they are counts.
- Row-level security and authentication: one tenant is modelled; a tenant's rows are
  never visible to another by the database's policies.
- Withdrawals of external partners through an inbound deposit (forward, hold, manual refund): next in the plan.
- Deposits to a partner's own wallet, external on-chain deposits, other sources of a deposit than a
  quick sale, the fee wallet's older repayments, a second QR for one sale.
- In `PdvSale`: two first additions of a product at once, discounts, trade-ins and the
  records a sale makes in other ledgers (section 2.3).
- In `ServiceOrder`: laboratory, terms, costs, documents, card payments and commissions; what else is on the shelf (a
  reservation finds enough or rolls back); in TLC, what follows a write by id over an order that had moved.
- In `Installments`: accounts that sales, orders and purchases make, two edits of a value at one time, categories, recurring expenses.
- In `Rewards`: the editing of campaigns, frequency rules, amounts other than one unit.
- A withdrawal whose process died before the provider answered: its PENDING row
  keeps its reserve until somebody closes it by hand. `PayoutSettles` does not speak of it. Likewise a deposit whose
  process died between COMPLETED and the release of its sale: no job comes back to it, and no property claims so.
- The remaining components of section 1. Interests, valuations, settings, reports, users:
  single-row editing. Fiscal documents, chatbot, swap: conversations with
  outside parties whose behaviour the code does not fix. UI and deployment: no
  shared state of their own. These, with generated code, components of the screens and
  tests, are by far the most of the repository's lines, so the share of lines that is modelled stays small.

## 7 Plan

Done, in this order: `DepixWithdraw` with `Payout`, `CashDrawer`, `PdvSale`, `DepixAuthorization`, `CronLease` and `Rewards`, `ServiceOrder`,
`DepixDeposit`, `Installments`. Next, most important first:

1. `ExternalWithdraw`: an inbound deposit, its forward inside the provider's window, the hold and the manual refund;
   abstract specification: forwarded or refunded, never both. The hazard is a death between broadcast and the count of
   attempts (`depix-transaction.service.ts:2155`).
2. `StockItem` with block, repair and disposal, which `PdvSale`'s unit steps and `ServiceOrder`'s parts must implement.
3. In `Installments`, the accounts that a sale or an order makes and its refund cancels, composed with `PdvSale`.
4. `Subscription`: renewal, dunning and expiry against the payment.
5. In `PdvSale`, `TotalIsWhatRemains`: the total a partial refund writes, against overlapping refunds.

Theorems planned: with each of these modules its invariants; in `Installments`, that the total is the sum a user would compute,
with the lemmas on sums.

## 8 How to run

    tlc -workers 2 -config Admission.cfg MCDepixWithdraw
    tlapm DepixWithdrawProofs.tla

`PROJECT.json` names the module and configuration of every run. Distinct states and
seconds with two workers: `admission` 648 444 (56), `duplicates` 933 761 (92), `settling`
28 834 (21), `approval` 51 586 (21), `deposits` 475 746 (200),
`drawer` 82 729 (11), `overdraw` 114 933 (12), `counter` 344 751 (114), `orders` 1 283 626 (96),
`loyalty` 96 361 (35), `accounts` 266 101 (116). The run that expects a violation stops after a second or two.
