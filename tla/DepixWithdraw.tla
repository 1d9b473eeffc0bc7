---------------------------- MODULE DepixWithdraw ----------------------------
(***************************************************************************)
(* Withdrawals from a tenant's DePix wallet: PIX payouts through the Eulen *)
(* off-ramp (createWithdraw) and on-chain sends (createOnchainWithdraw),   *)
(* of src/server/services/depix-transaction.service.ts, together with the  *)
(* parties that write the same row: the LWK wallet service that builds and *)
(* broadcasts the transaction (lwk/app.py), Eulen's withdraw webhook       *)
(* (lib/webhooks/eulen-withdraw-handler.ts), the status poll run by the    *)
(* screens and by the reconciliation job (checkTransactionStatus), and     *)
(* that job's lookup of withdrawals whose broadcast got no answer.         *)
(*                                                                         *)
(* A request is one call of the service by one tenant, and it names the    *)
(* row it inserts.  Every database transaction of the code is one step;    *)
(* whatever lies between two of them (a call to the wallet service, to the *)
(* provider) is another, so all interleavings the deployment allows are    *)
(* explored.  A call dies at any step (Crash).                             *)
(***************************************************************************)
EXTENDS Integers, FiniteSets, FiniteSetsExt

CONSTANTS
  Requests,        \* calls of the withdrawal services
  Kind,            \* "PIX" or "ONCHAIN", per request
  Intent,          \* destination key and net amount of a request
  Key, NoKey,      \* idempotency key sent by the client, or none
  Gross,           \* gross amount a request computes from the fee table
  Quotes,          \* gross amounts the provider may quote for it
  InitialBalance,  \* DePix in the wallet before the first request
  DailyCap,        \* the tenant's cap on the last 24 hours
  Webhooks,        \* whether Eulen's webhooks reach the application at all
  Pollers,         \* concurrent runs of the status poll
  MaxAge,          \* bound: 1 = rows leave the duplicate window, 2 = the cap's
  MaxUses          \* bound on the use counter kept per recipient

ASSUME RequestsAssumption == IsFiniteSet(Requests) /\ "free" \notin Requests
ASSUME KindAssumption == Kind \in [Requests -> {"PIX", "ONCHAIN"}]
ASSUME AmountsAssumption ==
  /\ Gross \in [Requests -> Nat \ {0}]
  /\ Quotes \in [Requests -> SUBSET (Nat \ {0})]
  /\ InitialBalance \in Nat
  /\ DailyCap \in Nat
ASSUME BoundsAssumption == Webhooks \in BOOLEAN /\ MaxAge \in Nat /\ MaxUses \in Nat

VARIABLES
  row,      \* TenantDepixTransaction, one per request
  age,      \* 0: younger than 10 minutes, 1: than 24 hours, 2: older
  reopened, \* history: requests whose row left a terminal status
  pc,       \* where the call of a request stands
  bal,      \* on-chain balance the call read
  held,     \* gross amounts its reserve query found open
  quote,    \* gross amount the provider quoted to the call
  lock,     \* holder of the tenant's withdrawal advisory lock, or "free"
  lwk,      \* the wallet service's handling of the transfer of a request
  sent,     \* the transfer's transaction reached the Liquid network
  balance,  \* DePix the wallet holds on chain
  prov,     \* state of the payout at the provider
  hook,     \* state of the delivery of each webhook event
  poll,     \* the status polls in flight
  uses      \* uses registered by onWithdrawCompleted for a request's recipient

callVars == <<bal, held, quote>>
walletVars == <<lwk, sent, balance>>
vars == <<row, age, reopened, pc, bal, held, quote, lock, lwk, sent, balance, prov,
          hook, poll, uses>>

Open == {"PENDING", "PROCESSING"}
Closed == {"FAILED", "CANCELLED", "EXPIRED"}
Terminal == Closed \cup {"COMPLETED"}
Status == {"NONE"} \cup Open \cup Terminal
Failure == {"none", "REJECTED", "UNKNOWN"}

\* The provider's life of a payout; the names are Eulen's.
Final == {"sent", "error", "canceled", "expired"}
ProviderStatus == {"unsent", "sending"} \cup Final
ProviderNext(s) ==
  CASE s = "unsent"  -> {"sending", "canceled", "expired"}
    [] s = "sending" -> {"sent", "error"}
    [] OTHER         -> {}

NoRow == [status |-> "NONE", failure |-> "none", gross |-> 0,
          provider |-> FALSE, tx |-> FALSE, fee |-> FALSE]

IdlePoll == [stage |-> "idle", tx |-> "none", status |-> "NONE"]

Born(r) == row[r].status # "NONE"
IsOpen(r) == row[r].status \in Open
Total(amount) == SumFunctionOnSet(amount, Requests)

Init ==
  /\ row = [r \in Requests |-> NoRow]
  /\ age = [r \in Requests |-> 0]
  /\ reopened = {}
  /\ pc = [r \in Requests |-> "key"]
  /\ bal = [r \in Requests |-> 0]
  /\ held = [r \in Requests |-> [q \in Requests |-> 0]]
  /\ quote = [r \in Requests |-> 0]
  /\ lock = "free"
  /\ lwk = [r \in Requests |-> "idle"]
  /\ sent = [r \in Requests |-> FALSE]
  /\ balance = InitialBalance
  /\ prov = [r \in Requests |-> "none"]
  /\ hook = [r \in Requests |-> [s \in ProviderStatus |-> "none"]]
  /\ poll = [p \in Pollers |-> IdlePoll]
  /\ uses = [r \in Requests |-> 0]

-----------------------------------------------------------------------------
(* Before the lock: idempotency key, duplicate guard, refusals, balance.   *)

Goto(r, at) == pc' = [pc EXCEPT ![r] = at]

KeyTaken(r) == Key[r] # NoKey /\ \E q \in Requests : Born(q) /\ Key[q] = Key[r]

ReplayKey(r) ==
  /\ pc[r] = "key"
  /\ KeyTaken(r)
  /\ Goto(r, "done")
  /\ UNCHANGED <<row, age, reopened, callVars, lock, walletVars, prov, hook, poll, uses>>

NewKey(r) ==
  /\ pc[r] = "key"
  /\ ~KeyTaken(r)
  /\ Goto(r, IF Kind[r] = "PIX" THEN "duplicate" ELSE "balance")
  /\ UNCHANGED <<row, age, reopened, callVars, lock, walletVars, prov, hook, poll, uses>>

\* Mutant: a row that reads FAILED never counts.
MayHavePaidUnlessFailed(q) == Born(q) /\ row[q].status \notin Closed

\* A row the guard takes for a payment that went out or still may.
MayHavePaid(q) ==
  \/ Born(q) /\ row[q].status \notin Closed
  \/ row[q].status = "FAILED" /\ row[q].failure # "REJECTED"

RecentTwin(r) ==
  \E q \in Requests :
    /\ Kind[q] = "PIX" /\ Intent[q] = Intent[r]
    /\ age[q] = 0
    /\ MayHavePaid(q)

RefuseDuplicate(r) ==
  /\ pc[r] = "duplicate"
  /\ RecentTwin(r)
  /\ Goto(r, "done")
  /\ UNCHANGED <<row, age, reopened, callVars, lock, walletVars, prov, hook, poll, uses>>

PassDuplicate(r) ==
  /\ pc[r] = "duplicate"
  /\ ~RecentTwin(r)
  /\ Goto(r, "balance")
  /\ UNCHANGED <<row, age, reopened, callVars, lock, walletVars, prov, hook, poll, uses>>

\* Custody model, passphrase, recipient limit, provider cap per key, wallet
\* service unreachable, unhealthy cache: any of them ends the call.
Refuse(r) ==
  /\ pc[r] = "balance"
  /\ Goto(r, "done")
  /\ UNCHANGED <<row, age, reopened, callVars, lock, walletVars, prov, hook, poll, uses>>

ReadBalance(r) ==
  /\ pc[r] = "balance"
  /\ bal' = [bal EXCEPT ![r] = balance]
  /\ Goto(r, "lock")
  /\ UNCHANGED <<row, age, reopened, held, quote, lock, walletVars, prov, hook, poll, uses>>

-----------------------------------------------------------------------------
(* The critical section: one transaction under the tenant's advisory lock. *)

\* Mutant: no advisory lock.
AcquireNothing(r) ==
  /\ pc[r] = "lock"
  /\ lock' = r
  /\ Goto(r, "reserve")
  /\ UNCHANGED <<row, age, reopened, callVars, walletVars, prov, hook, poll, uses>>

AcquireLock(r) ==
  /\ pc[r] = "lock"
  /\ lock = "free"
  /\ lock' = r
  /\ Goto(r, "reserve")
  /\ UNCHANGED <<row, age, reopened, callVars, walletVars, prov, hook, poll, uses>>

Available(r) == bal[r] - Total(held[r])

ReadReserve(r) ==
  /\ pc[r] = "reserve"
  /\ held' = [held EXCEPT ![r] =
                [q \in Requests |-> IF IsOpen(q) THEN row[q].gross ELSE 0]]
  /\ Goto(r, "cap")
  /\ UNCHANGED <<row, age, reopened, bal, quote, lock, walletVars, prov, hook, poll, uses>>

\* Mutant: what was already paid no longer counts.
SpentTodayStillOpen ==
  Total([q \in Requests |-> IF IsOpen(q) /\ age[q] < 2 THEN row[q].gross ELSE 0])

SpentToday ==
  Total([q \in Requests |-> IF Born(q) /\ row[q].status \notin Closed /\ age[q] < 2
                            THEN row[q].gross ELSE 0])

Admitted(r) == Available(r) >= Gross[r] /\ SpentToday + Gross[r] <= DailyCap

\* An error thrown inside the transaction rolls it back and frees the lock.
Abort(r) ==
  /\ lock' = "free"
  /\ Goto(r, "done")
  /\ UNCHANGED <<row, age, reopened, callVars, walletVars, prov, hook, poll, uses>>

CapRefuses(r) == pc[r] = "cap" /\ ~Admitted(r) /\ Abort(r)

CapAdmits(r) ==
  /\ pc[r] = "cap"
  /\ Admitted(r)
  /\ Goto(r, "insert")
  /\ UNCHANGED <<row, age, reopened, callVars, lock, walletVars, prov, hook, poll, uses>>

\* Unique index on (tenant, idempotency key).
KeyClash(r) == pc[r] = "insert" /\ KeyTaken(r) /\ Abort(r)

\* Mutant: no unique index on the key.
InsertUnindexed(r) ==
  /\ pc[r] = "insert"
  /\ row' = [row EXCEPT ![r] = [NoRow EXCEPT !.status = "PENDING", !.gross = Gross[r]]]
  /\ lock' = "free"
  /\ Goto(r, IF Kind[r] = "PIX" THEN "payout" ELSE "window")
  /\ UNCHANGED <<age, reopened, callVars, walletVars, prov, hook, poll, uses>>

Insert(r) ==
  /\ pc[r] = "insert"
  /\ ~KeyTaken(r)
  /\ row' = [row EXCEPT ![r] = [NoRow EXCEPT !.status = "PENDING", !.gross = Gross[r]]]
  /\ lock' = "free"
  /\ Goto(r, IF Kind[r] = "PIX" THEN "payout" ELSE "window")
  /\ UNCHANGED <<age, reopened, callVars, walletVars, prov, hook, poll, uses>>

-----------------------------------------------------------------------------
(* The payout order at the provider.                                       *)

\* History: no guard reads it.  A closed row that counts again, or a completed
\* one that is open again, is a row somebody reopened.
Notes(r, status) ==
  reopened' = reopened \cup
    {q \in Requests : /\ q = r
                      /\ \/ row[q].status \in Closed /\ status \notin Closed
                         \/ row[q].status \in Terminal /\ status \in Open}

Write(r, status) ==
  row' = [row EXCEPT ![r].status = status] /\ Notes(r, status)

WriteFailed(r, failure) ==
  /\ row' = [row EXCEPT ![r] = [@ EXCEPT !.status = "FAILED", !.failure = failure]]
  /\ Notes(r, "FAILED")

\* Eulen announces every state it enters; the announcement may never arrive.
Announce(r, s) == hook' = [hook EXCEPT ![r][s] = "emitted"]

EulenAccepts(r) ==
  /\ pc[r] = "payout"
  /\ \E q \in Quotes[r] : quote' = [quote EXCEPT ![r] = q]
  /\ prov' = [prov EXCEPT ![r] = "unsent"]
  /\ Announce(r, "unsent")
  /\ Goto(r, "quoted")
  /\ UNCHANGED <<row, age, reopened, bal, held, lock, walletVars, poll, uses>>

EulenRejects(r) ==
  /\ pc[r] = "payout"
  /\ WriteFailed(r, "REJECTED")
  /\ Goto(r, "done")
  /\ UNCHANGED <<age, callVars, lock, walletVars, prov, hook, poll, uses>>

\* Timeout, 5xx or an async answer that never came: the order may exist.
EulenUnknown(r) ==
  /\ pc[r] = "payout"
  /\ WriteFailed(r, "UNKNOWN")
  /\ \/ UNCHANGED <<prov, hook>>
     \/ prov' = [prov EXCEPT ![r] = "unsent"] /\ Announce(r, "unsent")
  /\ Goto(r, "done")
  /\ UNCHANGED <<age, callVars, lock, walletVars, poll, uses>>

QuoteTooBig(r) ==
  /\ pc[r] = "quoted"
  /\ Available(r) < quote[r]
  /\ WriteFailed(r, "REJECTED")
  /\ Goto(r, "done")
  /\ UNCHANGED <<age, callVars, lock, walletVars, prov, hook, poll, uses>>

\* Mutant: the amount is stored, the provider's id is not.
StoreAmountOnly(r) ==
  /\ pc[r] = "quoted"
  /\ Available(r) >= quote[r]
  /\ row' = [row EXCEPT ![r].gross = quote[r]]
  /\ Goto(r, "window")
  /\ UNCHANGED <<age, reopened, callVars, lock, walletVars, prov, hook, poll, uses>>

StoreQuote(r) ==
  /\ pc[r] = "quoted"
  /\ Available(r) >= quote[r]
  /\ row' = [row EXCEPT ![r] = [@ EXCEPT !.provider = TRUE, !.gross = quote[r]]]
  /\ Goto(r, "window")
  /\ UNCHANGED <<age, reopened, callVars, lock, walletVars, prov, hook, poll, uses>>

\* Mutant: the row is failed and the call goes on.
WindowExpiredYetSends(r) ==
  /\ pc[r] = "window"
  /\ Kind[r] = "PIX"
  /\ WriteFailed(r, "REJECTED")
  /\ lwk' = [lwk EXCEPT ![r] = "working"]
  /\ Goto(r, "sweep")
  /\ UNCHANGED <<age, callVars, lock, sent, balance, prov, hook, poll, uses>>

WindowExpired(r) ==
  /\ pc[r] = "window"
  /\ Kind[r] = "PIX"
  /\ WriteFailed(r, "REJECTED")
  /\ Goto(r, "done")
  /\ UNCHANGED <<age, callVars, lock, walletVars, prov, hook, poll, uses>>

\* This write leaves failureKind as it is.
FeeWalletUnavailable(r) ==
  /\ pc[r] = "window"
  /\ Write(r, "FAILED")
  /\ Goto(r, "done")
  /\ UNCHANGED <<age, callVars, lock, walletVars, prov, hook, poll, uses>>

-----------------------------------------------------------------------------
(* The transfer: the call waits on the wallet service, which works alone.  *)

\* The clock check runs 90 s ahead of the provider's deadline, so an order
\* that already expired never passes it.
StartSweep(r) ==
  /\ pc[r] = "window"
  /\ prov[r] # "expired"
  /\ lwk' = [lwk EXCEPT ![r] = "working"]
  /\ Goto(r, "sweep")
  /\ UNCHANGED <<row, age, reopened, callVars, lock, sent, balance, prov, hook, poll, uses>>

SweepOk(r) ==
  /\ pc[r] = "sweep"
  /\ lwk[r] = "stored"
  /\ LET status == IF Kind[r] = "PIX" THEN "PROCESSING" ELSE "COMPLETED" IN
     /\ row' = [row EXCEPT ![r] = [@ EXCEPT !.status = status, !.tx = TRUE, !.fee = TRUE]]
     /\ Notes(r, status)
  /\ Goto(r, "done")
  /\ UNCHANGED <<age, callVars, lock, walletVars, prov, hook, poll, uses>>

\* Mutant: an error of the wallet service taken for proof that nothing left.
SweepRefusedForSure(r) ==
  /\ pc[r] = "sweep"
  /\ lwk[r] \in {"short", "refused", "failed"}
  /\ WriteFailed(r, "REJECTED")
  /\ Goto(r, "done")
  /\ UNCHANGED <<age, callVars, lock, walletVars, prov, hook, poll, uses>>

SweepRefused(r) ==
  /\ pc[r] = "sweep"
  /\ lwk[r] \in {"short", "refused", "failed"}
  /\ WriteFailed(r, "UNKNOWN")
  /\ Goto(r, "done")
  /\ UNCHANGED <<age, callVars, lock, walletVars, prov, hook, poll, uses>>

\* The answer is lost.  The PIX service keeps the row open; the on-chain
\* service treats it like a refusal.
SweepLost(r) ==
  /\ pc[r] = "sweep"
  /\ IF Kind[r] = "PIX" THEN Write(r, "PROCESSING") ELSE WriteFailed(r, "UNKNOWN")
  /\ Goto(r, "done")
  /\ UNCHANGED <<age, callVars, lock, walletVars, prov, hook, poll, uses>>

\* The process dies: what the database holds stays, an open transaction rolls
\* back and frees the lock.
Crash(r) ==
  /\ pc[r] \notin {"key", "done"}
  /\ lock' = IF lock = r THEN "free" ELSE lock
  /\ Goto(r, "done")
  /\ UNCHANGED <<row, age, reopened, callVars, walletVars, prov, hook, poll, uses>>

Call(r) ==
  \/ ReplayKey(r) \/ NewKey(r) \/ RefuseDuplicate(r) \/ PassDuplicate(r)
  \/ Refuse(r) \/ ReadBalance(r) \/ AcquireLock(r) \/ ReadReserve(r)
  \/ CapRefuses(r) \/ CapAdmits(r) \/ KeyClash(r) \/ Insert(r)
  \/ EulenAccepts(r) \/ EulenRejects(r) \/ EulenUnknown(r)
  \/ QuoteTooBig(r) \/ StoreQuote(r) \/ WindowExpired(r) \/ FeeWalletUnavailable(r)
  \/ StartSweep(r) \/ SweepOk(r) \/ SweepRefused(r) \/ SweepLost(r)

-----------------------------------------------------------------------------
(* The wallet service.  The wallet lock covers coin selection, signing and *)
(* broadcast, so these are one step; the idempotency record comes after.   *)

LwkStops(r, at) ==
  /\ lwk[r] = "working"
  /\ lwk' = [lwk EXCEPT ![r] = at]
  /\ UNCHANGED <<row, age, reopened, pc, callVars, lock, sent, balance, prov, hook, poll, uses>>

LwkShort(r) == balance < row[r].gross /\ LwkStops(r, "short")

\* Wrong passphrase, sync failure, no L-BTC for the network fee.
LwkRefuse(r) == LwkStops(r, "refused")

\* Mutant: coins are not checked.
LwkBroadcastBlindly(r) ==
  /\ lwk[r] = "working"
  /\ \E to \in {"broadcast", "failed"} : lwk' = [lwk EXCEPT ![r] = to]
  /\ sent' = [sent EXCEPT ![r] = TRUE]
  /\ balance' = balance - row[r].gross
  /\ UNCHANGED <<row, age, reopened, pc, callVars, lock, prov, hook, poll, uses>>

\* "broadcast": accepted by a server; "failed": the network has it, but every
\* server answered with an error, and so does the service.
LwkBroadcast(r) ==
  /\ lwk[r] = "working"
  /\ row[r].gross <= balance
  /\ \E to \in {"broadcast", "failed"} : lwk' = [lwk EXCEPT ![r] = to]
  /\ sent' = [sent EXCEPT ![r] = TRUE]
  /\ balance' = balance - row[r].gross
  /\ UNCHANGED <<row, age, reopened, pc, callVars, lock, prov, hook, poll, uses>>

LwkStore(r) ==
  /\ lwk[r] = "broadcast"
  /\ lwk' = [lwk EXCEPT ![r] = "stored"]
  /\ UNCHANGED <<row, age, reopened, pc, callVars, lock, sent, balance, prov, hook, poll, uses>>

LwkDie(r) ==
  /\ lwk[r] \in {"working", "broadcast"}
  /\ lwk' = [lwk EXCEPT ![r] = "dead"]
  /\ UNCHANGED <<row, age, reopened, pc, callVars, lock, sent, balance, prov, hook, poll, uses>>

Wallet(r) ==
  LwkShort(r) \/ LwkRefuse(r) \/ LwkBroadcast(r) \/ LwkStore(r) \/ LwkDie(r)

-----------------------------------------------------------------------------
(* The provider and its webhook.                                           *)

\* An order moves on only once its deposit is seen; one that is cancelled or
\* expires before that ignores a deposit that comes later.
ProviderMoves(r) ==
  \E s \in ProviderNext(prov[r]) :
    /\ s = "sending" => sent[r]
    /\ prov' = [prov EXCEPT ![r] = s]
    /\ Announce(r, s)
    /\ UNCHANGED <<row, age, reopened, pc, callVars, lock, walletVars, poll, uses>>

\* Mutant: an expired payout read as under way.
MappedNeverExpired(s) ==
  CASE s = "sent"     -> "COMPLETED"
    [] s = "error"    -> "FAILED"
    [] s = "canceled" -> "CANCELLED"
    [] OTHER          -> "PROCESSING"

\* What each provider status means for the row.
Mapped(s) ==
  CASE s \in {"unsent", "sending"} -> "PROCESSING"
    [] s = "sent"                  -> "COMPLETED"
    [] s = "error"                 -> "FAILED"
    [] s = "canceled"              -> "CANCELLED"
    [] OTHER                       -> "EXPIRED"

RegisterUse(r, status) ==
  uses' = IF status = "COMPLETED" /\ uses[r] < MaxUses
          THEN [uses EXCEPT ![r] = @ + 1] ELSE uses

\* The event is recorded, once, before it is processed; "expired" is not one
\* the handler maps.
HookRecords(r, s) ==
  /\ Webhooks
  /\ s # "expired"
  /\ hook[r][s] = "emitted"
  /\ hook' = [hook EXCEPT ![r][s] = "recorded"]
  /\ UNCHANGED <<row, age, reopened, pc, callVars, lock, walletVars, prov, poll, uses>>

\* An unknown payout or a terminal row ends the handler.
HookReads(r, s) ==
  /\ hook[r][s] = "recorded"
  /\ hook' = [hook EXCEPT ![r][s] =
                IF row[r].provider /\ row[r].status \notin Terminal
                THEN "writing" ELSE "finished"]
  /\ UNCHANGED <<row, age, reopened, pc, callVars, lock, walletVars, prov, poll, uses>>

HookWrites(r, s) ==
  /\ hook[r][s] = "writing"
  /\ Write(r, Mapped(s))
  /\ RegisterUse(r, Mapped(s))
  /\ hook' = [hook EXCEPT ![r][s] = "finished"]
  /\ UNCHANGED <<age, pc, callVars, lock, walletVars, prov, poll>>

HookCrashes(r, s) ==
  /\ hook[r][s] \in {"recorded", "writing"}
  /\ hook' = [hook EXCEPT ![r][s] = "finished"]
  /\ UNCHANGED <<row, age, reopened, pc, callVars, lock, walletVars, prov, poll, uses>>

Hook(r) ==
  \E s \in ProviderStatus :
    HookRecords(r, s) \/ HookReads(r, s) \/ HookWrites(r, s) \/ HookCrashes(r, s)

-----------------------------------------------------------------------------
(* The status poll: read the row, ask the provider, write.                 *)

PollReads(p, r) ==
  /\ poll[p] = IdlePoll
  /\ row[r].provider /\ IsOpen(r)
  /\ poll' = [poll EXCEPT ![p] = [stage |-> "ask", tx |-> r, status |-> row[r].status]]
  /\ UNCHANGED <<row, age, reopened, pc, callVars, lock, walletVars, prov, hook, uses>>

\* A new receipt or recipient name makes the poll write even when the status
\* stays the one it read.
PollAnswered(p) ==
  /\ poll[p].stage = "ask"
  /\ LET s == Mapped(prov[poll[p].tx]) IN
     \/ poll' = [poll EXCEPT ![p] = [@ EXCEPT !.stage = "write", !.status = s]]
     \/ s = poll[p].status /\ poll' = [poll EXCEPT ![p] = IdlePoll]
  /\ UNCHANGED <<row, age, reopened, pc, callVars, lock, walletVars, prov, hook, uses>>

PollWrites(p) ==
  /\ poll[p].stage = "write"
  /\ Write(poll[p].tx, poll[p].status)
  /\ RegisterUse(poll[p].tx, poll[p].status)
  /\ poll' = [poll EXCEPT ![p] = IdlePoll]
  /\ UNCHANGED <<age, pc, callVars, lock, walletVars, prov, hook>>

\* The provider does not answer, or the process dies before the write.
PollFails(p) ==
  /\ poll[p] # IdlePoll
  /\ poll' = [poll EXCEPT ![p] = IdlePoll]
  /\ UNCHANGED <<row, age, reopened, pc, callVars, lock, walletVars, prov, hook, uses>>

Poll(p) ==
  (\E r \in Requests : PollReads(p, r)) \/ PollAnswered(p) \/ PollWrites(p) \/ PollFails(p)

-----------------------------------------------------------------------------
(* The reconciliation job and time.                                        *)

\* The broadcast is found by its idempotency key; no status is changed, and
\* an absent record changes nothing.
ResolveIndeterminate(r) ==
  /\ row[r].status = "PROCESSING" /\ row[r].provider /\ ~row[r].tx
  /\ lwk[r] = "stored"
  /\ row' = [row EXCEPT ![r].tx = TRUE]
  /\ UNCHANGED <<age, reopened, pc, callVars, lock, walletVars, prov, hook, poll, uses>>

GrowOld(r) ==
  /\ Born(r) /\ age[r] < MaxAge
  /\ age' = [age EXCEPT ![r] = @ + 1]
  /\ UNCHANGED <<row, reopened, pc, callVars, lock, walletVars, prov, hook, poll, uses>>

\* All calls have ended; what the model leaves running is the world outside.
Finished ==
  /\ \A r \in Requests : pc[r] = "done"
  /\ UNCHANGED vars

Next ==
  \/ \E r \in Requests :
       \/ Call(r) \/ Crash(r) \/ Wallet(r) \/ ProviderMoves(r) \/ Hook(r)
       \/ ResolveIndeterminate(r) \/ GrowOld(r)
  \/ \E p \in Pollers : Poll(p)
  \/ Finished

Spec == Init /\ [][Next]_vars

-----------------------------------------------------------------------------
(* Fairness.  A call and the wallet service run on until they answer or    *)
(* die; the reconciliation job comes back for ever, so a poll of a row     *)
(* that stays open is tried again and again, and one day the provider      *)
(* answers it and the process survives to write.  Nothing is assumed of    *)
(* webhooks, of the provider's progress or of the clients.                 *)

Fairness ==
  /\ \A r \in Requests : WF_vars(Call(r)) /\ SF_vars(\E p \in Pollers : PollReads(p, r))
  /\ \A p \in Pollers : SF_vars(PollAnswered(p)) /\ SF_vars(PollWrites(p))

FairSpec == Spec /\ Fairness

-----------------------------------------------------------------------------
(* Properties.                                                             *)

\* The shape of the state.
RowType == [status : Status, failure : Failure, gross : Nat,
            provider : BOOLEAN, tx : BOOLEAN, fee : BOOLEAN]
CallStage == {"key", "duplicate", "balance", "lock", "reserve", "cap", "insert",
              "payout", "quoted", "window", "sweep", "done"}
TransferStage == {"idle", "working", "short", "refused", "failed",
                  "broadcast", "stored", "dead"}
HookType == [ProviderStatus -> {"none", "emitted", "recorded", "writing", "finished"}]
PollType == [stage : {"idle", "ask", "write"}, tx : Requests \cup {"none"}, status : Status]

TypeOK ==
  /\ row \in [Requests -> RowType]
  /\ age \in [Requests -> 0..MaxAge]
  /\ reopened \subseteq Requests
  /\ pc \in [Requests -> CallStage]
  /\ bal \in [Requests -> Nat]
  /\ held \in [Requests -> [Requests -> Nat]]
  /\ quote \in [Requests -> Nat]
  /\ lock \in Requests \cup {"free"}
  /\ lwk \in [Requests -> TransferStage]
  /\ sent \in [Requests -> BOOLEAN]
  /\ balance \in Nat
  /\ prov \in [Requests -> {"none"} \cup ProviderStatus]
  /\ hook \in [Requests -> HookType]
  /\ poll \in [Pollers -> PollType]
  /\ uses \in [Requests -> 0..MaxUses]

\* Whoever holds the advisory lock is inside the critical section and nobody
\* else is, crashes and aborted transactions included.
InCriticalSection(r) == pc[r] \in {"reserve", "cap", "insert"}
LockIsExclusive == \A r \in Requests : InCriticalSection(r) <=> lock = r

\* A row that reads CANCELLED, EXPIRED or FAILED/REJECTED tells the operator the
\* recipient was not paid and nothing is under way: whatever the order of the
\* call, the webhook and the polls, the provider has closed such a payout
\* unpaid, or its transfer was never started.
SaysNotPaid(r) ==
  \/ row[r].status \in {"CANCELLED", "EXPIRED"}
  \/ row[r].status = "FAILED" /\ row[r].failure = "REJECTED"
NotPaidIsTrue ==
  \A r \in Requests : SaysNotPaid(r) =>
     \/ prov[r] \in {"canceled", "expired", "error"}
     \/ lwk[r] = "idle" /\ pc[r] = "done"

\* A PIX row reads COMPLETED only if the provider paid; an on-chain one only if
\* its transaction is on the network.
CompletedIsTrue ==
  \A r \in Requests : row[r].status = "COMPLETED" =>
     IF Kind[r] = "PIX" THEN prov[r] = "sent" ELSE sent[r]

\* No money leaves before the row exists and, for a PIX, before it names the
\* provider's order: every transfer can be traced after a crash.
SentIsTraceable ==
  \A r \in Requests : sent[r] => Born(r) /\ (Kind[r] = "PIX" => row[r].provider)

\* Two calls with the same idempotency key never both own a row.
OneRowPerKey ==
  \A q, r \in Requests :
    q # r /\ Key[q] # NoKey /\ Key[q] = Key[r] => ~(Born(q) /\ Born(r))

\* The strengthening behind the three properties above.  The call's part: a
\* row exists exactly from the insert on, the wallet service works only for a
\* call that stored its order, and REJECTED is the last word of a call that
\* never asked for the transfer.
BeforeInsert == {"key", "duplicate", "balance", "lock", "reserve", "cap", "insert"}

CallInv ==
  \A r \in Requests :
    /\ pc[r] \in BeforeInsert => ~Born(r)
    /\ pc[r] \in {"payout", "quoted", "window", "sweep"} => Born(r)
    /\ ~Born(r) => lwk[r] = "idle" /\ prov[r] = "none" /\ ~row[r].provider
    /\ pc[r] = "payout" => Kind[r] = "PIX" /\ prov[r] = "none" /\ ~row[r].provider
    /\ pc[r] = "quoted" => Kind[r] = "PIX" /\ prov[r] # "none"
    /\ pc[r] = "window" /\ Kind[r] = "PIX" => row[r].provider
    /\ row[r].provider => Kind[r] = "PIX" /\ prov[r] # "none"
    /\ lwk[r] # "idle" => pc[r] \in {"sweep", "done"} /\ (Kind[r] = "PIX" => row[r].provider)
    /\ sent[r] => lwk[r] # "idle"
    /\ lwk[r] \in {"broadcast", "stored"} => sent[r]
    /\ row[r].failure = "REJECTED" => lwk[r] = "idle" /\ pc[r] = "done"

\* The writers' part: a final status in a row, in a webhook about to write or in
\* a poll about to write is the one the provider gave.
Agrees(r, status) ==
  /\ status = "COMPLETED" => IF Kind[r] = "PIX" THEN prov[r] = "sent" ELSE sent[r]
  /\ status = "CANCELLED" => prov[r] = "canceled"
  /\ status = "EXPIRED" => prov[r] = "expired"

WriterInv ==
  /\ \A r \in Requests : Agrees(r, row[r].status)
  /\ \A r \in Requests : \A s \in Final : hook[r][s] # "none" => prov[r] = s
  /\ \A r \in Requests : \A s \in ProviderStatus : hook[r][s] = "writing" => row[r].provider
  /\ \A p \in Pollers : poll[p].stage # "idle" =>
       /\ poll[p].tx \in Requests /\ row[poll[p].tx].provider
       /\ poll[p].status # "NONE"
       /\ Agrees(poll[p].tx, poll[p].status)

\* Open withdrawals never add up to more than the wallet held before the first
\* of them, and those that count against the 24 h cap never to more than the
\* cap, at the amounts they were admitted with, however many calls, webhooks
\* and polls race.  A row that was closed and came back was admitted while it
\* did not count; the sums leave it out (Reopened.cfg shows how it happens).
AdmittedAmount(r) == Min({Gross[r], row[r].gross})
Reserved(r) == IF IsOpen(r) /\ r \notin reopened THEN AdmittedAmount(r) ELSE 0
Counted(r) ==
  IF Born(r) /\ row[r].status \notin Closed /\ age[r] < 2 /\ r \notin reopened
  THEN AdmittedAmount(r) ELSE 0
OpenWithinBalance == Total([r \in Requests |-> Reserved(r)]) <= InitialBalance
WithinDailyCap == Total([r \in Requests |-> Counted(r)]) <= DailyCap

\* A request passes the duplicate guard only if no payment of the last ten
\* minutes with its recipient and amount has left the wallet and is, or may
\* still be, paid out, whatever that payment's row says.
OnItsWay(q) == sent[q] /\ prov[q] \in {"unsent", "sending", "sent"}
DuplicateGuardSound ==
  [][\A q, r \in Requests :
       /\ pc[r] = "duplicate" /\ pc'[r] = "balance"
       /\ q # r /\ Kind[q] = "PIX" /\ Intent[q] = Intent[r] /\ age[q] = 0
       => ~OnItsWay(q)]_vars

\* Once the provider has finished with a payout the database can ask about,
\* the row ends closed or completed for good, even if every webhook is lost and
\* processes die between steps: in the status the provider gave it, or in the
\* FAILED its own call ended with, which for a payout the provider did pay
\* never says more than that the outcome is unknown.
Settled(r) ==
  /\ row[r].status \in Terminal
  /\ \/ row[r].status = Mapped(prov[r])
     \/ row[r].status = "FAILED" /\ (prov[r] = "sent" => row[r].failure = "UNKNOWN")
PayoutSettles ==
  \A r \in Requests : (row[r].provider /\ prov[r] \in Final) ~> []Settled(r)

-----------------------------------------------------------------------------
(* The promise all this is there to keep (module Payout), seen through what  *)
(* the network, the provider and the rows hold.                             *)

OnChainRequests == {r \in Requests : Kind[r] = "ONCHAIN"}

\* A call that ended before its transfer was started is a payment given up.
FateOf(r) ==
  IF pc[r] = "done" /\ lwk[r] = "idle" THEN "dropped"
  ELSE IF Kind[r] = "ONCHAIN" THEN IF sent[r] THEN "delivered" ELSE "open"
  ELSE CASE prov[r] = "sent" -> "delivered"
         [] prov[r] \in Final \ {"sent"} -> "closed"
         [] OTHER -> "open"

WordOf(r) ==
  CASE row[r].status = "NONE" -> "none"
    [] row[r].status = "COMPLETED" -> "paid"
    [] SaysNotPaid(r) -> "unpaid"
    [] OTHER -> "open"

Promise == INSTANCE Payout WITH
             Payments <- Requests, OnChain <- OnChainRequests,
             left <- sent,
             fate <- [r \in Requests |-> FateOf(r)],
             word <- [r \in Requests |-> WordOf(r)]

\* Every behaviour of the withdrawals is one of the promise's: money leaves once
\* and never after the call gave up, delivery and giving up are for ever, and
\* no writer makes the row say more than happened.
KeepsPromise == Promise!Spec

-----------------------------------------------------------------------------
(* What the code's comments and tests say and the code does not do.        *)

\* "tx ja terminal -> skip (nao reabre)": a terminal row is not reopened.
NeverReopened ==
  [][\A r \in Requests : row[r].status \in Terminal => row'[r].status \notin Open]_vars

\* Reading the reserve under the lock is there so that no two withdrawals pass
\* that add up to more than the balance, which left a payout order without
\* its deposit at the provider.
NoOrphanPayout == \A r \in Requests : Kind[r] = "PIX" => lwk[r] # "short"

\* An answer of the wallet service that got lost is not a definite failure: the
\* withdrawal stays open, with its reserve, until it is reconciled.
LostAnswerStaysOpen ==
  \A r \in Requests : Kind[r] = "ONCHAIN" /\ row[r].status = "FAILED" =>
     lwk[r] \notin {"broadcast", "stored"}

=============================================================================
