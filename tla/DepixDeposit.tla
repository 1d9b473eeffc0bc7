---------------------------- MODULE DepixDeposit ----------------------------
(***************************************************************************)
(* One DePix deposit of a quick sale, from its QR code to the credit.      *)
(* Five kinds of call write its row and its sale, none of them locking:    *)
(* Eulen's webhooks, the webhook of the wallet monitor, the polls of the   *)
(* screens and of two jobs (all checkTransactionStatus), and the sale's    *)
(* own operations.  Every call is a chain of short transactions with calls *)
(* to Eulen or to the wallet server in between.                            *)
(*                                                                         *)
(* The deposit is to a wallet the system manages (not BYOW), its fee split *)
(* at the source.  Rows of other deposits share with it only the job's     *)
(* batch, which takes the fifty oldest (Crowded).                          *)
(***************************************************************************)
EXTENDS Naturals, FiniteSets

CONSTANTS
  Calls,   \* webhook handlers and screens in flight at one time
  cron,    \* the call of the two reconciliation jobs
  MaxNews, \* bound: webhook events that arrive
  Crowded  \* fifty older rows that never settle fill the job's batch

ASSUME CronAssumption == cron \notin Calls
ASSUME CrowdedAssumption == Crowded \in BOOLEAN

Callers == Calls \cup {cron}

VARIABLES
  made,   \* how far createDeposit got
  row,    \* tenantDepixTransaction: status, and whether pixApprovedAt, depositTxId are set
  fee,    \* tenantDepixFeeLedger has the deposit's entry
  sale,   \* QuickSale.status
  pix,    \* what became of the PIX at Eulen
  conf,   \* the DePix transfer has the confirmations asked for
  late,   \* expiresAt is in the past
  listed, \* Eulen's extract of the last 48 hours lists the deposit
  seen,   \* webhook events recorded
  call    \* where a call stands: its step, its outcome, who asked

world == <<made, pix, conf, late, listed>>
vars == <<made, row, fee, sale, pix, conf, late, listed, seen, call>>

Idle == [at |-> "idle", out |-> "none", by |-> "none"]

\* The payer's money arrived, Eulen sent the DePix: both stay true when it is returned.
Received == pix \in {"received", "refunded", "sent", "returned"}
Sent == pix \in {"sent", "returned"}

Open == row.status \in {"PENDING", "PROCESSING"}
Credited == row.status = "COMPLETED"

Init ==
  /\ made = "no"
  /\ row = [status |-> "NONE", approved |-> FALSE, txid |-> FALSE]
  /\ fee = FALSE
  /\ sale = "AWAITING"
  /\ pix = "none"
  /\ conf = FALSE
  /\ late = FALSE
  /\ listed = TRUE
  /\ seen = {}
  /\ call = [c \in Callers |-> Idle]

Go(c, at) == call' = [call EXCEPT ![c].at = at]
Ends(c) == call' = [call EXCEPT ![c] = Idle]

\* A poll made for a screen hands the row it leaves to the screen.
Polled(c) == IF call[c].by \in {"verify", "markPaid"} THEN Go(c, "judge") ELSE Ends(c)

-----------------------------------------------------------------------------
(* createDeposit, and the sale that links the deposit and shows its QR.    *)

Inserts ==
  /\ made = "no"
  /\ made' = "row"
  /\ row' = [row EXCEPT !.status = "PENDING"]
  /\ UNCHANGED <<fee, sale, pix, conf, late, listed, seen, call>>

\* No address, no fee wallet, or no QR: written by id.
CreationFails ==
  /\ made = "row"
  /\ made' = "failed"
  /\ row' = [row EXCEPT !.status = "FAILED"]
  /\ UNCHANGED <<fee, sale, pix, conf, late, listed, seen, call>>

QrCreated ==
  /\ made = "row"
  /\ made' = "asked"
  /\ pix' = "unpaid"
  /\ UNCHANGED <<row, fee, sale, conf, late, listed, seen, call>>

\* pixpayDepixId is stored, then the sale's link; then the screen shows the QR.
QrStored ==
  /\ made = "asked"
  /\ made' = "stored"
  /\ UNCHANGED <<row, fee, sale, pix, conf, late, listed, seen, call>>

QrShown ==
  /\ made = "stored"
  /\ made' = "shown"
  /\ UNCHANGED <<row, fee, sale, pix, conf, late, listed, seen, call>>

HasQr == made \in {"stored", "shown"}

-----------------------------------------------------------------------------
(* Eulen, the chain and the clock.                                         *)

PixMoves ==
  /\ made = "shown"
  /\ \/ pix = "unpaid" /\ pix' \in {"received", "lapsed"}
     \/ pix = "received" /\ pix' \in {"sent", "refunded"}
     \/ pix = "sent" /\ pix' = "returned"
  /\ UNCHANGED <<made, row, fee, sale, conf, late, listed, seen, call>>

Confirms ==
  /\ Sent /\ ~conf
  /\ conf' = TRUE
  /\ UNCHANGED <<made, row, fee, sale, pix, late, listed, seen, call>>

\* Nobody reads the hour of a row that is no longer pending.
HalfHourPasses ==
  /\ row.status = "PENDING" /\ ~late
  /\ late' = TRUE
  /\ UNCHANGED <<made, row, fee, sale, pix, conf, listed, seen, call>>

\* Only of a deposit that was paid is the extract read again.
TwoDaysPass ==
  /\ Received /\ listed /\ (late \/ row.status # "PENDING")
  /\ listed' = FALSE
  /\ UNCHANGED <<made, row, fee, sale, pix, conf, late, seen, call>>

-----------------------------------------------------------------------------
(* A webhook is recorded before it is handled; a recorded one is ignored.  *)

Events == {"approved", "depix_sent", "expired", "refunded", "med", "pending", "confirmed"}

\* When each may come.
Happened ==
  [approved |-> Received, depix_sent |-> Sent, expired |-> pix = "lapsed",
   refunded |-> pix = "refunded", med |-> pix = "returned",
   pending |-> Sent, confirmed |-> conf]

\* Where the handler begins; a depix_sent without its txid is taken for an approval.
FirstSteps ==
  [approved |-> {"approve"}, depix_sent |-> {"note", "approve"}, expired |-> {"close"},
   refunded |-> {"close"}, med |-> {"return"}, pending |-> {"look"}, confirmed |-> {"check"}]

Outcome(e) ==
  CASE e = "expired" -> "EXPIRED" [] e = "refunded" -> "FAILED" [] OTHER -> "none"

Receives(c, e) ==
  /\ call[c] = Idle
  /\ Happened[e] /\ e \notin seen /\ Cardinality(seen) < MaxNews
  /\ seen' = seen \cup {e}
  /\ \E at \in FirstSteps[e] :
       IF at = "note" /\ Credited
       THEN UNCHANGED call
       ELSE call' = [call EXCEPT ![c] = [at |-> at, out |-> Outcome(e), by |-> "hook"]]
  /\ UNCHANGED <<world, row, fee, sale>>

\* The PIX was paid: the row stops waiting for it.
Approves(c) ==
  /\ call[c].at = "approve"
  /\ row' = IF row.status = "PENDING"
            THEN [row EXCEPT !.status = "PROCESSING", !.approved = TRUE] ELSE row
  /\ Go(c, "corroborate")
  /\ UNCHANGED <<world, fee, sale, seen>>

\* Eulen is asked whether it agrees; when it does not answer the sale waits.
Corroborates(c) ==
  /\ call[c].at = "corroborate"
  /\ Go(c, "release") \/ Ends(c)
  /\ UNCHANGED <<world, row, fee, sale, seen>>

\* The DePix was sent: its txid is kept, then looked for on the chain.
Notes(c) ==
  /\ call[c].at = "note"
  /\ row' = IF Open THEN [status |-> "PROCESSING", approved |-> TRUE, txid |-> TRUE] ELSE row
  /\ Go(c, "check")
  /\ UNCHANGED <<world, fee, sale, seen>>

\* Mutant: the news is written over whatever the row says.
ClosesAny(c) ==
  /\ call[c].at = "close"
  /\ row' = [row EXCEPT !.status = call[c].out]
  /\ Go(c, "unpay")
  /\ UNCHANGED <<world, fee, sale, seen>>

\* It was not paid, or it was paid back.
Closes(c) ==
  /\ call[c].at = "close"
  /\ row' = IF Open THEN [row EXCEPT !.status = call[c].out] ELSE row
  /\ Go(c, "unpay")
  /\ UNCHANGED <<world, fee, sale, seen>>

Unpays(c) ==
  /\ call[c].at = "unpay"
  /\ sale' = IF sale # "AWAITING" THEN sale
             ELSE IF call[c].out = "EXPIRED" THEN "EXPIRED" ELSE "CANCELLED"
  /\ IF call[c].by \in {"verify", "markPaid"} THEN Go(c, "decide") ELSE Ends(c)
  /\ UNCHANGED <<world, row, fee, seen>>

\* The central bank took the money back, or the extract says so.
Returns(c) ==
  /\ call[c].at = "return"
  /\ row' = [row EXCEPT !.status = "MED_REFUNDED"]
  /\ Ends(c)
  /\ UNCHANGED <<world, fee, sale, seen>>

\* The monitor saw the transfer unconfirmed: the row is looked up, then written by id.
Looks(c) ==
  /\ call[c].at = "look"
  /\ IF Open THEN Go(c, "stamp") ELSE Ends(c)
  /\ UNCHANGED <<world, row, fee, sale, seen>>

Stamps(c) ==
  /\ call[c].at = "stamp"
  /\ row' = [row EXCEPT !.status = "PROCESSING", !.txid = TRUE]
  /\ Ends(c)
  /\ UNCHANGED <<world, fee, sale, seen>>

-----------------------------------------------------------------------------
(* Crediting: the transfer is checked on the chain, then settled.          *)

\* Mutant: the word of whoever calls is enough.
CheckTrusts(c) ==
  /\ call[c].at = "check"
  /\ Go(c, "settle")
  /\ UNCHANGED <<world, row, fee, sale, seen>>

CheckPasses(c) ==
  /\ call[c].at = "check" /\ conf
  /\ Go(c, "settle")
  /\ UNCHANGED <<world, row, fee, sale, seen>>

\* Too few confirmations yet, or the wallet server is away.
CheckFails(c) ==
  /\ call[c].at = "check"
  /\ Polled(c)
  /\ UNCHANGED <<world, row, fee, sale, seen>>

SettleFinds(c) ==
  /\ call[c].at = "settle"
  /\ IF Open THEN Go(c, "complete") ELSE Polled(c)
  /\ UNCHANGED <<world, row, fee, sale, seen>>

\* Mutant: only a deposit whose approval was seen is settled.
CompletesApproved(c) ==
  /\ call[c].at = "complete"
  /\ IF Open /\ row.approved
     THEN row' = [row EXCEPT !.status = "COMPLETED", !.txid = TRUE] /\ Go(c, "book")
     ELSE UNCHANGED row /\ Polled(c)
  /\ UNCHANGED <<world, fee, sale, seen>>

Completes(c) ==
  /\ call[c].at = "complete"
  /\ IF Open
     THEN row' = [row EXCEPT !.status = "COMPLETED", !.txid = TRUE] /\ Go(c, "book")
     ELSE UNCHANGED row /\ Polled(c)
  /\ UNCHANGED <<world, fee, sale, seen>>

Books(c) ==
  /\ call[c].at = "book"
  /\ fee' = TRUE
  /\ Go(c, "effects")
  /\ UNCHANGED <<world, row, sale, seen>>

-----------------------------------------------------------------------------
(* Releasing the sale: its deposit's status, its own, and the write by id. *)

Releasable == {"PROCESSING", "COMPLETED"}

Releases(c) ==
  /\ \/ call[c].at = "release" /\ row.status \in Releasable
     \/ call[c].at = "effects" /\ Credited
  /\ Go(c, "find")
  /\ UNCHANGED <<world, row, fee, sale, seen>>

Withholds(c) ==
  /\ \/ call[c].at = "release" /\ row.status \notin Releasable
     \/ call[c].at = "effects" /\ ~Credited
  /\ Polled(c)
  /\ UNCHANGED <<world, row, fee, sale, seen>>

FindsSale(c) ==
  /\ call[c].at = "find"
  /\ IF sale = "AWAITING" THEN Go(c, "mark") ELSE Polled(c)
  /\ UNCHANGED <<world, row, fee, sale, seen>>

MarksSale(c) ==
  /\ call[c].at = "mark"
  /\ sale' = "PAID"
  /\ Polled(c)
  /\ UNCHANGED <<world, row, fee, seen>>

-----------------------------------------------------------------------------
(* checkTransactionStatus: the row is read, and what it was decides.       *)

Overdue == row.status = "PENDING" /\ ~row.approved /\ late
Unanswered == row.status = "PENDING" /\ ~Overdue /\ HasQr
Uncredited == row.status = "PROCESSING" /\ row.txid

FirstStep ==
  IF Overdue THEN "expire" ELSE IF Unanswered THEN "query"
  ELSE IF Uncredited THEN "check" ELSE "judge"

Foregone == IF Overdue THEN "EXPIRED" ELSE "none"

\* The job takes the oldest open rows with a QR; the other one those that Eulen's
\* extract lists as sent.
Sweeps ==
  /\ call[cron] = Idle
  /\ ~Crowded \/ (listed /\ pix = "sent")
  /\ HasQr /\ (Overdue \/ Unanswered \/ Uncredited)
  /\ call' = [call EXCEPT ![cron] = [at |-> FirstStep, out |-> Foregone, by |-> "poll"]]
  /\ UNCHANGED <<world, row, fee, sale, seen>>

Expires(c) ==
  /\ call[c].at = "expire"
  /\ row' = [row EXCEPT !.status = "EXPIRED"]
  /\ IF HasQr THEN Go(c, "unpay")
     ELSE IF call[c].by = "poll" THEN Ends(c) ELSE Go(c, "decide")
  /\ UNCHANGED <<world, fee, sale, seen>>

\* Mutant: a poll takes a QR that is still unpaid for a paid one.
QueriesLoosely(c) ==
  /\ call[c].at = "query"
  /\ IF pix = "lapsed" THEN Go(c, "lapse") ELSE Go(c, "flip")
  /\ UNCHANGED <<world, row, fee, sale, seen>>

\* Eulen's answer, or none.
Queries(c) ==
  /\ call[c].at = "query"
  /\ \/ pix \in {"received", "sent"} /\ Go(c, "flip")
     \/ pix = "lapsed" /\ Go(c, "lapse")
     \/ Polled(c)
  /\ UNCHANGED <<world, row, fee, sale, seen>>

Flips(c) ==
  /\ call[c].at = "flip"
  /\ row' = [row EXCEPT !.status = "PROCESSING", !.approved = TRUE]
  /\ Go(c, "release")
  /\ UNCHANGED <<world, fee, sale, seen>>

Lapses(c) ==
  /\ call[c].at = "lapse"
  /\ row' = [row EXCEPT !.status = "EXPIRED"]
  /\ Polled(c)
  /\ UNCHANGED <<world, fee, sale, seen>>

\* What the extract lists as refunded is marked.
ExtractReads ==
  /\ call[cron] = Idle
  /\ listed /\ pix \in {"refunded", "returned"} /\ row.status # "MED_REFUNDED"
  /\ call' = [call EXCEPT ![cron] = [at |-> "return", out |-> "none", by |-> "poll"]]
  /\ UNCHANGED <<world, row, fee, sale, seen>>

-----------------------------------------------------------------------------
(* The sale's own operations: verify the PIX, mark as paid, cancel.        *)

\* Any other screen's poll is a verification that dies before it judges.
SaleReads(c, by) ==
  /\ call[c] = Idle
  /\ made = "shown" /\ sale = "AWAITING"
  /\ call' = [call EXCEPT ![c] = [at |-> FirstStep, out |-> Foregone, by |-> by]]
  /\ UNCHANGED <<world, row, fee, sale, seen>>

\* A sale that is decided is not verified, only its deposit polled.
ScreenPolls(c) ==
  /\ call[c] = Idle
  /\ sale # "AWAITING" \/ made # "shown"
  /\ Overdue \/ Unanswered \/ Uncredited
  /\ call' = [call EXCEPT ![c] = [at |-> FirstStep, out |-> Foregone, by |-> "poll"]]
  /\ UNCHANGED <<world, row, fee, sale, seen>>

Judges(c) ==
  /\ call[c].at = "judge"
  /\ call' = [call EXCEPT ![c].at = "decide", ![c].out = row.status]
  /\ UNCHANGED <<world, row, fee, sale, seen>>

\* checkPixStatus writes by id what it concluded.
Verified(out) ==
  CASE out \in Releasable -> "PAID" [] out = "EXPIRED" -> "EXPIRED"
    [] out = "FAILED" -> "CANCELLED" [] OTHER -> sale

Decides(c) ==
  /\ call[c].at = "decide"
  /\ sale' = IF call[c].by = "verify" THEN Verified(call[c].out)
             ELSE IF call[c].out \in Releasable /\ sale = "AWAITING" THEN "PAID" ELSE sale
  /\ Ends(c)
  /\ UNCHANGED <<world, row, fee, seen>>

CancelReads(c) ==
  /\ call[c] = Idle
  /\ sale = "AWAITING"
  /\ call' = [call EXCEPT ![c] = [at |-> "void", out |-> "none", by |-> "cancel"]]
  /\ UNCHANGED <<world, row, fee, sale, seen>>

Voids(c) ==
  /\ call[c].at = "void"
  /\ sale' = "CANCELLED"
  /\ Ends(c)
  /\ UNCHANGED <<world, row, fee, seen>>

\* A process dies: nothing is undone, nothing is tried again.
Crash(c) ==
  /\ call[c] # Idle
  /\ Ends(c)
  /\ UNCHANGED <<world, row, fee, sale, seen>>

\* A job that dies is started again by the next timer.
JobDies ==
  /\ call[cron].at \notin {"idle", "dead"}
  /\ call' = [call EXCEPT ![cron] = [Idle EXCEPT !.at = "dead"]]
  /\ UNCHANGED <<world, row, fee, sale, seen>>

JobRestarts ==
  /\ call[cron].at = "dead"
  /\ Ends(cron)
  /\ UNCHANGED <<world, row, fee, sale, seen>>

-----------------------------------------------------------------------------

Hook(c) ==
  \/ Approves(c) \/ Corroborates(c) \/ Notes(c) \/ Closes(c) \/ Unpays(c)
  \/ Returns(c) \/ Looks(c) \/ Stamps(c)

Credit(c) ==
  CheckPasses(c) \/ CheckFails(c) \/ SettleFinds(c) \/ Completes(c) \/ Books(c)

Release(c) == Releases(c) \/ Withholds(c) \/ FindsSale(c) \/ MarksSale(c)

Poll(c) == Expires(c) \/ Queries(c) \/ Flips(c) \/ Lapses(c)

Screen(c) == Judges(c) \/ Decides(c) \/ Voids(c)

Step(c) == Hook(c) \/ Credit(c) \/ Release(c) \/ Poll(c) \/ Screen(c)

Begins(c) ==
  \/ \E e \in Events : Receives(c, e)
  \/ \E by \in {"verify", "markPaid"} : SaleReads(c, by)
  \/ ScreenPolls(c)
  \/ CancelReads(c)

World ==
  \/ Inserts \/ CreationFails \/ QrCreated \/ QrStored \/ QrShown
  \/ PixMoves \/ Confirms \/ HalfHourPasses \/ TwoDaysPass

Next ==
  \/ World
  \/ Sweeps \/ ExtractReads \/ JobDies \/ JobRestarts
  \/ \E c \in Calls : Begins(c) \/ Crash(c)
  \/ \E c \in Callers : Step(c)

Spec == Init /\ [][Next]_vars

-----------------------------------------------------------------------------
(* Fairness: a call that began goes on until it answers or dies; the jobs  *)
(* come back for ever and do not die for ever, and the first one reaches   *)
(* the deposit unless its batch is crowded; and the wallet server is       *)
(* not away each time a job asks.  No webhook need ever arrive, and nobody *)
(* need look at a screen.                                                  *)

Fairness ==
  /\ \A c \in Callers : WF_vars(Step(c))
  /\ SF_vars(Sweeps) /\ SF_vars(ExtractReads)
  /\ SF_vars(CheckPasses(cron))
  /\ WF_vars(JobRestarts) /\ <>[][~JobDies]_vars

FairSpec == Spec /\ Fairness

-----------------------------------------------------------------------------
(* Properties.                                                             *)

Status == {"NONE", "PENDING", "PROCESSING", "COMPLETED", "EXPIRED", "FAILED", "MED_REFUNDED"}
Steps ==
  {"idle", "approve", "corroborate", "note", "close", "unpay", "return", "look", "stamp",
   "check", "settle", "complete", "book", "effects", "release", "find", "mark",
   "expire", "query", "flip", "lapse", "judge", "decide", "void", "dead"}

\* The shape of the state.
TypeOK ==
  /\ made \in {"no", "row", "failed", "asked", "stored", "shown"}
  /\ row \in [status : Status, approved : BOOLEAN, txid : BOOLEAN]
  /\ fee \in BOOLEAN
  /\ sale \in {"AWAITING", "PAID", "EXPIRED", "CANCELLED"}
  /\ pix \in {"none", "unpaid", "lapsed", "received", "refunded", "sent", "returned"}
  /\ conf \in BOOLEAN
  /\ late \in BOOLEAN
  /\ listed \in BOOLEAN
  /\ seen \subseteq Events
  /\ call \in [Callers -> [at : Steps, out : Status \cup {"none"},
                           by : {"none", "hook", "poll", "verify", "markPaid", "cancel"}]]

\* Whoever brought the news of a transfer, and in whatever order the five kinds
\* of call overwrite each other, a deposit is credited, and its fee booked, only
\* when the transfer has its confirmations on the chain.
CreditIsConfirmed == Credited \/ fee => conf

\* A row is taken for paid, and its sale released, only when the payer's money
\* did reach Eulen: PROCESSING is never written for anything less.
ReleasedWasPaid == sale = "PAID" \/ row.status \in Releasable => Received

\* A deposit whose txid is known and confirmed is credited, however its webhooks
\* and the monitor failed; only a return takes it out of the job's hands.
KnownTransferIsCredited == Uncredited /\ conf ~> ~Open

\* A return that is marked stands, whatever arrives afterwards: no webhook, no poll
\* and no settlement takes the row out of MED_REFUNDED, except those that had read
\* it open before, and write by id.
ByIdSteps == {"stamp", "expire", "query", "flip", "lapse"}
Returned == row.status = "MED_REFUNDED" /\ \A c \in Callers : call[c].at \notin ByIdSteps
ReturnStands == [][Returned => Returned']_vars

\* What a comment says and the code does not do: when Eulen cannot be asked at
\* once, the next cycle asks it again and releases the sale.
NextCycleReleases ==
  pix = "received" /\ row.status = "PROCESSING" ~> pix # "received" \/ sale # "AWAITING"

\* What a comment says and the code does not do: the jobs credit a deposit of
\* which both the webhook and the monitor lost the news.
LostNewsIsCredited == conf /\ Open ~> ~Open

\* What a comment says and the code does not do: the extract is a safety net under
\* the webhook of a return, so that money given back ends as a pending matter.
ReturnedEndsReturned == pix \in {"refunded", "returned"} ~> row.status = "MED_REFUNDED"

\* What a comment says and the code does not do: a deposit whose PIX arrived is
\* not expired.
ApprovedNotExpired == row.status = "EXPIRED" => ~row.approved

=============================================================================
