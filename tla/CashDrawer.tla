----------------------------- MODULE CashDrawer -----------------------------
(***************************************************************************)
(* The cash sessions of a tenant: the drawer each operator opens, the      *)
(* movements that the cashier screen and every other router write into it, *)
(* the three ways it is closed (by its operator, by a manager, by the job  *)
(* that closes abandoned sessions) and the manager's review of a closed    *)
(* one.  Code: src/server/services/cash-session.service.ts,                *)
(* src/server/api/routers/cashier.ts, and the writers of CashMovement.     *)
(*                                                                         *)
(* Every operation is one transaction under READ COMMITTED that reads      *)
(* first without a lock and writes afterwards, so each is two steps: Look, *)
(* what it reads, and Commit, what it writes under the row locks it holds  *)
(* until it commits.  A transaction that throws leaves nothing (Fail).     *)
(* Only what moves the drawer is kept of a movement: its signed amount in  *)
(* cash; a leg paid otherwise does not count in it.                        *)
(***************************************************************************)
EXTENDS Integers

CONSTANTS
  Users,      \* operators
  Sessions,   \* rows of cash_sessions, used or not
  Owner,      \* the operator whose session it is
  Calls,      \* calls of the operations below
  Op,         \* which operation a call is
  Actor,      \* the operator who makes it
  Amount      \* its amount, in cash

Readers == {"forceClose", "autoClose", "review"}
LockedWriters == {"withdrawal", "inflow", "outflow"}
Ops == {"open", "close", "downgrade"} \cup LockedWriters \cup Readers

ASSUME CallsAssumption ==
  /\ Owner \in [Sessions -> Users]
  /\ Op \in [Calls -> Ops]
  /\ Actor \in [Calls -> Users]
  /\ Amount \in [Calls -> Nat]

VARIABLES
  session,  \* the rows: state, old (open 18 hours), cash, how closed, counts
  pc,       \* where a call stands
  target,   \* the sessions a call found
  seen      \* the drawers a reader computed from the movements it read

vars == <<session, pc, target, seen>>

Unopened == [state |-> "unopened", old |-> FALSE, drawer |-> 0,
             closedBy |-> "nobody", counted |-> 0, verified |-> FALSE]

IsOpen(s) == session[s].state = "open"
IsClosed(s) == session[s].state = "closed"

DrawersOf(S) == [s \in Sessions |-> IF s \in S THEN session[s].drawer ELSE 0]
Nothing == [s \in Sessions |-> 0]
OpenOf(u) == {s \in Sessions : Owner[s] = u /\ IsOpen(s)}

Init ==
  /\ session = [s \in Sessions |-> Unopened]
  /\ pc = [c \in Calls |-> "start"]
  /\ target = [c \in Calls |-> {}]
  /\ seen = [c \in Calls |-> Nothing]

-----------------------------------------------------------------------------
(* What a call reads before it holds any lock.                             *)

Found(c, S) ==
  /\ pc' = [pc EXCEPT ![c] = "looked"]
  /\ target' = [target EXCEPT ![c] = S]
  /\ UNCHANGED session

FoundWithMovements(c, S) ==
  /\ Found(c, S)
  /\ seen' = [seen EXCEPT ![c] = DrawersOf(S)]

\* Nobody opens a second session while the first is open.
LookToOpen(c) ==
  /\ pc[c] = "start"
  /\ Op[c] = "open"
  /\ OpenOf(Actor[c]) = {}
  /\ Found(c, {})
  /\ UNCHANGED seen

\* close, and every operation that writes a movement, start from the
\* operator's own open session.
LookOwn(c) ==
  /\ pc[c] = "start"
  /\ Op[c] \in LockedWriters \cup {"close", "downgrade"}
  /\ \E s \in OpenOf(Actor[c]) : Found(c, {s})
  /\ UNCHANGED seen

\* forceClose names any open session and reads its movements with it.
LookForce(c) ==
  /\ pc[c] = "start"
  /\ Op[c] = "forceClose"
  /\ \E s \in Sessions : IsOpen(s) /\ FoundWithMovements(c, {s})

\* The job reads every session left open too long, with its movements.
LookAuto(c) ==
  /\ pc[c] = "start"
  /\ Op[c] = "autoClose"
  /\ FoundWithMovements(c, {s \in Sessions : IsOpen(s) /\ session[s].old})

\* Mutant: an open session may be reviewed.
LookReviewAny(c) ==
  /\ pc[c] = "start"
  /\ Op[c] = "review"
  /\ \E s \in Sessions : FoundWithMovements(c, {s})

LookReview(c) ==
  /\ pc[c] = "start"
  /\ Op[c] = "review"
  /\ \E s \in Sessions :
       IsClosed(s) /\ ~session[s].verified /\ FoundWithMovements(c, {s})

-----------------------------------------------------------------------------
(* What a call writes, under the locks it takes.                           *)

\* The transaction ends and forgets what it read.
End(c) ==
  /\ pc[c] = "looked"
  /\ pc' = [pc EXCEPT ![c] = "over"]
  /\ target' = [target EXCEPT ![c] = {}]
  /\ seen' = [seen EXCEPT ![c] = Nothing]

\* Mutant: the pre-check alone decides.
AnyNew(u) == {s \in Sessions : Owner[s] = u /\ session[s].state = "unopened"}

\* The partial unique index on open sessions turns the second insert away.
NewSessions(u) ==
  {s \in Sessions :
     Owner[s] = u /\ session[s].state = "unopened" /\ OpenOf(u) = {}}

Open(c) ==
  /\ Op[c] = "open"
  /\ End(c)
  /\ \E s \in NewSessions(Actor[c]) :
       session' = [session EXCEPT
         ![s] = [@ EXCEPT !.state = "open", !.drawer = Amount[c]]]

\* Mutant: no SELECT ... FOR UPDATE, the row found earlier is trusted.
LockBlindly(c, s) == s \in target[c]

\* lockOpenCashSessionOrThrow: the lock is had once its holder is gone, and
\* only on a session that is still open.
LockOpen(c, s) == s \in target[c] /\ IsOpen(s)

Post(s, amount) ==
  session' = [session EXCEPT ![s].drawer = @ + amount]

\* Mutant: the amount is not compared with the movements read again.
Trusted(c, s) == TRUE

Covered(c, s) == Amount[c] <= session[s].drawer

\* withdrawal, and expense when it is paid in cash.
Withdraw(c) ==
  /\ Op[c] = "withdrawal"
  /\ End(c)
  /\ \E s \in Sessions :
       LockOpen(c, s) /\ Covered(c, s) /\ Post(s, -Amount[c])

\* deposit, the cash leg of a sale, of a service order or of an instalment,
\* the money of a purchase that is undone, an adjustment upwards.
TakeIn(c) ==
  /\ Op[c] = "inflow"
  /\ End(c)
  /\ \E s \in Sessions : LockOpen(c, s) /\ Post(s, Amount[c])

\* The refund of a sale or of an order, a device bought, an adjustment
\* downwards: none of them looks at what the drawer holds.
PayOut(c) ==
  /\ Op[c] = "outflow"
  /\ End(c)
  /\ \E s \in Sessions : LockOpen(c, s) /\ Post(s, -Amount[c])

\* The cash given back by a sale whose trade-in is worth more than the goods:
\* finalize locks the session only when there are payments, and here there
\* are none.
GiveBack(c) ==
  /\ Op[c] = "downgrade"
  /\ End(c)
  /\ \E s \in target[c] : Post(s, -Amount[c])

\* The operator's close takes the lock and reads the movements after it.
Close(c) ==
  /\ Op[c] = "close"
  /\ End(c)
  /\ \E s \in Sessions :
       /\ LockOpen(c, s)
       /\ session' = [session EXCEPT
            ![s] = [@ EXCEPT !.state = "closed", !.closedBy = "operator",
                             !.counted = session[s].drawer]]

\* Mutant: the update of the sessions that were read is not conditional.
CloseRead(c, by) ==
  session' = [s \in Sessions |->
    IF s \in target[c]
    THEN [session[s] EXCEPT !.state = "closed", !.closedBy = by,
                            !.counted = seen[c][s]]
    ELSE session[s]]

\* Compare-and-set on closedAt; the balance is the one computed before.
CloseSeen(c, by) ==
  session' = [s \in Sessions |->
    IF s \in target[c] /\ IsOpen(s)
    THEN [session[s] EXCEPT !.state = "closed", !.closedBy = by,
                            !.counted = seen[c][s]]
    ELSE session[s]]

ForceClose(c) ==
  /\ Op[c] = "forceClose"
  /\ End(c)
  /\ \E s \in target[c] : IsOpen(s)
  /\ CloseSeen(c, "manager")

AutoClose(c) ==
  /\ Op[c] = "autoClose"
  /\ End(c)
  /\ CloseSeen(c, "job")

Review(c) ==
  /\ Op[c] = "review"
  /\ End(c)
  /\ \E s \in target[c] :
       /\ IsClosed(s)
       /\ ~session[s].verified
       /\ session' = [session EXCEPT
            ![s] = [@ EXCEPT !.verified = TRUE, !.counted = seen[c][s]]]

\* Refused at the commit, timed out, or the process died: nothing is written.
Fail(c) == End(c) /\ UNCHANGED session

\* A session stays open past the job's limit of 18 hours.
GrowOld(s) ==
  /\ IsOpen(s)
  /\ ~session[s].old
  /\ session' = [session EXCEPT ![s].old = TRUE]
  /\ UNCHANGED <<pc, target, seen>>

Look(c) ==
  LookToOpen(c) \/ LookOwn(c) \/ LookForce(c) \/ LookAuto(c) \/ LookReview(c)

Commit(c) ==
  \/ Open(c) \/ Withdraw(c) \/ TakeIn(c) \/ PayOut(c) \/ GiveBack(c)
  \/ Close(c) \/ ForceClose(c) \/ AutoClose(c) \/ Review(c)

Next ==
  \/ \E c \in Calls : Look(c) \/ Commit(c) \/ Fail(c)
  \/ \E s \in Sessions : GrowOld(s)

Spec == Init /\ [][Next]_vars

-----------------------------------------------------------------------------
Session == [state : {"unopened", "open", "closed"}, old : BOOLEAN,
            drawer : Int, closedBy : {"nobody", "operator", "manager", "job"},
            counted : Int, verified : BOOLEAN]
Stage == {"start", "looked", "over"}

\* Every session, call and snapshot has its type.
TypeOK ==
  /\ session \in [Sessions -> Session]
  /\ pc \in [Calls -> Stage]
  /\ target \in [Calls -> SUBSET Sessions]
  /\ seen \in [Calls -> [Sessions -> Int]]

\* An operator never has two sessions open, however many opens run at once.
OneOpenPerUser ==
  \A s, t \in Sessions :
    IsOpen(s) /\ IsOpen(t) /\ Owner[s] = Owner[t] => s = t

\* Whoever closed it, a session that is closed takes no movement any more and
\* is never opened again.
ClosedIsFrozen ==
  [][\A s \in Sessions : IsClosed(s) =>
       /\ session'[s].state = "closed"
       /\ session'[s].drawer = session[s].drawer]_vars

\* The first close stands: a close that lost the race changes neither who
\* closed the session nor its balance, which only the review replaces, once.
FirstCloseStands ==
  [][\A s \in Sessions : IsClosed(s) =>
       /\ session'[s].closedBy = session[s].closedBy
       /\ session'[s].counted # session[s].counted
            => ~session[s].verified /\ session'[s].verified
       /\ session[s].verified => session'[s].verified]_vars

\* The balance an operator's close records, and the one a review records, is
\* that of all the movements the session ever has.
OperatorCountIsTrue ==
  \A s \in Sessions :
    IsClosed(s) /\ (session[s].closedBy = "operator" \/ session[s].verified)
      => session[s].counted = session[s].drawer

\* The same of every close, whoever made it.
EveryCountIsTrue ==
  \A s \in Sessions : IsClosed(s) => session[s].counted = session[s].drawer

\* Only payments that do not look at the drawer overdraw it: no withdrawal or
\* cash expense takes out more than is there, even with others in flight.
WithdrawalsAreCovered ==
  [][\A s \in Sessions :
       session'[s].drawer < session[s].drawer /\ session'[s].drawer < 0 =>
         \E c \in Calls : /\ pc[c] = "looked" /\ pc'[c] = "over"
                          /\ Op[c] \in {"outflow", "downgrade"}]_vars
=============================================================================
