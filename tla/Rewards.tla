------------------------------- MODULE Rewards -------------------------------
(***************************************************************************)
(* The rewards of one customer (reward.ts), their redemption in the PDV    *)
(* and in service orders, and the daily cron that expires them under the   *)
(* lease of CronLease.  Every mutation is a READ COMMITTED transaction: a  *)
(* first step reads the action and checks it, a later one writes.  A step  *)
(* that writes an action and commits later holds its row until then        *)
(* (Locked).  One cashback is worth one unit.                              *)
(***************************************************************************)
EXTENDS Naturals, FiniteSets

CONSTANTS
  Actions,      \* RewardAction rows that may be created
  Cashback,     \* those whose approval credits the balance
  RewardLimit,  \* of the campaign they all belong to
  Orders,       \* sales and service orders a reward may be spent on
  Calls,        \* procedure calls in flight at one time
  Runs, Fits,   \* of the cron, as in CronLease
  MaxDeaths,    \* bound: cron runs that die
  MaxLocks,     \* bound: cashback units reserved over time
  none

ASSUME RewardsAssumption ==
  /\ IsFiniteSet(Actions)
  /\ Cashback \subseteq Actions
  /\ RewardLimit \in Nat
  /\ MaxDeaths \in Nat /\ MaxLocks \in Nat

VARIABLES
  act,      \* status of each action
  old,      \* its expiresAt has passed
  bal,      \* RewardBalance; totalBalance is the sum of the two
  spent,    \* rewards redeemed in each order that stands
  tx,       \* calls under way: what they read
  job,      \* the cron's transaction: what it read
  lease, run,               \* as in CronLease
  given, swept,             \* history: credits and cron expirations per action
  deaths, locks             \* what is used up of the bounds

rewardVars == <<act, bal, spent, given>>
cronVars == <<job, lease, run, swept, deaths>>
vars == <<act, old, bal, spent, tx, job, lease, run, given, swept, deaths, locks>>

Lease == INSTANCE CronLease

Idle == [at |-> "idle", of |-> none, saw |-> none]
NoJob == [at |-> "find", acts |-> {}, amount |-> 0]

Init ==
  /\ act = [a \in Actions |-> "NONE"]
  /\ old = [a \in Actions |-> FALSE]
  /\ bal = [available |-> 0, locked |-> 0]
  /\ spent = [o \in Orders |-> {}]
  /\ tx = [t \in Calls |-> Idle]
  /\ job = [x \in Runs |-> NoJob]
  /\ given = [a \in Actions |-> 0]
  /\ swept = [a \in Actions |-> 0]
  /\ deaths = 0 /\ locks = 0
  /\ Lease!Init

SetStatus(a, status) == act' = [act EXCEPT ![a] = status]
Generated == {a \in Actions : act[a] # "NONE"}

\* Rows written by a transaction that has not committed yet.
Locked(a) ==
  \/ \E t \in Calls : tx[t].at = "debit" /\ tx[t].of = a
  \/ \E x \in Runs : job[x].at = "commit" /\ a \in job[x].acts

Reads(t, at, a, saw) ==
  /\ tx[t] = Idle
  /\ tx' = [tx EXCEPT ![t] = [at |-> at, of |-> a, saw |-> saw]]
  /\ UNCHANGED <<rewardVars, cronVars, old, locks>>

\* The write of a call that read for this procedure; a refused one rolls back.
Ends(t, at) ==
  /\ tx[t].at = at
  /\ tx' = [tx EXCEPT ![t] = Idle]
  /\ UNCHANGED <<cronVars, old>>

Conflict == UNCHANGED <<rewardVars, locks>>

-----------------------------------------------------------------------------
(* createAction, approveAction, rejectAction.                              *)

CreateReads(t, a) ==
  /\ act[a] = "NONE"
  /\ Cardinality(Generated) < RewardLimit
  /\ Reads(t, "create", a, none)

\* Mutant: the counters are incremented without repeating the limit.
CreateUnlimited(t) ==
  LET a == tx[t].of IN
  /\ Ends(t, "create")
  /\ SetStatus(a, "PENDING")
  /\ UNCHANGED <<bal, spent, given, locks>>

\* Claims a place in the campaign and inserts the row.
Create(t) ==
  LET a == tx[t].of IN
  /\ Ends(t, "create")
  /\ \/ act[a] = "NONE" /\ Cardinality(Generated) < RewardLimit
        /\ SetStatus(a, "PENDING")
        /\ UNCHANGED <<bal, spent, given, locks>>
     \/ (act[a] # "NONE" \/ Cardinality(Generated) >= RewardLimit) /\ Conflict

ApproveReads(t, a) == act[a] = "PENDING" /\ Reads(t, "approve", a, none)

Credit(a) ==
  /\ bal' = IF a \in Cashback THEN [bal EXCEPT !.available = @ + 1] ELSE bal
  /\ given' = IF a \in Cashback THEN [given EXCEPT ![a] = @ + 1] ELSE given

\* Mutant: the approval writes by id what it read as pending.
ApproveById(t) ==
  LET a == tx[t].of IN
  /\ Ends(t, "approve") /\ ~Locked(a)
  /\ SetStatus(a, "APPROVED") /\ Credit(a)
  /\ UNCHANGED <<spent, locks>>

Approve(t) ==
  LET a == tx[t].of IN
  /\ Ends(t, "approve") /\ ~Locked(a)
  /\ \/ act[a] = "PENDING" /\ SetStatus(a, "APPROVED") /\ Credit(a) /\ UNCHANGED <<spent, locks>>
     \/ act[a] # "PENDING" /\ Conflict

RejectReads(t, a) == act[a] = "PENDING" /\ Reads(t, "reject", a, none)

\* It writes by id, whatever became of the action.
Reject(t) ==
  LET a == tx[t].of IN
  /\ Ends(t, "reject") /\ ~Locked(a)
  /\ SetStatus(a, "REJECTED")
  /\ UNCHANGED <<bal, spent, given, locks>>

-----------------------------------------------------------------------------
(* cancelAction: claim the action, then debit what the balance still has.  *)

CancelReads(t, a) ==
  act[a] \in {"PENDING", "APPROVED"} /\ Reads(t, "cancel", a, act[a])

\* Without cashback to revert it commits at once; else it goes on to the debit
\* holding the row, with the amount that it found available.
Cancel(t) ==
  LET a == tx[t].of
      debits == tx[t].saw = "APPROVED" /\ a \in Cashback /\ bal.available > 0
  IN
  /\ tx[t].at = "cancel" /\ ~Locked(a)
  /\ IF act[a] \in {"PENDING", "APPROVED"}
       THEN IF debits
         THEN /\ tx' = [tx EXCEPT ![t].at = "debit"]
              /\ UNCHANGED act
         ELSE /\ tx' = [tx EXCEPT ![t] = Idle]
              /\ SetStatus(a, "CANCELLED")
       ELSE /\ tx' = [tx EXCEPT ![t] = Idle]
            /\ UNCHANGED act
  /\ UNCHANGED <<bal, spent, given, cronVars, old, locks>>

\* Commits with the debit, or rolls the claim back if the balance is gone.
Debit(t) ==
  /\ Ends(t, "debit")
  /\ \/ bal.available > 0
        /\ bal' = [bal EXCEPT !.available = @ - 1]
        /\ SetStatus(tx[t].of, "CANCELLED")
        /\ UNCHANGED <<spent, given, locks>>
     \/ bal.available = 0 /\ Conflict

-----------------------------------------------------------------------------
(* Redemption: useAction, the PDV and the service order do the same.  The  *)
(* total refund of an order gives its rewards back, those that are still   *)
(* used; the next order may then take its place.                           *)

UseReads(t, a, o) ==
  act[a] = "APPROVED" /\ ~old[a] /\ Reads(t, "use", a, o)

\* Mutant: the redemption writes by id.
UseById(t) ==
  /\ Ends(t, "use") /\ ~Locked(tx[t].of)
  /\ SetStatus(tx[t].of, "USED")
  /\ spent' = [spent EXCEPT ![tx[t].saw] = @ \cup {tx[t].of}]
  /\ UNCHANGED <<bal, given, locks>>

Use(t) ==
  LET a == tx[t].of
      o == tx[t].saw
  IN
  /\ Ends(t, "use") /\ ~Locked(a)
  /\ \/ act[a] = "APPROVED"
        /\ SetStatus(a, "USED")
        /\ spent' = [spent EXCEPT ![o] = @ \cup {a}]
        /\ UNCHANGED <<bal, given, locks>>
     \/ act[a] # "APPROVED" /\ Conflict

Refund(o) ==
  /\ spent[o] # {} /\ \A a \in spent[o] : ~Locked(a)
  /\ spent' = [spent EXCEPT ![o] = {}]
  /\ act' = [a \in Actions |->
              IF a \in spent[o] /\ act[a] = "USED" THEN "APPROVED" ELSE act[a]]
  /\ UNCHANGED <<bal, given, old, tx, cronVars, locks>>

-----------------------------------------------------------------------------
(* lockBalance and unlockBalance: the read of the balance is repeated in   *)
(* the write, so each is one step.                                         *)

LockBalance ==
  /\ bal.available > 0 /\ locks < MaxLocks
  /\ bal' = [available |-> bal.available - 1, locked |-> bal.locked + 1]
  /\ locks' = locks + 1
  /\ UNCHANGED <<act, spent, given, old, tx, cronVars>>

UnlockBalance ==
  /\ bal.locked > 0
  /\ bal' = [available |-> bal.available + 1, locked |-> bal.locked - 1]
  /\ UNCHANGED <<act, spent, given, old, tx, cronVars, locks>>

-----------------------------------------------------------------------------
(* Expiry: by hand (expireOverdue, which leaves the balance alone), and by *)
(* the cron, in one transaction under the lease.                           *)

Overdue == {a \in Actions : act[a] = "APPROVED" /\ old[a]}

ExpireOverdue ==
  /\ Overdue # {} /\ \A a \in Overdue : ~Locked(a)
  /\ act' = [a \in Actions |-> IF a \in Overdue THEN "EXPIRED" ELSE act[a]]
  /\ UNCHANGED <<bal, spent, given, old, tx, cronVars, locks>>

CronAcquires(x) ==
  /\ Lease!Acquire(x)
  /\ UNCHANGED <<rewardVars, old, tx, job, swept, deaths, locks>>

CronFinds(x) ==
  /\ run[x] = "working" /\ job[x].at = "find"
  /\ IF Overdue = {}
       THEN Lease!Finish(x) /\ UNCHANGED job
       ELSE /\ job' = [job EXCEPT ![x] = [at |-> "mark", acts |-> Overdue, amount |-> 0]]
            /\ UNCHANGED <<lease, run>>
  /\ UNCHANGED <<rewardVars, old, tx, swept, deaths, locks>>

\* The update by id takes the rows; then the balance is read.
CronMarks(x) ==
  LET worth == Cardinality(job[x].acts \cap Cashback) IN
  /\ run[x] = "working" /\ job[x].at = "mark"
  /\ \A a \in job[x].acts : ~Locked(a)
  /\ job' = [job EXCEPT ![x].at = "commit",
                        ![x].amount = IF worth < bal.available THEN worth ELSE bal.available]
  /\ UNCHANGED <<rewardVars, old, tx, lease, run, swept, deaths, locks>>

\* The check constraint on the balance aborts a decrement it cannot bear.
CronCommits(x) ==
  /\ run[x] = "working" /\ job[x].at = "commit"
  /\ \/ /\ bal.available >= job[x].amount
        /\ bal' = [bal EXCEPT !.available = @ - job[x].amount]
        /\ act' = [a \in Actions |-> IF a \in job[x].acts THEN "EXPIRED" ELSE act[a]]
        /\ swept' = [a \in Actions |-> IF a \in job[x].acts THEN swept[a] + 1 ELSE swept[a]]
     \/ /\ bal.available < job[x].amount
        /\ UNCHANGED <<bal, act, swept>>
  /\ job' = [job EXCEPT ![x] = NoJob]
  /\ Lease!Finish(x)
  /\ UNCHANGED <<spent, given, old, tx, deaths, locks>>

CronReleases(x) ==
  /\ Lease!Release(x)
  /\ UNCHANGED <<rewardVars, old, tx, job, swept, deaths, locks>>

\* The process dies: its transaction rolls back, its lease stays.
CronDies(x) ==
  /\ deaths < MaxDeaths
  /\ Lease!Die(x)
  /\ job' = [job EXCEPT ![x] = NoJob]
  /\ deaths' = deaths + 1
  /\ UNCHANGED <<rewardVars, old, tx, swept, locks>>

LeaseLapses ==
  /\ Lease!Lapse
  /\ UNCHANGED <<rewardVars, old, tx, job, swept, deaths, locks>>

TimePasses(a) ==
  /\ act[a] # "NONE" /\ ~old[a]
  /\ old' = [old EXCEPT ![a] = TRUE]
  /\ UNCHANGED <<rewardVars, tx, cronVars, locks>>

-----------------------------------------------------------------------------

Begins(t, a) ==
  \/ CreateReads(t, a) \/ ApproveReads(t, a) \/ RejectReads(t, a) \/ CancelReads(t, a)
  \/ \E o \in Orders : UseReads(t, a, o)

Goes(t) == Create(t) \/ Approve(t) \/ Reject(t) \/ Cancel(t) \/ Debit(t) \/ Use(t)

CronGoes(x) == CronFinds(x) \/ CronMarks(x) \/ CronCommits(x) \/ CronReleases(x)

Next ==
  \/ \E t \in Calls : Goes(t) \/ \E a \in Actions : Begins(t, a)
  \/ \E o \in Orders : Refund(o)
  \/ LockBalance \/ UnlockBalance \/ ExpireOverdue
  \/ \E x \in Runs : CronAcquires(x) \/ CronGoes(x) \/ CronDies(x)
  \/ LeaseLapses
  \/ \E a \in Actions : TimePasses(a)

Spec == Init /\ [][Next]_vars

(* Fairness: calls and runs go on until they end or die, the scheduler     *)
(* comes back, and a lease does not outlive its time.                      *)
Fairness ==
  /\ \A t \in Calls : WF_vars(Goes(t))
  /\ \A x \in Runs : WF_vars(CronGoes(x))
  /\ WF_vars(\E x \in Runs : CronAcquires(x))
  /\ WF_vars(LeaseLapses)

FairSpec == Spec /\ Fairness

-----------------------------------------------------------------------------
(* Properties.                                                             *)

Status == {"NONE", "PENDING", "APPROVED", "REJECTED", "CANCELLED", "USED", "EXPIRED"}

\* The shape of the state.
TypeOK ==
  /\ act \in [Actions -> Status]
  /\ old \in [Actions -> BOOLEAN]
  /\ bal \in [available : Nat, locked : Nat]
  /\ spent \in [Orders -> SUBSET Actions]
  /\ tx \in [Calls -> {Idle}
       \cup [at : {"create", "approve", "reject"}, of : Actions, saw : {none}]
       \cup [at : {"cancel", "debit"}, of : Actions, saw : {"PENDING", "APPROVED"}]
       \cup [at : {"use"}, of : Actions, saw : Orders]]
  /\ job \in [Runs -> [at : {"find", "mark", "commit"}, acts : SUBSET Actions, amount : Nat]]
  /\ given \in [Actions -> Nat]
  /\ swept \in [Actions -> Nat]
  /\ deaths \in 0 .. MaxDeaths
  /\ locks \in 0 .. MaxLocks
  /\ Lease!TypeOK

\* An approval credits its cashback once, however many screens approve it and
\* whatever rejects, cancels, redeems, refunds or expires it meanwhile.
CreditedOnce == \A a \in Actions : given[a] <= 1

\* A campaign never gives more rewards than its limit, with any number of claims
\* that read the counters below it.
WithinLimit == Cardinality(Generated) <= RewardLimit

\* No two orders that stand are discounted with the same reward, although a
\* refund makes a reward available again and the cron may overwrite its status.
OneOrderPerReward ==
  \A o, p \in Orders : o # p => spent[o] \cap spent[p] = {}

\* The cron takes an expired cashback off the balance once: with runs that die,
\* leases that lapse and releases that come late, no two runs find it together.
SweptOnce == \A a \in Actions : swept[a] <= 1

\* An approved reward whose time is over does not stay available.
OverdueLeaves == \A a \in Actions : (act[a] = "APPROVED" /\ old[a]) ~> act[a] # "APPROVED"

\* What the code says of rejecting (it is for pending actions) and does not
\* ensure: a rejected action has no credit.
RejectedHasNoCredit == \A a \in Actions : act[a] = "REJECTED" => given[a] = 0

=============================================================================
