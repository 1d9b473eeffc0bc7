---------------------------- MODULE RewardsProofs ----------------------------
(***************************************************************************)
(* What is proved of CronLease, for any job and any number of runs, and of *)
(* Rewards, for any actions, orders, calls and runs of the cron: that its  *)
(* cron is a job of the lease, and that credits, redemptions, expiries and *)
(* the campaign's limit come out right in the end.                         *)
(*                                                                         *)
(* None of it is inductive alone.  What a call or a run may still do       *)
(* depends on what it read a step ago, so the invariant says what of that  *)
(* cannot have changed: an action once there stays (CallsInv), one found   *)
(* overdue is expired by nobody else (JobsInv, by the lease), one that was *)
(* expired or credited never goes back to where it could be again.         *)
(***************************************************************************)
EXTENDS Rewards, FiniteSetTheorems, TLAPS

-----------------------------------------------------------------------------
(* The lease, whatever the job.                                            *)

\* Who works holds the lease: giving back a lease needs to own it, so nobody
\* takes it from under a run that works.
HolderWorks ==
  Fits => \A x \in Runs : run[x] = "working" => lease.state = "held" /\ lease.owner = x

LeaseInv == Lease!TypeOK /\ HolderWorks

\* Nobody works at first.
LEMMA LeaseInit == Lease!Init => LeaseInv
  BY DEF Lease!Init, LeaseInv, Lease!TypeOK, HolderWorks

\* The invariant of the lease is inductive.
LEMMA LeaseStep == LeaseInv /\ [Lease!Next]_(Lease!leaseVars) => LeaseInv'
<1> SUFFICES ASSUME LeaseInv, [Lease!Next]_(Lease!leaseVars) PROVE LeaseInv'
  OBVIOUS
<1> USE DEF LeaseInv, Lease!TypeOK, HolderWorks
<1>1. ASSUME NEW x \in Runs, Lease!Acquire(x) PROVE LeaseInv'
  BY <1>1 DEF Lease!Acquire
<1>2. ASSUME NEW x \in Runs, Lease!Finish(x) PROVE LeaseInv'
  BY <1>2 DEF Lease!Finish
<1>3. ASSUME NEW x \in Runs, Lease!Release(x) PROVE LeaseInv'
  <2>1. Lease!TypeOK'
    BY <1>3 DEF Lease!Release
  <2>2. ASSUME Fits, NEW y \in Runs, run'[y] = "working"
        PROVE  lease'.state = "held" /\ lease'.owner = y
    <3>1. y # x /\ run[y] = "working" /\ lease.owner = y
      BY <1>3, <2>2 DEF Lease!Release
    <3> QED BY <1>3, <2>2, <3>1 DEF Lease!Release
  <2> QED BY <2>1, <2>2
<1>4. ASSUME NEW x \in Runs, Lease!Die(x) PROVE LeaseInv'
  BY <1>4 DEF Lease!Die
<1>5. CASE Lease!Lapse
  BY <1>5 DEF Lease!Lapse
<1>6. CASE UNCHANGED Lease!leaseVars
  BY <1>6 DEF Lease!leaseVars
<1> QED BY <1>1, <1>2, <1>3, <1>4, <1>5, <1>6 DEF Lease!Next

\* Two runs that both hold the lease are one.
LEMMA HolderAlone == LeaseInv => Lease!OneRunAtATime
  BY DEF LeaseInv, HolderWorks, Lease!OneRunAtATime

\* A scheduled job that fits in its lease never runs twice at a time, for any
\* number of processes, deaths and late releases.
THEOREM Alone == Lease!Spec => []Lease!OneRunAtATime
  BY LeaseInit, LeaseStep, HolderAlone, PTL DEF Lease!Spec

-----------------------------------------------------------------------------
(* The rewards' cron is such a job.                                        *)

\* Each step is one of the lease or leaves it alone.
LEMMA UnderLeaseStep == [Next]_vars => [Lease!Next]_(Lease!leaseVars)
<1> SUFFICES ASSUME [Next]_vars PROVE [Lease!Next]_(Lease!leaseVars)
  OBVIOUS
<1> USE DEF Lease!leaseVars, Lease!Next
<1>1. ASSUME NEW t \in Calls, Goes(t) PROVE UNCHANGED Lease!leaseVars
  BY <1>1 DEF Goes, Create, Approve, Reject, Cancel, Debit, Use, Ends, cronVars
<1>2. ASSUME NEW t \in Calls, NEW a \in Actions, Begins(t, a) PROVE UNCHANGED Lease!leaseVars
  BY <1>2 DEF Begins, CreateReads, ApproveReads, RejectReads, CancelReads, UseReads, Reads, cronVars
<1>3. ASSUME NEW o \in Orders, Refund(o) PROVE UNCHANGED Lease!leaseVars
  BY <1>3 DEF Refund, cronVars
<1>4. CASE LockBalance \/ UnlockBalance \/ ExpireOverdue
  BY <1>4 DEF LockBalance, UnlockBalance, ExpireOverdue, cronVars
<1>5. ASSUME NEW x \in Runs, CronAcquires(x) \/ CronGoes(x) \/ CronDies(x)
      PROVE  [Lease!Next]_(Lease!leaseVars)
  BY <1>5 DEF CronAcquires, CronGoes, CronDies, CronFinds, CronMarks, CronCommits, CronReleases
<1>6. CASE LeaseLapses
  BY <1>6 DEF LeaseLapses
<1>7. ASSUME NEW a \in Actions, TimePasses(a) PROVE UNCHANGED Lease!leaseVars
  BY <1>7 DEF TimePasses, cronVars
<1>8. CASE UNCHANGED vars
  BY <1>8 DEF vars
<1> QED BY <1>1, <1>2, <1>3, <1>4, <1>5, <1>6, <1>7, <1>8 DEF Next

\* The cron that expires rewards is a job of the lease: it begins, ends, dies
\* and gives the lease back in no other way.
THEOREM UnderLease == Spec => Lease!Spec
<1>1. Init => Lease!Init
  BY DEF Init
<1> QED BY <1>1, UnderLeaseStep, PTL DEF Spec, Lease!Spec

-----------------------------------------------------------------------------
(* What is past stays past.                                                *)

Fresh == {"NONE", "PENDING"}
Spendable == Fresh \cup {"APPROVED"}

\* An action not yet approved was never credited; one that may still be redeemed
\* is in no order.
ActionInv ==
  \A a \in Actions :
    /\ given[a] <= 1
    /\ act[a] \in Fresh => given[a] = 0
    /\ act[a] \in Spendable => \A o \in Orders : a \notin spent[o]

\* A call that found an action knows for ever that there is one.
CallsInv ==
  \A t \in Calls :
    tx[t].at \in {"approve", "reject", "cancel", "debit", "use"} => act[tx[t].of] # "NONE"

\* What a run of the cron has found was never expired by another, and what one
\* has expired is not found again.
JobsInv ==
  \A x \in Runs : job[x].at # "find" =>
    run[x] = "working" /\ \A a \in job[x].acts : act[a] # "NONE" /\ (Fits => swept[a] = 0)
SweptInv ==
  Fits => \A a \in Actions :
    swept[a] <= 1 /\ (swept[a] = 1 => act[a] \notin Spendable \cup {"USED"})

IInv == /\ TypeOK /\ LeaseInv /\ ActionInv /\ CallsInv /\ JobsInv /\ SweptInv
        /\ OneOrderPerReward /\ WithinLimit

\* The invariant holds at first.
LEMMA InitInv == Init => IInv
<1> SUFFICES ASSUME Init PROVE IInv
  OBVIOUS
<1>1. TypeOK
  BY RewardsAssumption DEF Init, TypeOK, NoJob, Idle, Status, Lease!Init, Lease!TypeOK
<1>2. LeaseInv
  BY LeaseInit DEF Init
<1>3. WithinLimit
  <2>1. Generated = {}
    BY DEF Init, Generated
  <2> QED BY <2>1, FS_EmptySet, RewardsAssumption DEF WithinLimit
<1> QED
  BY <1>1, <1>2, <1>3 DEF Init, IInv, ActionInv, CallsInv, JobsInv, SweptInv,
     OneOrderPerReward, Idle, NoJob

-----------------------------------------------------------------------------
(* Types.                                                                  *)

\* Every step keeps the types; in particular no decrement takes the balance
\* below zero.
LEMMA TypeStep == TypeOK /\ LeaseInv' /\ [Next]_vars => TypeOK'
<1> SUFFICES ASSUME TypeOK, LeaseInv', [Next]_vars PROVE TypeOK'
  OBVIOUS
<1> USE DEF TypeOK
<1>0. Lease!TypeOK'
  BY DEF LeaseInv
<1>1. ASSUME NEW t \in Calls, Goes(t) PROVE TypeOK'
  <2> DEFINE a == tx[t].of
  <2>1. tx[t].at \in {"create", "approve", "reject", "cancel", "debit", "use"} => a \in Actions
    BY DEF Idle
  <2>2. tx[t].at = "use" => tx[t].saw \in Orders
    BY DEF Idle
  <2>3. CASE Create(t)
    BY <1>0, <2>1, <2>3 DEF Create, Ends, SetStatus, Conflict, cronVars, rewardVars, Status
  <2>4. CASE Approve(t)
    BY <1>0, <2>1, <2>4 DEF Approve, Ends, SetStatus, Conflict, Credit, cronVars, rewardVars, Status
  <2>5. CASE Reject(t)
    BY <1>0, <2>1, <2>5 DEF Reject, Ends, SetStatus, cronVars, Status
  <2>6. CASE Cancel(t)
    BY <1>0, <2>1, <2>6 DEF Cancel, SetStatus, cronVars, Status, Idle
  <2>7. CASE Debit(t)
    BY <1>0, <2>1, <2>7 DEF Debit, Ends, SetStatus, Conflict, cronVars, rewardVars, Status
  <2>8. CASE Use(t)
    BY <1>0, <2>1, <2>2, <2>8 DEF Use, Ends, SetStatus, Conflict, cronVars, rewardVars, Status
  <2> QED BY <1>1, <2>3, <2>4, <2>5, <2>6, <2>7, <2>8 DEF Goes
<1>2. ASSUME NEW t \in Calls, NEW a \in Actions, Begins(t, a) PROVE TypeOK'
  BY <1>0, <1>2 DEF Begins, CreateReads, ApproveReads, RejectReads, CancelReads, UseReads,
     Reads, rewardVars, cronVars
<1>3. ASSUME NEW o \in Orders, Refund(o) PROVE TypeOK'
  BY <1>0, <1>3 DEF Refund, cronVars, Status
<1>4. CASE LockBalance \/ UnlockBalance
  BY <1>0, <1>4, RewardsAssumption DEF LockBalance, UnlockBalance, cronVars
<1>5. CASE ExpireOverdue
  BY <1>0, <1>5 DEF ExpireOverdue, cronVars, Status
<1>6. ASSUME NEW x \in Runs, CronAcquires(x) \/ CronReleases(x) PROVE TypeOK'
  BY <1>0, <1>6 DEF CronAcquires, CronReleases, rewardVars
<1>7. ASSUME NEW x \in Runs, CronFinds(x) PROVE TypeOK'
  BY <1>0, <1>7 DEF CronFinds, Overdue, rewardVars
<1>8. ASSUME NEW x \in Runs, CronMarks(x) PROVE TypeOK'
  <2> DEFINE worth == Cardinality(job[x].acts \cap Cashback)
             least == IF worth < bal.available THEN worth ELSE bal.available
  <2>1. worth \in Nat
    BY RewardsAssumption, FS_Subset, FS_CardinalityType
  <2>2. least \in Nat
    BY <2>1
  <2>3. job' = [job EXCEPT ![x] = [job[x] EXCEPT !.at = "commit", !.amount = least]]
    BY <1>8 DEF CronMarks
  <2> HIDE DEF least
  <2>4. job' \in [Runs -> [at : {"find", "mark", "commit"}, acts : SUBSET Actions, amount : Nat]]
    BY <2>2, <2>3
  <2> QED BY <1>0, <1>8, <2>4 DEF CronMarks, rewardVars
<1>9. ASSUME NEW x \in Runs, CronCommits(x) PROVE TypeOK'
  BY <1>0, <1>9 DEF CronCommits, NoJob, Status
<1>10. ASSUME NEW x \in Runs, CronDies(x) PROVE TypeOK'
  BY <1>0, <1>10, RewardsAssumption DEF CronDies, NoJob, rewardVars
<1>11. CASE LeaseLapses
  BY <1>0, <1>11 DEF LeaseLapses, rewardVars
<1>12. ASSUME NEW a \in Actions, TimePasses(a) PROVE TypeOK'
  BY <1>0, <1>12 DEF TimePasses, rewardVars, cronVars
<1>13. CASE UNCHANGED vars
  BY <1>0, <1>13 DEF vars, rewardVars
<1> QED BY <1>1, <1>2, <1>3, <1>4, <1>5, <1>6, <1>7, <1>8, <1>9, <1>10, <1>11, <1>12, <1>13 DEF Next, CronGoes

-----------------------------------------------------------------------------
(* The steps, one by one.                                                  *)

Past == ActionInv /\ SweptInv /\ OneOrderPerReward
Held == CallsInv /\ JobsInv

\* A step that writes no action, credit, order or expiry leaves the past alone.
LEMMA PastStays == Past /\ UNCHANGED <<act, given, spent, swept>> => Past'
  BY DEF Past, ActionInv, SweptInv, OneOrderPerReward

\* A call changes the action it found, and one thing more at most.
LEMMA CallKeepsPast ==
  ASSUME IInv, NEW t \in Calls, Goes(t)
  PROVE  Past'
<1> DEFINE a == tx[t].of
<1> USE DEF TypeOK, Past, ActionInv, SweptInv, OneOrderPerReward, Fresh, Spendable
<1>1. /\ tx[t].at \in {"create", "approve", "reject", "cancel", "debit", "use"} => a \in Actions
      /\ tx[t].at = "use" => tx[t].saw \in Orders
  BY DEF IInv, Idle
<1>2. tx[t].at \in {"approve", "reject", "cancel", "debit", "use"} => act[a] # "NONE"
  BY DEF IInv, CallsInv
<1>3. CASE Create(t)
  BY <1>1, <1>3 DEF IInv, Create, Ends, SetStatus, Conflict, cronVars, rewardVars
<1>4. CASE Approve(t)
  BY <1>1, <1>4 DEF IInv, Approve, Ends, SetStatus, Conflict, Credit, cronVars, rewardVars
<1>5. CASE Reject(t)
  BY <1>1, <1>5 DEF IInv, Reject, Ends, SetStatus, cronVars
<1>6. CASE Cancel(t)
  BY <1>1, <1>6 DEF IInv, Cancel, SetStatus, cronVars
<1>7. CASE Debit(t)
  BY <1>1, <1>7 DEF IInv, Debit, Ends, SetStatus, Conflict, cronVars, rewardVars
<1>8. CASE Use(t)
  BY <1>1, <1>8 DEF IInv, Use, Ends, SetStatus, Conflict, cronVars, rewardVars
<1> QED BY <1>3, <1>4, <1>5, <1>6, <1>7, <1>8, Goes(t) DEF Goes

\* A refund gives back rewards that are in no other order.
LEMMA RefundKeepsPast ==
  ASSUME IInv, NEW o \in Orders, Refund(o)
  PROVE  Past'
  BY DEF IInv, Refund, TypeOK, Past, ActionInv, SweptInv, OneOrderPerReward, Fresh,
     Spendable, cronVars

\* A run of the cron expires what nobody has expired, since it works alone.
LEMMA CronKeepsPast ==
  ASSUME IInv, NEW x \in Runs, CronGoes(x)
  PROVE  Past'
<1>1. CASE CronCommits(x)
  <2>1. \A a \in job[x].acts : act[a] # "NONE" /\ (Fits => swept[a] = 0)
    BY <1>1 DEF IInv, JobsInv, CronCommits
  <2> QED BY <1>1, <2>1 DEF IInv, CronCommits, TypeOK, Past, ActionInv, SweptInv,
     OneOrderPerReward, Fresh, Spendable
<1>2. CASE CronFinds(x) \/ CronMarks(x) \/ CronReleases(x)
  BY <1>2, PastStays DEF CronFinds, CronMarks, CronReleases, rewardVars, IInv, Past
<1> QED BY <1>1, <1>2 DEF CronGoes

\* Every step keeps the past.
LEMMA PastStep == IInv /\ [Next]_vars => Past'
<1> SUFFICES ASSUME IInv, [Next]_vars PROVE Past'
  OBVIOUS
<1>0. Past
  BY DEF IInv, Past
<1>1. ASSUME NEW t \in Calls, NEW a \in Actions, Begins(t, a) PROVE Past'
  BY <1>0, <1>1, PastStays DEF Begins, CreateReads, ApproveReads, RejectReads, CancelReads,
     UseReads, Reads, rewardVars, cronVars
<1>2. CASE LockBalance \/ UnlockBalance
  BY <1>0, <1>2, PastStays DEF LockBalance, UnlockBalance, cronVars
<1>3. CASE ExpireOverdue
  BY <1>3 DEF IInv, ExpireOverdue, Overdue, cronVars, TypeOK, Past, ActionInv, SweptInv,
     OneOrderPerReward, Fresh, Spendable
<1>4. ASSUME NEW x \in Runs, CronAcquires(x) \/ CronDies(x) PROVE Past'
  BY <1>0, <1>4, PastStays DEF CronAcquires, CronDies, rewardVars
<1>5. CASE LeaseLapses
  BY <1>0, <1>5, PastStays DEF LeaseLapses, rewardVars
<1>6. ASSUME NEW a \in Actions, TimePasses(a) PROVE Past'
  BY <1>0, <1>6, PastStays DEF TimePasses, rewardVars, cronVars
<1>7. CASE UNCHANGED vars
  BY <1>0, <1>7, PastStays DEF vars, rewardVars
<1> QED
  BY <1>1, <1>2, <1>3, <1>4, <1>5, <1>6, <1>7, CallKeepsPast, RefundKeepsPast, CronKeepsPast
  DEF Next

-----------------------------------------------------------------------------
(* An action that exists goes on existing, so no step but a claim adds one. *)

\* No step takes an action back.
LEMMA ActionsStay == IInv /\ [Next]_vars => \A a \in Actions : act[a] # "NONE" => act'[a] # "NONE"
<1> SUFFICES ASSUME IInv, [Next]_vars, NEW b \in Actions, act[b] # "NONE"
             PROVE  act'[b] # "NONE"
  OBVIOUS
<1> USE DEF IInv, TypeOK
<1>1. ASSUME NEW t \in Calls, Goes(t) PROVE act'[b] # "NONE"
  BY <1>1 DEF Goes, Create, Approve, Reject, Cancel, Debit, Use, Ends, SetStatus, Conflict, rewardVars
<1>2. ASSUME NEW t \in Calls, NEW a \in Actions, Begins(t, a) PROVE act'[b] # "NONE"
  BY <1>2 DEF Begins, CreateReads, ApproveReads, RejectReads, CancelReads, UseReads, Reads,
     rewardVars
<1>3. ASSUME NEW o \in Orders, Refund(o) PROVE act'[b] # "NONE"
  BY <1>3 DEF Refund
<1>4. CASE LockBalance \/ UnlockBalance \/ ExpireOverdue
  BY <1>4 DEF LockBalance, UnlockBalance, ExpireOverdue
<1>5. ASSUME NEW x \in Runs, CronAcquires(x) \/ CronGoes(x) \/ CronDies(x)
      PROVE  act'[b] # "NONE"
  BY <1>5 DEF CronAcquires, CronGoes, CronDies, CronFinds, CronMarks, CronCommits, CronReleases,
     rewardVars
<1>6. CASE LeaseLapses
  BY <1>6 DEF LeaseLapses, rewardVars
<1>7. ASSUME NEW a \in Actions, TimePasses(a) PROVE act'[b] # "NONE"
  BY <1>7 DEF TimePasses, rewardVars
<1>8. CASE UNCHANGED vars
  BY <1>8 DEF vars, rewardVars
<1> QED BY <1>1, <1>2, <1>3, <1>4, <1>5, <1>6, <1>7, <1>8 DEF Next

\* What a call found is still there.
LEMMA CallsStep == IInv /\ [Next]_vars => CallsInv'
<1> SUFFICES ASSUME IInv, [Next]_vars PROVE CallsInv'
  OBVIOUS
<1> DEFINE Found(t) ==
      \/ tx'[t] = tx[t] \/ tx'[t].at \in {"idle", "create"}
      \/ tx'[t].of \in Actions /\ act[tx'[t].of] # "NONE"
<1> SUFFICES \A t \in Calls : Found(t)
  <2> HIDE DEF Found
  <2>1. \A t \in Calls : tx[t].at # "idle" => tx[t].of \in Actions
    BY DEF IInv, TypeOK, Idle
  <2> QED BY <2>1, ActionsStay DEF Found, IInv, CallsInv
<1> USE DEF TypeOK, Idle
<1>1. ASSUME NEW t \in Calls, Goes(t) PROVE \A u \in Calls : Found(u)
  <2>1. CASE Cancel(t)
    BY <2>1 DEF IInv, CallsInv, Cancel
  <2>2. CASE Create(t) \/ Approve(t) \/ Reject(t) \/ Debit(t) \/ Use(t)
    BY <2>2 DEF IInv, Create, Approve, Reject, Debit, Use, Ends
  <2> QED BY <1>1, <2>1, <2>2 DEF Goes
<1>2. ASSUME NEW t \in Calls, NEW a \in Actions, Begins(t, a) PROVE \A u \in Calls : Found(u)
  BY <1>2 DEF IInv, Begins, CreateReads, ApproveReads, RejectReads, CancelReads, UseReads, Reads
<1>3. CASE UNCHANGED tx
  BY <1>3
<1> QED
  BY <1>1, <1>2, <1>3 DEF Next, Refund, LockBalance, UnlockBalance, ExpireOverdue, CronAcquires,
     CronGoes, CronDies, CronFinds, CronMarks, CronCommits, CronReleases, LeaseLapses,
     TimePasses, vars

\* A run keeps what it found to itself until it commits.
LEMMA JobsStep == IInv /\ [Next]_vars => JobsInv'
<1> SUFFICES ASSUME IInv, [Next]_vars PROVE JobsInv'
  OBVIOUS
<1>0. \A a \in Actions : act[a] # "NONE" => act'[a] # "NONE"
  BY ActionsStay
<1>1. \A x \in Runs : job[x].acts \subseteq Actions
  BY DEF IInv, TypeOK
<1> USE DEF TypeOK, Lease!TypeOK
<1>2. ASSUME NEW y \in Runs, CronCommits(y) PROVE JobsInv'
  <2>1. ASSUME NEW x \in Runs, job'[x].at # "find"
        PROVE  run'[x] = "working" /\ \A a \in job'[x].acts : act'[a] # "NONE" /\ (Fits => swept'[a] = 0)
    <3>1. x # y /\ job'[x] = job[x] /\ job[x].at # "find"
      BY <1>2, <2>1 DEF IInv, CronCommits, NoJob
    <3>2. run[x] = "working" /\ run[y] = "working" /\ run'[x] = run[x]
      BY <1>2, <3>1 DEF IInv, JobsInv, CronCommits, Lease!Finish
    <3>3. ~Fits
      BY <3>1, <3>2 DEF IInv, LeaseInv, HolderWorks
    <3> QED BY <1>0, <1>1, <3>1, <3>2, <3>3 DEF IInv, JobsInv
  <2> QED BY <2>1 DEF JobsInv
<1>3. ASSUME NEW y \in Runs, CronFinds(y) PROVE JobsInv'
  <2>1. \A a \in Overdue : act[a] # "NONE" /\ (Fits => swept[a] = 0)
    <3> SUFFICES ASSUME NEW a \in Overdue PROVE act[a] # "NONE" /\ (Fits => swept[a] = 0)
      OBVIOUS
    <3>1. a \in Actions /\ act[a] = "APPROVED"
      BY DEF Overdue
    <3>2. Fits => swept[a] <= 1 /\ swept[a] # 1 /\ swept[a] \in Nat
      BY <3>1 DEF IInv, SweptInv, Spendable
    <3> QED BY <3>1, <3>2
  <2>2. UNCHANGED <<act, swept>>
    BY <1>3 DEF CronFinds, rewardVars
  <2>3. CASE Overdue = {}
    BY <1>3, <2>2, <2>3 DEF IInv, CronFinds, JobsInv, Lease!Finish
  <2>4. CASE Overdue # {}
    BY <1>3, <2>1, <2>2, <2>4 DEF IInv, CronFinds, JobsInv
  <2> QED BY <2>3, <2>4
<1>4. ASSUME NEW y \in Runs, CronMarks(y) PROVE JobsInv'
  BY <1>4 DEF IInv, CronMarks, JobsInv, rewardVars
<1>5. ASSUME NEW y \in Runs, CronReleases(y) \/ CronAcquires(y) \/ CronDies(y) PROVE JobsInv'
  BY <1>5 DEF IInv, CronReleases, CronAcquires, CronDies, NoJob, JobsInv, rewardVars,
     Lease!Release, Lease!Acquire, Lease!Die
<1>6. CASE UNCHANGED <<job, run, swept>>
  BY <1>0, <1>1, <1>6 DEF IInv, JobsInv
<1>7. (\E y \in Runs : CronAcquires(y) \/ CronGoes(y) \/ CronDies(y)) \/ UNCHANGED <<job, run, swept>>
  BY DEF Next, Goes, Create, Approve, Reject, Cancel, Debit, Use, Ends, Begins, CreateReads,
     ApproveReads, RejectReads, CancelReads, UseReads, Reads, Refund, LockBalance,
     UnlockBalance, ExpireOverdue, LeaseLapses, Lease!Lapse, TimePasses, vars, cronVars
<1> QED BY <1>2, <1>3, <1>4, <1>5, <1>6, <1>7 DEF CronGoes

\* Only the claim of a place makes an action.
LEMMA OneMore ==
  ASSUME IInv, [Next]_vars
  PROVE  \/ Generated' = Generated
         \/ Cardinality(Generated) < RewardLimit /\ \E a \in Actions : Generated' = Generated \cup {a}
<1>0. \A a \in Actions : act[a] # "NONE" => act'[a] # "NONE"
  BY ActionsStay
<1> USE DEF IInv, TypeOK
<1>1. ASSUME NEW t \in Calls, Create(t), act' # act
      PROVE  Cardinality(Generated) < RewardLimit /\ \E a \in Actions : Generated' = Generated \cup {a}
  <2> DEFINE a == tx[t].of
  <2>1. a \in Actions /\ act' = [act EXCEPT ![a] = "PENDING"] /\ Cardinality(Generated) < RewardLimit
    BY <1>1 DEF Create, Ends, Idle, SetStatus, Conflict, rewardVars
  <2>2. Generated' = Generated \cup {a}
    BY <2>1 DEF Generated
  <2> QED BY <2>1, <2>2
<1>2. ASSUME \A a \in Actions : act'[a] # "NONE" => act[a] # "NONE"
      PROVE  Generated' = Generated
  BY <1>0, <1>2 DEF Generated
<1>3. ASSUME NEW t \in Calls, Goes(t), ~Create(t)
      PROVE  \A b \in Actions : act'[b] # "NONE" => act[b] # "NONE"
  <2> DEFINE a == tx[t].of
  <2>1. tx[t].at \in {"approve", "reject", "cancel", "debit", "use"} => act[a] # "NONE"
    BY DEF CallsInv
  <2> QED BY <1>3, <2>1 DEF Goes, Approve, Reject, Cancel, Debit, Use, Ends, SetStatus, Conflict, rewardVars
<1>4. ASSUME NEW x \in Runs, CronCommits(x)
      PROVE  \A b \in Actions : act'[b] # "NONE" => act[b] # "NONE"
  BY <1>4 DEF CronCommits, JobsInv
<1>5. ASSUME NEW o \in Orders, Refund(o)
      PROVE  \A b \in Actions : act'[b] # "NONE" => act[b] # "NONE"
  BY <1>5 DEF Refund
<1>6. CASE ExpireOverdue
  BY <1>2, <1>6 DEF ExpireOverdue, Overdue
<1>7. \/ \E t \in Calls : Goes(t)
      \/ \E x \in Runs : CronCommits(x)
      \/ \E o \in Orders : Refund(o)
      \/ ExpireOverdue \/ UNCHANGED act
  BY DEF Next, Begins, CreateReads, ApproveReads, RejectReads, CancelReads, UseReads, Reads,
     LockBalance, UnlockBalance, CronAcquires, CronGoes, CronDies, CronFinds, CronMarks,
     CronReleases, LeaseLapses, TimePasses, vars, rewardVars
<1> QED BY <1>1, <1>2, <1>3, <1>4, <1>5, <1>6, <1>7 DEF Generated

\* A claim is made below the limit and adds one.
LEMMA LimitStep == IInv /\ [Next]_vars => WithinLimit'
<1> SUFFICES ASSUME IInv, [Next]_vars PROVE WithinLimit'
  OBVIOUS
<1>1. IsFiniteSet(Generated) /\ Cardinality(Generated) \in Nat
  BY RewardsAssumption, FS_Subset, FS_CardinalityType DEF Generated
<1>2. Cardinality(Generated) <= RewardLimit
  BY DEF IInv, WithinLimit
<1>3. CASE Generated' = Generated
  BY <1>2, <1>3 DEF WithinLimit
<1>4. ASSUME Cardinality(Generated) < RewardLimit, NEW a \in Actions, Generated' = Generated \cup {a}
      PROVE  WithinLimit'
  <2>1. Cardinality(Generated \cup {a}) \in {Cardinality(Generated), Cardinality(Generated) + 1}
    <3>1. Cardinality(Generated \cup {a}) =
            IF a \in Generated THEN Cardinality(Generated) ELSE Cardinality(Generated) + 1
      BY <1>1, FS_AddElement, Zenon
    <3> QED BY <3>1
  <2>2. Cardinality(Generated \cup {a}) \in Nat
    BY <1>1, FS_AddElement, FS_CardinalityType
  <2> QED BY <1>1, <1>4, <2>1, <2>2, RewardsAssumption DEF WithinLimit
<1> QED BY <1>3, <1>4, OneMore

-----------------------------------------------------------------------------
(* The theorems.                                                           *)

\* The inductive invariant holds always.
LEMMA Inductive == Spec => []IInv
<1>1. IInv /\ [Next]_vars => IInv'
  <2> SUFFICES ASSUME IInv, [Next]_vars PROVE IInv'
    OBVIOUS
  <2>1. LeaseInv'
    BY UnderLeaseStep, LeaseStep DEF IInv
  <2>2. TypeOK'
    BY <2>1, TypeStep DEF IInv
  <2> QED BY <2>1, <2>2, PastStep, CallsStep, JobsStep, LimitStep DEF IInv, Past
<1> QED BY <1>1, InitInv, PTL DEF Spec

\* For any rewards, orders, calls and runs of the cron: the state keeps its types
\* and the balance never goes below zero.
THEOREM TypeCorrect == Spec => []TypeOK
<1>1. IInv => TypeOK
  BY DEF IInv
<1> QED BY <1>1, Inductive, PTL

\* A cashback is credited once at most, whatever overlaps its approval.
THEOREM Credited == Spec => []CreditedOnce
<1>1. IInv => CreditedOnce
  BY DEF IInv, ActionInv, CreditedOnce
<1> QED BY <1>1, Inductive, PTL

\* However many claims read the counter below the limit, it is not passed.
THEOREM Limited == Spec => []WithinLimit
<1>1. IInv => WithinLimit
  BY DEF IInv
<1> QED BY <1>1, Inductive, PTL

\* A reward is never in two orders that stand, although a refund gives it back.
THEOREM OneOrder == Spec => []OneOrderPerReward
<1>1. IInv => OneOrderPerReward
  BY DEF IInv
<1> QED BY <1>1, Inductive, PTL

\* As long as the job fits in its lease, no cashback is expired twice.
THEOREM Swept ==
  ASSUME Fits
  PROVE  Spec => []SweptOnce
<1>1. IInv => SweptOnce
  BY DEF IInv, SweptInv, SweptOnce
<1> QED BY <1>1, Inductive, PTL

=============================================================================
