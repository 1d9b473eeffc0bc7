------------------------------ MODULE CronLease ------------------------------
(***************************************************************************)
(* withCronLock (cron-lock.ts): a job of the scheduler runs under a lease, *)
(* a row that says who took it and until when.  A run takes it in one      *)
(* statement if nobody holds it or its time is over, works, and gives it   *)
(* back if it is still its own.  A run that dies gives nothing back; the   *)
(* lease then lapses.  Time is abstracted: a lease that is held may lapse  *)
(* at any moment, but if the job fits in it (Fits) not before its holder   *)
(* has finished or died.                                                   *)
(***************************************************************************)
CONSTANTS
  Runs,  \* calls of the cron route, each with a token of its own
  Fits,  \* the job never takes longer than its lease
  none   \* nobody

VARIABLES
  lease,  \* the row: who took it, and whether it is free, held or lapsed
  run     \* idle, working, or done and about to give the lease back

leaseVars == <<lease, run>>

Init ==
  /\ lease = [owner |-> none, state |-> "free"]
  /\ run = [x \in Runs |-> "idle"]

\* Mutant: the upsert takes only a row that was given back.
AcquiresFree(x) ==
  /\ run[x] = "idle"
  /\ lease.state = "free"
  /\ lease' = [owner |-> x, state |-> "held"]
  /\ run' = [run EXCEPT ![x] = "working"]

\* Whoever finds it held answers "locked" and does nothing.
Acquire(x) ==
  /\ run[x] = "idle"
  /\ lease.state # "held"
  /\ lease' = [owner |-> x, state |-> "held"]
  /\ run' = [run EXCEPT ![x] = "working"]

\* fn returned or threw.
Finish(x) ==
  /\ run[x] = "working"
  /\ run' = [run EXCEPT ![x] = "done"]
  /\ UNCHANGED lease

\* Mutant: it frees the lease whoever has it now.
ReleaseAny(x) ==
  /\ run[x] = "done"
  /\ run' = [run EXCEPT ![x] = "idle"]
  /\ lease' = [lease EXCEPT !.state = "free"]

Release(x) ==
  /\ run[x] = "done"
  /\ run' = [run EXCEPT ![x] = "idle"]
  /\ lease' = IF lease.owner = x THEN [lease EXCEPT !.state = "free"] ELSE lease

\* The process dies, or giving back fails: the lease takes care of the rest.
Die(x) ==
  /\ run[x] # "idle"
  /\ run' = [run EXCEPT ![x] = "idle"]
  /\ UNCHANGED lease

Lapse ==
  /\ lease.state = "held"
  /\ Fits => run[lease.owner] # "working"
  /\ lease' = [lease EXCEPT !.state = "lapsed"]
  /\ UNCHANGED run

Next ==
  \/ \E x \in Runs : Acquire(x) \/ Finish(x) \/ Release(x) \/ Die(x)
  \/ Lapse

Spec == Init /\ [][Next]_leaseVars

-----------------------------------------------------------------------------
(* Properties.                                                             *)

\* The shape of the state.
TypeOK ==
  /\ lease \in [owner : Runs \cup {none}, state : {"free", "held", "lapsed"}]
  /\ run \in [Runs -> {"idle", "working", "done"}]

\* A job that fits in its lease never runs twice at a time, although a run that
\* was slow to give its lease back may do so while the next one works.
OneRunAtATime ==
  Fits => \A x, y \in Runs : run[x] = "working" /\ run[y] = "working" => x = y

=============================================================================
