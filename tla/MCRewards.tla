------------------------------ MODULE MCRewards ------------------------------
(***************************************************************************)
(* Small instances of Rewards: two actions, the second without cashback    *)
(* where the limit is at stake, two calls and two runs of the cron.        *)
(***************************************************************************)
EXTENDS Rewards

CONSTANTS a1, a2, a3, o1, o2, t1, t2, x1, x2

=============================================================================
