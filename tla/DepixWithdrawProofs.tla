------------------------- MODULE DepixWithdrawProofs -------------------------
(***************************************************************************)
(* What DepixWithdraw guarantees for any number of requests, pollers and   *)
(* any amounts.  The argument: TypeOK is inductive; the advisory lock is   *)
(* held by exactly the call in its critical section; and what every writer *)
(* of a row (the call, the webhook, a poll) is about to write agrees with  *)
(* the state of the payout at the provider, because the states the writers *)
(* treat as final are absorbing there (Inv below).  From Inv follows, step *)
(* by step, that DepixWithdraw implements Payout.                          *)
(*                                                                         *)
(* The last part is about two sums over all requests, what is reserved by  *)
(* open withdrawals and what counts against the cap: only inserts raise    *)
(* them, and the call that inserts has checked, under the lock, a bound of *)
(* what they will be.                                                      *)
(***************************************************************************)
EXTENDS DepixWithdraw, FiniteSetTheorems, WellFoundedInduction, TLAPS

(* Small facts about the operators the actions are built from.             *)

\* mapStatus gives every provider status a status of the row.
LEMMA MappedType == \A s : Mapped(s) \in Status \ {"NONE"}
  BY DEF Mapped, Status, Open, Terminal, Closed

\* The provider moves within its own statuses.
LEMMA NextStatus == \A s : ProviderNext(s) \subseteq ProviderStatus
  BY DEF ProviderNext, ProviderStatus, Final

\* updating a row's status keeps the rows well typed.
LEMMA WriteType ==
  ASSUME row \in [Requests -> RowType], NEW r, NEW status \in Status, Write(r, status)
  PROVE  row' \in [Requests -> RowType]
  BY DEF Write, RowType

\* Updating a row to FAILED with a reason keeps the rows well typed.
LEMMA WriteFailedType ==
  ASSUME row \in [Requests -> RowType], NEW r, NEW failure \in Failure,
         WriteFailed(r, failure)
  PROVE  row' \in [Requests -> RowType]
  BY DEF WriteFailed, RowType, Status, Terminal, Closed

\* The history only grows, by the request written.
LEMMA NotesType ==
  ASSUME reopened \subseteq Requests, NEW r, NEW status, Notes(r, status)
  PROVE  reopened \subseteq reopened' /\ reopened' \subseteq Requests
  BY DEF Notes

\* A status update changes the status of its own row only.
LEMMA WriteEffect ==
  ASSUME row \in [Requests -> RowType], NEW r \in Requests, NEW status, Write(r, status)
  PROVE  /\ row'[r].status = status
         /\ row'[r].failure = row[r].failure /\ row'[r].provider = row[r].provider
         /\ \A q \in Requests \ {r} : row'[q] = row[q]
  BY DEF Write, RowType

\* A failed row carries its reason, and the other rows are as before.
LEMMA WriteFailedEffect ==
  ASSUME row \in [Requests -> RowType], NEW r \in Requests, NEW failure,
         WriteFailed(r, failure)
  PROVE  /\ row'[r].status = "FAILED"
         /\ row'[r].failure = failure /\ row'[r].provider = row[r].provider
         /\ \A q \in Requests \ {r} : row'[q] = row[q]
  BY DEF WriteFailed, RowType

\* A webhook on the wire is well typed.
LEMMA AnnounceType ==
  ASSUME hook \in [Requests -> HookType], NEW r, NEW s, Announce(r, s)
  PROVE  hook' \in [Requests -> HookType]
  BY DEF Announce, HookType

\* A call moves between its own stages.
LEMMA GotoType ==
  ASSUME pc \in [Requests -> CallStage], NEW r, NEW at \in CallStage, Goto(r, at)
  PROVE  pc' \in [Requests -> CallStage]
  BY DEF Goto

\* The counter of webhook deliveries stays within its bound.
LEMMA RegisterUseType ==
  ASSUME uses \in [Requests -> 0..MaxUses], NEW r, NEW status, RegisterUse(r, status)
  PROVE  uses' \in [Requests -> 0..MaxUses]
<1>1. CASE uses' = uses
  BY <1>1
<1>2. CASE uses[r] < MaxUses /\ uses' = [uses EXCEPT ![r] = @ + 1]
  <2>1. CASE r \in Requests
    BY <1>2, <2>1, BoundsAssumption
  <2>2. CASE r \notin Requests
    BY <1>2, <2>2
  <2> QED BY <2>1, <2>2
<1> QED BY <1>1, <1>2 DEF RegisterUse

-----------------------------------------------------------------------------
(* Type correctness.                                                       *)

\* The initial state is well typed.
LEMMA TypeInit == Init => TypeOK
<1> SUFFICES ASSUME Init PROVE TypeOK
  OBVIOUS
<1>1. NoRow \in RowType
  BY DEF NoRow, RowType, Status, Failure
<1>2. [s \in ProviderStatus |-> "none"] \in HookType
  BY DEF HookType
<1>3. IdlePoll \in PollType
  BY DEF IdlePoll, PollType, Status
<1> QED
  BY <1>1, <1>2, <1>3, AmountsAssumption, BoundsAssumption
  DEF Init, TypeOK, CallStage, TransferStage

\* Every step of a call keeps the types.
LEMMA TypeCall ==
  ASSUME TypeOK, NEW r \in Requests, Call(r)
  PROVE  TypeOK'
<1> USE DEF callVars, walletVars
<1>1. pc' \in [Requests -> CallStage]
  BY DEF Call, ReplayKey, NewKey, RefuseDuplicate, PassDuplicate, Refuse, ReadBalance,
         AcquireLock, ReadReserve, CapRefuses, CapAdmits, KeyClash, Insert, EulenAccepts,
         EulenRejects, EulenUnknown, QuoteTooBig, StoreQuote, WindowExpired,
         FeeWalletUnavailable, StartSweep, SweepOk, SweepRefused, SweepLost, Abort, Goto,
         CallStage, TypeOK
<1>2. row' \in [Requests -> RowType]
  <2>1. CASE EulenRejects(r) \/ QuoteTooBig(r) \/ WindowExpired(r)
    BY <2>1, WriteFailedType DEF EulenRejects, QuoteTooBig, WindowExpired, Failure, TypeOK
  <2>2. CASE EulenUnknown(r) \/ SweepRefused(r)
    BY <2>2, WriteFailedType DEF EulenUnknown, SweepRefused, Failure, TypeOK
  <2>3. CASE FeeWalletUnavailable(r)
    BY <2>3, WriteType DEF FeeWalletUnavailable, Status, Terminal, Closed, TypeOK
  <2>4. CASE SweepLost(r)
    BY <2>4, WriteType, WriteFailedType DEF SweepLost, Status, Open, Failure, TypeOK
  <2>5. CASE Insert(r)
    BY <2>5, AmountsAssumption DEF Insert, NoRow, RowType, Status, Open, Failure, TypeOK
  <2>6. CASE StoreQuote(r)
    BY <2>6 DEF StoreQuote, RowType, TypeOK
  <2>7. CASE SweepOk(r)
    <3> DEFINE status == IF Kind[r] = "PIX" THEN "PROCESSING" ELSE "COMPLETED"
    <3>1. row[r] \in RowType /\ status \in Status
      BY DEF TypeOK, Status, Open, Terminal
    <3> HIDE DEF status
    <3>2. [row[r] EXCEPT !.status = status, !.tx = TRUE, !.fee = TRUE] \in RowType
      BY <3>1 DEF RowType
    <3> QED BY <2>7, <3>2 DEF SweepOk, TypeOK, status
  <2>8. CASE row' = row
    BY <2>8 DEF TypeOK
  <2> QED
    BY <2>1, <2>2, <2>3, <2>4, <2>5, <2>6, <2>7, <2>8
    DEF Call, ReplayKey, NewKey, RefuseDuplicate, PassDuplicate, Refuse, ReadBalance,
        AcquireLock, ReadReserve, CapRefuses, CapAdmits, KeyClash, EulenAccepts,
        StartSweep, Abort
<1>3. held' \in [Requests -> [Requests -> Nat]]
  <2>1. [q \in Requests |-> IF IsOpen(q) THEN row[q].gross ELSE 0] \in [Requests -> Nat]
    BY DEF TypeOK, RowType
  <2>2. CASE ReadReserve(r)
    BY <2>1, <2>2 DEF ReadReserve, TypeOK
  <2>3. CASE held' = held
    BY <2>3 DEF TypeOK
  <2> QED
    BY <2>2, <2>3
    DEF Call, ReplayKey, NewKey, RefuseDuplicate, PassDuplicate, Refuse, ReadBalance,
        AcquireLock, CapRefuses, CapAdmits, KeyClash, Insert, EulenAccepts, EulenRejects,
        EulenUnknown, QuoteTooBig, StoreQuote, WindowExpired, FeeWalletUnavailable,
        StartSweep, SweepOk, SweepRefused, SweepLost, Abort
<1>4. prov' \in [Requests -> {"none"} \cup ProviderStatus] /\ hook' \in [Requests -> HookType]
  BY AnnounceType
  DEF Call, ReplayKey, NewKey, RefuseDuplicate, PassDuplicate, Refuse, ReadBalance,
      AcquireLock, ReadReserve, CapRefuses, CapAdmits, KeyClash, Insert, EulenAccepts,
      EulenRejects, EulenUnknown, QuoteTooBig, StoreQuote, WindowExpired,
      FeeWalletUnavailable, StartSweep, SweepOk, SweepRefused, SweepLost, Abort,
      ProviderStatus, TypeOK
<1>5. bal' \in [Requests -> Nat]
  <2>1. bal' = bal \/ bal' = [bal EXCEPT ![r] = balance]
    BY DEF Call, ReplayKey, NewKey, RefuseDuplicate, PassDuplicate, Refuse, ReadBalance,
           AcquireLock, ReadReserve, CapRefuses, CapAdmits, KeyClash, Insert, EulenAccepts,
           EulenRejects, EulenUnknown, QuoteTooBig, StoreQuote, WindowExpired,
           FeeWalletUnavailable, StartSweep, SweepOk, SweepRefused, SweepLost, Abort
  <2> QED BY <2>1 DEF TypeOK
<1>6. quote' \in [Requests -> Nat]
  <2>1. quote' = quote \/ \E q \in Quotes[r] : quote' = [quote EXCEPT ![r] = q]
    BY DEF Call, ReplayKey, NewKey, RefuseDuplicate, PassDuplicate, Refuse, ReadBalance,
           AcquireLock, ReadReserve, CapRefuses, CapAdmits, KeyClash, Insert, EulenAccepts,
           EulenRejects, EulenUnknown, QuoteTooBig, StoreQuote, WindowExpired,
           FeeWalletUnavailable, StartSweep, SweepOk, SweepRefused, SweepLost, Abort
  <2> QED BY <2>1, AmountsAssumption DEF TypeOK
<1>7. lock' \in Requests \cup {"free"} /\ lwk' \in [Requests -> TransferStage]
  <2>1. /\ lock' \in {lock, r, "free"}
        /\ lwk' = lwk \/ lwk' = [lwk EXCEPT ![r] = "working"]
    BY DEF Call, ReplayKey, NewKey, RefuseDuplicate, PassDuplicate, Refuse, ReadBalance,
           AcquireLock, ReadReserve, CapRefuses, CapAdmits, KeyClash, Insert, EulenAccepts,
           EulenRejects, EulenUnknown, QuoteTooBig, StoreQuote, WindowExpired,
           FeeWalletUnavailable, StartSweep, SweepOk, SweepRefused, SweepLost, Abort
  <2> QED BY <2>1 DEF TransferStage, TypeOK
<1>9. reopened' \subseteq Requests
  <2>1. \/ reopened' = reopened
        \/ \E status : Notes(r, status)
    BY DEF Call, ReplayKey, NewKey, RefuseDuplicate, PassDuplicate, Refuse, ReadBalance,
           AcquireLock, ReadReserve, CapRefuses, CapAdmits, KeyClash, Insert, EulenAccepts,
           EulenRejects, EulenUnknown, QuoteTooBig, StoreQuote, WindowExpired,
           FeeWalletUnavailable, StartSweep, SweepOk, SweepRefused, SweepLost, Abort,
           Write, WriteFailed
  <2> QED BY <2>1, NotesType DEF TypeOK
<1>8. UNCHANGED <<age, sent, balance, poll, uses>>
  BY DEF Call, ReplayKey, NewKey, RefuseDuplicate, PassDuplicate, Refuse, ReadBalance,
         AcquireLock, ReadReserve, CapRefuses, CapAdmits, KeyClash, Insert, EulenAccepts,
         EulenRejects, EulenUnknown, QuoteTooBig, StoreQuote, WindowExpired,
         FeeWalletUnavailable, StartSweep, SweepOk, SweepRefused, SweepLost, Abort
<1> QED
  BY <1>1, <1>2, <1>3, <1>4, <1>5, <1>6, <1>7, <1>8, <1>9 DEF TypeOK

\* Every step of provider, network, wallet service and webhook handler keeps the types.
LEMMA TypeOutside ==
  ASSUME TypeOK, NEW r \in Requests,
         Crash(r) \/ Wallet(r) \/ ProviderMoves(r) \/ Hook(r)
           \/ ResolveIndeterminate(r) \/ GrowOld(r)
  PROVE  TypeOK'
<1> USE DEF callVars, walletVars
<1>1. CASE Crash(r)
  BY <1>1 DEF Crash, Goto, CallStage, TypeOK
<1>2. CASE LwkShort(r) \/ LwkRefuse(r) \/ LwkStore(r) \/ LwkDie(r)
  BY <1>2 DEF LwkShort, LwkRefuse, LwkStops, LwkStore, LwkDie, TransferStage, TypeOK
<1>3. CASE LwkBroadcast(r)
  BY <1>3 DEF LwkBroadcast, TransferStage, TypeOK, RowType
<1>4. CASE ProviderMoves(r)
  <2>1. PICK s \in ProviderNext(prov[r]) :
          /\ prov' = [prov EXCEPT ![r] = s]
          /\ Announce(r, s)
          /\ UNCHANGED <<row, age, reopened, pc, callVars, lock, walletVars, poll, uses>>
    BY <1>4 DEF ProviderMoves
  <2>2. s \in ProviderStatus
    BY <2>1, NextStatus
  <2> QED BY <2>1, <2>2, AnnounceType DEF TypeOK
<1>5. CASE Hook(r)
  <2>1. PICK s \in ProviderStatus :
          HookRecords(r, s) \/ HookReads(r, s) \/ HookWrites(r, s) \/ HookCrashes(r, s)
    BY <1>5 DEF Hook
  <2>2. hook' \in [Requests -> HookType]
    <3>1. \E at \in {"recorded", "writing", "finished"} :
            hook' = [hook EXCEPT ![r][s] = at]
      BY <2>1 DEF HookRecords, HookReads, HookWrites, HookCrashes
    <3> QED BY <3>1 DEF HookType, TypeOK
  <2>3. CASE HookWrites(r, s)
    <3>1. reopened' \subseteq Requests
      BY <2>3, NotesType DEF HookWrites, Write, TypeOK
    <3> QED
      BY <2>2, <2>3, <3>1, MappedType, WriteType, RegisterUseType DEF HookWrites, TypeOK
  <2> QED
    BY <2>1, <2>2, <2>3 DEF HookRecords, HookReads, HookCrashes, TypeOK
<1>6. CASE ResolveIndeterminate(r)
  <2>1. row' \in [Requests -> RowType]
    BY <1>6 DEF ResolveIndeterminate, RowType, TypeOK
  <2> QED BY <1>6, <2>1 DEF ResolveIndeterminate, TypeOK
<1>7. CASE GrowOld(r)
  BY <1>7, BoundsAssumption DEF GrowOld, TypeOK
<1> QED BY <1>1, <1>2, <1>3, <1>4, <1>5, <1>6, <1>7 DEF Wallet

\* Every step of a status poll keeps the types.
LEMMA TypePoll ==
  ASSUME TypeOK, NEW p \in Pollers, Poll(p)
  PROVE  TypeOK'
<1> USE DEF callVars, walletVars
<1>1. IdlePoll \in PollType
  BY DEF IdlePoll, PollType, Status
<1>2. poll' \in [Pollers -> PollType]
  <2>1. CASE \E r \in Requests : PollReads(p, r)
    BY <2>1 DEF PollReads, PollType, TypeOK, RowType
  <2>2. CASE PollAnswered(p)
    <3>1. poll[p] \in PollType
      BY DEF TypeOK
    <3>2. [poll[p] EXCEPT !.stage = "write", !.status = Mapped(prov[poll[p].tx])] \in PollType
      BY <3>1, MappedType DEF PollType
    <3> QED BY <1>1, <2>2, <3>2 DEF PollAnswered, TypeOK
  <2>3. CASE PollWrites(p) \/ PollFails(p)
    BY <1>1, <2>3 DEF PollWrites, PollFails, TypeOK
  <2> QED BY <2>1, <2>2, <2>3 DEF Poll
<1>3. CASE PollWrites(p)
  <2>1. poll[p].status \in Status
    BY DEF TypeOK, PollType
  <2>2. reopened' \subseteq Requests
    BY <1>3, NotesType DEF PollWrites, Write, TypeOK
  <2> QED BY <1>2, <1>3, <2>1, <2>2, WriteType, RegisterUseType DEF PollWrites, TypeOK
<1> QED BY <1>2, <1>3 DEF Poll, PollReads, PollAnswered, PollFails, TypeOK

\* Rows, calls, transfers, webhooks and polls keep their shape in every behaviour.
THEOREM TypeCorrect == Spec => []TypeOK
<1>1. TypeOK /\ [Next]_vars => TypeOK'
  <2> SUFFICES ASSUME TypeOK, [Next]_vars PROVE TypeOK'
    OBVIOUS
  <2>1. CASE UNCHANGED vars
    BY <2>1 DEF vars, callVars, walletVars, TypeOK
  <2>2. CASE \E r \in Requests : Call(r)
    BY <2>2, TypeCall
  <2>3. CASE \E r \in Requests :
               Crash(r) \/ Wallet(r) \/ ProviderMoves(r) \/ Hook(r)
                 \/ ResolveIndeterminate(r) \/ GrowOld(r)
    BY <2>3, TypeOutside
  <2>4. CASE \E p \in Pollers : Poll(p)
    BY <2>4, TypePoll
  <2> QED BY <2>1, <2>2, <2>3, <2>4 DEF Next, Finished
<1> QED BY TypeInit, <1>1, PTL DEF Spec

-----------------------------------------------------------------------------
(* The advisory lock.                                                      *)

\* The advisory lock stays exclusive over every step.
LEMMA LockStep ==
  ASSUME TypeOK, LockIsExclusive, [Next]_vars
  PROVE  LockIsExclusive'
<1> USE DEF InCriticalSection, LockIsExclusive, Goto, TypeOK
<1>1. CASE UNCHANGED <<pc, lock>>
  BY <1>1
<1>2. ASSUME NEW r \in Requests, Call(r) \/ Crash(r)
      PROVE  LockIsExclusive'
  <2>1. CASE AcquireLock(r)
    BY <2>1, RequestsAssumption DEF AcquireLock
  <2>2. CASE CapRefuses(r) \/ KeyClash(r) \/ Insert(r)
    BY <2>2, RequestsAssumption DEF CapRefuses, KeyClash, Abort, Insert
  <2>3. CASE Crash(r)
    BY <2>3, RequestsAssumption DEF Crash
  <2>4. CASE ReadReserve(r) \/ CapAdmits(r)
    BY <2>4 DEF ReadReserve, CapAdmits
  <2>5. CASE /\ UNCHANGED lock
             /\ ~InCriticalSection(r)
             /\ \E at \in CallStage \ {"reserve", "cap", "insert"} : Goto(r, at)
    BY <2>5
  <2> QED
    BY <1>2, <2>1, <2>2, <2>3, <2>4, <2>5
    DEF Call, ReplayKey, NewKey, RefuseDuplicate, PassDuplicate, Refuse, ReadBalance,
        EulenAccepts, EulenRejects, EulenUnknown, QuoteTooBig, StoreQuote, WindowExpired,
        FeeWalletUnavailable, StartSweep, SweepOk, SweepRefused, SweepLost, CallStage
<1>3. ASSUME NEW r \in Requests,
             Wallet(r) \/ ProviderMoves(r) \/ Hook(r) \/ ResolveIndeterminate(r) \/ GrowOld(r)
      PROVE  UNCHANGED <<pc, lock>>
  BY <1>3
  DEF Wallet, LwkShort, LwkRefuse, LwkStops, LwkBroadcast, LwkStore, LwkDie, ProviderMoves,
      Hook, HookRecords, HookReads, HookWrites, HookCrashes, ResolveIndeterminate, GrowOld
<1>4. ASSUME NEW p \in Pollers, Poll(p)
      PROVE  UNCHANGED <<pc, lock>>
  BY <1>4 DEF Poll, PollReads, PollAnswered, PollWrites, PollFails
<1> QED BY <1>1, <1>2, <1>3, <1>4 DEF Next, Finished, vars

\* The critical section is exclusive in every behaviour.
THEOREM LockExclusion == Spec => []LockIsExclusive
<1>1. Init => LockIsExclusive
  BY RequestsAssumption DEF Init, LockIsExclusive, InCriticalSection
<1> QED BY <1>1, TypeCorrect, LockStep, PTL DEF Spec

-----------------------------------------------------------------------------
(* What the rows say.                                                      *)

Inv == TypeOK /\ CallInv /\ WriterInv

\* A step of the call before its row exists moves the call and nothing the
\* invariant speaks of; one that only moves a call to "done" does neither.
LEMMA CallInvCall ==
  ASSUME Inv, NEW r \in Requests, Call(r)
  PROVE  CallInv'
<1> USE DEF Inv, TypeOK, CallInv, Born, Goto, BeforeInsert, callVars, walletVars
<1>1. CASE /\ UNCHANGED <<row, walletVars, prov>>
           /\ pc[r] \in BeforeInsert
           /\ \E at \in BeforeInsert \cup {"done"} : Goto(r, at)
  BY <1>1
<1>2. CASE Insert(r)
  BY <1>2, AmountsAssumption, KindAssumption DEF Insert, NoRow, RowType
<1>3. CASE EulenAccepts(r)
  BY <1>3 DEF EulenAccepts
<1>4. CASE EulenRejects(r) \/ QuoteTooBig(r) \/ WindowExpired(r)
  <2>1. /\ pc[r] \in {"payout", "quoted", "window"}
        /\ WriteFailed(r, "REJECTED") /\ Goto(r, "done")
        /\ UNCHANGED <<walletVars, prov>>
    BY <1>4 DEF EulenRejects, QuoteTooBig, WindowExpired
  <2>2. row' = [row EXCEPT ![r] = [@ EXCEPT !.status = "FAILED", !.failure = "REJECTED"]]
    BY <2>1 DEF WriteFailed
  <2>3. lwk[r] = "idle" /\ pc' = [pc EXCEPT ![r] = "done"]
    BY <2>1
  <2> QED BY <2>1, <2>2, <2>3 DEF RowType
<1>5. CASE EulenUnknown(r)
  BY <1>5 DEF EulenUnknown, WriteFailed, RowType
<1>6. CASE StoreQuote(r)
  BY <1>6 DEF StoreQuote, RowType
<1>7. CASE FeeWalletUnavailable(r)
  BY <1>7 DEF FeeWalletUnavailable, Write, RowType
<1>8. CASE StartSweep(r)
  BY <1>8, KindAssumption DEF StartSweep, TransferStage
<1>9. CASE SweepOk(r)
  BY <1>9 DEF SweepOk, RowType
<1>10. CASE SweepRefused(r)
  BY <1>10 DEF SweepRefused, WriteFailed, RowType
<1>11. CASE SweepLost(r)
  <2>1. CASE Kind[r] = "PIX"
    BY <1>11, <2>1, WriteEffect DEF SweepLost
  <2>2. CASE Kind[r] # "PIX"
    BY <1>11, <2>2, WriteFailedEffect DEF SweepLost
  <2> QED BY <2>1, <2>2
<1> QED
  BY <1>1, <1>2, <1>3, <1>4, <1>5, <1>6, <1>7, <1>8, <1>9, <1>10, <1>11
  DEF Call, ReplayKey, NewKey, RefuseDuplicate, PassDuplicate, Refuse, ReadBalance,
      AcquireLock, ReadReserve, CapRefuses, CapAdmits, KeyClash, Abort

\* What a call knows of its transfer and payout survives the steps of the outside world.
LEMMA CallInvOutside ==
  ASSUME Inv, NEW r \in Requests,
         Crash(r) \/ Wallet(r) \/ ProviderMoves(r) \/ Hook(r)
           \/ ResolveIndeterminate(r) \/ GrowOld(r)
  PROVE  CallInv'
<1> USE DEF Inv, TypeOK, CallInv, Born, callVars, walletVars
<1>1. CASE Crash(r)
  BY <1>1 DEF Crash, Goto, BeforeInsert
<1>2. CASE LwkShort(r) \/ LwkRefuse(r) \/ LwkStore(r) \/ LwkDie(r)
  BY <1>2 DEF LwkShort, LwkRefuse, LwkStops, LwkStore, LwkDie
<1>3. CASE LwkBroadcast(r)
  BY <1>3 DEF LwkBroadcast
<1>4. CASE ProviderMoves(r)
  <2>1. PICK s \in ProviderNext(prov[r]) :
          /\ prov' = [prov EXCEPT ![r] = s]
          /\ UNCHANGED <<row, pc, lwk, sent>>
    BY <1>4 DEF ProviderMoves
  <2>2. prov[r] # "none" /\ s # "none"
    BY <2>1 DEF ProviderNext
  <2> QED BY <2>1, <2>2
<1>5. CASE Hook(r)
  <2>1. CASE UNCHANGED <<row, pc, walletVars, prov>>
    BY <2>1
  <2>2. ASSUME NEW s \in ProviderStatus, HookWrites(r, s)
        PROVE  CallInv'
    <3>1. row[r].provider /\ Mapped(s) # "NONE"
      BY <2>2, MappedType DEF HookWrites, WriterInv
    <3> QED BY <2>2, <3>1 DEF HookWrites, Write, RowType
  <2> QED BY <1>5, <2>1, <2>2 DEF Hook, HookRecords, HookReads, HookCrashes
<1>6. CASE ResolveIndeterminate(r)
  BY <1>6 DEF ResolveIndeterminate, RowType
<1>7. CASE GrowOld(r)
  BY <1>7 DEF GrowOld
<1> QED BY <1>1, <1>2, <1>3, <1>4, <1>5, <1>6, <1>7 DEF Wallet

\* What a call knows of its transfer and payout survives the polls.
LEMMA CallInvPoll ==
  ASSUME Inv, NEW p \in Pollers, Poll(p)
  PROVE  CallInv'
<1> USE DEF Inv, TypeOK, CallInv, Born, callVars, walletVars
<1>1. CASE PollWrites(p)
  <2>1. /\ poll[p].tx \in Requests /\ row[poll[p].tx].provider
        /\ poll[p].status # "NONE"
    BY <1>1 DEF PollWrites, WriterInv
  <2> QED BY <1>1, <2>1 DEF PollWrites, Write, RowType
<1>2. CASE UNCHANGED <<row, pc, walletVars, prov>>
  BY <1>2
<1> QED BY <1>1, <1>2 DEF Poll, PollReads, PollAnswered, PollFails

\* A write of an open status or of FAILED needs no agreement.
LEMMA PlainWrite ==
  ASSUME Inv, NEW r \in Requests, UNCHANGED <<sent, prov, hook, poll>>,
         row'[r].status \in {"PROCESSING", "FAILED"},
         row'[r].provider = row[r].provider,
         \A q \in Requests \ {r} : row'[q] = row[q]
  PROVE  WriterInv'
<1>1. (\A q \in Requests : Agrees(q, row[q].status))'
  <2> TAKE q \in Requests
  <2>1. CASE q = r
    BY <2>1 DEF Agrees
  <2>2. CASE q # r
    BY <2>2 DEF Inv, WriterInv, Agrees
  <2> QED BY <2>1, <2>2
<1>2. \A q \in Requests : row'[q].provider = row[q].provider
  OBVIOUS
<1> QED BY <1>1, <1>2 DEF Inv, WriterInv, Agrees

\* The rows' claims, and those webhooks and polls are about to write, stay true over a call's steps.
LEMMA WriterInvCall ==
  ASSUME Inv, NEW r \in Requests, Call(r)
  PROVE  WriterInv'
<1> USE DEF Inv, TypeOK, callVars, walletVars
<1>1. CASE UNCHANGED <<row, sent, prov, hook, poll>>
  BY <1>1 DEF WriterInv, Agrees
<1>2. CASE Insert(r)
  BY <1>2 DEF Insert, NoRow, RowType, BeforeInsert, CallInv, WriterInv, Agrees, Born
<1>3. CASE EulenAccepts(r)
  BY <1>3 DEF EulenAccepts, Announce, HookType, Final, CallInv, WriterInv, Agrees
<1>4. CASE EulenRejects(r) \/ QuoteTooBig(r) \/ WindowExpired(r)
  <2>1. WriteFailed(r, "REJECTED") /\ UNCHANGED <<sent, prov, hook, poll>>
    BY <1>4 DEF EulenRejects, QuoteTooBig, WindowExpired
  <2> QED BY <2>1, WriteFailedEffect, PlainWrite
<1>5. CASE EulenUnknown(r)
  <2>1. WriteFailed(r, "UNKNOWN") /\ UNCHANGED <<sent, poll>>
    BY <1>5 DEF EulenUnknown
  <2>2. CASE UNCHANGED <<prov, hook>>
    BY <2>1, <2>2, WriteFailedEffect, PlainWrite
  <2>3. CASE prov' = [prov EXCEPT ![r] = "unsent"] /\ hook' = [hook EXCEPT ![r]["unsent"] = "emitted"]
    <3>1. prov[r] = "none" /\ ~row[r].provider
      BY <1>5 DEF EulenUnknown, CallInv
    <3> QED BY <2>1, <2>3, <3>1, WriteFailedEffect DEF HookType, Final, WriterInv, Agrees
  <2> QED BY <1>5, <2>2, <2>3 DEF EulenUnknown, Announce
<1>6. CASE StoreQuote(r)
  BY <1>6 DEF StoreQuote, RowType, WriterInv, Agrees
<1>7. CASE FeeWalletUnavailable(r)
  BY <1>7, WriteEffect, PlainWrite DEF FeeWalletUnavailable
<1>8. CASE SweepOk(r)
  BY <1>8, KindAssumption DEF SweepOk, RowType, CallInv, WriterInv, Agrees
<1>9. CASE SweepRefused(r)
  BY <1>9, WriteFailedEffect, PlainWrite DEF SweepRefused
<1>10. CASE SweepLost(r)
  <2>1. Write(r, "PROCESSING") \/ WriteFailed(r, "UNKNOWN")
    BY <1>10 DEF SweepLost
  <2>2. UNCHANGED <<sent, prov, hook, poll>>
    BY <1>10 DEF SweepLost
  <2> QED BY <2>1, <2>2, WriteEffect, WriteFailedEffect, PlainWrite
<1> QED
  BY <1>1, <1>2, <1>3, <1>4, <1>5, <1>6, <1>7, <1>8, <1>9, <1>10
  DEF Call, ReplayKey, NewKey, RefuseDuplicate, PassDuplicate, Refuse, ReadBalance,
      AcquireLock, ReadReserve, CapRefuses, CapAdmits, KeyClash, Abort, StartSweep

\* The rows' claims stay true while provider, network and webhook handler step.
LEMMA WriterInvOutside ==
  ASSUME Inv, NEW r \in Requests,
         Crash(r) \/ Wallet(r) \/ ProviderMoves(r) \/ Hook(r)
           \/ ResolveIndeterminate(r) \/ GrowOld(r)
  PROVE  WriterInv'
<1> USE DEF Inv, TypeOK, WriterInv, Agrees, callVars, walletVars
<1>1. CASE Crash(r) \/ GrowOld(r)
  BY <1>1 DEF Crash, GrowOld
<1>2. CASE LwkShort(r) \/ LwkRefuse(r) \/ LwkStore(r) \/ LwkDie(r)
  BY <1>2 DEF LwkShort, LwkRefuse, LwkStops, LwkStore, LwkDie
<1>3. CASE LwkBroadcast(r)
  BY <1>3 DEF LwkBroadcast
<1>4. CASE ProviderMoves(r)
  <2>1. PICK s \in ProviderNext(prov[r]) :
          /\ prov' = [prov EXCEPT ![r] = s]
          /\ Announce(r, s)
          /\ UNCHANGED <<row, sent, poll>>
    BY <1>4 DEF ProviderMoves
  <2>2. prov[r] \notin Final /\ s # "none"
    BY <2>1 DEF ProviderNext, Final
  <2>3. (\A q \in Requests : Agrees(q, row[q].status))'
    BY <2>1, <2>2 DEF Final
  <2>4. (\A q \in Requests : \A t \in Final : hook[q][t] # "none" => prov[q] = t)'
    BY <2>1, <2>2 DEF Announce, HookType
  <2>5. (\A q \in Requests : \A t \in ProviderStatus :
           hook[q][t] = "writing" => row[q].provider)'
    BY <2>1 DEF Announce, HookType
  <2>6. ASSUME NEW p \in Pollers, poll[p].stage # "idle"
        PROVE  Agrees(poll[p].tx, poll[p].status)'
    BY <2>1, <2>2, <2>6 DEF Final
  <2> QED BY <2>1, <2>3, <2>4, <2>5, <2>6
<1>5. CASE Hook(r)
  <2>1. PICK s \in ProviderStatus :
          HookRecords(r, s) \/ HookReads(r, s) \/ HookWrites(r, s) \/ HookCrashes(r, s)
    BY <1>5 DEF Hook
  <2>2. hook[r][s] # "none"
    BY <2>1 DEF HookRecords, HookReads, HookWrites, HookCrashes
  <2>3. CASE HookRecords(r, s) \/ HookReads(r, s) \/ HookCrashes(r, s)
    <3>1. PICK at \in {"recorded", "writing", "finished"} :
            /\ hook' = [hook EXCEPT ![r][s] = at]
            /\ at = "writing" => row[r].provider
      <4>1. CASE HookReads(r, s) /\ row[r].provider
        BY <4>1 DEF HookReads
      <4>2. CASE HookReads(r, s) /\ ~row[r].provider
        BY <4>2 DEF HookReads
      <4>3. CASE HookRecords(r, s) \/ HookCrashes(r, s)
        BY <4>3 DEF HookRecords, HookCrashes
      <4> QED BY <2>3, <4>1, <4>2, <4>3
    <3>2. UNCHANGED <<row, sent, prov, poll>>
      BY <2>3 DEF HookRecords, HookReads, HookCrashes
    <3>4. hook \in [Requests -> HookType] /\ hook[r] \in HookType
      OBVIOUS
    <3>5. hook'[r] = [hook[r] EXCEPT ![s] = at] /\ \A q \in Requests \ {r} : hook'[q] = hook[q]
      BY <3>1, <3>4
    <3>6. \A t \in ProviderStatus \ {s} : hook'[r][t] = hook[r][t]
      BY <3>4, <3>5 DEF HookType
    <3>7. hook'[r][s] = at
      BY <3>4, <3>5 DEF HookType
    <3>8. \A q \in Requests : \A t \in Final : hook'[q][t] # "none" => prov[q] = t
      <4> TAKE q \in Requests
      <4> TAKE t \in Final
      <4>1. CASE q = r /\ t = s
        BY <2>2, <4>1
      <4>2. CASE q # r \/ t # s
        <5>1. hook'[q][t] = hook[q][t]
          BY <3>5, <3>6, <4>2 DEF ProviderStatus
        <5> QED BY <5>1
      <4> QED BY <4>1, <4>2
    <3>9. \A q \in Requests : \A t \in ProviderStatus : hook'[q][t] = "writing" => row[q].provider
      BY <3>1, <3>5, <3>6, <3>7
    <3> QED BY <3>2, <3>8, <3>9
  <2>4. CASE HookWrites(r, s)
    <3>1. row[r].provider /\ Kind[r] = "PIX"
      BY <2>4 DEF HookWrites, CallInv
    <3>2. Agrees(r, Mapped(s))
      BY <2>2, <3>1 DEF Mapped, ProviderStatus, Final
    <3>3. row' = [row EXCEPT ![r].status = Mapped(s)]
          /\ hook' = [hook EXCEPT ![r][s] = "finished"]
          /\ UNCHANGED <<sent, prov, poll>>
      BY <2>4 DEF HookWrites, Write
    <3> QED BY <2>2, <3>2, <3>3 DEF RowType, HookType
  <2> QED BY <2>1, <2>3, <2>4
<1>6. CASE ResolveIndeterminate(r)
  BY <1>6 DEF ResolveIndeterminate, RowType
<1> QED BY <1>1, <1>2, <1>3, <1>4, <1>5, <1>6 DEF Wallet

\* The rows' claims stay true over the polls.
LEMMA WriterInvPoll ==
  ASSUME Inv, NEW p \in Pollers, Poll(p)
  PROVE  WriterInv'
<1> USE DEF Inv, TypeOK, WriterInv, callVars, walletVars
<1>1. CASE \E r \in Requests : PollReads(p, r)
  BY <1>1 DEF PollReads, PollType, RowType, Open, IsOpen, Agrees
<1>2. CASE PollAnswered(p)
  <2> DEFINE r == poll[p].tx
  <2>1. r \in Requests /\ row[r].provider /\ Kind[r] = "PIX" /\ prov[r] # "none"
    BY <1>2 DEF PollAnswered, CallInv
  <2>2. Agrees(r, Mapped(prov[r])) /\ Mapped(prov[r]) # "NONE"
    BY <2>1 DEF Agrees, Mapped, ProviderStatus, Final
  <2>3. \/ poll' = [poll EXCEPT ![p] = [@ EXCEPT !.stage = "write", !.status = Mapped(prov[r])]]
        \/ poll' = [poll EXCEPT ![p] = IdlePoll]
    BY <1>2 DEF PollAnswered
  <2>4. UNCHANGED <<row, sent, prov, hook>>
    BY <1>2 DEF PollAnswered
  <2>5. ASSUME NEW q \in Pollers, poll'[q].stage # "idle"
        PROVE  /\ poll'[q].tx \in Requests /\ row[poll'[q].tx].provider
               /\ poll'[q].status # "NONE"
               /\ Agrees(poll'[q].tx, poll'[q].status)
    <3>1. CASE q # p
      BY <2>3, <2>5, <3>1
    <3>2. CASE q = p
      <4>1. CASE poll' = [poll EXCEPT ![p] = IdlePoll]
        BY <2>5, <3>2, <4>1 DEF IdlePoll
      <4>2. CASE poll' = [poll EXCEPT ![p] = [@ EXCEPT !.stage = "write",
                                                       !.status = Mapped(prov[r])]]
        <5>1. poll'[q] = [poll[p] EXCEPT !.stage = "write", !.status = Mapped(prov[r])]
          BY <3>2, <4>2
        <5>2. poll'[q].tx = r /\ poll'[q].status = Mapped(prov[r])
          BY <5>1 DEF PollType
        <5> QED BY <2>1, <2>2, <5>2
      <4> QED BY <2>3, <4>1, <4>2
    <3> QED BY <3>1, <3>2
  <2> QED BY <2>4, <2>5 DEF Agrees
<1>3. CASE PollWrites(p)
  <2>1. /\ poll[p].tx \in Requests
        /\ Agrees(poll[p].tx, poll[p].status)
    BY <1>3 DEF PollWrites
  <2>2. /\ row' = [row EXCEPT ![poll[p].tx].status = poll[p].status]
        /\ poll' = [poll EXCEPT ![p] = IdlePoll]
        /\ UNCHANGED <<sent, prov, hook>>
    BY <1>3 DEF PollWrites, Write
  <2> QED BY <2>1, <2>2 DEF IdlePoll, PollType, RowType, Agrees
<1>4. CASE PollFails(p)
  BY <1>4 DEF PollFails, IdlePoll, PollType, Agrees
<1> QED BY <1>1, <1>2, <1>3, <1>4 DEF Poll

\* The inductive invariant holds initially.
LEMMA InvInit == Init => Inv
<1> SUFFICES ASSUME Init PROVE CallInv /\ WriterInv
  BY TypeInit DEF Inv
<1> USE DEF Init, NoRow, IdlePoll
<1>1. CallInv
  BY DEF CallInv, Born
<1>2. WriterInv
  BY DEF WriterInv, Agrees, Final, ProviderStatus
<1> QED BY <1>1, <1>2

\* The inductive invariant is preserved by every step.
LEMMA InvStep == Inv /\ [Next]_vars => Inv'
<1> SUFFICES ASSUME Inv, [Next]_vars PROVE Inv'
  OBVIOUS
<1>1. CASE UNCHANGED vars
  BY <1>1 DEF vars, callVars, walletVars, Inv, TypeOK, CallInv, WriterInv, Agrees, Born
<1>2. CASE \E r \in Requests : Call(r)
  BY <1>2, TypeCall, CallInvCall, WriterInvCall DEF Inv
<1>3. CASE \E r \in Requests :
             Crash(r) \/ Wallet(r) \/ ProviderMoves(r) \/ Hook(r)
               \/ ResolveIndeterminate(r) \/ GrowOld(r)
  BY <1>3, TypeOutside, CallInvOutside, WriterInvOutside DEF Inv
<1>4. CASE \E p \in Pollers : Poll(p)
  BY <1>4, TypePoll, CallInvPoll, WriterInvPoll DEF Inv
<1> QED BY <1>1, <1>2, <1>3, <1>4 DEF Next, Finished

\* The inductive invariant holds always; the theorems below are its consequences.
THEOREM Invariance == Spec => []Inv
  BY InvInit, InvStep, PTL DEF Spec

\* A row that says not paid has no payout that may still be one: a consequence of Inv.
LEMMA InvNotPaid == Inv => NotPaidIsTrue
  BY DEF Inv, CallInv, WriterInv, Agrees, NotPaidIsTrue, SaysNotPaid

\* A row that tells the operator nothing was paid is right about it.
THEOREM NotPaid == Spec => []NotPaidIsTrue
  BY Invariance, InvNotPaid, PTL

\* A row that reads COMPLETED belongs to a payment that was made.
THEOREM Completed == Spec => []CompletedIsTrue
<1>1. Inv => CompletedIsTrue
  BY DEF Inv, WriterInv, Agrees, CompletedIsTrue
<1> QED BY <1>1, Invariance, PTL

\* No transfer is on the network without its row and its provider order.
THEOREM Traceable == Spec => []SentIsTraceable
<1>1. Inv => SentIsTraceable
  BY DEF Inv, CallInv, SentIsTraceable
<1> QED BY <1>1, Invariance, PTL

\* The duplicate guard never lets a request pass while a recent payment with
\* the same recipient and amount is on its way or was made.
THEOREM DuplicateGuard == Spec => DuplicateGuardSound
<1> DEFINE Guard ==
      \A q, r \in Requests :
        /\ pc[r] = "duplicate" /\ pc'[r] = "balance"
        /\ q # r /\ Kind[q] = "PIX" /\ Intent[q] = Intent[r] /\ age[q] = 0
        => ~OnItsWay(q)
<1>1. Inv /\ [Next]_vars => Guard
  <2> SUFFICES ASSUME Inv, [Next]_vars, NEW q \in Requests, NEW r \in Requests,
                      pc[r] = "duplicate", pc'[r] = "balance", Kind[q] = "PIX",
                      Intent[q] = Intent[r], age[q] = 0
               PROVE  ~OnItsWay(q)
    OBVIOUS
  <2>1. PassDuplicate(r)
    <3>1. pc' # pc
      OBVIOUS
    <3>2. PICK c \in Requests : Call(c) \/ Crash(c)
      BY <3>1
      DEF Next, Finished, vars, Poll, PollReads, PollAnswered, PollWrites, PollFails, Wallet,
          LwkShort, LwkRefuse, LwkStops, LwkBroadcast, LwkStore, LwkDie, ProviderMoves, Hook,
          HookRecords, HookReads, HookWrites, HookCrashes, ResolveIndeterminate, GrowOld
    <3> QED
      BY <3>2
      DEF Call, Crash, ReplayKey, NewKey, RefuseDuplicate, PassDuplicate, Refuse, ReadBalance,
          AcquireLock, ReadReserve, CapRefuses, CapAdmits, KeyClash, Insert, EulenAccepts,
          EulenRejects, EulenUnknown, QuoteTooBig, StoreQuote, WindowExpired,
          FeeWalletUnavailable, StartSweep, SweepOk, SweepRefused, SweepLost, Abort, Goto,
          Inv, TypeOK
  <2>2. ~MayHavePaid(q)
    BY <2>1 DEF PassDuplicate, RecentTwin
  <2>3. ASSUME sent[q] PROVE prov[q] \in {"canceled", "expired", "error"}
    <3>1. Born(q) /\ lwk[q] # "idle"
      BY <2>3 DEF Inv, CallInv
    <3>2. SaysNotPaid(q)
      BY <2>2, <3>1 DEF MayHavePaid, SaysNotPaid, Closed
    <3> QED BY <3>1, <3>2, InvNotPaid DEF NotPaidIsTrue
  <2> QED BY <2>3 DEF OnItsWay
<1>2. Spec => []Inv /\ [][Next]_vars
  BY Invariance DEF Spec
<1>3. [][Inv /\ Next]_vars => [][Guard]_vars
  BY <1>1, PTL
<1> QED BY <1>1, <1>2, PTL DEF DuplicateGuardSound

-----------------------------------------------------------------------------
(* The refinement: DepixWithdraw implements Payout.  Every step touches    *)
(* what the promise sees of one request at most; for that request it is    *)
(* one of the promise's moves (Moves), or nothing the promise sees.  That  *)
(* a move tells the truth is Inv, in the state after the step.             *)

\* A transfer not yet broadcast has sent nothing, a payout under way has its
\* deposit, and an on-chain send has no payout.
LeaveInv ==
  \A r \in Requests :
    /\ lwk[r] \in {"idle", "working"} => ~sent[r]
    /\ prov[r] \in {"sending", "sent"} => sent[r]
    /\ Kind[r] = "ONCHAIN" => prov[r] = "none"

\* Nothing has left initially.
LEMMA LeaveInit == Init => LeaveInv
  BY DEF Init, LeaveInv

\* A call never sends and only places orders.
LEMMA LeaveCall ==
  ASSUME Inv, LeaveInv, NEW r \in Requests, Call(r)
  PROVE  LeaveInv'
<1> USE DEF Inv, TypeOK, LeaveInv, callVars, walletVars
<1>1. CASE EulenAccepts(r) \/ EulenUnknown(r)
  <2>1. Kind[r] = "PIX" /\ ~sent[r] /\ UNCHANGED <<lwk, sent>>
    BY <1>1 DEF EulenAccepts, EulenUnknown, CallInv
  <2>2. prov' = prov \/ prov' = [prov EXCEPT ![r] = "unsent"]
    BY <1>1 DEF EulenAccepts, EulenUnknown
  <2> QED BY <2>1, <2>2
<1>2. CASE StartSweep(r)
  <2>1. lwk[r] = "idle"
    BY <1>2 DEF StartSweep, CallInv
  <2> QED BY <1>2, <2>1 DEF StartSweep
<1>3. CASE UNCHANGED <<lwk, sent, prov>>
  BY <1>3
<1>4. \/ EulenAccepts(r) \/ EulenUnknown(r) \/ StartSweep(r)
      \/ UNCHANGED <<lwk, sent, prov>>
  BY DEF Call, ReplayKey, NewKey, RefuseDuplicate, PassDuplicate, Refuse, ReadBalance,
         AcquireLock, ReadReserve, CapRefuses, CapAdmits, KeyClash, Insert, EulenRejects,
         QuoteTooBig, StoreQuote, WindowExpired, FeeWalletUnavailable, SweepOk,
         SweepRefused, SweepLost, Abort
<1> QED BY <1>1, <1>2, <1>3, <1>4

\* The wallet service sends what it worked on; the provider pays only a deposit
\* it has seen.
LEMMA LeaveOutside ==
  ASSUME Inv, LeaveInv, NEW r \in Requests,
         Wallet(r) \/ ProviderMoves(r)
  PROVE  LeaveInv'
<1> USE DEF Inv, TypeOK, LeaveInv, callVars, walletVars
<1>1. CASE LwkBroadcast(r)
  BY <1>1 DEF LwkBroadcast
<1>2. CASE LwkShort(r) \/ LwkRefuse(r) \/ LwkStore(r) \/ LwkDie(r)
  BY <1>2 DEF LwkShort, LwkRefuse, LwkStore, LwkDie, LwkStops
<1>3. CASE ProviderMoves(r)
  <2>1. PICK s \in ProviderNext(prov[r]) :
          /\ s = "sending" => sent[r]
          /\ prov' = [prov EXCEPT ![r] = s]
          /\ UNCHANGED <<lwk, sent>>
    BY <1>3 DEF ProviderMoves
  <2>2. prov[r] \in {"unsent", "sending"} /\ (s = "sent" => prov[r] = "sending")
    BY <2>1 DEF ProviderNext
  <2> QED BY <2>1, <2>2
<1> QED BY <1>1, <1>2, <1>3 DEF Wallet

\* Both invariants together are inductive.
LEMMA LeaveStep == Inv /\ LeaveInv /\ [Next]_vars => LeaveInv'
<1> SUFFICES ASSUME Inv, LeaveInv, [Next]_vars PROVE LeaveInv'
  OBVIOUS
<1>1. CASE UNCHANGED <<lwk, sent, prov>>
  BY <1>1 DEF LeaveInv
<1>2. CASE \E r \in Requests : Call(r)
  BY <1>2, LeaveCall
<1>3. CASE \E r \in Requests : Wallet(r) \/ ProviderMoves(r)
  BY <1>3, LeaveOutside
<1>4. \/ UNCHANGED <<lwk, sent, prov>>
      \/ \E r \in Requests : Call(r) \/ Wallet(r) \/ ProviderMoves(r)
  BY DEF Next, Finished, vars, Poll, PollReads, PollAnswered, PollWrites, PollFails, Crash,
         Hook, HookRecords, HookReads, HookWrites, HookCrashes, ResolveIndeterminate, GrowOld,
         walletVars
<1> QED BY <1>1, <1>2, <1>3, <1>4

-----------------------------------------------------------------------------
(* The mapped state.                                                       *)

\* What the promise sees of a request did not change.
SeenSame(q) == sent'[q] = sent[q] /\ FateOf(q)' = FateOf(q) /\ WordOf(q)' = WordOf(q)

\* The promise's moves, as one request's part of the mapped state.
Moves(r) ==
  \/ SeenSame(r)
  \/ /\ sent'[r] = sent[r] /\ FateOf(r)' = FateOf(r)
     /\ WordOf(r)' # "none" /\ Promise!Truthful(WordOf(r)', FateOf(r)')
  \/ /\ ~sent[r] /\ sent'[r] /\ WordOf(r) # "none" /\ FateOf(r) # "dropped"
     /\ FateOf(r)' = IF Kind[r] = "ONCHAIN" THEN "delivered" ELSE FateOf(r)
     /\ WordOf(r)' = WordOf(r)
  \/ /\ Kind[r] # "ONCHAIN" /\ FateOf(r) = "open"
     /\ \/ FateOf(r)' = "closed"
        \/ sent[r] /\ FateOf(r)' = "delivered"
     /\ sent'[r] = sent[r] /\ WordOf(r)' = WordOf(r)
  \/ /\ ~sent[r] /\ sent'[r] = sent[r] /\ FateOf(r)' = "dropped"
     /\ \/ WordOf(r)' = WordOf(r)
        \/ WordOf(r) # "none" /\ WordOf(r)' \in {"open", "unpaid"}

\* The tenant is told one of the four words.
LEMMA WordType == \A r : WordOf(r) \in {"none", "open", "paid", "unpaid"}
  BY DEF WordOf

\* A step that moves one request and leaves the others is a step of the promise.
LEMMA OneMoves ==
  ASSUME TypeOK, TypeOK', NEW r \in Requests, Moves(r),
         \A q \in Requests \ {r} : SeenSame(q)
  PROVE  [Promise!Next]_Promise!payoutVars
<1> DEFINE fate == [q \in Requests |-> FateOf(q)]
           word == [q \in Requests |-> WordOf(q)]
<1>1. sent \in [Requests -> BOOLEAN] /\ sent' \in [Requests -> BOOLEAN]
  BY DEF TypeOK
<1>2. sent' = [sent EXCEPT ![r] = sent'[r]]
  BY <1>1 DEF SeenSame
<1>3. fate' = [fate EXCEPT ![r] = FateOf(r)'] /\ fate[r] = FateOf(r)
  BY DEF SeenSame
<1>4. word' = [word EXCEPT ![r] = WordOf(r)'] /\ word[r] = WordOf(r)
  BY DEF SeenSame
<1>5. r \in OnChainRequests <=> Kind[r] = "ONCHAIN"
  BY DEF OnChainRequests
<1>6. sent'[r] = sent[r] => sent' = sent
  BY <1>1, <1>2
<1>7. FateOf(r)' = FateOf(r) => fate' = fate
  BY <1>3
<1>8. WordOf(r)' = WordOf(r) => word' = word
  BY <1>4
<1>9. WordOf(r)' \in {"none", "open", "paid", "unpaid"}
  BY WordType DEF WordOf
<1>10. CASE SeenSame(r)
  BY <1>6, <1>7, <1>8, <1>10 DEF SeenSame, Promise!payoutVars
<1>11. CASE /\ sent'[r] = sent[r] /\ FateOf(r)' = FateOf(r)
            /\ WordOf(r)' # "none" /\ Promise!Truthful(WordOf(r)', FateOf(r)')
  <2>1. Promise!Tell(r)
    BY <1>3, <1>4, <1>6, <1>7, <1>9, <1>11 DEF Promise!Tell, Promise!Word
  <2> QED BY <2>1 DEF Promise!Next
<1>12. CASE /\ ~sent[r] /\ sent'[r] /\ WordOf(r) # "none" /\ FateOf(r) # "dropped"
            /\ FateOf(r)' = IF Kind[r] = "ONCHAIN" THEN "delivered" ELSE FateOf(r)
            /\ WordOf(r)' = WordOf(r)
  <2>1. sent' = [sent EXCEPT ![r] = TRUE]
    BY <1>1, <1>2, <1>12
  <2>2. fate' = IF r \in OnChainRequests THEN [fate EXCEPT ![r] = "delivered"] ELSE fate
    BY <1>3, <1>5, <1>7, <1>12
  <2>3. Promise!Leave(r)
    BY <1>3, <1>4, <1>8, <1>12, <2>1, <2>2 DEF Promise!Leave
  <2> QED BY <2>3 DEF Promise!Next
<1>13. CASE /\ Kind[r] # "ONCHAIN" /\ FateOf(r) = "open"
            /\ \/ FateOf(r)' = "closed"
               \/ sent[r] /\ FateOf(r)' = "delivered"
            /\ sent'[r] = sent[r] /\ WordOf(r)' = WordOf(r)
  <2>1. Promise!Close(r) \/ Promise!Deliver(r)
    BY <1>3, <1>5, <1>6, <1>8, <1>13 DEF Promise!Close, Promise!Deliver
  <2> QED BY <2>1 DEF Promise!Next
<1>14. CASE /\ ~sent[r] /\ sent'[r] = sent[r] /\ FateOf(r)' = "dropped"
            /\ \/ WordOf(r)' = WordOf(r)
               \/ WordOf(r) # "none" /\ WordOf(r)' \in {"open", "unpaid"}
  <2>1. Promise!Drop(r)
    BY <1>3, <1>4, <1>6, <1>8, <1>14 DEF Promise!Drop
  <2> QED BY <2>1 DEF Promise!Next
<1> QED BY <1>10, <1>11, <1>12, <1>13, <1>14 DEF Moves

-----------------------------------------------------------------------------
(* The detailed steps are moves.                                           *)

\* The row's word is true of the payment's fate.
LEMMA WordIsTrue ==
  Inv /\ LeaveInv => \A r \in Requests : Promise!Truthful(WordOf(r), FateOf(r))
<1> SUFFICES ASSUME Inv, LeaveInv, NEW r \in Requests
             PROVE  Promise!Truthful(WordOf(r), FateOf(r))
  OBVIOUS
<1> USE DEF Inv, LeaveInv
<1>1. CASE WordOf(r) = "paid"
  <2>1. row[r].status = "COMPLETED"
    BY <1>1 DEF WordOf
  <2>2. IF Kind[r] = "PIX" THEN prov[r] = "sent" ELSE sent[r]
    BY <2>1 DEF WriterInv, Agrees
  <2>3. sent[r] /\ lwk[r] # "idle"
    BY <2>2 DEF CallInv
  <2>4. Kind[r] \in {"PIX", "ONCHAIN"}
    BY KindAssumption
  <2>5. FateOf(r) = "delivered"
    BY <2>2, <2>3, <2>4 DEF FateOf
  <2> QED BY <1>1, <2>5 DEF Promise!Truthful
<1>2. CASE WordOf(r) = "unpaid"
  <2>1. SaysNotPaid(r)
    BY <1>2 DEF WordOf
  <2>2. \/ prov[r] \in {"canceled", "expired", "error"}
        \/ lwk[r] = "idle" /\ pc[r] = "done"
    BY <2>1, InvNotPaid DEF NotPaidIsTrue
  <2>3. FateOf(r) \in {"closed", "dropped"}
    BY <2>2 DEF FateOf, Final
  <2> QED BY <1>2, <2>3 DEF Promise!Truthful
<1>3. CASE WordOf(r) \notin {"paid", "unpaid"}
  BY <1>3 DEF Promise!Truthful
<1> QED BY <1>1, <1>2, <1>3

\* So it is after any step.
LEMMA WordStaysTrue ==
  (Inv /\ LeaveInv => \A r \in Requests : Promise!Truthful(WordOf(r), FateOf(r)))'
  BY WordIsTrue, PTL

\* A request whose own state is left alone is seen unchanged.
LEMMA Untouched ==
  ASSUME NEW q, row'[q].status = row[q].status, row'[q].failure = row[q].failure,
         pc'[q] = pc[q], lwk'[q] = lwk[q], prov'[q] = prov[q], sent'[q] = sent[q]
  PROVE  SeenSame(q)
  BY DEF SeenSame, FateOf, WordOf, SaysNotPaid

\* Its fate depends on four values of its own, of which the stage of a call
\* matters only as done or not.
LEMMA FateSame ==
  ASSUME NEW q, lwk'[q] = lwk[q], prov'[q] = prov[q], sent'[q] = sent[q],
         lwk[q] # "idle" \/ (pc'[q] = "done" <=> pc[q] = "done")
  PROVE  FateOf(q)' = FateOf(q)
  BY DEF FateOf

\* Writing a row that exists, or leaving its word, is telling.
LEMMA TellMoves ==
  ASSUME Inv', LeaveInv', NEW r \in Requests, sent'[r] = sent[r], FateOf(r)' = FateOf(r),
         row'[r].status # "NONE" \/ row'[r] = row[r]
  PROVE  Moves(r)
<1>1. CASE row'[r] = row[r]
  BY <1>1 DEF Moves, SeenSame, WordOf, SaysNotPaid
<1>2. CASE row'[r].status # "NONE"
  <2>2. Promise!Truthful(WordOf(r)', FateOf(r)')
    BY WordStaysTrue DEF Promise!Truthful
  <2>3. WordOf(r)' # "none"
    BY <1>2 DEF WordOf
  <2> QED BY <2>2, <2>3 DEF Moves
<1> QED BY <1>1, <1>2

\* A call that ends before its transfer was started gives up, and fails its row
\* or leaves it.
LEMMA DropMoves ==
  ASSUME Inv, NEW r \in Requests, pc'[r] = "done", lwk[r] = "idle", lwk'[r] = "idle",
         sent'[r] = sent[r],
         row'[r] = row[r] \/ (Born(r) /\ row'[r].status = "FAILED")
  PROVE  Moves(r)
<1>1. FateOf(r)' = "dropped" /\ ~sent[r]
  BY DEF FateOf, Inv, CallInv
<1>2. CASE row'[r] = row[r]
  BY <1>1, <1>2 DEF Moves, WordOf, SaysNotPaid
<1>3. CASE Born(r) /\ row'[r].status = "FAILED"
  <2>1. WordOf(r) # "none" /\ WordOf(r)' \in {"open", "unpaid"}
    BY <1>3 DEF WordOf, Born
  <2> QED BY <1>1, <2>1 DEF Moves
<1> QED BY <1>2, <1>3

\* A step of a call is a move of its own request.
LEMMA CallMoves ==
  ASSUME Inv, LeaveInv, Inv', LeaveInv', NEW r \in Requests, Call(r) \/ Crash(r)
  PROVE  Moves(r) /\ \A q \in Requests \ {r} : SeenSame(q)
<1> USE DEF Inv, TypeOK, callVars, walletVars
<1>1. CASE \/ ReplayKey(r) \/ RefuseDuplicate(r) \/ Refuse(r) \/ CapRefuses(r) \/ KeyClash(r)
  <2>1. /\ pc' = [pc EXCEPT ![r] = "done"]
        /\ UNCHANGED <<row, lwk, prov, sent>>
        /\ pc[r] \in BeforeInsert
    BY <1>1 DEF ReplayKey, RefuseDuplicate, Refuse, CapRefuses, KeyClash, Abort, Goto,
                BeforeInsert
  <2>2. lwk[r] = "idle"
    BY <2>1 DEF CallInv
  <2> QED BY <2>1, <2>2, DropMoves, Untouched
<1>2. CASE \/ NewKey(r) \/ PassDuplicate(r) \/ ReadBalance(r) \/ AcquireLock(r)
           \/ ReadReserve(r) \/ CapAdmits(r)
  <2>1. PICK at \in CallStage \ {"done"} :
          /\ pc' = [pc EXCEPT ![r] = at]
          /\ UNCHANGED <<row, lwk, prov, sent>>
          /\ pc[r] # "done"
    BY <1>2 DEF NewKey, PassDuplicate, ReadBalance, AcquireLock, ReadReserve, CapAdmits, Goto,
                CallStage
  <2> QED BY <2>1, FateSame, TellMoves, Untouched
<1>3. CASE Insert(r)
  <2>1. /\ row'[r].status = "PENDING" /\ pc[r] = "insert" /\ pc'[r] \in {"payout", "window"}
        /\ \A q \in Requests \ {r} : row'[q] = row[q] /\ pc'[q] = pc[q]
        /\ UNCHANGED <<lwk, prov, sent>>
    BY <1>3 DEF Insert, NoRow, Goto
  <2> QED BY <2>1, FateSame, TellMoves, Untouched
<1>4. CASE EulenAccepts(r)
  <2>1. /\ pc[r] = "payout" /\ pc'[r] = "quoted" /\ prov'[r] = "unsent" /\ prov[r] = "none"
        /\ \A q \in Requests \ {r} : prov'[q] = prov[q] /\ pc'[q] = pc[q]
        /\ UNCHANGED <<row, lwk, sent>>
    BY <1>4 DEF EulenAccepts, Goto, CallInv
  <2>2. FateOf(r)' = FateOf(r)
    BY <2>1 DEF FateOf, Final
  <2> QED BY <2>1, <2>2, TellMoves, Untouched
<1>5. CASE EulenRejects(r) \/ EulenUnknown(r) \/ QuoteTooBig(r) \/ WindowExpired(r)
  <2>1. PICK failure \in Failure : WriteFailed(r, failure)
    BY <1>5 DEF EulenRejects, EulenUnknown, QuoteTooBig, WindowExpired, Failure
  <2>2. row'[r].status = "FAILED" /\ \A q \in Requests \ {r} : row'[q] = row[q]
    BY <2>1, WriteFailedEffect
  <2>3. /\ pc' = [pc EXCEPT ![r] = "done"]
        /\ UNCHANGED <<lwk, sent>>
        /\ prov' = prov \/ prov' = [prov EXCEPT ![r] = "unsent"]
        /\ pc[r] \in {"payout", "quoted", "window"}
    BY <1>5 DEF EulenRejects, EulenUnknown, QuoteTooBig, WindowExpired, Goto
  <2>4. lwk[r] = "idle" /\ Born(r)
    BY <2>3 DEF CallInv
  <2> QED BY <2>2, <2>3, <2>4, DropMoves, Untouched
<1>6. CASE FeeWalletUnavailable(r)
  <2>1. row'[r].status = "FAILED" /\ \A q \in Requests \ {r} : row'[q] = row[q]
    BY <1>6, WriteEffect DEF FeeWalletUnavailable
  <2>2. /\ pc' = [pc EXCEPT ![r] = "done"]
        /\ UNCHANGED <<lwk, sent, prov>>
        /\ pc[r] = "window"
    BY <1>6 DEF FeeWalletUnavailable, Goto
  <2>3. lwk[r] = "idle" /\ Born(r)
    BY <2>2 DEF CallInv
  <2> QED BY <2>1, <2>2, <2>3, DropMoves, Untouched
<1>7. CASE StoreQuote(r)
  <2>1. /\ row'[r].status = row[r].status /\ row'[r].failure = row[r].failure
        /\ pc[r] = "quoted" /\ pc'[r] = "window" /\ UNCHANGED <<lwk, prov, sent>>
        /\ \A q \in Requests \ {r} : row'[q] = row[q] /\ pc'[q] = pc[q]
    BY <1>7 DEF StoreQuote, Goto, RowType
  <2>2. row[r].status # "NONE"
    BY <2>1 DEF CallInv, Born
  <2> QED BY <2>1, <2>2, FateSame, TellMoves, Untouched
<1>8. CASE StartSweep(r)
  <2>1. /\ pc[r] = "window" /\ pc'[r] = "sweep" /\ lwk'[r] = "working"
        /\ \A q \in Requests \ {r} : lwk'[q] = lwk[q] /\ pc'[q] = pc[q]
        /\ UNCHANGED <<row, prov, sent>>
    BY <1>8 DEF StartSweep, Goto
  <2>2. FateOf(r)' = FateOf(r)
    BY <2>1 DEF FateOf
  <2> QED BY <2>1, <2>2, TellMoves, Untouched
<1>9. CASE SweepOk(r) \/ SweepRefused(r) \/ SweepLost(r)
  <2>0. /\ row'[r].status \in {"PROCESSING", "COMPLETED", "FAILED"}
        /\ \A q \in Requests \ {r} : row'[q] = row[q]
        /\ SweepLost(r) => row'[r].status # "COMPLETED"
    <3>1. CASE SweepOk(r)
      <4> DEFINE status == IF Kind[r] = "PIX" THEN "PROCESSING" ELSE "COMPLETED"
      <4>1. row' = [row EXCEPT ![r] = [@ EXCEPT !.status = status, !.tx = TRUE, !.fee = TRUE]]
        BY <3>1 DEF SweepOk
      <4>2. row'[r].status = status /\ \A q \in Requests \ {r} : row'[q] = row[q]
        BY <4>1 DEF RowType
      <4>3. ~SweepLost(r) \/ Kind[r] = "PIX" \/ row'[r].status = "FAILED"
        BY WriteFailedEffect DEF SweepLost, Failure
      <4> QED BY <4>2, <4>3
    <3>2. CASE SweepRefused(r)
      BY <3>2, WriteFailedEffect DEF SweepRefused, Failure
    <3>3. CASE SweepLost(r)
      BY <3>3, WriteEffect, WriteFailedEffect DEF SweepLost, Failure
    <3> QED BY <1>9, <3>1, <3>2, <3>3
  <2>1. /\ row'[r].status # "NONE" /\ \A q \in Requests \ {r} : row'[q] = row[q]
        /\ pc' = [pc EXCEPT ![r] = "done"] /\ pc[r] = "sweep"
        /\ UNCHANGED <<lwk, prov, sent>>
    BY <1>9, <2>0 DEF SweepOk, SweepRefused, SweepLost, Goto
  <2>2. CASE lwk[r] # "idle"
    BY <2>1, <2>2, FateSame, TellMoves, Untouched
  <2>3. CASE lwk[r] = "idle"
    <3>1. SweepLost(r) /\ Born(r)
      BY <1>9, <2>1, <2>3 DEF SweepOk, SweepRefused, CallInv
    <3>2. ~sent[r] /\ FateOf(r)' = "dropped"
      BY <2>1, <2>3 DEF CallInv, FateOf
    <3>3. WordOf(r) # "none"
      BY <3>1 DEF WordOf, Born
    <3>4. row'[r].status \in {"PROCESSING", "FAILED"}
      BY <2>0, <3>1
    <3>5. WordOf(r)' \in {"open", "unpaid"}
      BY <3>4 DEF WordOf, SaysNotPaid
    <3>6. Moves(r)
      BY <2>1, <3>2, <3>3, <3>5 DEF Moves
    <3> QED BY <2>1, <3>6, Untouched
  <2> QED BY <2>2, <2>3
<1>10. CASE Crash(r)
  <2>1. pc' = [pc EXCEPT ![r] = "done"] /\ UNCHANGED <<row, lwk, prov, sent>>
    BY <1>10 DEF Crash, Goto
  <2>2. CASE lwk[r] = "idle"
    BY <2>1, <2>2, DropMoves, Untouched
  <2>3. CASE lwk[r] # "idle"
    BY <2>1, <2>3, FateSame, TellMoves, Untouched
  <2> QED BY <2>2, <2>3
<1> QED
  BY <1>1, <1>2, <1>3, <1>4, <1>5, <1>6, <1>7, <1>8, <1>9, <1>10 DEF Call

\* So is a step of the wallet service, of the provider, of a webhook and of the job.
LEMMA OutsideMoves ==
  ASSUME Inv, LeaveInv, Inv', LeaveInv', NEW r \in Requests,
         Wallet(r) \/ ProviderMoves(r) \/ Hook(r) \/ ResolveIndeterminate(r) \/ GrowOld(r)
  PROVE  Moves(r) /\ \A q \in Requests \ {r} : SeenSame(q)
<1> USE DEF Inv, TypeOK, callVars, walletVars
<1>1. CASE LwkBroadcast(r)
  <2>1. /\ lwk[r] = "working" /\ lwk'[r] # "idle" /\ sent'[r] = TRUE
        /\ \A q \in Requests \ {r} : lwk'[q] = lwk[q] /\ sent'[q] = sent[q]
        /\ UNCHANGED <<row, prov, pc>>
    BY <1>1 DEF LwkBroadcast
  <2>2. ~sent[r] /\ Born(r)
    BY <2>1 DEF LeaveInv, CallInv
  <2>3. WordOf(r)' = WordOf(r) /\ WordOf(r) # "none"
    BY <2>1, <2>2 DEF WordOf, SaysNotPaid, Born
  <2>4. FateOf(r) # "dropped" /\ FateOf(r)' = IF Kind[r] = "ONCHAIN" THEN "delivered" ELSE FateOf(r)
    BY <2>1 DEF FateOf
  <2>5. Moves(r)
    BY <2>1, <2>2, <2>3, <2>4 DEF Moves
  <2> QED BY <2>1, <2>5, Untouched
<1>2. CASE LwkShort(r) \/ LwkRefuse(r) \/ LwkStore(r) \/ LwkDie(r)
  <2>1. /\ lwk[r] # "idle" /\ lwk'[r] # "idle"
        /\ \A q \in Requests \ {r} : lwk'[q] = lwk[q]
        /\ UNCHANGED <<row, prov, pc, sent>>
    BY <1>2 DEF LwkShort, LwkRefuse, LwkStore, LwkDie, LwkStops
  <2>2. FateOf(r)' = FateOf(r)
    BY <2>1 DEF FateOf
  <2> QED BY <2>1, <2>2, TellMoves, Untouched
<1>3. CASE ProviderMoves(r)
  <2>1. PICK s \in ProviderNext(prov[r]) :
          prov' = [prov EXCEPT ![r] = s] /\ UNCHANGED <<row, lwk, pc, sent>>
    BY <1>3 DEF ProviderMoves
  <2>2. /\ s \in ProviderStatus /\ prov[r] \in {"unsent", "sending"} /\ prov'[r] = s
        /\ s = "sent" => prov[r] = "sending"
    BY <2>1, NextStatus DEF ProviderNext
  <2>3. Kind[r] = "PIX" /\ (s = "sent" => sent[r])
    BY <2>2, KindAssumption DEF LeaveInv
  <2>4. WordOf(r)' = WordOf(r)
    BY <2>1 DEF WordOf, SaysNotPaid
  <2>5. CASE pc[r] = "done" /\ lwk[r] = "idle"
    BY <2>1, <2>4, <2>5, Untouched DEF Moves, SeenSame, FateOf
  <2>6. CASE ~(pc[r] = "done" /\ lwk[r] = "idle")
    <3>1. FateOf(r) = "open"
      BY <2>2, <2>3, <2>6 DEF FateOf, Final
    <3>2. \/ FateOf(r)' = "open" \/ FateOf(r)' = "closed"
          \/ FateOf(r)' = "delivered" /\ sent[r]
      BY <2>1, <2>2, <2>3, <2>6 DEF FateOf, Final, ProviderStatus
    <3>3. Moves(r)
      BY <2>1, <2>3, <2>4, <3>1, <3>2 DEF Moves, SeenSame
    <3> QED BY <2>1, <3>3, Untouched
  <2> QED BY <2>5, <2>6
<1>4. CASE Hook(r)
  <2>1. \/ UNCHANGED <<row, lwk, pc, sent, prov>>
        \/ \E s \in ProviderStatus : HookWrites(r, s)
    BY <1>4 DEF Hook, HookRecords, HookReads, HookCrashes
  <2>2. CASE UNCHANGED <<row, lwk, pc, sent, prov>>
    BY <2>2, FateSame, TellMoves, Untouched
  <2>3. ASSUME NEW s \in ProviderStatus, HookWrites(r, s)
        PROVE  Moves(r) /\ \A q \in Requests \ {r} : SeenSame(q)
    <3>1. row'[r].status = Mapped(s) /\ \A q \in Requests \ {r} : row'[q] = row[q]
      BY <2>3, WriteEffect DEF HookWrites
    <3>2. UNCHANGED <<lwk, pc, sent, prov>> /\ Mapped(s) # "NONE"
      BY <2>3, MappedType DEF HookWrites
    <3> QED BY <3>1, <3>2, FateSame, TellMoves, Untouched
  <2> QED BY <2>1, <2>2, <2>3
<1>5. CASE ResolveIndeterminate(r)
  <2>1. /\ row'[r].status = row[r].status /\ row[r].status = "PROCESSING"
        /\ \A q \in Requests \ {r} : row'[q] = row[q]
        /\ UNCHANGED <<lwk, pc, sent, prov>>
    BY <1>5 DEF ResolveIndeterminate, RowType
  <2> QED BY <2>1, FateSame, TellMoves, Untouched
<1>6. CASE GrowOld(r)
  BY <1>6, FateSame, TellMoves, Untouched DEF GrowOld
<1> QED BY <1>1, <1>2, <1>3, <1>4, <1>5, <1>6 DEF Wallet

\* And a poll's, of the request it asks about.
LEMMA PollMoves ==
  ASSUME Inv, LeaveInv, Inv', LeaveInv', NEW p \in Pollers, Poll(p)
  PROVE  \/ \A q \in Requests : SeenSame(q)
         \/ \E r \in Requests : Moves(r) /\ \A q \in Requests \ {r} : SeenSame(q)
<1> USE DEF Inv, TypeOK, callVars, walletVars
<1>1. CASE UNCHANGED <<row, lwk, pc, sent, prov>>
  BY <1>1, Untouched
<1>2. CASE PollWrites(p)
  <2> DEFINE r == poll[p].tx
  <2>1. r \in Requests /\ poll[p].status # "NONE"
    BY <1>2 DEF PollWrites, WriterInv
  <2>2. row'[r].status = poll[p].status /\ \A q \in Requests \ {r} : row'[q] = row[q]
    BY <1>2, <2>1, WriteEffect DEF PollWrites
  <2>3. UNCHANGED <<lwk, pc, sent, prov>>
    BY <1>2 DEF PollWrites
  <2>4. Moves(r)
    BY <2>1, <2>2, <2>3, FateSame, TellMoves
  <2> QED BY <2>1, <2>2, <2>3, <2>4, Untouched
<1> QED
  BY <1>1, <1>2 DEF Poll, PollReads, PollAnswered, PollFails

\* Initially nothing has been asked.
LEMMA PromiseInit == Init => Promise!Init
<1> SUFFICES ASSUME Init PROVE Promise!Init
  OBVIOUS
<1>1. ASSUME NEW r \in Requests PROVE FateOf(r) = "open" /\ WordOf(r) = "none"
  <2>1. pc[r] = "key" /\ prov[r] = "none" /\ row[r].status = "NONE" /\ ~sent[r]
    BY DEF Init, NoRow
  <2>2. FateOf(r) = "open"
    <3>1. pc[r] # "done" /\ prov[r] # "sent" /\ prov[r] \notin Final \ {"sent"}
      BY <2>1 DEF Final
    <3>2. CASE Kind[r] = "ONCHAIN"
      BY <2>1, <3>1, <3>2 DEF FateOf
    <3>3. CASE Kind[r] # "ONCHAIN"
      BY <2>1, <3>1, <3>3 DEF FateOf
    <3> QED BY <3>2, <3>3
  <2>3. WordOf(r) = "none"
    BY <2>1 DEF WordOf, SaysNotPaid
  <2> QED BY <2>2, <2>3
<1>2. sent = [r \in Requests |-> FALSE]
  BY DEF Init
<1> QED BY <1>1, <1>2 DEF Promise!Init

\* Every step of the withdrawals is a step of the promise, or none of its business.
LEMMA PromiseStep ==
  ASSUME Inv, LeaveInv, Inv', LeaveInv', [Next]_vars
  PROVE  [Promise!Next]_Promise!payoutVars
<1>1. TypeOK /\ TypeOK'
  BY DEF Inv
<1>2. CASE \A q \in Requests : SeenSame(q)
  <2>1. CASE Requests = {}
    <3>1. sent' = sent
      BY <1>1, <2>1 DEF TypeOK
    <3> QED BY <2>1, <3>1 DEF Promise!payoutVars
  <2>2. CASE Requests # {}
    BY <1>1, <1>2, <2>2, OneMoves DEF Moves
  <2> QED BY <2>1, <2>2
<1>3. CASE \E r \in Requests : Moves(r) /\ \A q \in Requests \ {r} : SeenSame(q)
  BY <1>1, <1>3, OneMoves
<1>4. CASE UNCHANGED vars
  BY <1>2, <1>4, Untouched DEF vars
<1> QED
  BY <1>2, <1>3, <1>4, CallMoves, OutsideMoves, PollMoves DEF Next, Finished

\* The withdrawals implement the promise: money leaves once, never after the call
\* gave up, a delivery stands, and a row never says more than happened.
THEOREM Implements == Spec => KeepsPromise
<1>1. Init => LeaveInv
  BY LeaveInit
<1>2. Spec => [](Inv /\ LeaveInv)
  BY InvInit, InvStep, LeaveInit, LeaveStep, PTL DEF Spec
<1>3. Inv /\ LeaveInv /\ (Inv /\ LeaveInv)' /\ [Next]_vars => [Promise!Next]_Promise!payoutVars
  BY PromiseStep
<1> QED BY <1>2, <1>3, PromiseInit, PTL DEF Spec, KeepsPromise, Promise!Spec

-----------------------------------------------------------------------------
\* A call writes its own row and no other.
LEMMA OwnRow ==
  ASSUME Inv, NEW r \in Requests, Call(r) \/ Crash(r)
  PROVE  \A q \in Requests \ {r} : row'[q] = row[q]
  BY DEF Inv, TypeOK, Call, Crash, ReplayKey, NewKey, RefuseDuplicate, PassDuplicate, Refuse,
         ReadBalance, AcquireLock, ReadReserve, CapRefuses, CapAdmits, KeyClash, Abort, Insert,
         EulenAccepts, EulenRejects, EulenUnknown, QuoteTooBig, StoreQuote, WindowExpired,
         FeeWalletUnavailable, StartSweep, SweepOk, SweepRefused, SweepLost, Write, WriteFailed

\* The unique index: of two calls with one key the second to insert aborts,
\* so the first row stays the only one.
THEOREM OneRow == Spec => []OneRowPerKey
<1>1. Init => OneRowPerKey
  BY DEF Init, NoRow, OneRowPerKey, Born
<1>2. Inv /\ OneRowPerKey /\ [Next]_vars => OneRowPerKey'
  <2> SUFFICES ASSUME Inv, OneRowPerKey, [Next]_vars PROVE OneRowPerKey'
    OBVIOUS
  <2>1. CASE \E r \in Requests : Insert(r)
    <3>1. PICK r \in Requests : ~KeyTaken(r) /\ \A q \in Requests \ {r} : row'[q] = row[q]
      BY <2>1 DEF Insert, Inv, TypeOK
    <3> QED BY <3>1 DEF OneRowPerKey, KeyTaken, Born
  <2>2. CASE \A q \in Requests : Born(q)' => Born(q)
    BY <2>2 DEF OneRowPerKey
  <2>3. \/ \E r \in Requests : Insert(r)
        \/ \A q \in Requests : Born(q)' => Born(q)
    <3>1. CASE \E r \in Requests : Call(r) \/ Crash(r)
      <4>1. PICK r \in Requests : Call(r) \/ Crash(r)
        BY <3>1
      <4>2. CASE pc[r] \in {"payout", "quoted", "window", "sweep"}
        <5>1. Born(r) /\ \A q \in Requests \ {r} : row'[q] = row[q]
          BY <4>1, <4>2, OwnRow DEF Inv, CallInv
        <5> QED BY <5>1 DEF Born
      <4>3. CASE pc[r] \notin {"payout", "quoted", "window", "sweep"}
        <5>1. Insert(r) \/ row' = row
          BY <4>1, <4>3
          DEF Call, Crash, ReplayKey, NewKey, RefuseDuplicate, PassDuplicate, Refuse,
              ReadBalance, AcquireLock, ReadReserve, CapRefuses, CapAdmits, KeyClash, Abort,
              EulenAccepts, EulenRejects, EulenUnknown, QuoteTooBig, StoreQuote,
              WindowExpired, FeeWalletUnavailable, StartSweep, SweepOk, SweepRefused, SweepLost
        <5> QED BY <5>1 DEF Born
      <4> QED BY <4>2, <4>3
    <3>2. CASE \E r \in Requests : Wallet(r) \/ ProviderMoves(r) \/ Hook(r)
                                   \/ ResolveIndeterminate(r) \/ GrowOld(r)
      <4>1. PICK r \in Requests : Wallet(r) \/ ProviderMoves(r) \/ Hook(r)
                                   \/ ResolveIndeterminate(r) \/ GrowOld(r)
        BY <3>2
      <4>2. \/ row' = row
            \/ Born(r) /\ \A q \in Requests \ {r} : row'[q] = row[q]
        <5>1. CASE Hook(r)
          <6>1. \/ row' = row \/ \E s \in ProviderStatus : HookWrites(r, s)
            BY <5>1 DEF Hook, HookRecords, HookReads, HookCrashes
          <6> QED
            BY <6>1, WriteEffect DEF HookWrites, Inv, TypeOK, CallInv, WriterInv
        <5>2. CASE ResolveIndeterminate(r)
          BY <5>2 DEF ResolveIndeterminate, Born, Inv, TypeOK
        <5>3. CASE Wallet(r) \/ ProviderMoves(r) \/ GrowOld(r)
          BY <5>3 DEF Wallet, LwkShort, LwkRefuse, LwkStops, LwkBroadcast, LwkStore, LwkDie,
                      ProviderMoves, GrowOld
        <5> QED BY <4>1, <5>1, <5>2, <5>3
      <4> QED BY <4>2 DEF Born
    <3>3. CASE \E p \in Pollers : Poll(p)
      <4>1. PICK p \in Pollers : Poll(p)
        BY <3>3
      <4>2. CASE PollWrites(p)
        <5> DEFINE r == poll[p].tx
        <5>1. r \in Requests /\ row[r].provider
          BY <4>2 DEF PollWrites, Inv, WriterInv
        <5>2. Born(r)
          BY <5>1 DEF Inv, CallInv
        <5>3. \A q \in Requests \ {r} : row'[q] = row[q]
          BY <4>2, <5>1 DEF PollWrites, Write, Inv, TypeOK
        <5> QED BY <5>2, <5>3 DEF Born
      <4>3. CASE row' = row
        BY <4>3 DEF Born
      <4> QED BY <4>1, <4>2, <4>3 DEF Poll, PollReads, PollAnswered, PollFails
    <3>4. CASE UNCHANGED vars
      BY <3>4 DEF vars, Born
    <3> QED BY <3>1, <3>2, <3>3, <3>4 DEF Next, Finished
  <2> QED BY <2>1, <2>2, <2>3
<1>3. Spec => []Inv /\ [][Next]_vars
  BY Invariance DEF Spec
<1> QED BY <1>1, <1>2, <1>3, PTL DEF Spec

-----------------------------------------------------------------------------
(* Sums over finite sets.  SumFunctionOnSet is a fold; what it comes to is  *)
(* argued with smallest counterexamples among the parts of the index set.  *)

\* A non-empty set of subsets of a finite set has a smallest member.
LEMMA SmallestSubset ==
  ASSUME NEW S, IsFiniteSet(S), NEW C \in SUBSET (SUBSET S), C # {}
  PROVE  \E s \in C : \A t \in C : t \subseteq s => t = s
<1>1. IsWellFoundedOn(StrictSubsetOrdering(S), SUBSET S)
  BY FS_StrictSubsetOrderingWellFounded, FS_FiniteSubsetsOfFinite
<1>2. PICK s \in C : \A t \in C : ~(<<t, s>> \in StrictSubsetOrdering(S))
  BY <1>1, WFMin
<1> QED BY <1>2 DEF StrictSubsetOrdering

\* A non-empty set of naturals has a least member.
LEMMA SmallestNat ==
  ASSUME NEW C \in SUBSET Nat, C # {}
  PROVE  \E n \in C : \A m \in C : n <= m
<1>1. PICK n \in C : \A m \in C : ~(<<m, n>> \in OpToRel(<, Nat))
  BY NatLessThanWellFounded, WFMin
<1>2. \A m \in C : ~(m < n)
  BY <1>1 DEF OpToRel
<1> QED BY <1>2

Chosen(s) == CHOOSE x \in s : TRUE
SumStep(f, g, s) == IF s = {} THEN 0 ELSE f[Chosen(s)] + g[s \ {Chosen(s)}]

\* The fold of SumFunctionOnSet is a function on all parts of the index set that
\* takes one element away at a time: the recursion the library defines it by has a
\* solution, and CHOOSE finds one.
LEMMA SumUnfolds ==
  ASSUME NEW S, IsFiniteSet(S), NEW f
  PROVE  \E g : /\ g = [s \in SUBSET S |-> SumStep(f, g, s)]
                /\ SumFunctionOnSet(f, S) = g[S]
<1> DEFINE UpTo(g, n) == \A s \in SUBSET S : Cardinality(s) < n => g[s] = SumStep(f, g, s)
           Bad == {n \in Nat : ~ \E g : g = [s \in SUBSET S |-> g[s]] /\ UpTo(g, n)}
           iter == CHOOSE g : g = [s \in SUBSET S |->
                  IF s = {} THEN 0
                  ELSE f[CHOOSE x \in s : TRUE] + g[s \ {CHOOSE x \in s : TRUE}]]
<1>1. SumFunctionOnSet(f, S) = iter[S]
  BY DEF SumFunctionOnSet, FoldFunctionOnSet, MapThenFoldSet
<1>s. \A s \in SUBSET S : IsFiniteSet(s) /\ Cardinality(s) \in Nat /\ Cardinality(s) <= Cardinality(S)
  BY FS_Subset, FS_CardinalityType
<1>2. Bad = {}
  <2> SUFFICES ASSUME Bad # {} PROVE FALSE
    OBVIOUS
  <2>1. PICK n \in Bad : \A m \in Bad : n <= m
    <3> HIDE DEF Bad
    <3>1. Bad \subseteq Nat BY DEF Bad
    <3> QED BY <3>1, SmallestNat
  <2>2. n # 0
    <3> DEFINE g == [s \in SUBSET S |-> 0]
    <3>1. g = [s \in SUBSET S |-> g[s]] OBVIOUS
    <3>2. UpTo(g, 0)  BY <1>s
    <3> QED BY <3>1, <3>2
  <2>3. PICK g : g = [s \in SUBSET S |-> g[s]] /\ UpTo(g, n-1)
    <3>1. n - 1 \in Nat /\ ~(n <= n - 1) BY <2>2
    <3> QED BY <3>1, <2>1
  <2> DEFINE h == [s \in SUBSET S |-> SumStep(f, g, s)]
  <2>4. h = [s \in SUBSET S |-> h[s]] OBVIOUS
  <2>5. ASSUME NEW s \in SUBSET S, Cardinality(s) < n PROVE h[s] = SumStep(f, h, s)
    <3>1. CASE s = {} BY <3>1 DEF SumStep
    <3>2. CASE s # {}
      <4> DEFINE t == s \ {Chosen(s)}
      <4>1. Chosen(s) \in s BY <3>2 DEF Chosen
      <4>2. Cardinality(t) < n - 1
        BY <4>1, <1>s, <2>5, FS_RemoveElement
      <4>3. t \in SUBSET S OBVIOUS
      <4>4. g[t] = h[t] BY <4>2, <4>3, <2>3
      <4> QED BY <4>4, <3>2 DEF SumStep
    <3> QED BY <3>1, <3>2
  <2>6. UpTo(h, n) BY <2>5
  <2> QED BY <2>4, <2>6, <2>1
<1>3. PICK g : g = [s \in SUBSET S |-> g[s]] /\ UpTo(g, Cardinality(S) + 1)
  <2>1. S \in SUBSET S
    OBVIOUS
  <2>2. Cardinality(S) + 1 \in Nat
    BY <1>s, <2>1
  <2>3. Cardinality(S) + 1 \notin Bad
    BY <1>2
  <2> QED BY <2>2, <2>3
<1>4. g = [s \in SUBSET S |->
             IF s = {} THEN 0
             ELSE f[CHOOSE x \in s : TRUE] + g[s \ {CHOOSE x \in s : TRUE}]]
  <2>1. \A s \in SUBSET S : g[s] = SumStep(f, g, s)
    <3>1. ASSUME NEW s \in SUBSET S PROVE Cardinality(s) < Cardinality(S) + 1
      <4>1. S \in SUBSET S OBVIOUS
      <4>2. Cardinality(s) \in Nat /\ Cardinality(S) \in Nat /\ Cardinality(s) <= Cardinality(S)
        BY <1>s, <4>1
      <4> QED BY <4>2
    <3> QED BY <1>3, <3>1
  <2> QED BY <1>3, <2>1 DEF SumStep, Chosen
<1>5. iter = [s \in SUBSET S |->
             IF s = {} THEN 0
             ELSE f[CHOOSE x \in s : TRUE] + iter[s \ {CHOOSE x \in s : TRUE}]]
  BY <1>4
<1>6. iter = [s \in SUBSET S |-> SumStep(f, iter, s)]
  BY <1>5 DEF SumStep, Chosen
<1> QED BY <1>1, <1>6
\* A sum satisfies this on all parts of its index set.
Adds(f, g, S) ==
  /\ g[{}] = 0
  /\ \A s \in SUBSET S : g[s] \in Int
  /\ \A s \in SUBSET S : \A x \in s : g[s] = f[x] + g[s \ {x}]

\* The element taken away is the one CHOOSE gives; it might be any.
LEMMA SumAdds ==
  ASSUME NEW S, IsFiniteSet(S), NEW f, \A x \in S : f[x] \in Int
  PROVE  \E g : Adds(f, g, S) /\ SumFunctionOnSet(f, S) = g[S]
<1>1. PICK g : g = [s \in SUBSET S |-> SumStep(f, g, s)] /\ SumFunctionOnSet(f, S) = g[S]
  BY SumUnfolds
<1>2. \A s \in SUBSET S : g[s] = SumStep(f, g, s)
  BY <1>1
<1>3. \A s \in SUBSET S : s # {} => Chosen(s) \in s
  BY DEF Chosen
<1> DEFINE Fine(s) == g[s] \in Int /\ \A x \in s : g[s] = f[x] + g[s \ {x}]
           Bad == {s \in SUBSET S : ~Fine(s)}
<1>4. Bad = {}
  <2> SUFFICES ASSUME Bad # {} PROVE FALSE
    OBVIOUS
  <2>1. PICK s \in Bad : \A t \in Bad : t \subseteq s => t = s
    <3> HIDE DEF Bad
    <3>1. Bad \subseteq SUBSET S BY DEF Bad
    <3> QED BY <3>1, SmallestSubset
  <2>2. \A t \in SUBSET s : t # s => Fine(t)
    BY <2>1
  <2>3. s # {}
    <3> SUFFICES ASSUME s = {} PROVE FALSE
      OBVIOUS
    <3>1. g[s] = 0
      BY <2>1, <1>2 DEF SumStep
    <3> QED BY <2>1, <3>1
  <2> DEFINE c == Chosen(s)
  <2>4. c \in s /\ g[s] = f[c] + g[s \ {c}] /\ s \in SUBSET S
    BY <1>2, <1>3, <2>3 DEF SumStep
  <2> HIDE DEF c
  <2>5. g[s \ {c}] \in Int
    BY <2>2, <2>4
  <2>6. ASSUME NEW x \in s, x # c PROVE g[s] = f[x] + g[s \ {x}]
    <3>1. g[s \ {c}] = f[x] + g[(s \ {c}) \ {x}] /\ g[s \ {x}] = f[c] + g[(s \ {x}) \ {c}]
      <4>1. Fine(s \ {c}) /\ x \in s \ {c} BY <2>6, <2>2, <2>4
      <4>2. Fine(s \ {x}) /\ c \in s \ {x} BY <2>6, <2>2, <2>4
      <4> QED BY <4>1, <4>2
    <3>2. (s \ {c}) \ {x} = (s \ {x}) \ {c} /\ (s \ {c}) \ {x} \in SUBSET s /\ (s \ {c}) \ {x} # s
      BY <2>4
    <3>3. g[(s \ {c}) \ {x}] \in Int /\ f[x] \in Int /\ f[c] \in Int
      BY <3>2, <2>2, <2>4
    <3>4. g[s] = f[c] + (f[x] + g[(s \ {c}) \ {x}])
      BY <2>4, <3>1
    <3>5. g[s \ {x}] = f[c] + g[(s \ {c}) \ {x}]
      BY <3>1, <3>2
    <3> QED BY <3>3, <3>4, <3>5
  <2>7. f[c] \in Int
    BY <2>4
  <2>8. g[s] \in Int
    BY <2>4, <2>5, <2>7
  <2>9. \A x \in s : g[s] = f[x] + g[s \ {x}]
    BY <2>4, <2>6
  <2> QED BY <2>1, <2>8, <2>9
<1>5. g[{}] = 0
  BY <1>2 DEF SumStep
<1>6. \A s \in SUBSET S : Fine(s)
  BY <1>4
<1> HIDE DEF Bad
<1> QED BY <1>1, <1>5, <1>6 DEF Adds

\* Only one function adds so.
LEMMA AddsOnce ==
  ASSUME NEW S, IsFiniteSet(S), NEW f, NEW g, NEW h, Adds(f, g, S), Adds(f, h, S)
  PROVE  g[S] = h[S]
<1> DEFINE Bad == {s \in SUBSET S : g[s] # h[s]}
<1> SUFFICES ASSUME Bad # {} PROVE FALSE
  OBVIOUS
<1>1. PICK s \in Bad : \A t \in Bad : t \subseteq s => t = s
  <2> HIDE DEF Bad
  <2>1. Bad \subseteq SUBSET S BY DEF Bad
  <2> QED BY <2>1, SmallestSubset
<1>2. s # {}
  BY <1>1 DEF Adds
<1>3. PICK x \in s : TRUE
  BY <1>2
<1>4. s \ {x} \notin Bad /\ s \ {x} \in SUBSET S
  BY <1>1, <1>3
<1>5. g[s \ {x}] = h[s \ {x}]
  BY <1>4
<1>6. g[s] = f[x] + g[s \ {x}] /\ h[s] = f[x] + h[s \ {x}] /\ g[s] # h[s]
  BY <1>1, <1>3 DEF Adds
<1> QED BY <1>5, <1>6

\* Over nothing the sum is zero.
LEMMA SumEmpty == \A f : SumFunctionOnSet(f, {}) = 0
<1> TAKE f
<1>1. PICK g : g = [s \in SUBSET {} |-> SumStep(f, g, s)] /\ SumFunctionOnSet(f, {}) = g[{}]
  BY SumUnfolds, FS_EmptySet
<1> QED BY <1>1 DEF SumStep

\* Any element may be taken out of a sum of integers.
LEMMA SumSplits ==
  ASSUME NEW S, IsFiniteSet(S), NEW f, \A x \in S : f[x] \in Int
  PROVE  /\ SumFunctionOnSet(f, S) \in Int
         /\ \A x \in S : SumFunctionOnSet(f, S) = f[x] + SumFunctionOnSet(f, S \ {x})
<1>1. PICK g : Adds(f, g, S) /\ SumFunctionOnSet(f, S) = g[S]
  BY SumAdds
<1>2. ASSUME NEW x \in S PROVE SumFunctionOnSet(f, S \ {x}) = g[S \ {x}]
  <2>1. IsFiniteSet(S \ {x})
    BY FS_RemoveElement
  <2>2. PICK h : Adds(f, h, S \ {x}) /\ SumFunctionOnSet(f, S \ {x}) = h[S \ {x}]
    BY <2>1, SumAdds
  <2>3. Adds(f, g, S \ {x})
    BY <1>1 DEF Adds
  <2> QED BY <2>1, <2>2, <2>3, AddsOnce
<1> QED BY <1>1, <1>2 DEF Adds

\* A sum of smaller integers is smaller; in particular equal functions have equal sums.
LEMMA SumMonotone ==
  ASSUME NEW S, IsFiniteSet(S), NEW f, NEW g,
         \A x \in S : f[x] \in Int /\ g[x] \in Int /\ f[x] <= g[x]
  PROVE  SumFunctionOnSet(f, S) <= SumFunctionOnSet(g, S)
<1> DEFINE Below(s) == SumFunctionOnSet(f, s) <= SumFunctionOnSet(g, s)
           Bad == {s \in SUBSET S : ~Below(s)}
<1> SUFFICES ASSUME Bad # {} PROVE FALSE
  <2>1. S \in SUBSET S
    OBVIOUS
  <2> QED BY <2>1
<1>1. PICK s \in Bad : \A t \in Bad : t \subseteq s => t = s
  <2> HIDE DEF Bad
  <2>1. Bad \subseteq SUBSET S BY DEF Bad
  <2> QED BY <2>1, SmallestSubset
<1>2. IsFiniteSet(s)
  BY <1>1, FS_Subset
<1>3. PICK x \in s : TRUE
  <2>1. Below({})
    BY SumEmpty
  <2>2. ~Below(s)
    BY <1>1
  <2>3. s # {}
    BY ONLY <2>1, <2>2
  <2> QED BY <2>3
<1>4. Below(s \ {x})
  BY <1>1, <1>3
<1>5. /\ SumFunctionOnSet(f, s) = f[x] + SumFunctionOnSet(f, s \ {x})
      /\ SumFunctionOnSet(g, s) = g[x] + SumFunctionOnSet(g, s \ {x})
  BY <1>1, <1>2, <1>3, SumSplits
<1>6. SumFunctionOnSet(f, s \ {x}) \in Int /\ SumFunctionOnSet(g, s \ {x}) \in Int
  <2>1. IsFiniteSet(s \ {x}) /\ \A y \in s \ {x} : f[y] \in Int /\ g[y] \in Int
    BY <1>1, <1>2, FS_RemoveElement
  <2> QED BY <2>1, SumSplits
<1>7. f[x] \in Int /\ g[x] \in Int /\ f[x] <= g[x]
  BY <1>1, <1>3
<1> HIDE DEF Bad
<1>8. Below(s)
  BY <1>4, <1>5, <1>6, <1>7
<1> QED BY <1>1, <1>8 DEF Bad

\* A change at one place changes the sum by as much.
LEMMA SumChanges ==
  ASSUME NEW S, IsFiniteSet(S), NEW f, NEW g, NEW x \in S,
         \A y \in S : f[y] \in Int /\ g[y] \in Int,
         \A y \in S \ {x} : f[y] = g[y]
  PROVE  SumFunctionOnSet(g, S) = SumFunctionOnSet(f, S) - f[x] + g[x]
<1> DEFINE R == S \ {x}
<1>1. IsFiniteSet(R)
  BY FS_RemoveElement
<1>2. SumFunctionOnSet(f, R) \in Int /\ SumFunctionOnSet(g, R) \in Int
  BY <1>1, SumSplits
<1>3. \A y \in R : f[y] \in Int /\ g[y] \in Int /\ f[y] <= g[y] /\ g[y] <= f[y]
  OBVIOUS
<1>4. SumFunctionOnSet(f, R) <= SumFunctionOnSet(g, R) /\ SumFunctionOnSet(g, R) <= SumFunctionOnSet(f, R)
  <2> HIDE DEF R
  <2> QED BY <1>1, <1>3, SumMonotone
<1>5. SumFunctionOnSet(f, S) = f[x] + SumFunctionOnSet(f, R) /\ SumFunctionOnSet(g, S) = g[x] + SumFunctionOnSet(g, R)
  BY SumSplits
<1>6. f[x] \in Int /\ g[x] \in Int
  OBVIOUS
<1> HIDE DEF R
<1> QED BY <1>2, <1>4, <1>5, <1>6
\* Nothing adds up to nothing.
LEMMA SumZero ==
  ASSUME NEW S, IsFiniteSet(S)
  PROVE  SumFunctionOnSet([x \in S |-> 0], S) = 0
<1> DEFINE f == [x \in S |-> 0]
<1>1. PICK g : Adds(f, g, S) /\ SumFunctionOnSet(f, S) = g[S]
  BY SumAdds
<1> DEFINE h == [s \in SUBSET S |-> 0]
<1>2. Adds(f, h, S)
  BY DEF Adds
<1>3. S \in SUBSET S
  OBVIOUS
<1>4. g[S] = h[S]
  <2> HIDE DEF f, h
  <2> QED BY <1>1, <1>2, AddsOnce
<1> QED BY <1>1, <1>3, <1>4

-----------------------------------------------------------------------------
(* The reserve and the daily cap.                                          *)

\* The smaller of two amounts.
LEMMA MinOfTwo == \A a, b \in Nat : Min({a, b}) = IF a <= b THEN a ELSE b
<1> TAKE a, b \in Nat
<1> DEFINE m == IF a <= b THEN a ELSE b
<1>1. m \in {a, b} /\ \A y \in {a, b} : m <= y
  OBVIOUS
<1>2. \A x \in {a, b} : (\A y \in {a, b} : x <= y) => x = m
  OBVIOUS
<1> HIDE DEF m
<1>3. Min({a, b}) = m
  BY <1>1, <1>2 DEF Min
<1> QED BY <1>3 DEF m

\* The amounts the two sums are made of, of one request each.
AmountsFit ==
  \A q \in Requests :
    /\ AdmittedAmount(q) \in Nat /\ AdmittedAmount(q) <= row[q].gross
    /\ AdmittedAmount(q) = (IF Gross[q] <= row[q].gross THEN Gross[q] ELSE row[q].gross)
    /\ Reserved(q) \in Nat /\ Counted(q) \in Nat

\* They are amounts, and what is admitted is the smaller of estimate and quote.
LEMMA AmountsAreNat == TypeOK => AmountsFit
<1> SUFFICES ASSUME TypeOK, NEW q \in Requests
             PROVE  /\ AdmittedAmount(q) \in Nat /\ AdmittedAmount(q) <= row[q].gross
                    /\ AdmittedAmount(q) =
                         (IF Gross[q] <= row[q].gross THEN Gross[q] ELSE row[q].gross)
                    /\ Reserved(q) \in Nat /\ Counted(q) \in Nat
  BY DEF AmountsFit
<1>1. Gross[q] \in Nat /\ row[q].gross \in Nat
  BY AmountsAssumption DEF TypeOK, RowType
<1>2. AdmittedAmount(q) = (IF Gross[q] <= row[q].gross THEN Gross[q] ELSE row[q].gross)
  BY <1>1, MinOfTwo DEF AdmittedAmount
<1> QED BY <1>1, <1>2 DEF Reserved, Counted

\* Rows are born by Insert only, and a row's amount changes by its quote only.
LEMMA RowStep ==
  ASSUME Inv, [Next]_vars, NEW q \in Requests
  PROVE  \/ Insert(q)
         \/ /\ Born(q)' <=> Born(q)
            /\ StoreQuote(q) \/ row'[q].gross = row[q].gross
<1> DEFINE Kept(r) == /\ row'[r].status = "NONE" <=> row[r].status = "NONE"
                      /\ row'[r].gross = row[r].gross
<1> USE DEF Inv, TypeOK, Born
<1>1. CASE row' = row
  BY <1>1
<1>2. ASSUME NEW r \in Requests, Call(r), row' # row
      PROVE  Insert(q) \/ StoreQuote(q) \/ Kept(q)
  <2>1. CASE Insert(r)
    BY <2>1 DEF Insert
  <2>2. CASE StoreQuote(r)
    BY <2>2 DEF StoreQuote
  <2>3. CASE EulenRejects(r) \/ EulenUnknown(r) \/ QuoteTooBig(r) \/ WindowExpired(r)
             \/ SweepRefused(r) \/ FeeWalletUnavailable(r) \/ SweepOk(r) \/ SweepLost(r)
    <3>1. row[r].status # "NONE"
      BY <2>3 DEF EulenRejects, EulenUnknown, QuoteTooBig, WindowExpired, SweepRefused,
                  FeeWalletUnavailable, SweepOk, SweepLost, CallInv
    <3>2. CASE SweepOk(r)
      BY <3>1, <3>2 DEF SweepOk, RowType
    <3>3. CASE \E failure : WriteFailed(r, failure)
      BY <3>1, <3>3 DEF WriteFailed, RowType
    <3>4. CASE Write(r, "FAILED")
      BY <3>1, <3>4 DEF Write, RowType
    <3>5. CASE Write(r, "PROCESSING")
      BY <3>1, <3>5 DEF Write, RowType
    <3> QED BY <2>3, <3>2, <3>3, <3>4, <3>5
            DEF EulenRejects, EulenUnknown, QuoteTooBig, WindowExpired, SweepRefused,
                FeeWalletUnavailable, SweepLost
  <2> QED
    BY <1>2, <2>1, <2>2, <2>3
    DEF Call, ReplayKey, NewKey, RefuseDuplicate, PassDuplicate, Refuse, ReadBalance,
        AcquireLock, ReadReserve, CapRefuses, CapAdmits, KeyClash, Abort, EulenAccepts,
        StartSweep
<1>3. ASSUME NEW r \in Requests, Hook(r) \/ ResolveIndeterminate(r), row' # row
      PROVE  Kept(q)
  <2>1. CASE ResolveIndeterminate(r)
    BY <2>1 DEF ResolveIndeterminate, RowType
  <2>2. ASSUME NEW s \in ProviderStatus, HookWrites(r, s) PROVE Kept(q)
    <3>1. row[r].status # "NONE" /\ Mapped(s) # "NONE"
      BY <2>2, MappedType DEF HookWrites, WriterInv, CallInv
    <3> QED BY <2>2, <3>1 DEF HookWrites, Write, RowType
  <2> QED BY <1>3, <2>1, <2>2 DEF Hook, HookRecords, HookReads, HookCrashes
<1>4. ASSUME NEW p \in Pollers, PollWrites(p)
      PROVE  Kept(q)
  <2>1. /\ poll[p].tx \in Requests /\ row[poll[p].tx].status # "NONE"
        /\ poll[p].status # "NONE"
    BY <1>4 DEF PollWrites, WriterInv, CallInv
  <2> QED BY <1>4, <2>1 DEF PollWrites, Write, RowType
<1>5. Insert(q) \/ StoreQuote(q) \/ Kept(q)
  BY <1>1, <1>2, <1>3, <1>4
  DEF Next, vars, Finished, Crash, Wallet, LwkShort, LwkRefuse, LwkStops, LwkBroadcast,
      LwkStore, LwkDie, ProviderMoves, GrowOld, Poll, PollReads, PollAnswered, PollFails
<1>6. CASE StoreQuote(q)
  <2>1. row[q].status # "NONE"
    BY <1>6 DEF StoreQuote, CallInv
  <2> QED BY <1>6, <2>1 DEF StoreQuote, RowType
<1> QED BY <1>5, <1>6

\* How a call comes to the stages the argument speaks of: the reserve is read on
\* entering "cap", kept on the way to "insert", and rows are quoted only after.
LEMMA StageStep ==
  ASSUME Inv, [Next]_vars, NEW q \in Requests
  PROVE  /\ pc'[q] \in {"cap", "insert"} =>
              \/ ReadReserve(q)
              \/ /\ pc'[q] = pc[q] \/ CapAdmits(q)
                 /\ held'[q] = held[q] /\ bal'[q] = bal[q]
         /\ pc'[q] \in {"payout", "quoted"} =>
              Insert(q) \/ EulenAccepts(q) \/ pc'[q] = pc[q]
         /\ pc'[q] = "insert" => CapAdmits(q) \/ pc[q] = "insert"
<1> USE DEF Inv, TypeOK, callVars
<1>1. ASSUME NEW r \in Requests, Call(r) \/ Crash(r), r # q
      PROVE  pc'[q] = pc[q] /\ held'[q] = held[q] /\ bal'[q] = bal[q]
  BY <1>1
  DEF Call, Crash, ReplayKey, NewKey, RefuseDuplicate, PassDuplicate, Refuse, ReadBalance,
      AcquireLock, ReadReserve, CapRefuses, CapAdmits, KeyClash, Insert, EulenAccepts,
      EulenRejects, EulenUnknown, QuoteTooBig, StoreQuote, WindowExpired,
      FeeWalletUnavailable, StartSweep, SweepOk, SweepRefused, SweepLost, Abort, Goto
<1>2. CASE Call(q) \/ Crash(q)
  BY <1>2
  DEF Call, Crash, ReplayKey, NewKey, RefuseDuplicate, PassDuplicate, Refuse, ReadBalance,
      AcquireLock, ReadReserve, CapRefuses, CapAdmits, KeyClash, Insert, EulenAccepts,
      EulenRejects, EulenUnknown, QuoteTooBig, StoreQuote, WindowExpired,
      FeeWalletUnavailable, StartSweep, SweepOk, SweepRefused, SweepLost, Abort, Goto
<1>3. CASE UNCHANGED <<pc, held, bal>>
  BY <1>3
<1> QED
  BY <1>1, <1>2, <1>3
  DEF Next, vars, Finished, Wallet, LwkShort, LwkRefuse, LwkStops, LwkBroadcast,
      LwkStore, LwkDie, ProviderMoves, Hook, HookRecords, HookReads, HookWrites, HookCrashes,
      ResolveIndeterminate, GrowOld, Poll, PollReads, PollAnswered, PollWrites, PollFails

\* What a step may do to the row of a request, and what the history keeps of it.
KeepsOpenness(q) ==
  /\ q \in reopened => q \in reopened'
  /\ q \in reopened' => q \in reopened \/ Born(q)
  /\ q \notin reopened' =>
       /\ row[q].status \in Terminal => row'[q].status \notin Open
       /\ row[q].status \in Closed => row'[q].status \in Closed

\* A status written by id, noted, is the history's business.
LEMMA NotedStep ==
  ASSUME TypeOK, NEW r \in Requests, NEW status, Notes(r, status),
         row'[r].status = status, \A q \in Requests \ {r} : row'[q] = row[q],
         NEW q \in Requests
  PROVE  KeepsOpenness(q)
<1>1. reopened \subseteq reopened'
  BY NotesType DEF TypeOK
<1>2. CASE q = r
  <2>1. q \notin reopened' =>
          /\ ~(row[q].status \in Closed /\ status \notin Closed)
          /\ ~(row[q].status \in Terminal /\ status \in Open)
    BY <1>2 DEF Notes
  <2>2. q \in reopened' => q \in reopened \/ Born(q)
    BY <1>2 DEF Notes, Born, Terminal, Closed
  <2> QED BY <1>1, <1>2, <2>1, <2>2 DEF KeepsOpenness
<1>3. CASE q # r
  <2>1. row'[q] = row[q] /\ (q \in reopened' <=> q \in reopened)
    BY <1>3 DEF Notes
  <2> QED BY <1>1, <1>3, <2>1 DEF KeepsOpenness, Terminal, Closed, Open
<1> QED BY <1>2, <1>3

\* The history misses nothing: a row that comes back from a terminal status is in it.
LEMMA HistoryStep ==
  ASSUME Inv, [Next]_vars, NEW q \in Requests
  PROVE  KeepsOpenness(q)
<1> USE DEF Inv
<1>1. CASE UNCHANGED <<row, reopened>>
  BY <1>1 DEF KeepsOpenness, Open, Terminal, Closed
<1>2. ASSUME NEW r \in Requests, Call(r) \/ Crash(r), ~UNCHANGED <<row, reopened>>
      PROVE  KeepsOpenness(q)
  <2>1. CASE EulenRejects(r) \/ EulenUnknown(r) \/ QuoteTooBig(r) \/ WindowExpired(r)
             \/ SweepRefused(r) \/ FeeWalletUnavailable(r) \/ SweepLost(r)
    <3>1. CASE \E failure : WriteFailed(r, failure)
      <4>1. PICK failure : WriteFailed(r, failure)
        BY <3>1
      <4>2. Notes(r, "FAILED")
        BY <4>1 DEF WriteFailed
      <4> QED BY <4>1, <4>2, WriteFailedEffect, NotedStep DEF TypeOK
    <3>2. CASE \E status : Write(r, status)
      <4>1. PICK status : Write(r, status)
        BY <3>2
      <4>2. Notes(r, status)
        BY <4>1 DEF Write
      <4> QED BY <4>1, <4>2, WriteEffect, NotedStep DEF TypeOK
    <3> QED
      BY <2>1, <3>1, <3>2
      DEF EulenRejects, EulenUnknown, QuoteTooBig, WindowExpired, SweepRefused,
          FeeWalletUnavailable, SweepLost
  <2>2. CASE SweepOk(r)
    <3>1. PICK status :
            /\ row' = [row EXCEPT ![r] = [@ EXCEPT !.status = status, !.tx = TRUE, !.fee = TRUE]]
            /\ Notes(r, status)
      BY <2>2 DEF SweepOk
    <3>2. row'[r].status = status /\ \A p \in Requests \ {r} : row'[p] = row[p]
      BY <3>1 DEF TypeOK, RowType
    <3> QED BY <3>1, <3>2, NotedStep
  <2>3. CASE Insert(r)
    <3>1. row[r].status = "NONE" /\ reopened' = reopened
          /\ \A p \in Requests \ {r} : row'[p] = row[p]
      BY <2>3 DEF Insert, CallInv, BeforeInsert, Born, TypeOK
    <3> QED BY <3>1 DEF KeepsOpenness, Open, Terminal, Closed
  <2>4. CASE StoreQuote(r)
    <3>1. row'[q].status = row[q].status /\ reopened' = reopened
      BY <2>4 DEF StoreQuote, TypeOK, RowType
    <3> QED BY <3>1 DEF KeepsOpenness, Open, Terminal, Closed
  <2> QED
    BY <1>2, <2>1, <2>2, <2>3, <2>4
    DEF Call, Crash, ReplayKey, NewKey, RefuseDuplicate, PassDuplicate, Refuse, ReadBalance,
        AcquireLock, ReadReserve, CapRefuses, CapAdmits, KeyClash, Abort, EulenAccepts,
        StartSweep
<1>3. ASSUME NEW r \in Requests, Hook(r) \/ ResolveIndeterminate(r),
             ~UNCHANGED <<row, reopened>>
      PROVE  KeepsOpenness(q)
  <2>1. CASE ResolveIndeterminate(r)
    <3>1. row'[q].status = row[q].status /\ reopened' = reopened
      BY <2>1 DEF ResolveIndeterminate, TypeOK, RowType
    <3> QED BY <3>1 DEF KeepsOpenness, Open, Terminal, Closed
  <2>2. ASSUME NEW s \in ProviderStatus, HookWrites(r, s) PROVE KeepsOpenness(q)
    <3>1. Write(r, Mapped(s)) /\ Notes(r, Mapped(s))
      BY <2>2 DEF HookWrites, Write
    <3> QED BY <3>1, WriteEffect, NotedStep DEF TypeOK
  <2> QED BY <1>3, <2>1, <2>2 DEF Hook, HookRecords, HookReads, HookCrashes
<1>4. ASSUME NEW p \in Pollers, PollWrites(p)
      PROVE  KeepsOpenness(q)
  <2>1. poll[p].tx \in Requests
    BY <1>4 DEF PollWrites, WriterInv
  <2>2. Write(poll[p].tx, poll[p].status) /\ Notes(poll[p].tx, poll[p].status)
    BY <1>4 DEF PollWrites, Write
  <2> QED BY <2>1, <2>2, WriteEffect, NotedStep DEF TypeOK
<1> QED
  BY <1>1, <1>2, <1>3, <1>4
  DEF Next, vars, Finished, Wallet, LwkShort, LwkRefuse, LwkStops, LwkBroadcast,
      LwkStore, LwkDie, ProviderMoves, GrowOld, Poll, PollReads, PollAnswered, PollFails

\* A row whose quote is not stored yet holds the estimate it was admitted with,
\* and only rows that exist are reopened.
AdmissionInv ==
  \A r \in Requests :
    /\ pc[r] \in {"payout", "quoted"} => row[r].gross = Gross[r]
    /\ r \in reopened => Born(r)

\* A row keeps the amount it was inserted with until its quote is stored.
LEMMA AdmissionStep == Inv /\ AdmissionInv /\ [Next]_vars => AdmissionInv'
<1> SUFFICES ASSUME Inv, AdmissionInv, [Next]_vars, NEW r \in Requests
             PROVE  /\ pc'[r] \in {"payout", "quoted"} => row'[r].gross = Gross[r]
                    /\ r \in reopened' => Born(r)'
  BY DEF AdmissionInv
<1>1. CASE Insert(r)
  <2>1. row'[r].gross = Gross[r] /\ row'[r].status = "PENDING"
    BY <1>1 DEF Insert, Inv, TypeOK, NoRow
  <2> QED BY <2>1 DEF Born
<1>2. CASE ~Insert(r)
  <2>1. ASSUME pc'[r] \in {"payout", "quoted"} PROVE row'[r].gross = Gross[r]
    <3>1. pc[r] \in {"payout", "quoted"} /\ row[r].gross = Gross[r]
      BY <1>2, <2>1, StageStep DEF EulenAccepts, AdmissionInv
    <3>2. ~StoreQuote(r)
      BY <2>1 DEF StoreQuote, Goto, Inv, TypeOK
    <3> QED BY <1>2, <3>1, <3>2, RowStep
  <2>2. r \in reopened' => Born(r)'
    <3>1. r \in reopened' => Born(r)
      BY HistoryStep DEF KeepsOpenness, AdmissionInv
    <3> QED BY <1>2, <3>1, RowStep
  <2> QED BY <2>1, <2>2
<1> QED BY <1>1, <1>2

\* So it is in every behaviour.
LEMMA Admissions == Spec => []AdmissionInv
<1>1. Init => AdmissionInv
  BY DEF Init, AdmissionInv
<1> QED BY <1>1, AdmissionStep, Invariance, PTL DEF Spec

\* After the insert the admitted amount only falls.
LEMMA AdmittedStep ==
  ASSUME Inv, Inv', AdmissionInv, [Next]_vars, NEW q \in Requests, ~Insert(q)
  PROVE  AdmittedAmount(q)' <= AdmittedAmount(q)
<1>1. CASE StoreQuote(q)
  <2>1. AdmittedAmount(q) = Gross[q]
    BY <1>1, AmountsAreNat DEF AmountsFit, StoreQuote, AdmissionInv, Inv
  <2>2. AdmittedAmount(q)' <= Gross[q]
    <3>1. Gross[q] \in Nat /\ row'[q].gross \in Nat
      BY AmountsAssumption DEF Inv, TypeOK, RowType
    <3> QED BY <3>1, MinOfTwo DEF AdmittedAmount
  <2> QED BY <2>1, <2>2
<1>2. CASE row'[q].gross = row[q].gross
  <2>1. AdmittedAmount(q)' = AdmittedAmount(q)
    BY <1>2 DEF AdmittedAmount
  <2> QED BY <2>1, AmountsAreNat DEF AmountsFit, Inv
<1> QED BY <1>1, <1>2, RowStep

TotalReserved == Total([r \in Requests |-> Reserved(r)])
TotalCounted == Total([r \in Requests |-> Counted(r)])

\* The two sums are integers.
LEMMA TotalsAreInt == TypeOK => TotalReserved \in Int /\ TotalCounted \in Int
<1> SUFFICES ASSUME TypeOK PROVE TotalReserved \in Int /\ TotalCounted \in Int
  OBVIOUS
<1> DEFINE f == [r \in Requests |-> Reserved(r)]
           g == [r \in Requests |-> Counted(r)]
<1>1. \A r \in Requests : f[r] \in Int /\ g[r] \in Int
  BY AmountsAreNat DEF AmountsFit
<1> HIDE DEF f, g
<1>2. SumFunctionOnSet(f, Requests) \in Int /\ SumFunctionOnSet(g, Requests) \in Int
  BY <1>1, SumSplits, RequestsAssumption
<1> QED BY <1>2 DEF TotalReserved, TotalCounted, Total, f, g

\* What one request reserves only falls once it is inserted.
LEMMA ReservedStep ==
  ASSUME Inv, Inv', AdmissionInv, [Next]_vars,
         NEW q \in Requests, ~Insert(q)
  PROVE  Reserved(q)' <= Reserved(q)
<1>1. CASE IsOpen(q)' /\ q \notin reopened'
  <2>1. row'[q].status # "NONE" /\ row'[q].status \in Open
    BY <1>1 DEF IsOpen, Open
  <2>2. row[q].status # "NONE"
    BY <2>1, RowStep DEF Born
  <2>3. row[q].status \notin Terminal /\ q \notin reopened
    BY <1>1, <2>1, HistoryStep DEF KeepsOpenness
  <2>4. IsOpen(q)
    BY <2>1, <2>2, <2>3 DEF IsOpen, Inv, TypeOK, RowType, Status
  <2> QED BY <1>1, <2>3, <2>4, AdmittedStep DEF Reserved
<1>2. CASE ~(IsOpen(q)' /\ q \notin reopened')
  <2>1. Reserved(q)' = 0
    BY <1>2 DEF Reserved
  <2> QED BY <2>1, AmountsAreNat DEF AmountsFit, Inv
<1> QED BY <1>1, <1>2

\* So does what one request counts against the cap.
LEMMA CountedStep ==
  ASSUME Inv, Inv', AdmissionInv, [Next]_vars,
         NEW q \in Requests, ~Insert(q)
  PROVE  Counted(q)' <= Counted(q)
<1> DEFINE Counts == Born(q) /\ row[q].status \notin Closed /\ age[q] < 2 /\ q \notin reopened
<1>1. CASE Counts'
  <2>1. Born(q)
    BY <1>1, RowStep
  <2>2. row[q].status \notin Closed /\ q \notin reopened
    BY <1>1, HistoryStep DEF KeepsOpenness
  <2>3. age[q] < 2
    <3>1. age'[q] = age[q] \/ age'[q] = age[q] + 1
      <4>1. age' = age \/ \E r \in Requests : GrowOld(r)
        <5>1. ASSUME NEW r \in Requests, Call(r) \/ Crash(r) PROVE age' = age
          BY <5>1
          DEF Call, Crash, ReplayKey, NewKey, RefuseDuplicate, PassDuplicate, Refuse,
              ReadBalance, AcquireLock, ReadReserve, CapRefuses, CapAdmits, KeyClash, Insert,
              EulenAccepts, EulenRejects, EulenUnknown, QuoteTooBig, StoreQuote,
              WindowExpired, FeeWalletUnavailable, StartSweep, SweepOk, SweepRefused,
              SweepLost, Abort
        <5> QED
          BY <5>1
          DEF Next, vars, Finished, Wallet, LwkShort, LwkRefuse, LwkStops, LwkBroadcast,
              LwkStore, LwkDie, ProviderMoves, Hook, HookRecords, HookReads, HookWrites,
              HookCrashes, ResolveIndeterminate, Poll, PollReads, PollAnswered,
              PollWrites, PollFails
      <4> QED BY <4>1 DEF GrowOld, Inv, TypeOK
    <3>2. age[q] \in Int
      BY DEF Inv, TypeOK
    <3> QED BY <1>1, <3>1, <3>2
  <2> QED BY <1>1, <2>1, <2>2, <2>3, AdmittedStep DEF Counted
<1>2. CASE ~Counts'
  <2>1. Counted(q)' = 0
    BY <1>2 DEF Counted
  <2> QED BY <2>1, AmountsAreNat DEF AmountsFit, Inv
<1> QED BY <1>1, <1>2

\* An insert adds its gross amount to what is reserved and counted, and changes no other row.
LEMMA InsertAdds ==
  ASSUME Inv, Inv', AdmissionInv, NEW r \in Requests, Insert(r)
  PROVE  /\ Reserved(r) = 0 /\ Counted(r) = 0
         /\ Reserved(r)' = Gross[r] /\ Counted(r)' <= Gross[r]
         /\ \A q \in Requests \ {r} : Reserved(q)' = Reserved(q) /\ Counted(q)' = Counted(q)
<1>1. row[r].status = "NONE" /\ r \notin reopened
  BY DEF Insert, Inv, CallInv, BeforeInsert, Born, AdmissionInv
<1>2. Reserved(r) = 0 /\ Counted(r) = 0
  BY <1>1 DEF Reserved, Counted, Born, IsOpen, Open
<1>3. row'[r].status = "PENDING" /\ row'[r].gross = Gross[r]
  BY DEF Insert, Inv, TypeOK, NoRow
<1>4. AdmittedAmount(r)' = Gross[r] /\ Gross[r] \in Nat
  <2>1. Gross[r] \in Nat
    BY AmountsAssumption
  <2> QED BY <1>3, <2>1, MinOfTwo DEF AdmittedAmount
<1>5. /\ \A q \in Requests \ {r} : row'[q] = row[q] /\ age'[q] = age[q]
      /\ reopened' = reopened
  BY DEF Insert, Inv, TypeOK
<1>6. ASSUME NEW q \in Requests \ {r}
      PROVE  Reserved(q)' = Reserved(q) /\ Counted(q)' = Counted(q)
  BY <1>5 DEF Reserved, Counted, AdmittedAmount, IsOpen, Born
<1> QED
  BY <1>1, <1>2, <1>3, <1>4, <1>5, <1>6 DEF Reserved, Counted, IsOpen, Born, Open, Closed

\* So the sums grow by that amount.
LEMMA InsertTotals ==
  ASSUME Inv, Inv', AdmissionInv, NEW r \in Requests, Insert(r)
  PROVE  TotalReserved' = TotalReserved + Gross[r] /\ TotalCounted' <= TotalCounted + Gross[r]
<1> DEFINE f == [q \in Requests |-> Reserved(q)]
           g == [q \in Requests |-> Reserved(q)']
           h == [q \in Requests |-> Counted(q)]
           k == [q \in Requests |-> Counted(q)']
<1>1. /\ f[r] = 0 /\ g[r] = Gross[r] /\ h[r] = 0 /\ k[r] <= Gross[r]
      /\ \A q \in Requests \ {r} : f[q] = g[q] /\ h[q] = k[q]
  BY InsertAdds
<1>2. \A q \in Requests : f[q] \in Int /\ h[q] \in Int
  BY AmountsAreNat DEF AmountsFit, Inv
<1>3. \A q \in Requests : g[q] \in Int /\ k[q] \in Int
  <2>1. (TypeOK => AmountsFit)'
    BY AmountsAreNat, PTL
  <2> QED BY <2>1 DEF Inv, AmountsFit
<1>4. /\ TotalReserved = SumFunctionOnSet(f, Requests)
      /\ TotalReserved' = SumFunctionOnSet(g, Requests)
      /\ TotalCounted = SumFunctionOnSet(h, Requests)
      /\ TotalCounted' = SumFunctionOnSet(k, Requests)
  BY DEF TotalReserved, TotalCounted, Total
<1>5. TotalReserved \in Int /\ TotalCounted \in Int /\ Gross[r] \in Int
  BY TotalsAreInt, AmountsAssumption DEF Inv
<1>0. IsFiniteSet(Requests)
  BY RequestsAssumption
<1> HIDE DEF f, g, h, k
<1>6. SumFunctionOnSet(g, Requests) = SumFunctionOnSet(f, Requests) - f[r] + g[r]
  BY <1>0, <1>1, <1>2, <1>3, SumChanges
<1>7. SumFunctionOnSet(k, Requests) = SumFunctionOnSet(h, Requests) - h[r] + k[r]
  <2>1. /\ \A q \in Requests : h[q] \in Int /\ k[q] \in Int
        /\ \A q \in Requests \ {r} : h[q] = k[q]
    BY <1>1, <1>2, <1>3
  <2> QED BY ONLY <1>0, <2>1, SumChanges, r \in Requests
<1> QED BY <1>1, <1>3, <1>4, <1>5, <1>6, <1>7

\* Over every other step the reserved sum does not grow.
LEMMA ReservedFalls ==
  ASSUME Inv, Inv', AdmissionInv, [Next]_vars,
         \A r \in Requests : ~Insert(r)
  PROVE  TotalReserved' <= TotalReserved
<1> DEFINE f == [q \in Requests |-> Reserved(q)]
           g == [q \in Requests |-> Reserved(q)']
<1>1. (TypeOK => AmountsFit) /\ (TypeOK => AmountsFit)'
  BY AmountsAreNat, PTL
<1>2. \A q \in Requests : g[q] \in Int /\ f[q] \in Int /\ g[q] <= f[q]
  BY <1>1, ReservedStep DEF Inv, AmountsFit
<1>3. TotalReserved = SumFunctionOnSet(f, Requests) /\ TotalReserved' = SumFunctionOnSet(g, Requests)
  BY DEF TotalReserved, Total
<1> HIDE DEF f, g
<1> QED BY <1>2, <1>3, SumMonotone, RequestsAssumption

\* Nor does the counted one.
LEMMA CountedFalls ==
  ASSUME Inv, Inv', AdmissionInv, [Next]_vars,
         \A r \in Requests : ~Insert(r)
  PROVE  TotalCounted' <= TotalCounted
<1> DEFINE f == [q \in Requests |-> Counted(q)]
           g == [q \in Requests |-> Counted(q)']
<1>1. (TypeOK => AmountsFit) /\ (TypeOK => AmountsFit)'
  BY AmountsAreNat, PTL
<1>2. \A q \in Requests : g[q] \in Int /\ f[q] \in Int /\ g[q] <= f[q]
  BY <1>1, CountedStep DEF Inv, AmountsFit
<1>3. TotalCounted = SumFunctionOnSet(f, Requests) /\ TotalCounted' = SumFunctionOnSet(g, Requests)
  BY DEF TotalCounted, Total
<1> HIDE DEF f, g
<1> QED BY <1>2, <1>3, SumMonotone, RequestsAssumption

\* Behind OpenWithinBalance: from the reading of the reserve to the insert a call holds
\* an upper bound of what is reserved, and the balance it read is not too high.
ReserveInv ==
  /\ balance <= InitialBalance
  /\ \A r \in Requests :
       /\ bal[r] <= InitialBalance
       /\ pc[r] \in {"cap", "insert"} => \A q \in Requests : Reserved(q) <= held[r][q]
       /\ pc[r] = "insert" => Gross[r] <= Available(r)
  /\ TotalReserved <= InitialBalance

\* Behind WithinDailyCap: the check made at "cap" still holds at the insert.
CapInv ==
  /\ \A r \in Requests : pc[r] = "insert" => TotalCounted + Gross[r] <= DailyCap
  /\ TotalCounted <= DailyCap

\* Only the holder of the lock inserts, so nobody in the critical section sees another insert.
LEMMA InsertsAlone ==
  ASSUME LockIsExclusive, LockIsExclusive', NEW r \in Requests, Insert(r)
  PROVE  \A q \in Requests : pc'[q] \notin {"cap", "insert"}
<1>1. lock' = "free" /\ "free" \notin Requests
  BY RequestsAssumption DEF Insert
<1> QED BY <1>1 DEF LockIsExclusive, InCriticalSection

\* What a call found held covers what is reserved.
LEMMA HeldCovers ==
  ASSUME Inv, NEW r \in Requests, \A q \in Requests : Reserved(q) <= held[r][q]
  PROVE  TotalReserved <= bal[r] - Available(r) /\ Available(r) \in Int
<1> DEFINE f == [q \in Requests |-> Reserved(q)]
           g == held[r]
<1>1. \A q \in Requests : f[q] \in Int /\ g[q] \in Int /\ f[q] <= g[q]
  BY AmountsAreNat DEF Inv, TypeOK, AmountsFit
<1>2. TotalReserved = SumFunctionOnSet(f, Requests) /\ bal[r] \in Int
      /\ Available(r) = bal[r] - SumFunctionOnSet(g, Requests)
  BY DEF TotalReserved, Available, Total, Inv, TypeOK
<1> HIDE DEF f, g
<1>3. SumFunctionOnSet(f, Requests) <= SumFunctionOnSet(g, Requests)
      /\ SumFunctionOnSet(f, Requests) \in Int /\ SumFunctionOnSet(g, Requests) \in Int
  BY <1>1, SumMonotone, SumSplits, RequestsAssumption
<1> QED BY <1>2, <1>3

\* The sum of open withdrawals stays within the balance over every step: the call that inserts read, under the lock, an upper bound of it.
LEMMA ReserveStep ==
  ASSUME Inv, Inv', LockIsExclusive, LockIsExclusive', AdmissionInv, ReserveInv,
         [Next]_vars
  PROVE  ReserveInv'
<1> USE DEF Inv, TypeOK, ReserveInv
<1>1. balance' <= InitialBalance
  <2>1. balance' = balance \/ \E r \in Requests : LwkBroadcast(r)
    <3>1. ASSUME NEW r \in Requests, Call(r) \/ Crash(r) PROVE balance' = balance
      BY <3>1
      DEF callVars, walletVars, Call, Crash, ReplayKey, NewKey, RefuseDuplicate, PassDuplicate, Refuse,
          ReadBalance, AcquireLock, ReadReserve, CapRefuses, CapAdmits, KeyClash, Insert,
          EulenAccepts, EulenRejects, EulenUnknown, QuoteTooBig, StoreQuote,
          WindowExpired, FeeWalletUnavailable, StartSweep, SweepOk, SweepRefused,
          SweepLost, Abort
    <3> QED
      BY <3>1
      DEF walletVars, Next, vars, Finished, Wallet, LwkShort, LwkRefuse, LwkStops,
          LwkStore, LwkDie, ProviderMoves, Hook, HookRecords, HookReads, HookWrites,
          HookCrashes, ResolveIndeterminate, GrowOld, Poll, PollReads, PollAnswered,
          PollWrites, PollFails
  <2>2. ASSUME NEW r \in Requests, LwkBroadcast(r) PROVE balance' <= InitialBalance
    <3>1. balance' = balance - row[r].gross /\ row[r].gross \in Nat /\ balance \in Nat
      BY <2>2 DEF LwkBroadcast, RowType
    <3> QED BY <3>1, AmountsAssumption
  <2> QED BY <2>1, <2>2
<1>2. ASSUME NEW r \in Requests PROVE bal'[r] <= InitialBalance
  <2>1. bal' = bal \/ \E q \in Requests : bal' = [bal EXCEPT ![q] = balance]
    <3>1. ASSUME NEW q \in Requests, Call(q) \/ Crash(q)
          PROVE  bal' = bal \/ bal' = [bal EXCEPT ![q] = balance]
      BY <3>1
      DEF callVars, walletVars, Call, Crash, ReplayKey, NewKey, RefuseDuplicate, PassDuplicate, Refuse,
          ReadBalance, AcquireLock, ReadReserve, CapRefuses, CapAdmits, KeyClash, Insert,
          EulenAccepts, EulenRejects, EulenUnknown, QuoteTooBig, StoreQuote,
          WindowExpired, FeeWalletUnavailable, StartSweep, SweepOk, SweepRefused,
          SweepLost, Abort
    <3> QED
      BY <3>1
      DEF callVars, Next, vars, Finished, Wallet, LwkShort, LwkRefuse, LwkStops, LwkBroadcast,
          LwkStore, LwkDie, ProviderMoves, Hook, HookRecords, HookReads, HookWrites,
          HookCrashes, ResolveIndeterminate, GrowOld, Poll, PollReads, PollAnswered,
          PollWrites, PollFails
  <2> QED BY <2>1
<1>3. CASE \E r \in Requests : Insert(r)
  <2>1. PICK r \in Requests : Insert(r)
    BY <1>3
  <2>2. TotalReserved' = TotalReserved + Gross[r]
    BY <2>1, InsertTotals
  <2>3. TotalReserved <= bal[r] - Available(r) /\ Available(r) \in Int /\ Gross[r] <= Available(r)
    <3>1. pc[r] = "insert"
      BY <2>1 DEF Insert
    <3> QED BY <3>1, HeldCovers
  <2>4. bal[r] <= InitialBalance /\ bal[r] \in Int /\ Gross[r] \in Int /\ TotalReserved \in Int
        /\ InitialBalance \in Int
    BY TotalsAreInt, AmountsAssumption
  <2>5. TotalReserved' <= InitialBalance
    BY <2>2, <2>3, <2>4
  <2>6. \A q \in Requests : pc'[q] \notin {"cap", "insert"}
    BY <2>1, InsertsAlone
  <2> QED BY <1>1, <1>2, <2>5, <2>6
<1>4. CASE \A r \in Requests : ~Insert(r)
  <2>1. TotalReserved' <= InitialBalance
    <3>1. TotalReserved' <= TotalReserved
      BY <1>4, ReservedFalls
    <3>2. TotalReserved \in Int /\ TotalReserved' \in Int /\ InitialBalance \in Int
      <4>1. (TypeOK => TotalReserved \in Int /\ TotalCounted \in Int)'
        BY TotalsAreInt, PTL
      <4> QED BY <4>1, TotalsAreInt, AmountsAssumption
    <3> QED BY <3>1, <3>2
  <2>2. \A q \in Requests : Reserved(q)' <= Reserved(q) /\ Reserved(q) \in Int /\ Reserved(q)' \in Int
    <3>1. (TypeOK => AmountsFit) /\ (TypeOK => AmountsFit)'
      BY AmountsAreNat, PTL
    <3> QED BY <1>4, <3>1, ReservedStep DEF AmountsFit
  <2>3. ASSUME NEW r \in Requests, pc'[r] \in {"cap", "insert"}, NEW q \in Requests
        PROVE  Reserved(q)' <= held'[r][q]
    <3>1. CASE ReadReserve(r)
      <4>1. held'[r][q] = IF IsOpen(q) THEN row[q].gross ELSE 0
        BY <3>1 DEF ReadReserve
      <4>2. Reserved(q) <= held'[r][q]
        BY <4>1, AmountsAreNat DEF Reserved, AmountsFit
      <4> QED BY <4>1, <4>2, <2>2 DEF RowType
    <3>2. CASE (pc'[r] = pc[r] \/ CapAdmits(r)) /\ held'[r] = held[r]
      <4>1. pc[r] \in {"cap", "insert"}
        BY <2>3, <3>2 DEF CapAdmits
      <4>2. Reserved(q) <= held[r][q] /\ held[r][q] \in Int
        BY <4>1
      <4> QED BY <3>2, <4>2, <2>2
    <3> QED BY <2>3, <3>1, <3>2, StageStep
  <2>4. ASSUME NEW r \in Requests, pc'[r] = "insert"
        PROVE  Gross[r] <= Available(r)'
    <3>1. ~ReadReserve(r)
      BY <2>4 DEF ReadReserve, Goto
    <3>2. /\ pc'[r] = pc[r] \/ CapAdmits(r)
          /\ held'[r] = held[r] /\ bal'[r] = bal[r]
      BY <2>4, <3>1, StageStep
    <3>3. Available(r)' = Available(r)
      BY <3>2 DEF Available
    <3>4. CASE CapAdmits(r)
      <4>1. Available(r) >= Gross[r] /\ pc[r] = "cap"
        BY <3>4 DEF CapAdmits, Admitted
      <4>2. Available(r) \in Int /\ Gross[r] \in Int
        BY <4>1, HeldCovers, AmountsAssumption
      <4> QED BY <3>3, <4>1, <4>2
    <3>5. CASE pc'[r] = pc[r]
      BY <2>4, <3>3, <3>5
    <3> QED BY <3>2, <3>4, <3>5
  <2> QED BY <1>1, <1>2, <2>1, <2>3, <2>4
<1> QED BY <1>3, <1>4

\* The counted sum stays within the cap over every step.
LEMMA CapStep ==
  ASSUME Inv, Inv', LockIsExclusive, LockIsExclusive', AdmissionInv, CapInv,
         [Next]_vars
  PROVE  CapInv'
<1> USE DEF CapInv
<1>0. /\ TotalCounted \in Int /\ TotalCounted' \in Int /\ DailyCap \in Int
      /\ \A r \in Requests : Gross[r] \in Int
  <2>1. (TypeOK => TotalReserved \in Int /\ TotalCounted \in Int)'
    BY TotalsAreInt, PTL
  <2> QED BY <2>1, TotalsAreInt, AmountsAssumption DEF Inv
<1>1. CASE \E r \in Requests : Insert(r)
  <2>1. PICK r \in Requests : Insert(r)
    BY <1>1
  <2>2. TotalCounted' <= TotalCounted + Gross[r]
    BY <2>1, InsertTotals
  <2>3. TotalCounted + Gross[r] <= DailyCap
    BY <2>1 DEF Insert
  <2>4. \A q \in Requests : pc'[q] # "insert"
    BY <2>1, InsertsAlone
  <2> QED BY <1>0, <2>2, <2>3, <2>4
<1>2. CASE \A r \in Requests : ~Insert(r)
  <2>1. TotalCounted' <= TotalCounted
    BY <1>2, CountedFalls
  <2>2. ASSUME NEW r \in Requests, pc'[r] = "insert"
        PROVE  TotalCounted' + Gross[r] <= DailyCap
    <3>1. CASE CapAdmits(r)
      <4> DEFINE f == [q \in Requests |-> Counted(q)]
                 g == [q \in Requests |-> IF Born(q) /\ row[q].status \notin Closed /\ age[q] < 2
                                          THEN row[q].gross ELSE 0]
      <4>1. SpentToday = SumFunctionOnSet(g, Requests) /\ TotalCounted = SumFunctionOnSet(f, Requests)
        BY DEF SpentToday, TotalCounted, Total
      <4>2. \A q \in Requests : f[q] \in Int /\ g[q] \in Int /\ f[q] <= g[q]
        BY AmountsAreNat DEF AmountsFit, Counted, Inv, TypeOK, RowType
      <4> HIDE DEF f, g
      <4>3. TotalCounted <= SpentToday /\ SpentToday \in Int
        BY <4>1, <4>2, SumMonotone, SumSplits, RequestsAssumption
      <4>4. SpentToday + Gross[r] <= DailyCap
        BY <3>1 DEF CapAdmits, Admitted
      <4> QED BY <1>0, <2>1, <4>3, <4>4
    <3>2. CASE pc[r] = "insert"
      BY <1>0, <2>1, <3>2
    <3> QED BY <2>2, <3>1, <3>2, StageStep
  <2> QED BY <1>0, <2>1, <2>2
<1> QED BY <1>1, <1>2

\* Nothing is reserved and nothing counted at the start.
LEMMA InitTotals == Init => TotalReserved = 0 /\ TotalCounted = 0
<1> SUFFICES ASSUME Init PROVE TotalReserved = 0 /\ TotalCounted = 0
  OBVIOUS
<1> DEFINE f == [q \in Requests |-> Reserved(q)]
           g == [q \in Requests |-> Counted(q)]
<1>1. f = [q \in Requests |-> 0] /\ g = [q \in Requests |-> 0]
  BY DEF Init, NoRow, Reserved, Counted, IsOpen, Born, Open
<1>2. TotalReserved = SumFunctionOnSet(f, Requests) /\ TotalCounted = SumFunctionOnSet(g, Requests)
  BY DEF TotalReserved, TotalCounted, Total
<1> HIDE DEF f, g
<1> QED BY <1>1, <1>2, SumZero, RequestsAssumption

\* However many calls, webhooks and polls race, the open withdrawals never add up
\* to more than the wallet held before the first of them: the advisory lock keeps
\* what a call found reserved an upper bound of it until the insert.  Rows that
\* were reopened are left out, and CallsReopenNothing says who reopens one.
THEOREM WithinBalance == Spec => []OpenWithinBalance
<1>1. Init => ReserveInv
  BY InitTotals, AmountsAssumption DEF Init, ReserveInv
<1>2. Inv /\ Inv' /\ LockIsExclusive /\ LockIsExclusive' /\ AdmissionInv /\ ReserveInv
        /\ [Next]_vars => ReserveInv'
  BY ReserveStep
<1>3. ReserveInv => OpenWithinBalance
  BY DEF ReserveInv, OpenWithinBalance, TotalReserved
<1> QED BY <1>1, <1>2, <1>3, Invariance, LockExclusion, Admissions, PTL DEF Spec

\* However many calls, webhooks and polls race, what counts against the daily cap
\* stays within it, rows that were reopened left out.
THEOREM WithinCap == Spec => []WithinDailyCap
<1>1. Init => CapInv
  BY InitTotals, AmountsAssumption DEF Init, CapInv
<1>2. Inv /\ Inv' /\ LockIsExclusive /\ LockIsExclusive' /\ AdmissionInv /\ CapInv
        /\ [Next]_vars => CapInv'
  BY CapStep
<1>3. CapInv => WithinDailyCap
  BY DEF CapInv, WithinDailyCap, TotalCounted
<1> QED BY <1>1, <1>2, <1>3, Invariance, LockExclusion, Admissions, PTL DEF Spec

\* Without webhooks and polls a row reads PENDING until its own call writes it.
CallAlone ==
  /\ reopened = {}
  /\ \A r \in Requests :
       /\ pc[r] \in {"payout", "quoted", "window", "sweep"} => row[r].status = "PENDING"
       /\ \A s \in ProviderStatus : hook[r][s] \in {"none", "emitted"}

\* With no one else to write a row, each is closed by its own call, at its end.
LEMMA CallAloneStep ==
  ASSUME ~Webhooks, Pollers = {}, Inv, CallAlone, [Next]_vars
  PROVE  CallAlone'
<1> USE DEF Inv, TypeOK, CallAlone
<1>1. CASE UNCHANGED <<row, reopened, pc, hook>>
  BY <1>1
<1>2. ASSUME NEW r \in Requests, Call(r) \/ Crash(r)
      PROVE  CallAlone'
  <2>1. \A q \in Requests \ {r} : row'[q] = row[q] /\ pc'[q] = pc[q] /\ hook'[q] = hook[q]
    <3>1. \A q \in Requests \ {r} : row'[q] = row[q]
      BY <1>2, OwnRow
    <3>2. \A q \in Requests \ {r} : pc'[q] = pc[q] /\ hook'[q] = hook[q]
      BY <1>2
      DEF Call, Crash, ReplayKey, NewKey, RefuseDuplicate, PassDuplicate, Refuse,
          ReadBalance, AcquireLock, ReadReserve, CapRefuses, CapAdmits, KeyClash, Insert,
          EulenAccepts, EulenRejects, EulenUnknown, QuoteTooBig, StoreQuote,
          WindowExpired, FeeWalletUnavailable, StartSweep, SweepOk, SweepRefused,
          SweepLost, Abort, Goto, Announce
    <3> QED BY <3>1, <3>2
  <2>2. \A s \in ProviderStatus : hook'[r][s] \in {"none", "emitted"}
    BY <1>2
    DEF Call, Crash, ReplayKey, NewKey, RefuseDuplicate, PassDuplicate, Refuse,
        ReadBalance, AcquireLock, ReadReserve, CapRefuses, CapAdmits, KeyClash, Insert,
        EulenAccepts, EulenRejects, EulenUnknown, QuoteTooBig, StoreQuote,
        WindowExpired, FeeWalletUnavailable, StartSweep, SweepOk, SweepRefused,
        SweepLost, Abort, Goto, Announce, HookType
  <2>3. reopened' = {}
    <3>1. \/ reopened' = reopened
          \/ row[r].status = "PENDING" /\ \E status : Notes(r, status)
      BY <1>2
      DEF Call, Crash, ReplayKey, NewKey, RefuseDuplicate, PassDuplicate, Refuse,
          ReadBalance, AcquireLock, ReadReserve, CapRefuses, CapAdmits, KeyClash, Insert,
          EulenAccepts, EulenRejects, EulenUnknown, QuoteTooBig, StoreQuote,
          WindowExpired, FeeWalletUnavailable, StartSweep, SweepOk, SweepRefused,
          SweepLost, Abort, Write, WriteFailed
    <3>2. ASSUME NEW status, row[r].status = "PENDING", Notes(r, status)
          PROVE  reopened' = reopened
      BY <3>2 DEF Notes, Terminal, Closed
    <3> QED BY <3>1, <3>2
  <2>4. ASSUME pc'[r] \in {"payout", "quoted", "window", "sweep"}
        PROVE  row'[r].status = "PENDING"
    <3>1. CASE Insert(r)
      BY <3>1 DEF Insert, NoRow
    <3>2. CASE EulenAccepts(r) \/ StartSweep(r)
      BY <3>2 DEF EulenAccepts, StartSweep
    <3>3. CASE StoreQuote(r)
      <4>1. row[r].status = "PENDING" /\ row[r] \in RowType
        BY <3>3 DEF StoreQuote
      <4>2. row'[r] = [row[r] EXCEPT !.provider = TRUE, !.gross = quote[r]]
        BY <3>3 DEF StoreQuote
      <4> QED BY <4>1, <4>2 DEF RowType
    <3> QED
      BY <1>2, <2>4, <3>1, <3>2, <3>3
      DEF Call, Crash, ReplayKey, NewKey, RefuseDuplicate, PassDuplicate, Refuse,
          ReadBalance, AcquireLock, ReadReserve, CapRefuses, CapAdmits, KeyClash,
          EulenRejects, EulenUnknown, QuoteTooBig, WindowExpired, FeeWalletUnavailable,
          SweepOk, SweepRefused, SweepLost, Abort, Goto
  <2> QED BY <2>1, <2>2, <2>3, <2>4
<1>3. ASSUME NEW r \in Requests, Hook(r)
      PROVE  FALSE
  BY <1>3 DEF Hook, HookRecords, HookReads, HookWrites, HookCrashes
<1>4. ASSUME NEW r \in Requests, ProviderMoves(r)
      PROVE  CallAlone'
  <2>1. PICK s \in ProviderNext(prov[r]) :
          hook' = [hook EXCEPT ![r][s] = "emitted"] /\ UNCHANGED <<row, reopened, pc>>
    BY <1>4 DEF ProviderMoves, Announce
  <2> QED BY <2>1 DEF HookType
<1>5. ASSUME NEW r \in Requests, ResolveIndeterminate(r)
      PROVE  CallAlone'
  BY <1>5 DEF ResolveIndeterminate, RowType
<1> QED
  BY <1>1, <1>2, <1>3, <1>4, <1>5
  DEF Next, vars, Finished, Wallet, LwkShort, LwkRefuse, LwkStops, LwkBroadcast,
      LwkStore, LwkDie, GrowOld

\* Where the calls are the rows' only writers no row is ever reopened: that is the
\* work of a webhook or a poll.
THEOREM CallsReopenNothing ==
  ASSUME ~Webhooks, Pollers = {}
  PROVE  Spec => [](reopened = {})
<1>1. Init => CallAlone
  BY DEF Init, CallAlone
<1>2. Inv /\ CallAlone /\ [Next]_vars => CallAlone'
  BY CallAloneStep
<1>3. CallAlone => reopened = {}
  BY DEF CallAlone
<1> QED BY <1>1, <1>2, <1>3, Invariance, PTL DEF Spec

\* So with the calls alone the reserve covers every open row, none left out: what
\* the lock protects is what the calls race for.
TotalOpen == Total([r \in Requests |-> IF IsOpen(r) THEN AdmittedAmount(r) ELSE 0])
THEOREM Reserve ==
  ASSUME ~Webhooks, Pollers = {}
  PROVE  Spec => [](TotalOpen <= InitialBalance)
<1>1. reopened = {} /\ OpenWithinBalance => TotalOpen <= InitialBalance
  <2> SUFFICES ASSUME reopened = {}, OpenWithinBalance PROVE TotalOpen <= InitialBalance
    OBVIOUS
  <2>1. [r \in Requests |-> Reserved(r)]
          = [r \in Requests |-> IF IsOpen(r) THEN AdmittedAmount(r) ELSE 0]
    BY DEF Reserved
  <2> QED BY <2>1 DEF OpenWithinBalance, TotalOpen
<1> QED BY <1>1, CallsReopenNothing, WithinBalance, PTL

=============================================================================
