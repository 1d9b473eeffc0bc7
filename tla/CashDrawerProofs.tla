-------------------------- MODULE CashDrawerProofs --------------------------
(***************************************************************************)
(* Proofs about CashDrawer, for any number of operators, sessions and      *)
(* calls.  What a step does to one session is said once, in StepEffect;    *)
(* every property follows from it.  The two about closed sessions assume   *)
(* that no sale gives cash back for a trade-in (NoGiveBack): that is the   *)
(* one writer that does not lock the session.                              *)
(***************************************************************************)
EXTENDS CashDrawer, TLAPS

NoGiveBack == \A c \in Calls : Op[c] # "downgrade"

SessionType == session \in [Sessions -> Session]
CallType == /\ pc \in [Calls -> Stage]
            /\ target \in [Calls -> SUBSET Sessions]
            /\ seen \in [Calls -> [Sessions -> Int]]

\* A call that only ends (an early return or a throw) keeps the types.
LEMMA EndKeepsType ==
  ASSUME CallType, NEW c \in Calls, End(c)
  PROVE  /\ CallType'
         /\ pc[c] = "looked" /\ pc'[c] = "over"
         /\ \A d \in Calls : d # c => /\ pc'[d] = pc[d]
                                      /\ target'[d] = target[d]
                                      /\ seen'[d] = seen[d]
BY DEF CallType, End, Nothing, Stage

\* A call's reads keep the types: what it remembers of the rows is well typed.
LEMMA LookKeepsType ==
  ASSUME SessionType, CallType, NEW c \in Calls, Look(c)
  PROVE  CallType' /\ UNCHANGED session
<1>1. \A S \in SUBSET Sessions : DrawersOf(S) \in [Sessions -> Int]
  BY DEF SessionType, Session, DrawersOf
<1>2. \A S \in SUBSET Sessions : Found(c, S) =>
        /\ UNCHANGED session
        /\ pc' \in [Calls -> Stage]
        /\ target' \in [Calls -> SUBSET Sessions]
  BY DEF Found, CallType, Stage
<1>3. \A S \in SUBSET Sessions :
        FoundWithMovements(c, S) => CallType' /\ UNCHANGED session
  BY <1>1, <1>2 DEF FoundWithMovements, CallType
<1>4. \A S \in SUBSET Sessions :
        Found(c, S) /\ UNCHANGED seen => CallType' /\ UNCHANGED session
  BY <1>2 DEF CallType
<1>5. CASE LookToOpen(c)
  BY <1>4, <1>5 DEF LookToOpen
<1>6. CASE LookOwn(c)
  <2>1. PICK s \in OpenOf(Actor[c]) : Found(c, {s})
    BY <1>6 DEF LookOwn
  <2>2. {s} \in SUBSET Sessions
    BY <2>1 DEF OpenOf
  <2> QED BY <2>1, <2>2, <1>4, <1>6 DEF LookOwn
<1>7. CASE LookForce(c)
  <2>1. PICK s \in Sessions : FoundWithMovements(c, {s})
    BY <1>7 DEF LookForce
  <2> QED BY <2>1, <1>3
<1>8. CASE LookAuto(c)
  BY <1>3, <1>8 DEF LookAuto
<1>9. CASE LookReview(c)
  <2>1. PICK s \in Sessions : FoundWithMovements(c, {s})
    BY <1>9 DEF LookReview
  <2> QED BY <2>1, <1>3
<1> QED BY <1>5, <1>6, <1>7, <1>8, <1>9 DEF Look

-----------------------------------------------------------------------------
(* What a step does to a session.                                          *)

Same(s) == session'[s] = session[s]

Aged(s) == IsOpen(s) /\ session'[s] = [session[s] EXCEPT !.old = TRUE]

Opened(c, s) ==
  /\ s \in NewSessions(Actor[c])
  /\ session'[s] = [session[s] EXCEPT !.state = "open", !.drawer = Amount[c]]
  /\ \A t \in Sessions \ {s} : Same(t)

Posted(c, s) ==
  /\ Op[c] # "downgrade" => IsOpen(s)
  /\ \E total \in Int :
       /\ session'[s] = [session[s] EXCEPT !.drawer = total]
       /\ Op[c] \in {"outflow", "downgrade"} \/ total >= 0 \/ total >= session[s].drawer

Counted(s) ==
  /\ IsOpen(s)
  /\ session'[s] = [session[s] EXCEPT !.state = "closed", !.closedBy = "operator",
                                      !.counted = session[s].drawer]

Snapped(c, s) ==
  /\ IsOpen(s)
  /\ \E by \in {"manager", "job"} :
       session'[s] = [session[s] EXCEPT !.state = "closed", !.closedBy = by,
                                       !.counted = seen[c][s]]

Reviewed(c, s) ==
  /\ Op[c] = "review"
  /\ s \in target[c]
  /\ IsClosed(s)
  /\ ~session[s].verified
  /\ session'[s] = [session[s] EXCEPT !.verified = TRUE, !.counted = seen[c][s]]

CallEffect(c, s) ==
  \/ Opened(c, s) \/ Posted(c, s) \/ Counted(s) \/ Snapped(c, s)
  \/ Reviewed(c, s)

\* A posted movement changes the ledger of one session by its amount and nothing else.
LEMMA PostEffect ==
  ASSUME SessionType, NEW t \in Sessions, NEW d \in Int, Post(t, d)
  PROVE  /\ session'[t] = [session[t] EXCEPT !.drawer = session[t].drawer + d]
         /\ session[t].drawer + d \in Int
         /\ \A s \in Sessions \ {t} : Same(s)
<1>1. session'[t] = [session[t] EXCEPT !.drawer = session[t].drawer + d]
  BY DEF SessionType, Post
<1>2. session[t].drawer + d \in Int
  BY DEF SessionType, Session
<1>3. \A s \in Sessions \ {t} : Same(s)
  BY DEF SessionType, Post, Same
<1> QED BY <1>1, <1>2, <1>3

\* A close by manager or job writes the snapshot it read into one open session.
LEMMA SnapEffect ==
  ASSUME SessionType, NEW c \in Calls, NEW by \in {"manager", "job"},
         CloseSeen(c, by), NEW s \in Sessions
  PROVE  Same(s) \/ Snapped(c, s)
BY DEF SessionType, CloseSeen, Same, Snapped

\* Of the sessions a call may change, each changes in one of five ways.
LEMMA CommitEffect ==
  ASSUME SessionType, CallType, NEW c \in Calls, Commit(c), NEW s \in Sessions
  PROVE  Same(s) \/ CallEffect(c, s)
<1> USE CallsAssumption
<1>1. CASE Open(c)
  <2>1. PICK t \in NewSessions(Actor[c]) :
          session' = [session EXCEPT
            ![t] = [@ EXCEPT !.state = "open", !.drawer = Amount[c]]]
    BY <1>1 DEF Open
  <2>2. \A u \in Sessions \ {t} : Same(u)
    BY <2>1 DEF SessionType, Same
  <2>3. t \in Sessions
    BY DEF NewSessions
  <2>4. Opened(c, t)
    BY <2>1, <2>2, <2>3 DEF SessionType, Opened
  <2> QED BY <2>2, <2>4 DEF CallEffect
<1>2. CASE Withdraw(c)
  <2>1. PICK t \in Sessions : LockOpen(c, t) /\ Covered(c, t) /\ Post(t, -Amount[c])
    BY <1>2 DEF Withdraw
  <2>2. -Amount[c] \in Int /\ Amount[c] \in Int
    OBVIOUS
  <2>3. session[t].drawer \in Int
    BY DEF SessionType, Session
  <2>4. session[t].drawer + (-Amount[c]) >= 0
    BY <2>1, <2>2, <2>3 DEF Covered
  <2>5. Op[c] # "downgrade" /\ IsOpen(t)
    BY <1>2, <2>1 DEF Withdraw, LockOpen
  <2>6. Posted(c, t)
    BY <2>1, <2>2, <2>4, <2>5, PostEffect DEF Posted
  <2> QED BY <2>1, <2>2, <2>6, PostEffect DEF CallEffect
<1>3. CASE TakeIn(c)
  <2>1. PICK t \in Sessions : LockOpen(c, t) /\ Post(t, Amount[c])
    BY <1>3 DEF TakeIn
  <2>2. Amount[c] \in Int /\ Amount[c] >= 0
    OBVIOUS
  <2>3. session[t].drawer \in Int
    BY DEF SessionType, Session
  <2>4. session[t].drawer + Amount[c] >= session[t].drawer
    BY <2>2, <2>3
  <2>5. Op[c] # "downgrade" /\ IsOpen(t)
    BY <1>3, <2>1 DEF TakeIn, LockOpen
  <2>6. Posted(c, t)
    BY <2>1, <2>2, <2>4, <2>5, PostEffect DEF Posted
  <2> QED BY <2>1, <2>2, <2>6, PostEffect DEF CallEffect
<1>4. CASE PayOut(c)
  <2>1. PICK t \in Sessions : LockOpen(c, t) /\ Post(t, -Amount[c])
    BY <1>4 DEF PayOut
  <2>2. -Amount[c] \in Int
    OBVIOUS
  <2>3. Op[c] = "outflow" /\ IsOpen(t)
    BY <1>4, <2>1 DEF PayOut, LockOpen
  <2>4. Posted(c, t)
    BY <2>1, <2>2, <2>3, PostEffect DEF Posted
  <2> QED BY <2>1, <2>2, <2>4, PostEffect DEF CallEffect
<1>5. CASE GiveBack(c)
  <2>1. PICK t \in target[c] : Post(t, -Amount[c])
    BY <1>5 DEF GiveBack
  <2>2. t \in Sessions /\ -Amount[c] \in Int
    BY DEF CallType
  <2>3. Op[c] = "downgrade"
    BY <1>5 DEF GiveBack
  <2>4. Posted(c, t)
    BY <2>1, <2>2, <2>3, PostEffect DEF Posted
  <2> QED BY <2>1, <2>2, <2>4, PostEffect DEF CallEffect
<1>6. CASE Close(c)
  <2>1. PICK t \in Sessions :
          /\ LockOpen(c, t)
          /\ session' = [session EXCEPT
               ![t] = [@ EXCEPT !.state = "closed", !.closedBy = "operator",
                                !.counted = session[t].drawer]]
    BY <1>6 DEF Close
  <2>2. Counted(t)
    BY <2>1 DEF SessionType, Counted, LockOpen
  <2>3. \A u \in Sessions \ {t} : Same(u)
    BY <2>1 DEF SessionType, Same
  <2> QED BY <2>2, <2>3 DEF CallEffect
<1>7. CASE ForceClose(c)
  BY <1>7, SnapEffect DEF ForceClose, CallEffect
<1>8. CASE AutoClose(c)
  BY <1>8, SnapEffect DEF AutoClose, CallEffect
<1>9. CASE Review(c)
  <2>1. PICK t \in target[c] :
          /\ IsClosed(t)
          /\ ~session[t].verified
          /\ session' = [session EXCEPT
               ![t] = [@ EXCEPT !.verified = TRUE, !.counted = seen[c][t]]]
    BY <1>9 DEF Review
  <2>2. t \in Sessions
    BY DEF CallType
  <2>3. Reviewed(c, t)
    BY <1>9, <2>1, <2>2 DEF SessionType, Reviewed, Review
  <2>4. \A u \in Sessions \ {t} : Same(u)
    BY <2>1 DEF SessionType, Same
  <2> QED BY <2>3, <2>4 DEF CallEffect
<1> QED BY <1>1, <1>2, <1>3, <1>4, <1>5, <1>6, <1>7, <1>8, <1>9 DEF Commit

\* Whatever a call commits, it is over afterwards.
LEMMA CommitEnds ==
  ASSUME NEW c \in Calls, Commit(c)
  PROVE  End(c)
BY DEF Commit, Open, Withdraw, TakeIn, PayOut, GiveBack, Close, ForceClose,
       AutoClose, Review

\* Growing old touches the age of a session alone.
LEMMA AgeEffect ==
  ASSUME SessionType, NEW t \in Sessions, GrowOld(t), NEW s \in Sessions
  PROVE  Same(s) \/ Aged(s)
BY DEF SessionType, GrowOld, Same, Aged

\* Every step leaves a session as it is, ages it, or is the commit of a call.
LEMMA StepEffect ==
  ASSUME SessionType, CallType, [Next]_vars, NEW s \in Sessions
  PROVE  \/ Same(s)
         \/ Aged(s)
         \/ \E c \in Calls : End(c) /\ CallEffect(c, s)
<1>1. CASE UNCHANGED vars
  BY <1>1 DEF vars, Same
<1>2. ASSUME NEW c \in Calls, Look(c) PROVE Same(s)
  BY <1>2, LookKeepsType DEF Same
<1>3. ASSUME NEW c \in Calls, Commit(c)
      PROVE  Same(s) \/ (End(c) /\ CallEffect(c, s))
  BY <1>3, CommitEffect, CommitEnds
<1>4. ASSUME NEW c \in Calls, Fail(c) PROVE Same(s)
  BY <1>4 DEF Fail, Same
<1>5. ASSUME NEW t \in Sessions, GrowOld(t) PROVE Same(s) \/ Aged(s)
  BY <1>5, AgeEffect
<1> QED BY <1>1, <1>2, <1>3, <1>4, <1>5 DEF Next

-----------------------------------------------------------------------------
(* Types.                                                                  *)

\* A commit neither forgets a session nor numbers one out of order.
LEMMA CommitDomain ==
  ASSUME SessionType, NEW c \in Calls, Commit(c)
  PROVE  session' = [s \in Sessions |-> session'[s]]
<1>1. CASE Open(c)
  BY <1>1 DEF Open, SessionType
<1>2. CASE Withdraw(c) \/ TakeIn(c) \/ PayOut(c) \/ GiveBack(c)
  BY <1>2 DEF Withdraw, TakeIn, PayOut, GiveBack, Post, SessionType
<1>3. CASE Close(c)
  BY <1>3 DEF Close, SessionType
<1>4. CASE ForceClose(c) \/ AutoClose(c)
  BY <1>4 DEF ForceClose, AutoClose, CloseSeen
<1>5. CASE Review(c)
  BY <1>5 DEF Review, SessionType
<1> QED BY <1>1, <1>2, <1>3, <1>4, <1>5 DEF Commit

\* Sessions are never deleted.
LEMMA StepDomain ==
  ASSUME SessionType, CallType, [Next]_vars
  PROVE  session' = [s \in Sessions |-> session'[s]]
<1>1. CASE UNCHANGED vars
  BY <1>1 DEF vars, SessionType
<1>2. ASSUME NEW c \in Calls, Look(c) \/ Fail(c) PROVE UNCHANGED session
  BY <1>2, LookKeepsType DEF Fail
<1>3. ASSUME NEW t \in Sessions, GrowOld(t)
      PROVE  session' = [s \in Sessions |-> session'[s]]
  BY <1>3 DEF GrowOld, SessionType
<1> QED BY <1>1, <1>2, <1>3, CommitDomain DEF Next, SessionType

\* The effects of a step on a session leave every field in its range.
LEMMA EffectType ==
  ASSUME SessionType, CallType, NEW s \in Sessions,
         \/ Same(s) \/ Aged(s) \/ \E c \in Calls : CallEffect(c, s)
  PROVE  session'[s] \in Session
<1>0. session[s] \in Session
  BY DEF SessionType
<1>1. CASE Same(s) \/ Aged(s)
  BY <1>0, <1>1 DEF Same, Aged, Session
<1>2. ASSUME NEW c \in Calls, CallEffect(c, s) PROVE session'[s] \in Session
  <2>1. seen[c][s] \in Int
    BY DEF CallType
  <2>2. CASE Opened(c, s)
    <3>1. Amount[c] \in Int
      BY CallsAssumption
    <3>2. session'[s] = [session[s] EXCEPT !.state = "open", !.drawer = Amount[c]]
      BY <2>2 DEF Opened
    <3> QED BY <1>0, <3>1, <3>2 DEF Session
  <2>3. CASE Posted(c, s)
    BY <1>0, <2>3 DEF Posted, Session
  <2>4. CASE Counted(s)
    BY <1>0, <2>4 DEF Counted, Session
  <2>5. CASE Snapped(c, s)
    BY <1>0, <2>1, <2>5 DEF Snapped, Session
  <2>6. CASE Reviewed(c, s)
    BY <1>0, <2>1, <2>6 DEF Reviewed, Session
  <2> QED BY <1>2, <2>2, <2>3, <2>4, <2>5, <2>6 DEF CallEffect
<1> QED BY <1>1, <1>2

\* TypeOK is inductive.
LEMMA StepType ==
  ASSUME TypeOK, [Next]_vars
  PROVE  TypeOK'
<1>1. SessionType /\ CallType
  BY DEF TypeOK, SessionType, CallType
<1>2. \A s \in Sessions : session'[s] \in Session
  BY <1>1, StepEffect, EffectType
<1>3. SessionType'
  BY <1>1, <1>2, StepDomain DEF SessionType
<1>4. CallType'
  <2>1. CASE UNCHANGED vars
    BY <1>1, <2>1 DEF vars, CallType
  <2>2. ASSUME NEW c \in Calls, Look(c) PROVE CallType'
    BY <1>1, <2>2, LookKeepsType
  <2>3. ASSUME NEW c \in Calls, Commit(c) \/ Fail(c) PROVE CallType'
    BY <1>1, <2>3, CommitEnds, EndKeepsType DEF Fail
  <2>4. ASSUME NEW t \in Sessions, GrowOld(t) PROVE CallType'
    BY <1>1, <2>4 DEF GrowOld, CallType
  <2> QED BY <2>1, <2>2, <2>3, <2>4 DEF Next
<1> QED BY <1>3, <1>4 DEF TypeOK, SessionType, CallType

\* Every session, call and snapshot has its type in every behaviour.
THEOREM TypeCorrect == Spec => []TypeOK
<1>1. Init => TypeOK
  <2> SUFFICES ASSUME Init PROVE TypeOK
    OBVIOUS
  <2>1. Unopened \in Session
    BY DEF Unopened, Session
  <2>2. Nothing \in [Sessions -> Int]
    BY DEF Nothing
  <2> QED BY <2>1, <2>2 DEF Init, TypeOK, Stage
<1>2. TypeOK /\ [Next]_vars => TypeOK'
  BY StepType
<1> QED BY <1>1, <1>2, PTL DEF Spec

-----------------------------------------------------------------------------
(* The properties.                                                         *)

\* The unique index is enough: an operator has one open session at most,
\* however many opens passed the check before it.
THEOREM OneOpen == Spec => []OneOpenPerUser
<1>1. Init => OneOpenPerUser
  BY DEF Init, OneOpenPerUser, IsOpen, Unopened
<1>2. TypeOK /\ OneOpenPerUser /\ [Next]_vars => OneOpenPerUser'
  <2> SUFFICES ASSUME TypeOK, OneOpenPerUser, [Next]_vars,
                      NEW s \in Sessions, NEW t \in Sessions,
                      IsOpen(s)', IsOpen(t)', Owner[s] = Owner[t]
               PROVE  s = t
    BY DEF OneOpenPerUser
  <2>1. SessionType /\ CallType
    BY DEF TypeOK, SessionType, CallType
  <2>2. ASSUME NEW u \in Sessions, IsOpen(u)'
        PROVE  IsOpen(u) \/ \E c \in Calls : Opened(c, u)
    <3>1. session[u] \in Session
      BY <2>1 DEF SessionType
    <3>2. ASSUME NEW c \in Calls, CallEffect(c, u), ~Opened(c, u) PROVE IsOpen(u)
      BY <2>2, <3>1, <3>2 DEF CallEffect, Posted, Counted, Snapped, Reviewed,
                              IsOpen, IsClosed, Session
    <3> QED BY <2>1, <2>2, <3>2, StepEffect DEF Same, Aged, IsOpen
  <2>3. ASSUME NEW c \in Calls, NEW u \in Sessions, NEW v \in Sessions,
               Opened(c, u), IsOpen(v)', Owner[u] = Owner[v]
        PROVE  u = v
    <3>1. Owner[u] = Actor[c] /\ OpenOf(Actor[c]) = {}
      BY <2>3 DEF Opened, NewSessions
    <3>2. ~IsOpen(v)
      BY <2>3, <3>1 DEF OpenOf
    <3>3. u # v => IsOpen(v)
      BY <2>3 DEF Opened, Same, IsOpen
    <3> QED BY <3>2, <3>3
  <2> QED BY <2>2, <2>3 DEF OneOpenPerUser
<1> QED BY <1>1, <1>2, TypeCorrect, PTL DEF Spec

\* What a step may do to a closed session when nobody gives cash back: at
\* most the review of a session not yet reviewed.
LEMMA ClosedEffect ==
  ASSUME NoGiveBack, SessionType, CallType, [Next]_vars,
         NEW s \in Sessions, IsClosed(s)
  PROVE  Same(s) \/ \E c \in Calls : End(c) /\ Reviewed(c, s)
<1>1. ~Aged(s)
  BY DEF Aged, IsOpen, IsClosed
<1>2. ASSUME NEW c \in Calls, CallEffect(c, s) PROVE Reviewed(c, s)
  BY <1>2 DEF CallEffect, Opened, Posted, Counted, Snapped, NewSessions,
              NoGiveBack, IsOpen, IsClosed
<1> QED BY <1>1, <1>2, StepEffect

\* Without trade-ins given back in cash, no movement ever reaches a closed
\* session and none is reopened.
THEOREM Frozen == NoGiveBack => (Spec => ClosedIsFrozen)
<1> SUFFICES ASSUME NoGiveBack PROVE Spec => ClosedIsFrozen
  OBVIOUS
<1>1. TypeOK /\ [Next]_vars =>
        \A s \in Sessions : IsClosed(s) =>
          /\ session'[s].state = "closed"
          /\ session'[s].drawer = session[s].drawer
  <2> SUFFICES ASSUME TypeOK, [Next]_vars, NEW s \in Sessions, IsClosed(s)
               PROVE  /\ session'[s].state = "closed"
                      /\ session'[s].drawer = session[s].drawer
    OBVIOUS
  <2>1. SessionType /\ CallType /\ session[s] \in Session
    BY DEF TypeOK, SessionType, CallType
  <2>2. CASE Same(s)
    BY <2>2 DEF Same, IsClosed
  <2>3. ASSUME NEW c \in Calls, Reviewed(c, s)
        PROVE  /\ session'[s].state = "closed"
               /\ session'[s].drawer = session[s].drawer
    BY <2>1, <2>3 DEF Reviewed, IsClosed, Session
  <2> QED BY <2>1, <2>2, <2>3, ClosedEffect
<1> QED BY <1>1, TypeCorrect, PTL DEF Spec, ClosedIsFrozen

\* The first close stands, whatever other closes are in flight, and the
\* balance it recorded changes only at the one review.
THEOREM FirstClose == Spec => FirstCloseStands
<1>1. TypeOK /\ [Next]_vars =>
        \A s \in Sessions : IsClosed(s) =>
          /\ session'[s].closedBy = session[s].closedBy
          /\ session'[s].counted # session[s].counted
               => ~session[s].verified /\ session'[s].verified
          /\ session[s].verified => session'[s].verified
  <2> SUFFICES ASSUME TypeOK, [Next]_vars, NEW s \in Sessions, IsClosed(s)
               PROVE  /\ session'[s].closedBy = session[s].closedBy
                      /\ session'[s].counted # session[s].counted
                           => ~session[s].verified /\ session'[s].verified
                      /\ session[s].verified => session'[s].verified
    OBVIOUS
  <2>1. SessionType /\ CallType /\ session[s] \in Session
    BY DEF TypeOK, SessionType, CallType
  <2>2. CASE Same(s)
    BY <2>2 DEF Same
  <2>3. ASSUME NEW c \in Calls, Posted(c, s)
        PROVE  /\ session'[s].closedBy = session[s].closedBy
               /\ session'[s].counted = session[s].counted
               /\ session'[s].verified = session[s].verified
    BY <2>1, <2>3 DEF Posted, Session
  <2>4. ASSUME NEW c \in Calls, Reviewed(c, s)
        PROVE  /\ session'[s].closedBy = session[s].closedBy
               /\ ~session[s].verified /\ session'[s].verified
    BY <2>1, <2>4 DEF Reviewed, Session
  <2>5. ASSUME NEW c \in Calls, CallEffect(c, s) PROVE Posted(c, s) \/ Reviewed(c, s)
    BY <2>5 DEF CallEffect, Opened, Counted, Snapped, NewSessions, IsOpen, IsClosed
  <2>6. ~Aged(s)
    BY DEF Aged, IsOpen, IsClosed
  <2> QED BY <2>1, <2>2, <2>3, <2>4, <2>5, <2>6, StepEffect
<1> QED BY <1>1, TypeCorrect, PTL DEF Spec, FirstCloseStands

\* The balance a review is about to record is that of the closed session it
\* read, which nothing changes any more.
ReviewsAgree ==
  \A c \in Calls : pc[c] = "looked" /\ Op[c] = "review" =>
    \A s \in target[c] : IsClosed(s) /\ seen[c][s] = session[s].drawer

\* A review remembers a balance that agrees with the closed session it read.
LEMMA LookToReview ==
  ASSUME TypeOK, ReviewsAgree, NEW c \in Calls, Look(c)
  PROVE  ReviewsAgree'
<1>1. UNCHANGED session
  BY LookKeepsType DEF TypeOK, SessionType, CallType
<1>2. ASSUME NEW S \in SUBSET Sessions, Found(c, S)
      PROVE  /\ target'[c] = S
             /\ \A d \in Calls \ {c} : pc'[d] = pc[d] /\ target'[d] = target[d]
  BY <1>2 DEF TypeOK, Found
<1>3. ASSUME Op[c] # "review", NEW S \in SUBSET Sessions, Found(c, S),
             \A d \in Calls \ {c} : seen'[d] = seen[d]
      PROVE  ReviewsAgree'
  BY <1>1, <1>2, <1>3 DEF ReviewsAgree, IsClosed
<1>4. ASSUME NEW S \in SUBSET Sessions, FoundWithMovements(c, S)
      PROVE  /\ seen'[c] = DrawersOf(S)
             /\ \A d \in Calls \ {c} : seen'[d] = seen[d]
  BY <1>4 DEF TypeOK, FoundWithMovements
<1>5. CASE LookToOpen(c)
  BY <1>3, <1>5 DEF LookToOpen
<1>6. CASE LookOwn(c)
  <2>1. PICK s \in OpenOf(Actor[c]) : Found(c, {s})
    BY <1>6 DEF LookOwn
  <2>2. {s} \in SUBSET Sessions
    BY <2>1 DEF OpenOf
  <2>3. Op[c] # "review" /\ UNCHANGED seen
    BY <1>6 DEF LookOwn, LockedWriters
  <2> QED BY <2>1, <2>2, <2>3, <1>3
<1>7. CASE LookForce(c)
  <2>1. PICK s \in Sessions : FoundWithMovements(c, {s})
    BY <1>7 DEF LookForce
  <2> QED BY <2>1, <1>3, <1>4, <1>7 DEF LookForce, FoundWithMovements
<1>8. CASE LookAuto(c)
  BY <1>3, <1>4, <1>8 DEF LookAuto, FoundWithMovements
<1>9. CASE LookReview(c)
  <2>1. PICK s \in Sessions : IsClosed(s) /\ FoundWithMovements(c, {s})
    BY <1>9 DEF LookReview
  <2>2. seen'[c] = DrawersOf({s}) /\ target'[c] = {s}
    BY <2>1, <1>2, <1>4 DEF FoundWithMovements
  <2>3. seen'[c][s] = session[s].drawer
    BY <2>2 DEF DrawersOf
  <2>4. \A d \in Calls \ {c} : /\ pc'[d] = pc[d]
                              /\ target'[d] = target[d]
                              /\ seen'[d] = seen[d]
    BY <2>1, <1>2, <1>4 DEF FoundWithMovements
  <2> QED BY <1>1, <2>1, <2>2, <2>3, <2>4 DEF ReviewsAgree, IsClosed
<1> QED BY <1>5, <1>6, <1>7, <1>8, <1>9 DEF Look

\* The reviews in flight agree with their sessions after every step without a downgrade.
LEMMA ReviewStep ==
  ASSUME NoGiveBack, TypeOK, ReviewsAgree, [Next]_vars
  PROVE  ReviewsAgree'
<1>1. SessionType /\ CallType
  BY DEF TypeOK, SessionType, CallType
<1>2. ASSUME NEW s \in Sessions, IsClosed(s)
      PROVE  session'[s].state = "closed" /\ session'[s].drawer = session[s].drawer
  <2>1. session[s] \in Session
    BY <1>1 DEF SessionType
  <2>2. CASE Same(s)
    BY <1>2, <2>2 DEF Same, IsClosed
  <2>3. ASSUME NEW c \in Calls, Reviewed(c, s)
        PROVE  session'[s].state = "closed" /\ session'[s].drawer = session[s].drawer
    BY <1>2, <2>1, <2>3 DEF Reviewed, IsClosed, Session
  <2> QED BY <1>1, <1>2, <2>2, <2>3, ClosedEffect
<1>3. CASE UNCHANGED vars
  BY <1>3 DEF vars, ReviewsAgree, IsClosed
<1>4. ASSUME NEW c \in Calls, Look(c) PROVE ReviewsAgree'
  BY <1>4, LookToReview
<1>5. ASSUME NEW c \in Calls, End(c) PROVE ReviewsAgree'
  <2> SUFFICES ASSUME NEW d \in Calls, pc'[d] = "looked", Op[d] = "review",
                      NEW s \in target'[d]
               PROVE  /\ session'[s].state = "closed"
                      /\ seen'[d][s] = session'[s].drawer
    BY DEF ReviewsAgree, IsClosed
  <2>1. d # c /\ pc[d] = "looked" /\ target'[d] = target[d] /\ seen'[d] = seen[d]
    BY <1>1, <1>5, EndKeepsType
  <2>2. s \in Sessions /\ IsClosed(s) /\ seen[d][s] = session[s].drawer
    BY <1>1, <2>1 DEF ReviewsAgree, CallType
  <2> QED BY <1>2, <2>1, <2>2
<1>6. ASSUME NEW t \in Sessions, GrowOld(t) PROVE ReviewsAgree'
  <2> SUFFICES ASSUME NEW d \in Calls, pc[d] = "looked", Op[d] = "review",
                      NEW s \in target[d]
               PROVE  /\ session'[s].state = "closed"
                      /\ seen[d][s] = session'[s].drawer
    BY <1>6 DEF ReviewsAgree, IsClosed, GrowOld
  <2>1. s \in Sessions /\ IsClosed(s) /\ seen[d][s] = session[s].drawer
    BY <1>1 DEF ReviewsAgree, CallType
  <2> QED BY <1>2, <2>1
<1> QED BY <1>3, <1>4, <1>5, <1>6, CommitEnds DEF Next, Fail

\* Only a closed session is verified.
VerifiedIsClosed == \A s \in Sessions : session[s].verified => IsClosed(s)

\* Only closed sessions are verified, and their count stays what it was.
LEMMA VerifiedStep ==
  ASSUME NoGiveBack, TypeOK, VerifiedIsClosed, [Next]_vars
  PROVE  VerifiedIsClosed'
<1> SUFFICES ASSUME NEW s \in Sessions, session'[s].verified
             PROVE  session'[s].state = "closed"
  BY DEF VerifiedIsClosed, IsClosed
<1>1. SessionType /\ CallType /\ session[s] \in Session
  BY DEF TypeOK, SessionType, CallType
<1>2. CASE IsClosed(s)
  BY <1>1, <1>2, ClosedEffect DEF Same, Reviewed, IsClosed, Session
<1>3. CASE ~IsClosed(s)
  <2>1. ~session[s].verified
    BY <1>3 DEF VerifiedIsClosed
  <2>2. ~Same(s) /\ ~Aged(s)
    BY <1>1, <2>1 DEF Same, Aged, Session
  <2>3. ASSUME NEW c \in Calls, CallEffect(c, s) PROVE session'[s].state = "closed"
    BY <1>1, <1>3, <2>1, <2>3 DEF CallEffect, Opened, Posted, Counted, Snapped,
                                  Reviewed, Session
  <2> QED BY <1>1, <2>2, <2>3, StepEffect
<1> QED BY <1>2, <1>3

\* An operator's count, and a review's, is the balance of every movement the
\* session ever has, when nobody gives cash back for a trade-in.
THEOREM CountIsTrue == NoGiveBack => (Spec => []OperatorCountIsTrue)
<1> SUFFICES ASSUME NoGiveBack PROVE Spec => []OperatorCountIsTrue
  OBVIOUS
<1>1. Init => ReviewsAgree /\ VerifiedIsClosed /\ OperatorCountIsTrue
  BY DEF Init, ReviewsAgree, VerifiedIsClosed, OperatorCountIsTrue, IsClosed, Unopened
<1>2. TypeOK /\ ReviewsAgree /\ VerifiedIsClosed /\ OperatorCountIsTrue /\ [Next]_vars
        => ReviewsAgree' /\ VerifiedIsClosed' /\ OperatorCountIsTrue'
  <2> SUFFICES ASSUME TypeOK, ReviewsAgree, VerifiedIsClosed, OperatorCountIsTrue,
                      [Next]_vars
               PROVE  OperatorCountIsTrue'
    BY ReviewStep, VerifiedStep
  <2> SUFFICES ASSUME NEW s \in Sessions, session'[s].state = "closed",
                      session'[s].closedBy = "operator" \/ session'[s].verified
               PROVE  session'[s].counted = session'[s].drawer
    BY DEF OperatorCountIsTrue, IsClosed
  <2>1. SessionType /\ CallType /\ session[s] \in Session
    BY DEF TypeOK, SessionType, CallType
  <2>2. CASE Same(s)
    BY <2>2 DEF Same, OperatorCountIsTrue, IsClosed
  <2>3. ASSUME NEW c \in Calls, End(c), Reviewed(c, s)
        PROVE  session'[s].counted = session'[s].drawer
    <3>1. pc[c] = "looked" /\ seen[c][s] = session[s].drawer
      BY <2>1, <2>3, EndKeepsType DEF Reviewed, ReviewsAgree
    <3> QED BY <2>1, <2>3, <3>1 DEF Reviewed, Session
  <2>4. CASE IsClosed(s)
    BY <2>1, <2>2, <2>3, <2>4, ClosedEffect
  <2>5. CASE ~IsClosed(s)
    <3>1. ~session[s].verified
      BY <2>5 DEF VerifiedIsClosed
    <3>2. ~Same(s) /\ ~Aged(s)
      BY <2>1, <2>5 DEF Same, Aged, IsOpen, IsClosed, Session
    <3>3. ASSUME NEW c \in Calls, CallEffect(c, s) PROVE Counted(s)
      <4>1. ~Opened(c, s)
        BY <2>1 DEF Opened, Session
      <4>2. ~Posted(c, s)
        BY <2>1, <2>5 DEF Posted, IsClosed, Session
      <4>3. ~Snapped(c, s)
        BY <2>1, <3>1 DEF Snapped, Session
      <4>4. ~Reviewed(c, s)
        BY <2>5 DEF Reviewed
      <4> QED BY <3>3, <4>1, <4>2, <4>3, <4>4 DEF CallEffect
    <3>4. Counted(s)
      BY <2>1, <3>2, <3>3, StepEffect
    <3> QED BY <2>1, <3>4 DEF Counted, Session
  <2> QED BY <2>4, <2>5
<1> QED BY <1>1, <1>2, TypeCorrect, PTL DEF Spec

\* A withdrawal or a cash expense never overdraws the drawer, for any number
\* of them in flight.
THEOREM Covers == Spec => WithdrawalsAreCovered
<1>1. TypeOK /\ [Next]_vars =>
        \A s \in Sessions :
          session'[s].drawer < session[s].drawer /\ session'[s].drawer < 0 =>
            \E c \in Calls : /\ pc[c] = "looked" /\ pc'[c] = "over"
                             /\ Op[c] \in {"outflow", "downgrade"}
  <2> SUFFICES ASSUME TypeOK, [Next]_vars, NEW s \in Sessions,
                      session'[s].drawer < session[s].drawer, session'[s].drawer < 0
               PROVE  \E c \in Calls : /\ pc[c] = "looked" /\ pc'[c] = "over"
                                       /\ Op[c] \in {"outflow", "downgrade"}
    OBVIOUS
  <2>1. SessionType /\ CallType /\ session[s] \in Session
    BY DEF TypeOK, SessionType, CallType
  <2>2. ~Same(s) /\ ~Aged(s)
    BY <2>1 DEF Same, Aged, Session
  <2>3. PICK c \in Calls : End(c) /\ CallEffect(c, s)
    BY <2>1, <2>2, StepEffect
  <2>4. ~Opened(c, s)
    <3>1. Amount[c] \in Nat
      BY CallsAssumption
    <3>2. CASE session'[s] = [session[s] EXCEPT !.state = "open", !.drawer = Amount[c]]
      BY <2>1, <3>1, <3>2 DEF Session
    <3> QED BY <3>2 DEF Opened
  <2>5. ~Counted(s) /\ ~Snapped(c, s) /\ ~Reviewed(c, s)
    <3>1. session[s].drawer \in Int
      BY <2>1 DEF Session
    <3>2. session'[s].drawer # session[s].drawer
      BY <3>1
    <3>3. ~Counted(s)
      BY <2>1, <3>2 DEF Counted, Session
    <3>4. ~Snapped(c, s)
      BY <2>1, <3>2 DEF Snapped, Session
    <3>5. ~Reviewed(c, s)
      BY <2>1, <3>2 DEF Reviewed, Session
    <3> QED BY <3>3, <3>4, <3>5
  <2>6. Posted(c, s)
    BY <2>3, <2>4, <2>5 DEF CallEffect
  <2>7. Op[c] \in {"outflow", "downgrade"}
    BY <2>1, <2>6 DEF Posted, Session
  <2> QED BY <2>1, <2>3, <2>7, EndKeepsType
<1> QED BY <1>1, TypeCorrect, PTL DEF Spec, WithdrawalsAreCovered

=============================================================================
