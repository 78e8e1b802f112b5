------------------------ MODULE AssistantTurns_proof ------------------------
(***************************************************************************)
(* Theorems about AssistantTurns, for every number of conversations, users *)
(* turns and cards, and every limit.                                       *)
(***************************************************************************)
EXTENDS AssistantTurns, FiniteSetTheorems, TLAPS

USE DEF convVars, turnVars, actionVars, runnerVars, worldVars

----------------------------------------------------------------------------
(* Counting turns. *)

LEMMA TurnSetsFinite ==
    ASSUME NEW T \in SUBSET Turns
    PROVE  IsFiniteSet(T) /\ Cardinality(T) \in Nat
BY FS_Subset, FS_CardinalityType, TurnsAssumption

\* The n-fold decrement that stops at zero never does: it takes away exactly the
\* turns that were still counted.
LEMMA DecreaseExact ==
    ASSUME NEW S \in SUBSET Turns, NEW T \in SUBSET Turns
    PROVE  Decrease(Cardinality(S), Cardinality(T \cap S)) = Cardinality(S \ T)
<1>1. IsFiniteSet(S) /\ Cardinality(S) \in Nat /\ Cardinality(T \cap S) \in Nat
  <2>1. T \cap S \in SUBSET Turns
    OBVIOUS
  <2>2. QED
    BY <2>1, TurnSetsFinite
<1>2. Cardinality(S \ T) = Cardinality(S) - Cardinality(S \cap T) /\ S \cap T = T \cap S
  BY <1>1, FS_Difference
<1>3. Cardinality(S \ T) \in Nat
  <2>1. S \ T \in SUBSET Turns
    OBVIOUS
  <2>2. QED
    BY <2>1, TurnSetsFinite
<1>4. QED
  BY <1>1, <1>2, <1>3 DEF Decrease

----------------------------------------------------------------------------
(* Type correctness, one lemma per piece of a transaction. *)

LEMMA FinishKeepsType ==
    ASSUME TypeOK, NEW T \in SUBSET Turns, \A t \in T : status[t] # "none",
           NEW result \in Terminal, FinishTurns(T, result)
    PROVE  ConvsOK' /\ TurnsOK' /\ \A t \in Turns : status'[t] = "none" <=> status[t] = "none"
<1>1. ConvsOK'
  BY DEF TypeOK, ConvsOK, FinishTurns, ReleaseLease
<1>2. status' \in [Turns -> {"none", "running", "deleted"} \cup Terminal]
      /\ \A t \in Turns : status'[t] = "none" <=> status[t] = "none"
  BY DEF TypeOK, TurnsOK, FinishTurns, Terminal
<1>3. admitted' \subseteq Turns /\ globalActive' \in Nat /\ userActive' \in [Users -> Nat]
  <2>1. Cardinality(T \cap admitted) \in Nat
    <3>1. T \cap admitted \in SUBSET Turns
      OBVIOUS
    <3>2. QED
      BY <3>1, TurnSetsFinite
  <2>2. \A u \in Users : Cardinality(OfUser(T \cap admitted, u)) \in Nat
    <3>1. \A u \in Users : OfUser(T \cap admitted, u) \in SUBSET Turns
      BY DEF OfUser
    <3>2. QED
      BY <3>1, TurnSetsFinite
  <2>3. \A x, n \in Nat : Decrease(x, n) \in Nat
    BY DEF Decrease
  <2>4. globalActive' \in Nat
    BY <2>1, <2>3 DEF TypeOK, TurnsOK, FinishTurns, ReleaseAdmission
  <2>5. userActive' \in [Users -> Nat]
    BY <2>2, <2>3 DEF TypeOK, TurnsOK, FinishTurns, ReleaseAdmission
  <2>6. QED
    BY <2>4, <2>5 DEF TypeOK, TurnsOK, FinishTurns, ReleaseAdmission
<1>4. QED
  BY <1>1, <1>2, <1>3 DEF TypeOK, TurnsOK, FinishTurns

LEMMA InsertKeepsType ==
    ASSUME TypeOK, NEW t \in Turns, NEW c \in Convs, NEW m \in Msgs \cup Actions,
           NEW start \in Points, start \in ConfirmPoints => m \in Actions,
           InsertTurn(t, c, m, start)
    PROVE  ConvsOK' /\ TurnsOK' /\ RunnersOK'
<1>1. ConvsOK'
  BY DEF TypeOK, ConvsOK, InsertTurn, TakeLease
<1>2. TurnsOK'
  BY TurnsAssumption DEF TypeOK, TurnsOK, InsertTurn, Reserve
<1>3. RunnersOK'
  BY DEF TypeOK, TurnsOK, RunnersOK, InsertTurn, NextRow
<1>4. QED
  BY <1>1, <1>2, <1>3

LEMMA CloseKeepsType ==
    ASSUME TypeOK, NEW A \in SUBSET Actions, \A a \in A : action[a] # "none",
           NEW how \in Resolved, Close(A, how)
    PROVE  ActionsOK'
BY DEF TypeOK, ActionsOK, Close, Resolved

LEMMA RemoveKeepsType ==
    ASSUME TypeOK, NEW D \in SUBSET Convs, Remove(D)
    PROVE  TypeOK'
<1>1. ConvsOK'
  BY DEF TypeOK, ConvsOK, Remove
<1>2. TurnsOK'
  BY DEF TypeOK, TurnsOK, Remove, TurnsOf
<1>3. ActionsOK'
  BY TurnsAssumption DEF TypeOK, ActionsOK, Remove, ActionsOf, TurnsOf
<1>4. RunnersOK' /\ WritesOK'
  BY DEF TypeOK, RunnersOK, WritesOK, Remove, TurnsOf
<1>5. QED
  BY <1>1, <1>2, <1>3, <1>4 DEF TypeOK

\* A runner may go to any point; to those of a confirmation only when it is there.
LEMMA GotoKeepsType ==
    ASSUME TypeOK, NEW t \in Turns, NEW point \in Points, Goto(t, point),
           pc[t] # "off", point \in ConfirmPoints => pc[t] \in ConfirmPoints,
           turnMsg' = turnMsg, \A s \in Turns : status'[s] = "none" <=> status[s] = "none"
    PROVE  RunnersOK'
BY DEF TypeOK, RunnersOK, Goto

----------------------------------------------------------------------------
(* Type correctness, one lemma per group of actions. *)

LEMMA UserStepKeepsType ==
    ASSUME TypeOK, UserStep
    PROVE  TypeOK'
<1>1. ASSUME NEW c \in Convs, NEW m \in Msgs, NEW t \in Turns, StartTurn(c, m, t)
      PROVE  TypeOK'
  <2>1. ConvsOK' /\ TurnsOK' /\ RunnersOK'
    <3>1. "begin" \in Points /\ "begin" \notin ConfirmPoints
      BY DEF Points, LoopPoints, ConfirmPoints
    <3>2. InsertTurn(t, c, m, "begin")
      BY <1>1 DEF StartTurn
    <3>3. QED
      BY <3>1, <3>2, InsertKeepsType
  <2>2. ActionsOK'
    <3>1. Close({a \in ActionsOf(c) : action[a] = "pending"}, "expired")
      BY <1>1 DEF StartTurn
    <3>2. {a \in ActionsOf(c) : action[a] = "pending"} \in SUBSET Actions
      BY DEF ActionsOf
    <3>3. QED
      BY <3>1, <3>2, CloseKeepsType DEF Resolved
  <2>3. WritesOK'
    BY <1>1 DEF StartTurn, TypeOK, WritesOK
  <2>4. QED
    BY <2>1, <2>2, <2>3 DEF TypeOK
<1>2. ASSUME NEW c \in Convs, NEW a \in Actions, NEW t \in Turns, Claim(c, a, t)
      PROVE  TypeOK'
  <2>1. ConvsOK' /\ TurnsOK' /\ RunnersOK'
    <3>1. "confirm" \in Points
      BY DEF Points, ConfirmPoints
    <3>2. InsertTurn(t, c, a, "confirm")
      BY <1>2 DEF Claim
    <3>3. QED
      BY <3>1, <3>2, InsertKeepsType
  <2>2. ActionsOK'
    BY <1>2, TurnsAssumption DEF Claim, TypeOK, ActionsOK
  <2>3. WritesOK'
    BY <1>2 DEF Claim, TypeOK, WritesOK
  <2>4. QED
    BY <2>1, <2>2, <2>3 DEF TypeOK
<1>3. ASSUME NEW a \in Actions, RefuseConfirm(a) \/ CancelCard(a)
      PROVE  TypeOK'
  <2>1. ActionsOK'
    <3>1. action[a] = "pending" /\ (Close({a}, "expired") \/ Close({a}, "cancelled"))
      BY <1>3 DEF RefuseConfirm, CancelCard
    <3>2. QED
      BY <3>1, CloseKeepsType DEF Resolved
  <2>2. QED
    BY <1>3, <2>1 DEF RefuseConfirm, CancelCard, TypeOK, ConvsOK, TurnsOK, RunnersOK, WritesOK
<1>4. ASSUME NEW t \in Turns, RequestCancel(t)
      PROVE  TypeOK'
  BY <1>4 DEF RequestCancel, TypeOK, ConvsOK, TurnsOK, ActionsOK, RunnersOK, WritesOK
<1>5. ASSUME NEW c \in Convs, DeleteConversation(c)
      PROVE  TypeOK'
  BY <1>5, RemoveKeepsType DEF DeleteConversation
<1>6. ASSUME NEW D \in SUBSET Convs, BatchDelete(D)
      PROVE  TypeOK'
  <2>1. {c \in D : NoneRunning(c)} \in SUBSET Convs
    OBVIOUS
  <2>2. QED
    BY <1>6, <2>1, RemoveKeepsType DEF BatchDelete
<1>7. QED
  BY <1>1, <1>2, <1>3, <1>4, <1>5, <1>6 DEF UserStep

LEMMA RetentionKeepsType ==
    ASSUME TypeOK, Retention
    PROVE  TypeOK'
<1>1. ASSUME RecoverOrphanTurns
      PROVE  TypeOK'
  <2>1. ConvsOK' /\ TurnsOK' /\ \A t \in Turns : status'[t] = "none" <=> status[t] = "none"
    BY <1>1, FinishKeepsType DEF RecoverOrphanTurns, OrphanTurns, Orphaned, Terminal
  <2>2. QED
    BY <1>1, <2>1
    DEF RecoverOrphanTurns, FinishTurns, TypeOK, ActionsOK, RunnersOK, WritesOK
<1>2. ASSUME RecoverOrphanWrites
      PROVE  TypeOK'
  <2> DEFINE T == {actTurn[a] : a \in OrphanWrites}
  <2>1. T \in SUBSET Turns /\ \A t \in T : status[t] # "none"
    BY DEF OrphanWrites, Orphaned, TypeOK, ActionsOK
  <2>2. ConvsOK' /\ TurnsOK' /\ \A t \in Turns : status'[t] = "none" <=> status[t] = "none"
    <3>1. FinishTurns(T, "failed") /\ "failed" \in Terminal
      BY <1>2 DEF RecoverOrphanWrites, Terminal
    <3> HIDE DEF T
    <3>2. QED
      BY <2>1, <3>1, FinishKeepsType
  <2>3. ActionsOK'
    <3>1. \A a \in OrphanWrites : a \in Actions /\ action[a] = "executing"
      BY DEF OrphanWrites
    <3>2. QED
      BY <1>2, <3>1 DEF RecoverOrphanWrites, TypeOK, ActionsOK, Resolved, Outcomes
  <2>4. QED
    BY <1>2, <2>2, <2>3 DEF RecoverOrphanWrites, FinishTurns, TypeOK, RunnersOK, WritesOK
<1>3. ASSUME ExpireStale
      PROVE  TypeOK'
  <2>1. ActionsOK'
    <3>1. Close({a \in Actions : action[a] = "pending" /\ ttlOver[a]}, "expired")
      BY <1>3 DEF ExpireStale
    <3>2. QED
      BY <3>1, CloseKeepsType DEF Resolved
  <2>2. QED
    BY <1>3, <2>1 DEF ExpireStale, TypeOK, ConvsOK, TurnsOK, RunnersOK, WritesOK
<1>4. ASSUME ReconcileCounters
      PROVE  TypeOK'
  <2>1. Cardinality(admitted) \in Nat
    BY TurnSetsFinite DEF TypeOK, TurnsOK
  <2>2. \A u \in Users : Cardinality(OfUser(admitted, u)) \in Nat
    <3>1. \A u \in Users : OfUser(admitted, u) \in SUBSET Turns
      BY DEF OfUser, TypeOK, TurnsOK
    <3>2. QED
      BY <3>1, TurnSetsFinite
  <2>3. TurnsOK'
    BY <1>4, <2>1, <2>2 DEF ReconcileCounters, TypeOK, TurnsOK
  <2>4. QED
    BY <1>4, <2>3 DEF ReconcileCounters, TypeOK, ConvsOK, ActionsOK, RunnersOK, WritesOK
<1>5. ASSUME NEW D \in SUBSET Convs, PurgeExpired(D)
      PROVE  TypeOK'
  <2>1. {c \in D : NoneRunning(c) /\ NoneExecuting(c)} \in SUBSET Convs
    OBVIOUS
  <2>2. QED
    BY <1>5, <2>1, RemoveKeepsType DEF PurgeExpired
<1>6. QED
  BY <1>1, <1>2, <1>3, <1>4, <1>5 DEF Retention

LEMMA ClockKeepsType ==
    ASSUME TypeOK, Clock
    PROVE  TypeOK'
<1>1. ASSUME NEW c \in Convs, LeaseExpires(c)
      PROVE  TypeOK'
  BY <1>1 DEF LeaseExpires, TypeOK, ConvsOK, TurnsOK, ActionsOK, RunnersOK, WritesOK
<1>2. ASSUME NEW a \in Actions, CardExpires(a) \/ DeadlinePasses(a)
      PROVE  TypeOK'
  BY <1>2 DEF CardExpires, DeadlinePasses, TypeOK, ConvsOK, TurnsOK, ActionsOK, RunnersOK, WritesOK
<1>3. QED
  BY <1>1, <1>2 DEF Clock

\* Steps of a runner that change nothing but where it is.
LEMMA LocalKeepsType ==
    ASSUME TypeOK, NEW t \in Turns, NEW point \in Points, Goto(t, point), Local(t),
           pc[t] # "off", point \in ConfirmPoints => pc[t] \in ConfirmPoints
    PROVE  TypeOK'
<1>1. RunnersOK'
  BY GotoKeepsType DEF Local
<1>2. QED
  BY <1>1 DEF Local, TypeOK, ConvsOK, TurnsOK, ActionsOK, WritesOK

\* The end of a turn by its own runner.
LEMMA EndKeepsType ==
    ASSUME TypeOK, NEW t \in Turns, NEW result \in Terminal, FinishTurns({t}, result),
           Goto(t, "off"), pc[t] # "off"
    PROVE  ConvsOK' /\ TurnsOK' /\ RunnersOK'
<1>1. status[t] # "none"
  BY DEF TypeOK, RunnersOK
<1>2. ConvsOK' /\ TurnsOK' /\ \A s \in Turns : status'[s] = "none" <=> status[s] = "none"
  BY <1>1, FinishKeepsType
<1>3. RunnersOK'
  BY <1>2, GotoKeepsType DEF FinishTurns, Points, ConfirmPoints
<1>4. QED
  BY <1>2, <1>3

\* Confirm Tx B.
LEMMA SettleKeepsType ==
    ASSUME TypeOK, NEW a \in Actions, NEW outcome \in Outcomes, Settle(a, outcome),
           action[a] = "executing"
    PROVE  ActionsOK'
<1>1. PendingStatus[outcome] \in Resolved
  BY DEF PendingStatus, Outcomes, Resolved
<1>2. PendingStatus[outcome] # "none"
  BY DEF PendingStatus, Outcomes
<1>3. QED
  BY <1>1, <1>2 DEF Settle, TypeOK, ActionsOK

LEMMA RunnerStepKeepsType ==
    ASSUME TypeOK, NEW t \in Turns, RunnerStep(t)
    PROVE  TypeOK'
<1> USE DEF Points, LoopPoints, EndPoints, ConfirmPoints
<1>1. CASE RenewOrStop(t)
  <2>1. PICK step \in RenewPoints :
            /\ pc[t] = step[1]
            /\ IF CanRenew(t)
                 THEN Goto(t, step[2]) /\ TakeLease(turnConv[t], t)
                 ELSE Goto(t, "off") /\ UNCHANGED <<owner, leaseOver>>
            /\ UNCHANGED <<open, turnVars, actionVars, worldVars>>
    BY <1>1 DEF RenewOrStop
  <2>2. ConvsOK'
    BY <2>1 DEF TakeLease, TypeOK, ConvsOK
  <2>3. RunnersOK'
    <3>1. /\ pc[t] # "off"
          /\ step[2] \in Points
          /\ step[2] \in ConfirmPoints => pc[t] \in ConfirmPoints
      BY <2>1 DEF RenewPoints
    <3>2. CASE Goto(t, step[2])
      BY <2>1, <3>1, <3>2 DEF TypeOK, RunnersOK, Goto
    <3>3. CASE Goto(t, "off")
      BY <2>1, <3>1, <3>3 DEF TypeOK, RunnersOK, Goto
    <3>4. QED
      BY <2>1, <3>2, <3>3
  <2>4. QED
    BY <2>1, <2>2, <2>3 DEF TypeOK, TurnsOK, ActionsOK, WritesOK
<1>2. CASE LoopTop(t)
  <2>1. RunnersOK'
    BY <1>2 DEF LoopTop, Local, Goto, TypeOK, RunnersOK
  <2>2. QED
    BY <1>2, <2>1 DEF LoopTop, Local, TypeOK, ConvsOK, TurnsOK, ActionsOK, WritesOK
<1>3. CASE CallLLM(t) \/ Begin(t)
  BY <1>3, LocalKeepsType DEF CallLLM, Begin, GiveUp
<1>4. CASE HandleReply(t)
  BY <1>4, LocalKeepsType DEF HandleReply, GiveUp
<1>5. CASE RunTool(t)
  BY <1>5, LocalKeepsType DEF RunTool
<1>6. CASE ReturnResult(t)
  BY <1>6, LocalKeepsType DEF ReturnResult
<1>7. CASE RejectWrite(t)
  <2>1. ConvsOK' /\ TurnsOK' /\ RunnersOK'
    BY <1>7, EndKeepsType DEF RejectWrite, Terminal
  <2>2. QED
    BY <1>7, <2>1 DEF RejectWrite, TypeOK, ActionsOK, WritesOK
<1>8. ASSUME NEW a \in Actions, CreatePending(t, a)
      PROVE  TypeOK'
  <2>1. ConvsOK' /\ TurnsOK' /\ RunnersOK'
    BY <1>8, EndKeepsType DEF CreatePending, Terminal
  <2>2. ActionsOK'
    BY <1>8, TurnsAssumption DEF CreatePending, TypeOK, ActionsOK
  <2>3. QED
    BY <1>8, <2>1, <2>2 DEF CreatePending, TypeOK, WritesOK
<1>9. CASE Complete(t)
  <2>1. Goto(t, "off") /\ pc[t] # "off"
    BY <1>9 DEF Complete
  <2>2. CASE status[t] = "running"
    <3>1. \E result \in Terminal : FinishTurns({t}, result)
      BY <1>9, <2>2 DEF Complete, Terminal
    <3>2. ConvsOK' /\ TurnsOK' /\ RunnersOK'
      BY <2>1, <3>1, EndKeepsType
    <3>3. QED
      BY <1>9, <3>2 DEF Complete, TypeOK, ActionsOK, WritesOK
  <2>3. CASE status[t] # "running"
    BY <1>9, <2>1, <2>3, LocalKeepsType DEF Complete, Local
  <2>4. QED
    BY <2>2, <2>3
<1>10. CASE RefuseWrite(t)
  BY <1>10, LocalKeepsType DEF RefuseWrite
<1>11. CASE TurnAway(t)
  BY <1>11, LocalKeepsType DEF TurnAway
<1>12. CASE SendWrite(t)
  <2>1. RunnersOK'
    BY <1>12, GotoKeepsType DEF SendWrite
  <2>2. WritesOK'
    BY <1>12 DEF SendWrite, TypeOK, RunnersOK, WritesOK
  <2>3. QED
    BY <1>12, <2>1, <2>2 DEF SendWrite, TypeOK, ConvsOK, TurnsOK, ActionsOK
<1>13. CASE HearBack(t)
  BY <1>13, LocalKeepsType DEF HearBack
<1>14. CASE FinalizeOutcome(t) \/ FinalizeRaised(t)
  <2>1. /\ pc[t] \in ConfirmPoints
        /\ turnMsg[t] \in Actions
        /\ Goto(t, "begin") \/ Goto(t, "failing") \/ Goto(t, "off")
        /\ UNCHANGED <<convVars, turnVars, worldVars>>
    BY <1>14 DEF FinalizeOutcome, FinalizeRaised, Finalize, TypeOK, RunnersOK
  <2>2. RunnersOK'
    BY <2>1, GotoKeepsType
  <2>3. ActionsOK'
    <3>1. \/ UNCHANGED actionVars
          \/ /\ action[turnMsg[t]] = "executing"
             /\ \E outcome \in Outcomes : Settle(turnMsg[t], outcome)
      BY <1>14 DEF FinalizeOutcome, FinalizeRaised, Finalize, OwnerIsLive, Outcomes
    <3>2. CASE UNCHANGED actionVars
      BY <3>2 DEF TypeOK, ActionsOK
    <3>3. QED
      BY <2>1, <3>1, <3>2, SettleKeepsType
  <2>4. QED
    BY <2>1, <2>2, <2>3 DEF TypeOK, ConvsOK, TurnsOK, WritesOK
<1>15. CASE Raise(t)
  <2>1. \E point \in {"completing", "erring", "raised", "raisedSent"} :
            Goto(t, point) /\ (point \in ConfirmPoints => pc[t] \in ConfirmPoints)
    BY <1>15 DEF Raise, GiveUp, Outcomes
  <2>2. pc[t] # "off" /\ Local(t)
    BY <1>15 DEF Raise, Outcomes
  <2>3. QED
    BY <2>1, <2>2, LocalKeepsType
<1>16. QED
  BY <1>1, <1>2, <1>3, <1>4, <1>5, <1>6, <1>7, <1>8, <1>9, <1>10, <1>11, <1>12, <1>13,
     <1>14, <1>15 DEF RunnerStep

LEMMA StepKeepsType == TypeOK /\ [Next]_vars => TypeOK'
<1>1. ASSUME TypeOK, NEW t \in Turns, Crash(t)
      PROVE  TypeOK'
  BY <1>1, LocalKeepsType DEF Crash, Points, ConfirmPoints
<1>2. ASSUME TypeOK, NEW a \in Actions, WriteLands(a)
      PROVE  TypeOK'
  <2>1. WritesOK'
    BY <1>2 DEF WriteLands, TypeOK, WritesOK
  <2>2. QED
    BY <1>2, <2>1 DEF WriteLands, TypeOK, ConvsOK, TurnsOK, ActionsOK, RunnersOK
<1>3. ASSUME TypeOK, UNCHANGED vars
      PROVE  TypeOK'
  BY <1>3 DEF vars, TypeOK, ConvsOK, TurnsOK, ActionsOK, RunnersOK, WritesOK
<1>4. QED
  BY <1>1, <1>2, <1>3, UserStepKeepsType, RetentionKeepsType, ClockKeepsType,
     RunnerStepKeepsType DEF Next

LEMMA InitType == Init => TypeOK
BY TurnsAssumption
DEF Init, TypeOK, ConvsOK, TurnsOK, ActionsOK, RunnersOK, WritesOK, Points, ConfirmPoints

\* Every reachable state is well formed; in particular a runner of a
\* confirmation has a card, and every card names a turn (create_pending_action_
\* and_complete_turn, claim_pending_for_confirm).
THEOREM TypeCorrect == Spec => []TypeOK
BY InitType, StepKeepsType, PTL DEF Spec

----------------------------------------------------------------------------
(* The lease and the admission counters. *)

\* What a step may do to the rows of turns, their leases and the counters.
TurnMove ==
    \/ \E t \in Turns, c \in Convs, m \in Msgs \cup Actions, start \in Points :
           LeaseAvailable(c, t) /\ InsertTurn(t, c, m, start)
    \/ \E T \in SUBSET Turns, result \in Terminal : FinishTurns(T, result)
    \/ \E D \in SUBSET Convs : Remove(D) /\ \A c \in D : NoneRunning(c)
    \/ \E t \in Turns :
           /\ CanRenew(t)
           /\ TakeLease(turnConv[t], t)
           /\ UNCHANGED turnVars
    \/ ReconcileCounters
    \/ UNCHANGED <<owner, status, turnConv, admitted, globalActive, userActive>>

LEMMA StepIsTurnMove ==
    ASSUME TypeOK, [Next]_vars
    PROVE  TurnMove
<1>1. CASE UserStep
  <2>1. ASSUME NEW c \in Convs, NEW m \in Msgs, NEW t \in Turns, StartTurn(c, m, t)
        PROVE  TurnMove
    BY <2>1 DEF StartTurn, TurnMove, Points, LoopPoints
  <2>2. ASSUME NEW c \in Convs, NEW a \in Actions, NEW t \in Turns, Claim(c, a, t)
        PROVE  TurnMove
    BY <2>2 DEF Claim, TurnMove, Points, ConfirmPoints
  <2>3. ASSUME NEW c \in Convs, DeleteConversation(c)
        PROVE  TurnMove
    BY <2>3 DEF DeleteConversation, TurnMove
  <2>4. ASSUME NEW D \in SUBSET Convs, BatchDelete(D)
        PROVE  TurnMove
    BY <2>4 DEF BatchDelete, TurnMove
  <2>5. ASSUME \/ \E a \in Actions : RefuseConfirm(a) \/ CancelCard(a)
               \/ \E t \in Turns : RequestCancel(t)
        PROVE  TurnMove
    BY <2>5 DEF RefuseConfirm, CancelCard, RequestCancel, TurnMove
  <2>6. QED
    BY <1>1, <2>1, <2>2, <2>3, <2>4, <2>5 DEF UserStep
<1>2. CASE Retention
  <2>1. ASSUME RecoverOrphanTurns
        PROVE  TurnMove
    BY <2>1 DEF RecoverOrphanTurns, OrphanTurns, TurnMove, Terminal
  <2>2. ASSUME RecoverOrphanWrites
        PROVE  TurnMove
    <3>1. {actTurn[a] : a \in OrphanWrites} \in SUBSET Turns
      BY DEF OrphanWrites, TypeOK, ActionsOK
    <3>2. QED
      BY <2>2, <3>1 DEF RecoverOrphanWrites, TurnMove, Terminal
  <2>3. ASSUME NEW D \in SUBSET Convs, PurgeExpired(D)
        PROVE  TurnMove
    BY <2>3 DEF PurgeExpired, TurnMove
  <2>4. ASSUME ExpireStale \/ ReconcileCounters
        PROVE  TurnMove
    BY <2>4 DEF ExpireStale, TurnMove
  <2>5. QED
    BY <1>2, <2>1, <2>2, <2>3, <2>4 DEF Retention
<1>3. CASE Clock
  BY <1>3 DEF Clock, LeaseExpires, CardExpires, DeadlinePasses, TurnMove
<1>4. CASE \E a \in Actions : WriteLands(a)
  BY <1>4 DEF WriteLands, TurnMove
<1>5. ASSUME NEW t \in Turns, RunnerStep(t) \/ Crash(t)
      PROVE  TurnMove
  <2>1. CASE RenewOrStop(t)
    BY <2>1 DEF RenewOrStop, TurnMove
  <2>2. CASE RejectWrite(t) \/ (\E a \in Actions : CreatePending(t, a)) \/ Complete(t)
    <3>1. \/ FinishTurns({t}, "failed") \/ FinishTurns({t}, "completed")
          \/ FinishTurns({t}, "cancelled") \/ UNCHANGED <<convVars, turnVars>>
      BY <2>2 DEF RejectWrite, CreatePending, Complete
    <3>2. QED
      BY <3>1 DEF TurnMove, Terminal
  <2>3. CASE \/ Begin(t) \/ LoopTop(t) \/ CallLLM(t) \/ HandleReply(t) \/ RunTool(t) \/ ReturnResult(t)
             \/ RefuseWrite(t) \/ TurnAway(t) \/ SendWrite(t) \/ HearBack(t)
             \/ FinalizeOutcome(t) \/ FinalizeRaised(t) \/ Raise(t) \/ Crash(t)
    <3>1. UNCHANGED <<convVars, turnVars>>
      BY <2>3
      DEF Begin, LoopTop, CallLLM, HandleReply, RunTool, ReturnResult, RefuseWrite, TurnAway,
          SendWrite, HearBack, FinalizeOutcome, Finalize, FinalizeRaised, Raise, Crash, Local
    <3>2. QED
      BY <3>1 DEF TurnMove
  <2>4. QED
    BY <1>5, <2>1, <2>2, <2>3 DEF RunnerStep
<1>6. CASE UNCHANGED vars
  BY <1>6 DEF vars, TurnMove
<1>7. QED
  BY <1>1, <1>2, <1>3, <1>4, <1>5, <1>6 DEF Next

LEMMA StepKeepsLease ==
    ASSUME TypeOK, LeaseHeldByRunning, [Next]_vars
    PROVE  LeaseHeldByRunning'
<1> USE DEF TypeOK, ConvsOK, TurnsOK, LeaseHeldByRunning
<1>1. ASSUME NEW t \in Turns, NEW c \in Convs, NEW m, NEW start, InsertTurn(t, c, m, start)
      PROVE  LeaseHeldByRunning'
  BY <1>1 DEF InsertTurn, NextRow, TakeLease
<1>2. ASSUME NEW T \in SUBSET Turns, NEW result, FinishTurns(T, result)
      PROVE  LeaseHeldByRunning'
  BY <1>2 DEF FinishTurns, ReleaseLease
<1>3. ASSUME NEW D \in SUBSET Convs, Remove(D)
      PROVE  LeaseHeldByRunning'
  BY <1>3 DEF Remove, TurnsOf
<1>4. ASSUME NEW t \in Turns, CanRenew(t), TakeLease(turnConv[t], t), UNCHANGED turnVars
      PROVE  LeaseHeldByRunning'
  BY <1>4 DEF CanRenew, TakeLease
<1>5. ASSUME ReconcileCounters \/ UNCHANGED <<owner, status, turnConv>>
      PROVE  LeaseHeldByRunning'
  BY <1>5 DEF ReconcileCounters
<1>6. QED
  BY <1>1, <1>2, <1>3, <1>4, <1>5, StepIsTurnMove DEF TurnMove

\* However turns of the same conversation overtake each other, die, are
\* recovered or deleted, a lease is never left with a turn that has ended
\* (_acquire_or_renew_lease, _release_lease, recover_orphan_turns).
THEOREM LeaseHeld == Spec => []LeaseHeldByRunning
<1>1. Init => LeaseHeldByRunning
  BY DEF Init, LeaseHeldByRunning
<1>2. TypeOK /\ LeaseHeldByRunning /\ [Next]_vars => LeaseHeldByRunning'
  BY StepKeepsLease
<1>3. QED
  BY <1>1, <1>2, TypeCorrect, PTL DEF Spec

\* While a lease has not run out, only its holder's end takes it away: no new
\* turn, no confirmation and no renewal of a turn that was overtaken pulls it from
\* under a runner that still counts on it (_acquire_or_renew_lease,
\* _release_lease, claim_pending_for_confirm).
LeaseIsFenced ==
    [][\A c \in Convs :
          owner[c] # None /\ ~leaseOver[c] /\ owner'[c] # owner[c]
              => status'[owner[c]] # "running"]_vars

LEMMA StepIsFenced ==
    ASSUME TypeOK, LeaseHeldByRunning, [Next]_vars,
           NEW c \in Convs, owner[c] # None, ~leaseOver[c], owner'[c] # owner[c]
    PROVE  status'[owner[c]] # "running"
<1> USE DEF TypeOK, ConvsOK, TurnsOK, LeaseHeldByRunning
<1>1. ASSUME NEW t \in Turns, NEW d \in Convs, NEW m, NEW start,
             LeaseAvailable(d, t), InsertTurn(t, d, m, start)
      PROVE  FALSE
  BY <1>1 DEF LeaseAvailable, InsertTurn, TakeLease
<1>2. ASSUME NEW T \in SUBSET Turns, NEW result \in Terminal, FinishTurns(T, result)
      PROVE  status'[owner[c]] # "running"
  BY <1>2 DEF FinishTurns, ReleaseLease, Terminal
<1>3. ASSUME NEW D \in SUBSET Convs, Remove(D)
      PROVE  status'[owner[c]] # "running"
  BY <1>3 DEF Remove, TurnsOf
<1>4. ASSUME NEW t \in Turns, CanRenew(t), TakeLease(turnConv[t], t)
      PROVE  FALSE
  BY <1>4 DEF CanRenew, LeaseAvailable, TakeLease
<1>5. ASSUME ReconcileCounters \/ UNCHANGED <<owner, status, turnConv>>
      PROVE  FALSE
  BY <1>5 DEF ReconcileCounters, convVars
<1>6. QED
  BY <1>1, <1>2, <1>3, <1>4, <1>5, StepIsTurnMove DEF TurnMove

\* Under any number of turns, conversations and steps a lease that is still good
\* is lost only by the end of its holder.
THEOREM LeasesAreFenced == Spec => LeaseIsFenced
<1>1. TypeOK /\ LeaseHeldByRunning /\ [Next]_vars
          => (\A c \in Convs :
                  owner[c] # None /\ ~leaseOver[c] /\ owner'[c] # owner[c]
                      => status'[owner[c]] # "running")
  BY StepIsFenced
<1>2. QED
  BY <1>1, TypeCorrect, LeaseHeld, PTL DEF Spec, LeaseIsFenced

LEMMA FinishKeepsAdmission ==
    ASSUME TypeOK, AdmissionExact, NEW T \in SUBSET Turns, NEW result \in Terminal,
           FinishTurns(T, result)
    PROVE  AdmissionExact'
<1>1. admitted' = admitted \ T /\ turnConv' = turnConv
  BY DEF FinishTurns, ReleaseAdmission
<1>2. admitted' = {t \in Turns : status'[t] = "running"}
  BY DEF AdmissionExact, FinishTurns, ReleaseAdmission, Terminal
<1>3. globalActive' = Cardinality(admitted')
  <2>1. Decrease(Cardinality(admitted), Cardinality(T \cap admitted)) = Cardinality(admitted \ T)
    BY DecreaseExact DEF TypeOK, TurnsOK
  <2>2. QED
    BY <1>1, <2>1 DEF AdmissionExact, FinishTurns, ReleaseAdmission
<1>4. ASSUME NEW u \in Users
      PROVE  userActive'[u] = Cardinality(OfUser(admitted, u)')
  <2> DEFINE S == OfUser(admitted, u)
  <2>1. S \in SUBSET Turns
    BY DEF OfUser, TypeOK, TurnsOK
  <2>2. OfUser(T \cap admitted, u) = T \cap S
    BY DEF OfUser
  <2>3. OfUser(admitted, u)' = S \ T
    BY <1>1 DEF OfUser
  <2>4. userActive'[u] = Decrease(Cardinality(S), Cardinality(T \cap S))
    BY <2>2 DEF AdmissionExact, FinishTurns, ReleaseAdmission
  <2> HIDE DEF S
  <2>5. QED
    BY <2>1, <2>3, <2>4, DecreaseExact
<1>5. QED
  BY <1>2, <1>3, <1>4 DEF AdmissionExact

LEMMA InsertKeepsAdmission ==
    ASSUME TypeOK, AdmissionExact, NEW t \in Turns, NEW c \in Convs, NEW m, NEW start,
           InsertTurn(t, c, m, start)
    PROVE  AdmissionExact'
<1>1. /\ admitted' = admitted \cup {t} /\ t \notin admitted
      /\ turnConv' = [turnConv EXCEPT ![t] = c]
      /\ admitted \in SUBSET Turns
  BY DEF InsertTurn, NextRow, AdmissionExact, TypeOK, TurnsOK
<1>2. admitted' = {x \in Turns : status'[x] = "running"}
  BY DEF AdmissionExact, InsertTurn, TypeOK, TurnsOK
<1>3. globalActive' = Cardinality(admitted')
  <2>1. Cardinality(admitted \cup {t}) = Cardinality(admitted) + 1
    BY <1>1, TurnSetsFinite, FS_AddElement
  <2>2. QED
    BY <1>1, <2>1 DEF AdmissionExact, InsertTurn, Reserve
<1>4. ASSUME NEW u \in Users
      PROVE  userActive'[u] = Cardinality(OfUser(admitted, u)')
  <2> DEFINE S == OfUser(admitted, u)
  <2>1. S \in SUBSET Turns /\ t \notin S
    BY <1>1 DEF OfUser
  <2>2. userActive[u] = Cardinality(S)
    BY DEF AdmissionExact
  <2>3. CASE u = UserOf[c]
    <3>1. OfUser(admitted, u)' = S \cup {t}
      BY <1>1, <2>3 DEF OfUser, TypeOK, TurnsOK
    <3>2. userActive'[u] = userActive[u] + 1
      BY <2>3 DEF InsertTurn, Reserve, TypeOK, TurnsOK
    <3> HIDE DEF S
    <3>3. Cardinality(S \cup {t}) = Cardinality(S) + 1
      BY <2>1, TurnSetsFinite, FS_AddElement
    <3>4. QED
      BY <2>2, <3>1, <3>2, <3>3
  <2>4. CASE u # UserOf[c]
    <3>1. OfUser(admitted, u)' = S
      BY <1>1, <2>4 DEF OfUser, TypeOK, TurnsOK
    <3>2. userActive'[u] = userActive[u]
      BY <2>4 DEF InsertTurn, Reserve, TypeOK, TurnsOK
    <3>3. QED
      BY <2>2, <3>1, <3>2
  <2>5. QED
    BY <2>3, <2>4
<1>5. QED
  BY <1>2, <1>3, <1>4 DEF AdmissionExact

LEMMA StepKeepsAdmission ==
    ASSUME TypeOK, AdmissionExact, [Next]_vars
    PROVE  AdmissionExact'
<1>1. ASSUME NEW D \in SUBSET Convs, Remove(D), \A c \in D : NoneRunning(c)
      PROVE  AdmissionExact'
  <2>1. \A c \in D : \A t \in TurnsOf(c) : status[t] # "running"
    BY <1>1 DEF NoneRunning, RunningIn
  <2>2. admitted' = admitted
    BY <1>1, <2>1 DEF Remove, AdmissionExact
  <2>3. admitted = {t \in Turns : status'[t] = "running"}
    <3>1. \A t \in UNION {TurnsOf(c) : c \in D} : status[t] # "running"
      BY <2>1
    <3>2. \A t \in Turns : status'[t] = "running" <=> status[t] = "running"
      BY <1>1, <3>1 DEF Remove
    <3>3. QED
      BY <3>2 DEF AdmissionExact
  <2>4. UNCHANGED <<turnConv, globalActive, userActive>>
    BY <1>1 DEF Remove
  <2>5. \A u \in Users : OfUser(admitted, u)' = OfUser(admitted, u)
    BY <2>2, <2>4 DEF OfUser
  <2>6. QED
    BY <2>2, <2>3, <2>4, <2>5 DEF AdmissionExact
<1>2. ASSUME ReconcileCounters
      PROVE  AdmissionExact'
  BY <1>2 DEF ReconcileCounters, AdmissionExact, OfUser
<1>3. ASSUME UNCHANGED <<status, turnConv, admitted, globalActive, userActive>>
      PROVE  AdmissionExact'
  BY <1>3 DEF AdmissionExact, OfUser
<1>4. QED
  BY <1>1, <1>2, <1>3, FinishKeepsAdmission, InsertKeepsAdmission, StepIsTurnMove DEF TurnMove

\* However a turn ends, and however often, its admission is returned exactly
\* once, so the limits neither leak nor open (_release_admission_once).
THEOREM AdmissionStaysExact == Spec => []AdmissionExact
<1>1. Init => AdmissionExact
  <2>1. ASSUME Init
        PROVE  /\ admitted = {} /\ globalActive = 0
               /\ \A u \in Users : userActive[u] = 0 /\ OfUser(admitted, u) = {}
               /\ {t \in Turns : status[t] = "running"} = {}
    BY <2>1 DEF Init, OfUser
  <2>2. QED
    BY <2>1, FS_EmptySet DEF AdmissionExact
<1>2. TypeOK /\ AdmissionExact /\ [Next]_vars => AdmissionExact'
  BY StepKeepsAdmission
<1>3. QED
  BY <1>1, <1>2, TypeCorrect, PTL DEF Spec

----------------------------------------------------------------------------
(* The cards, their journal and the results of their tool calls. *)

Unsent == {"confirm", "revalidate", "refuse", "raised"}

\* The runner of a continuation reports the outcome it knows, and moves on.
Settles(t, outcome) ==
    /\ turnMsg[t] \in Actions
    /\ pc[t] \in ConfirmPoints
    /\ OwnerIsLive(t, turnMsg[t])
    /\ Settle(turnMsg[t], outcome)
    /\ outcome = "succeeded" => pc[t] = "succeeded"
    /\ outcome = "failed" => pc[t] = "failed" \/ pc[t] \in Unsent
    /\ pc'[t] \in {"begin", "failing", "off"}
    /\ UNCHANGED worldVars

\* What a step may do to the rows of cards.
CardMove ==
    \/ \E A \in SUBSET {a \in Actions : action[a] = "pending"} :
           Close(A, "expired") \/ Close(A, "cancelled")
    \/ \E a \in Actions :
           /\ action[a] = "pending"
           /\ action' = [action EXCEPT ![a] = "executing"]
           /\ journal' = [journal EXCEPT ![a] = "started"]
           /\ UNCHANGED results
    \/ \E a \in Actions :
           /\ action[a] = "none"
           /\ action' = [action EXCEPT ![a] = "pending"]
           /\ UNCHANGED <<journal, results>>
    \/ \E t \in Turns, outcome \in Outcomes : Settles(t, outcome)
    \/ RecoverOrphanWrites
    \/ \E D \in SUBSET Convs : Remove(D)
    \/ UNCHANGED <<action, journal, results>>

LEMMA StepIsCardMove ==
    ASSUME TypeOK, [Next]_vars
    PROVE  CardMove
<1>1. CASE UserStep
  <2>1. ASSUME NEW c \in Convs, NEW m \in Msgs, NEW t \in Turns, StartTurn(c, m, t)
        PROVE  CardMove
    <3>1. {a \in ActionsOf(c) : action[a] = "pending"}
              \in SUBSET {a \in Actions : action[a] = "pending"}
      BY DEF ActionsOf
    <3>2. QED
      BY <2>1, <3>1 DEF StartTurn, CardMove
  <2>2. ASSUME NEW c \in Convs, NEW a \in Actions, NEW t \in Turns, Claim(c, a, t)
        PROVE  CardMove
    BY <2>2 DEF Claim, CardMove
  <2>3. ASSUME NEW a \in Actions, RefuseConfirm(a) \/ CancelCard(a)
        PROVE  CardMove
    BY <2>3 DEF RefuseConfirm, CancelCard, CardMove
  <2>4. ASSUME NEW t \in Turns, RequestCancel(t)
        PROVE  CardMove
    BY <2>4 DEF RequestCancel, CardMove
  <2>5. ASSUME \/ \E c \in Convs : DeleteConversation(c)
               \/ \E D \in SUBSET Convs : BatchDelete(D)
        PROVE  CardMove
    <3>1. \E D \in SUBSET Convs : Remove(D)
      BY <2>5 DEF DeleteConversation, BatchDelete
    <3>2. QED
      BY <3>1 DEF CardMove
  <2>6. QED
    BY <1>1, <2>1, <2>2, <2>3, <2>4, <2>5 DEF UserStep
<1>2. CASE Retention
  <2>1. ASSUME RecoverOrphanTurns \/ ReconcileCounters
        PROVE  CardMove
    BY <2>1 DEF RecoverOrphanTurns, ReconcileCounters, CardMove
  <2>2. ASSUME RecoverOrphanWrites
        PROVE  CardMove
    BY <2>2 DEF CardMove
  <2>3. ASSUME ExpireStale
        PROVE  CardMove
    BY <2>3 DEF ExpireStale, CardMove
  <2>4. ASSUME NEW D \in SUBSET Convs, PurgeExpired(D)
        PROVE  CardMove
    BY <2>4 DEF PurgeExpired, CardMove
  <2>5. QED
    BY <1>2, <2>1, <2>2, <2>3, <2>4 DEF Retention
<1>3. CASE Clock
  BY <1>3 DEF Clock, LeaseExpires, CardExpires, DeadlinePasses, CardMove
<1>4. CASE \E a \in Actions : WriteLands(a)
  BY <1>4 DEF WriteLands, CardMove
<1>5. ASSUME NEW t \in Turns, RunnerStep(t) \/ Crash(t)
      PROVE  CardMove
  <2>1. ASSUME NEW a \in Actions, CreatePending(t, a)
        PROVE  CardMove
    BY <2>1 DEF CreatePending, NextRow, CardMove
  <2>2. CASE FinalizeOutcome(t) \/ FinalizeRaised(t)
    <3>1. turnMsg[t] \in Actions /\ t \in DOMAIN pc
      BY <2>2 DEF FinalizeOutcome, FinalizeRaised, TypeOK, RunnersOK, ConfirmPoints
    <3>2. UNCHANGED actionVars \/ \E outcome \in Outcomes : Settles(t, outcome)
      BY <2>2, <3>1
      DEF FinalizeOutcome, FinalizeRaised, Finalize, Settles, Goto, Outcomes, Unsent, ConfirmPoints
    <3>3. QED
      BY <3>2 DEF CardMove
  <2>3. CASE \/ RenewOrStop(t) \/ Begin(t) \/ LoopTop(t) \/ CallLLM(t) \/ HandleReply(t) \/ RunTool(t)
             \/ ReturnResult(t) \/ RejectWrite(t) \/ Complete(t) \/ RefuseWrite(t)
             \/ TurnAway(t) \/ SendWrite(t) \/ HearBack(t) \/ Raise(t) \/ Crash(t)
    <3>1. UNCHANGED actionVars
      BY <2>3
      DEF RenewOrStop, Begin, LoopTop, CallLLM, HandleReply, RunTool, ReturnResult, RejectWrite,
          Complete, RefuseWrite, TurnAway, SendWrite, HearBack, Raise, Crash, Local
    <3>2. QED
      BY <3>1 DEF CardMove
  <2>4. QED
    BY <1>5, <2>1, <2>2, <2>3 DEF RunnerStep
<1>6. CASE UNCHANGED vars
  BY <1>6 DEF vars, CardMove
<1>7. QED
  BY <1>1, <1>2, <1>3, <1>4, <1>5, <1>6 DEF Next

LEMMA StepKeepsHistory ==
    ASSUME TypeOK, HistoryClosed, [Next]_vars
    PROVE  HistoryClosed'
<1> USE DEF TypeOK, ActionsOK, HistoryClosed, PendingStatus, Outcomes, Resolved
<1>1. ASSUME NEW A \in SUBSET {a \in Actions : action[a] = "pending"},
             Close(A, "expired") \/ Close(A, "cancelled")
      PROVE  HistoryClosed'
  BY <1>1 DEF Close
<1>2. ASSUME NEW a \in Actions,
             action[a] = "pending",
             action' = [action EXCEPT ![a] = "executing"],
             journal' = [journal EXCEPT ![a] = "started"],
             UNCHANGED results
      PROVE  HistoryClosed'
  BY <1>2
<1>3. ASSUME NEW a \in Actions,
             action[a] = "none",
             action' = [action EXCEPT ![a] = "pending"],
             UNCHANGED <<journal, results>>
      PROVE  HistoryClosed'
  BY <1>3
<1>4. ASSUME NEW t \in Turns, NEW outcome \in Outcomes, Settles(t, outcome)
      PROVE  HistoryClosed'
  BY <1>4 DEF Settles, Settle, OwnerIsLive
<1>5. ASSUME RecoverOrphanWrites
      PROVE  HistoryClosed'
  BY <1>5 DEF RecoverOrphanWrites, OrphanWrites
<1>6. ASSUME NEW D \in SUBSET Convs, Remove(D)
      PROVE  HistoryClosed'
  BY <1>6 DEF Remove
<1>7. ASSUME UNCHANGED <<action, journal, results>>
      PROVE  HistoryClosed'
  BY <1>7
<1>8. CardMove
  BY StepIsCardMove
<1>9. QED
  BY <1>1, <1>2, <1>3, <1>4, <1>5, <1>6, <1>7, <1>8 DEF CardMove

\* A tool call gets exactly one result, whoever closes its card, and the journal
\* agrees with the card (create_pending_action_and_complete_turn,
\* finalize_confirm_outcome, recover_orphan_executing_pending, cancel_pending,
\* _expire_open_pending).
THEOREM HistoryStaysClosed == Spec => []HistoryClosed
<1>1. Init => HistoryClosed
  BY DEF Init, HistoryClosed, PendingStatus, Outcomes, Resolved
<1>2. TypeOK /\ HistoryClosed /\ [Next]_vars => HistoryClosed'
  BY StepKeepsHistory
<1>3. QED
  BY <1>1, <1>2, TypeCorrect, PTL DEF Spec

\* The outcome of a claimed card is written for a turn that still runs and that
\* nobody has overtaken: by its own runner in mid-step, or by the recovery loop
\* once its lease and its deadline are over (the guards of
\* finalize_confirm_outcome and of recover_orphan_executing_pending).
OutcomeIsFenced ==
    [][\A a \in Actions :
          action[a] = "executing" /\ action'[a] \in Resolved =>
              LET t == actTurn[a] IN
              /\ status[t] = "running" /\ owner[turnConv[t]] = t
              /\ \/ pc[t] \in ConfirmPoints /\ pc'[t] # pc[t]
                 \/ leaseOver[turnConv[t]] /\ deadlineOver[a]]_vars

OutcomeOfOwner(a) ==
    /\ status[actTurn[a]] = "running" /\ owner[turnConv[actTurn[a]]] = actTurn[a]
    /\ \/ pc[actTurn[a]] \in ConfirmPoints /\ pc'[actTurn[a]] # pc[actTurn[a]]
       \/ leaseOver[turnConv[actTurn[a]]] /\ deadlineOver[a]

LEMMA OutcomeComesFromOwner ==
    ASSUME TypeOK, [Next]_vars,
           NEW a \in Actions, action[a] = "executing", action'[a] \in Resolved
    PROVE  OutcomeOfOwner(a)
<1> USE DEF TypeOK, ActionsOK, Resolved
<1>1. ASSUME NEW A \in SUBSET {x \in Actions : action[x] = "pending"},
             Close(A, "expired") \/ Close(A, "cancelled")
      PROVE  FALSE
  BY <1>1 DEF Close
<1>2. ASSUME NEW t \in Turns, NEW outcome \in Outcomes, Settles(t, outcome)
      PROVE  OutcomeOfOwner(a)
  <2>1. turnMsg[t] = a
    BY <1>2 DEF Settles, Settle
  <2>2. actTurn[a] = t /\ status[t] = "running" /\ owner[turnConv[t]] = t
    BY <1>2, <2>1 DEF Settles, OwnerIsLive
  <2>3. pc[t] \in ConfirmPoints /\ pc'[t] # pc[t]
    BY <1>2 DEF Settles, ConfirmPoints
  <2>4. QED
    BY <2>2, <2>3 DEF OutcomeOfOwner
<1>3. ASSUME RecoverOrphanWrites
      PROVE  OutcomeOfOwner(a)
  BY <1>3 DEF RecoverOrphanWrites, OrphanWrites, Orphaned, OutcomeOfOwner
<1>4. ASSUME NEW D \in SUBSET Convs, Remove(D)
      PROVE  FALSE
  BY <1>4 DEF Remove
<1>5. ASSUME NEW x \in Actions,
             action' = [action EXCEPT ![x] = "executing"] \/ action' = [action EXCEPT ![x] = "pending"]
      PROVE  FALSE
  BY <1>5
<1>6. ASSUME UNCHANGED action
      PROVE  FALSE
  BY <1>6
<1>7. QED
  BY <1>1, <1>2, <1>3, <1>4, <1>5, <1>6, StepIsCardMove DEF CardMove

\* A runner that was overtaken, however late it wakes up, never writes an outcome
\* over the one that recovery or its successor stands for.
THEOREM OutcomesAreFenced == Spec => OutcomeIsFenced
<1>1. TypeOK /\ [Next]_vars
          => (\A a \in Actions :
                  action[a] = "executing" /\ action'[a] \in Resolved => OutcomeOfOwner(a))
  BY OutcomeComesFromOwner
<1>2. QED
  BY <1>1, TypeCorrect, PTL DEF Spec, OutcomeIsFenced, OutcomeOfOwner

----------------------------------------------------------------------------
(* The inductive invariant behind KeepsPromise. *)

Claimed == {"executing", "confirmed", "failed", "unknown", "deleted"}

\* The continuation of a card is the turn the card names, so there is only one.
Bound ==
    \A t \in Turns : turnMsg[t] \in Actions =>
        /\ actTurn[turnMsg[t]] = t
        /\ action[turnMsg[t]] \in Claimed
        /\ journal[turnMsg[t]] # "none"

\* A call that was sent has a fate, and was confirmed before.
SentHasFate ==
    \A a \in Actions :
        /\ sends[a] \in {0, 1}
        /\ sends[a] = 0 <=> write[a] = "idle"
        /\ journal[a] = "none" => sends[a] = 0

\* Nobody has resolved the card as confirmed or failed, nor deleted it when it
\* was not confirmed.
Workable(a) ==
    /\ action[a] \in {"executing", "unknown", "deleted"}
    /\ action[a] = "deleted" => journal[a] \in {"started", "unknown"}

\* A runner that has not sent its write works on a workable card and an idle
\* write; one that knows the outcome is right about it.
Knows(t, point) ==
    /\ point \in Unsent => write[turnMsg[t]] = "idle" /\ Workable(turnMsg[t])
    /\ point = "succeeded" => write[turnMsg[t]] = "applied"
    /\ point = "failed" => write[turnMsg[t]] \in {"idle", "refused"}

RunnerKnows == \A t \in Turns : Knows(t, pc[t])

IInv == TypeOK /\ HistoryClosed /\ Bound /\ SentHasFate /\ RunnerKnows

----------------------------------------------------------------------------
(* It is inductive. *)

\* What a step may do to the binding of turns and cards.
BindMove ==
    \/ \E c \in Convs, m \in Msgs, t \in Turns : StartTurn(c, m, t)
    \/ \E c \in Convs, a \in Actions, t \in Turns : Claim(c, a, t)
    \/ \E t \in Turns, a \in Actions : CreatePending(t, a)
    \/ UNCHANGED <<turnMsg, actTurn>>

\* What a step may do to a write.
WriteMove ==
    \/ \E a \in Actions : WriteLands(a)
    \/ \E t \in Turns : SendWrite(t)
    \/ UNCHANGED worldVars

\* What a step may do to the runner of t.
RunnerMove(t) ==
    \/ pc'[t] = pc[t] /\ turnMsg'[t] = turnMsg[t]
    \/ pc'[t] \notin Unsent \cup {"succeeded", "failed"}
    \/ pc[t] \in Unsent /\ pc'[t] \in Unsent /\ turnMsg' = turnMsg
    \/ TurnAway(t)
    \/ HearBack(t)
    \/ \E c \in Convs, a \in Actions : Claim(c, a, t)

LEMMA StepIsBindMove == ASSUME [Next]_vars PROVE BindMove /\ WriteMove
<1>1. CASE UserStep
  BY <1>1
  DEF UserStep, StartTurn, Claim, RefuseConfirm, CancelCard, RequestCancel,
      DeleteConversation, BatchDelete, Remove, Close, BindMove, WriteMove
<1>2. CASE Retention
  BY <1>2
  DEF Retention, RecoverOrphanTurns, RecoverOrphanWrites, ExpireStale, ReconcileCounters,
      PurgeExpired, Remove, Close, FinishTurns, BindMove, WriteMove
<1>3. CASE Clock \/ (\E a \in Actions : WriteLands(a)) \/ UNCHANGED vars
  BY <1>3 DEF Clock, LeaseExpires, CardExpires, DeadlinePasses, WriteLands, vars,
              BindMove, WriteMove
<1>4. ASSUME NEW t \in Turns, RunnerStep(t) \/ Crash(t)
      PROVE  BindMove /\ WriteMove
  <2>1. CASE \E a \in Actions : CreatePending(t, a)
    BY <2>1 DEF CreatePending, BindMove, WriteMove
  <2>2. CASE FinalizeOutcome(t) \/ FinalizeRaised(t)
    BY <2>2 DEF FinalizeOutcome, Finalize, FinalizeRaised, Settle, BindMove, WriteMove
  <2>3. CASE RejectWrite(t) \/ Complete(t)
    BY <2>3 DEF RejectWrite, Complete, FinishTurns, BindMove, WriteMove
  <2>4. CASE \/ RenewOrStop(t) \/ Begin(t) \/ LoopTop(t) \/ CallLLM(t) \/ HandleReply(t) \/ RunTool(t)
             \/ ReturnResult(t) \/ RefuseWrite(t) \/ TurnAway(t) \/ SendWrite(t)
             \/ HearBack(t) \/ Raise(t) \/ Crash(t)
    BY <2>4
    DEF RenewOrStop, Begin, LoopTop, CallLLM, HandleReply, RunTool, ReturnResult, RefuseWrite,
        TurnAway, SendWrite, HearBack, Raise, Crash, Local, BindMove, WriteMove
  <2>5. QED
    BY <1>4, <2>1, <2>2, <2>3, <2>4 DEF RunnerStep
<1>5. QED
  BY <1>1, <1>2, <1>3, <1>4 DEF Next

LEMMA StepIsRunnerMove ==
    ASSUME TypeOK, [Next]_vars, NEW s \in Turns
    PROVE  RunnerMove(s)
<1> USE DEF Unsent
<1>1. ASSUME NEW c \in Convs, NEW m \in Msgs, NEW t \in Turns, StartTurn(c, m, t)
      PROVE  RunnerMove(s)
  BY <1>1 DEF StartTurn, InsertTurn, RunnerMove, TypeOK, TurnsOK, RunnersOK
<1>2. ASSUME NEW c \in Convs, NEW a \in Actions, NEW t \in Turns, Claim(c, a, t)
      PROVE  RunnerMove(s)
  <2>1. CASE s = t
    BY <1>2, <2>1 DEF RunnerMove
  <2>2. CASE s # t
    BY <1>2, <2>2 DEF Claim, InsertTurn, RunnerMove, TypeOK, TurnsOK, RunnersOK
  <2>3. QED
    BY <2>1, <2>2
<1>3. ASSUME NEW t \in Turns, RunnerStep(t) \/ Crash(t)
      PROVE  RunnerMove(s)
  <2>1. UNCHANGED turnMsg
    BY <1>3
    DEF RunnerStep, RenewOrStop, Begin, LoopTop, CallLLM, HandleReply, RunTool, ReturnResult,
        RejectWrite, CreatePending, Complete, RefuseWrite, TurnAway, SendWrite, HearBack,
        FinalizeOutcome, Finalize, FinalizeRaised, Raise, Crash, Local, FinishTurns
  <2>2. \/ \E point \in Points : Goto(t, point)
        \/ pc' = [pc EXCEPT ![t] = "beforeLLM"]
    BY <1>3
    DEF RunnerStep, RenewOrStop, RenewPoints, Begin, LoopTop, CallLLM, HandleReply, RunTool,
        ReturnResult, RejectWrite, CreatePending, Complete, RefuseWrite, TurnAway, SendWrite,
        HearBack, FinalizeOutcome, Finalize, FinalizeRaised, Raise, Crash, GiveUp,
        Points, LoopPoints, EndPoints, ConfirmPoints
  <2>3. CASE s # t
    BY <2>1, <2>2, <2>3 DEF RunnerMove, Goto, TypeOK, RunnersOK
  <2>4. CASE s = t
    <3>1. CASE TurnAway(t) \/ HearBack(t)
      BY <2>4, <3>1 DEF RunnerMove
    <3>2. CASE RenewOrStop(t) \/ RefuseWrite(t) \/ Raise(t)
      BY <2>1, <2>4, <3>2
      DEF RenewOrStop, RenewPoints, RefuseWrite, Raise, GiveUp, Goto, RunnerMove,
          TypeOK, RunnersOK
    <3>3. CASE \/ Begin(t) \/ LoopTop(t) \/ CallLLM(t) \/ HandleReply(t) \/ RunTool(t)
               \/ ReturnResult(t) \/ RejectWrite(t) \/ (\E a \in Actions : CreatePending(t, a))
               \/ Complete(t) \/ SendWrite(t) \/ FinalizeOutcome(t) \/ FinalizeRaised(t)
               \/ Crash(t)
      BY <2>4, <3>3
      DEF Begin, LoopTop, CallLLM, HandleReply, RunTool, ReturnResult, RejectWrite, CreatePending,
          Complete, SendWrite, FinalizeOutcome, Finalize, FinalizeRaised, Crash, GiveUp,
          Goto, RunnerMove, TypeOK, RunnersOK
    <3>4. QED
      BY <1>3, <3>1, <3>2, <3>3 DEF RunnerStep
  <2>5. QED
    BY <2>3, <2>4
<1>4. ASSUME UNCHANGED <<pc, turnMsg>>
      PROVE  RunnerMove(s)
  BY <1>4 DEF RunnerMove
<1>5. CASE Retention
  BY <1>4, <1>5
  DEF Retention, RecoverOrphanTurns, RecoverOrphanWrites, ExpireStale, ReconcileCounters,
      PurgeExpired, Remove, FinishTurns
<1>6. CASE Clock \/ (\E a \in Actions : WriteLands(a)) \/ UNCHANGED vars
  BY <1>4, <1>6 DEF Clock, LeaseExpires, CardExpires, DeadlinePasses, WriteLands, vars
<1>7. CASE \/ \E a \in Actions : RefuseConfirm(a) \/ CancelCard(a)
           \/ \E t \in Turns : RequestCancel(t)
           \/ \E c \in Convs : DeleteConversation(c)
           \/ \E D \in SUBSET Convs : BatchDelete(D)
  BY <1>4, <1>7
  DEF RefuseConfirm, CancelCard, RequestCancel, DeleteConversation, BatchDelete, Remove
<1>8. QED
  BY <1>1, <1>2, <1>3, <1>5, <1>6, <1>7 DEF Next, UserStep

\* A claimed card stays claimed, and its journal row stays.
LEMMA ClaimStays ==
    ASSUME TypeOK, [Next]_vars, NEW a \in Actions
    PROVE  /\ action[a] \in Claimed => action'[a] \in Claimed
           /\ journal[a] # "none" => journal'[a] # "none"
<1> USE DEF TypeOK, ActionsOK, Claimed
<1>1. ASSUME NEW A \in SUBSET {x \in Actions : action[x] = "pending"},
             Close(A, "expired") \/ Close(A, "cancelled")
      PROVE  /\ action[a] \in Claimed => action'[a] \in Claimed
             /\ journal[a] # "none" => journal'[a] # "none"
  BY <1>1 DEF Close
<1>2. ASSUME NEW t \in Turns, NEW outcome \in Outcomes, Settles(t, outcome)
      PROVE  /\ action[a] \in Claimed => action'[a] \in Claimed
             /\ journal[a] # "none" => journal'[a] # "none"
  BY <1>2 DEF Settles, Settle, PendingStatus, Outcomes
<1>3. ASSUME RecoverOrphanWrites
      PROVE  /\ action[a] \in Claimed => action'[a] \in Claimed
             /\ journal[a] # "none" => journal'[a] # "none"
  BY <1>3 DEF RecoverOrphanWrites
<1>4. ASSUME NEW D \in SUBSET Convs, Remove(D)
      PROVE  /\ action[a] \in Claimed => action'[a] \in Claimed
             /\ journal[a] # "none" => journal'[a] # "none"
  BY <1>4 DEF Remove
<1>5. CardMove
  BY StepIsCardMove
<1>6. QED
  BY <1>1, <1>2, <1>3, <1>4, <1>5 DEF CardMove

LEMMA StepKeepsBound ==
    ASSUME IInv, [Next]_vars
    PROVE  Bound'
<1> USE DEF IInv, TypeOK, TurnsOK, ActionsOK, Bound
<1>1. \A a \in Actions : /\ action[a] \in Claimed => action'[a] \in Claimed
                         /\ journal[a] # "none" => journal'[a] # "none"
  BY ClaimStays
<1>2. ASSUME NEW c \in Convs, NEW m \in Msgs, NEW t \in Turns, StartTurn(c, m, t)
      PROVE  Bound'
  BY <1>1, <1>2, TurnsAssumption DEF StartTurn, InsertTurn, Close
<1>3. ASSUME NEW c \in Convs, NEW a \in Actions, NEW t \in Turns, Claim(c, a, t)
      PROVE  Bound'
  BY <1>1, <1>3 DEF Claim, InsertTurn, Claimed
<1>4. ASSUME NEW t \in Turns, NEW a \in Actions, CreatePending(t, a)
      PROVE  Bound'
  <2>1. turnMsg' = turnMsg /\ action[a] = "none"
    BY <1>4 DEF CreatePending, FinishTurns, NextRow
  <2>2. \A b \in Actions : b # a => actTurn'[b] = actTurn[b]
    BY <1>4 DEF CreatePending
  <2>3. QED
    BY <1>1, <2>1, <2>2 DEF Claimed
<1>5. ASSUME UNCHANGED <<turnMsg, actTurn>>
      PROVE  Bound'
  BY <1>1, <1>5
<1>6. BindMove
  BY StepIsBindMove
<1>7. QED
  BY <1>2, <1>3, <1>4, <1>5, <1>6 DEF BindMove

LEMMA StepKeepsSent ==
    ASSUME IInv, [Next]_vars
    PROVE  SentHasFate'
<1> USE DEF IInv, TypeOK, ActionsOK, WritesOK, SentHasFate
<1>1. \A a \in Actions : journal[a] # "none" => journal'[a] # "none"
  BY ClaimStays
<1>2. ASSUME NEW a \in Actions, WriteLands(a)
      PROVE  SentHasFate'
  BY <1>1, <1>2 DEF WriteLands
<1>3. ASSUME NEW t \in Turns, SendWrite(t)
      PROVE  SentHasFate'
  <2>1. /\ turnMsg[t] \in Actions
        /\ write[turnMsg[t]] = "idle"
        /\ journal[turnMsg[t]] # "none"
    BY <1>3 DEF SendWrite, RunnersOK, ConfirmPoints, RunnerKnows, Knows, Unsent, Bound
  <2>2. QED
    BY <1>1, <1>3, <2>1 DEF SendWrite
<1>4. ASSUME UNCHANGED worldVars
      PROVE  SentHasFate'
  BY <1>1, <1>4
<1>5. WriteMove
  BY StepIsBindMove
<1>6. QED
  BY <1>2, <1>3, <1>4, <1>5 DEF WriteMove

\* Only its own runner takes a workable card, or an idle write, away.
LEMMA WorkableStays ==
    ASSUME IInv, [Next]_vars, NEW a \in Actions, Workable(a)
    PROVE  Workable(a)' \/ \E t \in Turns : turnMsg[t] = a /\ pc'[t] \in {"begin", "failing", "off"}
<1> USE DEF IInv, TypeOK, ActionsOK, HistoryClosed, PendingStatus, Outcomes, Workable
<1>1. ASSUME NEW A \in SUBSET {x \in Actions : action[x] = "pending"},
             Close(A, "expired") \/ Close(A, "cancelled")
      PROVE  Workable(a)'
  BY <1>1 DEF Close
<1>2. ASSUME NEW t \in Turns, NEW outcome \in Outcomes, Settles(t, outcome), turnMsg[t] # a
      PROVE  Workable(a)'
  BY <1>2 DEF Settles, Settle
<1>3. ASSUME RecoverOrphanWrites
      PROVE  Workable(a)'
  BY <1>3 DEF RecoverOrphanWrites, OrphanWrites
<1>4. ASSUME NEW D \in SUBSET Convs, Remove(D)
      PROVE  Workable(a)'
  BY <1>4 DEF Remove
<1>5. CardMove
  BY StepIsCardMove
<1>6. QED
  BY <1>1, <1>2, <1>3, <1>4, <1>5 DEF CardMove, Settles

LEMMA FateStays ==
    ASSUME IInv, [Next]_vars, NEW a \in Actions, write[a] # "inflight"
    PROVE  write'[a] = write[a] \/ \E t \in Turns : turnMsg[t] = a /\ pc'[t] = "writing"
<1> USE DEF IInv, TypeOK, RunnersOK, WritesOK
<1>1. ASSUME NEW b \in Actions, WriteLands(b)
      PROVE  write'[a] = write[a]
  BY <1>1 DEF WriteLands
<1>2. ASSUME NEW t \in Turns, SendWrite(t)
      PROVE  write'[a] = write[a] \/ (turnMsg[t] = a /\ pc'[t] = "writing")
  BY <1>2 DEF SendWrite, Goto
<1>3. WriteMove
  BY StepIsBindMove
<1>4. QED
  BY <1>1, <1>2, <1>3 DEF WriteMove

LEMMA StepKeepsKnows ==
    ASSUME IInv, [Next]_vars, NEW s \in Turns
    PROVE  Knows(s, pc[s])'
<1> DEFINE a == turnMsg[s]
<1>1. CASE pc'[s] \notin Unsent \cup {"succeeded", "failed"}
  BY <1>1 DEF Knows, Unsent
<1>2. ASSUME NEW c \in Convs, NEW b \in Actions, Claim(c, b, s)
      PROVE  Knows(s, pc[s])'
  <2>1. pc'[s] = "confirm" /\ turnMsg'[s] = b /\ action'[b] = "executing" /\ write'[b] = write[b]
    BY <1>2 DEF Claim, InsertTurn, IInv, TypeOK, TurnsOK, RunnersOK, ActionsOK
  <2>2. write[b] = "idle"
    BY <1>2 DEF Claim, IInv, HistoryClosed, SentHasFate
  <2>3. QED
    BY <2>1, <2>2 DEF Knows, Unsent, Workable
<1>3. ASSUME turnMsg'[s] = a, pc[s] \in ConfirmPoints, pc'[s] \in Unsent \cup {"succeeded", "failed"}
      PROVE  /\ write[a] # "inflight" => write'[a] = write[a]
             /\ Workable(a) => Workable(a)'
  <2>1. a \in Actions
    BY <1>3 DEF IInv, TypeOK, RunnersOK
  <2>2. \A t \in Turns : turnMsg[t] = a => t = s
    BY <2>1 DEF IInv, Bound
  <2>3. QED
    BY <1>3, <2>1, <2>2, WorkableStays, FateStays DEF Unsent
<1>4. CASE pc[s] \in Unsent \cup {"succeeded", "failed"} /\ pc'[s] \in Unsent \cup {"succeeded", "failed"}
           /\ turnMsg'[s] = a /\ (pc'[s] = pc[s] \/ (pc[s] \in Unsent /\ pc'[s] \in Unsent))
  <2>1. Knows(s, pc[s])
    BY DEF IInv, RunnerKnows
  <2>2. pc[s] \in ConfirmPoints
    BY <1>4 DEF Unsent, ConfirmPoints
  <2>3. /\ write[a] # "inflight" => write'[a] = write[a]
        /\ Workable(a) => Workable(a)'
    BY <1>3, <1>4, <2>2
  <2>4. turnMsg'[s] = turnMsg[s]
    BY <1>4
  <2>5. QED
    BY <1>4, <2>1, <2>3, <2>4 DEF Knows, Unsent, Workable
<1>5. CASE TurnAway(s)
  <2>1. Knows(s, pc[s])
    BY DEF IInv, RunnerKnows
  <2>2. pc'[s] = "failed" /\ pc[s] = "revalidate" /\ turnMsg' = turnMsg /\ write' = write
    BY <1>5 DEF TurnAway, Goto, Local, IInv, TypeOK, RunnersOK
  <2>3. QED
    BY <2>1, <2>2 DEF Knows, Unsent
<1>6. CASE HearBack(s)
  <2>1. /\ turnMsg' = turnMsg /\ write' = write
        /\ \/ pc'[s] = "succeeded" /\ write[a] = "applied"
           \/ pc'[s] = "failed" /\ write[a] = "refused"
           \/ pc'[s] = "unknown"
    BY <1>6 DEF HearBack, Goto, Local, IInv, TypeOK, RunnersOK
  <2>2. QED
    BY <2>1 DEF Knows, Unsent
<1>7. RunnerMove(s)
  BY StepIsRunnerMove DEF IInv
<1>8. QED
  BY <1>1, <1>2, <1>4, <1>5, <1>6, <1>7 DEF RunnerMove

LEMMA InitIInv == Init => IInv
<1>1. Init => HistoryClosed
  BY DEF Init, HistoryClosed, PendingStatus, Outcomes, Resolved
<1>2. Init => Bound
  BY TurnsAssumption DEF Init, Bound
<1>3. Init => SentHasFate /\ RunnerKnows
  BY DEF Init, SentHasFate, RunnerKnows, Knows, Unsent
<1>4. QED
  BY <1>1, <1>2, <1>3, InitType DEF IInv

LEMMA InductiveInvariant == Spec => []IInv
<1>1. IInv /\ [Next]_vars => IInv'
  <2> SUFFICES ASSUME IInv, [Next]_vars
               PROVE  IInv'
    OBVIOUS
  <2>1. TypeOK' /\ HistoryClosed'
    BY StepKeepsType, StepKeepsHistory DEF IInv
  <2>2. Bound' /\ SentHasFate'
    BY StepKeepsBound, StepKeepsSent
  <2>3. RunnerKnows'
    BY StepKeepsKnows DEF RunnerKnows
  <2>4. QED
    BY <2>1, <2>2, <2>3 DEF IInv
<1>2. QED
  BY InitIInv, <1>1, PTL DEF Spec

----------------------------------------------------------------------------
(* The refinement. *)

\* A card moves as the promise allows, or stays where it is.
LEMMA StageMoves ==
    ASSUME IInv, CardMove, NEW a \in Actions
    PROVE  Promise!Moves(a) \/ Stage'[a] = Stage[a]
<1> USE DEF IInv, TypeOK, ActionsOK, HistoryClosed, PendingStatus, Outcomes
<1>1. ASSUME NEW A \in SUBSET {x \in Actions : action[x] = "pending"},
             Close(A, "expired") \/ Close(A, "cancelled")
      PROVE  Promise!Moves(a) \/ Stage'[a] = Stage[a]
  BY <1>1 DEF Close, Stage, Promise!Moves
<1>2. ASSUME NEW b \in Actions,
             action[b] = "pending",
             action' = [action EXCEPT ![b] = "executing"],
             journal' = [journal EXCEPT ![b] = "started"]
      PROVE  Promise!Moves(a) \/ Stage'[a] = Stage[a]
  BY <1>2 DEF Stage, Promise!Moves
<1>3. ASSUME NEW b \in Actions,
             action[b] = "none",
             action' = [action EXCEPT ![b] = "pending"],
             journal' = journal
      PROVE  Promise!Moves(a) \/ Stage'[a] = Stage[a]
  BY <1>3 DEF Stage, Promise!Moves
<1>4. ASSUME NEW t \in Turns, NEW outcome \in Outcomes, Settles(t, outcome)
      PROVE  Promise!Moves(a) \/ Stage'[a] = Stage[a]
  <2> DEFINE b == turnMsg[t]
  <2>1. /\ action[b] = "executing" /\ b \in Actions
        /\ action' = [action EXCEPT ![b] = PendingStatus[outcome]]
        /\ journal' = [journal EXCEPT ![b] = outcome]
    BY <1>4 DEF Settles, Settle, OwnerIsLive
  <2>2. /\ outcome = "succeeded" => write[b] = "applied"
        /\ outcome = "failed" => write[b] \in {"idle", "refused"}
    BY <1>4 DEF Settles, RunnerKnows, Knows
  <2> HIDE DEF b
  <2>3. CASE a = b
    <3>1. Stage[a] = "executing" /\ Stage'[a] = PendingStatus[outcome]
      BY <2>1, <2>3 DEF Stage
    <3>2. QED
      BY <2>2, <2>3, <3>1 DEF Promise!Moves
  <2>4. CASE a # b
    BY <2>1, <2>4 DEF Stage
  <2>5. QED
    BY <2>3, <2>4
<1>5. ASSUME RecoverOrphanWrites
      PROVE  Promise!Moves(a) \/ Stage'[a] = Stage[a]
  BY <1>5 DEF RecoverOrphanWrites, OrphanWrites, Stage, Promise!Moves
<1>6. ASSUME NEW D \in SUBSET Convs, Remove(D)
      PROVE  Promise!Moves(a) \/ Stage'[a] = Stage[a]
  <2>1. journal' = journal /\ action'[a] \in {action[a], "deleted"}
    BY <1>6 DEF Remove
  <2>2. CASE action'[a] = action[a]
    BY <2>1, <2>2 DEF Stage
  <2>3. CASE action'[a] = "deleted" /\ action[a] # "deleted"
    <3>1. Stage[a] = action[a]
          /\ Stage'[a] = IF journal[a] \in {"started", "unknown"} THEN "forgotten" ELSE "discarded"
      BY <2>1, <2>3 DEF Stage
    <3>2. action[a] # "none"
      BY <1>6, <2>3, TurnsAssumption DEF Remove, ActionsOf, TurnsOf
    <3>3. QED
      BY <3>1, <3>2, <2>3 DEF Promise!Moves, Resolved
  <2>4. QED
    BY <2>1, <2>2, <2>3
<1>7. ASSUME UNCHANGED <<action, journal>>
      PROVE  Promise!Moves(a) \/ Stage'[a] = Stage[a]
  BY <1>7 DEF Stage
<1>8. QED
  BY <1>1, <1>2, <1>3, <1>4, <1>5, <1>6, <1>7 DEF CardMove

LEMMA StepKeepsPromise ==
    ASSUME IInv, [Next]_vars
    PROVE  Promise!Next
<1>1. TypeOK'
  BY StepKeepsType DEF IInv
<1>2. /\ Stage' \in [Actions -> Promise!Stages]
      /\ write' \in [Actions -> Promise!Fates]
      /\ sends' \in [Actions -> Nat]
  BY <1>1 DEF TypeOK, ActionsOK, WritesOK, Resolved, Stage, Promise!Stages, Promise!Fates
<1>3. ASSUME NEW a \in Actions, NEW b \in Actions, WriteLands(b)
      PROVE  Promise!Step(a)
  BY <1>3 DEF WriteLands, Stage, IInv, TypeOK, WritesOK,
              Promise!Step, Promise!Stays, Promise!Lands
<1>4. ASSUME NEW a \in Actions, NEW t \in Turns, SendWrite(t)
      PROVE  Promise!Step(a)
  <2> DEFINE b == turnMsg[t]
  <2>1. Stage' = Stage
    BY <1>4 DEF SendWrite, Stage
  <2>2. CASE a = b
    <3>1. write[a] = "idle" /\ Workable(a)
      BY <1>4, <2>2 DEF SendWrite, IInv, RunnerKnows, Knows, Unsent
    <3>2. Stage[a] \in {"executing", "unknown", "forgotten"}
      BY <3>1 DEF Workable, Stage
    <3>3. sends[a] = 0 /\ sends'[a] = 1 /\ write'[a] = "inflight"
      BY <1>4, <2>2, <3>1 DEF SendWrite, IInv, SentHasFate, TypeOK, WritesOK
    <3>4. QED
      BY <2>1, <3>2, <3>3 DEF Promise!Step, Promise!Leaves
  <2>3. CASE a # b
    BY <1>4, <2>1, <2>3 DEF SendWrite, IInv, TypeOK, WritesOK, Promise!Step, Promise!Stays
  <2>4. QED
    BY <2>2, <2>3
<1>5. ASSUME NEW a \in Actions, UNCHANGED worldVars
      PROVE  Promise!Step(a)
  <2>1. CardMove
    BY StepIsCardMove DEF IInv
  <2>2. Promise!Moves(a) \/ Stage'[a] = Stage[a]
    BY <2>1, StageMoves
  <2>3. QED
    BY <1>5, <2>2 DEF Promise!Step, Promise!Stays
<1>6. WriteMove
  BY StepIsBindMove
<1>7. \A a \in Actions : Promise!Step(a)
  BY <1>3, <1>4, <1>5, <1>6 DEF WriteMove
<1>8. QED
  BY <1>2, <1>7 DEF Promise!Next

\* With any number of conversations, turns and cards, and runners that pause or
\* die anywhere, the assistant sends a write at most once, only after it was
\* confirmed, and never reports a fate the write did not have
\* (claim_pending_for_confirm, run_confirm_turn, finalize_confirm_outcome).
THEOREM PromiseKept == Spec => KeepsPromise
<1>1. Init => Promise!Init
  <2>1. ASSUME Init
        PROVE  Stage = [a \in Actions |-> "none"]
    BY <2>1 DEF Init, Stage
  <2>2. QED
    BY <2>1 DEF Init, Promise!Init
<1>2. IInv /\ [Next]_vars => [Promise!Next]_(Promise!cwVars)
  BY StepKeepsPromise
<1>3. QED
  BY <1>1, <1>2, InductiveInvariant, PTL DEF Spec, KeepsPromise, Promise!Spec

\* The same in terms of the rows: no write is sent before its card was claimed,
\* and none is sent twice.
COROLLARY NoWriteUnasked ==
    Spec => [](\A a \in Actions :
                  /\ sends[a] <= 1
                  /\ action[a] \in {"none", "pending", "expired", "cancelled"} => sends[a] = 0)
<1>1. IInv => \A a \in Actions :
                  /\ sends[a] <= 1
                  /\ action[a] \in {"none", "pending", "expired", "cancelled"} => sends[a] = 0
  BY DEF IInv, SentHasFate, HistoryClosed
<1>2. QED
  BY <1>1, InductiveInvariant, PTL
=============================================================================
