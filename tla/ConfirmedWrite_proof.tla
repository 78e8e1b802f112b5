------------------------ MODULE ConfirmedWrite_proof ------------------------
(* What the promise of ConfirmedWrite implies, for any set of write calls.   *)
EXTENDS ConfirmedWrite, TLAPS

TypeOK ==
    /\ stage \in [Writes -> Stages]
    /\ fate \in [Writes -> Fates]
    /\ sends \in [Writes -> Nat]

\* A call that was sent has a fate, and one that was not has none.
SentHasFate ==
    \A w \in Writes :
        /\ sends[w] \in {0, 1}
        /\ sends[w] = 0 <=> fate[w] = "idle"

IInv == TypeOK /\ SentHasFate /\ SentOnceIfConfirmed /\ ReportsTruth

\* A step that keeps the type is a step of every call on its own.
LEMMA StepKeepsIInv ==
    ASSUME IInv, Next
    PROVE  IInv'
<1>1. TypeOK'
  BY DEF Next, TypeOK
<1>2. ASSUME NEW w \in Writes
      PROVE  /\ sends'[w] \in {0, 1}
             /\ sends'[w] = 0 <=> fate'[w] = "idle"
  <2>1. Step(w)
    BY DEF Next
  <2>2. CASE Stays(w)
    BY <2>2 DEF IInv, SentHasFate, Stays
  <2>3. CASE Leaves(w)
    BY <2>3 DEF Leaves
  <2>4. CASE Lands(w)
    BY <2>4 DEF IInv, SentHasFate, Lands
  <2>5. QED
    BY <2>1, <2>2, <2>3, <2>4 DEF Step
<1>3. ASSUME NEW w \in Writes
      PROVE  stage'[w] \in {"none", "pending", "expired", "cancelled"} => sends'[w] = 0
  <2>1. Step(w)
    BY DEF Next
  <2>2. CASE Stays(w) /\ Moves(w)
    BY <2>2 DEF IInv, SentOnceIfConfirmed, Stays, Moves
  <2>3. CASE Stays(w) /\ stage'[w] = stage[w]
    BY <2>3 DEF IInv, SentOnceIfConfirmed, Stays
  <2>4. CASE stage'[w] = stage[w] /\ Leaves(w)
    BY <2>4 DEF Leaves
  <2>5. CASE stage'[w] = stage[w] /\ Lands(w)
    BY <2>5 DEF IInv, SentOnceIfConfirmed, Lands
  <2>6. QED
    BY <2>1, <2>2, <2>3, <2>4, <2>5 DEF Step
<1>4. ASSUME NEW w \in Writes
      PROVE  /\ stage'[w] = "confirmed" => fate'[w] = "applied"
             /\ stage'[w] = "failed" => fate'[w] \in {"idle", "refused"}
  <2>1. Step(w)
    BY DEF Next
  <2>2. CASE Stays(w) /\ Moves(w)
    BY <2>2 DEF Stays, Moves
  <2>3. CASE Stays(w) /\ stage'[w] = stage[w]
    BY <2>3 DEF IInv, ReportsTruth, Stays
  <2>4. CASE stage'[w] = stage[w] /\ Leaves(w)
    BY <2>4 DEF Leaves
  <2>5. CASE stage'[w] = stage[w] /\ Lands(w)
    BY <2>5 DEF IInv, ReportsTruth, Lands
  <2>6. QED
    BY <2>1, <2>2, <2>3, <2>4, <2>5 DEF Step
<1>5. QED
  BY <1>1, <1>2, <1>3, <1>4 DEF IInv, SentHasFate, SentOnceIfConfirmed, ReportsTruth

LEMMA InvariantHolds == Spec => []IInv
<1>1. Init => IInv
  BY DEF Init, IInv, TypeOK, Stages, Fates, SentHasFate, SentOnceIfConfirmed, ReportsTruth
<1>2. IInv /\ [Next]_cwVars => IInv'
  <2>1. CASE Next
    BY <2>1, StepKeepsIInv
  <2>2. CASE UNCHANGED cwVars
    BY <2>2 DEF cwVars, IInv, TypeOK, SentHasFate, SentOnceIfConfirmed, ReportsTruth
  <2>3. QED
    BY <2>1, <2>2
<1>3. QED
  BY <1>1, <1>2, PTL DEF Spec

\* A write that was not confirmed is never sent, and none is sent twice
\* (claim_pending_for_confirm, run_confirm_turn).
THEOREM NeverSentUnasked == Spec => []SentOnceIfConfirmed
<1>1. IInv => SentOnceIfConfirmed
  BY DEF IInv
<1>2. QED
  BY <1>1, InvariantHolds, PTL

\* What the user is told about a write agrees with what the write did
\* (finalize_confirm_outcome).
THEOREM ReportsAreTrue == Spec => []ReportsTruth
<1>1. IInv => ReportsTruth
  BY DEF IInv
<1>2. QED
  BY <1>1, InvariantHolds, PTL
=============================================================================
