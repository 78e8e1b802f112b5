-------------------------- MODULE ConfirmCard_proof --------------------------
(***************************************************************************)
(* Theorems about ConfirmCard, for every number of windows, slots, clicks  *)
(* and changes of the target.                                              *)
(***************************************************************************)
EXTENDS ConfirmCard, FiniteSetTheorems, SequenceTheorems, TLAPS

USE DEF requestVars, tabVars

\* A card is claimed exactly when it has its one continuation.
OneRun ==
    /\ Len(runs) <= 1
    /\ runs # <<>> <=> card.status \in Claimed

\* A request claims the card it has read only if the target still was that version.
AsRead == \A t \in Tabs : pc[t] \in {"reserve", "claim", "open"} => new[t] = fp[t]

IInv == TypeOK /\ OneRun /\ AsRead /\ RunsAsClaimed /\ SlotsExact

----------------------------------------------------------------------------
(* Counting slots. *)

Held == {t \in Tabs : pc[t] \in SlotKept}
Alive(r) == {n \in DOMAIN r : r[n].pc # "gone"}
Bit(P) == IF P THEN 1 ELSE 0

LEMMA HeldFinite == IsFiniteSet(Held) /\ Cardinality(Held) \in Nat
<1>1. Held \in SUBSET Tabs
  BY DEF Held
<1>2. QED
  BY <1>1, CardAssumption, FS_Subset, FS_CardinalityType

\* A request that moves on takes at most its own slot along.
LEMMA HeldMoves ==
    ASSUME TypeOK, NEW t \in Tabs, NEW s \in Steps, Go(t, s)
    PROVE  /\ Cardinality(Held') \in Nat
           /\ Cardinality(Held') =
                Cardinality(Held) + Bit(s \in SlotKept) - Bit(pc[t] \in SlotKept)
<1>1. \A x \in Tabs : pc'[x] = IF x = t THEN s ELSE pc[x]
  BY DEF Go, TypeOK
<1>2. CASE s \in SlotKept
  <2>1. Held' = Held \cup {t}
    BY <1>1, <1>2 DEF Held
  <2>2. t \in Held <=> pc[t] \in SlotKept
    BY DEF Held
  <2>3. Cardinality(Held') = IF t \in Held THEN Cardinality(Held) ELSE Cardinality(Held) + 1
    BY <2>1, HeldFinite, FS_AddElement
  <2>4. QED
    BY <1>2, <2>2, <2>3, HeldFinite DEF Bit
<1>3. CASE s \notin SlotKept
  <2>1. Held' = Held \ {t}
    BY <1>1, <1>3 DEF Held
  <2>2. t \in Held <=> pc[t] \in SlotKept
    BY DEF Held
  <2>3. IsFiniteSet(Held') /\ Cardinality(Held') = Cardinality(Held) - Bit(t \in Held)
    BY <2>1, HeldFinite, FS_RemoveElement DEF Bit
  <2>4. Cardinality(Held') \in Nat
    BY <2>3, FS_CardinalityType
  <2>5. QED
    BY <1>3, <2>2, <2>3, <2>4, HeldFinite DEF Bit
<1>4. QED
  BY <1>2, <1>3

LEMMA AliveIsOne ==
    ASSUME NEW r, DOMAIN r = {1}
    PROVE  Cardinality(Alive(r)) = Bit(r[1].pc # "gone")
<1>1. CASE r[1].pc = "gone"
  <2>1. Alive(r) = {}
    BY <1>1 DEF Alive
  <2>2. QED
    BY <1>1, <2>1, FS_EmptySet DEF Bit
<1>2. CASE r[1].pc # "gone"
  <2>1. Alive(r) = {1}
    BY <1>2 DEF Alive
  <2>2. QED
    BY <1>2, <2>1, FS_Singleton DEF Bit
<1>3. QED
  BY <1>1, <1>2

LEMMA AliveFinite ==
    ASSUME TypeOK, OneRun
    PROVE  Cardinality(Alive(runs)) \in Nat
<1>1. DOMAIN runs = 1..Len(runs) /\ Len(runs) \in Nat /\ Len(runs) <= 1
  BY LenProperties DEF TypeOK, OneRun
<1>2. CASE Len(runs) = 1
  <2>1. DOMAIN runs = {1}
    BY <1>1, <1>2
  <2>2. QED
    BY <2>1, AliveIsOne DEF Bit
<1>3. CASE Len(runs) = 0
  <2>1. Alive(runs) = {}
    BY <1>1, <1>3 DEF Alive
  <2>2. QED
    BY <2>1, FS_EmptySet
<1>4. QED
  BY <1>1, <1>2, <1>3

LEMMA SlotsAre == SlotsExact <=> slots = Cardinality(Held) + Cardinality(Alive(runs))
BY DEF SlotsExact, Held, Alive

\* The slot of a request that moves on, when no runner starts or ends.
LEMMA RequestKeepsSlots ==
    ASSUME TypeOK, OneRun, SlotsExact, NEW t \in Tabs, NEW s \in Steps, Go(t, s), runs' = runs,
           slots' = slots + Bit(s \in SlotKept) - Bit(pc[t] \in SlotKept)
    PROVE  SlotsExact' /\ slots' \in Nat
<1>1. Alive(runs)' = Alive(runs)
  BY DEF Alive
<1>2. Cardinality(Alive(runs)) \in Nat
  BY AliveFinite
<1>3. slots' = Cardinality(Held') + Cardinality(Alive(runs)')
  BY <1>1, <1>2, HeldMoves, HeldFinite, SlotsAre DEF Bit
<1>4. SlotsExact'
  BY <1>3 DEF SlotsExact, Held, Alive
<1>5. QED
  BY <1>1, <1>2, <1>3, <1>4, HeldMoves

----------------------------------------------------------------------------
(* The steps of a request. *)

LEMMA Bounds == SlotLimit \in Nat /\ MaxVersion \in Nat /\ MaxVersion >= 1 /\ MaxClicks \in Nat
BY CardAssumption

LEMMA ClickKeeps == ASSUME IInv, NEW t \in Tabs, Click(t) PROVE IInv'
<1> USE DEF IInv
<1>1. TypeOK'
  BY Bounds DEF TypeOK, Click, Go, Steps, SlotKept, Claimed
<1>2. OneRun' /\ AsRead' /\ RunsAsClaimed'
  BY DEF TypeOK, OneRun, AsRead, RunsAsClaimed, Click, Go, Claimed
<1>3. SlotsExact'
  <2>1. PICK s \in Steps : Go(t, s) /\ (s \in SlotKept <=> pc[t] \in SlotKept)
    BY DEF Click, Steps, SlotKept, Go
  <2>2. QED
    BY <2>1, RequestKeepsSlots DEF Click, Bit, TypeOK
<1>4. QED
  BY <1>1, <1>2, <1>3

LEMMA ReadCardKeeps == ASSUME IInv, NEW t \in Tabs, ReadCard(t) PROVE IInv'
<1> USE DEF IInv
<1>1. TypeOK'
  BY Bounds DEF TypeOK, ReadCard, Go, Steps, SlotKept, Claimed
<1>2. OneRun' /\ AsRead' /\ RunsAsClaimed'
  BY DEF TypeOK, OneRun, AsRead, RunsAsClaimed, ReadCard, Go, Claimed
<1>3. SlotsExact'
  <2>1. PICK s \in {"find", "findOver"} : Go(t, s)
    BY DEF ReadCard
  <2>2. s \in Steps \ SlotKept /\ pc[t] \notin SlotKept
    BY DEF ReadCard, Steps, SlotKept
  <2>3. QED
    BY <2>1, <2>2, RequestKeepsSlots DEF ReadCard, Bit, TypeOK
<1>4. QED
  BY <1>1, <1>2, <1>3

LEMMA FindContinuationKeeps == ASSUME IInv, NEW t \in Tabs, FindContinuation(t) PROVE IInv'
<1> USE DEF IInv
<1>1. TypeOK'
  BY Bounds DEF TypeOK, FindContinuation, Go, Steps, SlotKept, Claimed
<1>2. OneRun' /\ AsRead' /\ RunsAsClaimed'
  BY DEF TypeOK, OneRun, AsRead, RunsAsClaimed, FindContinuation, Go, Claimed
<1>3. SlotsExact'
  <2>1. PICK s \in {"streaming", "check", "refetch"} : Go(t, s)
    BY DEF FindContinuation
  <2>2. s \in Steps \ SlotKept /\ pc[t] \notin SlotKept
    BY DEF FindContinuation, Steps, SlotKept
  <2>3. QED
    BY <2>1, <2>2, RequestKeepsSlots DEF FindContinuation, Bit, TypeOK
<1>4. QED
  BY <1>1, <1>2, <1>3

LEMMA RevalidateKeeps == ASSUME IInv, NEW t \in Tabs, Revalidate(t) PROVE IInv'
<1> USE DEF IInv
<1>1. TypeOK'
  <2>1. PICK s \in {"refetch", "expiring", "updating", "reserve"} :
           Go(t, s) /\ UNCHANGED locker /\ pc[t] # "open" /\ new' \in {new, [new EXCEPT ![t] = target]}
    BY DEF Revalidate
  <2>2. new' \in [Tabs -> Versions] /\ pc' \in [Tabs -> Steps]
    BY <2>1 DEF TypeOK, Go, Steps
  <2>3. \A x \in Tabs : pc'[x] = "open" <=> locker' = x
    BY <2>1 DEF TypeOK, Go
  <2>4. QED
    BY <2>2, <2>3 DEF TypeOK, Revalidate
<1>2. OneRun' /\ AsRead' /\ RunsAsClaimed'
  BY DEF TypeOK, OneRun, AsRead, RunsAsClaimed, Revalidate, Go, Claimed
<1>3. SlotsExact'
  <2>1. PICK s \in Steps : Go(t, s) /\ (s \in SlotKept <=> pc[t] \in SlotKept)
    BY DEF Revalidate, Steps, SlotKept, Go
  <2>2. QED
    BY <2>1, RequestKeepsSlots DEF Revalidate, Bit, TypeOK
<1>4. QED
  BY <1>1, <1>2, <1>3

LEMMA ExpireNowKeeps == ASSUME IInv, NEW t \in Tabs, ExpireNow(t) PROVE IInv'
<1> USE DEF IInv
<1>1. TypeOK'
  BY Bounds DEF TypeOK, ExpireNow, Go, Steps, SlotKept, Claimed
<1>2. OneRun' /\ AsRead' /\ RunsAsClaimed'
  BY DEF TypeOK, OneRun, AsRead, RunsAsClaimed, ExpireNow, Go, Claimed
<1>3. SlotsExact'
  <2>1. PICK s \in Steps : Go(t, s) /\ (s \in SlotKept <=> pc[t] \in SlotKept)
    BY DEF ExpireNow, Steps, SlotKept, Go
  <2>2. QED
    BY <2>1, RequestKeepsSlots DEF ExpireNow, Bit, TypeOK
<1>4. QED
  BY <1>1, <1>2, <1>3

LEMMA UpdateSummaryKeeps == ASSUME IInv, NEW t \in Tabs, UpdateSummary(t) PROVE IInv'
<1> USE DEF IInv
<1>1. TypeOK'
  BY Bounds DEF TypeOK, UpdateSummary, Go, Steps, SlotKept, Claimed
<1>2. OneRun' /\ AsRead' /\ RunsAsClaimed'
  BY DEF TypeOK, OneRun, AsRead, RunsAsClaimed, UpdateSummary, Go, Claimed
<1>3. SlotsExact'
  <2>1. PICK s \in Steps : Go(t, s) /\ (s \in SlotKept <=> pc[t] \in SlotKept)
    BY DEF UpdateSummary, Steps, SlotKept, Go
  <2>2. QED
    BY <2>1, RequestKeepsSlots DEF UpdateSummary, Bit, TypeOK
<1>4. QED
  BY <1>1, <1>2, <1>3

LEMMA OpenClaimKeeps == ASSUME IInv, NEW t \in Tabs, OpenClaim(t) PROVE IInv'
<1> USE DEF IInv
<1>1. TypeOK'
  <2>1. PICK s \in SlotKept :
           /\ Go(t, s) /\ locker = None /\ locker' = IF s = "open" THEN t ELSE None
           /\ new' \in {new, [new EXCEPT ![t] = target]}
    BY DEF OpenClaim, Recheck, SlotKept
  <2>2. new' \in [Tabs -> Versions] /\ pc' \in [Tabs -> Steps] /\ locker' \in Tabs \cup {None}
    BY <2>1 DEF TypeOK, Go, Steps
  <2>3. \A x \in Tabs : pc'[x] = "open" <=> locker' = x
    BY <2>1, CardAssumption DEF TypeOK, Go
  <2>4. QED
    BY <2>2, <2>3 DEF TypeOK, OpenClaim
<1>2. OneRun' /\ AsRead' /\ RunsAsClaimed'
  BY DEF TypeOK, OneRun, AsRead, RunsAsClaimed, OpenClaim, Go, Claimed, Recheck
<1>3. SlotsExact'
  <2>1. PICK s \in Steps : Go(t, s) /\ (s \in SlotKept <=> pc[t] \in SlotKept)
    BY DEF OpenClaim, Steps, SlotKept, Go, Recheck
  <2>2. QED
    BY <2>1, RequestKeepsSlots DEF OpenClaim, Bit, TypeOK, Recheck
<1>4. QED
  BY <1>1, <1>2, <1>3

LEMMA AbortClaimKeeps == ASSUME IInv, NEW t \in Tabs, AbortClaim(t) PROVE IInv'
<1> USE DEF IInv
<1>1. TypeOK'
  <2>1. PICK s \in {"race", "refused"} : Go(t, s)
    BY DEF AbortClaim, Go
  <2>2. pc' \in [Tabs -> Steps] /\ locker' = None
    BY <2>1 DEF TypeOK, Go, Steps, SlotKept, AbortClaim
  <2>3. \A x \in Tabs : pc'[x] = "open" <=> locker' = x
    BY <2>1, <2>2, CardAssumption DEF TypeOK, Go, AbortClaim
  <2>4. QED
    BY <2>2, <2>3 DEF TypeOK, AbortClaim
<1>2. OneRun' /\ AsRead' /\ RunsAsClaimed'
  BY DEF TypeOK, OneRun, AsRead, RunsAsClaimed, AbortClaim, Go, Claimed
<1>3. SlotsExact'
  <2>1. PICK s \in Steps : Go(t, s) /\ (s \in SlotKept <=> pc[t] \in SlotKept)
    BY DEF AbortClaim, Steps, SlotKept, Go
  <2>2. QED
    BY <2>1, RequestKeepsSlots DEF AbortClaim, Bit, TypeOK
<1>4. QED
  BY <1>1, <1>2, <1>3

LEMMA LookUpWinnerKeeps == ASSUME IInv, NEW t \in Tabs, LookUpWinner(t) PROVE IInv'
<1> USE DEF IInv
<1>1. TypeOK'
  BY Bounds DEF TypeOK, LookUpWinner, Go, Steps, SlotKept, Claimed
<1>2. OneRun' /\ AsRead' /\ RunsAsClaimed'
  BY DEF TypeOK, OneRun, AsRead, RunsAsClaimed, LookUpWinner, Go, Claimed
<1>3. SlotsExact'
  <2>1. PICK s \in {"streaming", "refetch"} : Go(t, s)
    BY DEF LookUpWinner
  <2>2. s \in Steps \ SlotKept /\ pc[t] \notin SlotKept
    BY DEF LookUpWinner, Steps, SlotKept
  <2>3. QED
    BY <2>1, <2>2, RequestKeepsSlots DEF LookUpWinner, Bit, TypeOK
<1>4. QED
  BY <1>1, <1>2, <1>3

LEMMA RefetchKeeps == ASSUME IInv, NEW t \in Tabs, Refetch(t) PROVE IInv'
<1> USE DEF IInv
<1>1. TypeOK'
  BY Bounds DEF TypeOK, Refetch, Go, Steps, SlotKept, Claimed
<1>2. OneRun' /\ AsRead' /\ RunsAsClaimed'
  BY DEF TypeOK, OneRun, AsRead, RunsAsClaimed, Refetch, Go, Claimed
<1>3. SlotsExact'
  <2>1. PICK s \in Steps : Go(t, s) /\ (s \in SlotKept <=> pc[t] \in SlotKept)
    BY DEF Refetch, Steps, SlotKept, Go
  <2>2. QED
    BY <2>1, RequestKeepsSlots DEF Refetch, Bit, TypeOK
<1>4. QED
  BY <1>1, <1>2, <1>3

LEMMA ReserveKeeps == ASSUME IInv, NEW t \in Tabs, Reserve(t) PROVE IInv'
<1> USE DEF IInv
<1>1. PICK s \in {"claim", "refetch"} :
         Go(t, s) /\ slots' = slots + Bit(s = "claim") /\ (s = "claim" => slots < SlotLimit)
  BY DEF Reserve, Bit, TypeOK
<1>2. pc[t] \notin SlotKept /\ s \in Steps /\ (s \in SlotKept <=> s = "claim")
  BY <1>1 DEF Reserve, Steps, SlotKept
<1>3. SlotsExact' /\ slots' \in Nat
  <2>1. slots' = slots + Bit(s \in SlotKept) - Bit(pc[t] \in SlotKept)
    BY <1>1, <1>2 DEF Bit, TypeOK
  <2>2. QED
    BY <1>1, <1>2, <2>1, RequestKeepsSlots DEF Reserve
<1>4. TypeOK'
  <2>1. slots' \in 0..SlotLimit
    BY <1>1, <1>3, Bounds DEF TypeOK, Bit
  <2>2. pc' \in [Tabs -> Steps] /\ \A x \in Tabs : pc'[x] = "open" <=> locker' = x
    BY <1>1, <1>2 DEF TypeOK, Go, Reserve
  <2>3. QED
    BY <2>1, <2>2 DEF TypeOK, Reserve
<1>5. OneRun' /\ AsRead' /\ RunsAsClaimed'
  BY DEF TypeOK, OneRun, AsRead, RunsAsClaimed, Reserve, Go
<1>6. QED
  BY <1>3, <1>4, <1>5

LEMMA ReleaseSlotKeeps == ASSUME IInv, NEW t \in Tabs, ReleaseSlot(t) PROVE IInv'
<1> USE DEF IInv
<1>1. PICK s \in {"lookup", "updating", "refetch"} : Go(t, s)
  BY DEF ReleaseSlot, AfterRelease
<1>2. pc[t] \in SlotKept \ {"claim", "open"} /\ s \in Steps \ SlotKept /\ s # "open"
  BY <1>1 DEF ReleaseSlot, Steps, SlotKept
<1>3. SlotsExact' /\ slots' \in Nat
  BY <1>1, <1>2, RequestKeepsSlots DEF ReleaseSlot, Bit, TypeOK
<1>4. TypeOK'
  <2>1. slots' \in 0..SlotLimit
    BY <1>3, Bounds DEF TypeOK, ReleaseSlot
  <2>2. pc' \in [Tabs -> Steps] /\ \A x \in Tabs : pc'[x] = "open" <=> locker' = x
    BY <1>1, <1>2 DEF TypeOK, Go, ReleaseSlot
  <2>3. stale' \in [Tabs -> BOOLEAN]
    BY DEF TypeOK, ReleaseSlot
  <2>4. QED
    BY <2>1, <2>2, <2>3 DEF TypeOK, ReleaseSlot
<1>5. OneRun' /\ RunsAsClaimed'
  BY DEF OneRun, RunsAsClaimed, ReleaseSlot
<1>6. AsRead'
  BY <1>1 DEF TypeOK, AsRead, ReleaseSlot, Go
<1>7. QED
  BY <1>3, <1>4, <1>5, <1>6

\* The slot of the request becomes the slot of the runner.
LEMMA CommitClaimKeeps == ASSUME IInv, NEW t \in Tabs, CommitClaim(t) PROVE IInv'
<1> USE DEF IInv
<1>1. locker = t /\ pc[t] = "open" /\ locker' = None
  BY DEF CommitClaim, TypeOK
<1>2. \A s : Go(t, s) /\ s # "open" => \A x \in Tabs : pc'[x] = "open" <=> locker' = x
  BY <1>1, CardAssumption DEF TypeOK, Go
<1>3. CASE ~StillAsRead(t)
  <2>1. PICK s \in {"outdated", "refused"} : Go(t, s)
    BY <1>3 DEF CommitClaim
  <2>2. {s, pc[t]} \subseteq SlotKept /\ s \in Steps /\ s # "open"
    BY <1>1, <2>1 DEF SlotKept, Steps
  <2>3. UNCHANGED <<card, lease, runs, slots>>
    BY <1>3 DEF CommitClaim
  <2>4. SlotsExact'
    BY <2>1, <2>2, <2>3, RequestKeepsSlots DEF Bit, TypeOK
  <2>5. TypeOK'
    <3>1. pc' \in [Tabs -> Steps] /\ \A x \in Tabs : pc'[x] = "open" <=> locker' = x
      BY <1>2, <2>1, <2>2 DEF TypeOK, Go
    <3>2. QED
      BY <1>1, <2>3, <3>1 DEF TypeOK, CommitClaim
  <2>6. OneRun' /\ RunsAsClaimed'
    BY <2>3 DEF OneRun, RunsAsClaimed
  <2>7. AsRead'
    BY <2>1 DEF TypeOK, AsRead, CommitClaim, Go
  <2>8. QED
    BY <2>4, <2>5, <2>6, <2>7
<1>4. CASE StillAsRead(t)
  <2> DEFINE run == [by |-> t, asked |-> shown[t], fp |-> fp[t], checked |-> None,
                     pc |-> "renew", fate |-> "idle", outcome |-> "failed"]
  <2>1. runs = <<>> /\ card.fp = fp[t]
    BY <1>1, <1>4 DEF StillAsRead, OneRun, AsRead, Claimed
  <2>2. Go(t, "streaming") /\ runs' = Append(runs, run) /\ card' = [card EXCEPT !.status = "executing"]
    BY <1>4 DEF CommitClaim
  <2>3. run \in Run
    BY DEF TypeOK, Run
  <2>4. runs' = <<run>> /\ runs' \in Seq(Run) /\ Len(runs') = 1 /\ runs' # <<>> /\ runs'[1] = run
    BY <2>1, <2>2, <2>3, AppendProperties DEF TypeOK
  <2>5. DOMAIN runs' = {1}
    BY <2>4
  <2>6. "streaming" \in Steps \ SlotKept /\ pc[t] \in SlotKept
    BY <1>1 DEF SlotKept, Steps
  <2>7. TypeOK'
    <3>1. pc' \in [Tabs -> Steps] /\ \A x \in Tabs : pc'[x] = "open" <=> locker' = x
      BY <1>2, <2>2, <2>6 DEF TypeOK, Go
    <3>2. card' \in [status : Claimed \cup {"pending", "cancelled", "expired"}, fp : Versions, due : BOOLEAN]
      BY <2>2 DEF TypeOK, Claimed
    <3>3. lease' = "continuation"
      BY <1>4 DEF CommitClaim
    <3>4. QED
      BY <1>1, <2>4, <3>1, <3>2, <3>3 DEF TypeOK, CommitClaim
  <2>8. OneRun'
    BY <2>2, <2>4 DEF OneRun, Claimed, TypeOK
  <2>9. AsRead'
    BY <2>2 DEF TypeOK, AsRead, CommitClaim, Go
  <2>10. RunsAsClaimed'
    BY <2>1, <2>2, <2>4, <2>5 DEF RunsAsClaimed, TypeOK
  <2>11. SlotsExact'
    <3>1. Cardinality(Held') = Cardinality(Held) - 1
      BY <2>2, <2>6, HeldMoves, HeldFinite DEF Bit
    <3>2. Alive(runs) = {} /\ Alive(runs)' = {1}
      BY <2>1, <2>4, <2>5 DEF Alive
    <3>3. Cardinality(Alive(runs)) = 0 /\ Cardinality(Alive(runs)') = 1
      BY <3>2, FS_EmptySet, FS_Singleton
    <3>4. slots' = Cardinality(Held') + Cardinality(Alive(runs)')
      BY <3>1, <3>3, HeldFinite, SlotsAre DEF CommitClaim
    <3>5. QED
      BY <3>4 DEF SlotsExact, Held, Alive
  <2>12. QED
    BY <2>7, <2>8, <2>9, <2>10, <2>11
<1>5. QED
  BY <1>3, <1>4

----------------------------------------------------------------------------
(* The steps of a runner. *)

\* There is one runner, and a step changes its record.
LEMMA RunnerMoves ==
    ASSUME IInv, NEW n \in DOMAIN runs
    PROVE  /\ n = 1 /\ DOMAIN runs = {1} /\ runs # <<>> /\ Len(runs) = 1 /\ runs[1] \in Run
           /\ \A r \in Run : runs' = [runs EXCEPT ![n] = r] =>
                 /\ runs' \in Seq(Run) /\ Len(runs') = 1 /\ runs' # <<>>
                 /\ DOMAIN runs' = {1} /\ runs'[1] = r
<1> USE DEF IInv
<1>1. DOMAIN runs = 1..Len(runs) /\ Len(runs) \in Nat /\ Len(runs) <= 1
  BY LenProperties DEF TypeOK, OneRun
<1>2. n = 1 /\ Len(runs) = 1 /\ DOMAIN runs = {1} /\ runs # <<>>
  BY <1>1
<1>3. runs[1] \in Run
  BY <1>2, ElementOfSeq DEF TypeOK
<1>4. \A r \in Run : runs' = [runs EXCEPT ![n] = r] =>
         /\ runs' \in Seq(Run) /\ Len(runs') = 1 /\ runs' # <<>>
         /\ DOMAIN runs' = {1} /\ runs'[1] = r
  BY <1>2, ExceptSeq DEF TypeOK
<1>5. QED
  BY <1>2, <1>3, <1>4

\* A step that neither ends the runner nor moves a slot.
LEMMA RunnerKeeps ==
    ASSUME IInv, NEW n \in DOMAIN runs, NEW r \in Run, runs' = [runs EXCEPT ![n] = r],
           r.fp = card.fp, r.checked \in {None, card.fp},
           card' \in [status : Claimed, fp : {card.fp}, due : BOOLEAN],
           lease' \in {"free", "continuation", "other"},
           r.pc # "gone" => runs[n].pc # "gone",
           slots' = slots - Bit(runs[n].pc # "gone") + Bit(r.pc # "gone"),
           UNCHANGED <<target, reachable, locker, tabVars>>
    PROVE  IInv'
<1> USE DEF IInv
<1>1. /\ n = 1 /\ DOMAIN runs = {1} /\ runs # <<>> /\ Len(runs) = 1
      /\ runs' \in Seq(Run) /\ Len(runs') = 1 /\ runs' # <<>> /\ DOMAIN runs' = {1} /\ runs'[1] = r
  BY RunnerMoves
<1>2. OneRun'
  BY <1>1 DEF OneRun
<1>3. RunsAsClaimed'
  BY <1>1 DEF RunsAsClaimed
<1>4. AsRead'
  BY DEF AsRead
<1>5. SlotsExact' /\ slots' \in Nat
  <2>1. Held' = Held
    BY DEF Held
  <2>2. Cardinality(Alive(runs)) = Bit(runs[1].pc # "gone")
    BY <1>1, AliveIsOne
  <2>3. Cardinality(Alive(runs')) = Bit(r.pc # "gone")
    BY <1>1, AliveIsOne
  <2>4. Alive(runs)' = Alive(runs')
    BY DEF Alive
  <2>5. slots' = Cardinality(Held') + Cardinality(Alive(runs)') /\ slots' \in Nat
    BY <1>1, <2>1, <2>2, <2>3, <2>4, HeldFinite, SlotsAre DEF Bit
  <2>6. QED
    BY <2>5 DEF SlotsExact, Held, Alive
<1>6. slots' \in 0..SlotLimit
  BY <1>5, Bounds DEF TypeOK, Bit
<1>7. card' \in [status : Claimed \cup {"pending", "cancelled", "expired"}, fp : Versions, due : BOOLEAN]
  BY DEF TypeOK
<1>8. TypeOK'
  BY <1>1, <1>6, <1>7 DEF TypeOK
<1>9. QED
  BY <1>2, <1>3, <1>4, <1>5, <1>8

LEMMA RunnerIInv == ASSUME IInv, NEW n \in DOMAIN runs, Runner(n) PROVE IInv'
<1> USE DEF IInv
<1>1. /\ n = 1 /\ runs[n] \in Run /\ runs[n].fp = card.fp /\ runs[n].checked \in {None, card.fp}
      /\ card \in [status : Claimed, fp : {card.fp}, due : BOOLEAN]
  <2>1. runs # <<>> /\ n = 1 /\ runs[n] \in Run
    BY RunnerMoves
  <2>2. QED
    BY <2>1 DEF RunsAsClaimed, OneRun, TypeOK
<1>2. CASE Prepare(n)
  <2>1. PICK step \in {"finalize", "recheck", "off"} : runs' = [runs EXCEPT ![n].pc = step]
    BY <1>2 DEF Prepare
  <2> DEFINE r == [runs[n] EXCEPT !.pc = step]
  <2>2. r \in Run /\ r.fp = card.fp /\ r.checked \in {None, card.fp} /\ r.pc # "gone"
    BY <1>1, <2>1 DEF Run
  <2>3. runs[n].pc # "gone" /\ runs' = [runs EXCEPT ![n] = r]
    BY <1>2, <2>1 DEF Prepare
  <2>4. UNCHANGED <<target, reachable, card, lease, locker, slots, tabVars>>
    BY <1>2 DEF Prepare
  <2>5. lease' \in {"free", "continuation", "other"}
        /\ slots' = slots - Bit(runs[n].pc # "gone") + Bit(r.pc # "gone")
    BY <2>2, <2>3, <2>4 DEF TypeOK, Bit
  <2>6. QED
    BY <1>1, <2>2, <2>3, <2>4, <2>5, RunnerKeeps
<1>3. CASE LastCheck(n)
  <2> DEFINE done == [runs[n] EXCEPT !.pc = "finalize"]
             go == [runs[n] EXCEPT !.pc = "dispatch", !.checked = target]
  <2>1. PICK r \in {done, go} : runs' = [runs EXCEPT ![n] = r] /\ (r = done \/ target = card.fp)
    <3>1. CASE reachable /\ target = runs[n].fp /\ runs' = [runs EXCEPT ![n] = go]
      BY <1>1, <3>1
    <3>2. CASE runs' = [runs EXCEPT ![n] = done]
      BY <3>2
    <3>3. QED
      BY <1>3, <3>1, <3>2 DEF LastCheck
  <2>2. r \in Run /\ r.fp = card.fp /\ r.checked \in {None, card.fp} /\ r.pc # "gone"
    BY <1>1, <2>1 DEF Run, TypeOK
  <2>3. UNCHANGED <<target, reachable, card, lease, locker, slots, tabVars>> /\ runs[n].pc # "gone"
    BY <1>3 DEF LastCheck
  <2>4. lease' \in {"free", "continuation", "other"}
        /\ slots' = slots - Bit(runs[n].pc # "gone") + Bit(r.pc # "gone")
    BY <2>2, <2>3 DEF TypeOK, Bit
  <2>5. QED
    BY <1>1, <2>1, <2>2, <2>3, <2>4, RunnerKeeps
<1>4. CASE Dispatch(n) \/ Land(n) \/ HearBack(n)
  <2> DEFINE done == [runs[n] EXCEPT !.pc = "finalize"]
             go == [runs[n] EXCEPT !.pc = "sending", !.fate = "inflight"]
             landed(fate) == [runs[n] EXCEPT !.fate = fate]
             heard(outcome) == [runs[n] EXCEPT !.pc = "finalize", !.outcome = outcome]
  <2>1. UNCHANGED <<target, reachable, card, lease, locker, slots, tabVars>>
    BY <1>4 DEF Dispatch, Land, HearBack
  <2>2. PICK r : /\ runs' = [runs EXCEPT ![n] = r] /\ r \in Run
                 /\ r.fp = card.fp /\ r.checked \in {None, card.fp}
                 /\ r.pc # "gone" <=> runs[n].pc # "gone"
    <3>1. CASE Dispatch(n)
      <4>1. done \in Run /\ done.fp = card.fp /\ done.checked \in {None, card.fp} /\ done.pc = "finalize"
        BY <1>1 DEF Run
      <4>2. go \in Run /\ go.fp = card.fp /\ go.checked \in {None, card.fp} /\ go.pc = "sending"
        BY <1>1 DEF Run
      <4>3. runs' = [runs EXCEPT ![n] = done] \/ runs' = [runs EXCEPT ![n] = go]
        BY <3>1 DEF Dispatch
      <4>4. runs[n].pc = "dispatch"
        BY <3>1 DEF Dispatch
      <4> HIDE DEF done, go
      <4>5. QED
        BY <4>1, <4>2, <4>3, <4>4
    <3>2. CASE Land(n)
      <4>1. PICK fate \in {"applied", "refused"} : runs' = [runs EXCEPT ![n] = landed(fate)]
        BY <3>2 DEF Land
      <4>2. landed(fate) \in Run /\ landed(fate).fp = card.fp /\ landed(fate).checked \in {None, card.fp}
            /\ landed(fate).pc = runs[n].pc
        BY <1>1 DEF Run
      <4> HIDE DEF landed
      <4>3. QED
        BY <4>1, <4>2
    <3>3. CASE HearBack(n)
      <4>1. PICK outcome \in {"confirmed", "failed", "unknown"} : runs' = [runs EXCEPT ![n] = heard(outcome)]
        BY <3>3 DEF HearBack
      <4>2. heard(outcome) \in Run /\ heard(outcome).fp = card.fp /\ heard(outcome).checked \in {None, card.fp}
            /\ heard(outcome).pc = "finalize"
        BY <1>1 DEF Run
      <4>3. runs[n].pc = "sending"
        BY <3>3 DEF HearBack
      <4> HIDE DEF heard
      <4>4. QED
        BY <4>1, <4>2, <4>3
    <3>4. QED
      BY <1>4, <3>1, <3>2, <3>3
  <2>3. lease' \in {"free", "continuation", "other"}
        /\ slots' = slots - Bit(runs[n].pc # "gone") + Bit(r.pc # "gone")
    BY <2>1, <2>2 DEF TypeOK, Bit
  <2>4. QED
    BY <1>1, <2>1, <2>2, <2>3, RunnerKeeps
<1>5. CASE Finalize(n)
  <2> DEFINE r == [runs[n] EXCEPT !.pc = "off"]
  <2>1. r \in Run /\ r.fp = card.fp /\ r.checked \in {None, card.fp} /\ r.pc # "gone"
    BY <1>1 DEF Run
  <2>2. UNCHANGED <<target, reachable, lease, locker, slots, tabVars>> /\ runs[n].pc # "gone"
        /\ runs' = [runs EXCEPT ![n] = r]
    BY <1>5 DEF Finalize
  <2>3. card' \in [status : Claimed, fp : {card.fp}, due : BOOLEAN]
    BY <1>1, <1>5 DEF Finalize, Claimed, Run
  <2>4. lease' \in {"free", "continuation", "other"}
        /\ slots' = slots - Bit(runs[n].pc # "gone") + Bit(r.pc # "gone")
    BY <2>1, <2>2 DEF TypeOK, Bit
  <2>5. QED
    BY <1>1, <2>1, <2>2, <2>3, <2>4, RunnerKeeps
<1>6. CASE RunnerExits(n)
  <2> DEFINE r == [runs[n] EXCEPT !.pc = "gone"]
  <2>1. r \in Run /\ r.fp = card.fp /\ r.checked \in {None, card.fp} /\ r.pc = "gone"
    BY <1>1 DEF Run
  <2>2. UNCHANGED <<target, reachable, card, locker, tabVars>> /\ runs[n].pc # "gone"
        /\ runs' = [runs EXCEPT ![n] = r] /\ slots' = slots - 1
    BY <1>6 DEF RunnerExits
  <2>3. lease' \in {"free", "continuation", "other"}
        /\ slots' = slots - Bit(runs[n].pc # "gone") + Bit(r.pc # "gone")
    BY <1>6, <2>1, <2>2 DEF RunnerExits, TypeOK, Bit
  <2>4. QED
    BY <1>1, <2>1, <2>2, <2>3, RunnerKeeps
<1>7. QED
  BY <1>2, <1>3, <1>4, <1>5, <1>6 DEF Runner

----------------------------------------------------------------------------
(* The others. *)

LEMMA OthersKeep ==
    ASSUME IInv,
           \/ Change \/ Reach \/ FallDue \/ Withdraw \/ NewMessage \/ MessageEnds \/ Recover
           \/ UNCHANGED vars
    PROVE  IInv'
<1> USE DEF IInv, Change, Reach, FallDue, Withdraw, NewMessage, MessageEnds, Recover, vars
<1>1. UNCHANGED <<locker, slots, runs, tabVars>>
  OBVIOUS
<1>2. card'.fp = card.fp /\ (card'.status \in Claimed <=> card.status \in Claimed)
      /\ card' \in [status : Claimed \cup {"pending", "cancelled", "expired"}, fp : Versions, due : BOOLEAN]
  BY DEF TypeOK, Claimed
<1>3. target' \in Versions
  BY Bounds DEF TypeOK, Versions
<1>4. TypeOK'
  BY <1>1, <1>2, <1>3 DEF TypeOK
<1>5. OneRun' /\ RunsAsClaimed'
  BY <1>1, <1>2 DEF OneRun, RunsAsClaimed
<1>6. AsRead' /\ SlotsExact'
  BY <1>1 DEF AsRead, SlotsExact
<1>7. QED
  BY <1>4, <1>5, <1>6

----------------------------------------------------------------------------
(* The theorems. *)

LEMMA InitIInv == Init => IInv
<1> SUFFICES ASSUME Init PROVE IInv
  OBVIOUS
<1>1. TypeOK
  BY Bounds, CardAssumption DEF Init, TypeOK, Versions, Steps, Claimed
<1>2. OneRun /\ AsRead /\ RunsAsClaimed
  BY DEF Init, OneRun, AsRead, RunsAsClaimed, Claimed
<1>3. SlotsExact
  <2>1. Held = {} /\ Alive(runs) = {}
    BY DEF Init, Held, Alive, SlotKept
  <2>2. QED
    BY <2>1, SlotsAre, FS_EmptySet DEF Init
<1>4. QED
  BY <1>1, <1>2, <1>3 DEF IInv

LEMMA NextIInv == IInv /\ [Next]_vars => IInv'
<1>1. ASSUME IInv, NEW t \in Tabs, Request(t) PROVE IInv'
  BY <1>1, ClickKeeps, ReadCardKeeps, FindContinuationKeeps, RevalidateKeeps, ExpireNowKeeps,
     UpdateSummaryKeeps, ReserveKeeps, OpenClaimKeeps, CommitClaimKeeps, AbortClaimKeeps,
     ReleaseSlotKeeps, LookUpWinnerKeeps, RefetchKeeps DEF Request
<1>2. QED
  BY <1>1, RunnerIInv, OthersKeep DEF Next

----------------------------------------------------------------------------
(* Versions. *)

\* What a request has read is never newer than the card, nor the card newer than the
\* target; a request that will update the card has found a newer version.
Ahead ==
    /\ card.fp <= target
    /\ \A t \in Tabs :
          /\ fp[t] <= card.fp
          /\ pc[t] \in {"updating", "changed"} => fp[t] < new[t] /\ new[t] <= target
          /\ pc[t] = "outdated" \/ (pc[t] = "refetch" /\ stale[t]) => card.status # "pending" \/ fp[t] < card.fp
          /\ stale[t] => pc[t] \in {"updating", "refetch", "idle", "over"}

LEMMA AheadRequest == ASSUME IInv, Ahead, NEW t \in Tabs, Request(t) PROVE Ahead'
<1> USE DEF IInv, TypeOK, AsRead, Ahead, Go, Versions
<1>1. CASE Click(t)
  BY <1>1 DEF Click
<1>2. CASE ReadCard(t)
  BY <1>2 DEF ReadCard
<1>3. CASE FindContinuation(t)
  BY <1>3 DEF FindContinuation
<1>4. CASE Revalidate(t)
  BY <1>4 DEF Revalidate
<1>5. CASE ExpireNow(t)
  BY <1>5 DEF ExpireNow
<1>6. CASE UpdateSummary(t)
  BY <1>6 DEF UpdateSummary
<1>7. CASE Reserve(t)
  BY <1>7 DEF Reserve
<1>8. CASE OpenClaim(t)
  <2>1. UNCHANGED <<card, target, fp, stale>> /\ pc[t] = "claim"
    BY <1>8 DEF OpenClaim
  <2>2. PICK s : Go(t, s) /\ s \in SlotKept
                 /\ (s = "outdated" => card.status # "pending" \/ card.fp # new[t])
                 /\ (IF s = "changed" THEN new' = [new EXCEPT ![t] = target] /\ target # new[t]
                                      ELSE new' = new)
    BY <1>8 DEF OpenClaim, Recheck, SlotKept
  <2>3. ~stale[t] /\ new[t] = fp[t]
    BY <2>1
  <2>4. QED
    BY <2>1, <2>2, <2>3 DEF SlotKept
<1>9. CASE CommitClaim(t)
  <2>1. UNCHANGED <<target, fp, new, stale>> /\ pc[t] = "open" /\ card'.fp = card.fp
    BY <1>9 DEF CommitClaim
  <2>2. PICK s \in {"streaming", "outdated", "refused"} :
           Go(t, s) /\ (s = "outdated" => card.status = "pending" /\ card.fp # new[t])
    BY <1>9 DEF CommitClaim, StillAsRead
  <2>3. card'.status = "pending" => card.status = "pending"
    BY <1>9 DEF CommitClaim
  <2>4. ~stale[t] /\ new[t] = fp[t]
    BY <2>1
  <2>5. QED
    BY <2>1, <2>2, <2>3, <2>4
<1>10. CASE AbortClaim(t)
  BY <1>10 DEF AbortClaim
<1>11. CASE ReleaseSlot(t)
  BY <1>11 DEF ReleaseSlot, AfterRelease, SlotKept
<1>12. CASE LookUpWinner(t)
  BY <1>12 DEF LookUpWinner
<1>13. CASE Refetch(t)
  BY <1>13 DEF Refetch
<1>14. QED
  BY <1>1, <1>2, <1>3, <1>4, <1>5, <1>6, <1>7, <1>8, <1>9, <1>10, <1>11, <1>12, <1>13 DEF Request

\* What a step of the runner or of the others leaves alone.
Aside ==
    /\ UNCHANGED tabVars /\ card'.fp = card.fp /\ target' >= target /\ target' \in Versions
    /\ card'.status = "pending" => card.status = "pending"

LEMMA RunnerAside == ASSUME IInv, NEW n \in DOMAIN runs, Runner(n) PROVE Aside
<1>1. /\ card \in [status : Claimed \cup {"pending", "cancelled", "expired"}, fp : Versions, due : BOOLEAN]
      /\ target \in Versions /\ runs[n].outcome # "pending"
  BY RunnerMoves DEF IInv, TypeOK, Run
<1>2. CASE Finalize(n)
  BY <1>1, <1>2 DEF Finalize, Aside, Versions
<1>3. CASE Prepare(n) \/ LastCheck(n) \/ Dispatch(n) \/ Land(n) \/ HearBack(n) \/ RunnerExits(n)
  <2>1. UNCHANGED <<target, card, tabVars>>
    BY <1>3 DEF Prepare, LastCheck, Dispatch, Land, HearBack, RunnerExits
  <2>2. QED
    BY <1>1, <2>1 DEF Aside, Versions
<1>4. QED
  BY <1>2, <1>3 DEF Runner

LEMMA OthersAside ==
    ASSUME IInv, \/ Change \/ Reach \/ FallDue \/ Withdraw \/ NewMessage \/ MessageEnds \/ Recover
                 \/ UNCHANGED vars
    PROVE  Aside
<1>1. /\ card \in [status : Claimed \cup {"pending", "cancelled", "expired"}, fp : Versions, due : BOOLEAN]
      /\ target \in Versions
  BY DEF IInv, TypeOK
<1>2. UNCHANGED tabVars /\ card'.fp = card.fp /\ (card'.status = "pending" => card.status = "pending")
  BY <1>1 DEF Change, Reach, FallDue, Withdraw, NewMessage, MessageEnds, Recover, vars
<1>3. Change \/ UNCHANGED target
  BY Zenon DEF Reach, FallDue, Withdraw, NewMessage, MessageEnds, Recover, vars
<1>4. target' >= target /\ target' \in Versions
  BY <1>1, <1>3, Bounds DEF Change, Versions
<1>5. QED
  BY <1>2, <1>4 DEF Aside

LEMMA NextAhead == IInv /\ Ahead /\ [Next]_vars => Ahead'
<1>1. ASSUME IInv, Ahead, Aside PROVE Ahead'
  BY <1>1 DEF IInv, TypeOK, Ahead, Aside, Versions
<1>2. QED
  BY <1>1, AheadRequest, RunnerAside, OthersAside DEF Next

\* The inductive invariant: types, one run per card, and the properties themselves.
THEOREM Inductive == Spec => []IInv
BY InitIInv, NextIInv, PTL DEF Spec

\* Every reachable state has its type; in particular no more slots are taken than
\* there are and only the window that locks the lease is in its claim.
THEOREM Typed == Spec => []TypeOK
<1>1. IInv => TypeOK
  BY DEF IInv
<1>2. QED
  BY <1>1, Inductive, PTL

\* The runner carries what the claimed card describes and sends it only if the
\* target was that version at the last look (run_confirm_turn).
THEOREM WriteIsAsClaimed == Spec => []RunsAsClaimed
<1>1. IInv => RunsAsClaimed
  BY DEF IInv
<1>2. QED
  BY <1>1, Inductive, PTL

\* Whichever way a request is answered, the slots taken are those of requests about
\* to claim and of runners (ProcessSlotLimiter).
THEOREM SlotsAreExact == Spec => []SlotsExact
<1>1. IInv => SlotsExact
  BY DEF IInv
<1>2. QED
  BY <1>1, Inductive, PTL

\* A card withdrawn or claimed gets no runner any more, and a settled one stays as
\* it is (claim_pending_for_confirm, finalize_confirm_outcome).
THEOREM CardHasOneFate == Spec => OneFate
<1> DEFINE Kept ==
       /\ card.status # "pending" => Len(runs') = Len(runs)
       /\ card.status \notin {"pending", "executing"} => card'.status = card.status
<1>1. ASSUME IInv, NEW t \in Tabs, Request(t) PROVE Kept
  BY <1>1 DEF Request, Click, ReadCard, FindContinuation, Revalidate, ExpireNow, UpdateSummary, Reserve,
     OpenClaim, CommitClaim, StillAsRead, AbortClaim, ReleaseSlot, LookUpWinner, Refetch
<1>2. ASSUME IInv, NEW n \in DOMAIN runs, Runner(n) PROVE Kept
  BY <1>2 DEF Runner, Prepare, LastCheck, Dispatch, Land, HearBack, Finalize, RunnerExits
<1>3. ASSUME IInv, \/ Change \/ Reach \/ FallDue \/ Withdraw \/ NewMessage \/ MessageEnds \/ Recover
      PROVE  Kept
  BY <1>3 DEF IInv, TypeOK, Change, Reach, FallDue, Withdraw, NewMessage, MessageEnds, Recover
<1>4. IInv /\ [Next]_vars => [Kept]_vars
  BY <1>1, <1>2, <1>3 DEF Next
<1>5. QED
  BY <1>4, Inductive, PTL DEF Spec, OneFate

LEMMA InductiveAhead == Spec => []Ahead
<1>1. Init => Ahead
  BY DEF Init, Ahead
<1>2. QED
  BY <1>1, NextAhead, Inductive, PTL DEF Spec

\* A window that is told the target changed finds a newer card when it reloads
\* (update_pending_summary_cas, CONFIRMATION_STALE).
THEOREM StaleFindsNewer == Spec => []StaleIsUpdated
<1>1. IInv /\ Ahead => StaleIsUpdated
  BY DEF IInv, TypeOK, Ahead, StaleIsUpdated, Versions
<1>2. QED
  BY <1>1, Inductive, InductiveAhead, PTL

\* No request, however slow, takes the card back to an older version of the target
\* (update_pending_summary_cas).
THEOREM CardNeverGoesBack == Spec => CardMovesForward
<1>1. ASSUME IInv, Ahead, NEW t \in Tabs, Request(t) PROVE card'.fp >= card.fp
  <2>1. card \in [status : Claimed \cup {"pending", "cancelled", "expired"}, fp : Versions, due : BOOLEAN]
    BY <1>1 DEF IInv, TypeOK
  <2>2. CASE UpdateSummary(t)
    BY <1>1, <2>1, <2>2 DEF UpdateSummary, IInv, TypeOK, Ahead, Versions
  <2>3. CASE ExpireNow(t) \/ CommitClaim(t)
    BY <2>1, <2>3 DEF ExpireNow, CommitClaim, Versions
  <2>4. CASE ~(UpdateSummary(t) \/ ExpireNow(t) \/ CommitClaim(t))
    <3>1. UNCHANGED card
      BY <1>1, <2>4 DEF Request, Click, ReadCard, FindContinuation, Revalidate, Reserve, OpenClaim, AbortClaim,
         ReleaseSlot, LookUpWinner, Refetch
    <3>2. QED
      BY <2>1, <3>1 DEF Versions
  <2>5. QED
    BY <2>2, <2>3, <2>4
<1>2. ASSUME IInv, Aside PROVE card'.fp >= card.fp
  BY <1>2 DEF IInv, TypeOK, Aside, Versions
<1> DEFINE Forward == card'.fp >= card.fp
<1>3. IInv /\ Ahead /\ [Next]_vars => [Forward]_vars
  <2> HIDE DEF Forward
  <2>1. ASSUME IInv, Ahead, NEW t \in Tabs, Request(t) PROVE Forward
    BY <1>1, <2>1 DEF Forward
  <2>2. ASSUME IInv, Aside PROVE Forward
    BY <1>2, <2>2 DEF Forward
  <2>3. QED
    BY <2>1, <2>2, RunnerAside, OthersAside DEF Next
<1>4. IInv /\ Ahead /\ [Next]_vars => [card.fp' >= card.fp]_vars
  BY <1>3 DEF Forward
<1>5. QED
  BY <1>4, Inductive, InductiveAhead, PTL DEF Spec, CardMovesForward

----------------------------------------------------------------------------
(* ConfirmCard implements ConfirmedWrite. *)

Unsettled == {"renew", "recheck", "dispatch", "sending", "finalize"}

\* Until the runner has written an outcome nobody else writes one but "unknown", it
\* sends after its last check only, and it knows no more than what became of the call.
Fits(r, status) ==
    /\ r.pc \in {"renew", "recheck", "dispatch"} => r.fate = "idle"
    /\ r.pc \in Unsettled => status \in {"executing", "unknown"}
    /\ r.outcome = "confirmed" => r.fate = "applied"
    /\ r.outcome = "failed" /\ r.pc # "sending" => r.fate \in {"idle", "refused"}

RunsFit == \A n \in DOMAIN runs : Fits(runs[n], card.status)

\* A request starts the runner of the card it claims, and touches no other.
LEMMA RequestFits ==
    ASSUME IInv, NEW t \in Tabs, Request(t)
    PROVE  \/ runs' = runs /\ card'.status = card.status
           \/ runs' = runs /\ card.status = "pending" /\ card'.status \in {"expired", "cancelled"}
           \/ /\ runs = <<>> /\ Len(runs') = 1 /\ DOMAIN runs' = {1}
              /\ card.status = "pending" /\ card'.status = "executing"
              /\ runs'[1].pc = "renew" /\ runs'[1].fate = "idle" /\ runs'[1].outcome = "failed"
<1>1. card \in [status : Claimed \cup {"pending", "cancelled", "expired"}, fp : Versions, due : BOOLEAN]
  BY DEF IInv, TypeOK
<1>2. CASE CommitClaim(t) /\ StillAsRead(t)
  <2> DEFINE run == [by |-> t, asked |-> shown[t], fp |-> fp[t], checked |-> None,
                     pc |-> "renew", fate |-> "idle", outcome |-> "failed"]
  <2>1. card.status = "pending" /\ runs = <<>> /\ card'.status = "executing"
    BY <1>1, <1>2 DEF CommitClaim, StillAsRead, IInv, OneRun, Claimed
  <2>2. runs' = <<run>>
    BY <1>2, <2>1 DEF CommitClaim
  <2>3. QED
    BY <2>1, <2>2
<1>3. CASE CommitClaim(t) /\ ~StillAsRead(t)
  BY <1>3 DEF CommitClaim
<1>4. CASE ExpireNow(t) \/ UpdateSummary(t)
  BY <1>1, <1>4 DEF ExpireNow, UpdateSummary
<1>5. CASE ~(CommitClaim(t) \/ ExpireNow(t) \/ UpdateSummary(t))
  BY <1>5 DEF Request, Click, ReadCard, FindContinuation, Revalidate, Reserve, OpenClaim, AbortClaim,
     ReleaseSlot, LookUpWinner, Refetch
<1>6. QED
  BY <1>2, <1>3, <1>4, <1>5

\* What a step of the runner does to the write, by the places it can be in.
RunnerEffect(r, q) ==
    \/ q.fate = r.fate /\ q.outcome = r.outcome /\ card'.status = card.status
       /\ q.pc \in {"recheck", "dispatch", "finalize", "off", "gone"}
       /\ (q.pc \in {"recheck", "dispatch"} => r.pc \in {"renew", "recheck"})
       /\ (q.pc = "finalize" => r.pc \in {"renew", "recheck", "dispatch"})
       /\ r.pc # "sending"
    \/ r.pc = "dispatch" /\ q.pc = "sending" /\ q.fate = "inflight" /\ q.outcome = r.outcome
       /\ card'.status = card.status
    \/ r.fate = "inflight" /\ q.pc = r.pc /\ q.fate \in {"applied", "refused"} /\ q.outcome = r.outcome
       /\ card'.status = card.status
    \/ r.pc = "sending" /\ q.pc = "finalize" /\ q.fate = r.fate /\ card'.status = card.status
       /\ (q.outcome = "confirmed" => r.fate = "applied") /\ (q.outcome = "failed" => r.fate = "refused")
    \/ r.pc = "finalize" /\ q.pc = "off" /\ q.fate = r.fate /\ q.outcome = r.outcome
       /\ card.status = "executing" /\ card'.status = r.outcome

LEMMA RunnerDoes ==
    ASSUME IInv, NEW n \in DOMAIN runs, Runner(n)
    PROVE  /\ DOMAIN runs = {1} /\ DOMAIN runs' = {1} /\ Len(runs) = 1 /\ Len(runs') = 1
           /\ RunnerEffect(runs[1], runs'[1])
<1>1. /\ n = 1 /\ DOMAIN runs = {1} /\ Len(runs) = 1 /\ runs[1] \in Run
      /\ \A r \in Run : runs' = [runs EXCEPT ![n] = r] =>
            Len(runs') = 1 /\ DOMAIN runs' = {1} /\ runs'[1] = r
  BY RunnerMoves
<1>2. card \in [status : Claimed \cup {"pending", "cancelled", "expired"}, fp : Versions, due : BOOLEAN]
  BY DEF IInv, TypeOK
<1>3. ASSUME NEW q \in Run, runs' = [runs EXCEPT ![n] = q], RunnerEffect(runs[1], q)
      PROVE  /\ DOMAIN runs' = {1} /\ Len(runs') = 1
             /\ RunnerEffect(runs[1], runs'[1])
  BY <1>1, <1>3
<1> DEFINE at(step) == [runs[n] EXCEPT !.pc = step]
<1>4. \A step \in {"recheck", "dispatch", "finalize", "off", "gone"} :
         at(step) \in Run /\ at(step).pc = step /\ at(step).fate = runs[1].fate
         /\ at(step).outcome = runs[1].outcome
  BY <1>1 DEF Run
<1>5. CASE Prepare(n)
  <2>1. PICK step \in {"finalize", "recheck", "off"} : runs' = [runs EXCEPT ![n] = at(step)]
    BY <1>5 DEF Prepare
  <2>2. card' = card /\ runs[1].pc = "renew"
    BY <1>1, <1>5 DEF Prepare
  <2> HIDE DEF at
  <2>3. RunnerEffect(runs[1], at(step))
    BY <1>4, <2>2 DEF RunnerEffect
  <2>4. QED
    BY <1>1, <1>3, <1>4, <2>1, <2>3
<1>6. CASE LastCheck(n)
  <2> DEFINE go == [runs[n] EXCEPT !.pc = "dispatch", !.checked = target]
  <2>1. card' = card /\ runs[1].pc = "recheck"
    BY <1>1, <1>6 DEF LastCheck
  <2>2. CASE runs' = [runs EXCEPT ![n] = go]
    <3>1. go \in Run /\ go.pc = "dispatch" /\ go.fate = runs[1].fate /\ go.outcome = runs[1].outcome
      BY <1>1 DEF Run, IInv, TypeOK
    <3> HIDE DEF go
    <3>2. RunnerEffect(runs[1], go)
      BY <2>1, <3>1 DEF RunnerEffect
    <3>3. QED
      BY <1>1, <1>3, <2>2, <3>1, <3>2
  <2>3. CASE runs' = [runs EXCEPT ![n] = at("finalize")]
    <3> HIDE DEF at
    <3>1. RunnerEffect(runs[1], at("finalize"))
      BY <1>4, <2>1 DEF RunnerEffect
    <3>2. QED
      BY <1>1, <1>3, <1>4, <2>3, <3>1
  <2>4. QED
    BY <1>6, <2>2, <2>3 DEF LastCheck
<1>7. CASE Dispatch(n)
  <2> DEFINE go == [runs[n] EXCEPT !.pc = "sending", !.fate = "inflight"]
  <2>1. card' = card /\ runs[1].pc = "dispatch"
    BY <1>1, <1>7 DEF Dispatch
  <2>2. CASE runs' = [runs EXCEPT ![n] = go]
    <3>1. go \in Run /\ go.pc = "sending" /\ go.fate = "inflight" /\ go.outcome = runs[1].outcome
      BY <1>1 DEF Run
    <3> HIDE DEF go
    <3>2. RunnerEffect(runs[1], go)
      BY <2>1, <3>1 DEF RunnerEffect
    <3>3. QED
      BY <1>1, <1>3, <2>2, <3>1, <3>2
  <2>3. CASE runs' = [runs EXCEPT ![n] = at("finalize")]
    <3> HIDE DEF at
    <3>1. RunnerEffect(runs[1], at("finalize"))
      BY <1>4, <2>1 DEF RunnerEffect
    <3>2. QED
      BY <1>1, <1>3, <1>4, <2>3, <3>1
  <2>4. QED
    BY <1>7, <2>2, <2>3 DEF Dispatch
<1>8. CASE Land(n)
  <2>1. PICK fate \in {"applied", "refused"} : runs' = [runs EXCEPT ![n] = [runs[n] EXCEPT !.fate = fate]]
    BY <1>8 DEF Land
  <2> DEFINE q == [runs[n] EXCEPT !.fate = fate]
  <2>2. q \in Run /\ q.pc = runs[1].pc /\ q.fate = fate /\ q.outcome = runs[1].outcome
    BY <1>1 DEF Run
  <2>3. card' = card /\ runs[1].fate = "inflight"
    BY <1>1, <1>8 DEF Land
  <2> HIDE DEF q
  <2>4. RunnerEffect(runs[1], q)
    BY <2>2, <2>3 DEF RunnerEffect
  <2>5. QED
    BY <1>1, <1>3, <2>1, <2>2, <2>4 DEF q
<1>9. CASE HearBack(n)
  <2>1. PICK outcome \in {"confirmed", "failed", "unknown"} :
           /\ outcome = "confirmed" => runs[n].fate = "applied"
           /\ outcome = "failed" => runs[n].fate = "refused"
           /\ runs' = [runs EXCEPT ![n] = [runs[n] EXCEPT !.pc = "finalize", !.outcome = outcome]]
    BY <1>9 DEF HearBack
  <2> DEFINE q == [runs[n] EXCEPT !.pc = "finalize", !.outcome = outcome]
  <2>2. q \in Run /\ q.pc = "finalize" /\ q.fate = runs[1].fate /\ q.outcome = outcome
    BY <1>1 DEF Run
  <2>3. card' = card /\ runs[1].pc = "sending"
    BY <1>1, <1>9 DEF HearBack
  <2> HIDE DEF q
  <2>4. RunnerEffect(runs[1], q)
    BY <1>1, <2>1, <2>2, <2>3 DEF RunnerEffect
  <2>5. QED
    BY <1>1, <1>3, <2>1, <2>2, <2>4 DEF q
<1>10. CASE Finalize(n)
  <2>1. runs' = [runs EXCEPT ![n] = at("off")] /\ runs[1].pc = "finalize"
    BY <1>1, <1>10 DEF Finalize
  <2>2. \/ card'.status = card.status
        \/ card.status = "executing" /\ card'.status = runs[1].outcome
    BY <1>1, <1>2, <1>10 DEF Finalize
  <2> HIDE DEF at
  <2>3. RunnerEffect(runs[1], at("off"))
    BY <1>4, <2>1, <2>2 DEF RunnerEffect
  <2>4. QED
    BY <1>1, <1>3, <1>4, <2>1, <2>3
<1>11. CASE RunnerExits(n)
  <2>1. runs' = [runs EXCEPT ![n] = at("gone")] /\ runs[1].pc = "off" /\ card' = card
    BY <1>1, <1>11 DEF RunnerExits
  <2> HIDE DEF at
  <2>2. RunnerEffect(runs[1], at("gone"))
    BY <1>4, <2>1 DEF RunnerEffect
  <2>3. QED
    BY <1>1, <1>3, <1>4, <2>1, <2>2
<1>12. QED
  BY <1>1, <1>5, <1>6, <1>7, <1>8, <1>9, <1>10, <1>11 DEF Runner

\* Whoever else is at work leaves the runner alone, and the card when it is settled.
LEMMA OthersDo ==
    ASSUME IInv, \/ Change \/ Reach \/ FallDue \/ Withdraw \/ NewMessage \/ MessageEnds \/ Recover
                 \/ UNCHANGED vars
    PROVE  /\ runs' = runs
           /\ \/ card'.status = card.status
              \/ card.status = "pending" /\ card'.status \in {"expired", "cancelled"}
              \/ card.status = "executing" /\ card'.status = "unknown"
<1>1. card \in [status : Claimed \cup {"pending", "cancelled", "expired"}, fp : Versions, due : BOOLEAN]
  BY DEF IInv, TypeOK
<1>2. QED
  BY <1>1 DEF Change, Reach, FallDue, Withdraw, NewMessage, MessageEnds, Recover, vars

LEMMA NextFits == IInv /\ RunsFit /\ [Next]_vars => RunsFit'
<1> SUFFICES ASSUME IInv, RunsFit, [Next]_vars PROVE RunsFit'
  OBVIOUS
<1>1. ASSUME NEW t \in Tabs, Request(t) PROVE RunsFit'
  <2>1. CASE runs' = runs /\ card'.status = card.status
    BY <2>1 DEF RunsFit
  <2>2. CASE runs' = runs /\ card.status = "pending"
    BY <2>2 DEF RunsFit, IInv, OneRun, Claimed
  <2>3. CASE /\ DOMAIN runs' = {1} /\ card'.status = "executing"
             /\ runs'[1].pc = "renew" /\ runs'[1].fate = "idle" /\ runs'[1].outcome = "failed"
    BY <2>3 DEF RunsFit, Fits
  <2>4. QED
    BY <1>1, <2>1, <2>2, <2>3, RequestFits
<1>2. ASSUME NEW n \in DOMAIN runs, Runner(n) PROVE RunsFit'
  <2>1. /\ DOMAIN runs' = {1} /\ RunnerEffect(runs[1], runs'[1]) /\ Fits(runs[1], card.status)
    BY <1>2, RunnerDoes DEF RunsFit
  <2>2. Fits(runs'[1], card'.status)
    BY <2>1 DEF Fits, RunnerEffect, Unsettled
  <2>3. QED
    BY <2>1, <2>2 DEF RunsFit
<1>3. ASSUME \/ Change \/ Reach \/ FallDue \/ Withdraw \/ NewMessage \/ MessageEnds \/ Recover
             \/ UNCHANGED vars
      PROVE  RunsFit'
  <2>1. runs' = runs
    BY <1>3, OthersDo
  <2>2. CASE card'.status = card.status
    BY <2>1, <2>2 DEF RunsFit
  <2>3. CASE card.status = "pending"
    BY <2>1, <2>3 DEF RunsFit, IInv, OneRun, Claimed
  <2>4. CASE card.status = "executing" /\ card'.status = "unknown"
    BY <2>1, <2>4 DEF RunsFit, Fits
  <2>5. QED
    BY <1>3, <2>2, <2>3, <2>4, OthersDo
<1>4. QED
  BY <1>1, <1>2, <1>3 DEF Next

LEMMA InductiveFits == Spec => []RunsFit
<1>1. Init => RunsFit
  BY DEF Init, RunsFit
<1>2. QED
  BY <1>1, NextFits, Inductive, PTL DEF Spec

\* The fate of the write is that of the one run there may be.
LEMMA FateOfRun ==
    ASSUME NEW rs, DOMAIN rs = {1}
    PROVE  /\ rs[1].fate = "idle" => {n \in DOMAIN rs : Sent(rs[n])} = {}
           /\ rs[1].fate # "idle" =>
                 /\ {n \in DOMAIN rs : Sent(rs[n])} # {}
                 /\ (CHOOSE n \in {k \in DOMAIN rs : Sent(rs[k])} : TRUE) = 1
           /\ Cardinality({n \in DOMAIN rs : Sent(rs[n])}) = Bit(rs[1].fate # "idle")
<1>1. CASE rs[1].fate = "idle"
  <2>1. {n \in DOMAIN rs : Sent(rs[n])} = {}
    BY <1>1 DEF Sent
  <2>2. QED
    BY <1>1, <2>1, FS_EmptySet DEF Bit
<1>2. CASE rs[1].fate # "idle"
  <2>1. {n \in DOMAIN rs : Sent(rs[n])} = {1}
    BY <1>2 DEF Sent
  <2>2. Cardinality({n \in DOMAIN rs : Sent(rs[n])}) = 1
    BY <2>1, FS_Singleton
  <2>3. (CHOOSE n \in {1} : TRUE) = 1
    OBVIOUS
  <2>4. QED
    BY <1>2, <2>1, <2>2, <2>3 DEF Bit
<1>3. QED
  BY <1>1, <1>2

LEMMA NoRuns == runs = <<>> => Fate = "idle" /\ Cardinality(Requests) = 0
<1> SUFFICES ASSUME runs = <<>> PROVE Fate = "idle" /\ Cardinality(Requests) = 0
  OBVIOUS
<1>1. Requests = {}
  BY DEF Requests
<1>2. QED
  BY <1>1, FS_EmptySet DEF Fate

LEMMA OneRunFate ==
    DOMAIN runs = {1} => Fate = runs[1].fate /\ Cardinality(Requests) = Bit(runs[1].fate # "idle")
<1> SUFFICES ASSUME DOMAIN runs = {1}
             PROVE  Fate = runs[1].fate /\ Cardinality(Requests) = Bit(runs[1].fate # "idle")
  OBVIOUS
<1>1. QED
  BY FateOfRun DEF Fate, Requests

LEMMA OneRunFateNext ==
    DOMAIN runs' = {1} => Fate' = runs'[1].fate /\ Cardinality(Requests)' = Bit(runs'[1].fate # "idle")
<1> SUFFICES ASSUME DOMAIN runs' = {1}
             PROVE  Fate' = runs'[1].fate /\ Cardinality(Requests)' = Bit(runs'[1].fate # "idle")
  OBVIOUS
<1>1. QED
  BY FateOfRun DEF Fate, Requests

\* A step as the write sees it: the card moves, the call leaves, or the call lands.
CardMoves ==
    \/ card'.status = card.status
    \/ card.status = "pending" /\ card'.status \in {"expired", "cancelled", "executing"}
    \/ card.status = "executing" /\ card'.status = "confirmed" /\ Fate = "applied"
    \/ card.status = "executing" /\ card'.status = "failed" /\ Fate \in {"idle", "refused"}
    \/ card.status = "executing" /\ card'.status = "unknown"

WriteStep ==
    \/ Fate' = Fate /\ Cardinality(Requests)' = Cardinality(Requests) /\ CardMoves
    \/ /\ card'.status = card.status /\ card.status \in {"executing", "unknown"}
       /\ Cardinality(Requests) = 0 /\ Cardinality(Requests)' = 1 /\ Fate' = "inflight"
    \/ /\ card'.status = card.status /\ Cardinality(Requests)' = Cardinality(Requests)
       /\ Fate = "inflight" /\ Fate' \in {"applied", "refused"}

LEMMA RunnerWrites == ASSUME IInv, RunsFit, NEW n \in DOMAIN runs, Runner(n) PROVE WriteStep
<1>1. /\ DOMAIN runs = {1} /\ DOMAIN runs' = {1} /\ RunnerEffect(runs[1], runs'[1])
      /\ Fits(runs[1], card.status)
  BY RunnerDoes DEF RunsFit
<1>2. /\ Fate = runs[1].fate /\ Cardinality(Requests) = Bit(runs[1].fate # "idle")
      /\ Fate' = runs'[1].fate /\ Cardinality(Requests)' = Bit(runs'[1].fate # "idle")
  BY <1>1, OneRunFate, OneRunFateNext
<1>3. runs[1].outcome \in {"confirmed", "failed", "unknown"}
  BY RunnerMoves DEF Run
<1>4. CASE runs'[1].fate = runs[1].fate
  <2>1. CardMoves
    BY <1>1, <1>2, <1>3, <1>4 DEF RunnerEffect, Fits, CardMoves, Unsettled
  <2>2. QED
    BY <1>2, <1>4, <2>1 DEF WriteStep
<1>5. CASE runs[1].pc = "dispatch" /\ runs'[1].fate = "inflight" /\ card'.status = card.status
  BY <1>1, <1>2, <1>5 DEF WriteStep, Fits, Unsettled, Bit
<1>6. CASE runs[1].fate = "inflight" /\ runs'[1].fate \in {"applied", "refused"} /\ card'.status = card.status
  BY <1>2, <1>6 DEF WriteStep, Bit
<1>7. QED
  BY <1>1, <1>4, <1>5, <1>6 DEF RunnerEffect

LEMMA EveryStepWrites == IInv /\ RunsFit /\ [Next]_vars => WriteStep
<1> SUFFICES ASSUME IInv, RunsFit, [Next]_vars PROVE WriteStep
  OBVIOUS
<1>1. ASSUME NEW t \in Tabs, Request(t) PROVE WriteStep
  <2>1. CASE runs' = runs /\ (\/ card'.status = card.status
                              \/ card.status = "pending" /\ card'.status \in {"expired", "cancelled"})
    BY <2>1 DEF WriteStep, CardMoves, Fate, Requests
  <2>2. CASE /\ runs = <<>> /\ DOMAIN runs' = {1} /\ runs'[1].fate = "idle"
             /\ card.status = "pending" /\ card'.status = "executing"
    BY <2>2, NoRuns, OneRunFateNext DEF WriteStep, CardMoves, Bit
  <2>3. QED
    BY <1>1, <2>1, <2>2, RequestFits
<1>2. ASSUME \/ Change \/ Reach \/ FallDue \/ Withdraw \/ NewMessage \/ MessageEnds \/ Recover
             \/ UNCHANGED vars
      PROVE  WriteStep
  BY <1>2, OthersDo DEF WriteStep, CardMoves, Fate, Requests
<1>3. QED
  BY <1>1, <1>2, RunnerWrites DEF Next

\* The one request has one fate.
LEMMA FateTyped ==
    ASSUME IInv'
    PROVE  /\ Fate' \in {"idle", "inflight", "applied", "refused"}
           /\ Cardinality(Requests)' \in Nat
<1>1. runs' \in Seq(Run) /\ Len(runs') \in Nat /\ Len(runs') <= 1
  BY LenProperties DEF IInv, TypeOK, OneRun
<1>2. Len(runs') = 0 \/ Len(runs') = 1
  <2>1. \A n \in Nat : n <= 1 => n = 0 \/ n = 1
    OBVIOUS
  <2>2. QED
    BY <1>1, <2>1, Zenon
<1>3. CASE Len(runs') = 0
  <2>1. runs' = <<>>
    BY <1>1, <1>3
  <2>2. Requests' = {} /\ Fate' = "idle"
    BY <2>1 DEF Fate, Requests
  <2>3. QED
    BY <2>2, FS_EmptySet
<1>4. CASE Len(runs') = 1
  <2>1. DOMAIN runs' = {1} /\ runs'[1] \in Run
    BY <1>1, <1>4
  <2>2. QED
    BY <2>1, OneRunFateNext DEF Run, Bit
<1>5. QED
  BY <1>2, <1>3, <1>4, Zenon

LEMMA StepKeepsPromise ==
    IInv /\ IInv' /\ RunsFit /\ [Next]_vars => [Promise!Next]_(Promise!cwVars)
<1> SUFFICES ASSUME IInv, IInv', WriteStep PROVE Promise!Next
  BY EveryStepWrites
<1> DEFINE stage == [w \in {"write"} |-> card.status]
           fate == [w \in {"write"} |-> Fate]
           sends == [w \in {"write"} |-> Cardinality(Requests)]
<1>1. card.status' \in Claimed \cup {"pending", "cancelled", "expired"}
  BY DEF IInv, TypeOK
<1>2. Fate' \in {"idle", "inflight", "applied", "refused"} /\ Cardinality(Requests)' \in Nat
  BY FateTyped
<1>3. stage' \in [{"write"} -> Promise!Stages] /\ fate' \in [{"write"} -> Promise!Fates]
      /\ sends' \in [{"write"} -> Nat]
  BY <1>1, <1>2 DEF Promise!Stages, Promise!Fates, Claimed
<1>4. Promise!Step("write")
  BY DEF WriteStep, CardMoves, Promise!Step, Promise!Stays, Promise!Moves, Promise!Leaves, Promise!Lands
<1>5. QED
  BY <1>3, <1>4 DEF Promise!Next

\* Whatever windows, edits of the target, recovery and a runner that was given up do at
\* once, a card confirms one write: it is sent at most once, only when confirmed, and
\* what the card says of it is true (claim_pending_for_confirm, run_confirm_turn,
\* finalize_confirm_outcome).
THEOREM CardKeepsPromise == Spec => KeepsPromise
<1>1. Init => Promise!Init
  BY NoRuns DEF Init, Promise!Init
<1>2. QED
  BY <1>1, StepKeepsPromise, Inductive, InductiveFits, PTL DEF Spec, KeepsPromise, Promise!Spec

Told == INSTANCE ConfirmedWrite_proof WITH
    Writes <- {"write"},
    stage <- [w \in {"write"} |-> card.status],
    fate <- [w \in {"write"} |-> Fate],
    sends <- [w \in {"write"} |-> Cardinality(Requests)]

\* In terms of the card: as long as it is open, and when it was withdrawn, nothing was
\* sent; confirmed, the write was applied, and failed, it was not.
THEOREM CardTellsTheTruth ==
    Spec => [](/\ Cardinality(Requests) <= 1
               /\ card.status \in {"pending", "expired", "cancelled"} => Requests = {}
               /\ card.status = "confirmed" => Fate = "applied"
               /\ card.status = "failed" => Fate \in {"idle", "refused"})
<1>1. Init => Told!Init
  BY NoRuns DEF Init, Told!Init
<1>2. IInv /\ IInv' /\ RunsFit /\ [Next]_vars => [Told!Next]_(Told!cwVars)
  <2>1. [Promise!Next]_(Promise!cwVars) => [Told!Next]_(Told!cwVars)
    BY DEF Promise!Next, Promise!cwVars, Promise!Step, Promise!Stays, Promise!Moves, Promise!Leaves, Promise!Lands,
           Promise!Stages, Promise!Fates, Told!Next, Told!cwVars, Told!Step, Told!Stays, Told!Moves,
           Told!Leaves, Told!Lands, Told!Stages, Told!Fates
  <2>2. QED
    BY <2>1, StepKeepsPromise
<1>3. Spec => Told!Spec
  BY <1>1, <1>2, Inductive, InductiveFits, PTL DEF Spec, Told!Spec
<1>4. Told!Spec => []Told!SentOnceIfConfirmed /\ []Told!ReportsTruth
  BY Told!NeverSentUnasked, Told!ReportsAreTrue, PTL
<1>5. IInv /\ Told!SentOnceIfConfirmed /\ Told!ReportsTruth =>
         /\ Cardinality(Requests) <= 1
         /\ card.status \in {"pending", "expired", "cancelled"} => Requests = {}
         /\ card.status = "confirmed" => Fate = "applied"
         /\ card.status = "failed" => Fate \in {"idle", "refused"}
  <2>1. ASSUME IInv, Cardinality(Requests) = 0 PROVE Requests = {}
    <3>1. Requests \subseteq DOMAIN runs /\ IsFiniteSet(DOMAIN runs)
      BY <2>1, LenProperties, FS_Interval DEF IInv, TypeOK, Requests
    <3>2. QED
      BY <2>1, <3>1, FS_Subset, FS_EmptySet
  <2>2. QED
    BY <2>1 DEF Told!SentOnceIfConfirmed, Told!ReportsTruth
<1>6. QED
  BY <1>3, <1>4, <1>5, Inductive, PTL
=============================================================================
