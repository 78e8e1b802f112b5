-------------------------- MODULE QASession_proof --------------------------
(***************************************************************************)
(* Theorems about QASession, for any number of requests, seed sets and     *)
(* draft sets.                                                             *)
(***************************************************************************)
EXTENDS QASession, TLAPS

USE SessionAssumption DEF sessionVars, rows

\* What reopening the result brings back can still be committed.
ResultIsBacked == screen = "commit_result" => Backed(activeDraft)

\* Only seed sets that exist are active or asked about.
SeedsExist ==
    /\ Open /\ activeSeed # None => seeds[activeSeed].status # "none"
    /\ \A r \in Requests : req[r].op \in {"refine", "testcase"} =>
         req[r].seed \in SeedIds /\ (Open => seeds[req[r].seed].status # "none")

DraftInv ==
    /\ LiveDraftSetShown
    /\ \A d \in DraftIds : drafts[d].status = "reviewing" => Backed(d)
    /\ SelectionBehindScreen /\ ResultIsSettled /\ ResultIsBacked

SeedInv == SeedsExist /\ SeedsNeedLockedPlan

IInv == TypeOK /\ DraftInv /\ SeedInv

----------------------------------------------------------------------------
(* What retiring does to the rows. *)

LEMMA RetireDraftsFacts ==
    ASSUME TypeOK
    PROVE  /\ RetireDrafts \in [DraftIds -> DraftSet]
           /\ \A d \in DraftIds :
                /\ RetireDrafts[d].status # "reviewing"
                /\ drafts[d].status # "reviewing" => RetireDrafts[d] = drafts[d]
BY DEF TypeOK, RetireDrafts, DraftSet

LEMMA NewDraftSet ==
    ASSUME NEW s \in SeedIds
    PROVE  [NoDraftSet EXCEPT !.status = "reviewing", !.seed = s] \in DraftSet
BY DEF NoDraftSet, DraftSet

LEMMA AgedFacts ==
    ASSUME TypeOK, NEW s \in SeedIds
    PROVE  /\ Aged(RetireDrafts, s) \in [DraftIds -> DraftSet]
           /\ \A d \in DraftIds : Aged(RetireDrafts, s)[d].status = RetireDrafts[d].status
BY RetireDraftsFacts DEF Aged, DraftSet

LEMMA RetireSeedsFacts ==
    ASSUME TypeOK
    PROVE  /\ RetireSeeds \in [SeedIds -> SeedSet]
           /\ \A s \in SeedIds :
                /\ RetireSeeds[s].status \in {"none", "superseded"}
                /\ RetireSeeds[s].status = "none" <=> seeds[s].status = "none"
BY DEF TypeOK, RetireSeeds, SeedSet, LiveSeed

LEMMA UnlinkFacts ==
    ASSUME NEW sets \in [SeedIds -> SeedSet]
    PROVE  /\ Unlink(sets) \in [SeedIds -> SeedSet]
           /\ \A s \in SeedIds : Unlink(sets)[s].status = sets[s].status
                              /\ Unlink(sets)[s].revived = sets[s].revived
BY DEF Unlink, SeedSet

LEMMA AskFacts ==
    ASSUME TypeOK, NEW r \in Requests, NEW op \in Ops, NEW s \in SeedIds \cup {None}, Ask(r, op, s)
    PROVE  /\ req' \in [Requests -> Request]
           /\ req'[r].op = op /\ req'[r].seed = s
           /\ \A x \in Requests \ {r} : req'[x] = req[x]
           /\ UNCHANGED <<sessionVars, rows>>
BY DEF Ask, TypeOK, Request

\* Reviewing again: what becomes of the seeds.
LEMMA ReviewAgainSeeds ==
    ASSUME TypeOK, NEW s \in SeedIds, ReviewAgain(s)
    PROVE  /\ seeds' \in [SeedIds -> SeedSet]
           /\ seeds'[s].status = "draft"
           /\ ~seeds'[s].revived => ~seeds[s].revived /\ seeds[s].status # "superseded"
           /\ \A x \in SeedIds \ {s} : seeds'[x] = seeds[x]
<1>1. seeds' = [seeds EXCEPT ![s] = Again(seeds[s])]
  BY DEF ReviewAgain
<1>2. seeds[s] \in SeedSet
  BY DEF TypeOK
<1>3. /\ Again(seeds[s]) \in SeedSet
      /\ Again(seeds[s]).status = "draft"
      /\ ~Again(seeds[s]).revived => ~seeds[s].revived /\ seeds[s].status # "superseded"
  BY <1>2 DEF SeedSet, Again
<1>4. QED
  BY <1>1, <1>3 DEF TypeOK

\* ... and of everything else.
LEMMA ReviewAgainFacts ==
    ASSUME TypeOK, NEW s \in SeedIds, ReviewAgain(s)
    PROVE  /\ drafts' \in [DraftIds -> DraftSet]
           /\ \A d \in DraftIds : drafts'[d].status # "reviewing"
           /\ activeDraft' = None /\ activeSeed' = s
           /\ screen' = "seed_review"
           /\ UNCHANGED <<status, plan, created>>
BY RetireDraftsFacts, AgedFacts DEF ReviewAgain, Show

----------------------------------------------------------------------------
(* Every operation keeps the invariant. *)

LEMMA TypeStep ==
    ASSUME IInv, [Next]_vars
    PROVE  TypeOK'
<1>1. InitializeRequirementPlan => TypeOK'
  BY DEF InitializeRequirementPlan, Show, TypeOK, IInv, SeedInv, SeedsExist, Screens
<1>2. SaveRequirementPlan => TypeOK'
  BY RetireDraftsFacts, RetireSeedsFacts, UnlinkFacts
  DEF SaveRequirementPlan, Show, TypeOK, IInv, SeedInv, SeedsExist, Screens
<1>3. LockRequirementPlan => TypeOK'
  BY DEF LockRequirementPlan, MayShow, Show, Transitions, TypeOK, IInv, SeedInv, SeedsExist, Screens
<1>4. UnlockRequirementPlan => TypeOK'
  BY RetireDraftsFacts, RetireSeedsFacts
  DEF UnlockRequirementPlan, MayShow, Show, Transitions, TypeOK, IInv, SeedInv, SeedsExist, Screens
<1>5. ReopenSession => TypeOK'
  BY DEF ReopenSession, DraftSet, TypeOK, IInv, SeedInv, SeedsExist, Screens
<1>6. DeleteSession => TypeOK'
  BY DEF DeleteSession, NoSeedSet, NoDraftSet, SeedSet, DraftSet, TypeOK, IInv, SeedInv,
         SeedsExist, Screens
<1>7. RestartSession => TypeOK'
  BY DEF RestartSession, DeleteSession, NoSeedSet, NoDraftSet, SeedSet, DraftSet, TypeOK, IInv,
         SeedInv, SeedsExist, Screens
<1>8. \A s \in SeedIds : UpdateSeedItemReview(s) => TypeOK'
  BY ReviewAgainSeeds, ReviewAgainFacts
  DEF UpdateSeedItemReview, TypeOK, IInv, SeedInv, SeedsExist, Screens
<1>9. \A s \in SeedIds : UpdateSeedSectionInclusion(s) => TypeOK'
  BY ReviewAgainSeeds, ReviewAgainFacts
  DEF UpdateSeedSectionInclusion, SeedSet, TypeOK, IInv, SeedInv, SeedsExist, Screens
<1>10. \A s \in SeedIds : LockSeedSet(s) => TypeOK'
  BY DEF LockSeedSet, MayShow, Show, Transitions, SeedSet, TypeOK, IInv, SeedInv, SeedsExist, Screens
<1>11. \A s \in SeedIds : UnlockSeedSet(s) => TypeOK'
  BY RetireDraftsFacts
  DEF UnlockSeedSet, MayShow, Show, Transitions, SeedSet, TypeOK, IInv, SeedInv, SeedsExist,
      Screens
<1>12. \A d \in DraftIds : UpdateTestcaseDraft(d) => TypeOK'
  BY DEF UpdateTestcaseDraft, Reviewed, MayShow, Show, Transitions, DraftSet, TypeOK, IInv,
         SeedInv, SeedsExist, Screens
<1>13. \A d \in DraftIds : UpdateTestcaseDraftSelection(d) => TypeOK'
  BY DEF UpdateTestcaseDraftSelection, Reviewed, MayShow, Show, Transitions, DraftSet, TypeOK,
         IInv, SeedInv, SeedsExist, Screens
<1>14. \A d \in DraftIds : UpdateTestcaseSectionSelection(d) => TypeOK'
  BY DEF UpdateTestcaseSectionSelection, Reviewed, MayShow, Show, Transitions, DraftSet, TypeOK,
         IInv, SeedInv, SeedsExist, Screens
<1>15. \A d \in DraftIds : OpenTestcaseSetSelection(d) => TypeOK'
  BY DEF OpenTestcaseSetSelection, MayShow, Show, Transitions, TypeOK, IInv, SeedInv, SeedsExist,
         Screens
<1>16. \A d \in DraftIds : ReturnToTestcaseReview(d) => TypeOK'
  BY DEF ReturnToTestcaseReview, MayShow, Show, Transitions, TypeOK, IInv, SeedInv, SeedsExist, Screens
<1>17. \A d \in DraftIds : CommitSelectedTestcases(d) => TypeOK'
  BY DEF CommitSelectedTestcases, DraftSet, TypeOK, IInv, SeedInv, SeedsExist, Screens
<1>18. \A r \in Requests : RunCouncilInspection(r) => TypeOK'
  BY AskFacts DEF RunCouncilInspection, Ops, TypeOK, IInv, SeedInv, SeedsExist, Screens
<1>19. \A r \in Requests : ApplyCouncilInspectionResults(r) => TypeOK'
  BY UnlinkFacts
  DEF ApplyCouncilInspectionResults, Answered, Idle, Request, Ops, TypeOK, IInv, SeedInv,
      SeedsExist, Screens
<1>20. \A r \in Requests : ReadPlan(r) => TypeOK'
  BY AskFacts DEF ReadPlan, Ops, TypeOK, IInv, SeedInv, SeedsExist, Screens
<1>21. \A r \in Requests : ReuseSeedSet(r) => TypeOK'
  BY DEF ReuseSeedSet, Answered, MayShow, Show, Transitions, Idle, Request, Ops, TypeOK, IInv,
         SeedInv, SeedsExist, Screens
<1>22. \A r \in Requests : GenerateSeedSet(r) => TypeOK'
  BY RetireDraftsFacts, RetireSeedsFacts
  DEF GenerateSeedSet, Answered, Show, Idle, Request, Ops, SeedSet, TypeOK, IInv, SeedInv,
      SeedsExist, Screens
<1>23. \A r \in Requests : ReadSeedsToRefine(r) => TypeOK'
  BY AskFacts DEF ReadSeedsToRefine, Ops, TypeOK, IInv, SeedInv, SeedsExist, Screens
<1>24. \A r \in Requests : RefineSeedSet(r) => TypeOK'
  BY ReviewAgainSeeds, ReviewAgainFacts
  DEF RefineSeedSet, Answered, Idle, Request, Ops, TypeOK, IInv, SeedInv, SeedsExist, Screens
<1>25. \A r \in Requests : ReadSeeds(r) => TypeOK'
  BY AskFacts DEF ReadSeeds, Ops, TypeOK, IInv, SeedInv, SeedsExist, Screens
<1>26. \A r \in Requests : ReuseDraftSet(r) => TypeOK'
  BY DEF ReuseDraftSet, Answered, MayShow, Show, Transitions, Idle, Request, Ops, TypeOK, IInv,
         SeedInv, SeedsExist, Screens
<1>27. \A r \in Requests : GenerateTestcaseDraftSet(r) => TypeOK'
  <2> SUFFICES ASSUME NEW r \in Requests, GenerateTestcaseDraftSet(r) PROVE TypeOK'
    OBVIOUS
  <2>1. req[r].seed \in SeedIds /\ req' = [req EXCEPT ![r] = Idle] /\ Idle \in Request
    BY DEF GenerateTestcaseDraftSet, Answered, IInv, SeedInv, SeedsExist, Idle, Request, Ops
  <2>2. drafts' \in [DraftIds -> DraftSet] /\ activeDraft' \in DraftIds
    BY <2>1, RetireDraftsFacts, NewDraftSet DEF GenerateTestcaseDraftSet, IInv
  <2>3. QED
    BY <2>1, <2>2 DEF GenerateTestcaseDraftSet, MayShow, Show, TypeOK, IInv, Screens
<1>28. \A r \in Requests : RequestFails(r) => TypeOK'
  BY DEF RequestFails, Idle, Request, Ops, TypeOK, IInv, SeedInv, SeedsExist, Screens
<1>29. UNCHANGED vars => TypeOK'
  BY DEF vars, TypeOK, IInv, SeedInv, SeedsExist, Screens
<1>30. QED
  BY <1>1, <1>2, <1>3, <1>4, <1>5, <1>6, <1>7, <1>8, <1>9, <1>10, <1>11, <1>12, <1>13, <1>14, <1>15,
     <1>16, <1>17, <1>18, <1>19, <1>20, <1>21, <1>22, <1>23, <1>24, <1>25, <1>26, <1>27, <1>28, <1>29, Zenon
  DEF Next

LEMMA SeedStep ==
    ASSUME IInv, [Next]_vars
    PROVE  SeedInv'
<1>1. InitializeRequirementPlan => SeedInv'
  BY DEF InitializeRequirementPlan, Show, TypeOK, IInv, SeedInv, SeedsExist, SeedsNeedLockedPlan,
         LiveSeed, Open
<1>2. SaveRequirementPlan => SeedInv'
  BY RetireDraftsFacts, RetireSeedsFacts, UnlinkFacts
  DEF SaveRequirementPlan, Show, TypeOK, IInv, SeedInv, SeedsExist, SeedsNeedLockedPlan, LiveSeed,
      Open
<1>3. LockRequirementPlan => SeedInv'
  BY DEF LockRequirementPlan, MayShow, Show, Transitions, TypeOK, IInv, SeedInv, SeedsExist,
         SeedsNeedLockedPlan, LiveSeed, Open
<1>4. UnlockRequirementPlan => SeedInv'
  BY RetireDraftsFacts, RetireSeedsFacts
  DEF UnlockRequirementPlan, MayShow, Show, Transitions, TypeOK, IInv, SeedInv, SeedsExist,
      SeedsNeedLockedPlan, LiveSeed, Open
<1>5. ReopenSession => SeedInv'
  BY DEF ReopenSession, DraftSet, TypeOK, IInv, SeedInv, SeedsExist, SeedsNeedLockedPlan, LiveSeed, Open
<1>6. DeleteSession => SeedInv'
  BY DEF DeleteSession, NoSeedSet, NoDraftSet, SeedSet, DraftSet, TypeOK, IInv, SeedInv,
         SeedsExist, SeedsNeedLockedPlan, LiveSeed, Open
<1>7. RestartSession => SeedInv'
  BY DEF RestartSession, DeleteSession, NoSeedSet, NoDraftSet, SeedSet, DraftSet, TypeOK, IInv,
         SeedInv, SeedsExist, SeedsNeedLockedPlan, LiveSeed, Open
<1>8. \A s \in SeedIds : UpdateSeedItemReview(s) => SeedInv'
  BY ReviewAgainSeeds, ReviewAgainFacts
  DEF UpdateSeedItemReview, TypeOK, IInv, SeedInv, SeedsExist, SeedsNeedLockedPlan, LiveSeed, Open
<1>9. \A s \in SeedIds : UpdateSeedSectionInclusion(s) => SeedInv'
  BY ReviewAgainSeeds, ReviewAgainFacts
  DEF UpdateSeedSectionInclusion, SeedSet, TypeOK, IInv, SeedInv, SeedsExist, SeedsNeedLockedPlan,
      LiveSeed, Open
<1>10. \A s \in SeedIds : LockSeedSet(s) => SeedInv'
  BY DEF LockSeedSet, MayShow, Show, Transitions, SeedSet, TypeOK, IInv, SeedInv, SeedsExist,
         SeedsNeedLockedPlan, LiveSeed, Open
<1>11. \A s \in SeedIds : UnlockSeedSet(s) => SeedInv'
  BY RetireDraftsFacts
  DEF UnlockSeedSet, MayShow, Show, Transitions, SeedSet, TypeOK, IInv, SeedInv, SeedsExist,
      SeedsNeedLockedPlan, LiveSeed, Open
<1>12. \A d \in DraftIds : UpdateTestcaseDraft(d) => SeedInv'
  BY DEF UpdateTestcaseDraft, Reviewed, MayShow, Show, Transitions, DraftSet, TypeOK, IInv,
         SeedInv, SeedsExist, SeedsNeedLockedPlan, LiveSeed, Open
<1>13. \A d \in DraftIds : UpdateTestcaseDraftSelection(d) => SeedInv'
  BY DEF UpdateTestcaseDraftSelection, Reviewed, MayShow, Show, Transitions, DraftSet, TypeOK,
         IInv, SeedInv, SeedsExist, SeedsNeedLockedPlan, LiveSeed, Open
<1>14. \A d \in DraftIds : UpdateTestcaseSectionSelection(d) => SeedInv'
  BY DEF UpdateTestcaseSectionSelection, Reviewed, MayShow, Show, Transitions, DraftSet, TypeOK,
         IInv, SeedInv, SeedsExist, SeedsNeedLockedPlan, LiveSeed, Open
<1>15. \A d \in DraftIds : OpenTestcaseSetSelection(d) => SeedInv'
  BY DEF OpenTestcaseSetSelection, MayShow, Show, Transitions, TypeOK, IInv, SeedInv, SeedsExist,
         SeedsNeedLockedPlan, LiveSeed, Open
<1>16. \A d \in DraftIds : ReturnToTestcaseReview(d) => SeedInv'
  BY DEF ReturnToTestcaseReview, MayShow, Show, Transitions, TypeOK, IInv, SeedInv, SeedsExist,
         SeedsNeedLockedPlan, LiveSeed, Open
<1>17. \A d \in DraftIds : CommitSelectedTestcases(d) => SeedInv'
  BY DEF CommitSelectedTestcases, DraftSet, TypeOK, IInv, SeedInv, SeedsExist, SeedsNeedLockedPlan,
         LiveSeed, Open
<1>18. \A r \in Requests : RunCouncilInspection(r) => SeedInv'
  BY AskFacts
  DEF RunCouncilInspection, Ops, TypeOK, IInv, SeedInv, SeedsExist, SeedsNeedLockedPlan, LiveSeed,
      Open
<1>19. \A r \in Requests : ApplyCouncilInspectionResults(r) => SeedInv'
  BY UnlinkFacts
  DEF ApplyCouncilInspectionResults, Answered, Idle, Request, Ops, TypeOK, IInv, SeedInv,
      SeedsExist, SeedsNeedLockedPlan, LiveSeed, Open
<1>20. \A r \in Requests : ReadPlan(r) => SeedInv'
  BY AskFacts DEF ReadPlan, Ops, TypeOK, IInv, SeedInv, SeedsExist, SeedsNeedLockedPlan, LiveSeed, Open
<1>21. \A r \in Requests : ReuseSeedSet(r) => SeedInv'
  BY DEF ReuseSeedSet, Answered, MayShow, Show, Transitions, Idle, Request, Ops, TypeOK, IInv,
         SeedInv, SeedsExist, SeedsNeedLockedPlan, LiveSeed, Open
<1>22. \A r \in Requests : GenerateSeedSet(r) => SeedInv'
  BY RetireDraftsFacts, RetireSeedsFacts
  DEF GenerateSeedSet, Answered, Show, Idle, Request, Ops, SeedSet, TypeOK, IInv, SeedInv,
      SeedsExist, SeedsNeedLockedPlan, LiveSeed, Open
<1>23. \A r \in Requests : ReadSeedsToRefine(r) => SeedInv'
  BY AskFacts
  DEF ReadSeedsToRefine, Ops, TypeOK, IInv, SeedInv, SeedsExist, SeedsNeedLockedPlan, LiveSeed,
      Open
<1>24. \A r \in Requests : RefineSeedSet(r) => SeedInv'
  <2> SUFFICES ASSUME NEW r \in Requests, RefineSeedSet(r) PROVE SeedInv'
    OBVIOUS
  <2>1. req[r].seed \in SeedIds /\ seeds[req[r].seed].status # "none" /\ ReviewAgain(req[r].seed)
        /\ req' = [req EXCEPT ![r] = Idle]
    BY DEF RefineSeedSet, Answered, IInv, SeedInv, SeedsExist
  <2>2. SeedsExist'
    BY <2>1, ReviewAgainSeeds, ReviewAgainFacts
    DEF Idle, Request, TypeOK, IInv, SeedInv, SeedsExist, Open
  <2>3. SeedsNeedLockedPlan'
    BY <2>1, ReviewAgainSeeds, ReviewAgainFacts
    DEF TypeOK, IInv, SeedInv, SeedsNeedLockedPlan, LiveSeed, SeedSet
  <2>4. QED
    BY <2>2, <2>3 DEF SeedInv
<1>25. \A r \in Requests : ReadSeeds(r) => SeedInv'
  BY AskFacts DEF ReadSeeds, Ops, TypeOK, IInv, SeedInv, SeedsExist, SeedsNeedLockedPlan, LiveSeed, Open
<1>26. \A r \in Requests : ReuseDraftSet(r) => SeedInv'
  BY DEF ReuseDraftSet, Answered, MayShow, Show, Transitions, Idle, Request, Ops, TypeOK, IInv,
         SeedInv, SeedsExist, SeedsNeedLockedPlan, LiveSeed, Open
<1>27. \A r \in Requests : GenerateTestcaseDraftSet(r) => SeedInv'
  BY RetireDraftsFacts
  DEF GenerateTestcaseDraftSet, Answered, MayShow, Show, Transitions, Idle, Request, Ops, DraftSet,
      NoDraftSet, TypeOK, IInv, SeedInv, SeedsExist, SeedsNeedLockedPlan, LiveSeed, Open
<1>28. \A r \in Requests : RequestFails(r) => SeedInv'
  BY DEF RequestFails, Idle, Request, Ops, TypeOK, IInv, SeedInv, SeedsExist, SeedsNeedLockedPlan,
         LiveSeed, Open
<1>29. UNCHANGED vars => SeedInv'
  BY DEF vars, TypeOK, IInv, SeedInv, SeedsExist, SeedsNeedLockedPlan, LiveSeed, Open
<1>30. QED
  BY <1>1, <1>2, <1>3, <1>4, <1>5, <1>6, <1>7, <1>8, <1>9, <1>10, <1>11, <1>12, <1>13, <1>14, <1>15,
     <1>16, <1>17, <1>18, <1>19, <1>20, <1>21, <1>22, <1>23, <1>24, <1>25, <1>26, <1>27, <1>28, <1>29, Zenon
  DEF Next

LEMMA DraftStep ==
    ASSUME IInv, [Next]_vars
    PROVE  DraftInv'
<1>1. InitializeRequirementPlan => DraftInv'
  BY DEF InitializeRequirementPlan, Show, TypeOK, IInv, SeedInv, SeedsExist, DraftInv,
         LiveDraftSetShown, SelectionBehindScreen, ResultIsSettled, ResultIsBacked, Backed
<1>2. SaveRequirementPlan => DraftInv'
  BY RetireDraftsFacts, RetireSeedsFacts, UnlinkFacts
  DEF SaveRequirementPlan, Show, TypeOK, IInv, SeedInv, SeedsExist, DraftInv, LiveDraftSetShown,
      SelectionBehindScreen, ResultIsSettled, ResultIsBacked, Backed
<1>3. LockRequirementPlan => DraftInv'
  BY DEF LockRequirementPlan, MayShow, Show, Transitions, TypeOK, IInv, SeedInv, SeedsExist,
         DraftInv, LiveDraftSetShown, SelectionBehindScreen, ResultIsSettled, ResultIsBacked,
         Backed
<1>4. UnlockRequirementPlan => DraftInv'
  BY RetireDraftsFacts, RetireSeedsFacts
  DEF UnlockRequirementPlan, MayShow, Show, Transitions, TypeOK, IInv, SeedInv, SeedsExist,
      DraftInv, LiveDraftSetShown, SelectionBehindScreen, ResultIsSettled, ResultIsBacked, Backed
<1>5. ReopenSession => DraftInv'
  BY DEF ReopenSession, DraftSet, TypeOK, IInv, SeedInv, SeedsExist, DraftInv, LiveDraftSetShown,
         SelectionBehindScreen, ResultIsSettled, ResultIsBacked, Backed
<1>6. DeleteSession => DraftInv'
  BY DEF DeleteSession, NoSeedSet, NoDraftSet, SeedSet, DraftSet, TypeOK, IInv, SeedInv,
         SeedsExist, DraftInv, LiveDraftSetShown, SelectionBehindScreen, ResultIsSettled,
         ResultIsBacked, Backed
<1>7. RestartSession => DraftInv'
  BY DEF RestartSession, DeleteSession, NoSeedSet, NoDraftSet, SeedSet, DraftSet, TypeOK, IInv,
         SeedInv, SeedsExist, DraftInv, LiveDraftSetShown, SelectionBehindScreen, ResultIsSettled,
         ResultIsBacked, Backed
<1>8. \A s \in SeedIds : UpdateSeedItemReview(s) => DraftInv'
  BY ReviewAgainSeeds, ReviewAgainFacts
  DEF UpdateSeedItemReview, TypeOK, IInv, SeedInv, SeedsExist, DraftInv, LiveDraftSetShown,
      SelectionBehindScreen, ResultIsSettled, ResultIsBacked
<1>9. \A s \in SeedIds : UpdateSeedSectionInclusion(s) => DraftInv'
  BY ReviewAgainSeeds, ReviewAgainFacts
  DEF UpdateSeedSectionInclusion, SeedSet, TypeOK, IInv, SeedInv, SeedsExist, DraftInv,
      LiveDraftSetShown, SelectionBehindScreen, ResultIsSettled, ResultIsBacked
<1>10. \A s \in SeedIds : LockSeedSet(s) => DraftInv'
  BY DEF LockSeedSet, MayShow, Show, Transitions, SeedSet, TypeOK, IInv, SeedInv, SeedsExist,
         DraftInv, LiveDraftSetShown, SelectionBehindScreen, ResultIsSettled, ResultIsBacked,
         Backed
<1>11. \A s \in SeedIds : UnlockSeedSet(s) => DraftInv'
  BY RetireDraftsFacts
  DEF UnlockSeedSet, MayShow, Show, Transitions, SeedSet, TypeOK, IInv, SeedInv, SeedsExist,
      DraftInv, LiveDraftSetShown, SelectionBehindScreen, ResultIsSettled, ResultIsBacked, Backed
<1>12. \A d \in DraftIds : UpdateTestcaseDraft(d) => DraftInv'
  BY DEF UpdateTestcaseDraft, Reviewed, MayShow, Show, Transitions, DraftSet, TypeOK, IInv,
         SeedInv, SeedsExist, DraftInv, LiveDraftSetShown, SelectionBehindScreen, ResultIsSettled,
         ResultIsBacked, Backed
<1>13. \A d \in DraftIds : UpdateTestcaseDraftSelection(d) => DraftInv'
  BY DEF UpdateTestcaseDraftSelection, Reviewed, MayShow, Show, Transitions, DraftSet, TypeOK,
         IInv, SeedInv, SeedsExist, DraftInv, LiveDraftSetShown, SelectionBehindScreen,
         ResultIsSettled, ResultIsBacked, Backed
<1>14. \A d \in DraftIds : UpdateTestcaseSectionSelection(d) => DraftInv'
  BY DEF UpdateTestcaseSectionSelection, Reviewed, MayShow, Show, Transitions, DraftSet, TypeOK,
         IInv, SeedInv, SeedsExist, DraftInv, LiveDraftSetShown, SelectionBehindScreen,
         ResultIsSettled, ResultIsBacked, Backed
<1>15. \A d \in DraftIds : OpenTestcaseSetSelection(d) => DraftInv'
  BY DEF OpenTestcaseSetSelection, MayShow, Show, Transitions, TypeOK, IInv, SeedInv, SeedsExist,
         DraftInv, LiveDraftSetShown, SelectionBehindScreen, ResultIsSettled, ResultIsBacked,
         Backed
<1>16. \A d \in DraftIds : ReturnToTestcaseReview(d) => DraftInv'
  BY DEF ReturnToTestcaseReview, MayShow, Show, Transitions, TypeOK, IInv, SeedInv, SeedsExist,
         DraftInv, LiveDraftSetShown, SelectionBehindScreen, ResultIsSettled, ResultIsBacked,
         Backed
<1>17. \A d \in DraftIds : CommitSelectedTestcases(d) => DraftInv'
  BY DEF CommitSelectedTestcases, DraftSet, TypeOK, IInv, SeedInv, SeedsExist, DraftInv,
         LiveDraftSetShown, SelectionBehindScreen, ResultIsSettled, ResultIsBacked, Backed
<1>18. \A r \in Requests : RunCouncilInspection(r) => DraftInv'
  BY AskFacts
  DEF RunCouncilInspection, Ops, TypeOK, IInv, SeedInv, SeedsExist, DraftInv, LiveDraftSetShown,
      SelectionBehindScreen, ResultIsSettled, ResultIsBacked, Backed
<1>19. \A r \in Requests : ApplyCouncilInspectionResults(r) => DraftInv'
  BY UnlinkFacts
  DEF ApplyCouncilInspectionResults, Answered, Idle, Request, Ops, TypeOK, IInv, SeedInv,
      SeedsExist, DraftInv, LiveDraftSetShown, SelectionBehindScreen, ResultIsSettled,
      ResultIsBacked, Backed
<1>20. \A r \in Requests : ReadPlan(r) => DraftInv'
  BY AskFacts
  DEF ReadPlan, Ops, TypeOK, IInv, SeedInv, SeedsExist, DraftInv, LiveDraftSetShown,
      SelectionBehindScreen, ResultIsSettled, ResultIsBacked, Backed
<1>21. \A r \in Requests : ReuseSeedSet(r) => DraftInv'
  BY DEF ReuseSeedSet, Answered, MayShow, Show, Transitions, Idle, Request, Ops, TypeOK, IInv,
         SeedInv, SeedsExist, DraftInv, LiveDraftSetShown, SelectionBehindScreen, ResultIsSettled,
         ResultIsBacked, Backed
<1>22. \A r \in Requests : GenerateSeedSet(r) => DraftInv'
  BY RetireDraftsFacts, RetireSeedsFacts
  DEF GenerateSeedSet, Answered, Show, Idle, Request, Ops, SeedSet, TypeOK, IInv, SeedInv,
      SeedsExist, DraftInv, LiveDraftSetShown, SelectionBehindScreen, ResultIsSettled,
      ResultIsBacked, Backed
<1>23. \A r \in Requests : ReadSeedsToRefine(r) => DraftInv'
  BY AskFacts
  DEF ReadSeedsToRefine, Ops, TypeOK, IInv, SeedInv, SeedsExist, DraftInv, LiveDraftSetShown,
      SelectionBehindScreen, ResultIsSettled, ResultIsBacked, Backed
<1>24. \A r \in Requests : RefineSeedSet(r) => DraftInv'
  BY ReviewAgainSeeds, ReviewAgainFacts
  DEF RefineSeedSet, Answered, Idle, Request, Ops, TypeOK, IInv, SeedInv, SeedsExist, DraftInv,
      LiveDraftSetShown, SelectionBehindScreen, ResultIsSettled, ResultIsBacked
<1>25. \A r \in Requests : ReadSeeds(r) => DraftInv'
  BY AskFacts
  DEF ReadSeeds, Ops, TypeOK, IInv, SeedInv, SeedsExist, DraftInv, LiveDraftSetShown,
      SelectionBehindScreen, ResultIsSettled, ResultIsBacked, Backed
<1>26. \A r \in Requests : ReuseDraftSet(r) => DraftInv'
  BY DEF ReuseDraftSet, Answered, MayShow, Show, Transitions, Idle, Request, Ops, TypeOK, IInv,
         SeedInv, SeedsExist, DraftInv, LiveDraftSetShown, SelectionBehindScreen, ResultIsSettled,
         ResultIsBacked, Backed
<1>27. \A r \in Requests : GenerateTestcaseDraftSet(r) => DraftInv'
  BY RetireDraftsFacts
  DEF GenerateTestcaseDraftSet, Answered, MayShow, Show, Transitions, Idle, Request, Ops, DraftSet,
      NoDraftSet, TypeOK, IInv, SeedInv, SeedsExist, DraftInv, LiveDraftSetShown,
      SelectionBehindScreen, ResultIsSettled, ResultIsBacked, Backed
<1>28. \A r \in Requests : RequestFails(r) => DraftInv'
  BY DEF RequestFails, Idle, Request, Ops, TypeOK, IInv, SeedInv, SeedsExist, DraftInv,
         LiveDraftSetShown, SelectionBehindScreen, ResultIsSettled, ResultIsBacked, Backed
<1>29. UNCHANGED vars => DraftInv'
  BY DEF vars, TypeOK, IInv, SeedInv, SeedsExist, DraftInv, LiveDraftSetShown,
         SelectionBehindScreen, ResultIsSettled, ResultIsBacked, Backed
<1>30. QED
  BY <1>1, <1>2, <1>3, <1>4, <1>5, <1>6, <1>7, <1>8, <1>9, <1>10, <1>11, <1>12, <1>13, <1>14, <1>15,
     <1>16, <1>17, <1>18, <1>19, <1>20, <1>21, <1>22, <1>23, <1>24, <1>25, <1>26, <1>27, <1>28, <1>29, Zenon
  DEF Next

----------------------------------------------------------------------------
LEMMA InitHolds == Init => IInv
BY DEF Init, IInv, TypeOK, DraftInv, SeedInv, LiveDraftSetShown, SelectionBehindScreen, ResultIsSettled,
       ResultIsBacked, SeedsExist, SeedsNeedLockedPlan, LiveSeed, NoSeedSet, NoDraftSet, Idle,
       SeedSet, DraftSet, Request, Ops, Screens

LEMMA Invariant == Spec => []IInv
<1>1. IInv /\ [Next]_vars => IInv'
  BY TypeStep, SeedStep, DraftStep DEF IInv
<1>2. QED
  BY <1>1, InitHolds, PTL DEF Spec

\* Every reachable state has the shape the columns and the request state allow.
THEOREM Typed == Spec => []TypeOK
<1>1. IInv => TypeOK
  BY DEF IInv
<1>2. QED
  BY <1>1, Invariant, PTL

\* The draft set that can still be committed is the one the session shows: after
\* any number of regenerations, reopenings and late answers.
THEOREM OneLiveDraftSet == Spec => []LiveDraftSetShown
<1>1. IInv => LiveDraftSetShown
  BY DEF IInv, DraftInv
<1>2. QED
  BY <1>1, Invariant, PTL

\* Drafts that can be committed come from seeds that are locked and unchanged.
THEOREM DraftsAreBacked == Spec => []DraftsOfLockedSeeds
<1>1. IInv => DraftsOfLockedSeeds
  BY DEF IInv, DraftInv, Backed, DraftsOfLockedSeeds
<1>2. QED
  BY <1>1, Invariant, PTL

\* The set selection screen is never shown with nothing to commit behind it.
THEOREM SelectionIsBehind == Spec => []SelectionBehindScreen
<1>1. IInv => SelectionBehindScreen
  BY DEF IInv, DraftInv
<1>2. QED
  BY <1>1, Invariant, PTL

\* On the result screen nothing is left to commit.
THEOREM ResultSettled == Spec => []ResultIsSettled
<1>1. IInv => ResultIsSettled
  BY DEF IInv, DraftInv
<1>2. QED
  BY <1>1, Invariant, PTL

\* Seeds that were never revived need a locked plan.
THEOREM SeedsAreOfLockedPlan == Spec => []SeedsNeedLockedPlan
<1>1. IInv => SeedsNeedLockedPlan
  BY DEF IInv, SeedInv
<1>2. QED
  BY <1>1, Invariant, PTL

\* No operation brings a superseded draft set back.
THEOREM RetiredStay == Spec => RetiredDraftsStay
<1> DEFINE Stay == \A d \in DraftIds :
             drafts[d].status = "superseded" => drafts'[d].status \in {"superseded", "none"}
<1>1. IInv /\ [Next]_vars => Stay
  <2> SUFFICES ASSUME IInv, [Next]_vars PROVE Stay
    OBVIOUS
  <2>1. \A s \in SeedIds : ReviewAgain(s) => Stay
    BY RetireDraftsFacts, AgedFacts DEF ReviewAgain, IInv
  <2>2. /\ \A s \in SeedIds : UpdateSeedItemReview(s) \/ UpdateSeedSectionInclusion(s) => Stay
        /\ \A r \in Requests : RefineSeedSet(r) => Stay
    BY <2>1
    DEF UpdateSeedItemReview, UpdateSeedSectionInclusion, RefineSeedSet, Answered, IInv, SeedInv,
        SeedsExist
  <2>3. \A s \in SeedIds : LockSeedSet(s) \/ UnlockSeedSet(s) => Stay
    BY RetireDraftsFacts DEF LockSeedSet, UnlockSeedSet, RetireDrafts, IInv, TypeOK, DraftSet
  <2>4. \A d \in DraftIds :
           \/ UpdateTestcaseDraft(d) \/ UpdateTestcaseDraftSelection(d) \/ UpdateTestcaseSectionSelection(d)
           \/ OpenTestcaseSetSelection(d) \/ ReturnToTestcaseReview(d) \/ CommitSelectedTestcases(d)
         => Stay
    BY DEF UpdateTestcaseDraft, UpdateTestcaseDraftSelection, UpdateTestcaseSectionSelection, Reviewed,
           OpenTestcaseSetSelection, ReturnToTestcaseReview, CommitSelectedTestcases, IInv, TypeOK, DraftSet
  <2>5. \A r \in Requests : GenerateSeedSet(r) \/ GenerateTestcaseDraftSet(r) => Stay
    BY RetireDraftsFacts
    DEF GenerateSeedSet, GenerateTestcaseDraftSet, RetireDrafts, IInv, TypeOK, DraftSet
  <2>6. \A r \in Requests :
           \/ RunCouncilInspection(r) \/ ApplyCouncilInspectionResults(r) \/ ReadPlan(r) \/ ReuseSeedSet(r)
           \/ ReadSeedsToRefine(r) \/ ReadSeeds(r) \/ ReuseDraftSet(r) \/ RequestFails(r)
         => Stay
    BY DEF RunCouncilInspection, ApplyCouncilInspectionResults, ReadPlan, ReuseSeedSet,
           ReadSeedsToRefine,
           ReadSeeds, ReuseDraftSet, RequestFails, Ask
  <2>7. InitializeRequirementPlan \/ SaveRequirementPlan \/ LockRequirementPlan \/ UnlockRequirementPlan => Stay
    BY RetireDraftsFacts
    DEF InitializeRequirementPlan, SaveRequirementPlan, LockRequirementPlan, UnlockRequirementPlan, IInv
  <2>8. ReopenSession \/ DeleteSession \/ RestartSession => Stay
    BY DEF ReopenSession, DeleteSession, RestartSession, NoDraftSet
  <2>9. UNCHANGED vars => Stay
    BY DEF vars
  <2>10. QED
    BY <2>2, <2>3, <2>4, <2>5, <2>6, <2>7, <2>8, <2>9, Zenon DEF Next
<1>2. QED
  BY <1>1, Invariant, PTL DEF Spec, RetiredDraftsStay

\* A test case is created only from seeds that are locked and unchanged.
THEOREM CasesAreBacked == Spec => CasesFromLockedSeeds
<1> DEFINE Fits == \A d \in created' \ created : Backed(d)
<1>1. IInv /\ [Next]_vars => Fits
  <2> SUFFICES ASSUME IInv, [Next]_vars PROVE Fits
    OBVIOUS
  <2>1. CASE created' = created
    BY <2>1
  <2>2. CASE created' # created
    <3>1. PICK d \in DraftIds : CommitSelectedTestcases(d)
      BY <2>2
      DEF Next, vars, InitializeRequirementPlan, SaveRequirementPlan, LockRequirementPlan,
          UnlockRequirementPlan,
                  ReopenSession, DeleteSession, RestartSession, UpdateSeedItemReview,
                  UpdateSeedSectionInclusion, LockSeedSet, UnlockSeedSet, UpdateTestcaseDraft,
                  UpdateTestcaseDraftSelection, UpdateTestcaseSectionSelection, OpenTestcaseSetSelection, ReturnToTestcaseReview,
                  RunCouncilInspection, ApplyCouncilInspectionResults, ReadPlan, ReuseSeedSet,
                  GenerateSeedSet, ReadSeedsToRefine, RefineSeedSet, ReadSeeds,
                  ReuseDraftSet, GenerateTestcaseDraftSet, RequestFails,
                  Ask, ReviewAgain, Reviewed
    <3>2. created' = created \cup {d} /\ drafts[d].status = "reviewing"
      BY <2>2, <3>1 DEF CommitSelectedTestcases
    <3>3. QED
      BY <3>2 DEF IInv, DraftInv, Backed
  <2>3. QED
    BY <2>1, <2>2
<1>2. QED
  BY <1>1, Invariant, PTL DEF Spec, CasesFromLockedSeeds

----------------------------------------------------------------------------
(* QASession implements DraftReview. *)

Stage(d) == drafts[d].status
Dropped(d) == IF Stage(d) = "reviewing" THEN "superseded" ELSE Stage(d)

\* What a step may do to the stages.
Lasts == Open /\ Open' /\ created' = created
Holds == Lasts /\ \A d \in DraftIds : Stage(d)' = Stage(d)
Drops == Lasts /\ \A d \in DraftIds : Stage(d)' = Dropped(d)
Offers(d) ==
    /\ Lasts /\ Stage(d) \in {"none", "committed"} /\ Stage(d)' = "reviewing"
    /\ \A x \in DraftIds \ {d} : Stage(x)' = Dropped(x)
Commits(d) ==
    /\ Open /\ Open' /\ Stage(d) = "reviewing" /\ Stage(d)' = "committed"
    /\ \A x \in DraftIds \ {d} : Stage(x)' = Stage(x)
    /\ \A x \in DraftIds : Backed(x)' <=> Backed(x)
    /\ created' \in {created, created \cup {d}}
Closes == Open /\ ~Open' /\ created' = created /\ \A d \in DraftIds : drafts'[d] = NoDraftSet
Rests == UNCHANGED <<sessionVars, rows>>

LEMMA StageAfter ==
    ASSUME TypeOK
    PROVE  /\ \A d \in DraftIds : RetireDrafts[d].status = Dropped(d)
           /\ \A s \in SeedIds, d \in DraftIds : Aged(RetireDrafts, s)[d].status = Dropped(d)
  BY DEF TypeOK, RetireDrafts, DraftSet, Dropped, Stage, Aged

LEMMA ReviewAgainDrops ==
    ASSUME TypeOK, Open, NEW s \in SeedIds, ReviewAgain(s)
    PROVE  Drops
  BY StageAfter DEF ReviewAgain, Drops, Lasts, Stage, Open, Show

\* Operations on the plan and the session.
LEMMA SessionEffects ==
    ASSUME IInv, \/ InitializeRequirementPlan \/ SaveRequirementPlan
                 \/ LockRequirementPlan \/ UnlockRequirementPlan
                 \/ ReopenSession \/ DeleteSession \/ RestartSession
    PROVE  Holds \/ Drops \/ Closes \/ \E d \in DraftIds : Offers(d)
<1>1. CASE InitializeRequirementPlan \/ LockRequirementPlan
  BY <1>1 DEF InitializeRequirementPlan, LockRequirementPlan, MayShow, Show, Holds, Lasts, Stage, Open
<1>2. CASE SaveRequirementPlan \/ UnlockRequirementPlan
  BY <1>2, StageAfter
  DEF IInv, SaveRequirementPlan, UnlockRequirementPlan, MayShow, Show, Drops, Lasts, Stage, Open
<1>3. CASE ReopenSession
  <2>1. PICK d \in DraftIds : d = activeDraft /\ Stage(d) = "committed"
    BY <1>3 DEF ReopenSession, IInv, TypeOK, DraftInv, ResultIsSettled, Stage
  <2>2. /\ Stage(d)' = "reviewing"
        /\ \A x \in DraftIds \ {d} : Stage(x)' = Dropped(x)
    BY <1>3, <2>1 DEF ReopenSession, Stage, Dropped, IInv, TypeOK, DraftSet, DraftInv, ResultIsSettled
  <2>3. Lasts
    BY <1>3 DEF ReopenSession, Lasts, Open
  <2>4. QED
    BY <2>1, <2>2, <2>3 DEF Offers
<1>4. CASE DeleteSession \/ RestartSession
  BY <1>4 DEF DeleteSession, RestartSession, Closes, Open
<1>5. QED
  BY <1>1, <1>2, <1>3, <1>4

LEMMA SeedEffects ==
    ASSUME IInv, NEW s \in SeedIds,
           \/ UpdateSeedItemReview(s) \/ UpdateSeedSectionInclusion(s)
           \/ LockSeedSet(s) \/ UnlockSeedSet(s)
    PROVE  Holds \/ Drops
<1>1. CASE UpdateSeedItemReview(s) \/ UpdateSeedSectionInclusion(s)
  BY <1>1, ReviewAgainDrops DEF UpdateSeedItemReview, UpdateSeedSectionInclusion, IInv
<1>2. CASE LockSeedSet(s)
  BY <1>2 DEF LockSeedSet, MayShow, Show, Holds, Lasts, Stage, Open
<1>3. CASE UnlockSeedSet(s)
  BY <1>3, StageAfter DEF IInv, UnlockSeedSet, MayShow, Show, Drops, Lasts, Stage, Open
<1>4. QED
  BY <1>1, <1>2, <1>3

LEMMA DraftEffects ==
    ASSUME IInv, NEW d \in DraftIds,
           \/ UpdateTestcaseDraft(d) \/ UpdateTestcaseDraftSelection(d) \/ UpdateTestcaseSectionSelection(d)
           \/ OpenTestcaseSetSelection(d) \/ ReturnToTestcaseReview(d) \/ CommitSelectedTestcases(d)
    PROVE  Holds \/ Commits(d)
<1>1. ASSUME NEW selected \in BOOLEAN, Reviewed(d, selected) PROVE Holds
  BY <1>1 DEF Reviewed, MayShow, Show, Holds, Lasts, Stage, Open, IInv, TypeOK, DraftSet
<1>2. CASE UpdateTestcaseDraft(d) \/ UpdateTestcaseDraftSelection(d) \/ UpdateTestcaseSectionSelection(d)
  <2>1. drafts[d].selected \in BOOLEAN
    BY DEF IInv, TypeOK, DraftSet
  <2>2. QED
    BY <1>1, <1>2, <2>1
    DEF UpdateTestcaseDraft, UpdateTestcaseDraftSelection, UpdateTestcaseSectionSelection
<1>3. CASE OpenTestcaseSetSelection(d) \/ ReturnToTestcaseReview(d)
  BY <1>3 DEF OpenTestcaseSetSelection, ReturnToTestcaseReview, MayShow, Show, Holds, Lasts, Stage, Open
<1>4. CASE CommitSelectedTestcases(d)
  <2>1. /\ Open /\ Open' /\ Stage(d) = "reviewing" /\ created' \in {created, created \cup {d}}
        /\ drafts' = [drafts EXCEPT ![d].status = "committed"] /\ seeds' = seeds
    BY <1>4 DEF CommitSelectedTestcases, Open, Stage
  <2>2. /\ Stage(d)' = "committed" /\ \A x \in DraftIds \ {d} : Stage(x)' = Stage(x)
        /\ \A x \in DraftIds : drafts'[x].seed = drafts[x].seed /\ drafts'[x].stale = drafts[x].stale
    BY <2>1 DEF Stage, IInv, TypeOK, DraftSet
  <2>3. \A x \in DraftIds : Backed(x)' <=> Backed(x)
    BY <2>1, <2>2 DEF Backed
  <2>4. QED
    BY <2>1, <2>2, <2>3 DEF Commits
<1>5. QED
  BY <1>2, <1>3, <1>4

LEMMA RequestEffects ==
    ASSUME IInv, NEW r \in Requests,
           \/ RunCouncilInspection(r) \/ ApplyCouncilInspectionResults(r)
           \/ ReadPlan(r) \/ ReuseSeedSet(r) \/ GenerateSeedSet(r)
           \/ ReadSeedsToRefine(r) \/ RefineSeedSet(r)
           \/ ReadSeeds(r) \/ ReuseDraftSet(r) \/ GenerateTestcaseDraftSet(r)
           \/ RequestFails(r)
    PROVE  Rests \/ Holds \/ Drops \/ \E d \in DraftIds : Offers(d)
<1>1. CASE \/ RunCouncilInspection(r) \/ ReadPlan(r) \/ ReadSeedsToRefine(r) \/ ReadSeeds(r)
           \/ RequestFails(r)
  BY <1>1 DEF RunCouncilInspection, ReadPlan, ReadSeedsToRefine, ReadSeeds, RequestFails, Ask, Rests
<1>2. CASE ApplyCouncilInspectionResults(r) \/ ReuseSeedSet(r) \/ ReuseDraftSet(r)
  BY <1>2 DEF ApplyCouncilInspectionResults, ReuseSeedSet, ReuseDraftSet, MayShow, Show, Holds, Lasts, Stage, Open
<1>3. CASE GenerateSeedSet(r)
  BY <1>3, StageAfter DEF IInv, GenerateSeedSet, Show, Drops, Lasts, Stage, Open
<1>4. CASE RefineSeedSet(r)
  <2>1. req[r].op = "refine" /\ Open /\ ReviewAgain(req[r].seed)
    BY <1>4 DEF RefineSeedSet, Answered
  <2>2. req[r].seed \in SeedIds
    BY <2>1 DEF IInv, SeedInv, SeedsExist
  <2>3. QED
    BY <2>1, <2>2, ReviewAgainDrops DEF IInv
<1>5. CASE GenerateTestcaseDraftSet(r)
  <2>1. PICK d \in DraftIds :
           /\ drafts[d].status = "none"
           /\ drafts' = [RetireDrafts EXCEPT ![d] = [NoDraftSet EXCEPT !.status = "reviewing", !.seed = req[r].seed]]
    BY <1>5 DEF GenerateTestcaseDraftSet
  <2>2. Lasts
    BY <1>5 DEF GenerateTestcaseDraftSet, MayShow, Show, Lasts, Open
  <2>3. /\ Stage(d) = "none" /\ Stage(d)' = "reviewing"
        /\ \A x \in DraftIds \ {d} : Stage(x)' = Dropped(x)
    BY <2>1, StageAfter, RetireDraftsFacts DEF IInv, Stage, NoDraftSet
  <2>4. QED
    BY <2>2, <2>3 DEF Offers
<1>6. QED
  BY <1>1, <1>2, <1>3, <1>4, <1>5

\* An effect is a step of the review: that what is in review has grounds is known of
\* every reachable state.
LEMMA EffectReviews ==
    ASSUME IInv, IInv',
           Rests \/ Holds \/ Drops \/ Closes \/ \E d \in DraftIds : Offers(d) \/ Commits(d)
    PROVE  Review!Next \/ UNCHANGED Review!drVars
<1> DEFINE stage == [x \in DraftIds |-> drafts[x].status]
           grounds == {x \in DraftIds : Backed(x)}
<1>1. \A x \in DraftIds : stage[x] = Stage(x) /\ stage'[x] = Stage(x)'
  BY DEF Stage
<1>2. \A x \in DraftIds : stage'[x] = "reviewing" => x \in grounds'
  BY DEF IInv, DraftInv
<1>3. CASE Rests
  <2>1. UNCHANGED <<status, drafts, seeds, created>>
    BY <1>3 DEF Rests
  <2>2. stage' = stage /\ grounds' = grounds /\ Open' = Open /\ created' = created
    BY <2>1 DEF Backed, Open
  <2>3. QED
    BY <2>2 DEF Review!drVars
<1>4. CASE Holds
  <2>1. stage' = stage
    BY <1>1, <1>4 DEF Holds
  <2>2. QED
    BY <1>2, <1>4, <2>1 DEF Holds, Lasts, Review!Next, Review!Shift
<1>5. CASE Drops
  <2>1. stage' = Review!Retired
    BY <1>1, <1>5 DEF Drops, Dropped, Stage, Review!Retired
  <2>2. QED
    BY <1>5, <2>1 DEF Drops, Lasts, Review!Next, Review!Withdraw
<1>6. ASSUME NEW d \in DraftIds, Offers(d) PROVE Review!Next
  <2>1. stage' = [Review!Retired EXCEPT ![d] = "reviewing"]
    BY <1>1, <1>6 DEF Offers, Dropped, Stage, Review!Retired
  <2>2. stage[d] \in {"none", "committed"} /\ d \in grounds' /\ Open /\ Open' /\ created' = created
    BY <1>1, <1>2, <1>6 DEF Offers, Lasts
  <2>3. QED
    BY <2>1, <2>2 DEF Review!Next, Review!Offer
<1>7. ASSUME NEW d \in DraftIds, Commits(d) PROVE Review!Next
  <2>1. stage' = [stage EXCEPT ![d] = "committed"]
    BY <1>1, <1>7 DEF Commits, Stage
  <2>2. grounds' = grounds /\ d \in grounds /\ stage[d] = "reviewing"
    BY <1>7 DEF Commits, Stage, IInv, DraftInv
  <2>3. QED
    BY <1>7, <2>1, <2>2 DEF Commits, Review!Next, Review!Commit
<1>8. CASE Closes
  <2>1. stage' = [x \in DraftIds |-> "none"] /\ grounds' = {}
    BY <1>8 DEF Closes, NoDraftSet, Backed
  <2>2. QED
    BY <1>8, <2>1 DEF Closes, Review!Next, Review!Close
<1>9. QED
  BY <1>3, <1>4, <1>5, <1>6, <1>7, <1>8

\* All the windows, and all the answers of models that come late, amount to one review
\* at a time: a set is offered only on settled seeds and withdrawn before they move, and
\* test cases come from the set in review alone (_mark_seed_review_dirty_sync,
\* generate_testcase_draft_set, reopen_session, commit_selected_testcases).
THEOREM SessionKeepsReview == Spec => KeepsReview
<1>1. Init => Review!Init
  BY DEF Init, Review!Init, NoDraftSet, Backed, Open
<1>2. IInv /\ IInv' /\ [Next]_vars => [Review!Next]_(Review!drVars)
  <2> SUFFICES ASSUME IInv, IInv', [Next]_vars PROVE Review!Next \/ UNCHANGED Review!drVars
    OBVIOUS
  <2>1. Rests \/ Holds \/ Drops \/ Closes \/ \E d \in DraftIds : Offers(d) \/ Commits(d)
    <3>1. CASE UNCHANGED vars
      BY <3>1 DEF vars, Rests
    <3>2. CASE \E s \in SeedIds : \/ UpdateSeedItemReview(s) \/ UpdateSeedSectionInclusion(s)
                                  \/ LockSeedSet(s) \/ UnlockSeedSet(s)
      BY <3>2, SeedEffects
    <3>3. CASE \E d \in DraftIds :
                  \/ UpdateTestcaseDraft(d) \/ UpdateTestcaseDraftSelection(d) \/ UpdateTestcaseSectionSelection(d)
                  \/ OpenTestcaseSetSelection(d) \/ ReturnToTestcaseReview(d) \/ CommitSelectedTestcases(d)
      BY <3>3, DraftEffects
    <3>4. CASE \E r \in Requests :
                  \/ RunCouncilInspection(r) \/ ApplyCouncilInspectionResults(r)
                  \/ ReadPlan(r) \/ ReuseSeedSet(r) \/ GenerateSeedSet(r)
                  \/ ReadSeedsToRefine(r) \/ RefineSeedSet(r)
                  \/ ReadSeeds(r) \/ ReuseDraftSet(r) \/ GenerateTestcaseDraftSet(r)
                  \/ RequestFails(r)
      BY <3>4, RequestEffects
    <3>5. QED
      BY <3>1, <3>2, <3>3, <3>4, SessionEffects, Zenon DEF Next
  <2>2. QED
    BY <2>1, EffectReviews
<1>3. QED
  BY <1>1, <1>2, Invariant, PTL DEF Spec, KeepsReview, Review!Spec
=============================================================================
