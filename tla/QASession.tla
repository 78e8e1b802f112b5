------------------------------ MODULE QASession ------------------------------
(***************************************************************************)
(* One session of the QA AI helper: a ticket, the requirement plan drawn    *)
(* from it, the seeds the model makes of the locked plan, the test case     *)
(* drafts it makes of the locked seeds, and the commit that turns selected  *)
(* drafts into test cases.                                                  *)
(*                                                                         *)
(* Every operation is one transaction (_run_write), except the four that    *)
(* ask a language model: they read, wait for the model without holding      *)
(* anything, and write what came back to a session that other windows may   *)
(* have moved on in the meantime. An operation that raises changes nothing; *)
(* it is a step that is not enabled.                                        *)
(***************************************************************************)
CONSTANTS
    Requests,   \* requests to the language model that may be under way at once
    SeedIds,    \* bound of the model on the seed sets of the session
    DraftIds,   \* bound of the model on its testcase draft sets
    None

ASSUME SessionAssumption == None \notin SeedIds /\ None \notin DraftIds

VARIABLES
    status,       \* QAAIHelperSession.status, "deleted" when the row is gone
    screen,       \* current_screen
    plan,         \* status of the requirement plan, "none" before there is one
    seeds,        \* QAAIHelperSeedSet rows
    drafts,       \* QAAIHelperTestcaseDraftSet rows, each with one draft that stands for all
    activeSeed, activeDraft,  \* active_seed_set_id, active_testcase_draft_set_id
    created,      \* draft sets whose commit has created the test case (one number for all)
    req           \* requests between their read and their write

sessionVars == <<status, screen>>
rows == <<plan, seeds, drafts, activeSeed, activeDraft, created>>
vars == <<sessionVars, rows, req>>

----------------------------------------------------------------------------
Screens == {"ticket_confirmation", "verification_planning", "seed_review", "testcase_review",
            "set_selection", "commit_result"}
Ops == {"idle", "seed", "reuseSeed", "refine", "testcase", "reuseDraft", "inspect"}
\* linked: the items still point to sections of the plan. revived: the set had been
\* superseded. stale (of a draft set): its seeds have changed since it was stored.
SeedSet == [status : {"none", "draft", "locked", "superseded"}, linked : BOOLEAN, revived : BOOLEAN]
DraftSet == [status : {"none", "reviewing", "superseded", "committed"}, seed : SeedIds \cup {None},
             selected : BOOLEAN, stale : BOOLEAN]
Request == [op : Ops, seed : SeedIds \cup {None}]

NoSeedSet == [status |-> "none", linked |-> FALSE, revived |-> FALSE]
NoDraftSet == [status |-> "none", seed |-> None, selected |-> FALSE, stale |-> FALSE]
Idle == [op |-> "idle", seed |-> None]

TypeOK ==
    /\ status \in {"active", "completed", "deleted"} /\ screen \in Screens
    /\ plan \in {"none", "draft", "locked"}
    /\ seeds \in [SeedIds -> SeedSet] /\ drafts \in [DraftIds -> DraftSet]
    /\ activeSeed \in SeedIds \cup {None} /\ activeDraft \in DraftIds \cup {None}
    /\ created \subseteq DraftIds
    /\ req \in [Requests -> Request]

\* start_session leaves the ticket on screen 2; start_no_ticket_session opens
\* screen 3 with a plan of one empty section.
Init ==
    /\ status = "active"
    /\ \/ screen = "ticket_confirmation" /\ plan = "none"
       \/ screen = "verification_planning" /\ plan = "draft"
    /\ seeds = [s \in SeedIds |-> NoSeedSet] /\ drafts = [d \in DraftIds |-> NoDraftSet]
    /\ activeSeed = None /\ activeDraft = None /\ created = {}
    /\ req = [r \in Requests |-> Idle]

----------------------------------------------------------------------------
(* What the operations share. *)

Open == status # "deleted"

\* _SESSION_SCREEN_TRANSITIONS, without the two screens no operation enters.
Transitions(from) ==
    CASE from = "ticket_confirmation" -> {"verification_planning"}
      [] from = "verification_planning" -> {"seed_review"}
      [] from = "seed_review" -> {"testcase_review", "verification_planning"}
      [] from = "testcase_review" -> {"set_selection", "verification_planning", "seed_review"}
      [] from = "set_selection" -> {"commit_result", "testcase_review"}
      [] from = "commit_result" -> {"verification_planning", "seed_review", "testcase_review"}

\* _set_session_screen: without force it raises on a transition not in the table.
Show(next) == screen' = next /\ UNCHANGED status
MayShow(next) == (screen = next \/ next \in Transitions(screen)) /\ Show(next)

LiveSeed(s) == seeds[s].status \in {"draft", "locked"}

\* _mark_active_seed_sets_superseded_sync and _mark_active_testcase_draft_sets_superseded_sync.
RetireSeeds ==
    [s \in SeedIds |-> IF LiveSeed(s) THEN [seeds[s] EXCEPT !.status = "superseded", !.revived = FALSE]
                                      ELSE seeds[s]]
RetireDrafts ==
    [d \in DraftIds |-> IF drafts[d].status = "reviewing" THEN [drafts[d] EXCEPT !.status = "superseded"]
                                                          ELSE drafts[d]]
\* What the drafts of s say is older than s from now on.
Aged(sets, s) == [d \in DraftIds |-> [sets[d] EXCEPT !.stale = @ \/ sets[d].seed = s]]

\* _replace_requirement_plan_sections_sync: the old sections are deleted, and the
\* seeds lose theirs (ON DELETE SET NULL).
Unlink(sets) == [s \in SeedIds |-> [sets[s] EXCEPT !.linked = FALSE]]

Ask(r, op, s) ==
    /\ req[r] = Idle
    /\ req' = [req EXCEPT ![r] = [op |-> op, seed |-> s]]
    /\ UNCHANGED <<sessionVars, rows>>
Answered(r, op) == req[r].op = op /\ req' = [req EXCEPT ![r] = Idle]

----------------------------------------------------------------------------
(* Ticket and requirement plan: screens 2 and 3. *)

InitializeRequirementPlan ==
    /\ Open
    /\ plan' = IF plan = "none" THEN "draft" ELSE plan
    /\ Show("verification_planning")
    /\ UNCHANGED <<seeds, drafts, activeSeed, activeDraft, created, req>>

SaveRequirementPlan ==
    /\ Open /\ plan # "locked"
    /\ plan' = "draft"
    /\ seeds' = Unlink(RetireSeeds) /\ activeSeed' = None
    /\ drafts' = RetireDrafts /\ activeDraft' = None
    /\ Show("verification_planning")
    /\ UNCHANGED <<created, req>>

LockRequirementPlan ==
    /\ Open /\ plan # "none"
    /\ plan' = "locked"
    /\ MayShow("verification_planning")
    /\ UNCHANGED <<seeds, drafts, activeSeed, activeDraft, created, req>>

UnlockRequirementPlan ==
    /\ Open /\ plan # "none"
    /\ plan' = "draft"
    /\ seeds' = RetireSeeds /\ activeSeed' = None
    /\ drafts' = RetireDrafts /\ activeDraft' = None
    /\ MayShow("verification_planning")
    /\ UNCHANGED <<created, req>>

\* run_council_inspection reads the ticket and asks several models ...
RunCouncilInspection(r) == Open /\ Ask(r, "inspect", None)

\* ... and apply_council_inspection_results replaces the sections of the plan,
\* whatever its status, and leaves seeds and drafts as they are.
ApplyCouncilInspectionResults(r) ==
    /\ Open /\ Answered(r, "inspect")
    /\ plan' = IF plan = "none" THEN "draft" ELSE plan
    /\ seeds' = Unlink(seeds)
    /\ UNCHANGED <<sessionVars, drafts, activeSeed, activeDraft, created>>

----------------------------------------------------------------------------
(* Seeds: screen 4. *)

\* generate_seed_set reads the workspace: it reuses the seed set there is, or
\* asks the model; force_regenerate asks in any case.
ReadPlan(r) ==
    /\ Open /\ plan = "locked"
    /\ \/ activeSeed # None /\ Ask(r, "reuseSeed", None)
       \/ Ask(r, "seed", None)

ReuseSeedSet(r) ==
    /\ Open /\ Answered(r, "reuseSeed")
    /\ MayShow("seed_review")
    /\ UNCHANGED rows

\* Mutant of GenerateSeedSet: it trusts the lock it read before asking.
GenerateSeedSetUnchecked(r) ==
    /\ Open /\ Answered(r, "seed")
    /\ \E s \in SeedIds :
         /\ seeds[s].status = "none"
         /\ seeds' = [RetireSeeds EXCEPT ![s] = [status |-> "draft", linked |-> TRUE, revived |-> FALSE]]
         /\ activeSeed' = s
    /\ drafts' = RetireDrafts /\ activeDraft' = None
    /\ Show("seed_review")
    /\ UNCHANGED <<plan, created>>

\* The new items name the sections that were read. When those were replaced the
\* foreign keys fail (RequestFails), unless the database has given their ids to the
\* new ones, as SQLite may.
GenerateSeedSet(r) ==
    /\ Open /\ plan = "locked" /\ Answered(r, "seed")
    /\ \E s \in SeedIds :
         /\ seeds[s].status = "none"
         /\ seeds' = [RetireSeeds EXCEPT ![s] = [status |-> "draft", linked |-> TRUE, revived |-> FALSE]]
         /\ activeSeed' = s
    /\ drafts' = RetireDrafts /\ activeDraft' = None
    /\ Show("seed_review")
    /\ UNCHANGED <<plan, created>>

Again(set) == [set EXCEPT !.status = "draft", !.revived = (set.status = "superseded" \/ set.revived)]

\* _mark_seed_review_dirty_sync, after the items of s have been changed.
ReviewAgain(s) ==
    /\ seeds' = [seeds EXCEPT ![s] = Again(@)]
    /\ drafts' = Aged(RetireDrafts, s) /\ activeDraft' = None
    /\ activeSeed' = s
    /\ Show("seed_review")
    /\ UNCHANGED <<plan, created>>

\* A comment, test data, or whether the seed is to be used.
UpdateSeedItemReview(s) ==
    /\ Open /\ LiveSeed(s)
    /\ ReviewAgain(s)
    /\ UNCHANGED req

\* By section: the status of the set is not looked at, but items without a
\* section are not found.
UpdateSeedSectionInclusion(s) ==
    /\ Open /\ seeds[s].status # "none" /\ seeds[s].linked
    /\ ReviewAgain(s)
    /\ UNCHANGED req

\* refine_seed_set reads the active seed set and asks the model ...
ReadSeedsToRefine(r) == Open /\ activeSeed # None /\ Ask(r, "refine", activeSeed)

\* ... and writes the answer to it whatever has become of it.
RefineSeedSet(r) ==
    /\ Open /\ Answered(r, "refine")
    /\ ReviewAgain(req[r].seed)

LockSeedSet(s) ==
    /\ Open /\ LiveSeed(s)
    /\ seeds' = [seeds EXCEPT ![s].status = "locked"] /\ activeSeed' = s
    /\ MayShow("seed_review")
    /\ UNCHANGED <<plan, drafts, activeDraft, created, req>>

\* Mutant of UnlockSeedSet: the drafts stay in review.
UnlockSeedSetKeeping(s) ==
    /\ Open /\ LiveSeed(s)
    /\ seeds' = [seeds EXCEPT ![s].status = "draft"] /\ activeSeed' = s
    /\ MayShow("seed_review")
    /\ UNCHANGED <<plan, drafts, activeDraft, created, req>>

UnlockSeedSet(s) ==
    /\ Open /\ LiveSeed(s)
    /\ seeds' = [seeds EXCEPT ![s].status = "draft"] /\ activeSeed' = s
    /\ drafts' = RetireDrafts /\ activeDraft' = None
    /\ MayShow("seed_review")
    /\ UNCHANGED <<plan, created, req>>

----------------------------------------------------------------------------
(* Testcase drafts and commit: screens 5 to 7. *)

\* generate_testcase_draft_set reads the workspace; the drafts there are may do.
ReadSeeds(r) ==
    /\ Open /\ activeSeed # None
    /\ seeds[activeSeed].status = "locked"
    /\ \/ /\ activeDraft # None
          /\ drafts[activeDraft].seed = activeSeed /\ drafts[activeDraft].status = "reviewing"
          /\ Ask(r, "reuseDraft", None)
       \/ Ask(r, "testcase", activeSeed)

ReuseDraftSet(r) ==
    /\ Open /\ Answered(r, "reuseDraft")
    /\ MayShow("testcase_review")
    /\ UNCHANGED rows

\* Mutant of GenerateTestcaseDraftSet: the status is left at the column's default.
GenerateTestcaseDraftSetDefault(r) ==
    /\ Open /\ Answered(r, "testcase") /\ seeds[req[r].seed].status = "locked"
    /\ \E d \in DraftIds :
         /\ drafts[d].status = "none"
         /\ drafts' = [RetireDrafts EXCEPT ![d] = [NoDraftSet EXCEPT !.status = "draft", !.seed = req[r].seed]]
         /\ activeDraft' = d
    /\ MayShow("testcase_review")
    /\ UNCHANGED <<plan, seeds, activeSeed, created>>

\* Mutant of GenerateTestcaseDraftSet: the drafts there were stay.
GenerateTestcaseDraftSetBeside(r) ==
    /\ Open /\ Answered(r, "testcase") /\ seeds[req[r].seed].status = "locked"
    /\ \E d \in DraftIds :
         /\ drafts[d].status = "none"
         /\ drafts' = [drafts EXCEPT ![d] = [NoDraftSet EXCEPT !.status = "reviewing", !.seed = req[r].seed]]
         /\ activeDraft' = d
    /\ MayShow("testcase_review")
    /\ UNCHANGED <<plan, seeds, activeSeed, created>>

GenerateTestcaseDraftSet(r) ==
    /\ Open /\ Answered(r, "testcase") /\ seeds[req[r].seed].status = "locked"
    /\ \E d \in DraftIds :
         /\ drafts[d].status = "none"
         /\ drafts' = [RetireDrafts EXCEPT ![d] = [NoDraftSet EXCEPT !.status = "reviewing", !.seed = req[r].seed]]
         /\ activeDraft' = d
    /\ MayShow("testcase_review")
    /\ UNCHANGED <<plan, seeds, activeSeed, created>>

\* The end of the operations that edit or select drafts of d.
Reviewed(d, selected) ==
    /\ Open /\ drafts[d].status = "reviewing"
    /\ drafts' = [drafts EXCEPT ![d].selected = selected] /\ activeDraft' = d
    /\ MayShow("testcase_review")
    /\ UNCHANGED <<plan, seeds, activeSeed, created, req>>

\* An edit that makes the draft invalid takes it out of the selection.
UpdateTestcaseDraft(d) == \E valid \in BOOLEAN : Reviewed(d, drafts[d].selected /\ valid)

UpdateTestcaseDraftSelection(d) == \E selected \in BOOLEAN : Reviewed(d, selected)

UpdateTestcaseSectionSelection(d) ==
    \E selected \in BOOLEAN :
        /\ selected = drafts[d].selected \/ (drafts[d].seed # None /\ seeds[drafts[d].seed].linked)
        /\ Reviewed(d, selected)

\* Mutant of OpenTestcaseSetSelection: it opens with nothing selected.
OpenTestcaseSetSelectionEmpty(d) ==
    /\ Open /\ drafts[d].status = "reviewing"
    /\ activeDraft' = d
    /\ MayShow("set_selection")
    /\ UNCHANGED <<plan, seeds, drafts, activeSeed, created, req>>

OpenTestcaseSetSelection(d) ==
    /\ Open /\ drafts[d].status = "reviewing" /\ drafts[d].selected
    /\ activeDraft' = d
    /\ MayShow("set_selection")
    /\ UNCHANGED <<plan, seeds, drafts, activeSeed, created, req>>

ReturnToTestcaseReview(d) ==
    /\ Open /\ drafts[d].status = "reviewing"
    /\ activeDraft' = d
    /\ Show("testcase_review")
    /\ UNCHANGED <<plan, seeds, drafts, activeSeed, created, req>>

\* Mutant of CommitSelectedTestcases: it commits what a window that is behind names.
CommitAnyTestcases(d) ==
    /\ Open /\ drafts[d].status \in {"reviewing", "superseded"}
    /\ \/ created' = created
       \/ drafts[d].selected /\ created' = created \cup {d}
    /\ drafts' = [drafts EXCEPT ![d].status = "committed"] /\ activeDraft' = d
    /\ status' = "completed" /\ screen' = "commit_result"
    /\ UNCHANGED <<plan, seeds, activeSeed, req>>

\* A draft that was not asked for, is not selected or has no number is skipped, and
\* one whose number exists fails; the session is completed all the same.
CommitSelectedTestcases(d) ==
    /\ Open /\ drafts[d].status = "reviewing"
    /\ \/ created' = created
       \/ drafts[d].selected /\ created' = created \cup {d}
    /\ drafts' = [drafts EXCEPT ![d].status = "committed"] /\ activeDraft' = d
    /\ status' = "completed" /\ screen' = "commit_result"
    /\ UNCHANGED <<plan, seeds, activeSeed, req>>

\* Mutant of ReopenSession: the result stays on the screen.
ReopenSessionThere ==
    /\ status = "completed" /\ screen = "commit_result"
    /\ status' = "active"
    /\ drafts' = [d \in DraftIds |-> IF d = activeDraft /\ drafts[d].status = "committed"
                                       THEN [drafts[d] EXCEPT !.status = "reviewing"] ELSE drafts[d]]
    /\ UNCHANGED <<screen, plan, seeds, activeSeed, activeDraft, created, req>>

ReopenSession ==
    /\ status = "completed" /\ screen = "commit_result"
    /\ screen' \in {"verification_planning", "seed_review", "testcase_review"}
    /\ status' = "active"
    /\ drafts' = [d \in DraftIds |-> IF d = activeDraft /\ drafts[d].status = "committed"
                                       THEN [drafts[d] EXCEPT !.status = "reviewing"] ELSE drafts[d]]
    /\ UNCHANGED <<plan, seeds, activeSeed, activeDraft, created, req>>

----------------------------------------------------------------------------
(* The end of a session, and of a request. *)

\* Every row of the session goes with it (ON DELETE CASCADE); test cases stay.
DeleteSession ==
    /\ Open
    /\ status' = "deleted" /\ screen' = "ticket_confirmation"
    /\ plan' = "none"
    /\ seeds' = [s \in SeedIds |-> NoSeedSet] /\ drafts' = [d \in DraftIds |-> NoDraftSet]
    /\ activeSeed' = None /\ activeDraft' = None
    /\ UNCHANGED <<created, req>>

\* restart_session deletes it too, unless it is completed.
RestartSession ==
    /\ status # "completed" /\ screen # "commit_result"
    /\ DeleteSession

\* The model fails, the window goes away, or a write is refused and rolled back.
RequestFails(r) ==
    /\ req[r] # Idle /\ req' = [req EXCEPT ![r] = Idle]
    /\ UNCHANGED <<sessionVars, rows>>

Next ==
    \/ InitializeRequirementPlan \/ SaveRequirementPlan
    \/ LockRequirementPlan \/ UnlockRequirementPlan
    \/ ReopenSession \/ DeleteSession \/ RestartSession
    \/ \E s \in SeedIds :
         \/ UpdateSeedItemReview(s) \/ UpdateSeedSectionInclusion(s)
         \/ LockSeedSet(s) \/ UnlockSeedSet(s)
    \/ \E d \in DraftIds :
         \/ UpdateTestcaseDraft(d) \/ UpdateTestcaseDraftSelection(d) \/ UpdateTestcaseSectionSelection(d)
         \/ OpenTestcaseSetSelection(d) \/ ReturnToTestcaseReview(d) \/ CommitSelectedTestcases(d)
    \/ \E r \in Requests :
         \/ RunCouncilInspection(r) \/ ApplyCouncilInspectionResults(r)
         \/ ReadPlan(r) \/ ReuseSeedSet(r) \/ GenerateSeedSet(r)
         \/ ReadSeedsToRefine(r) \/ RefineSeedSet(r)
         \/ ReadSeeds(r) \/ ReuseDraftSet(r) \/ GenerateTestcaseDraftSet(r)
         \/ RequestFails(r)

Spec == Init /\ [][Next]_vars

----------------------------------------------------------------------------
(* Properties. *)

\* The seeds of d are locked and say what they said when d was stored.
Backed(d) ==
    /\ drafts[d].seed \in SeedIds /\ seeds[drafts[d].seed].status = "locked"
    /\ ~drafts[d].stale

\* At most one draft set can still be committed, and it is the one the session
\* shows, through regeneration, late answers, reopening and windows that name an
\* older set (generate_testcase_draft_set, reopen_session, the screen-5 handlers).
LiveDraftSetShown == \A d \in DraftIds : drafts[d].status = "reviewing" => activeDraft = d

\* Drafts that can be committed come from seeds that are locked now and have not
\* changed since: every operation that unlocks, edits, regenerates or retires seeds
\* retires the drafts, and a late answer of the model for other seeds does not
\* bring them back.
DraftsOfLockedSeeds ==
    \A d \in DraftIds : drafts[d].status = "reviewing" => Backed(d)

\* Screen 6 is only shown while something selected can be committed, although the
\* drafts may be retired from any other window.
SelectionBehindScreen ==
    screen = "set_selection" =>
        \E d \in DraftIds : drafts[d].status = "reviewing" /\ drafts[d].selected

\* On the result screen nothing is left to commit: what is reopened there is the
\* committed set alone.
ResultIsSettled ==
    screen = "commit_result" =>
        /\ activeDraft # None /\ drafts[activeDraft].status = "committed"
        /\ \A d \in DraftIds : drafts[d].status # "reviewing"

\* Seeds can be used while the plan is unlocked only if a superseded seed set was
\* written to: a generation that was overtaken by an unlock stores nothing.
SeedsNeedLockedPlan ==
    \A s \in SeedIds : LiveSeed(s) /\ ~seeds[s].revived => plan = "locked"

\* A superseded draft set is out for good: no edit, selection, commit or reopening
\* from a window that still shows it.
RetiredDraftsStay ==
    [][\A d \in DraftIds : drafts[d].status = "superseded" => drafts'[d].status \in {"superseded", "none"}]_vars

\* A test case is created only from seeds that are locked and that say what they
\* said when the draft was stored.
CasesFromLockedSeeds == [][\A d \in created' \ created : Backed(d)]_vars

Review == INSTANCE DraftReview WITH
    Sets <- DraftIds,
    stage <- [d \in DraftIds |-> drafts[d].status],
    grounds <- {d \in DraftIds : Backed(d)},
    cases <- created,
    open <- Open

\* All the windows, and all the answers of models that come late, amount to one review
\* at a time: a set is offered only on settled seeds and withdrawn before they move, and
\* test cases come from the set in review alone.
KeepsReview == Review!Spec

=============================================================================
