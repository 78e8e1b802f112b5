----------------------------- MODULE DraftReview -----------------------------
(***************************************************************************)
(* What the user of the QA helper is promised about test case drafts: one  *)
(* set at a time is up for review, only while it has grounds, and only     *)
(* from there does it become test cases.                                   *)
(***************************************************************************)
CONSTANT Sets

VARIABLES
    stage,    \* of each set of drafts
    grounds,  \* the sets whose seeds are settled and say what they said then
    cases,    \* the sets of which test cases were made
    open      \* the session exists

drVars == <<stage, grounds, cases, open>>

Retired == [d \in Sets |-> IF stage[d] = "reviewing" THEN "superseded" ELSE stage[d]]

Init ==
    /\ stage = [d \in Sets |-> "none"]
    /\ grounds = {} /\ cases = {} /\ open = TRUE

\* A new set, or the committed one again; what was in review is out for good.
Offer ==
    /\ open
    /\ \E d \in Sets :
         /\ stage[d] \in {"none", "committed"}
         /\ stage' = [Retired EXCEPT ![d] = "reviewing"]
         /\ d \in grounds'
    /\ UNCHANGED <<cases, open>>

\* The grounds may go as long as the review ends with them.
Withdraw == open /\ stage' = Retired /\ UNCHANGED <<cases, open>>

\* They may change for other sets.
Shift ==
    /\ open
    /\ \A d \in Sets : stage[d] = "reviewing" => d \in grounds'
    /\ UNCHANGED <<stage, cases, open>>

\* The set in review is committed, with or without a test case.
Commit ==
    /\ open
    /\ \E d \in grounds :
         /\ stage[d] = "reviewing" /\ stage' = [stage EXCEPT ![d] = "committed"]
         /\ cases' \in {cases, cases \cup {d}}
    /\ UNCHANGED <<grounds, open>>

\* The session is deleted; the test cases stay.
Close ==
    /\ open /\ open' = FALSE
    /\ stage' = [d \in Sets |-> "none"] /\ grounds' = {}
    /\ UNCHANGED cases

Next == Offer \/ Withdraw \/ Shift \/ Commit \/ Close

Spec == Init /\ [][Next]_drVars
=============================================================================
