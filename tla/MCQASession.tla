----------------------------- MODULE MCQASession -----------------------------
(* Requests, seed sets and draft sets are interchangeable. *)
EXTENDS QASession, TLC

Symmetry == Permutations(Requests) \cup Permutations(SeedIds) \cup Permutations(DraftIds)

\* No operation reads the contents of a superseded draft set, and DraftReview asks for
\* the grounds of a set in review only.
View ==
    LET shown == [d \in DraftIds |-> IF drafts[d].status = "superseded"
                                        THEN [NoDraftSet EXCEPT !.status = "superseded"] ELSE drafts[d]]
    IN  <<sessionVars, plan, seeds, shown, activeSeed, activeDraft, created, req>>
=============================================================================
