--------------------------- MODULE ConfirmedWrite ---------------------------
(***************************************************************************)
(* What the assistant promises about its write tool calls: nothing is sent *)
(* before the user confirmed it, it is sent at most once, and the outcome  *)
(* that is reported never contradicts what the write did.                  *)
(***************************************************************************)
EXTENDS Naturals

CONSTANT Writes

VARIABLES
    stage,   \* where the tool call stands for the user
    fate,    \* what became of the request
    sends    \* how often it was sent

cwVars == <<stage, fate, sends>>

\* "discarded" and "forgotten" are the two ends of a deleted conversation: the
\* second when the write had been confirmed and its outcome was still open.
Stages == {"none", "pending", "executing", "confirmed", "failed", "unknown",
           "expired", "cancelled", "discarded", "forgotten"}
Fates == {"idle", "inflight", "applied", "refused"}

\* A call is followed from before it is proposed, or from its open card on.
Init ==
    /\ stage \in [Writes -> {"none", "pending"}]
    /\ fate = [w \in Writes |-> "idle"]
    /\ sends = [w \in Writes |-> 0]

\* How the stage of a call may move: proposed, then dropped or confirmed by the
\* user, then resolved in agreement with its fate, or deleted.
Moves(w) ==
    \/ stage[w] = "none" /\ stage'[w] = "pending"
    \/ stage[w] = "pending" /\ stage'[w] \in {"expired", "cancelled", "executing"}
    \/ stage[w] = "executing" /\ stage'[w] = "confirmed" /\ fate[w] = "applied"
    \/ stage[w] = "executing" /\ stage'[w] = "failed" /\ fate[w] \in {"idle", "refused"}
    \/ stage[w] = "executing" /\ stage'[w] = "unknown"
    \/ stage[w] \in {"executing", "unknown"} /\ stage'[w] = "forgotten"
    \/ stage[w] \in {"pending", "confirmed", "failed", "expired", "cancelled"}
       /\ stage'[w] = "discarded"

\* The sender may be slow: the outcome may have been given up as unknown, or the
\* conversation may be gone, by the time the request leaves.
Leaves(w) ==
    /\ stage[w] \in {"executing", "unknown", "forgotten"}
    /\ sends[w] = 0 /\ sends'[w] = 1
    /\ fate'[w] = "inflight"

Lands(w) ==
    /\ fate[w] = "inflight"
    /\ fate'[w] \in {"applied", "refused"}
    /\ sends'[w] = sends[w]

Stays(w) == fate'[w] = fate[w] /\ sends'[w] = sends[w]

\* One step may move several calls, each in its own way: a new message drops
\* every open card of the conversation.
Step(w) ==
    \/ Stays(w) /\ (Moves(w) \/ stage'[w] = stage[w])
    \/ stage'[w] = stage[w] /\ (Leaves(w) \/ Lands(w))

Next ==
    /\ stage' \in [Writes -> Stages]
    /\ fate' \in [Writes -> Fates]
    /\ sends' \in [Writes -> Nat]
    /\ \A w \in Writes : Step(w)

Spec == Init /\ [][Next]_cwVars

----------------------------------------------------------------------------
(* What follows from the promise. *)

\* Nothing is sent that the user has not confirmed, and nothing twice.
SentOnceIfConfirmed ==
    \A w \in Writes :
        /\ sends[w] <= 1
        /\ stage[w] \in {"none", "pending", "expired", "cancelled"} => sends[w] = 0

\* A write reported as done was applied; one reported as failed never was.
ReportsTruth ==
    \A w \in Writes :
        /\ stage[w] = "confirmed" => fate[w] = "applied"
        /\ stage[w] = "failed" => fate[w] \in {"idle", "refused"}
=============================================================================
