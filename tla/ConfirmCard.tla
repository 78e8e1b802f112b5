----------------------------- MODULE ConfirmCard -----------------------------
(***************************************************************************)
(* One confirmation card, the browser windows that show it and the confirm  *)
(* requests they send while the target of the write changes under them.     *)
(* AssistantTurns takes the claim of a card as one step; here the handler   *)
(* is followed through its reads, its lookups and its three transactions,   *)
(* each an action, up to the runner that sends the write.                   *)
(*                                                                         *)
(* A fingerprint is the version of the target it was computed from: it      *)
(* covers the identity of the target and its updated_at.                    *)
(***************************************************************************)
EXTENDS Naturals, Sequences, FiniteSets

CONSTANTS
    Tabs,         \* windows that show the card; each has one request under way at most
    None,
    SlotLimit,    \* max_active_turns_per_worker
    MaxVersion,   \* bound of the model on changes of the target
    MaxClicks     \* bound of the model on the clicks of each window

ASSUME CardAssumption ==
    /\ IsFiniteSet(Tabs) /\ None \notin Tabs /\ None \notin Nat
    /\ {SlotLimit, MaxVersion, MaxClicks} \subseteq Nat \ {0}

VARIABLES
    target,      \* version of what the write would change
    reachable,   \* it exists, in its team, and the user may write it
    card,        \* the AssistantPendingAction row: status, fp and due (expires_at is over)
    lease,       \* of the conversation
    locker,      \* the window whose claim transaction holds the lease row
    slots,       \* ProcessSlotLimiter._count
    runs,        \* continuation turns and their runners, in the order they were claimed
    pc, fp, new, \* of each request: where it is, the fingerprint it read, the one it computed
    shown,       \* of each window: the version the card on its screen describes
    stale,       \*                 whether its last answer was CONFIRMATION_STALE
    clicks

requestVars == <<pc, fp, new, stale>>
tabVars == <<requestVars, shown, clicks>>
vars == <<target, reachable, card, lease, locker, slots, runs, tabVars>>

----------------------------------------------------------------------------
Versions == 1..MaxVersion
Claimed == {"executing", "confirmed", "failed", "unknown"}
SlotKept == {"claim", "open", "race", "refused", "outdated", "changed"}
Steps == SlotKept \cup {"idle", "sent", "find", "findOver", "check", "expiring", "updating",
                        "reserve", "lookup", "refetch", "streaming", "over"}
Run == [by : Tabs, asked : Versions, fp : Versions, checked : Versions \cup {None},
        pc : {"renew", "recheck", "dispatch", "sending", "finalize", "off", "gone"},
        fate : {"idle", "inflight", "applied", "refused"},
        outcome : {"confirmed", "failed", "unknown"}]
Sent(run) == run.fate # "idle"

TypeOK ==
    /\ target \in Versions /\ reachable \in BOOLEAN
    /\ card \in [status : Claimed \cup {"pending", "cancelled", "expired"}, fp : Versions, due : BOOLEAN]
    /\ lease \in {"free", "continuation", "other"}
    /\ locker \in Tabs \cup {None}
    /\ \A t \in Tabs : pc[t] = "open" <=> locker = t
    /\ slots \in 0..SlotLimit
    /\ runs \in Seq(Run)
    /\ pc \in [Tabs -> Steps] /\ fp \in [Tabs -> Versions] /\ new \in [Tabs -> Versions]
    /\ shown \in [Tabs -> Versions] /\ stale \in [Tabs -> BOOLEAN]
    /\ clicks \in [Tabs -> 0..MaxClicks]

\* The card as create_pending_action_and_complete_turn left it, on every screen.
Init ==
    /\ target = 1 /\ reachable = TRUE
    /\ card = [status |-> "pending", fp |-> 1, due |-> FALSE]
    /\ lease = "free" /\ locker = None /\ slots = 0 /\ runs = <<>>
    /\ pc = [t \in Tabs |-> "idle"]
    /\ fp = [t \in Tabs |-> 1] /\ new = [t \in Tabs |-> 1] /\ shown = [t \in Tabs |-> 1]
    /\ stale = [t \in Tabs |-> FALSE] /\ clicks = [t \in Tabs |-> 0]

Go(t, step) == pc' = [pc EXCEPT ![t] = step]

----------------------------------------------------------------------------
(* confirm_action_endpoint. *)

\* handleConfirmAction disables the buttons of its card and posts the request,
\* which names the action and says nothing of what was shown.
Click(t) ==
    /\ pc[t] = "idle" /\ clicks[t] < MaxClicks
    /\ clicks' = [clicks EXCEPT ![t] = @ + 1]
    /\ stale' = [stale EXCEPT ![t] = FALSE]
    /\ Go(t, "sent")
    /\ UNCHANGED <<target, reachable, card, lease, locker, slots, runs, fp, new, shown>>

\* get_pending_action_owned.
ReadCard(t) ==
    /\ pc[t] = "sent"
    /\ fp' = [fp EXCEPT ![t] = card.fp]
    /\ Go(t, IF card.status = "pending" THEN "find" ELSE "findOver")
    /\ UNCHANGED <<target, reachable, card, lease, locker, slots, runs, new, stale, shown, clicks>>

\* find_continuation_turn: a card that was claimed is replayed, one that was
\* withdrawn is refused.
FindContinuation(t) ==
    /\ pc[t] \in {"find", "findOver"}
    /\ Go(t, IF runs # <<>> THEN "streaming" ELSE IF pc[t] = "find" THEN "check" ELSE "refetch")
    /\ UNCHANGED <<target, reachable, card, lease, locker, slots, runs, fp, new, stale, shown, clicks>>

\* The payload may no longer be readable or fit the schema, the team, the permission or
\* the target may be gone; any of the lookups may be unavailable (503).
Revalidate(t) ==
    /\ pc[t] = "check"
    /\ \/ Go(t, "refetch") /\ UNCHANGED new
       \/ Go(t, "expiring") /\ UNCHANGED new
       \/ /\ reachable
          /\ new' = [new EXCEPT ![t] = target]
          /\ Go(t, IF target # fp[t] THEN "updating" ELSE "reserve")
    /\ UNCHANGED <<target, reachable, card, lease, locker, slots, runs, fp, stale, shown, clicks>>

\* expire_pending_now.
ExpireNow(t) ==
    /\ pc[t] = "expiring"
    /\ card' = IF card.status = "pending" THEN [card EXCEPT !.status = "expired"] ELSE card
    /\ Go(t, "refetch")
    /\ UNCHANGED <<target, reachable, lease, locker, slots, runs, fp, new, stale, shown, clicks>>

\* Mutant of UpdateSummary: whoever comes last writes the card.
UpdateBlindly(t) ==
    /\ pc[t] = "updating"
    /\ card' = IF card.status = "pending" THEN [card EXCEPT !.fp = new[t]] ELSE card
    /\ stale' = [stale EXCEPT ![t] = TRUE]
    /\ Go(t, "refetch")
    /\ UNCHANGED <<target, reachable, lease, locker, slots, runs, fp, new, shown, clicks>>

\* update_pending_summary_cas, then 409 CONFIRMATION_STALE.
UpdateSummary(t) ==
    /\ pc[t] = "updating"
    /\ card' = IF card.status = "pending" /\ card.fp = fp[t] THEN [card EXCEPT !.fp = new[t]] ELSE card
    /\ stale' = [stale EXCEPT ![t] = TRUE]
    /\ Go(t, "refetch")
    /\ UNCHANGED <<target, reachable, lease, locker, slots, runs, fp, new, shown, clicks>>

\* Mutant of Reserve: the limit is not looked at.
ReserveAnyhow(t) ==
    /\ pc[t] = "reserve"
    /\ slots' = slots + 1 /\ Go(t, "claim")
    /\ UNCHANGED <<target, reachable, card, lease, locker, runs, fp, new, stale, shown, clicks>>

\* try_reserve_slot.
Reserve(t) ==
    /\ pc[t] = "reserve"
    /\ IF slots < SlotLimit
         THEN slots' = slots + 1 /\ Go(t, "claim")
         ELSE UNCHANGED slots /\ Go(t, "refetch")
    /\ UNCHANGED <<target, reachable, card, lease, locker, runs, fp, new, stale, shown, clicks>>

\* The row again, then the target again, both under the lease.
Recheck(t) ==
    IF card.status # "pending" \/ card.due THEN Go(t, "refused") /\ UNCHANGED <<new, locker>>
    ELSE IF card.fp # new[t] THEN Go(t, "outdated") /\ UNCHANGED <<new, locker>>
    ELSE \/ Go(t, "refused") /\ UNCHANGED <<new, locker>>
         \/ reachable /\ target # new[t] /\ Go(t, "changed") /\ new' = [new EXCEPT ![t] = target] /\ UNCHANGED locker
         \/ reachable /\ target = new[t] /\ Go(t, "open") /\ locker' = t /\ UNCHANGED new

\* claim_pending_for_confirm up to its last update: the lease and the admission
\* counters, then the checks.  What fails here rolls back.
OpenClaim(t) ==
    /\ pc[t] = "claim" /\ locker = None
    /\ \/ Go(t, "race") /\ UNCHANGED <<new, locker>>
       \/ lease = "free" /\ Recheck(t)
    /\ UNCHANGED <<target, reachable, card, lease, slots, runs, fp, stale, shown, clicks>>

\* Mutants of StillAsRead: the update leaves one of its conditions to Recheck.
StillPending(t) == card.status = "pending"
StillThisVersion(t) == card.fp = new[t]

\* The WHERE of the update that claims the card.  Its "now" is that of the start.
StillAsRead(t) == card.status = "pending" /\ card.fp = new[t]

\* The update and the commit.  The slot passes to the runner.
CommitClaim(t) ==
    /\ pc[t] = "open"
    /\ locker' = None
    /\ IF StillAsRead(t)
         THEN /\ card' = [card EXCEPT !.status = "executing"]
              /\ lease' = "continuation"
              /\ runs' = Append(runs, [by |-> t, asked |-> shown[t], fp |-> fp[t], checked |-> None,
                                       pc |-> "renew", fate |-> "idle", outcome |-> "failed"])
              /\ Go(t, "streaming")
         ELSE /\ Go(t, IF card.status = "pending" THEN "outdated" ELSE "refused")
              /\ UNCHANGED <<card, lease, runs>>
    /\ UNCHANGED <<target, reachable, slots, fp, new, stale, shown, clicks>>

\* The database gives the transaction up.
AbortClaim(t) ==
    /\ pc[t] = "open"
    /\ locker' = None
    /\ pc' \in {[pc EXCEPT ![t] = "race"], [pc EXCEPT ![t] = "refused"]}
    /\ UNCHANGED <<target, reachable, card, lease, slots, runs, fp, new, stale, shown, clicks>>

\* Mutant of AfterRelease: the card is not brought up to date.
AfterReleaseNoUpdate(t) ==
    CASE pc[t] = "race" -> "lookup"
      [] OTHER -> "refetch"

\* Which handler follows: the winner's continuation is looked for, a change found
\* by the live recheck goes to the card, the rest is answered.
AfterRelease(t) ==
    CASE pc[t] = "race" -> "lookup"
      [] pc[t] = "changed" -> "updating"
      [] OTHER -> "refetch"

\* Mutant of ReleaseSlot: the handler of the race returns without release_slot.
ReleaseUnlessRace(t) ==
    /\ pc[t] \in SlotKept \ {"claim", "open"}
    /\ slots' = IF pc[t] = "race" THEN slots ELSE slots - 1
    /\ stale' = [stale EXCEPT ![t] = pc[t] \in {"outdated", "changed"}]
    /\ Go(t, AfterRelease(t))
    /\ UNCHANGED <<target, reachable, card, lease, locker, runs, fp, new, shown, clicks>>

ReleaseSlot(t) ==
    /\ pc[t] \in SlotKept \ {"claim", "open"}
    /\ slots' = slots - 1
    /\ stale' = [stale EXCEPT ![t] = pc[t] \in {"outdated", "changed"}]
    /\ Go(t, AfterRelease(t))
    /\ UNCHANGED <<target, reachable, card, lease, locker, runs, fp, new, shown, clicks>>

\* find_continuation_turn once more: the winner's turn is replayed.
LookUpWinner(t) ==
    /\ pc[t] = "lookup"
    /\ Go(t, IF runs # <<>> THEN "streaming" ELSE "refetch")
    /\ UNCHANGED <<target, reachable, card, lease, locker, slots, runs, fp, new, stale, shown, clicks>>

\* After an error handleConfirmAction reloads the history and draws the card anew;
\* when the reload fails it enables the buttons of the card it has.
Refetch(t) ==
    /\ pc[t] = "refetch"
    /\ \/ /\ shown' = [shown EXCEPT ![t] = IF card.status = "pending" THEN card.fp ELSE @]
          /\ Go(t, IF card.status = "pending" THEN "idle" ELSE "over")
       \/ Go(t, "idle") /\ UNCHANGED shown
    /\ UNCHANGED <<target, reachable, card, lease, locker, slots, runs, fp, new, stale, clicks>>

Request(t) ==
    \/ Click(t) \/ ReadCard(t) \/ FindContinuation(t) \/ Revalidate(t) \/ ExpireNow(t) \/ UpdateSummary(t)
    \/ Reserve(t) \/ OpenClaim(t) \/ CommitClaim(t) \/ AbortClaim(t) \/ ReleaseSlot(t)
    \/ LookUpWinner(t) \/ Refetch(t)

----------------------------------------------------------------------------
(* run_confirm_turn. *)

\* The payload and the attachments are at hand, or the card fails; then the lease
\* is renewed, or the runner stops.
Prepare(n) ==
    /\ runs[n].pc = "renew"
    /\ \/ runs' = [runs EXCEPT ![n].pc = "finalize"]
       \/ runs' = [runs EXCEPT ![n].pc = IF lease = "continuation" THEN "recheck" ELSE "off"]
    /\ UNCHANGED <<target, reachable, card, lease, locker, slots, tabVars>>

\* Team, permission and target a last time, against the fingerprint of the row as
\* the request had read it. A lookup that raises counts as a refusal.
LastCheck(n) ==
    /\ runs[n].pc = "recheck"
    /\ \/ /\ reachable /\ target = runs[n].fp
          /\ runs' = [runs EXCEPT ![n].pc = "dispatch", ![n].checked = target]
       \/ runs' = [runs EXCEPT ![n].pc = "finalize"]
    /\ UNCHANGED <<target, reachable, card, lease, locker, slots, tabVars>>

\* execute_confirmed_write sends the loopback call, unless the payload is for another team.
Dispatch(n) ==
    /\ runs[n].pc = "dispatch"
    /\ \/ runs' = [runs EXCEPT ![n].pc = "sending", ![n].fate = "inflight"]
       \/ runs' = [runs EXCEPT ![n].pc = "finalize"]
    /\ UNCHANGED <<target, reachable, card, lease, locker, slots, tabVars>>

\* The call is applied or turned down, whether or not the runner still waits.
Land(n) ==
    /\ runs[n].fate = "inflight"
    /\ \E fate \in {"applied", "refused"} : runs' = [runs EXCEPT ![n].fate = fate]
    /\ UNCHANGED <<target, reachable, card, lease, locker, slots, tabVars>>

\* Mutant of HearBack: no answer in time counts as a refusal.
HearNothing(n) ==
    /\ runs[n].pc = "sending"
    /\ \E outcome \in {"confirmed", "failed"} :
          /\ outcome = "confirmed" => runs[n].fate = "applied"
          /\ runs' = [runs EXCEPT ![n].pc = "finalize", ![n].outcome = outcome]
    /\ UNCHANGED <<target, reachable, card, lease, locker, slots, tabVars>>

\* 2xx, a definite refusal, or anything from which the outcome cannot be told: no
\* answer in time, a lost connection, an exception.
HearBack(n) ==
    /\ runs[n].pc = "sending"
    /\ \E outcome \in {"confirmed", "failed", "unknown"} :
          /\ outcome = "confirmed" => runs[n].fate = "applied"
          /\ outcome = "failed" => runs[n].fate = "refused"
          /\ runs' = [runs EXCEPT ![n].pc = "finalize", ![n].outcome = outcome]
    /\ UNCHANGED <<target, reachable, card, lease, locker, slots, tabVars>>

\* finalize_confirm_outcome, for the owner of the lease and an executing card.
Finalize(n) ==
    /\ runs[n].pc = "finalize"
    /\ card' = IF lease = "continuation" /\ card.status = "executing"
                 THEN [card EXCEPT !.status = runs[n].outcome] ELSE card
    /\ runs' = [runs EXCEPT ![n].pc = "off"]
    /\ UNCHANGED <<target, reachable, lease, locker, slots, tabVars>>

\* The rest of the turn, its end, and the slot in the supervisor's wrapper.
RunnerExits(n) ==
    /\ runs[n].pc = "off"
    /\ runs' = [runs EXCEPT ![n].pc = "gone"]
    /\ lease' = IF lease = "continuation" THEN "free" ELSE lease
    /\ slots' = slots - 1
    /\ UNCHANGED <<target, reachable, card, locker, tabVars>>

Runner(n) ==
    \/ Prepare(n) \/ LastCheck(n) \/ Dispatch(n) \/ Land(n) \/ HearBack(n) \/ Finalize(n) \/ RunnerExits(n)

----------------------------------------------------------------------------
(* The others. *)

\* The target is edited, or goes away and may come back.
Change ==
    /\ target < MaxVersion
    /\ target' = target + 1
    /\ UNCHANGED <<reachable, card, lease, locker, slots, runs, tabVars>>

Reach ==
    /\ reachable' = ~reachable
    /\ UNCHANGED <<target, card, lease, locker, slots, runs, tabVars>>

\* expires_at passes.
FallDue ==
    /\ ~card.due
    /\ card' = [card EXCEPT !.due = TRUE]
    /\ UNCHANGED <<target, reachable, lease, locker, slots, runs, tabVars>>

\* cancel_pending, and expire_stale_pending when the card is due.
Withdraw ==
    /\ card.status = "pending"
    /\ \/ card' = [card EXCEPT !.status = "cancelled"]
       \/ card.due /\ card' = [card EXCEPT !.status = "expired"]
    /\ UNCHANGED <<target, reachable, lease, locker, slots, runs, tabVars>>

\* start_turn for a new message takes the lease and expires the open card.
NewMessage ==
    /\ lease = "free" /\ locker = None
    /\ lease' = "other"
    /\ card' = IF card.status = "pending" THEN [card EXCEPT !.status = "expired"] ELSE card
    /\ UNCHANGED <<target, reachable, locker, slots, runs, tabVars>>

MessageEnds ==
    /\ lease = "other"
    /\ lease' = "free"
    /\ UNCHANGED <<target, reachable, card, locker, slots, runs, tabVars>>

\* recover_orphan_executing_pending, when deadline and lease have passed.
Recover ==
    /\ card.status = "executing" /\ lease = "continuation"
    /\ card' = [card EXCEPT !.status = "unknown"]
    /\ lease' = "free"
    /\ UNCHANGED <<target, reachable, locker, slots, runs, tabVars>>

----------------------------------------------------------------------------
Next ==
    \/ \E t \in Tabs : Request(t)
    \/ \E n \in DOMAIN runs : Runner(n)
    \/ Change \/ Reach \/ FallDue \/ Withdraw \/ NewMessage \/ MessageEnds \/ Recover

Spec == Init /\ [][Next]_vars

----------------------------------------------------------------------------
(* Properties. *)

\* The promise as the windows and the runner of this one card keep it.
Requests == {n \in DOMAIN runs : Sent(runs[n])}
Fate == IF Requests = {} THEN "idle" ELSE runs[CHOOSE n \in Requests : TRUE].fate

Promise == INSTANCE ConfirmedWrite WITH
    Writes <- {"write"},
    stage <- [w \in {"write"} |-> card.status],
    fate <- [w \in {"write"} |-> Fate],
    sends <- [w \in {"write"} |-> Cardinality(Requests)]

\* Whatever windows, edits of the target, recovery and a runner that was given up do
\* at once, the write of the card is sent at most once, only when confirmed, and what
\* the card says of it is true (claim_pending_for_confirm, run_confirm_turn,
\* finalize_confirm_outcome).
KeepsPromise == Promise!Spec

\* However many windows confirm, cancel or write a new message at once, a card has
\* one fate: withdrawn or claimed it gets no runner any more, and settled it stays
\* as it is (claim_pending_for_confirm, finalize_confirm_outcome).
OneFate ==
    [][/\ card.status # "pending" => Len(runs') = Len(runs)
       /\ card.status \notin {"pending", "executing"} => card'.status = card.status]_vars

\* The card that was claimed describes what the runner carries, and the write goes
\* out only if the target was that version at the last look, whatever other
\* requests did to the card and the target on the way (run_confirm_turn).
RunsAsClaimed ==
    \A n \in DOMAIN runs : runs[n].fp = card.fp /\ runs[n].checked \in {None, card.fp}

\* A slot is taken by a request that is about to claim and by a runner that has
\* not ended, whichever of the handlers the request leaves through
\* (ProcessSlotLimiter).
SlotsExact ==
    slots = Cardinality({t \in Tabs : pc[t] \in SlotKept})
            + Cardinality({n \in DOMAIN runs : runs[n].pc # "gone"})

\* A window that is told the target changed can reload: the card no longer is what
\* that request had read (update_pending_summary_cas).
StaleIsUpdated ==
    \A t \in Tabs : stale[t] /\ pc[t] = "refetch" => card.status # "pending" \/ card.fp # fp[t]

\* A slow request never takes the card back to an older version of the target.
CardMovesForward == [][card.fp' >= card.fp]_vars

\* openspec assistant-action-confirmation: when the target has changed the user
\* must confirm again after seeing the new summary.
ConfirmedAsShown == \A n \in DOMAIN runs : Sent(runs[n]) => runs[n].asked = runs[n].fp
=============================================================================
