----------------------------- MODULE TurnStream -----------------------------
(***************************************************************************)
(* The event log of one turn and how the browser reads it.  The runner, or *)
(* the recovery loop when the runner is gone, appends rows to the log; a   *)
(* server-sent-event stream, in any worker, tails the log by polling the   *)
(* database; the widget reads the stream and reconnects when it breaks.    *)
(*                                                                         *)
(* Each action is one transaction or one local step.  A row is named by    *)
(* its place in the log: place n has seq n - 1, and "nothing seen yet",    *)
(* after_seq = -1, is 0.                                                   *)
(***************************************************************************)
EXTENDS Naturals, Sequences

CONSTANTS
    MaxEvents,    \* bound of the model on the rows a runner appends while it works
    MaxAttempts   \* RECONNECT_MAX_ATTEMPTS of the widget

ASSUME StreamAssumption == MaxEvents \in Nat /\ MaxAttempts \in Nat

VARIABLES
    \* the turn
    log,        \* AssistantEvent rows in seq order
    running,    \* status = "running"
    gone,       \* the conversation was deleted, and its turns with it
    holder,     \* who owns the lease of the conversation
    leaseOver,  \* and whether it ran out
    pc,         \* where the runner is
    \* the generator behind the stream the widget is connected to
    at, cursor, batch,
    \* the widget
    wire,       \* rows on their way to the widget
    got,        \* rows it has dispatched
    ended,      \* this stream showed it an end or an error
    attempts,
    client

turnVars == <<log, running, gone, holder, leaseOver, pc>>
serverVars == <<at, cursor, batch>>
clientVars == <<wire, got, ended, attempts, client>>
vars == <<turnVars, serverVars, clientVars>>

----------------------------------------------------------------------------
Ends == {"done", "cancelled"}
Kinds == {"progress", "error"} \cup Ends
Points == {"fence", "work", "erring", "failing", "cancelling", "stopped", "completing",
           "done", "cancelled", "off"}

HasEnd == \E n \in DOMAIN log : log[n] \in Ends
Seen == Len(got)
EventSeq == IF got = <<>> THEN 0 ELSE got[Seen]

TypeOK ==
    /\ log \in Seq(Kinds)
    /\ {running, gone, leaseOver, ended} \subseteq BOOLEAN
    /\ holder \in {"turn", "other", "nobody"}
    /\ holder = "turn" => running
    /\ pc \in Points
    /\ at \in {"poll", "check", "send", "closed"}
    /\ at = "send" <=> batch # <<>>
    /\ batch \in Seq(DOMAIN log) /\ wire \in Seq(DOMAIN log) /\ got \in Seq(DOMAIN log)
    /\ cursor \in 0..Len(log)
    /\ attempts \in 0..MaxAttempts + 1
    /\ client \in {"reading", "finished", "failed"}

Init ==
    /\ log = <<>>
    /\ running = TRUE /\ gone = FALSE
    /\ holder = "turn" /\ leaseOver = FALSE
    /\ pc = "fence"
    /\ at = "poll" /\ cursor = 0 /\ batch = <<>>
    /\ wire = <<>> /\ got = <<>>
    /\ ended = FALSE /\ attempts = 0
    /\ client = "reading"

----------------------------------------------------------------------------
(* The runner. *)

\* renew_lease, and a runner that cannot renew stops without a word.
Renew ==
    \E step \in {<<"fence", "work">>, <<"erring", "failing">>, <<"cancelling", "stopped">>} :
        /\ pc = step[1]
        /\ IF running /\ ~gone /\ (holder \in {"turn", "nobody"} \/ leaseOver)
             THEN pc' = step[2] /\ holder' = "turn" /\ leaseOver' = FALSE
             ELSE pc' = "off" /\ UNCHANGED <<holder, leaseOver>>
        /\ UNCHANGED <<log, running, gone, serverVars, clientVars>>

\* append_event looks at nothing but whether the turn still exists; when it does
\* not, it raises, and the error path finds no turn to end.
Emit(kind, next) ==
    /\ IF gone
         THEN pc' = "off" /\ UNCHANGED log
         ELSE pc' = next /\ log' = Append(log, kind)
    /\ UNCHANGED <<running, gone, holder, leaseOver, serverVars, clientVars>>

Work ==
    /\ pc = "work"
    /\ Len(log) < MaxEvents
    /\ \E next \in {"fence", "completing"} : Emit("progress", next)

\* A stop request, an error or a continuation without a closing text.
Leave ==
    /\ pc = "work"
    /\ pc' \in {"fence", "erring", "cancelling", "completing"}
    /\ UNCHANGED <<log, running, gone, holder, leaseOver, serverVars, clientVars>>

Fail == pc = "failing" /\ Emit("error", "completing")

\* create_pending_action_and_complete_turn and the terminating rejection write
\* the last events in the transaction that ends the turn.
EndAtOnce ==
    /\ pc = "work"
    /\ IF gone
         THEN UNCHANGED <<log, running, holder>>
         ELSE /\ \E kind \in {"progress", "error"} : log' = log \o <<kind, "done">>
              /\ running' = FALSE
              /\ holder' = IF holder = "turn" THEN "nobody" ELSE holder
    /\ pc' = "off"
    /\ UNCHANGED <<gone, leaseOver, serverVars, clientVars>>

\* Mutant of Complete: the lease is kept.
CompleteHolding ==
    /\ pc \in {"completing", "stopped"}
    /\ running' = FALSE
    /\ pc' = IF pc = "stopped" THEN "cancelled" ELSE "done"
    /\ UNCHANGED <<log, gone, holder, leaseOver, serverVars, clientVars>>

\* The other ends take two transactions: complete_turn_release_lease ...
Complete ==
    /\ pc \in {"completing", "stopped"}
    /\ running' = FALSE
    /\ holder' = IF running /\ holder = "turn" THEN "nobody" ELSE holder
    /\ pc' = IF pc = "stopped" THEN "cancelled" ELSE "done"
    /\ UNCHANGED <<log, gone, leaseOver, serverVars, clientVars>>

\* ... and then append_event, whoever ended the turn in the meantime.
CloseLog == pc \in Ends /\ Emit(pc, "off")

\* The process dies, or a transaction raises after the turn has ended: the error
\* path cannot renew then, and stops.
Crash ==
    /\ pc # "off"
    /\ pc' = "off"
    /\ UNCHANGED <<log, running, gone, holder, leaseOver, serverVars, clientVars>>

RunnerStep == Renew \/ Work \/ Leave \/ Fail \/ EndAtOnce \/ Complete \/ CloseLog

----------------------------------------------------------------------------
(* What happens around the turn. *)

LeaseExpires ==
    /\ holder # "nobody" /\ ~leaseOver
    /\ leaseOver' = TRUE
    /\ UNCHANGED <<log, running, gone, holder, pc, serverVars, clientVars>>

\* A new message of the user takes the lease over, and its turn ends some time.
Overtake ==
    /\ ~gone
    /\ holder = "nobody" \/ (holder = "turn" /\ leaseOver)
    /\ holder' = "other" /\ leaseOver' = FALSE
    /\ UNCHANGED <<log, running, gone, pc, serverVars, clientVars>>

OtherEnds ==
    /\ holder = "other"
    /\ holder' = "nobody" /\ leaseOver' = FALSE
    /\ UNCHANGED <<log, running, gone, pc, serverVars, clientVars>>

\* recover_orphan_turns.
Recover ==
    /\ running /\ holder = "turn" /\ leaseOver
    /\ running' = FALSE
    /\ log' = log \o <<"error", "done">>
    /\ holder' = "nobody" /\ leaseOver' = FALSE
    /\ UNCHANGED <<gone, pc, serverVars, clientVars>>

\* delete_conversation, which waits for running turns.
Delete ==
    /\ ~gone /\ ~running /\ holder # "other"
    /\ gone' = TRUE
    /\ UNCHANGED <<log, running, holder, leaseOver, pc, serverVars, clientVars>>

----------------------------------------------------------------------------
(* _tail_turn_events. *)

\* Mutant of Poll: an empty answer is never followed by is_turn_terminal.
PollOnly ==
    /\ at = "poll"
    /\ batch' = IF gone THEN <<>> ELSE [i \in 1..(Len(log) - cursor) |-> cursor + i]
    /\ at' = IF batch' = <<>> THEN "poll" ELSE "send"
    /\ UNCHANGED <<turnVars, cursor, clientVars>>

\* get_events_after.
Poll ==
    /\ at = "poll"
    /\ batch' = IF gone THEN <<>> ELSE [i \in 1..(Len(log) - cursor) |-> cursor + i]
    /\ at' = IF batch' = <<>> THEN "check" ELSE "send"
    /\ UNCHANGED <<turnVars, cursor, clientVars>>

\* Mutant of Check: the stream closes as soon as the turn has ended.
CheckStatus ==
    /\ at = "check"
    /\ at' = IF gone \/ ~running THEN "closed" ELSE "poll"
    /\ UNCHANGED <<turnVars, cursor, batch, clientVars>>

\* is_turn_terminal, a transaction of its own, when there was nothing to send.
Check ==
    /\ at = "check"
    /\ at' = IF gone \/ (~running /\ HasEnd) THEN "closed" ELSE "poll"
    /\ UNCHANGED <<turnVars, cursor, batch, clientVars>>

Yield ==
    /\ at = "send"
    /\ wire' = Append(wire, Head(batch))
    /\ cursor' = Head(batch)
    /\ IF log[Head(batch)] \in Ends
         THEN at' = "closed" /\ batch' = <<>>
         ELSE /\ batch' = Tail(batch)
              /\ at' = IF Tail(batch) = <<>> THEN "poll" ELSE "send"
    /\ UNCHANGED <<turnVars, got, ended, attempts, client>>

----------------------------------------------------------------------------
(* pumpStream and streamWithReconnect. *)

Receive ==
    /\ client = "reading" /\ wire # <<>>
    /\ wire' = Tail(wire)
    /\ IF Head(wire) <= EventSeq
         THEN UNCHANGED <<got, ended>>
         ELSE /\ got' = Append(got, Head(wire))
              /\ ended' = (ended \/ log[Head(wire)] \in Ends \cup {"error"})
    /\ UNCHANGED <<turnVars, serverVars, attempts, client>>

\* Mutant of Retry: the new stream starts where the old one had come to.
RetryFromServer ==
    /\ attempts' = attempts + 1
    /\ IF attempts' > MaxAttempts \/ gone
         THEN client' = "failed" /\ at' = "closed" /\ UNCHANGED cursor
         ELSE client' \in {"reading", "failed"} /\ at' = "poll" /\ cursor' = cursor
    /\ batch' = <<>> /\ wire' = <<>> /\ ended' = FALSE
    /\ UNCHANGED <<turnVars, got>>

\* A new generator after the last row dispatched; the request for it may fail.
Retry ==
    /\ attempts' = attempts + 1
    /\ IF attempts' > MaxAttempts \/ gone
         THEN client' = "failed" /\ at' = "closed" /\ UNCHANGED cursor
         ELSE client' \in {"reading", "failed"} /\ at' = "poll" /\ cursor' = EventSeq
    /\ batch' = <<>> /\ wire' = <<>> /\ ended' = FALSE
    /\ UNCHANGED <<turnVars, got>>

\* Mutant of StreamEnds: any end of the stream is the end of the turn.
StreamEndsAnyhow ==
    /\ client = "reading" /\ at = "closed" /\ wire = <<>>
    /\ client' = "finished" /\ UNCHANGED <<turnVars, serverVars, wire, got, ended, attempts>>

StreamEnds ==
    /\ client = "reading" /\ at = "closed" /\ wire = <<>>
    /\ IF ended
         THEN client' = "finished" /\ UNCHANGED <<turnVars, serverVars, wire, got, ended, attempts>>
         ELSE Retry

\* The connection breaks; what this stream had shown is forgotten.
Drop == client = "reading" /\ Retry

----------------------------------------------------------------------------
Reader == Poll \/ Check \/ Yield \/ Receive \/ StreamEnds

Next ==
    \/ RunnerStep \/ Crash
    \/ LeaseExpires \/ Overtake \/ OtherEnds \/ Recover \/ Delete
    \/ Reader \/ Drop

Spec == Init /\ [][Next]_vars

\* A stream is polled twice a second and the widget reads what arrives; a live
\* runner is scheduled, time passes, the recovery loop runs every minute.
Fairness ==
    /\ WF_vars(Poll \/ Check \/ Yield) /\ WF_vars(Receive \/ StreamEnds)
    /\ WF_vars(RunnerStep) /\ WF_vars(LeaseExpires) /\ WF_vars(OtherEnds) /\ WF_vars(Recover)

FairSpec == Spec /\ Fairness

----------------------------------------------------------------------------
(* Properties. *)

\* Across broken connections and reconnects to any worker the widget dispatches
\* the rows of the log in order, without a gap or a repetition
\* (get_events_after, streamWithReconnect).
InOrder == \A n \in DOMAIN got : got[n] = n

\* The stream is not closed in the gap between the end of the turn and the commit
\* of its last event (is_turn_terminal).
WaitsForEnd == at = "closed" /\ client = "reading" => gone \/ HasEnd

\* When the widget is told the turn is over it has been shown everything the turn
\* did: a stream that ended early is not taken for the end (pumpStream).
ShownEverything ==
    client = "finished" =>
        \A n \in DOMAIN log :
            (log[n] = "progress" /\ \A k \in 1..n : log[k] \notin Ends) => n <= Seen

Report == INSTANCE TurnReport WITH
    told <- [n \in DOMAIN got |-> log[got[n]]],
    reader <- client

\* Polling, two transactions at the end, broken connections and reconnects amount to a
\* reader that is told row after row and finishes when it has heard all
\* (_tail_turn_events, pumpStream, streamWithReconnect).
KeepsReport == Report!Spec

\* Once the log has its end the widget stops waiting, however often the
\* connection breaks (_tail_turn_events, streamWithReconnect).
WidgetSettles == HasEnd ~> client # "reading"

\* openspec assistant-agent-loop: done or cancelled ends the log of a turn, so
\* whoever waits for a turn that is over gets to know.
EndedTurnEndsStream == ~running ~> client # "reading"
=============================================================================
