--------------------------- MODULE AssistantTurns ---------------------------
(***************************************************************************)
(* Turns of the AI assistant: the rows kept by ConversationService, the    *)
(* detached runner of each turn, the confirmation of a write tool, and the *)
(* recovery loop that cleans up after runners that died.                   *)
(*                                                                         *)
(* Every worker process shares one database.  An action of this module is  *)
(* one database transaction (one run_write call) together with the local   *)
(* step of the runner that issued it; a runner may pause for any time, or  *)
(* die with its process, between two of them.  Time is three flags that    *)
(* may come up at any moment: a lease that ran out, a card past its TTL    *)
(* and an execution past its deadline.                                     *)
(***************************************************************************)
EXTENDS Integers, FiniteSets

CONSTANTS
    Convs,          \* conversations
    Turns,          \* ids of the turn rows that can be created
    Actions,        \* ids of the cards, one per write tool call put to the user
    Msgs,           \* client_message_id of user messages
    Users,
    UserOf,         \* the owner of each conversation
    GlobalLimit,    \* max_active_turns_global
    UserLimit,      \* max_active_turns_per_user
    MaxMessages,    \* max_messages_per_conversation
    MaxIterations,  \* max_iterations of the agent loop
    None

ASSUME TurnsAssumption ==
    /\ IsFiniteSet(Turns)
    /\ Turns \subseteq Nat /\ Actions \subseteq Nat
    /\ UserOf \in [Convs -> Users]
    /\ {GlobalLimit, UserLimit, MaxMessages, MaxIterations} \subseteq Nat
    /\ Msgs \cap Actions = {}
    /\ None \notin Turns \cup Convs \cup Msgs \cup Actions

VARIABLES
    \* AssistantConversation
    open,           \* the row exists
    owner,          \* active_turn_key
    leaseOver,      \* turn_lease_expires_at < now
    \* AssistantTurn
    status,
    turnConv,       \* conversation_id
    turnMsg,        \* client_message_id: a message, or the key of the confirmed card
    admitted,       \* rows with admission_released = false
    cancelReq,      \* cancel_requested
    \* AssistantRuntimeCounter
    globalActive,
    userActive,
    \* AssistantPendingAction and AssistantToolExecution
    action,         \* status of the pending action
    actTurn,        \* its turn_id: the source turn, then the continuation
    ttlOver,        \* expires_at < now
    deadlineOver,   \* execution_deadline < now
    journal,        \* status of the execution journal row
    results,        \* tool-result messages paired with the tool call
    \* runners
    pc,             \* where the runner of the turn is
    iter,           \* iterations of its agent loop
    \* the application's own API, reached over loopback
    write,          \* what became of the confirmed write
    sends           \* how often it was sent

convVars == <<open, owner, leaseOver>>
turnVars == <<status, turnConv, turnMsg, admitted, cancelReq, globalActive, userActive>>
actionVars == <<action, actTurn, ttlOver, deadlineOver, journal, results>>
runnerVars == <<pc, iter>>
worldVars == <<write, sends>>
vars == <<convVars, turnVars, actionVars, runnerVars, worldVars>>

----------------------------------------------------------------------------
Terminal == {"completed", "failed", "cancelled"}
Resolved == {"confirmed", "failed", "unknown", "expired", "cancelled"}
Outcomes == {"succeeded", "failed", "unknown"}

\* The places a runner can be between two transactions.
LoopPoints == {"begin", "entering", "loop", "beforeLLM", "llm", "afterLLM", "reply",
               "beforeTool", "tool", "afterTool", "result"}
EndPoints == {"completing", "erring", "failing", "cancelling", "cancelled"}
ConfirmPoints == {"confirm", "revalidate", "writing", "refuse", "raised", "raisedSent",
                  "succeeded", "failed", "unknown"}
Points == {"off"} \cup LoopPoints \cup EndPoints \cup ConfirmPoints

ConvsOK ==
    /\ open \in [Convs -> BOOLEAN]
    /\ owner \in [Convs -> Turns \cup {None}]
    /\ leaseOver \in [Convs -> BOOLEAN]

TurnsOK ==
    /\ status \in [Turns -> {"none", "running", "deleted"} \cup Terminal]
    /\ turnConv \in [Turns -> Convs \cup {None}]
    /\ turnMsg \in [Turns -> Msgs \cup Actions \cup {None}]
    /\ admitted \subseteq Turns
    /\ cancelReq \in [Turns -> BOOLEAN]
    /\ globalActive \in Nat
    /\ userActive \in [Users -> Nat]
    /\ \A t \in Turns : status[t] # "none" => turnConv[t] \in Convs

ActionsOK ==
    /\ action \in [Actions -> {"none", "pending", "executing", "deleted"} \cup Resolved]
    /\ actTurn \in [Actions -> Turns \cup {None}]
    /\ ttlOver \in [Actions -> BOOLEAN]
    /\ deadlineOver \in [Actions -> BOOLEAN]
    /\ journal \in [Actions -> {"none", "started"} \cup Outcomes]
    /\ results \in [Actions -> Nat]
    /\ \A a \in Actions : action[a] = "none" <=> actTurn[a] = None

RunnersOK ==
    /\ pc \in [Turns -> Points]
    /\ iter \in [Turns -> Nat]
    /\ \A t \in Turns : pc[t] # "off" => status[t] # "none"
    /\ \A t \in Turns : pc[t] \in ConfirmPoints => turnMsg[t] \in Actions

WritesOK ==
    /\ write \in [Actions -> {"idle", "inflight", "applied", "refused"}]
    /\ sends \in [Actions -> Nat]

TypeOK == ConvsOK /\ TurnsOK /\ ActionsOK /\ RunnersOK /\ WritesOK

Init ==
    /\ open = [c \in Convs |-> TRUE]
    /\ owner = [c \in Convs |-> None]
    /\ leaseOver = [c \in Convs |-> FALSE]
    /\ status = [t \in Turns |-> "none"]
    /\ turnConv = [t \in Turns |-> None]
    /\ turnMsg = [t \in Turns |-> None]
    /\ admitted = {}
    /\ cancelReq = [t \in Turns |-> FALSE]
    /\ globalActive = 0
    /\ userActive = [u \in Users |-> 0]
    /\ action = [a \in Actions |-> "none"]
    /\ actTurn = [a \in Actions |-> None]
    /\ ttlOver = [a \in Actions |-> FALSE]
    /\ deadlineOver = [a \in Actions |-> FALSE]
    /\ journal = [a \in Actions |-> "none"]
    /\ results = [a \in Actions |-> 0]
    /\ pc = [t \in Turns |-> "off"]
    /\ iter = [t \in Turns |-> 0]
    /\ write = [a \in Actions |-> "idle"]
    /\ sends = [a \in Actions |-> 0]

----------------------------------------------------------------------------
(* Pieces of the transactions. *)

TurnsOf(c) == {t \in Turns : turnConv[t] = c /\ status[t] \notin {"none", "deleted"}}
RunningIn(c) == {t \in TurnsOf(c) : status[t] = "running"}
ActionsOf(c) == {a \in Actions : action[a] # "deleted" /\ actTurn[a] \in TurnsOf(c)}
IsConfirmTurn(t) == turnMsg[t] \in Actions

\* The compare-and-set of _acquire_or_renew_lease: the key may already own the
\* lease, nobody may own it, or the owner's time may have run out.
LeaseAvailable(c, t) == owner[c] \in {t, None} \/ leaseOver[c]

TakeLease(c, t) ==
    /\ owner' = [owner EXCEPT ![c] = t]
    /\ leaseOver' = [leaseOver EXCEPT ![c] = FALSE]

\* Mutant of ReleaseLease: the release is also fenced by the expiry time.
ReleaseLiveLease(T) ==
    /\ owner' = [c \in Convs |-> IF owner[c] \in T /\ ~leaseOver[c] THEN None ELSE owner[c]]
    /\ leaseOver' = [c \in Convs |-> leaseOver[c]]

\* _release_lease by each turn of T: only the owner clears the lease.
ReleaseLease(T) ==
    /\ owner' = [c \in Convs |-> IF owner[c] \in T THEN None ELSE owner[c]]
    /\ leaseOver' = [c \in Convs |-> leaseOver[c] /\ owner[c] \notin T]

\* _conditional_increment_counter for the global scope and for the user's.
Reserve(c) ==
    /\ globalActive < GlobalLimit
    /\ userActive[UserOf[c]] < UserLimit
    /\ globalActive' = globalActive + 1
    /\ userActive' = [userActive EXCEPT ![UserOf[c]] = @ + 1]

\* _decrement_counter, n times: never below zero.
Decrease(count, n) == IF count > n THEN count - n ELSE 0

OfUser(T, u) == {t \in T : turnConv[t] \in Convs /\ UserOf[turnConv[t]] = u}

\* Mutant of ReleaseAdmission: admission_released is not looked at.
ReleaseAlways(T) ==
    /\ admitted' = admitted \ T
    /\ globalActive' = Decrease(globalActive, Cardinality(T))
    /\ userActive' = [u \in Users |-> Decrease(userActive[u], Cardinality(OfUser(T, u)))]

\* _release_admission_once for each turn of T.
ReleaseAdmission(T) ==
    LET due == T \cap admitted IN
    /\ admitted' = admitted \ T
    /\ globalActive' = Decrease(globalActive, Cardinality(due))
    /\ userActive' = [u \in Users |-> Decrease(userActive[u], Cardinality(OfUser(due, u)))]

\* The end of every turn: terminal status, admission back, lease given up.
FinishTurns(T, result) ==
    /\ status' = [t \in Turns |-> IF t \in T THEN result ELSE status[t]]
    /\ ReleaseAdmission(T)
    /\ ReleaseLease(T)
    /\ UNCHANGED <<open, turnConv, turnMsg, cancelReq>>

\* The database hands out the ids of new rows in increasing order.
NextRow(rows, state, r) ==
    /\ state[r] = "none"
    /\ \A s \in rows : state[s] = "none" => r <= s

\* The row of a new running turn, with the admission it reserved and the lease.
InsertTurn(t, c, m, start) ==
    /\ NextRow(Turns, status, t)
    /\ status' = [status EXCEPT ![t] = "running"]
    /\ turnConv' = [turnConv EXCEPT ![t] = c]
    /\ turnMsg' = [turnMsg EXCEPT ![t] = m]
    /\ admitted' = admitted \cup {t}
    /\ Reserve(c)
    /\ TakeLease(c, t)
    /\ pc' = [pc EXCEPT ![t] = start]
    /\ UNCHANGED <<open, cancelReq, iter>>

\* The unique (conversation_id, client_message_id) of a turn row.
Started(c, m) == \E t \in TurnsOf(c) : turnMsg[t] = m

\* Cards leave "pending" by one compare-and-set each, which also writes the
\* synthetic tool result of the call.
Close(A, how) ==
    /\ action' = [a \in Actions |-> IF a \in A THEN how ELSE action[a]]
    /\ results' = [a \in Actions |-> IF a \in A THEN results[a] + 1 ELSE results[a]]
    /\ UNCHANGED <<actTurn, ttlOver, deadlineOver, journal>>

Goto(t, point) == pc' = [pc EXCEPT ![t] = point] /\ UNCHANGED iter

----------------------------------------------------------------------------
(* Requests of the user. *)

\* POST message: TurnStart Tx, then the runner is spawned.  A message that was
\* already started replays and changes nothing; a request that fails between the
\* commit and the spawn leaves a turn without a runner, as Crash does.
StartTurn(c, m, t) ==
    /\ open[c]
    /\ ~Started(c, m)
    /\ Cardinality({x \in TurnsOf(c) : turnMsg[x] \in Msgs}) < MaxMessages
    /\ LeaseAvailable(c, t)
    /\ InsertTurn(t, c, m, "begin")
    /\ Close({a \in ActionsOf(c) : action[a] = "pending"}, "expired")
    /\ UNCHANGED worldVars

\* Mutant of Claim: the card is not rebound to the continuation.
ClaimUnbound(c, a, t) ==
    /\ open[c]
    /\ a \in ActionsOf(c)
    /\ action[a] = "pending"
    /\ ~ttlOver[a]
    /\ ~Started(c, a)
    /\ LeaseAvailable(c, t)
    /\ InsertTurn(t, c, a, "confirm")
    /\ action' = [action EXCEPT ![a] = "executing"]
    /\ journal' = [journal EXCEPT ![a] = "started"]
    /\ UNCHANGED <<actTurn, ttlOver, deadlineOver, results, worldVars>>

\* POST confirm: Confirm Tx A, then the runner of the continuation is spawned.
Claim(c, a, t) ==
    /\ open[c]
    /\ a \in ActionsOf(c)
    /\ action[a] = "pending"
    /\ ~ttlOver[a]
    /\ ~Started(c, a)
    /\ LeaseAvailable(c, t)
    /\ InsertTurn(t, c, a, "confirm")
    /\ action' = [action EXCEPT ![a] = "executing"]
    /\ actTurn' = [actTurn EXCEPT ![a] = t]
    /\ journal' = [journal EXCEPT ![a] = "started"]
    /\ UNCHANGED <<ttlOver, deadlineOver, results, worldVars>>

\* POST confirm on a card that no longer validates (payload, schema, team or
\* permission), and POST cancel.
RefuseConfirm(a) ==
    /\ action[a] = "pending"
    /\ Close({a}, "expired")
    /\ UNCHANGED <<convVars, turnVars, runnerVars, worldVars>>

\* Mutant of CancelCard: an executing card can be cancelled too.
CancelAnyCard(a) ==
    /\ action[a] \in {"pending", "executing"}
    /\ Close({a}, "cancelled")
    /\ UNCHANGED <<convVars, turnVars, runnerVars, worldVars>>

CancelCard(a) ==
    /\ action[a] = "pending"
    /\ Close({a}, "cancelled")
    /\ UNCHANGED <<convVars, turnVars, runnerVars, worldVars>>

\* POST stop.
RequestCancel(t) ==
    /\ status[t] \notin {"none", "deleted"}
    /\ cancelReq' = [cancelReq EXCEPT ![t] = TRUE]
    /\ UNCHANGED <<convVars, status, turnConv, turnMsg, admitted, globalActive, userActive,
                   actionVars, runnerVars, worldVars>>

\* The cascade that takes the turns and the cards of a conversation with it.
Remove(D) ==
    LET gone == UNION {TurnsOf(c) : c \in D} IN
    /\ D # {}
    /\ open' = [c \in Convs |-> open[c] /\ c \notin D]
    /\ owner' = [c \in Convs |-> IF c \in D THEN None ELSE owner[c]]
    /\ leaseOver' = [c \in Convs |-> leaseOver[c] /\ c \notin D]
    /\ status' = [t \in Turns |-> IF t \in gone THEN "deleted" ELSE status[t]]
    /\ admitted' = admitted \ gone
    /\ action' = [a \in Actions |->
                    IF \E c \in D : a \in ActionsOf(c) THEN "deleted" ELSE action[a]]
    /\ UNCHANGED <<turnConv, turnMsg, cancelReq, globalActive, userActive, actTurn, ttlOver,
                   deadlineOver, journal, results, runnerVars, worldVars>>

NoneRunning(c) == RunningIn(c) = {}
NoneExecuting(c) == \A a \in ActionsOf(c) : action[a] # "executing"

\* scalar_one_or_none raises on two rows, and the transaction rolls back.
AtMostOneRunning(c) == \A s, t \in RunningIn(c) : s = t

DeleteConversation(c) ==
    /\ open[c]
    /\ NoneRunning(c) /\ NoneExecuting(c)
    /\ Remove({c})

BatchDelete(D) ==
    /\ \A c \in D : open[c] /\ AtMostOneRunning(c)
    /\ Remove({c \in D : NoneRunning(c)})

PurgeExpired(D) ==
    /\ \A c \in D : open[c] /\ AtMostOneRunning(c)
    /\ Remove({c \in D : NoneRunning(c) /\ NoneExecuting(c)})

----------------------------------------------------------------------------
(* Time, and the loops of the retention manager. *)

LeaseExpires(c) ==
    /\ owner[c] # None
    /\ ~leaseOver[c]
    /\ leaseOver' = [leaseOver EXCEPT ![c] = TRUE]
    /\ UNCHANGED <<open, owner, turnVars, actionVars, runnerVars, worldVars>>

CardExpires(a) ==
    /\ action[a] = "pending"
    /\ ~ttlOver[a]
    /\ ttlOver' = [ttlOver EXCEPT ![a] = TRUE]
    /\ UNCHANGED <<convVars, turnVars, action, actTurn, deadlineOver, journal, results,
                   runnerVars, worldVars>>

DeadlinePasses(a) ==
    /\ action[a] = "executing"
    /\ ~deadlineOver[a]
    /\ deadlineOver' = [deadlineOver EXCEPT ![a] = TRUE]
    /\ UNCHANGED <<convVars, turnVars, action, actTurn, ttlOver, journal, results,
                   runnerVars, worldVars>>

\* A running turn that still owns the lease of its conversation, which ran out.
Orphaned(t) ==
    /\ status[t] = "running"
    /\ owner[turnConv[t]] = t
    /\ leaseOver[turnConv[t]]

\* Mutant of OrphanTurns: continuations are left to RecoverOrphanWrites.
OrphanPlainTurns == {t \in Turns : Orphaned(t) /\ ~IsConfirmTurn(t)}

OrphanTurns ==
    {t \in Turns : Orphaned(t) /\ ~\E a \in Actions : actTurn[a] = t /\ action[a] = "executing"}

OrphanWrites ==
    {a \in Actions : action[a] = "executing" /\ deadlineOver[a] /\ Orphaned(actTurn[a])}

RecoverOrphanTurns ==
    /\ OrphanTurns # {}
    /\ FinishTurns(OrphanTurns, "failed")
    /\ UNCHANGED <<actionVars, runnerVars, worldVars>>

RecoverOrphanWrites ==
    /\ OrphanWrites # {}
    /\ FinishTurns({actTurn[a] : a \in OrphanWrites}, "failed")
    /\ action' = [a \in Actions |-> IF a \in OrphanWrites THEN "unknown" ELSE action[a]]
    /\ journal' = [a \in Actions |-> IF a \in OrphanWrites THEN "unknown" ELSE journal[a]]
    /\ results' = [a \in Actions |-> IF a \in OrphanWrites THEN results[a] + 1 ELSE results[a]]
    /\ UNCHANGED <<actTurn, ttlOver, deadlineOver, runnerVars, worldVars>>

ExpireStale ==
    LET stale == {a \in Actions : action[a] = "pending" /\ ttlOver[a]} IN
    /\ stale # {}
    /\ Close(stale, "expired")
    /\ UNCHANGED <<convVars, turnVars, runnerVars, worldVars>>

ReconcileCounters ==
    /\ globalActive' = Cardinality(admitted)
    /\ userActive' = [u \in Users |-> Cardinality(OfUser(admitted, u))]
    /\ UNCHANGED <<convVars, status, turnConv, turnMsg, admitted, cancelReq, actionVars,
                   runnerVars, worldVars>>

----------------------------------------------------------------------------
(* The runner of a turn: run_agent_turn, or run_confirm_turn when the turn  *)
(* continues a confirmed card.                                              *)

CanRenew(t) == status[t] = "running" /\ LeaseAvailable(turnConv[t], t)

\* Where each renewal sits, and where the runner goes on when it succeeds.
RenewPoints == {<<"entering", "loop">>, <<"beforeLLM", "llm">>, <<"afterLLM", "reply">>,
                <<"beforeTool", "tool">>, <<"afterTool", "result">>, <<"confirm", "revalidate">>,
                <<"erring", "failing">>, <<"cancelling", "cancelled">>}

RenewOrStop(t) ==
    \E step \in RenewPoints :
        /\ pc[t] = step[1]
        /\ IF CanRenew(t)
             THEN Goto(t, step[2]) /\ TakeLease(turnConv[t], t)
             ELSE Goto(t, "off") /\ UNCHANGED <<owner, leaseOver>>
        /\ UNCHANGED <<open, turnVars, actionVars, worldVars>>

\* Steps of a runner that only read the database or call out.
Local(t) == UNCHANGED <<convVars, turnVars, actionVars, worldVars>>

\* A planning error of a continuation ends it quietly: its write is settled.
GiveUp(t) == IF IsConfirmTurn(t) THEN "completing" ELSE "erring"

\* _run_llm_loop looks for a stop request before its first renewal, and again at
\* the top of every iteration.
Begin(t) ==
    /\ pc[t] = "begin"
    /\ Goto(t, IF cancelReq[t] THEN "cancelling" ELSE "entering")
    /\ Local(t)

LoopTop(t) ==
    /\ pc[t] = "loop"
    /\ \/ cancelReq[t] /\ Goto(t, "cancelling")
       \/ ~cancelReq[t] /\ iter[t] >= MaxIterations /\ Goto(t, "completing")
       \/ /\ ~cancelReq[t] /\ iter[t] < MaxIterations
          /\ iter' = [iter EXCEPT ![t] = @ + 1]
          /\ pc' = [pc EXCEPT ![t] = "beforeLLM"]
    /\ Local(t)

CallLLM(t) ==
    /\ pc[t] = "llm"
    /\ Goto(t, "afterLLM") \/ Goto(t, GiveUp(t))
    /\ Local(t)

\* The reply is a final text, an empty text, or one tool call.
HandleReply(t) ==
    /\ pc[t] = "reply"
    /\ \/ cancelReq[t] /\ Goto(t, "cancelling")
       \/ ~cancelReq[t] /\ \E next \in {"completing", GiveUp(t), "beforeTool"} : Goto(t, next)
    /\ Local(t)

\* An unknown tool is answered at once; a known one is read or prepared.
RunTool(t) ==
    /\ pc[t] = "tool"
    /\ Goto(t, "loop") \/ Goto(t, "afterTool")
    /\ Local(t)

\* A read result or a correctable rejection goes back to the model.
ReturnResult(t) ==
    /\ pc[t] = "result"
    /\ Goto(t, "loop")
    /\ Local(t)

\* A rejection the model cannot correct ends the turn in the same transaction,
\* whatever has become of the turn and its lease.
RejectWrite(t) ==
    /\ pc[t] = "result"
    /\ status[t] # "deleted"
    /\ FinishTurns({t}, "failed")
    /\ Goto(t, "off")
    /\ UNCHANGED <<actionVars, worldVars>>

\* Mutant of CreatePending: the card does not name its turn.
CreatePendingUnlinked(t, a) ==
    /\ pc[t] = "result"
    /\ status[t] # "deleted"
    /\ NextRow(Actions, action, a)
    /\ action' = [action EXCEPT ![a] = "pending"]
    /\ FinishTurns({t}, "completed")
    /\ Goto(t, "off")
    /\ UNCHANGED <<actTurn, ttlOver, deadlineOver, journal, results, worldVars>>

\* A write tool becomes a card, and its turn ends, in one transaction.
CreatePending(t, a) ==
    /\ pc[t] = "result"
    /\ status[t] # "deleted"
    /\ NextRow(Actions, action, a)
    /\ action' = [action EXCEPT ![a] = "pending"]
    /\ actTurn' = [actTurn EXCEPT ![a] = t]
    /\ FinishTurns({t}, "completed")
    /\ Goto(t, "off")
    /\ UNCHANGED <<ttlOver, deadlineOver, journal, results, worldVars>>

\* complete_turn_release_lease: a no-op unless the turn still runs.
Complete(t) ==
    /\ pc[t] \in {"completing", "failing", "cancelled"}
    /\ IF status[t] = "running"
         THEN FinishTurns({t}, CASE pc[t] = "completing" -> "completed"
                                 [] pc[t] = "failing" -> "failed"
                                 [] pc[t] = "cancelled" -> "cancelled")
         ELSE UNCHANGED <<convVars, turnVars>>
    /\ Goto(t, "off")
    /\ UNCHANGED <<actionVars, worldVars>>

\* The payload or its files are missing; or, after the renewal, the target or
\* the permission to touch it is gone: nothing is sent.
RefuseWrite(t) ==
    /\ pc[t] \in {"confirm", "revalidate"}
    /\ Goto(t, "refuse")
    /\ Local(t)

\* execute_confirmed_write turns a payload for another team away without sending.
TurnAway(t) ==
    /\ pc[t] = "revalidate"
    /\ Goto(t, "failed")
    /\ Local(t)

SendWrite(t) ==
    /\ pc[t] = "revalidate"
    /\ write' = [write EXCEPT ![turnMsg[t]] = "inflight"]
    /\ sends' = [sends EXCEPT ![turnMsg[t]] = @ + 1]
    /\ Goto(t, "writing")
    /\ UNCHANGED <<convVars, turnVars, actionVars>>

\* The request is applied or turned down, whether or not anybody still waits.
WriteLands(a) ==
    /\ write[a] = "inflight"
    /\ \E fate \in {"applied", "refused"} : write' = [write EXCEPT ![a] = fate]
    /\ UNCHANGED <<convVars, turnVars, actionVars, runnerVars, sends>>

\* 2xx, a definite refusal, or anything from which the outcome cannot be told.
HearBack(t) ==
    /\ pc[t] = "writing"
    /\ \/ write[turnMsg[t]] = "applied" /\ Goto(t, "succeeded")
       \/ write[turnMsg[t]] = "refused" /\ Goto(t, "failed")
       \/ Goto(t, "unknown")
    /\ Local(t)

PendingStatus == [succeeded |-> "confirmed", failed |-> "failed", unknown |-> "unknown"]

\* The guard of Confirm Tx B: the turn runs and owns the lease, expired or not.
OwnerIsLive(t, a) ==
    /\ action[a] = "executing" /\ actTurn[a] = t
    /\ status[t] = "running" /\ owner[turnConv[t]] = t

Settle(a, outcome) ==
    /\ action' = [action EXCEPT ![a] = PendingStatus[outcome]]
    /\ journal' = [journal EXCEPT ![a] = outcome]
    /\ results' = [results EXCEPT ![a] = @ + 1]
    /\ UNCHANGED <<actTurn, ttlOver, deadlineOver>>

\* Confirm Tx B, and where the runner goes on when it wrote the outcome.
Finalize(t, outcome, next) ==
    /\ IF OwnerIsLive(t, turnMsg[t])
         THEN Settle(turnMsg[t], outcome) /\ Goto(t, next)
         ELSE Goto(t, "off") /\ UNCHANGED actionVars
    /\ UNCHANGED <<convVars, turnVars, worldVars>>

FinalizeOutcome(t) ==
    \/ pc[t] = "succeeded" /\ Finalize(t, "succeeded", "begin")
    \/ pc[t] \in {"failed", "unknown"} /\ Finalize(t, pc[t], "failing")
    \/ pc[t] = "refuse" /\ Finalize(t, "failed", "failing")

\* Mutant of FinalizeRaised: a failure after the request was sent counts as failed.
FinalizeRaisedAsFailed(t) ==
    /\ pc[t] \in {"raised", "raisedSent"}
    /\ IF OwnerIsLive(t, turnMsg[t]) THEN Settle(turnMsg[t], "failed") ELSE UNCHANGED actionVars
    /\ Goto(t, "failing")
    /\ UNCHANGED <<convVars, turnVars, worldVars>>

\* The exception handler of run_confirm_turn: what Tx B answers is not looked
\* at, and the turn is failed either way.
FinalizeRaised(t) ==
    /\ pc[t] \in {"raised", "raisedSent"}
    /\ LET outcome == IF pc[t] = "raised" THEN "failed" ELSE "unknown" IN
       IF OwnerIsLive(t, turnMsg[t]) THEN Settle(turnMsg[t], outcome) ELSE UNCHANGED actionVars
    /\ Goto(t, "failing")
    /\ UNCHANGED <<convVars, turnVars, worldVars>>

\* Any transaction or call of the runner may raise.
Raise(t) ==
    /\ \/ pc[t] \in LoopPoints /\ Goto(t, GiveUp(t))
       \/ pc[t] = "completing" /\ ~IsConfirmTurn(t) /\ Goto(t, "erring")
       \/ pc[t] \in {"confirm", "revalidate", "refuse"} /\ Goto(t, "raised")
       \/ pc[t] \in {"writing"} \cup Outcomes /\ Goto(t, "raisedSent")
    /\ Local(t)

\* The process dies, or the request fails before it spawns the runner.
Crash(t) ==
    /\ pc[t] # "off"
    /\ Goto(t, "off")
    /\ Local(t)

RunnerStep(t) ==
    \/ RenewOrStop(t) \/ Begin(t) \/ LoopTop(t) \/ CallLLM(t) \/ HandleReply(t)
    \/ RunTool(t) \/ ReturnResult(t) \/ RejectWrite(t) \/ (\E a \in Actions : CreatePending(t, a))
    \/ Complete(t) \/ RefuseWrite(t) \/ TurnAway(t) \/ SendWrite(t) \/ HearBack(t)
    \/ FinalizeOutcome(t) \/ FinalizeRaised(t) \/ Raise(t)

UserStep ==
    \/ \E c \in Convs, m \in Msgs, t \in Turns : StartTurn(c, m, t)
    \/ \E c \in Convs, a \in Actions, t \in Turns : Claim(c, a, t)
    \/ \E a \in Actions : RefuseConfirm(a) \/ CancelCard(a)
    \/ \E t \in Turns : RequestCancel(t)
    \/ \E c \in Convs : DeleteConversation(c)
    \/ \E D \in SUBSET Convs : BatchDelete(D)

Retention ==
    \/ RecoverOrphanTurns
    \/ RecoverOrphanWrites
    \/ ExpireStale
    \/ ReconcileCounters
    \/ \E D \in SUBSET Convs : PurgeExpired(D)

Clock ==
    \/ \E c \in Convs : LeaseExpires(c)
    \/ \E a \in Actions : CardExpires(a) \/ DeadlinePasses(a)

Next ==
    \/ UserStep
    \/ Retention
    \/ Clock
    \/ \E a \in Actions : WriteLands(a)
    \/ \E t \in Turns : RunnerStep(t) \/ Crash(t)

Spec == Init /\ [][Next]_vars

\* The recovery loop runs every minute, time passes, a live runner is scheduled
\* and every call it makes has a timeout.
Fairness ==
    /\ WF_vars(RecoverOrphanTurns)
    /\ WF_vars(RecoverOrphanWrites)
    /\ WF_vars(ExpireStale)
    /\ \A c \in Convs : WF_vars(LeaseExpires(c))
    /\ \A a \in Actions : WF_vars(CardExpires(a)) /\ WF_vars(DeadlinePasses(a))
    /\ \A a \in Actions : WF_vars(WriteLands(a))
    /\ \A t \in Turns : WF_vars(RunnerStep(t))

FairSpec == Spec /\ Fairness

----------------------------------------------------------------------------
(* Safety. *)

\* The lease of a conversation names a running turn of that conversation: no
\* end of a turn, recovery, takeover or deletion leaves a lease behind that
\* would keep the user out (_release_lease, recover_orphan_turns).
LeaseHeldByRunning ==
    \A c \in Convs : owner[c] # None => status[owner[c]] = "running" /\ turnConv[owner[c]] = c

\* The runtime counters equal the number of running turns, whoever ends a turn
\* and however often it is ended: an admission is returned exactly once
\* (_conditional_increment_counter, _release_admission_once).
AdmissionExact ==
    /\ admitted = {t \in Turns : status[t] = "running"}
    /\ globalActive = Cardinality(admitted)
    /\ \A u \in Users : userActive[u] = Cardinality(OfUser(admitted, u))

\* A tool call has no result while its card is open and exactly one afterwards,
\* and the journal tells the same story as the card, whichever of the user, the
\* runner, the recovery loop and a new message closed it.
HistoryClosed ==
    \A a \in Actions :
        /\ action[a] \in {"none", "pending", "executing"} => results[a] = 0
        /\ action[a] \in Resolved => results[a] = 1
        /\ action[a] \in {"none", "pending", "expired", "cancelled"} => journal[a] = "none"
        /\ action[a] = "executing" => journal[a] = "started"
        /\ \A o \in Outcomes : action[a] = PendingStatus[o] => journal[a] = o

\* Where a tool call stands for the user; the journal survives the conversation.
Stage ==
    [a \in Actions |->
        IF action[a] # "deleted" THEN action[a]
        ELSE IF journal[a] \in {"started", "unknown"} THEN "forgotten" ELSE "discarded"]

Promise == INSTANCE ConfirmedWrite WITH
    Writes <- Actions, stage <- Stage, fate <- write, sends <- sends

\* Confirmations, runners that pause or die, recovery and deletions together
\* keep the promise of ConfirmedWrite for every tool call: sent at most once,
\* only when confirmed, and reported truthfully (claim_pending_for_confirm,
\* run_confirm_turn, finalize_confirm_outcome).
KeepsPromise == Promise!Spec

----------------------------------------------------------------------------
(* Liveness, and statements the code does not keep. *)

NeverSuperseded(t) == [](status[t] = "running" => owner[turnConv[t]] = t)

\* A turn whose lease nobody took over ends, even when its runner died
\* (recover_orphan_turns).
UndisturbedTurnEnds ==
    \A t \in Turns : NeverSuperseded(t) => (status[t] = "running" ~> status[t] # "running")

\* A confirmed write whose turn was never taken over gets its outcome, even when
\* the runner died in the middle of it (recover_orphan_executing_pending).
UndisturbedWriteSettles ==
    \A a \in Actions, t \in Turns :
        NeverSuperseded(t) =>
            (action[a] = "executing" /\ actTurn[a] = t ~> action[a] # "executing")

\* openspec assistant-agent-loop: a turn left behind by an expired lease is
\* brought to failed or unknown.
OrphanedTurnEnds ==
    \A t \in Turns : status[t] = "running" ~> status[t] # "running"

=============================================================================
