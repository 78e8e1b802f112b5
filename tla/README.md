# A TLA+ model of TCRT

TCRT (test case repository tool) is a FastAPI application, run as several worker processes over
one SQLite, MySQL or PostgreSQL database, with a browser front end. Most of it is create, read,
update and delete over that database, one transaction per request. This project models the parts
with a protocol of their own:

* the AI assistant: conversations whose turns are carried out by detached runners, streamed to the
  browser, stopped, superseded and recovered, and whose write tools run only after the user has
  confirmed a card;
* the QA AI helper: a session that goes from a ticket to committed test cases over waits for a
  language model, while other windows plan, lock, unlock and edit;
* the background leader and the services it schedules;
* automation runs, which a poll, a webhook and requests update from an external CI server;
* the index of the knowledge search, which follows the database through a queue.

All paths below are relative to the repository; `conversation_service.py`,
`assistant_agent_service.py`, `tool_executor.py`, `runner_supervisor.py` and `retention.py` are in
`app/services/assistant/`, the endpoints in `app/api/assistant.py`.

## The system's parts

| Part | State it keeps | Operations | What makes it correct |
|---|---|---|---|
| Turns, leases, admission (`conversation_service.py`, `retention.py`) | rows of conversations, turns, cards, journal, runtime counters | start, renew, complete, cancel, claim, finalise, recover, expire, delete, purge, reconcile | one owner per conversation; an admission returned exactly once; a closed card has exactly one result; an orphan is cleaned up |
| Runner (`assistant_agent_service.py`) | where it is in its loop | call the model, run a tool, propose a write, send a confirmed write | a runner that lost its lease does no harm; a write is sent at most once and reported truthfully |
| Confirmation (confirm and cancel endpoints) | the card and its fingerprint | read, revalidate, update, claim, replay | the write that runs is the one on the card; one fate per card |
| Runner supervisor (`runner_supervisor.py`) | a count of slots per process | reserve, release, spawn | every slot is given back once |
| Event log and streaming (`append_event`, `_tail_turn_events`, `assistant-widget.js`) | rows per turn, a cursor per stream, what the widget has shown | append, poll, send, reconnect | in order, no gap, no repetition, comes to an end |
| Tool executor (`tool_executor.py`) | none | loopback call, revalidation, batches | outcome classified so that "failed" is never said of what was applied |
| QA AI helper (`qa_ai_helper_service.py`, `app/api/qa_ai_helper.py`) | rows of a session, its plan, seed sets and draft sets | plan, lock, unlock, generate, refine, edit, select, commit, reopen, restart, delete | what can be committed is shown, selected and comes from locked seeds that have not changed |
| Background leader and scheduler (`runtime_locks.py`, `main.py`, `scheduler.py`) | a lock bound to a database connection, rows of services and their copies in memory | acquire, retry, lose, release; run due tasks, change schedules | one leader; a successor for every lock; no overlapping runs; an interrupted run is noticed |
| Automation runs (`app/services/automation/`) | rows of runs, and builds at the CI server | trigger, poll, webhook, cancel, reconcile | a row never says an end that did not come about; it stays ended; every run is settled |
| Knowledge index (`app/services/knowledge/`) | queue, dedup keys and worker per process, points in Qdrant | enqueue, take, write, stop, start | the keys are the tasks; what is reported alone reaches the index |
| Audit log (`app/audit/`) | buffer in memory | add, flush, requeue | no record lost or doubled while the process lives |
| The rest: test cases, runs, sets, user story maps, Lark and Jira, permissions, migrations, read APIs, front end | database rows | mostly one transaction per request | see `PROJECT.json` |

How they interact: an endpoint reserves a slot, commits a transaction that creates the turn
(`start_turn` or `claim_pending_for_confirm`), spawns the runner and answers with a stream. The
stream is not fed by the runner: it polls the event rows, so it may be served by any worker, and
outlives neither the request nor the runner. Runner, recovery loop and endpoints meet only in the
database, through compare-and-set updates; a runner that cannot renew its lease stops without a
word. A confirmed write is an HTTP call of the application to itself. The four other parts do not
call each other. The leader runs the poll of automation runs beside the scheduler; the QA helper's
commit and the test case endpoints enqueue into the knowledge queue after their commit.

What is hard to test: every transaction of a runner can be followed by a pause of any length or by
the death of the process; leases, cards and executions expire at any moment; two windows and two
workers act at once; the target of a card changes under it; the connection to the browser breaks
with rows in flight. Outside the assistant it is always the same thing in another form: something
is read, then the code waits, for a language model, for Jenkins, for an embedding, for an event
loop, and what it writes afterwards meets a state that others have moved on. `PROJECT.json` lists
these hazards one by one at their lines.

## Modules

**ConfirmedWrite** is the promise, without any of the machinery: a write tool call is proposed,
then confirmed or dropped by the user; it is sent only once it was confirmed, at most once; it
is reported as done only if it was applied and as failed only if it was not. The two
consequences a user cares about, `SentOnceIfConfirmed` and `ReportsTruth`, are proved of it in
`ConfirmedWrite_proof`. Two modules implement it: AssistantTurns for all the cards of a
conversation, ConfirmCard for one card with the confirm endpoint opened up. Its `Init` lets a write
start as a card that was put up before.

**TurnReport** is what the reader of a turn is promised: the rows in the order they were written,
each once, and an end only when it has been told all that was done up to it. It may give up. It
knows neither polls, cursors nor connections. TurnStream implements it.

**DraftReview** is what the user of the QA helper is promised about drafts: one set at a time is up
for review, only while its seeds are locked and unchanged, a set that was withdrawn does not come
back, and test cases come from the set in review alone. QASession implements it.

**AssistantTurns** is the core: one action per transaction (`run_write` call), together with the
local step of the runner that issued it.

* State: `open`, `owner`, `leaseOver` are columns of `AssistantConversation`; `status`,
  `turnConv`, `turnMsg`, `admitted`, `cancelReq` of `AssistantTurn`; `globalActive` and
  `userActive` are the rows of `AssistantRuntimeCounter`; `action`, `actTurn`, `ttlOver`,
  `deadlineOver`, `journal` belong to the pending action and its journal row; `results` counts the
  tool-result messages of a call. `pc` and `iter` are the runner of each turn. `write` and `sends`
  are what happens behind the loopback call and are not seen by the program except through
  `HearBack`.
* Time is three flags that may come up at any moment: lease over, card past its TTL, execution
  past its deadline. No bound relates them, so the model covers every setting of the timeouts and
  any pause of a runner.
* Ids of turns double as turn keys. A recovery key lives only inside one transaction and is left
  out. A message that was already started replays and is a stutter.
* Actions: `StartTurn`, `Claim`, `RefuseConfirm`, `CancelCard`, `RequestCancel`,
  `DeleteConversation`, `BatchDelete` for the endpoints; `RecoverOrphanTurns`,
  `RecoverOrphanWrites`, `ExpireStale`, `ReconcileCounters`, `PurgeExpired` for the retention
  manager; `RenewOrStop` to `Raise` for the runner, whose program points lie between its
  transactions; `Crash` for the process, and for a request that fails between commit and spawn.
* `Stage` maps the state to `ConfirmedWrite`, and `KeepsPromise` says that AssistantTurns
  implements it.

**TurnStream** is one turn's log and its reader: the runner reduced to what it writes (`Work`,
`Fail`, `EndAtOnce`, `Complete` followed by `CloseLog`), the recovery loop, another turn that
takes the lease over, deletion; the generator behind the stream (`Poll`, `Check`, `Yield`); the
widget (`Receive`, `StreamEnds`, `Retry`, `Drop`). A row is named by its place, and `KeepsReport`
maps the places the widget has got to the rows it was told.

**ConfirmCard** opens the `Claim` step of AssistantTurns. Each window follows the confirm endpoint
from the click through `ReadCard`, `FindContinuation`, `Revalidate`, `ExpireNow` or
`UpdateSummary`, `Reserve`, `OpenClaim`, `CommitClaim`, `ReleaseSlot`, `LookUpWinner` and
`Refetch`. The claim transaction is two steps because it calls back into the tool executor,
which reads in another session, before its last update; the lease row stays locked in between
(`locker`), as the update of the lease by an open transaction blocks the other claims, while
`update_pending_summary_cas` and `cancel_pending`, which do not touch the lease, may commit in
the gap. A fingerprint is the version of the target it was computed from, so it names the
identity and `updated_at` of what would be changed. The runner is followed to its last check, the
dispatch, and what it hears back; the application may apply the write or turn it down at any time
after the dispatch (`Land`), and a runner that hears nothing, or a recovery, says `unknown`
(`HearBack`). `KeepsPromise` maps this to ConfirmedWrite.

**QASession** is one session of the QA AI helper. Every operation of screens 2 to 7 that writes is
one action, because `_run_write` makes it one transaction; an operation that raises changes
nothing and is not enabled. The four operations that ask a model (`RunCouncilInspection`,
`ReadPlan`, `ReadSeedsToRefine`, `ReadSeeds`) are two actions, the read and the write, with any
number of other operations in between (`req`). `screen`, `status`, `plan`, `activeSeed` and
`activeDraft` are columns; a seed set is its status, whether its items still point to sections
of the plan, and, as history, whether it was used again after it had been superseded; a draft
set has its seed set, whether something is selected, and, as history, whether its seeds changed
after it was stored. Whether a ticket is valid, a plan complete or an item included is a free
choice. `KeepsReview` maps the draft sets to DraftReview: the grounds of a set are there when its
seeds are locked and have not changed (`Backed`).

**BackgroundLeader** is the election: the lock belongs to the session of a connection, which may
break without the leader noticing (`LoseConnection`), and lives on in the database until the
server drops it (`Orphan`). **Scheduler** extends it with the start of the services, the thread
of the leader, one service's row, its copy in the memory of every process (`mem`), the coroutine
that carries out a run (`exec`) and the requests of administrators, whose refresh of the copies
is a read (`Load`) and a later assignment (`Assign`).

**AutomationRuns** has the row of each run, the build as the CI server knows it (`ci`), the round
of the poll, which holds several loaded rows at once, and the requests (webhook, cancel,
reconcile), each a task that loads a row, asks over the network and saves. The unit of work
writes only the columns that differ from what was loaded: `Saved` merges a task into the row as
it is by then. `before` is the order of `last_synced_at` by which a round takes its rows. A run is
settled when its build is over, its row says an end, and no task holds an older answer
(`Settled`).

**KnowledgeSync** follows one test case number of one team: its version in the database, its point
in the index, requests between commit and enqueue, and of every process the queue, the dedup keys
and the worker. The endpoints report a change in three ways, each an action: with the text as
payload (`Save`: create, clone, update, and a rename for the number it gives), by number alone, so
that the worker reads the row (`SaveMany`: bulk create, batch operations, moves), or as a deletion
(`Remove`). `ChangeSilently` is a commit after which nothing is enqueued for the number: the batch
create of the app API (`app_test_cases.py:761-879`), a commit of the QA helper, a promotion of ad
hoc items (`adhoc.py:118-148`), the end of a set or a section, which moves its test cases, the end
of a team (`teams.py:348-350`), and a rename for the number it takes away. A point is `whole` when
the worker read the row: the payloads leave out some or all of priority, set, section and tickets,
and a write replaces the point. `report` is history: what the last change told the index (`text`,
`all`, `gone`), or `lost` when it told nothing, when its task was dropped, refused, failed or gone
with its process, or when it overlapped with another request or process. After that the code
promises nothing until a change is reported in a quiet moment, which makes up for all of it.

**MCAssistantTurns**, **MCConfirmCard** and **MCQASession** give instances for TLC; the other
modules are run as they are.

## Runs

| Run | Instance | Shows |
|---|---|---|
| `assistant_safety` | 1 conversation, 3 turns, 2 cards, 2 messages, limits 3 and 2, 1 iteration | type invariant, `LeaseHeldByRunning`, `AdmissionExact`, `HistoryClosed`, the refinement `KeepsPromise` |
| `assistant_liveness` | 2 turns, 1 card | a turn, and a confirmed write, that no other turn took over comes to an end whatever dies |
| `assistant_orphan` | the same | counterexample to "an orphaned turn is recovered": a superseded one is not |
| `turn_stream` | 2 rows of work and the end, 2 reconnects | `WaitsForEnd`, `ShownEverything`, the refinement `KeepsReport`, `WidgetSettles` |
| `stream_hang` | the same | counterexample to "a turn that is over ends its stream" |
| `confirm_card` | 3 windows, 1 click each, 2 slots, 3 versions of the target | `RunsAsClaimed`, `SlotsExact`, `StaleIsUpdated`, the refinement `KeepsPromise`, `CardMovesForward` |
| `unseen_card` | 1 window, 2 clicks, 2 versions | counterexample to "confirmed again after having seen the new summary" |
| `qa_session` | 1 request to a model, 2 seed sets, 2 draft sets | `LiveDraftSetShown`, `DraftsOfLockedSeeds`, `SelectionBehindScreen`, `ResultIsSettled`, `SeedsNeedLockedPlan`, the refinement `KeepsReview` |
| `scheduler` | 2 processes, 2 falls, 2 moments, 2 changes | `ServicesAlone`, `RunsAlone`, `TakesOver`, `InterruptedIsRecovered` |
| `two_leaders` | 2 processes, 1 fall | counterexample to "never two leaders" |
| `automation_runs` | 2 runs, 1 row per round, 1 request, 1 fault | `EndIsTrue`, `EndIsKept`, `BuildStaysKnown`, `SettledStays`, `Settles` |
| `knowledge_sync` | 2 processes, 2 requests, 3 changes, 1 fault | `PendingExact`, `IndexFollows`, `KeysAreFreed` |

Bounds. Three turns are enough for a source turn, the continuation of its card and a turn that
supersedes either; two cards for a continuation that proposes another write; one conversation
because turns of two conversations share only the counters, which the theorems cover for any
number of them. The user limit of 2 below three turns makes admission fail. One iteration of the
loop passes every program point, and a second one adds no new point; stops, errors and tools lead
back to the same points. In TurnStream two rows and the two of an end are enough for a gap, a
repetition and a row after the end; `MaxAttempts` 2 for a second reconnect. In ConfirmCard three
windows give a winner, a loser in the claim and a third that updates the card; three versions let
the card go forward and, if it could, back; two slots below three windows make the reservation
fail. `MaxEvents`, `MaxVersion` and `MaxClicks` are bounds of the model, not of the program.
Messages and windows are interchangeable, hence the symmetry sets; they are used in the runs
without liveness only. Deadlock is not checked for TurnStream: a widget that is done, with a dead
runner, has nothing left to do.

In QASession the rows of a second seed set and a second draft set give every pair of an old and a
new set; requests to a model do not see each other except through those rows, and the run passes
with two requests as well, only slower. `View` leaves out the contents of superseded draft sets,
which no operation reads, and requests and sets are interchangeable. A deleted session stops, so
deadlock is not checked.

In Scheduler one fall takes the lock away from a leader and a second one hits its successor;
`MaxFalls` counts shutdowns, crashes, broken connections and failed starts together, and the run
passes with three as well (334,084 states). Requests reach one process, which may be the leader or
not. `MaxClock` 2 lets a service fall due, run and fall due again.

In AutomationRuns a round of one row over two runs makes rows wait for each other; the second run
is the one no request is made for. Also passed, by hand: two requests with one fault (638,074
states), `Results` with a result that ends as failed (381,686), and one run with two clients,
three requests and three results (724,543), where requests race each other.

In KnowledgeSync three changes are an update, its deletion and another creation, or a silent change
and one that makes up for it; two requests overlap, two processes do. It passes with two faults as
well (107,554 states).

Fairness. The recovery loop runs every minute in the leader for as long as the application runs,
so its steps are weakly fair; time passes, so the three expiries are; a live runner is scheduled
by its event loop and every call it makes has a timeout, so its next step is. No fairness is
assumed of users, of `Crash`, or of connections that break. In TurnStream the generator polls
twice a second and the browser reads what arrives. In Scheduler a candidate tries every 30
seconds, the server drops a dead session, what start-up and shutdown call returns, and the
container is restarted (`restart: unless-stopped`); in AutomationRuns only the rounds of the poll
are fair, neither builds nor requests; in KnowledgeSync only the worker, whose network calls time
out. QASession has no liveness: everything in it waits for a user.

## What the counterexamples say

1. `OrphanedTurnEnds`: both recoveries select turns whose key is still `active_turn_key`. When a
   runner dies, its lease runs out and a new message takes it before the next round of recovery,
   the old turn stays `running`: its admission is not returned (and reconciliation counts it), and
   the conversation can be neither deleted nor purged.
2. `EndedTurnEndsStream`: the status and the last event are two transactions; a process that dies
   in between leaves a stream that polls for ever.
3. `ConfirmedAsShown`: the confirm request does not say which summary was shown, so after a failed
   reload, or in a second window, a confirmation counts for a card never seen.
4. `OneLeader`: nobody looks at the connection of the lock after it was taken. When it breaks, the
   leader goes on and another process is elected beside it. `ServicesAlone` says that this is the
   only way to two leaders.

## Where the code does less than one may expect

These were met while modelling; the properties above are stated so that they say what holds.

* A runner whose lease was lost can take it back: the update behind `renew_lease` also matches a
  lease that is free or over, so a superseded runner that comes back goes on, beside the newer
  turn or against it. `KeepsPromise` survives it: the claim and the second transaction of a
  confirmed write do not rest on the lease alone.
* The tail of the log decides to close by a later read than the one that found no rows; the widget
  reconnects and gets them (`ShownEverything`).
* A stop that arrives between the claim of a card and `run_confirm_turn` is not looked at before
  the write is sent. `reconcile_admission_counters` counts and sets in two statements.
* QA helper: a refinement that answers late, or a window that still shows an older seed set,
  writes to a superseded seed set and makes it a draft again while the plan is unlocked
  (`revived`), although `docs/QA_AI_HELPER_REWRITE_RUNBOOK.md` says an unlock invalidates seeds
  and drafts at once; it can then be locked and used, because locking seeds does not look at the
  plan. `SeedsNeedLockedPlan` says that this is the only way to seeds in use beside an unlocked
  plan, and `DraftsOfLockedSeeds` and `CasesFromLockedSeeds` hold of those seeds as well. Council
  inspection replaces the sections of a locked plan and leaves its seeds. Seeds that are unlocked,
  edited and locked again while drafts are being generated are not noticed (`stale` counts from
  when the drafts were stored). A commit with nothing to create completes the session.
* Scheduler: a change of the schedule through another worker does not reach the memory of the
  leader until somebody lists the services there; `stop` does not wait for a run; the assignment
  of an older read may put a run's mark back in memory; when recording the end of a run fails
  twice the row says running until the next leader. A process whose start-up raised before the
  election serves requests but never becomes leader, and its knowledge queue is not started; one
  whose services failed to start keeps the lock.
* Automation runs: a row whose provider was deleted raises in every round and keeps its place in
  front; a whole round of those would starve the rest (`Settles` is about the others). A run
  without an external id stays queued unless it is reconciled. One whose queue item took more than
  a minute, or was collected, becomes `UNKNOWN`, which the poll no longer asks about. A cancel of
  a queue item that was just dispatched may leave `CANCELLED` over a build that runs. A crash
  between the trigger and the insert leaves a build that nobody follows.
* Knowledge: a second update of an entity that is still queued is dropped although its payload is
  newer; a delete, a creation and a delete in quick succession may leave a ghost; two processes
  write in any order; a task that failed, or that was in the memory of a process that stopped, is
  lost. Without any of these the index still falls behind, because the change is not reported
  (`ChangeSilently`):
  * batch create commits test cases and enqueues nothing, as do the commit of the QA helper and the
    promotion of ad hoc items, although
    `openspec/changes/add-knowledge-graph-integration/specs/knowledge-qdrant-write/spec.md:17-20`
    says that a write task is enqueued when a test case is created or updated through the API;
  * the end of a team deletes its test cases and no task deletes their points;
  * a rename reports the new number only, so the point of the old one stays;
  * the end of a set or a section moves its test cases and does not report them, and points keep
    the old name of a team, set or section that is renamed;
  * the payload of an update has neither priority nor set, section and tickets, that of a create or
    a clone has some of them, and as a write replaces the whole point they are gone from the index
    until the test case is reported by number, or by a backfill (`whole`);
  * the id of a point and the filter of a delete are made of the number alone, while numbers are
    unique in a team only: two teams with one number share a point (not modelled);
  * of story map nodes, which pass through the same queue by their ids, only creating, saving and
    deleting a map is reported: moving a node, a text import and the relations between nodes are not
    (`user_story_maps.py:1898`, `:2141`, `:1432`).

## Proofs

`AssistantTurns_proof` proves for every value of the constants that meets `TurnsAssumption`
(finite turns, natural limits, disjoint names):

* `TypeCorrect`: the type invariant. It is inductive; its proof has one step per action, and
  lemmas for the pieces that the transactions share (`FinishTurns`, `InsertTurn`, `Goto`).
* `LeaseHeld` and `AdmissionStaysExact`: every step is one of six `TurnMove`s (a new turn, an end,
  a removal, a renewal, a reconciliation, or none of these), and each keeps the lease with a
  running turn and the counters equal to the number of running turns. The counting rests on the
  cardinality theorems of the library.
* `LeasesAreFenced` (`LeaseIsFenced`): a lease that is still good is lost only by the end of its
  holder, from the same case split and `LeaseHeld`.
* `HistoryStaysClosed`: every step is a `CardMove` of the same kind for cards.
* `OutcomesAreFenced` (`OutcomeIsFenced`): from the same moves, an outcome is written only for a
  turn that runs and was not overtaken, by its own runner, or by recovery after lease and deadline
  are over. A runner can take a lost lease back (see above); this says what protects the outcome.
* `PromiseKept`: the refinement, with the inductive invariant `IInv`, which is `TypeOK`,
  `HistoryClosed` and three more parts: `Bound` (an executing card belongs to the turn that
  continues it and no other turn does), `SentHasFate` (a write is sent at most once and then has a
  fate) and `RunnerKnows` (what the place of a runner says about its write: before `SendWrite` it
  was not sent, at `succeeded` it was applied, and so on). Without the last one a finalisation
  could not be shown to be truthful; without the first a second runner could send the same write.
* `NoWriteUnasked`: with the theorems of `ConfirmedWrite_proof`, nothing is sent unasked or twice,
  and reports are true.

`ConfirmCard_proof` proves every property of the run `confirm_card`, for any number of windows,
slots, clicks and changes (`CardAssumption`), with two invariants:

* `IInv` is `TypeOK`, `RunsAsClaimed`, `SlotsExact`, `OneRun` (a card has at most one
  continuation, and has it exactly when it was claimed) and `AsRead` (a request that is about to
  claim has computed the fingerprint it had read). Without `OneRun` a second append could not be
  excluded, and without `AsRead` the row compared by the claim need not be the row that the runner
  carries. Each action of a request has a lemma, and a step of the runner replaces the one record
  of `runs` (`RunnerKeeps`). A slot that leaves one set enters the other or is given back
  (`HeldMoves`, `AliveIsOne`). From it: `Typed`, `WriteIsAsClaimed`, `SlotsAreExact`,
  `CardHasOneFate`.
* `Ahead` orders the versions: what a request has read is not newer than the card, the card not
  newer than the target, and a request that is going to update the card found a newer version.
  From both: `StaleFindsNewer` and `CardNeverGoesBack`.

`CardKeepsPromise` is the refinement of ConfirmedWrite. It needs a third layer, `RunsFit`: what the
point of a runner says about card, sends and fate of the write (`Fits`), for the one record that
`OneRun` leaves (`RunnerDoes`, `RequestFits` and `OthersDo` keep it). Of the
actions only a few are visible to the promise (claim, withdrawal, dispatch, landing, outcome); all
others are stutters. `CardTellsTheTruth` puts it together with `ConfirmedWrite_proof`: an open or
withdrawn card was never sent, a claimed one at most once, and `confirmed` and `failed` say what
the write did.

`TurnStream_proof` proves the four invariants of the run `turn_stream`, for logs of any length and
any number of reconnects (`StreamAssumption`). The invariant has two halves. `TurnInv` is about
the log and its writers: an error is followed by no progress before the end (`ErrorIsLast`), which
rests on where a runner that wrote its error may be (`AfterError`). `ReaderInv` is about stream
and widget: what was dispatched, what is on its way and what is about to be sent are consecutive
(`Line`), and a stream counts as complete only after it has shown an end or an error (`Told`). A
step of one half changes nothing of the other, except that rows are appended, which `ReaderKeeps`
allows. `Typed`, `RowsInOrder`, `StreamWaits` and `WidgetShowsAll` follow; the last from `Told`
and `ErrorIsLast`. `StreamKeepsReport` is the refinement of TurnReport: a step of a writer appends
(`TurnWrites`), a row received is the next one (`ReceiveTells`, from `Line`), a stream that ends
complete ends with a reader that was told all (`StreamEndsFinishes`, from `WidgetShowsAll`'s
invariant), a retry beyond the limit gives up, and polls and lost connections are stutters.

`QASession_proof` proves every property of `qa_session`, for any number of requests, seed sets and
draft sets (`SessionAssumption`). `LiveDraftSetShown` and its companions are inductive only with
`ResultIsBacked` (what a reopened result brings back is still backed by locked seeds) and
`SeedsExist` (requests under way name seed sets that exist). Two more theorems are action
properties: `RetiredStay` (a superseded draft set stays so) and `CasesAreBacked` (a commit makes
test cases only of drafts with locked, unchanged seeds). `SessionKeepsReview`, the refinement of
DraftReview, first shows of every operation which of six effects it has on the draft sets
(`SeedEffects`, `DraftEffects`, `RequestEffects`, `SessionEffects`: it offers a set, commits it,
withdraws what is in review, keeps it on its grounds, closes the session, or touches nothing), and
then that each effect is a step of the review (`EffectReviews`).

`Scheduler_proof` proves `Typed`, `LeaderServesAlone` and `RunsDoNotOverlap` for any number of
processes and falls, from `HasLock` (who acts on the leadership has the lock or has lost its
connection) and `RunsOfLeader` (a run belongs to a leader or to a process on its way out).
`HeldLockIsUsed` is the safety half of `TakesOver`: the lock is never left with a process that went
down, waits, or has released it.

`AutomationRuns_proof` proves `Typed`, `RowsTellTheEnd`, `EndsAreKept` and `BuildsStayKnown` for
any number of runs, clients, requests and faults. Whatever a task holds was true when it was read,
and stays true because builds only go forward (`Steady`, `Frame`): `TaskOK` and `RowOK` say what
that is, and the facts about `Saved` carry it into the row. `Writers` names the steps that change
a row. `SettledRunsStay` is the safety half of `Settles`: once a run is settled no step unsettles
it, because a task read from then on reads the end (`LateTasks`), builds that are over stay over
(`FinalGrows`), and a save of such a task writes what is there. Without the condition on tasks
under way it is false: a late answer takes an end back, as `EndIsKept` allows.

`KnowledgeSync_proof` proves `Typed`, `KeysAreExact` and `IndexIsFollowing` for any number of
processes, requests, changes and faults (`KnowledgeAssumption`). The keys are counted process by
process: an operation that ends was in the queue once only, because the cardinality of the keys is
the number of tasks (`DoneKeeps`). `Followed` says that as long as the last report is not lost
everything under way is in one process, in one line, and the last of the line would leave in the
index what was reported of the version in the database (`Leaves`, and `WorkLeaves` once the worker
has read the row). `QueueStaysShort` follows from the keys: the queue has no bound of its
own, but of one entity it holds at most one task of each operation.

Checked by TLC only: everything under fairness (`UndisturbedTurnEnds`, `UndisturbedWriteSettles`,
`WidgetSettles`, `TakesOver`, `InterruptedIsRecovered`, `Settles`, `KeysAreFreed`), and the
counterexamples. Not provable with the provers at hand: liveness and `ENABLED`. The other way
round, some results are proved and are properties of no run. `RowsInOrder`, `RetiredStay`,
`CasesAreBacked`, `CardHasOneFate` and `QueueStaysShort` say in terms of the program what a
refinement or an invariant of the runs checks; `LeasesAreFenced`, `OutcomesAreFenced` and
`HeldLockIsUsed` were checked by TLC on the instances of `assistant_safety` and `scheduler` before
they were proved.

## What is not modelled

Atomicity below a transaction: `run_write` is not serialised on PostgreSQL and MySQL, so reads and
writes of one transaction may interleave with another's (`append_event`,
`reconcile_admission_counters`); the model does not say what happens then. The content of prompts,
messages and tool results; titles; attachments; the hourly bucket. A batch of writes counts as one
write. Slots of the message endpoint. Failures of the database other than an exception in the
runner (`Raise`) and an aborted claim. The permission cache: permissions are exact.

Of the QA helper the former pipeline of canonical requirements, planned sections and draft sets is
retired and left out, and so are telemetry and the content of what the models answer. Of the
automation hub: artifacts and `report_url`, suites, environments, script discovery and providers
other than Jenkins. Of the knowledge search: backfill, which writes to the index beside the queue,
the watermark loop, embeddings, queries, numbers that several teams use, and renamed teams, sets and
sections.
Of the scheduler: what the two services do. The audit buffer, moves of test cases and test run
sets, permissions, migrations, the integrations with Lark and Jira, and the read APIs:
`PROJECT.json` gives the reason for each. Most of the rest of the code are endpoints that validate
a request and commit one transaction, views of rows, prompts and presentation: there is no state
between their steps that an interleaving could disturb.

Smaller simplifications, none of which a property rests on. AssistantTurns: an exception while a
turn is already being ended as failed, cancelled or in error is left out, so such a runner stops
only with its process; the refusal of a message to a conversation whose team was deleted
(`conversation_service.py:485`) is left out, so the model starts more turns than the code. QASession:
the two reads before drafts are generated (`get_workspace` and the items of the seed set,
`qa_ai_helper_service.py:4076` and `:4115`) are one step. BackgroundLeader: a `try_acquire` that is
in its thread when shutdown cancels the retry loop (`main.py:427`) may still take the lock, which
is then free only once the process is gone; in the model the attempt ends with the loop. Scheduler:
the round of due services does not look at `running` between two services
(`scheduler.py:157-164`), so one more service may start after `stop`; with the one service that is
followed, a run starts in a process that serves.

## Plan

1. `BatchWrite`: the actions of one confirmed batch, their timeout and aggregate, refining
   `ConfirmedWrite`.
2. Slots of the message endpoint and its attachments, joined to `ConfirmCard`.
3. `AuditBuffer`: add, flush, requeue and drop; then the permission cache of several processes.
4. Case moves under a fingerprint and the status graph of test runs.
5. `append_event` and the counters without the atomicity of a transaction.
