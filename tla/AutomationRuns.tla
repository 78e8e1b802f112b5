--------------------------- MODULE AutomationRuns ---------------------------
(***************************************************************************)
(* Automation runs. A trigger starts a build on the CI server and inserts a *)
(* row for it; from then on a poll of the background leader, the run-status *)
(* webhook, cancel and reconcile write to the row. Each of them reads it,   *)
(* waits for the network, and then writes the columns it has changed.       *)
(***************************************************************************)
EXTENDS Naturals, FiniteSets

CONSTANTS
    NumRuns,
    Limit,          \* rows that one round of the poll takes
    Broken,         \* runs whose provider was deleted: asking for them always raises
    Watched,        \* runs that requests are made for
    Clients,        \* requests under way at once
    Results,        \* the ends of a build that Jenkins reports
    MaxRequests,    \* bounds of the model on requests and on faults
    MaxFaults

Runs == 1..NumRuns
Ends == {"SUCCESS", "FAILURE", "UNSTABLE", "ABORTED", "NOT_BUILT"}

ASSUME RunsAssumption ==
    /\ NumRuns \in Nat \ {0} /\ Limit \in Nat \ {0} /\ MaxRequests \in Nat /\ MaxFaults \in Nat
    /\ Broken \subseteq Runs /\ Watched \subseteq Runs /\ Results \subseteq Ends

VARIABLES
    ci,         \* what has become of the build of each run
    collected,  \* runs whose queue item Jenkins has dropped, after the build began
    row,        \* AutomationRun: status and external_run_id
    before,     \* the order of last_synced_at: never first, then longest ago, then id
    poll,       \* what sync_pending_runs has read and been told
    client,     \* and each request
    cancelled,  \* history: runs for which the CI server has taken a cancel
    requests, faults

vars == <<ci, collected, row, before, poll, client, cancelled, requests, faults>>

----------------------------------------------------------------------------
Pending == {"QUEUED", "RUNNING"}
TERMINAL_STATUSES == {"SUCCEEDED", "FAILED", "CANCELLED"}
Rows == [status : {"none", "UNKNOWN"} \cup Pending \cup TERMINAL_STATUSES,
         ref : {"none", "queue", "build"}]
Row(status, ref) == [status |-> status, ref |-> ref]

\* What a task has loaded, and the object as it stands: seen is what the columns are
\* compared with when the object is flushed.
Task == [op : {"poll", "webhook", "cancel", "reconcile"}, run : Runs, seen : Rows, object : Rows,
         stage : {"sent", "loaded", "answered", "raised"}]
Idle == [stage |-> "idle"]

Over(r) == ci[r] \in Results \cup {"ABORTED"}
Dispatched(r) == ci[r] = "building" \/ Over(r)

TypeOK ==
    /\ ci \in [Runs -> {"none", "queued", "waiting", "dropped", "building"} \cup Results \cup {"ABORTED"}]
    /\ collected \subseteq {r \in Runs : Dispatched(r)}
    /\ row \in [Runs -> Rows]
    /\ \A r \in Runs : /\ row[r].ref = "build" => Dispatched(r)
                       /\ row[r].status # "none" => ci[r] # "none"
    /\ before \subseteq Runs \X Runs
    /\ \A q, r \in Runs : (<<q, r>> \in before) <=> (q # r /\ <<r, q>> \notin before)
    /\ poll \subseteq Task
    /\ client \in [Clients -> Task \cup {Idle}]
    /\ cancelled \subseteq Runs
    /\ requests \in 0..MaxRequests /\ faults \in 0..MaxFaults

Init ==
    /\ ci = [r \in Runs |-> "none"] /\ collected = {}
    /\ row = [r \in Runs |-> Row("none", "none")]
    /\ before = {pair \in Runs \X Runs : pair[1] < pair[2]}
    /\ poll = {} /\ client = [c \in Clients |-> Idle]
    /\ cancelled = {} /\ requests = 0 /\ faults = 0

Fault == faults < MaxFaults /\ faults' = faults + 1

----------------------------------------------------------------------------
(* What the tasks share. *)

\* _map_jenkins_status, and get_run_status for an item of the queue without a build:
\* unknown once it was cancelled or has waited for a minute.
StatusOf == [none |-> "none", queued |-> "QUEUED", waiting |-> "UNKNOWN", dropped |-> "UNKNOWN",
             building |-> "RUNNING", SUCCESS |-> "SUCCEEDED", FAILURE |-> "FAILED",
             UNSTABLE |-> "FAILED", ABORTED |-> "CANCELLED", NOT_BUILT |-> "UNKNOWN"]

\* Mutant of GetRunStatus: the address is replaced before there is a build.
GetRunStatusOfBuild(r, ref) == Row(StatusOf[ci[r]], "build")

\* get_run_status: a queue item is gone some minutes after the build has begun; until
\* then it leads to the build, whose address replaces it.
GetRunStatus(r, ref) ==
    IF ref = "queue" /\ r \in collected THEN Row("UNKNOWN", "queue")
    ELSE Row(StatusOf[ci[r]], IF Dispatched(r) THEN "build" ELSE "queue")

\* Mutant of Saved: every column is written.
SavedWhole(task) == task.object

\* The unit of work: a column is written if the object differs from what was loaded.
Column(loaded, object, current) == IF object # loaded THEN object ELSE current
Saved(task) ==
    [status |-> Column(task.seen.status, task.object.status, row[task.run].status),
     ref |-> Column(task.seen.ref, task.object.ref, row[task.run].ref)]

\* Mutant of Synced: the time of the last round is not kept.
SyncedNever(runs) == before' = before

\* last_synced_at of these rows is now.
Synced(runs) ==
    before' = {pair \in before : pair[1] \in runs <=> pair[2] \in runs}
              \cup ((Runs \ runs) \X runs)

Load(op, r, object, stage) ==
    [op |-> op, run |-> r, seen |-> row[r], object |-> object, stage |-> stage]
Reached(task, stage, seen, object) ==
    [op |-> task.op, run |-> task.run, seen |-> seen, object |-> object, stage |-> stage]
Answer(task, object) == Reached(task, "answered", task.seen, object)

----------------------------------------------------------------------------
(* The CI server. *)

Goes(r, from, to) == ci[r] \in from /\ ci' = [ci EXCEPT ![r] = to]

Build(r) ==
    /\ \/ Goes(r, {"queued"}, "waiting")
       \/ Goes(r, {"queued", "waiting"}, "dropped")
       \/ Goes(r, {"queued", "waiting"}, "building")
       \/ \E result \in Results : Goes(r, {"building"}, result)
    /\ UNCHANGED <<collected, row, before, poll, client, cancelled, requests, faults>>

Collect(r) ==
    /\ Dispatched(r) /\ r \notin collected
    /\ collected' = collected \cup {r}
    /\ UNCHANGED <<ci, row, before, poll, client, cancelled, requests, faults>>

----------------------------------------------------------------------------
(* trigger_group_run *)

StartBuild(r) ==
    /\ Goes(r, {"none"}, "queued")
    /\ \A q \in 1..(r - 1) : ci[q] # "none"
    /\ UNCHANGED <<collected, row, before, poll, client, cancelled, requests, faults>>

\* The insert that follows; without it, after a crash, nobody knows of the build. The
\* server may have named no queue item.
InsertRun(r) ==
    /\ ci[r] # "none" /\ row[r] = Row("none", "none")
    /\ \E ref \in {"queue", "none"} : row' = [row EXCEPT ![r] = Row("QUEUED", ref)]
    /\ UNCHANGED <<ci, collected, before, poll, client, cancelled, requests, faults>>

----------------------------------------------------------------------------
(* sync_pending_runs, every minute, in one transaction. *)

Candidates == {r \in Runs : row[r].status \in Pending /\ row[r].ref # "none"}
Batch == {r \in Candidates : Cardinality({q \in Candidates : <<q, r>> \in before}) < Limit}

StartPoll ==
    /\ poll = {} /\ Batch # {}
    /\ poll' = {Load("poll", r, row[r], "loaded") : r \in Batch}
    /\ UNCHANGED <<ci, collected, row, before, client, cancelled, requests, faults>>

\* The rows are asked for one after the other; which first makes no difference here.
AskForPoll ==
    /\ \E task \in poll :
        /\ task.stage = "loaded"
        /\ \/ /\ task.run \notin Broken
              /\ poll' = (poll \ {task}) \cup {Answer(task, GetRunStatus(task.run, task.object.ref))}
              /\ UNCHANGED faults
           \/ /\ IF task.run \in Broken THEN UNCHANGED faults ELSE Fault
              /\ poll' = (poll \ {task}) \cup {Reached(task, "raised", task.seen, task.object)}
    /\ UNCHANGED <<ci, collected, row, before, client, cancelled, requests>>

CommitPoll ==
    /\ poll # {} /\ \A task \in poll : task.stage \in {"answered", "raised"}
    /\ LET answered == {task \in poll : task.stage = "answered"}
           runs == {task.run : task \in answered}
       IN /\ row' = [r \in Runs |-> IF r \in runs
                                    THEN Saved(CHOOSE task \in answered : task.run = r)
                                    ELSE row[r]]
          /\ Synced(runs)
    /\ poll' = {}
    /\ UNCHANGED <<ci, collected, client, cancelled, requests, faults>>

\* The leader ends, or the transaction fails.
LosePoll ==
    /\ poll # {} /\ Fault
    /\ poll' = {}
    /\ UNCHANGED <<ci, collected, row, before, client, cancelled, requests>>

----------------------------------------------------------------------------
(* Requests. *)

Begin(c, task) ==
    /\ client[c] = Idle /\ requests < MaxRequests
    /\ client' = [client EXCEPT ![c] = task] /\ requests' = requests + 1
Becomes(c, task) == client' = [client EXCEPT ![c] = task]
Holds(c, op, stage) == client[c] # Idle /\ client[c].op = op /\ client[c].stage = stage

\* The build reports where it is; the message may take its time.
SendStatus(c) ==
    /\ \E r \in Watched :
        /\ Dispatched(r)
        /\ Begin(c, Load("webhook", r, Row(StatusOf[ci[r]], "build"), "sent"))
    /\ UNCHANGED <<ci, collected, row, before, poll, cancelled, faults>>

\* Mutant of ApplyRunStatus: the status is taken from every message.
ApplyRunStatusAlways(c) ==
    /\ Holds(c, "webhook", "sent") /\ row[client[c].run].status # "none"
    /\ LET loaded == row[client[c].run]
       IN \E ref \in IF loaded.ref = "none" THEN {"none", "build"} ELSE {loaded.ref} :
            Becomes(c, Reached(client[c], "answered", loaded, Row(client[c].object.status, ref)))
    /\ UNCHANGED <<ci, collected, row, before, poll, cancelled, requests, faults>>

\* apply_run_status up to the flush: a run that is over keeps its status. The message
\* may name the build.
ApplyRunStatus(c) ==
    /\ Holds(c, "webhook", "sent") /\ row[client[c].run].status # "none"
    /\ LET loaded == row[client[c].run]
           status == IF loaded.status \in TERMINAL_STATUSES THEN loaded.status ELSE client[c].object.status
       IN \E ref \in IF loaded.ref = "none" THEN {"none", "build"} ELSE {loaded.ref} :
            Becomes(c, Reached(client[c], "answered", loaded, Row(status, ref)))
    /\ UNCHANGED <<ci, collected, row, before, poll, cancelled, requests, faults>>

LoadForCancel(c) ==
    /\ \E r \in Watched :
        /\ row[r].status \notin TERMINAL_STATUSES \cup {"none"} /\ row[r].ref # "none"
        /\ Begin(c, Load("cancel", r, row[r], "loaded"))
    /\ UNCHANGED <<ci, collected, row, before, poll, cancelled, faults>>

\* Mutant of CancelAtCI: a cancel that the server refuses counts as done.
CancelAtCIRegardless(c) ==
    /\ Holds(c, "cancel", "loaded")
    /\ LET r == client[c].run
       IN \/ /\ \/ client[c].seen.ref = "queue" /\ Goes(r, {"queued", "waiting"}, "dropped")
                \/ client[c].seen.ref = "build" /\ Goes(r, {"building"}, "ABORTED")
                \/ UNCHANGED ci
             /\ cancelled' = cancelled \cup {r}
             /\ Becomes(c, Answer(client[c], Row("CANCELLED", client[c].seen.ref)))
          \/ /\ Becomes(c, Answer(client[c], Row("CANCELLED", client[c].seen.ref)))
             /\ UNCHANGED <<ci, cancelled>>
    /\ UNCHANGED <<collected, row, before, poll, requests, faults>>

\* The provider's cancel_run: cancelItem, or stop and term. It may come too late for
\* the queue item or for the build, and succeed all the same. If the server refuses,
\* cancel_run raises and writes nothing.
CancelAtCI(c) ==
    /\ Holds(c, "cancel", "loaded")
    /\ LET r == client[c].run
       IN \/ /\ \/ client[c].seen.ref = "queue" /\ Goes(r, {"queued", "waiting"}, "dropped")
                \/ client[c].seen.ref = "build" /\ Goes(r, {"building"}, "ABORTED")
                \/ UNCHANGED ci
             /\ cancelled' = cancelled \cup {r}
             /\ Becomes(c, Answer(client[c], Row("CANCELLED", client[c].seen.ref)))
          \/ /\ Becomes(c, Idle)
             /\ UNCHANGED <<ci, cancelled>>
    /\ UNCHANGED <<collected, row, before, poll, requests, faults>>

\* reconcile_run: without a reference the user may give one; else the run is unknown.
LoadForReconcile(c) ==
    /\ \E r \in Watched :
        /\ row[r].status # "none"
        /\ \/ row[r].ref # "none" /\ Begin(c, Load("reconcile", r, row[r], "loaded"))
           \/ /\ row[r].ref = "none" /\ Dispatched(r)
              /\ Begin(c, Load("reconcile", r, Row(row[r].status, "build"), "loaded"))
           \/ row[r].ref = "none" /\ Begin(c, Load("reconcile", r, Row("UNKNOWN", "none"), "answered"))
    /\ UNCHANGED <<ci, collected, row, before, poll, cancelled, faults>>

AskForReconcile(c) ==
    /\ Holds(c, "reconcile", "loaded")
    /\ \/ /\ client[c].run \notin Broken
          /\ Becomes(c, Answer(client[c], GetRunStatus(client[c].run, client[c].object.ref)))
       \/ Becomes(c, Idle)
    /\ UNCHANGED <<ci, collected, row, before, poll, cancelled, requests, faults>>

\* The flush and the commit of a request.
Save(c) ==
    /\ client[c] # Idle /\ client[c].stage = "answered"
    /\ row' = [row EXCEPT ![client[c].run] = Saved(client[c])]
    /\ Synced({client[c].run})
    /\ Becomes(c, Idle)
    /\ UNCHANGED <<ci, collected, poll, cancelled, requests, faults>>

----------------------------------------------------------------------------
Poll == StartPoll \/ AskForPoll \/ CommitPoll

Request(c) ==
    \/ SendStatus(c) \/ ApplyRunStatus(c) \/ LoadForCancel(c) \/ CancelAtCI(c)
    \/ LoadForReconcile(c) \/ AskForReconcile(c) \/ Save(c)

Next ==
    \/ \E r \in Runs : Build(r) \/ Collect(r) \/ StartBuild(r) \/ InsertRun(r)
    \/ Poll \/ LosePoll
    \/ \E c \in Clients : Request(c)

Spec == Init /\ [][Next]_vars

\* The leader polls every minute, and a request to the CI server times out.
FairSpec == Spec /\ WF_vars(Poll)

----------------------------------------------------------------------------
(* Properties. *)

\* A row that says how the run ended says what became of the build, whatever message
\* came late; only where the CI server took a cancel it may say cancelled instead.
EndIsTrue ==
    \A r \in Runs : row[r].status \in TERMINAL_STATUSES =>
        \/ Over(r) /\ row[r].status = StatusOf[ci[r]]
        \/ r \in cancelled /\ row[r].status = "CANCELLED"

\* A status that ends a run is taken back only by reconcile, which asks the server
\* anew, or by one who had read the row before it got that status (TERMINAL_STATUSES,
\* apply_run_status).
EndIsKept ==
    [][\A r \in Runs :
        row[r].status \in TERMINAL_STATUSES /\ row'[r].status # row[r].status =>
            \E task \in poll \cup {client[c] : c \in Clients} :
                /\ task # Idle /\ task.run = r
                /\ task.op = "reconcile" \/ task.seen.status \notin TERMINAL_STATUSES]_vars

\* Once the row has the address of the build, no slower task puts the queue item back,
\* which the server forgets (_merge_status_snapshot).
BuildStaysKnown ==
    [][\A r \in Runs : row[r].ref = "build" => row'[r].ref = "build"]_vars

\* How the row of a build that has ended may be left.
Final(r) == {StatusOf[ci[r]], "UNKNOWN"} \cup (IF r \in cancelled THEN {"CANCELLED"} ELSE {})

\* One who asked before the build ended and is still to write what it was told.
Behind(task) ==
    /\ task.stage = "sent" \/ (task.stage = "answered" /\ task.object.status # task.seen.status)
    /\ task.object.status \notin Final(task.run)

Settled(r) ==
    /\ Over(r) /\ row[r].status \in Final(r)
    /\ \A task \in poll \cup {client[c] : c \in Clients} :
          task # Idle /\ task.run = r => ~Behind(task)

\* Once the build is over, the row says so and nobody is behind, the run is settled for
\* good, whatever rounds, messages, cancels and reconciles had begun or are still to
\* come (the unit of work, TERMINAL_STATUSES).
SettledStays == [][\A r \in Runs : Settled(r) => Settled(r)']_vars

\* A run whose build has ended is not left pending: in the end its row says how the
\* build ended, that it is not known, or that it was cancelled. No run that goes on
\* for long keeps another one from being asked for (_pending_run_order_clauses).
Settles ==
    \A r \in Runs \ Broken : row[r].ref # "none" /\ Over(r)
        ~> [](row[r].status \in Final(r))
=============================================================================
