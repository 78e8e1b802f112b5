------------------------------ MODULE Scheduler ------------------------------
(***************************************************************************)
(* The scheduled services, run by the leader (BackgroundLeader). A service  *)
(* has a row in the database, which every process may change, and a copy in *)
(* the memory of every process, by which the leader's thread decides. One   *)
(* service is followed; its run is a coroutine on the event loop of the     *)
(* leader, for which the thread waits.                                      *)
(***************************************************************************)
EXTENDS BackgroundLeader

CONSTANTS
    Desks,       \* processes that the requests of administrators reach
    MaxClock,    \* bound of the model on the moments at which the service may fall due
    MaxChanges   \* bound of the model on changes of the schedule

ASSUME SchedulerAssumption == Desks \subseteq Procs /\ MaxClock \in Nat \ {0} /\ MaxChanges \in Nat

VARIABLES
    row,      \* the ScheduledService row
    mem,      \* TaskScheduler.tasks of each process
    exec,     \* where each process's run of the service is
    admin,    \* where its request of an administrator is: list_services or update
    read,     \* and what that request has loaded from the row
    clock,
    changes

taskVars == <<row, mem, exec, admin, read>>
vars == <<leaderVars, taskVars, clock, changes>>

----------------------------------------------------------------------------
\* next = 0: next_run_at is NULL.
Record == [enabled : BOOLEAN, next : 0..MaxClock + 1, running : BOOLEAN]
NewRecord == [enabled |-> FALSE, next |-> 0, running |-> FALSE]

TypeOK ==
    /\ LeaderTypeOK
    /\ row \in Record /\ mem \in [Procs -> Record] /\ read \in [Procs -> Record]
    /\ row.enabled <=> row.next # 0
    /\ exec \in [Procs -> {"idle", "starting", "running", "finishing"}]
    /\ admin \in [Procs -> {"idle", "load", "assign"}]
    /\ clock \in 1..MaxClock /\ changes \in 0..MaxChanges

Init ==
    /\ LeaderInit
    /\ row = NewRecord
    /\ mem = [p \in Procs |-> NewRecord] /\ read = [p \in Procs |-> NewRecord]
    /\ exec = [p \in Procs |-> "idle"] /\ admin = [p \in Procs |-> "idle"]
    /\ clock = 1 /\ changes = 0

\* _compute_next_run_at: the next moment after now.
NextRun(enabled) == IF enabled THEN clock + 1 ELSE 0
Schedule(enabled, running) == [enabled |-> enabled, next |-> NextRun(enabled), running |-> running]

\* Mutant of Settled: the next run is set for a disabled service as well.
SettledAlways(record) == [record EXCEPT !.running = FALSE, !.next = NextRun(TRUE)]
Settled(record) == Schedule(record.enabled, FALSE)

Put(p, record) == row' = record /\ mem' = [mem EXCEPT ![p] = record]
Run(p, from, to) == exec[p] = from /\ exec' = [exec EXCEPT ![p] = to]
Request(p, from, to) == admin[p] = from /\ admin' = [admin EXCEPT ![p] = to]

----------------------------------------------------------------------------
(* The election, and what it does to the tasks. *)

\* Mutant of Initialize: the rows are loaded as they are.
InitializeLoading(p) ==
    /\ StartServices(p)
    /\ Put(p, row)
    /\ UNCHANGED <<exec, admin, read, clock, changes>>

\* initialize recovers a row that says running, and start starts the thread.
Initialize(p) ==
    /\ StartServices(p)
    /\ Put(p, IF row.running THEN Settled(row) ELSE row)
    /\ UNCHANGED <<exec, admin, read, clock, changes>>

\* Nothing of a process survives its end.
Forget(p) ==
    /\ mem' = [mem EXCEPT ![p] = NewRecord] /\ read' = [read EXCEPT ![p] = NewRecord]
    /\ exec' = [exec EXCEPT ![p] = "idle"] /\ admin' = [admin EXCEPT ![p] = "idle"]
    /\ UNCHANGED <<row, clock, changes>>

Ends(p) == (Exit(p) \/ Crash(p)) /\ Forget(p)

\* stop does not wait for the thread: it is called on the event loop the run needs.
Elect(p) ==
    /\ \/ TryAcquire(p) \/ StartFails(p) \/ BootFails(p) \/ LoseConnection(p)
       \/ Stop(p) \/ Release(p) \/ Boot(p)
    /\ UNCHANGED <<taskVars, clock, changes>>

----------------------------------------------------------------------------
(* The thread of the leader. *)

\* Mutant of RunDue: the thread runs in every process.
RunDueAnywhere(p) ==
    /\ Up(p)
    /\ mem[p].enabled /\ mem[p].next # 0 /\ clock >= mem[p].next /\ ~mem[p].running
    /\ Run(p, "idle", "starting")
    /\ UNCHANGED <<leaderVars, row, mem, admin, read, clock, changes>>

\* _run_due_tasks looks at memory only.
RunDue(p) ==
    /\ Serving(p)
    /\ mem[p].enabled /\ mem[p].next # 0 /\ clock >= mem[p].next /\ ~mem[p].running
    /\ Run(p, "idle", "starting")
    /\ UNCHANGED <<leaderVars, row, mem, admin, read, clock, changes>>

\* _mark_task_started writes the row and copies it back to memory; when it raises the
\* run counts as failed.
MarkStarted(p) ==
    /\ \/ Run(p, "starting", "running") /\ Put(p, [row EXCEPT !.running = TRUE])
       \/ Run(p, "starting", "finishing") /\ UNCHANGED <<row, mem>>
    /\ UNCHANGED <<leaderVars, admin, read, clock, changes>>

RunnerReturns(p) ==
    /\ Run(p, "running", "finishing")
    /\ UNCHANGED <<leaderVars, row, mem, admin, read, clock, changes>>

\* _mark_task_finished, a second time when the first raised; when that raises too the
\* row stays as it is.
MarkFinished(p) ==
    /\ Run(p, "finishing", "idle")
    /\ \/ Put(p, Settled(row))
       \/ UNCHANGED <<row, mem>>
    /\ UNCHANGED <<leaderVars, admin, read, clock, changes>>

----------------------------------------------------------------------------
(* Requests of administrators. *)

UpdateServiceSchedule(p) ==
    /\ p \in Desks /\ pc[p] \notin {"down", "boot"} /\ Request(p, "idle", "load")
    /\ changes < MaxChanges /\ changes' = changes + 1
    /\ \E enabled \in BOOLEAN : row' = Schedule(enabled, row.running)
    /\ UNCHANGED <<leaderVars, mem, exec, read, clock>>

\* list_services; update ends with the same refresh.
ListServices(p) ==
    /\ p \in Desks /\ pc[p] \notin {"down", "boot"} /\ Request(p, "idle", "load")
    /\ UNCHANGED <<leaderVars, row, mem, exec, read, clock, changes>>

\* _refresh_from_database_async reads in a transaction ...
Load(p) ==
    /\ Request(p, "load", "assign")
    /\ read' = [read EXCEPT ![p] = row]
    /\ UNCHANGED <<leaderVars, row, mem, exec, clock, changes>>

\* ... and replaces the tasks when it is resumed after the commit.
Assign(p) ==
    /\ Request(p, "assign", "idle")
    /\ mem' = [mem EXCEPT ![p] = read[p]] /\ read' = [read EXCEPT ![p] = NewRecord]
    /\ UNCHANGED <<leaderVars, row, exec, clock, changes>>

Tick ==
    /\ clock < MaxClock /\ clock' = clock + 1
    /\ UNCHANGED <<leaderVars, taskVars, changes>>

Next ==
    \/ \E p \in Procs :
         \/ Elect(p) \/ Initialize(p) \/ Ends(p)
         \/ RunDue(p) \/ MarkStarted(p) \/ RunnerReturns(p) \/ MarkFinished(p)
         \/ UpdateServiceSchedule(p) \/ ListServices(p) \/ Load(p) \/ Assign(p)
    \/ DropOrphan /\ UNCHANGED <<taskVars, clock, changes>>
    \/ Tick

Spec == Init /\ [][Next]_vars

\* A candidate tries every 30 seconds, what start-up and shutdown call returns, the
\* server drops a dead session, and processes are restarted (restart: unless-stopped).
Fairness ==
    /\ WF_vars(DropOrphan /\ UNCHANGED <<taskVars, clock, changes>>)
    /\ \A p \in Procs :
         /\ WF_vars((TryAcquire(p) \/ Release(p) \/ Boot(p)) /\ UNCHANGED <<taskVars, clock, changes>>)
         /\ WF_vars(Initialize(p)) /\ WF_vars(Exit(p) /\ Forget(p))
         /\ WF_vars(MarkStarted(p) \/ RunnerReturns(p) \/ MarkFinished(p))

FairSpec == Spec /\ Fairness

----------------------------------------------------------------------------
(* Properties. *)

\* Two processes run the background services at once only if one of them has lost the
\* connection of its lock: not through shutdowns, crashes, or late starts.
ServicesAlone ==
    \A p, q \in Procs : Serving(p) /\ Serving(q) /\ p # q => p \in lost \/ q \in lost

\* Two runs of a service overlap only if one is that of a process which has lost its
\* connection, or which is past the release of the lock and about to exit: stop does
\* not wait for the run (TaskScheduler.stop, _run_shutdown).
RunsAlone ==
    \A p, q \in Procs :
        exec[p] # "idle" /\ exec[q] # "idle" /\ p # q =>
            \E r \in {p, q} : r \in lost \/ pc[r] = "leaving"

\* Nobody waits for ever beside a lock that nobody makes use of, unless its holder
\* could not start the services (_leader_retry_loop).
TakesOver ==
    \A p \in Procs : pc[p] = "waiting" ~> pc[p] # "waiting" \/ \E q \in Procs : pc[q] \in {"serving", "stuck"}

\* A run cut off by the end of its process does not leave the service marked as
\* running for good: the next leader finds it, if there is one (initialize, _recover_stale_record).
InterruptedIsRecovered ==
    (row.running /\ \A p \in Procs : exec[p] = "idle" /\ ~Serving(p))
        ~> (~row.running \/ (\E p \in Procs : pc[p] = "stuck") \/ \A p \in Procs : pc[p] = "aside")

\* openspec background-service-scaling: at any time only one process holds the
\* leadership and runs the background work.
OneLeader == \A p, q \in Procs : Serving(p) /\ Serving(q) => p = q

=============================================================================
