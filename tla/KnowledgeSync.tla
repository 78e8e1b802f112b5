---------------------------- MODULE KnowledgeSync ----------------------------
(***************************************************************************)
(* The vector index follows the database. A request that has committed a    *)
(* change of a test case puts a task into a queue in the memory of its      *)
(* process; one worker per process writes to the index. Some requests put   *)
(* no task at all, and tasks that are lost are not made up for. One test    *)
(* case number is followed, of one team: the point of a number that two     *)
(* teams use is shared, which is left out, as are backfills. Story map      *)
(* nodes pass through the same queue: the saves and deletions of maps are   *)
(* reported by ids, as SaveMany and Remove, the other edits silent.         *)
(***************************************************************************)
EXTENDS Naturals, Sequences, FiniteSets

CONSTANTS
    Procs, Handlers,    \* worker processes, and requests under way
    MaxChanges,         \* bounds of the model on changes and on faults
    MaxFaults

ASSUME KnowledgeAssumption == MaxChanges \in Nat /\ MaxFaults \in Nat

VARIABLES
    db, index,      \* the version of the test case, 0: there is none, and its point
    handler,        \* requests between the commit and the enqueue
    life,           \* of the queue of each process
    queue, pending, \* KnowledgeSyncTaskQueue._queue and _pending_keys
    worker,
    report,         \* history: what the last change told the index, unless it is lost
    changes, faults

procVars == <<life, queue, pending, worker>>
vars == <<db, index, handler, procVars, report, changes, faults>>

----------------------------------------------------------------------------
Ops == {"upsert", "delete"}
Versions == 0..MaxChanges
\* A task of version 0 has no payload: the worker looks the test case up.
Tasks == [op : Ops, version : Versions]
Work == [op : Ops, version : Versions, fetched : BOOLEAN]
Idle == [op |-> "none"]
\* Only a point written from the database has the priority, the set, the section and the
\* tickets: the payloads of the requests leave some or all of them out, and a write
\* replaces the whole point.
Points == [version : Versions, whole : BOOLEAN]
NoPoint == [version |-> 0, whole |-> FALSE]
\* A deletion, a payload, a number to look up; lost when the index may not come to have it.
Reports == {"gone", "text", "all", "lost"}

OpsIn(tasks) == {tasks[i].op : i \in DOMAIN tasks}
OpsOf(p) == OpsIn(queue[p]) \cup ({worker[p].op} \ {"none"})

TypeOK ==
    /\ db \in Versions /\ index \in Points
    /\ handler \in [Handlers -> [proc : Procs, op : Ops, version : Versions] \cup {Idle}]
    /\ life \in [Procs -> {"running", "draining", "stopped"}]
    /\ queue \in [Procs -> Seq(Tasks)] /\ pending \in [Procs -> SUBSET Ops]
    /\ worker \in [Procs -> Work \cup {Idle}]
    /\ \A p \in Procs : life[p] = "stopped" => queue[p] = <<>> /\ pending[p] = {} /\ worker[p] = Idle
    /\ report \in Reports
    /\ changes \in 0..MaxChanges /\ faults \in 0..MaxFaults

Init ==
    /\ db = 0 /\ index = NoPoint
    /\ handler = [h \in Handlers |-> Idle]
    /\ life = [p \in Procs |-> "running"]
    /\ queue = [p \in Procs |-> <<>>] /\ pending = [p \in Procs |-> {}]
    /\ worker = [p \in Procs |-> Idle]
    /\ report = "gone" /\ changes = 0 /\ faults = 0

Busy(p) == queue[p] # <<>> \/ worker[p] # Idle
Waiting == {h \in Handlers : handler[h] # Idle}
Quiet == Waiting = {} /\ \A p \in Procs : ~Busy(p)
Fault == faults < MaxFaults /\ faults' = faults + 1

----------------------------------------------------------------------------
(* Requests. *)

\* What is under way elsewhere may reach the index after this change.
Alone(p) == Waiting = {} /\ \A q \in Procs \ {p} : ~Busy(q)

Tell(h, p, op, version, told) ==
    /\ handler[h] = Idle /\ life[p] = "running" /\ changes < MaxChanges
    /\ changes' = changes + 1
    /\ handler' = [handler EXCEPT ![h] = [proc |-> p, op |-> op, version |-> version]]
    /\ report' = IF Quiet \/ (report # "lost" /\ Alone(p)) THEN told ELSE "lost"
    /\ UNCHANGED <<index, procVars, faults>>

\* A create, a clone, an update, or a rename to this number: the text is the payload.
Save(h, p) == db' = changes + 1 /\ Tell(h, p, "upsert", changes + 1, "text")

\* A bulk create, a batch operation or a move: only the numbers are passed on.
SaveMany(h, p) == db' = changes + 1 /\ Tell(h, p, "upsert", 0, "all")

Remove(h, p) == db # 0 /\ db' = 0 /\ Tell(h, p, "delete", 0, "gone")

\* Nothing is told of the batch create of the app API, a commit of the QA helper, a
\* promotion of ad hoc items, the end of a set or a section, nor, of the number that
\* disappears, of the end of a team or a rename to another number.
ChangeSilently ==
    /\ changes < MaxChanges /\ changes' = changes + 1
    /\ \/ db' = changes + 1
       \/ db # 0 /\ db' = 0
    /\ report' = "lost"
    /\ UNCHANGED <<index, handler, procVars, faults>>

Put(p, task) ==
    /\ queue' = [queue EXCEPT ![p] = Append(@, task)]
    /\ pending' = [pending EXCEPT ![p] = @ \cup {task.op}]

\* Mutant of Enqueue: the key is checked after the queue is written to.
EnqueueTwice(h) ==
    /\ handler[h] # Idle
    /\ LET p == handler[h].proc
           task == [op |-> handler[h].op, version |-> handler[h].version]
       IN IF life[p] = "running"
          THEN Put(p, task) /\ report' = IF task.op \in pending[p] THEN "lost" ELSE report
          ELSE report' = "lost" /\ UNCHANGED <<queue, pending>>
    /\ handler' = [handler EXCEPT ![h] = Idle]
    /\ UNCHANGED <<db, index, life, worker, changes, faults>>

\* Mutant of Enqueue: the key leaves the operation out.
EnqueueByEntity(h) ==
    /\ handler[h] # Idle
    /\ LET p == handler[h].proc
           task == [op |-> handler[h].op, version |-> handler[h].version]
       IN IF life[p] = "running" /\ pending[p] = {}
          THEN Put(p, task) /\ UNCHANGED report
          ELSE /\ report' = IF life[p] # "running" \/ task.op \in pending[p] THEN "lost" ELSE report
               /\ UNCHANGED <<queue, pending>>
    /\ handler' = [handler EXCEPT ![h] = Idle]
    /\ UNCHANGED <<db, index, life, worker, changes, faults>>

\* enqueue: refused while the queue is stopped or stopping, and dropped when a task of
\* the same operation waits or is being worked on.
Enqueue(h) ==
    /\ handler[h] # Idle
    /\ LET p == handler[h].proc
           task == [op |-> handler[h].op, version |-> handler[h].version]
       IN IF life[p] = "running" /\ task.op \notin pending[p]
          THEN Put(p, task) /\ UNCHANGED report
          ELSE report' = "lost" /\ UNCHANGED <<queue, pending>>
    /\ handler' = [handler EXCEPT ![h] = Idle]
    /\ UNCHANGED <<db, index, life, worker, changes, faults>>

----------------------------------------------------------------------------
(* The worker: _worker_loop and write_entity. It goes on until the queue is empty when *)
(* the process stops. *)

Take(p) ==
    /\ worker[p] = Idle /\ queue[p] # <<>>
    /\ worker' = [worker EXCEPT ![p] = [op |-> Head(queue[p]).op, version |-> Head(queue[p]).version,
                                        fetched |-> FALSE]]
    /\ queue' = [queue EXCEPT ![p] = Tail(@)]
    /\ UNCHANGED <<db, index, handler, life, pending, report, changes, faults>>

\* The text is embedded after this, over the network.
Fetch(p) ==
    /\ worker[p] # Idle /\ worker[p].op = "upsert" /\ worker[p].version = 0 /\ ~worker[p].fetched
    /\ worker' = [worker EXCEPT ![p] = [op |-> "upsert", version |-> db, fetched |-> TRUE]]
    /\ UNCHANGED <<db, index, handler, life, queue, pending, report, changes, faults>>

\* What the task leaves in the index: nothing is written for an entity that was not found.
Result(work) ==
    IF work.op = "delete" THEN NoPoint
    ELSE IF work.version = 0 THEN index
    ELSE [version |-> work.version, whole |-> work.fetched]

Done(p) ==
    /\ worker' = [worker EXCEPT ![p] = Idle]
    /\ pending' = [pending EXCEPT ![p] = @ \ {worker[p].op}]

Write(p) ==
    /\ worker[p] # Idle
    /\ worker[p].op = "upsert" /\ worker[p].version = 0 => worker[p].fetched
    /\ index' = Result(worker[p])
    /\ Done(p)
    /\ UNCHANGED <<db, handler, life, queue, report, changes, faults>>

\* Mutant of Fail: the key is removed after a success only.
FailKeepingKey(p) ==
    /\ worker[p] # Idle /\ Fault
    /\ index' \in {index, Result(worker[p])}
    /\ worker' = [worker EXCEPT ![p] = Idle] /\ report' = "lost"
    /\ UNCHANGED <<db, handler, life, queue, pending, changes>>

\* The embedding or the index fails, before the write or after it: it is only logged.
Fail(p) ==
    /\ worker[p] # Idle /\ Fault
    /\ index' \in {index, Result(worker[p])}
    /\ Done(p) /\ report' = "lost"
    /\ UNCHANGED <<db, handler, life, queue, changes>>

----------------------------------------------------------------------------
(* Shutdown and start. *)

Stop(p) ==
    /\ life[p] = "running" /\ Fault
    /\ life' = [life EXCEPT ![p] = "draining"]
    /\ UNCHANGED <<db, index, handler, queue, pending, worker, report, changes>>

\* Mutant of Reset: the keys outlive the queue.
ResetQueue(p) ==
    /\ queue' = [queue EXCEPT ![p] = <<>>] /\ UNCHANGED pending
    /\ worker' = [worker EXCEPT ![p] = Idle]

\* _reset_async_state
Reset(p) ==
    /\ queue' = [queue EXCEPT ![p] = <<>>] /\ pending' = [pending EXCEPT ![p] = {}]
    /\ worker' = [worker EXCEPT ![p] = Idle]

\* The queue was joined, or the time for it is over and the worker is cancelled.
Stopped(p) ==
    /\ life[p] = "draining"
    /\ life' = [life EXCEPT ![p] = "stopped"]
    /\ index' \in IF worker[p] # Idle THEN {index, Result(worker[p])} ELSE {index}
    /\ Reset(p) /\ report' = IF Busy(p) THEN "lost" ELSE report
    /\ UNCHANGED <<db, handler, changes, faults>>

\* The process dies: its requests and its queue are gone.
Crash(p) ==
    /\ life[p] # "stopped" /\ Fault
    /\ life' = [life EXCEPT ![p] = "stopped"]
    /\ index' \in IF worker[p] # Idle THEN {index, Result(worker[p])} ELSE {index}
    /\ handler' = [h \in Handlers |->
                    IF handler[h] # Idle /\ handler[h].proc = p THEN Idle ELSE handler[h]]
    /\ Reset(p) /\ report' = IF Busy(p) \/ handler' # handler THEN "lost" ELSE report
    /\ UNCHANGED <<db, changes>>

Start(p) ==
    /\ life[p] = "stopped"
    /\ life' = [life EXCEPT ![p] = "running"]
    /\ UNCHANGED <<db, index, handler, queue, pending, worker, report, changes, faults>>

----------------------------------------------------------------------------
Works(p) == Take(p) \/ Fetch(p) \/ Write(p)

Next ==
    \/ \E h \in Handlers : Enqueue(h) \/ \E p \in Procs : Save(h, p) \/ SaveMany(h, p) \/ Remove(h, p)
    \/ ChangeSilently
    \/ \E p \in Procs : Works(p) \/ Fail(p) \/ Stop(p) \/ Stopped(p) \/ Crash(p) \/ Start(p)

Spec == Init /\ [][Next]_vars

\* The worker is a task of the running event loop, and its network calls time out.
FairSpec == Spec /\ \A p \in Procs : WF_vars(Works(p))

----------------------------------------------------------------------------
(* Properties. *)

\* The keys are those of the tasks that wait or are worked on, each once: a key too
\* many would shut an entity out of the index, one too few would let two tasks of it
\* through (enqueue, _worker_loop).
PendingExact ==
    \A p \in Procs :
        /\ pending[p] = OpsOf(p)
        /\ Cardinality(OpsOf(p)) = Len(queue[p]) + (IF worker[p] = Idle THEN 0 ELSE 1)

\* When nothing is under way, and the last change was told to the index, the point has
\* the version of the database, its attributes if the change was told by number, and
\* none if it was a deletion: updates and deletes through one process, one after the
\* other, never leave the index behind, however slow the worker is (enqueue's key),
\* and the first change told in a quiet moment makes up for everything that was not.
\* Lost is a change nothing is told of, one whose task was dropped, refused, failed or
\* gone with its process, and one that overlapped with another request or process.
IndexFollows ==
    Quiet /\ report # "lost" => index = [version |-> db, whole |-> report = "all"]

\* No task stays for ever, and its key does not block the entity (_worker_loop).
KeysAreFreed == \A p \in Procs, op \in Ops : op \in pending[p] ~> op \notin pending[p]

=============================================================================
