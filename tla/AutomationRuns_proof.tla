------------------------ MODULE AutomationRuns_proof ------------------------
(***************************************************************************)
(* What the rows of automation runs say, for any number of runs, requests   *)
(* and faults. Whatever a task holds was true when it was read, and what    *)
(* is true of a build that is over stays true: a late write cannot lie.     *)
(***************************************************************************)
EXTENDS AutomationRuns, TLAPS

EndsTruly(r, status) ==
    status \in TERMINAL_STATUSES =>
        \/ Over(r) /\ status = StatusOf[ci[r]]
        \/ r \in cancelled /\ status = "CANCELLED"

\* What holds of the row of a run, and of what a task may put into it.
RowOK(r, content) ==
    /\ content.ref = "build" => Dispatched(r)
    /\ content.status # "none" => ci[r] # "none"
    /\ EndsTruly(r, content.status)

TaskOK(task) ==
    /\ ci[task.run] # "none"
    /\ RowOK(task.run, task.object)
    /\ task.object.ref # task.seen.ref => task.object.ref = "build"
    /\ task.stage = "loaded" => task.object.ref # "none"
    /\ task.op = "webhook" /\ task.stage = "sent" => task.object.ref = "build"
    /\ task.op \in {"poll", "cancel"} => task.seen.status \notin TERMINAL_STATUSES
    /\ task.op = "webhook" /\ task.stage = "answered" /\ task.seen.status \in TERMINAL_STATUSES
        => task.object.status = task.seen.status

Counters ==
    /\ cancelled \subseteq Runs
    /\ requests \in 0..MaxRequests /\ faults \in 0..MaxFaults
Builds ==
    /\ ci \in [Runs -> {"none", "queued", "waiting", "dropped", "building"} \cup Results \cup {"ABORTED"}]
    /\ collected \subseteq {r \in Runs : Dispatched(r)}
Order ==
    /\ before \subseteq Runs \X Runs
    /\ \A q, r \in Runs : (<<q, r>> \in before) <=> (q # r /\ <<r, q>> \notin before)
RowsOK == row \in [Runs -> Rows] /\ \A r \in Runs : RowOK(r, row[r])
PollOK == poll \subseteq Task /\ \A task \in poll : task.op = "poll" /\ TaskOK(task)
ClientsOK ==
    /\ client \in [Clients -> Task \cup {Idle}]
    /\ \A c \in Clients, task \in Task : client[c] = task => TaskOK(task)

IInv == Counters /\ Builds /\ Order /\ RowsOK /\ PollOK /\ ClientsOK

\* Builds go forward.
Steady ==
    /\ \A r \in Runs : /\ ci[r] # "none" => ci'[r] # "none"
                       /\ Dispatched(r) => Dispatched(r)'
                       /\ Over(r) => ci'[r] = ci[r]
    /\ cancelled \subseteq cancelled'

----------------------------------------------------------------------------
LEMMA StillSteady ==
    ASSUME UNCHANGED <<ci, cancelled>>
    PROVE  Steady /\ (Builds /\ collected' = collected => Builds')
BY DEF Steady, Dispatched, Over, Builds

\* What a task holds, and what a row says, stays true while builds go forward.
LEMMA Frame ==
    ASSUME Steady
    PROVE  /\ \A r \in Runs, content \in Rows : RowOK(r, content) => RowOK(r, content)'
           /\ \A task \in Task : TaskOK(task) => TaskOK(task)'
<1>1. ASSUME NEW r \in Runs, NEW content \in Rows, RowOK(r, content) PROVE RowOK(r, content)'
  BY <1>1 DEF Steady, RowOK, EndsTruly, Over
<1>2. ASSUME NEW task \in Task, TaskOK(task) PROVE TaskOK(task)'
  <2>1. task.run \in Runs /\ task.object \in Rows
    BY DEF Task
  <2>2. QED
    BY <1>1, <1>2, <2>1 DEF TaskOK, Steady
<1>3. QED
  BY <1>1, <1>2

\* A move of one build.
LEMMA GoesSteady ==
    ASSUME Builds, NEW r \in Runs, NEW from, NEW to, Goes(r, from, to), collected' = collected,
           cancelled \subseteq cancelled',
           \/ from \subseteq {"none", "queued", "waiting"}
              /\ to \in {"queued", "waiting", "dropped", "building"}
           \/ from = {"building"} /\ to \in Results \cup {"ABORTED"}
    PROVE  Steady /\ Builds'
<1>1. \A q \in Runs : ci'[q] = IF q = r THEN to ELSE ci[q]
  BY DEF Goes, Builds
<1>2. ci[r] \in from /\ ~Over(r) /\ to # "none"
  BY RunsAssumption DEF Goes, Over, Ends
<1>3. Dispatched(r) => Dispatched(r)'
  BY <1>1, RunsAssumption DEF Goes, Dispatched, Over, Ends
<1>4. \A q \in Runs : Dispatched(q) => Dispatched(q)'
  BY <1>1, <1>3 DEF Dispatched, Over
<1>5. Steady
  BY <1>1, <1>2, <1>4 DEF Steady
<1>6. Builds'
  <2>1. ci' \in [Runs -> {"none", "queued", "waiting", "dropped", "building"} \cup Results \cup {"ABORTED"}]
    BY DEF Goes, Builds
  <2>2. QED
    BY <1>4, <2>1 DEF Builds
<1>7. QED
  BY <1>5, <1>6

\* What the CI server answers is true.
LEMMA StatusFacts ==
    ASSUME Builds, NEW r \in Runs, NEW ref \in {"queue", "build"},
           ci[r] # "none", ref = "build" => Dispatched(r)
    PROVE  /\ GetRunStatus(r, ref) \in Rows
           /\ RowOK(r, GetRunStatus(r, ref))
           /\ GetRunStatus(r, ref).ref \in {ref, "build"}
           /\ Dispatched(r) => Row(StatusOf[ci[r]], "build") \in Rows /\ RowOK(r, Row(StatusOf[ci[r]], "build"))
<1>1. ci[r] \in {"none", "queued", "waiting", "dropped", "building"} \cup Ends
  BY RunsAssumption DEF Builds, Ends
<1>2. StatusOf[ci[r]] \in {"none", "UNKNOWN"} \cup Pending \cup TERMINAL_STATUSES
  BY <1>1 DEF StatusOf, Pending, TERMINAL_STATUSES, Ends
<1>3. StatusOf[ci[r]] \in TERMINAL_STATUSES => Over(r)
  BY <1>1 DEF StatusOf, TERMINAL_STATUSES, Ends, Over, Builds
<1>4. QED
  BY <1>2, <1>3 DEF GetRunStatus, Row, Rows, RowOK, EndsTruly, TERMINAL_STATUSES

\* What a task writes is true, and does not lose the address of the build.
LEMMA SavedFacts ==
    ASSUME RowsOK, NEW task \in Task, TaskOK(task)
    PROVE  /\ Saved(task) \in Rows /\ RowOK(task.run, Saved(task))
           /\ row[task.run].ref = "build" => Saved(task).ref = "build"
           /\ /\ task.stage = "answered" /\ row[task.run].status \in TERMINAL_STATUSES
              /\ Saved(task).status # row[task.run].status
              => task.op = "reconcile" \/ task.seen.status \notin TERMINAL_STATUSES
<1>1. /\ task.run \in Runs /\ task.object \in Rows /\ task.seen \in Rows
      /\ task.op \in {"poll", "webhook", "cancel", "reconcile"}
  BY DEF Task
<1>2. row[task.run] \in Rows /\ RowOK(task.run, row[task.run])
  BY <1>1 DEF RowsOK
<1>3. Saved(task) \in Rows
  BY <1>1, <1>2 DEF Saved, Column, Rows
<1>4. RowOK(task.run, Saved(task))
  BY <1>1, <1>2 DEF Saved, Column, RowOK, TaskOK, Rows
<1>5. QED
  BY <1>1, <1>2, <1>3, <1>4 DEF Saved, Column, TaskOK, Rows

\* The order of the rows stays one.
LEMMA OrderFacts ==
    ASSUME Order, NEW runs \in SUBSET Runs, Synced(runs)
    PROVE  Order'
<1>1. \A q, r \in Runs :
        <<q, r>> \in before' <=> IF q \in runs <=> r \in runs THEN <<q, r>> \in before
                                 ELSE r \in runs
  BY DEF Synced, Order
<1>2. before' \subseteq Runs \X Runs
  BY DEF Synced, Order
<1>3. QED
  BY <1>1, <1>2 DEF Order

----------------------------------------------------------------------------
\* The CI server and the trigger move builds only.
LEMMA BuildStep ==
    ASSUME IInv, NEW r \in Runs, Build(r) \/ Collect(r) \/ StartBuild(r)
    PROVE  IInv'
<1>1. Steady /\ Builds'
  <2>1. CASE Build(r)
    BY <2>1, GoesSteady DEF Build, IInv
  <2>2. CASE Collect(r)
    BY <2>2, StillSteady DEF Collect, IInv, Builds, Dispatched, Over
  <2>3. CASE StartBuild(r)
    BY <2>3, GoesSteady DEF StartBuild, IInv
  <2>4. QED
    BY <2>1, <2>2, <2>3
<1>2. UNCHANGED <<row, before, poll, client, cancelled, requests, faults>>
  BY DEF Build, Collect, StartBuild
<1>3. RowsOK' /\ PollOK' /\ ClientsOK'
  BY <1>1, <1>2, Frame DEF IInv, RowsOK, PollOK, ClientsOK
<1>4. QED
  BY <1>1, <1>2, <1>3 DEF IInv, Counters, Order

LEMMA InsertStep ==
    ASSUME IInv, NEW r \in Runs, InsertRun(r)
    PROVE  IInv'
<1>1. Steady /\ Builds'
  BY StillSteady DEF InsertRun, IInv
<1>2. \A ref \in {"queue", "none"} : Row("QUEUED", ref) \in Rows /\ RowOK(r, Row("QUEUED", ref))
  BY DEF InsertRun, Row, Rows, Pending, RowOK, EndsTruly, TERMINAL_STATUSES
<1>3. RowsOK'
  BY <1>1, <1>2, Frame DEF InsertRun, IInv, RowsOK
<1>4. PollOK' /\ ClientsOK'
  BY <1>1, Frame DEF InsertRun, IInv, PollOK, ClientsOK
<1>5. QED
  BY <1>1, <1>3, <1>4 DEF InsertRun, IInv, Counters, Order

\* A round of the poll.
LEMMA PollStep ==
    ASSUME IInv, Poll \/ LosePoll
    PROVE  IInv'
<1>1. Steady /\ Builds'
  BY StillSteady DEF Poll, StartPoll, AskForPoll, CommitPoll, LosePoll, IInv
<1>2. ClientsOK' /\ Counters'
  BY <1>1, Frame, RunsAssumption
  DEF Poll, StartPoll, AskForPoll, CommitPoll, LosePoll, IInv, ClientsOK, Counters, Fault
<1>3. ASSUME row' = row PROVE RowsOK'
  BY <1>1, <1>3, Frame DEF IInv, RowsOK
<1>4. CASE StartPoll
  <2>1. ASSUME NEW r \in Batch
        PROVE  /\ Load("poll", r, row[r], "loaded") \in Task
               /\ TaskOK(Load("poll", r, row[r], "loaded"))
    <3>1. /\ r \in Runs /\ row[r] \in Rows /\ RowOK(r, row[r])
          /\ row[r].status \in Pending /\ row[r].ref # "none"
      BY <2>1 DEF Batch, Candidates, IInv, RowsOK
    <3>2. QED
      BY <3>1 DEF Load, Task, TaskOK, RowOK, Pending, TERMINAL_STATUSES
  <2>2. PollOK'
    BY <1>1, <1>4, <2>1, Frame DEF StartPoll, PollOK, Load
  <2>3. QED
    BY <1>1, <1>2, <1>3, <1>4, <2>2 DEF StartPoll, IInv, Order
<1>5. CASE AskForPoll
  <2>1. PICK task \in poll :
            /\ task.stage = "loaded"
            /\ \/ poll' = (poll \ {task}) \cup {Answer(task, GetRunStatus(task.run, task.object.ref))}
               \/ poll' = (poll \ {task}) \cup {Reached(task, "raised", task.seen, task.object)}
    BY <1>5 DEF AskForPoll
  <2>2. /\ task \in Task /\ TaskOK(task) /\ task.op = "poll"
        /\ task.run \in Runs /\ task.object \in Rows /\ task.seen \in Rows
    BY <2>1 DEF IInv, PollOK, Task
  <2>3. task.object.ref \in {"queue", "build"}
    BY <2>1, <2>2 DEF TaskOK, Rows
  <2>4. LET answer == GetRunStatus(task.run, task.object.ref)
        IN  answer \in Rows /\ RowOK(task.run, answer) /\ answer.ref \in {task.object.ref, "build"}
    BY <2>2, <2>3, StatusFacts DEF IInv, TaskOK, RowOK
  <2>5. LET new == Answer(task, GetRunStatus(task.run, task.object.ref))
        IN  new \in Task /\ new.op = "poll" /\ TaskOK(new)
    BY <2>2, <2>4 DEF Answer, Reached, Task, TaskOK
  <2>6. LET new == Reached(task, "raised", task.seen, task.object)
        IN  new \in Task /\ new.op = "poll" /\ TaskOK(new)
    BY <2>2 DEF Reached, Task, TaskOK
  <2>7. poll' \subseteq Task /\ \A t \in poll' : t.op = "poll" /\ TaskOK(t)
    BY <2>1, <2>5, <2>6 DEF IInv, PollOK
  <2>8. PollOK'
    BY <1>1, <2>7, Frame DEF PollOK
  <2>9. QED
    BY <1>1, <1>2, <1>3, <1>5, <2>8 DEF AskForPoll, IInv, Order
<1>6. CASE CommitPoll
  <2> DEFINE answered == {task \in poll : task.stage = "answered"}
             runs == {task.run : task \in answered}
             Chosen(r) == CHOOSE task \in answered : task.run = r
  <2>1. /\ row' = [r \in Runs |-> IF r \in runs THEN Saved(Chosen(r)) ELSE row[r]]
        /\ Synced(runs) /\ poll' = {}
    BY <1>6 DEF CommitPoll
  <2>2. \A r \in runs : Chosen(r) \in answered /\ Chosen(r).run = r
    OBVIOUS
  <2>3. ASSUME NEW r \in runs PROVE Saved(Chosen(r)) \in Rows /\ RowOK(r, Saved(Chosen(r)))
    <3>1. Chosen(r) \in Task /\ TaskOK(Chosen(r)) /\ Chosen(r).run = r
      BY <2>2, <2>3 DEF IInv, PollOK
    <3> HIDE DEF Chosen
    <3>2. QED
      BY <3>1, SavedFacts DEF IInv
  <2>4. runs \in SUBSET Runs
    BY DEF IInv, PollOK, Task
  <2> HIDE DEF runs, Chosen
  <2>5. RowsOK'
    <3>1. \A r \in Runs : row'[r] \in Rows /\ RowOK(r, row'[r])
      BY <2>1, <2>3 DEF IInv, RowsOK
    <3>2. row' \in [Runs -> Rows]
      BY <2>1, <3>1
    <3>3. QED
      BY <1>1, <3>1, <3>2, Frame DEF RowsOK
  <2>6. QED
    BY <1>1, <1>2, <2>1, <2>4, <2>5, OrderFacts DEF IInv, PollOK
<1>7. CASE LosePoll
  BY <1>1, <1>2, <1>3, <1>7 DEF LosePoll, IInv, Order, PollOK
<1>8. QED
  BY <1>4, <1>5, <1>6, <1>7 DEF Poll

----------------------------------------------------------------------------
\* A request that goes on, or begins, or ends.
LEMMA ClientMoves ==
    ASSUME IInv, Steady, Builds', NEW c \in Clients, NEW new \in Task \cup {Idle}, Becomes(c, new),
           new \in Task => TaskOK(new)', poll' = poll
    PROVE  ClientsOK' /\ PollOK'
<1>1. PollOK'
  BY Frame DEF IInv, PollOK
<1>2. client' \in [Clients -> Task \cup {Idle}]
  BY DEF Becomes, IInv, ClientsOK
<1>3. \A d \in Clients : client'[d] = IF d = c THEN new ELSE client[d]
  BY DEF Becomes, IInv, ClientsOK
<1>4. \A d \in Clients, task \in Task : client'[d] = task => TaskOK(task)'
  BY <1>3, Frame DEF IInv, ClientsOK
<1>5. QED
  BY <1>1, <1>2, <1>4 DEF ClientsOK

\* What a request that is under way holds.
LEMMA Held ==
    ASSUME IInv, NEW c \in Clients, client[c] # Idle
    PROVE  /\ client[c] \in Task /\ TaskOK(client[c])
           /\ client[c].run \in Runs /\ client[c].seen \in Rows /\ client[c].object \in Rows
           /\ row[client[c].run] \in Rows /\ RowOK(client[c].run, row[client[c].run])
BY DEF IInv, ClientsOK, RowsOK, Task

LEMMA RowsStay ==
    ASSUME IInv, Steady, row' = row PROVE RowsOK'
BY Frame DEF IInv, RowsOK

\* The requests that begin.
LEMMA BeginStep ==
    ASSUME IInv, NEW c \in Clients, SendStatus(c) \/ LoadForCancel(c) \/ LoadForReconcile(c)
    PROVE  IInv'
<1>1. /\ UNCHANGED <<ci, collected, row, before, poll, cancelled, faults>> /\ Steady /\ Builds'
      /\ requests' = requests + 1 /\ requests < MaxRequests
  BY StillSteady DEF SendStatus, LoadForCancel, LoadForReconcile, Begin, IInv
<1>2. \E new \in Task : TaskOK(new) /\ Becomes(c, new)
  <2>1. CASE SendStatus(c)
    <3>1. PICK r \in Watched :
              Dispatched(r) /\ Becomes(c, Load("webhook", r, Row(StatusOf[ci[r]], "build"), "sent"))
      BY <2>1 DEF SendStatus, Begin, Becomes
    <3>2. r \in Runs /\ row[r] \in Rows /\ ci[r] # "none"
      BY <3>1, RunsAssumption DEF IInv, RowsOK, Dispatched, Over, Ends
    <3>3. Row(StatusOf[ci[r]], "build") \in Rows /\ RowOK(r, Row(StatusOf[ci[r]], "build"))
      BY <3>1, <3>2, StatusFacts DEF IInv
    <3>4. QED
      BY <3>1, <3>2, <3>3 DEF Load, Row, Task, TaskOK
  <2>2. CASE LoadForCancel(c)
    <3>1. PICK r \in Watched :
              /\ row[r].status \notin TERMINAL_STATUSES \cup {"none"} /\ row[r].ref # "none"
              /\ Becomes(c, Load("cancel", r, row[r], "loaded"))
      BY <2>2 DEF LoadForCancel, Begin, Becomes
    <3>2. r \in Runs /\ row[r] \in Rows /\ RowOK(r, row[r])
      BY RunsAssumption DEF IInv, RowsOK
    <3>3. QED
      BY <3>1, <3>2 DEF Load, Task, TaskOK, RowOK
  <2>3. CASE LoadForReconcile(c)
    <3>1. PICK r \in Watched :
              /\ row[r].status # "none"
              /\ \/ row[r].ref # "none" /\ Becomes(c, Load("reconcile", r, row[r], "loaded"))
                 \/ /\ row[r].ref = "none" /\ Dispatched(r)
                    /\ Becomes(c, Load("reconcile", r, Row(row[r].status, "build"), "loaded"))
                 \/ /\ row[r].ref = "none"
                    /\ Becomes(c, Load("reconcile", r, Row("UNKNOWN", "none"), "answered"))
      BY <2>3 DEF LoadForReconcile, Begin, Becomes
    <3>2. r \in Runs /\ row[r] \in Rows /\ RowOK(r, row[r])
      BY RunsAssumption DEF IInv, RowsOK
    <3>3. QED
      BY <3>1, <3>2 DEF Load, Row, Rows, Task, TaskOK, RowOK, EndsTruly, TERMINAL_STATUSES
  <2>4. QED
    BY <2>1, <2>2, <2>3
<1>3. ClientsOK' /\ PollOK'
  BY <1>1, <1>2, ClientMoves, Frame
<1>4. Counters'
  BY <1>1, RunsAssumption DEF IInv, Counters
<1>5. QED
  BY <1>1, <1>3, <1>4, RowsStay DEF IInv, Order

\* The requests that are answered, or refused.
LEMMA AnswerStep ==
    ASSUME IInv, NEW c \in Clients, ApplyRunStatus(c) \/ CancelAtCI(c) \/ AskForReconcile(c)
    PROVE  IInv'
<1> DEFINE r == client[c].run
<1>1. UNCHANGED <<collected, row, before, poll, requests, faults>> /\ client[c] # Idle
  BY DEF ApplyRunStatus, CancelAtCI, AskForReconcile, Holds
<1>2. /\ client[c] \in Task /\ TaskOK(client[c]) /\ r \in Runs
      /\ client[c].seen \in Rows /\ client[c].object \in Rows
      /\ row[r] \in Rows /\ RowOK(r, row[r])
  BY <1>1, Held
<1> HIDE DEF r
<1>3. Steady /\ Builds' /\ cancelled' \subseteq Runs
  <2>1. CASE UNCHANGED <<ci, cancelled>>
    BY <1>1, <2>1, StillSteady DEF IInv, Counters
  <2>2. CASE CancelAtCI(c) /\ cancelled' = cancelled \cup {r}
    <3>1. \/ Goes(r, {"queued", "waiting"}, "dropped") \/ Goes(r, {"building"}, "ABORTED")
          \/ UNCHANGED ci
      BY <2>2, Zenon DEF CancelAtCI, r
    <3>2. CASE UNCHANGED ci
      BY <1>1, <1>2, <2>2, <3>2 DEF IInv, Counters, Steady, Builds, Dispatched, Over
    <3>3. QED
      BY <1>1, <1>2, <2>2, <3>1, <3>2, GoesSteady DEF IInv, Counters
  <2>3. QED
    BY <2>1, <2>2 DEF ApplyRunStatus, CancelAtCI, AskForReconcile, r
<1>4. ClientsOK' /\ PollOK'
  <2>1. CASE ApplyRunStatus(c)
    <3>1. PICK ref \in IF row[r].ref = "none" THEN {"none", "build"} ELSE {row[r].ref} :
            LET status == IF row[r].status \in TERMINAL_STATUSES THEN row[r].status
                          ELSE client[c].object.status
            IN  Becomes(c, Reached(client[c], "answered", row[r], Row(status, ref)))
      BY <2>1 DEF ApplyRunStatus, r
    <3>2. /\ client[c].op = "webhook" /\ client[c].stage = "sent"
          /\ UNCHANGED <<ci, cancelled>>
      BY <2>1 DEF ApplyRunStatus, Holds
    <3>3. PICK status : status = IF row[r].status \in TERMINAL_STATUSES THEN row[r].status
                                 ELSE client[c].object.status
      OBVIOUS
    <3>4. PICK new : new = Reached(client[c], "answered", row[r], Row(status, ref))
      OBVIOUS
    <3>5. ref = "build" => Dispatched(r)
      BY <1>2, <3>1, <3>2 DEF TaskOK, RowOK, r
    <3>6. new \in Task
      BY <1>2, <3>1, <3>2, <3>3, <3>4 DEF Reached, Row, Rows, Task, r
    <3>7. TaskOK(new)
      BY <1>2, <3>1, <3>2, <3>3, <3>4, <3>5 DEF Reached, Row, TaskOK, RowOK, EndsTruly, r
    <3>8. TaskOK(new)'
      BY <1>3, <3>6, <3>7, Frame
    <3>9. QED
      BY <1>1, <1>3, <3>1, <3>3, <3>4, <3>6, <3>8, ClientMoves
  <2>2. CASE CancelAtCI(c)
    <3>1. client[c].op = "cancel" /\ client[c].stage = "loaded"
      BY <2>2 DEF CancelAtCI, Holds
    <3>2. PICK new, s : s = r /\ new = Answer(client[c], Row("CANCELLED", client[c].seen.ref))
      OBVIOUS
    <3>3. \/ Becomes(c, Idle)
          \/ Becomes(c, new) /\ cancelled' = cancelled \cup {s}
      BY <2>2, <3>2 DEF CancelAtCI, r
    <3>4. new \in Task /\ new.run = s /\ s \in Runs
      BY <1>2, <3>1, <3>2 DEF Answer, Reached, Row, Rows, Task, TERMINAL_STATUSES, r
    <3>5. /\ new.op = "cancel" /\ new.stage = "answered" /\ new.object.status = "CANCELLED"
          /\ new.object.ref = new.seen.ref /\ new.seen.status \notin TERMINAL_STATUSES
          /\ ci[s] # "none" /\ (new.object.ref = "build" => Dispatched(s))
      BY <1>2, <3>1, <3>2 DEF Answer, Reached, Row, TaskOK, RowOK, r
    <3>6. ASSUME cancelled' = cancelled \cup {s} PROVE TaskOK(new)'
      <4>1. RowOK(s, new.object)'
        BY <1>3, <3>4, <3>5, <3>6 DEF RowOK, EndsTruly, Steady
      <4>2. QED
        BY <1>3, <3>4, <3>5, <4>1 DEF TaskOK, Steady
    <3>7. Idle \notin Task
      BY DEF Idle, Task
    <3>8. QED
      BY <1>1, <1>3, <3>3, <3>4, <3>6, <3>7, ClientMoves
  <2>3. CASE AskForReconcile(c)
    <3>1. client[c].op = "reconcile" /\ client[c].stage = "loaded" /\ UNCHANGED <<ci, cancelled>>
      BY <2>3 DEF AskForReconcile, Holds
    <3>2. PICK answer : answer = GetRunStatus(r, client[c].object.ref)
      OBVIOUS
    <3>3. PICK new : new = Answer(client[c], answer)
      OBVIOUS
    <3>4. Becomes(c, Idle) \/ Becomes(c, new)
      BY <2>3, <3>2, <3>3 DEF AskForReconcile, r
    <3>5. client[c].object.ref \in {"queue", "build"}
      BY <1>2, <3>1 DEF TaskOK, Rows
    <3>6. answer \in Rows /\ RowOK(r, answer) /\ answer.ref \in {client[c].object.ref, "build"}
      BY <1>2, <3>2, <3>5, StatusFacts DEF IInv, TaskOK, RowOK, r
    <3>7. new \in Task /\ TaskOK(new)
      BY <1>2, <3>1, <3>3, <3>6 DEF Answer, Reached, Task, TaskOK, r
    <3>8. TaskOK(new)'
      BY <1>3, <3>7, Frame
    <3>9. Idle \notin Task
      BY DEF Idle, Task
    <3>10. QED
      BY <1>1, <1>3, <3>4, <3>7, <3>8, <3>9, ClientMoves
  <2>4. QED
    BY <2>1, <2>2, <2>3
<1>5. QED
  BY <1>1, <1>3, <1>4, RowsStay DEF IInv, Counters, Order

\* The write of a request.
LEMMA SaveStep ==
    ASSUME IInv, NEW c \in Clients, Save(c)
    PROVE  IInv'
<1> DEFINE task == client[c]
<1>1. /\ UNCHANGED <<ci, collected, poll, cancelled, requests, faults>> /\ Becomes(c, Idle)
      /\ row' = [row EXCEPT ![task.run] = Saved(task)] /\ Synced({task.run}) /\ task # Idle
  BY DEF Save
<1>2. task \in Task /\ TaskOK(task) /\ task.run \in Runs
  BY <1>1, Held
<1> HIDE DEF task
<1>3. Steady /\ Builds'
  BY <1>1, StillSteady DEF IInv
<1>4. Saved(task) \in Rows /\ RowOK(task.run, Saved(task))
  BY <1>2, SavedFacts DEF IInv
<1>5. RowsOK'
  BY <1>1, <1>2, <1>3, <1>4, Frame DEF IInv, RowsOK
<1>6. ClientsOK' /\ PollOK'
  <2>1. Idle \notin Task
    BY DEF Idle, Task
  <2>2. QED
    BY <1>1, <1>3, <2>1, ClientMoves
<1>7. Order'
  BY <1>1, <1>2, OrderFacts DEF IInv
<1>8. QED
  BY <1>1, <1>3, <1>5, <1>6, <1>7 DEF IInv, Counters

----------------------------------------------------------------------------
\* The invariant of rows and tasks, from which the theorems follow.
LEMMA Invariant == Spec => []IInv
<1>1. Init => IInv
  <2> SUFFICES ASSUME Init PROVE IInv
    OBVIOUS
  <2>1. Counters /\ Builds /\ PollOK
    BY RunsAssumption DEF Init, Counters, Builds, PollOK
  <2>2. Order
    <3>1. \A q, r \in Runs : <<q, r>> \in before <=> q < r
      BY DEF Init
    <3>2. QED
      BY <3>1 DEF Init, Order, Runs
  <2>3. RowsOK
    BY DEF Init, RowsOK, RowOK, EndsTruly, Row, Rows, TERMINAL_STATUSES
  <2>4. ClientsOK
    <3>1. Idle \notin Task
      BY DEF Idle, Task
    <3>2. QED
      BY <3>1 DEF Init, ClientsOK
  <2>5. QED
    BY <2>1, <2>2, <2>3, <2>4 DEF IInv
<1>2. IInv /\ [Next]_vars => IInv'
  <2> SUFFICES ASSUME IInv, [Next]_vars PROVE IInv'
    OBVIOUS
  <2>1. CASE \E r \in Runs : Build(r) \/ Collect(r) \/ StartBuild(r)
    BY <2>1, BuildStep
  <2>2. CASE \E r \in Runs : InsertRun(r)
    BY <2>2, InsertStep
  <2>3. CASE Poll \/ LosePoll
    BY <2>3, PollStep
  <2>4. CASE \E c \in Clients : SendStatus(c) \/ LoadForCancel(c) \/ LoadForReconcile(c)
    BY <2>4, BeginStep
  <2>5. CASE \E c \in Clients : ApplyRunStatus(c) \/ CancelAtCI(c) \/ AskForReconcile(c)
    BY <2>5, AnswerStep
  <2>6. CASE \E c \in Clients : Save(c)
    BY <2>6, SaveStep
  <2>7. CASE UNCHANGED vars
    <3>1. Steady /\ Builds'
      BY <2>7, StillSteady DEF vars, IInv
    <3>2. QED
      BY <2>7, <3>1, Frame DEF vars, IInv, Counters, Order, RowsOK, PollOK, ClientsOK
  <2>8. QED
    BY <2>1, <2>2, <2>3, <2>4, <2>5, <2>6, <2>7, Zenon DEF Next, Request
<1>3. QED
  BY <1>1, <1>2, PTL DEF Spec

\* Every reachable state is well formed: what has an address has a build, and the
\* order in which the rows are polled is one.
THEOREM Typed == Spec => []TypeOK
<1>1. IInv => TypeOK
  BY DEF IInv, TypeOK, Counters, Builds, Order, RowsOK, RowOK, PollOK, ClientsOK
<1>2. QED
  BY <1>1, Invariant, PTL

\* A row that says how the run ended says what became of the build, or that it was
\* cancelled when the server has taken a cancel.
THEOREM RowsTellTheEnd == Spec => []EndIsTrue
<1>1. IInv => EndIsTrue
  BY DEF IInv, RowsOK, RowOK, EndsTruly, EndIsTrue
<1>2. QED
  BY <1>1, Invariant, PTL

\* The rows are written by an insert, by the poll and by requests only.
LEMMA Writers ==
    ASSUME IInv, [Next]_vars, NEW r \in Runs, row'[r] # row[r]
    PROVE  \/ row[r] = Row("none", "none")
           \/ \E task \in poll \cup {client[c] : c \in Clients} :
                /\ task # Idle /\ task \in Task /\ TaskOK(task) /\ task.stage = "answered"
                /\ task.run = r /\ row'[r] = Saved(task)
<1>1. CASE CommitPoll
  <2> DEFINE answered == {task \in poll : task.stage = "answered"}
             runs == {task.run : task \in answered}
             Chosen(q) == CHOOSE task \in answered : task.run = q
  <2>1. row' = [q \in Runs |-> IF q \in runs THEN Saved(Chosen(q)) ELSE row[q]]
    BY <1>1 DEF CommitPoll
  <2>2. r \in runs
    BY <2>1
  <2>3. Chosen(r) \in answered /\ Chosen(r).run = r
    BY <2>2
  <2>4. row'[r] = Saved(Chosen(r))
    BY <2>1, <2>2
  <2> HIDE DEF Chosen, runs
  <2>5. Chosen(r) \in Task /\ TaskOK(Chosen(r)) /\ Chosen(r) # Idle
    BY <2>3 DEF IInv, PollOK, Idle
  <2>6. QED
    BY <2>3, <2>4, <2>5
<1>2. CASE \E c \in Clients : Save(c)
  <2>1. PICK c \in Clients : Save(c)
    BY <1>2
  <2>2. client[c] # Idle /\ client[c].stage = "answered" /\ client[c] \in Task /\ TaskOK(client[c])
    BY <2>1, Held DEF Save
  <2>3. row'[r] = Saved(client[c]) /\ client[c].run = r
    BY <2>1, <2>2 DEF Save, IInv, RowsOK
  <2>4. QED
    BY <2>2, <2>3
<1>3. CASE \E q \in Runs : InsertRun(q)
  <2>1. PICK q \in Runs : InsertRun(q)
    BY <1>3
  <2>2. q = r
    BY <2>1 DEF InsertRun, IInv, RowsOK
  <2>3. QED
    BY <2>1, <2>2 DEF InsertRun
<1>4. CASE UNCHANGED row
  BY <1>4
<1>5. QED
  <2>1. CASE \E q \in Runs : Build(q) \/ Collect(q) \/ StartBuild(q)
    BY <1>4, <2>1 DEF Build, Collect, StartBuild
  <2>2. CASE StartPoll \/ AskForPoll \/ LosePoll
    BY <1>4, <2>2 DEF StartPoll, AskForPoll, LosePoll
  <2>3. CASE \E c \in Clients : \/ SendStatus(c) \/ ApplyRunStatus(c) \/ LoadForCancel(c)
                               \/ CancelAtCI(c) \/ LoadForReconcile(c) \/ AskForReconcile(c)
    BY <1>4, <2>3
    DEF SendStatus, ApplyRunStatus, LoadForCancel, CancelAtCI, LoadForReconcile, AskForReconcile
  <2>4. CASE UNCHANGED vars
    BY <1>4, <2>4 DEF vars
  <2>5. QED
    BY <1>1, <1>2, <1>3, <2>1, <2>2, <2>3, <2>4, Zenon DEF Next, Poll, Request

\* A status that ends a run is taken back only by reconcile, or by one who had read
\* the row before.
THEOREM EndsAreKept == Spec => EndIsKept
<1> DEFINE Kept ==
      \A r \in Runs :
        row[r].status \in TERMINAL_STATUSES /\ row'[r].status # row[r].status =>
            \E task \in poll \cup {client[c] : c \in Clients} :
                /\ task # Idle /\ task.run = r
                /\ task.op = "reconcile" \/ task.seen.status \notin TERMINAL_STATUSES
<1>1. IInv /\ [Next]_vars => [Kept]_vars
  <2> SUFFICES ASSUME IInv, [Next]_vars, NEW r \in Runs,
                      row[r].status \in TERMINAL_STATUSES, row'[r].status # row[r].status
               PROVE  \E task \in poll \cup {client[c] : c \in Clients} :
                        /\ task # Idle /\ task.run = r
                        /\ task.op = "reconcile" \/ task.seen.status \notin TERMINAL_STATUSES
    OBVIOUS
  <2>1. row[r] # Row("none", "none")
    BY DEF TERMINAL_STATUSES, Row
  <2>2. PICK task \in poll \cup {client[c] : c \in Clients} :
            /\ task # Idle /\ task \in Task /\ TaskOK(task) /\ task.stage = "answered"
            /\ task.run = r /\ row'[r] = Saved(task)
    BY <2>1, Writers
  <2>3. task.op = "reconcile" \/ task.seen.status \notin TERMINAL_STATUSES
    BY <2>2, SavedFacts DEF IInv
  <2>4. QED
    BY <2>2, <2>3
<1>2. QED
  BY <1>1, Invariant, PTL DEF Spec, EndIsKept

\* No task puts the queue item back in the place of the build.
THEOREM BuildsStayKnown == Spec => BuildStaysKnown
<1>1. IInv /\ [Next]_vars => [\A r \in Runs : row[r].ref = "build" => row'[r].ref = "build"]_vars
  <2> SUFFICES ASSUME IInv, [Next]_vars, NEW r \in Runs, row[r].ref = "build", row'[r] # row[r]
               PROVE  row'[r].ref = "build"
    OBVIOUS
  <2>1. row[r] # Row("none", "none")
    BY DEF Row
  <2>2. PICK task \in poll \cup {client[c] : c \in Clients} :
            task \in Task /\ TaskOK(task) /\ task.run = r /\ row'[r] = Saved(task)
    BY <2>1, Writers
  <2>3. QED
    BY <2>2, SavedFacts DEF IInv
<1>2. QED
  BY <1>1, Invariant, PTL DEF Spec, BuildStaysKnown

----------------------------------------------------------------------------
(* A run that is settled. *)

LEMMA NextSteady == IInv /\ [Next]_vars => Steady
<1> SUFFICES ASSUME IInv, [Next]_vars PROVE Steady
  OBVIOUS
<1>1. CASE UNCHANGED <<ci, cancelled>>
  BY <1>1, StillSteady
<1>2. ASSUME NEW r \in Runs, Build(r) \/ StartBuild(r) PROVE Steady
  BY <1>2, GoesSteady DEF Build, StartBuild, IInv
<1>3. ASSUME NEW c \in Clients, CancelAtCI(c) PROVE Steady
  <2>1. PICK r \in Runs : r = client[c].run
    BY <1>3, Held DEF CancelAtCI, Holds
  <2>2. /\ collected' = collected
        /\ \/ /\ \/ Goes(r, {"queued", "waiting"}, "dropped") \/ Goes(r, {"building"}, "ABORTED")
                 \/ UNCHANGED ci
              /\ cancelled' = cancelled \cup {r}
           \/ UNCHANGED <<ci, cancelled>>
    BY <1>3, <2>1, Zenon DEF CancelAtCI
  <2>3. CASE UNCHANGED ci
    BY <2>2, <2>3 DEF Steady, Dispatched, Over
  <2>4. QED
    BY <2>2, <2>3, <1>1, GoesSteady DEF IInv
<1>4. CASE Poll \/ LosePoll \/ UNCHANGED vars
  BY <1>1, <1>4 DEF Poll, StartPoll, AskForPoll, CommitPoll, LosePoll, vars
<1>5. ASSUME NEW r \in Runs, Collect(r) \/ InsertRun(r) PROVE Steady
  BY <1>1, <1>5 DEF Collect, InsertRun
<1>6. ASSUME NEW c \in Clients,
             \/ SendStatus(c) \/ ApplyRunStatus(c) \/ LoadForCancel(c)
             \/ LoadForReconcile(c) \/ AskForReconcile(c) \/ Save(c)
      PROVE  Steady
  BY <1>1, <1>6
  DEF SendStatus, ApplyRunStatus, LoadForCancel, LoadForReconcile, AskForReconcile, Save
<1>7. QED
  BY <1>2, <1>3, <1>4, <1>5, <1>6, Zenon DEF Next, Request

\* What a build that is over may leave in its row only grows.
LEMMA FinalGrows ==
    ASSUME Steady, NEW r \in Runs, Over(r)
    PROVE  /\ Over(r)' /\ Final(r) \subseteq Final(r)'
           /\ {StatusOf[ci[r]], "UNKNOWN"} \subseteq Final(r)'
           /\ r \in cancelled' => "CANCELLED" \in Final(r)'
  BY DEF Steady, Over, Final

UnderWay == poll \cup {client[c] : c \in Clients}

\* Who asks about a build that is over is told something final.
LEMMA LateTasks ==
    ASSUME IInv, [Next]_vars, NEW r \in Runs, Settled(r),
           NEW task \in UnderWay', task # Idle, task.run = r
    PROVE  \/ task \in UnderWay
           \/ task.stage \in {"loaded", "raised"}
           \/ task.object.status \in Final(r)'
<1> DEFINE Fine(t) == t.run = r => t.stage \in {"loaded", "raised"} \/ t.object.status \in Final(r)'
           Known(t) == t = Idle \/ t \in UnderWay \/ Fine(t)
<1>1. Over(r) /\ \A t \in UnderWay : t # Idle /\ t.run = r => ~Behind(t)
  BY DEF Settled, UnderWay
<1>2. /\ Final(r) \subseteq Final(r)' /\ {StatusOf[ci[r]], "UNKNOWN"} \subseteq Final(r)'
      /\ r \in cancelled' => "CANCELLED" \in Final(r)'
  BY <1>1, NextSteady, FinalGrows
<1>3. CASE UNCHANGED <<poll, client>>
  BY <1>3 DEF UnderWay
<1>4. ASSUME NEW ref PROVE GetRunStatus(r, ref).status \in Final(r)'
  BY <1>2 DEF GetRunStatus, Row
<1>5. CASE Poll \/ LosePoll
  <2>1. ASSUME NEW t \in poll' PROVE Known(t)
    <3>1. CASE StartPoll
      BY <2>1, <3>1 DEF StartPoll, Load
    <3>2. CASE AskForPoll
      <4>1. PICK old \in poll :
              \/ poll' = (poll \ {old}) \cup {Answer(old, GetRunStatus(old.run, old.object.ref))}
              \/ poll' = (poll \ {old}) \cup {Reached(old, "raised", old.seen, old.object)}
        BY <3>2 DEF AskForPoll
      <4>2. CASE t \in poll
        BY <4>2 DEF UnderWay
      <4>3. CASE t = Answer(old, GetRunStatus(old.run, old.object.ref))
        <5>1. t.run = old.run /\ t.object = GetRunStatus(old.run, old.object.ref)
          BY <4>3 DEF Answer, Reached
        <5>2. QED
          BY <5>1, <1>4
      <4>4. CASE t = Reached(old, "raised", old.seen, old.object)
        BY <4>4 DEF Reached
      <4>5. QED
        BY <2>1, <4>1, <4>2, <4>3, <4>4
    <3>3. CASE CommitPoll \/ LosePoll
      BY <2>1, <3>3 DEF CommitPoll, LosePoll
    <3>4. QED
      BY <1>5, <3>1, <3>2, <3>3 DEF Poll
  <2>2. client' = client
    BY <1>5 DEF Poll, StartPoll, AskForPoll, CommitPoll, LosePoll
  <2>3. QED
    BY <2>1, <2>2 DEF UnderWay
<1>6. ASSUME NEW c \in Clients, Request(c) PROVE task \in UnderWay \/ Fine(task)
  <2>1. PICK new : new = client'[c]
    OBVIOUS
  <2>2. poll' = poll /\ \A d \in Clients \ {c} : client'[d] = client[d]
    BY <1>6
    DEF Request, SendStatus, ApplyRunStatus, LoadForCancel, CancelAtCI, LoadForReconcile, AskForReconcile,
        Save, Begin, Becomes, IInv, ClientsOK
  <2>3. task \in UnderWay \/ task = new
    BY <2>1, <2>2 DEF UnderWay
  <2>4. ASSUME NEW t, Becomes(c, t) PROVE new = t
    BY <2>1, <2>4 DEF Becomes, IInv, ClientsOK
  <2>5. CASE SendStatus(c)
    <3>1. PICK q \in Runs : new = Load("webhook", q, Row(StatusOf[ci[q]], "build"), "sent")
      BY <2>4, <2>5, RunsAssumption DEF SendStatus, Begin, Becomes
    <3>2. QED
      BY <1>2, <2>3, <3>1 DEF Load, Row
  <2>6. CASE ApplyRunStatus(c)
    <3>1. PICK old : old = client[c]
      OBVIOUS
    <3>2. /\ old # Idle /\ old.stage = "sent" /\ old \in UnderWay
          /\ \E ref : LET loaded == row[old.run]
                          status == IF loaded.status \in TERMINAL_STATUSES THEN loaded.status ELSE old.object.status
                      IN  Becomes(c, Reached(old, "answered", loaded, Row(status, ref)))
      BY <2>6, <3>1 DEF ApplyRunStatus, Holds, UnderWay
    <3>3. PICK ref, status : /\ status \in {row[old.run].status, old.object.status}
                             /\ new = Reached(old, "answered", row[old.run], Row(status, ref))
      BY <2>4, <3>2
    <3>4. new.run = old.run /\ new.object.status \in {row[old.run].status, old.object.status}
      BY <3>3 DEF Reached, Row
    <3>5. old.run = r => old.object.status \in Final(r) /\ row[old.run].status \in Final(r)
      BY <1>1, <3>2 DEF Behind, Settled
    <3>6. QED
      BY <1>2, <2>3, <3>4, <3>5
  <2>7. CASE LoadForCancel(c)
    <3>1. new.stage = "loaded"
      <4>1. PICK q \in Watched : Becomes(c, Load("cancel", q, row[q], "loaded"))
        BY <2>7 DEF LoadForCancel, Begin, Becomes
      <4>2. QED
        BY <2>4, <4>1 DEF Load
    <3>2. QED
      BY <2>3, <3>1
  <2>8. CASE CancelAtCI(c)
    <3>1. PICK old : old = client[c]
      OBVIOUS
    <3>2. \/ Becomes(c, Idle)
          \/ Becomes(c, Answer(old, Row("CANCELLED", old.seen.ref))) /\ cancelled' = cancelled \cup {old.run}
      BY <2>8, <3>1 DEF CancelAtCI
    <3>3. \/ new = Idle
          \/ new = Answer(old, Row("CANCELLED", old.seen.ref)) /\ old.run \in cancelled'
      BY <2>4, <3>2
    <3>4. QED
      BY <1>2, <2>3, <3>3 DEF Answer, Reached, Row
  <2>9. CASE LoadForReconcile(c)
    <3>1. new.stage = "loaded" \/ new.object.status = "UNKNOWN"
      BY <2>4, <2>9 DEF LoadForReconcile, Begin, Becomes, Load, Row
    <3>2. QED
      BY <1>2, <2>3, <3>1
  <2>10. CASE AskForReconcile(c)
    <3>1. PICK old : old = client[c]
      OBVIOUS
    <3>2. new = Idle \/ new = Answer(old, GetRunStatus(old.run, old.object.ref))
      BY <2>4, <2>10, <3>1 DEF AskForReconcile
    <3>3. new = Idle \/ (new.run = old.run /\ new.object = GetRunStatus(old.run, old.object.ref))
      BY <3>2 DEF Answer, Reached
    <3>4. QED
      BY <1>4, <2>3, <3>3
  <2>11. CASE Save(c)
    BY <2>3, <2>4, <2>11 DEF Save
  <2>12. QED
    BY <1>6, <2>5, <2>6, <2>7, <2>8, <2>9, <2>10, <2>11 DEF Request
<1>7. CASE \E q \in Runs : Build(q) \/ Collect(q) \/ StartBuild(q) \/ InsertRun(q)
  BY <1>3, <1>7 DEF Build, Collect, StartBuild, InsertRun
<1>8. QED
  BY <1>3, <1>5, <1>6, <1>7 DEF Next, vars

\* A run whose build is over, whose row says so and about which nobody is behind stays
\* so, whatever is asked, sent, cancelled or written afterwards.
THEOREM SettledRunsStay == Spec => SettledStays
<1>1. IInv /\ [Next]_vars => [\A r \in Runs : Settled(r) => Settled(r)']_vars
  <2> SUFFICES ASSUME IInv, [Next]_vars, NEW r \in Runs, Settled(r) PROVE Settled(r)'
    OBVIOUS
  <2>1. Over(r) /\ row[r].status \in Final(r) /\ \A t \in UnderWay : t # Idle /\ t.run = r => ~Behind(t)
    BY DEF Settled, UnderWay
  <2>2. Over(r)' /\ Final(r) \subseteq Final(r)'
    BY <2>1, NextSteady, FinalGrows
  <2>3. row'[r].status \in Final(r)'
    <3>1. CASE row'[r] = row[r]
      BY <2>1, <2>2, <3>1
    <3>2. CASE row'[r] # row[r]
      <4>1. row[r] # Row("none", "none")
        <5>1. row[r].status # "none"
          <6>1. ci[r] \in Ends
            BY <2>1, RunsAssumption DEF Over, Ends
          <6>2. StatusOf[ci[r]] # "none"
            BY <6>1 DEF StatusOf, Ends
          <6>3. QED
            BY <2>1, <6>2 DEF Final
        <5>2. QED
          BY <5>1 DEF Row
      <4>2. PICK task \in UnderWay :
              task # Idle /\ task.stage = "answered" /\ task.run = r /\ row'[r] = Saved(task)
        BY <3>2, <4>1, Writers DEF UnderWay
      <4>3. Saved(task).status \in {task.object.status, row[r].status}
            /\ (task.object.status = task.seen.status => Saved(task).status = row[r].status)
        BY <4>2 DEF Saved, Column
      <4>4. task.object.status # task.seen.status => task.object.status \in Final(r)
        BY <2>1, <4>2 DEF Behind
      <4>5. QED
        BY <2>1, <2>2, <4>2, <4>3, <4>4
    <3>3. QED
      BY <3>1, <3>2
  <2>4. ASSUME NEW task \in UnderWay', task # Idle, task.run = r PROVE ~Behind(task)'
    <3>1. CASE task \in UnderWay
      BY <2>1, <2>2, <2>4, <3>1 DEF Behind
    <3>2. CASE task.stage \in {"loaded", "raised"} \/ task.object.status \in Final(r)'
      BY <2>4, <3>2 DEF Behind
    <3>3. QED
      BY <2>4, <3>1, <3>2, LateTasks
  <2>5. QED
    BY <2>2, <2>3, <2>4 DEF Settled, UnderWay
<1>2. QED
  BY <1>1, Invariant, PTL DEF Spec, SettledStays
=============================================================================
