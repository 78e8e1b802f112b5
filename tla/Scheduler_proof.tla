--------------------------- MODULE Scheduler_proof ---------------------------
(***************************************************************************)
(* Safety of the leader and of its runs, for any number of processes,       *)
(* shutdowns, crashes and lost connections. Whoever was elected holds the   *)
(* lock until it releases it or its connection breaks, and only a leader    *)
(* starts a run.                                                            *)
(***************************************************************************)
EXTENDS Scheduler, TLAPS

\* A process that uses the leadership has the lock, or has lost its connection.
HasLock ==
    \A p \in Procs : pc[p] \in {"elected", "serving", "stuck"} => lock = p \/ p \in lost

\* A run belongs to a leader, or to one that is shutting down.
RunsOfLeader ==
    \A p \in Procs :
        exec[p] # "idle" =>
            \/ pc[p] = "leaving"
            \/ pc[p] \in {"serving", "stopping"} /\ (lock = p \/ p \in lost)

IInv == TypeOK /\ HasLock /\ RunsOfLeader

USE DEF Goto, Up, Serving, Points, Fall

----------------------------------------------------------------------------
\* The records that are written are records, and enabled means that a run is due.
LEMMA ScheduleFacts ==
    ASSUME clock \in 1..MaxClock, NEW enabled \in BOOLEAN, NEW running \in BOOLEAN
    PROVE  /\ Schedule(enabled, running) \in Record
           /\ Schedule(enabled, running).enabled <=> Schedule(enabled, running).next # 0
<1>1. NextRun(enabled) \in 0..MaxClock + 1 /\ (enabled <=> NextRun(enabled) # 0)
  BY SchedulerAssumption DEF NextRun
<1>2. QED
  BY <1>1 DEF Schedule, Record

LEMMA RecordFacts ==
    ASSUME TypeOK
    PROVE  /\ NewRecord \in Record
           /\ Settled(row) \in Record /\ (Settled(row).enabled <=> Settled(row).next # 0)
           /\ \A enabled \in BOOLEAN :
                LET new == Schedule(enabled, row.running)
                IN  new \in Record /\ (new.enabled <=> new.next # 0)
           /\ LET new == [row EXCEPT !.running = TRUE]
              IN  new \in Record /\ (new.enabled <=> new.next # 0)
<1>1. NewRecord \in Record
  BY SchedulerAssumption DEF NewRecord, Record
<1>2. row.enabled \in BOOLEAN /\ row.running \in BOOLEAN /\ clock \in 1..MaxClock
  BY DEF TypeOK, Record
<1>3. row \in Record /\ (row.enabled <=> row.next # 0)
  BY DEF TypeOK
<1>4. LET new == [row EXCEPT !.running = TRUE]
      IN  new \in Record /\ (new.enabled <=> new.next # 0)
  BY <1>3 DEF Record
<1>5. QED
  BY <1>1, <1>2, <1>4, ScheduleFacts DEF Settled

\* The election keeps its variables well formed and the lock with its user.
LEMMA ElectStep ==
    ASSUME IInv, NEW p \in Procs, Elect(p)
    PROVE  IInv'
<1> USE LeaderAssumption DEF IInv, TypeOK, LeaderTypeOK
<1>1. LeaderTypeOK'
  BY DEF Elect, TryAcquire, StartFails, BootFails, LoseConnection, Stop, Release, Boot
<1>2. TypeOK'
  BY <1>1 DEF Elect, taskVars
<1>3. HasLock'
  BY DEF Elect, TryAcquire, StartFails, BootFails, LoseConnection, Stop, Release, Boot, HasLock
<1>4. RunsOfLeader'
  BY DEF Elect, TryAcquire, StartFails, BootFails, LoseConnection, Stop, Release, Boot, RunsOfLeader,
         taskVars
<1>5. QED
  BY <1>2, <1>3, <1>4

\* A process that starts the services or comes to its end.
LEMMA LifeStep ==
    ASSUME IInv, NEW p \in Procs, Initialize(p) \/ Ends(p)
    PROVE  IInv'
<1> USE LeaderAssumption DEF IInv, TypeOK, LeaderTypeOK
<1>1. CASE Initialize(p)
  <2>1. row' \in Record /\ (row'.enabled <=> row'.next # 0) /\ mem' = [mem EXCEPT ![p] = row']
    BY <1>1, RecordFacts DEF Initialize, Put
  <2>2. TypeOK'
    BY <1>1, <2>1 DEF Initialize, StartServices
  <2>3. HasLock' /\ RunsOfLeader'
    BY <1>1 DEF Initialize, StartServices, HasLock, RunsOfLeader
  <2>4. QED
    BY <2>2, <2>3
<1>2. CASE Ends(p)
  <2>1. TypeOK'
    BY <1>2, RecordFacts DEF Ends, Exit, Crash, Forget
  <2>2. HasLock' /\ RunsOfLeader'
    BY <1>2 DEF Ends, Exit, Crash, Forget, HasLock, RunsOfLeader
  <2>3. QED
    BY <2>1, <2>2
<1>3. QED
  BY <1>1, <1>2

\* The thread of the leader.
LEMMA ThreadStep ==
    ASSUME IInv, NEW p \in Procs,
           RunDue(p) \/ MarkStarted(p) \/ RunnerReturns(p) \/ MarkFinished(p)
    PROVE  IInv'
<1> USE DEF IInv, TypeOK, LeaderTypeOK, leaderVars, Run
<1>0. row' \in Record /\ (row'.enabled <=> row'.next # 0) /\ mem' \in [Procs -> Record]
  <2>1. CASE UNCHANGED <<row, mem>>
    BY <2>1
  <2>2. CASE \E record \in Record : (record.enabled <=> record.next # 0) /\ Put(p, record)
    BY <2>2 DEF Put
  <2>3. (UNCHANGED <<row, mem>>) \/ Put(p, [row EXCEPT !.running = TRUE]) \/ Put(p, Settled(row))
    BY DEF RunDue, MarkStarted, RunnerReturns, MarkFinished
  <2>4. QED
    BY <2>1, <2>2, <2>3, RecordFacts
<1>1. TypeOK'
  BY <1>0 DEF RunDue, MarkStarted, RunnerReturns, MarkFinished
<1>2. HasLock'
  BY DEF RunDue, MarkStarted, RunnerReturns, MarkFinished, HasLock
<1>3. RunsOfLeader'
  BY DEF RunDue, MarkStarted, RunnerReturns, MarkFinished, HasLock, RunsOfLeader
<1>4. QED
  BY <1>1, <1>2, <1>3

\* Requests of administrators.
LEMMA AdminStep ==
    ASSUME IInv, NEW p \in Procs,
           UpdateServiceSchedule(p) \/ ListServices(p) \/ Load(p) \/ Assign(p)
    PROVE  IInv'
<1> USE DEF IInv, TypeOK, LeaderTypeOK, leaderVars, Request
<1>0. /\ row' \in Record /\ (row'.enabled <=> row'.next # 0)
      /\ mem' \in [Procs -> Record] /\ read' \in [Procs -> Record]
  BY RecordFacts DEF UpdateServiceSchedule, ListServices, Load, Assign
<1>1. TypeOK'
  BY <1>0, SchedulerAssumption DEF UpdateServiceSchedule, ListServices, Load, Assign
<1>2. HasLock' /\ RunsOfLeader'
  BY DEF UpdateServiceSchedule, ListServices, Load, Assign, HasLock, RunsOfLeader
<1>3. QED
  BY <1>1, <1>2

----------------------------------------------------------------------------
\* The invariant of the leader and its runs, from which the theorems follow.
LEMMA Invariant == Spec => []IInv
<1>1. Init => IInv
  BY LeaderAssumption, SchedulerAssumption
  DEF Init, LeaderInit, IInv, TypeOK, LeaderTypeOK, HasLock, RunsOfLeader, NewRecord, Record
<1>2. IInv /\ [Next]_vars => IInv'
  <2> SUFFICES ASSUME IInv, [Next]_vars PROVE IInv'
    OBVIOUS
  <2>1. CASE \E p \in Procs : Elect(p)
    BY <2>1, ElectStep
  <2>2. CASE \E p \in Procs : Initialize(p) \/ Ends(p)
    BY <2>2, LifeStep
  <2>3. CASE \E p \in Procs : RunDue(p) \/ MarkStarted(p) \/ RunnerReturns(p) \/ MarkFinished(p)
    BY <2>3, ThreadStep
  <2>4. CASE \E p \in Procs : UpdateServiceSchedule(p) \/ ListServices(p) \/ Load(p) \/ Assign(p)
    BY <2>4, AdminStep
  <2>5. CASE DropOrphan /\ UNCHANGED <<taskVars, clock, changes>>
    BY <2>5, LeaderAssumption
    DEF DropOrphan, IInv, TypeOK, LeaderTypeOK, HasLock, RunsOfLeader, taskVars
  <2>6. CASE Tick
    BY <2>6, SchedulerAssumption
    DEF Tick, IInv, TypeOK, LeaderTypeOK, HasLock, RunsOfLeader, leaderVars, taskVars
  <2>7. CASE UNCHANGED vars
    BY <2>7 DEF vars, IInv, TypeOK, LeaderTypeOK, HasLock, RunsOfLeader, leaderVars, taskVars
  <2>8. QED
    BY <2>1, <2>2, <2>3, <2>4, <2>5, <2>6, <2>7, Zenon DEF Next
<1>3. QED
  BY <1>1, <1>2, PTL DEF Spec

\* Every reachable state is well formed, and an enabled service has a next run.
THEOREM Typed == Spec => []TypeOK
<1>1. IInv => TypeOK
  BY DEF IInv
<1>2. QED
  BY <1>1, Invariant, PTL

\* Two processes run the background services at once only if one of them has lost
\* the connection of its lock.
THEOREM LeaderServesAlone == Spec => []ServicesAlone
<1>1. IInv => ServicesAlone
  BY DEF IInv, HasLock, ServicesAlone
<1>2. QED
  BY <1>1, Invariant, PTL

\* Two runs overlap only if one is that of a process that has lost its connection,
\* or has released the lock and is about to exit.
THEOREM RunsDoNotOverlap == Spec => []RunsAlone
<1>1. IInv => RunsAlone
  BY DEF IInv, RunsOfLeader, RunsAlone
<1>2. QED
  BY <1>1, Invariant, PTL

----------------------------------------------------------------------------
(* What keeps a candidate from waiting beside a lock that nobody uses. *)

LeaderPoints == {"elected", "serving", "stuck", "stopping"}

\* A process that holds the lock is on its way through the leadership and its
\* connection is sound; one that has lost its connection was a leader.
LockIsUsed ==
    \A p \in Procs :
        /\ lock = p => pc[p] \in LeaderPoints /\ p \notin lost
        /\ p \in lost => pc[p] \in LeaderPoints \cup {"leaving"}

LEMMA StepKeepsLockUsed ==
    ASSUME TypeOK, LockIsUsed, [Next]_vars
    PROVE  LockIsUsed'
<1> USE LeaderAssumption DEF TypeOK, LeaderTypeOK, LockIsUsed, LeaderPoints
<1>1. ASSUME NEW p \in Procs, Elect(p)
      PROVE  LockIsUsed'
  BY <1>1 DEF Elect, TryAcquire, StartFails, BootFails, LoseConnection, Stop, Release, Boot
<1>2. ASSUME NEW p \in Procs, Initialize(p) \/ Ends(p)
      PROVE  LockIsUsed'
  BY <1>2 DEF Initialize, StartServices, Ends, Exit, Crash
<1>3. CASE DropOrphan
  BY <1>3 DEF DropOrphan
<1>4. CASE UNCHANGED leaderVars
  BY <1>4 DEF leaderVars
<1>5. ASSUME NEW p \in Procs,
             \/ RunDue(p) \/ MarkStarted(p) \/ RunnerReturns(p) \/ MarkFinished(p)
             \/ UpdateServiceSchedule(p) \/ ListServices(p) \/ Load(p) \/ Assign(p)
      PROVE  UNCHANGED leaderVars
  BY <1>5 DEF RunDue, MarkStarted, RunnerReturns, MarkFinished,
              UpdateServiceSchedule, ListServices, Load, Assign
<1>6. CASE Tick \/ UNCHANGED vars
  BY <1>4, <1>6 DEF Tick, vars
<1>7. QED
  BY <1>1, <1>2, <1>3, <1>4, <1>5, <1>6, Zenon DEF Next

\* The lock is never left with a process that went down, that is still a candidate,
\* or that has already released it, whatever shutdowns, crashes and lost connections
\* came in between: a candidate waits for a leader, or for the server to drop a dead
\* session (TryAcquire, _run_shutdown, BackgroundLeaderLock.release). It is the safety
\* half of TakesOver.
THEOREM HeldLockIsUsed == Spec => []LockIsUsed
<1>1. Init => LockIsUsed
  BY LeaderAssumption DEF Init, LeaderInit, LockIsUsed
<1>2. TypeOK /\ LockIsUsed /\ [Next]_vars => LockIsUsed'
  BY StepKeepsLockUsed
<1>3. QED
  BY <1>1, <1>2, Typed, PTL DEF Spec
=============================================================================
