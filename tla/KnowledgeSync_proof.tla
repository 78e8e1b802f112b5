------------------------ MODULE KnowledgeSync_proof ------------------------
(* The safety of KnowledgeSync, for any number of processes, requests,         *)
(* changes and faults. The keys are counted process by process. As long as     *)
(* the last report is not lost all that is under way is one line, worker,      *)
(* queue and request of a single process, and the last of the line leaves in   *)
(* the index what was reported.                                                *)
EXTENDS KnowledgeSync, FiniteSetTheorems, TLAPS

\* The queue, the keys and the worker of one process agree.
KeysOK(keys, tasks, work) ==
    /\ keys = OpsIn(tasks) \cup ({work.op} \ {"none"})
    /\ Cardinality(keys) = Len(tasks) + (IF work = Idle THEN 0 ELSE 1)

ProcIs(state, tasks, keys, work) ==
    /\ state \in {"running", "draining", "stopped"}
    /\ tasks \in Seq(Tasks) /\ keys \in SUBSET Ops /\ work \in Work \cup {Idle}
    /\ state = "stopped" => tasks = <<>> /\ keys = {} /\ work = Idle
    /\ KeysOK(keys, tasks, work)

ProcsOK ==
    /\ life = [p \in Procs |-> life[p]] /\ queue = [p \in Procs |-> queue[p]]
    /\ pending = [p \in Procs |-> pending[p]] /\ worker = [p \in Procs |-> worker[p]]
    /\ \A p \in Procs : ProcIs(life[p], queue[p], pending[p], worker[p])

Request == [proc : Procs, op : Ops, version : Versions]

RequestsOK ==
    /\ db \in Versions /\ index \in Points
    /\ handler \in [Handlers -> Request \cup {Idle}]
    /\ report \in Reports
    /\ changes \in 0..MaxChanges /\ faults \in 0..MaxFaults

\* All that is under way is in one process.
OneLine ==
    /\ \A h, k \in Handlers : handler[h] # Idle /\ handler[k] # Idle => h = k
    /\ \A p, q \in Procs : Busy(p) /\ Busy(q) => p = q
    /\ \A h \in Handlers, q \in Procs : handler[h] # Idle /\ Busy(q) => q = handler[h].proc

\* A task that would leave the index with what was told of the current version.
Leaves(current, told, op, version) ==
    \/ told = "gone" /\ current = 0 /\ op = "delete"
    \/ told = "text" /\ current # 0 /\ op = "upsert" /\ version = current
    \/ told = "all" /\ current # 0 /\ op = "upsert" /\ version = 0

\* The same of the worker, which may have looked the version up.
WorkLeaves(current, told, work) ==
    IF work.fetched
    THEN told = "all" /\ current # 0 /\ work.op = "upsert" /\ work.version = current
    ELSE Leaves(current, told, work.op, work.version)

LastOf(tasks) == tasks[Len(tasks)]

LineEnds(p) ==
    /\ queue[p] # <<>> => Leaves(db, report, LastOf(queue[p]).op, LastOf(queue[p]).version)
    /\ queue[p] = <<>> /\ worker[p] # Idle => WorkLeaves(db, report, worker[p])

Followed ==
    report # "lost" =>
        /\ OneLine
        /\ \A h \in Handlers :
             handler[h] # Idle => Leaves(db, report, handler[h].op, handler[h].version)
        /\ (\A h \in Handlers : handler[h] = Idle) => \A p \in Procs : LineEnds(p)
        /\ Quiet => index = [version |-> db, whole |-> report = "all"]

IInv == ProcsOK /\ RequestsOK /\ Followed

----------------------------------------------------------------------------
(* Tasks and keys. *)

LEMMA IdleIsNoWork == Idle \notin Work /\ Idle \notin Request /\ Idle.op = "none"
  BY DEF Idle, Work, Request, Ops

LEMMA TailOps ==
    ASSUME NEW tasks \in Seq(Tasks), tasks # <<>>
    PROVE  /\ Tail(tasks) \in Seq(Tasks) /\ Head(tasks) \in Tasks
           /\ Len(Tail(tasks)) = Len(tasks) - 1
           /\ OpsIn(tasks) = OpsIn(Tail(tasks)) \cup {Head(tasks).op}
           /\ Tail(tasks) # <<>> => LastOf(Tail(tasks)) = LastOf(tasks)
           /\ Tail(tasks) = <<>> => LastOf(tasks) = Head(tasks)
<1>1. /\ Tail(tasks) \in Seq(Tasks) /\ Head(tasks) \in Tasks
      /\ Len(Tail(tasks)) = Len(tasks) - 1 /\ Head(tasks) = tasks[1]
      /\ Len(tasks) \in Nat \ {0} /\ DOMAIN tasks = 1..Len(tasks)
      /\ DOMAIN Tail(tasks) = 1..(Len(tasks) - 1)
      /\ \A i \in 1..(Len(tasks) - 1) : Tail(tasks)[i] = tasks[i + 1]
  OBVIOUS
<1>2. OpsIn(tasks) \subseteq OpsIn(Tail(tasks)) \cup {Head(tasks).op}
  <2> SUFFICES ASSUME NEW i \in DOMAIN tasks
               PROVE  tasks[i].op \in OpsIn(Tail(tasks)) \cup {Head(tasks).op}
    BY DEF OpsIn
  <2>1. CASE i = 1
    BY <1>1, <2>1
  <2>2. CASE i # 1
    <3>1. i - 1 \in 1..(Len(tasks) - 1) /\ (i - 1) + 1 = i
      BY <1>1, <2>2
    <3>2. Tail(tasks)[i - 1] = tasks[i] /\ i - 1 \in DOMAIN Tail(tasks)
      BY <1>1, <3>1
    <3>3. QED
      BY <3>2 DEF OpsIn
  <2>3. QED
    BY <2>1, <2>2
<1>3. OpsIn(Tail(tasks)) \cup {Head(tasks).op} \subseteq OpsIn(tasks)
  <2>1. Head(tasks).op \in OpsIn(tasks)
    BY <1>1 DEF OpsIn
  <2>2. ASSUME NEW i \in DOMAIN Tail(tasks) PROVE Tail(tasks)[i].op \in OpsIn(tasks)
    <3>1. Tail(tasks)[i] = tasks[i + 1] /\ i + 1 \in DOMAIN tasks
      BY <1>1
    <3>2. QED
      BY <3>1 DEF OpsIn
  <2>3. QED
    BY <2>1, <2>2 DEF OpsIn
<1>4. Tail(tasks) # <<>> => LastOf(Tail(tasks)) = LastOf(tasks)
  <2> SUFFICES ASSUME Tail(tasks) # <<>> PROVE LastOf(Tail(tasks)) = LastOf(tasks)
    OBVIOUS
  <2>1. Len(tasks) - 1 \in 1..(Len(tasks) - 1)
    BY <1>1
  <2>2. QED
    BY <1>1, <2>1 DEF LastOf
<1>5. Tail(tasks) = <<>> => LastOf(tasks) = Head(tasks)
  <2> SUFFICES ASSUME Tail(tasks) = <<>> PROVE LastOf(tasks) = Head(tasks)
    OBVIOUS
  <2>1. Len(<<>>) = 0
    OBVIOUS
  <2>2. PICK rest, n : rest = Tail(tasks) /\ n = Len(rest)
    OBVIOUS
  <2>3. n = 0 /\ n = Len(tasks) - 1
    BY <1>1, <2>1, <2>2
  <2>4. Len(tasks) = 1
    <3>1. Len(tasks) \in Nat
      BY <1>1
    <3>2. QED
      BY <2>3, <3>1
  <2>5. QED
    BY <1>1, <2>4 DEF LastOf
<1>6. QED
  BY <1>1, <1>2, <1>3, <1>4, <1>5

LEMMA AppendOps ==
    ASSUME NEW tasks \in Seq(Tasks), NEW task \in Tasks
    PROVE  /\ Append(tasks, task) \in Seq(Tasks) /\ Append(tasks, task) # <<>>
           /\ Len(Append(tasks, task)) = Len(tasks) + 1
           /\ OpsIn(Append(tasks, task)) = OpsIn(tasks) \cup {task.op}
           /\ LastOf(Append(tasks, task)) = task
<1> DEFINE more == Append(tasks, task)
<1>1. /\ more \in Seq(Tasks) /\ more # <<>> /\ Len(more) = Len(tasks) + 1
      /\ DOMAIN tasks = 1..Len(tasks) /\ DOMAIN more = 1..(Len(tasks) + 1) /\ Len(tasks) \in Nat
      /\ \A i \in 1..Len(tasks) : more[i] = tasks[i]
      /\ more[Len(tasks) + 1] = task
  OBVIOUS
<1> HIDE DEF more
<1>2. OpsIn(more) = OpsIn(tasks) \cup {task.op}
  <2>1. ASSUME NEW i \in DOMAIN more PROVE more[i].op \in OpsIn(tasks) \cup {task.op}
    BY <1>1 DEF OpsIn
  <2>2. ASSUME NEW i \in DOMAIN tasks PROVE tasks[i].op \in OpsIn(more)
    <3>1. more[i] = tasks[i] /\ i \in DOMAIN more
      BY <1>1
    <3>2. QED
      BY <3>1 DEF OpsIn
  <2>3. task.op \in OpsIn(more)
    <3>1. Len(tasks) + 1 \in DOMAIN more
      BY <1>1
    <3>2. QED
      BY <1>1, <3>1 DEF OpsIn
  <2>4. QED
    BY <2>1, <2>2, <2>3 DEF OpsIn
<1>3. LastOf(more) = task
  BY <1>1 DEF LastOf
<1>4. QED
  BY <1>1, <1>2, <1>3 DEF more

\* There are not more operations in a queue than tasks.
LEMMA FewOps ==
    ASSUME NEW tasks \in Seq(Tasks)
    PROVE  IsFiniteSet(OpsIn(tasks)) /\ Cardinality(OpsIn(tasks)) <= Len(tasks)
<1> DEFINE f == [i \in 1..Len(tasks) |-> tasks[i].op]
<1>1. Len(tasks) \in Nat /\ DOMAIN tasks = 1..Len(tasks)
  OBVIOUS
<1>2. IsFiniteSet(1..Len(tasks)) /\ Cardinality(1..Len(tasks)) = Len(tasks)
  BY <1>1, FS_Interval
<1>3. f \in Surjection(1..Len(tasks), OpsIn(tasks))
  BY <1>1 DEF OpsIn, Surjection
<1>4. QED
  BY <1>2, <1>3, FS_Surjection

LEMMA PutKeeps ==
    ASSUME NEW tasks \in Seq(Tasks), NEW work \in Work \cup {Idle}, NEW keys,
           KeysOK(keys, tasks, work), NEW task \in Tasks, task.op \notin keys
    PROVE  KeysOK(keys \cup {task.op}, Append(tasks, task), work)
<1>1. IsFiniteSet(keys)
  <2>1. IsFiniteSet(OpsIn(tasks))
    BY FewOps
  <2>2. keys = OpsIn(tasks) \/ keys = OpsIn(tasks) \cup {work.op}
    BY DEF KeysOK
  <2>3. QED
    BY <2>1, <2>2, FS_AddElement
<1>2. Cardinality(keys \cup {task.op}) = Cardinality(keys) + 1
  BY <1>1, FS_AddElement
<1>3. /\ OpsIn(Append(tasks, task)) = OpsIn(tasks) \cup {task.op}
      /\ Len(Append(tasks, task)) = Len(tasks) + 1 /\ Len(tasks) \in Nat
  BY AppendOps
<1>4. QED
  BY <1>2, <1>3 DEF KeysOK

LEMMA TakeKeeps ==
    ASSUME NEW tasks \in Seq(Tasks), tasks # <<>>, NEW keys, KeysOK(keys, tasks, Idle),
           NEW work \in Work, work.op = Head(tasks).op
    PROVE  KeysOK(keys, Tail(tasks), work)
<1>1. /\ OpsIn(tasks) = OpsIn(Tail(tasks)) \cup {work.op}
      /\ Len(Tail(tasks)) = Len(tasks) - 1 /\ Len(tasks) \in Nat
  BY TailOps
<1>2. work.op # "none" /\ work # Idle /\ Idle.op = "none"
  BY IdleIsNoWork DEF Work, Ops
<1>3. keys = OpsIn(Tail(tasks)) \cup {work.op} /\ Cardinality(keys) = Len(tasks)
  BY <1>1, <1>2 DEF KeysOK
<1>4. QED
  BY <1>1, <1>2, <1>3 DEF KeysOK

LEMMA DoneKeeps ==
    ASSUME NEW tasks \in Seq(Tasks), NEW keys, NEW work \in Work, KeysOK(keys, tasks, work)
    PROVE  KeysOK(keys \ {work.op}, tasks, Idle)
<1>1. work.op # "none" /\ work # Idle /\ Idle.op = "none"
  BY IdleIsNoWork DEF Work, Ops
<1>2. keys = OpsIn(tasks) \cup {work.op} /\ Cardinality(keys) = Len(tasks) + 1 /\ Len(tasks) \in Nat
  BY <1>1 DEF KeysOK
<1>3. IsFiniteSet(OpsIn(tasks)) /\ Cardinality(OpsIn(tasks)) <= Len(tasks)
  BY FewOps
<1>4. Cardinality(OpsIn(tasks)) \in Nat
  BY <1>3, FS_CardinalityType
<1>5. /\ work.op \notin OpsIn(tasks)
      /\ Cardinality(keys) = Cardinality(OpsIn(tasks)) + 1
  <2>1. Cardinality(keys) = IF work.op \in OpsIn(tasks) THEN Cardinality(OpsIn(tasks))
                                                         ELSE Cardinality(OpsIn(tasks)) + 1
    BY <1>2, <1>3, FS_AddElement
  <2>2. QED
    BY <2>1, <1>2, <1>3, <1>4
<1>6. keys \ {work.op} = OpsIn(tasks) /\ Cardinality(OpsIn(tasks)) = Len(tasks)
  BY <1>2, <1>4, <1>5
<1>7. OpsIn(tasks) = OpsIn(tasks) \cup ({Idle.op} \ {"none"})
  BY <1>1
<1>8. QED
  <2>1. PICK rest : rest = keys \ {work.op}
    OBVIOUS
  <2>2. rest = OpsIn(tasks) \cup ({Idle.op} \ {"none"}) /\ Cardinality(rest) = Len(tasks)
    BY <2>1, <1>6, <1>7
  <2>3. KeysOK(rest, tasks, Idle)
    BY <2>2, <1>2 DEF KeysOK
  <2>4. QED
    BY <2>1, <2>3

LEMMA EmptyIs ==
    ASSUME NEW state \in {"running", "draining", "stopped"}
    PROVE  ProcIs(state, <<>>, {}, Idle)
<1>1. <<>> \in Seq(Tasks) /\ Len(<<>>) = 0 /\ OpsIn(<<>>) = {}
  BY DEF OpsIn
<1>2. Cardinality({}) = 0
  BY FS_EmptySet
<1>3. KeysOK({}, <<>>, Idle)
  BY <1>1, <1>2, IdleIsNoWork DEF KeysOK
<1>4. QED
  BY <1>1, <1>3 DEF ProcIs

Becomes(p, state, tasks, keys, work) ==
    /\ life' = [life EXCEPT ![p] = state] /\ queue' = [queue EXCEPT ![p] = tasks]
    /\ pending' = [pending EXCEPT ![p] = keys] /\ worker' = [worker EXCEPT ![p] = work]

\* A step of one process.
LEMMA ProcStep ==
    ASSUME ProcsOK, NEW p \in Procs, NEW state, NEW tasks, NEW keys, NEW work,
           ProcIs(state, tasks, keys, work),
           Becomes(p, state, tasks, keys, work)
    PROVE  /\ ProcsOK'
           /\ queue'[p] = tasks /\ worker'[p] = work
           /\ \A q \in Procs \ {p} : queue'[q] = queue[q] /\ worker'[q] = worker[q]
<1>1. /\ life'[p] = state /\ queue'[p] = tasks /\ pending'[p] = keys /\ worker'[p] = work
      /\ \A q \in Procs \ {p} : UNCHANGED <<life[q], queue[q], pending[q], worker[q]>>
  BY DEF ProcsOK, Becomes
<1>2. /\ life' = [q \in Procs |-> life'[q]] /\ queue' = [q \in Procs |-> queue'[q]]
      /\ pending' = [q \in Procs |-> pending'[q]] /\ worker' = [q \in Procs |-> worker'[q]]
  BY DEF ProcsOK, Becomes
<1>3. ASSUME NEW q \in Procs PROVE ProcIs(life'[q], queue'[q], pending'[q], worker'[q])
  BY <1>1 DEF ProcsOK
<1>4. QED
  BY <1>1, <1>2, <1>3 DEF ProcsOK

LEMMA Held ==
    ASSUME ProcsOK, NEW p \in Procs
    PROVE  /\ ProcIs(life[p], queue[p], pending[p], worker[p])
           /\ life = [life EXCEPT ![p] = life[p]] /\ queue = [queue EXCEPT ![p] = queue[p]]
           /\ pending = [pending EXCEPT ![p] = pending[p]] /\ worker = [worker EXCEPT ![p] = worker[p]]
  BY DEF ProcsOK

----------------------------------------------------------------------------
(* The steps. *)

\* A request that reports its change.
LEMMA TellKeeps ==
    ASSUME IInv, NEW h \in Handlers, NEW p \in Procs, NEW op \in Ops, NEW version \in Versions,
           NEW told \in Reports, Tell(h, p, op, version, told),
           db' \in Versions, Leaves(db', told, op, version)
    PROVE  IInv'
<1>1. /\ handler[h] = Idle /\ changes < MaxChanges /\ changes' = changes + 1
      /\ UNCHANGED <<index, life, queue, pending, worker, faults>>
      /\ report' = IF Quiet \/ (report # "lost" /\ Alone(p)) THEN told ELSE "lost"
  BY DEF Tell, procVars
<1>2. PICK request : request = [proc |-> p, op |-> op, version |-> version]
  OBVIOUS
<1>3. /\ request \in Request /\ request # Idle
      /\ handler' = [handler EXCEPT ![h] = request]
  BY <1>2, IdleIsNoWork DEF Tell, Request
<1>4. ProcsOK'
  BY <1>1 DEF IInv, ProcsOK
<1>5. /\ handler' \in [Handlers -> Request \cup {Idle}]
      /\ handler'[h] = request /\ \A k \in Handlers \ {h} : handler'[k] = handler[k]
  BY <1>3 DEF IInv, RequestsOK
<1>6. RequestsOK'
  <2>1. changes' \in 0..MaxChanges
    BY <1>1, KnowledgeAssumption DEF IInv, RequestsOK
  <2>2. report' \in Reports
    BY <1>1 DEF Reports
  <2>3. QED
    BY <1>1, <1>5, <2>1, <2>2 DEF IInv, RequestsOK
<1>7. Followed'
  <2> SUFFICES ASSUME report' # "lost" PROVE Followed'
    BY DEF Followed
  <2>1. /\ \A k \in Handlers : handler[k] = Idle
        /\ \A q \in Procs \ {p} : ~Busy(q)
        /\ report' = told
    BY <1>1 DEF Alone, Quiet, Waiting
  <2>2. \A q \in Procs : Busy(q)' = Busy(q)
    BY <1>1 DEF Busy
  <2>3. handler'[h] # Idle /\ \A k \in Handlers : handler'[k] # Idle => k = h
    BY <1>3, <1>5, <2>1
  <2>4. OneLine'
    BY <1>2, <1>5, <2>1, <2>2, <2>3 DEF OneLine
  <2>5. ~Quiet'
    BY <2>3 DEF Quiet, Waiting
  <2>6. Leaves(db', report', handler'[h].op, handler'[h].version)
    BY <1>2, <1>5, <2>1
  <2>7. QED
    BY <2>3, <2>4, <2>5, <2>6 DEF Followed
<1>8. QED
  BY <1>4, <1>6, <1>7 DEF IInv

\* A new version is a version, and is not that of a deleted test case.
LEMMA NextVersion ==
    ASSUME IInv, changes < MaxChanges
    PROVE  changes + 1 \in Versions /\ changes + 1 # 0
  BY KnowledgeAssumption DEF IInv, RequestsOK, Versions

LEMMA SaveKeeps ==
    ASSUME IInv, NEW h \in Handlers, NEW p \in Procs, Save(h, p)
    PROVE  IInv'
<1>1. changes + 1 \in Versions /\ changes + 1 # 0
  BY NextVersion DEF Save, Tell
<1>2. Leaves(db', "text", "upsert", changes + 1)
  BY <1>1 DEF Save, Leaves
<1>3. QED
  BY <1>1, <1>2, TellKeeps DEF Save, Ops, Reports

LEMMA SaveManyKeeps ==
    ASSUME IInv, NEW h \in Handlers, NEW p \in Procs, SaveMany(h, p)
    PROVE  IInv'
<1>1. changes + 1 \in Versions /\ changes + 1 # 0 /\ 0 \in Versions
  BY NextVersion, KnowledgeAssumption DEF SaveMany, Tell, Versions
<1>2. Leaves(db', "all", "upsert", 0)
  BY <1>1 DEF SaveMany, Leaves
<1>3. QED
  BY <1>1, <1>2, TellKeeps DEF SaveMany, Ops, Reports

LEMMA RemoveKeeps ==
    ASSUME IInv, NEW h \in Handlers, NEW p \in Procs, Remove(h, p)
    PROVE  IInv'
<1>1. 0 \in Versions
  BY KnowledgeAssumption DEF Versions
<1>2. Leaves(db', "gone", "delete", 0)
  BY DEF Remove, Leaves
<1>3. QED
  BY <1>1, <1>2, TellKeeps DEF Remove, Ops, Reports

\* The steps after which the report is lost have only types and keys to keep.
LEMMA LostKeeps ==
    ASSUME ProcsOK', RequestsOK', report' = "lost"
    PROVE  IInv'
  BY DEF IInv, Followed

LEMMA ChangeSilentlyKeeps ==
    ASSUME IInv, ChangeSilently
    PROVE  IInv'
<1>1. /\ changes < MaxChanges /\ changes' = changes + 1 /\ report' = "lost"
      /\ db' = changes + 1 \/ db' = 0
      /\ UNCHANGED <<index, handler, life, queue, pending, worker, faults>>
  BY DEF ChangeSilently, procVars
<1>2. ProcsOK'
  BY <1>1 DEF IInv, ProcsOK
<1>3. RequestsOK'
  <2>1. db' \in Versions /\ changes' \in 0..MaxChanges
    BY <1>1, NextVersion, KnowledgeAssumption DEF IInv, RequestsOK, Versions
  <2>2. QED
    BY <1>1, <2>1 DEF IInv, RequestsOK, Reports
<1>4. QED
  BY <1>1, <1>2, <1>3, LostKeeps

LEMMA EnqueueKeeps ==
    ASSUME IInv, NEW h \in Handlers, Enqueue(h)
    PROVE  IInv'
<1>1. PICK p, task : p = handler[h].proc /\ task = [op |-> handler[h].op, version |-> handler[h].version]
  OBVIOUS
<1>2. handler[h] \in Request /\ p \in Procs /\ task \in Tasks /\ handler[h] # Idle
  BY <1>1 DEF Enqueue, IInv, RequestsOK, Request, Tasks
<1>3. /\ handler' = [handler EXCEPT ![h] = Idle]
      /\ UNCHANGED <<db, index, life, worker, changes, faults>>
  BY DEF Enqueue
<1>4. /\ handler' \in [Handlers -> Request \cup {Idle}]
      /\ handler'[h] = Idle /\ \A k \in Handlers \ {h} : handler'[k] = handler[k]
  BY <1>3 DEF IInv, RequestsOK
<1>5. CASE life[p] = "running" /\ task.op \notin pending[p]
  <2>1. /\ queue' = [queue EXCEPT ![p] = Append(queue[p], task)]
        /\ pending' = [pending EXCEPT ![p] = pending[p] \cup {task.op}]
        /\ report' = report
    BY <1>1, <1>5 DEF Enqueue, Put
  <2>2. ProcIs(life[p], Append(queue[p], task), pending[p] \cup {task.op}, worker[p])
    <3>1. ProcIs(life[p], queue[p], pending[p], worker[p])
      BY <1>2, Held DEF IInv
    <3>2. KeysOK(pending[p] \cup {task.op}, Append(queue[p], task), worker[p])
      BY <3>1, <1>2, <1>5, PutKeeps DEF ProcIs
    <3>3. Append(queue[p], task) \in Seq(Tasks) /\ pending[p] \cup {task.op} \in SUBSET Ops
      BY <3>1, <1>2 DEF ProcIs, Tasks
    <3>4. QED
      BY <3>1, <3>2, <3>3, <1>5 DEF ProcIs
  <2>3. life' = [life EXCEPT ![p] = life[p]] /\ worker' = [worker EXCEPT ![p] = worker[p]]
    BY <1>2, <1>3, Held DEF IInv
  <2>4. /\ ProcsOK' /\ queue'[p] = Append(queue[p], task) /\ worker'[p] = worker[p]
        /\ \A q \in Procs \ {p} : queue'[q] = queue[q] /\ worker'[q] = worker[q]
    <3>1. ProcsOK
      BY DEF IInv
    <3>2. Becomes(p, life[p], Append(queue[p], task), pending[p] \cup {task.op}, worker[p])
      BY <2>1, <2>3 DEF Becomes
    <3>3. QED
      BY <3>1, <3>2, <1>2, <2>2, ProcStep
  <2>5. RequestsOK'
    BY <1>3, <1>4, <2>1 DEF IInv, RequestsOK
  <2>6. Followed'
    <3> SUFFICES ASSUME report # "lost" PROVE Followed'
      BY <2>1 DEF Followed
    <3>1. OneLine /\ Leaves(db, report, task.op, task.version)
      BY <1>1, <1>2 DEF IInv, Followed
    <3>2. queue[p] \in Seq(Tasks)
      BY <1>2, Held DEF IInv, ProcIs
    <3>3. queue'[p] # <<>> /\ LastOf(queue'[p]) = task
      BY <1>2, <2>4, <3>2, AppendOps
    <3>4. /\ \A k \in Handlers : handler'[k] = Idle
          /\ \A q \in Procs \ {p} : ~Busy(q)
      BY <1>1, <1>2, <1>4, <3>1 DEF OneLine
    <3>5. \A q \in Procs \ {p} : ~Busy(q)' /\ queue'[q] = <<>> /\ worker'[q] = Idle
      BY <2>4, <3>4 DEF Busy
    <3>6. OneLine'
      BY <3>4, <3>5 DEF OneLine
    <3>7. LineEnds(p)'
      BY <3>1, <3>3, <1>3, <2>1 DEF LineEnds
    <3>8. \A q \in Procs : LineEnds(q)'
      BY <3>5, <3>7 DEF LineEnds
    <3>9. ~Quiet'
      BY <3>3, <1>2 DEF Quiet, Busy
    <3>10. QED
      BY <3>4, <3>6, <3>8, <3>9 DEF Followed
  <2>7. QED
    BY <2>4, <2>5, <2>6 DEF IInv
<1>6. CASE ~(life[p] = "running" /\ task.op \notin pending[p])
  <2>1. report' = "lost" /\ UNCHANGED <<queue, pending>>
    BY <1>1, <1>6 DEF Enqueue
  <2>2. ProcsOK' /\ RequestsOK'
    BY <1>3, <1>4, <2>1 DEF IInv, ProcsOK, RequestsOK, Reports
  <2>3. QED
    BY <2>1, <2>2, LostKeeps
<1>7. QED
  BY <1>5, <1>6

LEMMA TakeKeepsInv ==
    ASSUME IInv, NEW p \in Procs, Take(p)
    PROVE  IInv'
<1>1. PICK work : work = [op |-> Head(queue[p]).op, version |-> Head(queue[p]).version, fetched |-> FALSE]
  OBVIOUS
<1>2. /\ worker[p] = Idle /\ queue[p] # <<>> /\ worker' = [worker EXCEPT ![p] = work]
      /\ queue' = [queue EXCEPT ![p] = Tail(queue[p])]
      /\ UNCHANGED <<db, index, handler, life, pending, report, changes, faults>>
  BY <1>1 DEF Take
<1>3. ProcIs(life[p], queue[p], pending[p], Idle)
  BY <1>2, Held DEF IInv
<1>4. /\ Tail(queue[p]) \in Seq(Tasks) /\ Head(queue[p]) \in Tasks
      /\ Tail(queue[p]) # <<>> => LastOf(Tail(queue[p])) = LastOf(queue[p])
      /\ Tail(queue[p]) = <<>> => LastOf(queue[p]) = Head(queue[p])
  BY <1>2, <1>3, TailOps DEF ProcIs
<1>5. work \in Work /\ work # Idle
  <2>1. Head(queue[p]).op \in Ops /\ Head(queue[p]).version \in Versions
    BY <1>4 DEF Tasks
  <2>2. work \in Work
    BY <1>1, <2>1 DEF Work
  <2>3. QED
    BY <2>2, IdleIsNoWork
<1>6. ProcIs(life[p], Tail(queue[p]), pending[p], work)
  <2>1. KeysOK(pending[p], Tail(queue[p]), work)
    BY <1>1, <1>2, <1>3, <1>5, TakeKeeps DEF ProcIs
  <2>2. QED
    BY <1>2, <1>3, <1>4, <1>5, <2>1 DEF ProcIs
<1>7. life' = [life EXCEPT ![p] = life[p]] /\ pending' = [pending EXCEPT ![p] = pending[p]]
  BY <1>2, Held DEF IInv
<1>8. /\ ProcsOK' /\ queue'[p] = Tail(queue[p]) /\ worker'[p] = work
      /\ \A q \in Procs \ {p} : queue'[q] = queue[q] /\ worker'[q] = worker[q]
  <2>1. ProcsOK
    BY DEF IInv
  <2>2. Becomes(p, life[p], Tail(queue[p]), pending[p], work)
    BY <1>2, <1>7 DEF Becomes
  <2>3. QED
    BY <2>1, <2>2, <1>6, ProcStep
<1>9. RequestsOK'
  BY <1>2 DEF IInv, RequestsOK
<1>10. Followed'
  <2> SUFFICES ASSUME report # "lost" PROVE Followed'
    BY <1>2 DEF Followed
  <2>1. \A q \in Procs : Busy(q)' = Busy(q)
    BY <1>2, <1>5, <1>8 DEF Busy
  <2>2. OneLine'
    BY <1>2, <2>1 DEF IInv, Followed, OneLine
  <2>3. ~Quiet'
    BY <1>5, <1>8 DEF Quiet, Busy
  <2>4. ASSUME \A h \in Handlers : handler[h] = Idle, NEW q \in Procs PROVE LineEnds(q)'
    <3>1. LineEnds(q)
      BY <2>4 DEF IInv, Followed
    <3>2. CASE q = p
      BY <3>1, <3>2, <1>1, <1>2, <1>4, <1>5, <1>8 DEF LineEnds, WorkLeaves
    <3>3. CASE q # p
      BY <3>1, <3>3, <1>2, <1>8 DEF LineEnds
    <3>4. QED
      BY <3>2, <3>3
  <2>5. QED
    BY <1>2, <2>2, <2>3, <2>4 DEF IInv, Followed
<1>11. QED
  BY <1>8, <1>9, <1>10 DEF IInv

LEMMA FetchKeeps ==
    ASSUME IInv, NEW p \in Procs, Fetch(p)
    PROVE  IInv'
<1>1. PICK work : work = [op |-> "upsert", version |-> db, fetched |-> TRUE]
  OBVIOUS
<1>2. /\ worker[p] # Idle /\ worker[p].op = "upsert" /\ worker[p].version = 0
      /\ ~worker[p].fetched /\ worker' = [worker EXCEPT ![p] = work]
      /\ UNCHANGED <<db, index, handler, life, queue, pending, report, changes, faults>>
  BY <1>1 DEF Fetch
<1>3. ProcIs(life[p], queue[p], pending[p], worker[p])
  BY Held DEF IInv
<1>4. work \in Work /\ work # Idle /\ work.op = worker[p].op
  BY <1>1, <1>2, IdleIsNoWork DEF Work, Ops, IInv, RequestsOK
<1>5. ProcIs(life[p], queue[p], pending[p], work)
  BY <1>2, <1>3, <1>4 DEF ProcIs, KeysOK
<1>6. /\ life' = [life EXCEPT ![p] = life[p]] /\ pending' = [pending EXCEPT ![p] = pending[p]]
      /\ queue' = [queue EXCEPT ![p] = queue[p]]
  BY <1>2, Held DEF IInv
<1>7. /\ ProcsOK' /\ worker'[p] = work /\ \A q \in Procs \ {p} : worker'[q] = worker[q]
  <2>1. ProcsOK
    BY DEF IInv
  <2>2. Becomes(p, life[p], queue[p], pending[p], work)
    BY <1>2, <1>6 DEF Becomes
  <2>3. QED
    BY <2>1, <2>2, <1>5, ProcStep
<1>8. RequestsOK'
  BY <1>2 DEF IInv, RequestsOK
<1>9. Followed'
  <2> SUFFICES ASSUME report # "lost" PROVE Followed'
    BY <1>2 DEF Followed
  <2>1. \A q \in Procs : Busy(q)' = Busy(q)
    BY <1>2, <1>4, <1>7 DEF Busy
  <2>2. OneLine'
    BY <1>2, <2>1 DEF IInv, Followed, OneLine
  <2>3. ~Quiet'
    BY <1>4, <1>7 DEF Quiet, Busy
  <2>4. ASSUME \A h \in Handlers : handler[h] = Idle, NEW q \in Procs PROVE LineEnds(q)'
    <3>1. LineEnds(q)
      BY <2>4 DEF IInv, Followed
    <3>2. CASE q = p
      BY <3>1, <3>2, <1>1, <1>2, <1>7 DEF LineEnds, WorkLeaves, Leaves
    <3>3. CASE q # p
      BY <3>1, <3>3, <1>2, <1>7 DEF LineEnds
    <3>4. QED
      BY <3>2, <3>3
  <2>5. QED
    BY <1>2, <2>2, <2>3, <2>4 DEF IInv, Followed
<1>10. QED
  BY <1>7, <1>8, <1>9 DEF IInv

\* What a worker can leave in the index is a point.
LEMMA ResultIsPoint ==
    ASSUME IInv, NEW p \in Procs, worker[p] # Idle
    PROVE  worker[p] \in Work /\ Result(worker[p]) \in Points
<1>1. worker[p] \in Work
  BY Held DEF IInv, ProcIs
<1>2. 0 \in Versions
  BY KnowledgeAssumption DEF Versions
<1>3. QED
  BY <1>1, <1>2 DEF Result, Work, Points, NoPoint, IInv, RequestsOK

\* The worker has finished with its task.
LEMMA DoneIs ==
    ASSUME IInv, NEW p \in Procs, worker[p] # Idle, Done(p), UNCHANGED <<life, queue>>
    PROVE  /\ ProcsOK' /\ worker'[p] = Idle
           /\ \A q \in Procs \ {p} : queue'[q] = queue[q] /\ worker'[q] = worker[q]
<1>1. ProcIs(life[p], queue[p], pending[p], worker[p]) /\ worker[p] \in Work
  BY Held, ResultIsPoint DEF IInv
<1>2. ProcIs(life[p], queue[p], pending[p] \ {worker[p].op}, Idle)
  <2>1. KeysOK(pending[p] \ {worker[p].op}, queue[p], Idle)
    BY <1>1, DoneKeeps DEF ProcIs
  <2>2. QED
    BY <1>1, <2>1 DEF ProcIs
<1>3. /\ life' = [life EXCEPT ![p] = life[p]] /\ queue' = [queue EXCEPT ![p] = queue[p]]
      /\ worker' = [worker EXCEPT ![p] = Idle]
      /\ pending' = [pending EXCEPT ![p] = pending[p] \ {worker[p].op}]
  BY Held DEF IInv, Done
<1>4. QED
  <2>1. ProcsOK
    BY DEF IInv
  <2>2. Becomes(p, life[p], queue[p], pending[p] \ {worker[p].op}, Idle)
    BY <1>3 DEF Becomes
  <2>3. QED
    BY <2>1, <2>2, <1>2, ProcStep

LEMMA WriteKeeps ==
    ASSUME IInv, NEW p \in Procs, Write(p)
    PROVE  IInv'
<1>1. /\ worker[p] # Idle /\ index' = Result(worker[p])
      /\ worker[p].op = "upsert" /\ worker[p].version = 0 => worker[p].fetched
      /\ UNCHANGED <<db, handler, life, queue, report, changes, faults>>
  BY DEF Write
<1>2. /\ ProcsOK' /\ worker'[p] = Idle
      /\ \A q \in Procs \ {p} : queue'[q] = queue[q] /\ worker'[q] = worker[q]
  BY <1>1, DoneIs DEF Write
<1>3. RequestsOK'
  BY <1>1, ResultIsPoint DEF IInv, RequestsOK
<1>4. Followed'
  <2> SUFFICES ASSUME report # "lost" PROVE Followed'
    BY <1>1 DEF Followed
  <2>1. \A q \in Procs : Busy(q)' => Busy(q)
    BY <1>1, <1>2 DEF Busy
  <2>2. OneLine'
    BY <1>1, <2>1 DEF IInv, Followed, OneLine
  <2>3. ASSUME \A h \in Handlers : handler[h] = Idle, NEW q \in Procs PROVE LineEnds(q)'
    <3>1. LineEnds(q)
      BY <2>3 DEF IInv, Followed
    <3>2. CASE q = p
      BY <3>1, <3>2, <1>1, <1>2 DEF LineEnds
    <3>3. CASE q # p
      BY <3>1, <3>3, <1>1, <1>2 DEF LineEnds
    <3>4. QED
      BY <3>2, <3>3
  <2>4. ASSUME Quiet' PROVE index' = [version |-> db', whole |-> report' = "all"]
    <3>1. (\A h \in Handlers : handler[h] = Idle) /\ queue[p] = <<>>
      BY <2>4, <1>1 DEF Quiet, Waiting, Busy
    <3>2. WorkLeaves(db, report, worker[p])
      BY <3>1, <1>1 DEF IInv, Followed, LineEnds
    <3>3. worker[p].fetched \in BOOLEAN
      BY <1>1, ResultIsPoint DEF Work
    <3>4. CASE worker[p].fetched
      <4>1. Result(worker[p]) = [version |-> db, whole |-> worker[p].fetched] /\ report = "all"
        BY <3>2, <3>4 DEF WorkLeaves, Result
      <4>2. worker[p].fetched = (report = "all")
        BY <4>1, <3>3, <3>4
      <4>3. QED
        BY <4>1, <4>2, <1>1
    <3>5. CASE ~worker[p].fetched
      <4>1. Leaves(db, report, worker[p].op, worker[p].version)
        BY <3>2, <3>5 DEF WorkLeaves
      <4>2. Result(worker[p]) = [version |-> db, whole |-> FALSE] /\ report # "all"
        BY <4>1, <3>3, <3>5, <1>1 DEF Leaves, Result, NoPoint
      <4>3. (report = "all") = FALSE
        BY <4>2
      <4>4. QED
        BY <4>2, <4>3, <1>1
    <3>6. QED
      BY <3>4, <3>5
  <2>5. QED
    BY <1>1, <2>2, <2>3, <2>4 DEF IInv, Followed
<1>5. QED
  BY <1>2, <1>3, <1>4 DEF IInv

LEMMA FailKeeps ==
    ASSUME IInv, NEW p \in Procs, Fail(p)
    PROVE  IInv'
<1>1. /\ worker[p] # Idle /\ index' \in {index, Result(worker[p])} /\ report' = "lost"
      /\ faults < MaxFaults /\ faults' = faults + 1
      /\ UNCHANGED <<db, handler, life, queue, changes>>
  BY DEF Fail, Fault
<1>2. ProcsOK'
  BY <1>1, DoneIs DEF Fail
<1>3. RequestsOK'
  BY <1>1, ResultIsPoint, KnowledgeAssumption DEF IInv, RequestsOK, Reports
<1>4. QED
  BY <1>1, <1>2, <1>3, LostKeeps

\* A queue that changes its state and nothing else.
LEMMA LifeKeeps ==
    ASSUME IInv, NEW p \in Procs, NEW state \in {"running", "draining"},
           life' = [life EXCEPT ![p] = state], faults' \in 0..MaxFaults,
           UNCHANGED <<db, index, handler, queue, pending, worker, report, changes>>
    PROVE  IInv'
<1>1. ProcsOK'
  BY DEF IInv, ProcsOK, ProcIs
<1>2. RequestsOK'
  BY DEF IInv, RequestsOK
<1>3. Followed'
  BY DEF IInv, Followed, OneLine, LineEnds, Busy, Quiet, Waiting
<1>4. QED
  BY <1>1, <1>2, <1>3 DEF IInv

LEMMA StopKeeps ==
    ASSUME IInv, NEW p \in Procs, Stop(p)
    PROVE  IInv'
<1>1. faults' \in 0..MaxFaults
  BY KnowledgeAssumption DEF Stop, Fault, IInv, RequestsOK
<1>2. QED
  BY <1>1, LifeKeeps DEF Stop

LEMMA StartKeeps ==
    ASSUME IInv, NEW p \in Procs, Start(p)
    PROVE  IInv'
<1>1. faults' \in 0..MaxFaults
  BY DEF Start, IInv, RequestsOK
<1>2. QED
  BY <1>1, LifeKeeps DEF Start

\* The end of a queue; what was in it is lost.
LEMMA ResetKeeps ==
    ASSUME IInv, NEW p \in Procs, Reset(p), life' = [life EXCEPT ![p] = "stopped"],
           index' \in IF worker[p] # Idle THEN {index, Result(worker[p])} ELSE {index},
           UNCHANGED <<db, changes>>, faults' \in 0..MaxFaults, report' \in Reports,
           handler' \in [Handlers -> Request \cup {Idle}],
           report' # "lost" => report' = report /\ ~Busy(p) /\ handler' = handler
    PROVE  IInv'
<1>1. ProcsOK' /\ worker'[p] = Idle /\ queue'[p] = <<>>
      /\ \A q \in Procs \ {p} : queue'[q] = queue[q] /\ worker'[q] = worker[q]
  <2>1. ProcsOK
    BY DEF IInv
  <2>2. Becomes(p, "stopped", <<>>, {}, Idle)
    BY DEF Becomes, Reset
  <2>3. ProcIs("stopped", <<>>, {}, Idle)
    BY EmptyIs
  <2>4. QED
    BY <2>1, <2>2, <2>3, ProcStep
<1>2. RequestsOK'
  <2>1. index' \in Points
    BY ResultIsPoint DEF IInv, RequestsOK
  <2>2. QED
    BY <2>1 DEF IInv, RequestsOK
<1>3. Followed'
  <2> SUFFICES ASSUME report' # "lost" PROVE Followed'
    BY DEF Followed
  <2>1. report' = report /\ queue[p] = <<>> /\ worker[p] = Idle /\ handler' = handler
    BY DEF Busy
  <2>2. \A q \in Procs : queue'[q] = queue[q] /\ worker'[q] = worker[q]
    BY <1>1, <2>1
  <2>3. index' = index
    BY <2>1
  <2>4. \A q \in Procs : Busy(q)' = Busy(q) /\ LineEnds(q)' = LineEnds(q)
    BY <2>1, <2>2 DEF Busy, LineEnds
  <2>5. QED
    BY <2>1, <2>3, <2>4 DEF IInv, Followed, OneLine, Quiet, Waiting
<1>4. QED
  BY <1>1, <1>2, <1>3 DEF IInv

LEMMA StoppedKeeps ==
    ASSUME IInv, NEW p \in Procs, Stopped(p)
    PROVE  IInv'
<1>1. /\ faults' \in 0..MaxFaults /\ handler' \in [Handlers -> Request \cup {Idle}]
      /\ report' \in Reports /\ (report' # "lost" => report' = report /\ ~Busy(p) /\ handler' = handler)
  BY DEF Stopped, IInv, RequestsOK, Reports
<1>2. QED
  BY <1>1, ResetKeeps DEF Stopped

LEMMA CrashKeeps ==
    ASSUME IInv, NEW p \in Procs, Crash(p)
    PROVE  IInv'
<1>1. faults' \in 0..MaxFaults
  BY KnowledgeAssumption DEF Crash, Fault, IInv, RequestsOK
<1>2. handler' \in [Handlers -> Request \cup {Idle}]
  BY DEF Crash, IInv, RequestsOK
<1>3. report' \in Reports /\ (report' # "lost" => report' = report /\ ~Busy(p) /\ handler' = handler)
  BY DEF Crash, IInv, RequestsOK, Reports
<1>4. QED
  BY <1>1, <1>2, <1>3, ResetKeeps DEF Crash

----------------------------------------------------------------------------
THEOREM Invariant == Spec => []IInv
<1>1. Init => IInv
  <2> SUFFICES ASSUME Init PROVE IInv
    OBVIOUS
  <2>1. ProcsOK
    <3>1. ProcIs("running", <<>>, {}, Idle)
      BY EmptyIs
    <3>2. QED
      BY <3>1 DEF Init, ProcsOK
  <2>2. RequestsOK
    <3>1. 0 \in Versions /\ 0 \in 0..MaxChanges /\ 0 \in 0..MaxFaults
      BY KnowledgeAssumption DEF Versions
    <3>2. handler \in [Handlers -> Request \cup {Idle}]
      BY DEF Init
    <3>3. QED
      BY <3>1, <3>2 DEF Init, RequestsOK, Reports, Points, NoPoint
  <2>3. Followed
    BY DEF Init, Followed, OneLine, LineEnds, Busy, NoPoint
  <2>4. QED
    BY <2>1, <2>2, <2>3 DEF IInv
<1>2. IInv /\ [Next]_vars => IInv'
  <2> SUFFICES ASSUME IInv, [Next]_vars PROVE IInv'
    OBVIOUS
  <2>1. CASE \E h \in Handlers : Enqueue(h) \/ \E p \in Procs : Save(h, p) \/ SaveMany(h, p) \/ Remove(h, p)
    BY <2>1, EnqueueKeeps, SaveKeeps, SaveManyKeeps, RemoveKeeps
  <2>4. CASE ChangeSilently
    BY <2>4, ChangeSilentlyKeeps
  <2>2. CASE \E p \in Procs : Works(p) \/ Fail(p) \/ Stop(p) \/ Stopped(p) \/ Crash(p) \/ Start(p)
    BY <2>2, TakeKeepsInv, FetchKeeps, WriteKeeps, FailKeeps, StopKeeps, StoppedKeeps,
       CrashKeeps, StartKeeps DEF Works
  <2>3. CASE UNCHANGED vars
    BY <2>3 DEF vars, procVars, IInv, ProcsOK, RequestsOK, Followed, OneLine, LineEnds,
                Busy, Quiet, Waiting
  <2>5. QED
    BY <2>1, <2>2, <2>3, <2>4, Zenon DEF Next
<1>3. QED
  BY <1>1, <1>2, PTL DEF Spec

\* The type invariant.
THEOREM Typed == Spec => []TypeOK
<1>1. IInv => TypeOK
  <2> SUFFICES ASSUME IInv PROVE TypeOK
    OBVIOUS
  <2>1. /\ life \in [Procs -> {"running", "draining", "stopped"}]
        /\ queue \in [Procs -> Seq(Tasks)] /\ pending \in [Procs -> SUBSET Ops]
        /\ worker \in [Procs -> Work \cup {Idle}]
        /\ \A p \in Procs :
             life[p] = "stopped" => queue[p] = <<>> /\ pending[p] = {} /\ worker[p] = Idle
    BY DEF IInv, ProcsOK, ProcIs
  <2>2. QED
    BY <2>1 DEF IInv, RequestsOK, Request, TypeOK
<1>2. QED
  BY <1>1, Invariant, PTL

\* The dedup keys of every process are exactly its tasks, each operation once.
THEOREM KeysAreExact == Spec => []PendingExact
<1>1. IInv => PendingExact
  BY DEF IInv, ProcsOK, ProcIs, KeysOK, PendingExact, OpsOf
<1>2. QED
  BY <1>1, Invariant, PTL

\* A change that is told to the index, and overlaps with nothing, reaches it whatever
\* the worker is doing, as a new text, as the whole row or as a deletion.
THEOREM IndexIsFollowing == Spec => []IndexFollows
<1>1. IInv => IndexFollows
  BY DEF IInv, Followed, IndexFollows
<1>2. QED
  BY <1>1, Invariant, PTL

\* The queue of a process has no bound of its own; its keys give it one: of an entity
\* at most one task of each operation waits or is worked on, however many requests
\* change it (KnowledgeSyncTaskQueue.enqueue).
QueueIsShort ==
    \A p \in Procs :
        /\ Len(queue[p]) <= Cardinality(Ops)
        /\ worker[p] # Idle => Len(queue[p]) < Cardinality(Ops)

\* Two tasks for an entity at most are held by a process, for any number of requests.
THEOREM QueueStaysShort == Spec => []QueueIsShort
<1>1. TypeOK /\ PendingExact => QueueIsShort
  <2> SUFFICES ASSUME TypeOK, PendingExact, NEW p \in Procs
               PROVE  /\ Len(queue[p]) <= Cardinality(Ops)
                      /\ worker[p] # Idle => Len(queue[p]) < Cardinality(Ops)
    BY DEF QueueIsShort
  <2>1. IsFiniteSet(Ops) /\ Cardinality(Ops) \in Nat
    <3>1. IsFiniteSet({"upsert"})
      BY FS_Singleton
    <3>2. IsFiniteSet({"upsert"} \cup {"delete"})
      BY <3>1, FS_AddElement
    <3>3. {"upsert"} \cup {"delete"} = Ops
      BY DEF Ops
    <3>4. QED
      BY <3>2, <3>3, FS_CardinalityType
  <2>2. OpsOf(p) \subseteq Ops
    BY DEF PendingExact, TypeOK
  <2>3. Cardinality(OpsOf(p)) <= Cardinality(Ops)
    BY <2>1, <2>2, FS_Subset
  <2>4. Cardinality(OpsOf(p)) = Len(queue[p]) + (IF worker[p] = Idle THEN 0 ELSE 1)
    BY DEF PendingExact
  <2>5. Len(queue[p]) \in Nat
    BY DEF TypeOK
  <2>6. CASE worker[p] = Idle
    BY <2>1, <2>3, <2>4, <2>5, <2>6
  <2>7. CASE worker[p] # Idle
    <3>1. Len(queue[p]) + 1 <= Cardinality(Ops)
      BY <2>3, <2>4, <2>7
    <3>2. QED
      BY <2>1, <2>5, <2>7, <3>1
  <2>8. QED
    BY <2>6, <2>7
<1>2. QED
  BY <1>1, Typed, KeysAreExact, PTL
=============================================================================
