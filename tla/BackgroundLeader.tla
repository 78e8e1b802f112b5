--------------------------- MODULE BackgroundLeader ---------------------------
(***************************************************************************)
(* Which of the worker processes runs the background services. The lock is  *)
(* a session-level advisory lock of the database: it belongs to a           *)
(* connection that the leader keeps open and never looks at again. This     *)
(* module has the state and the steps of the election; modules that extend  *)
(* it say what the services do.                                             *)
(***************************************************************************)
EXTENDS Naturals

CONSTANTS
    Procs,      \* worker processes
    None, Orphan,
    MaxFalls    \* bound of the model on shutdowns, crashes and lost connections

ASSUME LeaderAssumption == None \notin Procs /\ Orphan \notin Procs /\ MaxFalls \in Nat

VARIABLES
    pc,     \* where each process is between its start and its end
    lock,   \* whose session holds the lock; Orphan: one that lives only in the database
    lost,   \* processes whose lock connection has broken without their noticing
    falls

leaderVars == <<pc, lock, lost, falls>>

----------------------------------------------------------------------------
\* boot: before the first try. aside: start-up raised before it, the process serves
\* requests only. elected: holds the lock, services not started. stuck: starting them
\* raised. stopping: services are told to stop. leaving: the lock was released.
Points == {"down", "boot", "aside", "waiting", "elected", "serving", "stuck", "stopping", "leaving"}
Up(p) == pc[p] # "down"
Serving(p) == pc[p] = "serving"

LeaderTypeOK ==
    /\ pc \in [Procs -> Points]
    /\ lock \in Procs \cup {None, Orphan}
    /\ lost \subseteq Procs
    /\ falls \in 0..MaxFalls

LeaderInit ==
    /\ pc = [p \in Procs |-> "boot"]
    /\ lock = None /\ lost = {} /\ falls = 0

Goto(p, point) == pc' = [pc EXCEPT ![p] = point]
Fall == falls < MaxFalls /\ falls' = falls + 1

----------------------------------------------------------------------------
\* Mutant of TryAcquire: one try, at start-up.
TryAcquireOnce(p) ==
    /\ pc[p] = "boot"
    /\ \/ /\ lock = None
          /\ lock' = p /\ Goto(p, "elected")
       \/ Goto(p, "waiting") /\ UNCHANGED lock
    /\ UNCHANGED <<lost, falls>>

\* try_acquire at start-up and every 30 seconds. An exception counts as a refusal.
TryAcquire(p) ==
    /\ pc[p] \in {"boot", "waiting"}
    /\ \/ /\ lock = None
          /\ lock' = p /\ Goto(p, "elected")
       \/ pc[p] = "boot" /\ Goto(p, "waiting") /\ UNCHANGED lock
    /\ UNCHANGED <<lost, falls>>

\* _start_background_services: the scheduler reads its tasks and starts its thread.
StartServices(p) ==
    /\ pc[p] = "elected"
    /\ Goto(p, "serving")
    /\ UNCHANGED <<lock, lost, falls>>

\* It raises: the retry loop ends, or start-up goes on without; the lock is kept.
StartFails(p) ==
    /\ pc[p] = "elected" /\ Fall
    /\ Goto(p, "stuck")
    /\ UNCHANGED <<lock, lost>>

\* One of the steps of start-up before the election raises.
BootFails(p) ==
    /\ pc[p] = "boot" /\ Fall
    /\ Goto(p, "aside")
    /\ UNCHANGED <<lock, lost>>

\* The connection of the lock breaks; its session stays until the server notices.
LoseConnection(p) ==
    /\ lock = p /\ Fall
    /\ lock' = Orphan /\ lost' = lost \cup {p}
    /\ UNCHANGED pc

DropOrphan ==
    /\ lock = Orphan
    /\ lock' = None
    /\ UNCHANGED <<pc, lost, falls>>

\* _run_shutdown cancels the retry loop, wherever it is, and stops the services ...
Stop(p) ==
    /\ pc[p] \in {"aside", "waiting", "elected", "serving", "stuck"} /\ Fall
    /\ Goto(p, "stopping")
    /\ UNCHANGED <<lock, lost>>

\* Mutant of Release: it is the name of the lock that is released, not the session's.
ReleaseByName(p) ==
    /\ pc[p] = "stopping"
    /\ lock' = IF lock = Orphan THEN lock ELSE None
    /\ Goto(p, "leaving")
    /\ UNCHANGED <<lost, falls>>

\* ... and releases the lock last, if its session still has it.
Release(p) ==
    /\ pc[p] = "stopping"
    /\ lock' = IF lock = p THEN None ELSE lock
    /\ Goto(p, "leaving")
    /\ UNCHANGED <<lost, falls>>

Exit(p) ==
    /\ pc[p] = "leaving"
    /\ Goto(p, "down") /\ lost' = lost \ {p}
    /\ UNCHANGED <<lock, falls>>

\* The process dies, and its session with it, once the server notices.
Crash(p) ==
    /\ Up(p) /\ Fall
    /\ Goto(p, "down") /\ lost' = lost \ {p}
    /\ lock' = IF lock = p THEN Orphan ELSE lock

Boot(p) ==
    /\ pc[p] = "down"
    /\ Goto(p, "boot")
    /\ UNCHANGED <<lock, lost, falls>>

=============================================================================
