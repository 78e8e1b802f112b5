-------------------------- MODULE TurnStream_proof --------------------------
(* The safety of TurnStream, for logs of any length and any number of         *)
(* reconnects.  The invariant has a part about the log and its writers and a  *)
(* part about the stream and the widget; a step changes one of them, and the  *)
(* second part asks of the first only that rows are appended.                 *)
EXTENDS TurnStream, SequenceTheorems, TLAPS

TypeTurn ==
    /\ log \in Seq(Kinds)
    /\ running \in BOOLEAN /\ gone \in BOOLEAN /\ leaseOver \in BOOLEAN
    /\ holder \in {"turn", "other", "nobody"}
    /\ holder = "turn" => running
    /\ pc \in Points

\* A runner that has written its error goes on to end the turn.
AfterError ==
    (\E m \in DOMAIN log : log[m] = "error") /\ ~HasEnd => pc \in {"completing", "done", "off"}

\* So nothing that happened before the end of the turn comes after an error.
ErrorIsLast ==
    \A m, n \in DOMAIN log :
        m < n /\ log[m] = "error" /\ log[n] = "progress" => \E k \in 1..n : log[k] \in Ends

TurnInv == TypeTurn /\ AfterError /\ ErrorIsLast

TypeReader ==
    /\ ended \in BOOLEAN
    /\ at \in {"poll", "check", "send", "closed"}
    /\ at = "send" <=> batch # <<>>
    /\ batch \in Seq(DOMAIN log) /\ wire \in Seq(DOMAIN log) /\ got \in Seq(DOMAIN log)
    /\ cursor \in 0..Len(log)
    /\ attempts \in 0..MaxAttempts + 1
    /\ client \in {"reading", "finished", "failed"}

\* What was dispatched, what is on its way and what is about to be sent follow one
\* another in the log.
Line ==
    /\ \A n \in DOMAIN wire : wire[n] = Len(got) + n
    /\ \A n \in DOMAIN batch : batch[n] = cursor + n
    /\ at # "closed" => cursor = Len(got) + Len(wire)

\* A stream is taken for complete only after it has shown an end or an error.
Told ==
    ended \/ client = "finished" =>
        \E n \in DOMAIN got : got[n] = n /\ log[n] \in Ends \cup {"error"}

Tries == client = "reading" => attempts <= MaxAttempts

ReaderInv == TypeReader /\ InOrder /\ Line /\ WaitsForEnd /\ Told /\ Tries

IInv == TurnInv /\ ReaderInv

----------------------------------------------------------------------------
\* Rows are appended and no row is changed.
Grows ==
    /\ log' \in Seq(Kinds) /\ Len(log) <= Len(log')
    /\ \A n \in DOMAIN log : log'[n] = log[n]
    /\ gone => gone'

LEMMA Added ==
    ASSUME TypeTurn, NEW kind \in Kinds, log' = Append(log, kind)
    PROVE  /\ log' \in Seq(Kinds) /\ Len(log') = Len(log) + 1
           /\ \A n \in DOMAIN log : log'[n] = log[n]
           /\ log'[Len(log) + 1] = kind
           /\ DOMAIN log = 1..Len(log) /\ DOMAIN log' = 1..(Len(log) + 1)
  BY DEF TypeTurn

\* The two rows that end a turn.
AddsEnd(kind) ==
    /\ log' \in Seq(Kinds) /\ Len(log') = Len(log) + 2 /\ Len(log) \in Nat
    /\ \A n \in DOMAIN log : log'[n] = log[n]
    /\ log'[Len(log) + 1] = kind /\ log'[Len(log) + 2] = "done"
    /\ DOMAIN log = 1..Len(log) /\ DOMAIN log' = 1..(Len(log) + 2)

LEMMA AddedTwo ==
    ASSUME TypeTurn, NEW kind \in Kinds, log' = log \o <<kind, "done">>
    PROVE  AddsEnd(kind)
<1>1. <<kind, "done">> \in Seq(Kinds) /\ Len(<<kind, "done">>) = 2
  BY DEF Kinds, Ends
<1>2. log \in Seq(Kinds)
  BY DEF TypeTurn
<1>3. QED
  BY <1>1, <1>2 DEF AddsEnd

LEMMA Unchanged ==
    ASSUME TypeTurn, UNCHANGED log, gone => gone'
    PROVE  Grows
  BY DEF TypeTurn, Grows

----------------------------------------------------------------------------
(* The log and its writers. *)

\* A step that writes no row keeps the log's part when the runner does not go back
\* to work after an error.
LEMMA Silent ==
    ASSUME TurnInv, TypeTurn', UNCHANGED log,
           pc \in {"completing", "done", "off"} => pc' \in {"completing", "done", "off"}
    PROVE  TurnInv'
  BY DEF TurnInv, AfterError, ErrorIsLast, HasEnd

\* A row of the runner.
LEMMA EmitKeeps ==
    ASSUME TurnInv, NEW kind \in Kinds, NEW next \in Points, Emit(kind, next),
           kind = "progress" => pc = "work",
           kind = "error" => next = "completing"
    PROVE  TurnInv' /\ Grows
<1>1. CASE gone
  <2>1. UNCHANGED <<log, running, gone, holder, leaseOver>> /\ pc' = "off"
    BY <1>1 DEF Emit
  <2>2. TypeTurn'
    BY <2>1 DEF TurnInv, TypeTurn, Points
  <2>3. QED
    BY <2>1, <2>2, Silent, Unchanged DEF TurnInv
<1>2. CASE ~gone
  <2>1. UNCHANGED <<running, gone, holder, leaseOver>> /\ pc' = next /\ log' = Append(log, kind)
    BY <1>2 DEF Emit
  <2>2. /\ log' \in Seq(Kinds) /\ Len(log') = Len(log) + 1
        /\ \A n \in DOMAIN log : log'[n] = log[n]
        /\ log'[Len(log) + 1] = kind
        /\ DOMAIN log = 1..Len(log) /\ DOMAIN log' = 1..(Len(log) + 1)
        /\ Len(log) \in Nat
    BY <2>1, Added DEF TurnInv, TypeTurn
  <2>3. TypeTurn'
    BY <2>1, <2>2 DEF TurnInv, TypeTurn
  <2>4. HasEnd => HasEnd'
    BY <2>2 DEF HasEnd
  <2>5. AfterError'
    <3> SUFFICES ASSUME NEW m \in DOMAIN log', log'[m] = "error", ~HasEnd'
                 PROVE  pc' \in {"completing", "done", "off"}
      BY DEF AfterError
    <3>1. CASE m \in DOMAIN log
      <4>1. pc \in {"completing", "done", "off"} /\ kind # "progress"
        BY <3>1, <2>2, <2>4 DEF TurnInv, AfterError
      <4>2. kind \notin Ends
        BY <2>2 DEF HasEnd
      <4>3. QED
        BY <4>1, <4>2, <2>1 DEF Kinds
    <3>2. CASE m = Len(log) + 1
      BY <3>2, <2>1, <2>2
    <3>3. QED
      BY <3>1, <3>2, <2>2
  <2>6. ErrorIsLast'
    <3> SUFFICES ASSUME NEW m \in DOMAIN log', NEW n \in DOMAIN log',
                        m < n, log'[m] = "error", log'[n] = "progress"
                 PROVE  \E k \in 1..n : log'[k] \in Ends
      BY DEF ErrorIsLast
    <3>1. CASE n \in DOMAIN log
      <4>1. m \in DOMAIN log
        BY <3>1, <2>2
      <4>2. PICK k \in 1..n : log[k] \in Ends
        BY <3>1, <4>1, <2>2 DEF TurnInv, ErrorIsLast
      <4>3. k \in DOMAIN log
        BY <3>1, <2>2
      <4>4. QED
        BY <4>2, <4>3, <2>2
    <3>2. CASE n = Len(log) + 1
      <4>1. kind = "progress" /\ m \in DOMAIN log /\ log[m] = "error"
        BY <3>2, <2>2
      <4>2. PICK k \in DOMAIN log : log[k] \in Ends
        BY <4>1 DEF TurnInv, AfterError, HasEnd
      <4>3. k \in 1..n /\ log'[k] \in Ends
        BY <4>2, <3>2, <2>2
      <4>4. QED
        BY <4>3
    <3>3. QED
      BY <3>1, <3>2, <2>2
  <2>7. QED
    BY <2>1, <2>2, <2>3, <2>5, <2>6 DEF TurnInv, Grows
<1>3. QED
  BY <1>1, <1>2

\* The two rows that end a turn together.
LEMMA EndKeeps ==
    ASSUME TurnInv, TypeTurn', NEW kind \in Kinds, AddsEnd(kind),
           kind = "progress" => pc = "work", gone => gone'
    PROVE  TurnInv' /\ Grows
<1>1. /\ log' \in Seq(Kinds) /\ Len(log') = Len(log) + 2
      /\ \A n \in DOMAIN log : log'[n] = log[n]
      /\ log'[Len(log) + 1] = kind /\ log'[Len(log) + 2] = "done"
      /\ DOMAIN log = 1..Len(log) /\ DOMAIN log' = 1..(Len(log) + 2)
      /\ Len(log) \in Nat
  BY DEF AddsEnd
<1>2. HasEnd'
  <2>1. Len(log) + 2 \in DOMAIN log' /\ log'[Len(log) + 2] \in Ends
    BY <1>1 DEF Ends
  <2>2. QED
    BY <2>1 DEF HasEnd
<1>3. AfterError'
  BY <1>2 DEF AfterError
<1>4. ErrorIsLast'
  <2> SUFFICES ASSUME NEW m \in DOMAIN log', NEW n \in DOMAIN log',
                      m < n, log'[m] = "error", log'[n] = "progress"
               PROVE  \E k \in 1..n : log'[k] \in Ends
    BY DEF ErrorIsLast
  <2>1. CASE n \in DOMAIN log
    <3>1. m \in DOMAIN log
      BY <2>1, <1>1
    <3>2. PICK k \in 1..n : log[k] \in Ends
      BY <2>1, <3>1, <1>1 DEF TurnInv, ErrorIsLast
    <3>3. k \in DOMAIN log
      BY <2>1, <1>1
    <3>4. QED
      BY <3>2, <3>3, <1>1
  <2>2. CASE n = Len(log) + 1
    <3>1. kind = "progress" /\ m \in DOMAIN log /\ log[m] = "error"
      BY <2>2, <1>1
    <3>2. PICK k \in DOMAIN log : log[k] \in Ends
      BY <3>1 DEF TurnInv, AfterError, HasEnd
    <3>3. k \in 1..n /\ log'[k] \in Ends
      BY <3>2, <2>2, <1>1
    <3>4. QED
      BY <3>3
  <2>3. CASE n = Len(log) + 2
    BY <2>3, <1>1
  <2>4. QED
    BY <2>1, <2>2, <2>3, <1>1
<1>5. QED
  BY <1>1, <1>3, <1>4 DEF TurnInv, Grows

\* The steps that write, or might write, to the log.
LEMMA TurnSteps ==
    ASSUME TurnInv, RunnerStep \/ Crash \/ LeaseExpires \/ Overtake \/ OtherEnds \/ Recover \/ Delete
    PROVE  TurnInv' /\ Grows /\ UNCHANGED <<serverVars, clientVars>>
<1> USE DEF serverVars, clientVars
<1>a. Kinds = {"progress", "error", "done", "cancelled"} /\ Ends = {"done", "cancelled"}
  BY DEF Kinds, Ends
<1>1. CASE Renew
  <2> DEFINE From == {"fence", "erring", "cancelling"}
             To == {"work", "failing", "stopped"}
  <2>1. /\ pc \in From
        /\ \/ pc' \in To /\ running /\ holder' = "turn" /\ leaseOver' = FALSE
           \/ pc' = "off" /\ UNCHANGED <<holder, leaseOver>>
        /\ UNCHANGED <<log, running, gone>>
    <3>1. PICK step \in {<<"fence", "work">>, <<"erring", "failing">>, <<"cancelling", "stopped">>} :
            /\ pc = step[1]
            /\ \/ pc' = step[2] /\ running /\ holder' = "turn" /\ leaseOver' = FALSE
               \/ pc' = "off" /\ UNCHANGED <<holder, leaseOver>>
            /\ UNCHANGED <<log, running, gone>>
      BY <1>1 DEF Renew
    <3>2. step[1] \in From /\ step[2] \in To
      OBVIOUS
    <3>3. QED
      BY <3>1, <3>2
  <2>2. TypeTurn' /\ pc \notin {"completing", "done", "off"}
    BY <2>1 DEF TurnInv, TypeTurn, Points
  <2>3. TurnInv' /\ Grows
    BY <2>1, <2>2, Silent, Unchanged DEF TurnInv
  <2>4. QED
    BY <1>1, <2>3 DEF Renew
<1>2. CASE Work
  <2>1. PICK next \in {"fence", "completing"} : Emit("progress", next)
    BY <1>2 DEF Work
  <2>2. "progress" \in Kinds /\ next \in Points /\ pc = "work"
    BY <1>2, <1>a DEF Work, Points
  <2>3. TurnInv' /\ Grows
    BY <2>1, <2>2, EmitKeeps
  <2>4. QED
    BY <2>1, <2>3 DEF Emit
<1>3. CASE Leave
  <2>1. TypeTurn' /\ UNCHANGED <<log, gone>> /\ pc \notin {"completing", "done", "off"}
    BY <1>3 DEF Leave, TurnInv, TypeTurn, Points
  <2>2. QED
    BY <1>3, <2>1, Silent, Unchanged DEF Leave, TurnInv
<1>4. CASE Fail
  <2>1. "error" \in Kinds /\ "completing" \in Points /\ Emit("error", "completing")
    BY <1>4, <1>a DEF Fail, Points
  <2>2. TurnInv' /\ Grows
    BY <2>1, EmitKeeps
  <2>3. QED
    BY <2>1, <2>2 DEF Emit
<1>5. CASE EndAtOnce
  <2>1. CASE gone
    <3>1. TypeTurn' /\ UNCHANGED <<log, gone>> /\ pc \notin {"completing", "done", "off"}
      BY <1>5, <2>1 DEF EndAtOnce, TurnInv, TypeTurn, Points
    <3>2. QED
      BY <1>5, <3>1, Silent, Unchanged DEF EndAtOnce, TurnInv
  <2>2. CASE ~gone
    <3>1. PICK kind \in {"progress", "error"} : log' = log \o <<kind, "done">>
      BY <1>5, <2>2 DEF EndAtOnce
    <3>2. kind \in Kinds /\ pc = "work" /\ gone' = gone
      BY <1>5, <1>a DEF EndAtOnce
    <3>3. AddsEnd(kind)
      BY <3>1, <3>2, AddedTwo DEF TurnInv
    <3>4. log' \in Seq(Kinds)
      BY <3>3 DEF AddsEnd
    <3>5. TypeTurn'
      BY <1>5, <2>2, <3>4 DEF EndAtOnce, TurnInv, TypeTurn, Points
    <3>6. TurnInv' /\ Grows
      BY <3>2, <3>3, <3>5, EndKeeps
    <3>7. QED
      BY <1>5, <3>6 DEF EndAtOnce
  <2>3. QED
    BY <2>1, <2>2
<1>6. CASE Complete
  <2>1. TypeTurn' /\ UNCHANGED <<log, gone>>
    BY <1>6 DEF Complete, TurnInv, TypeTurn, Points
  <2>2. pc \in {"completing", "done", "off"} => pc' \in {"completing", "done", "off"}
    BY <1>6 DEF Complete
  <2>3. QED
    BY <1>6, <2>1, <2>2, Silent, Unchanged DEF Complete, TurnInv
<1>7. CASE CloseLog
  <2>1. PICK kind : kind = pc
    OBVIOUS
  <2>2. kind \in Ends /\ kind \in Kinds /\ "off" \in Points /\ Emit(kind, "off")
    BY <1>7, <2>1, <1>a DEF CloseLog, Points
  <2>3. kind # "progress" /\ kind # "error"
    BY <2>2, <1>a
  <2>4. TurnInv' /\ Grows
    BY <2>2, <2>3, EmitKeeps
  <2>5. QED
    BY <2>2, <2>4 DEF Emit
<1>8. CASE Crash
  <2>1. TypeTurn' /\ UNCHANGED <<log, gone>> /\ pc' = "off"
    BY <1>8 DEF Crash, TurnInv, TypeTurn, Points
  <2>2. QED
    BY <1>8, <2>1, Silent, Unchanged DEF Crash, TurnInv
<1>9. CASE LeaseExpires \/ Overtake \/ OtherEnds \/ Delete
  <2>1. TypeTurn' /\ UNCHANGED <<log, pc>> /\ (gone => gone')
    BY <1>9 DEF LeaseExpires, Overtake, OtherEnds, Delete, TurnInv, TypeTurn
  <2>2. TurnInv' /\ Grows
    BY <2>1, Silent, Unchanged DEF TurnInv
  <2>3. QED
    BY <1>9, <2>2 DEF LeaseExpires, Overtake, OtherEnds, Delete
<1>10. CASE Recover
  <2>1. "error" \in Kinds /\ log' = log \o <<"error", "done">> /\ gone' = gone
    BY <1>10, <1>a DEF Recover
  <2>2. AddsEnd("error")
    BY <2>1, AddedTwo DEF TurnInv
  <2>3. log' \in Seq(Kinds)
    BY <2>2 DEF AddsEnd
  <2>4. TypeTurn'
    BY <1>10, <2>3 DEF Recover, TurnInv, TypeTurn
  <2>5. TurnInv' /\ Grows
    BY <2>1, <2>2, <2>4, EndKeeps
  <2>6. QED
    BY <1>10, <2>5 DEF Recover
<1>11. QED
  BY <1>1, <1>2, <1>3, <1>4, <1>5, <1>6, <1>7, <1>8, <1>9, <1>10 DEF RunnerStep

----------------------------------------------------------------------------
(* The stream and the widget. *)

LEMMA SeqGrows ==
    ASSUME NEW S, NEW T, S \subseteq T, NEW s \in Seq(S)
    PROVE  s \in Seq(T)
  OBVIOUS

\* Rows that are appended change nothing of what was read before.
LEMMA ReaderKeeps ==
    ASSUME TypeTurn, ReaderInv, Grows, UNCHANGED <<serverVars, clientVars>>
    PROVE  ReaderInv'
<1> USE DEF serverVars, clientVars
<1>1. /\ Len(log) \in Nat /\ Len(log') \in Nat /\ Len(log) <= Len(log')
      /\ DOMAIN log = 1..Len(log) /\ DOMAIN log' = 1..Len(log')
      /\ \A n \in DOMAIN log : log'[n] = log[n]
      /\ DOMAIN log \subseteq DOMAIN log'
  BY DEF TypeTurn, Grows
<1>2. batch \in Seq(DOMAIN log') /\ wire \in Seq(DOMAIN log') /\ got \in Seq(DOMAIN log')
  BY <1>1, SeqGrows DEF ReaderInv, TypeReader
<1>3. TypeReader'
  BY <1>1, <1>2 DEF ReaderInv, TypeReader
<1>4. InOrder' /\ Line'
  BY DEF ReaderInv, InOrder, Line
<1>5. WaitsForEnd'
  <2>1. HasEnd => HasEnd'
    BY <1>1 DEF HasEnd
  <2>2. QED
    BY <2>1 DEF ReaderInv, WaitsForEnd, Grows
<1>6. Told'
  <2> SUFFICES ASSUME ended \/ client = "finished"
               PROVE  \E n \in DOMAIN got : got[n] = n /\ log'[n] \in Ends \cup {"error"}
    BY DEF Told
  <2>1. PICK n \in DOMAIN got : got[n] = n /\ log[n] \in Ends \cup {"error"}
    BY DEF ReaderInv, Told
  <2>2. n \in DOMAIN log
    BY <2>1 DEF ReaderInv, TypeReader
  <2>3. QED
    BY <2>1, <2>2, <1>1
<1>7. Tries'
  BY DEF ReaderInv, Tries
<1>8. QED
  BY <1>3, <1>4, <1>5, <1>6, <1>7 DEF ReaderInv

\* What the widget asks a new stream for is what it has shown.
LEMMA EventSeqIsSeen ==
    ASSUME TypeTurn, TypeReader, InOrder
    PROVE  EventSeq = Len(got) /\ Len(got) \in 0..Len(log)
<1>1. CASE got = <<>>
  BY <1>1 DEF EventSeq, TypeTurn
<1>2. CASE got # <<>>
  <2>1. Len(got) \in DOMAIN got /\ got[Len(got)] \in DOMAIN log /\ Len(got) \in Nat
    BY <1>2 DEF TypeReader
  <2>2. got[Len(got)] = Len(got)
    BY <2>1 DEF InOrder
  <2>3. QED
    BY <1>2, <2>1, <2>2 DEF EventSeq, Seen, TypeTurn
<1>3. QED
  BY <1>1, <1>2

LEMMA RetryKeeps ==
    ASSUME TypeTurn, ReaderInv, client = "reading", Retry
    PROVE  ReaderInv'
<1>1. EventSeq = Len(got) /\ Len(got) \in 0..Len(log)
  BY EventSeqIsSeen DEF ReaderInv
<1>2. /\ batch' = <<>> /\ wire' = <<>> /\ ended' = FALSE
      /\ UNCHANGED <<log, gone, got>> /\ attempts' = attempts + 1
      /\ \/ client' = "failed" /\ at' = "closed" /\ cursor' = cursor
         \/ /\ client' \in {"reading", "failed"} /\ at' = "poll" /\ cursor' = Len(got)
            /\ attempts' <= MaxAttempts
  <2>1. attempts \in Nat /\ MaxAttempts \in Nat
    BY StreamAssumption DEF ReaderInv, TypeReader
  <2>2. UNCHANGED <<log, gone, got>> /\ batch' = <<>> /\ wire' = <<>> /\ ended' = FALSE
    BY DEF Retry, turnVars
  <2>3. CASE attempts + 1 > MaxAttempts \/ gone
    BY <2>2, <2>3 DEF Retry
  <2>4. CASE ~(attempts + 1 > MaxAttempts \/ gone)
    BY <2>1, <2>2, <2>4, <1>1 DEF Retry
  <2>5. QED
    BY <2>3, <2>4
<1>3. attempts \in Nat /\ attempts <= MaxAttempts /\ MaxAttempts \in Nat
  BY StreamAssumption DEF ReaderInv, TypeReader, Tries
<1>4. TypeReader'
  <2>1. <<>> \in Seq(DOMAIN log) /\ got \in Seq(DOMAIN log)
    BY DEF ReaderInv, TypeReader
  <2>2. cursor' \in 0..Len(log)
    BY <1>1, <1>2 DEF ReaderInv, TypeReader
  <2>3. attempts' \in 0..MaxAttempts + 1
    BY <1>2, <1>3
  <2>4. batch' \in Seq(DOMAIN log') /\ wire' \in Seq(DOMAIN log') /\ got' \in Seq(DOMAIN log')
    BY <1>2, <2>1
  <2>5. at' \in {"poll", "closed"} /\ client' \in {"reading", "failed"} /\ ended' = FALSE
    BY <1>2
  <2>6. cursor' \in 0..Len(log')
    BY <1>2, <2>2
  <2>7. QED
    BY <1>2, <2>3, <2>4, <2>5, <2>6 DEF TypeReader
<1>5. InOrder' /\ WaitsForEnd' /\ Tries'
  BY <1>2, <1>3 DEF ReaderInv, InOrder, WaitsForEnd, Tries
<1>6. Line'
  BY <1>1, <1>2 DEF Line
<1>7. Told'
  BY <1>2 DEF Told
<1>8. QED
  BY <1>4, <1>5, <1>6, <1>7 DEF ReaderInv

LEMMA PollKeeps ==
    ASSUME TypeTurn, ReaderInv, Poll
    PROVE  ReaderInv'
<1> USE DEF turnVars, clientVars
<1>1. UNCHANGED <<log, gone, running, cursor, wire, got, ended, attempts, client>> /\ at = "poll"
  BY DEF Poll
<1>2. Len(log) \in Nat /\ DOMAIN log = 1..Len(log) /\ cursor \in 0..Len(log)
  BY DEF TypeTurn, ReaderInv, TypeReader
<1>3. batch' \in Seq(DOMAIN log) /\ (\A n \in DOMAIN batch' : batch'[n] = cursor + n)
  <2>1. CASE gone
    <3>1. batch' = <<>>
      BY <2>1 DEF Poll
    <3>2. QED
      BY <3>1
  <2>2. CASE ~gone
    <3> DEFINE rest == [i \in 1..(Len(log) - cursor) |-> cursor + i]
    <3>1. batch' = rest
      BY <2>2 DEF Poll
    <3>2. Len(log) - cursor \in Nat /\ \A i \in 1..(Len(log) - cursor) : cursor + i \in DOMAIN log
      BY <1>2
    <3>3. rest \in Seq(DOMAIN log)
      BY <3>2, IsASeq
    <3>4. QED
      BY <3>1, <3>3
  <2>3. QED
    BY <2>1, <2>2
<1>4. at' \in {"check", "send"} /\ (at' = "send" <=> batch' # <<>>)
  BY DEF Poll
<1>5. TypeReader'
  BY <1>1, <1>3, <1>4 DEF ReaderInv, TypeReader
<1>6. InOrder' /\ WaitsForEnd' /\ Tries' /\ Told'
  BY <1>1, <1>4 DEF ReaderInv, InOrder, WaitsForEnd, Tries, Told
<1>7. Line'
  BY <1>1, <1>3, <1>4 DEF ReaderInv, Line
<1>8. QED
  BY <1>5, <1>6, <1>7 DEF ReaderInv

LEMMA CheckKeeps ==
    ASSUME TypeTurn, ReaderInv, Check
    PROVE  ReaderInv'
<1> USE DEF turnVars, clientVars
<1>1. /\ UNCHANGED <<log, gone, running, cursor, batch, wire, got, ended, attempts, client>>
      /\ at = "check"
      /\ (at' = "closed" /\ (gone \/ HasEnd)) \/ at' = "poll"
  BY DEF Check
<1>2. TypeReader'
  BY <1>1 DEF ReaderInv, TypeReader
<1>3. InOrder' /\ Tries' /\ Told' /\ Line'
  BY <1>1 DEF ReaderInv, InOrder, Tries, Told, Line
<1>4. WaitsForEnd'
  BY <1>1 DEF WaitsForEnd, HasEnd
<1>5. QED
  BY <1>2, <1>3, <1>4 DEF ReaderInv

LEMMA YieldKeeps ==
    ASSUME TypeTurn, ReaderInv, Yield
    PROVE  ReaderInv'
<1> USE DEF turnVars
<1>1. /\ UNCHANGED <<log, gone, running, got, ended, attempts, client>>
      /\ at = "send" /\ wire' = Append(wire, Head(batch)) /\ cursor' = Head(batch)
      /\ \/ at' = "closed" /\ batch' = <<>> /\ log[Head(batch)] \in Ends
         \/ /\ batch' = Tail(batch) /\ at' \in {"poll", "send"}
            /\ at' = "send" <=> Tail(batch) # <<>>
  BY DEF Yield
<1>2. /\ batch \in Seq(DOMAIN log) /\ batch # <<>>
      /\ wire \in Seq(DOMAIN log) /\ got \in Seq(DOMAIN log)
      /\ Len(log) \in Nat /\ DOMAIN log = 1..Len(log) /\ cursor \in 0..Len(log)
  BY <1>1 DEF TypeTurn, ReaderInv, TypeReader
<1>3. Head(batch) = cursor + 1 /\ Head(batch) \in DOMAIN log /\ cursor = Len(got) + Len(wire)
  BY <1>1, <1>2 DEF ReaderInv, Line
<1>4. /\ Tail(batch) \in Seq(DOMAIN log)
      /\ \A n \in DOMAIN Tail(batch) : Tail(batch)[n] = cursor + 1 + n
  <2>1. Tail(batch) \in Seq(DOMAIN log) /\ Len(Tail(batch)) = Len(batch) - 1
    BY <1>2
  <2>2. \A n \in 1..Len(Tail(batch)) : Tail(batch)[n] = batch[n + 1] /\ n + 1 \in DOMAIN batch
    BY <1>2
  <2>3. \A n \in DOMAIN batch : batch[n] = cursor + n
    BY DEF ReaderInv, Line
  <2>4. \A n \in 1..Len(Tail(batch)) : Tail(batch)[n] = cursor + 1 + n
    BY <2>2, <2>3, <1>2
  <2>5. QED
    BY <2>1, <2>4
<1>5. /\ wire' \in Seq(DOMAIN log) /\ Len(wire') = Len(wire) + 1
      /\ \A n \in DOMAIN wire' : wire'[n] = Len(got) + n
  <2>1. wire' \in Seq(DOMAIN log) /\ Len(wire') = Len(wire) + 1 /\ Len(wire) \in Nat /\ Len(got) \in Nat
    BY <1>1, <1>2, <1>3
  <2>2. \A n \in 1..Len(wire) : wire[n] = Len(got) + n
    BY <1>2 DEF ReaderInv, Line
  <2>3. PICK row : row = Head(batch)
    OBVIOUS
  <2>4. /\ \A n \in 1..Len(wire) : wire'[n] = wire[n]
        /\ wire'[Len(wire) + 1] = row
    BY <1>1, <1>2, <2>3
  <2>5. row = Len(got) + (Len(wire) + 1)
    BY <1>3, <2>1, <2>3
  <2>6. ASSUME NEW n \in 1..(Len(wire) + 1) PROVE wire'[n] = Len(got) + n
    <3>1. CASE n = Len(wire) + 1
      BY <3>1, <2>4, <2>5
    <3>2. CASE n \in 1..Len(wire)
      BY <3>2, <2>2, <2>4
    <3>3. QED
      BY <3>1, <3>2, <2>1
  <2>7. QED
    BY <2>1, <2>6
<1>6. TypeReader'
  <2>1. <<>> \in Seq(DOMAIN log)
    OBVIOUS
  <2>2. batch' \in Seq(DOMAIN log') /\ wire' \in Seq(DOMAIN log') /\ got' \in Seq(DOMAIN log')
    BY <2>1, <1>1, <1>2, <1>4, <1>5
  <2>3. cursor' \in 0..Len(log')
    BY <1>1, <1>2, <1>3
  <2>4. at' \in {"poll", "check", "send", "closed"} /\ (at' = "send" <=> batch' # <<>>)
    BY <1>1
  <2>5. QED
    BY <2>2, <2>3, <2>4, <1>1 DEF ReaderInv, TypeReader
<1>7. InOrder' /\ Tries' /\ Told'
  BY <1>1 DEF ReaderInv, InOrder, Tries, Told
<1>8. WaitsForEnd'
  BY <1>1, <1>3 DEF WaitsForEnd, HasEnd
<1>9. Line'
  <2>1. Len(wire) \in Nat /\ Len(got) \in Nat
    BY <1>2
  <2>2. \A n \in DOMAIN batch' : batch'[n] = cursor' + n
    <3>1. CASE batch' = <<>>
      BY <3>1
    <3>2. CASE batch' = Tail(batch)
      BY <3>2, <1>1, <1>3, <1>4
    <3>3. QED
      BY <3>1, <3>2, <1>1
  <2>3. cursor' = Len(got') + Len(wire')
    BY <1>1, <1>3, <1>5, <2>1
  <2>4. QED
    BY <1>1, <1>5, <2>2, <2>3 DEF Line
<1>10. QED
  BY <1>6, <1>7, <1>8, <1>9 DEF ReaderInv

LEMMA ReceiveKeeps ==
    ASSUME TypeTurn, ReaderInv, Receive
    PROVE  ReaderInv'
<1> USE DEF turnVars, serverVars
<1>1. /\ UNCHANGED <<log, gone, running, at, cursor, batch, attempts, client>>
      /\ client = "reading" /\ wire # <<>> /\ wire' = Tail(wire)
  BY DEF Receive
<1>2. /\ wire \in Seq(DOMAIN log) /\ got \in Seq(DOMAIN log)
      /\ Len(log) \in Nat /\ DOMAIN log = 1..Len(log)
      /\ Len(got) \in Nat /\ Len(wire) \in Nat
  BY DEF TypeTurn, ReaderInv, TypeReader
<1>3. Head(wire) = Len(got) + 1 /\ Head(wire) \in DOMAIN log /\ EventSeq = Len(got)
  BY <1>1, <1>2, EventSeqIsSeen DEF ReaderInv, Line
<1>4. got' = Append(got, Head(wire)) /\ ended' = (ended \/ log[Head(wire)] \in Ends \cup {"error"})
  BY <1>2, <1>3 DEF Receive
<1>5. /\ got' \in Seq(DOMAIN log) /\ Len(got') = Len(got) + 1
      /\ \A n \in 1..Len(got) : got'[n] = got[n]
      /\ got'[Len(got) + 1] = Len(got) + 1
      /\ DOMAIN got = 1..Len(got) /\ DOMAIN got' = 1..(Len(got) + 1)
  BY <1>2, <1>3, <1>4
<1>6. /\ wire' \in Seq(DOMAIN log) /\ Len(wire') = Len(wire) - 1
      /\ \A n \in 1..Len(wire') : wire'[n] = wire[n + 1] /\ n + 1 \in DOMAIN wire
  BY <1>1, <1>2
<1>7. TypeReader'
  <2>1. ended' \in BOOLEAN
    BY <1>4 DEF ReaderInv, TypeReader
  <2>2. QED
    BY <2>1, <1>1, <1>5, <1>6 DEF ReaderInv, TypeReader
<1>8. InOrder'
  <2> SUFFICES ASSUME NEW n \in DOMAIN got' PROVE got'[n] = n
    BY DEF InOrder
  <2>1. CASE n \in DOMAIN got
    BY <2>1, <1>5 DEF ReaderInv, InOrder
  <2>2. CASE n = Len(got) + 1
    BY <2>2, <1>5
  <2>3. QED
    BY <2>1, <2>2, <1>2, <1>5
<1>9. WaitsForEnd' /\ Tries'
  BY <1>1 DEF ReaderInv, WaitsForEnd, Tries, HasEnd
<1>10. Line'
  <2>1. \A n \in DOMAIN wire : wire[n] = Len(got) + n
    BY DEF ReaderInv, Line
  <2>2. ASSUME NEW n \in 1..Len(wire') PROVE wire'[n] = Len(got') + n
    <3>1. wire'[n] = wire[n + 1] /\ n + 1 \in DOMAIN wire
      BY <1>6
    <3>2. wire[n + 1] = Len(got) + (n + 1)
      BY <2>1, <3>1
    <3>3. n \in Nat
      BY <1>6, <1>2
    <3>4. QED
      BY <3>1, <3>2, <3>3, <1>2, <1>5
  <2>3. at' # "closed" => cursor' = Len(got') + Len(wire')
    BY <1>1, <1>2, <1>5, <1>6 DEF ReaderInv, Line
  <2>4. QED
    BY <1>1, <1>6, <2>2, <2>3 DEF ReaderInv, Line
<1>11. Told'
  <2>1. CASE log[Head(wire)] \in Ends \cup {"error"}
    <3>1. Len(got) + 1 \in DOMAIN got' /\ log'[Len(got) + 1] \in Ends \cup {"error"}
      BY <2>1, <1>1, <1>2, <1>3, <1>5
    <3>2. QED
      BY <3>1, <1>5 DEF Told
  <2>2. CASE log[Head(wire)] \notin Ends \cup {"error"}
    <3> SUFFICES ASSUME ended' \/ client' = "finished"
                 PROVE  \E n \in DOMAIN got' : got'[n] = n /\ log'[n] \in Ends \cup {"error"}
      BY DEF Told
    <3>1. PICK n \in DOMAIN got : got[n] = n /\ log[n] \in Ends \cup {"error"}
      BY <2>2, <1>1, <1>4 DEF ReaderInv, Told
    <3>2. n \in DOMAIN got' /\ got'[n] = n /\ log'[n] \in Ends \cup {"error"}
      BY <3>1, <1>1, <1>2, <1>5
    <3>3. QED
      BY <3>2
  <2>3. QED
    BY <2>1, <2>2
<1>12. QED
  BY <1>7, <1>8, <1>9, <1>10, <1>11 DEF ReaderInv

LEMMA StreamEndsKeeps ==
    ASSUME TypeTurn, ReaderInv, StreamEnds
    PROVE  ReaderInv'
<1>1. CASE ended
  <2>1. client' = "finished" /\ UNCHANGED <<turnVars, serverVars, wire, got, ended, attempts>>
    BY <1>1 DEF StreamEnds
  <2>2. TypeReader'
    BY <2>1 DEF ReaderInv, TypeReader, turnVars, serverVars
  <2>3. QED
    BY <1>1, <2>1, <2>2
    DEF ReaderInv, InOrder, Line, WaitsForEnd, Told, Tries, turnVars, serverVars
<1>2. CASE ~ended
  BY <1>2, RetryKeeps DEF StreamEnds
<1>3. QED
  BY <1>1, <1>2

----------------------------------------------------------------------------
THEOREM Invariant == Spec => []IInv
<1>1. Init => IInv
  <2> SUFFICES ASSUME Init PROVE IInv
    OBVIOUS
  <2>2. DOMAIN <<>> = {} /\ Len(<<>>) = 0 /\ \A S : <<>> \in Seq(S)
    OBVIOUS
  <2>1. TurnInv
    <3>1. TypeTurn
      BY <2>2 DEF Init, TypeTurn, Points
    <3>2. AfterError /\ ErrorIsLast
      BY DEF Init, AfterError, ErrorIsLast
    <3>3. QED
      BY <3>1, <3>2 DEF TurnInv
  <2>3. TypeReader /\ Tries
    <3>1. batch \in Seq(DOMAIN log) /\ wire \in Seq(DOMAIN log) /\ got \in Seq(DOMAIN log)
      BY <2>2 DEF Init
    <3>2. cursor \in 0..Len(log) /\ attempts \in 0..MaxAttempts + 1 /\ attempts <= MaxAttempts
      BY <2>2, StreamAssumption DEF Init
    <3>3. QED
      BY <3>1, <3>2 DEF Init, TypeReader, Tries
  <2>4. InOrder /\ Line /\ WaitsForEnd /\ Told
    BY DEF Init, InOrder, Line, WaitsForEnd, Told
  <2>5. QED
    BY <2>1, <2>3, <2>4 DEF IInv, ReaderInv
<1>2. IInv /\ [Next]_vars => IInv'
  <2> SUFFICES ASSUME IInv, [Next]_vars PROVE IInv'
    OBVIOUS
  <2>1. TurnInv /\ TypeTurn /\ ReaderInv
    BY DEF IInv, TurnInv
  <2>2. CASE RunnerStep \/ Crash \/ LeaseExpires \/ Overtake \/ OtherEnds \/ Recover \/ Delete
    BY <2>1, <2>2, TurnSteps, ReaderKeeps DEF IInv
  <2>3. CASE Reader \/ Drop
    <3>1. UNCHANGED turnVars
      BY <2>3 DEF Reader, Drop, Poll, Check, Yield, Receive, StreamEnds, Retry
    <3>2. TurnInv'
      BY <2>1, <3>1 DEF TurnInv, TypeTurn, AfterError, ErrorIsLast, HasEnd, turnVars
    <3>3. ReaderInv'
      BY <2>1, <2>3, PollKeeps, CheckKeeps, YieldKeeps, ReceiveKeeps, StreamEndsKeeps, RetryKeeps
      DEF Reader, Drop
    <3>4. QED
      BY <3>2, <3>3 DEF IInv
  <2>4. CASE UNCHANGED vars
    <3>1. UNCHANGED <<turnVars, serverVars, clientVars>>
      BY <2>4 DEF vars
    <3>2. TurnInv'
      BY <2>1, <3>1 DEF TurnInv, TypeTurn, AfterError, ErrorIsLast, HasEnd, turnVars
    <3>3. ReaderInv'
      BY <2>1, <3>1, Unchanged, ReaderKeeps DEF turnVars
    <3>4. QED
      BY <3>2, <3>3 DEF IInv
  <2>5. QED
    BY <2>2, <2>3, <2>4, Zenon DEF Next
<1>3. QED
  BY <1>1, <1>2, PTL DEF Spec

\* The type invariant.
THEOREM Typed == Spec => []TypeOK
<1>1. IInv => TypeOK
  BY DEF IInv, TurnInv, TypeTurn, ReaderInv, TypeReader, TypeOK
<1>2. QED
  BY <1>1, Invariant, PTL

\* No row is skipped, repeated or out of place in what the widget dispatches, over
\* any number of broken connections.
THEOREM RowsInOrder == Spec => []InOrder
<1>1. IInv => InOrder
  BY DEF IInv, ReaderInv
<1>2. QED
  BY <1>1, Invariant, PTL

\* A stream does not close between the end of the turn and its last row.
THEOREM StreamWaits == Spec => []WaitsForEnd
<1>1. IInv => WaitsForEnd
  BY DEF IInv, ReaderInv
<1>2. QED
  BY <1>1, Invariant, PTL

\* After an error nothing is done, so who was told of an end or an error missed nothing.
LEMMA FinishedShowsAll == IInv => ShownEverything
<1> SUFFICES ASSUME IInv, client = "finished", NEW n \in DOMAIN log, log[n] = "progress",
                    \A k \in 1..n : log[k] \notin Ends
             PROVE  n <= Seen
  BY DEF ShownEverything
<1>1. PICK m \in DOMAIN got : got[m] = m /\ log[m] \in Ends \cup {"error"}
  BY DEF IInv, ReaderInv, Told
<1>2. /\ m \in DOMAIN log /\ m \in 1..Seen /\ Seen \in Nat
      /\ DOMAIN log = 1..Len(log) /\ Len(log) \in Nat
  BY <1>1 DEF IInv, ReaderInv, TypeReader, TurnInv, TypeTurn, Seen
<1>3. CASE n < m
  BY <1>2, <1>3
<1>4. CASE m <= n
  <2>1. m \in 1..n
    BY <1>2, <1>4
  <2>2. log[m] = "error"
    BY <1>1, <2>1
  <2>3. m < n
    BY <1>2, <1>4, <2>2
  <2>4. QED
    BY <1>2, <2>2, <2>3 DEF IInv, TurnInv, ErrorIsLast
<1>5. QED
  BY <1>2, <1>3, <1>4

\* A widget that has finished has shown all the turn did before its end.
THEOREM WidgetShowsAll == Spec => []ShownEverything
  BY FinishedShowsAll, Invariant, PTL

----------------------------------------------------------------------------
(* TurnStream implements TurnReport. *)

Rows == [n \in DOMAIN got |-> log[got[n]]]

\* The rows told are the first rows of the log.
FirstRows ==
    /\ Rows \in Seq(Kinds) /\ Len(Rows) = Len(got) /\ DOMAIN Rows = 1..Len(got)
    /\ got \in Seq(DOMAIN log) /\ Len(got) \in Nat /\ DOMAIN got = 1..Len(got)
    /\ \A n \in 1..Len(got) : got[n] = n /\ n \in DOMAIN log /\ Rows[n] = log[n]

LEMMA RowsTold == IInv => FirstRows
<1> SUFFICES ASSUME IInv PROVE FirstRows
  OBVIOUS
<1>1. got \in Seq(DOMAIN log) /\ log \in Seq(Kinds) /\ InOrder
  BY DEF IInv, TurnInv, TypeTurn, ReaderInv, TypeReader
<1>2. Len(got) \in Nat /\ DOMAIN got = 1..Len(got)
  BY <1>1
<1>3. ASSUME NEW n \in 1..Len(got) PROVE got[n] = n /\ n \in DOMAIN log /\ log[n] \in Kinds
  <2>1. got[n] = n /\ got[n] \in DOMAIN log
    BY <1>1, <1>2 DEF InOrder
  <2>2. QED
    BY <2>1, <1>1
<1>4. Rows = [n \in 1..Len(got) |-> log[n]]
  BY <1>2, <1>3 DEF Rows
<1>5. Rows \in Seq(Kinds) /\ Len(Rows) = Len(got) /\ DOMAIN Rows = 1..Len(got)
  BY <1>2, <1>3, <1>4, IsASeq
<1>6. QED
  BY <1>1, <1>2, <1>3, <1>4, <1>5 DEF FirstRows

LEMMA RowsToldNext == IInv' => FirstRows'
  BY RowsTold, PTL

\* What happens to the turn is a Write of the report.
LEMMA TurnWrites ==
    ASSUME IInv, Grows, UNCHANGED <<serverVars, clientVars>>
    PROVE  Report!Write
<1>1. got' = got /\ client' = client
  BY DEF clientVars
<1>2. ASSUME NEW n \in DOMAIN got PROVE log'[got[n]] = log[got[n]]
  BY RowsTold DEF Grows, FirstRows
<1>3. [n \in DOMAIN got' |-> log'[got'[n]]] = [n \in DOMAIN got |-> log[got[n]]]
  BY <1>1, <1>2
<1>4. log' \in Seq(Report!Kinds)
  BY DEF Grows, Kinds, Ends, Report!Kinds, Report!Ends
<1>5. QED
  BY <1>1, <1>3, <1>4 DEF Report!Write, Grows

\* A row that the widget dispatches is the next one.
LEMMA ReceiveTells ==
    ASSUME IInv, IInv', Receive
    PROVE  Report!Tell
<1>1. /\ log' = log /\ client = "reading" /\ client' = client /\ wire # <<>>
      /\ Head(wire) = Len(got) + 1 /\ Head(wire) \in DOMAIN log /\ EventSeq = Len(got)
  <2>1. wire # <<>> /\ wire \in Seq(DOMAIN log) /\ client = "reading" /\ UNCHANGED <<log, client>>
    BY DEF Receive, IInv, ReaderInv, TypeReader, turnVars
  <2>2. Head(wire) = wire[1] /\ 1 \in DOMAIN wire /\ wire[1] \in DOMAIN log
    BY <2>1
  <2>3. wire[1] = Len(got) + 1
    BY <2>2 DEF IInv, ReaderInv, Line
  <2>4. QED
    BY <2>1, <2>2, <2>3, EventSeqIsSeen DEF IInv, TurnInv, ReaderInv
<1>2. got' = Append(got, Len(got) + 1)
  BY <1>1 DEF Receive
<1>3. got \in Seq(DOMAIN log) /\ Len(got) \in Nat /\ Len(got') = Len(got) + 1
  BY <1>2, RowsTold DEF FirstRows
<1>4. /\ Rows' \in Seq(Kinds) /\ Len(Rows') = Len(got) + 1
      /\ \A n \in 1..(Len(got) + 1) : Rows'[n] = log[n]
  BY <1>1, <1>3, RowsToldNext DEF FirstRows
<1>5. Rows' = Append(Rows, log[Len(got) + 1])
  <2>1. /\ Append(Rows, log[Len(got) + 1]) \in Seq(Kinds)
        /\ Len(Append(Rows, log[Len(got) + 1])) = Len(got) + 1
        /\ \A n \in 1..(Len(got) + 1) : Append(Rows, log[Len(got) + 1])[n] = log[n]
    <3>1. log[Len(got) + 1] \in Kinds
      BY <1>1 DEF IInv, TurnInv, TypeTurn
    <3>2. Rows \in Seq(Kinds) /\ Len(Rows) = Len(got) /\ \A n \in 1..Len(got) : Rows[n] = log[n]
      BY RowsTold DEF FirstRows
    <3>3. QED
      BY <3>1, <3>2, <1>3, AppendProperties
  <2>2. QED
    BY <1>4, <2>1, SeqEqual
<1>6. Len(got) < Len(log)
  BY <1>1, <1>3 DEF IInv, TurnInv, TypeTurn
<1>7. QED
  BY <1>1, <1>5, <1>6, RowsTold DEF Report!Tell, Rows, FirstRows

\* A reconnect tells the reader nothing, and may be the last.
LEMMA RetryGivesUp ==
    ASSUME client = "reading", Retry
    PROVE  Report!GiveUp \/ UNCHANGED Report!trVars
<1>1. UNCHANGED <<log, got>> /\ client' \in {"reading", "failed"}
  BY DEF Retry, turnVars
<1>2. QED
  BY <1>1 DEF Report!GiveUp, Report!trVars

\* A widget that finishes has heard everything.
LEMMA StreamEndsFinishes ==
    ASSUME IInv, IInv', StreamEnds
    PROVE  Report!Finish \/ Report!GiveUp \/ UNCHANGED Report!trVars
<1>1. CASE ended
  <2>1. client = "reading" /\ client' = "finished" /\ UNCHANGED <<log, got>>
    BY <1>1 DEF StreamEnds, turnVars
  <2>2. \A n \in DOMAIN log : log[n] = "progress" /\ (\A k \in 1..n : log[k] \notin Ends) => n <= Len(got)
    <3>1. ShownEverything'
      BY FinishedShowsAll, PTL
    <3>2. QED
      BY <2>1, <3>1 DEF ShownEverything, Seen
  <2>3. \E n \in DOMAIN Rows : Rows[n] \in Ends \cup {"error"}
    <3>1. PICK n \in DOMAIN got : got[n] = n /\ log[n] \in Ends \cup {"error"}
      BY <1>1 DEF IInv, ReaderInv, Told
    <3>2. QED
      BY <3>1, RowsTold DEF FirstRows
  <2>4. QED
    BY <2>1, <2>2, <2>3, RowsTold DEF Report!Finish, Report!Ends, Ends, Rows, FirstRows
<1>2. CASE ~ended
  BY <1>2, RetryGivesUp DEF StreamEnds
<1>3. QED
  BY <1>1, <1>2

\* Polling, two transactions at the end, broken connections and reconnects amount to a
\* reader that is told row after row and finishes when it has heard all
\* (_tail_turn_events, pumpStream, streamWithReconnect).
THEOREM StreamKeepsReport == Spec => KeepsReport
<1>1. Init => Report!Init
  <2> SUFFICES ASSUME Init PROVE Report!Init
    OBVIOUS
  <2>1. DOMAIN <<>> = {} /\ [n \in {} |-> log[got[n]]] = <<>>
    OBVIOUS
  <2>2. QED
    BY <2>1 DEF Init, Report!Init
<1>2. IInv /\ IInv' /\ [Next]_vars => [Report!Next]_(Report!trVars)
  <2> SUFFICES ASSUME IInv, IInv', [Next]_vars PROVE Report!Next \/ UNCHANGED Report!trVars
    OBVIOUS
  <2>1. CASE RunnerStep \/ Crash \/ LeaseExpires \/ Overtake \/ OtherEnds \/ Recover \/ Delete
    BY <2>1, TurnSteps, TurnWrites DEF IInv, Report!Next
  <2>2. CASE Poll \/ Check \/ Yield \/ UNCHANGED vars
    <3>1. UNCHANGED <<log, got, client>>
      BY <2>2 DEF Poll, Check, Yield, vars, turnVars, clientVars
    <3>2. QED
      BY <3>1 DEF Report!trVars
  <2>3. CASE Receive
    BY <2>3, ReceiveTells DEF Report!Next
  <2>4. CASE StreamEnds
    BY <2>4, StreamEndsFinishes DEF Report!Next
  <2>5. CASE Drop
    BY <2>5, RetryGivesUp DEF Drop, Report!Next
  <2>6. QED
    BY <2>1, <2>2, <2>3, <2>4, <2>5, Zenon DEF Next, Reader
<1>3. QED
  BY <1>1, <1>2, Invariant, PTL DEF Spec, KeepsReport, Report!Spec
=============================================================================
