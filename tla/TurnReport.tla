----------------------------- MODULE TurnReport -----------------------------
(***************************************************************************)
(* What the reader of a turn is promised, whatever carries the rows: it is *)
(* told what was written, in that order, and when it is told that the turn *)
(* is over, it has been told all the turn had done.  It may give up.       *)
(***************************************************************************)
EXTENDS Naturals, Sequences

VARIABLES
    log,    \* the rows that were written
    told,   \* those the reader was told of
    reader

trVars == <<log, told, reader>>

Ends == {"done", "cancelled"}
Kinds == {"progress", "error"} \cup Ends

Init == log = <<>> /\ told = <<>> /\ reader = "reading"

\* Rows are added, one or several at once, and none is changed.
Write ==
    /\ log' \in Seq(Kinds) /\ Len(log) <= Len(log')
    /\ \A n \in DOMAIN log : log'[n] = log[n]
    /\ UNCHANGED <<told, reader>>

\* The next row.
Tell ==
    /\ reader = "reading" /\ Len(told) < Len(log)
    /\ told' = Append(told, log[Len(told) + 1])
    /\ UNCHANGED <<log, reader>>

\* The reader was told of an end or an error, and of all that was done up to the end.
Finish ==
    /\ reader = "reading" /\ reader' = "finished"
    /\ \E n \in DOMAIN told : told[n] \in Ends \cup {"error"}
    /\ \A n \in DOMAIN log :
          log[n] = "progress" /\ (\A k \in 1..n : log[k] \notin Ends) => n <= Len(told)
    /\ UNCHANGED <<log, told>>

GiveUp ==
    /\ reader = "reading" /\ reader' = "failed"
    /\ UNCHANGED <<log, told>>

Next == Write \/ Tell \/ Finish \/ GiveUp

Spec == Init /\ [][Next]_trVars
=============================================================================
