----------------------------- MODULE EventFeed -----------------------------
(***************************************************************************)
(* What a catch-up subscription promises: a log that grows, and a reader    *)
(* that is shown its events one by one, each once, in order, without a gap  *)
(* after the first one it is shown.  A reader that does not follow the end  *)
(* of the log is shown the event after its starting point first.            *)
(***************************************************************************)
EXTENDS Naturals, Sequences

CONSTANT None

VARIABLES
    start,      \* where the reader starts, None for the end of the log
    log,        \* number of events written: the events are 0 .. log - 1
    delivered   \* the events shown to the reader, in order

vars == <<start, log, delivered>>

Init == start \in Nat \cup {None} /\ log \in Nat /\ delivered = <<>>

Write == log' = log + 1 /\ UNCHANGED <<start, delivered>>

\* Whether the event e may be shown next.
IsNext(e) ==
    IF delivered = <<>> THEN start = None \/ e = start
                        ELSE e = delivered[Len(delivered)] + 1

Show ==
    /\ \E e \in 0..(log - 1) : IsNext(e) /\ delivered' = Append(delivered, e)
    /\ UNCHANGED <<start, log>>

Next == Write \/ Show

Spec == Init /\ [][Next]_vars
=============================================================================
