---------------------------- MODULE Subscription ----------------------------
(***************************************************************************)
(* A catch-up subscription (Subscription in kurrentdb/src/commands.rs).     *)
(*                                                                         *)
(* The application calls next_subscription_event again and again.  A call   *)
(* reads the open gRPC stream, or opens one from the position kept in       *)
(* self.options, and retries when that fails.  The server is external: it   *)
(* may drop or end a stream, refuse a read and be unreachable at any        *)
(* moment, and the application may drop the future of its call at any of    *)
(* the awaits.  Revisions stand for the positions of $all too.             *)
(***************************************************************************)
EXTENDS Naturals, Sequences

CONSTANTS
    Requests,         \* the subscriptions an application may ask for
    written,          \* events in the log when the subscription is created
    MaxEvents,        \* bound: events ever written
    MaxDisturbances,  \* bound: failures, drops, cancellations, notices
    None              \* Option::None

\* StreamPosition, and the revision_option of the request.
Position == [kind : {"Start", "End", "Revision"}, revision : Nat]

\* SubscribeToStreamOptions::position, and RetryOptions::limit or None.
ASSUME RequestAssumption == Requests \subseteq [position : Position, retry : Nat \cup {None}]
ASSUME LogAssumption == written \in Nat /\ MaxEvents \in Nat /\ MaxDisturbances \in Nat
ASSUME NoneAssumption == None \notin Nat

VARIABLES
    request,    \* what was asked for, which never changes
    log,        \* server: the events written are 0 .. log - 1
    cursor,     \* server: the next event on the open stream, None if none is open
    ended,      \* server: the open stream ended with status OK
    position,   \* self.options: where the next read starts
    attempts,   \* self.attempts
    phase,      \* where the call is suspended, "returned" between calls
    delivered,  \* history: the revisions returned to the application
    retries,    \* history: reads repeated by the current call since the last drop
    disturbances

serverVars  == <<log, cursor, ended>>
clientVars  == <<position, attempts, phase>>
history     == <<delivered, retries>>
vars        == <<request, serverVars, clientVars, history, disturbances>>

Phase == {"returned",
          "polling",     \* stream.try_next().await
          "connecting",  \* current_selected_node().await, or the delay before it
          "reading"}     \* client.read(req).await

\* The errors next_subscription_event tells apart.
ErrorKind == {"AccessDenied", "Other"}

TypeOK ==
    /\ request \in Requests
    /\ log \in Nat
    /\ cursor \in Nat \cup {None}
    /\ ended \in BOOLEAN
    /\ position \in Position
    /\ attempts \in Nat
    /\ phase \in Phase
    /\ delivered \in Seq(Nat)
    /\ retries \in Nat
    /\ disturbances \in Nat

start == request.position

\* Subscription::new: one attempt only when no RetryOptions were given.
retry_enabled == request.retry # None
limit         == IF retry_enabled THEN request.retry ELSE 1

Init ==
    /\ request \in Requests
    /\ log = written
    /\ cursor = None
    /\ ended = FALSE
    /\ position = start
    /\ attempts = 1
    /\ phase = "returned"
    /\ delivered = <<>>
    /\ retries = 0
    /\ disturbances = 0

-----------------------------------------------------------------------------
(* The server *)

\* Another client appends an event.
Write ==
    /\ log < MaxEvents
    /\ log' = log + 1
    /\ UNCHANGED <<cursor, ended, clientVars, history, disturbances>>

\* The first event of a read: the position itself is excluded.
FirstAfter(p) == CASE p.kind = "Start"    -> 0
                   [] p.kind = "End"      -> log
                   [] p.kind = "Revision" -> p.revision + 1

Disturb == disturbances < MaxDisturbances /\ disturbances' = disturbances + 1

\* The server completes the stream without an error.
StreamEnds ==
    /\ cursor # None
    /\ ~ended
    /\ Disturb
    /\ ended' = TRUE
    /\ UNCHANGED <<log, cursor, clientVars, history>>

-----------------------------------------------------------------------------
(* next_subscription_event, with an open stream *)

\* The application calls; the stream is taken out of self, if there is one.
Call ==
    /\ phase = "returned"
    /\ phase' = IF cursor # None THEN "polling" ELSE "connecting"
    /\ retries' = 0
    /\ UNCHANGED <<serverVars, position, attempts, delivered, disturbances>>

\* Mutant of Resume: the position of the request is left where it was.
Resume_Stale(e) == position

\* Mutant of Resume: the position is taken for the first event wanted.
Resume_Before(e) == [kind |-> "Revision", revision |-> e - 1]

\* The revision of the event becomes the position of the next request.
Resume(e) == [kind |-> "Revision", revision |-> e]

EventAppeared ==
    /\ phase = "polling"
    /\ ~ended
    /\ cursor < log
    /\ delivered' = Append(delivered, cursor)
    /\ position' = Resume(cursor)
    /\ cursor' = cursor + 1
    /\ phase' = "returned"
    /\ UNCHANGED <<log, ended, attempts, retries, disturbances>>

\* Confirmation, Checkpoint, CaughtUp, ...: returned without any other effect.
NoticeAppeared ==
    /\ phase = "polling"
    /\ ~ended
    /\ Disturb
    /\ phase' = "returned"
    /\ UNCHANGED <<serverVars, position, attempts, history>>

\* try_next failed: the stream is gone, and either a new one is opened or the
\* error is returned.
StreamDropped(kind) ==
    /\ phase = "polling"
    /\ ~ended
    /\ Disturb
    /\ cursor' = None
    /\ attempts' = 1
    /\ phase' = IF kind = "AccessDenied" \/ ~retry_enabled THEN "returned" ELSE "connecting"
    /\ retries' = 0
    /\ UNCHANGED <<log, ended, position, delivered>>

\* try_next returned None: the stream is put back and polled again.
PollEnded ==
    /\ phase = "polling"
    /\ ended
    /\ UNCHANGED vars

\* try_next is pending: everything written has been sent.
Pending ==
    /\ phase = "polling"
    /\ ~ended
    /\ cursor >= log
    /\ UNCHANGED vars

-----------------------------------------------------------------------------
(* next_subscription_event, without a stream *)

NodeSelected ==
    /\ phase = "connecting"
    /\ phase' = "reading"
    /\ UNCHANGED <<serverVars, position, attempts, history, disturbances>>

\* current_selected_node failed: its error is returned as it is.
NodeUnavailable ==
    /\ phase = "connecting"
    /\ Disturb
    /\ phase' = "returned"
    /\ UNCHANGED <<serverVars, position, attempts, delivered, retries>>

ReadAccepted ==
    /\ phase = "reading"
    /\ cursor' = FirstAfter(position)
    /\ phase' = "polling"
    /\ UNCHANGED <<log, ended, position, attempts, delivered, retries, disturbances>>

\* Mutant of RetryRead: the attempt is not counted.
RetryRead_Uncounted ==
    /\ attempts < limit
    /\ phase' = "connecting"
    /\ retries' = retries + 1
    /\ UNCHANGED attempts

\* The read failed and may be repeated, after the delay.
RetryRead ==
    /\ attempts < limit
    /\ attempts' = attempts + 1
    /\ phase' = "connecting"
    /\ retries' = retries + 1

GiveUp(kind) ==
    /\ kind = "AccessDenied" \/ attempts >= limit
    /\ phase' = "returned"
    /\ UNCHANGED <<attempts, retries>>

ReadFails(kind) ==
    /\ phase = "reading"
    /\ Disturb
    /\ (kind # "AccessDenied" /\ RetryRead) \/ GiveUp(kind)
    /\ UNCHANGED <<serverVars, position, delivered>>

-----------------------------------------------------------------------------
\* Mutant of Cancel: the stream survives, but the event it was about to return
\* does not.
Cancel_LosesEvent ==
    /\ phase # "returned"
    /\ Disturb
    /\ phase' = "returned"
    /\ cursor' = IF phase = "polling" /\ cursor < log THEN cursor + 1 ELSE cursor
    /\ UNCHANGED <<log, ended, position, attempts, history>>

\* The application drops the future (a timeout, a select!): the stream that the
\* call took out of self goes with it.
Cancel ==
    /\ phase # "returned"
    /\ Disturb
    /\ phase' = "returned"
    /\ cursor' = None
    /\ ended' = FALSE
    /\ UNCHANGED <<log, position, attempts, delivered, retries>>

-----------------------------------------------------------------------------
(* The specification *)

\* What the application and the runtime do when nothing goes wrong.
Progress == (Call \/ EventAppeared \/ NodeSelected \/ ReadAccepted) /\ UNCHANGED request

Next ==
    \/ Progress
    \/ /\ \/ Write \/ StreamEnds \/ NoticeAppeared \/ PollEnded \/ Pending
          \/ \E kind \in ErrorKind : StreamDropped(kind) \/ ReadFails(kind)
          \/ NodeUnavailable \/ Cancel
       /\ UNCHANGED request

\* The application keeps calling, a reachable server accepts reads and sends
\* what is written, and the runtime polls what is ready.
Fairness == WF_vars(Progress)

Spec == Init /\ [][Next]_vars /\ Fairness

-----------------------------------------------------------------------------
(* Safety *)

\* Where a subscription that does not follow the end of the log begins.
First == IF start.kind = "Start" THEN 0 ELSE start.revision + 1

\* Across any number of drops, failed reads and cancelled calls, the application
\* sees every event once, in order, from the position it asked for.  (A
\* subscription from the end has no gap after the first event it is shown.)
ExactlyOnceInOrder ==
    /\ \A i \in 1..Len(delivered) : delivered[i] = delivered[1] + i - 1
    /\ delivered # <<>> /\ start.kind # "End" => delivered[1] = First

Feed == INSTANCE EventFeed WITH start <- IF start.kind = "End" THEN None ELSE First

\* Seen from the application, a subscription is an EventFeed.
ImplementsEventFeed == Feed!Spec

\* However drops, failures and successes alternate, a call never repeats a failing
\* read more often than RetryOptions::limit says ("how many time we retry a failing
\* command before giving up", options/retry.rs), and never without RetryOptions.
RetriesWithinLimit == retries <= limit /\ (~retry_enabled => retries = 0)

\* "Sets how many time we retry a failing command before giving up"
\* (options/retry.rs): a call gives up on a read that fails, other than by a
\* refusal of access, only after that many retries.  The code gives up earlier:
\* attempts starts at 1, and is not reset between calls.
GivesUpAfterLimit ==
    [][ReadFails("Other") /\ phase' = "returned" /\ retry_enabled => retries >= limit]_vars

-----------------------------------------------------------------------------
(* Liveness *)

Delivered(e) == \E i \in 1..Len(delivered) : delivered[i] = e

\* The events a subscription has to show: those after its position or, from the
\* end, those after its last event or still to come on its open stream.
Owed(e) ==
    /\ e < log
    /\ IF start.kind # "End" THEN e >= First
       ELSE \/ delivered # <<>> /\ e > delivered[Len(delivered)]
            \/ cursor # None /\ e >= cursor

\* A subscription from the end lost its stream before it was shown an event: it
\* has no position to resume from, and starts again at what is then the end.
Forgotten == start.kind = "End" /\ delivered = <<>> /\ cursor = None

\* As long as the application keeps calling, every event the subscription owes is
\* delivered, unless the server ends the stream under it.  Drops, failed reads
\* and cancelled calls make it forget nothing once it has shown an event, and
\* before that only when it follows the end.
EveryEventDelivered ==
    \A e \in 0..(MaxEvents - 1) : Owed(e) ~> Delivered(e) \/ ended \/ Forgotten

=============================================================================
