---------------------------- MODULE BatchAppend ----------------------------
(***************************************************************************)
(* A batch-append session (kurrentdb/src/batch.rs, and batch_append in      *)
(* kurrentdb/src/commands.rs).                                             *)
(*                                                                         *)
(* Appends are sent to an actor that forwards them on one bidirectional     *)
(* gRPC stream and keeps the oneshot of each until its response arrives; a  *)
(* reader task turns the responses, and the error that may end the stream,  *)
(* into messages for the actor.  The server is external: it executes the    *)
(* requests in any order, may answer one twice, and may fail or end the     *)
(* stream at any moment, with requests executed and not yet answered.       *)
(***************************************************************************)
EXTENDS Naturals, Sequences

CONSTANTS
    Appends,     \* calls of append_to_stream, each with its own correlation id
    MaxRepeats   \* bound: responses the server sends twice

ASSUME RepeatsAssumption == MaxRepeats \in Nat

VARIABLES
    inbox,       \* actor: its channel of BatchMsg
    actor,       \* actor: "running" or "stopped"
    reg,         \* actor: the appends whose oneshot it keeps
    forward,     \* channel of requests, read by the transport
    transport,   \* the transport still holds the receiver of forward
    reader,      \* the spawned task: see ReaderState
    executing,   \* server: requests received and not executed
    committed,   \* server: requests whose events are written
    responses,   \* server: responses on their way to the reader
    repeats,     \* server: responses sent twice so far
    append       \* per append: its progress

actorVars  == <<inbox, actor, reg>>
serverVars == <<executing, committed, responses, repeats>>
vars       == <<actorVars, forward, transport, reader, serverVars, append>>

ReaderState == {"calling",   \* client.batch_append(req).await
                "reading",   \* resp_stream.try_next().await
                "failed",    \* returned after a gRPC error
                "ended",     \* returned because the server completed the stream
                "orphaned"}  \* returned because the actor is gone

Results == {"ok", "rejected"}

\* An append ends with the server's result, with the error of the stream, with
\* "Batch-append stream has been closed", or is given up by its caller.
AppendState == {"idle", "waiting", "failed", "closed", "cancelled"} \cup Results

In(a)     == [type |-> "In", id |-> a]
Out(a, r) == [type |-> "Out", id |-> a, result |-> r]
Error     == [type |-> "Error"]

Outs     == [type : {"Out"}, id : Appends, result : Results]
BatchMsg == [type : {"In"}, id : Appends] \cup Outs \cup {Error}

TypeOK ==
    /\ inbox \in Seq(BatchMsg)
    /\ actor \in {"running", "stopped"}
    /\ reg \in SUBSET Appends
    /\ forward \in Seq(Appends)
    /\ transport \in BOOLEAN
    /\ reader \in ReaderState
    /\ executing \in SUBSET Appends
    /\ committed \in SUBSET Appends
    /\ responses \in Seq(Outs)
    /\ repeats \in Nat
    /\ append \in [Appends -> AppendState]

Init ==
    /\ inbox = <<>>
    /\ actor = "running"
    /\ reg = {}
    /\ forward = <<>>
    /\ transport = TRUE
    /\ reader = "calling"
    /\ executing = {}
    /\ committed = {}
    /\ responses = <<>>
    /\ repeats = 0
    /\ append = [a \in Appends |-> "idle"]

-----------------------------------------------------------------------------
(* The callers *)

\* Sending to the actor fails once it is gone.
Send(m) == inbox' = IF actor = "running" THEN Append(inbox, m) ELSE inbox

append_to_stream(a) ==
    /\ append[a] = "idle"
    /\ Send(In(a))
    /\ append' = [append EXCEPT ![a] = IF actor = "running" THEN "waiting" ELSE "closed"]
    /\ UNCHANGED <<actor, reg, forward, transport, reader, serverVars>>

\* The caller drops its future, and with it the receiving half of the oneshot.
Cancel(a) ==
    /\ append[a] = "waiting"
    /\ append' = [append EXCEPT ![a] = "cancelled"]
    /\ UNCHANGED <<actorVars, forward, transport, reader, serverVars>>

-----------------------------------------------------------------------------
(* The actor *)

Receive ==
    /\ actor = "running"
    /\ inbox # <<>>

\* Mutant of Dropped: the channel is not drained.
Dropped_Registered == reg

\* The appends whose oneshot the actor drops when it breaks: the registered
\* ones and those still in its channel, the message at the head included.
Dropped == reg \cup {a \in Appends : \E i \in 1..Len(inbox) : inbox[i] = In(a)}

\* The append states once the appends in S that still wait are told r.
Told(S, r) ==
    [a \in Appends |-> IF a \in S /\ append[a] = "waiting" THEN r ELSE append[a]]

\* break: the registry, the channel and the sending half of forward are dropped.
Break ==
    /\ actor' = "stopped"
    /\ inbox' = <<>>
    /\ reg' = {}

HandleIn ==
    /\ Receive
    /\ Head(inbox).type = "In"
    /\ IF transport
       THEN /\ forward' = Append(forward, Head(inbox).id)
            /\ reg' = reg \cup {Head(inbox).id}
            /\ inbox' = Tail(inbox)
            /\ UNCHANGED <<actor, append>>
       ELSE /\ append' = Told(Dropped, "closed")
            /\ Break
            /\ UNCHANGED forward
    /\ UNCHANGED <<transport, reader, serverVars>>

\* Mutant of HandleUnknown: the unknown response ends the session.
HandleUnknown_Breaks ==
    /\ Receive
    /\ Head(inbox).type = "Out"
    /\ Head(inbox).id \notin reg
    /\ append' = Told(Dropped, "closed")
    /\ Break
    /\ UNCHANGED <<forward, transport, reader, serverVars>>

\* A response whose append was answered before, or is not known.
HandleUnknown ==
    /\ Receive
    /\ Head(inbox).type = "Out"
    /\ Head(inbox).id \notin reg
    /\ inbox' = Tail(inbox)
    /\ UNCHANGED <<actor, reg, forward, transport, reader, serverVars, append>>

\* Mutant of HandleSuccess: the response answers whatever is registered.
HandleSuccess_Any ==
    /\ Receive
    /\ Head(inbox).type = "Out"
    /\ Head(inbox).id \in reg
    /\ Head(inbox).result = "ok"
    /\ append' = Told(reg, "ok")
    /\ reg' = {}
    /\ inbox' = Tail(inbox)
    /\ UNCHANGED <<actor, forward, transport, reader, serverVars>>

HandleSuccess ==
    /\ Receive
    /\ Head(inbox).type = "Out"
    /\ Head(inbox).id \in reg
    /\ Head(inbox).result = "ok"
    /\ append' = Told({Head(inbox).id}, "ok")
    /\ reg' = reg \ {Head(inbox).id}
    /\ inbox' = Tail(inbox)
    /\ UNCHANGED <<actor, forward, transport, reader, serverVars>>

\* Mutant of HandleRejection: the session goes on.
HandleRejection_Continues ==
    /\ Receive
    /\ Head(inbox).type = "Out"
    /\ Head(inbox).id \in reg
    /\ Head(inbox).result = "rejected"
    /\ append' = Told({Head(inbox).id}, "rejected")
    /\ reg' = reg \ {Head(inbox).id}
    /\ inbox' = Tail(inbox)
    /\ UNCHANGED <<actor, forward, transport, reader, serverVars>>

\* A rejected append ends the session for all the others.
HandleRejection ==
    /\ Receive
    /\ Head(inbox).type = "Out"
    /\ Head(inbox).id \in reg
    /\ Head(inbox).result = "rejected"
    /\ append' = [Told(Dropped, "closed") EXCEPT ![Head(inbox).id] =
                      IF append[Head(inbox).id] = "waiting" THEN "rejected" ELSE @]
    /\ Break
    /\ UNCHANGED <<forward, transport, reader, serverVars>>

\* The stream failed: the registered appends get its error, and those in the
\* channel behind the message are dropped.
HandleError ==
    /\ Receive
    /\ Head(inbox).type = "Error"
    /\ append' = [a \in Appends |->
                     IF a \in reg /\ append[a] = "waiting" THEN "failed"
                     ELSE Told(Dropped, "closed")[a]]
    /\ Break
    /\ UNCHANGED <<forward, transport, reader, serverVars>>

-----------------------------------------------------------------------------
(* The reader task *)

CallOpens ==
    /\ reader = "calling"
    /\ reader' = "reading"
    /\ UNCHANGED <<actorVars, forward, transport, serverVars, append>>

\* Mutant of StreamFails: the actor is not told.
StreamFails_Silent ==
    /\ reader \in {"calling", "reading"}
    /\ reader' = "failed"
    /\ responses' = <<>>
    /\ UNCHANGED <<actorVars, forward, transport, executing, committed, repeats, append>>

\* The call, or the stream of responses, fails: the actor is told, and what was
\* on its way is lost.
StreamFails ==
    /\ reader \in {"calling", "reading"}
    /\ reader' = "failed"
    /\ Send(Error)
    /\ responses' = <<>>
    /\ UNCHANGED <<actor, reg, forward, transport, executing, committed, repeats, append>>

\* A response is handed to the actor; if the actor is gone the task returns and
\* drops the stream.
ReadResponse ==
    /\ reader = "reading"
    /\ responses # <<>>
    /\ Send(Head(responses))
    /\ responses' = IF actor = "running" THEN Tail(responses) ELSE <<>>
    /\ reader' = IF actor = "running" THEN "reading" ELSE "orphaned"
    /\ UNCHANGED <<actor, reg, forward, transport, executing, committed, repeats, append>>

\* The server completed the stream: the task returns and nobody is told.
StreamEnds ==
    /\ reader = "reading"
    /\ responses = <<>>
    /\ reader' = "ended"
    /\ UNCHANGED <<actorVars, forward, transport, serverVars, append>>

-----------------------------------------------------------------------------
(* The transport and the server *)

\* The exchange is over: the transport drops the receiver of forward.
TransportCloses ==
    /\ transport
    /\ reader \in {"failed", "ended", "orphaned"}
    /\ transport' = FALSE
    /\ forward' = <<>>
    /\ UNCHANGED <<actorVars, reader, serverVars, append>>

ServerReceives ==
    /\ reader \in {"calling", "reading"}
    /\ forward # <<>>
    /\ executing' = executing \cup {Head(forward)}
    /\ forward' = Tail(forward)
    /\ UNCHANGED <<actorVars, transport, reader, committed, responses, repeats, append>>

Respond(o) ==
    responses' = IF reader \in {"calling", "reading"} THEN Append(responses, o) ELSE responses

ServerExecutes(a, r) ==
    /\ a \in executing
    /\ executing' = executing \ {a}
    /\ committed' = IF r = "ok" THEN committed \cup {a} ELSE committed
    /\ Respond(Out(a, r))
    /\ UNCHANGED <<actorVars, forward, transport, reader, repeats, append>>

\* The last response is sent once more.
ServerRepeats ==
    /\ repeats < MaxRepeats
    /\ responses # <<>>
    /\ Respond(responses[Len(responses)])
    /\ repeats' = repeats + 1
    /\ UNCHANGED <<actorVars, forward, transport, reader, executing, committed, append>>

-----------------------------------------------------------------------------
(* The specification *)

Actor == HandleIn \/ HandleUnknown \/ HandleSuccess \/ HandleRejection \/ HandleError

Server == ServerReceives \/ (\E a \in Appends, r \in Results : ServerExecutes(a, r))

\* Nothing is left to do: the actor waits for a message, or is gone.
Quiescent ==
    /\ \A a \in Appends : append[a] # "idle"
    /\ inbox = <<>>
    /\ forward = <<>>
    /\ executing = {}
    /\ responses = <<>>
    /\ UNCHANGED vars

Next ==
    \/ \E a \in Appends : append_to_stream(a) \/ Cancel(a)
    \/ Actor
    \/ CallOpens \/ StreamFails \/ ReadResponse \/ StreamEnds
    \/ TransportCloses \/ Server \/ ServerRepeats
    \/ Quiescent

\* The runtime polls both tasks; the call completes one way or the other; every
\* request carries a deadline, within which the server executes or rejects it.
Fairness ==
    /\ WF_vars(Actor)
    /\ WF_vars(CallOpens \/ ReadResponse)
    /\ WF_vars(TransportCloses)
    /\ WF_vars(Server)

Spec == Init /\ [][Next]_vars /\ Fairness

-----------------------------------------------------------------------------
(* Safety *)

\* An append that is told "ok" was written, and one that is told "rejected" was
\* not: no response is given to another append than the one it is about.
ResultIsTrue ==
    \A a \in Appends :
        /\ append[a] = "ok" => a \in committed
        /\ append[a] = "rejected" => a \notin committed \cup executing

\* The stream is over, or the server refused an append.
SessionBroken ==
    \/ reader \in {"failed", "ended", "orphaned"}
    \/ \E b \in Appends \ committed : append[b] \in {"rejected", "cancelled"}

\* An append whose events are written may be told "Batch-append stream has been
\* closed", or the error of the stream, and its caller cannot know; but only when
\* the session broke.  Repeated responses, responses to appends given up and
\* appends sent too late cost no other append its answer.
FailsInDoubtOnlyIfBroken ==
    \A a \in committed : append[a] \in {"failed", "closed"} => SessionBroken

\* Every waiting append has its oneshot in the hands of the actor: in its
\* channel, or registered.  None waits for an actor that is gone.
NoAppendStranded ==
    \A a \in Appends : append[a] = "waiting" => actor = "running" /\ a \in Dropped

\* A rejected append closes its session: no append is told "ok" afterwards, not
\* even one whose success was already on its way.
NothingAfterRejection ==
    [][(\E a \in Appends : append[a] = "rejected") =>
           \A b \in Appends : append'[b] = "ok" => append[b] = "ok"]_vars

-----------------------------------------------------------------------------
(* Liveness *)

\* Every append is answered (or given up), unless the server completes the
\* stream in good order.
EveryAppendAnswered ==
    \A a \in Appends : append[a] = "waiting" ~> append[a] # "waiting" \/ reader = "ended"

=============================================================================
