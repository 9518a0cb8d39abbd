----------------------- MODULE PersistentSubscription -----------------------
(***************************************************************************)
(* A consumer of a persistent subscription (subscribe_to_persistent_       *)
(* subscription and PersistentSubscription in kurrentdb/src/commands.rs).   *)
(*                                                                         *)
(* The server pushes events on one gRPC stream and expects an answer to     *)
(* each; the answers go through a bounded channel that the transport reads, *)
(* so that ack and nack may have to wait.  The server is external: it sends *)
(* an event again when the answer is late, and may drop, fail or end the    *)
(* stream at any moment, losing what is on its way in both directions.  The *)
(* application answers the event it was shown last, and subscribes again    *)
(* when its subscription is over.                                          *)
(***************************************************************************)
EXTENDS Naturals, Sequences, FiniteSets

CONSTANTS
    Events,          \* the ids of the events of the group, links included
    Target,          \* Target[e]: the id of the event that link e resolves to,
                     \* None if e is no link
    ChannelSize,     \* capacity of the channel of answers, 500 in the code
    buffer_size,     \* SubscribeToPersistentSubscriptionOptions::buffer_size
    MaxDisturbances, \* bound: failures, nacks, cancellations
    None             \* Option::None

ASSUME SizesAssumption == ChannelSize \in Nat \ {0} /\ buffer_size \in Nat \ {0}
ASSUME TargetAssumption == Target \in [Events -> Events \cup {None}] /\ None \notin Events
ASSUME DisturbancesAssumption == MaxDisturbances \in Nat

VARIABLES
    handled,     \* server: events acknowledged, parked or skipped
    inflight,    \* server: events sent and not answered
    responses,   \* server to client: events, and Confirmation
    rpc,         \* the call: see Rpc
    receiver,    \* the transport holds the receiver of the channel of answers
    answers,     \* the channel of answers, Options first
    phase,       \* the application: see Phase
    shown,       \* the event shown last and not answered, None if none
    pending,     \* the answer that waits for room in the channel
    answered,    \* history: the events the application answered for good
    disturbances

serverVars == <<handled, inflight>>
callVars   == <<responses, rpc, receiver, answers>>
appVars    == <<phase, shown, pending>>
vars       == <<serverVars, callVars, appVars, answered, disturbances>>

Phase == {"unsubscribed", "idle",
          "next",      \* inner.try_next().await
          "sending",   \* ack_sender.send(..).await
          "panicked"}  \* unreachable!()

Rpc == {"none", "open",
        "ended",     \* with status OK
        "failing",   \* with an error that was not read yet
        "failed"}    \* with an error that was read

NakAction == {"Unknown", "Park", "Retry", "Skip", "Stop"}

\* Content of a ReadReq.
Answer == [type : {"Ack"}, id : Events]
              \cup [type : {"Nack"}, id : Events, action : NakAction]
Options == [type |-> "Options"]

Confirmation == "Confirmation"

TypeOK ==
    /\ handled \in SUBSET Events
    /\ inflight \in SUBSET (Events \ handled)
    /\ responses \in Seq(Events \cup {Confirmation})
    /\ rpc \in Rpc
    /\ receiver \in BOOLEAN
    /\ answers \in Seq(Answer \cup {Options}) /\ Len(answers) <= ChannelSize
    /\ phase \in Phase
    /\ shown \in Events \cup {None}
    /\ pending \in Answer \cup {None}
    /\ answered \in SUBSET Events
    /\ disturbances \in Nat

Init ==
    /\ handled = {}
    /\ inflight = {}
    /\ responses = <<>>
    /\ rpc = "none"
    /\ receiver = FALSE
    /\ answers = <<>>
    /\ phase = "unsubscribed"
    /\ shown = None
    /\ pending = None
    /\ answered = {}
    /\ disturbances = 0

Disturb == disturbances < MaxDisturbances /\ disturbances' = disturbances + 1

-----------------------------------------------------------------------------
(* Subscribing *)

\* The options are the first message of the channel.
Subscribe ==
    /\ phase = "unsubscribed"
    /\ rpc' = "open"
    /\ receiver' = TRUE
    /\ answers' = <<Options>>
    /\ responses' = <<>>
    /\ phase' = "idle"
    /\ UNCHANGED <<serverVars, shown, pending, answered, disturbances>>

\* No node, an unsupported feature, or the call fails: there is no subscription.
SubscribeFails ==
    /\ phase = "unsubscribed"
    /\ Disturb
    /\ UNCHANGED <<serverVars, callVars, appVars, answered>>

\* The application drops the subscription, because it is over or of its own
\* accord: the call is cancelled, and the server takes back what is unanswered.
Unsubscribe ==
    /\ phase = "idle"
    /\ IF rpc = "failed" THEN UNCHANGED disturbances ELSE Disturb
    /\ rpc' = "none"
    /\ receiver' = FALSE
    /\ answers' = <<>>
    /\ responses' = <<>>
    /\ inflight' = {}
    /\ phase' = "unsubscribed"
    /\ shown' = None
    /\ UNCHANGED <<handled, pending, answered>>

-----------------------------------------------------------------------------
(* next and next_subscription_event *)

Call ==
    /\ phase = "idle"
    /\ shown = None
    /\ rpc \in {"open", "failing", "ended"}
    /\ phase' = "next"
    /\ UNCHANGED <<serverVars, callVars, shown, pending, answered, disturbances>>

\* The application calls although the last call returned an error.
CallAgain ==
    /\ phase = "idle"
    /\ rpc = "failed"
    /\ Disturb
    /\ phase' = "next"
    /\ UNCHANGED <<serverVars, callVars, shown, pending, answered>>

Receive ==
    /\ phase = "next"
    /\ responses # <<>>
    /\ responses' = Tail(responses)
    /\ IF Head(responses) = Confirmation
       THEN UNCHANGED <<phase, shown>>
       ELSE phase' = "idle" /\ shown' = Head(responses)
    /\ UNCHANGED <<serverVars, rpc, receiver, answers, pending, answered, disturbances>>

\* The stream fails, or says that the subscription was dropped.  What is on its
\* way may still arrive, or be lost with the connection.
StreamFails ==
    /\ rpc = "open"
    /\ Disturb
    /\ rpc' = "failing"
    /\ responses' \in {responses, <<>>}
    /\ inflight' = {}
    /\ UNCHANGED <<handled, receiver, answers, appVars, answered>>

\* try_next returns the error, once.  Unless the subscription was dropped it is
\* reported with handle_error, which is Report in Connection.
ReceiveError ==
    /\ phase = "next"
    /\ rpc = "failing"
    /\ responses = <<>>
    /\ rpc' = "failed"
    /\ phase' = "idle"
    /\ UNCHANGED <<serverVars, responses, receiver, answers, shown, pending, answered,
                   disturbances>>

\* The server completes the stream.
StreamEnds ==
    /\ rpc = "open"
    /\ Disturb
    /\ rpc' = "ended"
    /\ inflight' = {}
    /\ UNCHANGED <<handled, responses, receiver, answers, appVars, answered>>

\* try_next returns None: unreachable!().
ReceiveNothing ==
    /\ phase = "next"
    /\ rpc \in {"failed", "ended"}
    /\ responses = <<>>
    /\ phase' = "panicked"
    /\ UNCHANGED <<serverVars, callVars, shown, pending, answered, disturbances>>

\* The application drops the future of next: nothing was taken off the stream.
CancelNext ==
    /\ phase = "next"
    /\ Disturb
    /\ phase' = "idle"
    /\ UNCHANGED <<serverVars, callVars, shown, pending, answered>>

-----------------------------------------------------------------------------
(* ack and nack *)

\* The event that the application sees for the event e of the group.
ResolvedEvent(e) ==
    IF Target[e] = None THEN [link |-> None, event |-> e] ELSE [link |-> e, event |-> Target[e]]

\* Mutant of get_original_event: the event the link resolves to.
get_original_event_Resolved(r) == r.event

get_original_event(r) == IF r.link # None THEN r.link ELSE r.event

\* An answer after which the server need not send the event again.
Final(m) == m.type = "Nack" => m.action \in {"Park", "Skip"}

\* The channel takes the answer; without a receiver it is refused.
Put(m) ==
    /\ answers' = IF receiver THEN Append(answers, m) ELSE answers
    /\ phase' = "idle"
    /\ pending' = None

\* ack_sender.send(..).await: waits for room.
Reply(m) ==
    IF receiver /\ Len(answers) >= ChannelSize
    THEN phase' = "sending" /\ pending' = m /\ UNCHANGED answers
    ELSE Put(m)

Respond(m) ==
    /\ phase = "idle"
    /\ shown # None
    /\ Reply(m)
    /\ shown' = None
    /\ answered' = IF Final(m) THEN answered \cup {shown} ELSE answered
    /\ UNCHANGED <<serverVars, responses, rpc, receiver>>

ack ==
    /\ shown # None
    /\ Respond([type |-> "Ack", id |-> get_original_event(ResolvedEvent(shown))])
    /\ UNCHANGED disturbances

nack(action) ==
    /\ shown # None
    /\ Respond([type |-> "Nack", id |-> get_original_event(ResolvedEvent(shown)),
                action |-> action])
    /\ Disturb

\* The waiting answer gets its place, or learns that the receiver is gone.
SendEnds ==
    /\ phase = "sending"
    /\ Len(answers) < ChannelSize \/ ~receiver
    /\ Put(pending)
    /\ UNCHANGED <<serverVars, responses, rpc, receiver, shown, answered, disturbances>>

\* The application drops the future of ack or nack while it waits.
CancelSend ==
    /\ phase = "sending"
    /\ Disturb
    /\ phase' = "idle"
    /\ pending' = None
    /\ UNCHANGED <<serverVars, callVars, shown, answered>>

-----------------------------------------------------------------------------
(* The transport and the server *)

\* The call is over: the receiver of the channel is dropped with it.
TransportCloses ==
    /\ receiver
    /\ rpc \in {"ended", "failing", "failed"}
    /\ receiver' = FALSE
    /\ answers' = <<>>
    /\ UNCHANGED <<serverVars, responses, rpc, appVars, answered, disturbances>>

\* NakAction::Unknown leaves the decision to the server, which retries.
ServerReceives ==
    LET m == Head(answers) IN
    /\ rpc = "open"
    /\ answers # <<>>
    /\ answers' = Tail(answers)
    /\ \/ /\ m = Options
          /\ responses' = Append(responses, Confirmation)
          /\ UNCHANGED <<handled, inflight, rpc>>
       \/ /\ m # Options /\ m.id \in inflight /\ Final(m)
          /\ handled' = handled \cup {m.id}
          /\ inflight' = inflight \ {m.id}
          /\ UNCHANGED <<responses, rpc>>
       \/ /\ m # Options /\ m.id \in inflight /\ ~Final(m) /\ m.action \in {"Unknown", "Retry"}
          /\ responses' = Append(responses, m.id)
          /\ UNCHANGED <<handled, inflight, rpc>>
       \/ /\ m # Options /\ m.id \in inflight /\ ~Final(m) /\ m.action = "Stop"
          /\ rpc' = "ended"
          /\ inflight' = {}
          /\ UNCHANGED <<handled, responses>>
       \/ /\ m # Options /\ m.id \notin inflight
          /\ UNCHANGED <<handled, inflight, responses, rpc>>
    /\ UNCHANGED <<receiver, appVars, answered, disturbances>>

ServerSends(e) ==
    /\ rpc = "open"
    /\ e \notin handled \cup inflight
    /\ Cardinality(inflight) < buffer_size
    /\ inflight' = inflight \cup {e}
    /\ responses' = Append(responses, e)
    /\ UNCHANGED <<handled, rpc, receiver, answers, appVars, answered, disturbances>>

\* The answer is late, or lost: the event is sent again.
ServerRetries(e) ==
    /\ rpc = "open"
    /\ e \in inflight
    /\ \A i \in DOMAIN responses : responses[i] # e
    /\ responses' = Append(responses, e)
    /\ UNCHANGED <<serverVars, rpc, receiver, answers, appVars, answered, disturbances>>

-----------------------------------------------------------------------------
(* The specification *)

Application ==
    \/ Subscribe \/ Call \/ Receive \/ ReceiveError \/ ReceiveNothing \/ ack \/ SendEnds
    \/ (rpc = "failed" /\ Unsubscribe)

Server == ServerReceives \/ \E e \in Events : ServerSends(e) \/ ServerRetries(e)

\* The application waits for events, and there are none; or it is gone.
Quiescent ==
    /\ \/ phase = "panicked"
       \/ phase = "next" /\ handled = Events /\ responses = <<>> /\ answers = <<>>
    /\ UNCHANGED vars

Next ==
    \/ Application \/ Server \/ TransportCloses
    \/ SubscribeFails \/ Unsubscribe \/ CallAgain \/ StreamFails \/ StreamEnds
    \/ CancelNext \/ CancelSend
    \/ \E action \in NakAction : nack(action)
    \/ Quiescent

\* The application keeps consuming and acknowledging, and subscribes again when
\* its subscription is over; the transport reads the channel, and the server
\* sends what it has, again when the answer does not come.
Fairness ==
    /\ WF_vars(Application)
    /\ WF_vars(TransportCloses)
    /\ WF_vars(ServerReceives)
    /\ \A e \in Events : WF_vars(ServerSends(e)) /\ WF_vars(ServerRetries(e))

Spec == Init /\ [][Next]_vars /\ Fairness

-----------------------------------------------------------------------------
(* Properties *)

\* At least once: the server is done with an event only if the application was
\* shown that very event (not another link to the same one) and answered it,
\* whatever answers were lost, repeated or refused.
OnlyAnsweredIsHandled == handled \subseteq answered

\* Every event is handled in the end, however small the channel of answers,
\* unless the application panics.
EveryEventHandled == \A e \in Events : <>(e \in handled \/ phase = "panicked")

\* "unreachable!()" (next_subscription_event): the stream of a persistent
\* subscription never yields None.
NoneIsUnreachable == phase # "panicked"
=============================================================================
