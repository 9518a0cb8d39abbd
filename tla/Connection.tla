----------------------------- MODULE Connection -----------------------------
(***************************************************************************)
(* The connection actor of the gRPC client (kurrentdb/src/grpc.rs).        *)
(*                                                                         *)
(* One task (connection_state_machine) owns a NodeConnection and serves a  *)
(* mailbox of two kinds of messages.  GetChannel asks for a Handle on the  *)
(* current node; CreateChannel reports that a call made through a handle   *)
(* failed, with or without the endpoint of the new leader.  Calls run      *)
(* concurrently with the task: a call asks for a handle, sends its RPC     *)
(* through it, and reports the failures that handle_error classifies.      *)
(*                                                                         *)
(* The cluster is external.  Every RPC, gossip read and server-features    *)
(* request may succeed, fail or time out at any moment, a gossip answer    *)
(* may select any node, and a follower may name any other node as leader.  *)
(***************************************************************************)
EXTENDS Naturals, Sequences, FiniteSets

CONSTANTS
    Calls,                 \* calls of the public API, each made once
    Nodes,                 \* endpoints of the cluster
    Configurations,        \* the ClientSettings a client may be created with
    None                   \* Option::None

ASSUME SettingsAssumption ==
    Configurations \subseteq [hosts : Seq(Nodes) \ {<<>>}, dns_discover : BOOLEAN,
                              max_discover_attempts : Nat]

VARIABLES
    settings,       \* ClientSettings, which never change
    mailbox,        \* the unbounded channel of Msg
    state,          \* where the task is: which await it is suspended at
    current,        \* the message the task is serving
    handle_opt,     \* the task's cached Handle
    id,             \* NodeConnection::id, 0 is Uuid::nil()
    handle,         \* NodeConnection::handle
    selected_node,  \* next(): the node to connect to
    attempts,       \* next(): discovery attempts
    untried,        \* node_selection(): candidates not asked yet
    failure,        \* the GrpcConnectionError that ended the task
    call,           \* per call: its progress
    held,           \* per call: the Handle it runs on
    reports,        \* history: the error reports sent so far
    seen            \* history: per call, the reports sent before it asked

actorVars == <<mailbox, state, current, handle_opt, failure>>
nodeVars  == <<id, handle, selected_node, attempts, untried>>
callVars  == <<call, held>>
history   == <<reports, seen>>
vars      == <<settings, actorVars, nodeVars, callVars, history>>

-----------------------------------------------------------------------------
(* Types *)

Handle == [id : Nat \ {0}, endpoint : Nodes]

ASSUME NoneAssumption == None \notin Nodes \cup Handle

GetChannel(c)          == [type |-> "GetChannel", call |-> c]
CreateChannel(k, seed) == [type |-> "CreateChannel", id |-> k, seed |-> seed]

Msg == [type : {"GetChannel"}, call : Calls]
         \cup [type : {"CreateChannel"}, id : Nat \ {0}, seed : Nodes \cup {None}]

\* The errors handle_error tells apart; any other error is not reported.
ErrorKind == {"ServerError", "NotLeaderException"}

Report == [id : Nat \ {0}, kind : ErrorKind]

CallState == {"idle", "waiting", "running", "ok", "error",
              "refused",      \* Error::GrpcConnectionError
              "closed",       \* Error::ConnectionClosed
              "cancelled"}    \* the caller dropped the future

TaskState == {"recv",         \* consumer.recv().await
              "select",       \* node selection: gossip::read(..).await
              "features",     \* supported_methods(..).await
              "stopped"}      \* the task returned, its receiver is dropped

TypeOK ==
    /\ settings \in Configurations
    /\ mailbox \in Seq(Msg)
    /\ state \in TaskState
    /\ current \in Msg \cup {None}
    /\ handle_opt \in Handle \cup {None}
    /\ id \in Nat
    /\ handle \in Handle \cup {None}
    /\ selected_node \in Nodes \cup {None}
    /\ attempts \in Nat
    /\ untried \in Nat
    /\ failure \in {None, "MaxDiscoveryAttemptReached", "Grpc", "Panic"}
    /\ call \in [Calls -> CallState]
    /\ held \in [Calls -> Handle \cup {None}]
    /\ reports \in SUBSET Report
    /\ seen \in [Calls -> SUBSET Report]

Init ==
    /\ settings \in Configurations
    /\ mailbox = <<>>
    /\ state = "recv"
    /\ current = None
    /\ handle_opt = None
    /\ id = 0
    /\ handle = None
    /\ selected_node = None
    /\ attempts = 1
    /\ untried = 0
    /\ failure = None
    /\ call = [c \in Calls |-> "idle"]
    /\ held = [c \in Calls |-> None]
    /\ reports = {}
    /\ seen = [c \in Calls |-> {}]

-----------------------------------------------------------------------------
(* NodeConnection::new: how nodes are discovered *)

Hosts                 == settings.hosts
max_discover_attempts == settings.max_discover_attempts

cluster_mode == IF settings.dns_discover THEN "Dns"
                ELSE IF Len(Hosts) > 1 THEN "Seeds" ELSE None

\* The candidates node_selection asks for gossip, each once, in random order.
\* The gossip seeds of an earlier selection are never kept, so the list is
\* always the configured one.
NumCandidates == IF cluster_mode = "Seeds" THEN Len(Hosts) ELSE 1

-----------------------------------------------------------------------------
(* The calls *)

\* Mutant of Send: the newest message is served first.
Send_Lifo(m) == mailbox' = IF state = "stopped" THEN mailbox ELSE <<m>> \o mailbox

\* Sending never blocks, and is lost without notice once the task is gone.
Send(m) == mailbox' = IF state = "stopped" THEN mailbox ELSE Append(mailbox, m)

\* GrpcClient::current_selected_node: ask for a handle, or learn at once that
\* the task is gone.
current_selected_node(c) ==
    /\ call[c] = "idle"
    /\ Send(GetChannel(c))
    /\ call' = [call EXCEPT ![c] = IF state = "stopped" THEN "closed" ELSE "waiting"]
    /\ seen' = [seen EXCEPT ![c] = reports]
    /\ UNCHANGED <<state, current, handle_opt, failure, nodeVars, held, reports>>

\* The caller drops its future: a waiting call drops the receiving half of its
\* oneshot, a running call drops its RPC.
Cancel(c) ==
    /\ call[c] \in {"waiting", "running"}
    /\ call' = [call EXCEPT ![c] = "cancelled"]
    /\ UNCHANGED <<actorVars, nodeVars, held, history>>

\* The RPC of a running call succeeds, or fails with an error that handle_error
\* only logs; the calls of operations::Client never report.
CallEnds(c, outcome) ==
    /\ call[c] = "running"
    /\ call' = [call EXCEPT ![c] = outcome]
    /\ UNCHANGED <<actorVars, nodeVars, held, history>>

\* handle_error, for the two errors it acts upon.
handle_error(c, kind, seed) ==
    /\ Send(CreateChannel(held[c].id, seed))
    /\ reports' = reports \cup {[id |-> held[c].id, kind |-> kind]}

\* execute, and the readers that outlive it: a running call fails with an error
\* that is reported under the id of the handle the call runs on.
CallFails(c, kind, seed) ==
    /\ call[c] = "running"
    /\ handle_error(c, kind, seed)
    /\ call' = [call EXCEPT ![c] = "error"]
    /\ UNCHANGED <<state, current, handle_opt, failure, nodeVars, held, seen>>

CallUnavailable(c)  == CallFails(c, "ServerError", None)
CallNotLeader(c, l) == CallFails(c, "NotLeaderException", l)

-----------------------------------------------------------------------------
(* The task: answering and stopping *)

\* let _ = resp.send(Ok(handle)): ignored when the caller went away.
Answer(m, h) ==
    IF m.type = "GetChannel" /\ call[m.call] = "waiting"
    THEN /\ call' = [call EXCEPT ![m.call] = "running"]
         /\ held' = [held EXCEPT ![m.call] = h]
    ELSE UNCHANGED <<call, held>>

\* Mutant of Complete: CreateChannel does not refresh the task's cached handle.
Complete_NotCached(m, h) ==
    /\ handle_opt' = IF m.type = "CreateChannel" THEN handle_opt ELSE h
    /\ Answer(m, h)
    /\ state' = "recv"
    /\ current' = None
    /\ UNCHANGED <<failure, history>>

\* next() returned Ok(h): cache the handle, answer, wait for the next message.
Complete(m, h) ==
    /\ handle_opt' = h
    /\ Answer(m, h)
    /\ state' = "recv"
    /\ current' = None
    /\ UNCHANGED <<failure, history>>

Queued(m) == \E i \in 1..Len(mailbox) : mailbox[i] = m

\* Mutant of ReleaseCallers: the queued oneshots outlive the task.
ReleaseCallers_Leak(m, told) ==
    call' = [c \in Calls |->
        IF call[c] = "waiting" /\ m = GetChannel(c) THEN told ELSE call[c]]

\* The task is over: the call being served is told so, and dropping the receiver
\* drops the oneshots of the calls still queued.
ReleaseCallers(m, told) ==
    call' = [c \in Calls |->
        IF call[c] # "waiting" THEN call[c]
        ELSE IF m = GetChannel(c) THEN told
        ELSE IF Queued(GetChannel(c)) THEN "closed"
        ELSE call[c]]

\* next() returned Err(e), which the call being served is given: break.  Or the
\* task panics, and that call's oneshot is dropped with the rest.
Stop(e, told) ==
    /\ state' = "stopped"
    /\ failure' = e
    /\ ReleaseCallers(current, told)
    /\ mailbox' = <<>>
    /\ current' = None
    /\ UNCHANGED <<handle_opt, held, history>>

-----------------------------------------------------------------------------
(* The task: the next message *)

Receive ==
    /\ state = "recv"
    /\ mailbox # <<>>
    /\ mailbox' = Tail(mailbox)

Seed(m) == IF m.type = "CreateChannel" THEN m.seed ELSE None

\* Mutants of StaleReport: no correlation check; the check inverted.
StaleReport_Unchecked(m) == FALSE
StaleReport_Inverted(m) == handle # None /\ m.id = id

\* The report is about a connection that has been replaced since.
StaleReport(m) == handle # None /\ m.id # id

\* GetChannel with a cached handle.
ReuseChannel ==
    /\ Receive
    /\ Head(mailbox).type = "GetChannel"
    /\ handle_opt # None
    /\ Answer(Head(mailbox), handle_opt)
    /\ UNCHANGED <<state, current, handle_opt, failure, nodeVars, history>>

\* next() returns the handle it has: no endpoint to follow, or a stale report.
KeepConnection ==
    /\ Receive
    /\ handle # None
    /\ Head(mailbox).type = "GetChannel" => handle_opt = None
    /\ Seed(Head(mailbox)) # None => StaleReport(Head(mailbox))
    /\ Complete(Head(mailbox), handle)
    /\ UNCHANGED nodeVars

\* next() has no handle and no endpoint to follow: discover a node.
StartDiscovery ==
    /\ Receive
    /\ handle = None
    /\ Head(mailbox).type = "GetChannel" => handle_opt = None
    /\ Seed(Head(mailbox)) = None
    /\ current' = Head(mailbox)
    /\ attempts' = 1
    /\ untried' = NumCandidates
    /\ state' = "select"
    /\ UNCHANGED <<handle_opt, failure, id, handle, selected_node, callVars, history>>

\* next() drops its handle and connects to the endpoint of the report.
FollowRedirect ==
    /\ Receive
    /\ Seed(Head(mailbox)) # None
    /\ ~StaleReport(Head(mailbox))
    /\ current' = Head(mailbox)
    /\ handle' = None
    /\ selected_node' = Seed(Head(mailbox))
    /\ attempts' = 1
    /\ state' = "features"
    /\ UNCHANGED <<handle_opt, failure, id, untried, callVars, history>>

-----------------------------------------------------------------------------
(* The task: one discovery attempt *)

\* The end of next()'s inner loop, with the node the attempt selected or None.
AfterAttempt(n) ==
    /\ selected_node' = n
    /\ attempts' = attempts + 1
    /\ IF attempts + 1 <= max_discover_attempts
       THEN /\ state' = IF n = None THEN "select" ELSE "features"
            /\ untried' = NumCandidates
            /\ UNCHANGED <<mailbox, current, handle_opt, failure, callVars, history>>
       ELSE /\ Stop("MaxDiscoveryAttemptReached", "refused")
            /\ UNCHANGED untried
    /\ UNCHANGED <<id, handle>>

\* A single node: its address is the configured one.
SelectHost ==
    /\ state = "select"
    /\ cluster_mode = None
    /\ AfterAttempt(Head(Hosts))

\* A candidate answers with a gossip in which determine_best_node finds n.
GossipSelects(n) ==
    /\ state = "select"
    /\ cluster_mode # None
    /\ AfterAttempt(n)

\* A candidate fails, times out, or knows of no node fit to serve: ask the next
\* one, and end the attempt empty-handed after the last.
GossipFails ==
    /\ state = "select"
    /\ cluster_mode # None
    /\ IF untried > 1
       THEN /\ untried' = untried - 1
            /\ UNCHANGED <<actorVars, id, handle, selected_node, attempts, callVars, history>>
       ELSE AfterAttempt(None)

\* A candidate answers with a member whose instance id is no UUID: the unwrap in
\* gossip::read panics inside the task, and the runtime drops it.
GossipPanics ==
    /\ state = "select"
    /\ cluster_mode # None
    /\ Stop("Panic", "closed")
    /\ UNCHANGED nodeVars

-----------------------------------------------------------------------------
(* The task: connecting to selected_node *)

\* Mutants of NewId: the id of the connection is never set; set only once.
NewId_Nil == id
NewId_Reused == IF id = 0 THEN 1 ELSE id

\* self.id = Uuid::new_v4(): an id that no connection had before.
NewId == id + 1

\* The server features arrive, or the server is too old to have the endpoint.
Connected ==
    LET h == [id |-> NewId, endpoint |-> selected_node] IN
    /\ state = "features"
    /\ id' = NewId
    /\ handle' = h
    /\ selected_node' = None
    /\ Complete(current, h)
    /\ UNCHANGED <<mailbox, attempts, untried>>

\* Any other status ends the task.
FeaturesFails ==
    /\ state = "features"
    /\ selected_node' = None
    /\ Stop("Grpc", "refused")
    /\ UNCHANGED <<id, handle, attempts, untried>>

\* Mutant of FeaturesTimeout: every node that times out starts the count again.
FeaturesTimeout_Recount ==
    /\ state = "features"
    /\ selected_node' = None
    /\ attempts' = 1
    /\ untried' = NumCandidates
    /\ state' = "select"
    /\ UNCHANGED <<mailbox, current, handle_opt, failure, id, handle, callVars, history>>

\* gossip_timeout elapses first: the node is forgotten and discovery resumes,
\* with the attempts made so far.
FeaturesTimeout ==
    /\ state = "features"
    /\ selected_node' = None
    /\ untried' = NumCandidates
    /\ state' = "select"
    /\ UNCHANGED <<mailbox, current, handle_opt, failure, id, handle, attempts, callVars, history>>

-----------------------------------------------------------------------------
(* The specification *)

Task ==
    /\ \/ ReuseChannel \/ KeepConnection \/ StartDiscovery \/ FollowRedirect
       \/ SelectHost \/ (\E n \in Nodes : GossipSelects(n)) \/ GossipFails \/ GossipPanics
       \/ Connected \/ FeaturesFails \/ FeaturesTimeout
    /\ UNCHANGED settings

Caller(c) ==
    /\ \/ current_selected_node(c)
       \/ Cancel(c)
       \/ \E outcome \in {"ok", "error"} : CallEnds(c, outcome)
       \/ CallUnavailable(c)
       \/ \E l \in Nodes : CallNotLeader(c, l)
    /\ UNCHANGED settings

\* Every call is over and the task has nothing left to do.
Quiescent ==
    /\ \A c \in Calls : call[c] \notin {"idle", "waiting", "running"}
    /\ mailbox = <<>>
    /\ state \in {"recv", "stopped"}
    /\ UNCHANGED vars

Next == Task \/ (\E c \in Calls : Caller(c)) \/ Quiescent

\* The runtime keeps polling the task, and each of its awaits is bounded by
\* gossip_timeout or discovery_interval.  Nothing obliges a caller to start, to
\* finish or to cancel.
Fairness == WF_vars(Task)

Spec == Init /\ [][Next]_vars /\ Fairness

-----------------------------------------------------------------------------
(* Safety *)

\* The task keeps two copies of the connection: handle_opt, which answers
\* GetChannel, and NodeConnection::handle, which next() replaces.  Whenever the
\* task waits for a message the copies agree, so a call is never answered from a
\* cache that next() has already replaced.
HandleMirrored == state = "recv" => handle_opt = handle

\* Two handles with the same id are handles on the same endpoint: the id in a
\* report identifies the connection that failed.
UniqueConnectionIds ==
    \A h, g \in {held[c] : c \in Calls} \cup {handle, handle_opt} :
        (h # None /\ g # None /\ h.id = g.id) => h.endpoint = g.endpoint

\* Reported(k): some call that ran on connection k learned that its node is not
\* the leader.
Reported(k) == [id |-> k, kind |-> "NotLeaderException"] \in reports

\* next() gives a connection up only after one of that connection's own calls
\* reported it: a late report about an older connection never tears down the
\* connection that replaced it.
AbandonedOnlyWhenReported ==
    \A k \in 1..id : (k < id \/ handle = None) => Reported(k)

\* A call that asks for a handle after connection k was reported is never given
\* connection k again: the report is ahead of the question in the mailbox, and
\* the task does not answer anybody before it has replaced the connection.
RetryNeverReusesRejectedConnection ==
    \A c \in Calls : held[c] # None =>
        [id |-> held[c].id, kind |-> "NotLeaderException"] \notin seen[c]

\* A waiting call is known to the task: its question is queued or being served,
\* and when the task has stopped nobody waits for it.
NoCallStranded ==
    \A c \in Calls : call[c] = "waiting" =>
        state # "stopped" /\ (Queued(GetChannel(c)) \/ current = GetChannel(c))

-----------------------------------------------------------------------------
(* Refinement *)

RejectedIds(R) == {r.id : r \in {x \in R : x.kind = "NotLeaderException"}}

Service == INSTANCE ChannelService WITH
    conn     <- handle_opt,
    open     <- state # "stopped",
    rejected <- RejectedIds(reports),
    avoid    <- [c \in Calls |-> RejectedIds(seen[c])]

\* Seen from the calls, the actor is a ChannelService: discovery, redirects and
\* stale reports change the connection only the way ChannelService allows.
ImplementsChannelService == Service!Spec

-----------------------------------------------------------------------------
(* Liveness *)

\* Every call that waits for a handle gets one, or an error, whatever the
\* cluster answers (unless its caller gives up first).
EveryCallAnswered == \A c \in Calls : call[c] = "waiting" ~> call[c] # "waiting"

\* A queued report that names the new leader is acted upon: the reported
\* connection is replaced, or the task ends trying.
RedirectHonoured ==
    \A k \in 1..Cardinality(Calls) :
        (\E l \in Nodes : Queued(CreateChannel(k, l))) ~> (id > k \/ state = "stopped")

-----------------------------------------------------------------------------
(* What the comments of the code say and its steps do not do *)

\* "Current selected KurrentDB node gone unavailable. Starting node selection
\* process" (handle_error, on Error::ServerError): a call that asks after such a
\* report is not given the connection that was reported.
UnavailableNodeIsReplaced ==
    \A c \in Calls : held[c] # None =>
        [id |-> held[c].id, kind |-> "ServerError"] \notin seen[c]

\* "Maximum number of DNS discovery attempts before the connection gives up"
\* (ClientSettings::max_discover_attempts): the connection does not give up
\* while it has a node that it discovered and has not tried.
DiscoveredNodeIsTried ==
    failure = "MaxDiscoveryAttemptReached" => selected_node = None

=============================================================================
