------------------------------ MODULE Command -------------------------------
(***************************************************************************)
(* The life of a command of Client, ProjectionClient and operations::Client *)
(* (kurrentdb/src/commands.rs, projection_client.rs, operations/mod.rs,      *)
(* http/): it asks for the selected node, tests the features of that node,   *)
(* goes out over gRPC or, for an old node, over HTTP, and its failure is     *)
(* turned into an error of the client and reported to the connection task.   *)
(*                                                                         *)
(* Connection models the task that selects the node; here it moves to       *)
(* another connection at any moment after a call on its own was told of      *)
(* another leader.  What a command carries (its message) is left out, except *)
(* for what decides its course.                                             *)
(***************************************************************************)
EXTENDS Naturals, FiniteSets, ServerFeatures

CONSTANTS
    Tasks,            \* tasks of the application
    Commands,         \* the commands they issue, rows of the catalogue below
    Connections,      \* ids of the connections that follow one another: 1 .. n
    Servers,          \* what a node may announce: its methods and its version
    Leaders,          \* endpoints that a node may name as the leader
    Credentials,      \* credentials that a caller may give
    Deadlines,        \* deadlines that a caller may give
    default_deadline, \* ClientSettings::default_deadline
    default_user,     \* ClientSettings::default_user_name
    MaxDuration,      \* Duration::from_millis(u64::MAX)
    MaxCommands,      \* bound: commands issued
    None              \* Option::None

ASSUME ConnectionsAssumption == Connections \subseteq Nat \ {0} /\ 1 \in Connections
ASSUME BoundAssumption == MaxCommands \in Nat

-----------------------------------------------------------------------------
(***************************************************************************)
(* The catalogue of commands.  needs: the methods, with the extension used,  *)
(* that only newer nodes have; gate: the features that the code asks for     *)
(* before it sends the RPC; refusal: when the command is refused if they are missing, *)
(* HTTP being used otherwise; reports: whether failures are reported;        *)
(* replies: what the command makes of the answer.                           *)
(***************************************************************************)
Need(service, name, feature) == [service |-> service, name |-> name, feature |-> feature]

Row(rpc, kind, gate, refusal, needs, reports, replies) ==
    [rpc |-> rpc, kind |-> kind, gate |-> gate, refusal |-> refusal, needs |-> needs,
     reports |-> reports, replies |-> replies, emit |-> FALSE]

Plain(rpc) == Row(rpc, "Regular", {}, "none", {}, TRUE, {"Ok"})
Streaming(rpc) == [Plain(rpc) EXCEPT !.kind = "Streaming"]

append_to_stream == [Plain("append") EXCEPT !.replies = {"Ok", "WrongExpectedVersion"}]
delete_stream    == Plain("delete")
tombstone_stream == Plain("tombstone")
read_stream      == Streaming("read_stream")
read_all         == Streaming("read_all")
batch_append     == Row("batch_append", "Streaming", BATCH_APPEND, "always",
                        {Need("streams", "batchappend", None)}, FALSE, {"Ok"})

\* Commands on a group of a stream, or of $all: only new nodes have the latter.
\* Whether they do is told by their method to create one, for the others too.
ToAll(row, all) ==
    IF all THEN [row EXCEPT !.gate = TO_ALL, !.refusal = "always",
                            !.needs = {Need("persistent", "create", "all")}]
    ELSE row

create_persistent_subscription(all) == ToAll(Plain("create_group"), all)
update_persistent_subscription(all) == ToAll(Plain("update_group"), all)
delete_persistent_subscription(all) == ToAll(Plain("delete_group"), all)
subscribe_to_persistent_subscription(all) == ToAll(Streaming("read_group"), all)

\* Commands that have an equivalent in the HTTP interface of old nodes.
Managed(rpc, refusal, name, replies) ==
    Row(rpc, "Regular", PERSISTENT_SUBSCRIPTION_MANAGEMENT, refusal,
        {Need("persistent", name, None)}, TRUE, replies)

\* On $all the fallback is refused if the node has no such groups.
Refusal(all) == IF all THEN "without TO_ALL" ELSE "none"

list_all_persistent_subscriptions == Managed("list", "none", "list", {"Ok", "InternalParsingError"})
list_persistent_subscriptions_for_stream(all) ==
    Managed("list_for_stream", Refusal(all), "list", {"Ok", "InternalParsingError"})
replay_parked_messages(all) == Managed("replay_parked", Refusal(all), "replayparked", {"Ok"})
get_persistent_subscription_info(all) ==
    Managed("get_info", Refusal(all), "getinfo", {"Ok", "InternalParsingError", "ResourceNotFound"})
restart_persistent_subscription_subsystem ==
    Managed("restart_subsystem", "none", "restartsubsystem", {"Ok"})

\* ProjectionClient.  With the option emit, create goes on with an update; the
\* failures of an open stream of statistics are reported whatever they are.
create_projection(emit) == [Plain("create_projection") EXCEPT !.emit = emit]
update_projection == Plain("update_projection")
statistics == Plain("statistics")
ProjectionControl ==
    {Plain(rpc) : rpc \in {"delete_projection", "enable", "reset", "disable", "abort"}}
ProjectionResults == {Plain(rpc) : rpc \in {"get_state", "get_result", "restart_projections"}}

\* operations::Client, which reports nothing.
Operation(rpc) == [Plain(rpc) EXCEPT !.reports = FALSE]
ScavengeOperations == {Operation(rpc) : rpc \in {"start_scavenge", "stop_scavenge"}}
NodeOperations ==
    {Operation(rpc) : rpc \in {"shutdown", "merge_indexes", "resign_node", "set_node_priority",
                               "restart_persistent_subscriptions"}}
UserOperations ==
    {Operation(rpc) : rpc \in {"create_user", "update_user", "delete_user", "enable_user"}}
AccountOperations ==
    {Operation(rpc) : rpc \in {"disable_user", "user_details", "change_user_password",
                               "reset_user_password"}}
stats == [Operation("stats") EXCEPT !.kind = "Streaming"]

\* Every command of the three clients, with its variants.
Catalogue ==
    {append_to_stream, delete_stream, tombstone_stream, read_stream, read_all, batch_append,
     list_all_persistent_subscriptions, restart_persistent_subscription_subsystem,
     update_projection, statistics, stats}
        \cup ProjectionControl \cup ProjectionResults \cup ScavengeOperations \cup NodeOperations
        \cup UserOperations \cup AccountOperations
        \cup {create_projection(emit) : emit \in BOOLEAN}
        \cup UNION {{create_persistent_subscription(all), update_persistent_subscription(all),
                     delete_persistent_subscription(all),
                     subscribe_to_persistent_subscription(all),
                     list_persistent_subscriptions_for_stream(all), replay_parked_messages(all),
                     get_persistent_subscription_info(all)} : all \in BOOLEAN}

ASSUME CommandsAssumption == Commands \subseteq Catalogue

-----------------------------------------------------------------------------
VARIABLES
    node,      \* node[k]: what the node of connection k announces
    current,   \* the connection that the task of the client holds now
    phase,     \* phase[t], see Phase
    command,   \* command[t]: the command that t executes
    options,   \* options[t]: its CommonOperationOptions
    caller,    \* history: the command that t itself issued, and its options
    handle,    \* handle[t]: the connection of the handle t received
    request,   \* request[t]: deadline and credentials of the request t sent
    result,    \* result[t]: what the command returned
    executed,  \* history: the RPCs, or HTTP requests, that nodes carried out for t
    reports,   \* history: the CreateChannel messages sent
    failures,  \* history: the calls that failed, on which connection and how
    issued     \* number of commands issued

taskVars == <<phase, command, options, caller, handle, request, result, executed>>
vars == <<node, current, taskVars, reports, failures, issued>>

Phase == {"idle", "asking", "holding", "grpc", "http", "stream", "done", "panicked"}

Errors == {"ServerError", "NotLeaderException", "ConnectionClosed", "GrpcConnectionError", "Grpc",
           "InternalParsingError", "AccessDenied", "ResourceAlreadyExists", "ResourceNotFound",
           "ResourceDeleted", "UnsupportedFeature", "InternalClientError", "DeadlineExceeded",
           "WrongExpectedVersion"}

ASSUME NoneAssumption == None \notin Errors \cup {"Ok"}

CommonOperationOptions ==
    [credentials : Credentials \cup {None}, deadline : Deadlines \cup {None}]
DefaultOptions == [credentials |-> None, deadline |-> None]

\* The deadline of regular commands if nobody sets one: ten seconds.
RegularDeadline == 10000

Request == [deadline : Deadlines \cup {default_deadline, RegularDeadline, None},
            credentials : Credentials \cup {default_user, None}]
NoRequest == [deadline |-> None, credentials |-> None]

TypeOK ==
    /\ node \in [Connections -> Servers]
    /\ current \in Connections
    /\ phase \in [Tasks -> Phase]
    /\ command \in [Tasks -> Commands \cup {update_projection, None}]
    /\ options \in [Tasks -> CommonOperationOptions]
    /\ caller \in [Tasks -> [command : Commands \cup {None}, options : CommonOperationOptions]]
    /\ handle \in [Tasks -> Connections]
    /\ request \in [Tasks -> Request]
    /\ result \in [Tasks -> Errors \cup {"Ok", None}]
    /\ reports \subseteq [id : Connections, seed : Leaders \cup {None}]
    /\ failures \subseteq [id : Connections, error : Errors, leader : Leaders \cup {None}]
    /\ executed \in [Tasks -> SUBSET {c.rpc : c \in Commands \cup {update_projection}}]
    /\ issued \in 0 .. MaxCommands

\* A node whose version does not parse is never connected to (FeaturesFails of
\* Connection).
Init ==
    /\ node \in [Connections -> {s \in Servers : ~InvalidSemver(s.semver)}]
    /\ current = 1
    /\ phase = [t \in Tasks |-> "idle"]
    /\ command = [t \in Tasks |-> None]
    /\ options = [t \in Tasks |-> DefaultOptions]
    /\ caller = [t \in Tasks |-> [command |-> None, options |-> DefaultOptions]]
    /\ handle = [t \in Tasks |-> 1]
    /\ request = [t \in Tasks |-> NoRequest]
    /\ result = [t \in Tasks |-> None]
    /\ executed = [t \in Tasks |-> {}]
    /\ reports = {}
    /\ failures = {}
    /\ issued = 0

\* The task of the client moves to another connection: CreateChannel named the
\* connection that it holds, and an endpoint.  Other reports leave it where it is
\* (KeepConnection and FollowRedirect of Connection).
Reconnect ==
    /\ \E r \in reports : r.id = current /\ r.seed # None
    /\ current + 1 \in Connections
    /\ current' = current + 1
    /\ UNCHANGED <<node, taskVars, reports, failures, issued>>

-----------------------------------------------------------------------------
(* Sending *)

Issue(t) ==
    /\ phase[t] \in {"idle", "done"}
    /\ issued < MaxCommands
    /\ issued' = issued + 1
    /\ \E c \in Commands, o \in CommonOperationOptions :
          /\ command' = [command EXCEPT ![t] = c]
          /\ options' = [options EXCEPT ![t] = o]
          /\ caller' = [caller EXCEPT ![t] = [command |-> c, options |-> o]]
    /\ phase' = [phase EXCEPT ![t] = "asking"]
    /\ result' = [result EXCEPT ![t] = None]
    /\ executed' = [executed EXCEPT ![t] = {}]
    /\ UNCHANGED <<node, current, handle, request, reports, failures>>

Return(t, r) ==
    /\ phase' = [phase EXCEPT ![t] = "done"]
    /\ result' = [result EXCEPT ![t] = r]

current_selected_node(t) ==
    /\ phase[t] = "asking"
    /\ \/ /\ handle' = [handle EXCEPT ![t] = current]
          /\ phase' = [phase EXCEPT ![t] = "holding"]
          /\ UNCHANGED result
       \/ /\ \E e \in {"ConnectionClosed", "GrpcConnectionError"} : Return(t, e)
          /\ UNCHANGED handle
    /\ UNCHANGED <<node, current, command, options, caller, request, executed, reports, failures,
                   issued>>

\* Mutant of Deadline: the default deadline is given to the wrong kind.
Deadline_Swapped(c, o) ==
    IF o.deadline # None THEN o.deadline
    ELSE IF default_deadline # None
         THEN IF c.kind = "Regular" THEN None ELSE default_deadline
         ELSE IF c.kind = "Regular" THEN RegularDeadline ELSE None

\* new_request.
Deadline(c, o) ==
    IF o.deadline # None THEN o.deadline
    ELSE IF default_deadline # None
         THEN IF c.kind = "Regular" THEN default_deadline ELSE None
         ELSE IF c.kind = "Regular" THEN RegularDeadline ELSE None

\* build_request_metadata and http_configure_auth.
CredentialsOf(o) == IF o.credentials # None THEN o.credentials ELSE default_user

\* Mutant of ServerInfoOf: the features of the node that is held now.
ServerInfoOf_Current(t) == supported_methods(node[current])

\* Handle::supports_feature: the features of the node of the handle.
ServerInfoOf(t) == supported_methods(node[handle[t]])

Refused(c, info) ==
    /\ ~contains_features(info, c.gate)
    /\ \/ c.refusal = "always"
       \/ c.refusal = "without TO_ALL" /\ ~contains_features(info, TO_ALL)

\* The rest of the command up to the call.  The settings of a group may not fit
\* into the request (Unsupported of Groups).  The HTTP request has no deadline, and
\* a deadline too large for the grpc-timeout header makes set_timeout panic.
Send(t) ==
    LET c == command[t]
        info == ServerInfoOf(t)
        deadline == Deadline(c, options[t])
    IN  /\ phase[t] = "holding"
        /\ \/ /\ Refused(c, info) \/ c.rpc \in {"create_group", "update_group"}
              /\ Return(t, "UnsupportedFeature")
              /\ UNCHANGED request
           \/ /\ ~Refused(c, info) /\ ~contains_features(info, c.gate)
              /\ phase' = [phase EXCEPT ![t] = "http"]
              /\ request' = [request EXCEPT ![t] =
                     [deadline |-> None, credentials |-> CredentialsOf(options[t])]]
              /\ UNCHANGED result
           \/ /\ contains_features(info, c.gate)
              /\ phase' = [phase EXCEPT ![t] =
                               IF deadline = MaxDuration THEN "panicked" ELSE "grpc"]
              /\ request' = [request EXCEPT ![t] =
                     [deadline |-> deadline, credentials |-> CredentialsOf(options[t])]]
              /\ UNCHANGED result
        /\ UNCHANGED <<node, current, command, options, caller, handle, executed, reports, failures,
                       issued>>

-----------------------------------------------------------------------------
(* Answers *)

\* A gRPC status that is not OK: its metadata and its code.
Status ==
    [exception : {"not-leader", "stream-deleted", "none"}, leader : Leaders \cup {None},
     code : {"Cancelled: Timeout expired", "DeadlineExceeded", "Unauthenticated",
             "PermissionDenied", "AlreadyExists", "NotFound", "Unavailable", "Internal",
             "DataLoss", "Unknown", "Unimplemented", "FailedPrecondition"}]

from_grpc(status) ==
    IF status.exception = "not-leader" /\ status.leader # None THEN "NotLeaderException"
    ELSE IF status.exception = "stream-deleted" THEN "ResourceDeleted"
    ELSE IF status.code \in {"Cancelled: Timeout expired", "DeadlineExceeded"}
         THEN "DeadlineExceeded"
    ELSE IF status.code \in {"Unauthenticated", "PermissionDenied"} THEN "AccessDenied"
    ELSE IF status.code = "AlreadyExists" THEN "ResourceAlreadyExists"
    ELSE IF status.code = "NotFound" THEN "ResourceNotFound"
    ELSE IF status.code \in {"Unavailable", "Internal", "DataLoss", "Unknown"} THEN "ServerError"
    ELSE IF status.code = "Unimplemented" THEN "UnsupportedFeature"
    ELSE "Grpc"

\* Mutant of handle_error: the connection that is blamed is the one held now.
handle_error_Current(id, status) ==
    reports' = reports \cup
        (IF from_grpc(status) = "ServerError" THEN {[id |-> current, seed |-> None]}
         ELSE IF from_grpc(status) = "NotLeaderException"
              THEN {[id |-> current, seed |-> status.leader]}
              ELSE {})

handle_error(id, status) ==
    reports' = reports \cup
        (IF from_grpc(status) = "ServerError" THEN {[id |-> id, seed |-> None]}
         ELSE IF from_grpc(status) = "NotLeaderException"
              THEN {[id |-> id, seed |-> status.leader]}
              ELSE {})

\* History: the call of t failed on the connection of its handle.
Failure(t, status) ==
    failures' = failures \cup
        {[id |-> handle[t], error |-> from_grpc(status),
          leader |-> IF from_grpc(status) = "NotLeaderException" THEN status.leader ELSE None]}

\* What t asked for is carried out; or nobody knows.
Execute(t) == executed' = [executed EXCEPT ![t] = @ \cup {command[t].rpc}]
MayHaveExecuted(t) == Execute(t) \/ UNCHANGED executed

GrpcFails(t) ==
    /\ phase[t] = "grpc"
    /\ \E status \in Status :
          /\ Return(t, from_grpc(status))
          /\ Failure(t, status)
          /\ IF command[t].reports THEN handle_error(handle[t], status) ELSE UNCHANGED reports
    /\ MayHaveExecuted(t)
    /\ UNCHANGED <<node, current, command, options, caller, handle, request, issued>>

\* The server ends the call when the deadline in its header has passed.
GrpcTimesOut(t) ==
    /\ phase[t] = "grpc"
    /\ request[t].deadline # None
    /\ Return(t, "DeadlineExceeded")
    /\ MayHaveExecuted(t)
    /\ UNCHANGED <<node, current, command, options, caller, handle, request, reports, failures,
                   issued>>

\* Mutant of GrpcSucceeds: the option emit is forgotten.
GrpcSucceeds_NoEmit(t) ==
    /\ phase[t] = "grpc"
    /\ \E r \in command[t].replies : Return(t, r)
    /\ Execute(t)
    /\ UNCHANGED <<node, current, command, options, caller, handle, request, reports, failures,
                   issued>>

\* After create, a projection that emits is updated, with options of its own; the
\* statistics are a stream that the caller goes on reading.
GrpcSucceeds(t) ==
    /\ phase[t] = "grpc"
    /\ \/ /\ ~command[t].emit /\ command[t] # statistics
          /\ \E r \in command[t].replies : Return(t, r)
          /\ UNCHANGED <<command, options>>
       \/ /\ command[t] = statistics
          /\ phase' = [phase EXCEPT ![t] = "stream"]
          /\ UNCHANGED <<command, options, result>>
       \/ /\ command[t].emit
          /\ command' = [command EXCEPT ![t] = update_projection]
          /\ options' = [options EXCEPT ![t] = DefaultOptions]
          /\ phase' = [phase EXCEPT ![t] = "asking"]
          /\ UNCHANGED result
    /\ Execute(t)
    /\ UNCHANGED <<node, current, caller, handle, request, reports, failures, issued>>

\* Handle::report_error, whatever the error is.
StatisticsFail(t) ==
    /\ phase[t] = "stream"
    /\ \E status \in Status : Return(t, from_grpc(status)) /\ Failure(t, status)
    /\ reports' = reports \cup {[id |-> handle[t], seed |-> None]}
    /\ UNCHANGED <<node, current, command, options, caller, handle, request, executed, issued>>

StatisticsEnd(t) ==
    /\ phase[t] = "stream"
    /\ Return(t, "Ok")
    /\ UNCHANGED <<node, current, command, options, caller, handle, request, executed, reports,
                   failures, issued>>

\* http_execute_request: a status code, or none if the request itself failed.
http_execute_request(t) ==
    /\ phase[t] = "http"
    /\ \/ (\E r \in command[t].replies : Return(t, r)) /\ Execute(t)
       \/ /\ \E e \in {"AccessDenied", "ResourceNotFound", "ServerError", "InternalClientError"} :
                Return(t, e)
          /\ MayHaveExecuted(t)
    /\ UNCHANGED <<node, current, command, options, caller, handle, request, reports, failures,
                   issued>>

-----------------------------------------------------------------------------
Step(t) ==
    \/ current_selected_node(t) \/ Send(t)
    \/ GrpcFails(t) \/ GrpcTimesOut(t) \/ GrpcSucceeds(t)
    \/ StatisticsFail(t) \/ StatisticsEnd(t)
    \/ http_execute_request(t)

\* The application issues no further command.
Rest ==
    /\ \A t \in Tasks : phase[t] \in {"idle", "done", "panicked"}
    /\ UNCHANGED vars

Next == Reconnect \/ (\E t \in Tasks : Issue(t) \/ Step(t)) \/ Rest

\* The connection task answers (EveryCallAnswered of Connection), and the runtime
\* polls what is ready.  Nothing is asked of the servers.
Fairness == \A t \in Tasks : WF_vars(current_selected_node(t)) /\ WF_vars(Send(t))

Spec == Init /\ [][Next]_vars /\ Fairness

-----------------------------------------------------------------------------
(* Properties *)

\* A call over gRPC is for a method that the node of its own handle announced,
\* with the extension it uses, whatever node the client has moved to since
\* (supported_methods, contains_features and their uses).  For groups on $all, what
\* is announced is that they can be created there.
RpcSupported ==
    \A t \in Tasks : phase[t] = "grpc" =>
        \A n \in command[t].needs : \E m \in node[handle[t]].methods :
            /\ m.service = n.service /\ m.name = n.name
            /\ n.feature # None => n.feature \in m.features

\* The RPCs that a command stands for: a projection created with the option emit
\* is not complete before its update.
Rpcs(c) == {c.rpc} \cup (IF c.emit THEN {update_projection.rpc} ELSE {})

\* A command that returns Ok has been carried out in all its parts, the parts that
\* went to another node, or over HTTP, included.
OkMeansDone ==
    \A t \in Tasks : result[t] = "Ok" => Rpcs(caller[t].command) \subseteq executed[t]

\* Only a connection on which a call failed is reported, never the one that took
\* its place meanwhile; and the leader that a report names was named there.
BlameIsJust ==
    \A r \in reports :
        \E f \in failures : f.id = r.id /\ (r.seed # None => f.leader = r.seed)

\* The client leaves a connection only because a call on that very connection was
\* told of another leader.  Failures of older connections that come in late,
\* deadlines, refusals, and open streams of statistics that break, never move it
\* (handle_error, report_error and the correlation id).
AbandonedForCause ==
    \A k \in Connections : k < current =>
        \E f \in failures : f.id = k /\ f.error = "NotLeaderException"

\* The servers end the calls whose deadline has passed: the client has no timer of
\* its own, as set_timeout only writes a header.
ServersKeepDeadlines == \A t \in Tasks : WF_vars(GrpcTimesOut(t))

\* If servers keep deadlines, and do nothing else, every command that is no stream
\* gets past each of its RPCs, for it always has a deadline (new_request); so does
\* create with its second RPC.  (It may then go on reading statistics, or have gone
\* out over HTTP instead, which has no deadline.)
RegularCommandsReturn ==
    ServersKeepDeadlines =>
        \A t \in Tasks :
            (phase[t] \in {"asking", "holding", "grpc"} /\ command[t].kind = "Regular")
                ~> (phase[t] \in {"done", "panicked", "http", "stream"})
=============================================================================
