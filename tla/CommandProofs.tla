--------------------------- MODULE CommandProofs ----------------------------
(***************************************************************************)
(* Proofs about Command, for any number of tasks, connections and commands  *)
(* of the catalogue, and for nodes that announce any methods whatever.      *)
(*                                                                         *)
(* Sound says of a row of the catalogue what the proofs need; the rows are  *)
(* gone through once, in CatalogueIsSound.  CourseInv then relates the       *)
(* command that a task executes to the one its caller issued.               *)
(***************************************************************************)
EXTENDS Command, TLAPS

\* The server announces the method that the need n is about, with the extension.
Announces(server, n) ==
    \E m \in server.methods :
        /\ m.service = n.service /\ m.name = n.name
        /\ n.feature # None => n.feature \in m.features

\* A server with the features of the gate has what the command needs.
Gated(c) ==
    \A n \in c.needs : \A server :
        contains_features(supported_methods(server), c.gate) => Announces(server, n)

\* What every row of the catalogue satisfies.  The command that goes on with
\* another one is not gated: it cannot leave for HTTP halfway.
Sound(c) ==
    /\ Gated(c)
    /\ c.kind \in {"Regular", "Streaming"}
    /\ c.replies \subseteq Errors \cup {"Ok"}
    /\ c.emit => c.gate = {}

-----------------------------------------------------------------------------
(* The features of a server *)

\* A feature that a server has comes from one of its methods.
LEMMA FeatureHasMethod ==
    ASSUME NEW server, NEW gate, contains_features(supported_methods(server), gate), NEW f \in gate
    PROVE  \E m \in server.methods : f \in FeatureOf(m)
  BY DEF contains_features, supported_methods

LEMMA BatchAppendMethod ==
    ASSUME NEW m, "BATCH_APPEND" \in FeatureOf(m)
    PROVE  m.service = "streams" /\ m.name = "batchappend"
  BY DEF FeatureOf, BATCH_APPEND, TO_ALL

LEMMA ToAllMethod ==
    ASSUME NEW m, "TO_ALL" \in FeatureOf(m)
    PROVE  m.service = "persistent" /\ m.name = "create" /\ "all" \in m.features
  BY DEF FeatureOf, BATCH_APPEND, TO_ALL

LEMMA ManagementMethod ==
    ASSUME NEW m
    PROVE  /\ "LIST" \in FeatureOf(m) => m.service = "persistent" /\ m.name = "list"
           /\ "GET_INFO" \in FeatureOf(m) => m.service = "persistent" /\ m.name = "getinfo"
           /\ "REPLAY" \in FeatureOf(m) => m.service = "persistent" /\ m.name = "replayparked"
           /\ "RESTART_SUBSYSTEM" \in FeatureOf(m)
                => m.service = "persistent" /\ m.name = "restartsubsystem"
  BY DEF FeatureOf, BATCH_APPEND, TO_ALL

-----------------------------------------------------------------------------
(* The catalogue *)

LEMMA PlainIsSound ==
    ASSUME NEW rpc
    PROVE  /\ Sound(Plain(rpc)) /\ Sound(Streaming(rpc)) /\ Sound(Operation(rpc))
           /\ ~Plain(rpc).emit /\ ~Streaming(rpc).emit /\ ~Operation(rpc).emit
  <1>1. Sound(Plain(rpc)) /\ ~Plain(rpc).emit
    BY DEF Sound, Gated, Plain, Row, Errors
  <1>2. Sound(Streaming(rpc)) /\ ~Streaming(rpc).emit
    BY DEF Sound, Gated, Streaming, Plain, Row, Errors
  <1>3. Sound(Operation(rpc)) /\ ~Operation(rpc).emit
    BY DEF Sound, Gated, Operation, Plain, Row, Errors
  <1> QED BY <1>1, <1>2, <1>3

LEMMA OnAllIsSound ==
    ASSUME NEW row, row = Plain(row.rpc) \/ row = Streaming(row.rpc), NEW all \in BOOLEAN
    PROVE  Sound(ToAll(row, all))
  <1>1. CASE ~all
    BY <1>1, PlainIsSound DEF ToAll
  <1>2. CASE all
    <2> DEFINE c == ToAll(row, all)
    <2>1. /\ c.gate = TO_ALL /\ c.needs = {Need("persistent", "create", "all")}
          /\ c.kind = row.kind /\ c.replies = row.replies /\ c.emit = row.emit
      BY <1>2 DEF ToAll, Plain, Streaming, Row
    <2>2. Gated(c)
      BY <2>1, FeatureHasMethod, ToAllMethod DEF Gated, Announces, Need, TO_ALL
    <2>3. row.kind \in {"Regular", "Streaming"} /\ row.replies = {"Ok"} /\ row.emit = FALSE
      BY DEF Plain, Streaming, Row
    <2>4. ~c.emit
      BY <2>1, <2>3
    <2> HIDE DEF c
    <2>5. Sound(c)
      BY <2>1, <2>2, <2>3, <2>4 DEF Sound
    <2> QED BY <2>5 DEF c
  <1> QED BY <1>1, <1>2

LEMMA ManagedIsSound ==
    ASSUME NEW rpc, NEW refusal, NEW replies \in SUBSET (Errors \cup {"Ok"}),
           NEW name \in {"list", "getinfo", "replayparked", "restartsubsystem"}
    PROVE  Sound(Managed(rpc, refusal, name, replies))
  <1> DEFINE c == Managed(rpc, refusal, name, replies)
  <1>1. /\ c.gate = PERSISTENT_SUBSCRIPTION_MANAGEMENT /\ c.needs = {Need("persistent", name, None)}
        /\ c.kind = "Regular" /\ c.replies = replies /\ c.emit = FALSE
    BY DEF Managed, Row
  <1> HIDE DEF c
  <1>2. ASSUME NEW server, contains_features(supported_methods(server), c.gate)
        PROVE  Announces(server, Need("persistent", name, None))
    <2>1. PICK f \in c.gate : \A m : f \in FeatureOf(m) => m.service = "persistent" /\ m.name = name
      BY <1>1, ManagementMethod DEF PERSISTENT_SUBSCRIPTION_MANAGEMENT
    <2>2. PICK m \in server.methods : f \in FeatureOf(m)
      BY <1>2, FeatureHasMethod
    <2> QED BY <2>1, <2>2 DEF Announces, Need
  <1> QED BY <1>1, <1>2 DEF c, Sound, Gated

\* The whole catalogue is sound; only create_projection goes on with another
\* command, which does not.
LEMMA CatalogueIsSound ==
    ASSUME NEW c \in Catalogue
    PROVE  Sound(c)
  <1>1. CASE c \in {delete_stream, tombstone_stream, read_stream, read_all, update_projection,
                    statistics}
    BY <1>1, PlainIsSound DEF delete_stream, tombstone_stream, read_stream, read_all,
                              update_projection, statistics
  <1>2. CASE c = append_to_stream
    BY <1>2 DEF append_to_stream, Sound, Gated, Plain, Row, Errors
  <1>3. CASE c = stats
    BY <1>3 DEF stats, Sound, Gated, Operation, Plain, Row, Errors
  <1>4. CASE c = batch_append
    <2>1. /\ c.gate = BATCH_APPEND /\ c.needs = {Need("streams", "batchappend", None)}
          /\ c.kind = "Streaming" /\ c.replies = {"Ok"} /\ ~c.emit
      BY <1>4 DEF batch_append, Row
    <2>2. Gated(c)
      BY <2>1, FeatureHasMethod, BatchAppendMethod DEF Gated, Announces, Need, BATCH_APPEND
    <2> QED BY <2>1, <2>2 DEF Sound
  <1>5. CASE c \in ProjectionControl \cup ProjectionResults
    BY <1>5, PlainIsSound DEF ProjectionControl, ProjectionResults
  <1>6. CASE c \in ScavengeOperations \cup NodeOperations \cup UserOperations \cup AccountOperations
    BY <1>6, PlainIsSound DEF ScavengeOperations, NodeOperations, UserOperations, AccountOperations
  <1>7. ASSUME NEW emit \in BOOLEAN, c = create_projection(emit)
        PROVE  Sound(c)
    BY <1>7 DEF create_projection, Sound, Gated, Plain, Row, Errors
  <1>8. ASSUME NEW all \in BOOLEAN,
               c \in {create_persistent_subscription(all), update_persistent_subscription(all),
                      delete_persistent_subscription(all),
                      subscribe_to_persistent_subscription(all)}
        PROVE  Sound(c)
    <2>1. ASSUME NEW rpc
          PROVE  Plain(rpc) = Plain(Plain(rpc).rpc) /\ Streaming(rpc) = Streaming(Streaming(rpc).rpc)
      BY DEF Plain, Streaming, Row
    <2> QED
      BY <1>8, <2>1, OnAllIsSound
      DEF create_persistent_subscription, update_persistent_subscription,
          delete_persistent_subscription, subscribe_to_persistent_subscription
  <1>9. {"Ok"} \in SUBSET (Errors \cup {"Ok"})
        /\ {"Ok", "InternalParsingError"} \in SUBSET (Errors \cup {"Ok"})
        /\ {"Ok", "InternalParsingError", "ResourceNotFound"} \in SUBSET (Errors \cup {"Ok"})
    BY DEF Errors
  <1>10. CASE c \in {list_all_persistent_subscriptions, restart_persistent_subscription_subsystem}
    BY <1>9, <1>10, ManagedIsSound
    DEF list_all_persistent_subscriptions, restart_persistent_subscription_subsystem
  <1>11. ASSUME NEW all \in BOOLEAN,
                c \in {list_persistent_subscriptions_for_stream(all), replay_parked_messages(all),
                       get_persistent_subscription_info(all)}
         PROVE  Sound(c)
    BY <1>9, <1>11, ManagedIsSound
    DEF list_persistent_subscriptions_for_stream, replay_parked_messages,
        get_persistent_subscription_info
  <1> QED
    BY <1>1, <1>2, <1>3, <1>4, <1>5, <1>6, <1>7, <1>8, <1>10, <1>11 DEF Catalogue

\* What a task may execute: a command of the catalogue.
LEMMA CommandIsSound ==
    ASSUME NEW c \in Commands \cup {update_projection}
    PROVE  Sound(c)
  <1>1. update_projection \in Catalogue
    BY DEF Catalogue
  <1> QED BY <1>1, CommandsAssumption, CatalogueIsSound

-----------------------------------------------------------------------------
(* The inductive invariant *)

Busy == {"asking", "holding", "grpc", "http", "stream"}

\* t executes the command of its caller, with the options of its caller; or the
\* update that completes it, once its first part was carried out.
OnCourse(t) ==
    \/ /\ command[t] = caller[t].command /\ command[t] \in Commands
       /\ options[t] = caller[t].options
    \/ /\ command[t] = update_projection
       /\ caller[t].command.emit /\ caller[t].command.rpc \in executed[t]

\* A task is on course while it is busy.  A command with two parts does not go
\* out over HTTP, whose answer ends the command; an open stream has answered.
CourseInv(t) ==
    /\ phase[t] # "done" => result[t] # "Ok"
    /\ phase[t] \in Busy => OnCourse(t)
    /\ phase[t] = "http" => ~command[t].emit
    /\ phase[t] = "stream" => command[t] = statistics /\ statistics.rpc \in executed[t]

\* The properties, for one task.
Supported(t) == phase[t] = "grpc" => \A n \in command[t].needs : Announces(node[handle[t]], n)
Done(t) == result[t] = "Ok" => Rpcs(caller[t].command) \subseteq executed[t]

TaskInv(t) == CourseInv(t) /\ Supported(t) /\ Done(t)

\* A leader is recorded only of a call that was told not to be on it.
LeadersInv == \A f \in failures : f.leader # None => f.error = "NotLeaderException"

ReportsInv == LeadersInv /\ BlameIsJust /\ AbandonedForCause

\* The inductive invariant.
IInv == TypeOK /\ (\A t \in Tasks : TaskInv(t)) /\ ReportsInv

\* A step of t leaves the other tasks, and the nodes, alone.
Frame(t) ==
    /\ node' = node
    /\ \A u \in Tasks \ {t} :
          /\ phase'[u] = phase[u] /\ command'[u] = command[u] /\ options'[u] = options[u]
          /\ caller'[u] = caller[u] /\ handle'[u] = handle[u] /\ request'[u] = request[u]
          /\ result'[u] = result[u] /\ executed'[u] = executed[u]

LEMMA FrameKeepsOthers ==
    ASSUME NEW t, Frame(t), NEW u \in Tasks \ {t}, TaskInv(u)
    PROVE  TaskInv(u)'
  <1>1. CourseInv(u)'
    BY DEF Frame, TaskInv, CourseInv, OnCourse
  <1>2. Supported(u)'
    BY DEF Frame, TaskInv, Supported, Announces
  <1>3. Done(u)'
    BY DEF Frame, TaskInv, Done, Rpcs
  <1> QED BY <1>1, <1>2, <1>3 DEF TaskInv

\* A step of t that keeps what is said of t and of the reports keeps it all.
LEMMA StepOfTask ==
    ASSUME IInv, NEW t \in Tasks, Frame(t), TypeOK', TaskInv(t)', ReportsInv'
    PROVE  IInv'
  BY FrameKeepsOthers DEF IInv

LEMMA NoReport ==
    ASSUME ReportsInv, UNCHANGED <<current, reports, failures>>
    PROVE  ReportsInv'
  BY DEF ReportsInv, LeadersInv, BlameIsJust, AbandonedForCause

\* The command that ends here was carried out in all its parts.
LEMMA AllPartsDone ==
    ASSUME NEW t, OnCourse(t), ~command[t].emit, NEW E, executed[t] \subseteq E, command[t].rpc \in E
    PROVE  Rpcs(caller[t].command) \subseteq E
  BY DEF OnCourse, Rpcs

LEMMA BusyCommand ==
    ASSUME IInv, NEW t \in Tasks, phase[t] \in Busy
    PROVE  /\ OnCourse(t) /\ result[t] # "Ok"
           /\ command[t] \in Commands \cup {update_projection}
           /\ Sound(command[t])
           /\ command[t].rpc \in {c.rpc : c \in Commands \cup {update_projection}}
  <1>1. OnCourse(t) /\ result[t] # "Ok"
    BY DEF IInv, TaskInv, CourseInv, Busy
  <1>2. command[t] \in Commands \cup {update_projection}
    BY <1>1 DEF OnCourse
  <1> QED BY <1>1, <1>2, CommandIsSound

-----------------------------------------------------------------------------
(* One lemma per action *)

LEMMA InitIInv == Init => IInv
  <1> SUFFICES ASSUME Init PROVE IInv
    OBVIOUS
  <1>1. TypeOK
    <2>1. DefaultOptions \in CommonOperationOptions /\ NoRequest \in Request
      BY DEF DefaultOptions, CommonOperationOptions, NoRequest, Request
    <2>2. node \in [Connections -> Servers] /\ issued \in 0 .. MaxCommands
      BY BoundAssumption DEF Init
    <2>3. current \in Connections /\ handle \in [Tasks -> Connections]
      BY ConnectionsAssumption DEF Init
    <2> QED BY <2>1, <2>2, <2>3 DEF Init, TypeOK, Phase
  <1>2. ASSUME NEW t \in Tasks PROVE TaskInv(t)
    <2>1. phase[t] = "idle" /\ result[t] # "Ok"
      BY NoneAssumption DEF Init
    <2> QED BY <2>1 DEF TaskInv, CourseInv, Busy, Supported, Done
  <1>3. ReportsInv
    <2>1. \A k \in Connections : ~(k < 1)
      BY ConnectionsAssumption
    <2> QED BY <2>1 DEF Init, ReportsInv, LeadersInv, BlameIsJust, AbandonedForCause
  <1> QED BY <1>1, <1>2, <1>3 DEF IInv

LEMMA ReconnectKeepsIInv ==
    ASSUME IInv, Reconnect
    PROVE  IInv'
  <1>1. /\ current' \in Connections
        /\ UNCHANGED <<node, phase, command, options, caller, handle, request, result, executed,
                       reports, failures, issued>>
    BY DEF Reconnect, taskVars
  <1>2. TypeOK'
    BY <1>1 DEF IInv, TypeOK
  <1>3. ASSUME NEW t \in Tasks PROVE TaskInv(t)'
    BY <1>1 DEF IInv, TaskInv, CourseInv, OnCourse, Supported, Announces, Done, Rpcs
  <1>4. AbandonedForCause'
    <2>1. PICK r \in reports : r.id = current /\ r.seed # None
      BY DEF Reconnect
    <2>2. PICK f \in failures : f.id = current /\ f.error = "NotLeaderException"
      BY <2>1 DEF IInv, ReportsInv, BlameIsJust, LeadersInv
    <2>3. \A k \in Connections : k < current' => k < current \/ k = current
      BY ConnectionsAssumption DEF IInv, TypeOK, Reconnect
    <2> QED BY <1>1, <2>2, <2>3 DEF IInv, ReportsInv, AbandonedForCause
  <1>5. LeadersInv' /\ BlameIsJust'
    BY <1>1 DEF IInv, ReportsInv, LeadersInv, BlameIsJust
  <1> QED BY <1>2, <1>3, <1>4, <1>5 DEF IInv, ReportsInv

LEMMA IssueKeepsIInv ==
    ASSUME IInv, NEW t \in Tasks, Issue(t)
    PROVE  IInv'
  <1>1. PICK c \in Commands, o \in CommonOperationOptions :
          /\ command' = [command EXCEPT ![t] = c]
          /\ options' = [options EXCEPT ![t] = o]
          /\ caller' = [caller EXCEPT ![t] = [command |-> c, options |-> o]]
    BY DEF Issue
  <1>2. TypeOK'
    <2>1. issued' \in 0 .. MaxCommands
      BY BoundAssumption DEF Issue, IInv, TypeOK
    <2>2. [command |-> c, options |-> o] \in [command : Commands \cup {None},
                                              options : CommonOperationOptions]
      OBVIOUS
    <2> QED BY <1>1, <2>1, <2>2 DEF Issue, IInv, TypeOK, Phase
  <1>3. Frame(t)
    BY <1>1 DEF Issue, IInv, TypeOK, Frame
  <1>4. TaskInv(t)'
    <2>1. /\ phase'[t] = "asking" /\ result'[t] = None
          /\ command'[t] = c /\ options'[t] = o
          /\ caller'[t].command = c /\ caller'[t].options = o
      BY <1>1 DEF Issue, IInv, TypeOK
    <2> QED BY <2>1, NoneAssumption DEF TaskInv, CourseInv, OnCourse, Supported, Done
  <1>5. ReportsInv'
    BY NoReport DEF Issue, IInv
  <1> QED BY <1>2, <1>3, <1>4, <1>5, StepOfTask

\* A task that was busy and returns an error says nothing more.
LEMMA ErrorKeepsTaskInv ==
    ASSUME NEW t, phase'[t] = "done", result'[t] # "Ok"
    PROVE  TaskInv(t)'
  BY DEF TaskInv, CourseInv, Busy, Supported, Done

LEMMA current_selected_nodeKeepsIInv ==
    ASSUME IInv, NEW t \in Tasks, current_selected_node(t)
    PROVE  IInv'
  <1>1. TypeOK'
    BY DEF current_selected_node, Return, IInv, TypeOK, Phase, Errors
  <1>2. Frame(t)
    BY DEF current_selected_node, Return, IInv, TypeOK, Frame
  <1>3. TaskInv(t)'
    <2>1. CASE phase' = [phase EXCEPT ![t] = "holding"] /\ UNCHANGED result
      <3>1. phase[t] = "asking" /\ phase[t] \in Busy
        BY DEF current_selected_node, Busy
      <3>2. OnCourse(t) /\ result[t] # "Ok"
        BY <3>1, BusyCommand
      <3>3. phase'[t] = "holding" /\ UNCHANGED <<result, command, options, caller, executed>>
        BY <2>1 DEF current_selected_node, IInv, TypeOK
      <3> QED BY <3>2, <3>3 DEF TaskInv, CourseInv, OnCourse, Supported, Done
    <2>2. ASSUME NEW e \in {"ConnectionClosed", "GrpcConnectionError"}, Return(t, e)
          PROVE  TaskInv(t)'
      <3>1. phase'[t] = "done" /\ result'[t] # "Ok"
        BY <2>2 DEF Return, IInv, TypeOK
      <3> QED BY <3>1, ErrorKeepsTaskInv
    <2> QED BY <2>1, <2>2 DEF current_selected_node
  <1>4. ReportsInv'
    BY NoReport DEF current_selected_node, IInv
  <1> QED BY <1>1, <1>2, <1>3, <1>4, StepOfTask

LEMMA SendKeepsIInv ==
    ASSUME IInv, NEW t \in Tasks, Send(t)
    PROVE  IInv'
  <1> DEFINE c == command[t]
             info == ServerInfoOf(t)
             deadline == Deadline(c, options[t])
  <1>1. /\ OnCourse(t) /\ result[t] # "Ok" /\ Sound(c)
    <2>1. phase[t] \in Busy
      BY DEF Send, Busy
    <2> QED BY <2>1, BusyCommand
  <1>2. \/ /\ phase' = [phase EXCEPT ![t] = "done"] /\ result' = [result EXCEPT ![t] = "UnsupportedFeature"]
           /\ UNCHANGED request
        \/ /\ ~contains_features(info, c.gate)
           /\ phase' = [phase EXCEPT ![t] = "http"] /\ UNCHANGED result
           /\ request' = [request EXCEPT ![t] =
                  [deadline |-> None, credentials |-> CredentialsOf(options[t])]]
        \/ /\ contains_features(info, c.gate) /\ UNCHANGED result
           /\ \E p \in {"panicked", "grpc"} : phase' = [phase EXCEPT ![t] = p]
           /\ request' = [request EXCEPT ![t] =
                  [deadline |-> deadline, credentials |-> CredentialsOf(options[t])]]
    BY DEF Send, Return
  <1>3. UNCHANGED <<node, current, command, options, caller, handle, executed, reports, failures, issued>>
    BY DEF Send
  <1>4. /\ [deadline |-> None, credentials |-> CredentialsOf(options[t])] \in Request
        /\ [deadline |-> deadline, credentials |-> CredentialsOf(options[t])] \in Request
    <2>1. options[t] \in CommonOperationOptions
      BY DEF IInv, TypeOK
    <2>2. CredentialsOf(options[t]) \in Credentials \cup {default_user, None}
      BY <2>1 DEF CredentialsOf, CommonOperationOptions
    <2>3. deadline \in Deadlines \cup {default_deadline, RegularDeadline, None}
      BY <2>1 DEF Deadline, CommonOperationOptions
    <2> QED BY <2>2, <2>3 DEF Request
  <1>5. TypeOK'
    <2>1. phase' \in [Tasks -> Phase]
      BY <1>2 DEF IInv, TypeOK, Phase
    <2>2. result' \in [Tasks -> Errors \cup {"Ok", None}]
      BY <1>2 DEF IInv, TypeOK, Errors
    <2>3. request' \in [Tasks -> Request]
      BY <1>2, <1>4 DEF IInv, TypeOK
    <2> QED BY <1>3, <2>1, <2>2, <2>3 DEF IInv, TypeOK
  <1>6. Frame(t)
    BY <1>2, <1>3 DEF IInv, TypeOK, Frame
  <1>7. TaskInv(t)'
    <2>1. CASE phase' = [phase EXCEPT ![t] = "done"] /\ result' = [result EXCEPT ![t] = "UnsupportedFeature"]
      <3>1. phase'[t] = "done" /\ result'[t] # "Ok"
        BY <2>1 DEF IInv, TypeOK
      <3> QED BY <3>1, ErrorKeepsTaskInv
    <2>2. CASE ~contains_features(info, c.gate) /\ phase' = [phase EXCEPT ![t] = "http"] /\ UNCHANGED result
      <3>1. phase'[t] = "http"
        BY <2>2 DEF IInv, TypeOK
      <3>2. ~c.emit
        BY <1>1, <2>2 DEF Sound, contains_features
      <3> QED BY <1>1, <1>3, <2>2, <3>1, <3>2
              DEF TaskInv, CourseInv, OnCourse, Supported, Done
    <2>3. ASSUME contains_features(info, c.gate), UNCHANGED result,
                 NEW p \in {"panicked", "grpc"}, phase' = [phase EXCEPT ![t] = p],
                 request' = [request EXCEPT ![t] =
                     [deadline |-> deadline, credentials |-> CredentialsOf(options[t])]]
          PROVE  TaskInv(t)'
      <3>1. phase'[t] = p
        BY <2>3 DEF IInv, TypeOK
      <3>2. CourseInv(t)' /\ Done(t)'
        BY <1>1, <1>3, <2>3, <3>1 DEF CourseInv, OnCourse, Done
      <3>3. Supported(t)'
        <4>1. \A n \in c.needs : Announces(node[handle[t]], n)
          BY <1>1, <2>3 DEF Sound, Gated, ServerInfoOf
        <4> QED BY <1>3, <4>1 DEF Supported, Announces
      <3> QED BY <3>2, <3>3 DEF TaskInv
    <2> QED BY <1>2, <2>1, <2>2, <2>3
  <1>8. ReportsInv'
    BY <1>3, NoReport DEF IInv
  <1> QED BY <1>5, <1>6, <1>7, <1>8, StepOfTask

\* What is reported of a failure is on record, and moves nobody yet.
LEMMA FailureIsReported ==
    ASSUME ReportsInv, UNCHANGED current, NEW t, NEW status, Failure(t, status),
           \/ handle_error(handle[t], status)
           \/ UNCHANGED reports
           \/ reports' = reports \cup {[id |-> handle[t], seed |-> None]}
    PROVE  ReportsInv'
  <1> DEFINE error == from_grpc(status)
             f == [id |-> handle[t], error |-> error,
                   leader |-> IF error = "NotLeaderException" THEN status.leader ELSE None]
  <1>1. failures' = failures \cup {f}
    BY DEF Failure
  <1>2. f.leader # None => f.error = "NotLeaderException"
    OBVIOUS
  <1>3. \A r \in reports' \ reports : r.id = f.id /\ (r.seed # None => f.leader = r.seed)
    BY DEF handle_error
  <1> HIDE DEF f
  <1>4. LeadersInv'
    BY <1>1, <1>2 DEF ReportsInv, LeadersInv
  <1>5. BlameIsJust'
    BY <1>1, <1>3 DEF ReportsInv, BlameIsJust
  <1>6. AbandonedForCause'
    BY <1>1 DEF ReportsInv, AbandonedForCause
  <1> QED BY <1>4, <1>5, <1>6 DEF ReportsInv

\* from_grpc makes an error of every status.
LEMMA StatusIsError ==
    ASSUME NEW status
    PROVE  from_grpc(status) \in Errors /\ from_grpc(status) # "Ok"
  BY DEF from_grpc, Errors

LEMMA FailureType ==
    ASSUME TypeOK, NEW t \in Tasks, NEW status \in Status, Failure(t, status)
    PROVE  failures' \subseteq [id : Connections, error : Errors, leader : Leaders \cup {None}]
  <1>1. /\ handle[t] \in Connections /\ from_grpc(status) \in Errors
        /\ status.leader \in Leaders \cup {None}
    BY StatusIsError DEF TypeOK, Status
  <1> DEFINE leader == IF from_grpc(status) = "NotLeaderException" THEN status.leader ELSE None
  <1>2. leader \in Leaders \cup {None}
    BY <1>1
  <1>3. failures' = failures \cup {[id |-> handle[t], error |-> from_grpc(status), leader |-> leader]}
    BY DEF Failure
  <1> HIDE DEF leader
  <1>4. [id |-> handle[t], error |-> from_grpc(status), leader |-> leader]
          \in [id : Connections, error : Errors, leader : Leaders \cup {None}]
    BY <1>1, <1>2
  <1> QED BY <1>3, <1>4 DEF TypeOK

LEMMA HandleErrorType ==
    ASSUME TypeOK, NEW t \in Tasks, NEW status \in Status, handle_error(handle[t], status)
    PROVE  reports' \subseteq [id : Connections, seed : Leaders \cup {None}]
  <1>1. handle[t] \in Connections /\ status.leader \in Leaders \cup {None}
    BY DEF TypeOK, Status
  <1> QED BY <1>1 DEF handle_error, TypeOK

\* What may have been carried out for t is a command of its own.
LEMMA ExecuteType ==
    ASSUME IInv, NEW t \in Tasks, phase[t] \in Busy, MayHaveExecuted(t)
    PROVE  /\ executed' \in [Tasks -> SUBSET {c.rpc : c \in Commands \cup {update_projection}}]
           /\ \A u \in Tasks \ {t} : executed'[u] = executed[u]
  <1>1. command[t].rpc \in {c.rpc : c \in Commands \cup {update_projection}}
    BY BusyCommand
  <1>s. PICK S : S = {c.rpc : c \in Commands \cup {update_projection}}
    OBVIOUS
  <1>2. executed \in [Tasks -> SUBSET S] /\ command[t].rpc \in S
    BY <1>1, <1>s DEF IInv, TypeOK
  <1>3. \/ executed' = executed
        \/ executed' = [executed EXCEPT ![t] = @ \cup {command[t].rpc}]
    BY DEF MayHaveExecuted, Execute
  <1>4. /\ executed' \in [Tasks -> SUBSET S]
        /\ \A u \in Tasks \ {t} : executed'[u] = executed[u]
    BY ONLY <1>2, <1>3, t \in Tasks
  <1> QED BY <1>s, <1>4

LEMMA ReturnType ==
    ASSUME TypeOK, NEW t \in Tasks, NEW r \in Errors \cup {"Ok"}, Return(t, r)
    PROVE  /\ phase' \in [Tasks -> Phase] /\ result' \in [Tasks -> Errors \cup {"Ok", None}]
           /\ phase'[t] = "done" /\ result'[t] = r
           /\ \A u \in Tasks \ {t} : phase'[u] = phase[u] /\ result'[u] = result[u]
  BY DEF Return, TypeOK, Phase

LEMMA GrpcFailsKeepsIInv ==
    ASSUME IInv, NEW t \in Tasks, GrpcFails(t)
    PROVE  IInv'
  <1>1. PICK status \in Status :
          /\ Return(t, from_grpc(status))
          /\ Failure(t, status)
          /\ IF command[t].reports THEN handle_error(handle[t], status) ELSE UNCHANGED reports
    BY DEF GrpcFails
  <1>2. /\ phase[t] = "grpc" /\ phase[t] \in Busy /\ MayHaveExecuted(t)
        /\ UNCHANGED <<node, current, command, options, caller, handle, request, issued>>
    BY DEF GrpcFails, Busy
  <1>3. /\ phase' \in [Tasks -> Phase] /\ result' \in [Tasks -> Errors \cup {"Ok", None}]
        /\ phase'[t] = "done" /\ result'[t] # "Ok"
        /\ \A u \in Tasks \ {t} : phase'[u] = phase[u] /\ result'[u] = result[u]
    BY <1>1, StatusIsError, ReturnType DEF IInv
  <1>4. /\ executed' \in [Tasks -> SUBSET {c.rpc : c \in Commands \cup {update_projection}}]
        /\ \A u \in Tasks \ {t} : executed'[u] = executed[u]
    BY <1>2, ExecuteType
  <1>5. reports' \subseteq [id : Connections, seed : Leaders \cup {None}]
    BY <1>1, HandleErrorType DEF IInv, TypeOK
  <1>6. TypeOK'
    BY <1>1, <1>2, <1>3, <1>4, <1>5, FailureType DEF IInv, TypeOK
  <1>7. Frame(t)
    BY <1>2, <1>3, <1>4 DEF Frame
  <1>8. TaskInv(t)'
    BY <1>3, ErrorKeepsTaskInv
  <1>9. ReportsInv'
    BY <1>1, <1>2, FailureIsReported DEF IInv
  <1> QED BY <1>6, <1>7, <1>8, <1>9, StepOfTask

LEMMA GrpcTimesOutKeepsIInv ==
    ASSUME IInv, NEW t \in Tasks, GrpcTimesOut(t)
    PROVE  IInv'
  <1>1. /\ phase[t] \in Busy /\ MayHaveExecuted(t) /\ Return(t, "DeadlineExceeded")
        /\ UNCHANGED <<node, current, command, options, caller, handle, request, reports, failures,
                       issued>>
    BY DEF GrpcTimesOut, Busy
  <1>2. /\ phase' \in [Tasks -> Phase] /\ result' \in [Tasks -> Errors \cup {"Ok", None}]
        /\ phase'[t] = "done" /\ result'[t] # "Ok"
        /\ \A u \in Tasks \ {t} : phase'[u] = phase[u] /\ result'[u] = result[u]
    <2>1. "DeadlineExceeded" \in Errors \cup {"Ok"}
      BY DEF Errors
    <2> QED BY <1>1, <2>1, ReturnType DEF IInv
  <1>3. /\ executed' \in [Tasks -> SUBSET {c.rpc : c \in Commands \cup {update_projection}}]
        /\ \A u \in Tasks \ {t} : executed'[u] = executed[u]
    BY <1>1, ExecuteType
  <1>4. TypeOK'
    BY <1>1, <1>2, <1>3 DEF IInv, TypeOK
  <1>5. Frame(t)
    BY <1>1, <1>2, <1>3 DEF Frame
  <1>6. TaskInv(t)'
    BY <1>2, ErrorKeepsTaskInv
  <1>7. ReportsInv'
    BY <1>1, NoReport DEF IInv
  <1> QED BY <1>4, <1>5, <1>6, <1>7, StepOfTask

LEMMA GrpcSucceedsKeepsIInv ==
    ASSUME IInv, NEW t \in Tasks, GrpcSucceeds(t)
    PROVE  IInv'
  <1>1. /\ phase[t] = "grpc" /\ phase[t] \in Busy /\ Execute(t)
        /\ UNCHANGED <<node, current, caller, handle, request, reports, failures, issued>>
    BY DEF GrpcSucceeds, Busy
  <1>2. /\ OnCourse(t) /\ result[t] # "Ok" /\ command[t].replies \subseteq Errors \cup {"Ok"}
    BY <1>1, BusyCommand DEF Sound
  <1>3. /\ executed' \in [Tasks -> SUBSET {c.rpc : c \in Commands \cup {update_projection}}]
        /\ \A u \in Tasks \ {t} : executed'[u] = executed[u]
    BY <1>1, ExecuteType DEF MayHaveExecuted
  <1>4. executed'[t] = executed[t] \cup {command[t].rpc}
    BY <1>1 DEF Execute, IInv, TypeOK
  <1>5. ReportsInv'
    BY <1>1, NoReport DEF IInv
  <1>6. ASSUME ~command[t].emit, NEW r \in command[t].replies, Return(t, r),
               UNCHANGED <<command, options>>
        PROVE  IInv'
    <2>1. /\ phase' \in [Tasks -> Phase] /\ result' \in [Tasks -> Errors \cup {"Ok", None}]
          /\ phase'[t] = "done" /\ result'[t] = r
          /\ \A u \in Tasks \ {t} : phase'[u] = phase[u] /\ result'[u] = result[u]
      BY <1>2, <1>6, ReturnType DEF IInv
    <2>2. TypeOK'
      BY <1>1, <1>3, <1>6, <2>1 DEF IInv, TypeOK
    <2>3. Frame(t)
      BY <1>1, <1>3, <1>6, <2>1 DEF Frame
    <2>4. Rpcs(caller[t].command) \subseteq executed'[t]
      BY <1>2, <1>4, <1>6, AllPartsDone
    <2>5. TaskInv(t)'
      BY <1>1, <2>1, <2>4 DEF TaskInv, CourseInv, Busy, Supported, Done, Rpcs
    <2> QED BY <1>5, <2>2, <2>3, <2>5, StepOfTask
  <1>7. ASSUME command[t] = statistics, phase' = [phase EXCEPT ![t] = "stream"],
               UNCHANGED <<command, options, result>>
        PROVE  IInv'
    <2>1. /\ phase' \in [Tasks -> Phase] /\ phase'[t] = "stream"
          /\ \A u \in Tasks \ {t} : phase'[u] = phase[u]
      BY <1>7 DEF IInv, TypeOK, Phase
    <2>2. TypeOK'
      BY <1>1, <1>3, <1>7, <2>1 DEF IInv, TypeOK
    <2>3. Frame(t)
      BY <1>1, <1>3, <1>7, <2>1 DEF Frame
    <2>4. OnCourse(t)'
      BY <1>1, <1>2, <1>4, <1>7 DEF OnCourse
    <2>5. TaskInv(t)'
      BY <1>2, <1>4, <1>7, <2>1, <2>4 DEF TaskInv, CourseInv, Supported, Done
    <2> QED BY <1>5, <2>2, <2>3, <2>5, StepOfTask
  <1>8. ASSUME command[t].emit, command' = [command EXCEPT ![t] = update_projection],
               options' = [options EXCEPT ![t] = DefaultOptions],
               phase' = [phase EXCEPT ![t] = "asking"], UNCHANGED result
        PROVE  IInv'
    <2>1. /\ phase' \in [Tasks -> Phase] /\ phase'[t] = "asking"
          /\ command' \in [Tasks -> Commands \cup {update_projection, None}]
          /\ command'[t] = update_projection
          /\ \A u \in Tasks \ {t} : phase'[u] = phase[u] /\ command'[u] = command[u]
      BY <1>8 DEF IInv, TypeOK, Phase
    <2>2. /\ options' \in [Tasks -> CommonOperationOptions]
          /\ \A u \in Tasks \ {t} : options'[u] = options[u]
      BY <1>8 DEF IInv, TypeOK, DefaultOptions, CommonOperationOptions
    <2>3. TypeOK'
      BY <1>1, <1>3, <1>8, <2>1, <2>2 DEF IInv, TypeOK
    <2>4. Frame(t)
      BY <1>1, <1>3, <1>8, <2>1, <2>2 DEF Frame
    <2>5. ~update_projection.emit
      BY PlainIsSound DEF update_projection
    <2>6. command[t] = caller[t].command
      BY <1>2, <1>8, <2>5 DEF OnCourse
    <2>7. OnCourse(t)'
      BY <1>1, <1>4, <1>8, <2>1, <2>6 DEF OnCourse
    <2>8. TaskInv(t)'
      BY <1>2, <1>8, <2>1, <2>7 DEF TaskInv, CourseInv, Supported, Done
    <2> QED BY <1>5, <2>3, <2>4, <2>8, StepOfTask
  <1> QED BY <1>6, <1>7, <1>8 DEF GrpcSucceeds

LEMMA StatisticsFailKeepsIInv ==
    ASSUME IInv, NEW t \in Tasks, StatisticsFail(t)
    PROVE  IInv'
  <1>1. PICK status \in Status : Return(t, from_grpc(status)) /\ Failure(t, status)
    BY DEF StatisticsFail
  <1>2. /\ phase[t] = "stream" /\ reports' = reports \cup {[id |-> handle[t], seed |-> None]}
        /\ UNCHANGED <<node, current, command, options, caller, handle, request, executed, issued>>
    BY DEF StatisticsFail
  <1>3. /\ phase' \in [Tasks -> Phase] /\ result' \in [Tasks -> Errors \cup {"Ok", None}]
        /\ phase'[t] = "done" /\ result'[t] # "Ok"
        /\ \A u \in Tasks \ {t} : phase'[u] = phase[u] /\ result'[u] = result[u]
    BY <1>1, StatusIsError, ReturnType DEF IInv
  <1>4. reports' \subseteq [id : Connections, seed : Leaders \cup {None}]
    BY <1>2 DEF IInv, TypeOK
  <1>5. TypeOK'
    BY <1>1, <1>2, <1>3, <1>4, FailureType DEF IInv, TypeOK
  <1>6. Frame(t)
    BY <1>2, <1>3 DEF Frame
  <1>7. TaskInv(t)'
    BY <1>3, ErrorKeepsTaskInv
  <1>8. ReportsInv'
    BY <1>1, <1>2, FailureIsReported DEF IInv
  <1> QED BY <1>5, <1>6, <1>7, <1>8, StepOfTask

LEMMA StatisticsEndKeepsIInv ==
    ASSUME IInv, NEW t \in Tasks, StatisticsEnd(t)
    PROVE  IInv'
  <1>1. /\ phase[t] = "stream" /\ phase[t] \in Busy /\ Return(t, "Ok")
        /\ UNCHANGED <<node, current, command, options, caller, handle, request, executed, reports,
                       failures, issued>>
    BY DEF StatisticsEnd, Busy
  <1>2. /\ phase' \in [Tasks -> Phase] /\ result' \in [Tasks -> Errors \cup {"Ok", None}]
        /\ phase'[t] = "done" /\ result'[t] = "Ok"
        /\ \A u \in Tasks \ {t} : phase'[u] = phase[u] /\ result'[u] = result[u]
    BY <1>1, ReturnType DEF IInv
  <1>3. TypeOK'
    BY <1>1, <1>2 DEF IInv, TypeOK
  <1>4. Frame(t)
    BY <1>1, <1>2 DEF Frame
  <1>5. OnCourse(t) /\ command[t] = statistics /\ command[t].rpc \in executed[t]
    BY <1>1, BusyCommand DEF IInv, TaskInv, CourseInv
  <1>6. ~command[t].emit
    BY <1>5, PlainIsSound DEF statistics
  <1>7. Rpcs(caller[t].command) \subseteq executed[t]
    BY <1>5, <1>6, AllPartsDone
  <1>8. TaskInv(t)'
    BY <1>1, <1>2, <1>7 DEF TaskInv, CourseInv, Busy, Supported, Done, Rpcs
  <1>9. ReportsInv'
    BY <1>1, NoReport DEF IInv
  <1> QED BY <1>3, <1>4, <1>8, <1>9, StepOfTask

LEMMA http_execute_requestKeepsIInv ==
    ASSUME IInv, NEW t \in Tasks, http_execute_request(t)
    PROVE  IInv'
  <1>1. /\ phase[t] = "http" /\ phase[t] \in Busy /\ MayHaveExecuted(t)
        /\ UNCHANGED <<node, current, command, options, caller, handle, request, reports, failures,
                       issued>>
    BY DEF http_execute_request, Busy, MayHaveExecuted
  <1>2. /\ OnCourse(t) /\ command[t].replies \subseteq Errors \cup {"Ok"}
    BY <1>1, BusyCommand DEF Sound
  <1>3. PICK r \in Errors \cup {"Ok"} : Return(t, r) /\ (r = "Ok" => Execute(t))
    BY <1>2 DEF http_execute_request, Errors
  <1>4. /\ phase' \in [Tasks -> Phase] /\ result' \in [Tasks -> Errors \cup {"Ok", None}]
        /\ phase'[t] = "done" /\ result'[t] = r
        /\ \A u \in Tasks \ {t} : phase'[u] = phase[u] /\ result'[u] = result[u]
    BY <1>3, ReturnType DEF IInv
  <1>5. /\ executed' \in [Tasks -> SUBSET {c.rpc : c \in Commands \cup {update_projection}}]
        /\ \A u \in Tasks \ {t} : executed'[u] = executed[u]
    BY <1>1, ExecuteType
  <1>6. TypeOK'
    BY <1>1, <1>4, <1>5 DEF IInv, TypeOK
  <1>7. Frame(t)
    BY <1>1, <1>4, <1>5 DEF Frame
  <1>8. r = "Ok" => Rpcs(caller[t].command) \subseteq executed'[t]
    <2>1. ~command[t].emit
      BY <1>1 DEF IInv, TaskInv, CourseInv
    <2>2. r = "Ok" => executed'[t] = executed[t] \cup {command[t].rpc}
      BY <1>3 DEF Execute, IInv, TypeOK
    <2> QED BY <1>2, <2>1, <2>2, AllPartsDone
  <1>9. TaskInv(t)'
    BY <1>1, <1>4, <1>8 DEF TaskInv, CourseInv, Busy, Supported, Done, Rpcs
  <1>10. ReportsInv'
    BY <1>1, NoReport DEF IInv
  <1> QED BY <1>6, <1>7, <1>9, <1>10, StepOfTask

-----------------------------------------------------------------------------
(* The theorems *)

LEMMA NextKeepsIInv == IInv /\ [Next]_vars => IInv'
  <1> SUFFICES ASSUME IInv, [Next]_vars PROVE IInv'
    OBVIOUS
  <1>1. CASE Reconnect
    BY <1>1, ReconnectKeepsIInv
  <1>2. ASSUME NEW t \in Tasks, Issue(t) \/ Step(t)
        PROVE  IInv'
    BY <1>2, IssueKeepsIInv, current_selected_nodeKeepsIInv, SendKeepsIInv, GrpcFailsKeepsIInv,
       GrpcTimesOutKeepsIInv, GrpcSucceedsKeepsIInv, StatisticsFailKeepsIInv,
       StatisticsEndKeepsIInv, http_execute_requestKeepsIInv DEF Step
  <1>3. CASE UNCHANGED vars
    <2>1. UNCHANGED <<node, current, phase, command, options, caller, handle, request, result,
                      executed, reports, failures, issued>>
      BY <1>3 DEF vars, taskVars
    <2>2. TypeOK'
      BY <2>1 DEF IInv, TypeOK
    <2>3. ASSUME NEW t \in Tasks PROVE TaskInv(t)'
      BY <2>1 DEF IInv, TaskInv, CourseInv, OnCourse, Supported, Announces, Done, Rpcs
    <2>4. ReportsInv'
      BY <2>1, NoReport DEF IInv
    <2> QED BY <2>2, <2>3, <2>4 DEF IInv
  <1> QED BY <1>1, <1>2, <1>3 DEF Next, Rest

LEMMA Invariance == Spec => []IInv
  BY InitIInv, NextKeepsIInv, PTL DEF Spec

\* The variables of the tasks, of the nodes and of the reports keep their types:
\* every answer is turned into an error of the client or Ok.
THEOREM TypeCorrect == Spec => []TypeOK
  BY Invariance, PTL DEF IInv

\* Whatever methods the nodes announce and however often the client moves on, no
\* call goes out over gRPC that the node of its handle did not announce
\* (supported_methods, contains_features and the tests of the commands).
THEOREM OnlySupportedCalls == Spec => []RpcSupported
  <1>1. IInv => RpcSupported
    BY DEF IInv, TaskInv, Supported, Announces, RpcSupported
  <1> QED BY <1>1, Invariance, PTL

\* A command that returns Ok has been carried out in all its parts
\* (create_projection with the option emit included).
THEOREM OkIsDone == Spec => []OkMeansDone
  <1>1. IInv => OkMeansDone
    BY DEF IInv, TaskInv, Done, OkMeansDone
  <1> QED BY <1>1, Invariance, PTL

\* No connection is reported on which no call failed, and no leader that was not
\* named there (handle_error and report_error).
THEOREM NoFalseReport == Spec => []BlameIsJust
  BY Invariance, PTL DEF IInv, ReportsInv

\* However many tasks fail on however many connections, and however late, the
\* client leaves a connection only because a call made on it was told of another
\* leader (handle_error, report_error and the correlation id of CreateChannel).
THEOREM LeavesOnlyForCause == Spec => []AbandonedForCause
  BY Invariance, PTL DEF IInv, ReportsInv

=============================================================================
