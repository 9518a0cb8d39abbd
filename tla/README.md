# A TLA+ model of the KurrentDB Rust client

This directory holds TLA+ specifications of the concurrent and stateful parts of
the KurrentDB (EventStoreDB) client in `kurrentdb/src` and of the statistics of
`kurrentdb-extras`, and of the conversions they rest on, TLC configurations that
check them on small instances, and TLAPS proofs of their main properties for
every instance. `PROJECT.json` maps every definition to the lines it models.

Paths below are relative to `kurrentdb/src`.

## 1. Inventory

| Component | State | Operations | What is hard about it |
|---|---|---|---|
| Connection task (`grpc.rs`) | mailbox of `Msg`, `handle_opt`, `NodeConnection {id, handle, ...}` | `GetChannel`, `CreateChannel`, `next`, `execute`, `handle_error` | calls run and fail concurrently with the task; their reports arrive late; discovery retries, times out and may end the task with callers queued |
| Node selection (`grpc.rs`, `operations/gossip.rs`) | candidates left, the fold of `min_by` | `node_selection`, `determine_best_node`, `gossip::read` | silent, failing and useless candidates; a comparison that is no order |
| Catch-up subscription (`commands.rs`) | open stream, position, attempts | `next_subscription_event` | the stream drops, reads fail, the future is dropped at an await; nothing may be lost or repeated |
| Batch append (`batch.rs`, `commands.rs`) | actor with `reg`, reader task, two channels | `append_to_stream`, the arms of the actor | responses out of order or twice, one rejection ends the session, the stream fails or ends with appends in flight |
| Persistent subscription consumer (`commands.rs`) | one call, bounded channel of answers | `next`, `ack`, `nack` | redelivery, lost answers, links, a full channel |
| Commands (`commands.rs`, `projection_client.rs`, `operations/`, `http/`) | handle, request, error | every command of the three clients | features tested on one node and a client that moves to another; deadlines from three sources; late reports; two RPCs in one command |
| Connection string (`grpc.rs`) | `ClientSettings` | `from_str`, `parse_from_url`, `parse_gossip_seed` | two parsers, rewriting, boundary values |
| Projection results (`projection_client.rs`) | explicit stack and `param` | `parse_value` | nested and empty containers |
| Streams, reads and metadata (`client.rs`, `commands.rs`, `types.rs`, `event_store/generated.rs`) | none of their own; a `ReadStream` holds its call | append, delete, tombstone, `ReadStream::next`, `set_stream_metadata`, `get_stream_metadata` | versions and ids that callers build on while others write and answers get lost; notices between events; a serializer and visitors written by hand |
| Persistent subscription groups (`commands.rs`, `event_store/generated.rs`, `http/persistent_subscriptions.rs`) | none of their own | create, update, delete, get info, list | two interfaces with different documents for the same settings; conversions between widths and signs; a start that is a number, a text or an option |
| Server features (`server_features.rs`) | `ServerInfo` of a node | `supported_methods`, `contains_features` | what old, new and unusual nodes announce |
| Statistics (`kurrentdb-extras/src/stats.rs`) | drives and queues under construction | `parse_statistics` | the map has no order |
| `Client` facade, options, data types | records | | pass arguments on; modelled where they decide anything |
| TLS and transport, generated code | | | libraries (section 8) |

How they interact: every command, subscription and batch session asks the
connection task for a `Handle` through its mailbox and a oneshot
(`current_selected_node`), runs its RPC on it, and sends `CreateChannel` with
the id of that handle when `handle_error` (or `Handle::report_error`) finds the
failure worth it. The connection task uses node selection and the server
features request. Nothing is persisted, so there is no crash recovery on the
client; failures are those of the server, of the network, and futures that the
application drops.

## 2. Modules

    ChannelService   <---refines---  Connection  <-- ConnectionProofs
    EventFeed        <---refines---  Subscription <-- SubscriptionProofs
                                     NodeSelection <-- NodeSelectionProofs, MCAlgorithms
                                     BatchAppend <-- BatchAppendProofs
                                     PersistentSubscription <-- PersistentSubscriptionProofs
    ServerFeatures   <---extends---  Command <-- CommandProofs
                                     Settings, ParseValue <-- ParserProofs, MCAlgorithms
    Values <-- StreamMetadata <--    Streams      --+
    Values <-- GroupSettings,
               ServerFeatures <--    Groups       --+--> MCClient, ClientProofs
    Values                    <--    Statistics   --+

`MC*` modules give TLC the constants a `.cfg` cannot write down. The modules are
joined at the interfaces of the code: `GossipSelects`/`GossipFails` of
`Connection` stand for a whole round of `NodeSelection`; `Reconnect` of
`Command` stands for what `Connection` does when a report names the connection it
holds, and an endpoint; `NodeSelected`/`NodeUnavailable` of
`Subscription` stand for the answer to `GetChannel`, and `EveryCallAnswered` of
`Connection` justifies the fairness assumed of it; a call of `Streams` and
`Groups` that fails stands for every way in which `Command` lets it fail.

**Connection.** `mailbox`, `state` (the await the task is suspended at),
`handle_opt`, `id`, `handle`, `selected_node`, `attempts` are the variables of
the code; `settings` is the configuration (hosts, DNS discovery,
`max_discover_attempts`), chosen in the initial state; `untried` counts the candidates `node_selection` still asks. One
action per arm of the task between two awaits: `ReuseChannel`, `KeepConnection`
(`next` returns what it has), `StartDiscovery`, `FollowRedirect`, `SelectHost`,
`GossipSelects`, `GossipFails`, `GossipPanics`, `Connected`, `FeaturesFails`, `FeaturesTimeout`.
A `Uuid` is a fresh number. `Stop` is `break`: the call being served gets the
error, and dropping the receiver resolves the oneshots of those queued.
`reports` and `seen` are history variables. The cluster may answer anything.

**ChannelService.** What the task promises to its callers, without mailbox,
discovery and caches.

**NodeSelection.** The fold of `min_by` step by step, with the coin as a
nondeterministic choice and malformed members on the wire.

**Subscription / EventFeed.** `cursor` is the server's side of the open stream,
`position` the `revision_option` kept in `self.options`, `phase` the await;
`start` and `retry_enabled` are what the application asked for.
Revisions also stand for `$all` positions. `EventFeed` says what the
application sees.

**BatchAppend.** The actor (`inbox`, `reg`), the request channel (`forward`), the
reader task and a server that executes in any order and may repeat a response.
The two nested `spawn`s are one task: the outer one ends when it starts the
inner one. The actor's sender in the reader task and `BatchAppendClient` keep
its channel open, so `recv` never returns `None` while they live.

**PersistentSubscription.** The application answers the event it was shown
last; `Target` makes some events links to others. The channel has
`ChannelSize` places (500 in the code).

**Command.** `Catalogue` has one row per command (features it needs, features
the code tests, what happens when they are missing, whether failures are
reported), and the actions are the steps every command goes through. `new_request`,
`build_request_metadata`, `from_grpc`, `handle_error` and
`http_execute_request` are definitions of it. A node is what it announces:
`ServerFeatures` turns its methods and its version into the features that
commands test.

**Settings.** A connection string is a record of its parts. The URL library is
external: `InvalidPort` says which strings it refuses. Rewriting commas to
slashes is modelled by what it does to seeds, path and parameter values. `dealt`
counts the query parameters dealt with so far.

**ParseValue.** One action per kind of stack element. The reference is the constant
`Json`, of which `JsonAssumption` says what it is for a value in terms of what it
is for the values inside; `MCAlgorithms` gives TLC the recursive definition
`JsonOf`, and TLC finds that it satisfies the assumption. `Taken` is the
`Option::None` that `param.take()` leaves behind.

**Values.** Integers of a width, durations and JSON. An object that is written
field by field is a family of entries, indexed by what wrote them, so that a key
can occur twice.

**StreamMetadata.** The builders, and `Serialize` and `Deserialize` for
`StreamMetadata`, `StreamAcl` and their roles, error for error.

**Streams.** Tasks of an application `Begin` an operation of their `workload`. An
append, a delete or a tombstone takes effect in one step of the server, and its
answer may be lost (`CallFails`); a read is answered message by message (`inbox`),
its call may break at each (`Break`), and `next` is `ReadStream::next`.
`get_stream_metadata` and `set_stream_metadata` are built on both, as in
`client.rs`. The server knows an event it has written before by its id, as the
documentation of `StreamState` says. `chain`, `owed`, `given` and `meant` are
history: the version a task was told, what a read has to return, the id and
the metadata the application gave.

**GroupSettings, Groups.** The settings on their way out (`Wire`, `StartOption`),
and on their way back over gRPC (`GrpcInfo`) and over HTTP (`from_http_info`). In
`Groups` the application and other clients manage a group on a stream and one
on `$all`, of a node with some features; `ForeignUpdate` gives a group a strategy
that this client does not know, `Advance` lets it get on.

**Statistics.** One iteration of the loop of `parse_statistics` is a step, with
the next key chosen from those that are left. The `Option` of a drive is a
sequence of at most one.

## 3. Runs

| Run | Bounds | Checks |
|---|---|---|
| `connection` | 3 calls, 2 nodes, 3 attempts; a single host, two seeds, DNS | type, `HandleMirrored`, `AbandonedOnlyWhenReported`, `RetryNeverReusesRejectedConnection`, `NoCallStranded`, `EveryCallAnswered`, `RedirectHonoured`, refinement of `ChannelService` |
| `subscription` | from the start, after an event, and from the end; retry limits 2, 3 and none; log of 5, 7 disturbances | `ExactlyOnceInOrder`, `RetriesWithinLimit`, `EveryEventDelivered`, refinement of `EventFeed` |
| `batch_append` | 3 appends, 1 repeated response | `ResultIsTrue`, `FailsInDoubtOnlyIfBroken`, `NoAppendStranded`, `NothingAfterRejection`, `EveryAppendAnswered` |
| `persistent_subscription` | an event, a link to it, another event; channel of 1; 2 disturbances | `OnlyAnsweredIsHandled`, `EveryEventHandled` |
| `command` | all commands, 4 kinds of nodes from one that announces nothing to one that announces everything, 3 connections, a default deadline; 2 tasks, with 2 commands at the same time out of 3 kinds on old and new nodes | `RpcSupported`, `OkMeansDone`, `BlameIsJust`, `AbandonedForCause`, `RegularCommandsReturn` |
| `algorithms` | strings of up to 3 seeds and 3 parameters; 2 candidates, all answers of up to 3 members, one state of every kind the code tells apart, malformed members; values of 3 levels, up to 3 in one container | `SeedsInOrder`, `LastParameterWins`, `RefusedIfInvalid`; `SelectedIsFit`, `PreferenceHonoured`, `NodeFoundIfAny`; `PanicsOnlyOnNaN`, `ConvertsFaithfully` |
| `client` | 2 tasks, 3 operations, a stream and its metadata; a group on a stream and one on `$all` of 2 events, 4 kinds of nodes; 4 maps of statistics | `ChainUnbroken`, `WrittenOnce`, `ReadIsComplete`, `MetadataRoundTrip`, `DefaultsDoNotPanic`, `InfoIsTrue`, `OrderDoesNotMatter` |

`connection_unavailable`, `connection_last_attempt`, `persistent_subscription_none`,
`subscription_retries` and `settings_preference` are runs in which a statement of
the repository is violated (section 5).

`Streams`, `Groups` and `Statistics` share no state. `client` therefore checks
their sum and not their product: `part` says which of them a behaviour is about,
and the others rest. Its tasks are symmetric. `algorithms` is the sum of `Settings`,
`NodeSelection` and `ParseValue` in the same way. In `command` (`TogetherSpec` of
`MCCommand`) a task runs any command, with any options, alone; while it runs one of
`SomeCommands`, or after it, either task may issue another of them.

Why the bounds are enough: three calls are the fewest for a late report, the
replacement it must not undo, and a third party. Two nodes suffice because
endpoints are only compared for equality. Three attempts are the fewest that
tell the first, a repeated and the last one apart. `MaxDisturbances` of 7 allows
a drop, three failed reads and a cancellation before and after the first event.
Two tasks and three connections are the fewest for a failure on the first connection
that comes in while the client holds the second, and would send it to the third.
Three operations of two tasks are an append whose answer is lost, its
repetition and an append of somebody else, or metadata set twice and read
once; each workload has every kind of input that one conversion tells apart.
A group that knows of events 0 and 1 (`MaxKnown`) can have got nowhere, be at the
first event and be past it. In `Settings`, `KeepAlive` is 6 instead of 10000,
and in `client` the widths are scaled down (`I32` = 2048 and `U64` = 4096 values,
`TicksPerMilli` = 2): only comparisons with them and the values next to them matter,
and every value the inputs hold stays on the side of them on which it is in
the code. `MaxEvents`, `MaxRepeats`, `MaxMembers`, `MaxCommands`, `MaxDisturbances`,
`MaxOperations` and `MaxKnown` are the only bounds. The theorems of section 6 hold
without them.

## 4. Fairness

- `Connection`: weak fairness of the task. The runtime polls it, and each await
  is bounded by `gossip_timeout` or `discovery_interval`. Callers owe nothing.
- `Subscription`: the application keeps calling, and a server that is reachable
  answers. Failures and cancellations are bounded in number by
  `MaxDisturbances`; they may otherwise fall anywhere.
- `BatchAppend`: both tasks are polled; the server executes or rejects each
  request, which carries a deadline.
- `PersistentSubscription`: the application consumes and acknowledges, the
  transport reads the channel, the server sends and sends again.
- `Command`: the connection task answers (`EveryCallAnswered`), and the runtime
  polls what is ready. Nothing is assumed of the servers: the client enforces no
  deadline itself (`set_timeout` only writes the `grpc-timeout` header, over a hyper
  client without timeouts), so that a node which keeps none holds a call for
  ever. `RegularCommandsReturn` therefore has the cooperation of the servers as its
  premise (`ServersKeepDeadlines`) and says what the client contributes: each RPC
  of a command that is no stream carries a deadline.
- `NodeSelection`, `Settings`, `ParseValue` and `client` check safety only and assume none.

## 5. Where code and documentation disagree

Five of these are runs in which TLC finds the quoted statement violated;
`PROJECT.json` quotes it.

- `connection_unavailable`: an unavailable node is reported, but never replaced.
- `connection_last_attempt`: a node found by the last attempt is not tried; with `maxDiscoverAttempts=1` the client never connects.
- `persistent_subscription_none`: `unreachable!()` is reached when `next` is called after an error, or when the server completes the stream.
- `subscription_retries`: `retry_limit(n)`, "how many time we retry a failing command before giving up" (`options/retry.rs:18`), retries n - 1 times, for `attempts` starts at 1 (`commands.rs:879`); later calls that fail retry less often still, as only a drop resets it. `RetriesWithinLimit` is the half of the sentence that holds.
- `settings_preference`: the default of `nodePreference` is `leader`, documented as `random` (`grpc.rs:309`). `LastParameterWins` leaves this default out.

The models have the following behaviours too, without a run of their own:

- The default deadline, not to be applied to streaming operations (`CHANGELOG.md:104`), is applied to the streams of `ProjectionClient::statistics` and `operations::Client::user_details`, whose options are not marked as streaming (`projection_client.rs:237`, `operations/mod.rs:395`); without one they get ten seconds.
- The second RPC of `ProjectionClient::create` with `emit` has neither the credentials of the caller ("Performs the command with the given credentials", `eventstore-macros/src/lib.rs:95`) nor its deadline (`projection_client.rs:87`).
- `defaultDeadline=-1`, documented to disable it (`grpc.rs:642`), becomes a duration that `set_timeout` cannot put into its header: commands that are no streams panic (`Send`).
- A subscription from the end whose stream drops before its first event reads again from the new end, and skips what was written between (`commands.rs:865`; "The client will keep track of the current subscription offset", `options/subscribe_to_stream.rs:47`). `EveryEventDelivered` excepts exactly this (`Forgotten`).
- A subscription stream that the server completes is put back and polled again for ever, without an error or a resubscription (`PollEnded`, `commands.rs:779`). `EveryEventDelivered` excepts it.
- An append that waits when the server completes the batch stream is not told: the reader ends without a message to the actor (`commands.rs:365`). `EveryAppendAnswered` excepts it.
- `esdb://h1,h2:4321` contacts both seeds on port 2113 (`grpc.rs:516`), and a slash at the end of a list of seeds with ports adds a seed without a name (`grpc.rs:764`). `SeedsInOrder` excepts both.
- A member of the gossip whose instance id is no UUID makes `gossip::read` panic inside the connection task, and a node whose version does not parse is an error that ends it (`GossipPanics`, `FeaturesFails`; `operations/gossip.rs:28`, `server_features.rs:159`). Calls are told, but the client is of no use any more.
- An append whose session broke fails although it may have been written. `FailsInDoubtOnlyIfBroken` says that this is the only case.
- An append of no events to a stream that does not exist returns version 0, the version of a stream with one event (`event_store/generated.rs:86`). `ChainUnbroken` excepts it.
- `get_stream_metadata` panics (`expect("to be defined")`, `client.rs:140`) when its read ends without an event: forwards from the end, or from a position past it, or with `max_count(0)`. `DefaultsDoNotPanic` is about the options that cannot.
- A custom property with the name of a field of `StreamMetadata` is written beside that field: the metadata cannot be read any more, or comes back as the field (`types.rs:627`). `MetadataRoundTrip` excepts such metadata (`Expressible`).
- A metadata name given as bytes is used without `$$` (`types.rs:1952`): the call reads and writes the events of the stream itself.
- `get_stream_metadata` returns `Deleted` only when the server says so on the open stream; when the call itself is refused, the caller gets the error `ResourceDeleted` (`read_stream(..).await?`, `client.rs:136`).
- Over HTTP a group on a stream that has got nowhere is at the largest u64 (`http/persistent_subscriptions.rs:112`), and one group with a strategy of another client fails the whole list, where gRPC makes it `Custom` (`http/persistent_subscriptions.rs:147`). `InfoIsTrue` excepts the first and says that the second is the only reason for a refusal.
- `parse_statistics` keeps one drive. If there are several, its path is that of the first key met, and the values of the others overwrite each other. `OrderDoesNotMatter` is about nodes with one.

Also seen while modelling: `gossipTimeout` is documented not to time
out (`grpc.rs:302`) and does; `Client::subscribe_to_stream` is documented to
start at the beginning by default (`client.rs:190`) and starts at the end;
`candidates_from_old_gossip` and `Candidates` are never reached, as
`previous_candidates` is never set; the connection task holds a sender of its
own mailbox, so it never ends by itself; a failure of the initial
`batch_append` call is not passed to `handle_error`; `operations::Client` never
reports; a stream of statistics that breaks with `NotLeaderException` is reported
without the leader (`report_error`, `grpc.rs:1162`), which moves nobody; update, delete
and read of a group on `$all` are allowed by the feature that tells whether one
can be created (`server_features.rs:180`); the HTTP fallback ignores deadlines; in a rewritten connection string
commas inside parameter values become slashes (`Settings` models it).

## 6. Proofs

Checked with TLAPS, for all values of the constants:

- `ConnectionProofs` assumes the named assumptions of `Connection` (a non-empty
  host list, `max_discover_attempts` a natural number). Four parts are proved
  one on top of the other.
  `TypeInv` = types and `ControlInv` (where the task is tells which variables are
  set: while it discovers, it serves a message and has no handle) gives
  `TypeCorrect` and `CachedHandleIsCurrent`.
  `ConnInv` (ids only grow, every handle or report in the system has an id that
  was given out, two handles with one id have one endpoint) gives
  `AbandonmentIsJustified`.
  `OrderInv` relates the mailbox to the history: a rejection that a waiting call
  saw before it asked is either already acted upon or queued ahead of the
  question. It is needed because `RetryNeverReusesRejectedConnection` says
  nothing of messages; it gives `RejectedConnectionNotReused`.
  `WaitInv` says where the question of a waiting call is, and gives
  `NoCallIsStranded`.
  All four together show that every step is a step of `ChannelService` or a
  stutter: `ConnectionImplementsChannelService`.
- `SubscriptionProofs`: `ResumeInv` says that the position kept for the next read
  and the cursor of the open stream both continue what was delivered;
  `AttemptsInv` ties the attempts counted to the reads repeated. They give
  `DeliveredExactlyOnce`, `RetriesBounded` and
  `SubscriptionImplementsEventFeed`.
- `NodeSelectionProofs`: `FoldInv` says what the best member so far is after n
  members; it gives `SelectedNodeIsFit` and `PreferredNodeIsSelected` for
  answers of any length, although the comparison is no order. `HeardInv` adds
  what became of the answers already thrown away, and gives `FitNodeIsFound`.
- `BatchAppendProofs`: `ResultIsTrue` speaks of the actor and the server, and a
  response of the past decides about it, so the invariant follows an append
  through its queues. `StageInv`: it is in one of the actor's channel, the
  requests and the server at a time, hence executed once. `TruthInv`: a response
  in any queue tells what the server did. `SessionInv`: why the actor stopped.
  They give `ResultsAreTrue`, `NoAppendIsStranded`, `DoubtOnlyIfBroken` and
  the action property `RejectionEndsSession`.
- `PersistentSubscriptionProofs`: `AnswersInv` says that what is in the channel, or
  waits for room in it, was given by the application about the event of the
  group, which needs `get_original_event` to undo the resolution of links
  (`OriginalOfResolved`). It gives `HandledWereAnswered`; `TypeCorrect` includes
  that the channel is never overfull.
- `CommandProofs` assumes that commands are rows of `Catalogue` and that `None` is no
  error (`CommandsAssumption`, `NoneAssumption`). `CatalogueIsSound` goes through the rows:
  a node with the features that the code tests announces the method that the
  command calls, whatever it announces besides. `CourseInv` relates the
  command that a task executes to the one its caller issued (they differ in
  the second half of `create`), and to the node of its handle, which need not be
  the current one. They give `OnlySupportedCalls` and `OkIsDone`. `ReportsInv` goes
  from the connections that were left back to the reports, and from those to the
  calls that failed; it gives `NoFalseReport` and `LeavesOnlyForCause`.
- `ClientProofs`, about `Streams`, assumes of the workloads (`WorkloadsAssumption`)
  that operations and metadata are made with the builders, and that the events
  of one append have distinct ids, as `EventData::id` asks for. `ChainInv` says
  that a task that is alone knows the version of its stream; it gives
  `ChainIsUnbroken`. `EventsAreWrittenOnce` needs that an id given by the application
  reaches the stream unchanged (`Named`). `ReadInv` says that what a read has
  returned, followed by what is still to come, is what the server found, or a
  part of it that an error ends; it gives `ReadsAreComplete` and, as a read with
  the default options is owed an event (`FoundFacts`), `DefaultsNeverPanic`.
  `MetadataIsReadBack` has two halves. The lemmas `RolesRoundTrip`, `AclRoundTrip`,
  `FieldRoundTrip`, `Document` and `RoundTrip` are about the operators: whatever metadata
  the builders make, if the document can express it, `Deserialize` after
  `Serialize` is the identity up to fractions of milliseconds. `StreamsInv` is about
  the tasks: an event of a stream that stands for metadata carries the document
  of what was meant (`Meaningful`), the first event that a read is owed is still in
  its stream, at its revision, although others append, delete and set metadata
  meanwhile (`Recorded`), and the result of `get_stream_metadata` is what that event
  says.
- `ClientProofs`, about `Groups`, assumes that settings have the types of their
  struct, that i32 has no more values than u64 (`WidthsAssumption`, `GroupsAssumption`),
  and that `None` and `Invalid` are no values (`NoValueAssumption`). `GroupsInv` says
  that a group has the settings it was last given, as the request carries them;
  lemmas about each conversion say that reading them back, over gRPC and over
  HTTP, gives the settings that were meant. They give `InfosAreTrue`, for any
  widths.
- `ClientProofs`, about `Statistics`, assumes that a map is finite and its keys are
  split as in the code (`RawStatisticsAssumption`). `StatisticsInv` says that what was
  collected is a function of the set of keys visited, not of their order.
  It gives `StatisticsOrderIrrelevant`.
- `ParserProofs`, about `Settings`, assumes that a string has sequences of seeds and
  parameters, and that a number is one or does not parse (`StringsAssumption`,
  `ValuesAssumption`). `SettingsInv` = `HostsInv` (the hosts so far, before and after
  `from_str` rewrites the string and parses it again) and `ParamsInv` (each name
  has the value of the last parameter dealt with that sets it). It gives
  `SeedsAreInOrder`, `LastParameterIsEffective` and `InvalidIsRefused`.
- `ParserProofs`, about `ParseValue`, assumes what a value is (`InputAssumption`) and what
  its JSON is in terms of that of the values inside (`JsonAssumption`). `ParseInv`
  says of each element of the stack that it has collected the JSON of the first
  of the values inside its container, and that the element above converts the
  next one: the recursion is in the stack, so that no induction over values is
  needed. It gives `OnlyNaNPanics` and `ConversionIsFaithful` (partial correctness: if
  the machine returns, it returns `Json` of its input).

TLC finds these inductive invariants true in every state of the instances of
section 3 (`OrderInv` with its numbers of connections bounded).

The proofs changed the models. `StreamRevOrPos` and `DeserializeField` had `CASE`
arms that overlapped: TLC takes the first, the semantics of TLA+ any, and the
round trips did not follow. `Serialize` put the custom properties in an order
that the code does not promise (`SetToSeq`); its entries are now a family without
order. The reference of `parse_value` was recursive and is now a constant with its
defining equations.

With these, every invariant, action property and refinement that a run checks is
a theorem. Only model-checked: all liveness (`EveryCallAnswered`, `RedirectHonoured`,
`EveryEventDelivered`, `EveryAppendAnswered`, `EveryEventHandled`, `RegularCommandsReturn`),
which rests on fairness and `ENABLED` and is out of the prover's reach; that `JsonOf` of
`MCAlgorithms` satisfies `JsonAssumption`, for it is recursive, and that `parse_value`
terminates; and the violations of section 5.

## 7. Plan

Done: `Connection` with its abstract specification and proofs, `NodeSelection`,
`Subscription` with every start and retry policy, `BatchAppend`,
`PersistentSubscription`, `Command` with the recognition of features,
`Settings`, `ParseValue`, `Streams` with the metadata, `Groups`, `Statistics`; proofs of
all their safety properties.

Worth adding:

1. An application of `PersistentSubscription` that holds several events before
   it answers them, in any order, with `ack_ids` and `nack_ids`.
2. A composition of `Connection` with the retry loop of `Subscription`: a
   subscription whose node is not the leader gets its stream from the leader.

## 8. Not modelled

- Generated protobuf code, TLS and the HTTP client: libraries and generated code.
- Builders of options that assign one field, the macro that generates the common
  ones, `Client::new` and `server_info`: nothing in them can go wrong on its own.
- The `requires-leader` and `connection-name` headers, filters of `$all`, positions in
  the transaction log beside revisions, resolved links and custom metadata of
  events that are read, the measurements and connections in the info of a group:
  copied field by field, and no decision depends on them.
- `candidates_from_old_gossip`, `Candidates` and the comparisons of `ServerVersion`: never
  reached.
- Panics on malformed protobuf messages (`unwrap` and `expect` on absent fields), on
  messages that do not belong to a subscription (`unreachable!()`, `commands.rs:849`)
  and on keys of statistics without the dash the code looks for: the server is taken to follow
  its protocol, except where section 5 says otherwise.
- The types of the numbers in the statistics (`usize` and `i64` refuse fractions, `usize`
  negative numbers), except for `sys-freeMem`: `OrderDoesNotMatter` holds whatever texts
  are refused.
