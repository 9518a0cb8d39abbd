------------------------------- MODULE Groups -------------------------------
(***************************************************************************)
(* Persistent subscription groups as Client manages them (kurrentdb/src/     *)
(* client.rs and commands.rs): create, update, delete, get info and list, on *)
(* a stream and on $all, with other clients that manage the same groups.  A  *)
(* node without PERSISTENT_SUBSCRIPTION_MANAGEMENT answers get info and list *)
(* over HTTP.  How a call is sent and fails is in Command; here it is one step, *)
(* after which the answer may be lost.  The server is external.              *)
(***************************************************************************)
EXTENDS GroupSettings, ServerFeatures

CONSTANTS
    Announcements,   \* features that the node may have
    GroupOptions,    \* GroupOptions[source]: settings that an application gives
    MaxKnown         \* bound: last event that the server knows of

Sources == {"s", "$all"}

\* The places in a source, and where a group may start.
Places(source) == {IF source = "$all" THEN "Position" ELSE "Revision"} \X U64Values
Starts(source) == {FromStart, FromEnd} \cup Places(source)

\* PersistentSubscriptionInfo, as far as it is modelled.
Infos(source) ==
    [settings : SettingsFrom(Starts(source)) \cup {None},
     known : Places(source) \cup {None}, checkpointed : Places(source) \cup {None}]

\* Settings have the types of the struct; the numbers of events are of u64.
ASSUME GroupsAssumption ==
    /\ I32 <= U64 /\ MaxKnown \in U64Values
    /\ \A source \in Sources : GroupOptions[source] \subseteq SettingsFrom(Starts(source))

\* None and Invalid are neither texts, nor starts, nor infos.
ASSUME NoValueAssumption ==
    /\ None # Invalid /\ Invalid # <<>>
    /\ None \notin [form : {"position"}, value : Nat]
    /\ \A source \in Sources :
          None \notin SettingsFrom(Starts(source)) /\ Invalid \notin Starts(source) \cup Infos(source)
    /\ \A sources \in SUBSET Sources : Invalid \notin [sources -> Infos("s") \cup Infos("$all")]

VARIABLES
    node_features,   \* the features of the node; they never change
    groups,          \* the server: groups[source], the group on this source or None
    answer           \* the answer to get info or list, until a group changes

groupsVars == <<node_features, groups, answer>>

\* The group of the server: wire settings, how far it got, and as a history the
\* settings that the application gave it.
Group(wire, settings) ==
    [start |-> wire.start, message_timeout_ms |-> wire.message_timeout_ms,
     checkpoint_after_ms |-> wire.checkpoint_after_ms,
     strategy |-> NamedStrategies[wire.strategy + 1], counts |-> wire.counts,
     known |-> -1, checkpointed |-> -1, meant |-> settings]

NoAnswer == [over |-> None, sources |-> {}, infos |-> <<>>]

GroupsInit ==
    /\ node_features \in Announcements
    /\ groups = [s \in Sources |-> None]
    /\ answer = NoAnswer

Has(features) == contains_features([features |-> node_features], features)

\* A group has changed: what was answered is no longer looked at.
Changed == answer' = NoAnswer /\ UNCHANGED node_features

\* A command on $all is refused by a client whose node has no groups on $all.
Refusable(source) == source = "$all" /\ ~Has(TO_ALL)

-----------------------------------------------------------------------------
(* Commands that change groups, always over gRPC *)

create_persistent_subscription(source) ==
    \E settings \in GroupOptions[source] :
        /\ ~Unsupported(settings) /\ ~Refusable(source)
        /\ groups[source] = None
        /\ groups' = [groups EXCEPT ![source] = Group(CreateSettings(settings), settings)]
        /\ Changed

\* The group goes on with its new settings.
update_persistent_subscription(source) ==
    \E settings \in GroupOptions[source] :
        /\ ~Unsupported(settings) /\ ~Refusable(source)
        /\ groups[source] # None
        /\ groups' = [groups EXCEPT ![source] =
               [Group(UpdateSettings(settings), settings) EXCEPT
                    !.known = groups[source].known, !.checkpointed = groups[source].checkpointed]]
        /\ Changed

delete_persistent_subscription(source) ==
    /\ groups[source] # None /\ ~Refusable(source)
    /\ groups' = [groups EXCEPT ![source] = None]
    /\ Changed

\* A client of another kind gives a group a strategy of its own.
ForeignUpdate(source) ==
    /\ groups[source] # None
    /\ groups' = [groups EXCEPT ![source] = [@ EXCEPT !.strategy = "ByTenant", !.meant = None]]
    /\ Changed

\* The server reads on, and checkpoints.
Advance(source) ==
    /\ groups[source] # None
    /\ \/ /\ groups[source].known < MaxKnown
          /\ groups' = [groups EXCEPT ![source].known = @ + 1]
       \/ /\ groups[source].checkpointed < groups[source].known
          /\ groups' = [groups EXCEPT ![source].checkpointed = groups[source].known]
    /\ Changed

-----------------------------------------------------------------------------
(* get info and list *)

\* What the server writes for a start, and for how far a group got.
StartNumber(start) ==
    CASE start.option = "Start" -> 0 [] start.option = "End" -> -1 [] OTHER -> start.at
PlaceText(source, n) == IF source = "$all" THEN PositionText(n) ELSE RevisionText(n)

\* SubscriptionInfo.
Wire(source) ==
    LET g == groups[source]
    IN  [event_source |-> source, start_from |-> PlaceText(source, StartNumber(g.start)),
         message_timeout_ms |-> g.message_timeout_ms, checkpoint_after_ms |-> g.checkpoint_after_ms,
         strategy |-> g.strategy, counts |-> g.counts,
         last_known |-> IF g.known = -1 THEN Blank ELSE PlaceText(source, g.known),
         last_checkpointed |-> IF g.checkpointed = -1 THEN Blank ELSE PlaceText(source, g.checkpointed)]

\* PersistentSubscriptionInfoHttpJson; a list may come without config.
Http(source, detailed) ==
    LET g == groups[source]
        PlaceOnAll(n) == IF source = "$all" /\ n # -1 THEN PositionText(n) ELSE None
    IN  [event_stream_id |-> source,
         config |->
            IF ~detailed THEN None
            ELSE [startFrom |-> IF source = "$all" THEN Num(0) ELSE Num(StartNumber(g.start)),
                  startPosition |-> IF source = "$all" THEN PlaceText(source, StartNumber(g.start)) ELSE Blank,
                  message_timeout_ms |-> g.message_timeout_ms,
                  checkpoint_after_ms |-> g.checkpoint_after_ms,
                  strategy |-> g.strategy, counts |-> g.counts],
         last_known_number |-> IF source = "$all" THEN 0 ELSE g.known,
         last_processed_number |-> IF source = "$all" THEN 0 ELSE g.checkpointed,
         last_known_position |-> PlaceOnAll(g.known),
         last_checkpointed_position |-> PlaceOnAll(g.checkpointed)]

Selector(source) == IF source = "$all" THEN "AllStream" ELSE "RegularStream"

\* The info on each source, in any order; one that is Invalid fails them all.
Answer(over, infos) ==
    /\ answer' = [over |-> over, sources |-> DOMAIN infos,
                  infos |-> IF \E s \in DOMAIN infos : infos[s] = Invalid THEN Invalid ELSE infos]
    /\ UNCHANGED <<node_features, groups>>

get_persistent_subscription_info(source) ==
    /\ groups[source] # None
    /\ \/ /\ Has(PERSISTENT_SUBSCRIPTION_MANAGEMENT)
          /\ Answer("gRPC", [s \in {source} |-> GrpcInfo(Selector(s), Wire(s))])
       \/ /\ ~Has(PERSISTENT_SUBSCRIPTION_MANAGEMENT) /\ ~Refusable(source)
          /\ Answer("HTTP", [s \in {source} |-> from_http_info(Selector(s), Http(s, TRUE))])

Existing(sources) == {s \in sources : groups[s] # None}

list_persistent_subscriptions_for_stream(source) ==
    \/ /\ Has(PERSISTENT_SUBSCRIPTION_MANAGEMENT)
       /\ Answer("gRPC", [s \in Existing({source}) |-> GrpcInfo(Selector(s), Wire(s))])
    \/ /\ ~Has(PERSISTENT_SUBSCRIPTION_MANAGEMENT) /\ ~Refusable(source)
       /\ \E detailed \in BOOLEAN :
             Answer("HTTP", [s \in Existing({source}) |-> from_http_info(Selector(s), Http(s, detailed))])

list_all_persistent_subscriptions ==
    \/ /\ Has(PERSISTENT_SUBSCRIPTION_MANAGEMENT)
       /\ Answer("gRPC", [s \in Existing(Sources) |-> GrpcInfo("BothTypeOfStream", Wire(s))])
    \/ /\ ~Has(PERSISTENT_SUBSCRIPTION_MANAGEMENT)
       /\ \E detailed \in BOOLEAN :
             Answer("HTTP", [s \in Existing(Sources) |->
                                 from_http_info("BothTypeOfStream", Http(s, detailed))])

-----------------------------------------------------------------------------
GroupsNext ==
    \/ \E source \in Sources :
          \/ create_persistent_subscription(source) \/ update_persistent_subscription(source)
          \/ delete_persistent_subscription(source)
          \/ ForeignUpdate(source) \/ Advance(source)
          \/ get_persistent_subscription_info(source)
          \/ list_persistent_subscriptions_for_stream(source)
    \/ list_all_persistent_subscriptions

GroupsSpec == GroupsInit /\ [][GroupsNext]_groupsVars

-----------------------------------------------------------------------------
(* Properties *)

\* What the server can be told of settings: durations in whole milliseconds of i32,
\* and a start at event 0 for the start.
Canonical(settings) ==
    [settings EXCEPT
        !.message_timeout = from_millis(as_millis(@)),
        !.checkpoint_after = from_millis(as_millis(@)),
        !.start_from = IF @ \in {FromRevision(0), FromPosition(0)} THEN FromStart ELSE @]

Fits(settings) ==
    \A d \in {settings.message_timeout, settings.checkpoint_after} : as_millis(d) < I32 \div 2

Reached(source, n) == IF source = "$all" THEN FromPosition(n) ELSE FromRevision(n)

\* Whatever interface the node has, get info and list return the settings that the
\* group was last given and how far it got.  (Over HTTP, a group on a stream that
\* has got nowhere is said to be at the largest revision.)  An answer is refused as
\* a whole only over HTTP, and only because of a group whose strategy is none that
\* this client knows: over gRPC that group is one of them.
InfoIsTrue ==
    IF answer.infos = Invalid
    THEN answer.over = "HTTP" /\ \E s \in answer.sources : groups[s].strategy = "ByTenant"
    ELSE \A s \in answer.sources :
            LET g == groups[s]
                info == answer.infos[s]
            IN  /\ g.meant # None /\ info.settings # None /\ Fits(g.meant)
                      => info.settings = Canonical(g.meant)
                /\ answer.over = "gRPC" => info.settings # None
                /\ g.known # -1 => info.known = Reached(s, g.known)
                /\ g.checkpointed # -1 => info.checkpointed = Reached(s, g.checkpointed)
                /\ (answer.over = "gRPC" \/ s = "$all") /\ g.known = -1 => info.known = None
=============================================================================
