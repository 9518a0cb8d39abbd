---------------------------- MODULE GroupSettings ----------------------------
(***************************************************************************)
(* The settings of a persistent subscription group on their way to the       *)
(* server, and what comes back of them and of the group's statistics over    *)
(* gRPC and over HTTP (kurrentdb/src/types.rs, event_store/generated.rs and  *)
(* http/persistent_subscriptions.rs).                                      *)
(*                                                                         *)
(* The settings that are plain numbers or flags are kept together in counts. *)
(* A Position (commit and prepare) is one number.  The text of a position is *)
(* what it says: a revision, a position, or nothing.                        *)
(***************************************************************************)
EXTENDS Values

\* StreamPosition<RevisionOrPosition>.
FromStart       == <<"Start">>
FromEnd         == <<"End">>
FromRevision(n) == <<"Revision", n>>
FromPosition(n) == <<"Position", n>>

RevisionText(n) == [form |-> "revision", value |-> n]
PositionText(n) == [form |-> "position", value |-> n]
Blank           == [form |-> "blank", value |-> 0]

\* SystemConsumerStrategy::from_string.
NamedStrategies == <<"DispatchToSingle", "RoundRobin", "Pinned">>
SystemConsumerStrategy(name) ==
    IF name \in ToSet(NamedStrategies) \cup {"PinnedByCorrelation"} THEN <<name>>
    ELSE <<"Custom", name>>

\* The defaults, with 30 ms for 30 s; the rest is what PersistentSubscriptionOptions
\* can change.
DefaultSettings ==
    [start_from |-> FromEnd, message_timeout |-> from_millis(30), checkpoint_after |-> from_millis(2),
     consumer_strategy_name |-> SystemConsumerStrategy("RoundRobin"),
     counts |-> [resolve_link_tos |-> FALSE, extra_statistics |-> FALSE, max_retry_count |-> 10,
                 live_buffer_size |-> 500, read_batch_size |-> 20, history_buffer_size |-> 500,
                 checkpoint_lower_bound |-> 10, checkpoint_upper_bound |-> 1000,
                 max_subscriber_count |-> 0]]

I32Values == -(I32 \div 2) .. (I32 \div 2) - 1
U64Values == 0 .. U64 - 1

\* ByTenant stands for the strategies that only others know.
Strategies ==
    {SystemConsumerStrategy(name) :
        name \in ToSet(NamedStrategies) \cup {"PinnedByCorrelation", "ByTenant"}}

\* PersistentSubscriptionSettings, with the starts that there are.
SettingsFrom(starts) ==
    [start_from : starts, message_timeout : Nat, checkpoint_after : Nat,
     consumer_strategy_name : Strategies,
     counts : [resolve_link_tos : BOOLEAN, extra_statistics : BOOLEAN, max_retry_count : I32Values,
               live_buffer_size : I32Values, read_batch_size : I32Values,
               history_buffer_size : I32Values, checkpoint_lower_bound : I32Values,
               checkpoint_upper_bound : I32Values, max_subscriber_count : I32Values]]

-----------------------------------------------------------------------------
(* To the server *)

\* named_consumer_strategy_as_i32.
Unsupported(settings) == settings.consumer_strategy_name[1] \notin ToSet(NamedStrategies)
StrategyNumber(settings) ==
    CHOOSE i \in 0..2 : NamedStrategies[i + 1] = settings.consumer_strategy_name[1]

\* to_create_options and to_update_options: one of the options of the request.
StartOption(start) ==
    CASE start = FromStart -> [option |-> "Start", at |-> 0]
      [] start = FromEnd   -> [option |-> "End", at |-> 0]
      [] OTHER             -> [option |-> "Position", at |-> start[2]]

\* create_req::Settings, and the start.
CreateSettings(settings) ==
    [start |-> StartOption(settings.start_from),
     message_timeout_ms |-> AsI32(as_millis(settings.message_timeout)),
     checkpoint_after_ms |-> AsI32(as_millis(settings.checkpoint_after)),
     strategy |-> StrategyNumber(settings), counts |-> settings.counts]

\* update_req::Settings, and the start, are made the same way.
UpdateSettings(settings) == CreateSettings(settings)

-----------------------------------------------------------------------------
(* Positions in what comes back *)

parse_revision_or_position(text) ==
    CASE text.form = "revision" /\ text.value >= 0 -> FromRevision(text.value)
      [] text.form = "position" /\ text.value >= 0 -> FromPosition(text.value)
      [] OTHER                                     -> Invalid

parse_position(text) ==
    IF text.form = "position" /\ text.value >= 0 THEN FromPosition(text.value) ELSE Invalid

\* Mutant of parse_stream_position: the ends of $all are not recognised.
parse_stream_position_Stream(text) ==
    CASE text = RevisionText(-1) -> FromEnd
      [] text = RevisionText(0)  -> FromStart
      [] OTHER                   -> parse_revision_or_position(text)

parse_stream_position(text) ==
    CASE text.form # "blank" /\ text.value = -1 -> FromEnd
      [] text.form # "blank" /\ text.value = 0  -> FromStart
      [] OTHER                                  -> parse_revision_or_position(text)

\* StreamRevOrPosVisitor: startFrom is a number, or a text.
StreamRevOrPos(v) ==
    CASE v = Num(-1)                              -> FromEnd
      [] v = Num(0)                               -> FromStart
      [] v[1] = "number" /\ v[2] \notin {-1, 0}   -> FromRevision(AsU64(v[2]))
      [] v[1] # "number"                          -> parse_stream_position(v[2])

\* AllStream, RegularStream and BothTypeOfStream: what a selector does not expect is
\* unreachable!().
Unreachable == <<"unreachable">>
select(selector, start) ==
    CASE selector = "AllStream" /\ start[1] = "Revision"     -> Unreachable
      [] selector = "RegularStream" /\ start[1] = "Position" -> Unreachable
      [] OTHER                                               -> start

-----------------------------------------------------------------------------
(* From the server *)

\* PersistentSubscriptionInfo::try_from: what is known and checkpointed is None if it
\* does not parse.
GrpcInfo(selector, w) ==
    LET start == parse_stream_position(w.start_from)
        Known(text) == IF parse_revision_or_position(text) = Invalid THEN None
                       ELSE parse_revision_or_position(text)
    IN  IF start = Invalid THEN Invalid
        ELSE [settings |->
                 [start_from |-> select(selector, start),
                  message_timeout |-> from_millis(AsU64(w.message_timeout_ms)),
                  checkpoint_after |-> from_millis(AsU64(w.checkpoint_after_ms)),
                  consumer_strategy_name |-> SystemConsumerStrategy(w.strategy),
                  counts |-> w.counts],
              known |-> Known(w.last_known), checkpointed |-> Known(w.last_checkpointed)]

\* The JSON of a config: a strategy that is none of the variants without data does
\* not parse.
ConfigParses(c) ==
    SystemConsumerStrategy(c.strategy)[1] # "Custom" /\ StreamRevOrPos(c.startFrom) # Invalid

\* On $all the start is in startPosition, and positions that do not parse fail the
\* whole answer; on a stream a revision of -1 becomes the largest u64.
from_http_info(selector, w) ==
    LET c == w.config
        all == w.event_stream_id = "$all"
        start == IF all THEN parse_stream_position(c.startPosition) ELSE StreamRevOrPos(c.startFrom)
        Known(text, number) ==
            IF ~all THEN FromRevision(AsU64(number))
            ELSE IF text = None THEN None ELSE parse_position(text)
        known == Known(w.last_known_position, w.last_known_number)
        checkpointed == Known(w.last_checkpointed_position, w.last_processed_number)
    IN  IF \/ c # None /\ (~ConfigParses(c) \/ start = Invalid)
           \/ known = Invalid \/ checkpointed = Invalid
        THEN Invalid
        ELSE [settings |->
                 IF c = None THEN None
                 ELSE [start_from |-> select(selector, start),
                       message_timeout |-> from_millis(AsU64(c.message_timeout_ms)),
                       checkpoint_after |-> from_millis(AsU64(c.checkpoint_after_ms)),
                       consumer_strategy_name |-> SystemConsumerStrategy(c.strategy),
                       counts |-> [n \in DOMAIN c.counts |->
                                      IF n \in {"resolve_link_tos", "extra_statistics"} THEN c.counts[n]
                                      ELSE AsI32(c.counts[n])]],
              known |-> known, checkpointed |-> checkpointed]
=============================================================================
