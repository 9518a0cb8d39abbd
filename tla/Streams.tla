------------------------------ MODULE Streams -------------------------------
(***************************************************************************)
(* What an application does with streams through Client (kurrentdb/src/      *)
(* client.rs): append_to_stream, read_stream, delete_stream,                 *)
(* tombstone_stream, set_stream_metadata and get_stream_metadata, how the    *)
(* answers of the server are turned into results, and what the application   *)
(* can conclude from these while others use the same streams.               *)
(*                                                                         *)
(* How a call finds its node and reports its failure is in Command; here a   *)
(* call that fails may have been carried out or not.  The server is external. *)
(***************************************************************************)
EXTENDS StreamMetadata, FiniteSets

CONSTANTS
    Tasks,          \* tasks of the application
    StreamIds,      \* names of streams, as sequences: the metadata of s is <<"$$">> \o s
    Workloads,      \* sets of operations; an application uses one of them
    NewIds,         \* ids that Uuid::new_v4 returns, in this order: a sequence
    MaxOperations   \* bound: operations that are begun

-----------------------------------------------------------------------------
(* Inputs *)

AnyState          == [state |-> "Any", revision |-> 0]
StreamExists      == [state |-> "StreamExists", revision |-> 0]
NoStream          == [state |-> "NoStream", revision |-> 0]
StreamRevision(v) == [state |-> "StreamRevision", revision |-> v]

\* The revision that the caller was told by its last append.
LastTold == [state |-> "LastTold", revision |-> 0]

\* EventData: an id or None and a payload; as a history, the id that the application
\* gave it and the metadata it stands for.
EventData(id, payload) == [id |-> id, payload |-> payload, given |-> id, meant |-> None]
MetadataEvent(metadata) ==
    [id |-> None, payload |-> Serialize(metadata), given |-> None, meant |-> metadata]

\* A name is given as text, or as bytes that are taken as they are.
Text(s)  == [type |-> "text", name |-> s]
Bytes(s) == [type |-> "bytes", name |-> s]

into_metadata_stream_name(n) == IF n.type = "text" THEN <<"$$">> \o n.name ELSE n.name

\* ReadStreamOptions and its builder: the ends of a stream imply a direction.
Start == [at |-> "Start", revision |-> 0]
End   == [at |-> "End", revision |-> 0]
At(v) == [at |-> "Position", revision |-> v]

ReadStreamOptions(max) == [direction |-> "Forward", position |-> Start, max_count |-> max]
forwards(o)  == [o EXCEPT !.direction = "Forward"]
backwards(o) == [o EXCEPT !.direction = "Backward"]

\* Mutant of position: the direction is left alone.
position_Plain(o, p) == [o EXCEPT !.position = p]

position(o, p) ==
    [o EXCEPT !.position = p,
              !.direction = CASE p = Start -> "Forward" [] p = End -> "Backward" [] OTHER -> @]

\* The operations that an application may begin.
AppendToStream(s, state, events) ==
    [kind |-> "append", stream |-> s, state |-> state, events |-> events]
ReadStream(s, options) == [kind |-> "read", stream |-> s, options |-> options]
DeleteStream(s, state) == [kind |-> "delete", stream |-> s, state |-> state]
TombstoneStream(s, state) == [kind |-> "tombstone", stream |-> s, state |-> state]
SetStreamMetadata(n, state, m) ==
    AppendToStream(into_metadata_stream_name(n), state, <<MetadataEvent(m)>>)
GetStreamMetadata(n, options) ==
    [kind |-> "get", stream |-> into_metadata_stream_name(n), options |-> options]

\* The operations are made with the operators above.  The events of one append have
\* ids of their own, those that the application gives them ("Unique identifier
\* representing this event").
ASSUME WorkloadsAssumption ==
    \A w \in Workloads : \A o \in w :
        /\ o.stream \in StreamIds
        /\ o.kind = "append" =>
              /\ o.events \in Seq(ToSet(o.events))
              /\ \A e \in ToSet(o.events) :
                    \/ e = EventData(e.id, e.payload)
                    \/ e = MetadataEvent(e.meant) /\ e.meant # None /\ IsMetadata(e.meant)
              /\ \A i, j \in DOMAIN o.events :
                    i # j /\ o.events[i].given # None => o.events[i].given # o.events[j].given
        /\ o.kind \in {"read", "get"} =>
              /\ o.options.max_count \in Nat /\ o.options.position.revision \in Nat

\* What is invalid is no number, and nothing of the metadata that is set.
ASSUME InvalidAssumption ==
    /\ Invalid \notin Nat
    /\ \A w \in Workloads : \A o \in w : o.kind = "append" =>
          \A e \in ToSet(o.events) : e.meant # None =>
              LET acl == e.meant.fields["$acl"]
              IN  /\ Serialize(e.meant) # Invalid /\ WholeMillis(e.meant) # Invalid
                  /\ acl # Invalid
                  /\ acl # None /\ acl[1] = "Stream" => \A k \in RoleKeys : acl[2][k] # Invalid

-----------------------------------------------------------------------------
VARIABLES
    workload,  \* the operations of this application: it never changes
    streams,   \* the server: streams[s], see NewStream
    ids,       \* number of ids that have been made up
    begun,     \* number of operations begun
    phase,     \* phase[t]: idle, sent, open (a read) or done
    op,        \* op[t]: the operation that t executes
    inbox,     \* inbox[t]: the messages of the open read of t that are still to come
    result,    \* result[t]: what the operation has returned
    got,       \* got[t]: the events that the read of t has returned
    owed,      \* history: the events that the server found for the read of t
    chain      \* history: chain[t], what t knows of the stream it last appended to

serverVars  == <<workload, streams, ids, begun>>
readVars    == <<inbox, got, owed>>
streamsVars == <<serverVars, phase, op, readVars, result, chain>>

\* A stream: its events, how many of them are gone, and whether it is for ever.
NewStream == [events |-> <<>>, first |-> 0, tombstoned |-> FALSE]

\* alone: the version is right, and nobody else has written since.
NoChain   == [stream |-> None, version |-> 0, alone |-> FALSE]
NoResult  == [kind |-> "none"]

StreamsInit ==
    /\ workload \in Workloads
    /\ streams = [s \in StreamIds |-> NewStream]
    /\ ids = 0
    /\ begun = 0
    /\ phase = [t \in Tasks |-> "idle"]
    /\ op = [t \in Tasks |-> None]
    /\ inbox = [t \in Tasks |-> <<>>]
    /\ result = [t \in Tasks |-> NoResult]
    /\ got = [t \in Tasks |-> <<>>]
    /\ owed = [t \in Tasks |-> <<>>]
    /\ chain = [t \in Tasks |-> NoChain]

\* An append may be made conditional on the version that the last one returned.
Begin(t) ==
    /\ phase[t] \in {"idle", "done"}
    /\ begun < MaxOperations
    /\ \E o \in workload :
          /\ o.kind = "append" /\ o.state = LastTold => chain[t].stream = o.stream
          /\ op' = [op EXCEPT ![t] = o]
    /\ begun' = begun + 1
    /\ phase' = [phase EXCEPT ![t] = "sent"]
    /\ result' = [result EXCEPT ![t] = NoResult]
    /\ got' = [got EXCEPT ![t] = <<>>]
    /\ owed' = [owed EXCEPT ![t] = <<>>]
    /\ inbox' = [inbox EXCEPT ![t] = <<>>]
    /\ UNCHANGED <<workload, streams, ids, chain>>

Return(t, r) ==
    /\ phase' = [phase EXCEPT ![t] = "done"]
    /\ result' = [result EXCEPT ![t] = r]

Err(e) == [kind |-> "Err", error |-> e]

\* A call that fails before the server has done anything.
CallFails(t) ==
    /\ phase[t] = "sent"
    /\ Return(t, Err("ServerError"))
    /\ UNCHANGED <<serverVars, op, readVars, chain>>

StreamIsDeleted(t) ==
    /\ phase[t] = "sent"
    /\ streams[op[t].stream].tombstoned
    /\ Return(t, Err("ResourceDeleted"))
    /\ UNCHANGED <<serverVars, op, readVars, chain>>

-----------------------------------------------------------------------------
(* append_to_stream *)

Unnamed(events, n) == Cardinality({i \in 1..n : events[i].id = None})

\* Mutant of ProposedMessages: each call makes up an id, whether there is one or not.
ProposedMessages_NewIds(events) ==
    [i \in DOMAIN events |-> [events[i] EXCEPT !.id = NewIds[begun]]]

\* AppendReq::from: an event that has no id is given one, at each conversion.
ProposedMessages(events) ==
    [i \in DOMAIN events |->
        [events[i] EXCEPT !.id = IF @ = None THEN NewIds[ids + Unnamed(events, i)] ELSE @]]

\* The state that t asks for in its append.
ExpectedStreamRevision(t) ==
    IF op[t].state = LastTold THEN StreamRevision(chain[t].version) ELSE op[t].state

Meets(s, state) ==
    CASE state.state = "Any"          -> TRUE
      [] state.state = "StreamExists" -> Len(s.events) > s.first
      [] state.state = "NoStream"     -> Len(s.events) = s.first
      [] OTHER                        -> Len(s.events) = state.revision + 1

\* Of a stream of metadata, the last event is kept.
Extend(name, s, events) ==
    LET all == s.events \o events
    IN  [s EXCEPT !.events = all,
                  !.first = IF Head(name) = "$$" /\ Len(all) > 0 THEN Len(all) - 1 ELSE @]

\* Where events of these ids already are.
Known(s, events) == {i \in DOMAIN s.events : \E e \in ToSet(events) : e.id = s.events[i].id}

\* Mutant of WriteResult: the version that comes next.
WriteResult_Next(current) == [kind |-> "Written", version |-> IF current = None THEN 0 ELSE current + 1]

\* WriteResult::from: without a revision (nothing was appended to a stream that does
\* not exist) the version is 0.
WriteResult(current) == [kind |-> "Written", version |-> IF current = None THEN 0 ELSE current]

\* The answer that the append of t has left the stream at current arrives, or is lost.
Answered(t, s, current, events, repeat) ==
    LET others == [u \in Tasks |->
                      IF chain[u].stream = s /\ events # <<>> /\ ~repeat
                      THEN [chain[u] EXCEPT !.alone = FALSE] ELSE chain[u]]
    IN  \/ /\ Return(t, WriteResult(current))
           /\ chain' = [others EXCEPT ![t] =
                  [stream |-> s, version |-> WriteResult(current).version,
                   alone |-> current # None /\ ~repeat]]
        \/ /\ Return(t, Err("ServerError"))
           /\ chain' = others

\* The server takes the events, or finds that it has them.  With Any it need not notice.
append_to_stream(t) ==
    LET o == op[t]
        s == streams[o.stream]
        events == ProposedMessages(o.events)
        known == Known(s, events)
    IN  /\ phase[t] = "sent" /\ o.kind = "append" /\ ~s.tombstoned
        /\ ids' = ids + Unnamed(o.events, Len(o.events))
        /\ \/ /\ known # {}
              /\ Answered(t, o.stream, Max(known) - 1, events, TRUE)
              /\ UNCHANGED streams
           \/ /\ known = {} \/ o.state = AnyState
              /\ Meets(s, ExpectedStreamRevision(t))
              /\ LET new == Extend(o.stream, s, events)
                     current == IF new.events = <<>> THEN None ELSE Len(new.events) - 1
                 IN  /\ streams' = [streams EXCEPT ![o.stream] = new]
                     /\ Answered(t, o.stream, current, events, FALSE)
           \/ /\ known = {} /\ ~Meets(s, ExpectedStreamRevision(t))
              /\ Return(t, Err("WrongExpectedVersion"))
              /\ UNCHANGED <<streams, chain>>
        /\ UNCHANGED <<workload, begun, op, readVars>>

-----------------------------------------------------------------------------
(* delete_stream and tombstone_stream *)

delete_stream(t) ==
    LET o == op[t]
        s == streams[o.stream]
    IN  /\ phase[t] = "sent" /\ o.kind \in {"delete", "tombstone"} /\ ~s.tombstoned
        /\ \/ /\ Meets(s, o.state)
              /\ streams' = [streams EXCEPT ![o.stream] =
                     IF o.kind = "delete" THEN [@ EXCEPT !.first = Len(s.events)]
                     ELSE [@ EXCEPT !.tombstoned = TRUE]]
              /\ Return(t, [kind |-> "Deleted"]) \/ Return(t, Err("ServerError"))
           \/ /\ ~Meets(s, o.state)
              /\ Return(t, Err("Grpc"))
              /\ UNCHANGED streams
        /\ UNCHANGED <<workload, ids, begun, op, readVars, chain>>

-----------------------------------------------------------------------------
(* read_stream and ReadStream *)

\* The events that the server finds: those that are left, from the position on, in
\* the direction, at most max_count.
Found(s, o) ==
    LET start == CASE o.position.at = "Start" -> 0
                   [] o.position.at = "End"   -> Len(s.events)
                   [] OTHER                   -> o.position.revision
        forward == o.direction = "Forward"
        last == Len(s.events) - 1
        from == IF forward THEN Max({start, s.first}) ELSE Min({start, last})
        left == IF forward THEN last - from + 1 ELSE from - s.first + 1
        revision(i) == IF forward THEN from + i - 1 ELSE from - i + 1
    IN  [i \in 1 .. Min({left, o.max_count}) |->
            [revision |-> revision(i), event |-> s.events[revision(i) + 1]]]

Event(e) == [content |-> "Event", event |-> e]
FirstStreamPosition == [content |-> "FirstStreamPosition"]
LastStreamPosition  == [content |-> "LastStreamPosition"]
StreamNotFound      == [content |-> "StreamNotFound"]
Status(error)       == [content |-> "Status", error |-> error]
EndOfStream         == [content |-> "end"]

\* The call is open.  What is wrong with the stream comes as a message.
read_stream(t) ==
    LET s == streams[op[t].stream]
        found == Found(s, op[t].options)
    IN  /\ phase[t] = "sent" /\ op[t].kind \in {"read", "get"}
        /\ phase' = [phase EXCEPT ![t] = "open"]
        /\ inbox' = [inbox EXCEPT ![t] =
               IF s.tombstoned THEN <<Status("ResourceDeleted")>>
               ELSE IF Len(s.events) = s.first THEN <<StreamNotFound, EndOfStream>>
               ELSE <<FirstStreamPosition, LastStreamPosition>>
                        \o [i \in DOMAIN found |-> Event(found[i])] \o <<EndOfStream>>]
        /\ owed' = [owed EXCEPT ![t] = IF s.tombstoned THEN <<>> ELSE found]
        /\ UNCHANGED <<serverVars, op, got, result, chain>>

\* The call breaks, and what was on the way is lost.
Break(t) ==
    /\ phase[t] = "open"
    /\ \E n \in 0 .. Len(inbox[t]) - 1 :
          inbox' = [inbox EXCEPT ![t] = SubSeq(@, 1, n) \o <<Status("ServerError")>>]
    /\ inbox[t][Len(inbox[t])] = EndOfStream
    /\ UNCHANGED <<serverVars, phase, op, got, owed, result, chain>>

\* ReadStream::next, by way of next_read_event, passes over what is no event.
Notices == {FirstStreamPosition, LastStreamPosition}

\* Mutant of Upcoming: a notice is taken for the end.
Upcoming_NoticeEnds(t) == IF Head(inbox[t]) \in Notices THEN Len(inbox[t]) ELSE 1

Upcoming(t) == CHOOSE i \in DOMAIN inbox[t] :
                  inbox[t][i] \notin Notices /\ \A j \in 1 .. i - 1 : inbox[t][j] \in Notices

next(t) ==
    LET i == Upcoming(t)
        m == inbox[t][i]
    IN  /\ phase[t] = "open" /\ op[t].kind = "read"
        /\ \/ /\ m.content = "Event"
              /\ got' = [got EXCEPT ![t] = Append(@, m.event)]
              /\ UNCHANGED <<phase, result>>
           \/ /\ m.content = "StreamNotFound"
              /\ Return(t, Err("ResourceNotFound"))
              /\ UNCHANGED got
           \/ /\ m.content = "Status"
              /\ Return(t, Err(m.error))
              /\ UNCHANGED got
           \/ /\ m.content = "end"
              /\ Return(t, [kind |-> "End"])
              /\ UNCHANGED got
        /\ inbox' = [inbox EXCEPT ![t] = SubSeq(@, i + 1, Len(@))]
        /\ UNCHANGED <<serverVars, op, owed, chain>>

-----------------------------------------------------------------------------
(* get_stream_metadata: the first event of a read *)

\* RecordedEvent::as_json.
as_json(payload) == IF payload = Invalid THEN Invalid ELSE Deserialize(payload)

get_stream_metadata(t) ==
    LET m == inbox[t][Upcoming(t)]
    IN  /\ phase[t] = "open" /\ op[t].kind = "get"
        /\ \/ /\ m.content = "Event"
              /\ LET metadata == as_json(m.event.event.payload)
                 IN  Return(t, IF metadata = Invalid THEN Err("InternalParsingError")
                               ELSE [kind |-> "Success", version |-> m.event.revision,
                                     metadata |-> metadata])
           \/ m.content = "StreamNotFound" /\ Return(t, [kind |-> "NotFound"])
           \/ /\ m.content = "Status"
              /\ Return(t, IF m.error = "ResourceDeleted" THEN [kind |-> "Deleted"]
                           ELSE Err(m.error))
           \/ m.content = "end" /\ Return(t, [kind |-> "panic"])
        /\ inbox' = [inbox EXCEPT ![t] = <<>>]
        /\ UNCHANGED <<serverVars, op, got, owed, chain>>

-----------------------------------------------------------------------------
StreamsStep(t) ==
    \/ Begin(t) \/ CallFails(t) \/ StreamIsDeleted(t)
    \/ append_to_stream(t) \/ delete_stream(t)
    \/ read_stream(t) \/ Break(t) \/ next(t) \/ get_stream_metadata(t)

\* The application is done.
StreamsRest ==
    /\ begun = MaxOperations
    /\ \A t \in Tasks : phase[t] \in {"idle", "done"}
    /\ UNCHANGED streamsVars

StreamsNext == (\E t \in Tasks : StreamsStep(t)) \/ StreamsRest

StreamsSpec == StreamsInit /\ [][StreamsNext]_streamsVars

-----------------------------------------------------------------------------
(* Properties *)

\* An application that makes each append conditional on the version the one before
\* returned is refused only if somebody else has written, or an append of its own
\* was lost, in between.  (An append of nothing to a stream that does not exist
\* returns version 0, which is no such version.)
ChainUnbroken ==
    \A t \in Tasks :
        /\ op[t] # None /\ op[t].kind = "append" /\ op[t].state = LastTold
        /\ phase[t] = "done" /\ result[t] = Err("WrongExpectedVersion")
        => ~chain[t].alone

\* An event to which the application gave an id, appended to a stream in an expected
\* state, is in the stream once, however often it was appended because an answer got
\* lost: "The KurrentDB server will assure idempotency for all operations using any
\* value in StreamState except StreamState::Any".
WrittenOnce ==
    \A s \in StreamIds : \A i, j \in DOMAIN streams[s].events :
        LET id == streams[s].events[i].given
        IN  i # j /\ id # None /\ id = streams[s].events[j].given
                => \E o \in workload : /\ o.kind = "append" /\ o.state = AnyState
                                       /\ \E e \in ToSet(o.events) : e.given = id

\* A read returns the events that the server found, in their order; if it ends and no
\* error was returned, all of them (ReadStream::next).
ReadIsComplete ==
    \A t \in Tasks :
        /\ IsPrefix(got[t], owed[t])
        /\ result[t].kind = "End" => got[t] = owed[t]

\* Metadata that is read back is what was set with the event of that version, up to
\* fractions of milliseconds, whatever mixture of fields, roles and custom
\* properties it is and whoever else sets it; and what was set can be read.
MetadataRoundTrip ==
    \A t \in Tasks : op[t] # None /\ op[t].kind = "get" =>
        /\ result[t].kind = "Success" =>
              LET m == streams[op[t].stream].events[result[t].version + 1].meant
              IN  m # None /\ Expressible(m) => result[t].metadata = WholeMillis(m)
        /\ result[t] = Err("InternalParsingError") =>
              LET m == Head(owed[t]).event.meant IN m = None \/ ~Expressible(m)

\* With its default options, and from the end, get_stream_metadata finds an event
\* or returns an error: it does not panic ("to be defined"), unless it is told to
\* read no event.
DefaultsDoNotPanic ==
    \A t \in Tasks :
        result[t].kind = "panic" /\ op[t].options.max_count > 0 =>
            op[t].options \notin {ReadStreamOptions(op[t].options.max_count),
                                  position(ReadStreamOptions(op[t].options.max_count), End)}
=============================================================================
