------------------------------ MODULE MCClient ------------------------------
(***************************************************************************)
(* One instance for the parts of the client that convert data: Streams,      *)
(* Groups and Statistics.  They share no state, so a behaviour exercises one  *)
(* of them, its part, while the others rest in their initial states.         *)
(***************************************************************************)
EXTENDS Streams, Groups, Statistics

VARIABLE part

-----------------------------------------------------------------------------
(* Streams *)

a     == <<"a">>
aMeta == <<"$$", "a">>

BothStreams == {a, aMeta}
MadeUpIds   == <<"id1", "id2", "id3">>

Json(id)    == EventData(id, <<Entry("foo", Str("bar"))>>)
Binary      == EventData(None, Invalid)

ConditionalAppends ==
    {AppendToStream(a, state, events) :
        state \in {StreamExists, NoStream, LastTold},
        events \in {<<>>, <<Json("x")>>, <<Json(None)>>, <<Json("x"), Json(None)>>}}
PlainAppends == {AppendToStream(a, AnyState, <<e>>) : e \in {Json("y"), Binary}}
Deletes      == {DeleteStream(a, StreamExists), TombstoneStream(a, AnyState)}

SomeOptions ==
    LET default == ReadStreamOptions(2)
    IN  {default, backwards(default), position(default, End), forwards(position(default, End)),
         position(default, At(1)), backwards(position(default, At(1)))}

\* Metadata as the builders make it.
OneRole(k) == add_roles(StreamAclBuilder, k, "admin")
SomeAcls ==
    {UserStream, SystemStream, Stream(StreamAclBuilder), Stream(add_roles(OneRole("$w"), "$d", "ops")),
     Stream(add_roles(OneRole("$mw"), "$mw", "ops"))}
SomeMetadata ==
    {With(StreamMetadataBuilder, "$acl", acl) : acl \in SomeAcls}
        \cup {With(With(StreamMetadataBuilder, "$maxAge", d), "$cacheControl", 2 * d) : d \in {0, 3, U64}}
        \cup {insert_custom_property(With(StreamMetadataBuilder, "$maxCount", 1), k, v) :
                  k \in {"foo", "$maxCount", "$tb", "$acl"}, v \in {Num(2), Str("x"), Null}}

\* The metadata of one stream, by its name and by the bytes of its metadata stream.
MetadataNames == {Text(a), Bytes(aMeta)}
MetadataWork(m) ==
    {SetStreamMetadata(n, AnyState, m) : n \in MetadataNames}
        \cup {SetStreamMetadata(Text(a), NoStream, With(StreamMetadataBuilder, "$tb", 1)),
              TombstoneStream(aMeta, AnyState)}
        \cup {GetStreamMetadata(Text(a), o) :
                 o \in {ReadStreamOptions(0), ReadStreamOptions(1), backwards(ReadStreamOptions(1)),
                        position(ReadStreamOptions(1), End)}}

SomeWorkloads ==
    {ConditionalAppends \cup Deletes,
     PlainAppends \cup Deletes \cup {ReadStream(a, o) : o \in SomeOptions},
     PlainAppends \cup {GetStreamMetadata(Bytes(a), o) : o \in SomeOptions}}
        \cup {MetadataWork(m) : m \in SomeMetadata}

-----------------------------------------------------------------------------
(* Groups *)

OldAndNewNodes == {{}, TO_ALL, TO_ALL \cup PERSISTENT_SUBSCRIPTION_MANAGEMENT,
                   TO_ALL \cup {"LIST", "GET_INFO"}}

StartingAt(start) == [DefaultSettings EXCEPT !.start_from = start]
SomeSettings(Place(_)) ==
    {StartingAt(start) : start \in {FromStart, FromEnd, Place(0), Place(2)}}
        \cup {[DefaultSettings EXCEPT !.message_timeout = 61,
                                      !.consumer_strategy_name = SystemConsumerStrategy("Pinned"),
                                      !.counts.checkpoint_lower_bound = 5],
              [DefaultSettings EXCEPT !.message_timeout = from_millis(I32 - 1)],
              [DefaultSettings EXCEPT !.consumer_strategy_name =
                                          SystemConsumerStrategy("PinnedByCorrelation")]}

SomeGroupOptions ==
    [source \in Sources |->
        IF source = "$all" THEN SomeSettings(FromPosition) ELSE SomeSettings(FromRevision)]

-----------------------------------------------------------------------------
(* Statistics *)

TwoQueues ==
    (<<"es-queue-", "main", "length">> :> Num(3)) @@ (<<"es-queue-", "main", "queueName">> :> Str("m"))
        @@ (<<"es-queue-", "main", "currentIdleTime">> :> Str("null"))
        @@ (<<"es-queue-", "disk-0", "currentIdleTime">> :> Str("1s"))
OneDrive ==
    (<<"sys-drive-", <<"/data", "0">>, "usage">> :> Str("10%"))
        @@ (<<"sys-drive-", <<"/data", "0">>, "totalBytes">> :> Num(9))
TwoDrives == OneDrive @@ (<<"sys-drive-", <<"/">>, "totalBytes">> :> Num(5))
Simple(v) == (<<"sys-freeMem">> :> v) @@ (<<"proc-id">> :> Num(7)) @@ (<<"sys-fans">> :> Num(2))

SomeStatistics ==
    {TwoQueues @@ OneDrive @@ Simple(Num(-1)), TwoDrives @@ Simple(Num(U64 - 1)),
     OneDrive @@ Simple(Num(U64)), TwoQueues @@ (<<"proc-mem">> :> Str("n/a"))}

-----------------------------------------------------------------------------
Init ==
    /\ part \in {"streams", "groups", "statistics"}
    /\ StreamsInit /\ GroupsInit /\ StatisticsInit
    /\ part # "streams" => workload = CHOOSE w \in Workloads : TRUE
    /\ part # "groups" => node_features = {}
    /\ part # "statistics" => raw = CHOOSE r \in RawStatistics : TRUE

Next ==
    /\ UNCHANGED part
    /\ \/ part = "streams" /\ StreamsNext /\ UNCHANGED <<groupsVars, statisticsVars>>
       \/ part = "groups" /\ GroupsNext /\ UNCHANGED <<streamsVars, statisticsVars>>
       \/ part = "statistics" /\ StatisticsNext /\ UNCHANGED <<streamsVars, groupsVars>>

Spec == Init /\ [][Next]_<<part, streamsVars, groupsVars, statisticsVars>>

Interchangeable == Permutations(Tasks)
=============================================================================
