----------------------------- MODULE Statistics -----------------------------
(***************************************************************************)
(* parse_statistics of kurrentdb-extras/src/stats.rs: the statistics of a     *)
(* node, a HashMap of texts, become a structure.  The map is iterated in any  *)
(* order.                                                                  *)
(*                                                                         *)
(* A key is split at what the code looks for: <<"proc-id">>, <<"sys-drive-",  *)
(* path, property>> with the path cut at its dashes, and <<"es-queue-", name,  *)
(* property>>.  A text is the number it says, or Str.                        *)
(***************************************************************************)
EXTENDS Values, FiniteSets

CONSTANT RawStatistics   \* maps that a node may send

\* A map is finite, and its keys are split as above.
ASSUME RawStatisticsAssumption ==
    \A r \in RawStatistics :
        /\ IsFiniteSet(DOMAIN r)
        /\ \A k \in DOMAIN r :
              IF k[1] \in {"sys-drive-", "es-queue-"} THEN k = <<k[1], k[2], k[3]>> ELSE k = <<k[1]>>

-----------------------------------------------------------------------------
(* The keys that are known, by what becomes of their value *)

ProcNumbers ==
    {"proc-startTime", "proc-id", "proc-mem", "proc-cpu", "proc-threadsCount",
     "proc-contentionsRate", "proc-thrownExceptionsRate"}
GcNumbers ==
    {"proc-gc-allocationSpeed", "proc-gc-gen0ItemsCount", "proc-gc-gen0Size",
     "proc-gc-gen1ItemsCount", "proc-gc-gen1Size", "proc-gc-gen2ItemsCount", "proc-gc-gen2Size",
     "proc-gc-largeHeapSize", "proc-gc-timeInGc", "proc-gc-totalBytesInHeaps"}
DiskNumbers ==
    {"proc-diskIo-readBytes", "proc-diskIo-writtenBytes", "proc-diskIo-readOps",
     "proc-diskIo-writeOps"}
TcpNumbers ==
    {"proc-tcp-connections", "proc-tcp-receivingSpeed", "proc-tcp-sendingSpeed", "proc-tcp-inSend",
     "proc-tcp-pendingReceived", "proc-tcp-pendingSend", "proc-tcp-receivedBytesSinceLastRun",
     "proc-tcp-receivedBytesTotal", "proc-tcp-sentBytesSinceLastRun", "proc-tcp-sentBytesTotal"}
SysNumbers == {"sys-loadavg-1m", "sys-loadavg-5m", "sys-loadavg-15m"}
EsNumbers  == {"es-checksum", "es-checksumNonFlushed"}
WriterNumbers ==
    {"es-writer-lastFlushSize", "es-writer-lastFlushDelayMs", "es-writer-meanFlushSize",
     "es-writer-meanFlushDelayMs", "es-writer-maxFlushSize", "es-writer-maxFlushDelayMs",
     "es-writer-queuedFlushMessages"}
ReadIndexNumbers ==
    {"es-readIndex-cachedRecord", "es-readIndex-notCachedRecord", "es-readIndex-cachedStreamInfo",
     "es-readIndex-notCachedStreamInfo", "es-readIndex-cachedTransInfo",
     "es-readIndex-notCachedTransInfo"}

Numbers == ProcNumbers \cup GcNumbers \cup DiskNumbers \cup TcpNumbers \cup SysNumbers
               \cup EsNumbers \cup WriterNumbers \cup ReadIndexNumbers

DriveNumbers == {"availableBytes", "totalBytes", "usedBytes"}
QueueNumbers ==
    {"avgItemsPerSecond", "avgProcessingTime", "idleTimePercent", "length", "lengthCurrentTryPeak",
     "lengthLifetimePeak", "totalItemsProcessed"}
QueueTexts  == {"queueName", "groupName", "inProgressMessage", "lastProcessedMessage"}
\* Of type Option<String>: parsing cannot fail, and "null" is passed over.
QueueTimes  == {"currentIdleTime", "currentItemProcessingTime"}

-----------------------------------------------------------------------------
(* Values *)

parse(v) == IF v[1] = "number" THEN v[2] ELSE Invalid

\* sys-freeMem: less than nothing is nothing, and what an i64 cannot hold may still
\* be a usize.
FreeMem(v) ==
    IF v[1] # "number" \/ v[2] >= U64 THEN Invalid ELSE IF v[2] < 0 THEN 0 ELSE v[2]

\* What a key makes of its value; None if it is passed over.
ValueFor(k, v) ==
    CASE k[1] \in Numbers                                     -> parse(v)
      [] k[1] = "sys-freeMem"                                 -> FreeMem(v)
      [] k[1] = "proc-tcp-measureTime"                        -> v
      [] k[1] = "sys-drive-" /\ k[Len(k)] \in DriveNumbers    -> parse(v)
      [] k[1] = "sys-drive-" /\ k[Len(k)] = "usage"           -> v
      [] k[1] = "es-queue-" /\ k[Len(k)] \in QueueNumbers     -> parse(v)
      [] k[1] = "es-queue-" /\ k[Len(k)] \in QueueTexts       -> v
      [] k[1] = "es-queue-" /\ k[Len(k)] \in QueueTimes /\ v # Str("null") -> v
      [] OTHER                                                -> None

-----------------------------------------------------------------------------
VARIABLES
    raw,     \* the map; it never changes
    todo,    \* the keys that the loop has still to visit
    stats,   \* what has been collected; the drive, an Option, is a sequence
    outcome  \* running, Ok or InternalParsingError

statisticsVars == <<raw, todo, stats, outcome>>

StatisticsInit ==
    /\ raw \in RawStatistics
    /\ todo = DOMAIN raw
    /\ stats = [fields |-> <<>>, drive |-> <<>>, queues |-> <<>>]
    /\ outcome = "running"

Insert(f, k, v) == [x \in DOMAIN f \cup {k} |-> IF x = k THEN v ELSE f[x]]
Put(f, k, v)    == IF v = None THEN f ELSE Insert(f, k, v)

\* Mutant of entry: the queue is started anew.
entry_Fresh(queues, name) == <<>>

\* queues.entry(name).or_default().
entry(queues, name) == IF name \in DOMAIN queues THEN queues[name] ELSE <<>>

\* The loop ends at the first value that does not parse.
Visit(k) ==
    /\ outcome = "running" /\ k \in todo
    /\ todo' = todo \ {k}
    /\ outcome' = IF ValueFor(k, raw[k]) = Invalid THEN "InternalParsingError" ELSE outcome
    /\ UNCHANGED raw

Field(k) ==
    /\ Visit(k)
    /\ k[1] \notin {"sys-drive-", "es-queue-"}
    /\ stats' = [stats EXCEPT !.fields = Put(@, k[1], ValueFor(k, raw[k]))]

\* One drive is kept: the path of the first that is met.  Others overwrite its
\* statistics.
Drive(k) ==
    LET drive == IF stats.drive = <<>> THEN [path |-> Head(k[2]), stats |-> <<>>] ELSE stats.drive[1]
    IN  /\ Visit(k)
        /\ k[1] = "sys-drive-"
        /\ stats' = [stats EXCEPT !.drive =
               <<[drive EXCEPT !.stats = Put(@, k[Len(k)], ValueFor(k, raw[k]))]>>]

Queue(k) ==
    /\ Visit(k)
    /\ k[1] = "es-queue-"
    /\ stats' = [stats EXCEPT !.queues =
           Insert(@, k[2], Put(entry(@, k[2]), k[Len(k)], ValueFor(k, raw[k])))]

Finish ==
    /\ outcome = "running" /\ todo = {}
    /\ outcome' = "Ok"
    /\ UNCHANGED <<raw, todo, stats>>

StatisticsRest == outcome # "running" /\ UNCHANGED statisticsVars

StatisticsNext ==
    \/ \E k \in todo : Field(k) \/ Drive(k) \/ Queue(k)
    \/ Finish \/ StatisticsRest

StatisticsSpec == StatisticsInit /\ [][StatisticsNext]_statisticsVars

-----------------------------------------------------------------------------
(* Properties *)

\* The keys below a name, and what they say.
Under(keys) ==
    LET said == {k \in keys : ValueFor(k, raw[k]) # None}
    IN  [p \in {k[Len(k)] : k \in said} |->
            LET k == CHOOSE k \in said : k[Len(k)] = p IN ValueFor(k, raw[k])]

KeysOf(keys, prefix) == {k \in keys : k[1] = prefix}
FieldKeys(keys)      == keys \ (KeysOf(keys, "sys-drive-") \cup KeysOf(keys, "es-queue-"))
QueueKeys(keys, q)   == {k \in KeysOf(keys, "es-queue-") : k[2] = q}
Queues(keys)         == {k[2] : k \in KeysOf(keys, "es-queue-")}
DrivePaths(keys)     == {k[2] : k \in KeysOf(keys, "sys-drive-")}

\* What these keys of the map say, whatever their order.
Meaning(keys) ==
    [fields |-> Under(FieldKeys(keys)),
     drive |-> IF DrivePaths(keys) = {} THEN <<>>
               ELSE <<[path |-> Head(CHOOSE p \in DrivePaths(keys) : TRUE),
                       stats |-> Under(KeysOf(keys, "sys-drive-"))]>>,
     queues |-> [q \in Queues(keys) |-> Under(QueueKeys(keys, q))]]

\* The order in which the map is iterated does not matter to the result, on a node
\* with one drive; a map is refused if and only if one of its values does not parse.
OrderDoesNotMatter ==
    /\ outcome = "Ok" =>
          /\ \A k \in DOMAIN raw : ValueFor(k, raw[k]) # Invalid
          /\ Cardinality(DrivePaths(DOMAIN raw)) <= 1 => stats = Meaning(DOMAIN raw)
    /\ outcome = "InternalParsingError" => \E k \in DOMAIN raw : ValueFor(k, raw[k]) = Invalid
=============================================================================
