---------------------------- MODULE ClientProofs ----------------------------
(***************************************************************************)
(* Proofs about the parts of the client that convert data: Streams, Groups *)
(* and Statistics.                                                         *)
(*                                                                         *)
(* Streams, for any tasks, streams and workloads, and any number of        *)
(* operations.  ChainUnbroken needs ChainInv: what a task was told of a    *)
(* stream is true until somebody else writes.  WrittenOnce needs to know   *)
(* that an event that was given an id keeps it on its way into the stream. *)
(* ReadIsComplete and DefaultsDoNotPanic need ReadInv: what has been       *)
(* returned and what is still to come are together what the server found,  *)
(* or a part of it that an error ends.  MetadataRoundTrip needs            *)
(* StreamsInv: an event of a stream says what was meant with it, the event *)
(* that a read found first is still where it was, and the result of        *)
(* get_stream_metadata is what this event says.                            *)
(*                                                                         *)
(* Statistics, for any map of statistics and any order in which it is      *)
(* visited: StatisticsInv says that what was collected is what the keys    *)
(* visited so far say.                                                     *)
(*                                                                         *)
(* Groups, for any features, options and widths: GroupsInv says that a     *)
(* group of the server has the settings it was made with, as the request   *)
(* carries them, and reading them back gives the settings that were meant. *)
(***************************************************************************)
EXTENDS Streams, Groups, Statistics, FiniteSetTheorems, TLAPS

\* q is a sequence, whatever its elements are.
IsSequence(q) == q \in Seq(ToSet(q))

\* A stream as the server keeps it; the events that are left are its last ones.
StreamShape(s) ==
    /\ s = [events |-> s.events, first |-> s.first, tombstoned |-> s.tombstoned]
    /\ IsSequence(s.events)
    /\ s.first \in 0 .. Len(s.events)

\* An event that was given an id goes by it.
Named(e) == e.given # None => e.id = e.given

ServerInv ==
    /\ workload \in Workloads
    /\ streams = [s \in StreamIds |-> streams[s]]
    /\ \A s \in StreamIds : StreamShape(streams[s])
    /\ \A s \in StreamIds : \A i \in DOMAIN streams[s].events : Named(streams[s].events[i])

ChainShape(c) == c = [stream |-> c.stream, version |-> c.version, alone |-> c.alone]

\* The variables of the tasks are functions; a task that began executes an
\* operation of the application.
TaskInv ==
    /\ phase \in [Tasks -> {"idle", "sent", "open", "done"}]
    /\ op = [t \in Tasks |-> op[t]]
    /\ result = [t \in Tasks |-> result[t]]
    /\ inbox = [t \in Tasks |-> inbox[t]]
    /\ got = [t \in Tasks |-> got[t]]
    /\ owed = [t \in Tasks |-> owed[t]]
    /\ chain = [t \in Tasks |-> chain[t]]
    /\ \A t \in Tasks : ChainShape(chain[t])
    /\ \A t \in Tasks : phase[t] # "idle" => op[t] \in workload

\* A task that is alone knows the version of its stream; an append that depends
\* on it is to that stream.
ChainInv ==
    \A t \in Tasks :
        /\ chain[t].alone =>
              /\ chain[t].stream \in StreamIds
              /\ Len(streams[chain[t].stream].events) = chain[t].version + 1
        /\ phase[t] = "sent" /\ op[t].kind = "append" /\ op[t].state = LastTold
              => chain[t].stream = op[t].stream

\* Of ChainUnbroken and WrittenOnce, what the induction needs.
ChainKept ==
    \A t \in Tasks :
        /\ phase[t] = "done" /\ op[t].kind = "append" /\ op[t].state = LastTold
        /\ result[t] = Err("WrongExpectedVersion")
        => ~chain[t].alone

AppendInv == ServerInv /\ TaskInv /\ ChainInv /\ ChainKept /\ WrittenOnce

-----------------------------------------------------------------------------
(* Lemmas about sequences and events *)

LEMMA SequenceFacts ==
    ASSUME NEW q, IsSequence(q)
    PROVE  /\ Len(q) \in Nat /\ DOMAIN q = 1 .. Len(q)
           /\ q = <<>> <=> Len(q) = 0
  BY DEF IsSequence

LEMMA SeqIsSequence ==
    ASSUME NEW S, NEW q \in Seq(S)
    PROVE  IsSequence(q)
  <1>1. Len(q) \in Nat /\ q = [i \in 1 .. Len(q) |-> q[i]]
    OBVIOUS
  <1>2. \A i \in 1 .. Len(q) : q[i] \in ToSet(q)
    BY DEF ToSet
  <1>3. q \in Seq(ToSet(q))
    BY <1>1, <1>2
  <1> QED BY <1>3 DEF IsSequence

LEMMA Concatenated ==
    ASSUME NEW q, IsSequence(q), NEW r, IsSequence(r)
    PROVE  /\ IsSequence(q \o r)
           /\ Len(q \o r) = Len(q) + Len(r)
           /\ \A i \in DOMAIN (q \o r) :
                \/ i \in DOMAIN q /\ (q \o r)[i] = q[i]
                \/ i - Len(q) \in DOMAIN r /\ (q \o r)[i] = r[i - Len(q)]
  <1> DEFINE S == ToSet(q) \cup ToSet(r)
  <1>1. q \in Seq(S) /\ r \in Seq(S)
    BY DEF IsSequence
  <1> HIDE DEF S
  <1>2. /\ q \o r \in Seq(S) /\ Len(q \o r) = Len(q) + Len(r)
        /\ \A i \in 1 .. Len(q \o r) :
             (q \o r)[i] = IF i <= Len(q) THEN q[i] ELSE r[i - Len(q)]
    BY <1>1
  <1>3. IsSequence(q \o r)
    BY <1>2, SeqIsSequence
  <1> QED BY <1>1, <1>2, <1>3

\* AppendReq::from keeps the number of the events and what they were given.
LEMMA Proposed ==
    ASSUME NEW w \in Workloads, NEW o \in w, o.kind = "append"
    PROVE  LET events == ProposedMessages(o.events)
           IN  /\ IsSequence(events)
               /\ Len(events) = Len(o.events) /\ DOMAIN events = DOMAIN o.events
               /\ \A i \in DOMAIN events :
                    events[i].given = o.events[i].given /\ Named(events[i])
  <1> DEFINE events == ProposedMessages(o.events)
  <1>1. /\ o.events \in Seq(ToSet(o.events))
        /\ \A e \in ToSet(o.events) : \/ e = EventData(e.id, e.payload)
                                      \/ e = MetadataEvent(e.meant)
    BY WorkloadsAssumption
  <1>2. DOMAIN events = DOMAIN o.events
    BY DEF ProposedMessages
  <1>3. ASSUME NEW i \in DOMAIN events
        PROVE  events[i].given = o.events[i].given /\ Named(events[i])
    <2>1. PICK new : events[i] = [o.events[i] EXCEPT !.id = IF @ = None THEN new ELSE @]
      BY <1>2 DEF ProposedMessages
    <2>2. o.events[i] \in ToSet(o.events)
      BY <1>2 DEF ToSet
    <2>3. \/ o.events[i] = EventData(o.events[i].id, o.events[i].payload)
          \/ o.events[i] = MetadataEvent(o.events[i].meant)
      BY <1>1, <2>2
    <2> HIDE DEF events
    <2>4. CASE o.events[i] = EventData(o.events[i].id, o.events[i].payload)
      BY <2>1, <2>4 DEF EventData, Named
    <2>5. CASE o.events[i] = MetadataEvent(o.events[i].meant)
      BY <2>1, <2>5 DEF MetadataEvent, Named
    <2> QED BY <2>3, <2>4, <2>5
  <1>4. IsSequence(events) /\ Len(events) = Len(o.events)
    <2>1. DOMAIN o.events = 1 .. Len(o.events) /\ Len(o.events) \in Nat
      BY <1>1
    <2>2. events = [i \in 1 .. Len(o.events) |-> events[i]]
      BY <2>1 DEF ProposedMessages
    <2> HIDE DEF events
    <2>3. \A i \in 1 .. Len(o.events) : events[i] \in ToSet(events)
      BY <1>2, <2>1 DEF ToSet
    <2>4. events \in Seq(ToSet(events)) /\ Len(events) = Len(o.events)
      BY <2>1, <2>2, <2>3
    <2> QED BY <2>4 DEF IsSequence
  <1> QED BY <1>2, <1>3, <1>4

LEMMA Extended ==
    ASSUME NEW name, NEW s, StreamShape(s), NEW events, IsSequence(events)
    PROVE  /\ StreamShape(Extend(name, s, events))
           /\ Extend(name, s, events).events = s.events \o events
  <1> DEFINE all == s.events \o events
  <1>1. IsSequence(all) /\ Len(all) = Len(s.events) + Len(events)
    BY Concatenated DEF StreamShape
  <1>2. Len(s.events) \in Nat /\ Len(events) \in Nat
    BY SequenceFacts DEF StreamShape
  <1>3. PICK first \in {s.first} \cup {n \in {Len(all) - 1} : Len(all) > 0} :
          Extend(name, s, events) = [s EXCEPT !.events = all, !.first = first]
    BY DEF Extend
  <1>4. first \in 0 .. Len(all)
    BY <1>1, <1>2, <1>3 DEF StreamShape
  <1> HIDE DEF all
  <1>5. Extend(name, s, events) = [events |-> all, first |-> first, tombstoned |-> s.tombstoned]
    BY <1>3 DEF StreamShape
  <1> QED BY <1>1, <1>4, <1>5 DEF StreamShape, all

-----------------------------------------------------------------------------
(* append_to_stream *)

\* Where the events of an append have not been seen, or its state is Any, the
\* stream has no event twice that the application gave an id, unless it may.
LEMMA ExtendedOnce ==
    ASSUME NEW w \in Workloads, NEW o \in w, o.kind = "append",
           NEW q, IsSequence(q), \A i \in DOMAIN q : Named(q[i]),
           NEW s, s.events = q,
           Known(s, ProposedMessages(o.events)) = {} \/ o.state = AnyState,
           NEW i \in DOMAIN (q \o ProposedMessages(o.events)),
           NEW j \in DOMAIN (q \o ProposedMessages(o.events)), i # j,
           NEW id, id # None,
           (q \o ProposedMessages(o.events))[i].given = id,
           (q \o ProposedMessages(o.events))[j].given = id
    PROVE  \/ \E k, l \in DOMAIN q : k # l /\ q[k].given = id /\ q[l].given = id
           \/ \E p \in w : /\ p.kind = "append" /\ p.state = AnyState
                           /\ \E e \in ToSet(p.events) : e.given = id
  <1> DEFINE events == ProposedMessages(o.events)
             all == q \o events
  <1>1. /\ IsSequence(events) /\ DOMAIN events = DOMAIN o.events
        /\ \A k \in DOMAIN events : events[k].given = o.events[k].given /\ Named(events[k])
    BY Proposed
  <1>2. /\ \A k \in DOMAIN all :
             \/ k \in DOMAIN q /\ all[k] = q[k]
             \/ k - Len(q) \in DOMAIN events /\ all[k] = events[k - Len(q)]
        /\ IsSequence(all)
    BY <1>1, Concatenated
  <1>3. DOMAIN all \subseteq Nat /\ Len(q) \in Nat
    BY <1>2, SequenceFacts
  <1> HIDE DEF events, all
  <1>4. all[i].given = id /\ all[j].given = id /\ i \in DOMAIN all /\ j \in DOMAIN all
    BY DEF all, events
  <1>5. CASE i \in DOMAIN q /\ all[i] = q[i] /\ j \in DOMAIN q /\ all[j] = q[j]
    BY <1>4, <1>5
  <1>6. CASE o.state = AnyState /\ \E k \in DOMAIN events : events[k].given = id
    <2>1. PICK k \in DOMAIN events : events[k].given = id
      BY <1>6
    <2>2. o.events[k] \in ToSet(o.events) /\ o.events[k].given = id
      BY <1>1, <2>1 DEF ToSet
    <2> QED BY <1>6, <2>2
  <1>7. ASSUME Known(s, events) = {}, NEW k \in DOMAIN q, NEW l \in DOMAIN events,
               q[k].given = id, events[l].given = id
        PROVE  FALSE
    <2>1. q[k].id = id /\ events[l].id = id
      BY <1>1, <1>7 DEF Named
    <2>2. events[l] \in ToSet(events)
      BY DEF ToSet
    <2>3. k \in Known(s, events)
      BY <2>1, <2>2 DEF Known
    <2> QED BY <1>7, <2>3
  <1>8. ASSUME NEW k \in DOMAIN events, NEW l \in DOMAIN events, k # l,
               events[k].given = id, events[l].given = id
        PROVE  FALSE
    BY <1>1, <1>8, WorkloadsAssumption
  <1>9. Known(s, events) = {} \/ o.state = AnyState
    BY DEF events
  <1>10. CASE i - Len(q) \in DOMAIN events /\ all[i] = events[i - Len(q)]
              /\ j - Len(q) \in DOMAIN events /\ all[j] = events[j - Len(q)]
    BY <1>3, <1>4, <1>8, <1>10
  <1>11. CASE i \in DOMAIN q /\ all[i] = q[i]
              /\ j - Len(q) \in DOMAIN events /\ all[j] = events[j - Len(q)]
    BY <1>4, <1>6, <1>7, <1>9, <1>11
  <1>12. CASE j \in DOMAIN q /\ all[j] = q[j]
              /\ i - Len(q) \in DOMAIN events /\ all[i] = events[i - Len(q)]
    BY <1>4, <1>6, <1>7, <1>9, <1>12
  <1> QED BY <1>2, <1>4, <1>5, <1>10, <1>11, <1>12

\* An append that is refused although its caller was alone: it was not.
LEMMA AloneMeets ==
    ASSUME NEW t \in Tasks, ChainInv, phase[t] = "sent", op[t].kind = "append",
           op[t].state = LastTold, chain[t].alone
    PROVE  Meets(streams[op[t].stream], ExpectedStreamRevision(t))
  BY DEF ChainInv, ExpectedStreamRevision, Meets, StreamRevision, LastTold

LEMMA InitAppendInv == StreamsInit => AppendInv
  <1> SUFFICES ASSUME StreamsInit PROVE AppendInv
    OBVIOUS
  <1>1. \A s \in StreamIds : streams[s] = NewStream
    BY DEF StreamsInit
  <1>2. StreamShape(NewStream)
    <2>1. IsSequence(<<>>)
      <3>1. <<>> \in Seq({})
        OBVIOUS
      <3> QED BY <3>1, SeqIsSequence
    <2>2. NewStream.events = <<>> /\ NewStream.first = 0 /\ Len(<<>>) = 0
      BY DEF NewStream
    <2>3. NewStream = [events |-> NewStream.events, first |-> NewStream.first,
                       tombstoned |-> NewStream.tombstoned]
      BY DEF NewStream
    <2> QED BY <2>1, <2>2, <2>3 DEF StreamShape
  <1>3. ServerInv
    BY <1>1, <1>2 DEF StreamsInit, ServerInv, NewStream
  <1>4. TaskInv
    BY DEF StreamsInit, TaskInv, ChainShape, NoChain
  <1>5. ChainInv /\ ChainKept
    BY DEF StreamsInit, ChainInv, ChainKept, NoChain
  <1>6. WrittenOnce
    BY <1>1 DEF WrittenOnce, NewStream
  <1> QED BY <1>3, <1>4, <1>5, <1>6 DEF AppendInv

\* A step that leaves the streams, and what the tasks know of them, alone.
LEMMA QuietStep ==
    ASSUME AppendInv, TaskInv', UNCHANGED <<workload, streams, chain>>,
           \A t \in Tasks : phase'[t] = "sent" /\ op'[t].kind = "append" /\ op'[t].state = LastTold
                                => chain[t].stream = op'[t].stream,
           \A t \in Tasks : phase'[t] = "done" /\ op'[t].kind = "append"
                               /\ result'[t] = Err("WrongExpectedVersion")
                                => phase[t] = "done" /\ op'[t] = op[t] /\ result'[t] = result[t]
    PROVE  AppendInv'
  <1>1. ServerInv'
    BY DEF AppendInv, ServerInv, StreamShape, Named, IsSequence, ToSet
  <1>2. ChainInv'
    BY DEF AppendInv, ChainInv
  <1>3. ChainKept'
    BY DEF AppendInv, ChainKept
  <1>4. WrittenOnce'
    BY DEF AppendInv, WrittenOnce
  <1> QED BY <1>1, <1>2, <1>3, <1>4 DEF AppendInv

\* A step that leaves the events of all streams alone.
LEMMA SameEvents ==
    ASSUME ServerInv, WrittenOnce, UNCHANGED workload,
           streams' = [x \in StreamIds |-> streams'[x]],
           \A x \in StreamIds : streams'[x].events = streams[x].events /\ StreamShape(streams'[x])
    PROVE  ServerInv' /\ WrittenOnce'
  <1>1. ServerInv'
    <2>1. \A x \in StreamIds : \A i \in DOMAIN streams'[x].events : Named(streams'[x].events[i])
      BY DEF ServerInv
    <2> QED BY <2>1 DEF ServerInv
  <1>2. WrittenOnce'
    BY DEF WrittenOnce
  <1> QED BY <1>1, <1>2

LEMMA BeginKeepsAppendInv ==
    ASSUME AppendInv, NEW t \in Tasks, Begin(t)
    PROVE  AppendInv'
  <1>1. PICK o \in workload :
          /\ o.kind = "append" /\ o.state = LastTold => chain[t].stream = o.stream
          /\ op' = [op EXCEPT ![t] = o]
    BY DEF Begin
  <1>2. /\ phase' = [phase EXCEPT ![t] = "sent"] /\ result' = [result EXCEPT ![t] = NoResult]
        /\ UNCHANGED <<workload, streams, chain>>
    BY DEF Begin
  <1>3. /\ op'[t] = o /\ phase'[t] = "sent"
        /\ \A u \in Tasks \ {t} : op'[u] = op[u] /\ phase'[u] = phase[u] /\ result'[u] = result[u]
    BY <1>1, <1>2 DEF AppendInv, TaskInv
  <1>4. TaskInv'
    BY <1>1, <1>2, <1>3 DEF Begin, AppendInv, TaskInv, ChainShape
  <1>5. \A u \in Tasks : phase'[u] = "sent" /\ op'[u].kind = "append" /\ op'[u].state = LastTold
                            => chain[u].stream = op'[u].stream
    BY <1>1, <1>3 DEF AppendInv, ChainInv
  <1> QED BY <1>2, <1>3, <1>4, <1>5, QuietStep

\* A step of t that ends its operation, or goes on with it, and does not touch the
\* streams, unless t returns that the version of its append was wrong.
LEMMA QuietStepOfTask ==
    ASSUME AppendInv, NEW t \in Tasks, TaskInv', UNCHANGED <<workload, streams, chain, op>>,
           phase'[t] \in {"open", "done"},
           op[t].kind = "append" => result'[t] # Err("WrongExpectedVersion"),
           \A u \in Tasks \ {t} : phase'[u] = phase[u] /\ result'[u] = result[u]
    PROVE  AppendInv'
  <1>1. \A u \in Tasks : phase'[u] = "sent" /\ op'[u].kind = "append" /\ op'[u].state = LastTold
                            => chain[u].stream = op'[u].stream
    BY DEF AppendInv, ChainInv
  <1> QED BY <1>1, QuietStep

LEMMA FailureKeepsAppendInv ==
    ASSUME AppendInv, NEW t \in Tasks, CallFails(t) \/ StreamIsDeleted(t)
    PROVE  AppendInv'
  <1>1. PICK e \in {"ServerError", "ResourceDeleted"} : Return(t, Err(e))
    BY DEF CallFails, StreamIsDeleted
  <1>2. /\ UNCHANGED <<workload, streams, chain, op, inbox, got, owed>> /\ phase[t] = "sent"
    BY DEF CallFails, StreamIsDeleted, serverVars, readVars
  <1>3. /\ phase'[t] = "done" /\ result'[t] = Err(e)
        /\ \A u \in Tasks \ {t} : phase'[u] = phase[u] /\ result'[u] = result[u]
    BY <1>1 DEF Return, AppendInv, TaskInv
  <1>4. TaskInv'
    BY <1>1, <1>2, <1>3 DEF Return, AppendInv, TaskInv, ChainShape
  <1>5. result'[t] # Err("WrongExpectedVersion")
    BY <1>3 DEF Err
  <1> QED BY <1>2, <1>3, <1>4, <1>5, QuietStepOfTask

LEMMA ReadsKeepAppendInv ==
    ASSUME AppendInv, NEW t \in Tasks,
           read_stream(t) \/ Break(t) \/ next(t) \/ get_stream_metadata(t)
    PROVE  AppendInv'
  <1>1. UNCHANGED <<workload, streams, chain, op>> /\ phase[t] \in {"sent", "open"}
    BY DEF read_stream, Break, next, get_stream_metadata, serverVars
  <1>2. /\ \/ phase' = phase /\ result' = result /\ phase[t] = "open"
           \/ phase' = [phase EXCEPT ![t] = "open"] /\ result' = result /\ op[t].kind # "append"
           \/ \E r : Return(t, r) /\ op[t].kind # "append"
    BY DEF read_stream, Break, next, get_stream_metadata
  <1>3. /\ phase' \in [Tasks -> {"idle", "sent", "open", "done"}] /\ phase'[t] \in {"open", "done"}
        /\ result' = [u \in Tasks |-> result'[u]]
        /\ \A u \in Tasks \ {t} : phase'[u] = phase[u] /\ result'[u] = result[u]
    BY <1>2 DEF Return, AppendInv, TaskInv
  <1>4. /\ inbox' = [u \in Tasks |-> inbox'[u]] /\ got' = [u \in Tasks |-> got'[u]]
        /\ owed' = [u \in Tasks |-> owed'[u]]
    <2>1. CASE read_stream(t)
      BY <2>1 DEF read_stream, AppendInv, TaskInv
    <2>2. CASE Break(t)
      BY <2>2 DEF Break, AppendInv, TaskInv
    <2>3. CASE next(t)
      BY <2>3 DEF next, AppendInv, TaskInv
    <2>4. CASE get_stream_metadata(t)
      BY <2>4 DEF get_stream_metadata, AppendInv, TaskInv
    <2> QED BY <2>1, <2>2, <2>3, <2>4
  <1>5. TaskInv'
    BY <1>1, <1>3, <1>4 DEF AppendInv, TaskInv, ChainShape
  <1>6. CASE phase' = phase /\ result' = result /\ phase[t] = "open"
    BY <1>1, <1>5, <1>6, QuietStep DEF AppendInv, ChainInv
  <1>7. CASE op[t].kind # "append"
    BY <1>1, <1>3, <1>5, <1>7, QuietStepOfTask
  <1> QED BY <1>2, <1>6, <1>7

\* A step in which t ends its operation, with a result that is no refusal.
Ended(t) ==
    /\ phase' \in [Tasks -> {"idle", "sent", "open", "done"}] /\ phase'[t] = "done"
    /\ result' = [u \in Tasks |-> result'[u]] /\ result'[t] # Err("WrongExpectedVersion")
    /\ result'[t].kind # "End" /\ result'[t].kind # "panic"
    /\ \A u \in Tasks \ {t} : phase'[u] = phase[u] /\ result'[u] = result[u]

\* What t learns from the answer to an append to s, and what the others lose.
Learned(t, s, current, events, repeat) ==
    /\ chain' = [u \in Tasks |-> chain'[u]]
    /\ \A u \in Tasks :
          /\ ChainShape(chain'[u])
          /\ \/ /\ chain'[u].stream = chain[u].stream /\ chain'[u].version = chain[u].version
                /\ chain'[u].alone =>
                      chain[u].alone /\ (chain[u].stream # s \/ events = <<>> \/ repeat)
             \/ /\ u = t /\ chain'[u].stream = s
                /\ chain'[u].alone => current # None /\ ~repeat /\ chain'[u].version = current

LEMMA AnswerFacts ==
    ASSUME TaskInv, NEW t \in Tasks, NEW s, NEW current, NEW events, NEW repeat \in BOOLEAN,
           Answered(t, s, current, events, repeat)
    PROVE  Ended(t) /\ Learned(t, s, current, events, repeat)
  <1>1. PICK r : Return(t, r) /\ (r = WriteResult(current) \/ r = Err("ServerError"))
    BY DEF Answered
  <1>2. /\ r # Err("WrongExpectedVersion") /\ r.kind # "End" /\ r.kind # "panic"
    BY <1>1 DEF WriteResult, Err
  <1>3. /\ phase' \in [Tasks -> {"idle", "sent", "open", "done"}] /\ phase'[t] = "done"
        /\ result' = [u \in Tasks |-> result'[u]] /\ result'[t] = r
        /\ \A u \in Tasks \ {t} : phase'[u] = phase[u] /\ result'[u] = result[u]
    BY <1>1 DEF Return, TaskInv
  <1> DEFINE lost(u) == chain[u].stream = s /\ events # <<>> /\ ~repeat
             other(u) == IF lost(u) THEN [chain[u] EXCEPT !.alone = FALSE] ELSE chain[u]
             told == [stream |-> s, version |-> WriteResult(current).version,
                      alone |-> current # None /\ ~repeat]
  <1>4. /\ chain' = [u \in Tasks |-> chain'[u]]
        /\ \A u \in Tasks : chain'[u] = other(u) \/ (u = t /\ chain'[u] = told)
    BY DEF Answered
  <1>5. ASSUME NEW u \in Tasks
        PROVE  /\ ChainShape(other(u))
               /\ other(u).stream = chain[u].stream /\ other(u).version = chain[u].version
               /\ other(u).alone => chain[u].alone /\ ~lost(u)
    <2>1. ChainShape(chain[u])
      BY DEF TaskInv
    <2>2. CASE ~lost(u)
      BY <2>1, <2>2
    <2>3. CASE lost(u)
      <3>1. other(u) = [chain[u] EXCEPT !.alone = FALSE]
        BY <2>3
      <3>2. other(u) = [stream |-> chain[u].stream, version |-> chain[u].version, alone |-> FALSE]
        BY <2>1, <3>1 DEF ChainShape
      <3> HIDE DEF other, lost
      <3> QED BY <3>2 DEF ChainShape
    <2> QED BY <2>2, <2>3
  <1>6. /\ ChainShape(told) /\ told.stream = s
        /\ told.alone => current # None /\ ~repeat /\ told.version = current
    BY DEF ChainShape, WriteResult
  <1>7. ASSUME NEW u \in Tasks
        PROVE  /\ ChainShape(chain'[u])
               /\ \/ /\ chain'[u].stream = chain[u].stream /\ chain'[u].version = chain[u].version
                     /\ chain'[u].alone => chain[u].alone /\ ~lost(u)
                  \/ /\ u = t /\ chain'[u].stream = s
                     /\ chain'[u].alone => current # None /\ ~repeat /\ chain'[u].version = current
    <2> HIDE DEF other, told, lost
    <2>1. CASE chain'[u] = other(u)
      BY <1>5, <2>1
    <2>2. CASE u = t /\ chain'[u] = told
      BY <1>6, <2>2
    <2> QED BY <1>4, <2>1, <2>2
  <1>8. Ended(t)
    BY <1>2, <1>3 DEF Ended
  <1>9. Learned(t, s, current, events, repeat)
    BY <1>4, <1>7 DEF Learned
  <1> QED BY <1>8, <1>9

LEMMA append_to_streamKeepsAppendInv ==
    ASSUME AppendInv, NEW t \in Tasks, append_to_stream(t)
    PROVE  AppendInv'
  <1>o. PICK o : o = op[t]
    OBVIOUS
  <1>m. PICK name : name = o.stream
    OBVIOUS
  <1>s. PICK s : s = streams[name]
    OBVIOUS
  <1>e. PICK events : events = ProposedMessages(o.events)
    OBVIOUS
  <1>n. PICK new : new = Extend(name, s, events)
    OBVIOUS
  <1>c. PICK current : current = IF new.events = <<>> THEN None ELSE Len(new.events) - 1
    OBVIOUS
  <1>1. /\ phase[t] = "sent" /\ o.kind = "append" /\ o \in workload /\ workload \in Workloads
        /\ name \in StreamIds /\ StreamShape(s)
        /\ \A i \in DOMAIN s.events : Named(s.events[i])
        /\ UNCHANGED <<workload, op, inbox, got, owed>>
    BY <1>o, <1>m, <1>s, WorkloadsAssumption DEF append_to_stream, AppendInv, TaskInv, ServerInv, readVars
  <1>2. /\ IsSequence(events)
        /\ \A i \in DOMAIN events : Named(events[i])
    BY <1>1, <1>e, Proposed
  <1>3. StreamShape(new) /\ new.events = s.events \o events
    <2>1. StreamShape(s) /\ IsSequence(events)
      BY <1>1, <1>2
    <2>2. /\ StreamShape(Extend(name, s, events))
          /\ Extend(name, s, events).events = s.events \o events
      BY <2>1, Extended
    <2> QED BY <1>n, <2>2
  <1>4. \/ /\ Answered(t, name, Max(Known(s, events)) - 1, events, TRUE) /\ UNCHANGED streams
        \/ /\ Known(s, events) = {} \/ o.state = AnyState
           /\ streams' = [streams EXCEPT ![name] = new]
           /\ Answered(t, name, current, events, FALSE)
        \/ /\ ~Meets(s, ExpectedStreamRevision(t))
           /\ Return(t, Err("WrongExpectedVersion"))
           /\ UNCHANGED <<streams, chain>>
    BY <1>o, <1>m, <1>s, <1>e, <1>n, <1>c DEF append_to_stream
  <1>5. CASE Answered(t, name, Max(Known(s, events)) - 1, events, TRUE) /\ UNCHANGED streams
    <2>0. PICK repeat \in BOOLEAN :
             repeat /\ Answered(t, name, Max(Known(s, events)) - 1, events, repeat)
      BY <1>5
    <2>a. Ended(t) /\ Learned(t, name, Max(Known(s, events)) - 1, events, repeat)
      BY <2>0, AnswerFacts DEF AppendInv
    <2>1. /\ phase' \in [Tasks -> {"idle", "sent", "open", "done"}] /\ phase'[t] = "done"
          /\ result' = [u \in Tasks |-> result'[u]] /\ result'[t] # Err("WrongExpectedVersion")
          /\ \A u \in Tasks \ {t} : phase'[u] = phase[u] /\ result'[u] = result[u]
          /\ chain' = [u \in Tasks |-> chain'[u]]
          /\ \A u \in Tasks :
               /\ ChainShape(chain'[u])
               /\ \/ /\ chain'[u].stream = chain[u].stream /\ chain'[u].version = chain[u].version
                     /\ chain'[u].alone => chain[u].alone
                  \/ u = t /\ ~chain'[u].alone
      BY <2>0, <2>a DEF Ended, Learned
    <2>2. ServerInv' /\ WrittenOnce'
      BY <1>1, <1>5, SameEvents DEF AppendInv, ServerInv
    <2>3. TaskInv'
      BY <1>1, <2>1 DEF AppendInv, TaskInv
    <2>4. ChainInv'
      BY <1>1, <1>5, <2>1 DEF AppendInv, ChainInv
    <2>5. ChainKept'
      BY <1>1, <2>1 DEF AppendInv, ChainKept
    <2> QED BY <2>2, <2>3, <2>4, <2>5 DEF AppendInv
  <1>6. CASE /\ Known(s, events) = {} \/ o.state = AnyState
             /\ streams' = [streams EXCEPT ![name] = new]
             /\ Answered(t, name, current, events, FALSE)
    <2>0. PICK repeat \in BOOLEAN : ~repeat /\ Answered(t, name, current, events, repeat)
      BY <1>6
    <2>a. Ended(t) /\ Learned(t, name, current, events, repeat)
      BY <2>0, AnswerFacts DEF AppendInv
    <2>1. /\ phase' \in [Tasks -> {"idle", "sent", "open", "done"}] /\ phase'[t] = "done"
          /\ result' = [u \in Tasks |-> result'[u]] /\ result'[t] # Err("WrongExpectedVersion")
          /\ \A u \in Tasks \ {t} : phase'[u] = phase[u] /\ result'[u] = result[u]
          /\ chain' = [u \in Tasks |-> chain'[u]]
      BY <2>a DEF Ended, Learned
    <2>2. \A u \in Tasks :
             /\ ChainShape(chain'[u])
             /\ \/ /\ chain'[u].stream = chain[u].stream /\ chain'[u].version = chain[u].version
                   /\ chain'[u].alone => chain[u].alone /\ (chain[u].stream # name \/ events = <<>>)
                \/ /\ u = t /\ chain'[u].stream = name
                   /\ chain'[u].alone => current # None /\ chain'[u].version = current
      BY <2>0, <2>a DEF Learned
    <2>3. /\ streams' = [x \in StreamIds |-> streams'[x]]
          /\ streams'[name] = new
          /\ \A x \in StreamIds \ {name} : streams'[x] = streams[x]
      BY <1>1, <1>6 DEF AppendInv, ServerInv
    <2>4. /\ Len(new.events) = Len(s.events) + Len(events) /\ IsSequence(new.events)
          /\ \A i \in DOMAIN new.events :
               \/ i \in DOMAIN s.events /\ new.events[i] = s.events[i]
               \/ i - Len(s.events) \in DOMAIN events /\ new.events[i] = events[i - Len(s.events)]
      BY <1>1, <1>2, <1>3, Concatenated DEF StreamShape
    <2>5. Len(s.events) \in Nat /\ Len(events) \in Nat /\ (events = <<>> <=> Len(events) = 0)
      BY <1>1, <1>2, SequenceFacts DEF StreamShape
    <2>6. ServerInv'
      <3>1. \A x \in StreamIds : StreamShape(streams'[x])
        BY <1>3, <2>3 DEF AppendInv, ServerInv
      <3>2. \A x \in StreamIds : \A i \in DOMAIN streams'[x].events : Named(streams'[x].events[i])
        BY <1>1, <1>2, <2>3, <2>4 DEF AppendInv, ServerInv
      <3> QED BY <1>1, <2>3, <3>1, <3>2 DEF ServerInv, StreamShape, Named, IsSequence, ToSet
    <2>7. TaskInv'
      BY <1>1, <2>1, <2>2 DEF AppendInv, TaskInv
    <2>8. ChainInv'
      <3>1. ASSUME NEW u \in Tasks, chain'[u].alone
            PROVE  /\ chain'[u].stream \in StreamIds
                   /\ Len(streams'[chain'[u].stream].events) = chain'[u].version + 1
        <4>1. CASE /\ chain'[u].stream = chain[u].stream /\ chain'[u].version = chain[u].version
                   /\ chain[u].alone /\ (chain[u].stream # name \/ events = <<>>)
          <5>1. /\ chain[u].stream \in StreamIds
                /\ Len(streams[chain[u].stream].events) = chain[u].version + 1
            BY <4>1 DEF AppendInv, ChainInv
          <5>2. CASE chain[u].stream # name
            BY <2>3, <4>1, <5>1, <5>2
          <5>3. CASE chain[u].stream = name /\ events = <<>>
            BY <1>s, <2>3, <2>4, <2>5, <4>1, <5>1, <5>3
          <5> QED BY <4>1, <5>2, <5>3
        <4>2. CASE chain'[u].stream = name /\ current # None /\ chain'[u].version = current
          <5>1. current = Len(new.events) - 1
            BY <1>c, <4>2
          <5> QED BY <1>1, <2>3, <2>4, <2>5, <4>2, <5>1
        <4> QED BY <2>2, <3>1, <4>1, <4>2
      <3>2. ASSUME NEW u \in Tasks, phase'[u] = "sent", op'[u].kind = "append",
                   op'[u].state = LastTold
            PROVE  chain'[u].stream = op'[u].stream
        BY <1>1, <2>1, <2>2, <3>2 DEF AppendInv, ChainInv
      <3> QED BY <3>1, <3>2 DEF ChainInv
    <2>9. ChainKept'
      BY <1>1, <2>1, <2>2 DEF AppendInv, ChainKept
    <2>10. WrittenOnce'
      <3> SUFFICES ASSUME NEW x \in StreamIds,
                          NEW i \in DOMAIN streams'[x].events, NEW j \in DOMAIN streams'[x].events,
                          i # j, streams'[x].events[i].given # None,
                          streams'[x].events[i].given = streams'[x].events[j].given
                   PROVE  \E p \in workload : /\ p.kind = "append" /\ p.state = AnyState
                                              /\ \E e \in ToSet(p.events) :
                                                    e.given = streams'[x].events[i].given
        BY <1>1 DEF WrittenOnce, ToSet
      <3>1. CASE x # name
        BY <2>3, <3>1 DEF AppendInv, WrittenOnce
      <3>2. CASE x = name
        <4>id. PICK id : id = streams'[x].events[i].given
          OBVIOUS
        <4>1. /\ i \in DOMAIN (s.events \o events) /\ j \in DOMAIN (s.events \o events)
              /\ (s.events \o events)[i].given = id /\ (s.events \o events)[j].given = id
              /\ id # None
          BY <1>3, <2>3, <3>2, <4>id
        <4>2. IsSequence(s.events)
          BY <1>1 DEF StreamShape
        <4>3. \/ \E k, l \in DOMAIN s.events :
                     k # l /\ s.events[k].given = id /\ s.events[l].given = id
              \/ \E p \in workload : /\ p.kind = "append" /\ p.state = AnyState
                                     /\ \E e \in ToSet(p.events) : e.given = id
          <5>1. /\ i \in DOMAIN (s.events \o ProposedMessages(o.events))
                /\ j \in DOMAIN (s.events \o ProposedMessages(o.events))
                /\ (s.events \o ProposedMessages(o.events))[i].given = id
                /\ (s.events \o ProposedMessages(o.events))[j].given = id
                /\ Known(s, ProposedMessages(o.events)) = {} \/ o.state = AnyState
            BY <1>6, <1>e, <4>1
          <5>2. PICK q : q = s.events
            OBVIOUS
          <5>3. /\ i \in DOMAIN (q \o ProposedMessages(o.events))
                /\ j \in DOMAIN (q \o ProposedMessages(o.events))
                /\ (q \o ProposedMessages(o.events))[i].given = id
                /\ (q \o ProposedMessages(o.events))[j].given = id
                /\ IsSequence(q) /\ \A k \in DOMAIN q : Named(q[k])
            BY <1>1, <4>2, <5>1, <5>2
          <5>4. \/ \E k, l \in DOMAIN q : k # l /\ q[k].given = id /\ q[l].given = id
                \/ \E p \in workload : /\ p.kind = "append" /\ p.state = AnyState
                                       /\ \E e \in ToSet(p.events) : e.given = id
            <6>1. /\ workload \in Workloads /\ o \in workload /\ o.kind = "append"
                  /\ s.events = q /\ i # j /\ id # None
                  /\ Known(s, ProposedMessages(o.events)) = {} \/ o.state = AnyState
              BY <1>1, <4>1, <5>1, <5>2
            <6> QED BY <5>3, <6>1, ExtendedOnce
          <5> QED BY <5>2, <5>4
        <4>4. (\E k, l \in DOMAIN s.events :
                   k # l /\ s.events[k].given = id /\ s.events[l].given = id)
              => \E p \in workload : /\ p.kind = "append" /\ p.state = AnyState
                                     /\ \E e \in ToSet(p.events) : e.given = id
          BY <1>1, <1>s, <4>1 DEF AppendInv, WrittenOnce
        <4> QED BY <4>3, <4>4, <4>id
      <3> QED BY <3>1, <3>2
    <2> QED BY <2>6, <2>7, <2>8, <2>9, <2>10 DEF AppendInv
  <1>7. CASE /\ ~Meets(s, ExpectedStreamRevision(t))
             /\ Return(t, Err("WrongExpectedVersion"))
             /\ UNCHANGED <<streams, chain>>
    <2>1. /\ phase' \in [Tasks -> {"idle", "sent", "open", "done"}] /\ phase'[t] = "done"
          /\ result' = [u \in Tasks |-> result'[u]]
          /\ \A u \in Tasks \ {t} : phase'[u] = phase[u] /\ result'[u] = result[u]
      BY <1>7 DEF Return, AppendInv, TaskInv
    <2>2. ServerInv' /\ WrittenOnce'
      BY <1>1, <1>7, SameEvents DEF AppendInv, ServerInv
    <2>3. TaskInv'
      BY <1>1, <1>7, <2>1 DEF AppendInv, TaskInv, ChainShape
    <2>4. ChainInv'
      BY <1>1, <1>7, <2>1 DEF AppendInv, ChainInv
    <2>5. op[t].state = LastTold => ~chain[t].alone
      BY <1>1, <1>o, <1>m, <1>s, <1>7, AloneMeets DEF AppendInv
    <2>6. ChainKept'
      BY <1>1, <1>7, <2>1, <2>5 DEF AppendInv, ChainKept
    <2> QED BY <2>2, <2>3, <2>4, <2>6 DEF AppendInv
  <1> QED BY <1>4, <1>5, <1>6, <1>7

LEMMA delete_streamKeepsAppendInv ==
    ASSUME AppendInv, NEW t \in Tasks, delete_stream(t)
    PROVE  AppendInv'
  <1>o. PICK o : o = op[t]
    OBVIOUS
  <1>s. PICK s : s = streams[o.stream]
    OBVIOUS
  <1>1. /\ phase[t] = "sent" /\ o.kind # "append" /\ o \in workload /\ workload \in Workloads
        /\ o.stream \in StreamIds /\ StreamShape(s)
        /\ UNCHANGED <<workload, op, inbox, got, owed, chain>>
    BY <1>o, <1>s, WorkloadsAssumption DEF delete_stream, AppendInv, TaskInv, ServerInv, readVars
  <1>2. PICK r : Return(t, r)
    BY DEF delete_stream
  <1>3. /\ phase' \in [Tasks -> {"idle", "sent", "open", "done"}] /\ phase'[t] = "done"
        /\ result' = [u \in Tasks |-> result'[u]]
        /\ \A u \in Tasks \ {t} : phase'[u] = phase[u] /\ result'[u] = result[u]
    BY <1>2 DEF Return, AppendInv, TaskInv
  <1>4. /\ streams' = [x \in StreamIds |-> streams'[x]]
        /\ \A x \in StreamIds : streams'[x].events = streams[x].events /\ StreamShape(streams'[x])
    <2>1. CASE UNCHANGED streams
      BY <2>1 DEF AppendInv, ServerInv, StreamShape
    <2>2. ASSUME NEW new, streams' = [streams EXCEPT ![o.stream] = new],
                 \/ new = [s EXCEPT !.first = Len(s.events)]
                 \/ new = [s EXCEPT !.tombstoned = TRUE]
          PROVE  /\ streams' = [x \in StreamIds |-> streams'[x]]
                 /\ \A x \in StreamIds :
                      streams'[x].events = streams[x].events /\ StreamShape(streams'[x])
      <3>1. \/ new = [events |-> s.events, first |-> Len(s.events), tombstoned |-> s.tombstoned]
            \/ new = [events |-> s.events, first |-> s.first, tombstoned |-> TRUE]
        BY <1>1, <2>2 DEF StreamShape
      <3>2. Len(s.events) \in 0 .. Len(s.events) /\ s.first \in 0 .. Len(s.events)
            /\ IsSequence(s.events)
        BY <1>1, SequenceFacts DEF StreamShape
      <3>3. new.events = s.events /\ StreamShape(new)
        BY <3>1, <3>2 DEF StreamShape
      <3>4. streams' = [x \in StreamIds |-> IF x = o.stream THEN new ELSE streams[x]]
        BY <2>2 DEF AppendInv, ServerInv
      <3> QED BY <1>s, <3>3, <3>4 DEF AppendInv, ServerInv
    <2> QED BY <1>o, <1>s, <2>1, <2>2 DEF delete_stream
  <1>5. ServerInv' /\ WrittenOnce'
    BY <1>1, <1>4, SameEvents DEF AppendInv
  <1>6. TaskInv'
    BY <1>1, <1>3 DEF AppendInv, TaskInv, ChainShape
  <1>7. ChainInv'
    BY <1>1, <1>o, <1>3, <1>4 DEF AppendInv, ChainInv
  <1>8. ChainKept'
    BY <1>1, <1>o, <1>3 DEF AppendInv, ChainKept
  <1> QED BY <1>5, <1>6, <1>7, <1>8 DEF AppendInv

-----------------------------------------------------------------------------
(* The theorems about appends *)

LEMMA NextKeepsAppendInv == AppendInv /\ [StreamsNext]_streamsVars => AppendInv'
  <1> SUFFICES ASSUME AppendInv, [StreamsNext]_streamsVars PROVE AppendInv'
    OBVIOUS
  <1>1. ASSUME NEW t \in Tasks, StreamsStep(t) PROVE AppendInv'
    BY <1>1, BeginKeepsAppendInv, FailureKeepsAppendInv, append_to_streamKeepsAppendInv,
       delete_streamKeepsAppendInv, ReadsKeepAppendInv DEF StreamsStep
  <1>2. CASE UNCHANGED streamsVars
    <2>1. UNCHANGED <<workload, streams, phase, op, inbox, got, owed, result, chain>>
      BY <1>2 DEF streamsVars, serverVars, readVars
    <2>2. TaskInv'
      BY <2>1 DEF AppendInv, TaskInv, ChainShape
    <2> QED BY <2>1, <2>2, QuietStep DEF AppendInv, ChainInv
  <1> QED BY <1>1, <1>2 DEF StreamsNext, StreamsRest

LEMMA AppendInvariance == StreamsSpec => []AppendInv
  BY InitAppendInv, NextKeepsAppendInv, PTL DEF StreamsSpec

\* An application that conditions each append on the version the last one returned
\* (WriteResult::next_expected_version) is refused only if somebody else wrote, or
\* an append of its own was lost.
THEOREM ChainIsUnbroken == StreamsSpec => []ChainUnbroken
  <1>1. AppendInv => ChainUnbroken
    BY DEF AppendInv, ChainKept, ChainUnbroken
  <1> QED BY <1>1, AppendInvariance, PTL

\* Retries of an append whose answer got lost write nothing twice, unless the state
\* is Any (append_to_stream, AppendReq::from).
THEOREM EventsAreWrittenOnce == StreamsSpec => []WrittenOnce
  BY AppendInvariance, PTL DEF AppendInv

-----------------------------------------------------------------------------
(* Reads *)

\* The messages of an open read that are still to come: n notices, the events that
\* are owed and were not returned, and the end or an error; or that there is no
\* such stream.
ToCome(t, n) ==
    /\ \A i \in 1 .. n : inbox[t][i] \in Notices
    /\ Len(got[t]) + Len(inbox[t]) - 1 - n <= Len(owed[t])
    /\ \A i \in n + 1 .. Len(inbox[t]) - 1 : inbox[t][i] = Event(owed[t][Len(got[t]) + i - n])
    /\ \/ inbox[t][Len(inbox[t])].content = "Status"
       \/ /\ inbox[t][Len(inbox[t])] = EndOfStream
          /\ Len(got[t]) + Len(inbox[t]) - 1 - n = Len(owed[t])

InboxInv(t) ==
    /\ IsSequence(inbox[t]) /\ Len(inbox[t]) > 0
    /\ \/ inbox[t][1] = StreamNotFound
       \/ \E n \in 0 .. Len(inbox[t]) - 1 : ToCome(t, n)

\* Options with which get_stream_metadata finds an event if there is one.
Asks(o) ==
    /\ o.max_count > 0
    /\ o \in {ReadStreamOptions(o.max_count), position(ReadStreamOptions(o.max_count), End)}

\* A read of metadata that asks for an event is owed one, unless something is wrong.
GetInv(t) ==
    /\ got[t] = <<>>
    /\ Asks(op[t].options) =>
          \/ inbox[t][1] = StreamNotFound
          \/ inbox[t][Len(inbox[t])].content = "Status"
          \/ Len(owed[t]) > 0

ReadInv(t) ==
    /\ IsSequence(got[t]) /\ IsSequence(owed[t])
    /\ Len(got[t]) <= Len(owed[t])
    /\ \A i \in 1 .. Len(got[t]) : got[t][i] = owed[t][i]
    /\ phase[t] = "sent" => got[t] = <<>>
    /\ phase[t] # "done" => result[t].kind # "End" /\ result[t].kind # "panic"
    /\ result[t].kind = "End" => Len(got[t]) = Len(owed[t])
    /\ phase[t] = "open" => op[t].kind \in {"read", "get"} /\ InboxInv(t)
    /\ phase[t] = "open" /\ op[t].kind = "get" => GetInv(t)
    /\ result[t].kind = "panic" => ~Asks(op[t].options)

ReadsInv == \A t \in Tasks : ReadInv(t)

\* A read that a step leaves alone.
LEMMA UntouchedKeepsReadInv ==
    ASSUME NEW u \in Tasks, ReadInv(u),
           phase'[u] = phase[u], op'[u] = op[u], result'[u] = result[u], inbox'[u] = inbox[u],
           got'[u] = got[u], owed'[u] = owed[u]
    PROVE  ReadInv(u)'
  <1>1. InboxInv(u)' <=> InboxInv(u)
    BY DEF InboxInv, ToCome, IsSequence, ToSet
  <1>2. GetInv(u)' <=> GetInv(u)
    BY DEF GetInv, Asks
  <1> QED BY <1>1, <1>2 DEF ReadInv, IsSequence, ToSet, Asks

LEMMA EmptySequence == IsSequence(<<>>) /\ Len(<<>>) = 0
  <1>1. <<>> \in Seq({})
    OBVIOUS
  <1> QED BY <1>1, SeqIsSequence

LEMMA PrefixFacts ==
    ASSUME NEW a, IsSequence(a), NEW b, IsSequence(b), Len(a) <= Len(b),
           \A i \in 1 .. Len(a) : a[i] = b[i]
    PROVE  IsPrefix(a, b) /\ (Len(a) = Len(b) => a = b)
  <1> DEFINE S == ToSet(a) \cup ToSet(b)
  <1>1. a \in Seq(S) /\ b \in Seq(S)
    BY DEF IsSequence
  <1> HIDE DEF S
  <1>2. SubSeq(a, 1, Len(a)) = SubSeq(b, 1, Len(a))
    BY <1>1
  <1>3. Len(a) = Len(b) => a = b
    BY <1>1
  <1> QED BY <1>2, <1>3 DEF IsPrefix

LEMMA AppendedSequence ==
    ASSUME NEW q, IsSequence(q), NEW m
    PROVE  /\ IsSequence(Append(q, m)) /\ Len(Append(q, m)) = Len(q) + 1
           /\ Append(q, m)[Len(q) + 1] = m /\ \A i \in 1 .. Len(q) : Append(q, m)[i] = q[i]
  <1> DEFINE S == ToSet(q) \cup {m}
  <1>1. q \in Seq(S) /\ m \in S
    BY DEF IsSequence
  <1> HIDE DEF S
  <1>2. /\ Append(q, m) \in Seq(S) /\ Len(Append(q, m)) = Len(q) + 1
        /\ Append(q, m)[Len(q) + 1] = m /\ \A i \in 1 .. Len(q) : Append(q, m)[i] = q[i]
    BY <1>1
  <1> QED BY <1>2, SeqIsSequence

\* The message that ReadStream::next takes is the one after the notices.
LEMMA UpcomingAfter ==
    ASSUME NEW t, NEW n \in Nat, n + 1 \in DOMAIN inbox[t], DOMAIN inbox[t] \subseteq Nat,
           \A i \in 1 .. n : i \in DOMAIN inbox[t] /\ inbox[t][i] \in Notices,
           inbox[t][n + 1] \notin Notices, 0 \notin DOMAIN inbox[t]
    PROVE  Upcoming(t) = n + 1
  <1>1. \A i \in DOMAIN inbox[t] :
          (inbox[t][i] \notin Notices /\ \A j \in 1 .. i - 1 : inbox[t][j] \in Notices) <=> i = n + 1
    <2> SUFFICES ASSUME NEW i \in DOMAIN inbox[t], inbox[t][i] \notin Notices,
                        \A j \in 1 .. i - 1 : inbox[t][j] \in Notices
                 PROVE  i = n + 1
      OBVIOUS
    <2>1. i \in Nat /\ i > 0
      OBVIOUS
    <2>2. ~(i <= n)
      BY <2>1
    <2>3. ~(n + 1 <= i - 1)
      BY <2>1
    <2> QED BY <2>1, <2>2, <2>3
  <1> QED BY <1>1 DEF Upcoming

\* What the messages are, by their contents.
LEMMA Contents ==
    /\ \A m \in Notices : m.content \in {"FirstStreamPosition", "LastStreamPosition"}
    /\ \A e : Event(e).content = "Event" /\ Event(e).event = e
    /\ StreamNotFound.content = "StreamNotFound" /\ EndOfStream.content = "end"
    /\ \A e : Status(e).content = "Status" /\ Status(e).error = e
  BY DEF Notices, FirstStreamPosition, LastStreamPosition, Event, StreamNotFound, EndOfStream,
         Status

\* The upcoming message of an open read: that there is no stream, the next event
\* that is owed, an error, or the end when nothing is owed any more.
LEMMA UpcomingMessage ==
    ASSUME NEW t, InboxInv(t), IsSequence(got[t])
    PROVE  \/ Upcoming(t) = 1 /\ inbox[t][1] = StreamNotFound
           \/ \E n \in 0 .. Len(inbox[t]) - 1 :
                /\ ToCome(t, n) /\ Upcoming(t) = n + 1
                /\ \/ /\ n + 1 < Len(inbox[t])
                      /\ inbox[t][n + 1] = Event(owed[t][Len(got[t]) + 1])
                   \/ n + 1 = Len(inbox[t]) /\ inbox[t][n + 1].content = "Status"
                   \/ /\ n + 1 = Len(inbox[t]) /\ inbox[t][n + 1] = EndOfStream
                      /\ Len(got[t]) = Len(owed[t])
  <1>1. Len(inbox[t]) \in Nat /\ DOMAIN inbox[t] = 1 .. Len(inbox[t]) /\ Len(inbox[t]) > 0
    BY SequenceFacts DEF InboxInv
  <1>2. CASE inbox[t][1] = StreamNotFound
    <2>1. inbox[t][1] \notin Notices
      BY <1>2, Contents
    <2>n. PICK n \in Nat : n = 0
      OBVIOUS
    <2>2. /\ n + 1 = 1 /\ n + 1 \in DOMAIN inbox[t] /\ DOMAIN inbox[t] \subseteq Nat
          /\ \A i \in 1 .. n : i \in DOMAIN inbox[t] /\ inbox[t][i] \in Notices
          /\ inbox[t][n + 1] \notin Notices /\ 0 \notin DOMAIN inbox[t]
      BY <1>1, <2>1, <2>n
    <2>3. Upcoming(t) = n + 1
      BY <2>2, UpcomingAfter
    <2> QED BY <1>2, <2>2, <2>3
  <1>3. ASSUME NEW n \in 0 .. Len(inbox[t]) - 1, ToCome(t, n)
        PROVE  /\ Upcoming(t) = n + 1
               /\ \/ /\ n + 1 < Len(inbox[t])
                     /\ inbox[t][n + 1] = Event(owed[t][Len(got[t]) + 1])
                  \/ n + 1 = Len(inbox[t]) /\ inbox[t][n + 1].content = "Status"
                  \/ /\ n + 1 = Len(inbox[t]) /\ inbox[t][n + 1] = EndOfStream
                     /\ Len(got[t]) = Len(owed[t])
    <2>1. Len(got[t]) \in Nat
      BY SequenceFacts
    <2>l. PICK l \in Nat : l = Len(inbox[t])
      BY <1>1
    <2>g. PICK g \in Nat : g = Len(got[t])
      BY <2>1
    <2>n. /\ n \in Nat /\ n + 1 \in DOMAIN inbox[t] /\ DOMAIN inbox[t] \subseteq Nat
          /\ \A i \in 1 .. n : i \in DOMAIN inbox[t] /\ inbox[t][i] \in Notices
          /\ 0 \notin DOMAIN inbox[t]
      <3>1. n \in Nat /\ n < l /\ DOMAIN inbox[t] = 1 .. l
        BY <1>1, <1>3, <2>l
      <3>2. \A i \in 1 .. n : inbox[t][i] \in Notices
        BY <1>3 DEF ToCome
      <3> QED BY <3>1, <3>2
    <2>2. CASE n + 1 < Len(inbox[t])
      <3>1. inbox[t][n + 1] = Event(owed[t][Len(got[t]) + (n + 1) - n])
        BY <1>1, <1>3, <2>2 DEF ToCome
      <3>2. Len(got[t]) + (n + 1) - n = Len(got[t]) + 1
        BY <1>1, <2>1
      <3>3. inbox[t][n + 1] \notin Notices
        BY <3>1, Contents
      <3>4. Upcoming(t) = n + 1
        BY <2>n, <3>3, UpcomingAfter
      <3> QED BY <2>2, <3>1, <3>2, <3>4
    <2>3. CASE n + 1 = Len(inbox[t])
      <3>1. \/ inbox[t][n + 1].content = "Status"
            \/ inbox[t][n + 1] = EndOfStream /\ Len(got[t]) + Len(inbox[t]) - 1 - n = Len(owed[t])
        BY <1>3, <2>3 DEF ToCome
      <3>2. inbox[t][n + 1] \notin Notices
        BY <3>1, Contents
      <3>3. Upcoming(t) = n + 1
        BY <2>n, <3>2, UpcomingAfter
      <3>4. Len(got[t]) + Len(inbox[t]) - 1 - n = Len(got[t])
        <4>1. g + l - 1 - n = g
          BY <2>l, <2>n, <2>3
        <4> QED BY <2>l, <2>g, <4>1
      <3> QED BY <2>3, <3>1, <3>3, <3>4
    <2> QED BY <1>1, <2>2, <2>3
  <1> QED BY <1>2, <1>3 DEF InboxInv

-----------------------------------------------------------------------------
(* What a read is owed *)

LEMMA MinMax ==
    ASSUME NEW x \in Int, NEW y \in Int
    PROVE  /\ Min({x, y}) \in {x, y} /\ Min({x, y}) <= x /\ Min({x, y}) <= y
           /\ Max({x, y}) \in {x, y} /\ Max({x, y}) >= x /\ Max({x, y}) >= y
  <1>1. \E z \in {x, y} : \A v \in {x, y} : z <= v
    OBVIOUS
  <1>2. \E z \in {x, y} : \A v \in {x, y} : z >= v
    OBVIOUS
  <1> QED BY <1>1, <1>2 DEF Min, Max

\* A function on 1 .. n is a sequence, an empty one if n is not positive.
LEMMA FunctionIsSequence ==
    ASSUME NEW n \in Int, NEW f, f = [i \in 1 .. n |-> f[i]]
    PROVE  IsSequence(f) /\ Len(f) = IF n > 0 THEN n ELSE 0
  <1>1. CASE n > 0
    <2>1. \A i \in 1 .. n : f[i] \in ToSet(f)
      BY DEF ToSet
    <2>2. f \in Seq(ToSet(f)) /\ Len(f) = n
      BY <1>1, <2>1
    <2> QED BY <1>1, <2>2 DEF IsSequence
  <1>2. CASE ~(n > 0)
    <2>1. 1 .. n = {}
      BY <1>2
    <2>2. f = [i \in {} |-> f[i]]
      BY <2>1
    <2>3. f = <<>>
      BY <2>2
    <2>4. IsSequence(f)
      BY ONLY <2>3, EmptySequence, Zenon
    <2>5. Len(f) = 0
      BY ONLY <2>3, EmptySequence
    <2> QED BY <1>2, <2>4, <2>5
  <1> QED BY <1>1, <1>2

LEMMA FoundFacts ==
    ASSUME NEW s, StreamShape(s), NEW o, o.max_count \in Nat, o.position.revision \in Nat
    PROVE  /\ IsSequence(Found(s, o))
           /\ Len(s.events) = s.first => Found(s, o) = <<>>
           /\ Len(s.events) # s.first /\ Asks(o) => Len(Found(s, o)) > 0
  <1> DEFINE start == CASE o.position.at = "Start" -> 0
                        [] o.position.at = "End"   -> Len(s.events)
                        [] OTHER                   -> o.position.revision
             forward == o.direction = "Forward"
             last == Len(s.events) - 1
             from == IF forward THEN Max({start, s.first}) ELSE Min({start, last})
             left == IF forward THEN last - from + 1 ELSE from - s.first + 1
             count == Min({left, o.max_count})
  <1>1. Len(s.events) \in Nat /\ s.first \in 0 .. Len(s.events)
    BY SequenceFacts DEF StreamShape
  <1>2. start \in Nat
    BY <1>1
  <1> HIDE DEF start
  <1>3. /\ Max({start, s.first}) \in Int /\ Max({start, s.first}) >= s.first
        /\ Max({start, s.first}) \in {start, s.first}
        /\ Min({start, last}) \in Int /\ Min({start, last}) <= last
        /\ Min({start, last}) \in {start, last}
    <2>1. PICK a, b, c : a = start /\ b = s.first /\ c = last
      OBVIOUS
    <2>2. a \in Int /\ b \in Int /\ c \in Int
      BY <1>1, <1>2, <2>1
    <2>3. /\ Max({a, b}) \in {a, b} /\ Max({a, b}) >= b
          /\ Min({a, c}) \in {a, c} /\ Min({a, c}) <= c
      BY <2>2, MinMax
    <2> QED BY <2>1, <2>2, <2>3
  <1>4. /\ left \in Int
        /\ Len(s.events) = s.first => left <= 0
    <2>1. PICK f, l, a, b : /\ f = s.first /\ l = Len(s.events)
                            /\ a = Max({start, s.first}) /\ b = Min({start, last})
      OBVIOUS
    <2>2. f \in Nat /\ l \in Nat /\ a \in Int /\ b \in Int /\ a >= f /\ b <= l - 1
      BY <1>1, <1>3, <2>1
    <2>3. left = IF forward THEN l - 1 - a + 1 ELSE b - f + 1
      BY <2>1
    <2>4. left \in Int /\ (l = f => left <= 0)
      <3> HIDE DEF left, forward
      <3> QED BY ONLY <2>2, <2>3
    <2> QED BY <2>1, <2>4
  <1>5. Asks(o) /\ Len(s.events) # s.first => left > 0
    <2> SUFFICES ASSUME Asks(o), Len(s.events) # s.first PROVE left > 0
      OBVIOUS
    <2>1. CASE o = ReadStreamOptions(o.max_count)
      <3>1. forward /\ start = 0
        BY <2>1 DEF ReadStreamOptions, Start, start
      <3> QED BY <1>1, <1>3, <3>1
    <2>2. CASE o = position(ReadStreamOptions(o.max_count), End)
      <3>1. o.direction = "Backward" /\ o.position = End
        <4>1. End # Start
          BY DEF End, Start
        <4> QED BY <2>2, <4>1 DEF position, ReadStreamOptions
      <3>2. o.position.at = "End"
        BY <3>1 DEF End
      <3>3. ~forward /\ start = Len(s.events)
        BY <3>1, <3>2 DEF start
      <3>4. Min({start, last}) = last
        BY <1>1, <1>3, <3>3
      <3> QED BY <1>1, <3>3, <3>4
    <2> QED BY <2>1, <2>2 DEF Asks
  <1> HIDE DEF left
  <1>6. count \in Int /\ count \in {left, o.max_count} /\ count <= left
    <2>1. PICK a, b : a = left /\ b = o.max_count
      OBVIOUS
    <2>2. a \in Int /\ b \in Int
      BY <1>4, <2>1
    <2>3. Min({a, b}) \in {a, b} /\ Min({a, b}) <= a
      BY <2>2, MinMax
    <2> QED BY <2>1, <2>2, <2>3
  <1>7. Found(s, o) = [i \in 1 .. count |-> Found(s, o)[i]]
    BY DEF Found, left, start
  <1> HIDE DEF count
  <1>8. IsSequence(Found(s, o)) /\ Len(Found(s, o)) = IF count > 0 THEN count ELSE 0
    BY <1>6, <1>7, FunctionIsSequence
  <1>9. Len(s.events) = s.first => Found(s, o) = <<>>
    BY <1>4, <1>6, <1>8, SequenceFacts
  <1>10. Len(s.events) # s.first /\ Asks(o) => Len(Found(s, o)) > 0
    BY <1>5, <1>6, <1>8 DEF Asks
  <1> QED BY <1>8, <1>9, <1>10

-----------------------------------------------------------------------------
(* The steps of reads *)

LEMMA InitReadsInv == StreamsInit => ReadsInv
  <1> SUFFICES ASSUME StreamsInit, NEW t \in Tasks PROVE ReadInv(t)
    BY DEF ReadsInv
  <1>1. got[t] = <<>> /\ owed[t] = <<>> /\ phase[t] = "idle" /\ result[t].kind = "none"
    BY DEF StreamsInit, NoResult
  <1>2. IsSequence(got[t]) /\ IsSequence(owed[t]) /\ Len(got[t]) = 0 /\ Len(owed[t]) = 0
    BY <1>1, EmptySequence
  <1> QED BY <1>1, <1>2 DEF ReadInv

\* A step of t, which the reads of the others do not notice.
LEMMA StepOfOne ==
    ASSUME ReadsInv, NEW t \in Tasks, ReadInv(t)',
           \A u \in Tasks \ {t} :
               /\ phase'[u] = phase[u] /\ op'[u] = op[u] /\ result'[u] = result[u]
               /\ inbox'[u] = inbox[u] /\ got'[u] = got[u] /\ owed'[u] = owed[u]
    PROVE  ReadsInv'
  <1> SUFFICES ASSUME NEW u \in Tasks \ {t} PROVE ReadInv(u)'
    BY DEF ReadsInv
  <1>1. ReadInv(u)
    BY DEF ReadsInv
  <1> QED BY <1>1, UntouchedKeepsReadInv

\* A step in which t returns something.
LEMMA ReturnKeepsReadsInv ==
    ASSUME AppendInv, ReadsInv, NEW t \in Tasks, UNCHANGED <<op, got, owed>>,
           \A u \in Tasks \ {t} :
               inbox'[u] = inbox[u] /\ phase'[u] = phase[u] /\ result'[u] = result[u],
           phase'[t] = "done",
           result'[t].kind = "End" => Len(got[t]) = Len(owed[t]),
           result'[t].kind = "panic" => ~Asks(op[t].options)
    PROVE  ReadsInv'
  <1>1. ReadInv(t)
    BY DEF ReadsInv
  <1>2. ReadInv(t)'
    BY <1>1 DEF ReadInv, IsSequence, ToSet, Asks
  <1> QED BY <1>2, StepOfOne

LEMMA Returned ==
    ASSUME AppendInv, NEW t \in Tasks, NEW r, Return(t, r)
    PROVE  /\ phase'[t] = "done" /\ result'[t] = r
           /\ \A u \in Tasks \ {t} : phase'[u] = phase[u] /\ result'[u] = result[u]
  BY DEF Return, AppendInv, TaskInv

LEMMA BeginKeepsReadsInv ==
    ASSUME AppendInv, ReadsInv, NEW t \in Tasks, Begin(t)
    PROVE  ReadsInv'
  <1>1. /\ phase'[t] = "sent" /\ result'[t] = NoResult /\ got'[t] = <<>> /\ owed'[t] = <<>>
        /\ \A u \in Tasks \ {t} :
               /\ phase'[u] = phase[u] /\ op'[u] = op[u] /\ result'[u] = result[u]
               /\ inbox'[u] = inbox[u] /\ got'[u] = got[u] /\ owed'[u] = owed[u]
    BY DEF Begin, AppendInv, TaskInv
  <1>2. /\ IsSequence(got'[t]) /\ IsSequence(owed'[t]) /\ Len(got'[t]) = 0 /\ Len(owed'[t]) = 0
        /\ result'[t].kind = "none"
    BY <1>1, EmptySequence DEF NoResult
  <1>3. ReadInv(t)'
    BY <1>1, <1>2 DEF ReadInv
  <1> QED BY <1>1, <1>3, StepOfOne

LEMMA FailureKeepsReadsInv ==
    ASSUME AppendInv, ReadsInv, NEW t \in Tasks, CallFails(t) \/ StreamIsDeleted(t)
    PROVE  ReadsInv'
  <1>1. PICK e : Return(t, Err(e))
    BY DEF CallFails, StreamIsDeleted
  <1>2. UNCHANGED <<op, inbox, got, owed>>
    BY DEF CallFails, StreamIsDeleted, readVars
  <1>3. PICK r : r = Err(e)
    OBVIOUS
  <1>4. Return(t, r) /\ r.kind = "Err"
    BY <1>1, <1>3 DEF Err
  <1>5. /\ phase'[t] = "done" /\ result'[t] = r
        /\ \A u \in Tasks \ {t} : phase'[u] = phase[u] /\ result'[u] = result[u]
    BY <1>4, Returned
  <1> QED BY <1>2, <1>4, <1>5, ReturnKeepsReadsInv

LEMMA WritesKeepReadsInv ==
    ASSUME AppendInv, ReadsInv, NEW t \in Tasks, append_to_stream(t) \/ delete_stream(t)
    PROVE  ReadsInv'
  <1>1. UNCHANGED <<op, inbox, got, owed>>
    BY DEF append_to_stream, delete_stream, readVars
  <1>2. PICK r : Return(t, r) /\ r.kind # "End" /\ r.kind # "panic"
    <2>1. \A e : Err(e).kind = "Err"
      BY DEF Err
    <2>2. \A c : WriteResult(c).kind = "Written"
      BY DEF WriteResult
    <2>3. ASSUME append_to_stream(t)
          PROVE  \/ \E c : Return(t, WriteResult(c))
                 \/ \E e : Return(t, Err(e))
      BY <2>3 DEF append_to_stream, Answered
    <2>4. ASSUME delete_stream(t)
          PROVE  \/ Return(t, [kind |-> "Deleted"])
                 \/ \E e : Return(t, Err(e))
      BY <2>4 DEF delete_stream
    <2>5. CASE append_to_stream(t)
      BY <2>1, <2>2, <2>3, <2>5
    <2>6. CASE delete_stream(t)
      BY <2>1, <2>4, <2>6
    <2> QED BY <2>5, <2>6
  <1>3. /\ phase'[t] = "done" /\ result'[t] = r
        /\ \A u \in Tasks \ {t} : phase'[u] = phase[u] /\ result'[u] = result[u]
    BY <1>2, Returned
  <1> QED BY <1>1, <1>2, <1>3, ReturnKeepsReadsInv

\* The messages of a read that finds something.
LEMMA Delivery ==
    ASSUME NEW found, IsSequence(found), NEW q,
           q = <<FirstStreamPosition, LastStreamPosition>>
                   \o [i \in DOMAIN found |-> Event(found[i])] \o <<EndOfStream>>
    PROVE  /\ IsSequence(q) /\ Len(q) = Len(found) + 3
           /\ \A i \in 1 .. 2 : q[i] \in Notices
           /\ \A i \in 3 .. Len(found) + 2 : q[i] = Event(found[i - 2])
           /\ q[Len(found) + 3] = EndOfStream
  <1>e. PICK events : events = [i \in DOMAIN found |-> Event(found[i])]
    OBVIOUS
  <1>n. PICK n : n = Len(found)
    OBVIOUS
  <1>1. n \in Nat /\ DOMAIN found = 1 .. n
    BY <1>n, SequenceFacts
  <1>2. events = [i \in 1 .. n |-> events[i]] /\ \A i \in 1 .. n : events[i] = Event(found[i])
    BY <1>e, <1>1
  <1>3. IsSequence(events) /\ Len(events) = n
    BY <1>1, <1>2, FunctionIsSequence
  <1>s. PICK S : S = ToSet(events) \cup Notices \cup {EndOfStream}
    OBVIOUS
  <1>4. /\ events \in Seq(S) /\ EndOfStream \in S
        /\ FirstStreamPosition \in S /\ LastStreamPosition \in S
    BY <1>3, <1>s DEF IsSequence, Notices
  <1>5. PICK f, l, z : f = FirstStreamPosition /\ l = LastStreamPosition /\ z = EndOfStream
    OBVIOUS
  <1>6. q = <<f, l>> \o events \o <<z>> /\ f \in S /\ l \in S /\ z \in S
    BY <1>e, <1>4, <1>5
  <1>7. PICK h : h = <<f, l>> \o events
    OBVIOUS
  <1>8. /\ h \in Seq(S) /\ Len(h) = n + 2 /\ h[1] = f /\ h[2] = l
        /\ \A i \in 3 .. n + 2 : h[i] = events[i - 2]
    BY <1>1, <1>3, <1>4, <1>6, <1>7
  <1>9. /\ q \in Seq(S) /\ Len(q) = n + 3 /\ q[n + 3] = z
        /\ \A i \in 1 .. n + 2 : q[i] = h[i]
    <2>1. q = h \o <<z>>
      BY <1>6, <1>7
    <2>2. /\ h \o <<z>> \in Seq(S) /\ Len(h \o <<z>>) = n + 3 /\ (h \o <<z>>)[n + 3] = z
          /\ \A i \in 1 .. n + 2 : (h \o <<z>>)[i] = h[i]
      BY ONLY <1>1, <1>6, <1>8
    <2> QED BY <2>1, <2>2
  <1>10. IsSequence(q)
    BY <1>9, SeqIsSequence
  <1>11. \A i \in 1 .. 2 : q[i] \in Notices
    <2>1. q[1] = f /\ q[2] = l
      BY <1>1, <1>8, <1>9
    <2> QED BY <1>5, <2>1 DEF Notices
  <1>12. ASSUME NEW i \in 3 .. n + 2 PROVE q[i] = Event(found[i - 2])
    <2>1. i \in 1 .. n + 2 /\ i - 2 \in 1 .. n
      BY <1>1
    <2> QED BY <1>2, <1>8, <1>9, <2>1
  <1> QED BY <1>n, <1>5, <1>9, <1>10, <1>11, <1>12

\* The invariant of a read that was just opened.
LEMMA Opened ==
    ASSUME AppendInv, ReadsInv, NEW t \in Tasks, read_stream(t),
           IsSequence(inbox'[t]), Len(inbox'[t]) > 0, IsSequence(owed'[t]),
           \/ inbox'[t][1] = StreamNotFound
           \/ \E n \in 0 .. Len(inbox'[t]) - 1 : ToCome(t, n)',
           op[t].kind = "get" /\ Asks(op[t].options) =>
              \/ inbox'[t][1] = StreamNotFound
              \/ inbox'[t][Len(inbox'[t])].content = "Status"
              \/ Len(owed'[t]) > 0
    PROVE  ReadsInv'
  <1>1. /\ phase[t] = "sent" /\ op[t].kind \in {"read", "get"} /\ phase'[t] = "open"
        /\ UNCHANGED <<op, got, result>>
        /\ \A u \in Tasks \ {t} : /\ phase'[u] = phase[u] /\ inbox'[u] = inbox[u]
                                  /\ owed'[u] = owed[u]
    BY DEF read_stream, AppendInv, TaskInv
  <1>2. /\ got'[t] = <<>> /\ result'[t].kind # "End" /\ result'[t].kind # "panic"
        /\ IsSequence(got'[t]) /\ Len(got'[t]) = 0 /\ op'[t] = op[t]
    BY <1>1, EmptySequence DEF ReadsInv, ReadInv
  <1>3. InboxInv(t)'
    BY DEF InboxInv
  <1>4. op'[t].kind = "get" => GetInv(t)'
    BY <1>2 DEF GetInv, Asks
  <1>5. Len(owed'[t]) \in Nat
    BY SequenceFacts
  <1>6. ReadInv(t)'
    BY <1>1, <1>2, <1>3, <1>4, <1>5 DEF ReadInv
  <1> QED BY <1>1, <1>6, StepOfOne

LEMMA read_streamKeepsReadsInv ==
    ASSUME AppendInv, ReadsInv, NEW t \in Tasks, read_stream(t)
    PROVE  ReadsInv'
  <1>o. PICK o : o = op[t].options
    OBVIOUS
  <1>s. PICK s : s = streams[op[t].stream]
    OBVIOUS
  <1>f. PICK found : found = Found(s, o)
    OBVIOUS
  <1>1. /\ phase[t] = "sent" /\ op[t].kind \in {"read", "get"} /\ op[t] \in workload
        /\ UNCHANGED got /\ workload \in Workloads
    BY DEF read_stream, AppendInv, TaskInv, ServerInv
  <1>2. StreamShape(s) /\ o.max_count \in Nat /\ o.position.revision \in Nat
    BY <1>1, <1>o, <1>s, WorkloadsAssumption DEF AppendInv, ServerInv
  <1>3. /\ IsSequence(found)
        /\ Len(s.events) = s.first => found = <<>>
        /\ Len(s.events) # s.first /\ Asks(o) => Len(found) > 0
    BY <1>2, <1>f, FoundFacts
  <1>4. got'[t] = <<>> /\ Len(got'[t]) = 0
    BY <1>1, EmptySequence DEF ReadsInv, ReadInv
  <1>5. /\ inbox'[t] = IF s.tombstoned THEN <<Status("ResourceDeleted")>>
                       ELSE IF Len(s.events) = s.first THEN <<StreamNotFound, EndOfStream>>
                       ELSE <<FirstStreamPosition, LastStreamPosition>>
                                \o [i \in DOMAIN found |-> Event(found[i])] \o <<EndOfStream>>
        /\ owed'[t] = IF s.tombstoned THEN <<>> ELSE found
    BY <1>o, <1>s, <1>f DEF read_stream, AppendInv, TaskInv
  <1>6. CASE s.tombstoned
    <2>m. PICK m : m = Status("ResourceDeleted")
      OBVIOUS
    <2>1. inbox'[t] = <<m>> /\ owed'[t] = <<>> /\ m.content = "Status"
      BY <1>5, <1>6, <2>m, Contents
    <2>2. <<m>> \in Seq({m}) /\ Len(<<m>>) = 1 /\ <<m>>[1] = m
      OBVIOUS
    <2>3. IsSequence(<<m>>)
      BY <2>2, SeqIsSequence
    <2>4. /\ IsSequence(inbox'[t]) /\ Len(inbox'[t]) = 1 /\ inbox'[t][1].content = "Status"
          /\ IsSequence(owed'[t]) /\ Len(owed'[t]) = 0
      BY <2>1, <2>2, <2>3, EmptySequence
    <2>5. ToCome(t, 0)'
      BY <1>4, <2>4 DEF ToCome
    <2> QED BY <2>4, <2>5, Opened
  <1>7. CASE ~s.tombstoned /\ Len(s.events) = s.first
    <2>m. PICK m, z : m = StreamNotFound /\ z = EndOfStream
      OBVIOUS
    <2>1. inbox'[t] = <<m, z>> /\ owed'[t] = found
      BY <1>5, <1>7, <2>m
    <2>2. <<m, z>> \in Seq({m, z}) /\ Len(<<m, z>>) = 2 /\ <<m, z>>[1] = m
      OBVIOUS
    <2>3. IsSequence(<<m, z>>)
      BY <2>2, SeqIsSequence
    <2>4. /\ IsSequence(inbox'[t]) /\ Len(inbox'[t]) > 0 /\ inbox'[t][1] = StreamNotFound
          /\ IsSequence(owed'[t])
      BY <1>3, <2>m, <2>1, <2>2, <2>3
    <2> QED BY <2>4, Opened
  <1>8. CASE ~s.tombstoned /\ Len(s.events) # s.first
    <2>q. PICK q : q = inbox'[t]
      OBVIOUS
    <2>n. PICK n : n = Len(found)
      OBVIOUS
    <2>1. /\ q = <<FirstStreamPosition, LastStreamPosition>>
                     \o [i \in DOMAIN found |-> Event(found[i])] \o <<EndOfStream>>
          /\ owed'[t] = found
      BY <1>5, <1>8, <2>q
    <2>2. /\ IsSequence(q) /\ Len(q) = Len(found) + 3
          /\ \A i \in 1 .. 2 : q[i] \in Notices
          /\ \A i \in 3 .. Len(found) + 2 : q[i] = Event(found[i - 2])
          /\ q[Len(found) + 3] = EndOfStream
      BY <1>3, <2>1, Delivery
    <2>3. n \in Nat
      BY <1>3, <2>n, SequenceFacts
    <2>4. PICK two \in Nat : two = 2
      OBVIOUS
    <2>5. ToCome(t, two)'
      <3>1. /\ Len(inbox'[t]) = n + 3 /\ Len(owed'[t]) = n
        BY <2>q, <2>n, <2>1, <2>2
      <3>2. \A i \in 1 .. two : inbox'[t][i] \in Notices
        BY <2>q, <2>2, <2>4
      <3>3. Len(got'[t]) + Len(inbox'[t]) - 1 - two = Len(owed'[t])
        BY <1>4, <2>3, <2>4, <3>1
      <3>4. ASSUME NEW i \in two + 1 .. Len(inbox'[t]) - 1
            PROVE  inbox'[t][i] = Event(owed'[t][Len(got'[t]) + i - two])
        <4>1. i \in 3 .. n + 2 /\ 0 + i - two = i - 2
          BY <2>3, <2>4, <3>1
        <4>2. q[i] = Event(found[i - 2])
          BY <2>n, <2>2, <4>1
        <4> QED BY <1>4, <2>q, <2>1, <4>1, <4>2
      <3>5. inbox'[t][Len(inbox'[t])] = EndOfStream
        BY <2>q, <2>n, <2>2, <3>1
      <3>6. Len(owed'[t]) <= Len(owed'[t])
        BY <2>3, <3>1
      <3> QED BY <3>2, <3>3, <3>4, <3>5, <3>6 DEF ToCome
    <2>6. /\ IsSequence(inbox'[t]) /\ Len(inbox'[t]) > 0 /\ IsSequence(owed'[t])
          /\ two \in 0 .. Len(inbox'[t]) - 1
          /\ Asks(op[t].options) => Len(owed'[t]) > 0
      BY <1>o, <1>3, <1>8, <2>q, <2>n, <2>1, <2>2, <2>3, <2>4
    <2> QED BY <2>5, <2>6, Opened
  <1> QED BY <1>6, <1>7, <1>8

LEMMA BreakKeepsReadsInv ==
    ASSUME AppendInv, ReadsInv, NEW t \in Tasks, Break(t)
    PROVE  ReadsInv'
  <1>q. PICK q : q = inbox[t]
    OBVIOUS
  <1>l. PICK l, g, w : l = Len(q) /\ g = Len(got[t]) /\ w = Len(owed[t])
    OBVIOUS
  <1>m. PICK m : m = Status("ServerError")
    OBVIOUS
  <1>1. /\ phase[t] = "open" /\ UNCHANGED <<phase, op, got, owed, result>>
        /\ \A u \in Tasks \ {t} : inbox'[u] = inbox[u]
    BY DEF Break, AppendInv, TaskInv
  <1>2. ReadInv(t) /\ InboxInv(t)
    BY <1>1 DEF ReadsInv, ReadInv
  <1>3. IsSequence(q) /\ l \in Nat /\ l > 0 /\ g \in Nat /\ w \in Nat /\ g <= w
    BY <1>q, <1>l, <1>2, SequenceFacts DEF ReadInv, InboxInv
  <1>4. PICK k \in 0 .. l - 1 : inbox'[t] = SubSeq(q, 1, k) \o <<m>>
    BY <1>q, <1>l, <1>m DEF Break, AppendInv, TaskInv
  <1>r. PICK r : r = SubSeq(q, 1, k) \o <<m>>
    OBVIOUS
  <1>5. /\ IsSequence(r) /\ Len(r) = k + 1 /\ r[k + 1] = m
        /\ \A i \in 1 .. k : r[i] = q[i]
    <2>1. IsSequence(q) /\ k \in 0 .. Len(q) - 1 /\ r = SubSeq(q, 1, k) \o <<m>>
      BY <1>l, <1>3, <1>r
    <2>s. PICK S : S = ToSet(q) \cup {m}
      OBVIOUS
    <2>2. q \in Seq(S) /\ m \in S
      BY <2>s, <2>1 DEF IsSequence
    <2>3. /\ SubSeq(q, 1, k) \in Seq(S) /\ Len(SubSeq(q, 1, k)) = k
          /\ \A i \in 1 .. k : SubSeq(q, 1, k)[i] = q[i]
      BY <2>1, <2>2
    <2>4. r \in Seq(S) /\ Len(r) = k + 1 /\ r[k + 1] = m /\ \A i \in 1 .. k : r[i] = q[i]
      BY <2>1, <2>2, <2>3
    <2> QED BY <2>4, SeqIsSequence
  <1>6. inbox'[t] = r /\ k \in Nat /\ Len(inbox'[t]) = k + 1 /\ m.content = "Status"
    BY <1>3, <1>4, <1>r, <1>5, <1>m, Contents
  <1>7. ASSUME NEW n \in 0 .. k,
               \A i \in 1 .. n : q[i] \in Notices, g + k - n <= w,
               \A i \in n + 1 .. k : q[i] = Event(owed[t][g + i - n])
        PROVE  n \in 0 .. Len(inbox'[t]) - 1 /\ ToCome(t, n)'
    <2>1. n \in 0 .. Len(inbox'[t]) - 1
      BY <1>6
    <2>2. \A i \in 1 .. n : inbox'[t][i] \in Notices
      BY <1>5, <1>6, <1>7
    <2>3. Len(got'[t]) + Len(inbox'[t]) - 1 - n <= Len(owed'[t])
      <3>1. g + (k + 1) - 1 - n <= w
        BY <1>3, <1>6, <1>7
      <3> QED BY <1>1, <1>l, <1>6, <3>1
    <2>4. ASSUME NEW i \in n + 1 .. Len(inbox'[t]) - 1
          PROVE  inbox'[t][i] = Event(owed'[t][Len(got'[t]) + i - n])
      <3>1. i \in n + 1 .. k /\ i \in 1 .. k
        BY <1>6
      <3> QED BY <1>1, <1>l, <1>5, <1>6, <1>7, <3>1
    <2>5. inbox'[t][Len(inbox'[t])].content = "Status"
      BY <1>5, <1>6
    <2> QED BY <2>1, <2>2, <2>3, <2>4, <2>5 DEF ToCome
  <1>8. \/ inbox'[t][1] = StreamNotFound
        \/ \E n \in 0 .. Len(inbox'[t]) - 1 : ToCome(t, n)'
    <2>1. CASE q[1] = StreamNotFound /\ k > 0
      BY <1>5, <1>6, <2>1
    <2>2. CASE k = 0
      <3>1. PICK n \in 0 .. k : n = 0
        BY <1>6
      <3>2. /\ \A i \in 1 .. n : q[i] \in Notices
            /\ g + k - n <= w
            /\ \A i \in n + 1 .. k : q[i] = Event(owed[t][g + i - n])
        BY <1>3, <2>2, <3>1
      <3>3. n \in 0 .. Len(inbox'[t]) - 1 /\ ToCome(t, n)'
        BY <1>7, <3>2
      <3> QED BY <3>3
    <2>3. ASSUME NEW n \in 0 .. Len(q) - 1, ToCome(t, n)
          PROVE  \E j \in 0 .. Len(inbox'[t]) - 1 : ToCome(t, j)'
      <3>1. /\ n \in Nat /\ n < l
            /\ \A i \in 1 .. n : q[i] \in Notices
            /\ g + l - 1 - n <= w
            /\ \A i \in n + 1 .. l - 1 : q[i] = Event(owed[t][g + i - n])
        <4>1. n \in 0 .. l - 1
          BY <1>l, <2>3
        <4>2. /\ \A i \in 1 .. n : q[i] \in Notices
              /\ g + l - 1 - n <= w
              /\ \A i \in n + 1 .. l - 1 : q[i] = Event(owed[t][g + i - n])
          BY <1>q, <1>l, <2>3 DEF ToCome
        <4> QED BY <1>3, <4>1, <4>2
      <3>2. PICK j \in 0 .. k : j = IF n <= k THEN n ELSE k
        BY <1>6, <3>1
      <3>3. \A i \in 1 .. j : q[i] \in Notices
        BY <1>6, <3>1, <3>2
      <3>4. g + k - j <= w
        BY <1>3, <1>6, <3>1, <3>2
      <3>5. \A i \in j + 1 .. k : q[i] = Event(owed[t][g + i - j])
        <4>1. CASE n <= k
          <5>1. j = n /\ k <= l - 1 /\ k \in Nat /\ n \in Nat /\ l \in Nat
            BY <1>3, <1>6, <3>1, <3>2, <4>1
          <5>2. \A i \in n + 1 .. k : i \in n + 1 .. l - 1
            BY ONLY <5>1
          <5> QED BY <3>1, <5>1, <5>2
        <4>2. CASE ~(n <= k)
          BY <1>6, <3>1, <3>2, <4>2
        <4> QED BY <4>1, <4>2
      <3>6. j \in 0 .. Len(inbox'[t]) - 1 /\ ToCome(t, j)'
        BY <1>7, <3>3, <3>4, <3>5
      <3> QED BY <3>6
    <2>4. q[1] = StreamNotFound \/ \E n \in 0 .. Len(q) - 1 : ToCome(t, n)
      BY <1>q, <1>2 DEF InboxInv
    <2> QED BY <1>6, <2>1, <2>2, <2>3, <2>4
  <1>9. InboxInv(t)'
    BY <1>5, <1>6, <1>8 DEF InboxInv
  <1>10. op[t].kind = "get" => GetInv(t)'
    BY <1>1, <1>2, <1>5, <1>6 DEF ReadInv, GetInv
  <1>11. ReadInv(t)'
    BY <1>1, <1>2, <1>9, <1>10 DEF ReadInv, IsSequence, ToSet, Asks
  <1> QED BY <1>1, <1>11, StepOfOne

LEMMA get_stream_metadataKeepsReadsInv ==
    ASSUME AppendInv, ReadsInv, NEW t \in Tasks, get_stream_metadata(t)
    PROVE  ReadsInv'
  <1>m. PICK m : m = inbox[t][Upcoming(t)]
    OBVIOUS
  <1>1. /\ phase[t] = "open" /\ op[t].kind = "get" /\ UNCHANGED <<op, got, owed>>
        /\ \A u \in Tasks \ {t} : inbox'[u] = inbox[u]
    BY DEF get_stream_metadata, AppendInv, TaskInv
  <1>2. PICK r : /\ Return(t, r) /\ r.kind # "End"
                 /\ r.kind = "panic" => m.content = "end"
    <2>1. \A e : Err(e).kind = "Err"
      BY DEF Err
    <2>2. \/ \E e : Return(t, Err(e))
          \/ \E v, d : Return(t, [kind |-> "Success", version |-> v, metadata |-> d])
          \/ Return(t, [kind |-> "NotFound"])
          \/ Return(t, [kind |-> "Deleted"])
          \/ m.content = "end" /\ Return(t, [kind |-> "panic"])
      BY <1>m DEF get_stream_metadata
    <2>3. PICK r : /\ Return(t, r)
                   /\ \/ \E e : r = Err(e)
                      \/ \E v, d : r = [kind |-> "Success", version |-> v, metadata |-> d]
                      \/ r = [kind |-> "NotFound"] \/ r = [kind |-> "Deleted"]
                      \/ m.content = "end" /\ r = [kind |-> "panic"]
      BY <2>2, Zenon
    <2>4. /\ r.kind # "End"
          /\ r.kind = "panic" => m.content = "end"
      BY <2>1, <2>3
    <2> QED BY <2>3, <2>4
  <1>3. /\ phase'[t] = "done" /\ result'[t] = r
        /\ \A u \in Tasks \ {t} : phase'[u] = phase[u] /\ result'[u] = result[u]
    BY <1>2, Returned
  <1>4. /\ InboxInv(t) /\ GetInv(t) /\ IsSequence(got[t]) /\ Len(got[t]) = 0
    BY <1>1, EmptySequence DEF ReadsInv, ReadInv, GetInv
  <1>5. r.kind = "panic" => ~Asks(op[t].options)
    <2> SUFFICES ASSUME m.content = "end" PROVE ~Asks(op[t].options)
      BY <1>2
    <2>1. PICK n \in 0 .. Len(inbox[t]) - 1 :
            /\ Upcoming(t) = n + 1 /\ n + 1 = Len(inbox[t])
            /\ inbox[t][n + 1] = EndOfStream /\ Len(got[t]) = Len(owed[t])
            /\ ToCome(t, n)
      BY <1>m, <1>4, UpcomingMessage, Contents
    <2>2. inbox[t][1] # StreamNotFound
      <3>1. CASE n = 0
        BY <2>1, <3>1, Contents
      <3>2. CASE n > 0
        <4>1. 1 \in 1 .. n
          BY <3>2
        <4>2. inbox[t][1] \in Notices
          BY <2>1, <4>1 DEF ToCome
        <4> QED BY <4>2, Contents
      <3>3. n \in Nat
        BY <2>1, <1>4, SequenceFacts DEF InboxInv
      <3> QED BY <3>1, <3>2, <3>3
    <2>3. inbox[t][Len(inbox[t])].content # "Status"
      BY <2>1, Contents
    <2>4. ~(Len(owed[t]) > 0)
      BY <1>4, <2>1
    <2> QED BY <1>4, <2>2, <2>3, <2>4 DEF GetInv
  <1> QED BY <1>1, <1>2, <1>3, <1>5, ReturnKeepsReadsInv

\* The event that is returned is the next one that is owed.
LEMMA EventKeepsReadsInv ==
    ASSUME AppendInv, ReadsInv, NEW t \in Tasks, next(t),
           inbox[t][Upcoming(t)].content = "Event"
    PROVE  ReadsInv'
  <1>q. PICK q, r, a, b : q = inbox[t] /\ r = inbox'[t] /\ a = got[t] /\ b = got'[t]
    OBVIOUS
  <1>l. PICK l, g, w : l = Len(q) /\ g = Len(a) /\ w = Len(owed[t])
    OBVIOUS
  <1>1. /\ phase[t] = "open" /\ op[t].kind = "read" /\ UNCHANGED <<op, owed>>
        /\ \A u \in Tasks \ {t} : inbox'[u] = inbox[u]
    BY DEF next, AppendInv, TaskInv
  <1>2. /\ UNCHANGED <<phase, result>>
        /\ got' = [got EXCEPT ![t] = Append(@, inbox[t][Upcoming(t)].event)]
        /\ r = SubSeq(q, Upcoming(t) + 1, l)
    BY <1>q, <1>l DEF next, AppendInv, TaskInv
  <1>3. ReadInv(t) /\ InboxInv(t) /\ IsSequence(got[t])
    BY <1>1 DEF ReadsInv, ReadInv
  <1>4. /\ IsSequence(q) /\ IsSequence(a) /\ l \in Nat /\ l > 0 /\ g \in Nat /\ w \in Nat
    BY <1>q, <1>l, <1>3, SequenceFacts DEF ReadInv, InboxInv
  <1>5. PICK n \in 0 .. Len(inbox[t]) - 1 :
          /\ ToCome(t, n) /\ Upcoming(t) = n + 1
          /\ n + 1 < Len(inbox[t]) /\ inbox[t][n + 1] = Event(owed[t][Len(got[t]) + 1])
    BY <1>3, UpcomingMessage, Contents
  <1>6. n \in Nat /\ n + 1 < l
    BY <1>q, <1>l, <1>4, <1>5
  <1>7. /\ g + l - 1 - n <= w
        /\ \A i \in n + 1 .. l - 1 : q[i] = Event(owed[t][g + i - n])
        /\ \/ q[l].content = "Status"
           \/ q[l] = EndOfStream /\ g + l - 1 - n = w
    BY <1>q, <1>l, <1>5 DEF ToCome
  <1>8. /\ b = Append(a, owed[t][g + 1])
        /\ \A u \in Tasks \ {t} : got'[u] = got[u]
    BY <1>q, <1>l, <1>2, <1>5, Contents DEF AppendInv, TaskInv
  <1>9. /\ IsSequence(b) /\ Len(b) = g + 1
        /\ b[g + 1] = owed[t][g + 1] /\ \A i \in 1 .. g : b[i] = a[i]
    <2>1. PICK e : e = owed[t][g + 1]
      OBVIOUS
    <2>2. b = Append(a, e) /\ IsSequence(a) /\ g = Len(a)
      BY <1>l, <1>4, <1>8, <2>1
    <2>3. /\ IsSequence(b) /\ Len(b) = g + 1
          /\ b[g + 1] = e /\ \A i \in 1 .. g : b[i] = a[i]
      BY <2>2, AppendedSequence
    <2> QED BY <2>1, <2>3
  <1>k. PICK k \in Nat : k = n + 1
    BY <1>6
  <1>10. /\ IsSequence(r) /\ Len(r) = l - k
         /\ \A i \in 1 .. l - k : r[i] = q[k + i]
    <2>1. IsSequence(q) /\ k \in 1 .. Len(q) /\ r = SubSeq(q, k + 1, Len(q))
      BY <1>l, <1>2, <1>4, <1>5, <1>6, <1>k
    <2>s. PICK S : S = ToSet(q)
      OBVIOUS
    <2>2. q \in Seq(S)
      BY <2>s, <2>1 DEF IsSequence
    <2>3. r \in Seq(S) /\ Len(r) = Len(q) - k /\ \A i \in 1 .. Len(q) - k : r[i] = q[k + i]
      BY <2>1, <2>2
    <2> QED BY <1>l, <2>3, SeqIsSequence
  <1>11. /\ l - k \in Nat /\ l - k > 0 /\ g + 1 <= w
         /\ g + 1 + (l - k) - 1 - 0 = g + l - 1 - n
    BY <1>4, <1>6, <1>7, <1>k
  <1>12. ToCome(t, 0)'
    <2>1. Len(got'[t]) = g + 1 /\ Len(inbox'[t]) = l - k /\ Len(owed'[t]) = w
      BY <1>q, <1>l, <1>1, <1>9, <1>10
    <2>2. Len(got'[t]) + Len(inbox'[t]) - 1 - 0 = g + l - 1 - n
      BY <1>11, <2>1
    <2>3. ASSUME NEW i \in 0 + 1 .. Len(inbox'[t]) - 1
          PROVE  inbox'[t][i] = Event(owed'[t][Len(got'[t]) + i - 0])
      <3>1. /\ i \in 1 .. l - k /\ k + i \in n + 1 .. l - 1
            /\ g + (k + i) - n = g + 1 + i - 0
        BY <1>4, <1>6, <1>k, <1>11, <2>1
      <3>2. r[i] = Event(owed[t][g + (k + i) - n])
        BY <1>7, <1>10, <3>1
      <3> QED BY <1>q, <1>1, <2>1, <3>1, <3>2
    <2>4. inbox'[t][Len(inbox'[t])] = q[l]
      <3>1. l - k \in 1 .. l - k /\ k + (l - k) = l
        <4>1. l \in Nat /\ k \in Nat /\ l - k > 0
          BY <1>4, <1>k, <1>11
        <4> QED BY ONLY <4>1
      <3> QED BY <1>q, <1>10, <2>1, <3>1
    <2>5. \A i \in 1 .. 0 : inbox'[t][i] \in Notices
      OBVIOUS
    <2> QED BY <1>7, <2>1, <2>2, <2>3, <2>4, <2>5 DEF ToCome
  <1>13. InboxInv(t)'
    BY <1>q, <1>10, <1>11, <1>12 DEF InboxInv
  <1>14. ReadInv(t)'
    <2>1. /\ IsSequence(got'[t]) /\ IsSequence(owed'[t]) /\ Len(got'[t]) <= Len(owed'[t])
      BY <1>q, <1>l, <1>1, <1>3, <1>9, <1>11 DEF ReadInv
    <2>2. ASSUME NEW i \in 1 .. Len(got'[t]) PROVE got'[t][i] = owed'[t][i]
      <3>1. \A j \in 1 .. g : a[j] = owed[t][j]
        BY <1>q, <1>l, <1>3 DEF ReadInv
      <3>2. i \in 1 .. g \/ i = g + 1
        BY <1>q, <1>4, <1>9
      <3> QED BY <1>q, <1>1, <1>9, <3>1, <3>2
    <2>3. /\ phase'[t] = "open" /\ op'[t].kind = "read"
          /\ result'[t].kind # "End" /\ result'[t].kind # "panic"
      BY <1>1, <1>2, <1>3 DEF ReadInv
    <2> QED BY <1>13, <2>1, <2>2, <2>3 DEF ReadInv
  <1> QED BY <1>1, <1>2, <1>8, <1>14, StepOfOne

LEMMA nextKeepsReadsInv ==
    ASSUME AppendInv, ReadsInv, NEW t \in Tasks, next(t)
    PROVE  ReadsInv'
  <1>m. PICK m : m = inbox[t][Upcoming(t)]
    OBVIOUS
  <1>1. /\ phase[t] = "open" /\ op[t].kind = "read" /\ UNCHANGED <<op, owed>>
        /\ \A u \in Tasks \ {t} : inbox'[u] = inbox[u]
    BY DEF next, AppendInv, TaskInv
  <1>2. CASE m.content = "Event"
    BY <1>m, <1>2, EventKeepsReadsInv
  <1>3. CASE m.content # "Event"
    <2>1. /\ UNCHANGED got
          /\ \/ \E e : Return(t, Err(e))
             \/ m.content = "end" /\ Return(t, [kind |-> "End"])
      BY <1>m, <1>3 DEF next
    <2>2. \A e : Err(e).kind = "Err"
      BY DEF Err
    <2>3. PICK r : /\ Return(t, r) /\ r.kind # "panic"
                   /\ r.kind = "End" => m.content = "end"
      BY <2>1, <2>2
    <2>4. /\ phase'[t] = "done" /\ result'[t] = r
          /\ \A u \in Tasks \ {t} : phase'[u] = phase[u] /\ result'[u] = result[u]
      BY <2>3, Returned
    <2>5. InboxInv(t) /\ IsSequence(got[t])
      BY <1>1 DEF ReadsInv, ReadInv
    <2>6. m.content = "end" => Len(got[t]) = Len(owed[t])
      BY <1>m, <2>5, UpcomingMessage, Contents
    <2> QED BY <1>1, <2>1, <2>3, <2>4, <2>6, ReturnKeepsReadsInv
  <1> QED BY <1>2, <1>3

LEMMA NextKeepsReadsInv == AppendInv /\ ReadsInv /\ [StreamsNext]_streamsVars => ReadsInv'
  <1> SUFFICES ASSUME AppendInv, ReadsInv, [StreamsNext]_streamsVars PROVE ReadsInv'
    OBVIOUS
  <1>1. ASSUME NEW t \in Tasks, StreamsStep(t) PROVE ReadsInv'
    BY <1>1, BeginKeepsReadsInv, FailureKeepsReadsInv, WritesKeepReadsInv,
       read_streamKeepsReadsInv, BreakKeepsReadsInv, nextKeepsReadsInv,
       get_stream_metadataKeepsReadsInv DEF StreamsStep
  <1>2. CASE UNCHANGED streamsVars
    <2>1. UNCHANGED <<phase, op, inbox, got, owed, result>>
      BY <1>2 DEF streamsVars, readVars
    <2> SUFFICES ASSUME NEW u \in Tasks PROVE ReadInv(u)'
      BY DEF ReadsInv
    <2>2. ReadInv(u)
      BY DEF ReadsInv
    <2> QED BY <2>1, <2>2, UntouchedKeepsReadInv
  <1> QED BY <1>1, <1>2 DEF StreamsNext, StreamsRest

LEMMA ReadsInvariance == StreamsSpec => []ReadsInv
  BY InitReadsInv, NextKeepsReadsInv, AppendInvariance, PTL DEF StreamsSpec

\* A read returns the events that the server found, in their order, and all of them
\* if it ends without an error, wherever the call breaks (ReadStream::next).
THEOREM ReadsAreComplete == StreamsSpec => []ReadIsComplete
  <1>1. ReadsInv => ReadIsComplete
    <2> SUFFICES ASSUME ReadsInv, NEW t \in Tasks
                 PROVE  /\ IsPrefix(got[t], owed[t])
                        /\ result[t].kind = "End" => got[t] = owed[t]
      BY DEF ReadIsComplete
    <2>1. PICK a, b : a = got[t] /\ b = owed[t]
      OBVIOUS
    <2>2. /\ IsSequence(a) /\ IsSequence(b) /\ Len(a) <= Len(b)
          /\ \A i \in 1 .. Len(a) : a[i] = b[i]
          /\ result[t].kind = "End" => Len(a) = Len(b)
      BY <2>1 DEF ReadsInv, ReadInv
    <2>3. IsPrefix(a, b) /\ (Len(a) = Len(b) => a = b)
      BY <2>2, PrefixFacts
    <2> QED BY <2>1, <2>2, <2>3
  <1> QED BY <1>1, ReadsInvariance, PTL

\* get_stream_metadata with its default options, or from the end, does not run into
\* the end of the read that it takes for impossible.
THEOREM DefaultsNeverPanic == StreamsSpec => []DefaultsDoNotPanic
  <1>1. ReadsInv => DefaultsDoNotPanic
    BY DEF ReadsInv, ReadInv, DefaultsDoNotPanic, Asks
  <1> QED BY <1>1, ReadsInvariance, PTL

-----------------------------------------------------------------------------
(* Metadata *)

\* Metadata as an application sets it.
Plain(m) ==
    LET acl == m.fields["$acl"]
    IN  /\ IsMetadata(m) /\ Serialize(m) # Invalid /\ WholeMillis(m) # Invalid
        /\ acl # Invalid
        /\ acl # None /\ acl[1] = "Stream" => \A k \in RoleKeys : acl[2][k] # Invalid

LEMMA RolesRoundTrip ==
    ASSUME NEW roles \in Seq(STRING)
    PROVE  deserialize_roles(serialize_roles(roles)) = roles
  <1>1. CASE Len(roles) = 1
    <2>1. roles = <<roles[1]>>
      BY <1>1
    <2>2. serialize_roles(roles) = <<"string", roles[1]>>
      BY <1>1 DEF serialize_roles, Str
    <2>3. deserialize_roles(<<"string", roles[1]>>) = <<roles[1]>>
      BY DEF deserialize_roles
    <2> QED BY <2>1, <2>2, <2>3
  <1>2. CASE Len(roles) # 1
    BY <1>2 DEF serialize_roles, deserialize_roles, Arr
  <1> QED BY <1>1, <1>2

LEMMA AclRoundTrip ==
    ASSUME NEW v, IsAcl(v), v[1] = "Stream" => \A k \in RoleKeys : v[2][k] # Invalid
    PROVE  deserialize_acl(serialize_acl(v)) = v
  <1>1. /\ UserStream # SystemStream /\ \A a : Stream(a) # UserStream /\ Stream(a) # SystemStream
        /\ \A a : Stream(a)[1] = "Stream" /\ Stream(a)[2] = a
    BY DEF UserStream, SystemStream, Stream
  <1>2. CASE v = UserStream
    BY <1>2 DEF serialize_acl, deserialize_acl, Str
  <1>3. CASE v = SystemStream
    BY <1>1, <1>3 DEF serialize_acl, deserialize_acl, Str
  <1>4. CASE v = Stream(v[2]) /\ v[2] \in [RoleKeys -> {None} \cup Seq(STRING)]
    <2>1. PICK acl : acl = v[2]
      OBVIOUS
    <2>2. PICK set : set = {k \in RoleKeys : acl[k] # None}
      OBVIOUS
    <2>3. PICK f : f = [k \in set |-> serialize_roles(acl[k])]
      OBVIOUS
    <2>4. serialize_acl(v) = <<"object", f>>
      <3>1. v # UserStream /\ v # SystemStream
        BY <1>1, <1>4
      <3> QED BY <2>1, <2>2, <2>3, <3>1 DEF serialize_acl, Obj
    <2>5. acl \in [RoleKeys -> {None} \cup Seq(STRING)] /\ \A k \in RoleKeys : acl[k] # Invalid
      BY <1>1, <1>4, <2>1
    <2>6. \A k \in set : deserialize_roles(f[k]) = acl[k]
      BY <2>2, <2>3, <2>5, RolesRoundTrip
    <2>7. [k \in RoleKeys |-> IF k \in DOMAIN f THEN deserialize_roles(f[k]) ELSE None] = acl
      BY <2>2, <2>3, <2>5, <2>6
    <2>8. deserialize_acl(<<"object", f>>) = Stream(acl)
      <3>1. PICK x : x = <<"object", f>>
        OBVIOUS
      <3>2. x[1] = "object" /\ x[2] = f /\ x # Str("$userStreamAcl") /\ x # Str("$systemStreamAcl")
        BY <3>1 DEF Str
      <3>3. deserialize_acl(x) =
              LET a == [k \in RoleKeys |-> IF k \in DOMAIN x[2] THEN deserialize_roles(x[2][k]) ELSE None]
              IN  IF \E k \in DOMAIN a : a[k] = Invalid THEN Invalid ELSE Stream(a)
        BY <3>2 DEF deserialize_acl
      <3>4. deserialize_acl(x) = IF \E k \in DOMAIN acl : acl[k] = Invalid THEN Invalid ELSE Stream(acl)
        BY <2>7, <3>2, <3>3
      <3> QED BY <2>5, <3>1, <3>4
    <2> QED BY <1>4, <2>1, <2>4, <2>8
  <1> QED BY <1>2, <1>3, <1>4 DEF IsAcl

LEMMA FieldRoundTrip ==
    ASSUME NEW m, Plain(m), Expressible(m), NEW k \in SystemKeys, m.fields[k] # None
    PROVE  /\ DeserializeField(k, SerializeField(k, m.fields[k])) = WholeMillis(m).fields[k]
           /\ WholeMillis(m).fields[k] # Invalid
  <1>v. PICK v : v = m.fields[k]
    OBVIOUS
  <1>1. WholeMillis(m).fields[k] = IF k \in Durations THEN from_millis(as_millis(v)) ELSE v
    BY <1>v DEF WholeMillis
  <1>2. CASE k \in Counters
    <2>1. v \in Nat /\ k \notin Durations /\ k # "$acl"
      BY <1>v, <1>2 DEF Plain, IsMetadata, Counters, Durations
    <2>2. SerializeField(k, v) = <<"number", v>>
      BY <1>2, <2>1 DEF SerializeField, Num
    <2>3. DeserializeField(k, <<"number", v>>) = v
      BY <1>2, <2>1 DEF DeserializeField, deserialize_number, Null
    <2> QED BY <1>v, <1>1, <2>1, <2>2, <2>3, InvalidAssumption
  <1>3. CASE k \in Durations
    <2>1. v \in Nat /\ k \notin Counters /\ k # "$acl"
      BY <1>v, <1>3 DEF Plain, IsMetadata, Counters, Durations
    <2>2. PICK n : n = as_millis(v)
      OBVIOUS
    <2>3. n \in Nat /\ n < U64 /\ U64 \in Nat
      <3>1. n \in Nat
        BY <2>1, <2>2, WidthsAssumption DEF as_millis
      <3> QED BY <1>v, <1>3, <2>2, <3>1, WidthsAssumption DEF Expressible
    <2>4. AsU64(n) = n /\ from_millis(n) \in Nat
      <3>1. n % U64 = n
        BY <2>3
      <3>2. n * TicksPerMilli \in Nat
        BY <2>3, WidthsAssumption
      <3> QED BY <3>1, <3>2 DEF AsU64, from_millis
    <2>5. SerializeField(k, v) = <<"number", n>>
      BY <1>3, <2>1, <2>2, <2>4 DEF SerializeField, serialize_duration, Num
    <2>6. DeserializeField(k, <<"number", n>>) = from_millis(n)
      BY <1>3, <2>1 DEF DeserializeField, deserialize_duration
    <2> QED BY <1>v, <1>1, <1>3, <2>2, <2>4, <2>5, <2>6, InvalidAssumption
  <1>4. CASE k = "$acl"
    <2>1. k \notin Counters /\ k \notin Durations
      BY <1>4 DEF Counters, Durations
    <2>2. /\ IsAcl(v) /\ v # Invalid
          /\ v[1] = "Stream" => \A r \in RoleKeys : v[2][r] # Invalid
      BY <1>v, <1>4 DEF Plain, IsMetadata
    <2>3. SerializeField(k, v) = serialize_acl(v)
      BY <1>4, <2>1 DEF SerializeField
    <2>4. \A x : DeserializeField(k, x) = deserialize_acl(x)
      BY <1>4, <2>1 DEF DeserializeField
    <2>5. deserialize_acl(serialize_acl(v)) = v
      BY <2>2, AclRoundTrip
    <2> QED BY <1>v, <1>1, <2>1, <2>2, <2>3, <2>4, <2>5
  <1> QED BY <1>2, <1>3, <1>4 DEF SystemKeys

\* The document that Serialize writes: an entry for each field that is set, and one
\* for each custom property.
LEMMA Document ==
    ASSUME NEW m, NEW doc, doc = Serialize(m),
           DOMAIN m.custom_properties \cap SystemKeys = {},
           NEW set, set = {k \in SystemKeys : m.fields[k] # None}
    PROVE  /\ Keys(doc) = set \cup DOMAIN m.custom_properties
           /\ \A k \in set : ~Repeated(doc, k) /\ ValueOf(doc, k) = SerializeField(k, m.fields[k])
           /\ \A k \in DOMAIN m.custom_properties : ValueOf(doc, k) = m.custom_properties[k]
  <1>c. PICK custom : custom = m.custom_properties
    OBVIOUS
  <1>p. PICK places : places = ({"field"} \X set) \cup ({"custom"} \X DOMAIN custom)
    OBVIOUS
  <1>1. /\ DOMAIN doc = places
        /\ \A p \in places :
             doc[p] = IF p[1] = "field" THEN Entry(p[2], SerializeField(p[2], m.fields[p[2]]))
                      ELSE Entry(p[2], custom[p[2]])
    BY <1>c, <1>p DEF Serialize
  <1>2. \A k \in set : <<"field", k>> \in places
    BY <1>p
  <1>3. \A k \in DOMAIN custom : <<"custom", k>> \in places
    BY <1>p
  <1>4. \A p \in places : \/ p = <<"field", p[2]>> /\ p[2] \in set
                          \/ p = <<"custom", p[2]>> /\ p[2] \in DOMAIN custom
    BY <1>p
  <1>5. \A p \in places : doc[p].key = p[2]
    BY <1>1 DEF Entry
  <1>6. ASSUME NEW k \in set PROVE doc[<<"field", k>>].value = SerializeField(k, m.fields[k])
    <2>1. PICK p \in places : p = <<"field", k>>
      BY <1>2
    <2>2. p[1] = "field" /\ p[2] = k
      BY <2>1
    <2>3. doc[p] = Entry(k, SerializeField(k, m.fields[k]))
      BY <1>1, <2>2
    <2> QED BY <2>1, <2>3 DEF Entry
  <1>7. ASSUME NEW k \in DOMAIN custom PROVE doc[<<"custom", k>>].value = custom[k]
    <2>1. PICK p \in places : p = <<"custom", k>>
      BY <1>3
    <2>2. p[1] # "field" /\ p[2] = k
      BY <2>1
    <2>3. doc[p] = Entry(k, custom[k])
      BY <1>1, <2>2
    <2> QED BY <2>1, <2>3 DEF Entry
  <1>8. set \cap DOMAIN custom = {}
    BY <1>c
  <1>9. \A k \in set : \A p \in places : doc[p].key = k <=> p = <<"field", k>>
    BY <1>4, <1>5, <1>8
  <1>10. \A k \in DOMAIN custom : \A p \in places : doc[p].key = k <=> p = <<"custom", k>>
    BY <1>4, <1>5, <1>8
  <1>11. Keys(doc) = set \cup DOMAIN custom
    <2>1. Keys(doc) = {doc[p].key : p \in places}
      BY <1>1 DEF Keys
    <2>2. \A k \in Keys(doc) : k \in set \cup DOMAIN custom
      BY <1>4, <1>5, <2>1
    <2>3. ASSUME NEW k \in set PROVE k \in Keys(doc)
      <3>1. PICK p \in places : p = <<"field", k>>
        BY <1>2
      <3> QED BY <1>9, <2>1, <3>1
    <2>4. ASSUME NEW k \in DOMAIN custom PROVE k \in Keys(doc)
      <3>1. PICK p \in places : p = <<"custom", k>>
        BY <1>3
      <3> QED BY <1>10, <2>1, <3>1
    <2> QED BY <2>2, <2>3, <2>4
  <1>12. ASSUME NEW k \in set
         PROVE  ~Repeated(doc, k) /\ ValueOf(doc, k) = SerializeField(k, m.fields[k])
    <2>1. (CHOOSE p \in DOMAIN doc : doc[p].key = k) = <<"field", k>>
      BY <1>1, <1>2, <1>9
    <2>2. ~Repeated(doc, k)
      BY <1>1, <1>9 DEF Repeated
    <2> QED BY <1>6, <2>1, <2>2 DEF ValueOf
  <1>13. ASSUME NEW k \in DOMAIN custom PROVE ValueOf(doc, k) = custom[k]
    <2>1. (CHOOSE p \in DOMAIN doc : doc[p].key = k) = <<"custom", k>>
      BY <1>1, <1>3, <1>10
    <2> QED BY <1>7, <2>1 DEF ValueOf
  <1> QED BY <1>c, <1>11, <1>12, <1>13

\* What was written can be read, and is what was meant.
LEMMA RoundTrip ==
    ASSUME NEW m, Plain(m), Expressible(m)
    PROVE  Deserialize(Serialize(m)) = WholeMillis(m) /\ WholeMillis(m) # Invalid
  <1>d. PICK doc : doc = Serialize(m)
    OBVIOUS
  <1>s. PICK set : set = {k \in SystemKeys : m.fields[k] # None}
    OBVIOUS
  <1>c. PICK custom : custom = m.custom_properties
    OBVIOUS
  <1>w. PICK w : w = WholeMillis(m).fields
    OBVIOUS
  <1>1. DOMAIN custom \cap SystemKeys = {} /\ custom = [k \in DOMAIN custom |-> custom[k]]
    BY <1>c DEF Expressible, Plain, IsMetadata
  <1>2. /\ Keys(doc) = set \cup DOMAIN custom
        /\ \A k \in set : ~Repeated(doc, k) /\ ValueOf(doc, k) = SerializeField(k, m.fields[k])
        /\ \A k \in DOMAIN custom : ValueOf(doc, k) = custom[k]
    BY <1>c, <1>d, <1>s, <1>1, Document
  <1>3. Keys(doc) \cap SystemKeys = set /\ Keys(doc) \ set = DOMAIN custom
    BY <1>s, <1>1, <1>2
  <1>4. \A k \in set : DeserializeField(k, ValueOf(doc, k)) = w[k] /\ w[k] # Invalid
    BY <1>s, <1>w, <1>2, FieldRoundTrip
  <1>5. \A k \in SystemKeys \ set : w[k] = None
    BY <1>s, <1>w DEF WholeMillis
  <1>6. w = [k \in SystemKeys |-> w[k]]
    BY <1>w DEF WholeMillis
  <1>7. [k \in SystemKeys |-> IF k \in set THEN DeserializeField(k, ValueOf(doc, k)) ELSE None] = w
    BY <1>4, <1>5, <1>6
  <1>8. [k \in DOMAIN custom |-> ValueOf(doc, k)] = custom
    BY <1>1, <1>2
  <1>9. Deserialize(doc) =
           IF \E k \in set : Repeated(doc, k) \/ w[k] = Invalid THEN Invalid
           ELSE [fields |-> w, custom_properties |-> custom]
    BY <1>3, <1>7, <1>8 DEF Deserialize
  <1>10. Deserialize(doc) = [fields |-> w, custom_properties |-> custom]
    BY <1>2, <1>4, <1>9
  <1>11. WholeMillis(m) = [fields |-> w, custom_properties |-> custom]
    BY <1>c, <1>w DEF WholeMillis
  <1> QED BY <1>d, <1>10, <1>11 DEF Plain

\* An event that stands for metadata says what was meant.
Meaningful(e) == e.meant # None => Plain(e.meant) /\ e.payload = Serialize(e.meant)

\* The first event that the read of t is owed is in its stream.
Recorded(t) ==
    /\ op[t].stream \in StreamIds
    /\ owed[t][1].revision \in Nat
    /\ owed[t][1].revision + 1 \in DOMAIN streams[op[t].stream].events
    /\ owed[t][1].event = streams[op[t].stream].events[owed[t][1].revision + 1]

\* The result of get_stream_metadata is what the first event that it is owed says.
MetadataInv(t) ==
    /\ phase[t] # "done" => result[t] = NoResult
    /\ owed[t] # <<>> => Recorded(t)
    /\ phase[t] = "open" /\ op[t].kind = "get" =>
          \A i \in DOMAIN inbox[t] :
              inbox[t][i].content = "Status" => inbox[t][i].error # "InternalParsingError"
    /\ result[t].kind = "Success" =>
          /\ owed[t] # <<>> /\ result[t].version = owed[t][1].revision
          /\ result[t].metadata = as_json(owed[t][1].event.payload)
          /\ result[t].metadata # Invalid
    /\ phase[t] = "done" /\ op[t].kind = "get" /\ result[t] = Err("InternalParsingError") =>
          owed[t] # <<>> /\ as_json(owed[t][1].event.payload) = Invalid

AllMeaningful == \A x \in StreamIds : \A i \in DOMAIN streams[x].events : Meaningful(streams[x].events[i])

StreamsInv == AllMeaningful /\ \A t \in Tasks : MetadataInv(t)

\* The first event that is found is in the stream.
LEMMA FoundFirst ==
    ASSUME NEW s, StreamShape(s), NEW o, o.max_count \in Nat, o.position.revision \in Nat,
           Found(s, o) # <<>>
    PROVE  /\ Found(s, o)[1].revision \in Nat
           /\ Found(s, o)[1].revision + 1 \in DOMAIN s.events
           /\ Found(s, o)[1].event = s.events[Found(s, o)[1].revision + 1]
  <1> DEFINE start == CASE o.position.at = "Start" -> 0
                        [] o.position.at = "End"   -> Len(s.events)
                        [] OTHER                   -> o.position.revision
             forward == o.direction = "Forward"
             last == Len(s.events) - 1
             from == IF forward THEN Max({start, s.first}) ELSE Min({start, last})
             left == IF forward THEN last - from + 1 ELSE from - s.first + 1
             count == Min({left, o.max_count})
             revision(i) == IF forward THEN from + i - 1 ELSE from - i + 1
  <1>1. /\ Len(s.events) \in Nat /\ s.first \in 0 .. Len(s.events)
        /\ DOMAIN s.events = 1 .. Len(s.events)
    BY SequenceFacts DEF StreamShape
  <1>2. start \in Nat
    BY <1>1
  <1> HIDE DEF start
  <1>3. /\ Max({start, s.first}) \in Int /\ Max({start, s.first}) >= s.first
        /\ Min({start, last}) \in Int /\ Min({start, last}) <= last
    <2>1. PICK a, b, c : a = start /\ b = s.first /\ c = last
      OBVIOUS
    <2>2. a \in Int /\ b \in Int /\ c \in Int
      BY <1>1, <1>2, <2>1
    <2>3. /\ Max({a, b}) \in {a, b} /\ Max({a, b}) >= b
          /\ Min({a, c}) \in {a, c} /\ Min({a, c}) <= c
      BY <2>2, MinMax
    <2> QED BY <2>1, <2>2, <2>3
  <1>4. left \in Int /\ from \in Int /\ (left > 0 => from + 1 \in 1 .. Len(s.events))
    <2>1. PICK f, l, a, b : /\ f = s.first /\ l = Len(s.events)
                            /\ a = Max({start, s.first}) /\ b = Min({start, last})
      OBVIOUS
    <2>2. f \in Nat /\ l \in Nat /\ a \in Int /\ b \in Int /\ a >= f /\ b <= l - 1
      BY <1>1, <1>3, <2>1
    <2>3. /\ from = IF forward THEN a ELSE b
          /\ left = IF forward THEN l - 1 - a + 1 ELSE b - f + 1
      BY <2>1
    <2> HIDE DEF left, from, forward
    <2>4. left \in Int /\ from \in Int /\ (left > 0 => from + 1 \in 1 .. l)
      BY ONLY <2>2, <2>3
    <2> QED BY <2>1, <2>4
  <1>5. /\ Found(s, o) = [i \in 1 .. count |->
               [revision |-> revision(i), event |-> s.events[revision(i) + 1]]]
    BY DEF Found, start
  <1>6. revision(1) = from
    <2> HIDE DEF from
    <2> QED BY <1>4
  <1> HIDE DEF left, from, revision
  <1>7. count \in Int /\ count <= left
    <2>1. PICK a, b : a = left /\ b = o.max_count
      OBVIOUS
    <2>2. a \in Int /\ b \in Int
      BY <1>4, <2>1
    <2>3. Min({a, b}) \in {a, b} /\ Min({a, b}) <= a
      BY <2>2, MinMax
    <2> QED BY <2>1, <2>2, <2>3
  <1> HIDE DEF count
  <1>8. count > 0
    <2> SUFFICES ASSUME ~(count > 0) PROVE FALSE
      OBVIOUS
    <2>1. PICK f : f = Found(s, o)
      OBVIOUS
    <2>2. 1 .. count = {}
      BY <1>7
    <2>3. f = [i \in {} |-> f[i]]
      BY <1>5, <2>1, <2>2
    <2>4. f = <<>>
      BY <2>3
    <2> QED BY <2>1, <2>4
  <1>9. Found(s, o)[1] = [revision |-> from, event |-> s.events[from + 1]]
    BY <1>5, <1>6, <1>7, <1>8
  <1>10. from \in Nat /\ from + 1 \in DOMAIN s.events
    BY <1>1, <1>4, <1>7, <1>8
  <1> QED BY <1>9, <1>10

\* AppendReq::from keeps the payload of an event and what it stands for.
LEMMA ProposedMeaning ==
    ASSUME NEW w \in Workloads, NEW o \in w, o.kind = "append",
           NEW i \in DOMAIN ProposedMessages(o.events)
    PROVE  Meaningful(ProposedMessages(o.events)[i])
  <1>e. PICK e : e = o.events[i]
    OBVIOUS
  <1>1. i \in DOMAIN o.events
    BY DEF ProposedMessages
  <1>2. e \in ToSet(o.events)
    BY <1>e, <1>1 DEF ToSet
  <1>3. \/ e = EventData(e.id, e.payload)
        \/ e = MetadataEvent(e.meant) /\ e.meant # None /\ IsMetadata(e.meant)
    BY <1>2, WorkloadsAssumption
  <1>4. PICK new : ProposedMessages(o.events)[i] = [e EXCEPT !.id = IF @ = None THEN new ELSE @]
    BY <1>e, <1>1 DEF ProposedMessages
  <1>p. PICK p : p = ProposedMessages(o.events)[i]
    OBVIOUS
  <1>5. p.meant = e.meant /\ p.payload = e.payload
    <2>1. CASE e = EventData(e.id, e.payload)
      BY <1>4, <1>p, <2>1 DEF EventData
    <2>2. CASE e = MetadataEvent(e.meant)
      BY <1>4, <1>p, <2>2 DEF MetadataEvent
    <2> QED BY <1>3, <2>1, <2>2
  <1>6. ASSUME e.meant # None PROVE Plain(e.meant) /\ e.payload = Serialize(e.meant)
    <2>1. e = MetadataEvent(e.meant) /\ IsMetadata(e.meant)
      BY <1>3, <1>6 DEF EventData
    <2>2. e.payload = Serialize(e.meant)
      BY <2>1 DEF MetadataEvent
    <2>3. Plain(e.meant)
      BY <1>2, <1>6, <2>1, InvalidAssumption DEF Plain
    <2> QED BY <2>2, <2>3
  <1> QED BY <1>p, <1>5, <1>6 DEF Meaningful

\* The events of the streams stay where they are; more may follow.
Grown ==
    \A x \in StreamIds : \A i \in DOMAIN streams[x].events :
        i \in DOMAIN streams'[x].events /\ streams'[x].events[i] = streams[x].events[i]

LEMMA QuietlyGrown ==
    ASSUME AllMeaningful, \A x \in StreamIds : streams'[x].events = streams[x].events
    PROVE  Grown /\ AllMeaningful'
  BY DEF Grown, AllMeaningful

LEMMA append_to_streamGrows ==
    ASSUME AppendInv, AllMeaningful, NEW t \in Tasks, append_to_stream(t)
    PROVE  Grown /\ AllMeaningful'
  <1>o. PICK o : o = op[t]
    OBVIOUS
  <1>m. PICK name : name = o.stream
    OBVIOUS
  <1>s. PICK s : s = streams[name]
    OBVIOUS
  <1>e. PICK events : events = ProposedMessages(o.events)
    OBVIOUS
  <1>n. PICK new : new = Extend(name, s, events)
    OBVIOUS
  <1>1. /\ o.kind = "append" /\ o \in workload /\ workload \in Workloads
        /\ name \in StreamIds /\ StreamShape(s) /\ DOMAIN streams = StreamIds
    BY <1>o, <1>m, <1>s, WorkloadsAssumption DEF append_to_stream, AppendInv, TaskInv, ServerInv
  <1>2. IsSequence(events) /\ \A i \in DOMAIN events : Meaningful(events[i])
    <2>1. IsSequence(events)
      BY <1>1, <1>e, Proposed
    <2>2. \A i \in DOMAIN events : Meaningful(events[i])
      BY <1>1, <1>e, ProposedMeaning
    <2> QED BY <2>1, <2>2
  <1>3. new.events = s.events \o events
    BY <1>1, <1>2, <1>n, Extended
  <1>4. \/ UNCHANGED streams
        \/ streams' = [streams EXCEPT ![name] = new]
    BY <1>o, <1>m, <1>s, <1>e, <1>n DEF append_to_stream
  <1>5. CASE UNCHANGED streams
    BY <1>5, QuietlyGrown
  <1>6. CASE streams' = [streams EXCEPT ![name] = new]
    <2>1. /\ streams'[name] = new
          /\ \A x \in StreamIds \ {name} : streams'[x] = streams[x]
      BY <1>1, <1>6
    <2>2. PICK old : old = s.events
      OBVIOUS
    <2>3. PICK all : all = old \o events
      OBVIOUS
    <2>4. /\ IsSequence(all) /\ Len(all) = Len(old) + Len(events)
          /\ \A i \in DOMAIN all :
               \/ i \in DOMAIN old /\ all[i] = old[i]
               \/ i - Len(old) \in DOMAIN events /\ all[i] = events[i - Len(old)]
      BY <1>1, <1>2, <2>2, <2>3, Concatenated DEF StreamShape
    <2>5. /\ IsSequence(old) /\ Len(old) \in Nat /\ Len(events) \in Nat
          /\ DOMAIN old = 1 .. Len(old) /\ DOMAIN events = 1 .. Len(events)
          /\ DOMAIN all = 1 .. Len(all)
      BY <1>1, <1>2, <2>2, <2>4, SequenceFacts DEF StreamShape
    <2>6. ASSUME NEW i \in DOMAIN old PROVE i \in DOMAIN all /\ all[i] = old[i]
      <3>1. PICK k, n \in Nat : k = Len(old) /\ n = Len(events)
        BY <2>5
      <3>2. i \in 1 .. k /\ i \in 1 .. k + n /\ i - k \notin 1 .. n
        BY <2>5, <3>1
      <3> QED BY <2>4, <2>5, <3>1, <3>2
    <2>7. \A i \in DOMAIN old : Meaningful(old[i])
      BY <1>1, <1>s, <2>2 DEF AllMeaningful
    <2>8. \A i \in DOMAIN all : Meaningful(all[i])
      BY <1>2, <2>4, <2>7
    <2>9. streams'[name].events = all /\ streams[name].events = old
      BY <1>3, <1>s, <2>1, <2>2, <2>3
    <2>10. Grown
      BY <2>1, <2>6, <2>9 DEF Grown
    <2>11. AllMeaningful'
      <3> SUFFICES ASSUME NEW x \in StreamIds, NEW i \in DOMAIN streams'[x].events
                   PROVE  Meaningful(streams'[x].events[i])
        BY DEF AllMeaningful
      <3>1. CASE x = name
        BY <2>8, <2>9, <3>1
      <3>2. CASE x # name
        BY <2>1, <3>2 DEF AllMeaningful
      <3> QED BY <3>1, <3>2
    <2> QED BY <2>10, <2>11
  <1> QED BY <1>4, <1>5, <1>6

LEMMA delete_streamGrows ==
    ASSUME AppendInv, AllMeaningful, NEW t \in Tasks, delete_stream(t)
    PROVE  Grown /\ AllMeaningful'
  <1>1. CASE UNCHANGED streams
    BY <1>1, QuietlyGrown
  <1>2. CASE ~UNCHANGED streams
    <2>n. PICK name : name = op[t].stream
      OBVIOUS
    <2>s. PICK s : s = streams[name]
      OBVIOUS
    <2>1. name \in StreamIds /\ StreamShape(s) /\ DOMAIN streams = StreamIds
      BY <2>n, <2>s, WorkloadsAssumption DEF delete_stream, AppendInv, TaskInv, ServerInv
    <2>2. PICK new : /\ streams' = [streams EXCEPT ![name] = new]
                     /\ \/ new = [s EXCEPT !.first = Len(s.events)]
                        \/ new = [s EXCEPT !.tombstoned = TRUE]
      BY <1>2, <2>n, <2>s DEF delete_stream
    <2>3. new.events = s.events
      BY <2>1, <2>2 DEF StreamShape
    <2>4. \A x \in StreamIds : streams'[x].events = streams[x].events
      BY <2>s, <2>1, <2>2, <2>3
    <2> QED BY <2>4, QuietlyGrown
  <1> QED BY <1>1, <1>2

LEMMA StreamsGrow ==
    ASSUME AppendInv, AllMeaningful, NEW t \in Tasks, StreamsStep(t)
    PROVE  Grown /\ AllMeaningful'
  <1>1. CASE append_to_stream(t)
    BY <1>1, append_to_streamGrows
  <1>2. CASE delete_stream(t)
    BY <1>2, delete_streamGrows
  <1>3. CASE ~append_to_stream(t) /\ ~delete_stream(t)
    <2>1. UNCHANGED streams
      BY <1>3 DEF StreamsStep, Begin, CallFails, StreamIsDeleted, read_stream, Break, next,
         get_stream_metadata, serverVars
    <2> QED BY <2>1, QuietlyGrown
  <1> QED BY <1>1, <1>2, <1>3

\* A task that has not opened a read of metadata, and does not return one.
LEMMA OtherKeepsMetadataInv ==
    ASSUME NEW u \in Tasks, MetadataInv(u), Grown, op'[u] = op[u], owed'[u] = owed[u],
           phase'[u] # "done" => result'[u] = NoResult,
           phase'[u] = "open" /\ op[u].kind = "get" => phase[u] = "open" /\ inbox'[u] = inbox[u],
           result'[u].kind = "Success" => result'[u] = result[u],
           phase'[u] = "done" /\ op[u].kind = "get" /\ result'[u] = Err("InternalParsingError")
               => phase[u] = "done" /\ result'[u] = result[u]
    PROVE  MetadataInv(u)'
  <1>1. owed[u] # <<>> => Recorded(u)'
    BY DEF MetadataInv, Recorded, Grown
  <1> QED BY <1>1 DEF MetadataInv

LEMMA UntouchedKeepsMetadataInv ==
    ASSUME NEW u \in Tasks, MetadataInv(u), Grown, op'[u] = op[u], owed'[u] = owed[u],
           phase'[u] = phase[u], result'[u] = result[u], inbox'[u] = inbox[u]
    PROVE  MetadataInv(u)'
  <1>1. phase'[u] # "done" => result'[u] = NoResult
    BY DEF MetadataInv
  <1> QED BY <1>1, OtherKeepsMetadataInv

LEMMA Errors ==
    /\ \A e : Err(e).kind = "Err"
    /\ \A e, f : Err(e) = Err(f) => e = f
    /\ NoResult.kind = "none"
  <1>1. \A e : Err(e).kind = "Err" /\ Err(e).error = e
    BY DEF Err
  <1>2. NoResult.kind = "none"
    BY DEF NoResult
  <1> QED BY <1>1, <1>2

LEMMA BeginKeepsMetadataInv ==
    ASSUME AppendInv, NEW t \in Tasks, Begin(t)
    PROVE  MetadataInv(t)'
  <1>1. phase'[t] = "sent" /\ result'[t] = NoResult /\ owed'[t] = <<>>
    BY DEF Begin, AppendInv, TaskInv
  <1> QED BY <1>1, Errors DEF MetadataInv

LEMMA FailureKeepsMetadataInv ==
    ASSUME AppendInv, NEW t \in Tasks, MetadataInv(t), Grown, CallFails(t) \/ StreamIsDeleted(t)
    PROVE  MetadataInv(t)'
  <1>1. PICK e \in {"ServerError", "ResourceDeleted"} : Return(t, Err(e))
    BY DEF CallFails, StreamIsDeleted
  <1>2. UNCHANGED <<op, owed>>
    BY DEF CallFails, StreamIsDeleted, readVars
  <1>3. phase'[t] = "done" /\ result'[t] = Err(e)
    BY <1>1 DEF Return, AppendInv, TaskInv
  <1>4. result'[t].kind # "Success" /\ result'[t] # Err("InternalParsingError")
    BY <1>1, <1>3, Errors
  <1> QED BY <1>2, <1>3, <1>4, OtherKeepsMetadataInv

LEMMA WritesKeepMetadataInv ==
    ASSUME AppendInv, NEW t \in Tasks, MetadataInv(t), Grown,
           append_to_stream(t) \/ delete_stream(t)
    PROVE  MetadataInv(t)'
  <1>1. UNCHANGED <<op, owed>> /\ op[t].kind # "get"
    BY DEF append_to_stream, delete_stream, readVars
  <1>2. PICK r : Return(t, r) /\ r.kind # "Success"
    <2>1. ASSUME append_to_stream(t)
          PROVE  \/ \E c : Return(t, WriteResult(c))
                 \/ \E e : Return(t, Err(e))
      BY <2>1 DEF append_to_stream, Answered
    <2>2. ASSUME delete_stream(t)
          PROVE  \/ Return(t, [kind |-> "Deleted"])
                 \/ \E e : Return(t, Err(e))
      BY <2>2 DEF delete_stream
    <2>3. \A c : WriteResult(c).kind = "Written"
      BY DEF WriteResult
    <2>4. CASE append_to_stream(t)
      BY <2>1, <2>3, <2>4, Errors
    <2>5. CASE delete_stream(t)
      BY <2>2, <2>5, Errors
    <2> QED BY <2>4, <2>5
  <1>3. phase'[t] = "done" /\ result'[t] = r
    BY <1>2 DEF Return, AppendInv, TaskInv
  <1> QED BY <1>1, <1>2, <1>3, OtherKeepsMetadataInv

LEMMA read_streamKeepsMetadataInv ==
    ASSUME AppendInv, NEW t \in Tasks, MetadataInv(t), read_stream(t)
    PROVE  MetadataInv(t)'
  <1>o. PICK o : o = op[t].options
    OBVIOUS
  <1>s. PICK s : s = streams[op[t].stream]
    OBVIOUS
  <1>f. PICK found : found = Found(s, o)
    OBVIOUS
  <1>1. /\ phase[t] = "sent" /\ op[t].kind \in {"read", "get"} /\ op[t] \in workload
        /\ workload \in Workloads /\ UNCHANGED <<streams, op, result>> /\ phase'[t] = "open"
    BY DEF read_stream, AppendInv, TaskInv, ServerInv, serverVars
  <1>2. /\ op[t].stream \in StreamIds /\ StreamShape(s)
        /\ o.max_count \in Nat /\ o.position.revision \in Nat
    BY <1>1, <1>o, <1>s, WorkloadsAssumption DEF AppendInv, ServerInv
  <1>q. PICK q : q = inbox'[t]
    OBVIOUS
  <1>3. /\ q = IF s.tombstoned THEN <<Status("ResourceDeleted")>>
               ELSE IF Len(s.events) = s.first THEN <<StreamNotFound, EndOfStream>>
               ELSE <<FirstStreamPosition, LastStreamPosition>>
                        \o [i \in DOMAIN found |-> Event(found[i])] \o <<EndOfStream>>
        /\ owed'[t] = IF s.tombstoned THEN <<>> ELSE found
    BY <1>o, <1>s, <1>f, <1>q DEF read_stream, AppendInv, TaskInv
  <1>4. owed'[t] # <<>> => Recorded(t)'
    <2> SUFFICES ASSUME owed'[t] # <<>> PROVE Recorded(t)'
      OBVIOUS
    <2>1. owed'[t] = found /\ found # <<>>
      BY <1>3
    <2>2. /\ found[1].revision \in Nat /\ found[1].revision + 1 \in DOMAIN s.events
          /\ found[1].event = s.events[found[1].revision + 1]
      BY <1>2, <1>f, <2>1, FoundFirst
    <2> QED BY <1>s, <1>1, <1>2, <2>1, <2>2 DEF Recorded
  <1>5. \A i \in DOMAIN q : q[i].content = "Status" => q[i].error # "InternalParsingError"
    <2>1. CASE s.tombstoned
      <3>1. PICK m : m = Status("ResourceDeleted")
        OBVIOUS
      <3>2. q = <<m>> /\ m.error = "ResourceDeleted"
        BY <1>3, <2>1, <3>1, Contents
      <3> QED BY <3>2
    <2>2. CASE ~s.tombstoned /\ Len(s.events) = s.first
      <3>1. PICK m, z : m = StreamNotFound /\ z = EndOfStream
        OBVIOUS
      <3>2. q = <<m, z>> /\ m.content # "Status" /\ z.content # "Status"
        BY <1>3, <2>2, <3>1, Contents
      <3> QED BY <3>2
    <2>3. CASE ~s.tombstoned /\ Len(s.events) # s.first
      <3>1. IsSequence(found)
        BY <1>2, <1>f, FoundFacts
      <3>2. q = <<FirstStreamPosition, LastStreamPosition>>
                    \o [i \in DOMAIN found |-> Event(found[i])] \o <<EndOfStream>>
        BY <1>3, <2>3
      <3>3. /\ IsSequence(q) /\ Len(q) = Len(found) + 3
            /\ \A i \in 1 .. 2 : q[i] \in Notices
            /\ \A i \in 3 .. Len(found) + 2 : q[i] = Event(found[i - 2])
            /\ q[Len(found) + 3] = EndOfStream
        BY <3>1, <3>2, Delivery
      <3>4. PICK n \in Nat : n = Len(found)
        BY <3>1, SequenceFacts
      <3>5. DOMAIN q = 1 .. n + 3
        BY <3>3, <3>4, SequenceFacts
      <3>6. \A i \in 1 .. n + 3 : i \in 1 .. 2 \/ i \in 3 .. n + 2 \/ i = n + 3
        OBVIOUS
      <3>7. \A i \in DOMAIN q : q[i].content # "Status"
        BY <3>3, <3>4, <3>5, <3>6, Contents
      <3> QED BY <3>7
    <2> QED BY <2>1, <2>2, <2>3
  <1>6. result'[t] = NoResult
    BY <1>1 DEF MetadataInv
  <1> QED BY <1>q, <1>1, <1>4, <1>5, <1>6, Errors DEF MetadataInv

LEMMA BreakKeepsMetadataInv ==
    ASSUME AppendInv, ReadsInv, NEW t \in Tasks, MetadataInv(t), Break(t)
    PROVE  MetadataInv(t)'
  <1>q. PICK q : q = inbox[t]
    OBVIOUS
  <1>m. PICK m : m = Status("ServerError")
    OBVIOUS
  <1>1. phase[t] = "open" /\ UNCHANGED <<streams, phase, op, owed, result>>
    BY DEF Break, serverVars
  <1>2. IsSequence(q)
    BY <1>q, <1>1 DEF ReadsInv, ReadInv, InboxInv
  <1>3. PICK k \in 0 .. Len(q) - 1 : inbox'[t] = SubSeq(q, 1, k) \o <<m>>
    BY <1>q, <1>m DEF Break, AppendInv, TaskInv
  <1>4. /\ DOMAIN inbox'[t] = 1 .. k + 1
        /\ inbox'[t][k + 1] = m /\ \A i \in 1 .. k : i \in DOMAIN q /\ inbox'[t][i] = q[i]
    <2>r. PICK r : r = SubSeq(q, 1, k) \o <<m>>
      OBVIOUS
    <2>s. PICK S : S = ToSet(q) \cup {m}
      OBVIOUS
    <2>1. q \in Seq(S) /\ m \in S
      BY <1>2, <2>s DEF IsSequence
    <2>2. Len(q) \in Nat /\ k \in Nat /\ k < Len(q) /\ DOMAIN q = 1 .. Len(q)
      BY <1>2, SequenceFacts
    <2>3. /\ SubSeq(q, 1, k) \in Seq(S) /\ Len(SubSeq(q, 1, k)) = k
          /\ \A i \in 1 .. k : SubSeq(q, 1, k)[i] = q[i]
      BY <2>1, <2>2
    <2>4. r \in Seq(S) /\ Len(r) = k + 1 /\ r[k + 1] = m /\ \A i \in 1 .. k : r[i] = q[i]
      BY <2>1, <2>2, <2>3, <2>r
    <2>5. DOMAIN r = 1 .. k + 1 /\ \A i \in 1 .. k : i \in DOMAIN q
      BY <2>2, <2>4
    <2> QED BY <1>3, <2>r, <2>4, <2>5
  <1>5. op[t].kind = "get" =>
          \A i \in DOMAIN inbox'[t] :
              inbox'[t][i].content = "Status" => inbox'[t][i].error # "InternalParsingError"
    <2> SUFFICES ASSUME op[t].kind = "get", NEW i \in DOMAIN inbox'[t],
                        inbox'[t][i].content = "Status"
                 PROVE  inbox'[t][i].error # "InternalParsingError"
      OBVIOUS
    <2>1. i \in 1 .. k \/ i = k + 1
      <3>1. k \in Nat
        BY <1>2, SequenceFacts
      <3> QED BY <1>4, <3>1
    <2>2. m.error = "ServerError"
      BY <1>m, Contents
    <2>3. \A j \in DOMAIN q : q[j].content = "Status" => q[j].error # "InternalParsingError"
      BY <1>q, <1>1 DEF MetadataInv
    <2> QED BY <1>4, <2>1, <2>2, <2>3
  <1>6. owed'[t] # <<>> => Recorded(t)'
    BY <1>1 DEF MetadataInv, Recorded
  <1> QED BY <1>1, <1>5, <1>6 DEF MetadataInv

LEMMA nextKeepsMetadataInv ==
    ASSUME AppendInv, NEW t \in Tasks, MetadataInv(t), Grown, next(t)
    PROVE  MetadataInv(t)'
  <1>1. phase[t] = "open" /\ op[t].kind = "read" /\ UNCHANGED <<op, owed>>
    BY DEF next
  <1>2. \/ UNCHANGED <<phase, result>>
        \/ \E e : Return(t, Err(e))
        \/ Return(t, [kind |-> "End"])
    BY DEF next
  <1>3. CASE UNCHANGED <<phase, result>>
    <2>1. result'[t] = NoResult
      BY <1>1, <1>3 DEF MetadataInv
    <2> QED BY <1>1, <1>3, <2>1, OtherKeepsMetadataInv
  <1>4. CASE (\E e : Return(t, Err(e))) \/ Return(t, [kind |-> "End"])
    <2>1. PICK r : Return(t, r) /\ r.kind # "Success"
      BY <1>4, Errors
    <2>2. phase'[t] = "done" /\ result'[t] = r
      BY <2>1 DEF Return, AppendInv, TaskInv
    <2> QED BY <1>1, <2>1, <2>2, OtherKeepsMetadataInv
  <1> QED BY <1>2, <1>3, <1>4

LEMMA get_stream_metadataKeepsMetadataInv ==
    ASSUME AppendInv, ReadsInv, NEW t \in Tasks, MetadataInv(t), get_stream_metadata(t)
    PROVE  MetadataInv(t)'
  <1>m. PICK m : m = inbox[t][Upcoming(t)]
    OBVIOUS
  <1>1. /\ phase[t] = "open" /\ op[t].kind = "get" /\ UNCHANGED <<streams, op, owed>>
    BY DEF get_stream_metadata, serverVars
  <1>2. InboxInv(t) /\ IsSequence(got[t]) /\ Len(got[t]) = 0 /\ IsSequence(owed[t])
    BY <1>1, EmptySequence DEF ReadsInv, ReadInv, GetInv
  <1>3. owed'[t] # <<>> => Recorded(t)'
    BY <1>1 DEF MetadataInv, Recorded
  <1>4. PICK r : /\ Return(t, r)
                 /\ \/ /\ m.content = "Event"
                       /\ LET metadata == as_json(m.event.event.payload)
                          IN  r = IF metadata = Invalid THEN Err("InternalParsingError")
                                  ELSE [kind |-> "Success", version |-> m.event.revision,
                                        metadata |-> metadata]
                    \/ m.content # "Event" /\ r.kind \in {"NotFound", "Deleted", "panic"}
                    \/ m.content = "Status" /\ r = Err(m.error)
    BY <1>m DEF get_stream_metadata
  <1>5. phase'[t] = "done" /\ result'[t] = r
    BY <1>4 DEF Return, AppendInv, TaskInv
  <1>6. CASE m.content = "Event"
    <2>1. PICK n \in 0 .. Len(inbox[t]) - 1 :
            /\ ToCome(t, n) /\ n + 1 < Len(inbox[t])
            /\ m = Event(owed[t][Len(got[t]) + 1])
      BY <1>m, <1>2, <1>6, UpcomingMessage, Contents
    <2>2. m.event = owed[t][1]
      BY <1>2, <2>1, Contents
    <2>3. owed[t] # <<>>
      <3>1. PICK l, w \in Nat : l = Len(inbox[t]) /\ w = Len(owed[t])
        BY <1>2, SequenceFacts DEF InboxInv
      <3>2. 0 + l - 1 - n <= w /\ n + 1 < l /\ n \in Nat
        BY <1>2, <2>1, <3>1 DEF ToCome
      <3>3. w > 0
        BY <3>1, <3>2
      <3> QED BY <1>2, <3>1, <3>3, SequenceFacts
    <2>d. PICK d : d = as_json(m.event.event.payload)
      OBVIOUS
    <2>4. r = IF d = Invalid THEN Err("InternalParsingError")
              ELSE [kind |-> "Success", version |-> m.event.revision, metadata |-> d]
      BY <1>4, <1>6, <2>d
    <2>5. d = as_json(owed'[t][1].event.payload)
      BY <1>1, <2>2, <2>d
    <2>6. CASE d = Invalid
      BY <1>1, <1>3, <1>5, <2>3, <2>4, <2>5, <2>6, Errors DEF MetadataInv
    <2>7. CASE d # Invalid
      <3>1. /\ r.kind = "Success" /\ r.version = owed[t][1].revision /\ r.metadata = d
        BY <2>2, <2>4, <2>7
      <3>2. r # Err("InternalParsingError")
        BY <3>1, Errors
      <3> QED BY <1>1, <1>3, <1>5, <2>3, <2>5, <2>7, <3>1, <3>2 DEF MetadataInv
    <2> QED BY <2>6, <2>7
  <1>7. CASE m.content # "Event"
    <2>1. r.kind # "Success" /\ r # Err("InternalParsingError")
      <3>1. CASE r.kind \in {"NotFound", "Deleted", "panic"}
        BY <3>1, Errors
      <3>2. CASE m.content = "Status" /\ r = Err(m.error)
        <4>1. Upcoming(t) \in DOMAIN inbox[t]
          <5>1. DOMAIN inbox[t] = 1 .. Len(inbox[t]) /\ Len(inbox[t]) \in Nat /\ Len(inbox[t]) > 0
            BY <1>2, SequenceFacts DEF InboxInv
          <5>2. Upcoming(t) = 1 \/ \E n \in 0 .. Len(inbox[t]) - 1 : Upcoming(t) = n + 1
            BY <1>2, UpcomingMessage
          <5> QED BY <5>1, <5>2
        <4>2. m.error # "InternalParsingError"
          BY <1>m, <1>1, <3>2, <4>1 DEF MetadataInv
        <4> QED BY <3>2, <4>2, Errors
      <3> QED BY <1>4, <1>7, <3>1, <3>2
    <2> QED BY <1>1, <1>3, <1>5, <2>1 DEF MetadataInv
  <1> QED BY <1>6, <1>7

LEMMA StepKeepsMetadataInv ==
    ASSUME AppendInv, ReadsInv, StreamsInv, NEW t \in Tasks, StreamsStep(t)
    PROVE  StreamsInv'
  <1>1. Grown /\ AllMeaningful'
    BY StreamsGrow DEF StreamsInv
  <1>2. MetadataInv(t)
    BY DEF StreamsInv
  <1>3. MetadataInv(t)'
    <2>1. CASE Begin(t)
      BY <2>1, BeginKeepsMetadataInv
    <2>2. CASE CallFails(t) \/ StreamIsDeleted(t)
      BY <1>1, <1>2, <2>2, FailureKeepsMetadataInv
    <2>3. CASE append_to_stream(t) \/ delete_stream(t)
      BY <1>1, <1>2, <2>3, WritesKeepMetadataInv
    <2>4. CASE read_stream(t)
      BY <1>2, <2>4, read_streamKeepsMetadataInv
    <2>5. CASE Break(t)
      BY <1>2, <2>5, BreakKeepsMetadataInv
    <2>6. CASE next(t)
      BY <1>1, <1>2, <2>6, nextKeepsMetadataInv
    <2>7. CASE get_stream_metadata(t)
      BY <1>2, <2>7, get_stream_metadataKeepsMetadataInv
    <2> QED BY <2>1, <2>2, <2>3, <2>4, <2>5, <2>6, <2>7 DEF StreamsStep
  <1>4. ASSUME NEW u \in Tasks \ {t} PROVE MetadataInv(u)'
    <2>1. MetadataInv(u)
      BY DEF StreamsInv
    <2>2. /\ op'[u] = op[u] /\ owed'[u] = owed[u] /\ phase'[u] = phase[u]
          /\ result'[u] = result[u] /\ inbox'[u] = inbox[u]
      <3>1. CASE Begin(t)
        BY <3>1 DEF Begin, AppendInv, TaskInv
      <3>2. CASE CallFails(t) \/ StreamIsDeleted(t)
        BY <3>2 DEF CallFails, StreamIsDeleted, Return, readVars, AppendInv, TaskInv
      <3>3. CASE append_to_stream(t)
        <4>1. UNCHANGED <<op, owed, inbox>> /\ \E r : Return(t, r)
          BY <3>3 DEF append_to_stream, Answered, readVars
        <4> QED BY <4>1 DEF Return, AppendInv, TaskInv
      <3>4. CASE delete_stream(t)
        <4>1. UNCHANGED <<op, owed, inbox>> /\ \E r : Return(t, r)
          BY <3>4 DEF delete_stream, readVars
        <4> QED BY <4>1 DEF Return, AppendInv, TaskInv
      <3>5. CASE read_stream(t)
        BY <3>5 DEF read_stream, AppendInv, TaskInv
      <3>6. CASE Break(t)
        BY <3>6 DEF Break, AppendInv, TaskInv
      <3>7. CASE next(t)
        <4>1. /\ UNCHANGED <<op, owed>> /\ inbox'[u] = inbox[u]
              /\ UNCHANGED <<phase, result>> \/ \E r : Return(t, r)
          BY <3>7 DEF next, AppendInv, TaskInv
        <4> QED BY <4>1 DEF Return, AppendInv, TaskInv
      <3>8. CASE get_stream_metadata(t)
        <4>1. /\ UNCHANGED <<op, owed>> /\ inbox'[u] = inbox[u] /\ \E r : Return(t, r)
          BY <3>8 DEF get_stream_metadata, AppendInv, TaskInv
        <4> QED BY <4>1 DEF Return, AppendInv, TaskInv
      <3> QED BY <3>1, <3>2, <3>3, <3>4, <3>5, <3>6, <3>7, <3>8 DEF StreamsStep
    <2> QED BY <1>1, <2>1, <2>2, UntouchedKeepsMetadataInv
  <1> QED BY <1>1, <1>3, <1>4 DEF StreamsInv

LEMMA NextKeepsStreamsInv ==
    AppendInv /\ ReadsInv /\ StreamsInv /\ [StreamsNext]_streamsVars => StreamsInv'
  <1> SUFFICES ASSUME AppendInv, ReadsInv, StreamsInv, [StreamsNext]_streamsVars PROVE StreamsInv'
    OBVIOUS
  <1>1. ASSUME NEW t \in Tasks, StreamsStep(t) PROVE StreamsInv'
    BY <1>1, StepKeepsMetadataInv
  <1>2. CASE UNCHANGED streamsVars
    <2>1. UNCHANGED <<streams, phase, op, inbox, owed, result>>
      BY <1>2 DEF streamsVars, serverVars, readVars
    <2>2. Grown /\ AllMeaningful'
      BY <2>1, QuietlyGrown DEF StreamsInv
    <2>3. ASSUME NEW u \in Tasks PROVE MetadataInv(u)'
      <3>1. MetadataInv(u)
        BY DEF StreamsInv
      <3> QED BY <2>1, <2>2, <3>1, UntouchedKeepsMetadataInv
    <2> QED BY <2>2, <2>3 DEF StreamsInv
  <1> QED BY <1>1, <1>2 DEF StreamsNext, StreamsRest

LEMMA InitStreamsInv == StreamsInit => StreamsInv
  <1> SUFFICES ASSUME StreamsInit PROVE StreamsInv
    OBVIOUS
  <1>1. AllMeaningful
    BY DEF StreamsInit, AllMeaningful, NewStream
  <1>2. ASSUME NEW t \in Tasks PROVE MetadataInv(t)
    <2>1. phase[t] = "idle" /\ result[t] = NoResult /\ owed[t] = <<>>
      BY DEF StreamsInit
    <2> QED BY <2>1, Errors DEF MetadataInv
  <1> QED BY <1>1, <1>2 DEF StreamsInv

LEMMA StreamsInvariance == StreamsSpec => []StreamsInv
  BY InitStreamsInv, NextKeepsStreamsInv, AppendInvariance, ReadsInvariance, PTL DEF StreamsSpec

\* Metadata that get_stream_metadata returns is what set_stream_metadata wrote with the
\* event of that version, for any mixture of fields, roles and custom properties that
\* the document can express, however many tasks set it meanwhile (StreamMetadata and
\* its serializers, RecordedEvent::as_json).
THEOREM MetadataIsReadBack == StreamsSpec => []MetadataRoundTrip
  <1>1. AppendInv /\ StreamsInv => MetadataRoundTrip
    <2> SUFFICES ASSUME AppendInv, StreamsInv, NEW t \in Tasks, op[t].kind = "get"
                 PROVE  /\ result[t].kind = "Success" =>
                             LET m == streams[op[t].stream].events[result[t].version + 1].meant
                             IN  m # None /\ Expressible(m) => result[t].metadata = WholeMillis(m)
                        /\ result[t] = Err("InternalParsingError") =>
                             LET m == Head(owed[t]).event.meant IN m = None \/ ~Expressible(m)
      BY DEF MetadataRoundTrip
    <2>1. MetadataInv(t)
      BY DEF StreamsInv
    <2>e. PICK e : e = owed[t][1].event
      OBVIOUS
    <2>2. ASSUME owed[t] # <<>>
          PROVE  /\ e = streams[op[t].stream].events[owed[t][1].revision + 1]
                 /\ Meaningful(e)
      BY <2>1, <2>2, <2>e DEF MetadataInv, Recorded, StreamsInv, AllMeaningful
    <2>3. ASSUME Meaningful(e), e.meant # None, Expressible(e.meant)
          PROVE  as_json(e.payload) = WholeMillis(e.meant) /\ as_json(e.payload) # Invalid
      <3>1. Plain(e.meant) /\ e.payload = Serialize(e.meant)
        BY <2>3 DEF Meaningful
      <3>2. Deserialize(e.payload) = WholeMillis(e.meant) /\ WholeMillis(e.meant) # Invalid
        BY <2>3, <3>1, RoundTrip
      <3>3. e.payload # Invalid
        BY <3>1 DEF Plain
      <3> QED BY <3>2, <3>3 DEF as_json
    <2>4. ASSUME result[t].kind = "Success",
                 NEW m, m = streams[op[t].stream].events[result[t].version + 1].meant,
                 m # None, Expressible(m)
          PROVE  result[t].metadata = WholeMillis(m)
      <3>1. /\ owed[t] # <<>> /\ result[t].version = owed[t][1].revision
            /\ result[t].metadata = as_json(e.payload)
        BY <2>1, <2>4, <2>e DEF MetadataInv
      <3>2. Meaningful(e) /\ m = e.meant
        BY <2>2, <2>4, <3>1
      <3> QED BY <2>3, <2>4, <3>1, <3>2
    <2>5. ASSUME result[t] = Err("InternalParsingError")
          PROVE  Head(owed[t]).event.meant = None \/ ~Expressible(Head(owed[t]).event.meant)
      <3>1. phase[t] = "done"
        BY <2>1, <2>5, Errors DEF MetadataInv
      <3>2. owed[t] # <<>> /\ as_json(e.payload) = Invalid
        BY <2>1, <2>5, <2>e, <3>1 DEF MetadataInv
      <3>3. Head(owed[t]).event = e
        BY <2>e
      <3> QED BY <2>2, <2>3, <3>2, <3>3
    <2> QED BY <2>4, <2>5
  <1> QED BY <1>1, AppendInvariance, StreamsInvariance, PTL

-----------------------------------------------------------------------------
(* Statistics: what the keys that were visited say *)

PropertyOf(k) == k[Len(k)]

\* The keys of the map r that are not passed over.
Said(r, keys) == {k \in keys : ValueFor(k, r[k]) # None}

\* f has the properties that these keys say, with their values.
Says(r, f, keys) ==
    /\ f = [p \in {PropertyOf(k) : k \in Said(r, keys)} |-> f[p]]
    /\ \A k \in Said(r, keys) : f[PropertyOf(k)] = ValueFor(k, r[k])

Injective(keys) == \A j, k \in keys : PropertyOf(j) = PropertyOf(k) => j = k

\* The drives of the map are one.
OneDrivePath(r) == \A j, k \in KeysOf(DOMAIN r, "sys-drive-") : j[2] = k[2]

DriveSays(r, d, keys) ==
    IF KeysOf(keys, "sys-drive-") = {} THEN d = <<>>
    ELSE \E path, f : /\ d = <<[path |-> path, stats |-> f]>>
                      /\ \E k \in KeysOf(keys, "sys-drive-") : path = Head(k[2])
                      /\ Says(r, f, KeysOf(keys, "sys-drive-"))

QueuesSay(r, qs, keys) ==
    /\ qs = [q \in Queues(keys) |-> qs[q]]
    /\ \A q \in Queues(keys) : Says(r, qs[q], QueueKeys(keys, q))

Visited == DOMAIN raw \ todo

\* What has been collected is what the keys visited so far say.
StatisticsInv ==
    /\ raw \in RawStatistics
    /\ todo \subseteq DOMAIN raw
    /\ stats = [fields |-> stats.fields, drive |-> stats.drive, queues |-> stats.queues]
    /\ outcome \in {"running", "Ok", "InternalParsingError"}
    /\ outcome = "InternalParsingError" => \E k \in DOMAIN raw : ValueFor(k, raw[k]) = Invalid
    /\ outcome # "InternalParsingError" => \A k \in Visited : ValueFor(k, raw[k]) # Invalid
    /\ outcome = "Ok" => todo = {}
    /\ Says(raw, stats.fields, FieldKeys(Visited))
    /\ OneDrivePath(raw) => DriveSays(raw, stats.drive, Visited)
    /\ QueuesSay(raw, stats.queues, Visited)

LEMMA SaysNothing == ASSUME NEW r PROVE Says(r, <<>>, {})
    BY DEF Says, Said

\* A key that no other key goes by adds what it says.
LEMMA SaysPut ==
    ASSUME NEW r, NEW f, NEW keys, Says(r, f, keys), NEW k,
           \A j \in keys : PropertyOf(j) # PropertyOf(k),
           NEW g, g = Put(f, PropertyOf(k), ValueFor(k, r[k]))
    PROVE  Says(r, g, keys \cup {k})
<1>1. PICK v : v = ValueFor(k, r[k])
    OBVIOUS
<1>2. PICK p : p = PropertyOf(k)
    OBVIOUS
<1>3. CASE v = None
    <2>1. Said(r, keys \cup {k}) = Said(r, keys)
        BY <1>1, <1>3 DEF Said
    <2> QED
        BY <1>1, <1>3, <2>1 DEF Put, Says
<1>4. CASE v # None
    <2>1. Said(r, keys \cup {k}) = Said(r, keys) \cup {k}
        BY <1>1, <1>4 DEF Said
    <2>2. {PropertyOf(j) : j \in Said(r, keys \cup {k})} = {PropertyOf(j) : j \in Said(r, keys)} \cup {p}
        BY <1>2, <2>1
    <2>3. DOMAIN f = {PropertyOf(j) : j \in Said(r, keys)}
        BY DEF Says
    <2>4. g = [x \in DOMAIN f \cup {p} |-> IF x = p THEN v ELSE f[x]]
        BY <1>1, <1>2, <1>4 DEF Put, Insert
    <2>5. DOMAIN g = {PropertyOf(j) : j \in Said(r, keys \cup {k})}
        BY <2>2, <2>3, <2>4
    <2>6. g = [x \in DOMAIN g |-> g[x]]
        BY <2>4
    <2>7. ASSUME NEW j \in Said(r, keys \cup {k}) PROVE g[PropertyOf(j)] = ValueFor(j, r[j])
        <3>1. CASE j = k
            BY <1>1, <1>2, <2>4, <3>1
        <3>2. CASE j # k
            <4>1. j \in Said(r, keys) /\ j \in keys
                BY <2>1, <3>2 DEF Said
            <4>2. PropertyOf(j) # p /\ PropertyOf(j) \in DOMAIN f
                BY <1>2, <2>3, <4>1
            <4>3. g[PropertyOf(j)] = f[PropertyOf(j)]
                BY <2>4, <4>2
            <4> QED
                BY <4>1, <4>3 DEF Says
        <3> QED
            BY <3>1, <3>2
    <2> QED
        BY <2>5, <2>6, <2>7 DEF Says
<1> QED
    BY <1>3, <1>4

\* There is one such function.
LEMMA SaysIsUnder ==
    ASSUME NEW f, NEW keys, Says(raw, f, keys), Injective(keys)
    PROVE  f = Under(keys)
<1>1. PICK S : S = Said(raw, keys)
    OBVIOUS
<1>2. Under(keys) = [p \in {PropertyOf(k) : k \in S} |->
                        LET k == CHOOSE k \in S : PropertyOf(k) = p IN ValueFor(k, raw[k])]
    BY <1>1 DEF Under, Said, PropertyOf
<1>3. ASSUME NEW p \in {PropertyOf(k) : k \in S}
      PROVE  f[p] = LET k == CHOOSE k \in S : PropertyOf(k) = p IN ValueFor(k, raw[k])
    <2>1. PICK c : c = CHOOSE k \in S : PropertyOf(k) = p
        OBVIOUS
    <2>2. \E k \in S : PropertyOf(k) = p
        BY <1>3
    <2>3. c \in S /\ PropertyOf(c) = p
        BY <2>1, <2>2
    <2>4. f[PropertyOf(c)] = ValueFor(c, raw[c])
        BY <1>1, <2>3 DEF Says
    <2> QED
        BY <2>1, <2>3, <2>4
<1>4. [p \in {PropertyOf(k) : k \in S} |-> f[p]] =
          [p \in {PropertyOf(k) : k \in S} |->
              LET k == CHOOSE k \in S : PropertyOf(k) = p IN ValueFor(k, raw[k])]
    BY <1>3
<1>5. f = [p \in {PropertyOf(k) : k \in S} |-> f[p]]
    BY <1>1 DEF Says
<1> QED
    BY <1>2, <1>4, <1>5

-----------------------------------------------------------------------------
(* Keys *)

LEMMA KeysDiffer ==
    ASSUME NEW r \in RawStatistics, NEW j \in DOMAIN r, NEW k \in DOMAIN r, j # k, j[1] = k[1]
    PROVE  /\ k[1] \in {"sys-drive-", "es-queue-"}
           /\ j[2] = k[2] => PropertyOf(j) # PropertyOf(k)
<1>1. k[1] \in {"sys-drive-", "es-queue-"}
    BY RawStatisticsAssumption
<1>2. j = <<j[1], j[2], j[3]>> /\ k = <<k[1], k[2], k[3]>>
    BY <1>1, RawStatisticsAssumption
<1>3. PropertyOf(j) = j[3] /\ PropertyOf(k) = k[3]
    <2>1. Len(j) = 3 /\ Len(k) = 3
        BY <1>2
    <2> QED
        BY <2>1 DEF PropertyOf
<1> QED
    BY <1>1, <1>2, <1>3

LEMMA FieldKey ==
    ASSUME NEW r \in RawStatistics, NEW k \in DOMAIN r, k[1] \notin {"sys-drive-", "es-queue-"}
    PROVE  PropertyOf(k) = k[1]
<1>1. k = <<k[1]>>
    BY RawStatisticsAssumption
<1>2. Len(k) = 1
    BY <1>1
<1> QED
    BY <1>2 DEF PropertyOf

\* The keys of one kind, once k has been visited too.
LEMMA KeysAdded ==
    ASSUME NEW keys, NEW k
    PROVE  /\ \A prefix : KeysOf(keys \cup {k}, prefix) =
                              IF k[1] = prefix THEN KeysOf(keys, prefix) \cup {k} ELSE KeysOf(keys, prefix)
           /\ FieldKeys(keys \cup {k}) = IF k[1] \in {"sys-drive-", "es-queue-"} THEN FieldKeys(keys)
                                         ELSE FieldKeys(keys) \cup {k}
<1>1. \A prefix : KeysOf(keys \cup {k}, prefix) =
                      IF k[1] = prefix THEN KeysOf(keys, prefix) \cup {k} ELSE KeysOf(keys, prefix)
    BY DEF KeysOf
<1>2. CASE k[1] \in {"sys-drive-", "es-queue-"}
    BY <1>1, <1>2 DEF FieldKeys, KeysOf
<1>3. CASE k[1] \notin {"sys-drive-", "es-queue-"}
    BY <1>1, <1>3 DEF FieldKeys, KeysOf
<1> QED
    BY <1>1, <1>2, <1>3

-----------------------------------------------------------------------------
(* The steps of the loop *)

\* All of StatisticsInv that does not depend on what is collected.
LoopInv ==
    /\ raw \in RawStatistics
    /\ todo \subseteq DOMAIN raw
    /\ outcome \in {"running", "Ok", "InternalParsingError"}
    /\ outcome = "InternalParsingError" => \E k \in DOMAIN raw : ValueFor(k, raw[k]) = Invalid
    /\ outcome # "InternalParsingError" => \A k \in Visited : ValueFor(k, raw[k]) # Invalid
    /\ outcome = "Ok" => todo = {}

LEMMA VisitInv ==
    ASSUME StatisticsInv, NEW k, Visit(k)
    PROVE  /\ LoopInv'
           /\ k \in DOMAIN raw /\ k \notin Visited /\ raw' = raw
           /\ Visited' = Visited \cup {k}
<1>1. k \in todo /\ k \in DOMAIN raw /\ k \notin Visited /\ raw' = raw /\ todo' = todo \ {k}
    BY DEF StatisticsInv, Visit, Visited
<1>2. Visited' = Visited \cup {k}
    BY <1>1 DEF StatisticsInv, Visited
<1>3. CASE ValueFor(k, raw[k]) = Invalid
    <2>1. outcome' = "InternalParsingError"
        BY <1>3 DEF Visit
    <2>2. \E j \in DOMAIN raw' : ValueFor(j, raw'[j]) = Invalid
        BY <1>1, <1>3
    <2>3. raw' \in RawStatistics /\ todo' \subseteq DOMAIN raw'
        BY <1>1 DEF StatisticsInv
    <2> QED
        BY <1>1, <1>2, <2>1, <2>2, <2>3 DEF LoopInv
<1>4. CASE ValueFor(k, raw[k]) # Invalid
    <2>1. outcome' = "running" /\ outcome = "running"
        BY <1>4 DEF Visit
    <2>2. \A j \in Visited' : ValueFor(j, raw'[j]) # Invalid
        BY <1>1, <1>2, <1>4, <2>1 DEF StatisticsInv
    <2>3. raw' \in RawStatistics /\ todo' \subseteq DOMAIN raw'
        BY <1>1 DEF StatisticsInv
    <2> QED
        BY <1>1, <1>2, <2>1, <2>2, <2>3 DEF LoopInv
<1> QED
    BY <1>1, <1>2, <1>3, <1>4

\* StatisticsInv after a step, put together.
LEMMA StatisticsInvFrom ==
    ASSUME LoopInv', raw' = raw, NEW W, Visited' = W,
           NEW f, NEW d, NEW qs, stats' = [fields |-> f, drive |-> d, queues |-> qs],
           Says(raw, f, FieldKeys(W)), OneDrivePath(raw) => DriveSays(raw, d, W),
           QueuesSay(raw, qs, W)
    PROVE  StatisticsInv'
<1>1. stats'.fields = f /\ stats'.drive = d /\ stats'.queues = qs
    OBVIOUS
<1>2. stats' = [fields |-> stats'.fields, drive |-> stats'.drive, queues |-> stats'.queues]
    BY <1>1
<1>3. /\ Says(raw', stats'.fields, FieldKeys(Visited'))
      /\ OneDrivePath(raw') => DriveSays(raw', stats'.drive, Visited')
      /\ QueuesSay(raw', stats'.queues, Visited')
    BY <1>1
<1> QED
    BY <1>2, <1>3 DEF StatisticsInv, LoopInv

LEMMA FieldInv ==
    ASSUME StatisticsInv, NEW k, Field(k)
    PROVE  StatisticsInv'
<1> PICK V : V = Visited
    OBVIOUS
<1> PICK W : W = V \cup {k}
    OBVIOUS
<1>1. /\ LoopInv' /\ k \in DOMAIN raw /\ k \notin V /\ raw' = raw /\ Visited' = W
      /\ raw \in RawStatistics /\ V \subseteq DOMAIN raw
    BY VisitInv DEF Field, StatisticsInv, Visited
<1>2. k[1] \notin {"sys-drive-", "es-queue-"}
    BY DEF Field
<1>3. PropertyOf(k) = k[1]
    BY <1>1, <1>2, FieldKey
<1>4. PICK f : f = Put(stats.fields, PropertyOf(k), ValueFor(k, raw[k]))
    OBVIOUS
<1>5. stats' = [fields |-> f, drive |-> stats.drive, queues |-> stats.queues]
    BY <1>3, <1>4 DEF Field, StatisticsInv
<1>6. Says(raw, f, FieldKeys(W))
    <2>1. \A j \in FieldKeys(V) : PropertyOf(j) # PropertyOf(k)
        <3> TAKE j \in FieldKeys(V)
        <3>1. j \in DOMAIN raw /\ j # k /\ j[1] \notin {"sys-drive-", "es-queue-"}
            BY <1>1 DEF FieldKeys, KeysOf
        <3>2. PropertyOf(j) = j[1]
            BY <1>1, <3>1, FieldKey
        <3> QED
            BY <1>1, <1>2, <1>3, <3>1, <3>2, KeysDiffer
    <2>2. FieldKeys(W) = FieldKeys(V) \cup {k}
        BY <1>2, KeysAdded
    <2>3. Says(raw, stats.fields, FieldKeys(V))
        BY DEF StatisticsInv
    <2>4. Says(raw, f, FieldKeys(V) \cup {k})
        BY <1>4, <2>1, <2>3, SaysPut
    <2> QED
        BY <2>2, <2>4
<1>7. KeysOf(W, "sys-drive-") = KeysOf(V, "sys-drive-") /\ KeysOf(W, "es-queue-") = KeysOf(V, "es-queue-")
    BY <1>2, KeysAdded
<1>8. OneDrivePath(raw) => DriveSays(raw, stats.drive, W)
    BY <1>7 DEF DriveSays, StatisticsInv
<1>9. QueuesSay(raw, stats.queues, W)
    BY <1>7 DEF QueuesSay, Queues, QueueKeys, StatisticsInv
<1> QED
    BY <1>1, <1>5, <1>6, <1>8, <1>9, StatisticsInvFrom

LEMMA DriveInv ==
    ASSUME StatisticsInv, NEW k, Drive(k)
    PROVE  StatisticsInv'
<1> PICK V : V = Visited
    OBVIOUS
<1> PICK W : W = V \cup {k}
    OBVIOUS
<1>1. /\ LoopInv' /\ k \in DOMAIN raw /\ k \notin V /\ raw' = raw /\ Visited' = W
      /\ raw \in RawStatistics /\ V \subseteq DOMAIN raw
    BY VisitInv DEF Drive, StatisticsInv, Visited
<1>2. k[1] = "sys-drive-"
    BY DEF Drive
<1>3. PICK drive : drive = IF stats.drive = <<>> THEN [path |-> Head(k[2]), stats |-> <<>>]
                           ELSE stats.drive[1]
    OBVIOUS
<1>4. PICK d : d = <<[drive EXCEPT !.stats = Put(@, k[Len(k)], ValueFor(k, raw[k]))]>>
    OBVIOUS
<1>5. stats' = [fields |-> stats.fields, drive |-> d, queues |-> stats.queues]
    BY <1>3, <1>4 DEF Drive, StatisticsInv
<1>6. /\ FieldKeys(W) = FieldKeys(V)
      /\ KeysOf(W, "sys-drive-") = KeysOf(V, "sys-drive-") \cup {k}
      /\ KeysOf(W, "es-queue-") = KeysOf(V, "es-queue-")
    BY <1>2, KeysAdded
<1>7. Says(raw, stats.fields, FieldKeys(W))
    BY <1>6 DEF StatisticsInv
<1>8. QueuesSay(raw, stats.queues, W)
    BY <1>6 DEF QueuesSay, Queues, QueueKeys, StatisticsInv
<1>9. ASSUME OneDrivePath(raw) PROVE DriveSays(raw, d, W)
    <2>1. PICK K : K = KeysOf(V, "sys-drive-")
        OBVIOUS
    <2>2. \E path, f : /\ drive = [path |-> path, stats |-> f] /\ Says(raw, f, K)
                       /\ \E j \in K \cup {k} : path = Head(j[2])
        <3>1. DriveSays(raw, stats.drive, V)
            BY <1>9 DEF StatisticsInv
        <3>2. CASE K = {}
            <4>1. drive = [path |-> Head(k[2]), stats |-> <<>>]
                BY <1>3, <2>1, <3>1, <3>2 DEF DriveSays
            <4> QED
                BY <3>2, <4>1, SaysNothing
        <3>3. CASE K # {}
            <4>1. PICK path, f : /\ stats.drive = <<[path |-> path, stats |-> f]>>
                                 /\ \E j \in K : path = Head(j[2])
                                 /\ Says(raw, f, K)
                BY <2>1, <3>1, <3>3 DEF DriveSays
            <4>2. drive = [path |-> path, stats |-> f]
                BY <1>3, <4>1
            <4> QED
                BY <4>1, <4>2
        <3> QED
            BY <3>2, <3>3
    <2>3. PICK path, f : /\ drive = [path |-> path, stats |-> f] /\ Says(raw, f, K)
                         /\ \E j \in K \cup {k} : path = Head(j[2])
        BY <2>2
    <2>4. PICK g : g = Put(f, PropertyOf(k), ValueFor(k, raw[k]))
        OBVIOUS
    <2>5. d = <<[path |-> path, stats |-> g]>>
        BY <1>4, <2>3, <2>4 DEF PropertyOf
    <2>6. \A j \in K : PropertyOf(j) # PropertyOf(k)
        <3> TAKE j \in K
        <3>1. j \in DOMAIN raw /\ j # k /\ j[1] = k[1]
            BY <1>1, <1>2, <2>1 DEF KeysOf
        <3>2. j[2] = k[2]
            BY <1>1, <1>2, <1>9, <3>1 DEF OneDrivePath, KeysOf
        <3> QED
            BY <1>1, <3>1, <3>2, KeysDiffer
    <2>7. Says(raw, g, K \cup {k})
        BY <2>3, <2>4, <2>6, SaysPut
    <2>8. KeysOf(W, "sys-drive-") = K \cup {k} /\ KeysOf(W, "sys-drive-") # {}
        BY <1>6, <2>1
    <2> QED
        BY <2>3, <2>5, <2>7, <2>8 DEF DriveSays
<1> QED
    BY <1>1, <1>5, <1>7, <1>8, <1>9, StatisticsInvFrom

LEMMA QueueInv ==
    ASSUME StatisticsInv, NEW k, Queue(k)
    PROVE  StatisticsInv'
<1> PICK V : V = Visited
    OBVIOUS
<1> PICK W : W = V \cup {k}
    OBVIOUS
<1>1. /\ LoopInv' /\ k \in DOMAIN raw /\ k \notin V /\ raw' = raw /\ Visited' = W
      /\ raw \in RawStatistics /\ V \subseteq DOMAIN raw
    BY VisitInv DEF Queue, StatisticsInv, Visited
<1>2. k[1] = "es-queue-"
    BY DEF Queue
<1>3. PICK old : old = entry(stats.queues, k[2])
    OBVIOUS
<1>4. PICK new : new = Put(old, PropertyOf(k), ValueFor(k, raw[k]))
    OBVIOUS
<1>5. PICK qs : qs = Insert(stats.queues, k[2], new)
    OBVIOUS
<1>6. stats' = [fields |-> stats.fields, drive |-> stats.drive, queues |-> qs]
    BY <1>3, <1>4, <1>5 DEF Queue, StatisticsInv, PropertyOf
<1>7. /\ FieldKeys(W) = FieldKeys(V)
      /\ KeysOf(W, "sys-drive-") = KeysOf(V, "sys-drive-")
      /\ KeysOf(W, "es-queue-") = KeysOf(V, "es-queue-") \cup {k}
    BY <1>2, KeysAdded
<1>8. Says(raw, stats.fields, FieldKeys(W))
    BY <1>7 DEF StatisticsInv
<1>9. OneDrivePath(raw) => DriveSays(raw, stats.drive, W)
    BY <1>7 DEF DriveSays, StatisticsInv
<1>10. QueuesSay(raw, qs, W)
    <2>1. QueuesSay(raw, stats.queues, V) /\ DOMAIN stats.queues = Queues(V)
        BY DEF StatisticsInv, QueuesSay
    <2>2. Queues(W) = Queues(V) \cup {k[2]}
        BY <1>7 DEF Queues
    <2>3. qs = [q \in Queues(W) |-> IF q = k[2] THEN new ELSE stats.queues[q]]
        BY <1>5, <2>1, <2>2 DEF Insert
    <2>4. qs = [q \in Queues(W) |-> qs[q]]
        BY <2>3
    <2>5. Says(raw, old, QueueKeys(V, k[2]))
        <3>1. CASE k[2] \in Queues(V)
            BY <1>3, <2>1, <3>1 DEF entry, QueuesSay
        <3>2. CASE k[2] \notin Queues(V)
            <4>1. old = <<>>
                BY <1>3, <2>1, <3>2 DEF entry
            <4>2. QueueKeys(V, k[2]) = {}
                BY <3>2 DEF QueueKeys, Queues
            <4> QED
                BY <4>1, <4>2, SaysNothing
        <3> QED
            BY <3>1, <3>2
    <2>6. Says(raw, new, QueueKeys(V, k[2]) \cup {k})
        <3>1. \A j \in QueueKeys(V, k[2]) : PropertyOf(j) # PropertyOf(k)
            <4> TAKE j \in QueueKeys(V, k[2])
            <4>1. j \in DOMAIN raw /\ j # k /\ j[1] = k[1] /\ j[2] = k[2]
                BY <1>1, <1>2 DEF KeysOf, QueueKeys
            <4> QED
                BY <1>1, <4>1, KeysDiffer
        <3>2. PICK K : K = QueueKeys(V, k[2])
            OBVIOUS
        <3>3. Says(raw, new, K \cup {k})
            BY <1>4, <2>5, <3>1, <3>2, SaysPut
        <3> QED
            BY <3>2, <3>3
    <2>7. ASSUME NEW q \in Queues(W) PROVE Says(raw, qs[q], QueueKeys(W, q))
        <3>1. CASE q = k[2]
            <4>1. QueueKeys(W, q) = QueueKeys(V, k[2]) \cup {k}
                BY <1>7, <3>1 DEF QueueKeys
            <4>2. qs[q] = new
                BY <2>3, <3>1
            <4> QED
                BY <2>6, <4>1, <4>2
        <3>2. CASE q # k[2]
            <4>1. QueueKeys(W, q) = QueueKeys(V, q)
                BY <1>7, <3>2 DEF QueueKeys
            <4>2. q \in Queues(V) /\ qs[q] = stats.queues[q]
                BY <2>2, <2>3, <3>2
            <4> QED
                BY <2>1, <4>1, <4>2 DEF QueuesSay
        <3> QED
            BY <3>1, <3>2
    <2> QED
        BY <2>4, <2>7 DEF QueuesSay
<1> QED
    BY <1>1, <1>6, <1>8, <1>9, <1>10, StatisticsInvFrom

LEMMA StatisticsInitInv == StatisticsInit => StatisticsInv
<1> SUFFICES ASSUME StatisticsInit PROVE StatisticsInv
    OBVIOUS
<1>1. Visited = {}
    BY DEF StatisticsInit, Visited
<1>2. KeysOf(Visited, "sys-drive-") = {} /\ KeysOf(Visited, "es-queue-") = {} /\ FieldKeys(Visited) = {}
    BY <1>1 DEF KeysOf, FieldKeys
<1>3. stats = [fields |-> <<>>, drive |-> <<>>, queues |-> <<>>]
    BY DEF StatisticsInit
<1>4. Says(raw, <<>>, FieldKeys(Visited))
    BY <1>2, SaysNothing
<1>5. DriveSays(raw, <<>>, Visited) /\ QueuesSay(raw, <<>>, Visited)
    BY <1>2 DEF DriveSays, QueuesSay, Queues
<1>6. LoopInv
    BY <1>1 DEF LoopInv, StatisticsInit
<1> QED
    BY <1>3, <1>4, <1>5, <1>6 DEF StatisticsInv, LoopInv

LEMMA StatisticsStep == StatisticsInv /\ [StatisticsNext]_statisticsVars => StatisticsInv'
<1> SUFFICES ASSUME StatisticsInv, [StatisticsNext]_statisticsVars PROVE StatisticsInv'
    OBVIOUS
<1>1. CASE UNCHANGED statisticsVars
    BY <1>1 DEF StatisticsInv, Visited, statisticsVars
<1>2. CASE StatisticsRest
    BY <1>1, <1>2 DEF StatisticsRest
<1>3. CASE Finish
    BY <1>3 DEF Finish, StatisticsInv, Visited
<1>4. ASSUME NEW k \in todo, Field(k) \/ Drive(k) \/ Queue(k) PROVE StatisticsInv'
    BY <1>4, FieldInv, DriveInv, QueueInv
<1> QED
    BY <1>1, <1>2, <1>3, <1>4 DEF StatisticsNext

-----------------------------------------------------------------------------
(* The end of the loop *)

\* A finite set of at most one element has no two.
LEMMA AtMostOne ==
    ASSUME NEW S, IsFiniteSet(S), Cardinality(S) <= 1, NEW x \in S, NEW y \in S
    PROVE  x = y
<1> SUFFICES ASSUME x # y PROVE FALSE
    OBVIOUS
<1>1. IsFiniteSet(S \ {x}) /\ Cardinality(S \ {x}) = Cardinality(S) - 1
    BY FS_RemoveElement
<1>2. IsFiniteSet((S \ {x}) \ {y}) /\ Cardinality((S \ {x}) \ {y}) = Cardinality(S \ {x}) - 1
    <2>1. PICK T : T = S \ {x}
        OBVIOUS
    <2>2. IsFiniteSet(T) /\ y \in T
        BY <1>1, <2>1
    <2> QED
        BY <2>1, <2>2, FS_RemoveElement
<1>3. Cardinality(S) \in Nat /\ Cardinality(S \ {x}) \in Nat /\ Cardinality((S \ {x}) \ {y}) \in Nat
    BY <1>1, <1>2, FS_CardinalityType
<1> QED
    BY <1>1, <1>2, <1>3

LEMMA OneDrivePathIf ==
    ASSUME raw \in RawStatistics, Cardinality(DrivePaths(DOMAIN raw)) <= 1
    PROVE  OneDrivePath(raw)
<1>1. PICK K : K = KeysOf(DOMAIN raw, "sys-drive-")
    OBVIOUS
<1>2. PICK P : P = DrivePaths(DOMAIN raw)
    OBVIOUS
<1>3. P = {k[2] : k \in K}
    BY <1>1, <1>2 DEF DrivePaths
<1>4. IsFiniteSet(K)
    <2>1. IsFiniteSet(DOMAIN raw) /\ K \subseteq DOMAIN raw
        BY <1>1, RawStatisticsAssumption DEF KeysOf
    <2> QED
        BY <2>1, FS_Subset
<1>5. PICK f : f = [k \in K |-> k[2]]
    OBVIOUS
<1>6. f \in Surjection(K, P)
    BY <1>3, <1>5 DEF Surjection
<1>7. IsFiniteSet(P)
    BY <1>4, <1>6, FS_Surjection
<1>8. \A p, q \in P : p = q
    BY <1>2, <1>7, AtMostOne
<1> QED
    BY <1>1, <1>3, <1>8 DEF OneDrivePath

LEMMA MeaningReached ==
    ASSUME StatisticsInv, todo = {}, OneDrivePath(raw)
    PROVE  stats = Meaning(DOMAIN raw)
<1>1. PICK W : W = DOMAIN raw
    OBVIOUS
<1>2. Visited = W /\ raw \in RawStatistics
    BY <1>1 DEF Visited, StatisticsInv
<1>3. stats.fields = Under(FieldKeys(W))
    <2>1. Injective(FieldKeys(W))
        <3> SUFFICES ASSUME NEW j \in FieldKeys(W), NEW k \in FieldKeys(W), j # k
                     PROVE  PropertyOf(j) # PropertyOf(k)
            BY DEF Injective
        <3>1. /\ j \in DOMAIN raw /\ k \in DOMAIN raw
              /\ j[1] \notin {"sys-drive-", "es-queue-"} /\ k[1] \notin {"sys-drive-", "es-queue-"}
            BY <1>1 DEF FieldKeys, KeysOf
        <3>2. PropertyOf(j) = j[1] /\ PropertyOf(k) = k[1]
            BY <1>2, <3>1, FieldKey
        <3> QED
            BY <1>2, <3>1, <3>2, KeysDiffer
    <2>2. Says(raw, stats.fields, FieldKeys(W))
        BY <1>2 DEF StatisticsInv
    <2> QED
        BY <2>1, <2>2, SaysIsUnder
<1>4. stats.drive = IF DrivePaths(W) = {} THEN <<>>
                    ELSE <<[path |-> Head(CHOOSE p \in DrivePaths(W) : TRUE),
                            stats |-> Under(KeysOf(W, "sys-drive-"))]>>
    <2>1. PICK K : K = KeysOf(W, "sys-drive-")
        OBVIOUS
    <2>2. DriveSays(raw, stats.drive, W)
        BY <1>2 DEF StatisticsInv
    <2>3. DrivePaths(W) = {k[2] : k \in K} /\ (DrivePaths(W) = {} <=> K = {})
        BY <2>1 DEF DrivePaths
    <2>4. CASE K = {}
        BY <2>1, <2>2, <2>3, <2>4 DEF DriveSays
    <2>5. CASE K # {}
        <3>1. PICK path, f : /\ stats.drive = <<[path |-> path, stats |-> f]>>
                             /\ \E k \in K : path = Head(k[2])
                             /\ Says(raw, f, K)
            BY <2>1, <2>2, <2>5 DEF DriveSays
        <3>2. Injective(K)
            <4> SUFFICES ASSUME NEW j \in K, NEW k \in K, j # k
                         PROVE  PropertyOf(j) # PropertyOf(k)
                BY DEF Injective
            <4>1. j \in DOMAIN raw /\ k \in DOMAIN raw /\ j[1] = k[1] /\ j[2] = k[2]
                BY <1>1, <2>1 DEF KeysOf, OneDrivePath
            <4> QED
                BY <1>2, <4>1, KeysDiffer
        <3>3. f = Under(K)
            BY <3>1, <3>2, SaysIsUnder
        <3>4. PICK p : p = CHOOSE x \in DrivePaths(W) : TRUE
            OBVIOUS
        <3>5. p \in DrivePaths(W)
            BY <2>3, <2>5, <3>4
        <3>6. path = Head(p)
            <4>1. PICK j \in K : p = j[2]
                BY <2>3, <3>5
            <4>2. PICK k \in K : path = Head(k[2])
                BY <3>1
            <4>3. j[2] = k[2]
                BY <1>1, <2>1 DEF OneDrivePath
            <4> QED
                BY <4>1, <4>2, <4>3
        <3> QED
            BY <2>1, <2>3, <2>5, <3>1, <3>3, <3>4, <3>6
    <2> QED
        BY <2>4, <2>5
<1>5. stats.queues = [q \in Queues(W) |-> Under(QueueKeys(W, q))]
    <2>1. QueuesSay(raw, stats.queues, W)
        BY <1>2 DEF StatisticsInv
    <2>2. ASSUME NEW q \in Queues(W) PROVE stats.queues[q] = Under(QueueKeys(W, q))
        <3>1. PICK K : K = QueueKeys(W, q)
            OBVIOUS
        <3>2. Injective(K)
            <4> SUFFICES ASSUME NEW j \in K, NEW k \in K, j # k
                         PROVE  PropertyOf(j) # PropertyOf(k)
                BY DEF Injective
            <4>1. j \in DOMAIN raw /\ k \in DOMAIN raw /\ j[1] = k[1] /\ j[2] = k[2]
                BY <1>1, <3>1 DEF KeysOf, QueueKeys
            <4> QED
                BY <1>2, <4>1, KeysDiffer
        <3>3. PICK f : f = stats.queues[q]
            OBVIOUS
        <3>4. Says(raw, f, K)
            BY <2>1, <3>1, <3>3 DEF QueuesSay
        <3>5. f = Under(K)
            BY <3>2, <3>4, SaysIsUnder
        <3> QED
            BY <3>1, <3>3, <3>5
    <2> QED
        BY <2>1, <2>2 DEF QueuesSay
<1>6. stats = [fields |-> stats.fields, drive |-> stats.drive, queues |-> stats.queues]
    BY DEF StatisticsInv
<1> QED
    BY <1>1, <1>3, <1>4, <1>5, <1>6 DEF Meaning

\* For any map that a node sends, the statistics of a node with one drive do not
\* depend on the order in which the map is iterated, and a map is refused if and only
\* if one of its values does not parse (parse_statistics).
THEOREM StatisticsOrderIrrelevant == StatisticsSpec => []OrderDoesNotMatter
<1>1. StatisticsInv => OrderDoesNotMatter
    <2> SUFFICES ASSUME StatisticsInv PROVE OrderDoesNotMatter
        OBVIOUS
    <2>1. ASSUME outcome = "Ok" PROVE todo = {} /\ Visited = DOMAIN raw
        BY <2>1 DEF StatisticsInv, Visited
    <2>2. ASSUME outcome = "Ok" PROVE \A k \in DOMAIN raw : ValueFor(k, raw[k]) # Invalid
        BY <2>1, <2>2 DEF StatisticsInv
    <2>3. ASSUME outcome = "Ok", Cardinality(DrivePaths(DOMAIN raw)) <= 1
          PROVE  stats = Meaning(DOMAIN raw)
        <3>1. OneDrivePath(raw)
            BY <2>3, OneDrivePathIf DEF StatisticsInv
        <3> QED
            BY <2>1, <2>3, <3>1, MeaningReached
    <2> QED
        BY <2>2, <2>3 DEF OrderDoesNotMatter, StatisticsInv
<1> QED
    BY <1>1, StatisticsInitInv, StatisticsStep, PTL DEF StatisticsSpec

-----------------------------------------------------------------------------
(* Groups: integers of a width *)

LEMMA Remainder ==
    ASSUME NEW m \in Nat \ {0}, NEW n \in Int
    PROVE  n % m \in 0 .. m - 1
    OBVIOUS

LEMMA SmallRemainder ==
    ASSUME NEW m \in Nat \ {0}, NEW n \in 0 .. m - 1
    PROVE  n % m = n
    OBVIOUS

\* What does not fit is dropped; what fits is kept.
LEMMA I32Facts ==
    /\ I32 \div 2 \in Nat /\ I32 = 2 * (I32 \div 2)
    /\ \A n \in Int : AsI32(n) \in I32Values
    /\ \A n \in I32Values : AsI32(n) = n
<1>1. PICK h : h = I32 \div 2
    OBVIOUS
<1>2. h \in Nat /\ I32 = 2 * h
    BY <1>1, WidthsAssumption
<1>3. ASSUME NEW n \in Int PROVE AsI32(n) \in I32Values
    <2>1. (n + h) % I32 \in 0 .. I32 - 1
        BY <1>2, WidthsAssumption, Remainder
    <2>2. AsI32(n) = ((n + h) % I32) - h
        BY <1>1 DEF AsI32
    <2>3. PICK r : r = (n + h) % I32
        OBVIOUS
    <2>4. I32Values = -h .. h - 1
        BY <1>1 DEF I32Values
    <2> QED
        BY <1>2, <2>1, <2>2, <2>3, <2>4
<1>4. ASSUME NEW n \in I32Values PROVE AsI32(n) = n
    <2>1. I32Values = -h .. h - 1
        BY <1>1 DEF I32Values
    <2>2. n \in Int /\ n + h \in 0 .. I32 - 1
        BY <1>2, <1>4, <2>1
    <2>3. (n + h) % I32 = n + h
        BY <2>2, WidthsAssumption, SmallRemainder
    <2>4. AsI32(n) = ((n + h) % I32) - h
        BY <1>1 DEF AsI32
    <2> QED
        BY <1>2, <2>2, <2>3, <2>4
<1> QED
    BY <1>1, <1>2, <1>3, <1>4

LEMMA U64Facts ==
    /\ \A n \in Int : AsU64(n) \in U64Values
    /\ \A n \in U64Values : AsU64(n) = n
    BY WidthsAssumption, Remainder, SmallRemainder DEF AsU64, U64Values

\* A duration on its way to the server and back.
LEMMA DurationComesBack ==
    ASSUME NEW d \in Nat, NEW e, e = from_millis(AsU64(AsI32(as_millis(d))))
    PROVE  e \in Nat /\ (as_millis(d) < I32 \div 2 => e = from_millis(as_millis(d)))
<1>1. PICK n : n = as_millis(d)
    OBVIOUS
<1>2. n \in Nat
    BY <1>1, WidthsAssumption DEF as_millis
<1>3. AsI32(n) \in I32Values
    BY <1>2, I32Facts
<1>4. AsI32(n) \in Int
    BY <1>3, I32Facts DEF I32Values
<1>5. PICK k \in U64Values : k = AsU64(AsI32(n))
    BY <1>4, U64Facts
<1>6. e \in Nat
    BY <1>1, <1>5, WidthsAssumption DEF from_millis, U64Values
<1>7. ASSUME n < I32 \div 2 PROVE k = n
    <2>1. n \in I32Values /\ n \in U64Values
        BY <1>2, <1>7, I32Facts, GroupsAssumption, WidthsAssumption DEF I32Values, U64Values
    <2> QED
        BY <1>5, <2>1, I32Facts, U64Facts
<1> QED
    BY <1>1, <1>5, <1>6, <1>7

LEMMA StrategyComesBack ==
    ASSUME NEW starts, NEW settings \in SettingsFrom(starts), ~Unsupported(settings),
           NEW name, name = settings.consumer_strategy_name[1]
    PROVE  /\ NamedStrategies[StrategyNumber(settings) + 1] = name
           /\ SystemConsumerStrategy(name) = settings.consumer_strategy_name
           /\ SystemConsumerStrategy(name)[1] # "Custom"
           /\ name # "ByTenant"
<1>1. name \in {"DispatchToSingle", "RoundRobin", "Pinned"}
    BY DEF Unsupported, ToSet, NamedStrategies
<1>2. \E i \in 0..2 : NamedStrategies[i + 1] = name
    BY <1>1 DEF NamedStrategies
<1>3. NamedStrategies[StrategyNumber(settings) + 1] = name
    BY <1>2 DEF StrategyNumber
<1>4. ToSet(NamedStrategies) = {"DispatchToSingle", "RoundRobin", "Pinned"}
    BY DEF ToSet, NamedStrategies
<1>5. SystemConsumerStrategy(name) = <<name>>
    BY <1>1, <1>4 DEF SystemConsumerStrategy
<1>6. PICK strategy \in Strategies : strategy = settings.consumer_strategy_name
    BY DEF SettingsFrom
<1>7. strategy = <<name>>
    BY <1>1, <1>4, <1>6 DEF Strategies, SystemConsumerStrategy
<1> QED
    BY <1>1, <1>3, <1>5, <1>6, <1>7

\* The numbers of a config that are cast to i32 have that width already.
LEMMA CountsComeBack ==
    ASSUME NEW starts, NEW settings \in SettingsFrom(starts), NEW c, c = settings.counts
    PROVE  [n \in DOMAIN c |-> IF n \in {"resolve_link_tos", "extra_statistics"} THEN c[n]
                               ELSE AsI32(c[n])] = c
<1>1. \A n \in DOMAIN c : n \in {"resolve_link_tos", "extra_statistics"} \/ c[n] \in I32Values
    BY DEF SettingsFrom
<1>2. c = [n \in DOMAIN c |-> c[n]]
    BY DEF SettingsFrom
<1> QED
    BY <1>1, <1>2, I32Facts

-----------------------------------------------------------------------------
(* Starts and places *)

CanonicalStart(start) == IF start \in {FromRevision(0), FromPosition(0)} THEN FromStart ELSE start

Selectors(source) == {Selector(source), "BothTypeOfStream"}

LEMMA PlacesAreReached ==
    ASSUME NEW source \in Sources
    PROVE  /\ \A n \in U64Values : Reached(source, n) \in Places(source)
           /\ \A place \in Places(source) : \E n \in U64Values : place = Reached(source, n)
    BY DEF Places, Reached, FromPosition, FromRevision

LEMMA StartsDiffer ==
    ASSUME NEW source \in Sources, NEW n
    PROVE  /\ FromStart # FromEnd /\ Reached(source, n) \notin {FromStart, FromEnd}
           /\ CanonicalStart(FromStart) = FromStart /\ CanonicalStart(FromEnd) = FromEnd
           /\ CanonicalStart(Reached(source, n)) = IF n = 0 THEN FromStart ELSE Reached(source, n)
<1>1. FromStart[1] = "Start" /\ FromEnd[1] = "End"
    BY DEF FromStart, FromEnd
<1>2. \A m : FromRevision(m)[1] = "Revision" /\ FromPosition(m)[1] = "Position"
    BY DEF FromRevision, FromPosition
<1>3. \A m : FromRevision(m)[2] = m /\ FromPosition(m)[2] = m
    BY DEF FromRevision, FromPosition
<1>4. FromStart # FromEnd /\ Reached(source, n) \notin {FromStart, FromEnd}
    BY <1>1, <1>2 DEF Reached
<1>5. CanonicalStart(FromStart) = FromStart
    BY DEF CanonicalStart
<1>6. CanonicalStart(FromEnd) = FromEnd
    BY <1>1, <1>2 DEF CanonicalStart
<1>7. Reached(source, n) \in {FromRevision(0), FromPosition(0)} <=> n = 0
    BY <1>2, <1>3 DEF Reached
<1> QED
    BY <1>4, <1>5, <1>6, <1>7 DEF CanonicalStart

\* The number that the server has for a start.
LEMMA StartNumbers ==
    ASSUME NEW source \in Sources, NEW start \in Starts(source), NEW k,
           k = StartNumber(StartOption(start))
    PROVE  \/ start = FromStart /\ k = 0
           \/ start = FromEnd /\ k = -1
           \/ k \in U64Values /\ start = Reached(source, k)
<1>1. CASE start = FromStart
    BY <1>1 DEF StartNumber, StartOption
<1>2. CASE start = FromEnd
    BY <1>2, StartsDiffer DEF StartNumber, StartOption
<1>3. ASSUME NEW n \in U64Values, start = Reached(source, n)
      PROVE  k \in U64Values /\ start = Reached(source, k)
    <2>1. start # FromStart /\ start # FromEnd
        BY <1>3, StartsDiffer
    <2>2. start[2] = n
        BY <1>3 DEF Reached, FromRevision, FromPosition
    <2>3. StartOption(start) = [option |-> "Position", at |-> n]
        BY <2>1, <2>2 DEF StartOption
    <2>4. k = n
        BY <2>3 DEF StartNumber
    <2> QED
        BY <1>3, <2>4
<1> QED
    BY <1>1, <1>2, <1>3, PlacesAreReached DEF Starts

LEMMA TextFacts ==
    ASSUME NEW source \in Sources, NEW n \in Int
    PROVE  /\ PlaceText(source, n).form # "blank" /\ PlaceText(source, n).value = n
           /\ n >= 0 => parse_revision_or_position(PlaceText(source, n)) = Reached(source, n)
<1>1. CASE source = "$all"
    BY <1>1 DEF PlaceText, PositionText, Reached, parse_revision_or_position
<1>2. CASE source = "s"
    BY <1>2 DEF PlaceText, RevisionText, Reached, parse_revision_or_position
<1> QED
    BY <1>1, <1>2 DEF Sources

\* A start on its way to the server and back, as a text.
LEMMA StartComesBack ==
    ASSUME NEW source \in Sources, NEW start \in Starts(source), NEW text,
           text = PlaceText(source, StartNumber(StartOption(start)))
    PROVE  parse_stream_position(text) = CanonicalStart(start)
<1>1. PICK k : k = StartNumber(StartOption(start))
    OBVIOUS
<1>2. \/ start = FromStart /\ k = 0
      \/ start = FromEnd /\ k = -1
      \/ k \in U64Values /\ start = Reached(source, k)
    BY <1>1, StartNumbers
<1>3. k \in Int /\ U64Values \subseteq Nat
    BY <1>2, WidthsAssumption DEF U64Values
<1>4. text.form # "blank" /\ text.value = k
    BY <1>1, <1>3, TextFacts
<1>5. CASE k = 0
    <2>1. parse_stream_position(text) = FromStart
        BY <1>4, <1>5 DEF parse_stream_position
    <2>2. CanonicalStart(start) = FromStart
        BY <1>2, <1>5, StartsDiffer
    <2> QED
        BY <2>1, <2>2
<1>6. CASE k = -1
    <2>1. parse_stream_position(text) = FromEnd
        BY <1>4, <1>6 DEF parse_stream_position
    <2>2. start = FromEnd
        BY <1>2, <1>3, <1>6
    <2> QED
        BY <2>1, <2>2, StartsDiffer
<1>7. CASE k # 0 /\ k # -1
    <2>1. start = Reached(source, k) /\ k >= 0
        BY <1>2, <1>3, <1>7
    <2>2. parse_stream_position(text) = parse_revision_or_position(text)
        BY <1>4, <1>7 DEF parse_stream_position
    <2>3. parse_revision_or_position(text) = Reached(source, k)
        BY <1>1, <1>3, <2>1, TextFacts
    <2> QED
        BY <1>7, <2>1, <2>2, <2>3, StartsDiffer
<1> QED
    BY <1>5, <1>6, <1>7

\* The same as a number, of a group on a stream.
LEMMA NumberComesBack ==
    ASSUME NEW start \in Starts("s")
    PROVE  StreamRevOrPos(Num(StartNumber(StartOption(start)))) = CanonicalStart(start)
<1>1. "s" \in Sources
    BY DEF Sources
<1>2. PICK k : k = StartNumber(StartOption(start))
    OBVIOUS
<1>3. \/ start = FromStart /\ k = 0
      \/ start = FromEnd /\ k = -1
      \/ k \in U64Values /\ start = Reached("s", k)
    BY <1>1, <1>2, StartNumbers
<1>4. k \in Int /\ U64Values \subseteq Nat
    BY <1>3, WidthsAssumption DEF U64Values
<1>5. PICK v : v = Num(k)
    OBVIOUS
<1>6. v[1] = "number" /\ v[2] = k /\ \A n : v = Num(n) <=> k = n
    BY <1>5 DEF Num
<1>7. CASE k = 0
    <2>1. StreamRevOrPos(v) = FromStart
        <3>1. v # Num(-1) /\ v = Num(0)
            BY <1>6, <1>7
        <3> QED
            BY <1>6, <3>1 DEF StreamRevOrPos
    <2>2. CanonicalStart(start) = FromStart
        BY <1>1, <1>3, <1>7, StartsDiffer
    <2> QED
        BY <1>2, <1>5, <2>1, <2>2
<1>8. CASE k = -1
    <2>1. StreamRevOrPos(v) = FromEnd
        <3>1. v = Num(-1) /\ v # Num(0)
            BY <1>6, <1>8
        <3> QED
            BY <1>6, <3>1 DEF StreamRevOrPos
    <2>2. start = FromEnd
        BY <1>3, <1>4, <1>8
    <2> QED
        BY <1>1, <1>2, <1>5, <2>1, <2>2, StartsDiffer
<1>9. CASE k # 0 /\ k # -1
    <2>1. start = Reached("s", k) /\ k \in U64Values
        BY <1>3, <1>4, <1>9
    <2>2. StreamRevOrPos(v) = FromRevision(AsU64(k))
        BY <1>6, <1>9 DEF StreamRevOrPos
    <2>3. StreamRevOrPos(v) = Reached("s", k)
        BY <2>1, <2>2, U64Facts DEF Reached
    <2> QED
        BY <1>1, <1>2, <1>5, <1>9, <2>1, <2>3, StartsDiffer
<1> QED
    BY <1>7, <1>8, <1>9

LEMMA StartIsSelected ==
    ASSUME NEW source \in Sources, NEW start \in Starts(source), NEW selector \in Selectors(source)
    PROVE  /\ CanonicalStart(start) \in Starts(source) /\ CanonicalStart(start) # Invalid
           /\ select(selector, CanonicalStart(start)) = CanonicalStart(start)
<1>1. PICK x : x = CanonicalStart(start)
    OBVIOUS
<1>2. x \in Starts(source)
    BY <1>1 DEF CanonicalStart, Starts
<1>3. x # Invalid
    BY <1>2, NoValueAssumption
<1>4. x[1] \in {"Start", "End", IF source = "$all" THEN "Position" ELSE "Revision"}
    BY <1>2 DEF Starts, Places, FromStart, FromEnd
<1>5. select(selector, x) = x
    BY <1>4 DEF select, Selectors, Selector
<1> QED
    BY <1>1, <1>2, <1>3, <1>5

-----------------------------------------------------------------------------
(* The groups of the server, and what is said of them *)

\* Of the settings that group g was given, the server has what can be sent; a client
\* of another kind may since have changed the strategy.
FromSettings(g, settings) ==
    /\ g.start = StartOption(settings.start_from)
    /\ g.message_timeout_ms = AsI32(as_millis(settings.message_timeout))
    /\ g.checkpoint_after_ms = AsI32(as_millis(settings.checkpoint_after))
    /\ g.counts = settings.counts
    /\ \/ g.meant = settings /\ g.strategy = settings.consumer_strategy_name[1]
       \/ g.meant = None /\ g.strategy = "ByTenant"

Progress == -1 .. MaxKnown

IsGroup(source, g) ==
    /\ g = [start |-> g.start, message_timeout_ms |-> g.message_timeout_ms,
            checkpoint_after_ms |-> g.checkpoint_after_ms, strategy |-> g.strategy,
            counts |-> g.counts, known |-> g.known, checkpointed |-> g.checkpointed,
            meant |-> g.meant]
    /\ g.known \in Progress /\ g.checkpointed \in Progress
    /\ \E settings \in GroupOptions[source] : ~Unsupported(settings) /\ FromSettings(g, settings)

\* What InfoIsTrue says of one group.
TrueInfo(over, source, g, info) ==
    /\ g.meant # None /\ info.settings # None /\ Fits(g.meant) => info.settings = Canonical(g.meant)
    /\ over = "gRPC" => info.settings # None
    /\ g.known # -1 => info.known = Reached(source, g.known)
    /\ g.checkpointed # -1 => info.checkpointed = Reached(source, g.checkpointed)
    /\ (over = "gRPC" \/ source = "$all") /\ g.known = -1 => info.known = None

\* The settings that come back, with what the interface makes of counts.
ReturnedSettings(g, start, counts) ==
    [start_from |-> start,
     message_timeout |-> from_millis(AsU64(g.message_timeout_ms)),
     checkpoint_after |-> from_millis(AsU64(g.checkpoint_after_ms)),
     consumer_strategy_name |-> SystemConsumerStrategy(g.strategy), counts |-> counts]

\* They are settings, and those that were meant.
LEMMA SettingsComeBack ==
    ASSUME NEW source \in Sources, NEW settings \in SettingsFrom(Starts(source)),
           ~Unsupported(settings), NEW g, FromSettings(g, settings),
           NEW back, back = ReturnedSettings(g, CanonicalStart(settings.start_from), settings.counts)
    PROVE  /\ back \in SettingsFrom(Starts(source))
           /\ g.meant # None /\ Fits(g.meant) => back = Canonical(g.meant)
<1>1. PICK start \in Starts(source) : start = settings.start_from
    BY DEF SettingsFrom
<1>2. PICK mt \in Nat : mt = settings.message_timeout
    BY DEF SettingsFrom
<1>3. PICK ca \in Nat : ca = settings.checkpoint_after
    BY DEF SettingsFrom
<1>4. PICK strategy \in Strategies : strategy = settings.consumer_strategy_name
    BY DEF SettingsFrom
<1>5. PICK start2 : start2 = CanonicalStart(start)
    OBVIOUS
<1>6. PICK mt2 : mt2 = from_millis(AsU64(AsI32(as_millis(mt))))
    OBVIOUS
<1>7. PICK ca2 : ca2 = from_millis(AsU64(AsI32(as_millis(ca))))
    OBVIOUS
<1>8. PICK strategy2 : strategy2 = SystemConsumerStrategy(g.strategy)
    OBVIOUS
<1>9. back = [start_from |-> start2, message_timeout |-> mt2, checkpoint_after |-> ca2,
              consumer_strategy_name |-> strategy2, counts |-> settings.counts]
    BY <1>1, <1>2, <1>3, <1>5, <1>6, <1>7, <1>8 DEF ReturnedSettings, FromSettings
<1>10. start2 \in Starts(source)
    BY <1>5, StartIsSelected DEF Selectors
<1>11. mt2 \in Nat /\ (as_millis(mt) < I32 \div 2 => mt2 = from_millis(as_millis(mt)))
    BY <1>6, DurationComesBack
<1>12. ca2 \in Nat /\ (as_millis(ca) < I32 \div 2 => ca2 = from_millis(as_millis(ca)))
    BY <1>7, DurationComesBack
<1>13. SystemConsumerStrategy(strategy[1]) = strategy
    BY <1>4, StrategyComesBack
<1>14. strategy2 \in Strategies
    <2>1. CASE g.strategy = strategy[1]
        BY <1>4, <1>8, <1>13, <2>1
    <2>2. CASE g.strategy = "ByTenant"
        <3>1. SystemConsumerStrategy("ByTenant") \in Strategies
            BY DEF Strategies
        <3>2. strategy2 = SystemConsumerStrategy("ByTenant")
            BY <1>8, <2>2
        <3> QED
            BY <3>1, <3>2
    <2>3. g.strategy = strategy[1] \/ g.strategy = "ByTenant"
        BY <1>4 DEF FromSettings
    <2> QED
        BY <2>1, <2>2, <2>3
<1>15. back \in SettingsFrom(Starts(source))
    BY <1>9, <1>10, <1>11, <1>12, <1>14 DEF SettingsFrom
<1>16. ASSUME g.meant # None, Fits(g.meant) PROVE back = Canonical(g.meant)
    <2>1. g.meant = settings /\ g.strategy = strategy[1]
        BY <1>4, <1>16 DEF FromSettings
    <2>2. mt2 = from_millis(as_millis(mt)) /\ ca2 = from_millis(as_millis(ca))
        BY <1>2, <1>3, <1>11, <1>12, <1>16, <2>1 DEF Fits
    <2>3. strategy2 = strategy
        BY <1>8, <1>13, <2>1
    <2>4. settings = [start_from |-> start, message_timeout |-> mt, checkpoint_after |-> ca,
                      consumer_strategy_name |-> strategy, counts |-> settings.counts]
        BY <1>1, <1>2, <1>3, <1>4 DEF SettingsFrom
    <2>5. Canonical(settings) =
            [start_from |-> start2, message_timeout |-> from_millis(as_millis(mt)),
             checkpoint_after |-> from_millis(as_millis(ca)),
             consumer_strategy_name |-> strategy, counts |-> settings.counts]
        <3>1. Canonical(settings) =
                [settings EXCEPT
                    !.message_timeout = from_millis(as_millis(mt)),
                    !.checkpoint_after = from_millis(as_millis(ca)), !.start_from = start2]
            BY <1>1, <1>2, <1>3, <1>5 DEF Canonical, CanonicalStart
        <3>2. PICK counts : counts = settings.counts
            OBVIOUS
        <3>3. PICK r : r = [start_from |-> start, message_timeout |-> mt, checkpoint_after |-> ca,
                            consumer_strategy_name |-> strategy, counts |-> counts]
            OBVIOUS
        <3>4. PICK m : m = from_millis(as_millis(mt))
            OBVIOUS
        <3>5. PICK c : c = from_millis(as_millis(ca))
            OBVIOUS
        <3>6. Canonical(settings) =
                [r EXCEPT !.message_timeout = m, !.checkpoint_after = c, !.start_from = start2]
            BY <2>4, <3>1, <3>2, <3>3, <3>4, <3>5
        <3>7. [r EXCEPT !.message_timeout = m, !.checkpoint_after = c, !.start_from = start2] =
                [start_from |-> start2, message_timeout |-> m, checkpoint_after |-> c,
                 consumer_strategy_name |-> strategy, counts |-> counts]
            <4>1. PICK r1 : r1 = [r EXCEPT !.message_timeout = m]
                OBVIOUS
            <4>2. r1 = [start_from |-> start, message_timeout |-> m, checkpoint_after |-> ca,
                        consumer_strategy_name |-> strategy, counts |-> counts]
                BY ONLY <3>3, <4>1
            <4>3. PICK r2 : r2 = [r1 EXCEPT !.checkpoint_after = c]
                OBVIOUS
            <4>4. r2 = [start_from |-> start, message_timeout |-> m, checkpoint_after |-> c,
                        consumer_strategy_name |-> strategy, counts |-> counts]
                BY ONLY <4>2, <4>3
            <4>5. [r2 EXCEPT !.start_from = start2] =
                    [start_from |-> start2, message_timeout |-> m, checkpoint_after |-> c,
                     consumer_strategy_name |-> strategy, counts |-> counts]
                BY ONLY <4>4
            <4> QED
                BY ONLY <4>1, <4>3, <4>5
        <3> QED
            BY <3>2, <3>4, <3>5, <3>6, <3>7
    <2> QED
        BY <1>9, <2>1, <2>2, <2>3, <2>5
<1> QED
    BY <1>15, <1>16

\* How far a group got, as a text.
LEMMA PlaceComesBack ==
    ASSUME NEW source \in Sources, NEW n \in Progress, n # -1
    PROVE  /\ n \in U64Values /\ n >= 0
           /\ parse_revision_or_position(PlaceText(source, n)) = Reached(source, n)
           /\ Reached(source, n) \in Places(source) /\ Reached(source, n) # Invalid
<1>1. n \in U64Values /\ n \in Int /\ n >= 0
    BY GroupsAssumption, WidthsAssumption DEF Progress, U64Values
<1>2. Reached(source, n) \in Places(source)
    BY <1>1, PlacesAreReached
<1> QED
    BY <1>1, <1>2, TextFacts, NoValueAssumption DEF Starts

LEMMA BlankIsNone == parse_revision_or_position(Blank) = Invalid
    BY DEF parse_revision_or_position, Blank

\* The places of an info, by what was read: over gRPC, and over HTTP.
GrpcPlace(text) ==
    IF parse_revision_or_position(text) = Invalid THEN None ELSE parse_revision_or_position(text)

HttpPlace(all, text, number) ==
    IF ~all THEN FromRevision(AsU64(number)) ELSE IF text = None THEN None ELSE parse_position(text)

LEMMA GrpcPlaceComesBack ==
    ASSUME NEW source \in Sources, NEW n \in Progress, NEW place,
           place = GrpcPlace(IF n = -1 THEN Blank ELSE PlaceText(source, n))
    PROVE  /\ place \in Places(source) \cup {None}
           /\ n # -1 => place = Reached(source, n)
           /\ n = -1 => place = None
<1>1. CASE n = -1
    BY <1>1, BlankIsNone DEF GrpcPlace
<1>2. CASE n # -1
    BY <1>2, PlaceComesBack DEF GrpcPlace
<1> QED
    BY <1>1, <1>2

LEMMA HttpPlaceComesBack ==
    ASSUME NEW source \in Sources, NEW n \in Progress, NEW place,
           place = HttpPlace(source = "$all",
                             IF source = "$all" /\ n # -1 THEN PositionText(n) ELSE None,
                             IF source = "$all" THEN 0 ELSE n)
    PROVE  /\ place \in Places(source) \cup {None} /\ place # Invalid
           /\ n # -1 => place = Reached(source, n)
           /\ source = "$all" /\ n = -1 => place = None
<1>1. CASE source = "$all" /\ n = -1
    BY <1>1, NoValueAssumption DEF HttpPlace
<1>2. CASE source = "$all" /\ n # -1
    <2>1. PositionText(n) # None
        <3>1. n \in Nat
            BY <1>2, PlaceComesBack, WidthsAssumption DEF U64Values
        <3>2. PositionText(n) \in [form : {"position"}, value : Nat]
            BY <3>1 DEF PositionText
        <3> QED
            BY <3>2, NoValueAssumption
    <2>2. parse_position(PositionText(n)) = FromPosition(n)
        BY <1>2, PlaceComesBack DEF parse_position, PositionText
    <2>3. place = Reached(source, n)
        BY <1>2, <2>1, <2>2 DEF HttpPlace, Reached
    <2> QED
        BY <1>2, <2>3, PlaceComesBack
<1>3. CASE source # "$all"
    <2>1. place = FromRevision(AsU64(n))
        BY <1>3 DEF HttpPlace
    <2>2. n \in Int
        BY GroupsAssumption, WidthsAssumption DEF Progress, U64Values
    <2>3. AsU64(n) \in U64Values
        BY <2>2, U64Facts
    <2>4. place = Reached(source, AsU64(n))
        BY <1>3, <2>1 DEF Reached
    <2>5. place \in Places(source)
        BY <2>3, <2>4, PlacesAreReached
    <2>6. place # Invalid
        BY <2>5, NoValueAssumption DEF Starts
    <2>7. n # -1 => place = Reached(source, n)
        BY <2>4, U64Facts, PlaceComesBack
    <2> QED
        BY <1>3, <2>5, <2>6, <2>7
<1> QED
    BY <1>1, <1>2, <1>3

LEMMA GrpcTells ==
    ASSUME NEW source \in Sources, NEW selector \in Selectors(source), IsGroup(source, groups[source]),
           NEW info, info = GrpcInfo(selector, Wire(source))
    PROVE  /\ info \in Infos(source) /\ info # Invalid
           /\ TrueInfo("gRPC", source, groups[source], info)
<1>1. PICK g : g = groups[source]
    OBVIOUS
<1>2. PICK settings \in GroupOptions[source] : ~Unsupported(settings) /\ FromSettings(g, settings)
    BY <1>1 DEF IsGroup
<1>3. settings \in SettingsFrom(Starts(source))
    BY <1>2, GroupsAssumption
<1>4. PICK start \in Starts(source) : start = settings.start_from
    BY <1>3 DEF SettingsFrom
<1>5. g.start = StartOption(start) /\ g.counts = settings.counts
    BY <1>2, <1>4 DEF FromSettings
<1>6. PICK w : w = Wire(source)
    OBVIOUS
<1>7. /\ w.start_from = PlaceText(source, StartNumber(g.start))
      /\ w.message_timeout_ms = g.message_timeout_ms /\ w.checkpoint_after_ms = g.checkpoint_after_ms
      /\ w.strategy = g.strategy /\ w.counts = g.counts
      /\ w.last_known = IF g.known = -1 THEN Blank ELSE PlaceText(source, g.known)
      /\ w.last_checkpointed =
            IF g.checkpointed = -1 THEN Blank ELSE PlaceText(source, g.checkpointed)
    BY <1>1, <1>6 DEF Wire
<1>8. PICK x : x = parse_stream_position(w.start_from)
    OBVIOUS
<1>9. x = CanonicalStart(start)
    BY <1>5, <1>7, <1>8, StartComesBack
<1>10. x # Invalid /\ select(selector, x) = x
    BY <1>9, StartIsSelected
<1>11. PICK back : back = ReturnedSettings(g, x, settings.counts)
    OBVIOUS
<1>12. PICK known : known = GrpcPlace(w.last_known)
    OBVIOUS
<1>13. PICK checkpointed : checkpointed = GrpcPlace(w.last_checkpointed)
    OBVIOUS
<1>14. info = [settings |-> back, known |-> known, checkpointed |-> checkpointed]
    BY <1>5, <1>6, <1>7, <1>8, <1>10, <1>11, <1>12, <1>13 DEF GrpcInfo, GrpcPlace, ReturnedSettings
<1>15. /\ back \in SettingsFrom(Starts(source))
       /\ g.meant # None /\ Fits(g.meant) => back = Canonical(g.meant)
    BY <1>2, <1>3, <1>4, <1>9, <1>11, SettingsComeBack
<1>16. g.known \in Progress /\ g.checkpointed \in Progress
    BY <1>1 DEF IsGroup
<1>17. /\ known \in Places(source) \cup {None}
       /\ g.known # -1 => known = Reached(source, g.known)
       /\ g.known = -1 => known = None
    BY <1>7, <1>12, <1>16, GrpcPlaceComesBack
<1>18. /\ checkpointed \in Places(source) \cup {None}
       /\ g.checkpointed # -1 => checkpointed = Reached(source, g.checkpointed)
    BY <1>7, <1>13, <1>16, GrpcPlaceComesBack
<1>19. info \in Infos(source)
    BY <1>14, <1>15, <1>17, <1>18 DEF Infos
<1>20. info # Invalid /\ back # None
    BY <1>15, <1>19, NoValueAssumption
<1>21. TrueInfo("gRPC", source, g, info)
    BY <1>14, <1>15, <1>17, <1>18, <1>20 DEF TrueInfo
<1> QED
    BY <1>1, <1>19, <1>20, <1>21

LEMMA HttpTells ==
    ASSUME NEW source \in Sources, NEW selector \in Selectors(source), IsGroup(source, groups[source]),
           NEW detailed \in BOOLEAN, NEW info, info = from_http_info(selector, Http(source, detailed))
    PROVE  \/ info = Invalid /\ groups[source].strategy = "ByTenant"
           \/ /\ info \in Infos(source) /\ info # Invalid
              /\ TrueInfo("HTTP", source, groups[source], info)
<1>1. PICK g : g = groups[source]
    OBVIOUS
<1>2. PICK settings \in GroupOptions[source] : ~Unsupported(settings) /\ FromSettings(g, settings)
    BY <1>1 DEF IsGroup
<1>3. settings \in SettingsFrom(Starts(source))
    BY <1>2, GroupsAssumption
<1>4. PICK start \in Starts(source) : start = settings.start_from
    BY <1>3 DEF SettingsFrom
<1>5. g.start = StartOption(start) /\ g.counts = settings.counts
    BY <1>2, <1>4 DEF FromSettings
<1>6. PICK w : w = Http(source, detailed)
    OBVIOUS
<1>7. PICK c : c = w.config
    OBVIOUS
<1>8. /\ w.event_stream_id = source
      /\ w.last_known_number = IF source = "$all" THEN 0 ELSE g.known
      /\ w.last_processed_number = IF source = "$all" THEN 0 ELSE g.checkpointed
      /\ w.last_known_position =
            IF source = "$all" /\ g.known # -1 THEN PositionText(g.known) ELSE None
      /\ w.last_checkpointed_position =
            IF source = "$all" /\ g.checkpointed # -1 THEN PositionText(g.checkpointed) ELSE None
    BY <1>1, <1>6 DEF Http
<1>9. c = None \/ /\ c.startFrom = IF source = "$all" THEN Num(0) ELSE Num(StartNumber(g.start))
                  /\ c.startPosition =
                        IF source = "$all" THEN PlaceText(source, StartNumber(g.start)) ELSE Blank
                  /\ c.message_timeout_ms = g.message_timeout_ms
                  /\ c.checkpoint_after_ms = g.checkpoint_after_ms
                  /\ c.strategy = g.strategy /\ c.counts = g.counts
    BY <1>1, <1>6, <1>7 DEF Http
<1>10. PICK known : known = HttpPlace(source = "$all", w.last_known_position, w.last_known_number)
    OBVIOUS
<1>11. PICK checkpointed :
          checkpointed = HttpPlace(source = "$all", w.last_checkpointed_position, w.last_processed_number)
    OBVIOUS
<1>12. g.known \in Progress /\ g.checkpointed \in Progress
    BY <1>1 DEF IsGroup
<1>13. /\ known \in Places(source) \cup {None} /\ known # Invalid
       /\ g.known # -1 => known = Reached(source, g.known)
       /\ source = "$all" /\ g.known = -1 => known = None
    BY <1>8, <1>10, <1>12, HttpPlaceComesBack
<1>14. /\ checkpointed \in Places(source) \cup {None} /\ checkpointed # Invalid
       /\ g.checkpointed # -1 => checkpointed = Reached(source, g.checkpointed)
    BY <1>8, <1>11, <1>12, HttpPlaceComesBack
<1>15. PICK x : x = IF source = "$all" THEN parse_stream_position(c.startPosition)
                    ELSE StreamRevOrPos(c.startFrom)
    OBVIOUS
<1>16. CASE c = None
    <2>1. info = [settings |-> None, known |-> known, checkpointed |-> checkpointed]
        BY <1>6, <1>7, <1>8, <1>10, <1>11, <1>13, <1>14, <1>16 DEF from_http_info, HttpPlace
    <2>2. info \in Infos(source)
        BY <1>13, <1>14, <2>1 DEF Infos
    <2>3. info # Invalid
        BY <2>2, NoValueAssumption
    <2>4. TrueInfo("HTTP", source, g, info)
        BY <1>13, <1>14, <2>1 DEF TrueInfo
    <2> QED
        BY <1>1, <2>2, <2>3, <2>4
<1>17. CASE c # None /\ g.strategy = "ByTenant"
    <2>1. SystemConsumerStrategy("ByTenant")[1] = "Custom"
        BY DEF SystemConsumerStrategy, ToSet, NamedStrategies
    <2>2. ~ConfigParses(c)
        BY <1>9, <1>17, <2>1 DEF ConfigParses
    <2>3. info = Invalid
        BY <1>6, <1>7, <1>17, <2>2 DEF from_http_info
    <2> QED
        BY <1>1, <1>17, <2>3
<1>18. CASE c # None /\ g.strategy # "ByTenant"
    <2>1. g.strategy = settings.consumer_strategy_name[1]
        BY <1>2, <1>18 DEF FromSettings
    <2>2. SystemConsumerStrategy(c.strategy)[1] # "Custom"
        BY <1>2, <1>3, <1>9, <1>18, <2>1, StrategyComesBack
    <2>3. x = CanonicalStart(start) /\ StreamRevOrPos(c.startFrom) # Invalid
        <3>1. CASE source = "$all"
            <4>1. x = CanonicalStart(start)
                BY <1>5, <1>9, <1>15, <1>18, <3>1, StartComesBack
            <4>2. Num(0) = Num(0) /\ Num(0) # Num(-1) /\ Num(0)[1] = "number" /\ Num(0)[2] = 0
                BY DEF Num
            <4>3. StreamRevOrPos(Num(0)) = FromStart
                BY <4>2 DEF StreamRevOrPos
            <4>4. FromStart # Invalid
                BY NoValueAssumption DEF Starts
            <4> QED
                BY <1>9, <1>18, <3>1, <4>1, <4>3, <4>4
        <3>2. CASE source # "$all"
            <4>1. source = "s"
                BY <3>2 DEF Sources
            <4>2. x = CanonicalStart(start) /\ x = StreamRevOrPos(c.startFrom)
                BY <1>4, <1>5, <1>9, <1>15, <1>18, <4>1, NumberComesBack
            <4> QED
                BY <4>2, StartIsSelected DEF Selectors
        <3> QED
            BY <3>1, <3>2
    <2>4. ConfigParses(c)
        BY <2>2, <2>3 DEF ConfigParses
    <2>5. x # Invalid /\ select(selector, x) = x
        BY <2>3, StartIsSelected
    <2>6. PICK counts : counts = settings.counts
        OBVIOUS
    <2>7. [n \in DOMAIN counts |-> IF n \in {"resolve_link_tos", "extra_statistics"} THEN counts[n]
                                   ELSE AsI32(counts[n])] = counts
        BY <1>3, <2>6, CountsComeBack
    <2>8. PICK back : back = ReturnedSettings(g, x, counts)
        OBVIOUS
    <2>9. c.counts = counts
        BY <1>5, <1>9, <1>18, <2>6
    <2>10. info = [settings |-> back, known |-> known, checkpointed |-> checkpointed]
        <3>1. info =
                [settings |->
                    [start_from |-> select(selector, x),
                     message_timeout |-> from_millis(AsU64(c.message_timeout_ms)),
                     checkpoint_after |-> from_millis(AsU64(c.checkpoint_after_ms)),
                     consumer_strategy_name |-> SystemConsumerStrategy(c.strategy),
                     counts |-> [n \in DOMAIN c.counts |->
                                    IF n \in {"resolve_link_tos", "extra_statistics"} THEN c.counts[n]
                                    ELSE AsI32(c.counts[n])]],
                 known |-> known, checkpointed |-> checkpointed]
            BY <1>6, <1>7, <1>8, <1>10, <1>11, <1>13, <1>14, <1>15, <1>18, <2>4, <2>5
            DEF from_http_info, HttpPlace
        <3>2. back = [start_from |-> select(selector, x),
                      message_timeout |-> from_millis(AsU64(c.message_timeout_ms)),
                      checkpoint_after |-> from_millis(AsU64(c.checkpoint_after_ms)),
                      consumer_strategy_name |-> SystemConsumerStrategy(c.strategy),
                      counts |-> counts]
            BY <1>9, <1>18, <2>5, <2>8 DEF ReturnedSettings
        <3> QED
            BY <2>7, <2>9, <3>1, <3>2
    <2>11. /\ back \in SettingsFrom(Starts(source))
           /\ g.meant # None /\ Fits(g.meant) => back = Canonical(g.meant)
        BY <1>2, <1>3, <1>4, <2>3, <2>6, <2>8, SettingsComeBack
    <2>12. info \in Infos(source)
        BY <1>13, <1>14, <2>10, <2>11 DEF Infos
    <2>13. info # Invalid
        BY <2>12, NoValueAssumption
    <2>14. TrueInfo("HTTP", source, g, info)
        BY <1>13, <1>14, <2>10, <2>11 DEF TrueInfo
    <2> QED
        BY <1>1, <2>12, <2>13, <2>14
<1> QED
    BY <1>16, <1>17, <1>18

-----------------------------------------------------------------------------
(* The steps *)

GroupsInv ==
    /\ groups = [s \in Sources |-> groups[s]]
    /\ \A s \in Sources : groups[s] # None => IsGroup(s, groups[s])

LEMMA NoAnswerIsTrue ==
    ASSUME answer' = NoAnswer
    PROVE  InfoIsTrue'
<1>1. answer'.infos = <<>> /\ answer'.sources = {}
    BY DEF NoAnswer
<1> QED
    BY <1>1, NoValueAssumption DEF InfoIsTrue

\* A step that changes one group.
LEMMA GroupChanges ==
    ASSUME GroupsInv, NEW source \in Sources, NEW g, g # None => IsGroup(source, g),
           groups' = [groups EXCEPT ![source] = g], Changed
    PROVE  GroupsInv' /\ InfoIsTrue'
<1>1. InfoIsTrue'
    BY NoAnswerIsTrue DEF Changed
<1>2. groups' = [s \in Sources |-> groups'[s]]
    BY DEF GroupsInv
<1>3. groups'[source] = g /\ \A s \in Sources : s # source => groups'[s] = groups[s]
    BY DEF GroupsInv
<1>4. \A s \in Sources : groups'[s] # None => IsGroup(s, groups'[s])
    BY <1>3 DEF GroupsInv
<1> QED
    BY <1>1, <1>2, <1>4 DEF GroupsInv

\* A group that was made of settings.
LEMMA GroupFromSettings ==
    ASSUME NEW source \in Sources, NEW settings \in GroupOptions[source], ~Unsupported(settings),
           NEW known \in Progress, NEW checkpointed \in Progress, NEW g,
           g = [Group(CreateSettings(settings), settings) EXCEPT
                   !.known = known, !.checkpointed = checkpointed]
    PROVE  IsGroup(source, g)
<1>1. settings \in SettingsFrom(Starts(source))
    BY GroupsAssumption
<1>2. PICK wire : wire = CreateSettings(settings)
    OBVIOUS
<1>3. NamedStrategies[wire.strategy + 1] = settings.consumer_strategy_name[1]
    BY <1>1, <1>2, StrategyComesBack DEF CreateSettings
<1>4. /\ wire.start = StartOption(settings.start_from)
      /\ wire.message_timeout_ms = AsI32(as_millis(settings.message_timeout))
      /\ wire.checkpoint_after_ms = AsI32(as_millis(settings.checkpoint_after))
      /\ wire.counts = settings.counts
    BY <1>2 DEF CreateSettings
<1>5. PICK made : made = Group(wire, settings)
    OBVIOUS
<1>6. made = [start |-> wire.start, message_timeout_ms |-> wire.message_timeout_ms,
              checkpoint_after_ms |-> wire.checkpoint_after_ms,
              strategy |-> settings.consumer_strategy_name[1], counts |-> wire.counts,
              known |-> -1, checkpointed |-> -1, meant |-> settings]
    BY <1>3, <1>5 DEF Group
<1>7. g = [made EXCEPT !.known = known, !.checkpointed = checkpointed]
    BY <1>2, <1>5
<1>8. PICK made2 : made2 = [made EXCEPT !.known = known]
    OBVIOUS
<1>9. made2 = [start |-> wire.start, message_timeout_ms |-> wire.message_timeout_ms,
               checkpoint_after_ms |-> wire.checkpoint_after_ms,
               strategy |-> settings.consumer_strategy_name[1], counts |-> wire.counts,
               known |-> known, checkpointed |-> -1, meant |-> settings]
    BY <1>6, <1>8
<1>10. g = [made2 EXCEPT !.checkpointed = checkpointed]
    BY <1>7, <1>8
<1>11. g = [start |-> wire.start, message_timeout_ms |-> wire.message_timeout_ms,
            checkpoint_after_ms |-> wire.checkpoint_after_ms,
            strategy |-> settings.consumer_strategy_name[1], counts |-> wire.counts,
            known |-> known, checkpointed |-> checkpointed, meant |-> settings]
    BY <1>9, <1>10
<1>12. FromSettings(g, settings)
    <2>1. /\ g.start = wire.start /\ g.message_timeout_ms = wire.message_timeout_ms
          /\ g.checkpoint_after_ms = wire.checkpoint_after_ms /\ g.counts = wire.counts
        BY ONLY <1>11
    <2>2. g.meant = settings /\ g.strategy = settings.consumer_strategy_name[1]
        BY ONLY <1>11
    <2> QED
        BY <1>4, <2>1, <2>2 DEF FromSettings
<1>13. g = [start |-> g.start, message_timeout_ms |-> g.message_timeout_ms,
            checkpoint_after_ms |-> g.checkpoint_after_ms, strategy |-> g.strategy,
            counts |-> g.counts, known |-> g.known, checkpointed |-> g.checkpointed,
            meant |-> g.meant]
    BY <1>11
<1> QED
    BY <1>11, <1>12, <1>13 DEF IsGroup

LEMMA CreateInv ==
    ASSUME GroupsInv, NEW source \in Sources, create_persistent_subscription(source)
    PROVE  GroupsInv' /\ InfoIsTrue'
<1>1. PICK settings \in GroupOptions[source] :
          /\ ~Unsupported(settings)
          /\ groups' = [groups EXCEPT ![source] = Group(CreateSettings(settings), settings)]
          /\ Changed
    BY DEF create_persistent_subscription
<1>2. PICK g : g = Group(CreateSettings(settings), settings)
    OBVIOUS
<1>3. g.known = -1 /\ g.checkpointed = -1
    BY <1>2 DEF Group
<1>4. g = [g EXCEPT !.known = -1, !.checkpointed = -1]
    BY <1>2, <1>3 DEF Group
<1>5. -1 \in Progress
    BY GroupsAssumption, WidthsAssumption DEF Progress, U64Values
<1>6. IsGroup(source, g)
    BY <1>1, <1>2, <1>4, <1>5, GroupFromSettings
<1> QED
    BY <1>1, <1>2, <1>6, GroupChanges

LEMMA UpdateInv ==
    ASSUME GroupsInv, NEW source \in Sources, update_persistent_subscription(source)
    PROVE  GroupsInv' /\ InfoIsTrue'
<1>1. PICK settings \in GroupOptions[source] :
          /\ ~Unsupported(settings)
          /\ groups[source] # None
          /\ groups' = [groups EXCEPT ![source] =
                 [Group(UpdateSettings(settings), settings) EXCEPT
                      !.known = groups[source].known, !.checkpointed = groups[source].checkpointed]]
          /\ Changed
    BY DEF update_persistent_subscription
<1>2. PICK known : known = groups[source].known
    OBVIOUS
<1>3. PICK checkpointed : checkpointed = groups[source].checkpointed
    OBVIOUS
<1>4. known \in Progress /\ checkpointed \in Progress
    BY <1>1, <1>2, <1>3 DEF GroupsInv, IsGroup
<1>5. PICK g : g = [Group(CreateSettings(settings), settings) EXCEPT
                       !.known = known, !.checkpointed = checkpointed]
    OBVIOUS
<1>6. groups' = [groups EXCEPT ![source] = g]
    BY <1>1, <1>2, <1>3, <1>5 DEF UpdateSettings
<1>7. IsGroup(source, g)
    BY <1>1, <1>4, <1>5, GroupFromSettings
<1> QED
    BY <1>1, <1>6, <1>7, GroupChanges

LEMMA ForeignUpdateInv ==
    ASSUME GroupsInv, NEW source \in Sources, ForeignUpdate(source)
    PROVE  GroupsInv' /\ InfoIsTrue'
<1>1. PICK g : g = groups[source]
    OBVIOUS
<1>2. PICK h : h = [g EXCEPT !.strategy = "ByTenant", !.meant = None]
    OBVIOUS
<1>3. /\ g # None /\ Changed
      /\ groups' = [groups EXCEPT ![source] = h]
    BY <1>1, <1>2 DEF ForeignUpdate
<1>4. IsGroup(source, g)
    BY <1>1, <1>3 DEF GroupsInv
<1>5. h = [start |-> g.start, message_timeout_ms |-> g.message_timeout_ms,
           checkpoint_after_ms |-> g.checkpoint_after_ms, strategy |-> "ByTenant",
           counts |-> g.counts, known |-> g.known, checkpointed |-> g.checkpointed, meant |-> None]
    BY <1>2, <1>4 DEF IsGroup
<1>6. PICK settings \in GroupOptions[source] : ~Unsupported(settings) /\ FromSettings(g, settings)
    BY <1>4 DEF IsGroup
<1>7. FromSettings(h, settings)
    BY <1>5, <1>6 DEF FromSettings
<1>8. IsGroup(source, h)
    BY <1>4, <1>5, <1>6, <1>7 DEF IsGroup
<1> QED
    BY <1>3, <1>8, GroupChanges

LEMMA AdvanceInv ==
    ASSUME GroupsInv, NEW source \in Sources, Advance(source)
    PROVE  GroupsInv' /\ InfoIsTrue'
<1>1. PICK g : g = groups[source]
    OBVIOUS
<1>2. g # None /\ Changed
    BY <1>1 DEF Advance
<1>3. IsGroup(source, g)
    BY <1>1, <1>2 DEF GroupsInv
<1>4. PICK settings \in GroupOptions[source] : ~Unsupported(settings) /\ FromSettings(g, settings)
    BY <1>3 DEF IsGroup
<1>5. CASE g.known < MaxKnown /\ groups' = [groups EXCEPT ![source].known = @ + 1]
    <2>1. PICK k : k = g.known + 1
        OBVIOUS
    <2>2. k \in Progress
        BY <1>3, <1>5, <2>1, GroupsAssumption, WidthsAssumption DEF IsGroup, Progress, U64Values
    <2>3. PICK h : h = [g EXCEPT !.known = k]
        OBVIOUS
    <2>4. groups' = [groups EXCEPT ![source] = h]
        BY <1>1, <1>5, <2>1, <2>3
    <2>5. h = [start |-> g.start, message_timeout_ms |-> g.message_timeout_ms,
               checkpoint_after_ms |-> g.checkpoint_after_ms, strategy |-> g.strategy,
               counts |-> g.counts, known |-> k, checkpointed |-> g.checkpointed, meant |-> g.meant]
        BY <1>3, <2>3 DEF IsGroup
    <2>6. FromSettings(h, settings)
        BY <1>4, <2>5 DEF FromSettings
    <2>7. IsGroup(source, h)
        BY <1>3, <1>4, <2>2, <2>5, <2>6 DEF IsGroup
    <2> QED
        BY <1>2, <2>4, <2>7, GroupChanges
<1>6. CASE groups' = [groups EXCEPT ![source].checkpointed = groups[source].known]
    <2>1. PICK k : k = g.known
        OBVIOUS
    <2>2. k \in Progress
        BY <1>3, <2>1 DEF IsGroup
    <2>3. PICK h : h = [g EXCEPT !.checkpointed = k]
        OBVIOUS
    <2>4. groups' = [groups EXCEPT ![source] = h]
        BY <1>1, <1>6, <2>1, <2>3
    <2>5. h = [start |-> g.start, message_timeout_ms |-> g.message_timeout_ms,
               checkpoint_after_ms |-> g.checkpoint_after_ms, strategy |-> g.strategy,
               counts |-> g.counts, known |-> g.known, checkpointed |-> k, meant |-> g.meant]
        BY <1>3, <2>3 DEF IsGroup
    <2>6. FromSettings(h, settings)
        BY <1>4, <2>5 DEF FromSettings
    <2>7. IsGroup(source, h)
        BY <1>3, <1>4, <2>2, <2>5, <2>6 DEF IsGroup
    <2> QED
        BY <1>2, <2>4, <2>7, GroupChanges
<1> QED
    BY <1>1, <1>5, <1>6 DEF Advance

LEMMA DeleteInv ==
    ASSUME GroupsInv, NEW source \in Sources, delete_persistent_subscription(source)
    PROVE  GroupsInv' /\ InfoIsTrue'
    BY GroupChanges DEF delete_persistent_subscription

\* What is answered for each of the sources is true, or it fails the answer.
Tells(over, source, info) ==
    \/ /\ info \in Infos(source) /\ info # Invalid
       /\ TrueInfo(over, source, groups[source], info)
    \/ info = Invalid /\ over = "HTTP" /\ groups[source].strategy = "ByTenant"

LEMMA AnswerInv ==
    ASSUME GroupsInv, NEW over, NEW sources \in SUBSET Sources, NEW infos,
           infos = [s \in sources |-> infos[s]], \A s \in sources : Tells(over, s, infos[s]),
           Answer(over, infos)
    PROVE  GroupsInv' /\ InfoIsTrue'
<1>1. groups' = groups
    BY DEF Answer
<1>2. GroupsInv'
    BY <1>1 DEF GroupsInv
<1>3. DOMAIN infos = sources
    OBVIOUS
<1>4. PICK given : given = IF \E s \in DOMAIN infos : infos[s] = Invalid THEN Invalid ELSE infos
    OBVIOUS
<1>5. answer'.over = over /\ answer'.sources = sources /\ answer'.infos = given
    BY <1>3, <1>4 DEF Answer
<1>6. CASE \E s \in sources : infos[s] = Invalid
    <2>1. PICK s \in sources : infos[s] = Invalid
        BY <1>6
    <2>2. over = "HTTP" /\ groups[s].strategy = "ByTenant"
        BY <2>1 DEF Tells
    <2>3. given = Invalid
        BY <1>3, <1>4, <1>6
    <2>4. InfoIsTrue'
        BY <1>1, <1>5, <2>2, <2>3 DEF InfoIsTrue
    <2> QED
        BY <1>2, <2>4
<1>7. CASE \A s \in sources : infos[s] # Invalid
    <2>1. given = infos
        BY <1>3, <1>4, <1>7
    <2>2. ASSUME NEW s \in sources
          PROVE  infos[s] \in Infos(s) /\ TrueInfo(over, s, groups[s], infos[s])
        BY <1>7 DEF Tells
    <2>3. \A s \in sources : infos[s] \in Infos("s") \cup Infos("$all")
        BY <2>2 DEF Sources
    <2>4. infos \in [sources -> Infos("s") \cup Infos("$all")]
        BY <2>3
    <2>5. given # Invalid
        BY <2>1, <2>4, NoValueAssumption
    <2>6. \A s \in sources : TrueInfo(over, s, groups[s], infos[s])
        BY <2>2
    <2>7. InfoIsTrue'
        BY <1>1, <1>5, <2>1, <2>5, <2>6 DEF InfoIsTrue, TrueInfo
    <2> QED
        BY <1>2, <2>7
<1> QED
    BY <1>6, <1>7

\* The answer over gRPC, and over HTTP, for sources that have a group.
LEMMA GrpcAnswerInv ==
    ASSUME GroupsInv, NEW sources \in SUBSET Sources, \A s \in sources : groups[s] # None,
           NEW selector, \A s \in sources : selector[s] \in Selectors(s),
           NEW infos, infos = [s \in sources |-> GrpcInfo(selector[s], Wire(s))], Answer("gRPC", infos)
    PROVE  GroupsInv' /\ InfoIsTrue'
<1>1. infos = [s \in sources |-> infos[s]]
    OBVIOUS
<1>2. ASSUME NEW s \in sources PROVE Tells("gRPC", s, infos[s])
    <2>1. s \in Sources /\ selector[s] \in Selectors(s) /\ IsGroup(s, groups[s])
        BY DEF GroupsInv
    <2>2. PICK info : info = GrpcInfo(selector[s], Wire(s))
        OBVIOUS
    <2>3. PICK x : x = selector[s]
        OBVIOUS
    <2>4. info = GrpcInfo(x, Wire(s)) /\ x \in Selectors(s)
        BY <2>1, <2>2, <2>3
    <2>5. Tells("gRPC", s, info)
        BY <2>1, <2>4, GrpcTells DEF Tells
    <2> QED
        BY <2>2, <2>5
<1> QED
    BY <1>1, <1>2, AnswerInv

LEMMA HttpAnswerInv ==
    ASSUME GroupsInv, NEW sources \in SUBSET Sources, \A s \in sources : groups[s] # None,
           NEW detailed \in BOOLEAN, NEW selector, \A s \in sources : selector[s] \in Selectors(s),
           NEW infos, infos = [s \in sources |-> from_http_info(selector[s], Http(s, detailed))],
           Answer("HTTP", infos)
    PROVE  GroupsInv' /\ InfoIsTrue'
<1>1. infos = [s \in sources |-> infos[s]]
    OBVIOUS
<1>2. ASSUME NEW s \in sources PROVE Tells("HTTP", s, infos[s])
    <2>1. s \in Sources /\ selector[s] \in Selectors(s) /\ IsGroup(s, groups[s])
        BY DEF GroupsInv
    <2>2. PICK info : info = from_http_info(selector[s], Http(s, detailed))
        OBVIOUS
    <2>3. PICK x : x = selector[s]
        OBVIOUS
    <2>4. info = from_http_info(x, Http(s, detailed)) /\ x \in Selectors(s)
        BY <2>1, <2>2, <2>3
    <2>5. Tells("HTTP", s, info)
        BY <2>1, <2>4, HttpTells DEF Tells
    <2> QED
        BY <2>2, <2>5
<1> QED
    BY <1>1, <1>2, AnswerInv

LEMMA SelectorFacts ==
    ASSUME NEW sources \in SUBSET Sources
    PROVE  /\ \A s \in sources : [x \in sources |-> Selector(x)][s] \in Selectors(s)
           /\ \A s \in sources : [x \in sources |-> "BothTypeOfStream"][s] \in Selectors(s)
    BY DEF Selectors

\* One of the ways in which a step answers for the sources.
AnswersFor(sources) ==
    \E selector \in {[x \in sources |-> Selector(x)], [x \in sources |-> "BothTypeOfStream"]} :
        \/ Answer("gRPC", [s \in sources |-> GrpcInfo(selector[s], Wire(s))])
        \/ \E detailed \in BOOLEAN :
              Answer("HTTP", [s \in sources |-> from_http_info(selector[s], Http(s, detailed))])

LEMMA AnswersInv ==
    ASSUME GroupsInv, NEW sources \in SUBSET Sources, \A s \in sources : groups[s] # None,
           AnswersFor(sources)
    PROVE  GroupsInv' /\ InfoIsTrue'
<1>1. PICK selector \in {[x \in sources |-> Selector(x)], [x \in sources |-> "BothTypeOfStream"]} :
          \/ Answer("gRPC", [s \in sources |-> GrpcInfo(selector[s], Wire(s))])
          \/ \E detailed \in BOOLEAN :
                Answer("HTTP", [s \in sources |-> from_http_info(selector[s], Http(s, detailed))])
    BY DEF AnswersFor
<1>2. \A s \in sources : selector[s] \in Selectors(s)
    BY <1>1, SelectorFacts
<1>3. CASE Answer("gRPC", [s \in sources |-> GrpcInfo(selector[s], Wire(s))])
    BY <1>2, <1>3, GrpcAnswerInv
<1>4. ASSUME NEW detailed \in BOOLEAN,
             Answer("HTTP", [s \in sources |-> from_http_info(selector[s], Http(s, detailed))])
      PROVE  GroupsInv' /\ InfoIsTrue'
    BY <1>2, <1>4, HttpAnswerInv
<1> QED
    BY <1>1, <1>3, <1>4

LEMMA GetInfoInv ==
    ASSUME GroupsInv, NEW source \in Sources, get_persistent_subscription_info(source)
    PROVE  GroupsInv' /\ InfoIsTrue'
<1>1. PICK selector : selector = [x \in {source} |-> Selector(x)]
    OBVIOUS
<1>2. PICK sources : sources = {source}
    OBVIOUS
<1>3. sources \in SUBSET Sources /\ \A s \in sources : groups[s] # None
    BY <1>2 DEF get_persistent_subscription_info
<1>4. \A s \in sources : selector[s] = Selector(s)
    BY <1>1, <1>2
<1>5. CASE Answer("gRPC", [s \in {source} |-> GrpcInfo(Selector(s), Wire(s))])
    <2>1. Answer("gRPC", [s \in sources |-> GrpcInfo(selector[s], Wire(s))])
        BY <1>2, <1>4, <1>5
    <2> QED
        BY <1>1, <1>2, <1>3, <2>1, AnswersInv DEF AnswersFor
<1>6. CASE Answer("HTTP", [s \in {source} |-> from_http_info(Selector(s), Http(s, TRUE))])
    <2>1. Answer("HTTP", [s \in sources |-> from_http_info(selector[s], Http(s, TRUE))])
        BY <1>2, <1>4, <1>6
    <2> QED
        BY <1>1, <1>2, <1>3, <2>1, AnswersInv DEF AnswersFor
<1> QED
    BY <1>5, <1>6 DEF get_persistent_subscription_info

LEMMA ListForStreamInv ==
    ASSUME GroupsInv, NEW source \in Sources, list_persistent_subscriptions_for_stream(source)
    PROVE  GroupsInv' /\ InfoIsTrue'
<1>1. PICK sources : sources = Existing({source})
    OBVIOUS
<1>2. PICK selector : selector = [x \in sources |-> Selector(x)]
    OBVIOUS
<1>3. sources \in SUBSET Sources /\ \A s \in sources : groups[s] # None
    BY <1>1 DEF Existing
<1>4. \A s \in sources : selector[s] = Selector(s)
    BY <1>2
<1>5. CASE Answer("gRPC", [s \in Existing({source}) |-> GrpcInfo(Selector(s), Wire(s))])
    <2>1. Answer("gRPC", [s \in sources |-> GrpcInfo(selector[s], Wire(s))])
        BY <1>1, <1>4, <1>5
    <2> QED
        BY <1>2, <1>3, <2>1, AnswersInv DEF AnswersFor
<1>6. ASSUME NEW detailed \in BOOLEAN,
             Answer("HTTP", [s \in Existing({source}) |-> from_http_info(Selector(s), Http(s, detailed))])
      PROVE  GroupsInv' /\ InfoIsTrue'
    <2>1. Answer("HTTP", [s \in sources |-> from_http_info(selector[s], Http(s, detailed))])
        BY <1>1, <1>4, <1>6
    <2> QED
        BY <1>2, <1>3, <2>1, AnswersInv DEF AnswersFor
<1> QED
    BY <1>5, <1>6 DEF list_persistent_subscriptions_for_stream

LEMMA ListAllInv ==
    ASSUME GroupsInv, list_all_persistent_subscriptions
    PROVE  GroupsInv' /\ InfoIsTrue'
<1>1. PICK sources : sources = Existing(Sources)
    OBVIOUS
<1>2. PICK selector : selector = [x \in sources |-> "BothTypeOfStream"]
    OBVIOUS
<1>3. sources \in SUBSET Sources /\ \A s \in sources : groups[s] # None
    BY <1>1 DEF Existing
<1>4. \A s \in sources : selector[s] = "BothTypeOfStream"
    BY <1>2
<1>5. CASE Answer("gRPC", [s \in Existing(Sources) |-> GrpcInfo("BothTypeOfStream", Wire(s))])
    <2>1. Answer("gRPC", [s \in sources |-> GrpcInfo(selector[s], Wire(s))])
        BY <1>1, <1>4, <1>5
    <2> QED
        BY <1>2, <1>3, <2>1, AnswersInv DEF AnswersFor
<1>6. ASSUME NEW detailed \in BOOLEAN,
             Answer("HTTP", [s \in Existing(Sources) |->
                                from_http_info("BothTypeOfStream", Http(s, detailed))])
      PROVE  GroupsInv' /\ InfoIsTrue'
    <2>1. Answer("HTTP", [s \in sources |-> from_http_info(selector[s], Http(s, detailed))])
        BY <1>1, <1>4, <1>6
    <2> QED
        BY <1>2, <1>3, <2>1, AnswersInv DEF AnswersFor
<1> QED
    BY <1>5, <1>6 DEF list_all_persistent_subscriptions

LEMMA GroupsInitInv == GroupsInit => GroupsInv /\ InfoIsTrue
<1> SUFFICES ASSUME GroupsInit PROVE GroupsInv /\ InfoIsTrue
    OBVIOUS
<1>1. groups = [s \in Sources |-> None] /\ answer.infos = <<>> /\ answer.sources = {}
    BY DEF GroupsInit, NoAnswer
<1> QED
    BY <1>1, NoValueAssumption DEF GroupsInv, InfoIsTrue

LEMMA GroupsStep == GroupsInv /\ InfoIsTrue /\ [GroupsNext]_groupsVars => GroupsInv' /\ InfoIsTrue'
<1> SUFFICES ASSUME GroupsInv, InfoIsTrue, [GroupsNext]_groupsVars PROVE GroupsInv' /\ InfoIsTrue'
    OBVIOUS
<1>1. CASE UNCHANGED groupsVars
    <2>1. groups' = groups /\ answer' = answer
        BY <1>1 DEF groupsVars
    <2> QED
        BY <2>1 DEF GroupsInv, InfoIsTrue
<1>2. CASE GroupsNext
    BY <1>2, CreateInv, UpdateInv, DeleteInv, ForeignUpdateInv, AdvanceInv, GetInfoInv,
       ListForStreamInv, ListAllInv DEF GroupsNext
<1> QED
    BY <1>1, <1>2

\* Get info and list tell the truth about a group, over gRPC and over HTTP, whatever
\* settings it was given, whatever their widths, and whoever else changed it; an
\* answer fails only over HTTP, because of a strategy that the client does not know
\* (PersistentSubscriptionInfo::try_from, from_http_info).
THEOREM InfosAreTrue == GroupsSpec => []InfoIsTrue
    BY GroupsInitInv, GroupsStep, PTL DEF GroupsSpec
=============================================================================
