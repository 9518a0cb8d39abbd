------------------------- MODULE BatchAppendProofs -------------------------
(***************************************************************************)
(* Proofs about BatchAppend: for any set of appends, any order and         *)
(* repetition of responses and any failure of the stream.                  *)
(*                                                                         *)
(* An append passes through the channel of the actor, the channel of       *)
(* requests, the server, and back; StageInv says that it is never in two   *)
(* of these places, and so executed at most once.  TruthInv says that a    *)
(* response tells what the server did, and SessionInv why the actor has    *)
(* stopped.                                                                *)
(***************************************************************************)
EXTENDS BatchAppend, TLAPS

-----------------------------------------------------------------------------
(* Queues *)

Has(s, m)  == \E i \in 1..Len(s) : s[i] = m
Once(s, m) == \A i, j \in 1..Len(s) : s[i] = m /\ s[j] = m => i = j

LEMMA EmptyQueue == \A m : ~Has(<<>>, m) /\ Once(<<>>, m)
  BY DEF Has, Once

LEMMA AppendToQueue ==
    ASSUME NEW S, NEW s \in Seq(S), NEW e \in S
    PROVE  /\ Append(s, e) \in Seq(S)
           /\ \A m : Has(Append(s, e), m) <=> Has(s, m) \/ m = e
           /\ \A m : Once(s, m) /\ (m = e => ~Has(s, m)) => Once(Append(s, e), m)
  <1>1. /\ Append(s, e) \in Seq(S) /\ Len(s) \in Nat /\ Len(Append(s, e)) = Len(s) + 1
        /\ \A i \in 1..Len(s) : Append(s, e)[i] = s[i]
        /\ Append(s, e)[Len(s) + 1] = e
    OBVIOUS
  <1> DEFINE t == Append(s, e)
  <1> HIDE DEF t
  <1>2. \A i \in 1..Len(t) : i = Len(s) + 1 \/ i \in 1..Len(s)
    BY <1>1 DEF t
  <1>3. \A m : Has(t, m) <=> Has(s, m) \/ m = e
    BY <1>1, <1>2 DEF t, Has
  <1>4. \A m : Once(s, m) /\ (m = e => ~Has(s, m)) => Once(t, m)
    BY <1>1, <1>2 DEF t, Has, Once
  <1> QED BY <1>1, <1>3, <1>4 DEF t

LEMMA TailOfQueue ==
    ASSUME NEW S, NEW s \in Seq(S), s # <<>>
    PROVE  /\ Tail(s) \in Seq(S) /\ Head(s) \in S /\ Has(s, Head(s))
           /\ \A m : Has(s, m) <=> Has(Tail(s), m) \/ m = Head(s)
           /\ \A m : Once(s, m) => Once(Tail(s), m)
           /\ Once(s, Head(s)) => ~Has(Tail(s), Head(s))
  <1>1. /\ Tail(s) \in Seq(S) /\ Len(s) \in Nat \ {0} /\ Len(Tail(s)) = Len(s) - 1
        /\ \A i \in 1..(Len(s) - 1) : Tail(s)[i] = s[i + 1]
        /\ Head(s) = s[1] /\ s[1] \in S
    OBVIOUS
  <1> DEFINE t == Tail(s)
             h == Head(s)
  <1> HIDE DEF t, h
  <1>2. \A i \in 1..Len(s) : i = 1 \/ (i - 1 \in 1..Len(t) /\ t[i - 1] = s[i])
    BY <1>1 DEF t
  <1>3. \A i \in 1..Len(t) : i + 1 \in 2..Len(s) /\ i + 1 \in 1..Len(s) /\ t[i] = s[i + 1]
    BY <1>1 DEF t
  <1>4. 1 \in 1..Len(s) /\ s[1] = h
    BY <1>1 DEF h
  <1>5. \A m : Has(s, m) <=> Has(t, m) \/ m = h
    BY <1>2, <1>3, <1>4 DEF Has
  <1>6. \A m : Once(s, m) => Once(t, m)
    <2> SUFFICES ASSUME NEW m, Once(s, m), NEW i \in 1..Len(t), NEW j \in 1..Len(t),
                        t[i] = m, t[j] = m
                 PROVE  i = j
      BY DEF Once
    <2>1. i + 1 = j + 1
      BY <1>3 DEF Once
    <2> QED BY <1>1, <2>1 DEF t
  <1>7. Once(s, h) => ~Has(t, h)
    <2> SUFFICES ASSUME Once(s, h), NEW i \in 1..Len(t), t[i] = h PROVE FALSE
      BY DEF Has
    <2>1. i + 1 = 1
      BY <1>3, <1>4 DEF Once
    <2> QED BY <1>1, <2>1 DEF t
  <1> QED BY <1>1, <1>4, <1>5, <1>6, <1>7 DEF t, h, Has

-----------------------------------------------------------------------------
(* The inductive invariant *)

\* The server has dealt with a: it is written, or a response about it exists.
Settled(a) ==
    \/ a \in committed
    \/ append[a] \in Results
    \/ \E r \in Results : Has(responses, Out(a, r)) \/ Has(inbox, Out(a, r))

\* An append is in one place at a time, and in each queue once.
StageInv ==
    \A a \in Appends :
        /\ append[a] = "idle" =>
              ~Has(inbox, In(a)) /\ ~Has(forward, a) /\ a \notin executing /\ ~Settled(a)
        /\ Has(inbox, In(a)) => ~Has(forward, a) /\ a \notin executing /\ ~Settled(a)
        /\ Has(forward, a) => a \notin executing /\ ~Settled(a)
        /\ a \in executing => ~Settled(a)
        /\ Once(inbox, In(a)) /\ Once(forward, a)

\* A response on its way, or given to its append, tells what became of the append.
TruthInv ==
    \A a \in Appends :
        /\ (Has(responses, Out(a, "ok")) \/ Has(inbox, Out(a, "ok")) \/ append[a] = "ok")
              => a \in committed
        /\ (Has(responses, Out(a, "rejected")) \/ Has(inbox, Out(a, "rejected"))
                \/ append[a] = "rejected")
              => a \notin committed

Over == reader \in {"failed", "ended", "orphaned"}

\* The server refused b, and whatever happens will not write its events.
Refused(b) ==
    /\ append[b] \in {"rejected", "cancelled"}
    /\ b \notin committed \cup executing
    /\ ~Has(forward, b) /\ ~Has(inbox, In(b))

\* Who waits and why the actor stopped.
SessionInv ==
    /\ \A a \in Appends : a \in reg \/ Has(inbox, In(a)) => append[a] \in {"waiting", "cancelled"}
    /\ ~transport => Over
    /\ Has(inbox, Error) => Over
    /\ \A a \in Appends : append[a] \in {"failed", "closed", "rejected"} => actor = "stopped"
    /\ actor = "stopped" => Over \/ \E b \in Appends : Refused(b)
    /\ NoAppendStranded

IInv == TypeOK /\ StageInv /\ TruthInv /\ SessionInv

-----------------------------------------------------------------------------
(* Messages *)

LEMMA Messages ==
    /\ \A a \in Appends : In(a) \in BatchMsg
    /\ \A a \in Appends, r \in Results : Out(a, r) \in Outs
    /\ Outs \subseteq BatchMsg /\ Error \in BatchMsg
    /\ \A a, b : In(a) = In(b) => a = b
    /\ \A a, b, r, q : Out(a, r) = Out(b, q) => a = b /\ r = q
    /\ \A a, b, r : In(a) # Out(b, r) /\ In(a) # Error /\ Out(b, r) # Error
  BY DEF In, Out, Error, Outs, BatchMsg, Results

LEMMA MessageKinds ==
    ASSUME NEW m \in BatchMsg
    PROVE  /\ m.type = "In" => m.id \in Appends /\ m = In(m.id)
           /\ m.type = "Out" => /\ m.id \in Appends /\ m.result \in Results
                               /\ m = Out(m.id, m.result)
           /\ m.type = "Error" => m = Error
  BY DEF In, Out, Error, Outs, BatchMsg, Results

-----------------------------------------------------------------------------
LEMMA IInvInit == Init => IInv
  <1> SUFFICES ASSUME Init PROVE IInv
    OBVIOUS
  <1>1. TypeOK
    BY DEF Init, TypeOK, ReaderState, AppendState
  <1>2. \A a \in Appends : append[a] = "idle" /\ ~Settled(a)
    BY EmptyQueue DEF Init, Settled, Results
  <1>3. StageInv /\ TruthInv
    BY <1>2, EmptyQueue DEF Init, StageInv, TruthInv
  <1>4. SessionInv
    BY <1>2, EmptyQueue DEF Init, SessionInv, NoAppendStranded
  <1> QED BY <1>1, <1>3, <1>4 DEF IInv

\* The actor stops: its queue and its registry are gone, and everybody who waited is
\* told so, with a rejection only where there is one.
LEMMA ActorStops ==
    ASSUME IInv, Break, UNCHANGED <<forward, transport, reader, serverVars>>,
           append' \in [Appends -> AppendState],
           \A a \in Appends :
               /\ append[a] # "waiting" => append'[a] = append[a]
               /\ append[a] = "waiting" => append'[a] \in {"closed", "failed", "rejected"}
               /\ append[a] = "waiting" /\ append'[a] = "rejected" => Has(inbox, Out(a, "rejected")),
           Over \/ \E b \in Appends : Refused(b)'
    PROVE  IInv'
  <1> USE DEF IInv
  <1>1. TypeOK'
    BY DEF TypeOK, Break, serverVars
  <1>2. \A m : ~Has(inbox', m) /\ Once(inbox', m)
    BY EmptyQueue DEF Break
  <1>3. \A a \in Appends : Settled(a)' => Settled(a)
    BY <1>2 DEF Settled, Results, serverVars
  <1>4. \A a \in Appends : append'[a] = "idle" => append[a] = "idle"
    BY DEF TypeOK
  <1>5. StageInv'
    BY <1>2, <1>3, <1>4 DEF StageInv, serverVars
  <1>6. TruthInv'
    BY <1>2 DEF TruthInv, serverVars
  <1>7. SessionInv'
    BY <1>2 DEF SessionInv, NoAppendStranded, Break, Over
  <1> QED BY <1>1, <1>5, <1>6, <1>7

(* The callers *)

LEMMA AppendKeepsIInv ==
    ASSUME IInv, NEW a \in Appends, append_to_stream(a)
    PROVE  IInv'
  <1> USE DEF IInv
  <1>1. /\ append[a] = "idle"
        /\ append'[a] = IF actor = "running" THEN "waiting" ELSE "closed"
        /\ \A b \in Appends : b # a => append'[b] = append[b]
        /\ UNCHANGED <<actor, reg, forward, transport, reader, executing, committed, responses>>
    BY DEF append_to_stream, TypeOK, serverVars
  <1>2. TypeOK'
    BY Messages DEF append_to_stream, Send, TypeOK, AppendState, serverVars
  <1>3. CASE actor = "running"
    <2>1. /\ \A m : Has(inbox', m) <=> Has(inbox, m) \/ m = In(a)
          /\ \A m : Once(inbox, m) /\ (m = In(a) => ~Has(inbox, m)) => Once(inbox', m)
      BY <1>3, AppendToQueue, Messages DEF append_to_stream, Send, TypeOK
    <2>2. \A b \in Appends, r \in Results : Has(inbox', Out(b, r)) <=> Has(inbox, Out(b, r))
      BY <2>1, Messages
    <2>3. \A b \in Appends : Has(inbox', In(b)) <=> Has(inbox, In(b)) \/ b = a
      BY <2>1, Messages
    <2>4. \A b \in Appends : Settled(b)' <=> Settled(b)
      BY <1>1, <1>3, <2>2 DEF Settled, Results
    <2>5. \A b \in Appends : Once(inbox', In(b))
      BY <1>1, <2>1, Messages DEF StageInv
    <2>6. StageInv'
      BY <1>1, <1>3, <2>3, <2>4, <2>5 DEF StageInv
    <2>7. TruthInv'
      BY <1>1, <1>3, <2>2 DEF TruthInv, Results
    <2>8. SessionInv'
      BY <1>1, <1>3, <2>1, <2>3, Messages DEF SessionInv, NoAppendStranded, Dropped, Over, Has
    <2> QED BY <1>2, <2>6, <2>7, <2>8
  <1>4. CASE actor # "running"
    <2>1. actor = "stopped" /\ inbox' = inbox
      BY <1>4 DEF append_to_stream, Send, TypeOK
    <2>2. \A b \in Appends : Settled(b)' <=> Settled(b)
      BY <1>1, <2>1 DEF Settled, Results
    <2>3. StageInv' /\ TruthInv'
      BY <1>1, <2>1, <2>2 DEF StageInv, TruthInv
    <2>4. \A b \in Appends : Refused(b) => Refused(b)'
      BY <1>1, <2>1 DEF Refused
    <2>5. SessionInv'
      BY <1>1, <2>1, <2>4 DEF SessionInv, NoAppendStranded, Dropped, Over, StageInv
    <2> QED BY <1>2, <2>3, <2>5
  <1> QED BY <1>3, <1>4

LEMMA CancelKeepsIInv ==
    ASSUME IInv, NEW a \in Appends, Cancel(a)
    PROVE  IInv'
  <1> USE DEF IInv
  <1>1. /\ append[a] = "waiting" /\ append'[a] = "cancelled"
        /\ \A b \in Appends : b # a => append'[b] = append[b]
        /\ UNCHANGED <<inbox, actor, reg, forward, transport, reader, executing, committed,
                       responses>>
    BY DEF Cancel, TypeOK, serverVars, actorVars
  <1>2. TypeOK'
    BY DEF Cancel, TypeOK, AppendState, serverVars, actorVars
  <1>3. \A b \in Appends : Settled(b)' <=> Settled(b)
    BY <1>1 DEF Settled, Results
  <1>4. StageInv' /\ TruthInv'
    BY <1>1, <1>3 DEF StageInv, TruthInv
  <1>5. \A b \in Appends : Refused(b) => Refused(b)'
    BY <1>1 DEF Refused
  <1>6. SessionInv'
    BY <1>1, <1>5 DEF SessionInv, NoAppendStranded, Dropped, Over
  <1> QED BY <1>2, <1>4, <1>6

-----------------------------------------------------------------------------
(* The actor *)

\* What receiving a message does to the queue of the actor.
LEMMA ReceivedMessage ==
    ASSUME TypeOK, Receive
    PROVE  /\ Tail(inbox) \in Seq(BatchMsg) /\ Head(inbox) \in BatchMsg
           /\ Has(inbox, Head(inbox)) /\ actor = "running"
           /\ \A m : Has(inbox, m) <=> Has(Tail(inbox), m) \/ m = Head(inbox)
           /\ \A m : Once(inbox, m) => Once(Tail(inbox), m)
           /\ Once(inbox, Head(inbox)) => ~Has(Tail(inbox), Head(inbox))
  BY TailOfQueue DEF TypeOK, Receive

LEMMA HandleInKeepsIInv ==
    ASSUME IInv, HandleIn
    PROVE  IInv'
  <1> USE DEF IInv
  <1> DEFINE h == Head(inbox)
             a == h.id
  <1>1. h \in BatchMsg /\ Receive /\ Has(inbox, h) /\ actor = "running" /\ h.type = "In"
    BY ReceivedMessage DEF HandleIn
  <1>2. a \in Appends /\ h = In(a)
    BY <1>1, MessageKinds
  <1> HIDE DEF h, a
  <1>3. CASE transport
    <2>1. /\ forward' = Append(forward, a) /\ reg' = reg \cup {a} /\ inbox' = Tail(inbox)
          /\ UNCHANGED <<actor, append, transport, reader, executing, committed, responses>>
      BY <1>3 DEF HandleIn, h, a, serverVars
    <2>2. TypeOK'
      BY <1>1, <1>2, <2>1, ReceivedMessage DEF HandleIn, TypeOK, serverVars
    <2>3. /\ \A m : Has(inbox, m) <=> Has(inbox', m) \/ m = In(a)
          /\ \A m : Once(inbox, m) => Once(inbox', m)
          /\ Once(inbox, In(a)) => ~Has(inbox', In(a))
      BY <1>1, <1>2, <2>1, ReceivedMessage DEF h
    <2>4. /\ \A m : Has(forward', m) <=> Has(forward, m) \/ m = a
          /\ \A m : Once(forward, m) /\ (m = a => ~Has(forward, m)) => Once(forward', m)
      BY <1>2, <2>1, AppendToQueue DEF TypeOK
    <2>5. \A b \in Appends, r \in Results : Has(inbox', Out(b, r)) <=> Has(inbox, Out(b, r))
      BY <2>3, Messages
    <2>6. /\ \A b \in Appends : Has(inbox', In(b)) <=> Has(inbox, In(b)) /\ b # a
          /\ Has(inbox, In(a)) /\ ~Has(forward, a)
      BY <1>1, <1>2, <2>3, Messages DEF StageInv
    <2>7. \A b \in Appends : Settled(b)' <=> Settled(b)
      BY <2>1, <2>5 DEF Settled
    <2>8. StageInv'
      BY <1>2, <2>1, <2>3, <2>4, <2>6, <2>7 DEF StageInv
    <2>9. TruthInv'
      BY <2>1, <2>5 DEF TruthInv, Results
    <2>10. /\ Has(inbox', Error) => Has(inbox, Error)
           /\ actor' = "running"
      BY <1>1, <2>1, <2>3
    <2>11. \A b \in Appends : b \in Dropped <=> b \in Dropped'
      BY <2>1, <2>6 DEF Dropped, Has
    <2>12. SessionInv'
      BY <1>1, <1>2, <2>1, <2>6, <2>10, <2>11 DEF SessionInv, NoAppendStranded, Over
    <2> QED BY <2>2, <2>8, <2>9, <2>12
  <1>4. CASE ~transport
    <2>1. /\ append' = Told(Dropped, "closed") /\ Break
          /\ UNCHANGED <<forward, transport, reader, serverVars>>
      BY <1>4 DEF HandleIn
    <2>2. append' \in [Appends -> AppendState]
      BY <2>1 DEF Told, TypeOK, AppendState
    <2>3. \A b \in Appends : /\ append[b] # "waiting" => append'[b] = append[b]
                             /\ append[b] = "waiting" => append'[b] = "closed"
      BY <2>1 DEF Told, SessionInv, NoAppendStranded
    <2>4. Over
      BY <1>4 DEF SessionInv
    <2> QED BY <2>1, <2>2, <2>3, <2>4, ActorStops
  <1> QED BY <1>3, <1>4

LEMMA HandleUnknownKeepsIInv ==
    ASSUME IInv, HandleUnknown
    PROVE  IInv'
  <1> USE DEF IInv
  <1> DEFINE h == Head(inbox)
  <1>1. /\ h \in BatchMsg /\ h.type = "Out" /\ actor = "running"
        /\ inbox' = Tail(inbox) /\ inbox' \in Seq(BatchMsg)
        /\ \A m : Has(inbox, m) <=> Has(inbox', m) \/ m = h
        /\ \A m : Once(inbox, m) => Once(inbox', m)
        /\ UNCHANGED <<actor, reg, forward, transport, reader, executing, committed, responses,
                       append>>
    BY ReceivedMessage DEF HandleUnknown, serverVars
  <1>2. h.id \in Appends /\ h = Out(h.id, h.result)
    BY <1>1, MessageKinds
  <1> HIDE DEF h
  <1>3. TypeOK'
    BY <1>1 DEF HandleUnknown, TypeOK, serverVars
  <1>4. /\ \A b \in Appends : Has(inbox', In(b)) <=> Has(inbox, In(b))
        /\ Has(inbox', Error) <=> Has(inbox, Error)
        /\ \A b \in Appends, r \in Results : Has(inbox', Out(b, r)) => Has(inbox, Out(b, r))
    BY <1>1, <1>2, Messages
  <1>5. \A b \in Appends : Settled(b)' => Settled(b)
    BY <1>1, <1>4 DEF Settled
  <1>6. StageInv'
    BY <1>1, <1>4, <1>5 DEF StageInv
  <1>7. TruthInv'
    BY <1>1, <1>4 DEF TruthInv, Results
  <1>8. \A b \in Appends : b \in Dropped <=> b \in Dropped'
    BY <1>1, <1>4 DEF Dropped, Has
  <1>9. SessionInv'
    BY <1>1, <1>4, <1>8 DEF SessionInv, NoAppendStranded, Over
  <1> QED BY <1>3, <1>6, <1>7, <1>9

LEMMA HandleSuccessKeepsIInv ==
    ASSUME IInv, HandleSuccess
    PROVE  IInv'
  <1> USE DEF IInv
  <1> DEFINE h == Head(inbox)
             a == h.id
  <1>1. /\ h \in BatchMsg /\ h.type = "Out" /\ h.result = "ok" /\ actor = "running"
        /\ Has(inbox, h) /\ inbox' = Tail(inbox) /\ inbox' \in Seq(BatchMsg)
        /\ \A m : Has(inbox, m) <=> Has(inbox', m) \/ m = h
        /\ \A m : Once(inbox, m) => Once(inbox', m)
        /\ append' = Told({a}, "ok") /\ reg' = reg \ {a} /\ a \in reg
        /\ UNCHANGED <<actor, forward, transport, reader, executing, committed, responses>>
    BY ReceivedMessage DEF HandleSuccess, serverVars
  <1>2. a \in Appends /\ h = Out(a, "ok")
    BY <1>1, MessageKinds
  <1> HIDE DEF h, a
  <1>3. /\ \A b \in Appends : b # a => append'[b] = append[b]
        /\ append'[a] = IF append[a] = "waiting" THEN "ok" ELSE append[a]
    BY <1>1, <1>2 DEF Told
  <1>4. TypeOK'
    BY <1>1, <1>2 DEF HandleSuccess, TypeOK, serverVars, Told, AppendState, Results
  <1>5. /\ \A b \in Appends : Has(inbox', In(b)) <=> Has(inbox, In(b))
        /\ Has(inbox', Error) <=> Has(inbox, Error)
        /\ \A b \in Appends, r \in Results : Has(inbox', Out(b, r)) => Has(inbox, Out(b, r))
    BY <1>1, <1>2, Messages
  <1>6. Settled(a) /\ a \in committed
    BY <1>1, <1>2 DEF Settled, TruthInv, Results
  <1>7. \A b \in Appends : Settled(b)' => Settled(b)
    BY <1>1, <1>3, <1>5, <1>6 DEF Settled
  <1>8. StageInv'
    BY <1>1, <1>3, <1>5, <1>6, <1>7 DEF StageInv
  <1>9. TruthInv'
    BY <1>1, <1>3, <1>5, <1>6 DEF TruthInv, Results
  <1>10. ~Has(inbox, In(a))
    BY <1>2, <1>6 DEF StageInv
  <1>11. \A b \in Appends : b # a /\ b \in Dropped => b \in Dropped'
    BY <1>1, <1>5 DEF Dropped, Has
  <1>12. SessionInv'
    BY <1>1, <1>2, <1>3, <1>5, <1>10, <1>11 DEF SessionInv, NoAppendStranded, Over
  <1> QED BY <1>4, <1>8, <1>9, <1>12

LEMMA HandleRejectionKeepsIInv ==
    ASSUME IInv, HandleRejection
    PROVE  IInv'
  <1> USE DEF IInv
  <1> DEFINE h == Head(inbox)
  <1>a. PICK a \in Appends : a = h.id /\ h = Out(a, "rejected") /\ Has(inbox, h)
    BY ReceivedMessage, MessageKinds DEF HandleRejection
  <1>1. /\ a \in reg /\ Break /\ UNCHANGED <<forward, transport, reader, serverVars>>
        /\ append' = [Told(Dropped, "closed") EXCEPT ![a] =
                         IF append[a] = "waiting" THEN "rejected" ELSE @]
    BY <1>a DEF HandleRejection
  <1>2. Has(inbox, Out(a, "rejected"))
    BY <1>a
  <1> HIDE DEF h
  <1>3. append' \in [Appends -> AppendState]
    BY <1>1, <1>2 DEF Told, TypeOK, AppendState, Results
  <1>4. \A b \in Appends :
           /\ append[b] # "waiting" => append'[b] = append[b]
           /\ append[b] = "waiting" =>
                 append'[b] = IF b = a THEN "rejected" ELSE "closed"
    BY <1>1, <1>2 DEF Told, SessionInv, NoAppendStranded
  <1>5. Settled(a) /\ a \notin committed
    BY <1>1, <1>2 DEF Settled, TruthInv, Results
  <1>6. a \notin executing /\ ~Has(forward, a) /\ ~Has(inbox, In(a))
    BY <1>2, <1>5 DEF StageInv
  <1>7. append[a] \in {"waiting", "cancelled"}
    BY <1>1, <1>2 DEF SessionInv
  <1>8. Refused(a)'
    BY <1>1, <1>2, <1>4, <1>5, <1>6, <1>7, EmptyQueue DEF Refused, Break, serverVars
  <1> QED BY <1>1, <1>2, <1>3, <1>4, <1>8, ActorStops

LEMMA HandleErrorKeepsIInv ==
    ASSUME IInv, HandleError
    PROVE  IInv'
  <1> USE DEF IInv
  <1>1. /\ Head(inbox) \in BatchMsg /\ Head(inbox).type = "Error" /\ Has(inbox, Head(inbox))
        /\ Break /\ UNCHANGED <<forward, transport, reader, serverVars>>
        /\ append' = [a \in Appends |->
                        IF a \in reg /\ append[a] = "waiting" THEN "failed"
                        ELSE Told(Dropped, "closed")[a]]
    BY ReceivedMessage DEF HandleError
  <1>2. Over
    BY <1>1, MessageKinds DEF SessionInv
  <1>3. append' \in [Appends -> AppendState]
    BY <1>1 DEF Told, TypeOK, AppendState
  <1>4. \A b \in Appends :
           /\ append[b] # "waiting" => append'[b] = append[b]
           /\ append[b] = "waiting" => append'[b] \in {"failed", "closed"}
    BY <1>1 DEF Told, SessionInv, NoAppendStranded
  <1> QED BY <1>1, <1>2, <1>3, <1>4, ActorStops

-----------------------------------------------------------------------------
(* The reader task *)

\* The queues are left alone; the reader may be over with the stream.
LEMMA QuietStep ==
    ASSUME IInv, UNCHANGED <<inbox, actor, reg, forward, executing, committed, responses, repeats, append>>,
           reader' \in ReaderState, transport' \in BOOLEAN, Over => Over', ~transport' => Over'
    PROVE  IInv'
  <1> USE DEF IInv
  <1>1. TypeOK'
    BY DEF TypeOK
  <1>2. StageInv' /\ TruthInv'
    BY DEF StageInv, TruthInv, Settled
  <1>3. \A b \in Appends : Refused(b)' <=> Refused(b)
    BY DEF Refused
  <1>4. SessionInv'
    BY <1>3 DEF SessionInv, NoAppendStranded, Dropped
  <1> QED BY <1>1, <1>2, <1>4

LEMMA StreamFailsKeepsIInv ==
    ASSUME IInv, StreamFails
    PROVE  IInv'
  <1> USE DEF IInv
  <1>1. /\ responses' = <<>> /\ reader' = "failed" /\ Over'
        /\ UNCHANGED <<actor, reg, forward, transport, executing, committed, append>>
    BY DEF StreamFails, Over
  <1>2. /\ inbox' \in Seq(BatchMsg)
        /\ \A m : Has(inbox, m) => Has(inbox', m)
        /\ \A m : Has(inbox', m) => Has(inbox, m) \/ m = Error
        /\ \A m : m # Error /\ Once(inbox, m) => Once(inbox', m)
    BY AppendToQueue, Messages DEF StreamFails, Send, TypeOK
  <1>3. TypeOK'
    BY <1>1, <1>2 DEF StreamFails, TypeOK, ReaderState
  <1>4. /\ \A b \in Appends : Has(inbox', In(b)) <=> Has(inbox, In(b))
        /\ \A b \in Appends : Once(inbox, In(b)) => Once(inbox', In(b))
        /\ \A b \in Appends, r \in Results : Has(inbox', Out(b, r)) <=> Has(inbox, Out(b, r))
        /\ \A m : ~Has(responses', m)
    BY <1>1, <1>2, Messages, EmptyQueue
  <1>5. \A b \in Appends : Settled(b)' => Settled(b)
    BY <1>1, <1>4 DEF Settled
  <1>6. StageInv'
    BY <1>1, <1>4, <1>5 DEF StageInv
  <1>7. TruthInv'
    BY <1>1, <1>4 DEF TruthInv, Results
  <1>8. \A b \in Appends : b \in Dropped => b \in Dropped'
    BY <1>1, <1>4 DEF Dropped, Has
  <1>9. SessionInv'
    BY <1>1, <1>4, <1>8 DEF SessionInv, NoAppendStranded
  <1> QED BY <1>3, <1>6, <1>7, <1>9

LEMMA ReadResponseKeepsIInv ==
    ASSUME IInv, ReadResponse
    PROVE  IInv'
  <1> USE DEF IInv
  <1> DEFINE h == Head(responses)
  <1>1. /\ h \in Outs /\ Has(responses, h) /\ Tail(responses) \in Seq(Outs)
        /\ \A m : Has(responses, m) <=> Has(Tail(responses), m) \/ m = h
    BY TailOfQueue DEF ReadResponse, TypeOK
  <1>2. h \in BatchMsg /\ h = Out(h.id, h.result) /\ h.id \in Appends /\ h.result \in Results
    BY <1>1, Messages, MessageKinds DEF Outs
  <1>3. UNCHANGED <<actor, reg, forward, transport, executing, committed, append>>
    BY DEF ReadResponse
  <1>4. CASE actor = "running"
    <2>1. inbox' = Append(inbox, h) /\ responses' = Tail(responses) /\ reader' = reader
      BY <1>4 DEF ReadResponse, Send
    <2>2. /\ inbox' \in Seq(BatchMsg)
          /\ \A m : Has(inbox', m) <=> Has(inbox, m) \/ m = h
          /\ \A m : Once(inbox, m) /\ m # h => Once(inbox', m)
      BY <1>2, <2>1, AppendToQueue DEF TypeOK
    <2>3. TypeOK'
      BY <1>1, <1>3, <2>1, <2>2 DEF ReadResponse, TypeOK
    <2> HIDE DEF h
    <2>4. /\ \A b \in Appends : Has(inbox', In(b)) <=> Has(inbox, In(b))
          /\ Has(inbox', Error) <=> Has(inbox, Error)
          /\ \A b \in Appends : Once(inbox, In(b)) => Once(inbox', In(b))
          /\ \A m : Has(inbox', m) \/ Has(responses', m) <=> Has(inbox, m) \/ Has(responses, m)
      BY <1>1, <1>2, <2>1, <2>2, Messages DEF h
    <2>5. \A b \in Appends : Settled(b)' <=> Settled(b)
      BY <1>3, <2>4 DEF Settled
    <2>6. StageInv'
      BY <1>3, <2>4, <2>5 DEF StageInv
    <2>7. TruthInv'
      BY <1>3, <2>4 DEF TruthInv, Results
    <2>8. \A b \in Appends : b \in Dropped <=> b \in Dropped'
      BY <1>3, <2>4 DEF Dropped, Has
    <2>9. SessionInv'
      BY <1>3, <1>4, <2>1, <2>4, <2>8 DEF SessionInv, NoAppendStranded, Over
    <2> QED BY <2>3, <2>6, <2>7, <2>9
  <1>5. CASE actor # "running"
    <2>1. inbox' = inbox /\ responses' = <<>> /\ reader' = "orphaned" /\ Over'
      BY <1>5 DEF ReadResponse, Send, Over
    <2>2. TypeOK'
      BY <1>3, <2>1 DEF ReadResponse, TypeOK, ReaderState
    <2>3. \A b \in Appends : Settled(b)' => Settled(b)
      BY <1>3, <2>1, EmptyQueue DEF Settled
    <2>4. StageInv' /\ TruthInv'
      BY <1>3, <2>1, <2>3, EmptyQueue DEF StageInv, TruthInv
    <2>5. SessionInv'
      BY <1>3, <2>1 DEF SessionInv, NoAppendStranded, Dropped
    <2> QED BY <2>2, <2>4, <2>5
  <1> QED BY <1>4, <1>5

-----------------------------------------------------------------------------
(* The transport and the server *)

LEMMA TransportClosesKeepsIInv ==
    ASSUME IInv, TransportCloses
    PROVE  IInv'
  <1> USE DEF IInv
  <1>1. /\ forward' = <<>> /\ transport' = FALSE /\ Over'
        /\ UNCHANGED <<inbox, actor, reg, reader, executing, committed, responses, append, repeats>>
    BY DEF TransportCloses, serverVars, actorVars, Over
  <1>2. TypeOK'
    <2>1. forward' \in Seq(Appends)
      BY <1>1
    <2>2. transport' \in BOOLEAN
      BY <1>1
    <2> QED BY <1>1, <2>1, <2>2 DEF TypeOK
  <1>3. StageInv' /\ TruthInv'
    BY <1>1, EmptyQueue DEF StageInv, TruthInv, Settled
  <1>4. SessionInv'
    BY <1>1 DEF SessionInv, NoAppendStranded, Dropped
  <1> QED BY <1>2, <1>3, <1>4

LEMMA ServerReceivesKeepsIInv ==
    ASSUME IInv, ServerReceives
    PROVE  IInv'
  <1> USE DEF IInv
  <1> DEFINE a == Head(forward)
  <1>1. /\ forward' = Tail(forward) /\ executing' = executing \cup {a}
        /\ UNCHANGED <<inbox, actor, reg, transport, reader, committed, responses, append>>
    BY DEF ServerReceives, actorVars
  <1>2. /\ a \in Appends /\ forward' \in Seq(Appends) /\ Has(forward, a)
        /\ \A m : Has(forward, m) <=> Has(forward', m) \/ m = a
        /\ \A m : Once(forward, m) => Once(forward', m)
        /\ Once(forward, a) => ~Has(forward', a)
    BY <1>1, TailOfQueue DEF ServerReceives, TypeOK
  <1>3. TypeOK'
    BY <1>1, <1>2 DEF ServerReceives, TypeOK
  <1> HIDE DEF a
  <1>4. \A b \in Appends : Settled(b)' <=> Settled(b)
    BY <1>1 DEF Settled
  <1>5. ~Has(inbox, In(a)) /\ append[a] # "idle" /\ ~Settled(a) /\ ~Has(forward', a)
    BY <1>2 DEF StageInv
  <1>6. StageInv'
    BY <1>1, <1>2, <1>4, <1>5 DEF StageInv
  <1>7. TruthInv'
    BY <1>1 DEF TruthInv
  <1>8. \A b \in Appends : Refused(b) => Refused(b)'
    BY <1>1, <1>2 DEF Refused
  <1>9. SessionInv'
    BY <1>1, <1>8 DEF SessionInv, NoAppendStranded, Dropped, Over
  <1> QED BY <1>3, <1>6, <1>7, <1>9

LEMMA ServerExecutesKeepsIInv ==
    ASSUME IInv, NEW a \in Appends, NEW r \in Results, ServerExecutes(a, r)
    PROVE  IInv'
  <1> USE DEF IInv
  <1>1. /\ a \in executing /\ executing' = executing \ {a}
        /\ committed' = IF r = "ok" THEN committed \cup {a} ELSE committed
        /\ UNCHANGED <<inbox, actor, reg, forward, transport, reader, append>>
    BY DEF ServerExecutes, actorVars
  <1>2. /\ responses' \in Seq(Outs)
        /\ \A m : Has(responses', m) => Has(responses, m) \/ m = Out(a, r)
    BY AppendToQueue, Messages DEF ServerExecutes, Respond, TypeOK
  <1>3. TypeOK'
    BY <1>1, <1>2 DEF ServerExecutes, TypeOK
  <1>4. ~Settled(a) /\ ~Has(forward, a) /\ ~Has(inbox, In(a)) /\ append[a] # "idle"
    BY <1>1 DEF StageInv
  <1>5. /\ \A b \in Appends, q \in Results :
              Has(responses', Out(b, q)) => Has(responses, Out(b, q)) \/ (b = a /\ q = r)
        /\ \A b \in Appends : b # a => (b \in committed' <=> b \in committed)
    BY <1>1, <1>2, Messages
  <1>6. \A b \in Appends : Settled(b)' => Settled(b) \/ b = a
    BY <1>1, <1>5 DEF Settled
  <1>7. StageInv'
    BY <1>1, <1>4, <1>6 DEF StageInv
  <1>8. TruthInv'
    BY <1>1, <1>4, <1>5 DEF TruthInv, Settled, Results
  <1>9. \A b \in Appends : Refused(b) => Refused(b)'
    BY <1>1 DEF Refused
  <1>10. SessionInv'
    BY <1>1, <1>9 DEF SessionInv, NoAppendStranded, Dropped, Over
  <1> QED BY <1>3, <1>7, <1>8, <1>10

LEMMA ServerRepeatsKeepsIInv ==
    ASSUME IInv, ServerRepeats
    PROVE  IInv'
  <1> USE DEF IInv
  <1> DEFINE o == responses[Len(responses)]
  <1>1. UNCHANGED <<inbox, actor, reg, forward, transport, reader, executing, committed, append>>
    BY DEF ServerRepeats, actorVars
  <1>2. Len(responses) \in 1..Len(responses) /\ o \in Outs /\ Has(responses, o)
    BY DEF ServerRepeats, TypeOK, Has
  <1> HIDE DEF o
  <1>3. /\ responses' \in Seq(Outs)
        /\ \A m : Has(responses', m) => Has(responses, m)
    BY <1>2, AppendToQueue DEF ServerRepeats, Respond, TypeOK, o
  <1>4. TypeOK'
    BY <1>1, <1>3 DEF ServerRepeats, TypeOK
  <1>5. \A b \in Appends : Settled(b)' => Settled(b)
    BY <1>1, <1>3 DEF Settled
  <1>6. StageInv' /\ TruthInv'
    BY <1>1, <1>3, <1>5 DEF StageInv, TruthInv
  <1>7. \A b \in Appends : Refused(b)' <=> Refused(b)
    BY <1>1 DEF Refused
  <1>8. SessionInv'
    BY <1>1, <1>7 DEF SessionInv, NoAppendStranded, Dropped, Over
  <1> QED BY <1>4, <1>6, <1>8

-----------------------------------------------------------------------------
LEMMA IInvNext == IInv /\ [Next]_vars => IInv'
  <1> SUFFICES ASSUME IInv, [Next]_vars PROVE IInv'
    OBVIOUS
  <1>1. CASE UNCHANGED vars
    BY <1>1, QuietStep DEF vars, actorVars, serverVars, IInv, TypeOK, SessionInv, Over
  <1>2. CASE Actor
    BY <1>2, HandleInKeepsIInv, HandleUnknownKeepsIInv, HandleSuccessKeepsIInv,
       HandleRejectionKeepsIInv, HandleErrorKeepsIInv DEF Actor
  <1>3. CASE CallOpens \/ StreamEnds
    BY <1>3, QuietStep DEF CallOpens, StreamEnds, actorVars, serverVars, IInv, TypeOK,
       SessionInv, Over, ReaderState
  <1>4. CASE Server
    BY <1>4, ServerReceivesKeepsIInv, ServerExecutesKeepsIInv DEF Server
  <1> QED
    BY <1>1, <1>2, <1>3, <1>4, AppendKeepsIInv, CancelKeepsIInv, StreamFailsKeepsIInv,
       ReadResponseKeepsIInv, TransportClosesKeepsIInv, ServerRepeatsKeepsIInv
       DEF Next, Quiescent

LEMMA IInvAlways == Spec => []IInv
  BY IInvInit, IInvNext, PTL DEF Spec

\* No response reaches another append than its own: "ok" is told only to an append
\* that the server wrote, "rejected" only to one that it did not write and never
\* will, whatever responses were repeated, lost or out of order
\* (BatchAppendClient, the registry by correlation id).
THEOREM ResultsAreTrue == Spec => []ResultIsTrue
  <1>1. IInv => ResultIsTrue
    BY DEF IInv, StageInv, TruthInv, ResultIsTrue, Settled, Results
  <1> QED BY <1>1, IInvAlways, PTL

\* Nobody waits for an actor that has stopped, and an append that waits has its
\* oneshot in the actor's channel or registry, whichever way the session ended.
THEOREM NoAppendIsStranded == Spec => []NoAppendStranded
  <1>1. IInv => NoAppendStranded
    BY DEF IInv, SessionInv
  <1> QED BY <1>1, IInvAlways, PTL

\* An append that was written and is told otherwise: only if the stream is over or
\* the server refused some append, never because of a repeated or late response.
THEOREM DoubtOnlyIfBroken == Spec => []FailsInDoubtOnlyIfBroken
  <1>1. IInv => FailsInDoubtOnlyIfBroken
    <2> SUFFICES ASSUME IInv, NEW a \in committed, append[a] \in {"failed", "closed"}
                 PROVE  SessionBroken
      BY DEF FailsInDoubtOnlyIfBroken
    <2>1. a \in Appends
      BY DEF IInv, TypeOK
    <2>2. Over \/ \E b \in Appends : Refused(b)
      BY <2>1 DEF IInv, SessionInv
    <2> QED BY <2>2 DEF SessionBroken, Over, Refused
  <1> QED BY <1>1, IInvAlways, PTL

\* Once an append has been told of its rejection no other is told of a success,
\* although successes may be in the actor's channel (the break in its loop).
THEOREM RejectionEndsSession == Spec => NothingAfterRejection
  <1> DEFINE Silent == (\E a \in Appends : append[a] = "rejected") =>
                           \A b \in Appends : append'[b] = "ok" => append[b] = "ok"
  <1>1. IInv /\ [Next]_vars => [Silent]_vars
    <2> SUFFICES ASSUME IInv, Next, NEW a \in Appends, append[a] = "rejected",
                        NEW b \in Appends, append'[b] = "ok"
                 PROVE  append[b] = "ok"
      OBVIOUS
    <2>1. actor = "stopped"
      BY DEF IInv, SessionInv
    <2>2. CASE Actor
      BY <2>1, <2>2 DEF Actor, HandleIn, HandleUnknown, HandleSuccess, HandleRejection,
         HandleError, Receive
    <2>3. ASSUME NEW c \in Appends, append_to_stream(c) \/ Cancel(c) PROVE append[b] = "ok"
      BY <2>3 DEF append_to_stream, Cancel, IInv, TypeOK
    <2>4. CASE UNCHANGED append
      BY <2>4
    <2> QED
      BY <2>2, <2>3, <2>4 DEF Next, CallOpens, StreamFails, ReadResponse, StreamEnds,
         TransportCloses, Server, ServerReceives, ServerExecutes, ServerRepeats, Quiescent, vars
  <1> QED BY <1>1, IInvAlways, PTL DEF Spec, NothingAfterRejection

=============================================================================
