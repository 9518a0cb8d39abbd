-------------------- MODULE PersistentSubscriptionProofs --------------------
(***************************************************************************)
(* Proofs about PersistentSubscription, for any events and links, any size  *)
(* of the channel and of the buffer, and any number of failures.            *)
(*                                                                         *)
(* OnlyAnsweredIsHandled is not inductive: what the server will be done     *)
(* with next is decided by the answers that wait in the channel, or for     *)
(* room in it.  AnswersInv says that each of them was given by the          *)
(* application, and is about the very event of the group it was shown.      *)
(***************************************************************************)
EXTENDS PersistentSubscription, TLAPS

\* The answer m, if it is one after which the server is done with the event,
\* was given by the application.
Given(m) == (m # Options /\ Final(m)) => m.id \in answered

\* What waits in the channel, or for room in it, was given by the application;
\* an answer waits exactly while ack or nack does.
AnswersInv ==
    /\ \A i \in DOMAIN answers : Given(answers[i])
    /\ phase = "sending" => pending \in Answer /\ Given(pending)

\* The inductive invariant.
IInv == TypeOK /\ AnswersInv /\ OnlyAnsweredIsHandled

-----------------------------------------------------------------------------
(* Lemmas about the operators *)

\* get_original_event undoes the resolution of links: an answer carries the id
\* of the event of the group, never of the event a link points to.
LEMMA OriginalOfResolved ==
    ASSUME NEW e \in Events
    PROVE  get_original_event(ResolvedEvent(e)) = e
  BY TargetAssumption DEF get_original_event, ResolvedEvent

LEMMA HeadAndTail ==
    ASSUME NEW S, NEW s \in Seq(S), s # <<>>
    PROVE  /\ Head(s) \in S
           /\ Head(s) = s[1]
           /\ 1 \in DOMAIN s
           /\ Tail(s) \in Seq(S)
           /\ Len(Tail(s)) < Len(s)
           /\ \A i \in DOMAIN Tail(s) : i + 1 \in DOMAIN s /\ Tail(s)[i] = s[i + 1]
  OBVIOUS

LEMMA Appended ==
    ASSUME NEW S, NEW s \in Seq(S), NEW m \in S
    PROVE  /\ Append(s, m) \in Seq(S)
           /\ Len(Append(s, m)) = Len(s) + 1
           /\ \A i \in DOMAIN Append(s, m) :
                \/ Append(s, m)[i] = m
                \/ i \in DOMAIN s /\ Append(s, m)[i] = s[i]
  OBVIOUS

-----------------------------------------------------------------------------
(* The steps of the application *)

LEMMA InitIInv == Init => IInv
  <1> SUFFICES ASSUME Init PROVE IInv
    OBVIOUS
  <1>1. receiver \in BOOLEAN
    BY DEF Init
  <1>2. TypeOK
    BY <1>1, SizesAssumption DEF Init, TypeOK, Rpc, Phase
  <1>3. AnswersInv /\ OnlyAnsweredIsHandled
    BY DEF Init, AnswersInv, OnlyAnsweredIsHandled
  <1> QED BY <1>2, <1>3 DEF IInv

LEMMA SubscribeKeepsIInv ==
    ASSUME IInv, Subscribe
    PROVE  IInv'
  <1> USE DEF IInv
  <1>1. receiver' \in BOOLEAN
    BY DEF Subscribe
  <1>2. /\ answers' = <<Options>> /\ answers' \in Seq(Answer \cup {Options}) /\ Len(answers') = 1
        /\ \A i \in DOMAIN answers' : answers'[i] = Options
    BY DEF Subscribe
  <1>3. TypeOK'
    BY <1>1, <1>2, SizesAssumption DEF Subscribe, TypeOK, serverVars, Rpc, Phase
  <1>4. AnswersInv'
    BY <1>2 DEF Subscribe, AnswersInv, Given
  <1>5. OnlyAnsweredIsHandled'
    BY DEF Subscribe, OnlyAnsweredIsHandled, serverVars
  <1> QED BY <1>3, <1>4, <1>5

\* A step that empties the channel or leaves it alone, answers nothing, and
\* does not begin to wait for room.
LEMMA OtherStepKeepsIInv ==
    ASSUME IInv, TypeOK',
           answers' = answers \/ answers' = <<>>,
           phase' = "sending" => phase = "sending" /\ UNCHANGED pending,
           UNCHANGED <<handled, answered>>
    PROVE  IInv'
  BY DEF IInv, AnswersInv, Given, OnlyAnsweredIsHandled

LEMMA UnsubscribeKeepsIInv ==
    ASSUME IInv, Unsubscribe
    PROVE  IInv'
  <1>1. receiver' \in BOOLEAN
    BY DEF Unsubscribe
  <1>2. disturbances' \in Nat
    BY DEF Unsubscribe, Disturb, IInv, TypeOK
  <1>3. TypeOK'
    BY <1>1, <1>2, SizesAssumption DEF Unsubscribe, IInv, TypeOK, Rpc, Phase
  <1> QED BY <1>3, OtherStepKeepsIInv DEF Unsubscribe

LEMMA NextKeepsIInv ==
    ASSUME IInv, Call \/ CallAgain \/ ReceiveError \/ ReceiveNothing \/ CancelNext
    PROVE  IInv'
  <1>1. /\ UNCHANGED <<handled, inflight, responses, receiver, answers, shown, pending, answered>>
        /\ phase' \in {"idle", "next", "panicked"} /\ rpc' \in Rpc
    BY DEF Call, CallAgain, ReceiveError, ReceiveNothing, CancelNext, serverVars, callVars, Rpc,
           IInv, TypeOK
  <1>2. disturbances' \in Nat
    BY DEF Call, CallAgain, ReceiveError, ReceiveNothing, CancelNext, Disturb, IInv, TypeOK
  <1>3. TypeOK'
    BY <1>1, <1>2 DEF IInv, TypeOK, Phase
  <1> QED BY <1>1, <1>3, OtherStepKeepsIInv

LEMMA ReceiveKeepsIInv ==
    ASSUME IInv, Receive
    PROVE  IInv'
  <1>1. /\ Head(responses) \in Events \cup {Confirmation}
        /\ responses' \in Seq(Events \cup {Confirmation})
    BY HeadAndTail DEF Receive, IInv, TypeOK
  <1>2. shown' \in Events \cup {None} /\ phase' \in {"next", "idle"}
    BY <1>1 DEF Receive, IInv, TypeOK
  <1>3. TypeOK'
    BY <1>1, <1>2 DEF Receive, IInv, TypeOK, Phase, serverVars
  <1> QED BY <1>2, <1>3, OtherStepKeepsIInv DEF Receive, serverVars

LEMMA SubscribeFailsKeepsIInv ==
    ASSUME IInv, SubscribeFails
    PROVE  IInv'
  <1>1. TypeOK'
    BY DEF SubscribeFails, Disturb, IInv, TypeOK, serverVars, callVars, appVars
  <1> QED BY <1>1, OtherStepKeepsIInv DEF SubscribeFails, serverVars, callVars, appVars

\* ack and nack: the channel takes the answer, refuses it, or makes it wait.
LEMMA RespondKeepsIInv ==
    ASSUME IInv, NEW m \in Answer, m.id = shown, Respond(m), disturbances' \in Nat
    PROVE  IInv'
  <1> USE DEF IInv
  <1>1. /\ answered \subseteq answered' /\ answered' \in SUBSET Events
        /\ Given(m)'
    BY DEF Respond, TypeOK, Given
  <1>2. /\ shown' = None /\ UNCHANGED <<handled, inflight, responses, rpc, receiver>>
    BY DEF Respond, serverVars
  <1>3. \/ phase' = "sending" /\ pending' = m /\ answers' = answers
        \/ phase' = "idle" /\ pending' = None /\ answers' = answers
        \/ /\ phase' = "idle" /\ pending' = None /\ answers' = Append(answers, m)
           /\ Len(answers) < ChannelSize
    BY SizesAssumption DEF Respond, Reply, Put, TypeOK
  <1>4. /\ answers' \in Seq(Answer \cup {Options}) /\ Len(answers') <= ChannelSize
        /\ \A i \in DOMAIN answers' : answers'[i] = m \/ (i \in DOMAIN answers /\ answers'[i] = answers[i])
    <2>1. CASE answers' = answers
      BY <2>1 DEF TypeOK
    <2>2. CASE answers' = Append(answers, m) /\ Len(answers) < ChannelSize
      <3>1. answers \in Seq(Answer \cup {Options}) /\ m \in Answer \cup {Options}
        BY DEF TypeOK
      <3>2. /\ answers' \in Seq(Answer \cup {Options}) /\ Len(answers') = Len(answers) + 1
            /\ \A i \in DOMAIN answers' :
                 answers'[i] = m \/ (i \in DOMAIN answers /\ answers'[i] = answers[i])
        BY <2>2, <3>1, Appended
      <3> QED BY <2>2, <3>1, <3>2, SizesAssumption
    <2> QED BY <1>3, <2>1, <2>2
  <1>5. TypeOK'
    BY <1>1, <1>2, <1>3, <1>4 DEF TypeOK, Phase
  <1>6. AnswersInv'
    BY <1>1, <1>3, <1>4 DEF AnswersInv, Given
  <1>7. OnlyAnsweredIsHandled'
    BY <1>1, <1>2 DEF OnlyAnsweredIsHandled
  <1> QED BY <1>5, <1>6, <1>7

LEMMA AckKeepsIInv ==
    ASSUME IInv, ack
    PROVE  IInv'
  <1> DEFINE m == [type |-> "Ack", id |-> get_original_event(ResolvedEvent(shown))]
  <1>1. shown \in Events /\ m.id = shown
    BY OriginalOfResolved DEF ack, IInv, TypeOK
  <1>2. m \in Answer
    BY <1>1 DEF Answer
  <1>3. Respond(m) /\ disturbances' \in Nat
    BY DEF ack, IInv, TypeOK
  <1> HIDE DEF m
  <1> QED BY <1>1, <1>2, <1>3, RespondKeepsIInv

LEMMA NackKeepsIInv ==
    ASSUME IInv, NEW action \in NakAction, nack(action)
    PROVE  IInv'
  <1> DEFINE m == [type |-> "Nack", id |-> get_original_event(ResolvedEvent(shown)),
                   action |-> action]
  <1>1. shown \in Events /\ m.id = shown
    BY OriginalOfResolved DEF nack, IInv, TypeOK
  <1>2. m \in Answer
    BY <1>1 DEF Answer
  <1>3. Respond(m) /\ disturbances' \in Nat
    BY DEF nack, Disturb, IInv, TypeOK
  <1> HIDE DEF m
  <1> QED BY <1>1, <1>2, <1>3, RespondKeepsIInv

LEMMA SendEndsKeepsIInv ==
    ASSUME IInv, SendEnds
    PROVE  IInv'
  <1> USE DEF IInv
  <1>1. pending \in Answer /\ Given(pending)
    BY DEF SendEnds, AnswersInv
  <1>2. /\ phase' = "idle" /\ pending' = None
        /\ UNCHANGED <<handled, inflight, responses, rpc, receiver, shown, answered, disturbances>>
        /\ \/ answers' = answers
           \/ answers' = Append(answers, pending) /\ Len(answers) < ChannelSize
    BY DEF SendEnds, Put, serverVars
  <1>3. /\ answers' \in Seq(Answer \cup {Options}) /\ Len(answers') <= ChannelSize
        /\ \A i \in DOMAIN answers' :
             answers'[i] = pending \/ (i \in DOMAIN answers /\ answers'[i] = answers[i])
    <2>1. CASE answers' = answers
      BY <2>1 DEF TypeOK
    <2>2. CASE answers' = Append(answers, pending) /\ Len(answers) < ChannelSize
      <3>1. answers \in Seq(Answer \cup {Options}) /\ pending \in Answer \cup {Options}
        BY <1>1 DEF TypeOK
      <3>2. /\ answers' \in Seq(Answer \cup {Options}) /\ Len(answers') = Len(answers) + 1
            /\ \A i \in DOMAIN answers' :
                 answers'[i] = pending \/ (i \in DOMAIN answers /\ answers'[i] = answers[i])
        BY <2>2, <3>1, Appended
      <3> QED BY <2>2, <3>1, <3>2, SizesAssumption
    <2> QED BY <1>2, <2>1, <2>2
  <1>4. TypeOK'
    BY <1>2, <1>3 DEF TypeOK, Phase
  <1>5. AnswersInv'
    BY <1>1, <1>2, <1>3 DEF AnswersInv, Given
  <1>6. OnlyAnsweredIsHandled'
    BY <1>2 DEF OnlyAnsweredIsHandled
  <1> QED BY <1>4, <1>5, <1>6

LEMMA CancelSendKeepsIInv ==
    ASSUME IInv, CancelSend
    PROVE  IInv'
  <1>1. TypeOK'
    BY DEF CancelSend, Disturb, IInv, TypeOK, serverVars, callVars, Phase
  <1> QED BY <1>1, OtherStepKeepsIInv DEF CancelSend, serverVars, callVars

-----------------------------------------------------------------------------
(* The steps of the transport and the server *)

LEMMA StreamOverKeepsIInv ==
    ASSUME IInv, StreamFails \/ StreamEnds
    PROVE  IInv'
  <1>1. /\ responses' \in Seq(Events \cup {Confirmation}) /\ inflight' = {} /\ rpc' \in Rpc
        /\ disturbances' \in Nat
        /\ UNCHANGED <<handled, receiver, answers, phase, shown, pending, answered>>
    <2>1. responses' = responses \/ responses' = <<>>
      BY DEF StreamFails, StreamEnds
    <2>2. responses' \in Seq(Events \cup {Confirmation})
      <3>1. CASE responses' = responses
        BY <3>1 DEF IInv, TypeOK
      <3>2. CASE responses' = <<>>
        BY <3>2
      <3> QED BY <2>1, <3>1, <3>2
    <2> QED BY <2>2 DEF StreamFails, StreamEnds, Disturb, Rpc, appVars, IInv, TypeOK
  <1>2. TypeOK'
    BY <1>1 DEF IInv, TypeOK
  <1> QED BY <1>1, <1>2, OtherStepKeepsIInv

LEMMA TransportClosesKeepsIInv ==
    ASSUME IInv, TransportCloses
    PROVE  IInv'
  <1>1. receiver' \in BOOLEAN
    BY DEF TransportCloses
  <1>2. TypeOK'
    BY <1>1, SizesAssumption DEF TransportCloses, IInv, TypeOK, serverVars, appVars
  <1> QED BY <1>2, OtherStepKeepsIInv DEF TransportCloses, serverVars, appVars

LEMMA ServerReceivesKeepsIInv ==
    ASSUME IInv, ServerReceives
    PROVE  IInv'
  <1> USE DEF IInv
  <1> DEFINE m == Head(answers)
  <1>1. /\ m \in Answer \cup {Options} /\ m = answers[1] /\ 1 \in DOMAIN answers
        /\ answers' = Tail(answers) /\ answers' \in Seq(Answer \cup {Options})
        /\ Len(answers') < Len(answers)
        /\ \A i \in DOMAIN answers' : i + 1 \in DOMAIN answers /\ answers'[i] = answers[i + 1]
    BY HeadAndTail DEF ServerReceives, TypeOK
  <1>2. Given(m)
    BY <1>1 DEF AnswersInv
  <1>3. m # Options => m.id \in Events
    BY <1>1 DEF Answer
  <1>4. /\ responses' \in Seq(Events \cup {Confirmation}) /\ rpc' \in Rpc
        /\ inflight' \subseteq inflight
        /\ \/ handled' = handled
           \/ /\ m # Options /\ Final(m)
              /\ handled' = handled \cup {m.id} /\ inflight' = inflight \ {m.id}
        /\ UNCHANGED <<receiver, phase, shown, pending, answered, disturbances>>
    <2>1. \/ responses' = responses
          \/ \E r \in Events \cup {Confirmation} : responses' = Append(responses, r)
      BY <1>3 DEF ServerReceives
    <2>2. responses' \in Seq(Events \cup {Confirmation})
      <3>1. CASE responses' = responses
        BY <3>1 DEF TypeOK
      <3>2. ASSUME NEW r \in Events \cup {Confirmation}, responses' = Append(responses, r)
            PROVE  responses' \in Seq(Events \cup {Confirmation})
        BY <3>2, Appended DEF TypeOK
      <3> QED BY <2>1, <3>1, <3>2
    <2>3. rpc' \in Rpc
      BY DEF ServerReceives, TypeOK, Rpc
    <2> QED BY <2>2, <2>3 DEF ServerReceives, appVars, TypeOK
  <1> HIDE DEF m
  <1>5. TypeOK'
    BY <1>1, <1>3, <1>4, SizesAssumption DEF TypeOK
  <1>6. AnswersInv'
    BY <1>1, <1>4 DEF AnswersInv, Given
  <1>7. OnlyAnsweredIsHandled'
    BY <1>2, <1>4 DEF OnlyAnsweredIsHandled, Given
  <1> QED BY <1>5, <1>6, <1>7

LEMMA ServerSendsKeepsIInv ==
    ASSUME IInv, NEW e \in Events, ServerSends(e) \/ ServerRetries(e)
    PROVE  IInv'
  <1>1. /\ responses' \in Seq(Events \cup {Confirmation})
        /\ inflight' \in SUBSET (Events \ handled)
        /\ UNCHANGED <<handled, rpc, receiver, answers, phase, shown, pending, answered, disturbances>>
    <2>1. responses' = Append(responses, e) /\ e \in Events \cup {Confirmation}
      BY DEF ServerSends, ServerRetries
    <2>2. responses' \in Seq(Events \cup {Confirmation})
      BY <2>1, Appended DEF IInv, TypeOK
    <2> QED BY <2>2 DEF ServerSends, ServerRetries, appVars, serverVars, IInv, TypeOK
  <1>2. TypeOK'
    BY <1>1 DEF IInv, TypeOK
  <1> QED BY <1>1, <1>2, OtherStepKeepsIInv

-----------------------------------------------------------------------------
(* The theorems *)

LEMMA NextKeepsInvariant == IInv /\ [Next]_vars => IInv'
  <1> SUFFICES ASSUME IInv, [Next]_vars PROVE IInv'
    OBVIOUS
  <1>1. CASE Subscribe
    BY <1>1, SubscribeKeepsIInv
  <1>2. CASE SubscribeFails
    BY <1>2, SubscribeFailsKeepsIInv
  <1>3. CASE Unsubscribe
    BY <1>3, UnsubscribeKeepsIInv
  <1>4. CASE Call \/ CallAgain \/ ReceiveError \/ ReceiveNothing \/ CancelNext
    BY <1>4, NextKeepsIInv
  <1>5. CASE Receive
    BY <1>5, ReceiveKeepsIInv
  <1>6. CASE StreamFails \/ StreamEnds
    BY <1>6, StreamOverKeepsIInv
  <1>7. CASE ack
    BY <1>7, AckKeepsIInv
  <1>8. CASE \E action \in NakAction : nack(action)
    BY <1>8, NackKeepsIInv
  <1>9. CASE SendEnds
    BY <1>9, SendEndsKeepsIInv
  <1>10. CASE CancelSend
    BY <1>10, CancelSendKeepsIInv
  <1>11. CASE TransportCloses
    BY <1>11, TransportClosesKeepsIInv
  <1>12. CASE ServerReceives
    BY <1>12, ServerReceivesKeepsIInv
  <1>13. CASE \E e \in Events : ServerSends(e) \/ ServerRetries(e)
    BY <1>13, ServerSendsKeepsIInv
  <1>14. CASE UNCHANGED vars
    BY <1>14 DEF vars, serverVars, callVars, appVars, IInv, TypeOK, AnswersInv, Given,
                 OnlyAnsweredIsHandled
  <1>15. Quiescent => UNCHANGED vars
    BY DEF Quiescent
  <1> QED
    BY <1>1, <1>2, <1>3, <1>4, <1>5, <1>6, <1>7, <1>8, <1>9, <1>10, <1>11, <1>12, <1>13, <1>14,
       <1>15 DEF Next, Application, Server

LEMMA Invariance == Spec => []IInv
  BY InitIInv, NextKeepsInvariant, PTL DEF Spec

\* The variables of the consumer, of the call and of the server keep their
\* types; in particular the channel of answers never holds more than
\* ChannelSize messages (channel(500) in subscribe_to_persistent_subscription)
\* and the server waits for no answer about an event it is done with.
THEOREM TypeCorrect == Spec => []TypeOK
  BY Invariance, PTL DEF IInv

\* At least once: whatever is lost, sent again, refused or cancelled, the server
\* is done with an event only if the application was shown that very event, link
\* or not, and answered it for good (ack and nack with get_original_event).
THEOREM HandledWereAnswered == Spec => []OnlyAnsweredIsHandled
  BY Invariance, PTL DEF IInv
=============================================================================
