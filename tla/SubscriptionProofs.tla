------------------------- MODULE SubscriptionProofs -------------------------
(***************************************************************************)
(* Proofs about Subscription: for any starting position, retry policy and   *)
(* log, and any number of drops, failures and cancelled calls.             *)
(***************************************************************************)
EXTENDS Subscription, TLAPS

\* Event e may be the next one the application is shown.
Continues(e) ==
    IF delivered = <<>> THEN start.kind = "End" \/ e = First
                        ELSE e = delivered[Len(delivered)] + 1

\* The position kept for the next read, and the cursor of the open stream, both
\* continue what has been delivered.
ResumeInv ==
    /\ position = IF delivered = <<>> THEN start
                                      ELSE Resume(delivered[Len(delivered)])
    /\ cursor # None => Continues(cursor)
    /\ phase = "polling" => cursor # None

\* Every repeated read is counted, and a read is repeated only below the limit.
AttemptsInv == retries + 1 <= attempts /\ (attempts = 1 \/ attempts <= limit)

SubInv == TypeOK /\ ResumeInv /\ AttemptsInv /\ ExactlyOnceInOrder

\* What was asked for is well formed and never changes.
LEMMA RequestTyped ==
    ASSUME request \in Requests
    PROVE  start \in Position /\ limit \in Nat
  BY RequestAssumption DEF start, limit, retry_enabled

LEMMA RequestFixed == [Next]_vars => UNCHANGED request
  BY DEF Next, Progress, vars

LEMMA FirstAfterContinues ==
    ASSUME TypeOK, ResumeInv
    PROVE  FirstAfter(position) \in Nat /\ Continues(FirstAfter(position))
  <1>1. CASE delivered = <<>>
    BY <1>1, RequestTyped DEF TypeOK, ResumeInv, Continues, FirstAfter, First, Position
  <1>2. CASE delivered # <<>>
    <2>1. delivered[Len(delivered)] \in Nat
      BY <1>2 DEF TypeOK
    <2> QED
      BY <1>2, <2>1 DEF TypeOK, ResumeInv, Continues, FirstAfter, Resume, Position
  <1> QED BY <1>1, <1>2

LEMMA SubInvInit == Init => SubInv
  <1> SUFFICES ASSUME Init PROVE SubInv
    OBVIOUS
  <1>1. TypeOK
    <2>1. ended \in BOOLEAN
      BY Zenon DEF Init
    <2>2. cursor \in Nat \cup {None} /\ position \in Position /\ phase \in Phase
      BY RequestTyped DEF Init, Phase
    <2>3. /\ request \in Requests
          /\ log \in Nat /\ attempts \in Nat /\ retries \in Nat /\ disturbances \in Nat
          /\ delivered \in Seq(Nat)
      BY LogAssumption DEF Init
    <2> QED BY <2>1, <2>2, <2>3 DEF TypeOK
  <1>2. ResumeInv /\ AttemptsInv
    BY DEF Init, ResumeInv, AttemptsInv
  <1>3. ExactlyOnceInOrder
    BY DEF Init, ExactlyOnceInOrder
  <1> QED BY <1>1, <1>2, <1>3 DEF SubInv

\* Returning event e keeps the sequence without gaps.
LEMMA DeliverOne ==
    ASSUME TypeOK, ExactlyOnceInOrder, NEW e \in Nat, Continues(e),
           delivered' = Append(delivered, e), UNCHANGED request
    PROVE  /\ delivered' \in Seq(Nat) /\ delivered' # <<>>
           /\ delivered'[Len(delivered')] = e
           /\ ExactlyOnceInOrder'
  <1>1. /\ delivered' \in Seq(Nat) /\ Len(delivered') = Len(delivered) + 1
        /\ delivered'[Len(delivered')] = e /\ delivered' # <<>>
        /\ \A i \in 1..Len(delivered) : delivered'[i] = delivered[i]
        /\ Len(delivered) \in Nat
    BY DEF TypeOK
  <1>2. CASE delivered = <<>>
    <2>1. Len(delivered') = 1 /\ delivered'[1] = e
      BY <1>1, <1>2
    <2> QED BY <1>1, <1>2, <2>1 DEF ExactlyOnceInOrder, Continues, First, start
  <1>3. CASE delivered # <<>>
    <2>1. 1 \in 1..Len(delivered) /\ delivered'[1] = delivered[1] /\ delivered[1] \in Nat
      BY <1>1, <1>3 DEF TypeOK
    <2>2. e = delivered[1] + Len(delivered)
      <3>1. Len(delivered) \in 1..Len(delivered)
        BY <1>1, <2>1
      <3>2. delivered[Len(delivered)] = delivered[1] + Len(delivered) - 1
        BY <3>1 DEF ExactlyOnceInOrder
      <3>3. e = delivered[Len(delivered)] + 1
        BY <1>3 DEF Continues
      <3> QED BY <1>1, <2>1, <3>2, <3>3
    <2>3. \A i \in 1..Len(delivered') : delivered'[i] = delivered'[1] + i - 1
      <3> SUFFICES ASSUME NEW i \in 1..Len(delivered')
                   PROVE  delivered'[i] = delivered'[1] + i - 1
        OBVIOUS
      <3>1. CASE i \in 1..Len(delivered)
        BY <1>1, <2>1, <3>1 DEF ExactlyOnceInOrder
      <3>2. CASE i = Len(delivered')
        BY <1>1, <2>1, <2>2, <3>2
      <3> QED BY <1>1, <3>1, <3>2
    <2> QED BY <1>1, <1>3, <2>1, <2>3 DEF ExactlyOnceInOrder, First, start
  <1> QED BY <1>1, <1>2, <1>3

LEMMA SubInvNext == SubInv /\ [Next]_vars => SubInv'
  <1> SUFFICES ASSUME SubInv, [Next]_vars PROVE SubInv'
    OBVIOUS
  <1>r. UNCHANGED request
    BY RequestFixed
  <1>l. limit \in Nat /\ limit' = limit /\ First' = First /\ start' = start
    BY <1>r, RequestTyped DEF SubInv, TypeOK, limit, retry_enabled, First, start
  <1> USE <1>r, <1>l, LogAssumption, NoneAssumption DEF SubInv
  <1>d. ASSUME Disturb PROVE disturbances' \in Nat
    BY <1>d DEF Disturb, TypeOK
  <1>e. ASSUME UNCHANGED delivered PROVE ExactlyOnceInOrder'
    BY <1>e DEF ExactlyOnceInOrder
  <1>1. CASE UNCHANGED vars
    BY <1>1, <1>e DEF vars, serverVars, clientVars, history, TypeOK, ResumeInv,
                      Continues, Resume, AttemptsInv
  <1>2. CASE Call
    <2>1. ended' \in BOOLEAN
      BY <1>2, Zenon DEF Call, serverVars, TypeOK
    <2>2. TypeOK'
      BY <1>2, <2>1 DEF Call, serverVars, TypeOK, Phase
    <2>3. ResumeInv' /\ AttemptsInv'
      BY <1>2 DEF Call, serverVars, TypeOK, ResumeInv, Continues, Resume,
                  AttemptsInv
    <2> QED BY <1>2, <1>e, <2>2, <2>3 DEF Call
  <1>3. CASE EventAppeared
    <2>1. cursor \in Nat /\ Continues(cursor) /\ delivered' = Append(delivered, cursor)
      BY <1>3 DEF EventAppeared, TypeOK, ResumeInv
    <2>2. /\ delivered' \in Seq(Nat) /\ delivered' # <<>>
          /\ delivered'[Len(delivered')] = cursor
          /\ ExactlyOnceInOrder'
      BY <2>1, DeliverOne
    <2>3. TypeOK'
      BY <1>3, <2>1, <2>2 DEF EventAppeared, TypeOK, Resume, Position, Phase
    <2>4. ResumeInv'
      BY <1>3, <2>2 DEF EventAppeared, ResumeInv, Resume, Continues
    <2>5. AttemptsInv'
      BY <1>3 DEF EventAppeared, AttemptsInv
    <2> QED BY <2>2, <2>3, <2>4, <2>5
  <1>4. CASE NodeSelected \/ (NodeUnavailable /\ disturbances' \in Nat)
    BY <1>4, <1>e DEF NodeSelected, NodeUnavailable, serverVars, history, TypeOK, Phase,
                      ResumeInv, Continues, Resume, AttemptsInv
  <1>5. CASE ReadAccepted
    <2>1. FirstAfter(position) \in Nat /\ Continues(FirstAfter(position))
      BY FirstAfterContinues
    <2> QED
      BY <1>5, <2>1, <1>e DEF ReadAccepted, TypeOK, Phase, ResumeInv, Continues,
                              Resume, AttemptsInv
  <1>6. CASE Write \/ ((StreamEnds \/ NoticeAppeared) /\ disturbances' \in Nat)
    <2>1. ended' \in BOOLEAN
      BY <1>6, Zenon DEF Write, StreamEnds, NoticeAppeared, serverVars, history, TypeOK
    <2>2. TypeOK'
      BY <1>6, <2>1 DEF Write, StreamEnds, NoticeAppeared, serverVars, clientVars, history,
                        TypeOK, Phase
    <2>3. ResumeInv' /\ AttemptsInv' /\ UNCHANGED delivered
      BY <1>6 DEF Write, StreamEnds, NoticeAppeared, serverVars, clientVars, history,
                  ResumeInv, Continues, Resume, AttemptsInv
    <2> QED BY <1>e, <2>2, <2>3
  <1>7. ASSUME NEW kind \in ErrorKind, StreamDropped(kind) PROVE SubInv'
    <2>1. disturbances' \in Nat
      BY <1>7, <1>d DEF StreamDropped
    <2> QED
      BY <1>7, <2>1, <1>e DEF StreamDropped, TypeOK, Phase, ResumeInv, Continues,
                              Resume, AttemptsInv
  <1>8. ASSUME NEW kind \in ErrorKind, ReadFails(kind) PROVE SubInv'
    <2>1. disturbances' \in Nat /\ UNCHANGED <<serverVars, position, delivered>>
      BY <1>8, <1>d DEF ReadFails
    <2>2. CASE RetryRead
      BY <2>1, <2>2, <1>e DEF RetryRead, serverVars, TypeOK, Phase, ResumeInv, Continues,
                              Resume, AttemptsInv
    <2>3. CASE GiveUp(kind)
      BY <2>1, <2>3, <1>e DEF GiveUp, serverVars, TypeOK, Phase, ResumeInv, Continues,
                              Resume, AttemptsInv
    <2> QED BY <1>8, <2>2, <2>3 DEF ReadFails
  <1>9. CASE Cancel
    <2>1. disturbances' \in Nat
      BY <1>9, <1>d DEF Cancel
    <2> QED
      BY <1>9, <2>1, <1>e DEF Cancel, TypeOK, Phase, ResumeInv, Continues, Resume,
                              AttemptsInv
  <1>10. CASE PollEnded \/ Pending
    BY <1>10, <1>1 DEF PollEnded, Pending
  <1> QED
    BY <1>1, <1>2, <1>3, <1>4, <1>5, <1>6, <1>7, <1>8, <1>9, <1>10, <1>d
       DEF Next, Progress, StreamEnds, NoticeAppeared, NodeUnavailable

LEMMA SubInvInvariant == Spec => []SubInv
  BY SubInvInit, SubInvNext, PTL DEF Spec

\* The application sees every event once, in order and from its position, across
\* any number of drops, failed reads and cancelled calls.
THEOREM DeliveredExactlyOnce == Spec => [](TypeOK /\ ExactlyOnceInOrder)
  <1>1. SubInv => TypeOK /\ ExactlyOnceInOrder
    BY DEF SubInv
  <1> QED BY <1>1, SubInvInvariant, PTL

\* No outage makes a call repeat a read more often than the retry policy allows,
\* and none makes it repeat one without a policy (next_subscription_event).
THEOREM RetriesBounded == Spec => []RetriesWithinLimit
  <1>1. SubInv => RetriesWithinLimit
    BY RequestTyped DEF SubInv, TypeOK, AttemptsInv, RetriesWithinLimit, limit
  <1> QED BY <1>1, SubInvInvariant, PTL

\* A subscription is an EventFeed.
THEOREM SubscriptionImplementsEventFeed == Spec => ImplementsEventFeed
  <1>1. Init => Feed!Init
    BY LogAssumption, RequestTyped DEF Init, Feed!Init, First, Position
  <1>2. SubInv /\ [Next]_vars => [Feed!Next]_(Feed!vars)
    <2> SUFFICES ASSUME SubInv, [Next]_vars PROVE Feed!Next \/ UNCHANGED Feed!vars
      OBVIOUS
    <2>s. UNCHANGED (IF start.kind = "End" THEN None ELSE First)
      BY RequestFixed DEF start, First
    <2>1. CASE Write
      BY <2>1, <2>s DEF Write, history, Feed!Next, Feed!Write
    <2>2. CASE EventAppeared
      <3>1. /\ cursor \in 0..(log - 1) /\ Continues(cursor)
            /\ delivered' = Append(delivered, cursor) /\ UNCHANGED log
        BY <2>2, NoneAssumption DEF EventAppeared, SubInv, TypeOK, ResumeInv
      <3>2. Feed!IsNext(cursor)
        BY <3>1 DEF Feed!IsNext, Continues
      <3> QED BY <2>s, <3>1, <3>2 DEF Feed!Next, Feed!Show
    <2>3. CASE ~Write /\ ~EventAppeared
      BY <2>3, <2>s DEF Feed!vars, Next, Progress, vars, Call, NodeSelected, NodeUnavailable, ReadAccepted,
                  StreamEnds, NoticeAppeared, PollEnded, Pending, StreamDropped, ReadFails,
                  Cancel, serverVars, clientVars, history
    <2> QED BY <2>1, <2>2, <2>3
  <1> QED
    BY <1>1, <1>2, SubInvInvariant, PTL DEF Spec, ImplementsEventFeed, Feed!Spec
=============================================================================
