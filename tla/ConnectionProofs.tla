-------------------------- MODULE ConnectionProofs --------------------------
(***************************************************************************)
(* Proofs about Connection: for any set of calls and nodes, any host list   *)
(* and any number of discovery attempts.                                   *)
(***************************************************************************)
EXTENDS Connection, TLAPS

-----------------------------------------------------------------------------
(* Facts about messages and the mailbox *)

LEMMA MsgFields ==
    ASSUME NEW m \in Msg
    PROVE  /\ m.type = "GetChannel" => m.call \in Calls /\ m = GetChannel(m.call)
           /\ m.type = "CreateChannel" => m.id \in Nat \ {0} /\ m.seed \in Nodes \cup {None}
           /\ m.type \in {"GetChannel", "CreateChannel"}
           /\ Seed(m) \in Nodes \cup {None}
           /\ Seed(m) # None => m.type = "CreateChannel"
  BY DEF Msg, GetChannel, Seed

LEMMA MsgBuilt ==
    /\ \A c \in Calls : GetChannel(c) \in Msg
    /\ \A k \in Nat \ {0}, seed \in Nodes \cup {None} : CreateChannel(k, seed) \in Msg
  BY DEF Msg, GetChannel, CreateChannel

LEMMA ReceiveTyped ==
    ASSUME mailbox \in Seq(Msg), Receive
    PROVE  Head(mailbox) \in Msg /\ mailbox' \in Seq(Msg)
  BY DEF Receive

LEMMA SendTyped ==
    ASSUME mailbox \in Seq(Msg), NEW m \in Msg, Send(m)
    PROVE  mailbox' \in Seq(Msg)
  BY DEF Send

LEMMA AnswerTyped ==
    ASSUME TypeOK, NEW m \in Msg, NEW h \in Handle, Answer(m, h)
    PROVE  call' \in [Calls -> CallState] /\ held' \in [Calls -> Handle \cup {None}]
  <1> USE MsgFields DEF TypeOK, CallState
  <1>1. CASE m.type = "GetChannel" /\ call[m.call] = "waiting"
    BY <1>1 DEF Answer
  <1>2. CASE ~(m.type = "GetChannel" /\ call[m.call] = "waiting")
    BY <1>2 DEF Answer
  <1> QED BY <1>1, <1>2

LEMMA StopTyped ==
    ASSUME TypeOK, NEW e \in {"MaxDiscoveryAttemptReached", "Grpc", "Panic"},
           NEW told \in {"refused", "closed"}, Stop(e, told)
    PROVE  /\ mailbox' \in Seq(Msg)
           /\ state' \in TaskState
           /\ current' \in Msg \cup {None}
           /\ handle_opt' \in Handle \cup {None}
           /\ failure' \in {None, "MaxDiscoveryAttemptReached", "Grpc", "Panic"}
           /\ call' \in [Calls -> CallState]
           /\ held' \in [Calls -> Handle \cup {None}]
           /\ reports' \in SUBSET Report
           /\ seen' \in [Calls -> SUBSET Report]
  BY DEF TypeOK, Stop, ReleaseCallers, TaskState, CallState, history

-----------------------------------------------------------------------------
(* Control: what the position of the task says about its variables *)

\* The task serves a message, without a connection, exactly while it selects a
\* node or asks one for its features; it has a node to ask in the latter case.
ControlInv ==
    /\ state \in {"select", "features"} => current \in Msg /\ handle = None
    /\ state = "features" => selected_node \in Nodes
    /\ HandleMirrored
    /\ \A c \in Calls : call[c] = "running" => held[c] \in Handle

TypeInv == TypeOK /\ ControlInv

LEMMA SettingsTyped ==
    ASSUME settings \in Configurations
    PROVE  /\ Hosts \in Seq(Nodes) /\ Head(Hosts) \in Nodes
           /\ max_discover_attempts \in Nat
           /\ NumCandidates \in Nat
  <1>1. Hosts \in Seq(Nodes) /\ Hosts # <<>> /\ max_discover_attempts \in Nat
    BY SettingsAssumption DEF Hosts, max_discover_attempts
  <1> QED BY <1>1 DEF NumCandidates

\* The settings are those the client was created with.
LEMMA SettingsFixed == [Next]_vars => UNCHANGED settings
  BY DEF Next, Task, Caller, Quiescent, vars

LEMMA TypeInvInit == Init => TypeInv
  BY DEF Init, TypeInv, TypeOK, ControlInv, HandleMirrored, TaskState, CallState

LEMMA TypeInvAfterAttempt ==
    ASSUME TypeInv, state = "select", NEW n \in Nodes \cup {None}, AfterAttempt(n),
           UNCHANGED settings
    PROVE  TypeInv'
  <1> USE DEF TypeInv, AfterAttempt
  <1>1. CASE attempts + 1 <= max_discover_attempts
    BY <1>1, SettingsTyped
       DEF TypeOK, ControlInv, HandleMirrored, TaskState, callVars, history
  <1>2. CASE ~(attempts + 1 <= max_discover_attempts)
    <2>1. Stop("MaxDiscoveryAttemptReached", "refused") /\ UNCHANGED <<untried, id, handle>>
      BY <1>2
    <2>2. TypeOK'
      BY <2>1, StopTyped DEF TypeOK
    <2>3. ControlInv'
      BY <2>1 DEF TypeOK, ControlInv, HandleMirrored, Stop, ReleaseCallers
    <2> QED BY <2>2, <2>3
  <1> QED BY <1>1, <1>2

LEMMA TypeInvComplete ==
    ASSUME TypeInv, NEW m \in Msg, NEW h \in Handle, Complete(m, h),
           handle' = h, mailbox' \in Seq(Msg), id' \in Nat,
           selected_node' \in Nodes \cup {None}, UNCHANGED <<attempts, untried, settings>>
    PROVE  TypeInv'
  <1>1. TypeOK'
    BY AnswerTyped DEF TypeInv, TypeOK, Complete, history, TaskState
  <1>2. \A c \in Calls : call'[c] = "running" => held'[c] \in Handle
    BY MsgFields DEF TypeInv, TypeOK, ControlInv, Complete, Answer
  <1> QED
    BY <1>1, <1>2 DEF TypeInv, ControlInv, HandleMirrored, Complete

LEMMA TypeInvNext == TypeInv /\ [Next]_vars => TypeInv'
  <1> SUFFICES ASSUME TypeInv, [Next]_vars
               PROVE  TypeInv'
    OBVIOUS
  <1>a. UNCHANGED settings
    BY SettingsFixed
  <1> USE <1>a DEF TypeInv
  <1>1. CASE UNCHANGED vars
    BY <1>1 DEF vars, actorVars, nodeVars, callVars, history,
                TypeOK, ControlInv, HandleMirrored
  <1>2. CASE ReuseChannel
    <2> DEFINE m == Head(mailbox)
    <2>1. m \in Msg /\ mailbox' \in Seq(Msg) /\ handle_opt \in Handle
      BY <1>2, ReceiveTyped DEF ReuseChannel, TypeOK
    <2>2. TypeOK'
      BY <1>2, <2>1, AnswerTyped DEF ReuseChannel, TypeOK, nodeVars, history
    <2>3. \A c \in Calls : call'[c] = "running" => held'[c] \in Handle
      BY <1>2, <2>1, MsgFields DEF ReuseChannel, TypeOK, ControlInv, Answer
    <2> QED
      BY <1>2, <2>2, <2>3 DEF ReuseChannel, ControlInv, HandleMirrored, nodeVars
  <1>3. CASE KeepConnection
    <2>1. /\ Head(mailbox) \in Msg /\ mailbox' \in Seq(Msg)
          /\ handle \in Handle /\ UNCHANGED nodeVars
      BY <1>3, ReceiveTyped DEF KeepConnection, TypeOK
    <2> QED
      BY <1>3, <2>1, TypeInvComplete DEF KeepConnection, TypeOK, nodeVars
  <1>4. CASE StartDiscovery
    <2>1. Head(mailbox) \in Msg /\ mailbox' \in Seq(Msg)
      BY <1>4, ReceiveTyped DEF StartDiscovery, TypeOK
    <2> QED
      BY <1>4, <2>1, SettingsTyped
         DEF StartDiscovery, TypeOK, ControlInv, HandleMirrored, TaskState, callVars, history
  <1>5. CASE FollowRedirect
    <2>1. Head(mailbox) \in Msg /\ mailbox' \in Seq(Msg)
      BY <1>5, ReceiveTyped DEF FollowRedirect, TypeOK
    <2>2. Seed(Head(mailbox)) \in Nodes
      BY <1>5, <2>1, MsgFields DEF FollowRedirect
    <2> QED
      BY <1>5, <2>1, <2>2
         DEF FollowRedirect, TypeOK, ControlInv, HandleMirrored, TaskState, callVars, history
  <1>6. CASE SelectHost
    <2>1. Head(Hosts) \in Nodes
      BY SettingsTyped DEF TypeOK
    <2> QED
      BY <1>6, <2>1, TypeInvAfterAttempt DEF SelectHost
  <1>7. ASSUME NEW n \in Nodes, GossipSelects(n)
        PROVE  TypeInv'
    BY <1>7, TypeInvAfterAttempt DEF GossipSelects
  <1>8. CASE GossipFails
    <2>1. CASE untried > 1
      BY <1>8, <2>1 DEF GossipFails, TypeOK, ControlInv, HandleMirrored,
                        actorVars, callVars, history
    <2>2. CASE ~(untried > 1)
      BY <1>8, <2>2, TypeInvAfterAttempt DEF GossipFails
    <2> QED BY <2>1, <2>2
  <1>9. CASE Connected
    <2> DEFINE h == [id |-> NewId, endpoint |-> selected_node]
    <2>1. h \in Handle /\ NewId \in Nat /\ current \in Msg
      BY <1>9 DEF Connected, TypeOK, ControlInv, Handle, NewId
    <2> HIDE DEF h
    <2>2. /\ Complete(current, h) /\ handle' = h /\ id' = NewId
          /\ selected_node' = None /\ UNCHANGED <<mailbox, attempts, untried>>
      BY <1>9 DEF Connected, h
    <2> QED
      BY <2>1, <2>2, TypeInvComplete DEF TypeOK
  <1>10. CASE FeaturesFails
    <2>1. TypeOK'
      BY <1>10, StopTyped DEF FeaturesFails, TypeOK
    <2>2. ControlInv'
      BY <1>10 DEF FeaturesFails, TypeOK, ControlInv, HandleMirrored, Stop, ReleaseCallers
    <2> QED BY <2>1, <2>2
  <1>17. CASE GossipPanics
    <2>1. TypeOK'
      BY <1>17, StopTyped DEF GossipPanics, TypeOK, nodeVars
    <2>2. ControlInv'
      BY <1>17 DEF GossipPanics, TypeOK, ControlInv, HandleMirrored, Stop, ReleaseCallers, nodeVars
    <2> QED BY <2>1, <2>2
  <1>11. CASE FeaturesTimeout
    BY <1>11, SettingsTyped
       DEF FeaturesTimeout, TypeOK, ControlInv, HandleMirrored, TaskState, callVars, history
  <1>12. ASSUME NEW c \in Calls, current_selected_node(c)
         PROVE  TypeInv'
    <2>1. mailbox' \in Seq(Msg)
      BY <1>12, MsgBuilt, SendTyped DEF current_selected_node, TypeOK
    <2>2. call' \in [Calls -> CallState] /\ seen' \in [Calls -> SUBSET Report]
      BY <1>12 DEF current_selected_node, TypeOK, CallState
    <2> QED
      BY <1>12, <2>1, <2>2
         DEF current_selected_node, TypeOK, ControlInv, HandleMirrored, nodeVars
  <1>13. ASSUME NEW c \in Calls,
                Cancel(c) \/ \E outcome \in {"ok", "error"} : CallEnds(c, outcome)
         PROVE  TypeInv'
    BY <1>13 DEF Cancel, CallEnds, TypeOK, ControlInv, HandleMirrored, CallState,
                 actorVars, nodeVars, history
  <1>14. ASSUME NEW c \in Calls, NEW kind \in ErrorKind, NEW seed \in Nodes \cup {None},
                CallFails(c, kind, seed)
         PROVE  TypeInv'
    <2>1. held[c] \in Handle
      BY <1>14 DEF CallFails, ControlInv
    <2>2. mailbox' \in Seq(Msg)
      BY <1>14, <2>1, MsgBuilt, SendTyped DEF CallFails, handle_error, TypeOK, Handle
    <2>3. reports' \in SUBSET Report
      BY <1>14, <2>1 DEF CallFails, handle_error, TypeOK, Handle, Report
    <2> QED
      BY <1>14, <2>2, <2>3
         DEF CallFails, TypeOK, ControlInv, HandleMirrored, CallState, nodeVars
  <1>15. CASE Quiescent
    BY <1>15, <1>1 DEF Quiescent
  <1> QED
    BY <1>1, <1>2, <1>3, <1>4, <1>5, <1>6, <1>7, <1>8, <1>9, <1>10, <1>11, <1>12,
       <1>13, <1>14, <1>15, <1>17
       DEF Next, Task, Caller, CallUnavailable, CallNotLeader, ErrorKind

\* The variables of the task and of the calls keep their types.
THEOREM TypeCorrect == Spec => []TypeOK
  <1>1. TypeInv => TypeOK
    BY DEF TypeInv
  <1> QED
    BY <1>1, TypeInvInit, TypeInvNext, PTL DEF Spec

\* Whenever the task waits for a message, the handle it would answer GetChannel with
\* (handle_opt) is the connection of next(), whatever redirects, timeouts and
\* failed discoveries it went through since it cached it.
THEOREM CachedHandleIsCurrent == Spec => []HandleMirrored
  <1>1. TypeInv => HandleMirrored
    BY DEF TypeInv, ControlInv
  <1> QED
    BY <1>1, TypeInvInit, TypeInvNext, PTL DEF Spec

-----------------------------------------------------------------------------
(* Connection ids *)

\* A redirect is a CreateChannel that names the endpoint to follow.
Redirect(m) == Seed(m) # None

\* Ids only grow: whatever the program holds, has reported or will read about a
\* connection is about the current one or an older one.
IdInv ==
    /\ handle # None => handle.id = id
    /\ handle_opt # None => handle_opt.id <= id
    /\ \A c \in Calls : held[c] # None => held[c].id <= id
    /\ \A r \in reports : r.id <= id
    /\ \A c \in Calls : seen[c] \subseteq reports
    /\ \A i \in 1..Len(mailbox) : Redirect(mailbox[i]) => Reported(mailbox[i].id)

ConnInv == IdInv /\ AbandonedOnlyWhenReported /\ UniqueConnectionIds

\* Moving the head of the mailbox away keeps what holds of every message.
LEMMA TailMessages ==
    ASSUME mailbox \in Seq(Msg), Receive
    PROVE  /\ Len(mailbox') = Len(mailbox) - 1
           /\ \A i \in 1..Len(mailbox') : i + 1 \in 1..Len(mailbox)
                                          /\ mailbox'[i] = mailbox[i + 1]
           /\ 1 \in 1..Len(mailbox) /\ Head(mailbox) = mailbox[1]
  BY DEF Receive

\* What sending a message does to the mailbox.
LEMMA SentMessages ==
    ASSUME mailbox \in Seq(Msg), NEW m \in Msg, Send(m)
    PROVE  /\ Len(mailbox') \in {Len(mailbox), Len(mailbox) + 1}
           /\ \A i \in 1..Len(mailbox) : i \in 1..Len(mailbox') /\ mailbox'[i] = mailbox[i]
           /\ \A i \in 1..Len(mailbox') : i > Len(mailbox) => mailbox'[i] = m
           /\ state # "stopped" => /\ Len(mailbox') = Len(mailbox) + 1
                                   /\ mailbox'[Len(mailbox')] = m
  BY DEF Send

LEMMA ConnInvInit == Init => ConnInv
  BY DEF Init, ConnInv, IdInv, AbandonedOnlyWhenReported, UniqueConnectionIds

\* The steps that only lose messages.
LEMMA ConnInvFrame ==
    ASSUME ConnInv, UNCHANGED <<id, handle, handle_opt, held, reports, seen>>,
           \A i \in 1..Len(mailbox') : \E j \in 1..Len(mailbox) : mailbox'[i] = mailbox[j]
    PROVE  ConnInv'
  <1>1. IdInv'
    BY DEF ConnInv, IdInv, Redirect, Reported
  <1>2. AbandonedOnlyWhenReported' /\ UniqueConnectionIds'
    BY DEF ConnInv, AbandonedOnlyWhenReported, UniqueConnectionIds, Reported
  <1> QED BY <1>1, <1>2 DEF ConnInv

\* A call is answered with a handle the task has.
LEMMA ConnInvAnswer ==
    ASSUME TypeInv, ConnInv, Receive, NEW h \in {handle, handle_opt}, h # None,
           Answer(Head(mailbox), h), handle_opt' \in {handle, handle_opt},
           UNCHANGED <<id, handle, reports, seen>>
    PROVE  ConnInv'
  <1>1. Head(mailbox) \in Msg
    BY ReceiveTyped DEF TypeInv, TypeOK
  <1>2. \A c \in Calls : held'[c] = held[c] \/ held'[c] = h
    BY <1>1, MsgFields DEF Answer, TypeInv, TypeOK
  <1>3. IdInv'
    <2>1. h.id <= id
      BY DEF ConnInv, IdInv, TypeInv, TypeOK, Handle
    <2>2. \A i \in 1..Len(mailbox') : Redirect(mailbox'[i]) => Reported(mailbox'[i].id)
      BY TailMessages DEF ConnInv, IdInv, TypeInv, TypeOK
    <2> QED
      BY <1>2, <2>1, <2>2 DEF ConnInv, IdInv, Reported, Redirect, TypeInv, TypeOK, Handle
  <1>4. AbandonedOnlyWhenReported'
    BY DEF ConnInv, AbandonedOnlyWhenReported, Reported
  <1>5. UniqueConnectionIds'
    <2> DEFINE S == {held[c] : c \in Calls} \cup {handle, handle_opt}
    <2>1. ({held[c] : c \in Calls} \cup {handle, handle_opt})' \subseteq S
      BY <1>2
    <2> QED
      BY <2>1 DEF ConnInv, UniqueConnectionIds
  <1> QED BY <1>3, <1>4, <1>5 DEF ConnInv

LEMMA ConnInvNext == TypeInv /\ ConnInv /\ [Next]_vars => ConnInv'
  <1> SUFFICES ASSUME TypeInv, ConnInv, [Next]_vars
               PROVE  ConnInv'
    OBVIOUS
  <1>a. ASSUME NEW n, AfterAttempt(n) PROVE ConnInv'
    BY <1>a, ConnInvFrame DEF AfterAttempt, Stop, callVars, history
  <1>1. CASE UNCHANGED vars
    BY <1>1, ConnInvFrame DEF vars, actorVars, nodeVars, callVars, history
  <1>2. CASE ReuseChannel
    BY <1>2, ConnInvAnswer DEF ReuseChannel, nodeVars, history
  <1>3. CASE KeepConnection
    BY <1>3, ConnInvAnswer DEF KeepConnection, Complete, nodeVars, history
  <1>4. CASE StartDiscovery
    BY <1>4, ConnInvFrame, TailMessages
       DEF StartDiscovery, callVars, history, TypeInv, TypeOK
  <1>5. CASE FollowRedirect
    <2> DEFINE m == Head(mailbox)
    <2>1. /\ m \in Msg /\ m = mailbox[1] /\ 1 \in 1..Len(mailbox)
          /\ Redirect(m) /\ (handle = None \/ m.id = id)
      BY <1>5, ReceiveTyped, TailMessages
         DEF FollowRedirect, StaleReport, Redirect, TypeInv, TypeOK
    <2>2. Reported(m.id)
      BY <2>1 DEF ConnInv, IdInv
    <2>3. AbandonedOnlyWhenReported'
      <3> SUFFICES ASSUME NEW k \in 1..id PROVE Reported(k)
        BY <1>5 DEF FollowRedirect, AbandonedOnlyWhenReported, Reported, history
      <3>1. CASE k < id \/ handle = None
        BY <3>1 DEF ConnInv, AbandonedOnlyWhenReported
      <3>2. CASE k = id /\ m.id = id
        BY <3>2, <2>2
      <3> QED BY <3>1, <3>2, <2>1 DEF TypeInv, TypeOK
    <2>4. \A i \in 1..Len(mailbox') : Redirect(mailbox'[i]) => Reported(mailbox'[i].id)
      BY <1>5, TailMessages DEF FollowRedirect, ConnInv, IdInv, TypeInv, TypeOK
    <2>5. IdInv'
      BY <1>5, <2>4
         DEF FollowRedirect, ConnInv, IdInv, Reported, Redirect, callVars, history
    <2>6. UniqueConnectionIds'
      BY <1>5 DEF FollowRedirect, ConnInv, UniqueConnectionIds, callVars
    <2> QED BY <2>3, <2>5, <2>6 DEF ConnInv
  <1>6. CASE SelectHost
    BY <1>6, <1>a DEF SelectHost
  <1>7. ASSUME NEW n \in Nodes, GossipSelects(n)
        PROVE  ConnInv'
    BY <1>7, <1>a DEF GossipSelects
  <1>8. CASE GossipFails
    <2>1. CASE untried > 1
      BY <1>8, <2>1, ConnInvFrame DEF GossipFails, actorVars, callVars, history
    <2>2. CASE ~(untried > 1)
      BY <1>8, <2>2, <1>a DEF GossipFails
    <2> QED BY <2>1, <2>2
  <1>9. CASE Connected
    <2> DEFINE h == [id |-> NewId, endpoint |-> selected_node]
    <2>1. /\ h.id = id + 1 /\ id' = id + 1 /\ handle' = h /\ handle_opt' = h
          /\ UNCHANGED <<mailbox, reports, seen>> /\ Answer(current, h)
          /\ current \in Msg /\ handle = None
      BY <1>9 DEF Connected, Complete, NewId, history, TypeInv, ControlInv
    <2>6. h \in Handle
      BY <1>9 DEF Connected, NewId, Handle, TypeInv, TypeOK, ControlInv
    <2> HIDE DEF h
    <2>2. \A c \in Calls : held'[c] = held[c] \/ held'[c] = h
      BY <2>1, MsgFields DEF Answer, TypeInv, TypeOK
    <2>3. IdInv'
      <3>1. \A c \in Calls : held'[c] # None => held'[c].id <= id'
        BY <2>1, <2>2 DEF ConnInv, IdInv, TypeInv, TypeOK, Handle
      <3>2. \A r \in reports : r.id <= id'
        BY <2>1 DEF ConnInv, IdInv, TypeInv, TypeOK, Report
      <3> QED
        BY <2>1, <3>1, <3>2 DEF ConnInv, IdInv, Reported, Redirect, TypeInv, TypeOK
    <2>4. AbandonedOnlyWhenReported'
      <3> SUFFICES ASSUME NEW k \in 1..id', k < id' \/ handle' = None PROVE Reported(k)'
        BY DEF AbandonedOnlyWhenReported
      <3>1. CASE k < id'
        BY <3>1, <2>1 DEF ConnInv, AbandonedOnlyWhenReported, Reported, TypeInv, TypeOK
      <3>2. CASE handle' = None
        BY <3>2, <2>1, <2>6, NoneAssumption
      <3> QED BY <3>1, <3>2
    <2>5. UniqueConnectionIds'
      <3> SUFFICES ASSUME NEW f \in {held'[c] : c \in Calls} \cup {handle', handle_opt'},
                          NEW g \in {held'[c] : c \in Calls} \cup {handle', handle_opt'},
                          f # None, g # None, f.id = g.id
                   PROVE  f.endpoint = g.endpoint
        BY DEF UniqueConnectionIds
      <3> DEFINE Old == {held[c] : c \in Calls}
      <3>1. \A x \in Old : x # None => x.id # id + 1
        BY DEF ConnInv, IdInv, TypeInv, TypeOK, Handle
      <3>2. f \in Old \cup {h} /\ g \in Old \cup {h}
        BY <2>1, <2>2
      <3>3. CASE f \in Old /\ g \in Old
        BY <3>3 DEF ConnInv, UniqueConnectionIds
      <3>4. CASE f = h \/ g = h
        BY <3>1, <3>2, <3>4, <2>1
      <3> QED BY <3>2, <3>3, <3>4
    <2> QED BY <2>3, <2>4, <2>5 DEF ConnInv
  <1>10. CASE FeaturesFails
    BY <1>10, ConnInvFrame DEF FeaturesFails, Stop, history
  <1>17. CASE GossipPanics
    BY <1>17, ConnInvFrame DEF GossipPanics, Stop, nodeVars, history
  <1>11. CASE FeaturesTimeout
    BY <1>11, ConnInvFrame DEF FeaturesTimeout, callVars, history
  <1>12. ASSUME NEW c \in Calls, current_selected_node(c)
         PROVE  ConnInv'
    <2> DEFINE m == GetChannel(c)
    <2>1. /\ m \in Msg /\ ~Redirect(m) /\ Send(m)
          /\ UNCHANGED <<id, handle, handle_opt, held, reports>>
          /\ seen' = [seen EXCEPT ![c] = reports]
      BY <1>12, MsgBuilt DEF current_selected_node, Redirect, Seed, GetChannel, nodeVars
    <2> HIDE DEF m
    <2>2. \A i \in 1..Len(mailbox') : Redirect(mailbox'[i]) => Reported(mailbox'[i].id)
      BY <2>1, SentMessages DEF ConnInv, IdInv, TypeInv, TypeOK
    <2>3. IdInv'
      BY <2>1, <2>2 DEF ConnInv, IdInv, Reported, Redirect, TypeInv, TypeOK
    <2>4. AbandonedOnlyWhenReported' /\ UniqueConnectionIds'
      BY <2>1 DEF ConnInv, AbandonedOnlyWhenReported, UniqueConnectionIds, Reported
    <2> QED BY <2>3, <2>4 DEF ConnInv
  <1>13. ASSUME NEW c \in Calls,
                Cancel(c) \/ \E outcome \in {"ok", "error"} : CallEnds(c, outcome)
         PROVE  ConnInv'
    BY <1>13, ConnInvFrame DEF Cancel, CallEnds, actorVars, nodeVars, history
  <1>14. ASSUME NEW c \in Calls, CallUnavailable(c) \/ \E l \in Nodes : CallNotLeader(c, l)
         PROVE  ConnInv'
    <2>1. PICK kind \in ErrorKind, seed \in Nodes \cup {None} :
              /\ CallFails(c, kind, seed)
              /\ seed # None => kind = "NotLeaderException"
      BY <1>14 DEF CallUnavailable, CallNotLeader, ErrorKind
    <2> DEFINE m == CreateChannel(held[c].id, seed)
               r == [id |-> held[c].id, kind |-> kind]
    <2>2. held[c] \in Handle
      BY <2>1 DEF CallFails, TypeInv, ControlInv
    <2>3. /\ m \in Msg /\ Send(m) /\ reports' = reports \cup {r}
          /\ UNCHANGED <<id, handle, handle_opt, held, seen>>
      BY <2>1, <2>2, MsgBuilt DEF CallFails, handle_error, nodeVars, Handle
    <2>4. /\ Redirect(m) => [id |-> m.id, kind |-> "NotLeaderException"] \in reports'
          /\ r.id = held[c].id
      BY <2>1, <2>3 DEF Redirect, Seed, CreateChannel
    <2>5. held[c].id <= id
      BY <2>2, NoneAssumption DEF ConnInv, IdInv
    <2> HIDE DEF m, r
    <2>6. (\A i \in 1..Len(mailbox) : Redirect(mailbox[i]) => Reported(mailbox[i].id))'
      <3> SUFFICES ASSUME NEW i \in 1..Len(mailbox'), Redirect(mailbox'[i])
                   PROVE  [id |-> mailbox'[i].id, kind |-> "NotLeaderException"] \in reports'
        BY DEF Redirect, Seed, Reported
      <3>1. CASE i \in 1..Len(mailbox)
        BY <2>3, <3>1, SentMessages DEF ConnInv, IdInv, Reported, TypeInv, TypeOK
      <3>2. CASE i \notin 1..Len(mailbox)
        <4>1. mailbox'[i] = m
          BY <2>3, <3>2, SentMessages DEF TypeInv, TypeOK
        <4> QED BY <2>4, <4>1
      <3> QED BY <3>1, <3>2
    <2>7. IdInv'
      BY <2>3, <2>4, <2>5, <2>6 DEF ConnInv, IdInv, Redirect
    <2>8. AbandonedOnlyWhenReported' /\ UniqueConnectionIds'
      BY <2>3 DEF ConnInv, AbandonedOnlyWhenReported, UniqueConnectionIds, Reported
    <2> QED BY <2>7, <2>8 DEF ConnInv
  <1>15. CASE Quiescent
    BY <1>15, <1>1 DEF Quiescent
  <1> QED
    BY <1>1, <1>2, <1>3, <1>4, <1>5, <1>6, <1>7, <1>8, <1>9, <1>10, <1>11, <1>12,
       <1>13, <1>14, <1>15, <1>17
       DEF Next, Task, Caller

\* The id of a report identifies the connection it is about, and next() gives a
\* connection up only after one of its own calls reported it.
THEOREM AbandonmentIsJustified ==
    Spec => [](AbandonedOnlyWhenReported /\ UniqueConnectionIds)
  <1>1. Init => TypeInv /\ ConnInv
    BY TypeInvInit, ConnInvInit
  <1>2. TypeInv /\ ConnInv /\ [Next]_vars => (TypeInv /\ ConnInv)'
    BY TypeInvNext, ConnInvNext
  <1>3. TypeInv /\ ConnInv => AbandonedOnlyWhenReported /\ UniqueConnectionIds
    BY DEF ConnInv
  <1> QED
    BY <1>1, <1>2, <1>3, PTL DEF Spec

-----------------------------------------------------------------------------
(* The order of reports and questions *)

\* Connection k is being replaced, or has been.
Superseded(k) == k < id \/ handle = None

\* One of the first n messages makes the task replace connection k.
RedirectAmong(n, k) == \E j \in 1..n : Redirect(mailbox[j]) /\ mailbox[j].id = k

RejectedBefore(c, k) == [id |-> k, kind |-> "NotLeaderException"] \in seen[c]

\* While the task runs, a rejected connection is superseded or its redirect is
\* queued, ahead of every question asked after the rejection.
OrderInv ==
    /\ state = "stopped" => mailbox = <<>>
    /\ \A c \in Calls : call[c] = "idle" =>
           /\ held[c] = None
           /\ \A i \in 1..Len(mailbox) : mailbox[i] # GetChannel(c)
    /\ state # "stopped" =>
           \A k \in Nat : Reported(k) => Superseded(k) \/ RedirectAmong(Len(mailbox), k)
    /\ \A i \in 1..Len(mailbox), c \in Calls, k \in Nat :
           mailbox[i] = GetChannel(c) /\ RejectedBefore(c, k) =>
               Superseded(k) \/ RedirectAmong(i - 1, k)
    /\ RetryNeverReusesRejectedConnection

LEMMA OrderInvInit == Init => OrderInv
  BY DEF Init, OrderInv, Reported, RetryNeverReusesRejectedConnection

\* Steps that leave the mailbox alone, or empty it when the task stops.
LEMMA OrderInvFrame ==
    ASSUME OrderInv, TypeInv, UNCHANGED <<held, reports, seen, id, handle>>,
           \A c \in Calls : call'[c] = "idle" => call[c] = "idle",
           \/ mailbox' = mailbox /\ (state' = "stopped" <=> state = "stopped")
           \/ mailbox' = <<>> /\ state' = "stopped"
    PROVE  OrderInv'
  <1>1. RetryNeverReusesRejectedConnection'
    BY DEF OrderInv, RetryNeverReusesRejectedConnection
  <1>2. CASE mailbox' = mailbox /\ (state' = "stopped" <=> state = "stopped")
    BY <1>1, <1>2 DEF OrderInv, Reported, Superseded, RedirectAmong, Redirect, RejectedBefore
  <1>3. CASE mailbox' = <<>> /\ state' = "stopped"
    BY <1>1, <1>3 DEF OrderInv
  <1> QED BY <1>2, <1>3

\* Serving the head of the mailbox: if it is a redirect, the connection it is
\* about is superseded afterwards.
LEMMA OrderInvReceive ==
    ASSUME OrderInv, TypeInv, Receive, UNCHANGED <<reports, seen>>,
           \A c \in Calls : call'[c] = "idle" => call[c] = "idle" /\ held'[c] = held[c],
           state' # "stopped",
           \A k \in Nat : Superseded(k) => Superseded(k)',
           \A k \in Nat : Redirect(Head(mailbox)) /\ Head(mailbox).id = k => Superseded(k)',
           RetryNeverReusesRejectedConnection'
    PROVE  OrderInv'
  <1> DEFINE N == Len(mailbox)
  <1>1. /\ N \in Nat /\ Len(mailbox') = N - 1 /\ Head(mailbox) = mailbox[1]
        /\ \A i \in 1..(N - 1) : mailbox'[i] = mailbox[i + 1]
    BY TailMessages DEF TypeInv, TypeOK
  <1>2. ASSUME NEW n \in 1..N, NEW k \in Nat, RedirectAmong(n, k)
        PROVE  Superseded(k)' \/ \E j \in 1..(n - 1) : Redirect(mailbox'[j]) /\ mailbox'[j].id = k
    <2>1. PICK j \in 1..n : Redirect(mailbox[j]) /\ mailbox[j].id = k
      BY <1>2 DEF RedirectAmong
    <2>2. CASE j = 1
      BY <1>1, <2>1, <2>2
    <2>3. CASE j # 1
      <3>1. j - 1 \in 1..(n - 1) /\ mailbox'[j - 1] = mailbox[j]
        BY <1>1, <2>3
      <3> QED BY <2>1, <3>1
    <2> QED BY <2>2, <2>3
  <1>3. \A k \in Nat : Reported(k)' => Superseded(k)' \/ RedirectAmong(Len(mailbox), k)'
    <2> SUFFICES ASSUME NEW k \in Nat, Reported(k)'
                 PROVE  Superseded(k)' \/ RedirectAmong(Len(mailbox), k)'
      OBVIOUS
    <2>1. Superseded(k) \/ RedirectAmong(N, k)
      BY DEF OrderInv, Reported, Receive
    <2>2. N \in 1..N
      BY <1>1, TailMessages DEF TypeInv, TypeOK
    <2> QED BY <1>1, <1>2, <2>1, <2>2 DEF RedirectAmong, Redirect
  <1>4. \A i \in 1..Len(mailbox'), c \in Calls, k \in Nat :
           mailbox'[i] = GetChannel(c) /\ RejectedBefore(c, k)' =>
               Superseded(k)' \/ \E j \in 1..(i - 1) : Redirect(mailbox'[j]) /\ mailbox'[j].id = k
    <2> SUFFICES ASSUME NEW i \in 1..(N - 1), NEW c \in Calls, NEW k \in Nat,
                        mailbox'[i] = GetChannel(c), RejectedBefore(c, k)'
                 PROVE  Superseded(k)' \/ \E j \in 1..(i - 1) :
                                              Redirect(mailbox'[j]) /\ mailbox'[j].id = k
      BY <1>1
    <2>1. i + 1 \in 1..N /\ mailbox[i + 1] = GetChannel(c) /\ RejectedBefore(c, k)
      BY <1>1 DEF RejectedBefore
    <2>2. Superseded(k) \/ RedirectAmong(i, k)
      BY <2>1 DEF OrderInv
    <2>3. CASE Superseded(k)
      BY <2>3
    <2>4. CASE RedirectAmong(i, k)
      <3>1. i \in 1..N
        BY <1>1
      <3> QED BY <1>2, <2>4, <3>1
    <2> QED BY <2>2, <2>3, <2>4
  <1>5. \A c \in Calls : call'[c] = "idle" =>
            held'[c] = None /\ \A i \in 1..Len(mailbox') : mailbox'[i] # GetChannel(c)
    <2> SUFFICES ASSUME NEW c \in Calls, call'[c] = "idle"
                 PROVE  held'[c] = None /\ \A i \in 1..(N - 1) : mailbox'[i] # GetChannel(c)
      BY <1>1
    <2>1. held[c] = None /\ held'[c] = held[c] /\ \A i \in 1..N : mailbox[i] # GetChannel(c)
      BY DEF OrderInv
    <2>2. ASSUME NEW i \in 1..(N - 1) PROVE mailbox'[i] # GetChannel(c)
      <3>1. i + 1 \in 1..N /\ mailbox'[i] = mailbox[i + 1]
        BY <1>1
      <3> QED BY <2>1, <3>1
    <2> QED BY <2>1, <2>2
  <1> QED
    BY <1>3, <1>4, <1>5 DEF OrderInv, RedirectAmong, Redirect, GetChannel

\* Answering the question at the head of the mailbox with the connection.
LEMMA AnsweredInOrder ==
    ASSUME OrderInv, TypeInv, ConnInv, Receive, handle # None,
           Answer(Head(mailbox), handle), UNCHANGED seen
    PROVE  RetryNeverReusesRejectedConnection'
  <1> SUFFICES ASSUME NEW c \in Calls, held'[c] # None
               PROVE  [id |-> held'[c].id, kind |-> "NotLeaderException"] \notin seen[c]
    BY DEF RetryNeverReusesRejectedConnection
  <1> DEFINE m == Head(mailbox)
  <1>1. m \in Msg /\ m = mailbox[1] /\ 1 \in 1..Len(mailbox)
    BY TailMessages, ReceiveTyped DEF TypeInv, TypeOK
  <1>2. CASE held'[c] = held[c]
    BY <1>2 DEF OrderInv, RetryNeverReusesRejectedConnection
  <1>3. CASE held'[c] # held[c]
    <2>1. m = GetChannel(c) /\ held'[c] = handle
      BY <1>1, <1>3, MsgFields DEF Answer, TypeInv, TypeOK
    <2>2. handle.id = id /\ id \in Nat
      BY DEF ConnInv, IdInv, TypeInv, TypeOK
    <2>3. ~RejectedBefore(c, id)
      BY <1>1, <2>1, <2>2 DEF OrderInv, Superseded, RedirectAmong
    <2> QED BY <2>1, <2>2, <2>3 DEF RejectedBefore
  <1> QED BY <1>2, <1>3

LEMMA OrderInvNext == TypeInv /\ ConnInv /\ OrderInv /\ [Next]_vars => OrderInv'
  <1> SUFFICES ASSUME TypeInv, ConnInv, OrderInv, [Next]_vars
               PROVE  OrderInv'
    OBVIOUS
  <1>m. ASSUME Receive PROVE Head(mailbox) \in Msg /\ Head(mailbox) = mailbox[1]
    BY <1>m, ReceiveTyped, TailMessages DEF TypeInv, TypeOK
  <1>c. ASSUME NEW m \in Msg, NEW h, Answer(m, h), NEW c \in Calls, call'[c] = "idle"
        PROVE  call[c] = "idle" /\ held'[c] = held[c]
    BY <1>c, MsgFields DEF Answer, TypeInv, TypeOK
  <1>s. ASSUME NEW e, NEW told \in {"refused", "closed"}, Stop(e, told),
               NEW c \in Calls, call'[c] = "idle"
        PROVE  call[c] = "idle"
    BY <1>s DEF Stop, ReleaseCallers
  <1>a. ASSUME state = "select", NEW n, AfterAttempt(n) PROVE OrderInv'
    <2>1. UNCHANGED <<held, reports, seen, id, handle>>
      BY <1>a DEF AfterAttempt, Stop, callVars, history
    <2>2. \A c \in Calls : call'[c] = "idle" => call[c] = "idle"
      BY <1>a, <1>s DEF AfterAttempt, callVars
    <2>3. \/ mailbox' = mailbox /\ state' # "stopped"
          \/ mailbox' = <<>> /\ state' = "stopped"
      BY <1>a DEF AfterAttempt, Stop
    <2> QED BY <1>a, <2>1, <2>2, <2>3, OrderInvFrame
  <1>1. CASE UNCHANGED vars
    BY <1>1, OrderInvFrame DEF vars, actorVars, nodeVars, callVars, history
  <1>2. CASE ReuseChannel
    <2>1. /\ Receive /\ Answer(Head(mailbox), handle) /\ handle # None
          /\ UNCHANGED <<state, id, handle, reports, seen>>
      BY <1>2 DEF ReuseChannel, Receive, TypeInv, ControlInv, HandleMirrored, nodeVars, history
    <2>2. ~Redirect(Head(mailbox))
      BY <1>2 DEF ReuseChannel, Redirect, Seed
    <2>3. RetryNeverReusesRejectedConnection'
      BY <2>1, AnsweredInOrder
    <2> QED
      BY <2>1, <2>2, <2>3, <1>m, <1>c, OrderInvReceive DEF Receive, Superseded
  <1>3. CASE KeepConnection
    <2>1. /\ Receive /\ Answer(Head(mailbox), handle) /\ handle # None /\ state' = "recv"
          /\ UNCHANGED <<id, handle, reports, seen>>
      BY <1>3 DEF KeepConnection, Complete, nodeVars, history
    <2>2. \A k \in Nat : Redirect(Head(mailbox)) /\ Head(mailbox).id = k => Superseded(k)'
      <3> SUFFICES ASSUME NEW k \in Nat, Redirect(Head(mailbox)), Head(mailbox).id = k
                   PROVE  k < id
        BY <2>1 DEF Superseded
      <3>1. k # id
        BY <1>3 DEF KeepConnection, StaleReport, Redirect
      <3>2. Reported(k)
        BY <2>1, <1>m, TailMessages DEF ConnInv, IdInv, TypeInv, TypeOK
      <3>3. k <= id
        BY <3>2 DEF ConnInv, IdInv, Reported
      <3> QED BY <3>1, <3>3 DEF TypeInv, TypeOK
    <2>3. RetryNeverReusesRejectedConnection'
      BY <2>1, AnsweredInOrder
    <2> QED
      BY <2>1, <2>2, <2>3, <1>m, <1>c, OrderInvReceive DEF Superseded
  <1>4. CASE StartDiscovery
    <2>1. /\ Receive /\ ~Redirect(Head(mailbox)) /\ state' = "select"
          /\ UNCHANGED <<call, held, id, handle, reports, seen>>
      BY <1>4 DEF StartDiscovery, Redirect, callVars, history
    <2>2. RetryNeverReusesRejectedConnection'
      BY <2>1 DEF OrderInv, RetryNeverReusesRejectedConnection
    <2> QED BY <2>1, <2>2, OrderInvReceive DEF Superseded
  <1>5. CASE FollowRedirect
    <2>1. /\ Receive /\ handle' = None /\ state' = "features"
          /\ UNCHANGED <<call, held, reports, seen>>
      BY <1>5 DEF FollowRedirect, callVars, history
    <2>2. RetryNeverReusesRejectedConnection'
      BY <2>1 DEF OrderInv, RetryNeverReusesRejectedConnection
    <2> QED BY <2>1, <2>2, OrderInvReceive DEF Superseded
  <1>6. CASE SelectHost
    BY <1>6, <1>a DEF SelectHost
  <1>7. ASSUME NEW n \in Nodes, GossipSelects(n)
        PROVE  OrderInv'
    BY <1>7, <1>a DEF GossipSelects
  <1>8. CASE GossipFails
    <2>1. CASE untried > 1
      BY <1>8, <2>1, OrderInvFrame DEF GossipFails, actorVars, callVars, history
    <2>2. CASE ~(untried > 1)
      BY <1>8, <2>2, <1>a DEF GossipFails
    <2> QED BY <2>1, <2>2
  <1>9. CASE Connected
    <2> DEFINE h == [id |-> NewId, endpoint |-> selected_node]
    <2>1. /\ h.id = id + 1 /\ id' = id + 1 /\ Answer(current, h) /\ current \in Msg
          /\ state' = "recv" /\ state # "stopped" /\ UNCHANGED <<mailbox, reports, seen>>
      BY <1>9 DEF Connected, Complete, NewId, history, TypeInv, ControlInv
    <2> HIDE DEF h
    <2>2. \A k \in Nat : Reported(k) => Superseded(k)'
      BY <2>1 DEF ConnInv, IdInv, Reported, Superseded, TypeInv, TypeOK
    <2>3. \A c \in Calls, k \in Nat : RejectedBefore(c, k) => Reported(k)
      BY DEF ConnInv, IdInv, RejectedBefore, Reported
    <2>4. \A c \in Calls : ~RejectedBefore(c, id + 1)
      BY DEF RejectedBefore, ConnInv, IdInv, TypeInv, TypeOK
    <2>5. RetryNeverReusesRejectedConnection'
      BY <2>1, <2>4, MsgFields
         DEF OrderInv, RetryNeverReusesRejectedConnection, RejectedBefore, Answer, TypeInv, TypeOK
    <2>6. \A c \in Calls : call'[c] = "idle" =>
            held'[c] = None /\ \A i \in 1..Len(mailbox) : mailbox[i] # GetChannel(c)
      BY <2>1, <1>c DEF OrderInv
    <2> QED
      BY <2>1, <2>2, <2>3, <2>5, <2>6 DEF OrderInv, Reported, RejectedBefore
  <1>10. CASE FeaturesFails
    BY <1>10, <1>s, OrderInvFrame DEF FeaturesFails, Stop, history
  <1>17. CASE GossipPanics
    BY <1>17, <1>s, OrderInvFrame DEF GossipPanics, Stop, nodeVars, history
  <1>11. CASE FeaturesTimeout
    BY <1>11, OrderInvFrame DEF FeaturesTimeout, callVars, history
  <1>13. ASSUME NEW c \in Calls,
                Cancel(c) \/ \E outcome \in {"ok", "error"} : CallEnds(c, outcome)
         PROVE  OrderInv'
    BY <1>13, OrderInvFrame
       DEF Cancel, CallEnds, actorVars, nodeVars, history, TypeInv, TypeOK
  <1>p. ASSUME NEW m \in Msg, Send(m), UNCHANGED <<id, handle>>,
               NEW n \in 0..Len(mailbox), NEW k \in Nat, Superseded(k) \/ RedirectAmong(n, k)
        PROVE  Superseded(k)' \/ \E j \in 1..n : Redirect(mailbox'[j]) /\ mailbox'[j].id = k
    <2>1. \A j \in 1..n : j \in 1..Len(mailbox)
      BY DEF TypeInv, TypeOK
    <2> QED
      BY <1>p, <2>1, SentMessages DEF Superseded, RedirectAmong, TypeInv, TypeOK
  <1>12. ASSUME NEW c \in Calls, current_selected_node(c)
         PROVE  OrderInv'
    <2> DEFINE m == GetChannel(c)
    <2>1. /\ m \in Msg /\ Send(m) /\ call[c] = "idle"
          /\ UNCHANGED <<state, id, handle, held, reports>>
          /\ seen' = [seen EXCEPT ![c] = reports]
          /\ \A d \in Calls : call'[d] = "idle" => d # c /\ call[d] = "idle"
      BY <1>12, MsgBuilt DEF current_selected_node, nodeVars, TypeInv, TypeOK
    <2>2. \A d \in Calls : d # c => m # GetChannel(d)
      BY DEF GetChannel
    <2> HIDE DEF m
    <2>3. state' = "stopped" => mailbox' = <<>>
      BY <2>1 DEF OrderInv, Send
    <2>4. \A d \in Calls : call'[d] = "idle" =>
            held'[d] = None /\ \A i \in 1..Len(mailbox') : mailbox'[i] # GetChannel(d)
      BY <2>1, <2>2, SentMessages DEF OrderInv, TypeInv, TypeOK
    <2>5. ASSUME NEW k \in Nat, Reported(k), state # "stopped"
          PROVE  Superseded(k)' \/ \E j \in 1..Len(mailbox) :
                                       Redirect(mailbox'[j]) /\ mailbox'[j].id = k
      <3>1. Superseded(k) \/ RedirectAmong(Len(mailbox), k)
        BY <2>5 DEF OrderInv
      <3>2. Len(mailbox) \in 0..Len(mailbox)
        BY DEF TypeInv, TypeOK
      <3> QED BY <1>p, <2>1, <2>5, <3>1, <3>2
    <2>6. state' # "stopped" =>
            \A k \in Nat : Reported(k)' => Superseded(k)' \/ RedirectAmong(Len(mailbox), k)'
      BY <2>1, <2>5, SentMessages DEF RedirectAmong, Redirect, Reported, TypeInv, TypeOK
    <2>7. ASSUME NEW i \in 1..Len(mailbox'), NEW d \in Calls, NEW k \in Nat,
                 mailbox'[i] = GetChannel(d), RejectedBefore(d, k)'
          PROVE  Superseded(k)' \/ \E j \in 1..(i - 1) :
                                       Redirect(mailbox'[j]) /\ mailbox'[j].id = k
      <3>1. CASE i \in 1..Len(mailbox)
        <4>1. mailbox[i] = GetChannel(d) /\ d # c
          BY <2>1, <2>7, <3>1, SentMessages DEF OrderInv, TypeInv, TypeOK
        <4>2. RejectedBefore(d, k)
          BY <2>1, <2>7, <4>1 DEF RejectedBefore, TypeInv, TypeOK
        <4>3. Superseded(k) \/ RedirectAmong(i - 1, k)
          BY <3>1, <4>1, <4>2 DEF OrderInv
        <4>4. i - 1 \in 0..Len(mailbox)
          BY <3>1 DEF TypeInv, TypeOK
        <4> QED BY <2>1, <4>3, <4>4, <1>p
      <3>2. CASE i \notin 1..Len(mailbox)
        <4>1. mailbox'[i] = m /\ state # "stopped" /\ i - 1 = Len(mailbox)
          BY <2>1, <3>2, SentMessages DEF Send, TypeInv, TypeOK
        <4>2. d = c
          BY <2>2, <2>7, <4>1
        <4>3. Reported(k)
          BY <2>1, <2>7, <4>2 DEF RejectedBefore, Reported, TypeInv, TypeOK
        <4> QED BY <2>5, <4>1, <4>3
      <3> QED BY <3>1, <3>2
    <2>8. RetryNeverReusesRejectedConnection'
      BY <2>1 DEF OrderInv, RetryNeverReusesRejectedConnection, TypeInv, TypeOK
    <2> QED
      BY <2>3, <2>4, <2>6, <2>7, <2>8 DEF OrderInv, RedirectAmong, Redirect, GetChannel
  <1>14. ASSUME NEW c \in Calls, CallUnavailable(c) \/ \E l \in Nodes : CallNotLeader(c, l)
         PROVE  OrderInv'
    <2>1. PICK kind \in ErrorKind, seed \in Nodes \cup {None} :
              /\ CallFails(c, kind, seed)
              /\ kind = "NotLeaderException" => seed # None
      BY <1>14, NoneAssumption DEF CallUnavailable, CallNotLeader, ErrorKind
    <2> DEFINE m == CreateChannel(held[c].id, seed)
               r == [id |-> held[c].id, kind |-> kind]
    <2>2. held[c] \in Handle
      BY <2>1 DEF CallFails, TypeInv, ControlInv
    <2>3. /\ m \in Msg /\ Send(m) /\ reports' = reports \cup {r}
          /\ UNCHANGED <<state, id, handle, held, seen>>
          /\ \A d \in Calls : call'[d] = "idle" => call[d] = "idle"
      BY <2>1, <2>2, MsgBuilt DEF CallFails, handle_error, nodeVars, Handle, TypeInv, TypeOK
    <2>4. /\ \A d \in Calls : m # GetChannel(d)
          /\ r.kind = "NotLeaderException" => Redirect(m) /\ m.id = r.id
      BY <2>1 DEF GetChannel, CreateChannel, Redirect, Seed
    <2> HIDE DEF m, r
    <2>5. state' = "stopped" => mailbox' = <<>>
      BY <2>3 DEF OrderInv, Send
    <2>6. \A d \in Calls : call'[d] = "idle" =>
            held'[d] = None /\ \A i \in 1..Len(mailbox') : mailbox'[i] # GetChannel(d)
      BY <2>3, <2>4, SentMessages DEF OrderInv, TypeInv, TypeOK
    <2>7. ASSUME NEW k \in Nat, Reported(k)', state # "stopped"
          PROVE  Superseded(k)' \/ \E j \in 1..Len(mailbox') :
                                       Redirect(mailbox'[j]) /\ mailbox'[j].id = k
      <3>1. CASE Reported(k)
        <4>1. Superseded(k) \/ RedirectAmong(Len(mailbox), k)
          BY <2>7, <3>1 DEF OrderInv
        <4>2. Superseded(k)' \/ \E j \in 1..Len(mailbox) :
                                       Redirect(mailbox'[j]) /\ mailbox'[j].id = k
          BY <1>p, <2>3, <4>1 DEF TypeInv, TypeOK
        <4> QED BY <2>3, <4>2, SentMessages DEF TypeInv, TypeOK
      <3>2. CASE ~Reported(k)
        <4>1. r.kind = "NotLeaderException" /\ r.id = k
          BY <2>3, <2>7, <3>2 DEF Reported
        <4>2. mailbox'[Len(mailbox')] = m /\ Len(mailbox') \in 1..Len(mailbox')
          BY <2>3, <2>7, SentMessages DEF TypeInv, TypeOK
        <4> QED BY <2>4, <4>1, <4>2
      <3> QED BY <3>1, <3>2
    <2>8. state' # "stopped" =>
            \A k \in Nat : Reported(k)' => Superseded(k)' \/ RedirectAmong(Len(mailbox), k)'
      BY <2>3, <2>7 DEF RedirectAmong, Redirect
    <2>9. ASSUME NEW i \in 1..Len(mailbox'), NEW d \in Calls, NEW k \in Nat,
                 mailbox'[i] = GetChannel(d), RejectedBefore(d, k)'
          PROVE  Superseded(k)' \/ \E j \in 1..(i - 1) :
                                       Redirect(mailbox'[j]) /\ mailbox'[j].id = k
      <3>1. i \in 1..Len(mailbox) /\ mailbox[i] = GetChannel(d)
        BY <2>3, <2>4, <2>9, SentMessages DEF TypeInv, TypeOK
      <3>2. RejectedBefore(d, k)
        BY <2>3, <2>9 DEF RejectedBefore
      <3>3. Superseded(k) \/ RedirectAmong(i - 1, k)
        BY <3>1, <3>2 DEF OrderInv
      <3>4. i - 1 \in 0..Len(mailbox)
        BY <3>1 DEF TypeInv, TypeOK
      <3> QED BY <2>3, <3>3, <3>4, <1>p
    <2>10. RetryNeverReusesRejectedConnection'
      BY <2>3 DEF OrderInv, RetryNeverReusesRejectedConnection
    <2> QED
      BY <2>5, <2>6, <2>8, <2>9, <2>10 DEF OrderInv, RedirectAmong, Redirect, GetChannel
  <1>15. CASE Quiescent
    BY <1>15, <1>1 DEF Quiescent
  <1> QED
    BY <1>1, <1>2, <1>3, <1>4, <1>5, <1>6, <1>7, <1>8, <1>9, <1>10, <1>11, <1>12,
       <1>13, <1>14, <1>15, <1>17
       DEF Next, Task, Caller

\* A call that asks for a handle after a call on connection k learned that its
\* node is not the leader is never given connection k.
THEOREM RejectedConnectionNotReused == Spec => []RetryNeverReusesRejectedConnection
  <1> DEFINE Inv == TypeInv /\ ConnInv /\ OrderInv
  <1>1. Init => Inv
    BY TypeInvInit, ConnInvInit, OrderInvInit
  <1>2. Inv /\ [Next]_vars => Inv'
    BY TypeInvNext, ConnInvNext, OrderInvNext
  <1>3. Inv => RetryNeverReusesRejectedConnection
    BY DEF OrderInv
  <1> QED
    BY <1>1, <1>2, <1>3, PTL DEF Spec

-----------------------------------------------------------------------------
(* No call waits in vain *)

\* The question of a waiting call is queued, or the task is busy with it.
Attended(c) ==
    \/ state # "stopped" /\ Queued(GetChannel(c))
    \/ state \in {"select", "features"} /\ current = GetChannel(c)

WaitInv == \A c \in Calls : call[c] = "waiting" => Attended(c)

LEMMA QueuedAfterReceive ==
    ASSUME TypeInv, Receive, NEW m, Queued(m), m # Head(mailbox)
    PROVE  \E i \in 1..Len(mailbox') : mailbox'[i] = m
  <1>1. PICK i \in 1..Len(mailbox) : mailbox[i] = m
    BY DEF Queued
  <1>2. /\ Len(mailbox) \in Nat /\ Len(mailbox') = Len(mailbox) - 1 /\ Head(mailbox) = mailbox[1]
        /\ \A j \in 1..(Len(mailbox) - 1) : mailbox'[j] = mailbox[j + 1]
    BY TailMessages DEF TypeInv, TypeOK
  <1>3. i - 1 \in 1..Len(mailbox') /\ mailbox'[i - 1] = mailbox[i]
    <2>1. i - 1 \in 1..(Len(mailbox) - 1)
      BY <1>1, <1>2
    <2> QED BY <1>2, <2>1
  <1> QED BY <1>1, <1>3

LEMMA AnsweredCallRuns ==
    ASSUME TypeInv, NEW m \in Msg, NEW h, Answer(m, h), NEW c \in Calls, call'[c] = "waiting"
    PROVE  call[c] = "waiting" /\ m # GetChannel(c)
  BY MsgFields DEF Answer, GetChannel, TypeInv, TypeOK

LEMMA WaitInvNext == TypeInv /\ WaitInv /\ [Next]_vars => WaitInv'
  <1> SUFFICES ASSUME TypeInv, WaitInv, [Next]_vars, NEW c \in Calls, call'[c] = "waiting"
               PROVE  Attended(c)'
    BY DEF WaitInv
  <1> DEFINE q == GetChannel(c)
             QueuedNext == \E i \in 1..Len(mailbox') : mailbox'[i] = q
  <1>q. QueuedNext /\ state' # "stopped" => Attended(c)'
    BY DEF Attended, Queued, GetChannel
  <1>f. ASSUME call[c] = "waiting", UNCHANGED <<mailbox, current>>,
               state' \in {"select", "features"} \/ UNCHANGED state
        PROVE  Attended(c)'
    BY <1>f DEF WaitInv, Attended, Queued, GetChannel, TypeInv, TypeOK, TaskState
  <1>r. ASSUME Receive PROVE Head(mailbox) \in Msg
    BY <1>r, ReceiveTyped DEF TypeInv, TypeOK
  <1>k. ASSUME Receive, call[c] = "waiting", q # Head(mailbox), state' # "stopped"
        PROVE  Attended(c)'
    <2>1. Queued(q)
      BY <1>k DEF WaitInv, Attended, Receive
    <2> QED BY <1>k, <2>1, <1>q, QueuedAfterReceive
  <1>b. ASSUME Receive, call[c] = "waiting", current' = Head(mailbox),
               state' \in {"select", "features"}
        PROVE  Attended(c)'
    <2>1. CASE q # Head(mailbox)
      BY <1>b, <1>k, <2>1
    <2>2. CASE q = Head(mailbox)
      BY <1>b, <2>2 DEF Attended, GetChannel
    <2> QED BY <2>1, <2>2
  <1>s. ASSUME NEW e, NEW told \in {"refused", "closed"}, Stop(e, told), state # "stopped"
        PROVE  FALSE
    BY <1>s DEF Stop, ReleaseCallers, WaitInv, Attended, Queued, TypeInv, TypeOK
  <1>a. ASSUME state = "select", NEW n, AfterAttempt(n) PROVE Attended(c)'
    <2>1. CASE attempts + 1 <= max_discover_attempts
      BY <1>a, <1>f, <2>1 DEF AfterAttempt, callVars
    <2>2. CASE ~(attempts + 1 <= max_discover_attempts)
      BY <1>a, <1>s, <2>2 DEF AfterAttempt
    <2> QED BY <2>1, <2>2
  <1>1. CASE UNCHANGED vars
    BY <1>1, <1>f DEF vars, actorVars, callVars
  <1>2. CASE ReuseChannel
    BY <1>2, <1>r, <1>k, AnsweredCallRuns DEF ReuseChannel, Receive
  <1>3. CASE KeepConnection
    BY <1>3, <1>r, <1>k, AnsweredCallRuns DEF KeepConnection, Complete
  <1>4. CASE StartDiscovery
    BY <1>4, <1>b DEF StartDiscovery, callVars
  <1>5. CASE FollowRedirect
    BY <1>5, <1>b DEF FollowRedirect, callVars
  <1>6. CASE SelectHost
    BY <1>6, <1>a DEF SelectHost
  <1>7. ASSUME NEW n \in Nodes, GossipSelects(n) PROVE Attended(c)'
    BY <1>7, <1>a DEF GossipSelects
  <1>8. CASE GossipFails
    <2>1. CASE untried > 1
      BY <1>8, <1>f, <2>1 DEF GossipFails, actorVars, callVars
    <2>2. CASE ~(untried > 1)
      BY <1>8, <1>a, <2>2 DEF GossipFails
    <2> QED BY <2>1, <2>2
  <1>9. CASE Connected
    <2>1. call[c] = "waiting" /\ current # q
      BY <1>9, AnsweredCallRuns DEF Connected, Complete, TypeInv, ControlInv
    <2> QED
      BY <1>9, <1>q, <2>1 DEF Connected, Complete, WaitInv, Attended, Queued
  <1>10. CASE FeaturesFails
    BY <1>10, <1>s DEF FeaturesFails
  <1>17. CASE GossipPanics
    BY <1>17, <1>s DEF GossipPanics
  <1>11. CASE FeaturesTimeout
    BY <1>11, <1>f DEF FeaturesTimeout, callVars
  <1>12. ASSUME NEW m \in Msg, Send(m), UNCHANGED <<state, current>>, call[c] = "waiting"
         PROVE  Attended(c)'
    <2>1. CASE state # "stopped" /\ Queued(q)
      BY <1>12, <1>q, <2>1, SentMessages DEF Queued, TypeInv, TypeOK
    <2>2. CASE ~(state # "stopped" /\ Queued(q))
      BY <1>12, <2>2 DEF WaitInv, Attended, GetChannel
    <2> QED BY <2>1, <2>2
  <1>13. ASSUME NEW d \in Calls, current_selected_node(d) PROVE Attended(c)'
    <2>1. CASE d = c
      <3>1. GetChannel(c) \in Msg /\ Send(GetChannel(c)) /\ state # "stopped" /\ state' = state
        BY <1>13, <2>1, MsgBuilt DEF current_selected_node, TypeInv, TypeOK
      <3>2. QueuedNext
        BY <3>1, SentMessages DEF TypeInv, TypeOK
      <3> QED BY <1>q, <3>1, <3>2
    <2>2. CASE d # c
      BY <1>12, <1>13, <2>2, MsgBuilt DEF current_selected_node, TypeInv, TypeOK
    <2> QED BY <2>1, <2>2
  <1>14. ASSUME NEW d \in Calls,
                Cancel(d) \/ \E outcome \in {"ok", "error"} : CallEnds(d, outcome)
         PROVE  Attended(c)'
    BY <1>14, <1>f DEF Cancel, CallEnds, actorVars, TypeInv, TypeOK
  <1>15. ASSUME NEW d \in Calls, CallUnavailable(d) \/ \E l \in Nodes : CallNotLeader(d, l)
         PROVE  Attended(c)'
    <2>1. PICK kind \in ErrorKind, seed \in Nodes \cup {None} : CallFails(d, kind, seed)
      BY <1>15 DEF CallUnavailable, CallNotLeader, ErrorKind
    <2>2. CreateChannel(held[d].id, seed) \in Msg
      BY <2>1, MsgBuilt DEF CallFails, TypeInv, ControlInv, Handle
    <2> QED
      BY <1>12, <2>1, <2>2 DEF CallFails, handle_error, TypeInv, TypeOK
  <1>16. CASE Quiescent
    BY <1>16, <1>1 DEF Quiescent
  <1> QED
    BY <1>1, <1>2, <1>3, <1>4, <1>5, <1>6, <1>7, <1>8, <1>9, <1>10, <1>11, <1>13,
       <1>14, <1>15, <1>16, <1>17
       DEF Next, Task, Caller

\* A call never waits for an answer the task does not owe it: not after the task
\* stopped, and not for a question that is neither queued nor being served.
THEOREM NoCallIsStranded == Spec => []NoCallStranded
  <1>1. Init => TypeInv /\ WaitInv
    BY TypeInvInit DEF Init, WaitInv
  <1>2. TypeInv /\ WaitInv /\ [Next]_vars => (TypeInv /\ WaitInv)'
    BY TypeInvNext, WaitInvNext
  <1>3. WaitInv => NoCallStranded
    BY DEF WaitInv, Attended, NoCallStranded
  <1> QED
    BY <1>1, <1>2, <1>3, PTL DEF Spec

-----------------------------------------------------------------------------
(* The connection actor implements ChannelService: every step of Connection *)
(* is a step of the service or changes nothing the service shows.          *)

RInv == TypeInv /\ ConnInv /\ OrderInv /\ WaitInv

LEMMA RInvInvariant == Spec => []RInv
  <1>1. Init => RInv
    BY TypeInvInit, ConnInvInit, OrderInvInit DEF RInv, Init, WaitInv
  <1>2. RInv /\ [Next]_vars => RInv'
    BY TypeInvNext, ConnInvNext, OrderInvNext, WaitInvNext DEF RInv
  <1> QED
    BY <1>1, <1>2, PTL DEF Spec

LEMMA RejectedIdsMember ==
    ASSUME NEW R \in SUBSET Report, NEW k
    PROVE  k \in RejectedIds(R) <=> [id |-> k, kind |-> "NotLeaderException"] \in R
  BY DEF RejectedIds, Report

LEMMA RejectedIdsAdd ==
    ASSUME NEW R \in SUBSET Report, NEW r \in Report
    PROVE  RejectedIds(R \cup {r}) =
              IF r.kind = "NotLeaderException" THEN RejectedIds(R) \cup {r.id}
                                               ELSE RejectedIds(R)
  BY DEF RejectedIds

LEMMA InitRefines == Init => Service!Init
  BY DEF Init, Service!Init, RejectedIds

\* The steps that the calls do not see.
LEMMA HiddenStep ==
    ASSUME UNCHANGED <<handle_opt, reports, seen, call, held>>,
           state' = "stopped" <=> state = "stopped"
    PROVE  UNCHANGED Service!vars
  BY DEF Service!vars, RejectedIds

\* Whoever is answered is waiting; nobody else is touched.
LEMMA AnswerRefines ==
    ASSUME RInv, NEW m \in Msg, NEW h, Answer(m, h),
           \A c \in Calls : m = GetChannel(c) /\ call[c] = "waiting"
                                => h.id \notin RejectedIds(seen[c])
    PROVE  (\E c \in Calls : Service!Give(c, h)) \/ UNCHANGED <<call, held>>
  <1>1. CASE m.type = "GetChannel" /\ call[m.call] = "waiting"
    <2>1. m.call \in Calls /\ m = GetChannel(m.call)
      BY <1>1, MsgFields
    <2>2. Service!Give(m.call, h)
      BY <1>1, <2>1 DEF Answer, Service!Give
    <2> QED BY <2>1, <2>2
  <1>2. CASE ~(m.type = "GetChannel" /\ call[m.call] = "waiting")
    BY <1>2 DEF Answer
  <1> QED BY <1>1, <1>2

LEMMA StopRefines ==
    ASSUME RInv, state \in {"select", "features"}, NEW e,
           NEW answer \in {"refused", "closed"}, Stop(e, answer)
    PROVE  Service!Close
  <1> DEFINE told == {c \in Calls : /\ call[c] = "waiting" /\ current = GetChannel(c)
                                    /\ answer = "refused"}
  <1>1. told \in SUBSET Calls /\ (\A c, d \in told : c = d) /\ \A c \in told : call[c] = "waiting"
    BY DEF GetChannel
  <1>2. call' = [c \in Calls |-> IF call[c] # "waiting" THEN call[c]
                                 ELSE IF c \in told THEN "refused" ELSE "closed"]
    <2>1. \A c \in Calls : call[c] = "waiting" =>
                               current = GetChannel(c) \/ Queued(GetChannel(c))
      BY DEF RInv, WaitInv, Attended
    <2> QED BY <2>1 DEF Stop, ReleaseCallers
  <1>3. UNCHANGED <<handle_opt, reports, seen, held>> /\ state' = "stopped"
    BY DEF Stop, history
  <1>4. (state # "stopped") /\ (state' # "stopped") = FALSE
    BY <1>3
  <1>5. \E t \in SUBSET Calls :
        /\ \A c, d \in t : c = d
        /\ \A c \in t : call[c] = "waiting"
        /\ call' = [c \in Calls |-> IF call[c] # "waiting" THEN call[c]
                                    ELSE IF c \in t THEN "refused" ELSE "closed"]
    BY <1>1, <1>2
  <1> QED
    BY <1>3, <1>4, <1>5 DEF Service!Close, RejectedIds

LEMMA AfterAttemptRefines ==
    ASSUME RInv, state = "select", NEW n, AfterAttempt(n)
    PROVE  Service!Close \/ UNCHANGED Service!vars
  <1>1. CASE attempts + 1 <= max_discover_attempts
    BY <1>1, HiddenStep DEF AfterAttempt, callVars, history
  <1>2. CASE ~(attempts + 1 <= max_discover_attempts)
    BY <1>2, StopRefines DEF AfterAttempt
  <1> QED BY <1>1, <1>2

LEMMA NextRefines == RInv /\ [Next]_vars => [Service!Next]_(Service!vars)
  <1> SUFFICES ASSUME RInv, [Next]_vars
               PROVE  Service!Next \/ UNCHANGED Service!vars
    OBVIOUS
  <1>t. TypeOK
    BY DEF RInv, TypeInv
  <1>1. CASE UNCHANGED vars
    BY <1>1, HiddenStep DEF vars, actorVars, callVars, history
  <1>2. CASE ReuseChannel
    <2> DEFINE m == Head(mailbox)
    <2>1. /\ m \in Msg /\ Receive /\ handle_opt # None /\ handle_opt = handle
          /\ state = "recv" /\ m.type = "GetChannel"
          /\ UNCHANGED <<handle_opt, reports, seen, state>> /\ Answer(m, handle_opt)
      BY <1>2, ReceiveTyped
         DEF ReuseChannel, Receive, history, RInv, TypeInv, TypeOK, ControlInv, HandleMirrored
    <2>2. RetryNeverReusesRejectedConnection'
      BY <2>1, AnsweredInOrder DEF RInv
    <2>3. CASE call[m.call] = "waiting"
      <3>1. /\ m.call \in Calls /\ call' = [call EXCEPT ![m.call] = "running"]
            /\ held' = [held EXCEPT ![m.call] = handle_opt]
        BY <2>1, <2>3, MsgFields DEF Answer
      <3>2. handle_opt.id \notin RejectedIds(seen[m.call])
        <4>1. held'[m.call] = handle_opt
          BY <1>t, <3>1 DEF TypeOK
        <4>2. [id |-> handle_opt.id, kind |-> "NotLeaderException"] \notin seen[m.call]
          BY <2>1, <2>2, <3>1, <4>1 DEF RetryNeverReusesRejectedConnection
        <4> QED BY <1>t, <3>1, <4>2, RejectedIdsMember DEF TypeOK
      <3>3. Service!Give(m.call, handle_opt)
        BY <2>3, <3>1, <3>2 DEF Service!Give
      <3>4. Service!Grant(m.call)
        BY <2>1, <3>3 DEF Service!Grant, RejectedIds
      <3> QED BY <3>1, <3>4 DEF Service!Next
    <2>4. CASE call[m.call] # "waiting"
      BY <2>1, <2>4, HiddenStep DEF Answer
    <2> QED BY <2>3, <2>4
  <1>3. CASE KeepConnection
    <2>1. /\ Head(mailbox) \in Msg /\ handle = handle_opt /\ state = "recv" /\ handle # None
      BY <1>3, ReceiveTyped
         DEF KeepConnection, Receive, RInv, TypeInv, TypeOK, ControlInv, HandleMirrored
    <2>2. Head(mailbox).type = "CreateChannel"
      BY <1>3, <2>1, MsgFields DEF KeepConnection
    <2> QED
      BY <1>3, <2>1, <2>2, HiddenStep DEF KeepConnection, Complete, Answer, history
  <1>4. CASE StartDiscovery
    BY <1>4, HiddenStep DEF StartDiscovery, Receive, callVars, history
  <1>5. CASE FollowRedirect
    BY <1>5, HiddenStep DEF FollowRedirect, Receive, callVars, history
  <1>6. CASE SelectHost
    BY <1>6, AfterAttemptRefines DEF SelectHost, Service!Next
  <1>7. ASSUME NEW n \in Nodes, GossipSelects(n) PROVE Service!Next \/ UNCHANGED Service!vars
    BY <1>7, AfterAttemptRefines DEF GossipSelects, Service!Next
  <1>8. CASE GossipFails
    <2>1. CASE untried > 1
      BY <1>8, <2>1, HiddenStep DEF GossipFails, actorVars, callVars, history
    <2>2. CASE ~(untried > 1)
      BY <1>8, <2>2, AfterAttemptRefines DEF GossipFails, Service!Next
    <2> QED BY <2>1, <2>2
  <1>9. CASE Connected
    <2> DEFINE h == [id |-> NewId, endpoint |-> selected_node]
    <2>1. /\ h \in Handle /\ h.id = id + 1 /\ current \in Msg /\ handle = None
          /\ state # "stopped" /\ state' # "stopped" /\ handle_opt' = h
          /\ UNCHANGED <<reports, seen>> /\ Answer(current, h)
      BY <1>9 DEF Connected, Complete, NewId, Handle, history,
                  RInv, TypeInv, TypeOK, ControlInv
    <2> HIDE DEF h
    <2>2. \A c \in Calls : h.id \notin RejectedIds(seen[c])
      <3>1. \A c \in Calls : seen[c] \in SUBSET Report /\ \A r \in seen[c] : r.id <= id
        BY <1>t DEF TypeOK, RInv, ConnInv, IdInv
      <3>2. \A c \in Calls : [id |-> id + 1, kind |-> "NotLeaderException"] \notin seen[c]
        BY <1>t, <3>1 DEF TypeOK
      <3> QED BY <2>1, <3>1, <3>2, RejectedIdsMember
    <2>3. (\E c \in Calls : Service!Give(c, h)) \/ UNCHANGED <<call, held>>
      BY <2>1, <2>2, AnswerRefines
    <2>4. handle_opt # None => handle_opt.id \in RejectedIds(reports) /\ handle_opt.id < h.id
      <3> SUFFICES ASSUME handle_opt # None
                   PROVE  handle_opt.id \in RejectedIds(reports) /\ handle_opt.id < h.id
        OBVIOUS
      <3>1. handle_opt.id \in 1..id
        BY <1>t DEF TypeOK, Handle, RInv, ConnInv, IdInv
      <3>2. Reported(handle_opt.id)
        BY <2>1, <3>1 DEF RInv, ConnInv, AbandonedOnlyWhenReported
      <3> QED
        BY <1>t, <2>1, <3>1, <3>2, RejectedIdsMember DEF Reported, TypeOK
    <2>5. Service!Connect
      BY <2>1, <2>3, <2>4 DEF Service!Connect, Service!Conn, Service!Give, Handle, RejectedIds
    <2> QED BY <2>5 DEF Service!Next
  <1>10. CASE FeaturesFails
    BY <1>10, StopRefines DEF FeaturesFails, Service!Next
  <1>17. CASE GossipPanics
    BY <1>17, StopRefines DEF GossipPanics, Service!Next
  <1>11. CASE FeaturesTimeout
    BY <1>11, HiddenStep DEF FeaturesTimeout, callVars, history
  <1>12. ASSUME NEW c \in Calls, current_selected_node(c)
         PROVE  Service!Next
    <2>1. [d \in Calls |-> RejectedIds(seen[d])]' =
             [[d \in Calls |-> RejectedIds(seen[d])] EXCEPT ![c] = RejectedIds(reports)]
      BY <1>12, <1>t DEF current_selected_node, TypeOK
    <2>2. Service!Ask(c)
      BY <1>12, <2>1 DEF current_selected_node, Service!Ask, RejectedIds
    <2> QED BY <2>2 DEF Service!Next
  <1>13. ASSUME NEW c \in Calls, Cancel(c) PROVE Service!Next
    <2>1. Service!End(c, "cancelled")
      BY <1>13 DEF Cancel, Service!End, actorVars, history, RejectedIds
    <2> QED BY <2>1 DEF Service!Next
  <1>14. ASSUME NEW c \in Calls, NEW outcome \in {"ok", "error"}, CallEnds(c, outcome)
         PROVE  Service!Next
    <2>1. Service!End(c, outcome)
      BY <1>14 DEF CallEnds, Service!End, actorVars, history, RejectedIds
    <2> QED BY <2>1 DEF Service!Next
  <1>15. ASSUME NEW c \in Calls, NEW kind \in ErrorKind, NEW seed, CallFails(c, kind, seed)
         PROVE  Service!Next
    <2> DEFINE r == [id |-> held[c].id, kind |-> kind]
    <2>1. /\ r \in Report /\ reports' = reports \cup {r} /\ call[c] = "running"
          /\ call' = [call EXCEPT ![c] = "error"]
          /\ UNCHANGED <<handle_opt, state, held, seen>>
      BY <1>15 DEF CallFails, handle_error, RInv, TypeInv, ControlInv, Handle, Report
    <2>2. r.id = held[c].id /\ r.kind = kind
      OBVIOUS
    <2> HIDE DEF r
    <2>3. RejectedIds(reports') = IF kind = "NotLeaderException"
                                  THEN RejectedIds(reports) \cup {held[c].id}
                                  ELSE RejectedIds(reports)
      BY <1>t, <2>1, <2>2, RejectedIdsAdd DEF TypeOK
    <2>4. CASE kind = "NotLeaderException"
      <3>1. Service!Reject(c)
        BY <2>1, <2>3, <2>4 DEF Service!Reject, RejectedIds
      <3> QED BY <3>1 DEF Service!Next
    <2>5. CASE kind # "NotLeaderException"
      <3>1. Service!End(c, "error")
        BY <2>1, <2>3, <2>5 DEF Service!End, RejectedIds
      <3> QED BY <3>1 DEF Service!Next
    <2> QED BY <2>4, <2>5
  <1>16. CASE Quiescent
    BY <1>16, <1>1 DEF Quiescent
  <1> QED
    BY <1>1, <1>2, <1>3, <1>4, <1>5, <1>6, <1>7, <1>8, <1>9, <1>10, <1>11, <1>12,
       <1>13, <1>14, <1>15, <1>16, <1>17
       DEF Next, Task, Caller, CallUnavailable, CallNotLeader, ErrorKind

\* Seen from the calls, the actor with its mailbox, discovery and caches is the
\* ChannelService.
THEOREM ConnectionImplementsChannelService == Spec => ImplementsChannelService
  <1>1. Init => Service!Init
    BY InitRefines
  <1>2. RInv /\ [Next]_vars => [Service!Next]_(Service!vars)
    BY NextRefines
  <1> QED
    BY <1>1, <1>2, RInvInvariant, PTL DEF Spec, ImplementsChannelService, Service!Spec
=============================================================================
