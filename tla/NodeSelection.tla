--------------------------- MODULE NodeSelection ---------------------------
(***************************************************************************)
(* Choosing the node to connect to (node_selection and determine_best_node  *)
(* in kurrentdb/src/grpc.rs, gossip::read in operations/gossip.rs).         *)
(*                                                                         *)
(* The candidates are asked for gossip one after the other, in random       *)
(* order.  The members of a well-formed answer are filtered and folded, the *)
(* way Iterator::min_by does, into the best of them; a candidate that does  *)
(* not answer in time, or names no node fit to serve, is passed over.       *)
(*                                                                         *)
(* This is the inside of GossipSelects and GossipFails of Connection.       *)
(***************************************************************************)
EXTENDS Naturals, Sequences

CONSTANTS
    Candidates,    \* the seeds, or the DNS name
    WireMembers,   \* what a gossip answer may say of a member
    MaxMembers,    \* bound: members of one gossip answer
    NoMember       \* Option::None, for a member

NodePreference == {"Leader", "Follower", "Random", "ReadOnlyReplica"}

VNodeState == {"Initializing", "DiscoverLeader", "Unknown", "PreReplica", "CatchingUp",
               "Clone", "Follower", "PreLeader", "Leader", "Manager", "ShuttingDown",
               "Shutdown", "ReadOnlyLeaderLess", "PreReadOnlyReplica", "ReadOnlyReplica",
               "ResigningLeader"}

\* A member on the wire: its state may be a number without a name, and its
\* endpoint may be missing.
WireMember == [state : VNodeState \cup {"OutOfRange"}, has_endpoint : BOOLEAN,
               is_alive : BOOLEAN]

ASSUME MembersAssumption == WireMembers \subseteq WireMember
ASSUME MaxMembersAssumption == MaxMembers \in Nat
ASSUME NoMemberAssumption == NoMember \notin WireMember

\* VNodeState::from_i32 and the endpoint check: one malformed member makes the
\* whole answer an error.
WellFormed(m) == m.state # "OutOfRange" /\ m.has_endpoint

VARIABLES
    preference,  \* ClientSettings::preference
    untried,     \* the candidates not asked yet
    members,     \* the gossip answer being looked at
    index,       \* min_by: the next member
    best,        \* min_by: the best member so far
    stage,       \* "ask", "fold", "some" (selected best) or "none"
    heard        \* history: some answer so far named a member fit to serve

selectionVars == <<preference, untried, members, index, best, stage, heard>>

TypeOK ==
    /\ preference \in NodePreference
    /\ untried \subseteq Candidates
    /\ members \in Seq({m \in WireMembers : WellFormed(m)})
    /\ index \in Nat
    /\ best \in WireMembers \cup {NoMember}
    /\ stage \in {"ask", "fold", "some", "none"}
    /\ heard \in BOOLEAN

SelectionInit ==
    /\ preference \in NodePreference
    /\ untried = Candidates
    /\ members = <<>>
    /\ index = 1
    /\ best = NoMember
    /\ stage = "ask"
    /\ heard = FALSE

-----------------------------------------------------------------------------
(* The members that determine_best_node considers *)

\* Mutant of allowed_states: a node that is shutting down is allowed.
allowed_states_Leaving(s) == s \notin {"Manager", "Shutdown"}

allowed_states(s) == s \notin {"Manager", "ShuttingDown", "Shutdown"}

Fit(m) == m.is_alive /\ allowed_states(m.state)

-----------------------------------------------------------------------------
(* gossip::read *)

Answers == UNION {[1..n -> WireMembers] : n \in 0..MaxMembers}

\* A candidate times out, answers with an error, or with a malformed member.
GossipFails(c) ==
    /\ stage = "ask"
    /\ c \in untried
    /\ untried' = untried \ {c}
    /\ UNCHANGED <<preference, members, index, best, stage, heard>>

GossipRead(c) ==
    /\ stage = "ask"
    /\ c \in untried
    /\ untried' = untried \ {c}
    /\ members' \in {g \in Answers : \A i \in 1..Len(g) : WellFormed(g[i])}
    /\ index' = 1
    /\ best' = NoMember
    /\ stage' = "fold"
    /\ heard' = (heard \/ \E i \in 1..Len(members') : Fit(members'[i]))
    /\ UNCHANGED preference

-----------------------------------------------------------------------------
(* determine_best_node *)

match_preference(s) ==
    \/ preference = "Leader" /\ s = "Leader"
    \/ preference = "Follower" /\ s = "Follower"
    \/ /\ preference = "ReadOnlyReplica"
       /\ s \in {"ReadOnlyReplica", "ReadOnlyLeaderLess", "PreReadOnlyReplica"}

\* Mutant of Keep: two members that both match are not told apart from two that
\* do not, and a match in the second place loses.
Keep_First(a, b) ==
    IF preference = "Random" \/ match_preference(a.state) THEN {a} ELSE {a, b}

\* What min_by keeps of the best so far and the next member: the second one on
\* Ordering::Greater.  A coin decides between equals, except that of two members
\* that do not match the later one is kept.
Keep(a, b) ==
    IF preference = "Random" \/ (match_preference(a.state) /\ match_preference(b.state))
    THEN {a, b}
    ELSE IF match_preference(a.state) THEN {a} ELSE {b}

FoldMember ==
    /\ stage = "fold"
    /\ index <= Len(members)
    /\ index' = index + 1
    /\ \/ ~Fit(members[index]) /\ UNCHANGED best
       \/ /\ Fit(members[index])
          /\ best' \in IF best = NoMember THEN {members[index]} ELSE Keep(best, members[index])
    /\ UNCHANGED <<preference, untried, members, stage, heard>>

\* Mutant of FoldEnds: an answer without a fit member ends the selection.
FoldEnds_Final ==
    /\ stage = "fold"
    /\ index > Len(members)
    /\ stage' = IF best = NoMember THEN "none" ELSE "some"
    /\ UNCHANGED <<preference, untried, members, index, best, heard>>

\* The selection ends with the best member; without one, the next candidate is
\* asked.
FoldEnds ==
    /\ stage = "fold"
    /\ index > Len(members)
    /\ stage' = IF best = NoMember THEN "ask" ELSE "some"
    /\ UNCHANGED <<preference, untried, members, index, best, heard>>

\* Every candidate was asked in vain.
Exhausted ==
    /\ stage = "ask"
    /\ untried = {}
    /\ stage' = "none"
    /\ UNCHANGED <<preference, untried, members, index, best, heard>>

SelectionDone == stage \in {"some", "none"} /\ UNCHANGED selectionVars

SelectionNext ==
    \/ \E c \in Candidates : GossipFails(c) \/ GossipRead(c)
    \/ FoldMember \/ FoldEnds \/ Exhausted
    \/ SelectionDone

SelectionSpec == SelectionInit /\ [][SelectionNext]_selectionVars

-----------------------------------------------------------------------------
(* Properties *)

FitMembers == {members[i] : i \in {j \in 1..Len(members) : Fit(members[j])}}

\* The node the client connects to is one of the answer it was chosen from, alive
\* and neither a manager nor leaving the cluster.
SelectedIsFit ==
    stage = "some" =>
        /\ \E i \in 1..Len(members) : members[i] = best
        /\ best.is_alive
        /\ best.state \notin {"Manager", "ShuttingDown", "Shutdown"}

\* If the answer names a fit node of the preferred kind, such a node is selected,
\* wherever it is in the answer and whatever the coin says.
PreferenceHonoured ==
    stage = "some" /\ (\E m \in FitMembers : match_preference(m.state))
        => match_preference(best.state)

\* The selection fails only after every candidate was asked and no answer named
\* a node fit to serve.
NodeFoundIfAny == stage = "none" => untried = {} /\ ~heard
=============================================================================
