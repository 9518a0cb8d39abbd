------------------------ MODULE NodeSelectionProofs ------------------------
(***************************************************************************)
(* Proofs about NodeSelection: for any candidates, any gossip answers of    *)
(* any length and any outcome of the coin, the node selected is fit to      *)
(* serve and of the preferred kind if there is one, and one is selected if   *)
(* any answer named one.                                                   *)
(***************************************************************************)
EXTENDS NodeSelection, TLAPS

\* The fold has looked at the first n members: the best so far is one of them
\* and fit, there is one if any of them is fit, and it matches the preference if
\* any fit one does.
FoldedTo(n) ==
    /\ best # NoMember => \E j \in 1..n : j <= Len(members) /\ members[j] = best /\ Fit(best)
    /\ \A j \in 1..n : Fit(members[j]) => best # NoMember
    /\ \A j \in 1..n : Fit(members[j]) /\ match_preference(members[j].state)
                           => match_preference(best.state)

FoldInv ==
    /\ stage = "fold" => /\ index \in 1..(Len(members) + 1)
                         /\ FoldedTo(index - 1)
    /\ stage = "some" => best # NoMember /\ FoldedTo(Len(members))

LEMMA FoldInit == SelectionInit => TypeOK /\ FoldInv
  <1> SUFFICES ASSUME SelectionInit PROVE TypeOK /\ FoldInv
    OBVIOUS
  <1>1. heard \in BOOLEAN
    BY Zenon DEF SelectionInit
  <1> QED BY <1>1 DEF SelectionInit, TypeOK, FoldInv

LEMMA AnswersAreSequences ==
    \A g \in Answers : (\A i \in 1..Len(g) : WellFormed(g[i]))
        => g \in Seq({m \in WireMembers : WellFormed(m)})
  <1> SUFFICES ASSUME NEW n \in 0..MaxMembers, NEW g \in [1..n -> WireMembers],
                      \A i \in 1..Len(g) : WellFormed(g[i])
               PROVE  g \in Seq({m \in WireMembers : WellFormed(m)})
    BY DEF Answers
  <1>1. n \in Nat /\ g \in Seq(WireMembers)
    BY MaxMembersAssumption
  <1> HIDE DEF WellFormed
  <1>2. Len(g) = n
    BY <1>1
  <1>3. \A i \in 1..n : g[i] \in {m \in WireMembers : WellFormed(m)}
    BY <1>2
  <1>4. g \in [1..n -> {m \in WireMembers : WellFormed(m)}]
    BY <1>3
  <1> QED BY <1>1, <1>4

\* What min_by keeps is one of the two, and matches if either does.
LEMMA KeepChooses ==
    ASSUME NEW a, NEW b, NEW c \in Keep(a, b)
    PROVE  /\ c = a \/ c = b
           /\ match_preference(a.state) \/ match_preference(b.state)
                  => match_preference(c.state)
  BY DEF Keep, match_preference

\* One step of min_by.
LEMMA FoldStep ==
    ASSUME TypeOK, FoldInv, FoldMember
    PROVE  best' \in WireMembers \cup {NoMember} /\ FoldInv'
  <1> DEFINE m == members[index]
  <1>1. /\ index \in 1..Len(members) /\ index' = index + 1 /\ m \in WireMembers
        /\ UNCHANGED <<preference, members, stage>> /\ stage = "fold"
        /\ FoldedTo(index - 1) /\ Len(members) \in Nat
        /\ best \in WireMembers \cup {NoMember}
    BY DEF FoldMember, TypeOK, FoldInv
  <1>2. \A j \in 1..index : j = index \/ j \in 1..(index - 1)
    BY <1>1
  <1>n. m # NoMember /\ (best # NoMember => best \in WireMembers)
    BY <1>1, NoMemberAssumption, MembersAssumption
  <1> DEFINE Matches(x) == match_preference(x.state)
  <1>m. \A x : match_preference(x)' = match_preference(x)
    BY <1>1 DEF match_preference
  \* FoldedTo(index), with the next best named b
  <1> DEFINE Goal(b) ==
        /\ b \in WireMembers \cup {NoMember}
        /\ b # NoMember => \E j \in 1..index : j <= Len(members) /\ members[j] = b /\ Fit(b)
        /\ \A j \in 1..index : Fit(members[j]) => b # NoMember
        /\ \A j \in 1..index : Fit(members[j]) /\ Matches(members[j]) => Matches(b)
  <1>3. ASSUME ~Fit(m), best' = best PROVE Goal(best')
    <2> HIDE DEF Matches
    <2> QED BY <1>1, <1>2, <1>3 DEF FoldedTo, Matches
  <1>4. ASSUME Fit(m), best = NoMember, best' = m PROVE Goal(best')
    <2>1. \A j \in 1..(index - 1) : ~Fit(members[j])
      BY <1>1, <1>4 DEF FoldedTo
    <2> HIDE DEF Matches
    <2> QED BY <1>1, <1>2, <1>4, <1>n, <2>1
  <1>5. ASSUME Fit(m), best # NoMember, best' \in Keep(best, m) PROVE Goal(best')
    <2>1. /\ best' = best \/ best' = m
          /\ Matches(best) \/ Matches(m) => Matches(best')
      BY <1>5, KeepChooses
    <2>2. \E j \in 1..(index - 1) : j <= Len(members) /\ members[j] = best /\ Fit(best)
      BY <1>1, <1>5 DEF FoldedTo
    <2>3. \A j \in 1..(index - 1) : Fit(members[j]) /\ Matches(members[j]) => Matches(best)
      BY <1>1 DEF FoldedTo
    <2> HIDE DEF Matches
    <2> QED BY <1>1, <1>2, <1>5, <1>n, <2>1, <2>2, <2>3
  <1>6. Goal(best')
    BY <1>3, <1>4, <1>5 DEF FoldMember
  <1>8. index' - 1 = index /\ index' \in 1..(Len(members') + 1)
    BY <1>1
  <1>9. (FoldedTo(index - 1))'
    <2> HIDE DEF Goal
    <2>1. /\ best' # NoMember => \E j \in 1..index : j <= Len(members) /\ members[j] = best' /\ Fit(best')
          /\ \A j \in 1..index : Fit(members[j]) => best' # NoMember
      BY <1>6 DEF Goal
    <2>2. \A j \in 1..index : Fit(members[j]) /\ match_preference(members[j].state)
                           => match_preference(best'.state)
      BY <1>6 DEF Goal
    <2> QED BY <1>1, <1>8, <2>1, <2>2 DEF FoldedTo, Fit, allowed_states, match_preference
  <1> QED BY <1>1, <1>6, <1>8, <1>9 DEF FoldInv

LEMMA FoldInvariant == TypeOK /\ FoldInv /\ [SelectionNext]_selectionVars => (TypeOK /\ FoldInv)'
  <1> SUFFICES ASSUME TypeOK, FoldInv, [SelectionNext]_selectionVars PROVE (TypeOK /\ FoldInv)'
    OBVIOUS
  <1>1. CASE UNCHANGED selectionVars
    BY <1>1 DEF selectionVars, TypeOK, FoldInv, FoldedTo, Fit, allowed_states, match_preference
  <1>2. ASSUME NEW c \in Candidates, GossipFails(c) PROVE (TypeOK /\ FoldInv)'
    BY <1>2 DEF GossipFails, TypeOK, FoldInv
  <1>3. ASSUME NEW c \in Candidates, GossipRead(c) PROVE (TypeOK /\ FoldInv)'
    <2>1. members' \in Seq({m \in WireMembers : WellFormed(m)})
      BY <1>3, AnswersAreSequences DEF GossipRead
    <2>2. heard' \in BOOLEAN
      BY <1>3, Zenon DEF GossipRead
    <2>3. TypeOK'
      BY <1>3, <2>1, <2>2 DEF GossipRead, TypeOK
    <2>4. index' = 1 /\ best' = NoMember /\ stage' = "fold" /\ Len(members') \in Nat
      BY <1>3, <2>1 DEF GossipRead
    <2>5. FoldInv'
      BY <2>4 DEF FoldInv, FoldedTo
    <2> QED BY <2>3, <2>5
  <1>4. CASE FoldMember
    <2>1. best' \in WireMembers \cup {NoMember} /\ FoldInv'
      BY <1>4, FoldStep
    <2>2. TypeOK'
      BY <1>4, <2>1 DEF FoldMember, TypeOK
    <2> QED BY <2>1, <2>2
  <1>5. CASE FoldEnds
    <2>1. TypeOK'
      BY <1>5 DEF FoldEnds, TypeOK
    <2>2. stage = "fold" /\ index - 1 = Len(members)
      BY <1>5 DEF FoldEnds, TypeOK, FoldInv
    <2>3. FoldedTo(Len(members))
      BY <2>2 DEF FoldInv
    <2>4. UNCHANGED <<preference, members, best>>
          /\ (stage' = "ask" \/ (best # NoMember /\ stage' = "some"))
      BY <1>5 DEF FoldEnds
    <2>5. FoldInv'
      BY <2>3, <2>4 DEF FoldInv, FoldedTo, Fit, allowed_states, match_preference
    <2> QED BY <2>1, <2>5
  <1>6. CASE Exhausted
    BY <1>6 DEF Exhausted, TypeOK, FoldInv
  <1>7. CASE SelectionDone
    BY <1>1, <1>7 DEF SelectionDone
  <1> QED BY <1>1, <1>2, <1>3, <1>4, <1>5, <1>6, <1>7 DEF SelectionNext

\* node_selection answers with a member of a gossip answer that is alive and
\* neither a manager nor leaving (determine_best_node, allowed_states).
THEOREM SelectedNodeIsFit == SelectionSpec => [](TypeOK /\ SelectedIsFit)
  <1>1. TypeOK /\ FoldInv => SelectedIsFit
    BY DEF TypeOK, FoldInv, FoldedTo, SelectedIsFit, Fit, allowed_states
  <1> QED BY <1>1, FoldInit, FoldInvariant, PTL DEF SelectionSpec

\* A member of the preferred kind is never passed over for one that is not,
\* whatever the order of the members and the coin (determine_best_node, min_by).
THEOREM PreferredNodeIsSelected == SelectionSpec => []PreferenceHonoured
  <1>1. TypeOK /\ FoldInv => PreferenceHonoured
    BY DEF TypeOK, FoldInv, FoldedTo, PreferenceHonoured, FitMembers
  <1> QED BY <1>1, FoldInit, FoldInvariant, PTL DEF SelectionSpec

-----------------------------------------------------------------------------
(* Nothing fit is passed over *)

\* What was heard of is in the answer being looked at: the selection never goes on
\* to another candidate with a fit member behind it.
HeardInv ==
    /\ stage = "ask" => ~heard
    /\ stage = "fold" /\ heard => \E j \in 1..Len(members) : Fit(members[j])
    /\ NodeFoundIfAny

LEMMA HeardInvariant ==
    TypeOK /\ FoldInv /\ HeardInv /\ [SelectionNext]_selectionVars => HeardInv'
  <1> SUFFICES ASSUME TypeOK, FoldInv, HeardInv, [SelectionNext]_selectionVars PROVE HeardInv'
    OBVIOUS
  <1> USE DEF HeardInv, NodeFoundIfAny
  <1>1. CASE UNCHANGED selectionVars
    BY <1>1 DEF selectionVars, Fit, allowed_states
  <1>2. ASSUME NEW c \in Candidates, GossipFails(c) PROVE HeardInv'
    BY <1>2 DEF GossipFails
  <1>3. ASSUME NEW c \in Candidates, GossipRead(c) PROVE HeardInv'
    BY <1>3 DEF GossipRead, Fit, allowed_states
  <1>4. CASE FoldMember
    BY <1>4 DEF FoldMember, Fit, allowed_states
  <1>5. CASE FoldEnds
    <2>1. stage = "fold" /\ index - 1 = Len(members) /\ UNCHANGED <<heard, untried>>
      BY <1>5 DEF FoldEnds, TypeOK, FoldInv
    <2>2. (\E j \in 1..Len(members) : Fit(members[j])) => best # NoMember
      BY <2>1 DEF FoldInv, FoldedTo
    <2>3. best = NoMember => ~heard
      BY <2>1, <2>2
    <2> QED BY <1>5, <2>1, <2>3 DEF FoldEnds
  <1>6. CASE Exhausted
    BY <1>6 DEF Exhausted
  <1>7. CASE SelectionDone
    BY <1>1, <1>7 DEF SelectionDone
  <1> QED BY <1>1, <1>2, <1>3, <1>4, <1>5, <1>6, <1>7 DEF SelectionNext

\* node_selection fails only after it has asked every candidate, and only if no
\* answer named a node fit to serve: a silent, failing or useless candidate costs
\* no other candidate its turn (node_selection).
THEOREM FitNodeIsFound == SelectionSpec => []NodeFoundIfAny
  <1>1. SelectionInit => HeardInv
    BY DEF SelectionInit, HeardInv, NodeFoundIfAny
  <1>2. HeardInv => NodeFoundIfAny
    BY DEF HeardInv
  <1> QED BY <1>1, <1>2, FoldInit, FoldInvariant, HeardInvariant, PTL DEF SelectionSpec
=============================================================================
