---------------------------- MODULE MCAlgorithms ----------------------------
(***************************************************************************)
(* One instance for the sequential algorithms of the client: Settings, with  *)
(* the strings of MCSettings, NodeSelection and ParseValue.  They share no   *)
(* state, so a behaviour is a run of one of them, its algorithm, while the    *)
(* others rest in their initial states.                                     *)
(***************************************************************************)
EXTENDS MCSettings, NodeSelection, ParseValue

VARIABLE algorithm

-----------------------------------------------------------------------------
(* NodeSelection: answers with members that the code tells apart *)

Members(states) == [state : states, has_endpoint : {TRUE}, is_alive : BOOLEAN]

MalformedMembers ==
    {[state |-> "OutOfRange", has_endpoint |-> TRUE, is_alive |-> TRUE],
     [state |-> "Leader", has_endpoint |-> FALSE, is_alive |-> TRUE]}

\* One state of every kind that the code tells apart: fit or not, and of the
\* kind that each preference asks for.
SomeMembers ==
    Members({"Leader", "Follower", "ReadOnlyReplica", "CatchingUp", "ShuttingDown"}) \cup MalformedMembers

-----------------------------------------------------------------------------
(* ParseValue: every value of a bounded size, and the recursive definition of what *)
(* the conversion computes                                                        *)

NotANumber == "NaN"

Leaves == {[kind |-> "none"], [kind |-> "scalar", scalar |-> "1"],
           [kind |-> "scalar", scalar |-> NotANumber]}

ListsOf(S, n) == {[kind |-> "list", items |-> s] : s \in UNION {[1..k -> S] : k \in 0..n}}

FieldNames == <<"a", "b", "c">>

StructsOf(S, n) ==
    {[kind |-> "struct", fields |-> [i \in DOMAIN s |-> [name |-> FieldNames[i], value |-> s[i]]]] :
        s \in UNION {[1..k -> S] : k \in 0..n}}

Grow(S, n) == S \cup ListsOf(S, n) \cup StructsOf(S, n)

\* Three levels, at most three values in the innermost and one or two outside.
Shallow == Grow(Leaves, 2)
Deep == Grow(Shallow, 2) \cup Grow(Leaves, 3) \cup Grow(Grow(Grow(Leaves, 1), 1), 1)

RECURSIVE JsonOf(_)
JsonOf(v) ==
    CASE v.kind = "none"   -> Null
      [] v.kind = "scalar" -> JsonScalar(v.scalar)
      [] v.kind = "list"   -> JsonArray([i \in DOMAIN v.items |-> JsonOf(v.items[i])])
      [] v.kind = "struct" -> JsonObject([i \in DOMAIN v.fields |->
                                 [name |-> v.fields[i].name, value |-> JsonOf(v.fields[i].value)]])

-----------------------------------------------------------------------------
AString == CHOOSE c \in Strings : TRUE

AlgorithmsInit ==
    /\ algorithm \in {"from_str", "node_selection", "parse_value"}
    /\ algorithm # "parse_value" => value = [kind |-> "none"]
    /\ ParseInit
    /\ algorithm # "node_selection" => preference = "Leader"
    /\ SelectionInit
    /\ algorithm # "from_str" => string = AString
    /\ Init

AlgorithmsNext ==
    /\ UNCHANGED algorithm
    /\ \/ algorithm = "from_str" /\ Next /\ UNCHANGED <<selectionVars, parseVars>>
       \/ algorithm = "node_selection" /\ SelectionNext /\ UNCHANGED <<vars, parseVars>>
       \/ algorithm = "parse_value" /\ ParseNext /\ UNCHANGED <<vars, selectionVars>>

AlgorithmsSpec ==
    AlgorithmsInit /\ [][AlgorithmsNext]_<<algorithm, vars, selectionVars, parseVars>>
=============================================================================
