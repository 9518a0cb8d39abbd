----------------------------- MODULE MCCommand ------------------------------
(***************************************************************************)
(* An instance of Command for TLC: the whole catalogue, on nodes of every age, *)
(* and one command of each kind by two tasks at the same time.               *)
(***************************************************************************)
EXTENDS Command

Group(name, features) == Method("persistent", name, features)
OtherServices == {Method("projections", "create", {"all"}), Method("users", "list", {})}
Management    == {Group(name, {}) : name \in {"list", "getinfo", "replayparked", "restartsubsystem"}}

Node(methods, semver) == [methods |-> methods \cup OtherServices, semver |-> semver]

NewNode == Node({Group("create", {"stream", "all"}), Method("streams", "batchappend", {})}
                    \cup Management, <<22, 6, 0>>)

\* Nodes that announce nothing, groups on $all, some of the management of groups,
\* and everything; and one whose version is no version.
SomeServers ==
    {Unimplemented, NewNode, Node(Management, <<22, Garbage>>),
     Node({Group("create", {"all"})}, <<21, 6>>),
     Node({Group("create", {"stream"}), Group("list", {}), Group("replayparked", {}),
           Method("streams", "batchappend", {})}, <<21, 10, 0, Garbage>>)}

\* A command that an old node refuses, one with two RPCs, and one whose failures are
\* reported whatever they are.
SomeCommands == {subscribe_to_persistent_subscription(TRUE), create_projection(TRUE), statistics}

\* A second command is only issued if both are among these, with default options, and
\* each node is a new or an old one: the rest of the catalogue runs alone.  It does
\* not matter which task is the first.
Mixes(t) == caller[t].command \in SomeCommands \cup {None} /\ caller[t].options = DefaultOptions

IssueFirst(t) == issued = 0 /\ t = (CHOOSE u \in Tasks : TRUE) /\ Issue(t)

IssueSecond(t) ==
    /\ issued = 1
    /\ \A k \in Connections : node[k] \in {Unimplemented, NewNode}
    /\ \A u \in Tasks : Mixes(u)
    /\ Issue(t)
    /\ Mixes(t)'

TogetherNext ==
    \/ Reconnect
    \/ \E t \in Tasks : IssueFirst(t) \/ IssueSecond(t) \/ Step(t)
    \/ Rest

TogetherSpec == Init /\ [][TogetherNext]_vars /\ Fairness
=============================================================================
