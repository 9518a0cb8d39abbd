--------------------------- MODULE ServerFeatures ---------------------------
(***************************************************************************)
(* What a client makes of the methods and the version that a node announces *)
(* when it is connected to (kurrentdb/src/server_features.rs).              *)
(***************************************************************************)
EXTENDS Integers, Sequences

\* The flags of Features, as sets; MANAGEMENT is the union of its parts.
BATCH_APPEND == {"BATCH_APPEND"}
TO_ALL       == {"TO_ALL"}
PERSISTENT_SUBSCRIPTION_MANAGEMENT == {"LIST", "REPLAY", "RESTART_SUBSYSTEM", "GET_INFO"}

\* A method of a service, with the extensions of it that the node has.  The text
\* of the version is what is left between its dots when all but its digits is
\* filtered out: a number, or Garbage where nothing that parses is left.
Method(service, name, features) == [service |-> service, name |-> name, features |-> features]

Garbage == -1

\* A node too old to have the endpoint announces nothing; the client gives it the
\* default ServerInfo.
Unimplemented == [methods |-> {}, semver |-> <<>>]

\* At most three components count, and the missing ones are 0.
InvalidSemver(semver) == \E i \in 1..Len(semver) : i <= 3 /\ semver[i] = Garbage
ServerVersion(semver) == [i \in 1..3 |-> IF i <= Len(semver) THEN semver[i] ELSE 0]

FeatureOf(m) ==
    CASE m.service = "streams" /\ m.name = "batchappend"         -> BATCH_APPEND
      [] m.service = "persistent" /\ m.name = "create"           ->
             IF "all" \in m.features THEN TO_ALL ELSE {}
      [] m.service = "persistent" /\ m.name = "getinfo"          -> {"GET_INFO"}
      [] m.service = "persistent" /\ m.name = "replayparked"     -> {"REPLAY"}
      [] m.service = "persistent" /\ m.name = "list"             -> {"LIST"}
      [] m.service = "persistent" /\ m.name = "restartsubsystem" -> {"RESTART_SUBSYSTEM"}
      [] OTHER                                                   -> {}

\* The ServerInfo of a node; a version that does not parse is a failure of the
\* request, whatever the methods are.
supported_methods(server) ==
    [version |-> ServerVersion(server.semver),
     features |-> UNION {FeatureOf(m) : m \in server.methods}]

contains_features(info, feats) == feats \subseteq info.features
=============================================================================
