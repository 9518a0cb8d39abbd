------------------------------ MODULE Settings ------------------------------
(***************************************************************************)
(* ClientSettings::from_str: how a connection string becomes settings      *)
(* (kurrentdb/src/grpc.rs).                                                *)
(*                                                                         *)
(* A connection string is the record of its parts:                         *)
(*   scheme://user@seed,seed,...path?name=value&name=value...              *)
(* The URL parser, a library, only knows strings with one port, at the end  *)
(* of the seeds; it takes several seeds without a port for one host.  For   *)
(* the others the code replaces every comma by a slash and parses again, so *)
(* that the seeds after the first become the path.                          *)
(***************************************************************************)
EXTENDS Integers, Sequences, FiniteSets

CONSTANTS
    Strings,     \* the connection strings
    Texts,       \* the values of textual parameters
    Slashed,     \* Slashed[t]: the text t with every comma replaced by a slash
    KeepAlive,   \* KEEP_ALIVE_INTERVAL_IN_MS and KEEP_ALIVE_TIMEOUT_IN_MS
    MaxDuration, \* Duration::from_millis(u64::MAX)
    Unparsable,  \* a value or a port that cannot be parsed
    Excess,      \* what follows the host holds another colon, as in "h:1:2"
    Blank,       \* the empty host name
    Rest,        \* a path other than "/", "Rest" being its only segment
    None         \* Option::None

VARIABLES
    string,      \* the connection string
    phase,       \* "from_str", "parse_from_url", "query", "ok" or "error"
    rewritten,   \* the second parse, after the replacement, was used
    result,      \* the settings built so far
    dealt        \* the number of parameters dealt with

vars == <<string, phase, rewritten, result, dealt>>

DefaultPort == 2113

SUPPORTED_PROTOCOLS == {"esdb", "kurrentdb", "kurrent", "kdb"}

NodePreferenceNames == {"leader", "follower", "random", "readonlyreplica"}

(* The names of the parameters, in lower case as the code compares them. *)
Unsigned  == {"maxdiscoverattempts", "discoveryinterval", "gossiptimeout"}
Booleans  == {"tls", "tlsverifycert"}
KeepAlives == {"keepaliveinterval", "keepalivetimeout"}
Signed    == KeepAlives \cup {"defaultdeadline"}
Textual   == {"connectionname", "usercertfile", "userkeyfile", "tlscafile"}
Names     == Unsigned \cup Booleans \cup Signed \cup Textual \cup {"nodepreference"}

IsSequence(s) == s \in Seq({s[i] : i \in DOMAIN s})

\* A missing port or file name is none that is written down, and replacing commas in
\* a text gives a text.
ASSUME ValuesAssumption ==
    /\ KeepAlive \in Nat
    /\ Slashed \in [Texts -> Texts]
    /\ None \notin Texts \cup {Unparsable, Excess}

\* A parameter that is read as a number, or as a preference, is one, or does not
\* parse.
ASSUME StringsAssumption ==
    \A c \in Strings :
        /\ IsSequence(c.seeds) /\ IsSequence(c.params)
        /\ \A i \in DOMAIN c.params :
              LET p == c.params[i] IN
              /\ p.name \in Unsigned \cup Signed /\ p.value # Unparsable => p.value \in Int
              /\ p.name \in Textual => p.value \in Texts
              /\ p.name = "nodepreference" => p.value \in NodePreferenceNames \cup {Unparsable}

(***************************************************************************)
(* Default for ClientSettings.  The fields that a parameter sets are one    *)
(* function, "set".                                                        *)
(***************************************************************************)
DefaultSet ==
    [name \in Names |->
        IF name = "maxdiscoverattempts" THEN 3
        ELSE IF name = "discoveryinterval" THEN 500
        ELSE IF name = "gossiptimeout" THEN 3000
        ELSE IF name \in Booleans THEN TRUE
        ELSE IF name = "nodepreference" THEN "leader"
        ELSE IF name \in KeepAlives THEN KeepAlive
        ELSE None]

Default == [dns_discover |-> FALSE, default_user_name |-> None, hosts |-> <<>>, set |-> DefaultSet]

Init ==
    /\ string \in Strings
    /\ phase = "from_str"
    /\ rewritten = FALSE
    /\ result = Default
    /\ dealt = 0

Fail == phase' = "error" /\ UNCHANGED <<rewritten, result, dealt>>

-----------------------------------------------------------------------------
(* from_str *)

HasPort(seed) == seed.port # None

Malformed(seed) == seed.port \in {Unparsable, Excess}

\* url::ParseError::InvalidPort: what follows the first colon is no number.
InvalidPort(c) ==
    \E i \in DOMAIN c.seeds : HasPort(c.seeds[i]) /\ (i < Len(c.seeds) \/ Malformed(c.seeds[i]))

Endpoint(seed) ==
    [host |-> seed.host, port |-> IF HasPort(seed) THEN seed.port ELSE DefaultPort]

Endpoints(seeds) == [i \in DOMAIN seeds |-> Endpoint(seeds[i])]

Seed(host) == [host |-> host, port |-> None]

\* The segments that the path of the string adds to the seeds once these have
\* become segments themselves.
PathSegments(c) ==
    IF c.path = "/" THEN <<Seed(Blank)>> ELSE IF c.path = Rest THEN <<Seed(Rest)>> ELSE <<>>

FromUrl ==
    /\ phase = "from_str"
    /\ ~InvalidPort(string)
    /\ phase' = "parse_from_url"
    /\ UNCHANGED <<string, rewritten, result, dealt>>

\* Mutant of Rewrite: the first seed, the host of the URL, is forgotten.
Rewrite_NoFirst ==
    LET segments == Tail(string.seeds) \o PathSegments(string) IN
    /\ phase = "from_str"
    /\ InvalidPort(string)
    /\ \/ /\ Len(string.seeds) = 1 \/ Malformed(string.seeds[1])
          /\ Fail
       \/ /\ Len(string.seeds) > 1 /\ ~Malformed(string.seeds[1])
          /\ \E i \in DOMAIN segments : Malformed(segments[i])
          /\ Fail
       \/ /\ Len(string.seeds) > 1 /\ ~Malformed(string.seeds[1])
          /\ \A i \in DOMAIN segments : ~Malformed(segments[i])
          /\ result' = [result EXCEPT !.hosts = Endpoints(segments)]
          /\ phase' = "parse_from_url"
          /\ rewritten' = TRUE
          /\ UNCHANGED dealt
    /\ UNCHANGED string

\* The string is parsed again with slashes for commas; parse_gossip_seed reads
\* each of the segments of the path.
Rewrite ==
    LET segments == Tail(string.seeds) \o PathSegments(string) IN
    /\ phase = "from_str"
    /\ InvalidPort(string)
    /\ \/ /\ Len(string.seeds) = 1 \/ Malformed(string.seeds[1])
          /\ Fail
       \/ /\ Len(string.seeds) > 1 /\ ~Malformed(string.seeds[1])
          /\ \E i \in DOMAIN segments : Malformed(segments[i])
          /\ Fail
       \/ /\ Len(string.seeds) > 1 /\ ~Malformed(string.seeds[1])
          /\ \A i \in DOMAIN segments : ~Malformed(segments[i])
          /\ result' = [result EXCEPT !.hosts =
                            <<Endpoint(string.seeds[1])>> \o Endpoints(segments)]
          /\ phase' = "parse_from_url"
          /\ rewritten' = TRUE
          /\ UNCHANGED dealt
    /\ UNCHANGED string

-----------------------------------------------------------------------------
(* parse_from_url *)

Refused(c) ==
    \/ c.scheme \notin SUPPORTED_PROTOCOLS
    \/ result.hosts = <<>> /\ c.path = Rest
    \/ result.hosts = <<>> /\ c.seeds = <<>>

\* The hosts of a string that the URL parser accepted.  Several seeds are one
\* host name to it, with commas: it is split, and the port of the URL not used.
HostsOfUrl(c) ==
    IF Len(c.seeds) = 1 THEN Endpoints(c.seeds)
    ELSE [i \in DOMAIN c.seeds |-> Endpoint(Seed(c.seeds[i].host))]

parse_from_url ==
    /\ phase = "parse_from_url"
    /\ \/ Refused(string) /\ Fail
       \/ /\ ~Refused(string)
          /\ result' = [result EXCEPT
                 !.dns_discover = string.discover,
                 !.default_user_name = string.user,
                 !.hosts = IF @ = <<>> THEN HostsOfUrl(string) ELSE @]
          /\ phase' = "query"
          /\ UNCHANGED <<rewritten, dealt>>
    /\ UNCHANGED string

\* parse_param fails, or the code refuses the value.
Invalid(p) ==
    IF p.name \in Unsigned THEN IF p.value = Unparsable THEN TRUE ELSE p.value < 0
    ELSE IF p.name \in Signed THEN IF p.value = Unparsable THEN TRUE ELSE p.value < -1
    ELSE p.name \in Booleans \cup {"nodepreference"} /\ p.value = Unparsable

\* Mutant of Ignored: a zero turns keep-alive off.
Ignored_NotZero(p) ==
    \/ p.name \notin Names
    \/ p.name \in KeepAlives /\ p.value \in 1 .. KeepAlive - 1

\* An unknown parameter, or a keep-alive period shorter than recommended.
Ignored(p) ==
    \/ p.name \notin Names
    \/ p.name \in KeepAlives /\ p.value \in 0 .. KeepAlive - 1

\* The value that p sets: -1 stands for "never".
ValueOf(p) ==
    IF p.name \in Signed /\ p.value = -1 THEN MaxDuration
    ELSE IF p.name \in Textual /\ rewritten THEN Slashed[p.value]
    ELSE p.value

QueryPair ==
    LET p == string.params[dealt + 1] IN
    /\ phase = "query"
    /\ dealt < Len(string.params)
    /\ \/ Invalid(p) /\ Fail
       \/ /\ ~Invalid(p)
          /\ result' = IF Ignored(p) THEN result
                       ELSE [result EXCEPT !.set[p.name] = ValueOf(p)]
          /\ dealt' = dealt + 1
          /\ UNCHANGED <<phase, rewritten>>
    /\ UNCHANGED string

\* Mutant of HalfCertificate: only a missing key is noticed.
HalfCertificate_KeyOnly(s) == s["usercertfile"] # None /\ s["userkeyfile"] = None

HalfCertificate(s) == (s["userkeyfile"] = None) # (s["usercertfile"] = None)

Finish ==
    /\ phase = "query"
    /\ dealt = Len(string.params)
    /\ phase' = IF HalfCertificate(result.set) THEN "error" ELSE "ok"
    /\ UNCHANGED <<string, rewritten, result, dealt>>

Done == phase \in {"ok", "error"} /\ UNCHANGED vars

Next == FromUrl \/ Rewrite \/ parse_from_url \/ QueryPair \/ Finish \/ Done

Spec == Init /\ [][Next]_vars

-----------------------------------------------------------------------------
(* Properties *)

\* The seeds that are written down, with their ports.
Written(c) == Endpoints(c.seeds)

\* The seeds of a string in which only the last of several has a port.
OnlyLastHasPort(c) ==
    Len(c.seeds) > 1 /\ {i \in DOMAIN c.seeds : HasPort(c.seeds[i])} = {Len(c.seeds)}

\* The client contacts the seeds of the connection string, in their order and on
\* their ports (parse_gossip_seed, from_str), except where only the last seed has
\* a port; and nothing else, except what stands after the seeds that were read as
\* a path.
SeedsInOrder ==
    phase = "ok" =>
        /\ Len(result.hosts) >= Len(string.seeds)
        /\ \A i \in DOMAIN string.seeds :
              ~OnlyLastHasPort(string) => result.hosts[i] = Written(string)[i]
        /\ ~rewritten => Len(result.hosts) = Len(string.seeds)

\* Some parameter of the string sets the name to the value v, or none does and v
\* is the default.  The default of nodePreference is left to DocumentedPreference.
Effective(name, v) ==
    LET setting == {i \in DOMAIN string.params :
                       LET p == string.params[i] IN
                       /\ p.name = name
                       /\ name \in KeepAlives => p.value < 0 \/ p.value >= KeepAlive}
    IN  IF setting = {} THEN name # "nodepreference" => v = DefaultSet[name]
        ELSE LET last == CHOOSE i \in setting : \A j \in setting : j <= i
                 w == string.params[last].value
             IN  IF name \in Signed /\ w = -1 THEN v = MaxDuration
                 ELSE IF name \in Textual THEN v \in {w, Slashed[w]}
                 ELSE v = w

\* Every setting has the value of the last parameter that sets it, and its default
\* where none does (but see DocumentedPreference): keep-alive periods that are too
\* short do not undo earlier ones, and -1 means never (parse_from_url).
LastParameterWins ==
    phase = "ok" => \A name \in Names : Effective(name, result.set[name])

IsNamed(c, name) == \E i \in DOMAIN c.params : c.params[i].name = name

\* "`nodePreference`: default `random`" (the documentation of ClientSettings): a
\* client whose string does not name a preference picks any node.  The code
\* prefers the leader.
DocumentedPreference ==
    phase = "ok" /\ ~IsNamed(string, "nodepreference") => result.set["nodepreference"] = "random"

\* One of the parts of the string is invalid.
InvalidString(c) ==
    \/ c.scheme \notin SUPPORTED_PROTOCOLS
    \/ c.seeds = <<>>
    \/ \E i \in DOMAIN c.seeds : Malformed(c.seeds[i])
    \/ c.path = Rest /\ ~InvalidPort(c)
    \/ \E i \in DOMAIN c.params : Invalid(c.params[i])
    \/ ~(IsNamed(c, "usercertfile") <=> IsNamed(c, "userkeyfile"))

\* The string is refused exactly if one of its parts is invalid, wherever it
\* stands, or if only one of the two files of the user certificate is named.
RefusedIfInvalid ==
    /\ phase = "ok" => ~InvalidString(string)
    /\ phase = "error" => InvalidString(string)
=============================================================================
