---------------------------- MODULE ParserProofs ----------------------------
(***************************************************************************)
(* Proofs about the parsers of the client: Settings, for any connection    *)
(* strings, and ParseValue, for any values, of any size and nesting.       *)
(*                                                                         *)
(* SettingsInv says what has been built of the string so far: in HostsInv, *)
(* of its seeds, which from_str may have rewritten before the string is    *)
(* parsed again; in ParamsInv, that each name has the value of the last of *)
(* the parameters dealt with that sets it, or its default.                 *)
(*                                                                         *)
(* ParseInv says what every element of the stack is there for.  All but    *)
(* the top one collect the values inside of a list or a struct; each has   *)
(* so far collected the JSON of the first of them, in their order, and the *)
(* element on top of it converts the next one.                             *)
(***************************************************************************)
EXTENDS Settings, ParseValue, TLAPS

(* Settings: what has been built of the string *)

\* The parameter with number i sets the name.
Sets(c, i, name) ==
    /\ c.params[i].name = name
    /\ name \in KeepAlives => c.params[i].value < 0 \/ c.params[i].value >= KeepAlive

\* Of the first n parameters, i is the last that sets the name.
LastSetter(c, n, i, name) ==
    /\ i \in 1..n
    /\ Sets(c, i, name)
    /\ \A j \in 1..n : j > i => ~Sets(c, j, name)

\* The value that p sets; ValueOf, with the outcome of from_str as a parameter.
ValueWhen(again, p) ==
    IF p.name \in Signed /\ p.value = -1 THEN MaxDuration
    ELSE IF p.name \in Textual /\ again THEN Slashed[p.value]
    ELSE p.value

\* The name has the value v once the first n parameters were dealt with.
EffectiveSoFar(c, again, n, name, v) ==
    \/ v = DefaultSet[name] /\ \A i \in 1..n : ~Sets(c, i, name)
    \/ \E i \in 1..n : LastSetter(c, n, i, name) /\ v = ValueWhen(again, c.params[i])

ResultShape ==
    /\ result = [dns_discover |-> result.dns_discover, default_user_name |-> result.default_user_name,
                 hosts |-> result.hosts, set |-> result.set]
    /\ result.set = [name \in Names |-> result.set[name]]

\* The hosts once the string was parsed again.
RewrittenHosts(c) == <<Endpoint(c.seeds[1])>> \o Endpoints(Tail(c.seeds) \o PathSegments(c))

WellWritten(c) == \A i \in DOMAIN c.seeds : ~Malformed(c.seeds[i])

\* What has been built up to parse_from_url.
HostsInv ==
    /\ rewritten \in BOOLEAN
    /\ rewritten => InvalidPort(string) /\ Len(string.seeds) > 1 /\ WellWritten(string)
    /\ phase = "from_str" => ~rewritten
    /\ phase \in {"parse_from_url", "query", "ok"} => (rewritten <=> InvalidPort(string))
    /\ phase \in {"from_str", "parse_from_url"} =>
          /\ result.set = DefaultSet
          /\ result.hosts = IF rewritten THEN RewrittenHosts(string) ELSE <<>>
    /\ phase \in {"query", "ok"} =>
          /\ result.hosts = IF rewritten THEN RewrittenHosts(string) ELSE HostsOfUrl(string)
          /\ string.scheme \in SUPPORTED_PROTOCOLS
          /\ string.seeds # <<>>
          /\ string.path = Rest => InvalidPort(string)

\* What has been built of the parameters that were dealt with.
ParamsInv ==
    /\ dealt \in 0..Len(string.params)
    /\ phase \in {"from_str", "parse_from_url"} => dealt = 0
    /\ phase = "ok" => dealt = Len(string.params)
    /\ \A i \in 1..dealt : ~Invalid(string.params[i])
    /\ phase \in {"query", "ok"} =>
          \A name \in Names : EffectiveSoFar(string, rewritten, dealt, name, result.set[name])
    /\ phase = "ok" => ~HalfCertificate(result.set)

SettingsInv ==
    /\ string \in Strings
    /\ phase \in {"from_str", "parse_from_url", "query", "ok", "error"}
    /\ ResultShape
    /\ HostsInv
    /\ ParamsInv
    /\ RefusedIfInvalid

-----------------------------------------------------------------------------
(* Seeds *)

LEMMA SequenceFacts ==
    ASSUME NEW s, IsSequence(s)
    PROVE  Len(s) \in Nat /\ DOMAIN s = 1..Len(s)
    BY DEF IsSequence

LEMMA StringFacts ==
    ASSUME NEW c \in Strings
    PROVE  /\ IsSequence(c.seeds) /\ Len(c.seeds) \in Nat /\ DOMAIN c.seeds = 1..Len(c.seeds)
           /\ IsSequence(c.params) /\ Len(c.params) \in Nat /\ DOMAIN c.params = 1..Len(c.params)
    BY StringsAssumption, SequenceFacts

\* The path adds at most one seed, and none with a port.
LEMMA PathSegmentsAreFine ==
    ASSUME NEW c
    PROVE  \/ PathSegments(c) = <<>>
           \/ \E host : PathSegments(c) = <<Seed(host)>> /\ ~Malformed(Seed(host))
<1>1. \A host : ~Malformed(Seed(host))
    BY ValuesAssumption DEF Malformed, Seed
<1> QED
    BY <1>1 DEF PathSegments

\* The segments s are the seeds but the first, and then what the path adds.
SegmentsOf(c, s, n) ==
    /\ Len(s) = n /\ DOMAIN s = 1..n /\ n >= Len(c.seeds) - 1
    /\ \A i \in 1 .. Len(c.seeds) - 1 : s[i] = c.seeds[i + 1]
    /\ \A i \in 1..n : i >= Len(c.seeds) => ~Malformed(s[i])

LEMMA Segments ==
    ASSUME NEW c \in Strings, Len(c.seeds) > 1, NEW s, s = Tail(c.seeds) \o PathSegments(c)
    PROVE  \E n \in Nat : SegmentsOf(c, s, n)
<1>1. PICK m \in Nat : m = Len(c.seeds) - 1
  <2>1. Len(c.seeds) \in Nat
    BY StringFacts
  <2>2. Len(c.seeds) - 1 \in Nat
    BY <2>1
  <2> QED BY <2>2
<1>2. PICK S : S = {c.seeds[i] : i \in DOMAIN c.seeds}
    OBVIOUS
<1>3. PICK seeds \in Seq(S) : seeds = c.seeds
    BY <1>2, StringFacts DEF IsSequence
<1>4. PICK t : t = Tail(seeds)
    OBVIOUS
<1>5. Len(seeds) = m + 1 /\ seeds # <<>>
    BY <1>1, <1>3
<1>6. t \in Seq(S) /\ Len(t) = m /\ \A i \in 1..m : t[i] = seeds[i + 1]
    BY <1>3, <1>4, <1>5
<1>7. Len(c.seeds) = m + 1 /\ \A i \in 1..m : t[i] = c.seeds[i + 1]
    BY <1>1, <1>3, <1>6
<1>8. CASE PathSegments(c) = <<>>
    <2>1. s = t
        BY <1>3, <1>4, <1>6, <1>8
    <2>2. DOMAIN s = 1..m /\ Len(s) = m
        BY <1>6, <2>1
    <2>3. SegmentsOf(c, s, m)
        BY <1>7, <2>1, <2>2 DEF SegmentsOf
    <2> QED
        BY <2>3
<1>9. ASSUME NEW host, PathSegments(c) = <<Seed(host)>>, ~Malformed(Seed(host))
      PROVE  \E n \in Nat : SegmentsOf(c, s, n)
    <2>1. PICK x : x = Seed(host)
        OBVIOUS
    <2>2. PICK T : T = S \cup {x}
        OBVIOUS
    <2>3. s = t \o <<x>>
        BY <1>3, <1>4, <1>9, <2>1
    <2>4. t \in Seq(T) /\ x \in T /\ Len(t) = m /\ m \in Nat
        BY <1>6, <2>2
    <2>5. s \in Seq(T) /\ Len(s) = m + 1
        BY ONLY <2>3, <2>4
    <2>6. s[m + 1] = x
        BY ONLY <2>3, <2>4
    <2>7. \A i \in 1..m : s[i] = t[i]
        BY ONLY <2>3, <2>4
    <2>8. PICK n \in Nat : n = m + 1
        OBVIOUS
    <2>9. Len(s) = n /\ DOMAIN s = 1..n
        BY <2>5, <2>8
    <2>10. \A i \in 1..n : i >= m + 1 => ~Malformed(s[i])
        <3>1. ~Malformed(s[m + 1])
            BY ONLY <1>9, <2>1, <2>6
        <3>2. \A i \in 1..n : i >= m + 1 => i = m + 1
            BY ONLY <2>4, <2>8
        <3> QED
            BY ONLY <3>1, <3>2
    <2>11. SegmentsOf(c, s, n)
        BY <1>7, <2>7, <2>8, <2>9, <2>10 DEF SegmentsOf
    <2> QED
        BY <2>11
<1> QED
    BY <1>8, <1>9, PathSegmentsAreFine

\* The string that is parsed again gives the seeds in their order, on their ports.
LEMMA RewrittenInOrder ==
    ASSUME NEW c \in Strings, Len(c.seeds) > 1, NEW hosts, hosts = RewrittenHosts(c)
    PROVE  /\ Len(hosts) \in Nat /\ Len(hosts) >= Len(c.seeds)
           /\ \A i \in 1..Len(c.seeds) : hosts[i] = Endpoint(c.seeds[i])
<1>1. PICK s : s = Tail(c.seeds) \o PathSegments(c)
    OBVIOUS
<1>2. PICK n \in Nat : /\ DOMAIN s = 1..n /\ n >= Len(c.seeds) - 1
                       /\ \A i \in 1 .. Len(c.seeds) - 1 : s[i] = c.seeds[i + 1]
    BY <1>1, Segments DEF SegmentsOf
<1>3. PICK e : e = Endpoints(s)
    OBVIOUS
<1>4. e = [i \in 1..n |-> Endpoint(s[i])]
    BY <1>2, <1>3 DEF Endpoints
<1>5. PICK x : x = Endpoint(c.seeds[1])
    OBVIOUS
<1>6. PICK T : T = {Endpoint(s[i]) : i \in 1..n} \cup {x}
    OBVIOUS
<1>7. e \in Seq(T) /\ Len(e) = n /\ x \in T
    BY <1>4, <1>6
<1>8. hosts = <<x>> \o e
    BY <1>1, <1>3, <1>5 DEF RewrittenHosts
<1>9. Len(hosts) = n + 1 /\ hosts[1] = x /\ \A i \in 1..n : hosts[i + 1] = e[i]
    BY <1>7, <1>8
<1>10. Len(c.seeds) \in Nat
    BY StringFacts
<1>11. ASSUME NEW i \in 1..Len(c.seeds) PROVE hosts[i] = Endpoint(c.seeds[i])
    <2>1. CASE i = 1
        BY <1>5, <1>9, <2>1
    <2>2. CASE i # 1
        <3>1. PICK j \in 1 .. Len(c.seeds) - 1 : i = j + 1
            BY <1>10, <2>2
        <3>2. j \in 1..n
            BY <1>2, <1>10, <3>1
        <3>3. hosts[i] = Endpoint(s[j])
            BY <1>4, <1>9, <3>1, <3>2
        <3> QED
            BY <1>2, <3>1, <3>3
    <2> QED
        BY <2>1, <2>2
<1> QED
    BY <1>2, <1>9, <1>10, <1>11

\* A string that the URL parser takes has no port but on its last seed.
LEMMA ValidPorts ==
    ASSUME NEW c \in Strings, ~InvalidPort(c)
    PROVE  /\ WellWritten(c)
           /\ \A i \in 1..Len(c.seeds) : i < Len(c.seeds) => c.seeds[i].port = None
<1>1. \A i \in 1..Len(c.seeds) : i < Len(c.seeds) => c.seeds[i].port = None
    BY StringFacts DEF InvalidPort, HasPort
<1>2. \A i \in 1..Len(c.seeds) : c.seeds[i].port # None => ~Malformed(c.seeds[i])
    BY StringFacts DEF InvalidPort, HasPort
<1>3. \A i \in 1..Len(c.seeds) : c.seeds[i].port = None => ~Malformed(c.seeds[i])
    BY ValuesAssumption DEF Malformed
<1> QED
    BY <1>1, <1>2, <1>3, StringFacts DEF WellWritten

\* Its hosts are its seeds, unless the port of the last seed alone is dropped.
LEMMA UrlInOrder ==
    ASSUME NEW c \in Strings, ~InvalidPort(c), NEW hosts, hosts = HostsOfUrl(c)
    PROVE  /\ Len(hosts) = Len(c.seeds)
           /\ \A i \in 1..Len(c.seeds) : ~OnlyLastHasPort(c) => hosts[i] = Endpoint(c.seeds[i])
<1>1. PICK n \in Nat : n = Len(c.seeds) /\ DOMAIN c.seeds = 1..n
    BY StringFacts
<1>2. CASE n = 1
    <2>1. hosts = [i \in 1..n |-> Endpoint(c.seeds[i])]
        BY <1>1, <1>2 DEF HostsOfUrl, Endpoints
    <2>2. Len(hosts) = n
        BY <2>1
    <2> QED
        BY <1>1, <2>1, <2>2
<1>3. CASE n # 1
    <2>1. hosts = [i \in 1..n |-> Endpoint(Seed(c.seeds[i].host))]
        BY <1>1, <1>3 DEF HostsOfUrl
    <2>2. Len(hosts) = n
        BY <2>1
    <2>3. ASSUME NEW i \in 1..n, ~OnlyLastHasPort(c) PROVE hosts[i] = Endpoint(c.seeds[i])
        <3>1. c.seeds[i].port = None
            <4>1. CASE i < n
                BY <1>1, <4>1, ValidPorts
            <4>2. CASE i = n
                <5>1. n > 1
                    BY <1>3, <4>2
                <5>2. ASSUME c.seeds[n].port # None PROVE FALSE
                    <6>1. {j \in DOMAIN c.seeds : HasPort(c.seeds[j])} = {n}
                        BY <1>1, <5>1, <5>2, ValidPorts DEF HasPort
                    <6> QED
                        BY <1>1, <2>3, <5>1, <6>1 DEF OnlyLastHasPort
                <5> QED
                    BY <4>2, <5>2
            <4> QED
                BY <4>1, <4>2
        <3>2. Endpoint(Seed(c.seeds[i].host)) = Endpoint(c.seeds[i])
            BY <3>1 DEF Endpoint, Seed, HasPort
        <3> QED
            BY <2>1, <2>3, <3>2
    <2> QED
        BY <1>1, <2>2, <2>3
<1> QED
    BY <1>2, <1>3

-----------------------------------------------------------------------------
(* Parameters *)

\* One more parameter that is not ignored sets its name, and no other.
LEMMA SetsIff ==
    ASSUME NEW c \in Strings, NEW i \in 1..Len(c.params), ~Invalid(c.params[i])
    PROVE  /\ \A name \in Names : Sets(c, i, name) => name = c.params[i].name
           /\ c.params[i].name \in Names =>
                 (Sets(c, i, c.params[i].name) <=> ~Ignored(c.params[i]))
           /\ c.params[i].name \notin Names => Ignored(c.params[i])
<1>1. PICK p : p = c.params[i]
    OBVIOUS
<1>2. i \in DOMAIN c.params
    BY StringFacts
<1>3. p.name \in KeepAlives => p.value \in Int
    <2>1. p.name \in Signed /\ p.value # Unparsable => p.value \in Int
        BY <1>1, <1>2, StringsAssumption
    <2>2. p.name \in KeepAlives => p.name \in Signed /\ p.name \notin Unsigned
        BY DEF KeepAlives, Signed, Unsigned
    <2>3. p.name \in KeepAlives => p.value # Unparsable
        BY <1>1, <2>2 DEF Invalid
    <2> QED
        BY <2>1, <2>2, <2>3
<1>4. p.name \in KeepAlives =>
          ((p.value < 0 \/ p.value >= KeepAlive) <=> p.value \notin 0 .. KeepAlive - 1)
    BY <1>3, ValuesAssumption
<1>5. KeepAlives \subseteq Names
    BY DEF Names, Signed
<1> QED
    BY <1>1, <1>4, <1>5 DEF Sets, Ignored

\* A name that the parameter does not set keeps its value.
LEMMA KeepsEffective ==
    ASSUME NEW c, NEW again, NEW n \in Nat, NEW name, NEW v, EffectiveSoFar(c, again, n, name, v),
           ~Sets(c, n + 1, name)
    PROVE  EffectiveSoFar(c, again, n + 1, name, v)
<1>1. CASE v = DefaultSet[name] /\ \A i \in 1..n : ~Sets(c, i, name)
    <2>1. \A i \in 1 .. n + 1 : ~Sets(c, i, name)
        BY <1>1
    <2> QED
        BY <1>1, <2>1 DEF EffectiveSoFar
<1>2. ASSUME NEW i \in 1..n, LastSetter(c, n, i, name), v = ValueWhen(again, c.params[i])
      PROVE  EffectiveSoFar(c, again, n + 1, name, v)
    <2>1. \A j \in 1 .. n + 1 : j > i => ~Sets(c, j, name)
        BY <1>2 DEF LastSetter
    <2>2. i \in 1 .. n + 1 /\ LastSetter(c, n + 1, i, name)
        BY <1>2, <2>1 DEF LastSetter
    <2> QED
        BY <1>2, <2>2 DEF EffectiveSoFar
<1> QED
    BY <1>1, <1>2 DEF EffectiveSoFar

\* A name that it sets has its value.
LEMMA BecomesEffective ==
    ASSUME NEW c, NEW again, NEW n \in Nat, NEW name, Sets(c, n + 1, name),
           NEW v, v = ValueWhen(again, c.params[n + 1])
    PROVE  EffectiveSoFar(c, again, n + 1, name, v)
<1>1. n + 1 \in 1 .. n + 1 /\ \A j \in 1 .. n + 1 : ~(j > n + 1)
    OBVIOUS
<1>2. LastSetter(c, n + 1, n + 1, name)
    BY <1>1 DEF LastSetter
<1> QED
    BY <1>1, <1>2 DEF EffectiveSoFar

\* Once all parameters were dealt with, a name has the value that it is to have.
LEMMA EffectiveAtEnd ==
    ASSUME string \in Strings, NEW name \in Names, NEW v, NEW again \in BOOLEAN,
           EffectiveSoFar(string, again, Len(string.params), name, v)
    PROVE  Effective(name, v)
<1>1. PICK n \in Nat : n = Len(string.params) /\ DOMAIN string.params = 1..n
    BY StringFacts
<1>2. PICK setting : setting = {i \in DOMAIN string.params : Sets(string, i, name)}
    OBVIOUS
<1>3. setting = {i \in DOMAIN string.params :
                    LET p == string.params[i] IN
                    /\ p.name = name
                    /\ name \in KeepAlives => p.value < 0 \/ p.value >= KeepAlive}
    BY <1>2 DEF Sets
<1>4. CASE v = DefaultSet[name] /\ \A i \in 1..n : ~Sets(string, i, name)
    <2>1. setting = {}
        BY <1>1, <1>2, <1>4
    <2> QED
        BY <1>3, <1>4, <2>1 DEF Effective
<1>5. ASSUME NEW i \in 1..n, LastSetter(string, n, i, name), v = ValueWhen(again, string.params[i])
      PROVE  Effective(name, v)
    <2>1. i \in setting /\ \A j \in setting : j <= i
        BY <1>1, <1>2, <1>5 DEF LastSetter
    <2>2. PICK last : last = CHOOSE k \in setting : \A j \in setting : j <= k
        OBVIOUS
    <2>3. last \in setting /\ \A j \in setting : j <= last
        BY <2>1, <2>2
    <2>4. last = i
        BY <1>1, <1>2, <2>1, <2>3
    <2>5. PICK w : w = string.params[last].value
        OBVIOUS
    <2>6. string.params[i].name = name /\ string.params[i].value = w
        BY <1>5, <2>4, <2>5 DEF LastSetter, Sets
    <2>7. IF name \in Signed /\ w = -1 THEN v = MaxDuration
          ELSE IF name \in Textual THEN v \in {w, Slashed[w]}
          ELSE v = w
        BY <1>5, <2>6 DEF ValueWhen
    <2>8. setting # {}
        BY <2>1
    <2> QED
        BY <1>3, <2>2, <2>5, <2>7, <2>8 DEF Effective
<1> QED
    BY <1>1, <1>4, <1>5 DEF EffectiveSoFar

\* A file of the certificate is missing in the settings if it is not named.
LEMMA FileNamed ==
    ASSUME NEW c \in Strings, NEW name \in {"usercertfile", "userkeyfile"}, NEW v, NEW again \in BOOLEAN,
           EffectiveSoFar(c, again, Len(c.params), name, v)
    PROVE  v = None <=> ~IsNamed(c, name)
<1>1. PICK n \in Nat : n = Len(c.params) /\ DOMAIN c.params = 1..n
    BY StringFacts
<1>2. name \in Names /\ name \in Textual /\ name \notin KeepAlives /\ name \notin Signed
    BY DEF Names, Textual, KeepAlives, Signed
<1>3. DefaultSet[name] = None
    <2>1. /\ name # "maxdiscoverattempts" /\ name # "discoveryinterval" /\ name # "gossiptimeout"
          /\ name # "nodepreference" /\ name \notin Booleans
        BY DEF Booleans
    <2> QED
        BY <1>2, <2>1 DEF DefaultSet
<1>4. \A i \in 1..n : Sets(c, i, name) <=> c.params[i].name = name
    BY <1>2 DEF Sets
<1>5. CASE v = DefaultSet[name] /\ \A i \in 1..n : ~Sets(c, i, name)
    BY <1>1, <1>3, <1>4, <1>5 DEF IsNamed
<1>6. ASSUME NEW i \in 1..n, LastSetter(c, n, i, name), v = ValueWhen(again, c.params[i])
      PROVE  v = None <=> ~IsNamed(c, name)
    <2>1. c.params[i].name = name
        BY <1>6 DEF LastSetter, Sets
    <2>2. c.params[i].value \in Texts
        BY <1>1, <1>2, <2>1, StringsAssumption
    <2>3. v \in Texts
        BY <1>2, <1>6, <2>1, <2>2, ValuesAssumption DEF ValueWhen
    <2> QED
        BY <1>1, <2>1, <2>3, ValuesAssumption DEF IsNamed
<1> QED
    BY <1>1, <1>5, <1>6 DEF EffectiveSoFar

-----------------------------------------------------------------------------
(* The steps *)

LEMMA HalfCertificateMeans ==
    ASSUME NEW s
    PROVE  HalfCertificate(s) <=> ~(s["userkeyfile"] = None <=> s["usercertfile"] = None)
    BY DEF HalfCertificate

\* A string that is refused stays as it is; what has been built no longer matters.
LEMMA FailInv ==
    ASSUME SettingsInv, Fail, string' = string, InvalidString(string)
    PROVE  SettingsInv'
<1>1. phase' = "error" /\ UNCHANGED <<string, rewritten, result, dealt>>
    BY DEF Fail
<1>2. ResultShape'
    BY <1>1 DEF SettingsInv, ResultShape
<1>3. HostsInv'
    BY <1>1 DEF SettingsInv, HostsInv
<1>4. ParamsInv'
    BY <1>1 DEF SettingsInv, ParamsInv, Invalid
<1>5. RefusedIfInvalid'
    BY <1>1 DEF RefusedIfInvalid
<1> QED
    BY <1>1, <1>2, <1>3, <1>4, <1>5 DEF SettingsInv

LEMMA FromUrlInv ==
    ASSUME SettingsInv, FromUrl
    PROVE  SettingsInv'
<1>1. /\ phase = "from_str" /\ phase' = "parse_from_url" /\ ~InvalidPort(string)
      /\ UNCHANGED <<string, rewritten, result, dealt>>
    BY DEF FromUrl
<1>2. ResultShape'
    BY <1>1 DEF SettingsInv, ResultShape
<1>3. HostsInv'
    BY <1>1 DEF SettingsInv, HostsInv
<1>4. ParamsInv'
    BY <1>1 DEF SettingsInv, ParamsInv, Invalid
<1>5. RefusedIfInvalid'
    BY <1>1 DEF RefusedIfInvalid
<1> QED
    BY <1>1, <1>2, <1>3, <1>4, <1>5 DEF SettingsInv

LEMMA RewriteInv ==
    ASSUME SettingsInv, Rewrite
    PROVE  SettingsInv'
<1>1. PICK segments : segments = Tail(string.seeds) \o PathSegments(string)
    OBVIOUS
<1>2. /\ string \in Strings /\ phase = "from_str" /\ InvalidPort(string) /\ string' = string
    BY DEF Rewrite, SettingsInv
<1>3. PICK n \in Nat : n = Len(string.seeds) /\ DOMAIN string.seeds = 1..n
    BY <1>2, StringFacts
<1>4. CASE (n = 1 \/ Malformed(string.seeds[1])) /\ Fail
    <2>1. n >= 1
        BY <1>2, <1>3 DEF InvalidPort
    <2>2. Malformed(string.seeds[1])
        <3>1. CASE n = 1
            <4>1. PICK i \in 1..n : i < n \/ Malformed(string.seeds[i])
                BY <1>2, <1>3 DEF InvalidPort
            <4>2. i = 1
                BY <3>1
            <4> QED
                BY <3>1, <4>1, <4>2
        <3> QED
            BY <1>4, <3>1
    <2>3. InvalidString(string)
        BY <1>3, <2>1, <2>2 DEF InvalidString
    <2> QED
        BY <1>2, <1>4, <2>3, FailInv
<1>5. CASE n > 1 /\ (\E i \in DOMAIN segments : Malformed(segments[i])) /\ Fail
    <2>1. PICK k \in Nat : SegmentsOf(string, segments, k)
        BY <1>1, <1>2, <1>3, <1>5, Segments
    <2>2. PICK i \in DOMAIN segments : Malformed(segments[i])
        BY <1>5
    <2>3. i \in 1..k /\ i < n
        BY <1>3, <2>1, <2>2 DEF SegmentsOf
    <2>4. Malformed(string.seeds[i + 1]) /\ i + 1 \in 1..n
        BY <1>3, <2>1, <2>2, <2>3 DEF SegmentsOf
    <2>5. InvalidString(string)
        BY <1>3, <2>4 DEF InvalidString
    <2> QED
        BY <1>2, <1>5, <2>5, FailInv
<1>6. CASE /\ n > 1 /\ ~Malformed(string.seeds[1])
           /\ \A i \in DOMAIN segments : ~Malformed(segments[i])
           /\ result' = [result EXCEPT !.hosts = <<Endpoint(string.seeds[1])>> \o Endpoints(segments)]
           /\ phase' = "parse_from_url" /\ rewritten' = TRUE /\ dealt' = dealt
    <2>1. PICK k \in Nat : SegmentsOf(string, segments, k)
        BY <1>1, <1>2, <1>3, <1>6, Segments
    <2>2. WellWritten(string)
        <3> SUFFICES ASSUME NEW i \in 1..n PROVE ~Malformed(string.seeds[i])
            BY <1>3 DEF WellWritten
        <3>1. CASE i = 1
            BY <1>6, <3>1
        <3>2. CASE i # 1
            <4>1. PICK j \in 1 .. n - 1 : i = j + 1
                BY <3>2
            <4>2. j \in DOMAIN segments /\ segments[j] = string.seeds[i]
                BY <1>3, <2>1, <4>1 DEF SegmentsOf
            <4> QED
                BY <1>6, <4>2
        <3> QED
            BY <3>1, <3>2
    <2>3. /\ result'.hosts = RewrittenHosts(string) /\ result'.set = result.set
          /\ result' = [dns_discover |-> result'.dns_discover,
                        default_user_name |-> result'.default_user_name,
                        hosts |-> result'.hosts, set |-> result'.set]
        <3>1. PICK hosts : hosts = <<Endpoint(string.seeds[1])>> \o Endpoints(segments)
            OBVIOUS
        <3>2. hosts = RewrittenHosts(string)
            BY <1>1, <3>1 DEF RewrittenHosts
        <3>3. result' = [result EXCEPT !.hosts = hosts]
            BY <1>6, <3>1
        <3> QED
            BY <3>2, <3>3 DEF SettingsInv, ResultShape
    <2>4. ResultShape'
        BY <2>3 DEF SettingsInv, ResultShape
    <2>5. HostsInv'
        BY <1>2, <1>3, <1>6, <2>2, <2>3 DEF SettingsInv, HostsInv
    <2>6. ParamsInv'
        BY <1>2, <1>6 DEF SettingsInv, ParamsInv, Invalid
    <2>7. RefusedIfInvalid'
        BY <1>6 DEF RefusedIfInvalid
    <2> QED
        BY <1>2, <1>6, <2>4, <2>5, <2>6, <2>7 DEF SettingsInv
<1> QED
    BY <1>1, <1>3, <1>4, <1>5, <1>6 DEF Rewrite

LEMMA ParseFromUrlInv ==
    ASSUME SettingsInv, parse_from_url
    PROVE  SettingsInv'
<1>1. string \in Strings /\ phase = "parse_from_url" /\ string' = string
    BY DEF parse_from_url, SettingsInv
<1>2. /\ rewritten \in BOOLEAN /\ (rewritten <=> InvalidPort(string)) /\ result.set = DefaultSet
      /\ result.hosts = IF rewritten THEN RewrittenHosts(string) ELSE <<>>
      /\ rewritten => Len(string.seeds) > 1 /\ WellWritten(string)
    BY <1>1 DEF SettingsInv, HostsInv
<1>3. rewritten => result.hosts # <<>>
    <2> SUFFICES ASSUME rewritten PROVE result.hosts # <<>>
        OBVIOUS
    <2>1. PICK hosts : hosts = result.hosts
        OBVIOUS
    <2>2. hosts = RewrittenHosts(string) /\ Len(string.seeds) > 1
        BY <1>2, <2>1
    <2>3. Len(hosts) \in Nat /\ Len(hosts) >= Len(string.seeds)
        BY <1>1, <2>2, RewrittenInOrder
    <2>4. Len(hosts) # 0
        BY <1>1, <2>2, <2>3, StringFacts
    <2> QED
        BY <2>1, <2>4
<1>4. CASE Refused(string) /\ Fail
    <2>1. InvalidString(string)
        BY <1>2, <1>3, <1>4 DEF Refused, InvalidString
    <2> QED
        BY <1>1, <1>4, <2>1, FailInv
<1>5. CASE /\ ~Refused(string)
           /\ result' = [result EXCEPT
                 !.dns_discover = string.discover,
                 !.default_user_name = string.user,
                 !.hosts = IF @ = <<>> THEN HostsOfUrl(string) ELSE @]
           /\ phase' = "query" /\ rewritten' = rewritten /\ dealt' = dealt
    <2>1. /\ result'.hosts = IF result.hosts = <<>> THEN HostsOfUrl(string) ELSE result.hosts
          /\ result'.set = result.set
          /\ result' = [dns_discover |-> result'.dns_discover,
                        default_user_name |-> result'.default_user_name,
                        hosts |-> result'.hosts, set |-> result'.set]
        BY <1>5 DEF SettingsInv, ResultShape
    <2>2. ResultShape'
        BY <2>1 DEF SettingsInv, ResultShape
    <2>3. result'.hosts = IF rewritten THEN RewrittenHosts(string) ELSE HostsOfUrl(string)
        BY <1>2, <1>3, <2>1
    <2>4. /\ string.scheme \in SUPPORTED_PROTOCOLS
          /\ string.path = Rest => InvalidPort(string)
        BY <1>2, <1>5 DEF Refused
    <2>5. string.seeds # <<>>
        <3>1. CASE rewritten
            BY <1>2, <3>1
        <3>2. CASE ~rewritten
            BY <1>2, <1>5, <3>2 DEF Refused
        <3> QED
            BY <3>1, <3>2
    <2>6. HostsInv'
        BY <1>1, <1>2, <1>5, <2>3, <2>4, <2>5 DEF SettingsInv, HostsInv
    <2>7. dealt = 0 /\ Len(string.params) \in Nat
        BY <1>1, StringFacts DEF SettingsInv, ParamsInv
    <2>8. \A name \in Names : EffectiveSoFar(string, rewritten, dealt, name, DefaultSet[name])
        BY <2>7 DEF EffectiveSoFar
    <2>9. ParamsInv'
        BY <1>1, <1>2, <1>5, <2>1, <2>7, <2>8 DEF ParamsInv
    <2>10. RefusedIfInvalid'
        BY <1>5 DEF RefusedIfInvalid
    <2> QED
        BY <1>1, <1>5, <2>2, <2>6, <2>9, <2>10 DEF SettingsInv
<1> QED
    BY <1>4, <1>5 DEF parse_from_url

\* The value of one more parameter, where it is not ignored, replaces an earlier one.
LEMMA PairEffective ==
    ASSUME SettingsInv, phase = "query", NEW p, p = string.params[dealt + 1],
           dealt < Len(string.params), ~Invalid(p), ~Ignored(p),
           result' = [result EXCEPT !.set[p.name] = ValueOf(p)]
    PROVE  /\ ResultShape' /\ result'.hosts = result.hosts
           /\ \A name \in Names :
                 EffectiveSoFar(string, rewritten, dealt + 1, name, result'.set[name])
<1>1. string \in Strings /\ dealt \in Nat /\ dealt + 1 \in 1..Len(string.params)
    BY StringFacts DEF SettingsInv, ParamsInv
<1>2. \A name \in Names : EffectiveSoFar(string, rewritten, dealt, name, result.set[name])
    BY DEF SettingsInv, ParamsInv
<1>3. PICK v : v = ValueOf(p) /\ v = ValueWhen(rewritten, p)
    BY DEF ValueOf, ValueWhen
<1>4. result' = [result EXCEPT !.set[p.name] = v]
    BY <1>3
<1>5. /\ result'.hosts = result.hosts /\ result'.set = [result.set EXCEPT ![p.name] = v]
      /\ result' = [dns_discover |-> result'.dns_discover,
                    default_user_name |-> result'.default_user_name,
                    hosts |-> result'.hosts, set |-> result'.set]
    BY <1>4 DEF SettingsInv, ResultShape
<1>6. result.set = [name \in Names |-> result.set[name]]
    BY DEF SettingsInv, ResultShape
<1>7. PICK set : set = result.set
    OBVIOUS
<1>8. PICK set2 : set2 = result'.set
    OBVIOUS
<1>9. DOMAIN set = Names
    BY <1>6, <1>7
<1>10. set2 = [set EXCEPT ![p.name] = v]
    BY <1>5, <1>7, <1>8
<1>11. set2 = [name \in Names |-> set2[name]]
    BY <1>9, <1>10, <1>6, <1>7
<1>12. ResultShape'
    BY <1>5, <1>8, <1>11 DEF ResultShape
<1>13. ASSUME NEW name \in Names
       PROVE  EffectiveSoFar(string, rewritten, dealt + 1, name, result'.set[name])
    <2>1. CASE name = p.name
        <3>1. Sets(string, dealt + 1, name)
            BY <1>1, <2>1, SetsIff
        <3>2. result'.set[name] = v
            BY <1>8, <1>9, <1>10, <2>1
        <3> QED
            BY <1>1, <1>3, <3>1, <3>2, BecomesEffective
    <2>2. CASE name # p.name
        <3>1. ~Sets(string, dealt + 1, name)
            BY <1>1, <2>2, SetsIff
        <3>2. result'.set[name] = result.set[name]
            BY <1>7, <1>8, <1>9, <1>10, <2>2
        <3> QED
            BY <1>1, <1>2, <3>1, <3>2, KeepsEffective
    <2> QED
        BY <2>1, <2>2
<1> QED
    BY <1>5, <1>12, <1>13

LEMMA QueryPairInv ==
    ASSUME SettingsInv, QueryPair
    PROVE  SettingsInv'
<1>1. PICK p : p = string.params[dealt + 1]
    OBVIOUS
<1>2. /\ string \in Strings /\ phase = "query" /\ string' = string /\ dealt < Len(string.params)
    BY DEF QueryPair, SettingsInv
<1>3. /\ dealt \in Nat /\ Len(string.params) \in Nat /\ DOMAIN string.params = 1..Len(string.params)
      /\ dealt + 1 \in 1..Len(string.params)
    BY <1>2, StringFacts DEF SettingsInv, ParamsInv
<1>4. CASE Invalid(p) /\ Fail
    <2>1. InvalidString(string)
        BY <1>1, <1>3, <1>4 DEF InvalidString
    <2> QED
        BY <1>2, <1>4, <2>1, FailInv
<1>5. CASE /\ ~Invalid(p)
           /\ result' = IF Ignored(p) THEN result ELSE [result EXCEPT !.set[p.name] = ValueOf(p)]
           /\ dealt' = dealt + 1 /\ phase' = phase /\ rewritten' = rewritten
    <2>1. /\ ResultShape' /\ result'.hosts = result.hosts
          /\ \A name \in Names :
                EffectiveSoFar(string, rewritten, dealt + 1, name, result'.set[name])
        <3>1. CASE Ignored(p)
            <4>1. result' = result
                BY <1>5, <3>1
            <4>2. ResultShape'
                BY <4>1 DEF SettingsInv, ResultShape
            <4>3. ASSUME NEW name \in Names
                  PROVE  EffectiveSoFar(string, rewritten, dealt + 1, name, result'.set[name])
                <5>1. ~Sets(string, dealt + 1, name)
                    BY <1>1, <1>2, <1>3, <1>5, <3>1, SetsIff
                <5>2. EffectiveSoFar(string, rewritten, dealt, name, result.set[name])
                    BY <1>2 DEF SettingsInv, ParamsInv
                <5>3. EffectiveSoFar(string, rewritten, dealt + 1, name, result.set[name])
                    BY <1>3, <5>1, <5>2, KeepsEffective
                <5> QED
                    BY <4>1, <5>3
            <4> QED
                BY <4>1, <4>2, <4>3
        <3>2. CASE ~Ignored(p)
            BY <1>1, <1>2, <1>5, <3>2, PairEffective
        <3> QED
            BY <3>1, <3>2
    <2>2. HostsInv'
        BY <1>2, <1>5, <2>1 DEF SettingsInv, HostsInv
    <2>3. \A i \in 1 .. dealt + 1 : ~Invalid(string.params[i])
        <3>1. \A i \in 1..dealt : ~Invalid(string.params[i])
            BY DEF SettingsInv, ParamsInv
        <3>2. \A i \in 1 .. dealt + 1 : i \in 1..dealt \/ i = dealt + 1
            BY <1>3
        <3>3. ~Invalid(string.params[dealt + 1])
            BY <1>1, <1>5
        <3> QED
            BY <3>1, <3>2, <3>3
    <2>4. phase' = "query" /\ dealt' \in 0..Len(string.params)
        BY <1>2, <1>3, <1>5
    <2>5. \A i \in 1..dealt' : ~Invalid(string.params[i])'
        BY <1>2, <1>5, <2>3 DEF Invalid
    <2>6. ParamsInv'
        BY <1>2, <1>5, <2>1, <2>4, <2>5 DEF ParamsInv
    <2>7. RefusedIfInvalid'
        BY <2>4 DEF RefusedIfInvalid
    <2> QED
        BY <1>2, <2>1, <2>2, <2>4, <2>6, <2>7 DEF SettingsInv
<1> QED
    BY <1>1, <1>4, <1>5 DEF QueryPair

LEMMA FinishInv ==
    ASSUME SettingsInv, Finish
    PROVE  SettingsInv'
<1>1. /\ string \in Strings /\ phase = "query" /\ dealt = Len(string.params)
      /\ phase' = IF HalfCertificate(result.set) THEN "error" ELSE "ok"
      /\ UNCHANGED <<string, rewritten, result, dealt>>
    BY DEF Finish, SettingsInv
<1>2. PICK set : set = result.set
    OBVIOUS
<1>3. rewritten \in BOOLEAN
    BY DEF SettingsInv, HostsInv
<1>4. \A name \in Names : EffectiveSoFar(string, rewritten, Len(string.params), name, set[name])
    BY <1>1, <1>2 DEF SettingsInv, ParamsInv
<1>5. "usercertfile" \in Names /\ "userkeyfile" \in Names
    BY DEF Names, Textual
<1>6. set["usercertfile"] = None <=> ~IsNamed(string, "usercertfile")
    BY <1>1, <1>3, <1>4, <1>5, FileNamed
<1>7. set["userkeyfile"] = None <=> ~IsNamed(string, "userkeyfile")
    BY <1>1, <1>3, <1>4, <1>5, FileNamed
<1>8. HalfCertificate(set) <=> ~(IsNamed(string, "usercertfile") <=> IsNamed(string, "userkeyfile"))
    BY <1>6, <1>7, HalfCertificateMeans
<1>9. ResultShape'
    BY <1>1 DEF SettingsInv, ResultShape
<1>10. HostsInv'
    BY <1>1 DEF SettingsInv, HostsInv
<1>11. ParamsInv'
    <2>1. \A i \in 1..dealt' : ~Invalid(string.params[i])'
        BY <1>1 DEF SettingsInv, ParamsInv, Invalid
    <2> QED
        BY <1>1, <2>1 DEF SettingsInv, ParamsInv
<1>12. RefusedIfInvalid'
    <2>1. HalfCertificate(set) => InvalidString(string)
        BY <1>8 DEF InvalidString
    <2>2. ASSUME ~HalfCertificate(set) PROVE ~InvalidString(string)
        <3>1. /\ string.scheme \in SUPPORTED_PROTOCOLS /\ string.seeds # <<>>
              /\ string.path = Rest => InvalidPort(string)
              /\ rewritten <=> InvalidPort(string)
              /\ rewritten => WellWritten(string)
            BY <1>1 DEF SettingsInv, HostsInv
        <3>2. \A i \in DOMAIN string.seeds : ~Malformed(string.seeds[i])
            BY <1>1, <3>1, ValidPorts DEF WellWritten
        <3>3. \A i \in DOMAIN string.params : ~Invalid(string.params[i])
            BY <1>1, StringFacts DEF SettingsInv, ParamsInv
        <3>4. IsNamed(string, "usercertfile") <=> IsNamed(string, "userkeyfile")
            BY <1>8, <2>2
        <3> QED
            BY <3>1, <3>2, <3>3, <3>4 DEF InvalidString
    <2>3. phase' = "ok" => ~InvalidString(string)
        BY <1>1, <1>2, <2>2
    <2>4. phase' = "error" => InvalidString(string)
        BY <1>1, <1>2, <2>1
    <2>5. InvalidString(string)' <=> InvalidString(string)
        BY <1>1 DEF InvalidString, Invalid, InvalidPort, IsNamed
    <2> QED
        BY <2>3, <2>4, <2>5 DEF RefusedIfInvalid
<1> QED
    BY <1>1, <1>9, <1>10, <1>11, <1>12 DEF SettingsInv

LEMMA InitInv ==
    ASSUME Init
    PROVE  SettingsInv
<1>1. /\ string \in Strings /\ phase = "from_str" /\ rewritten = FALSE /\ result = Default /\ dealt = 0
    BY DEF Init
<1>2. result.set = DefaultSet /\ result.hosts = <<>>
    BY <1>1 DEF Default
<1>3. DefaultSet = [name \in Names |-> DefaultSet[name]]
    BY DEF DefaultSet
<1>4. ResultShape
    BY <1>1, <1>3 DEF ResultShape, Default
<1>5. HostsInv
    BY <1>1, <1>2 DEF HostsInv
<1>6. ParamsInv
    BY <1>1, StringFacts DEF ParamsInv
<1>7. RefusedIfInvalid
    BY <1>1 DEF RefusedIfInvalid
<1> QED
    BY <1>1, <1>4, <1>5, <1>6, <1>7 DEF SettingsInv

LEMMA StepInv ==
    ASSUME SettingsInv, [Next]_vars
    PROVE  SettingsInv'
<1>1. ASSUME UNCHANGED vars PROVE SettingsInv'
    <2>1. UNCHANGED <<string, phase, rewritten, result, dealt>>
        BY <1>1 DEF vars
    <2>2. ResultShape' /\ HostsInv'
        BY <2>1 DEF SettingsInv, ResultShape, HostsInv
    <2>3. ParamsInv'
        BY <2>1 DEF SettingsInv, ParamsInv, Invalid
    <2>4. RefusedIfInvalid'
        BY <2>1 DEF SettingsInv, RefusedIfInvalid, InvalidString, Invalid, InvalidPort, IsNamed
    <2> QED
        BY <2>1, <2>2, <2>3, <2>4 DEF SettingsInv
<1> QED
    BY <1>1, FromUrlInv, RewriteInv, ParseFromUrlInv, QueryPairInv, FinishInv DEF Next, Done

-----------------------------------------------------------------------------
(* Theorems *)

LEMMA SettingsInvariant ==
    Spec => []SettingsInv
<1>1. Init => SettingsInv
    BY InitInv
<1>2. SettingsInv /\ [Next]_vars => SettingsInv'
    BY StepInv
<1> QED
    BY <1>1, <1>2, PTL DEF Spec

\* The client contacts the seeds that were written down, in their order and on their
\* ports, but for the case in which only the last seed has a port; whatever the
\* number of seeds, the ports and the path (from_str, parse_gossip_seed).
THEOREM SeedsAreInOrder == Spec => []SeedsInOrder
<1>1. ASSUME SettingsInv PROVE SeedsInOrder
    <2> SUFFICES ASSUME phase = "ok" PROVE SeedsInOrder
        BY DEF SeedsInOrder
    <2>1. PICK n \in Nat : n = Len(string.seeds) /\ DOMAIN string.seeds = 1..n /\ string \in Strings
        BY <1>1, StringFacts DEF SettingsInv
    <2>2. PICK hosts : hosts = result.hosts
        OBVIOUS
    <2>3. /\ hosts = IF rewritten THEN RewrittenHosts(string) ELSE HostsOfUrl(string)
          /\ rewritten => Len(string.seeds) > 1
          /\ rewritten <=> InvalidPort(string)
        BY <1>1, <2>2 DEF SettingsInv, HostsInv
    <2>4. \A i \in 1..n : Written(string)[i] = Endpoint(string.seeds[i])
        BY <2>1 DEF Written, Endpoints
    <2>5. CASE rewritten
        <3>1. /\ Len(hosts) >= n
              /\ \A i \in 1..n : hosts[i] = Endpoint(string.seeds[i])
            BY <2>1, <2>3, <2>5, RewrittenInOrder
        <3> QED
            BY <2>1, <2>2, <2>4, <2>5, <3>1 DEF SeedsInOrder
    <2>6. CASE ~rewritten
        <3>1. /\ Len(hosts) = n
              /\ \A i \in 1..n : ~OnlyLastHasPort(string) => hosts[i] = Endpoint(string.seeds[i])
            BY <2>1, <2>3, <2>6, UrlInOrder
        <3> QED
            BY <2>1, <2>2, <2>4, <3>1 DEF SeedsInOrder
    <2> QED
        BY <2>5, <2>6
<1> QED
    BY <1>1, SettingsInvariant, PTL

\* Every setting ends with the value of the last parameter that sets it, or with its
\* default: however many parameters there are and however often a name is repeated
\* (parse_from_url).
THEOREM LastParameterIsEffective == Spec => []LastParameterWins
<1>1. ASSUME SettingsInv PROVE LastParameterWins
    <2> SUFFICES ASSUME phase = "ok", NEW name \in Names PROVE Effective(name, result.set[name])
        BY DEF LastParameterWins
    <2>1. /\ string \in Strings /\ rewritten \in BOOLEAN
          /\ EffectiveSoFar(string, rewritten, Len(string.params), name, result.set[name])
        BY <1>1 DEF SettingsInv, HostsInv, ParamsInv
    <2> QED
        BY <2>1, EffectiveAtEnd
<1> QED
    BY <1>1, SettingsInvariant, PTL

\* A connection string is refused exactly if one of its parts is invalid: no part is
\* overlooked because of the order in which from_str and parse_from_url read them.
THEOREM InvalidIsRefused == Spec => []RefusedIfInvalid
<1>1. SettingsInv => RefusedIfInvalid
    BY DEF SettingsInv
<1> QED
    BY <1>1, SettingsInvariant, PTL

-----------------------------------------------------------------------------
(* ParseValue: what the stack is for *)

IsContainer(v) == v \in Input /\ v.kind \in {"list", "struct"}

\* What the j-th value inside of v becomes in the JSON of v.
Part(v, j) ==
    IF v.kind = "list" THEN Json(v.items[j])
    ELSE [name |-> v.fields[j].name, value |-> Json(v.fields[j].value)]

Parts(v, n) == [j \in 1..n |-> Part(v, j)]

\* An element that collects: the first values of a list or a struct.
Collector(v, acc) == IF v.kind = "list" THEN List(v, acc) ELSE Map(v, acc)

\* An element that collects, with n values collected and more to come.
Collects(e) ==
    \E v \in Input, n \in Nat :
        IsContainer(v) /\ n < Len(Inside(v)) /\ e = Collector(v, Parts(v, n))

\* The value that such an element waits for.
Awaited(e) == Inside(e.of)[Len(e.acc) + 1]

\* The value whose JSON the i-th element of s is to deliver, in a conversion of v.
Wanted(v, s, i) == IF i = 1 THEN v ELSE Awaited(s[i - 1])

\* The element e converts v, or has converted it.
Serves(e, v) ==
    \/ e = Proto(v)
    \/ e = Value(Json(v))
    \/ Collects(e) /\ e.of = v

IsStack(s) == s = [i \in 1..Len(s) |-> s[i]] /\ Len(s) \in Nat

StackInv(v, s) ==
    /\ IsStack(s)
    /\ \A i \in 1..Len(s) : i < Len(s) => Collects(s[i])
    /\ \A i \in 1..Len(s) : Wanted(v, s, i) \in Input /\ Serves(s[i], Wanted(v, s, i))

\* The top element finds in param what it waits for.
ParamInv ==
    status = "running" =>
        /\ stack = <<>> => param = Json(value)
        /\ stack # <<>> /\ Top.type \in {"List", "Map"} => param = Json(Awaited(Top))

ParseInv ==
    /\ value \in Input
    /\ StackInv(value, stack)
    /\ ParamInv
    /\ ConvertsFaithfully
    /\ PanicsOnlyOnNaN

-----------------------------------------------------------------------------
(* Lists and structs, and what they become *)

LEMMA InsideIsInput ==
    ASSUME NEW v, IsContainer(v)
    PROVE  /\ Inside(v) \in Seq(Input)
           /\ v.kind = "list" => Inside(v) = v.items
           /\ v.kind = "struct" =>
                 /\ Len(Inside(v)) = Len(v.fields)
                 /\ \A j \in 1..Len(v.fields) : Inside(v)[j] = v.fields[j].value
<1>1. CASE v.kind = "list"
    BY <1>1, InputAssumption DEF IsContainer, Inside
<1>2. CASE v.kind = "struct"
    <2>1. v.fields \in Seq([name : STRING, value : Input])
        BY <1>2, InputAssumption DEF IsContainer
    <2>2. Inside(v) = [i \in 1..Len(v.fields) |-> v.fields[i].value]
        BY <1>2, <2>1 DEF Inside, Fields
    <2>3. \A i \in 1..Len(v.fields) : v.fields[i].value \in Input
        <3>1. PICK S : S = [name : STRING, value : Input]
            OBVIOUS
        <3>2. v.fields \in Seq(S)
            BY <2>1, <3>1
        <3>3. \A i \in 1..Len(v.fields) : v.fields[i] \in S
            BY <3>2
        <3>4. \A f \in S : f.value \in Input
            BY <3>1
        <3> QED
            BY <3>3, <3>4
    <2>4. Inside(v) \in Seq(Input) /\ Len(Inside(v)) = Len(v.fields)
        BY <2>1, <2>2, <2>3
    <2> QED
        BY <1>2, <2>2, <2>4
<1> QED
    BY <1>1, <1>2 DEF IsContainer

\* The JSON of a list or a struct is made of the parts of it, all of them.
LEMMA JsonOfContainer ==
    ASSUME NEW v, IsContainer(v), NEW n, n = Len(Inside(v))
    PROVE  Json(v) = IF v.kind = "list" THEN JsonArray(Parts(v, n)) ELSE JsonObject(Parts(v, n))
<1>1. CASE v.kind = "list"
    <2>1. v.items \in Seq(Input) /\ n = Len(v.items)
        BY <1>1, InputAssumption DEF IsContainer, Inside
    <2>2. Parts(v, n) = [i \in DOMAIN v.items |-> Json(v.items[i])]
        BY <1>1, <2>1 DEF Parts, Part
    <2> QED
        BY <1>1, <2>2, JsonAssumption DEF IsContainer
<1>2. CASE v.kind = "struct"
    <2>1. v.fields \in Seq([name : STRING, value : Input]) /\ n = Len(v.fields)
        BY <1>2, InsideIsInput, InputAssumption DEF IsContainer
    <2>2. Parts(v, n) = [i \in DOMAIN v.fields |->
                            [name |-> v.fields[i].name, value |-> Json(v.fields[i].value)]]
        BY <1>2, <2>1 DEF Parts, Part
    <2> QED
        BY <1>2, <2>2, JsonAssumption DEF IsContainer
<1> QED
    BY <1>1, <1>2 DEF IsContainer

LEMMA PartsAreSequence ==
    ASSUME NEW v, NEW n \in Nat
    PROVE  /\ Len(Parts(v, n)) = n
           /\ Parts(v, n) \in Seq({Part(v, j) : j \in 1..n})
    BY DEF Parts

\* One more part.
LEMMA AppendPart ==
    ASSUME NEW v, NEW n \in Nat, NEW part, part = Part(v, n + 1)
    PROVE  Append(Parts(v, n), part) = Parts(v, n + 1)
<1> DEFINE S == {Part(v, j) : j \in 1 .. n + 1}
<1>1. Parts(v, n) \in Seq(S) /\ Len(Parts(v, n)) = n /\ part \in S
    BY DEF Parts
<1>2. PICK s \in Seq(S) : s = Parts(v, n)
    BY <1>1
<1>3. Append(s, part) = [j \in 1 .. n + 1 |-> IF j = n + 1 THEN part ELSE s[j]]
    BY <1>1, <1>2
<1>4. \A j \in 1 .. n + 1 : (IF j = n + 1 THEN part ELSE s[j]) = Part(v, j)
    BY <1>2 DEF Parts
<1>5. [j \in 1 .. n + 1 |-> IF j = n + 1 THEN part ELSE s[j]] = [j \in 1 .. n + 1 |-> Part(v, j)]
    BY <1>4
<1> QED
    BY <1>2, <1>3, <1>5 DEF Parts

LEMMA NoParts == ASSUME NEW v PROVE Parts(v, 0) = <<>>
    BY DEF Parts

\* An element that collects, taken apart.
LEMMA CollectsShape ==
    ASSUME NEW e, Collects(e)
    PROVE  /\ IsContainer(e.of)
           /\ e.type = "List" <=> e.of.kind = "list"
           /\ e.type \in {"List", "Map"}
           /\ Awaited(e) \in Input
           /\ \E n \in Nat : /\ n < Len(Inside(e.of)) /\ e.acc = Parts(e.of, n) /\ Len(e.acc) = n
                             /\ Awaited(e) = Inside(e.of)[n + 1]
<1>1. PICK v \in Input, n \in Nat : IsContainer(v) /\ n < Len(Inside(v)) /\ e = Collector(v, Parts(v, n))
    BY DEF Collects
<1>2. e.of = v /\ e.acc = Parts(v, n) /\ e.type = IF v.kind = "list" THEN "List" ELSE "Map"
    BY <1>1 DEF Collector, List, Map
<1>3. Len(e.acc) = n
    BY <1>2, PartsAreSequence
<1>4. Awaited(e) = Inside(v)[n + 1]
    BY <1>2, <1>3 DEF Awaited
<1>5. Inside(v)[n + 1] \in Input
    BY <1>1, InsideIsInput
<1>6. e.type = "List" <=> e.of.kind = "list"
    BY <1>2
<1> QED
    BY <1>1, <1>2, <1>3, <1>4, <1>5, <1>6

-----------------------------------------------------------------------------
(* The stack *)

\* The steps of the loop: t is s without its top element, and with x, or x and y,
\* in its place.
Popping(s, t)        == t = SubSeq(s, 1, Len(s) - 1)
Replacing(s, t, x)   == t = SubSeq(s, 1, Len(s) - 1) \o <<x>>
Covering(s, t, x, y) == t = SubSeq(s, 1, Len(s) - 1) \o <<x, y>>

\* Below the top, t is s.
Agree(s, t) == \A i \in 1..Len(s) : i < Len(s) => t[i] = s[i]

LEMMA StackIsSequence ==
    ASSUME NEW s, IsStack(s), NEW x, NEW y
    PROVE  \E S : s \in Seq(S) /\ x \in S /\ y \in S
<1>1. PICK n \in Nat : n = Len(s)
    BY DEF IsStack
<1>2. PICK S : S = {s[i] : i \in 1..n} \cup {x, y}
    OBVIOUS
<1>3. \A i \in 1..n : s[i] \in S
    BY <1>2
<1>4. s \in [1..n -> S]
    BY <1>1, <1>3 DEF IsStack
<1>5. s \in Seq(S)
    BY <1>4
<1> QED
    BY <1>2, <1>5

LEMMA SequenceIsStack == ASSUME NEW S, NEW s \in Seq(S) PROVE IsStack(s)
    BY DEF IsStack

LEMMA Pop ==
    ASSUME NEW s, IsStack(s), s # <<>>, NEW t, Popping(s, t)
    PROVE  IsStack(t) /\ Len(s) \in Nat \ {0} /\ Len(t) = Len(s) - 1 /\ Agree(s, t)
<1>1. PICK S : s \in Seq(S)
    BY StackIsSequence
<1>2. Len(s) \in Nat \ {0}
    BY <1>1
<1>k. PICK k \in Nat : k = Len(s) - 1
    BY <1>2
<1>3. t \in Seq(S) /\ Len(t) = k /\ \A i \in 1..k : t[i] = s[i]
    BY <1>1, <1>k DEF Popping
<1>4. IsStack(t)
    BY <1>3, SequenceIsStack
<1> QED
    BY <1>2, <1>k, <1>3, <1>4 DEF Agree

LEMMA Replace ==
    ASSUME NEW s, IsStack(s), s # <<>>, NEW t, NEW x, Replacing(s, t, x)
    PROVE  /\ IsStack(t) /\ Len(s) \in Nat \ {0} /\ Len(t) = Len(s) /\ Agree(s, t)
           /\ t[Len(s)] = x
<1>1. PICK S : s \in Seq(S) /\ x \in S
    BY StackIsSequence
<1>2. Len(s) \in Nat \ {0}
    BY <1>1
<1>3. PICK b : Popping(s, b)
    BY DEF Popping
<1>k. PICK k \in Nat : k = Len(s) - 1
    BY <1>2
<1>4. b \in Seq(S) /\ Len(b) = k /\ \A i \in 1..k : b[i] = s[i]
    BY <1>1, <1>3, <1>k DEF Popping
<1>6. t = b \o <<x>>
    BY <1>3 DEF Replacing, Popping
<1>7. t \in Seq(S) /\ Len(t) = k + 1 /\ t[k + 1] = x /\ \A i \in 1..k : t[i] = b[i]
    BY <1>1, <1>4, <1>6
<1>8. IsStack(t)
    BY <1>7, SequenceIsStack
<1> QED
    BY <1>2, <1>k, <1>4, <1>7, <1>8 DEF Agree

LEMMA Cover ==
    ASSUME NEW s, IsStack(s), s # <<>>, NEW t, NEW x, NEW y, Covering(s, t, x, y)
    PROVE  /\ IsStack(t) /\ Len(s) \in Nat \ {0} /\ Len(t) = Len(s) + 1 /\ Agree(s, t)
           /\ t[Len(s)] = x /\ t[Len(s) + 1] = y
<1>1. PICK S : s \in Seq(S) /\ x \in S /\ y \in S
    BY StackIsSequence
<1>2. Len(s) \in Nat \ {0}
    BY <1>1
<1>3. PICK b : Popping(s, b)
    BY DEF Popping
<1>k. PICK k \in Nat : k = Len(s) - 1
    BY <1>2
<1>4. b \in Seq(S) /\ Len(b) = k /\ \A i \in 1..k : b[i] = s[i]
    BY <1>1, <1>3, <1>k DEF Popping
<1>6. t = b \o <<x, y>>
    BY <1>3 DEF Covering, Popping
<1>7. t \in Seq(S) /\ Len(t) = k + 2 /\ \A i \in 1..k : t[i] = b[i]
    BY <1>1, <1>4, <1>6
<1>8. t[k + 1] = x /\ t[k + 2] = y
    BY <1>1, <1>4, <1>6
<1>9. IsStack(t)
    BY <1>7, SequenceIsStack
<1> QED
    BY <1>2, <1>k, <1>4, <1>7, <1>8, <1>9 DEF Agree

\* What the elements up to the top are to deliver depends on what is below it.
LEMMA WantedAgrees ==
    ASSUME NEW v, NEW s, NEW t, Len(s) \in Nat, Agree(s, t), NEW i \in 1..Len(s)
    PROVE  Wanted(v, t, i) = Wanted(v, s, i)
<1>1. CASE i = 1
    BY <1>1 DEF Wanted
<1>2. CASE i # 1
    <2>1. i - 1 \in 1..Len(s) /\ i - 1 < Len(s)
        BY <1>2
    <2>2. t[i - 1] = s[i - 1]
        BY <2>1 DEF Agree
    <2> QED
        BY <1>2, <2>2 DEF Wanted
<1> QED
    BY <1>1, <1>2

LEMMA PopInv ==
    ASSUME NEW v, NEW s, StackInv(v, s), s # <<>>, NEW t, Popping(s, t)
    PROVE  StackInv(v, t)
<1>1. IsStack(t) /\ Len(s) \in Nat \ {0} /\ Len(t) = Len(s) - 1 /\ Agree(s, t)
    BY Pop DEF StackInv
<1>2. \A i \in 1..Len(t) : i \in 1..Len(s) /\ i < Len(s)
    BY <1>1
<1>3. \A i \in 1..Len(t) : Collects(t[i])
    BY <1>1, <1>2 DEF Agree, StackInv
<1>4. \A i \in 1..Len(t) : Wanted(v, t, i) \in Input /\ Serves(t[i], Wanted(v, t, i))
    <2> TAKE i \in 1..Len(t)
    <2>1. i \in 1..Len(s) /\ t[i] = s[i]
        BY <1>1, <1>2 DEF Agree
    <2>2. Wanted(v, t, i) = Wanted(v, s, i)
        BY <1>1, <2>1, WantedAgrees
    <2> QED
        BY <2>1, <2>2 DEF StackInv
<1> QED
    BY <1>1, <1>3, <1>4 DEF StackInv

\* The top element is replaced by one that delivers the same.
LEMMA ReplaceInv ==
    ASSUME NEW v, NEW s, StackInv(v, s), s # <<>>, NEW t, NEW x, Replacing(s, t, x),
           Serves(x, Wanted(v, s, Len(s)))
    PROVE  StackInv(v, t)
<1>1. IsStack(t) /\ Len(s) \in Nat \ {0} /\ Len(t) = Len(s) /\ Agree(s, t) /\ t[Len(s)] = x
    BY Replace DEF StackInv
<1>2. \A i \in 1..Len(t) : i < Len(t) => Collects(t[i])
    BY <1>1 DEF Agree, StackInv
<1>3. \A i \in 1..Len(t) : Wanted(v, t, i) \in Input /\ Serves(t[i], Wanted(v, t, i))
    <2> TAKE i \in 1..Len(t)
    <2>1. i \in 1..Len(s)
        BY <1>1
    <2>2. Wanted(v, t, i) = Wanted(v, s, i)
        BY <1>1, <2>1, WantedAgrees
    <2>3. CASE i = Len(s)
        BY <1>1, <2>1, <2>2, <2>3 DEF StackInv
    <2>4. CASE i # Len(s)
        <3>1. t[i] = s[i]
            BY <1>1, <2>1, <2>4 DEF Agree
        <3> QED
            BY <2>1, <2>2, <3>1 DEF StackInv
    <2> QED
        BY <2>3, <2>4
<1> QED
    BY <1>1, <1>2, <1>3 DEF StackInv

\* The top element is replaced by one that delivers the same and waits for a value,
\* which is converted on top of it.
LEMMA CoverInv ==
    ASSUME NEW v, NEW s, StackInv(v, s), s # <<>>, NEW t, NEW x, NEW y, Covering(s, t, x, y),
           Collects(x), x.of = Wanted(v, s, Len(s)), y = Proto(Awaited(x))
    PROVE  StackInv(v, t)
<1>1. /\ IsStack(t) /\ Len(s) \in Nat \ {0} /\ Len(t) = Len(s) + 1 /\ Agree(s, t)
      /\ t[Len(s)] = x /\ t[Len(s) + 1] = y
    BY Cover DEF StackInv
<1>2. \A i \in 1..Len(t) : i < Len(t) => Collects(t[i])
    <2> SUFFICES ASSUME NEW i \in 1..Len(t), i < Len(t) PROVE Collects(t[i])
        OBVIOUS
    <2>1. i \in 1..Len(s)
        BY <1>1
    <2>2. CASE i = Len(s)
        BY <1>1, <2>2
    <2>3. CASE i # Len(s)
        BY <1>1, <2>1, <2>3 DEF Agree, StackInv
    <2> QED
        BY <2>2, <2>3
<1>3. \A i \in 1..Len(t) : Wanted(v, t, i) \in Input /\ Serves(t[i], Wanted(v, t, i))
    <2> TAKE i \in 1..Len(t)
    <2>1. CASE i = Len(s) + 1
        <3>1. Wanted(v, t, i) = Awaited(x)
            BY <1>1, <2>1 DEF Wanted
        <3>2. Awaited(x) \in Input
            BY CollectsShape
        <3> QED
            BY <1>1, <2>1, <3>1, <3>2 DEF Serves
    <2>2. CASE i # Len(s) + 1
        <3>1. i \in 1..Len(s)
            BY <1>1, <2>2
        <3>2. Wanted(v, t, i) = Wanted(v, s, i)
            BY <1>1, <3>1, WantedAgrees
        <3>3. CASE i = Len(s)
            BY <1>1, <3>1, <3>2, <3>3 DEF StackInv, Serves
        <3>4. CASE i # Len(s)
            <4>1. t[i] = s[i]
                BY <1>1, <3>1, <3>4 DEF Agree
            <4> QED
                BY <3>1, <3>2, <4>1 DEF StackInv
        <3> QED
            BY <3>3, <3>4
    <2> QED
        BY <2>1, <2>2
<1> QED
    BY <1>1, <1>2, <1>3 DEF StackInv

-----------------------------------------------------------------------------
(* The steps *)

\* The top element, and the value that it is to deliver.
TopServes(n, w) ==
    /\ n \in Nat \ {0} /\ n = Len(stack) /\ Top = stack[n]
    /\ w \in Input /\ w = Wanted(value, stack, n)
    /\ Serves(Top, w)
    /\ Top.type = "Value" => Top.value = Json(w)
    /\ Top.type = "Proto" => Top.of = w
    /\ Top.type \in {"List", "Map"} => Collects(Top) /\ Top.of = w

LEMMA TopOfStack ==
    ASSUME ParseInv, stack # <<>>
    PROVE  \E n, w : TopServes(n, w)
<1>1. PICK n : n = Len(stack)
    OBVIOUS
<1>2. n \in Nat /\ IsStack(stack)
    BY <1>1 DEF ParseInv, StackInv, IsStack
<1>3. PICK S : stack \in Seq(S)
    BY <1>2, StackIsSequence
<1>4. n # 0
    BY <1>1, <1>3
<1>5. n \in 1..Len(stack)
    BY <1>1, <1>2, <1>4
<1>6. PICK w : w = Wanted(value, stack, n)
    OBVIOUS
<1>7. w \in Input /\ Serves(stack[n], w)
    BY <1>5, <1>6 DEF ParseInv, StackInv
<1>8. CASE stack[n] = Proto(w)
    BY <1>1, <1>2, <1>4, <1>6, <1>7, <1>8 DEF Proto, TopServes, Top
<1>9. CASE stack[n] = Value(Json(w))
    BY <1>1, <1>2, <1>4, <1>6, <1>7, <1>9 DEF Value, TopServes, Top
<1>10. CASE Collects(stack[n]) /\ stack[n].of = w
    <2>1. stack[n].type \in {"List", "Map"}
        BY <1>10, CollectsShape
    <2> QED
        BY <1>1, <1>2, <1>4, <1>6, <1>7, <1>10, <2>1 DEF TopServes, Top
<1> QED
    BY <1>7, <1>8, <1>9, <1>10 DEF Serves

\* After a step that leaves an element on top that does not collect.
LEMMA OneOnTop ==
    ASSUME ParseInv, status' = "running", value' = value,
           NEW x, x.type \in {"Proto", "Value"},
           StackInv(value, stack'), Len(stack') \in Nat \ {0}, stack'[Len(stack')] = x
    PROVE  ParseInv'
<1>1. stack' # <<>>
    BY DEF StackInv, IsStack
<1>2. Top' = x
    BY DEF Top
<1>3. ParamInv'
    BY <1>1, <1>2 DEF ParamInv
<1>4. ConvertsFaithfully' /\ PanicsOnlyOnNaN'
    BY DEF ConvertsFaithfully, PanicsOnlyOnNaN
<1>5. value' \in Input /\ StackInv(value', stack')
    BY DEF ParseInv
<1> QED
    BY <1>3, <1>4, <1>5 DEF ParseInv

\* The top element has been converted.
LEMMA Converted ==
    ASSUME ParseInv, stack # <<>>, NEW n, NEW w, TopServes(n, w),
           status' = "running", value' = value, NEW j, j = Json(w), Replacing(stack, stack', Value(j))
    PROVE  ParseInv'
<1>1. PICK x : x = Value(j)
    OBVIOUS
<1>2. Serves(x, w) /\ x.type = "Value" /\ Replacing(stack, stack', x)
    BY <1>1 DEF Serves, Value
<1>3. StackInv(value, stack) /\ IsStack(stack) /\ Serves(x, Wanted(value, stack, Len(stack)))
    BY <1>2 DEF ParseInv, TopServes, StackInv
<1>4. StackInv(value, stack')
    BY <1>2, <1>3, ReplaceInv
<1>5. Len(stack') \in Nat \ {0} /\ stack'[Len(stack')] = x
    <2>1. Len(stack) \in Nat \ {0} /\ Len(stack') = Len(stack) /\ stack'[Len(stack)] = x
        BY <1>2, <1>3, Replace
    <2> QED
        BY <2>1
<1> QED
    BY <1>2, <1>4, <1>5, OneOnTop

\* The top element collects the values inside of w, and waits for the next one.
LEMMA Collecting ==
    ASSUME ParseInv, stack # <<>>, NEW n, NEW w, TopServes(n, w),
           status' = "running", value' = value, NEW x, Collects(x), x.of = w,
           NEW next, next = Awaited(x), Covering(stack, stack', x, Proto(next))
    PROVE  ParseInv'
<1>1. PICK y : y = Proto(next)
    OBVIOUS
<1>2. y = Proto(Awaited(x)) /\ y.type = "Proto" /\ Covering(stack, stack', x, y)
    BY <1>1 DEF Proto
<1>3. StackInv(value, stack) /\ IsStack(stack) /\ x.of = Wanted(value, stack, Len(stack))
    BY DEF ParseInv, TopServes, StackInv
<1>4. StackInv(value, stack')
    BY <1>2, <1>3, CoverInv
<1>5. Len(stack') \in Nat \ {0} /\ stack'[Len(stack')] = y
    <2>1. Len(stack) \in Nat \ {0} /\ Len(stack') = Len(stack) + 1 /\ stack'[Len(stack) + 1] = y
        BY <1>2, <1>3, Cover
    <2> QED
        BY <2>1
<1> QED
    BY <1>2, <1>4, <1>5, OneOnTop

\* A panic changes nothing but the status.
LEMMA PanicInv ==
    ASSUME ParseInv, Panic, PanicsOnlyOnNaN'
    PROVE  ParseInv'
    BY DEF ParseInv, Panic, ParamInv, ConvertsFaithfully

LEMMA PopValueInv == ASSUME ParseInv, PopValue PROVE ParseInv'
<1>1. status = "running" /\ stack # <<>> /\ Top.type = "Value"
    BY DEF PopValue, Popped
<1>2. PICK n, w : TopServes(n, w)
    BY <1>1, TopOfStack
<1>3. param' = Json(w) /\ Popping(stack, stack') /\ value' = value /\ status' = "running"
    BY <1>1, <1>2 DEF PopValue, TopServes, Popping, Below
<1>4. StackInv(value, stack) /\ IsStack(stack)
    BY DEF ParseInv, StackInv
<1>5. StackInv(value', stack')
    <2>1. StackInv(value, stack')
        BY <1>1, <1>3, <1>4, PopInv
    <2> QED
        BY <1>3, <2>1
<1>6. Len(stack') = n - 1 /\ Agree(stack, stack') /\ n = Len(stack) /\ n \in Nat \ {0} /\ IsStack(stack')
    <2>1. IsStack(stack') /\ Len(stack) \in Nat \ {0} /\ Len(stack') = Len(stack) - 1 /\ Agree(stack, stack')
        BY <1>1, <1>3, <1>4, Pop
    <2> QED
        BY <1>2, <2>1 DEF TopServes
<1>7. ParamInv'
    <2>1. CASE n = 1
        <3>1. w = value
            BY <1>2, <2>1 DEF TopServes, Wanted
        <3>2. stack' = <<>>
            BY <1>6, <2>1 DEF IsStack
        <3> QED
            BY <1>3, <3>1, <3>2 DEF ParamInv
    <2>2. CASE n # 1
        <3>1. w = Awaited(stack[n - 1])
            BY <1>2, <2>2 DEF TopServes, Wanted
        <3>2. n - 1 \in 1..Len(stack) /\ n - 1 < Len(stack)
            BY <1>6, <2>2
        <3>3. Top' = stack[n - 1]
            BY <1>6, <3>2 DEF Top, Agree
        <3>4. stack' # <<>>
            BY <1>6, <2>2
        <3> QED
            BY <1>3, <3>1, <3>3, <3>4 DEF ParamInv
    <2> QED
        BY <2>1, <2>2
<1>8. ConvertsFaithfully' /\ PanicsOnlyOnNaN' /\ value' \in Input
    BY <1>3 DEF ConvertsFaithfully, PanicsOnlyOnNaN, ParseInv
<1> QED
    BY <1>5, <1>7, <1>8 DEF ParseInv

\* An element that collects takes what it waits for.
Takes(w, m, part) ==
    /\ IsContainer(w) /\ m \in Nat /\ m < Len(Inside(w))
    /\ Top.of = w /\ Top.acc = Parts(w, m) /\ Len(Top.acc) = m
    /\ Top.type = IF w.kind = "list" THEN "List" ELSE "Map"
    /\ param # Taken /\ param = Json(Inside(w)[m + 1])
    /\ part = Part(w, m + 1)
    /\ part = IF w.kind = "list" THEN param ELSE [name |-> w.fields[m + 1].name, value |-> param]

LEMMA TakesParam ==
    ASSUME ParseInv, status = "running", stack # <<>>, Top.type \in {"List", "Map"},
           NEW n, NEW w, TopServes(n, w)
    PROVE  \E m, part : Takes(w, m, part)
<1>1. Collects(Top) /\ Top.of = w
    BY DEF TopServes
<1>2. PICK m \in Nat : /\ m < Len(Inside(w)) /\ Top.acc = Parts(w, m) /\ Len(Top.acc) = m
                       /\ Awaited(Top) = Inside(w)[m + 1]
    BY <1>1, CollectsShape
<1>3. IsContainer(w) /\ (Top.type = "List" <=> w.kind = "list") /\ Awaited(Top) \in Input
    BY <1>1, CollectsShape
<1>4. param = Json(Awaited(Top))
    BY DEF ParseInv, ParamInv
<1>5. param # Taken
    BY <1>3, <1>4, JsonAssumption
<1>6. PICK part : part = IF w.kind = "list" THEN param ELSE [name |-> w.fields[m + 1].name, value |-> param]
    OBVIOUS
<1>7. part = Part(w, m + 1)
    <2>1. CASE w.kind = "list"
        BY <1>2, <1>3, <1>4, <1>6, <2>1, InsideIsInput DEF Part
    <2>2. CASE w.kind = "struct"
        <3>1. Len(Inside(w)) = Len(w.fields) /\ w.fields \in Seq([name : STRING, value : Input])
            BY <1>3, <2>2, InsideIsInput, InputAssumption DEF IsContainer
        <3>2. m + 1 \in 1..Len(w.fields)
            BY <1>2, <3>1
        <3>3. Inside(w)[m + 1] = w.fields[m + 1].value
            BY <1>3, <2>2, <3>2, InsideIsInput
        <3> QED
            BY <1>2, <1>4, <1>6, <2>2, <3>3 DEF Part
    <2> QED
        BY <1>3, <2>1, <2>2 DEF IsContainer
<1>8. Top.type = IF w.kind = "list" THEN "List" ELSE "Map"
    BY <1>3
<1> QED
    BY <1>1, <1>2, <1>3, <1>4, <1>5, <1>6, <1>7, <1>8 DEF Takes

\* With one more part the element either goes on, or is the JSON of its value.
LEMMA CollectInv ==
    ASSUME ParseInv, stack # <<>>, NEW n, NEW w, TopServes(n, w), status' = "running", value' = value,
           NEW m \in Nat, m <= Len(Inside(w)), IsContainer(w), NEW elem, elem = Collector(w, Parts(w, m)),
           NEW finished, m = Len(Inside(w)) => finished = Json(w),
           m < Len(Inside(w)) => Covering(stack, stack', elem, Proto(Inside(w)[m + 1])),
           m = Len(Inside(w)) => Replacing(stack, stack', Value(finished))
    PROVE  ParseInv'
<1>1. CASE m < Len(Inside(w))
    <2>1. Collects(elem)
        BY <1>1 DEF Collects, IsContainer
    <2>2. elem.of = w /\ elem.acc = Parts(w, m)
        BY DEF Collector, List, Map
    <2>3. Len(elem.acc) = m
        BY <2>2, PartsAreSequence
    <2>4. PICK next : next = Inside(w)[m + 1]
        OBVIOUS
    <2>5. next = Awaited(elem) /\ Covering(stack, stack', elem, Proto(next))
        BY <1>1, <2>2, <2>3, <2>4 DEF Awaited
    <2> QED
        BY <2>1, <2>2, <2>5, Collecting
<1>2. CASE m = Len(Inside(w))
    BY <1>2, Converted
<1>3. Len(Inside(w)) \in Nat
    BY InsideIsInput
<1> QED
    BY <1>1, <1>2, <1>3

LEMMA PopListInv == ASSUME ParseInv, PopList PROVE ParseInv'
<1>1. status = "running" /\ stack # <<>> /\ Top.type = "List"
    BY DEF PopList, Popped
<1>2. PICK n, w : TopServes(n, w)
    BY <1>1, TopOfStack
<1>3. PICK m, part : Takes(w, m, part)
    BY <1>1, <1>2, TakesParam
<1>4. w.kind = "list" /\ param # Taken /\ part = param /\ Top.of = w /\ Top.acc = Parts(w, m)
    BY <1>1, <1>3 DEF Takes
<1>5. m \in Nat /\ m < Len(Inside(w)) /\ IsContainer(w) /\ part = Part(w, m + 1)
    BY <1>3 DEF Takes
<1>6. PICK k \in Nat : k = m + 1
    BY <1>5
<1>7. PICK acc : acc = Append(Top.acc, param)
    OBVIOUS
<1>8. acc = Parts(w, k)
    BY <1>4, <1>5, <1>6, <1>7, AppendPart
<1>9. Len(acc) = k
    BY <1>8, PartsAreSequence
<1>10. PICK elem : elem = List(w, acc)
    OBVIOUS
<1>11. elem.acc = acc /\ elem.of = w /\ elem = Collector(w, Parts(w, k))
    BY <1>4, <1>8, <1>10 DEF List, Collector
<1>12. Collect(elem, JsonArray(acc)) /\ status' = "running" /\ value' = value
    BY <1>1, <1>4, <1>7, <1>10 DEF PopList
<1>13. Len(Inside(w)) \in Nat /\ k <= Len(Inside(w))
    BY <1>5, <1>6, InsideIsInput
<1>14. PICK finished : finished = JsonArray(acc)
    OBVIOUS
<1>15. k = Len(Inside(w)) => finished = Json(w)
    BY <1>4, <1>5, <1>8, <1>14, JsonOfContainer
<1>16. k < Len(Inside(w)) => Covering(stack, stack', elem, Proto(Inside(w)[k + 1]))
    BY <1>9, <1>11, <1>12 DEF Collect, Covering, Below
<1>17. ASSUME k = Len(Inside(w)) PROVE Replacing(stack, stack', Value(finished))
    <2>1. ~(Len(elem.acc) < Len(Inside(elem.of)))
        BY <1>9, <1>11, <1>17
    <2>2. Collect(elem, finished)
        BY <1>12, <1>14
    <2> QED
        BY <2>1, <2>2 DEF Collect, Replacing, Below
<1> QED
    BY <1>1, <1>2, <1>5, <1>11, <1>12, <1>13, <1>15, <1>16, <1>17, CollectInv

LEMMA PopMapInv == ASSUME ParseInv, PopMap PROVE ParseInv'
<1>1. status = "running" /\ stack # <<>> /\ Top.type = "Map"
    BY DEF PopMap, Popped
<1>2. PICK n, w : TopServes(n, w)
    BY <1>1, TopOfStack
<1>3. PICK m, part : Takes(w, m, part)
    BY <1>1, <1>2, TakesParam
<1>4. /\ w.kind = "struct" /\ param # Taken /\ Top.of = w /\ Top.acc = Parts(w, m) /\ Len(Top.acc) = m
      /\ part = [name |-> w.fields[m + 1].name, value |-> param]
    BY <1>1, <1>3 DEF Takes, IsContainer
<1>5. m \in Nat /\ m < Len(Inside(w)) /\ IsContainer(w) /\ part = Part(w, m + 1)
    BY <1>3 DEF Takes
<1>6. PICK k \in Nat : k = m + 1
    BY <1>5
<1>7. PICK acc : acc = Append(Top.acc, [name |-> Top.of.fields[Len(Top.acc) + 1].name, value |-> param])
    OBVIOUS
<1>8. acc = Parts(w, k)
    <2>1. acc = Append(Parts(w, m), part)
        BY <1>4, <1>7
    <2> QED
        BY <1>5, <1>6, <2>1, AppendPart
<1>9. Len(acc) = k
    BY <1>8, PartsAreSequence
<1>10. PICK elem : elem = Map(w, acc)
    OBVIOUS
<1>11. elem.acc = acc /\ elem.of = w /\ elem = Collector(w, Parts(w, k))
    BY <1>4, <1>8, <1>10 DEF Map, Collector
<1>12. Collect(elem, JsonObject(acc)) /\ status' = "running" /\ value' = value
    BY <1>1, <1>4, <1>7, <1>10 DEF PopMap
<1>13. Len(Inside(w)) \in Nat /\ k <= Len(Inside(w))
    BY <1>5, <1>6, InsideIsInput
<1>14. PICK finished : finished = JsonObject(acc)
    OBVIOUS
<1>15. k = Len(Inside(w)) => finished = Json(w)
    BY <1>4, <1>5, <1>8, <1>14, JsonOfContainer
<1>16. k < Len(Inside(w)) => Covering(stack, stack', elem, Proto(Inside(w)[k + 1]))
    BY <1>9, <1>11, <1>12 DEF Collect, Covering, Below
<1>17. ASSUME k = Len(Inside(w)) PROVE Replacing(stack, stack', Value(finished))
    <2>1. ~(Len(elem.acc) < Len(Inside(elem.of)))
        BY <1>9, <1>11, <1>17
    <2>2. Collect(elem, finished)
        BY <1>12, <1>14
    <2> QED
        BY <2>1, <2>2 DEF Collect, Replacing, Below
<1> QED
    BY <1>1, <1>2, <1>5, <1>11, <1>12, <1>13, <1>15, <1>16, <1>17, CollectInv

LEMMA PopScalarInv == ASSUME ParseInv, PopScalar PROVE ParseInv'
<1>1. status = "running" /\ stack # <<>> /\ Top.type = "Proto" /\ Top.of.kind \in {"none", "scalar"}
    BY DEF PopScalar, Popped
<1>2. PICK n, w : TopServes(n, w)
    BY <1>1, TopOfStack
<1>3. Top.of = w /\ w \in Input
    BY <1>1, <1>2 DEF TopServes
<1>4. CASE Top.of.kind = "scalar" /\ Top.of.scalar = NaN /\ Panic
    <2>1. PanicsOnlyOnNaN'
        BY <1>1, <1>4 DEF PanicsOnlyOnNaN, Panic, Top
    <2> QED
        BY <1>4, <2>1, PanicInv
<1>5. CASE /\ stack' = Append(Below, Value(IF Top.of.kind = "none" THEN Null ELSE JsonScalar(Top.of.scalar)))
           /\ UNCHANGED <<value, param, status>>
    <2>1. PICK j : j = IF w.kind = "none" THEN Null ELSE JsonScalar(w.scalar)
        OBVIOUS
    <2>2. j = Json(w)
        BY <1>1, <1>3, <2>1, JsonAssumption
    <2>3. stack' = Append(Below, Value(j)) /\ value' = value /\ status' = "running"
        BY <1>1, <1>3, <1>5, <2>1
    <2>4. Replacing(stack, stack', Value(j))
        <3>1. PICK b : Popping(stack, b)
            BY DEF Popping
        <3>2. IsStack(stack)
            BY DEF ParseInv, StackInv
        <3>3. IsStack(b)
            BY <1>1, <3>1, <3>2, Pop
        <3>4. PICK x : x = Value(j)
            OBVIOUS
        <3>5. PICK S : b \in Seq(S) /\ x \in S
            BY <3>3, StackIsSequence
        <3>6. Append(b, x) = b \o <<x>>
            BY <3>5
        <3> QED
            BY <2>3, <3>1, <3>4, <3>6 DEF Replacing, Popping, Below
    <2> QED
        BY <1>1, <1>2, <2>2, <2>3, <2>4, Converted
<1> QED
    BY <1>4, <1>5 DEF PopScalar

LEMMA PopContainerInv == ASSUME ParseInv, PopContainer PROVE ParseInv'
<1>1. status = "running" /\ stack # <<>> /\ Top.type = "Proto" /\ Top.of.kind \in {"list", "struct"}
    BY DEF PopContainer, Popped
<1>2. PICK n, w : TopServes(n, w)
    BY <1>1, TopOfStack
<1>3. Top.of = w /\ w \in Input /\ IsContainer(w)
    BY <1>1, <1>2 DEF TopServes, IsContainer
<1>4. PICK elem : elem = IF w.kind = "list" THEN List(w, <<>>) ELSE Map(w, <<>>)
    OBVIOUS
<1>5. PICK empty : empty = IF w.kind = "list" THEN JsonArray(<<>>) ELSE JsonObject(<<>>)
    OBVIOUS
<1>6. Open(elem, empty) /\ value' = value /\ status' = "running"
    BY <1>1, <1>3, <1>4, <1>5 DEF PopContainer
<1>7. elem.of = w /\ elem = Collector(w, Parts(w, 0))
    BY <1>4, NoParts DEF List, Map, Collector
<1>8. Inside(w) \in Seq(Input) /\ Len(Inside(w)) \in Nat /\ 0 <= Len(Inside(w))
    BY <1>3, InsideIsInput
<1>9. Inside(w) = <<>> <=> Len(Inside(w)) = 0
    BY <1>8
<1>10. PICK m \in Nat : m = 0
    OBVIOUS
<1>11. ASSUME m < Len(Inside(w)) PROVE Covering(stack, stack', elem, Proto(Inside(w)[m + 1]))
    <2>1. Inside(elem.of) # <<>>
        BY <1>7, <1>9, <1>10, <1>11
    <2>2. Inside(w)[m + 1] = Inside(elem.of)[1]
        BY <1>7, <1>10
    <2> QED
        BY <1>6, <2>1, <2>2 DEF Open, Covering, Below
<1>12. m = Len(Inside(w)) => Replacing(stack, stack', Value(empty))
    BY <1>6, <1>7, <1>9, <1>10 DEF Open, Replacing, Below
<1>13. m = Len(Inside(w)) => empty = Json(w)
    BY <1>3, <1>5, <1>10, JsonOfContainer, NoParts
<1>14. m <= Len(Inside(w)) /\ elem = Collector(w, Parts(w, m))
    BY <1>7, <1>8, <1>10
<1> QED
    BY <1>1, <1>2, <1>3, <1>6, <1>11, <1>12, <1>13, <1>14, CollectInv

LEMMA ReturnInv == ASSUME ParseInv, Return PROVE ParseInv'
<1>1. param = Json(value)
    BY DEF ParseInv, ParamInv, Return
<1>2. param # Taken
    BY <1>1, JsonAssumption DEF ParseInv
<1>3. status' = "done" /\ UNCHANGED <<value, stack, param>>
    BY <1>2 DEF Return
<1> QED
    BY <1>1, <1>3 DEF ParseInv, ParamInv, ConvertsFaithfully, PanicsOnlyOnNaN

LEMMA ParseInitInv == ParseInit => ParseInv
<1> SUFFICES ASSUME ParseInit PROVE ParseInv
    OBVIOUS
<1>1. value \in Input /\ status = "running" /\ stack = <<Proto(value)>>
    BY DEF ParseInit
<1>2. Len(stack) = 1 /\ stack[1] = Proto(value) /\ IsStack(stack) /\ stack # <<>>
    BY <1>1 DEF IsStack
<1>3. StackInv(value, stack)
    BY <1>1, <1>2 DEF StackInv, Wanted, Serves
<1>4. Top.type = "Proto"
    BY <1>2 DEF Top, Proto
<1> QED
    BY <1>1, <1>2, <1>3, <1>4 DEF ParseInv, ParamInv, ConvertsFaithfully, PanicsOnlyOnNaN

LEMMA ParseStep == ParseInv /\ [ParseNext]_parseVars => ParseInv'
<1> SUFFICES ASSUME ParseInv, [ParseNext]_parseVars PROVE ParseInv'
    OBVIOUS
<1>1. CASE UNCHANGED parseVars
    BY <1>1 DEF ParseInv, ParamInv, ConvertsFaithfully, PanicsOnlyOnNaN, Top, parseVars
<1>2. CASE ParseDone
    BY <1>1, <1>2 DEF ParseDone
<1> QED
    BY <1>1, <1>2, PopValueInv, PopListInv, PopMapInv, PopScalarInv, PopContainerInv, ReturnInv DEF ParseNext

\* For values of any size and nesting, the conversion (parse_value) panics on
\* nothing but a number that JSON does not have.
THEOREM OnlyNaNPanics == ParseSpec => []PanicsOnlyOnNaN
<1>1. ParseInv => PanicsOnlyOnNaN
    BY DEF ParseInv
<1> QED
    BY <1>1, ParseInitInv, ParseStep, PTL DEF ParseSpec

\* For values of any size and nesting, what the conversion (parse_value) returns is
\* what the recursive definition of JSON gives.
THEOREM ConversionIsFaithful == ParseSpec => []ConvertsFaithfully
<1>1. ParseInv => ConvertsFaithfully
    BY DEF ParseInv
<1> QED
    BY <1>1, ParseInitInv, ParseStep, PTL DEF ParseSpec
=============================================================================
