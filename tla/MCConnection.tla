---------------------------- MODULE MCConnection ----------------------------
(***************************************************************************)
(* Instances of Connection for TLC: three calls, two nodes, and the three   *)
(* ways of discovering one (a single host, gossip seeds, DNS).              *)
(***************************************************************************)
EXTENDS Connection

CONSTANTS n1, n2

With(hosts, dns, attempts_) ==
    [hosts |-> hosts, dns_discover |-> dns, max_discover_attempts |-> attempts_]

\* DNS discovery asks one name, so that one failed question ends an attempt;
\* with seeds an attempt has as many questions as hosts.
Discoveries == {With(<<n1>>, FALSE, 3), With(<<n1, n2>>, FALSE, 3), With(<<n1>>, TRUE, 3)}

SingleHost  == {With(<<n1>>, FALSE, 2)}
OneAttempt  == {With(<<n1>>, FALSE, 1)}
=============================================================================
