----------------------------- MODULE MCSettings -----------------------------
(***************************************************************************)
(* Instances of Settings for TLC: every string with up to three seeds, with *)
(* and without a port, and up to two parameters.                           *)
(***************************************************************************)
EXTENDS Settings, SequencesExt, TLC

CONSTANTS h, g, user, plain, comma, slash

SomeTexts == {plain, comma, slash}
SomeSlashed == (plain :> plain) @@ (comma :> slash) @@ (slash :> slash)

Seeds == [host : {h, g}, port : {None, 1, 2, Unparsable, Excess}]

Params ==
    [name : Unsigned, value : {-1, 0, 7, Unparsable}]
        \cup [name : Booleans, value : {TRUE, FALSE, Unparsable}]
        \cup [name : {"nodepreference"}, value : {"leader", "random", Unparsable}]
        \cup [name : Signed, value : {-2, -1, 0, 5, 6, Unparsable}]
        \cup [name : Textual, value : {plain, comma}]
        \cup [name : {"unknown"}, value : {plain}]

Make(schemes, seeds, paths, params) ==
    [scheme : schemes, discover : {FALSE}, user : {None}, seeds : seeds, path : paths,
     params : params]

NoParams == {<<>>}

\* Strings whose hosts matter, and strings whose parameters do.
HostStrings == Make({"esdb"}, SeqOf(Seeds, 3), {"", "/", Rest}, NoParams)
SchemeStrings ==
    [scheme : SUPPORTED_PROTOCOLS \cup {"http"}, discover : BOOLEAN, user : {None, user},
     seeds : SeqOf(Seeds, 1), path : {"", "/", Rest}, params : NoParams]
ParamStrings ==
    Make({"esdb"}, {<<Seed(h)>>, <<[host |-> h, port |-> 1], Seed(h)>>}, {""}, SeqOf(Params, 2))
CertificateStrings ==
    Make({"esdb"}, {<<Seed(h)>>}, {""},
         SeqOf([name : {"usercertfile", "userkeyfile", "tlscafile"}, value : {plain}], 3))
AllStrings == HostStrings \cup SchemeStrings \cup ParamStrings \cup CertificateStrings
=============================================================================
