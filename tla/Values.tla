------------------------------- MODULE Values -------------------------------
(***************************************************************************)
(* Values as the client converts them: integers of a width, durations, and   *)
(* JSON as serde_json writes and reads it, down to what kurrentdb/src/types.rs *)
(* tells apart.  A JSON value carries its type; an object that is written     *)
(* field by field is a family of entries, in which nothing stops a key from   *)
(* occurring twice.                                                        *)
(***************************************************************************)
EXTENDS Integers, Sequences, SequencesExt

CONSTANTS None,           \* Option::None
          Invalid,        \* what does not parse
          TicksPerMilli,  \* Duration: ticks in a millisecond
          I32, U64        \* how many values i32 and u64 have, scaled down

ASSUME WidthsAssumption ==
    TicksPerMilli \in Nat \ {0} /\ I32 \in Nat \ {0} /\ I32 % 2 = 0 /\ U64 \in Nat \ {0}

\* Conversions with `as`, which drop what does not fit.
AsI32(n) == ((n + I32 \div 2) % I32) - I32 \div 2
AsU64(n) == n % U64

as_millis(d)   == d \div TicksPerMilli
from_millis(n) == n * TicksPerMilli

Num(n)  == <<"number", n>>
Str(s)  == <<"string", s>>
Arr(s)  == <<"array", s>>
Obj(f)  == <<"object", f>>
Null    == <<"null">>

Entry(k, v) == [key |-> k, value |-> v]
Keys(doc)   == {doc[i].key : i \in DOMAIN doc}

\* The value of a key that occurs once.
ValueOf(doc, k) == doc[CHOOSE i \in DOMAIN doc : doc[i].key = k].value

Repeated(doc, k) == \E i, j \in DOMAIN doc : i # j /\ doc[i].key = k /\ doc[j].key = k
=============================================================================
