----------------------------- MODULE ParseValue -----------------------------
(***************************************************************************)
(* The conversion of a projection's state or result from a protobuf Value   *)
(* to JSON (parse_value in kurrentdb/src/projection_client.rs).             *)
(*                                                                         *)
(* The conversion does not recurse: it keeps its own stack of elements, and *)
(* hands the value of a finished element to the one below it in param.      *)
(* Strings stand for the scalars; an iterator is the sequence it goes over  *)
(* and the number of elements it has yielded.                               *)
(***************************************************************************)
EXTENDS Naturals, Sequences

CONSTANTS
    Input,   \* the protobuf values to convert, and those inside of them
    Json(_), \* the JSON that a value stands for, by recursion over its nesting
    NaN,     \* the number that serde_json::Number::from_f64 refuses
    Taken    \* Option::None, what is left of a parameter that was taken

\* prost_types::Value: a scalar, a list, a struct whose fields a BTreeMap yields
\* in the order of their names, each once, or nothing at all.
Fields(v) == [i \in DOMAIN v.fields |-> v.fields[i].value]

\* The values inside a list or a struct, in the order of the iterator.
Inside(v) == IF v.kind = "list" THEN v.items ELSE Fields(v)

Null            == [json |-> "scalar", scalar |-> "null"]
JsonScalar(x)   == [json |-> "scalar", scalar |-> x]
JsonArray(acc)  == [json |-> "array", items |-> acc]
JsonObject(acc) == [json |-> "object", fields |-> acc]

\* The kinds of values there are; what is inside of a value is a value.
ASSUME InputAssumption ==
    \A v \in Input :
        /\ v.kind \in {"none", "scalar", "list", "struct"}
        /\ v.kind = "list" => v.items \in Seq(Input)
        /\ v.kind = "struct" => v.fields \in Seq([name : STRING, value : Input])

\* What the conversion is to compute.  No JSON value is Option::None.
ASSUME JsonAssumption ==
    \A v \in Input :
        /\ v.kind = "none" => Json(v) = Null
        /\ v.kind = "scalar" => Json(v) = JsonScalar(v.scalar)
        /\ v.kind = "list" => Json(v) = JsonArray([i \in DOMAIN v.items |-> Json(v.items[i])])
        /\ v.kind = "struct" =>
              Json(v) = JsonObject([i \in DOMAIN v.fields |->
                            [name |-> v.fields[i].name, value |-> Json(v.fields[i].value)]])
        /\ Json(v) # Taken

VARIABLES
    value,   \* the argument
    stack,   \* the elements under conversion, the top one last
    param,   \* the value of the element converted last, until it is taken
    status   \* "running", "done" or "panicked"

parseVars == <<value, stack, param, status>>

Proto(v)     == [type |-> "Proto", of |-> v]
Value(j)     == [type |-> "Value", value |-> j]
List(v, acc) == [type |-> "List", of |-> v, acc |-> acc]
Map(v, acc)  == [type |-> "Map", of |-> v, acc |-> acc]

ParseInit ==
    /\ value \in Input
    /\ stack = <<Proto(value)>>
    /\ param = Taken
    /\ status = "running"

-----------------------------------------------------------------------------
(* The loop: one action per kind of element *)

Top     == stack[Len(stack)]
Below   == SubSeq(stack, 1, Len(stack) - 1)
Popped(type) == status = "running" /\ stack # <<>> /\ Top.type = type

PopValue ==
    /\ Popped("Value")
    /\ param' = Top.value
    /\ stack' = Below
    /\ UNCHANGED <<value, status>>

\* param.take().expect("to be defined"), on an element that collects values.
Panic ==
    /\ status' = "panicked"
    /\ UNCHANGED <<value, stack, param>>

\* Mutant of Collect: the element goes on while its iterator has yielded all but
\* one of its values.
Collect_Short(elem, finished) ==
    stack' = Below \o IF Len(elem.acc) + 1 < Len(Inside(elem.of))
                      THEN <<elem, Proto(Inside(elem.of)[Len(elem.acc) + 1])>>
                      ELSE <<Value(finished)>>

\* An element took one more value: if its iterator yields another one, that is
\* converted next, otherwise the element is finished.
Collect(elem, finished) ==
    stack' = Below \o IF Len(elem.acc) < Len(Inside(elem.of))
                      THEN <<elem, Proto(Inside(elem.of)[Len(elem.acc) + 1])>>
                      ELSE <<Value(finished)>>

PopList ==
    /\ Popped("List")
    /\ \/ param = Taken /\ Panic
       \/ /\ param # Taken
          /\ LET acc == Append(Top.acc, param)
             IN  Collect(List(Top.of, acc), JsonArray(acc))
          /\ param' = Taken
          /\ UNCHANGED <<value, status>>

\* The object has the names of its fields in the order they were inserted; the
\* name of the value being taken is the scope of the element.
PopMap ==
    /\ Popped("Map")
    /\ \/ param = Taken /\ Panic
       \/ /\ param # Taken
          /\ LET acc == Append(Top.acc, [name |-> Top.of.fields[Len(Top.acc) + 1].name,
                                         value |-> param])
             IN  Collect(Map(Top.of, acc), JsonObject(acc))
          /\ param' = Taken
          /\ UNCHANGED <<value, status>>

\* kind is None, or a scalar.
PopScalar ==
    /\ Popped("Proto")
    /\ Top.of.kind \in {"none", "scalar"}
    /\ \/ Top.of.kind = "scalar" /\ Top.of.scalar = NaN /\ Panic
       \/ /\ Top.of.kind = "scalar" => Top.of.scalar # NaN
          /\ stack' = Append(Below, Value(IF Top.of.kind = "none" THEN Null
                                          ELSE JsonScalar(Top.of.scalar)))
          /\ UNCHANGED <<value, param, status>>

\* Mutant of Open: an empty list or struct is left on the stack.
Open_Empty(elem, empty) ==
    stack' = Below \o IF Inside(elem.of) # <<>>
                      THEN <<elem, Proto(Inside(elem.of)[1])>>
                      ELSE <<elem>>

\* A list or a struct: its first value is converted next, if there is one.
Open(elem, empty) ==
    stack' = Below \o IF Inside(elem.of) # <<>>
                      THEN <<elem, Proto(Inside(elem.of)[1])>>
                      ELSE <<Value(empty)>>

PopContainer ==
    /\ Popped("Proto")
    /\ \/ Top.of.kind = "list" /\ Open(List(Top.of, <<>>), JsonArray(<<>>))
       \/ Top.of.kind = "struct" /\ Open(Map(Top.of, <<>>), JsonObject(<<>>))
    /\ UNCHANGED <<value, param, status>>

\* param.expect("not empty")
Return ==
    /\ status = "running"
    /\ stack = <<>>
    /\ status' = IF param = Taken THEN "panicked" ELSE "done"
    /\ UNCHANGED <<value, stack, param>>

ParseDone == status # "running" /\ UNCHANGED parseVars

ParseNext == PopValue \/ PopList \/ PopMap \/ PopScalar \/ PopContainer \/ Return \/ ParseDone

ParseSpec == ParseInit /\ [][ParseNext]_parseVars

-----------------------------------------------------------------------------
(* Properties *)

\* Whatever the value, the conversion panics only on a number that JSON does not
\* have: an element always finds the value it expects in param.
PanicsOnlyOnNaN ==
    status = "panicked" =>
        stack # <<>> /\ Top.type = "Proto" /\ Top.of.kind = "scalar" /\ Top.of.scalar = NaN

\* What parse_value returns is the value it was given, whatever its nesting: no
\* value is lost, moved to another list or given another name.
ConvertsFaithfully == status = "done" => param = Json(value)
=============================================================================
