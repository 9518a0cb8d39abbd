--------------------------- MODULE StreamMetadata ---------------------------
(***************************************************************************)
(* The metadata of a stream, the builders that make it and the JSON document *)
(* that carries it (kurrentdb/src/types.rs).  The fields of StreamMetadata   *)
(* go by the names they have in the document: $maxCount, $maxAge, $tb        *)
(* (truncate_before), $cacheControl and $acl; those of StreamAcl are $r, $w, *)
(* $d, $mr and $mw.                                                        *)
(***************************************************************************)
EXTENDS Values

Counters   == {"$maxCount", "$tb"}
Durations  == {"$maxAge", "$cacheControl"}
SystemKeys == Counters \cup Durations \cup {"$acl"}
RoleKeys   == {"$r", "$w", "$d", "$mr", "$mw"}

-----------------------------------------------------------------------------
(* Builders.  A setter replaces what was set before; roles accumulate.       *)

StreamMetadataBuilder ==
    [fields |-> [k \in SystemKeys |-> None], custom_properties |-> <<>>]

With(m, k, v) == [m EXCEPT !.fields[k] = v]

insert_custom_property(m, k, v) ==
    [m EXCEPT !.custom_properties =
        [x \in DOMAIN @ \cup {k} |-> IF x = k THEN v ELSE m.custom_properties[x]]]

StreamAclBuilder == [k \in RoleKeys |-> None]

add_roles(acl, k, role) ==
    [acl EXCEPT ![k] = IF @ = None THEN <<role>> ELSE Append(@, role)]

UserStream   == <<"UserStream">>
SystemStream == <<"SystemStream">>
Stream(acl)  == <<"Stream", acl>>

\* What the builders make.
IsAcl(v) ==
    \/ v = UserStream \/ v = SystemStream
    \/ /\ v = Stream(v[2])
       /\ v[2] \in [RoleKeys -> {None} \cup Seq(STRING)]

IsMetadata(m) ==
    /\ m = [fields |-> m.fields, custom_properties |-> m.custom_properties]
    /\ m.fields = [k \in SystemKeys |-> m.fields[k]]
    /\ \A k \in Counters \cup Durations : m.fields[k] \in {None} \cup Nat
    /\ m.fields["$acl"] = None \/ IsAcl(m.fields["$acl"])
    /\ m.custom_properties = [k \in DOMAIN m.custom_properties |-> m.custom_properties[k]]

-----------------------------------------------------------------------------
(* Writing.  Fields that are None are left out; the custom properties are    *)
(* flattened into the same object.  The order of the entries is left open:   *)
(* an entry stands where its field or its custom property does.              *)

\* Mutant of serialize_roles: only the first role is written.
serialize_roles_First(roles) == IF Len(roles) > 0 THEN Str(roles[1]) ELSE Arr(roles)

\* A single role is written as a string.
serialize_roles(roles) == IF Len(roles) = 1 THEN Str(roles[1]) ELSE Arr(roles)

serialize_acl(acl) ==
    CASE acl = UserStream   -> Str("$userStreamAcl")
      [] acl = SystemStream -> Str("$systemStreamAcl")
      [] OTHER -> LET set == {k \in RoleKeys : acl[2][k] # None}
                  IN  Obj([k \in set |-> serialize_roles(acl[2][k])])

\* as_millis() as u64.
serialize_duration(d) == Num(AsU64(as_millis(d)))

SerializeField(k, v) ==
    CASE k \in Counters  -> Num(v)
      [] k \in Durations -> serialize_duration(v)
      [] OTHER           -> serialize_acl(v)

Serialize(m) ==
    LET set == {k \in SystemKeys : m.fields[k] # None}
    IN  [place \in ({"field"} \X set) \cup ({"custom"} \X DOMAIN m.custom_properties) |->
            IF place[1] = "field" THEN Entry(place[2], SerializeField(place[2], m.fields[place[2]]))
            ELSE Entry(place[2], m.custom_properties[place[2]])]

-----------------------------------------------------------------------------
(* Reading: DurationVisitor, RolesVisitor and AclVisitor, which accept no    *)
(* null, and the derived implementations, which do.                          *)

deserialize_roles(v) ==
    CASE v[1] = "string" -> <<v[2]>>
      [] v[1] = "array"  -> v[2]
      [] OTHER           -> Invalid

deserialize_acl(v) ==
    CASE v = Str("$userStreamAcl")   -> UserStream
      [] v = Str("$systemStreamAcl") -> SystemStream
      [] v[1] = "object" ->
             LET acl == [k \in RoleKeys |->
                            IF k \in DOMAIN v[2] THEN deserialize_roles(v[2][k]) ELSE None]
             IN  IF \E k \in DOMAIN acl : acl[k] = Invalid THEN Invalid ELSE Stream(acl)
      [] OTHER -> Invalid

deserialize_duration(v) == IF v[1] = "number" THEN from_millis(v[2]) ELSE Invalid

deserialize_number(v) == IF v = Null THEN None ELSE IF v[1] = "number" THEN v[2] ELSE Invalid

DeserializeField(k, v) ==
    CASE k \in Durations -> deserialize_duration(v)
      [] k = "$acl"      -> deserialize_acl(v)
      [] k \in Counters  -> deserialize_number(v)

\* A field that occurs twice is refused; what is no field is a custom property.
Deserialize(doc) ==
    LET system == Keys(doc) \cap SystemKeys
        fields == [k \in SystemKeys |->
                      IF k \in system THEN DeserializeField(k, ValueOf(doc, k)) ELSE None]
    IN  IF \E k \in system : Repeated(doc, k) \/ fields[k] = Invalid THEN Invalid
        ELSE [fields |-> fields,
              custom_properties |-> [k \in Keys(doc) \ system |-> ValueOf(doc, k)]]

-----------------------------------------------------------------------------
\* Metadata with no custom property of the name of a field, and with durations
\* that a u64 of milliseconds can hold: what the document can express.
Expressible(m) ==
    /\ DOMAIN m.custom_properties \cap SystemKeys = {}
    /\ \A k \in Durations :
          m.fields[k] # None => as_millis(m.fields[k]) < U64

\* m, with its durations in whole milliseconds.
WholeMillis(m) ==
    [fields |-> [k \in SystemKeys |->
                    IF k \in Durations /\ m.fields[k] # None
                    THEN from_millis(as_millis(m.fields[k])) ELSE m.fields[k]],
     custom_properties |-> m.custom_properties]
=============================================================================
