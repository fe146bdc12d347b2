---------------------------- MODULE Deserializer ----------------------------
(***************************************************************************)
(* The deserializer combinators of deserialize/: what deserialize<D, H>    *)
(* makes of a slice.                                                       *)
(*                                                                         *)
(* A deserializer is a record that names its plan and its factory.  A      *)
(* slice is a velocypack value: NoSlice (what Slice::get returns for a     *)
(* field that is not there), a scalar, an array or an object; an object    *)
(* keeps its fields in order, under different keys.  Results carry the     *)
(* trace of an error, outermost step first.                                *)
(***************************************************************************)
EXTENDS Node

CONSTANTS
  Build(_, _),      \* what a factory makes of the values a plan has read
  Definitions,      \* the deserializers unpack_proxy stands for, by name
  Deserializers,    \* the deserializers of a program, and what they consist of
  MaxNesting        \* bound: how deep calls of deserialize are nested

-----------------------------------------------------------------------------
(* Slices.                                                                 *)
NoSlice == [kind |-> "none"]
FieldOf(name, slice) == [name |-> name, slice |-> slice]
ObjectSlice(fields)  == [kind |-> "object", fields |-> fields]

Names(s) == {f.name : f \in Range(s.fields)}

GetField(s, name) ==
  IF name \in Names(s) THEN (CHOOSE f \in Range(s.fields) : f.name = name).slice ELSE NoSlice

(* The slices: of scalars, at most MaxDepth levels deep (a bound), the     *)
(* fields of an object under different keys.  An object that repeats a key *)
(* is left out: velocypack may make one, and refuses it only when the      *)
(* option checkAttributeUniqueness is set.                                 *)
Scalars ==
  [kind : {"null"}] \cup [kind : {"bool"}, bool : BOOLEAN]
    \cup [kind : {"number"}, number : Int] \cup [kind : {"string"}, string : STRING]

Fields(slices) ==
  {fields \in Seq([name : Keys, slice : slices]) :
     \A i, j \in DOMAIN fields : fields[i].name = fields[j].name => i = j}

Slices ==
  LET slices[d \in 0..MaxDepth] ==
        IF d = 0 THEN Scalars
        ELSE Scalars \cup [kind : {"array"},  elems  : Seq(slices[d - 1])]
                     \cup [kind : {"object"}, fields : Fields(slices[d - 1])]
  IN  slices[MaxDepth]

-----------------------------------------------------------------------------
(* Results.  Throws stands for an exception of velocypack, which reads a   *)
(* field of what is no object, or prints a slice that is not there.        *)
Ok(value)      == [status |-> "ok", value |-> value]
Error(message) == [status |-> "error", message |-> message, trace |-> <<>>]
Throws         == [status |-> "throws"]

IsOk(result) == result.status = "ok"

(* The steps of a trace are names and indices, from 0.                     *)
Index(i) == [index |-> i - 1]

TracedBy(step, result) ==
  IF result.status = "error" THEN [result EXCEPT !.trace = <<step>> \o @] ELSE result

(* The values of results computed in order, or the first that is none.     *)
AllOf(results) ==
  LET failed == {i \in DOMAIN results : ~IsOk(results[i])}
  IN  IF failed = {} THEN Ok([i \in DOMAIN results |-> results[i].value])
                     ELSE results[Min(failed)]

-----------------------------------------------------------------------------
(* Deserializers and their parts.                                          *)
Value(type) == [plan |-> "value", type |-> type, factory |-> "identity"]
ParameterList(params, factory) == [plan |-> "parameters", params |-> params, factory |-> factory]
ArrayOf(element)  == [plan |-> "array", element |-> element, factory |-> "identity"]
MapOf(member)     == [plan |-> "map", member |-> member, factory |-> "identity"]
FixedOrder(elements, factory) == [plan |-> "tuple", elements |-> elements, factory |-> factory]
Attribute(name, of) == [plan |-> "attribute", name |-> name, of |-> of, factory |-> "identity"]
FieldNameDependent(pairs) == [plan |-> "field_name", pairs |-> pairs, factory |-> "identity"]
FieldValueDependent(name, pairs) ==
  [plan |-> "field_value", name |-> name, pairs |-> pairs, factory |-> "identity"]
ObjectOr(object, default) ==
  [plan |-> "conditional", object |-> object, default |-> default, factory |-> "identity"]
NonEmpty(of)      == [plan |-> "validate", of |-> of, factory |-> "identity"]
Proxy(name)       == [plan |-> "proxy", name |-> name, factory |-> "identity"]

(* Parameters: what stands for a missing one follows from required.        *)
Parameter(name, of)         == [param |-> "value", name |-> name, of |-> of, required |-> TRUE]
Optional(name, of, default) ==
  [param |-> "value", name |-> name, of |-> of, required |-> FALSE, default |-> default]
SliceParameter(name)        == [param |-> "slice", name |-> name, required |-> TRUE]
Expected(name, value)       == [param |-> "expected", name |-> name, value |-> value]

(* The parts of a deserializer are deserializers.                          *)
IgnoringHints == {"value", "array", "tuple", "field_name", "field_value", "conditional"}

IsParameter(p) ==
  /\ p.param \in {"value", "slice", "expected"} /\ p.name \in Keys
  /\ p.param = "value"    => p.of \in Deserializers
  /\ p.param = "slice"    => p.required
  /\ p.param = "expected" => p.value # NoSlice

(* Two parameters have different names, and so have the alternatives of a  *)
(* value different values; a map, which hands on hints about itself, has   *)
(* members that use none; what must not be empty is a string or an array.  *)
IsDeserializer(d) ==
  \/ d.plan = "value"
  \/ /\ d.plan = "parameters" /\ d.params \in Seq(Range(d.params))
     /\ \A i, j \in DOMAIN d.params : d.params[i].name = d.params[j].name => i = j
     /\ \A i \in DOMAIN d.params : IsParameter(d.params[i])
  \/ d.plan = "array" /\ d.element \in Deserializers
  \/ d.plan = "map" /\ d.member \in Deserializers /\ d.member.plan \in IgnoringHints
  \/ d.plan = "tuple" /\ d.elements \in Seq(Deserializers)
  \/ d.plan = "attribute" /\ d.name \in Keys /\ d.of \in Deserializers
  \/ /\ d.plan = "field_name" /\ d.pairs \in Seq(Range(d.pairs))
     /\ \A i \in DOMAIN d.pairs : d.pairs[i].name \in Keys /\ d.pairs[i].of \in Deserializers
  \/ /\ d.plan = "field_value" /\ d.pairs \in Seq(Range(d.pairs)) /\ d.name \in Keys
     /\ \A i, j \in DOMAIN d.pairs : d.pairs[i].value = d.pairs[j].value => i = j
     /\ \A i \in DOMAIN d.pairs : d.pairs[i].value # NoSlice /\ d.pairs[i].of \in Deserializers
  \/ d.plan = "conditional" /\ d.object \in Deserializers /\ d.default \in Deserializers
  \/ /\ d.plan = "validate" /\ d.of \in Deserializers /\ d.of.factory = "identity"
     /\ d.of = Value("string") \/ d.of.plan = "array"
  \/ d.plan = "proxy" /\ Definitions[d.name] \in Deserializers

ASSUME DeserializersAssumption == \A d \in Deserializers : IsDeserializer(d)

ASSUME NestingAssumption == MaxNesting \in Nat

(* Hints: what the caller knows of the slice, with the state it passes on. *)
IsObject == [hint |-> "is_object"]
HasField(name, slice) == [hint |-> "has_field", name |-> name, slice |-> slice]
HasFieldWithValue(name, value) == [hint |-> "has_field_with_value", name |-> name, value |-> value]

Hints ==
  {IsObject} \cup [hint : {"has_field"}, name : Keys, slice : Slices \cup {NoSlice}]
             \cup [hint : {"has_field_with_value"}, name : Keys, value : Slices \cup {NoSlice}]

(* map_deserializer hands its own hints to its members, with empty states. *)
Stateless(hints) ==
  {IF h.hint = "has_field" THEN HasField(h.name, NoSlice) ELSE h : h \in hints}

-----------------------------------------------------------------------------
(* value_reader.                                                           *)
Read(type, s) ==
  CASE type = "double" /\ s.kind = "number" -> Ok(s.number)
    [] type = "bool"   /\ s.kind = "bool"   -> Ok(s.bool)
    [] type = "string" /\ s.kind = "string" -> Ok(s.string)
    [] OTHER -> Error("wrong type")

(* The checks unpack begins with.  A wrong hint makes its first access to  *)
(* the fields throw.                                                       *)
ExpectObject(hints, s, result) ==
  IF s.kind = "object" THEN result
  ELSE IF IsObject \in hints THEN Throws ELSE Error("object expected")

ExpectArray(s, result) == IF s.kind = "array" THEN result ELSE Error("array expected")

(* What a nested call returns: calls has the results of all of them.       *)
Call(n, d, hints, s) == [nesting |-> n, of |-> d, hints |-> hints, slice |-> s]

Nested(calls, n, d, hints, s) == calls[Call(n, d, hints, s)]

(* parameter_executor: the value of an expected_value is not passed on.    *)
UnpackParameter(calls, n, p, hints, s) ==
  LET slice == GetField(s, p.name)
      value == TracedBy(p.name, Nested(calls, n, p.of, {}, slice))
  IN  CASE p.param = "expected" ->
             IF HasFieldWithValue(p.name, p.value) \in hints \/ slice = p.value THEN Ok(<<>>)
             ELSE IF slice = NoSlice THEN Throws
             ELSE TracedBy(p.name, Error("not as expected"))
        [] p.param # "expected" /\ slice = NoSlice ->
             IF p.required THEN Error("required") ELSE Ok(<<p.default>>)
        [] p.param = "slice" /\ slice # NoSlice -> Ok(<<slice>>)
        [] p.param = "value" /\ slice # NoSlice ->
             IF IsOk(value) THEN Ok(<<value.value>>) ELSE value

(* Mutant: a parameter that is not required is counted in any case.        *)
UnpackParametersAll(calls, n, params, hints, s) ==
  LET values == AllOf([i \in DOMAIN params |-> UnpackParameter(calls, n, params[i], hints, s)])
  IN  IF ~IsOk(values) THEN values
      ELSE IF Len(s.fields) # Len(params) THEN Error("superfluous field")
      ELSE Ok(FlattenSeq(values.value))

(* The object has no other fields if it has as many as have been visited.  *)
UnpackParameters(calls, n, params, hints, s) ==
  LET values == AllOf([i \in DOMAIN params |-> UnpackParameter(calls, n, params[i], hints, s)])
      visited == {i \in DOMAIN params : params[i].param = "expected" \/ params[i].name \in Names(s)}
  IN  IF ~IsOk(values) THEN values
      ELSE IF Len(s.fields) # Cardinality(visited) THEN Error("superfluous field")
      ELSE Ok(FlattenSeq(values.value))

(* Mutant: the index is counted up before the error is made.               *)
UnpackElementsLate(calls, n, element, s) ==
  AllOf([i \in DOMAIN s.elems |-> TracedBy(Index(i + 1), Nested(calls, n, element, {}, s.elems[i]))])

UnpackElements(calls, n, element, s) ==
  AllOf([i \in DOMAIN s.elems |-> TracedBy(Index(i), Nested(calls, n, element, {}, s.elems[i]))])

(* map_deserializer: the keys are strings, which are read without fail.    *)
UnpackMembers(calls, n, member, hints, s) ==
  AllOf([i \in DOMAIN s.fields |->
           LET name == s.fields[i].name
               value == TracedBy(name, Nested(calls, n, member, Stateless(hints), s.fields[i].slice))
           IN  IF IsOk(value) THEN Ok(<<name, value.value>>) ELSE value])

(* fixed_order_deserializer: the iterator has passed the element that has  *)
(* failed; if that is not the end of the array the error is replaced.      *)
UnpackTuple(calls, n, elements, s) ==
  LET results == [i \in DOMAIN elements |->
        IF i > Len(s.elems) THEN Error("bad array length")
        ELSE TracedBy(Index(i), Nested(calls, n, elements[i], {}, s.elems[i]))]
      failed == {i \in DOMAIN results : ~IsOk(results[i])}
      passed == IF failed = {} THEN Len(elements) ELSE Min(failed)
      result == AllOf(results)
  IN  IF result.status # "throws" /\ passed # Len(s.elems) THEN Error("excess elements") ELSE result

(* Mutant: the state of a hint about any field is used.                    *)
UnpackAttributeAny(calls, n, d, hints, s) ==
  LET known == {h \in hints : h.hint = "has_field"}
      slice == IF known # {} THEN (CHOOSE h \in known : TRUE).slice ELSE GetField(s, d.name)
  IN  TracedBy(d.name, Nested(calls, n, d.of, {}, slice))

UnpackAttribute(calls, n, d, hints, s) ==
  LET known == {h \in hints : h.hint = "has_field" /\ h.name = d.name}
      slice == IF known # {} THEN (CHOOSE h \in known : TRUE).slice ELSE GetField(s, d.name)
  IN  TracedBy(d.name, Nested(calls, n, d.of, {}, slice))

(* The first of the fields that is there decides.                          *)
UnpackByName(calls, n, pairs, s) ==
  LET present == {i \in DOMAIN pairs : pairs[i].name \in Names(s)}
      pair == pairs[Min(present)]
  IN  IF s.kind # "object" THEN Throws
      ELSE IF present = {} THEN Error("format not recognized")
      ELSE TracedBy(pair.name,
                    Nested(calls, n, pair.of, {HasField(pair.name, GetField(s, pair.name))}, s))

(* The value of the field decides.  If no alternative has it, it is        *)
(* printed, whether it is there or not.                                    *)
UnpackByValue(calls, n, name, pairs, s) ==
  LET slice == GetField(s, name)
      equal == {i \in DOMAIN pairs : pairs[i].value = slice}
      hints == {HasFieldWithValue(name, slice), IsObject, HasField(name, slice)}
  IN  IF s.kind # "object" THEN Throws
      ELSE IF equal # {} THEN Nested(calls, n, pairs[Min(equal)].of, hints, s)
      ELSE IF slice = NoSlice THEN Throws
      ELSE TracedBy(name, Error("unrecognized value"))

UnpackConditional(calls, n, object, default, s) ==
  IF s.kind = "object" THEN Nested(calls, n, object, {IsObject}, s) ELSE Nested(calls, n, default, {}, s)

(* validate with not_empty_validator.                                      *)
UnpackValidated(calls, n, of, hints, s) ==
  LET result == Nested(calls, n, of, hints, s)
      empty == IF of.plan = "array" THEN <<>> ELSE ""
  IN  IF IsOk(result) /\ result.value = empty THEN Error("must not be empty") ELSE result

(* deserialize_plan_executor<P, H>::unpack.                                *)
Unpack(calls, n, d, hints, s) ==
  CASE d.plan = "value"       -> Read(d.type, s)
    [] d.plan = "parameters"  -> ExpectObject(hints, s, UnpackParameters(calls, n, d.params, hints, s))
    [] d.plan = "array"       -> ExpectArray(s, UnpackElements(calls, n, d.element, s))
    [] d.plan = "map"         -> ExpectObject(hints, s, UnpackMembers(calls, n, d.member, hints, s))
    [] d.plan = "tuple"       -> ExpectArray(s, UnpackTuple(calls, n, d.elements, s))
    [] d.plan = "attribute"   -> ExpectObject(hints, s, UnpackAttribute(calls, n, d, hints, s))
    [] d.plan = "field_name"  -> UnpackByName(calls, n, d.pairs, s)
    [] d.plan = "field_value" -> UnpackByValue(calls, n, d.name, d.pairs, s)
    [] d.plan = "conditional" -> UnpackConditional(calls, n, d.object, d.default, s)
    [] d.plan = "validate"    -> UnpackValidated(calls, n, d.of, hints, s)
    [] d.plan = "proxy"       -> Nested(calls, n, Definitions[d.name], hints, s)

(* deserialize_with: the factory is applied to what the plan has read.     *)
DeserializeWith(calls, n, d, hints, s) ==
  LET result == Unpack(calls, n, d, hints, s)
  IN  IF ~IsOk(result) THEN result
      ELSE IF d.factory = "identity" THEN result
      ELSE Ok(Build(d.factory, result.value))

(* deserialized has the results of calls below which less than nesting     *)
(* others are nested.  The stack of a program is as deep as it needs.      *)
Calls ==
  [nesting : 0..MaxNesting, of : Deserializers, hints : SUBSET Hints, slice : Slices \cup {NoSlice}]

Deserialize(d, hints, s) ==
  LET deserialized[call \in Calls] ==
        IF call.nesting = 0 THEN Throws
        ELSE DeserializeWith(deserialized, call.nesting - 1, call.of, call.hints, call.slice)
  IN  Nested(deserialized, MaxNesting, d, hints, s)

=============================================================================
