----------------------------- MODULE MCRequests -----------------------------
(***************************************************************************)
(* Instances of AgencyRequests for TLC: envelopes of the agency and the    *)
(* deserializers of deserialize/test/test.cpp that are made of combinators *)
(* the agency does not use.                                                *)
(***************************************************************************)
EXTENDS AgencyRequests

LOCAL a == Name("a")
LOCAL b == Name("b")
LOCAL From == Name("from")
LOCAL one == Number(1)
LOCAL id == String("id")

SetSlice       == ObjectSlice(<<FieldOf(Op, String("set")), FieldOf(New, one), FieldOf(Ttl, one)>>)
IncrementSlice == ObjectSlice(<<FieldOf(Op, String("increment")), FieldOf(Delta, one)>>)

Envelope ==
  [of    |-> EnvelopeDeserializer,
   parts |-> {OperationDeserializer, SetDeserializer, IncrementDeserializer,
              PreconditionDeserializer, OldEmptyDeserializer, MapOf(OperationDeserializer)},
   valid |-> Array(<<Array(<<ObjectSlice(<<FieldOf(a, SetSlice), FieldOf(b, IncrementSlice)>>),
                            ObjectSlice(<<FieldOf(b, ObjectSlice(<<FieldOf(OldNot, one)>>))>>),
                            id>>),
                    Array(<<ObjectSlice(<<>>), ObjectSlice(<<>>), id>>)>>),
   names |-> {a, Op, Delta, Old, OldEmpty}]

(* test01 and test04, test02, test03 and test05.                           *)
Tuple ==
  LET tuple == FixedOrder(<<Value("string"), Value("bool"), Value("double")>>, "identity")
  IN  [of |-> tuple, parts |-> {tuple}, valid |-> Array(<<id, Bool(TRUE), one>>), names |-> {}]

Dependent ==
  LET name == Attribute(Op, Value("string"))
      either == FieldValueDependent(Op, <<[value |-> id, of |-> name],
                                          [value |-> String("set"), of |-> name]>>)
  IN  [of |-> ArrayOf(either), parts |-> {name, either},
       valid |-> Array(<<ObjectSlice(<<FieldOf(Op, id)>>), ObjectSlice(<<FieldOf(Op, String("set"))>>)>>),
       names |-> {a, Op}]

Recursive ==
  [of    |-> Proxy("recursive"), parts |-> {Proxy("recursive")},
   valid |-> ObjectSlice(<<FieldOf(a, ObjectSlice(<<FieldOf(a, id), FieldOf(b, id)>>)), FieldOf(b, id)>>),
   names |-> {a, b}]

Graph ==
  LET edge == ParameterList(<<Parameter(a, NonEmpty(Value("string"))),
                              Parameter(From, NonEmpty(ArrayOf(Value("string"))))>>, "identity")
      graph == ParameterList(<<Parameter(a, NonEmpty(Value("string"))),
                               Parameter(b, NonEmpty(ArrayOf(edge))),
                               Optional(Op, Value("bool"), FALSE)>>, "identity")
  IN  [of |-> graph, parts |-> {graph, edge},
       valid |-> ObjectSlice(<<FieldOf(a, id),
                   FieldOf(b, Array(<<ObjectSlice(<<FieldOf(a, id), FieldOf(From, Array(<<id>>))>>)>>))>>),
       names |-> {a, b, Op, From}]

AllSchemas == {Envelope, Tuple, Dependent, Recursive, Graph}
OnlyEnvelopes == {Envelope}

AllDefinitions == [recursive |-> MapOf(ObjectOr(Proxy("recursive"), Value("string")))]

Scraps == {one, id, String(""), EmptyArray, ObjectSlice(<<>>), Bool(TRUE), String("set")}

(* What a deserializer consists of, proxies apart.                         *)
RECURSIVE PartsOf(_)
PartsOf(d) ==
  {d} \cup
  CASE d.plan = "parameters"  -> UNION {PartsOf(p.of) : p \in {q \in Range(d.params) : q.param = "value"}}
    [] d.plan = "array"       -> PartsOf(d.element)
    [] d.plan = "map"         -> PartsOf(d.member)
    [] d.plan = "tuple"       -> UNION {PartsOf(e) : e \in Range(d.elements)}
    [] d.plan \in {"attribute", "validate"} -> PartsOf(d.of)
    [] d.plan \in {"field_name", "field_value"} -> UNION {PartsOf(pair.of) : pair \in Range(d.pairs)}
    [] d.plan = "conditional" -> PartsOf(d.object) \cup PartsOf(d.default)
    [] OTHER                  -> {}

AllDeserializers ==
  UNION {PartsOf(d) : d \in Range(AllDefinitions) \cup UNION {{sc.of} \cup sc.parts : sc \in AllSchemas}}

(* Slices one edit away: a part is replaced, taken out or added.           *)
RECURSIVE EditedSlices(_, _)

EditedArrays(elems, names) ==
  {Append(elems, e) : e \in Scraps}
  \cup {Front(elems) : i \in 1..(IF elems = <<>> THEN 0 ELSE 1)}
  \cup UNION {{[elems EXCEPT ![i] = e] : e \in EditedSlices(elems[i], names)} : i \in DOMAIN elems}

EditedFields(fields, names) ==
  LET used == {f.name : f \in Range(fields)}
  IN  {Append(fields, FieldOf(name, e)) : name \in names \ used, e \in Scraps}
      \cup {RemoveAt(fields, i) : i \in DOMAIN fields}
      \cup UNION {{[fields EXCEPT ![i].slice = e] : e \in EditedSlices(fields[i].slice, names)} : i \in DOMAIN fields}

EditedSlices(s, names) ==
  Scraps \cup
  CASE s.kind = "array"  -> {Array(elems) : elems \in EditedArrays(s.elems, names)}
    [] s.kind = "object" -> {ObjectSlice(fields) : fields \in EditedFields(s.fields, names)}
    [] OTHER             -> {}

=============================================================================
