------------------------------ MODULE Requests ------------------------------
(***************************************************************************)
(* A server that deserializes what its clients send: requests that are a   *)
(* few edits away from a valid one, for several deserializers.             *)
(***************************************************************************)
EXTENDS Deserializer

CONSTANTS
  Schemas,    \* deserializers, the parts they consist of, a valid request
              \* and the names of fields: records [of, parts, valid, names]
  Edited(_, _),  \* what clients make of a slice with names of fields
  MaxEdits    \* bound: how far requests are from the valid ones

ASSUME SchemasAssumption ==
  \A sc \in Schemas :
    sc.of \in Deserializers /\ sc.parts \subseteq Deserializers /\ sc.valid \in Slices

VARIABLES
  schema,     \* the schema the server goes by
  request,    \* the slice it has got
  outcome,    \* the result of deserialize
  edits       \* how far the request is from the valid one

requestVars == <<schema, request, outcome, edits>>

-----------------------------------------------------------------------------
Init ==
  /\ schema \in Schemas
  /\ request = schema.valid
  /\ outcome = Deserialize(schema.of, {}, request)
  /\ edits = 0

(* A request is a slice, so none that repeats a key or is too deep.        *)
Receive(s) ==
  /\ s \in Slices
  /\ request' = s
  /\ outcome' = Deserialize(schema.of, {}, s)
  /\ UNCHANGED schema

Next ==
  \/ /\ edits < MaxEdits
     /\ \E s \in Edited(request, schema.names) : Receive(s)
     /\ edits' = edits + 1
  \/ /\ edits = MaxEdits
     /\ Receive(schema.valid)
     /\ edits' = 0

Spec == Init /\ [][Next]_requestVars

-----------------------------------------------------------------------------
(* What a deserializer describes, apart from how it reads it.              *)
Pair(n, d, s) == [nesting |-> n, of |-> d, slice |-> s]

Conforming(pairs, n, d, s) == pairs[Pair(n, d, s)]

ConformsToParameter(pairs, n, p, s) ==
  CASE p.param = "expected" -> GetField(s, p.name) = p.value
    [] p.param = "slice"    -> p.name \in Names(s)
    [] p.param = "value"    ->
         IF p.name \in Names(s) THEN Conforming(pairs, n, p.of, GetField(s, p.name)) ELSE ~p.required

ConformsToPlan(pairs, n, d, s) ==
  CASE d.plan = "value" ->
         <<d.type, s.kind>> \in {<<"double", "number">>, <<"bool", "bool">>, <<"string", "string">>}
    [] d.plan = "parameters" ->
         /\ s.kind = "object"
         /\ Names(s) \subseteq {p.name : p \in Range(d.params)}
         /\ \A p \in Range(d.params) : ConformsToParameter(pairs, n, p, s)
    [] d.plan = "array" -> s.kind = "array" /\ \A e \in Range(s.elems) : Conforming(pairs, n, d.element, e)
    [] d.plan = "map"   -> s.kind = "object" /\ \A f \in Range(s.fields) : Conforming(pairs, n, d.member, f.slice)
    [] d.plan = "tuple" ->
         /\ s.kind = "array" /\ Len(s.elems) = Len(d.elements)
         /\ \A i \in DOMAIN s.elems : Conforming(pairs, n, d.elements[i], s.elems[i])
    [] d.plan = "attribute" ->
         s.kind = "object" /\ d.name \in Names(s) /\ Conforming(pairs, n, d.of, GetField(s, d.name))
    [] d.plan = "field_name" ->
         /\ s.kind = "object"
         /\ \E i \in DOMAIN d.pairs :
              /\ d.pairs[i].name \in Names(s)
              /\ \A j \in 1..(i - 1) : d.pairs[j].name \notin Names(s)
              /\ Conforming(pairs, n, d.pairs[i].of, s)
    [] d.plan = "field_value" ->
         /\ s.kind = "object"
         /\ \E pair \in Range(d.pairs) : GetField(s, d.name) = pair.value /\ Conforming(pairs, n, pair.of, s)
    [] d.plan = "conditional" -> Conforming(pairs, n, IF s.kind = "object" THEN d.object ELSE d.default, s)
    [] d.plan = "validate"    -> Conforming(pairs, n, d.of, s) /\ s \notin {EmptyArray, String("")}
    [] d.plan = "proxy"       -> Conforming(pairs, n, Definitions[d.name], s)

(* conforms has the deserializers that slices conform to, apart from those *)
(* that are nested deeper.                                                 *)
Pairs == [nesting : 0..MaxNesting, of : Deserializers, slice : Slices \cup {NoSlice}]

ConformsWithin(nesting, d, s) ==
  LET conforms[pair \in Pairs] ==
        pair.nesting # 0 /\ ConformsToPlan(conforms, pair.nesting - 1, pair.of, pair.slice)
  IN  Conforming(conforms, nesting, d, s)

Conforms(d, s) == ConformsWithin(MaxNesting, d, s)

(* A slice and all that is within it.                                      *)
Within(s) ==
  LET items(part) == CASE part.kind = "array"  -> Range(part.elems)
                       [] part.kind = "object" -> {f.slice : f \in Range(part.fields)}
                       [] OTHER                -> {}
      level[d \in 0..MaxDepth] ==
        IF d = 0 THEN {s} ELSE UNION {items(part) : part \in level[d - 1]}
  IN  UNION {level[d] : d \in 0..MaxDepth}

-----------------------------------------------------------------------------
(***************************************************************************)
(* deserialize accepts what its type describes and nothing else: no field  *)
(* is missing, no field or element is left over, every alternative is the  *)
(* one the request names.  The code counts fields, skips checks a hint     *)
(* makes unnecessary and walks an iterator past elements.                  *)
(***************************************************************************)
AcceptsWhatConforms == IsOk(outcome) <=> Conforms(schema.of, request)

(***************************************************************************)
(* An error in an array names the first element that is at fault, whatever *)
(* is wrong with it and with those that follow.                            *)
(***************************************************************************)
FirstFaultReported ==
  outcome.status = "error" /\ schema.of.plan = "array" /\ request.kind = "array" =>
    LET faulty == {i \in DOMAIN request.elems :
                     ~ConformsWithin(MaxNesting - 1, schema.of.element, request.elems[i])}
    IN  outcome.trace[1] = Index(Min(faulty))

(***************************************************************************)
(* Hints that are true of a slice change nothing but the way it is read:   *)
(* the result is the same without them.                                    *)
(***************************************************************************)
TrueHints(s) ==
  IF s.kind # "object" THEN {} ELSE
    {IsObject} \cup {HasField(f.name, f.slice) : f \in Range(s.fields)}
               \cup {HasFieldWithValue(f.name, f.slice) : f \in Range(s.fields)}

HintsChangeNothing ==
  \A d \in schema.parts, s \in Within(request) :
    LET plain == Deserialize(d, {}, s)
    IN  \A hints \in {TrueHints(s)} \cup {{h} : h \in TrueHints(s)} : Deserialize(d, hints, s) = plain

=============================================================================
