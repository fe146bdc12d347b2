--------------------------- MODULE Requests_proofs ---------------------------
(***************************************************************************)
(* Proofs about Requests, for all deserializers and all slices.            *)
(*                                                                         *)
(* Deserialize is a recursive function of a call (how deep it is nested,   *)
(* the deserializer, the hints, the slice).  The first half shows that     *)
(* this function exists, and the one of Conforms too, by induction on the  *)
(* nesting: what a plan makes of a slice depends on nested calls alone.    *)
(* From then on both are tables, and what holds of all their entries is    *)
(* shown by one more induction, with one lemma per plan: plans that ignore *)
(* hints ignore them, true hints change nothing, what is accepted is what  *)
(* conforms, and the fault a trace names lies within the slice.  The       *)
(* theorems then hold of the outcome of any request, because the outcome   *)
(* is always that of the request at hand.                                  *)
(*                                                                         *)
(* NothingLost compares what is read with the request itself, by way of    *)
(* FromSlice, whose recursive function exists too.  What an accepted call  *)
(* returns is shown plan by plan, then of the deserializers of the agency  *)
(* from operations up to envelopes, with the factories of the agency.      *)
(***************************************************************************)
EXTENDS AgencyRequests, Node_proofs, FiniteSetTheorems

-----------------------------------------------------------------------------
(* Slices: what is in a slice is a slice.                                  *)
SlicesOf(slices) ==
  Scalars \cup [kind : {"array"},  elems  : Seq(slices)]
          \cup [kind : {"object"}, fields : Fields(slices)]

IsSlicing(m, f) == f = [d \in 0..m |-> IF d = 0 THEN Scalars ELSE SlicesOf(f[d - 1])]

(* Sequences over more are more.                                           *)
LEMMA SeqOfMore ==
  ASSUME NEW few, NEW many, few \subseteq many
  PROVE  Seq(few) \subseteq Seq(many)
OBVIOUS

(* More slices make more slices.                                           *)
LEMMA SlicesOfMore ==
  ASSUME NEW few, NEW many, few \subseteq many
  PROVE  SlicesOf(few) \subseteq SlicesOf(many)
<1>1. Seq(few) \subseteq Seq(many)
  BY SeqOfMore
<1>2. Fields(few) \subseteq Fields(many)
  <2> DEFINE a == [name : Keys, slice : few]
             b == [name : Keys, slice : many]
  <2>1. a \subseteq b
    OBVIOUS
  <2> HIDE DEF a, b
  <2>2. Seq(a) \subseteq Seq(b)
    BY <2>1, SeqOfMore
  <2> QED
    BY <2>2 DEF Fields, a, b
<1> QED
  BY <1>1, <1>2 DEF SlicesOf

(* The recursive function of Slices exists.                                *)
LEMMA SlicingExists == \A m \in Nat : \E f : IsSlicing(m, f)
<1> DEFINE Good == {m \in Nat : \E f : IsSlicing(m, f)}
<1>1. 0 \in Good
  <2>1. IsSlicing(0, [d \in 0..0 |-> Scalars])
    BY DEF IsSlicing
  <2> QED
    BY <2>1
<1>2. ASSUME NEW m \in Nat, m \in Good PROVE m + 1 \in Good
  <2>1. PICK g : IsSlicing(m, g)
    BY <1>2
  <2> DEFINE last == SlicesOf(g[m])
             f == [d \in 0..(m + 1) |-> IF d = m + 1 THEN last ELSE g[d]]
  <2>2. \A d \in 0..m : g[d] = IF d = 0 THEN Scalars ELSE SlicesOf(g[d - 1])
    BY <2>1 DEF IsSlicing
  <2>3. last = SlicesOf(g[m])
    OBVIOUS
  <2> HIDE DEF last
  <2>4. \A d \in 0..(m + 1) : f[d] = IF d = 0 THEN Scalars ELSE SlicesOf(f[d - 1])
    <3> SUFFICES ASSUME NEW d \in 0..(m + 1) PROVE f[d] = IF d = 0 THEN Scalars ELSE SlicesOf(f[d - 1])
      OBVIOUS
    <3>1. CASE d = m + 1
      <4>1. f[d] = last /\ f[d - 1] = g[m] /\ d # 0
        BY <3>1
      <4> QED
        BY <2>3, <4>1
    <3>2. CASE d \in 0..m
      <4>1. f[d] = g[d] /\ (d # 0 => f[d - 1] = g[d - 1])
        BY <3>2
      <4> QED
        BY <2>2, <3>2, <4>1
    <3> QED
      BY <3>1, <3>2
  <2>5. f = [d \in 0..(m + 1) |-> f[d]]
    OBVIOUS
  <2> HIDE DEF f
  <2>6. IsSlicing(m + 1, f)
    BY <2>4, <2>5 DEF IsSlicing
  <2> QED
    BY <2>6
<1> HIDE DEF Good
<1>3. Nat \subseteq Good
  BY <1>1, <1>2, Induction
<1> QED
  BY <1>3 DEF Good

(* A level has what the level below has.                                   *)
LEMMA SlicingGrows ==
  ASSUME NEW m \in Nat, NEW f, IsSlicing(m, f), NEW d \in 1..m
  PROVE  f[d - 1] \subseteq f[d]
<1> DEFINE Good == {k \in Nat : k + 1 \in 1..m => f[k] \subseteq f[k + 1]}
<1>0. \A k \in 0..m : f[k] = IF k = 0 THEN Scalars ELSE SlicesOf(f[k - 1])
  BY DEF IsSlicing
<1>1. 0 \in Good
  <2>1. CASE 1 \in 1..m
    <3>1. f[0] = Scalars /\ f[1] = SlicesOf(f[0])
      BY <1>0, <2>1
    <3> QED
      BY <3>1 DEF SlicesOf
  <2> QED
    BY <2>1
<1>2. ASSUME NEW k \in Nat, k \in Good PROVE k + 1 \in Good
  <2> SUFFICES ASSUME k + 2 \in 1..m PROVE f[k + 1] \subseteq f[k + 2]
    OBVIOUS
  <2>1. f[k + 1] = SlicesOf(f[k]) /\ f[k + 2] = SlicesOf(f[k + 1])
    BY <1>0
  <2>2. f[k] \subseteq f[k + 1]
    BY <1>2
  <2> QED
    BY <2>1, <2>2, SlicesOfMore
<1> HIDE DEF Good
<1>3. d - 1 \in Good
  BY <1>1, <1>2, Induction
<1> QED
  BY <1>3 DEF Good

(* Slices are made of slices.                                              *)
LEMMA SlicesMade == Slices = Scalars \/ \E few : few \subseteq Slices /\ Slices = SlicesOf(few)
<1> DEFINE f == CHOOSE g : IsSlicing(MaxDepth, g)
<1>1. Slices = f[MaxDepth]
  BY DEF Slices, IsSlicing, SlicesOf
<1>2. IsSlicing(MaxDepth, f)
  BY SlicingExists, MaxDepthAssumption
<1> HIDE DEF f
<1>3. CASE MaxDepth = 0
  BY <1>1, <1>2, <1>3 DEF IsSlicing
<1>4. CASE MaxDepth # 0
  <2>1. MaxDepth \in 1..MaxDepth
    BY <1>4, MaxDepthAssumption
  <2>2. f[MaxDepth] = SlicesOf(f[MaxDepth - 1])
    BY <1>2, <2>1 DEF IsSlicing
  <2>3. f[MaxDepth - 1] \subseteq f[MaxDepth]
    BY <1>2, <2>1, SlicingGrows, MaxDepthAssumption
  <2> QED
    BY <1>1, <2>2, <2>3
<1> QED
  BY <1>3, <1>4

(* A slice has a kind, and what that kind has.                             *)
LEMMA SliceParts ==
  ASSUME NEW s \in Slices
  PROVE  /\ s.kind \in {"null", "bool", "number", "string", "array", "object"}
         /\ s.kind = "string" => s = String(s.string)
         /\ s.kind = "array"  => s = Array(s.elems) /\ s.elems \in Seq(Slices)
         /\ s.kind = "object" => s = ObjectSlice(s.fields) /\ s.fields \in Fields(Slices)
<1>1. CASE s \in Scalars
  BY <1>1 DEF Scalars, String
<1>2. ASSUME NEW few, few \subseteq Slices, Slices = SlicesOf(few), s \notin Scalars
      PROVE  \/ s.kind = "array" /\ s = Array(s.elems) /\ s.elems \in Seq(Slices)
             \/ s.kind = "object" /\ s = ObjectSlice(s.fields) /\ s.fields \in Fields(Slices)
  <2>1. SlicesOf(few) \subseteq SlicesOf(Slices)
    BY <1>2, SlicesOfMore
  <2>2. s \in SlicesOf(Slices)
    BY <1>2, <2>1
  <2>3. CASE s \in [kind : {"array"}, elems : Seq(Slices)]
    BY <2>3 DEF Array
  <2>4. CASE s \in [kind : {"object"}, fields : Fields(Slices)]
    BY <2>4 DEF ObjectSlice
  <2> QED
    BY <1>2, <2>2, <2>3, <2>4 DEF SlicesOf
<1> QED
  BY <1>1, <1>2, SlicesMade

(* An object of slices: different fields have different names.             *)
LEMMA FieldParts ==
  ASSUME NEW fields \in Fields(Slices)
  PROVE  /\ Len(fields) \in Nat /\ DOMAIN fields = 1..Len(fields)
         /\ \A i \in DOMAIN fields : fields[i].name \in Keys /\ fields[i].slice \in Slices
         /\ \A i, j \in DOMAIN fields : fields[i].name = fields[j].name => i = j
<1> DEFINE S == [name : Keys, slice : Slices]
<1>1. fields \in Seq(S)
  BY DEF Fields
<1>2. \A f \in S : f.name \in Keys /\ f.slice \in Slices
  OBVIOUS
<1>3. \A i, j \in DOMAIN fields : fields[i].name = fields[j].name => i = j
  BY DEF Fields
<1> HIDE DEF S
<1> QED
  BY <1>1, <1>2, <1>3

(* NoSlice is none.                                                        *)
LEMMA NoSliceIsNone == NoSlice \notin Slices /\ NoSlice.kind = "none"
BY SliceParts DEF NoSlice

(* A field of an object.                                                   *)
LEMMA FieldFound ==
  ASSUME NEW s \in Slices, s.kind = "object", NEW i \in DOMAIN s.fields
  PROVE  /\ s.fields[i].name \in Names(s)
         /\ GetField(s, s.fields[i].name) = s.fields[i].slice
<1>1. s.fields \in Fields(Slices)
  BY SliceParts
<1> DEFINE fields == s.fields
<1> HIDE DEF fields
<1>2. \A j \in DOMAIN fields : fields[i].name = fields[j].name => i = j
  BY <1>1, FieldParts DEF fields
<1>3. fields[i] \in Range(fields)
  BY DEF Range, fields
<1>4. \A f \in Range(fields) : f.name = fields[i].name => f = fields[i]
  BY <1>2 DEF Range
<1>5. (CHOOSE f \in Range(fields) : f.name = fields[i].name) = fields[i]
  BY <1>3, <1>4
<1>6. fields[i].name \in Names(s)
  BY <1>3 DEF Names, fields
<1> QED
  BY <1>5, <1>6 DEF GetField, fields

(* Every field has an index.                                               *)
LEMMA FieldAt ==
  ASSUME NEW s \in Slices, s.kind = "object", NEW name \in Names(s)
  PROVE  \E i \in DOMAIN s.fields : s.fields[i].name = name
BY DEF Names, Range

(* What Slice::get returns.                                                *)
LEMMA GetFieldParts ==
  ASSUME NEW s \in Slices, s.kind = "object", NEW name
  PROVE  /\ name \in Names(s) => name \in Keys /\ GetField(s, name) \in Slices
         /\ name \notin Names(s) => GetField(s, name) = NoSlice
         /\ GetField(s, name) \in Slices \cup {NoSlice}
         /\ GetField(s, name) = NoSlice <=> name \notin Names(s)
<1>1. ASSUME name \in Names(s) PROVE name \in Keys /\ GetField(s, name) \in Slices
  <2>1. PICK i \in DOMAIN s.fields : s.fields[i].name = name
    BY <1>1, FieldAt
  <2>2. s.fields \in Fields(Slices)
    BY SliceParts
  <2> QED
    BY <2>1, <2>2, FieldParts, FieldFound
<1>2. name \notin Names(s) => GetField(s, name) = NoSlice
  BY DEF GetField
<1> QED
  BY <1>1, <1>2, NoSliceIsNone

-----------------------------------------------------------------------------
(* Deserializers.                                                          *)
Plans == {"value", "parameters", "array", "map", "tuple", "attribute", "field_name",
          "field_value", "conditional", "validate", "proxy"}

(* What a deserializer consists of.                                        *)
LEMMA DeserializerParts ==
  ASSUME NEW d \in Deserializers
  PROVE  /\ d.plan \in Plans
         /\ d.plan = "parameters" =>
              /\ d.params \in Seq(Range(d.params))
              /\ \A i, j \in DOMAIN d.params : d.params[i].name = d.params[j].name => i = j
              /\ \A i \in DOMAIN d.params : IsParameter(d.params[i])
         /\ d.plan = "array" => d.element \in Deserializers
         /\ d.plan = "map" => d.member \in Deserializers /\ d.member.plan \in IgnoringHints
         /\ d.plan = "tuple" => d.elements \in Seq(Deserializers)
         /\ d.plan = "attribute" => d.name \in Keys /\ d.of \in Deserializers
         /\ d.plan = "field_name" =>
              /\ d.pairs \in Seq(Range(d.pairs))
              /\ \A i \in DOMAIN d.pairs : d.pairs[i].name \in Keys /\ d.pairs[i].of \in Deserializers
         /\ d.plan = "field_value" =>
              /\ d.pairs \in Seq(Range(d.pairs)) /\ d.name \in Keys
              /\ \A i, j \in DOMAIN d.pairs : d.pairs[i].value = d.pairs[j].value => i = j
              /\ \A i \in DOMAIN d.pairs : d.pairs[i].value # NoSlice /\ d.pairs[i].of \in Deserializers
         /\ d.plan = "conditional" => d.object \in Deserializers /\ d.default \in Deserializers
         /\ d.plan = "validate" =>
              /\ d.of \in Deserializers /\ d.of.factory = "identity"
              /\ d.of = Value("string") \/ d.of.plan = "array"
         /\ d.plan = "proxy" => Definitions[d.name] \in Deserializers
<1>1. IsDeserializer(d)
  BY DeserializersAssumption
<1> QED
  BY <1>1 DEF IsDeserializer, Plans

-----------------------------------------------------------------------------
(* The recursive function of Deserialize exists: a plan calls deserialize  *)
(* for parts of the deserializer and of the slice.                         *)
Sent == Slices \cup {NoSlice}

Alike(f, g, n) ==
  \A d \in Deserializers, hints \in SUBSET Hints, s \in Sent : Nested(f, n, d, hints, s) = Nested(g, n, d, hints, s)

(* Hints the plans hand on.                                                *)
LEMMA HintsMade ==
  /\ {} \in SUBSET Hints /\ {IsObject} \in SUBSET Hints
  /\ \A name \in Keys, s \in Sent :
       /\ HasField(name, s) \in Hints /\ HasFieldWithValue(name, s) \in Hints
       /\ {HasField(name, s)} \in SUBSET Hints
       /\ {HasFieldWithValue(name, s), IsObject, HasField(name, s)} \in SUBSET Hints
  /\ \A hints \in SUBSET Hints : Stateless(hints) \in SUBSET Hints
<1>1. IsObject \in Hints
  BY DEF Hints
<1>2. \A name \in Keys, s \in Sent : HasField(name, s) \in Hints /\ HasFieldWithValue(name, s) \in Hints
  BY DEF Hints, HasField, HasFieldWithValue, Sent
<1>3. ASSUME NEW h \in Hints, h.hint = "has_field" PROVE HasField(h.name, NoSlice) \in Hints
  <2>1. h.name \in Keys
    BY <1>3 DEF Hints, IsObject
  <2> QED
    BY <1>2, <2>1 DEF Sent
<1>4. \A hints \in SUBSET Hints : Stateless(hints) \in SUBSET Hints
  BY <1>3 DEF Stateless
<1> QED
  BY <1>1, <1>2, <1>4

(* A parameter is read alike through tables that are alike.                *)
LEMMA SameParameter ==
  ASSUME NEW f, NEW g, NEW n, Alike(f, g, n), NEW p, IsParameter(p), NEW hints,
         NEW s \in Slices, s.kind = "object"
  PROVE  UnpackParameter(f, n, p, hints, s) = UnpackParameter(g, n, p, hints, s)
<1>1. GetField(s, p.name) \in Sent
  BY GetFieldParts DEF Sent
<1>2. CASE p.param = "value"
  <2>1. Nested(f, n, p.of, {}, GetField(s, p.name)) = Nested(g, n, p.of, {}, GetField(s, p.name))
    BY <1>1, <1>2, HintsMade DEF Alike, IsParameter
  <2> QED
    BY <1>2, <2>1 DEF UnpackParameter
<1>3. CASE p.param = "slice"
  BY <1>3 DEF UnpackParameter
<1>4. CASE p.param = "expected"
  BY <1>4 DEF UnpackParameter
<1> QED
  BY <1>2, <1>3, <1>4 DEF IsParameter

(* So are the parameters of an object.                                     *)
LEMMA SameParameters ==
  ASSUME NEW f, NEW g, NEW n, Alike(f, g, n), NEW params, \A i \in DOMAIN params : IsParameter(params[i]),
         NEW hints, NEW s \in Slices, s.kind = "object"
  PROVE  UnpackParameters(f, n, params, hints, s) = UnpackParameters(g, n, params, hints, s)
<1>1. [i \in DOMAIN params |-> UnpackParameter(f, n, params[i], hints, s)]
        = [i \in DOMAIN params |-> UnpackParameter(g, n, params[i], hints, s)]
  BY SameParameter
<1> QED
  BY <1>1 DEF UnpackParameters

(* So are the elements of an array.                                        *)
LEMMA SameElements ==
  ASSUME NEW f, NEW g, NEW n, Alike(f, g, n), NEW element \in Deserializers,
         NEW s \in Slices, s.kind = "array"
  PROVE  UnpackElements(f, n, element, s) = UnpackElements(g, n, element, s)
<1>1. s.elems \in Seq(Slices)
  BY SliceParts
<1>2. \A i \in DOMAIN s.elems : Nested(f, n, element, {}, s.elems[i]) = Nested(g, n, element, {}, s.elems[i])
  BY <1>1, HintsMade DEF Alike, Sent
<1> QED
  BY <1>2 DEF UnpackElements

(* So are the members of a map.                                            *)
LEMMA SameMembers ==
  ASSUME NEW f, NEW g, NEW n, Alike(f, g, n), NEW member \in Deserializers, NEW hints \in SUBSET Hints,
         NEW s \in Slices, s.kind = "object"
  PROVE  UnpackMembers(f, n, member, hints, s) = UnpackMembers(g, n, member, hints, s)
<1>1. s.fields \in Fields(Slices)
  BY SliceParts
<1>2. \A i \in DOMAIN s.fields : Nested(f, n, member, Stateless(hints), s.fields[i].slice)
                                   = Nested(g, n, member, Stateless(hints), s.fields[i].slice)
  BY <1>1, FieldParts, HintsMade DEF Alike, Sent
<1> QED
  BY <1>2 DEF UnpackMembers

(* So are the elements of a tuple.                                         *)
LEMMA SameTuple ==
  ASSUME NEW f, NEW g, NEW n, Alike(f, g, n), NEW elements \in Seq(Deserializers),
         NEW s \in Slices, s.kind = "array"
  PROVE  UnpackTuple(f, n, elements, s) = UnpackTuple(g, n, elements, s)
<1>1. s.elems \in Seq(Slices)
  BY SliceParts
<1> DEFINE slices == s.elems
<1>2. slices \in Seq(Slices)
  BY <1>1
<1> HIDE DEF slices
<1>3. ASSUME NEW i \in DOMAIN elements, ~(i > Len(slices))
      PROVE  Nested(f, n, elements[i], {}, slices[i]) = Nested(g, n, elements[i], {}, slices[i])
  <2>1. elements[i] \in Deserializers /\ slices[i] \in Sent
    BY <1>2, <1>3 DEF Sent
  <2> QED
    BY <2>1, HintsMade DEF Alike
<1>4. [i \in DOMAIN elements |-> IF i > Len(slices) THEN Error("bad array length")
                                 ELSE TracedBy(Index(i), Nested(f, n, elements[i], {}, slices[i]))]
      = [i \in DOMAIN elements |-> IF i > Len(slices) THEN Error("bad array length")
                                   ELSE TracedBy(Index(i), Nested(g, n, elements[i], {}, slices[i]))]
  BY <1>3
<1> QED
  BY <1>4 DEF UnpackTuple, slices

(* The field of an attribute, as a hint or Slice::get has it.              *)
LEMMA AttributeSent ==
  ASSUME NEW hints \in SUBSET Hints, NEW name, NEW s \in Slices, s.kind = "object"
  PROVE  LET known == {h \in hints : h.hint = "has_field" /\ h.name = name}
         IN  (IF known # {} THEN (CHOOSE h \in known : TRUE).slice ELSE GetField(s, name)) \in Sent
<1> DEFINE known == {h \in hints : h.hint = "has_field" /\ h.name = name}
<1>1. \A h \in Hints : h.hint = "has_field" => h.slice \in Sent
  BY DEF Hints, IsObject, Sent
<1>2. \A h \in known : h.slice \in Sent
  BY <1>1
<1>3. GetField(s, name) \in Sent
  BY GetFieldParts DEF Sent
<1> HIDE DEF known
<1>4. CASE known # {}
  <2>1. (CHOOSE h \in known : TRUE) \in known
    BY <1>4
  <2> QED
    BY <1>2, <1>4, <2>1 DEF known
<1>5. CASE known = {}
  BY <1>3, <1>5 DEF known
<1> QED
  BY <1>4, <1>5

(* So is an attribute.                                                     *)
LEMMA SameAttribute ==
  ASSUME NEW f, NEW g, NEW n, Alike(f, g, n), NEW d, d.of \in Deserializers, NEW hints \in SUBSET Hints,
         NEW s \in Slices, s.kind = "object"
  PROVE  UnpackAttribute(f, n, d, hints, s) = UnpackAttribute(g, n, d, hints, s)
<1> DEFINE known == {h \in hints : h.hint = "has_field" /\ h.name = d.name}
           slice == IF known # {} THEN (CHOOSE h \in known : TRUE).slice ELSE GetField(s, d.name)
<1>1. slice \in Sent
  BY AttributeSent
<1>2. UnpackAttribute(f, n, d, hints, s) = TracedBy(d.name, Nested(f, n, d.of, {}, slice))
  BY DEF UnpackAttribute
<1>3. UnpackAttribute(g, n, d, hints, s) = TracedBy(d.name, Nested(g, n, d.of, {}, slice))
  BY DEF UnpackAttribute
<1> HIDE DEF slice
<1>4. Nested(f, n, d.of, {}, slice) = Nested(g, n, d.of, {}, slice)
  BY <1>1, HintsMade DEF Alike
<1> QED
  BY <1>2, <1>3, <1>4

(* So is a sum of deserializers told apart by the name of a field.         *)
LEMMA SameByName ==
  ASSUME NEW f, NEW g, NEW n, Alike(f, g, n), NEW pairs, pairs \in Seq(Range(pairs)),
         \A i \in DOMAIN pairs : pairs[i].name \in Keys /\ pairs[i].of \in Deserializers,
         NEW s \in Slices
  PROVE  UnpackByName(f, n, pairs, s) = UnpackByName(g, n, pairs, s)
<1> DEFINE present == {i \in DOMAIN pairs : pairs[i].name \in Names(s)}
           pair == pairs[Min(present)]
           hints == {HasField(pair.name, GetField(s, pair.name))}
<1>1. CASE s.kind = "object" /\ present # {}
  <2>1. present \subseteq Nat
    OBVIOUS
  <2>2. Min(present) \in DOMAIN pairs
    BY <1>1, <2>1, LeastExists
  <2>3. pair.of \in Deserializers /\ pair.name \in Keys
    BY <2>2
  <2>4. GetField(s, pair.name) \in Sent
    BY <1>1, GetFieldParts DEF Sent
  <2>5. hints \in SUBSET Hints
    BY <2>3, <2>4, HintsMade
  <2>6. s \in Sent
    BY DEF Sent
  <2> HIDE DEF pair, hints
  <2>7. Nested(f, n, pair.of, hints, s) = Nested(g, n, pair.of, hints, s)
    BY <2>3, <2>5, <2>6 DEF Alike
  <2> QED
    BY <2>7 DEF UnpackByName, pair, hints
<1>2. CASE s.kind # "object" \/ present = {}
  BY <1>2 DEF UnpackByName
<1> QED
  BY <1>1, <1>2

(* So is one told apart by the value of a field.                           *)
LEMMA SameByValue ==
  ASSUME NEW f, NEW g, NEW n, Alike(f, g, n), NEW name \in Keys, NEW pairs, pairs \in Seq(Range(pairs)),
         \A i \in DOMAIN pairs : pairs[i].of \in Deserializers,
         NEW s \in Slices
  PROVE  UnpackByValue(f, n, name, pairs, s) = UnpackByValue(g, n, name, pairs, s)
<1> DEFINE slice == GetField(s, name)
           equal == {i \in DOMAIN pairs : pairs[i].value = slice}
           hints == {HasFieldWithValue(name, slice), IsObject, HasField(name, slice)}
           of == pairs[Min(equal)].of
<1>1. CASE s.kind = "object" /\ equal # {}
  <2>1. equal \subseteq Nat
    OBVIOUS
  <2>2. Min(equal) \in DOMAIN pairs
    BY <1>1, <2>1, LeastExists
  <2>3. of \in Deserializers
    BY <2>2
  <2>4. slice \in Sent
    BY <1>1, GetFieldParts DEF Sent
  <2>5. hints \in SUBSET Hints
    BY <2>4, HintsMade
  <2>6. s \in Sent
    BY DEF Sent
  <2> HIDE DEF of, hints
  <2>7. Nested(f, n, of, hints, s) = Nested(g, n, of, hints, s)
    BY <2>3, <2>5, <2>6 DEF Alike
  <2> QED
    BY <2>7 DEF UnpackByValue, of, hints
<1>2. CASE s.kind # "object" \/ equal = {}
  BY <1>2 DEF UnpackByValue
<1> QED
  BY <1>1, <1>2

(* One call of deserialize depends on those it makes.                      *)
LEMMA SameCall ==
  ASSUME NEW f, NEW g, NEW n, Alike(f, g, n),
         NEW d \in Deserializers, NEW hints \in SUBSET Hints, NEW s \in Sent
  PROVE  DeserializeWith(f, n, d, hints, s) = DeserializeWith(g, n, d, hints, s)
<1>0. s.kind # "object" \/ s \in Slices
  BY NoSliceIsNone DEF Sent
<1>1. Unpack(f, n, d, hints, s) = Unpack(g, n, d, hints, s)
  <2>1. CASE d.plan = "value"
    BY <2>1 DEF Unpack
  <2>2. CASE d.plan = "parameters"
    <3>1. s.kind = "object" => UnpackParameters(f, n, d.params, hints, s) = UnpackParameters(g, n, d.params, hints, s)
      BY <1>0, <2>2, DeserializerParts, SameParameters
    <3> QED
      BY <2>2, <3>1 DEF Unpack, ExpectObject
  <2>3. CASE d.plan = "array"
    <3>1. s.kind = "array" => UnpackElements(f, n, d.element, s) = UnpackElements(g, n, d.element, s)
      BY <2>3, DeserializerParts, SameElements, NoSliceIsNone DEF Sent
    <3> QED
      BY <2>3, <3>1 DEF Unpack, ExpectArray
  <2>4. CASE d.plan = "map"
    <3>1. s.kind = "object" => UnpackMembers(f, n, d.member, hints, s) = UnpackMembers(g, n, d.member, hints, s)
      BY <1>0, <2>4, DeserializerParts, SameMembers
    <3> QED
      BY <2>4, <3>1 DEF Unpack, ExpectObject
  <2>5. CASE d.plan = "tuple"
    <3>1. s.kind = "array" => UnpackTuple(f, n, d.elements, s) = UnpackTuple(g, n, d.elements, s)
      BY <2>5, DeserializerParts, SameTuple, NoSliceIsNone DEF Sent
    <3> QED
      BY <2>5, <3>1 DEF Unpack, ExpectArray
  <2>6. CASE d.plan = "attribute"
    <3>1. s.kind = "object" => UnpackAttribute(f, n, d, hints, s) = UnpackAttribute(g, n, d, hints, s)
      BY <1>0, <2>6, DeserializerParts, SameAttribute
    <3> QED
      BY <2>6, <3>1 DEF Unpack, ExpectObject
  <2>7. CASE d.plan = "field_name"
    <3>1. CASE s \in Slices
      BY <2>7, <3>1, DeserializerParts, SameByName DEF Unpack
    <3>2. CASE s = NoSlice
      BY <2>7, <3>2, NoSliceIsNone DEF Unpack, UnpackByName
    <3> QED
      BY <3>1, <3>2 DEF Sent
  <2>8. CASE d.plan = "field_value"
    <3>1. CASE s \in Slices
      BY <2>8, <3>1, DeserializerParts, SameByValue DEF Unpack
    <3>2. CASE s = NoSlice
      BY <2>8, <3>2, NoSliceIsNone DEF Unpack, UnpackByValue
    <3> QED
      BY <3>1, <3>2 DEF Sent
  <2>9. CASE d.plan = "conditional"
    <3>1. /\ Nested(f, n, d.object, {IsObject}, s) = Nested(g, n, d.object, {IsObject}, s)
          /\ Nested(f, n, d.default, {}, s) = Nested(g, n, d.default, {}, s)
      BY <2>9, DeserializerParts, HintsMade DEF Alike
    <3> QED
      BY <2>9, <3>1 DEF Unpack, UnpackConditional
  <2>10. CASE d.plan = "validate"
    <3>1. Nested(f, n, d.of, hints, s) = Nested(g, n, d.of, hints, s)
      BY <2>10, DeserializerParts DEF Alike
    <3> QED
      BY <2>10, <3>1 DEF Unpack, UnpackValidated
  <2>11. CASE d.plan = "proxy"
    <3>1. Nested(f, n, Definitions[d.name], hints, s) = Nested(g, n, Definitions[d.name], hints, s)
      BY <2>11, DeserializerParts DEF Alike
    <3> QED
      BY <2>11, <3>1 DEF Unpack
  <2> QED
    BY <2>1, <2>2, <2>3, <2>4, <2>5, <2>6, <2>7, <2>8, <2>9, <2>10, <2>11, DeserializerParts DEF Plans
<1> QED
  BY <1>1 DEF DeserializeWith

(* The tables: the results of calls nested up to m.                        *)
CallsUpTo(m) == [nesting : 0..m, of : Deserializers, hints : SUBSET Hints, slice : Sent]

Result(r, call) ==
  IF call.nesting = 0 THEN Throws
  ELSE DeserializeWith(r, call.nesting - 1, call.of, call.hints, call.slice)

AreResults(m, r) == r = [call \in CallsUpTo(m) |-> Result(r, call)]

(* A call is one of those up to its nesting and beyond.                    *)
LEMMA CallParts ==
  ASSUME NEW n, NEW d, NEW hints, NEW s
  PROVE  /\ Call(n, d, hints, s).nesting = n
         /\ Call(n, d, hints, s).of = d
         /\ Call(n, d, hints, s).hints = hints
         /\ Call(n, d, hints, s).slice = s
         /\ \A m \in Nat : n \in 0..m /\ d \in Deserializers /\ hints \in SUBSET Hints /\ s \in Sent
              => Call(n, d, hints, s) \in CallsUpTo(m)
BY DEF Call, CallsUpTo

(* Calls one deeper are those and the deepest.                             *)
LEMMA CallsDeeper ==
  ASSUME NEW m \in Nat, NEW call \in CallsUpTo(m + 1)
  PROVE  /\ call.nesting \in 0..(m + 1) /\ call.of \in Deserializers
         /\ call.hints \in SUBSET Hints /\ call.slice \in Sent
         /\ call.nesting # m + 1 => call \in CallsUpTo(m) /\ call.nesting \in 0..m
BY DEF CallsUpTo

(* By induction on the nesting.                                            *)
LEMMA ResultsExist == \A m \in Nat : \E r : AreResults(m, r)
<1> DEFINE Good == {m \in Nat : \E r : AreResults(m, r)}
<1>1. 0 \in Good
  <2> DEFINE r == [call \in CallsUpTo(0) |-> Throws]
  <2>1. \A call \in CallsUpTo(0) : Result(r, call) = Throws
    BY DEF Result, CallsUpTo
  <2>2. r = [call \in CallsUpTo(0) |-> Result(r, call)]
    BY <2>1
  <2> HIDE DEF r
  <2>3. AreResults(0, r)
    BY <2>2 DEF AreResults
  <2> QED
    BY <2>3
<1>2. ASSUME NEW m \in Nat, m \in Good PROVE m + 1 \in Good
  <2>1. PICK g : AreResults(m, g)
    BY <1>2
  <2> DEFINE deepest(call) == DeserializeWith(g, m, call.of, call.hints, call.slice)
             f == [call \in CallsUpTo(m + 1) |-> IF call.nesting = m + 1 THEN deepest(call) ELSE g[call]]
  <2>2. \A call \in CallsUpTo(m) : g[call] = Result(g, call)
    BY <2>1 DEF AreResults
  <2>3. ASSUME NEW n \in 0..m PROVE Alike(f, g, n)
    <3> SUFFICES ASSUME NEW d \in Deserializers, NEW hints \in SUBSET Hints, NEW s \in Sent
                 PROVE  f[Call(n, d, hints, s)] = g[Call(n, d, hints, s)]
      BY DEF Alike, Nested
    <3>1. Call(n, d, hints, s) \in CallsUpTo(m + 1) /\ Call(n, d, hints, s).nesting # m + 1
      <4>1. m + 1 \in Nat /\ n \in 0..(m + 1) /\ n # m + 1
        OBVIOUS
      <4> QED
        BY <4>1, CallParts
    <3> QED
      BY <3>1
  <2>4. ASSUME NEW call \in CallsUpTo(m + 1) PROVE f[call] = Result(f, call)
    <3>1. CASE call.nesting = m + 1
      <4>1. f[call] = deepest(call)
        BY <3>1
      <4>2. Alike(f, g, m)
        BY <2>3
      <4> HIDE DEF f
      <4>3. deepest(call) = DeserializeWith(f, m, call.of, call.hints, call.slice)
        BY <4>2, SameCall, CallsDeeper
      <4>4. call.nesting # 0 /\ call.nesting - 1 = m
        BY <3>1
      <4> QED
        BY <4>1, <4>3, <4>4 DEF Result
    <3>2. CASE call.nesting # m + 1 /\ call.nesting # 0
      <4>1. f[call] = g[call]
        BY <3>2
      <4>2. call \in CallsUpTo(m) /\ call.nesting - 1 \in 0..m
        BY <3>2, CallsDeeper
      <4>3. Alike(f, g, call.nesting - 1)
        BY <2>3, <4>2
      <4> HIDE DEF f
      <4>4. DeserializeWith(f, call.nesting - 1, call.of, call.hints, call.slice)
              = DeserializeWith(g, call.nesting - 1, call.of, call.hints, call.slice)
        BY <4>3, SameCall, CallsDeeper
      <4> QED
        BY <2>2, <3>2, <4>1, <4>2, <4>4 DEF Result
    <3>3. CASE call.nesting = 0
      <4>1. f[call] = g[call]
        BY <3>3
      <4>2. call \in CallsUpTo(m)
        BY <3>3, CallsDeeper
      <4> HIDE DEF f
      <4> QED
        BY <2>2, <3>3, <4>1, <4>2 DEF Result
    <3> QED
      BY <3>1, <3>2, <3>3
  <2>5. f = [call \in CallsUpTo(m + 1) |-> f[call]]
    OBVIOUS
  <2> HIDE DEF f
  <2>6. f = [call \in CallsUpTo(m + 1) |-> Result(f, call)]
    BY <2>4, <2>5
  <2>7. AreResults(m + 1, f)
    BY <2>6 DEF AreResults
  <2> QED
    BY <2>7
<1> HIDE DEF Good
<1>3. Nat \subseteq Good
  BY <1>1, <1>2, Induction
<1> QED
  BY <1>3 DEF Good

(* What a table has: results of the calls that are not nested deeper.      *)
Tabulates(r) ==
  \A d \in Deserializers, hints \in SUBSET Hints, s \in Sent :
    /\ Nested(r, 0, d, hints, s) = Throws
    /\ \A n \in 0..(MaxNesting - 1) : Nested(r, n + 1, d, hints, s) = DeserializeWith(r, n, d, hints, s)

(* The results of Deserialize are in one table.                            *)
LEMMA DeserializeMade ==
  \E r : /\ Tabulates(r)
         /\ \A d, hints, s : Deserialize(d, hints, s) = Nested(r, MaxNesting, d, hints, s)
<1> DEFINE r == CHOOSE g : AreResults(MaxNesting, g)
<1>1. \A d, hints, s : Deserialize(d, hints, s) = Nested(r, MaxNesting, d, hints, s)
  BY DEF Deserialize, AreResults, Result, CallsUpTo, Calls, Sent
<1>2. AreResults(MaxNesting, r)
  BY ResultsExist, NestingAssumption
<1> HIDE DEF r
<1>3. \A call \in CallsUpTo(MaxNesting) : r[call] = Result(r, call)
  BY <1>2 DEF AreResults
<1>4. ASSUME NEW d \in Deserializers, NEW hints \in SUBSET Hints, NEW s \in Sent
      PROVE  /\ Nested(r, 0, d, hints, s) = Throws
             /\ \A n \in 0..(MaxNesting - 1) : Nested(r, n + 1, d, hints, s) = DeserializeWith(r, n, d, hints, s)
  <2>1. Nested(r, 0, d, hints, s) = Throws
    <3>1. Call(0, d, hints, s) \in CallsUpTo(MaxNesting) /\ Call(0, d, hints, s).nesting = 0
      <4>1. 0 \in 0..MaxNesting
        BY NestingAssumption
      <4> QED
        BY <4>1, CallParts, NestingAssumption
    <3> QED
      BY <1>3, <3>1 DEF Nested, Result
  <2>2. ASSUME NEW n \in 0..(MaxNesting - 1)
        PROVE  Nested(r, n + 1, d, hints, s) = DeserializeWith(r, n, d, hints, s)
    <3> DEFINE k == n + 1
               call == Call(k, d, hints, s)
    <3>1. k \in 0..MaxNesting /\ k # 0 /\ k - 1 = n
      BY NestingAssumption
    <3> HIDE DEF k
    <3>2. /\ call \in CallsUpTo(MaxNesting)
          /\ call.nesting = k /\ call.of = d /\ call.hints = hints /\ call.slice = s
      BY <3>1, CallParts, NestingAssumption
    <3>3. Nested(r, k, d, hints, s) = r[call]
      BY DEF Nested
    <3> HIDE DEF call
    <3>4. r[call] = DeserializeWith(r, n, d, hints, s)
      BY <1>3, <3>1, <3>2 DEF Result
    <3> QED
      BY <3>3, <3>4 DEF k
  <2> QED
    BY <2>1, <2>2
<1>5. Tabulates(r)
  BY <1>4 DEF Tabulates
<1> QED
  BY <1>1, <1>5

-----------------------------------------------------------------------------
(* Hints that are true of a slice change nothing.                          *)
LEMMA TrueHintsMade ==
  ASSUME NEW s \in Sent
  PROVE  TrueHints(s) \in SUBSET Hints /\ (s.kind # "object" => TrueHints(s) = {})
<1>1. CASE s.kind = "object"
  <2>1. s \in Slices /\ s.fields \in Fields(Slices)
    BY <1>1, NoSliceIsNone, SliceParts DEF Sent
  <2>2. \A f \in Range(s.fields) : f.name \in Keys /\ f.slice \in Sent
    <3>1. \A i \in DOMAIN s.fields : s.fields[i].name \in Keys /\ s.fields[i].slice \in Slices
      BY <2>1, FieldParts
    <3> QED
      BY <3>1 DEF Range, Sent
  <2>3. \A f \in Range(s.fields) : HasField(f.name, f.slice) \in Hints /\ HasFieldWithValue(f.name, f.slice) \in Hints
    BY <2>2, HintsMade
  <2>4. IsObject \in Hints
    BY HintsMade
  <2> QED
    BY <1>1, <2>3, <2>4 DEF TrueHints
<1>2. CASE s.kind # "object"
  BY <1>2 DEF TrueHints
<1> QED
  BY <1>1, <1>2

(* A hint about a field says what Slice::get returns.                      *)
LEMMA HintIsTrue ==
  ASSUME NEW s \in Sent, NEW h \in TrueHints(s)
  PROVE  /\ h.hint = "has_field" => GetField(s, h.name) = h.slice
         /\ h.hint = "has_field_with_value" => GetField(s, h.name) = h.value
<1>1. s \in Slices /\ s.kind = "object"
  BY NoSliceIsNone DEF TrueHints, Sent
<1>2. \A f \in Range(s.fields) : GetField(s, f.name) = f.slice
  BY <1>1, FieldFound DEF Range
<1>3. CASE h = IsObject
  BY <1>3 DEF IsObject
<1>4. ASSUME NEW f \in Range(s.fields), h = HasField(f.name, f.slice)
      PROVE  GetField(s, h.name) = h.slice /\ h.hint = "has_field"
  BY <1>2, <1>4 DEF HasField
<1>5. ASSUME NEW f \in Range(s.fields), h = HasFieldWithValue(f.name, f.slice)
      PROVE  GetField(s, h.name) = h.value /\ h.hint = "has_field_with_value"
  BY <1>2, <1>5 DEF HasFieldWithValue
<1>6. \/ h = IsObject
      \/ \E f \in Range(s.fields) : h = HasField(f.name, f.slice)
      \/ \E f \in Range(s.fields) : h = HasFieldWithValue(f.name, f.slice)
  BY <1>1 DEF TrueHints
<1> QED
  BY <1>3, <1>4, <1>5, <1>6

IgnoresHints(r, n) ==
  \A d \in Deserializers, hints \in SUBSET Hints, s \in Sent :
    d.plan \in IgnoringHints => Nested(r, n, d, hints, s) = Nested(r, n, d, {}, s)

HintsAreIdle(r, n) ==
  \A d \in Deserializers, s \in Sent : \A hints \in SUBSET TrueHints(s) :
    Nested(r, n, d, hints, s) = Nested(r, n, d, {}, s)

(* Some plans use no hints.                                                *)
LEMMA PlansIgnoringHints ==
  ASSUME NEW calls, NEW n, NEW d, d.plan \in IgnoringHints, NEW hints, NEW s
  PROVE  DeserializeWith(calls, n, d, hints, s) = DeserializeWith(calls, n, d, {}, s)
<1>1. Unpack(calls, n, d, hints, s) = Unpack(calls, n, d, {}, s)
  BY DEF Unpack, IgnoringHints
<1> QED
  BY <1>1 DEF DeserializeWith

(* By induction on the nesting, through the plans that only pass them on.  *)
LEMMA HintsIgnored ==
  ASSUME NEW r, Tabulates(r), NEW n \in 0..MaxNesting
  PROVE  IgnoresHints(r, n)
<1> SUFFICES ASSUME NEW d \in Deserializers, NEW hints \in SUBSET Hints, NEW s \in Sent, d.plan \in IgnoringHints
             PROVE  Nested(r, n, d, hints, s) = Nested(r, n, d, {}, s)
  BY DEF IgnoresHints
<1>0. {} \in SUBSET Hints
  OBVIOUS
<1>1. CASE n = 0
  BY <1>0, <1>1 DEF Tabulates
<1>2. CASE n # 0
  <2> DEFINE k == n - 1
  <2>1. k \in 0..(MaxNesting - 1) /\ n = k + 1
    BY <1>2, NestingAssumption
  <2> HIDE DEF k
  <2>2. /\ Nested(r, k + 1, d, hints, s) = DeserializeWith(r, k, d, hints, s)
        /\ Nested(r, k + 1, d, {}, s) = DeserializeWith(r, k, d, {}, s)
    BY <1>0, <2>1 DEF Tabulates
  <2> QED
    BY <2>1, <2>2, PlansIgnoringHints
<1> QED
  BY <1>1, <1>2

(* True hints change nothing for the parameters of an object.              *)
LEMMA IdleForParameters ==
  ASSUME NEW calls, NEW n, NEW params, NEW s \in Sent, NEW hints \in SUBSET TrueHints(s)
  PROVE  UnpackParameters(calls, n, params, hints, s) = UnpackParameters(calls, n, params, {}, s)
<1>1. ASSUME NEW p PROVE UnpackParameter(calls, n, p, hints, s) = UnpackParameter(calls, n, p, {}, s)
  <2>1. HasFieldWithValue(p.name, p.value) \in hints => GetField(s, p.name) = p.value
    <3>1. /\ HasFieldWithValue(p.name, p.value).hint = "has_field_with_value"
          /\ HasFieldWithValue(p.name, p.value).name = p.name
          /\ HasFieldWithValue(p.name, p.value).value = p.value
      BY DEF HasFieldWithValue
    <3> QED
      BY <3>1, HintIsTrue
  <2> QED
    BY <2>1 DEF UnpackParameter
<1>2. [i \in DOMAIN params |-> UnpackParameter(calls, n, params[i], hints, s)]
        = [i \in DOMAIN params |-> UnpackParameter(calls, n, params[i], {}, s)]
  BY <1>1
<1> QED
  BY <1>2 DEF UnpackParameters

(* Nor for an attribute.                                                   *)
LEMMA IdleForAttribute ==
  ASSUME NEW calls, NEW n, NEW d, NEW s \in Sent, NEW hints \in SUBSET TrueHints(s)
  PROVE  UnpackAttribute(calls, n, d, hints, s) = UnpackAttribute(calls, n, d, {}, s)
<1> DEFINE known == {h \in hints : h.hint = "has_field" /\ h.name = d.name}
           slice == IF known # {} THEN (CHOOSE h \in known : TRUE).slice ELSE GetField(s, d.name)
<1>1. slice = GetField(s, d.name)
  <2>1. \A h \in known : h.slice = GetField(s, d.name)
    BY HintIsTrue
  <2> HIDE DEF known
  <2>2. known # {} => (CHOOSE h \in known : TRUE) \in known
    OBVIOUS
  <2> QED
    BY <2>1, <2>2
<1>2. UnpackAttribute(calls, n, d, hints, s) = TracedBy(d.name, Nested(calls, n, d.of, {}, slice))
  BY DEF UnpackAttribute
<1>3. UnpackAttribute(calls, n, d, {}, s) = TracedBy(d.name, Nested(calls, n, d.of, {}, GetField(s, d.name)))
  BY DEF UnpackAttribute
<1> HIDE DEF slice
<1> QED
  BY <1>1, <1>2, <1>3

(* Nor for a map, whose members ignore the hints they are given.           *)
LEMMA IdleForMembers ==
  ASSUME NEW r, NEW n, IgnoresHints(r, n), NEW member \in Deserializers, member.plan \in IgnoringHints,
         NEW hints \in SUBSET Hints, NEW s \in Slices, s.kind = "object"
  PROVE  UnpackMembers(r, n, member, hints, s) = UnpackMembers(r, n, member, {}, s)
<1>1. s.fields \in Fields(Slices)
  BY SliceParts
<1>2. Stateless(hints) \in SUBSET Hints /\ Stateless({}) \in SUBSET Hints
  BY HintsMade
<1>3. ASSUME NEW i \in DOMAIN s.fields
      PROVE  Nested(r, n, member, Stateless(hints), s.fields[i].slice)
               = Nested(r, n, member, Stateless({}), s.fields[i].slice)
  <2>1. s.fields[i].slice \in Sent
    BY <1>1, FieldParts DEF Sent
  <2> QED
    BY <1>2, <2>1 DEF IgnoresHints
<1> QED
  BY <1>3 DEF UnpackMembers

(* One call makes the same of a slice, whatever true hints it gets.        *)
LEMMA IdleForCall ==
  ASSUME NEW r, NEW n, IgnoresHints(r, n), HintsAreIdle(r, n),
         NEW d \in Deserializers, NEW s \in Sent, NEW hints \in SUBSET TrueHints(s)
  PROVE  DeserializeWith(r, n, d, hints, s) = DeserializeWith(r, n, d, {}, s)
<1>0. /\ hints \in SUBSET Hints
      /\ s.kind # "object" => hints = {}
      /\ s.kind = "object" => s \in Slices
  BY TrueHintsMade, NoSliceIsNone DEF Sent
<1>1. Unpack(r, n, d, hints, s) = Unpack(r, n, d, {}, s)
  <2>1. CASE s.kind = "object" /\ d.plan = "parameters"
    <3>1. UnpackParameters(r, n, d.params, hints, s) = UnpackParameters(r, n, d.params, {}, s)
      BY IdleForParameters
    <3> QED
      BY <2>1, <3>1 DEF Unpack, ExpectObject
  <2>2. CASE s.kind = "object" /\ d.plan = "map"
    <3>1. UnpackMembers(r, n, d.member, hints, s) = UnpackMembers(r, n, d.member, {}, s)
      BY <1>0, <2>2, DeserializerParts, IdleForMembers
    <3> QED
      BY <2>2, <3>1 DEF Unpack, ExpectObject
  <2>3. CASE s.kind = "object" /\ d.plan = "attribute"
    <3>1. UnpackAttribute(r, n, d, hints, s) = UnpackAttribute(r, n, d, {}, s)
      BY IdleForAttribute
    <3> QED
      BY <2>3, <3>1 DEF Unpack, ExpectObject
  <2>4. CASE d.plan = "validate"
    <3>1. Nested(r, n, d.of, hints, s) = Nested(r, n, d.of, {}, s)
      BY <2>4, DeserializerParts DEF HintsAreIdle
    <3> QED
      BY <2>4, <3>1 DEF Unpack, UnpackValidated
  <2>5. CASE d.plan = "proxy"
    <3>1. Nested(r, n, Definitions[d.name], hints, s) = Nested(r, n, Definitions[d.name], {}, s)
      BY <2>5, DeserializerParts DEF HintsAreIdle
    <3> QED
      BY <2>5, <3>1 DEF Unpack
  <2>6. CASE d.plan \in IgnoringHints
    BY <2>6 DEF Unpack, IgnoringHints
  <2>7. CASE s.kind # "object"
    BY <1>0, <2>7
  <2> QED
    BY <2>1, <2>2, <2>3, <2>4, <2>5, <2>6, <2>7, DeserializerParts DEF Plans, IgnoringHints
<1> QED
  BY <1>1 DEF DeserializeWith

(* By induction on the nesting.                                            *)
LEMMA HintsIdle ==
  ASSUME NEW r, Tabulates(r)
  PROVE  \A n \in 0..MaxNesting : HintsAreIdle(r, n)
<1> DEFINE Good == {n \in Nat : n \in 0..MaxNesting => HintsAreIdle(r, n)}
<1>0. \A s \in Sent : {} \in SUBSET Hints /\ SUBSET TrueHints(s) \subseteq SUBSET Hints
  BY TrueHintsMade
<1>1. 0 \in Good
  BY <1>0 DEF Tabulates, HintsAreIdle
<1>2. ASSUME NEW n \in Nat, n \in Good PROVE n + 1 \in Good
  <2> SUFFICES ASSUME n + 1 \in 0..MaxNesting PROVE HintsAreIdle(r, n + 1)
    OBVIOUS
  <2>1. n \in 0..MaxNesting /\ n \in 0..(MaxNesting - 1)
    BY NestingAssumption
  <2>2. HintsAreIdle(r, n) /\ IgnoresHints(r, n)
    BY <1>2, <2>1, HintsIgnored
  <2>3. ASSUME NEW d \in Deserializers, NEW s \in Sent, NEW hints \in SUBSET TrueHints(s)
        PROVE  Nested(r, n + 1, d, hints, s) = Nested(r, n + 1, d, {}, s)
    <3>1. hints \in SUBSET Hints /\ {} \in SUBSET Hints
      BY <1>0
    <3>2. /\ Nested(r, n + 1, d, hints, s) = DeserializeWith(r, n, d, hints, s)
          /\ Nested(r, n + 1, d, {}, s) = DeserializeWith(r, n, d, {}, s)
      BY <2>1, <3>1 DEF Tabulates
    <3>3. DeserializeWith(r, n, d, hints, s) = DeserializeWith(r, n, d, {}, s)
      BY <2>2, IdleForCall
    <3> QED
      BY <3>2, <3>3
  <2> QED
    BY <2>3 DEF HintsAreIdle
<1> HIDE DEF Good
<1>3. Nat \subseteq Good
  BY <1>1, <1>2, Induction
<1> QED
  BY <1>3 DEF Good

-----------------------------------------------------------------------------
(* The recursive function of Conforms exists, for the same reason.         *)
AlikePairs(f, g, n) ==
  \A d \in Deserializers, s \in Sent : Conforming(f, n, d, s) <=> Conforming(g, n, d, s)

(* What conforms to a parameter is the same for verdicts that are alike.   *)
LEMMA SameConformsToParameter ==
  ASSUME NEW f, NEW g, NEW n, AlikePairs(f, g, n), NEW p, IsParameter(p),
         NEW s \in Slices, s.kind = "object"
  PROVE  ConformsToParameter(f, n, p, s) <=> ConformsToParameter(g, n, p, s)
<1>1. CASE p.param = "value"
  <2>1. GetField(s, p.name) \in Sent /\ p.of \in Deserializers
    BY <1>1, GetFieldParts DEF Sent, IsParameter
  <2>2. Conforming(f, n, p.of, GetField(s, p.name)) <=> Conforming(g, n, p.of, GetField(s, p.name))
    BY <2>1 DEF AlikePairs
  <2> QED
    BY <1>1, <2>2 DEF ConformsToParameter
<1>2. CASE p.param = "slice"
  BY <1>2 DEF ConformsToParameter
<1>3. CASE p.param = "expected"
  BY <1>3 DEF ConformsToParameter
<1> QED
  BY <1>1, <1>2, <1>3 DEF IsParameter

(* What conforms to a plan is the same for verdicts that are alike.        *)
LEMMA SameConforms ==
  ASSUME NEW f, NEW g, NEW n, AlikePairs(f, g, n), NEW d \in Deserializers, NEW s \in Sent
  PROVE  ConformsToPlan(f, n, d, s) <=> ConformsToPlan(g, n, d, s)
<1>0. /\ s.kind = "object" => s \in Slices /\ s.fields \in Fields(Slices)
      /\ s.kind = "array" => s \in Slices /\ s.elems \in Seq(Slices)
      /\ Slices \subseteq Sent
  BY NoSliceIsNone, SliceParts DEF Sent
<1>1. CASE d.plan = "value"
  BY <1>1 DEF ConformsToPlan
<1>2. CASE d.plan = "parameters"
  <2>1. CASE s.kind = "object"
    <3>0. \A i \in DOMAIN d.params : IsParameter(d.params[i])
      BY <1>2, DeserializerParts
    <3>1. \A p \in Range(d.params) : IsParameter(p)
      BY <3>0 DEF Range
    <3>2. \A p \in Range(d.params) : ConformsToParameter(f, n, p, s) <=> ConformsToParameter(g, n, p, s)
      BY <1>0, <2>1, <3>1, SameConformsToParameter
    <3> QED
      BY <1>2, <3>2 DEF ConformsToPlan
  <2>2. CASE s.kind # "object"
    BY <1>2, <2>2 DEF ConformsToPlan
  <2> QED
    BY <2>1, <2>2
<1>3. CASE d.plan = "array"
  <2>1. s.kind = "array" => \A e \in Range(s.elems) : e \in Sent
    BY <1>0 DEF Range
  <2>2. s.kind = "array" => \A e \in Range(s.elems) : Conforming(f, n, d.element, e) <=> Conforming(g, n, d.element, e)
    BY <1>3, <2>1, DeserializerParts DEF AlikePairs
  <2> QED
    BY <1>3, <2>2 DEF ConformsToPlan
<1>4. CASE d.plan = "map"
  <2>1. s.kind = "object" => \A field \in Range(s.fields) : field.slice \in Sent
    BY <1>0, FieldParts DEF Range
  <2>2. s.kind = "object" =>
          \A field \in Range(s.fields) : Conforming(f, n, d.member, field.slice) <=> Conforming(g, n, d.member, field.slice)
    BY <1>4, <2>1, DeserializerParts DEF AlikePairs
  <2> QED
    BY <1>4, <2>2 DEF ConformsToPlan
<1>5. CASE d.plan = "tuple"
  <2>1. ASSUME s.kind = "array", Len(s.elems) = Len(d.elements), NEW i \in DOMAIN s.elems
        PROVE  Conforming(f, n, d.elements[i], s.elems[i]) <=> Conforming(g, n, d.elements[i], s.elems[i])
    <3>1. s.elems[i] \in Sent
      BY <1>0, <2>1
    <3>2. d.elements \in Seq(Deserializers)
      BY <1>5, DeserializerParts
    <3>3. DOMAIN s.elems = DOMAIN d.elements
      BY <1>0, <2>1, <3>2
    <3>4. d.elements[i] \in Deserializers
      BY <2>1, <3>2, <3>3
    <3> QED
      BY <3>1, <3>4 DEF AlikePairs
  <2> QED
    BY <1>5, <2>1 DEF ConformsToPlan
<1>6. CASE d.plan = "attribute"
  <2>1. s.kind = "object" => GetField(s, d.name) \in Sent
    BY <1>0, GetFieldParts DEF Sent
  <2>2. s.kind = "object" => (Conforming(f, n, d.of, GetField(s, d.name)) <=> Conforming(g, n, d.of, GetField(s, d.name)))
    BY <1>6, <2>1, DeserializerParts DEF AlikePairs
  <2> QED
    BY <1>6, <2>2 DEF ConformsToPlan
<1>7. CASE d.plan = "field_name"
  <2>1. \A i \in DOMAIN d.pairs : Conforming(f, n, d.pairs[i].of, s) <=> Conforming(g, n, d.pairs[i].of, s)
    BY <1>7, DeserializerParts DEF AlikePairs
  <2> QED
    BY <1>7, <2>1 DEF ConformsToPlan
<1>8. CASE d.plan = "field_value"
  <2>1. \A pair \in Range(d.pairs) : Conforming(f, n, pair.of, s) <=> Conforming(g, n, pair.of, s)
    BY <1>8, DeserializerParts DEF AlikePairs, Range
  <2> QED
    BY <1>8, <2>1 DEF ConformsToPlan
<1>9. CASE d.plan = "conditional"
  <2>1. /\ Conforming(f, n, d.object, s) <=> Conforming(g, n, d.object, s)
        /\ Conforming(f, n, d.default, s) <=> Conforming(g, n, d.default, s)
    BY <1>9, DeserializerParts DEF AlikePairs
  <2> QED
    BY <1>9, <2>1 DEF ConformsToPlan
<1>10. CASE d.plan = "validate"
  <2>1. Conforming(f, n, d.of, s) <=> Conforming(g, n, d.of, s)
    BY <1>10, DeserializerParts DEF AlikePairs
  <2> QED
    BY <1>10, <2>1 DEF ConformsToPlan
<1>11. CASE d.plan = "proxy"
  <2>1. Conforming(f, n, Definitions[d.name], s) <=> Conforming(g, n, Definitions[d.name], s)
    BY <1>11, DeserializerParts DEF AlikePairs
  <2> QED
    BY <1>11, <2>1 DEF ConformsToPlan
<1> QED
  BY <1>1, <1>2, <1>3, <1>4, <1>5, <1>6, <1>7, <1>8, <1>9, <1>10, <1>11, DeserializerParts DEF Plans

PairsUpTo(m) == [nesting : 0..m, of : Deserializers, slice : Sent]

Verdict(c, pair) == pair.nesting # 0 /\ ConformsToPlan(c, pair.nesting - 1, pair.of, pair.slice)

AreVerdicts(m, c) == c = [pair \in PairsUpTo(m) |-> Verdict(c, pair)]

(* A pair consists of what it is made of.                                  *)
LEMMA PairParts ==
  ASSUME NEW n, NEW d, NEW s
  PROVE  /\ Pair(n, d, s).nesting = n
         /\ Pair(n, d, s).of = d
         /\ Pair(n, d, s).slice = s
         /\ \A m \in Nat : n \in 0..m /\ d \in Deserializers /\ s \in Sent => Pair(n, d, s) \in PairsUpTo(m)
BY DEF Pair, PairsUpTo

(* A pair one level deeper is new or was there before.                     *)
LEMMA PairsDeeper ==
  ASSUME NEW m \in Nat, NEW pair \in PairsUpTo(m + 1)
  PROVE  /\ pair.nesting \in 0..(m + 1) /\ pair.of \in Deserializers /\ pair.slice \in Sent
         /\ pair.nesting # m + 1 => pair \in PairsUpTo(m) /\ pair.nesting \in 0..m
BY DEF PairsUpTo

(* By induction on the nesting.                                            *)
LEMMA VerdictsExist == \A m \in Nat : \E c : AreVerdicts(m, c)
<1> DEFINE Good == {m \in Nat : \E c : AreVerdicts(m, c)}
<1>1. 0 \in Good
  <2> DEFINE c == [pair \in PairsUpTo(0) |-> FALSE]
  <2>1. \A pair \in PairsUpTo(0) : Verdict(c, pair) = FALSE
    <3>1. \A pair \in PairsUpTo(0) : pair.nesting = 0
      BY DEF PairsUpTo
    <3> HIDE DEF c
    <3> QED
      BY <3>1 DEF Verdict
  <2>2. c = [pair \in PairsUpTo(0) |-> Verdict(c, pair)]
    BY <2>1
  <2> HIDE DEF c
  <2>3. AreVerdicts(0, c)
    BY <2>2 DEF AreVerdicts
  <2> QED
    BY <2>3
<1>2. ASSUME NEW m \in Nat, m \in Good PROVE m + 1 \in Good
  <2>1. PICK g : AreVerdicts(m, g)
    BY <1>2
  <2> DEFINE deepest(pair) == TRUE /\ ConformsToPlan(g, m, pair.of, pair.slice)
             f == [pair \in PairsUpTo(m + 1) |-> IF pair.nesting = m + 1 THEN deepest(pair) ELSE g[pair]]
  <2>2. \A pair \in PairsUpTo(m) : g[pair] = Verdict(g, pair)
    BY <2>1 DEF AreVerdicts
  <2>3. ASSUME NEW n \in 0..m PROVE AlikePairs(f, g, n)
    <3> SUFFICES ASSUME NEW d \in Deserializers, NEW s \in Sent
                 PROVE  f[Pair(n, d, s)] = g[Pair(n, d, s)]
      BY DEF AlikePairs, Conforming
    <3>1. Pair(n, d, s) \in PairsUpTo(m + 1) /\ Pair(n, d, s).nesting # m + 1
      <4>1. m + 1 \in Nat /\ n \in 0..(m + 1) /\ n # m + 1
        OBVIOUS
      <4> QED
        BY <4>1, PairParts
    <3> HIDE DEF deepest
    <3> QED
      BY <3>1
  <2>4. ASSUME NEW pair \in PairsUpTo(m + 1) PROVE f[pair] = Verdict(f, pair)
    <3>1. CASE pair.nesting = m + 1
      <4> HIDE DEF deepest
      <4>1. f[pair] = deepest(pair)
        BY <3>1
      <4>2. AlikePairs(f, g, m)
        BY <2>3
      <4> HIDE DEF f
      <4>3. ConformsToPlan(g, m, pair.of, pair.slice) <=> ConformsToPlan(f, m, pair.of, pair.slice)
        BY <4>2, SameConforms, PairsDeeper
      <4>4. pair.nesting # 0 /\ pair.nesting - 1 = m
        BY <3>1
      <4> DEFINE A == ConformsToPlan(g, m, pair.of, pair.slice)
                 B == ConformsToPlan(f, m, pair.of, pair.slice)
      <4>5. deepest(pair) = (TRUE /\ A)
        BY DEF deepest
      <4>6. Verdict(f, pair) = (TRUE /\ B)
        BY <4>4 DEF Verdict
      <4>7. A <=> B
        BY <4>3
      <4> HIDE DEF A, B
      <4> QED
        BY <4>1, <4>5, <4>6, <4>7
    <3>2. CASE pair.nesting # m + 1 /\ pair.nesting # 0
      <4> HIDE DEF deepest
      <4>1. f[pair] = g[pair]
        BY <3>2
      <4>2. pair \in PairsUpTo(m) /\ pair.nesting - 1 \in 0..m
        BY <3>2, PairsDeeper
      <4>3. AlikePairs(f, g, pair.nesting - 1)
        BY <2>3, <4>2
      <4> HIDE DEF f
      <4>4. ConformsToPlan(f, pair.nesting - 1, pair.of, pair.slice)
              <=> ConformsToPlan(g, pair.nesting - 1, pair.of, pair.slice)
        BY <4>3, SameConforms, PairsDeeper
      <4> DEFINE A == ConformsToPlan(f, pair.nesting - 1, pair.of, pair.slice)
                 B == ConformsToPlan(g, pair.nesting - 1, pair.of, pair.slice)
      <4>5. Verdict(f, pair) = (TRUE /\ A) /\ Verdict(g, pair) = (TRUE /\ B)
        BY <3>2 DEF Verdict
      <4>6. A <=> B
        BY <4>4
      <4> HIDE DEF A, B
      <4>7. g[pair] = Verdict(g, pair)
        BY <2>2, <4>2
      <4> QED
        BY <4>1, <4>5, <4>6, <4>7
    <3>3. CASE pair.nesting = 0
      <4> HIDE DEF deepest
      <4>1. f[pair] = g[pair]
        BY <3>3
      <4>2. pair \in PairsUpTo(m)
        BY <3>3, PairsDeeper
      <4> HIDE DEF f
      <4>3. Verdict(f, pair) = FALSE /\ Verdict(g, pair) = FALSE
        BY <3>3 DEF Verdict
      <4> QED
        BY <2>2, <4>1, <4>2, <4>3
    <3> QED
      BY <3>1, <3>2, <3>3
  <2>5. f = [pair \in PairsUpTo(m + 1) |-> f[pair]]
    OBVIOUS
  <2> HIDE DEF f
  <2>6. f = [pair \in PairsUpTo(m + 1) |-> Verdict(f, pair)]
    BY <2>4, <2>5
  <2>7. AreVerdicts(m + 1, f)
    BY <2>6 DEF AreVerdicts
  <2> QED
    BY <2>7
<1> HIDE DEF Good
<1>3. Nat \subseteq Good
  BY <1>1, <1>2, Induction
<1> QED
  BY <1>3 DEF Good

TabulatesPairs(c) ==
  \A d \in Deserializers, s \in Sent :
    /\ ~Conforming(c, 0, d, s)
    /\ \A n \in 0..(MaxNesting - 1) : Conforming(c, n + 1, d, s) <=> ConformsToPlan(c, n, d, s)

(* There is a table of verdicts, and ConformsWithin reads it.              *)
LEMMA ConformsMade ==
  \E c : /\ TabulatesPairs(c)
         /\ \A n, d, s : ConformsWithin(n, d, s) = Conforming(c, n, d, s)
<1> DEFINE c == CHOOSE g : AreVerdicts(MaxNesting, g)
<1>1. \A n, d, s : ConformsWithin(n, d, s) = Conforming(c, n, d, s)
  BY DEF ConformsWithin, AreVerdicts, Verdict, PairsUpTo, Pairs, Sent
<1>2. AreVerdicts(MaxNesting, c)
  BY VerdictsExist, NestingAssumption
<1> HIDE DEF c
<1>3. \A pair \in PairsUpTo(MaxNesting) : c[pair] = Verdict(c, pair)
  BY <1>2 DEF AreVerdicts
<1>4. ASSUME NEW d \in Deserializers, NEW s \in Sent
      PROVE  /\ ~Conforming(c, 0, d, s)
             /\ \A n \in 0..(MaxNesting - 1) : Conforming(c, n + 1, d, s) <=> ConformsToPlan(c, n, d, s)
  <2>1. ~Conforming(c, 0, d, s)
    <3>1. Pair(0, d, s) \in PairsUpTo(MaxNesting) /\ Pair(0, d, s).nesting = 0
      <4>1. 0 \in 0..MaxNesting
        BY NestingAssumption
      <4> QED
        BY <4>1, PairParts, NestingAssumption
    <3> QED
      BY <1>3, <3>1 DEF Conforming, Verdict
  <2>2. ASSUME NEW n \in 0..(MaxNesting - 1)
        PROVE  Conforming(c, n + 1, d, s) <=> ConformsToPlan(c, n, d, s)
    <3> DEFINE k == n + 1
               pair == Pair(k, d, s)
    <3>1. k \in 0..MaxNesting /\ k # 0 /\ k - 1 = n
      BY NestingAssumption
    <3> HIDE DEF k
    <3>2. pair \in PairsUpTo(MaxNesting) /\ pair.nesting = k /\ pair.of = d /\ pair.slice = s
      BY <3>1, PairParts, NestingAssumption
    <3>3. Conforming(c, k, d, s) = c[pair]
      BY DEF Conforming
    <3> HIDE DEF pair
    <3>4. c[pair] = Verdict(c, pair)
      BY <1>3, <3>2
    <3>5. Verdict(c, pair) <=> ConformsToPlan(c, n, d, s)
      BY <3>1, <3>2 DEF Verdict
    <3> QED
      BY <3>3, <3>4, <3>5 DEF k
  <2> QED
    BY <2>1, <2>2
<1>5. TabulatesPairs(c)
  BY <1>4 DEF TabulatesPairs
<1> QED
  BY <1>1, <1>5

-----------------------------------------------------------------------------
(* Results: a value, an error with a trace, or an exception.               *)
Steps == Keys \cup [index : Int]

IsResult(x) ==
  \/ x = Throws
  \/ x = Ok(x.value)
  \/ x = [status |-> "error", message |-> x.message, trace |-> x.trace] /\ x.trace \in Seq(Steps)

(* Exceptions, values and errors are results, and differ.                  *)
LEMMA ResultsMade ==
  /\ IsResult(Throws) /\ ~IsOk(Throws) /\ Throws.status = "throws"
  /\ \A v : IsResult(Ok(v)) /\ IsOk(Ok(v)) /\ Ok(v).value = v
  /\ \A m : IsResult(Error(m)) /\ ~IsOk(Error(m)) /\ Error(m).status = "error"
<1>1. \A m : IsResult(Error(m)) /\ ~IsOk(Error(m)) /\ Error(m).status = "error"
  <2>1. <<>> \in Seq(Steps)
    OBVIOUS
  <2> QED
    BY <2>1 DEF IsResult, Error, IsOk
<1> QED
  BY <1>1 DEF IsResult, Throws, Ok, IsOk

(* A step in front of a trace.                                             *)
LEMMA TracedParts ==
  ASSUME NEW x, IsResult(x), NEW step \in Steps
  PROVE  /\ IsResult(TracedBy(step, x))
         /\ IsOk(TracedBy(step, x)) <=> IsOk(x)
         /\ IsOk(x) => TracedBy(step, x) = x
         /\ TracedBy(step, x).status = x.status
         /\ x.status = "error" => TracedBy(step, x).trace[1] = step
<1>1. CASE x.status = "error"
  <2> DEFINE trace == <<step>> \o x.trace
  <2>1. x = [status |-> "error", message |-> x.message, trace |-> x.trace] /\ x.trace \in Seq(Steps)
    BY <1>1 DEF IsResult, Throws, Ok
  <2>2. trace \in Seq(Steps) /\ trace[1] = step
    BY <2>1
  <2>3. TracedBy(step, x) = [x EXCEPT !.trace = trace]
    BY <1>1 DEF TracedBy
  <2> HIDE DEF trace
  <2>4. [x EXCEPT !.trace = trace] = [status |-> "error", message |-> x.message, trace |-> trace]
    BY <2>1
  <2> QED
    BY <1>1, <2>2, <2>3, <2>4 DEF IsResult, IsOk
<1>2. CASE x.status # "error"
  BY <1>2 DEF TracedBy
<1> QED
  BY <1>1, <1>2

(* Results in order: all values, or the first that is none.                *)
LEMMA AllOfParts ==
  ASSUME NEW results, DOMAIN results \subseteq Nat, \A i \in DOMAIN results : IsResult(results[i])
  PROVE  /\ IsResult(AllOf(results))
         /\ IsOk(AllOf(results)) <=> \A i \in DOMAIN results : IsOk(results[i])
         /\ IsOk(AllOf(results)) => AllOf(results).value = [i \in DOMAIN results |-> results[i].value]
         /\ ~IsOk(AllOf(results)) =>
              LET first == Min({i \in DOMAIN results : ~IsOk(results[i])})
              IN  first \in DOMAIN results /\ ~IsOk(results[first]) /\ AllOf(results) = results[first]
<1> DEFINE failed == {i \in DOMAIN results : ~IsOk(results[i])}
           values == [i \in DOMAIN results |-> results[i].value]
<1>1. CASE failed = {}
  <2>1. AllOf(results) = Ok(values)
    BY <1>1 DEF AllOf
  <2> HIDE DEF values
  <2>2. IsResult(Ok(values)) /\ IsOk(Ok(values)) /\ Ok(values).value = values
    BY ResultsMade
  <2>3. \A i \in DOMAIN results : IsOk(results[i])
    BY <1>1
  <2> HIDE DEF failed
  <2> QED
    BY <2>1, <2>2, <2>3 DEF values
<1>2. CASE failed # {}
  <2>1. AllOf(results) = results[Min(failed)]
    BY <1>2 DEF AllOf
  <2>2. Min(failed) \in failed
    BY <1>2, LeastExists
  <2> QED
    BY <2>1, <2>2
<1> QED
  BY <1>1, <1>2

ReturnsResults(r, n) ==
  \A d \in Deserializers, hints \in SUBSET Hints, s \in Sent : IsResult(Nested(r, n, d, hints, s))

(* A parameter is read to a result.                                        *)
LEMMA ParameterResult ==
  ASSUME NEW r, NEW n, ReturnsResults(r, n), NEW p, IsParameter(p), NEW hints,
         NEW s \in Slices, s.kind = "object"
  PROVE  IsResult(UnpackParameter(r, n, p, hints, s))
<1>0. p.name \in Steps /\ GetField(s, p.name) \in Sent
  BY GetFieldParts DEF IsParameter, Steps, Sent
<1>1. CASE p.param = "value"
  <2> DEFINE result == Nested(r, n, p.of, {}, GetField(s, p.name))
  <2>1. IsResult(result)
    BY <1>0, <1>1, HintsMade DEF ReturnsResults, IsParameter
  <2> HIDE DEF result
  <2>2. IsResult(TracedBy(p.name, result))
    BY <1>0, <2>1, TracedParts
  <2> QED
    BY <1>1, <2>2, ResultsMade DEF UnpackParameter, result
<1>2. CASE p.param = "slice"
  BY <1>2, ResultsMade DEF UnpackParameter
<1>3. CASE p.param = "expected"
  <2>1. IsResult(TracedBy(p.name, Error("not as expected")))
    BY <1>0, ResultsMade, TracedParts
  <2> QED
    BY <1>3, <2>1, ResultsMade DEF UnpackParameter
<1> QED
  BY <1>1, <1>2, <1>3 DEF IsParameter

(* So are the parameters of an object.                                     *)
LEMMA ParametersResult ==
  ASSUME NEW r, NEW n, ReturnsResults(r, n), NEW params, params \in Seq(Range(params)),
         \A i \in DOMAIN params : IsParameter(params[i]), NEW hints, NEW s \in Slices, s.kind = "object"
  PROVE  IsResult(UnpackParameters(r, n, params, hints, s))
<1> DEFINE results == [i \in DOMAIN params |-> UnpackParameter(r, n, params[i], hints, s)]
<1>1. DOMAIN results \subseteq Nat
  OBVIOUS
<1>2. \A i \in DOMAIN results : IsResult(results[i])
  BY ParameterResult
<1> HIDE DEF results
<1>3. IsResult(AllOf(results))
  BY <1>1, <1>2, AllOfParts
<1> QED
  BY <1>3, ResultsMade DEF UnpackParameters, results

(* So are the elements of an array, and each one of them.                  *)
LEMMA ElementsResult ==
  ASSUME NEW r, NEW n, ReturnsResults(r, n), NEW element \in Deserializers, NEW s \in Slices, s.kind = "array"
  PROVE  /\ \A i \in DOMAIN s.elems : IsResult(Nested(r, n, element, {}, s.elems[i])) /\ Index(i) \in Steps
         /\ IsResult(UnpackElements(r, n, element, s))
<1> DEFINE results == [i \in DOMAIN s.elems |-> TracedBy(Index(i), Nested(r, n, element, {}, s.elems[i]))]
<1>0. s.elems \in Seq(Slices)
  BY SliceParts
<1>1. DOMAIN results \subseteq Nat
  BY <1>0
<1>2. ASSUME NEW i \in DOMAIN s.elems
      PROVE  IsResult(Nested(r, n, element, {}, s.elems[i])) /\ Index(i) \in Steps
  <2>1. i \in Nat /\ s.elems[i] \in Sent
    BY <1>0 DEF Sent
  <2> QED
    BY <2>1, HintsMade DEF Index, Steps, ReturnsResults
<1>3. \A i \in DOMAIN results : IsResult(results[i])
  BY <1>2, TracedParts
<1> HIDE DEF results
<1>4. IsResult(AllOf(results))
  BY <1>1, <1>3, AllOfParts
<1> QED
  BY <1>2, <1>4 DEF UnpackElements, results

(* So are the members of a map.                                            *)
LEMMA MembersResult ==
  ASSUME NEW r, NEW n, ReturnsResults(r, n), NEW member \in Deserializers, NEW hints \in SUBSET Hints,
         NEW s \in Slices, s.kind = "object"
  PROVE  IsResult(UnpackMembers(r, n, member, hints, s))
<1> DEFINE value(i) == TracedBy(s.fields[i].name, Nested(r, n, member, Stateless(hints), s.fields[i].slice))
           results == [i \in DOMAIN s.fields |->
                         IF IsOk(value(i)) THEN Ok(<<s.fields[i].name, value(i).value>>) ELSE value(i)]
<1>0. s.fields \in Fields(Slices)
  BY SliceParts
<1>1. DOMAIN results \subseteq Nat
  BY <1>0, FieldParts
<1>2. ASSUME NEW i \in DOMAIN s.fields PROVE IsResult(value(i))
  <2>1. s.fields[i].name \in Steps /\ s.fields[i].slice \in Sent
    BY <1>0, FieldParts DEF Sent, Steps
  <2>2. IsResult(Nested(r, n, member, Stateless(hints), s.fields[i].slice))
    BY <2>1, HintsMade DEF ReturnsResults
  <2> QED
    BY <2>1, <2>2, TracedParts
<1> HIDE DEF value
<1>3. \A i \in DOMAIN results : IsResult(results[i])
  BY <1>2, ResultsMade
<1> HIDE DEF results
<1>4. IsResult(AllOf(results))
  BY <1>1, <1>3, AllOfParts
<1>5. UnpackMembers(r, n, member, hints, s) = AllOf(results)
  BY DEF UnpackMembers, results, value
<1> QED
  BY <1>4, <1>5

(* The results of the elements of a tuple.                                 *)
TupleResults(r, n, elements, s) ==
  [i \in DOMAIN elements |->
     IF i > Len(s.elems) THEN Error("bad array length")
     ELSE TracedBy(Index(i), Nested(r, n, elements[i], {}, s.elems[i]))]

(* So are the elements of a tuple, up to the first that is refused.        *)
LEMMA TupleResult ==
  ASSUME NEW r, NEW n, ReturnsResults(r, n), NEW elements \in Seq(Deserializers),
         NEW s \in Slices, s.kind = "array"
  PROVE  LET results == TupleResults(r, n, elements, s)
         IN  /\ DOMAIN results = DOMAIN elements /\ DOMAIN elements \subseteq Nat
             /\ \A i \in DOMAIN elements : IsResult(results[i])
             /\ \A i \in DOMAIN elements : IsOk(results[i]) <=>
                  i \in DOMAIN s.elems /\ IsOk(Nested(r, n, elements[i], {}, s.elems[i]))
             /\ IsResult(UnpackTuple(r, n, elements, s))
<1> DEFINE results == TupleResults(r, n, elements, s)
           slices == s.elems
<1>0. slices \in Seq(Slices)
  BY SliceParts
<1>1. DOMAIN results = DOMAIN elements /\ DOMAIN elements \subseteq Nat
  BY DEF TupleResults
<1>2. ASSUME NEW i \in DOMAIN elements, i \in DOMAIN slices
      PROVE  IsResult(Nested(r, n, elements[i], {}, slices[i])) /\ Index(i) \in Steps /\ ~(i > Len(slices))
  <2> HIDE DEF slices
  <2>1. i \in Nat /\ slices[i] \in Sent /\ ~(i > Len(slices))
    BY <1>0, <1>2 DEF Sent
  <2>2. elements[i] \in Deserializers
    OBVIOUS
  <2> QED
    BY <2>1, <2>2, HintsMade DEF Index, Steps, ReturnsResults
<1>3. ASSUME NEW i \in DOMAIN elements, i \notin DOMAIN slices PROVE i > Len(slices)
  <2> HIDE DEF slices
  <2> QED
    BY <1>0, <1>3
<1>4. ASSUME NEW i \in DOMAIN elements
      PROVE  /\ IsResult(results[i])
             /\ IsOk(results[i]) <=> i \in DOMAIN slices /\ IsOk(Nested(r, n, elements[i], {}, slices[i]))
  <2>1. CASE i \in DOMAIN slices
    <3>1. results[i] = TracedBy(Index(i), Nested(r, n, elements[i], {}, slices[i]))
      BY <1>2, <2>1 DEF TupleResults
    <3> QED
      BY <1>2, <2>1, <3>1, TracedParts
  <2>2. CASE i \notin DOMAIN slices
    <3>1. results[i] = Error("bad array length")
      BY <1>3, <2>2 DEF TupleResults
    <3> QED
      BY <2>2, <3>1, ResultsMade
  <2> QED
    BY <2>1, <2>2
<1>5. UnpackTuple(r, n, elements, s) \in {Error("excess elements"), AllOf(results)}
  BY DEF UnpackTuple, TupleResults
<1>6. IsResult(AllOf(results))
  BY <1>1, <1>4, AllOfParts
<1>7. IsResult(UnpackTuple(r, n, elements, s))
  BY <1>5, <1>6, ResultsMade
<1> QED
  BY <1>1, <1>4, <1>7

(* What a dependent deserializer calls.                                    *)
LEMMA ByNameParts ==
  ASSUME NEW pairs, pairs \in Seq(Range(pairs)),
         \A i \in DOMAIN pairs : pairs[i].name \in Keys /\ pairs[i].of \in Deserializers,
         NEW s \in Slices, s.kind = "object"
  PROVE  LET present == {i \in DOMAIN pairs : pairs[i].name \in Names(s)}
             pair == pairs[Min(present)]
         IN  present # {} =>
               /\ Min(present) \in present /\ \A i \in present : Min(present) <= i
               /\ pair.name \in Steps /\ pair.of \in Deserializers
               /\ {HasField(pair.name, GetField(s, pair.name))} \in SUBSET Hints
               /\ {HasField(pair.name, GetField(s, pair.name))} \in SUBSET TrueHints(s)
<1> DEFINE present == {i \in DOMAIN pairs : pairs[i].name \in Names(s)}
           pair == pairs[Min(present)]
<1> SUFFICES ASSUME present # {}
             PROVE  /\ Min(present) \in present /\ \A i \in present : Min(present) <= i
                    /\ pair.name \in Steps /\ pair.of \in Deserializers
                    /\ {HasField(pair.name, GetField(s, pair.name))} \in SUBSET Hints
                    /\ {HasField(pair.name, GetField(s, pair.name))} \in SUBSET TrueHints(s)
  OBVIOUS
<1>1. Min(present) \in present /\ \A i \in present : Min(present) <= i
  <2>1. present \subseteq Nat
    OBVIOUS
  <2> HIDE DEF present
  <2> QED
    BY <2>1, LeastExists
<1>2. pair.name \in Keys /\ pair.of \in Deserializers /\ pair.name \in Names(s)
  BY <1>1
<1> HIDE DEF pair
<1>3. GetField(s, pair.name) \in Sent
  BY GetFieldParts DEF Sent
<1>4. {HasField(pair.name, GetField(s, pair.name))} \in SUBSET Hints
  BY <1>2, <1>3, HintsMade
<1>5. HasField(pair.name, GetField(s, pair.name)) \in TrueHints(s)
  <2>1. PICK i \in DOMAIN s.fields : s.fields[i].name = pair.name
    BY <1>2, FieldAt
  <2>2. GetField(s, pair.name) = s.fields[i].slice
    BY <2>1, FieldFound
  <2>3. s.fields[i] \in Range(s.fields)
    BY DEF Range
  <2> QED
    BY <2>1, <2>2, <2>3 DEF TrueHints
<1> QED
  BY <1>1, <1>2, <1>4, <1>5 DEF Steps

(* The alternative chosen by a value, and the hints it is given.           *)
LEMMA ByValueParts ==
  ASSUME NEW name \in Keys, NEW pairs, pairs \in Seq(Range(pairs)),
         \A i \in DOMAIN pairs : pairs[i].value # NoSlice /\ pairs[i].of \in Deserializers,
         NEW s \in Slices, s.kind = "object"
  PROVE  LET slice == GetField(s, name)
             equal == {i \in DOMAIN pairs : pairs[i].value = slice}
             hints == {HasFieldWithValue(name, slice), IsObject, HasField(name, slice)}
         IN  equal # {} =>
               /\ Min(equal) \in equal /\ pairs[Min(equal)].of \in Deserializers
               /\ hints \in SUBSET Hints /\ hints \in SUBSET TrueHints(s)
<1> DEFINE slice == GetField(s, name)
           equal == {i \in DOMAIN pairs : pairs[i].value = slice}
           hints == {HasFieldWithValue(name, slice), IsObject, HasField(name, slice)}
<1> SUFFICES ASSUME equal # {}
             PROVE  /\ Min(equal) \in equal /\ pairs[Min(equal)].of \in Deserializers
                    /\ hints \in SUBSET Hints /\ hints \in SUBSET TrueHints(s)
  OBVIOUS
<1>1. Min(equal) \in equal
  <2>1. equal \subseteq Nat
    OBVIOUS
  <2> HIDE DEF equal
  <2> QED
    BY <2>1, LeastExists
<1>2. pairs[Min(equal)].of \in Deserializers /\ slice # NoSlice
  BY <1>1
<1>3. slice \in Sent /\ name \in Names(s)
  BY <1>2, GetFieldParts DEF Sent
<1>4. hints \in SUBSET Hints
  BY <1>3, HintsMade
<1>5. hints \in SUBSET TrueHints(s)
  <2>1. PICK i \in DOMAIN s.fields : s.fields[i].name = name
    BY <1>3, FieldAt
  <2>2. slice = s.fields[i].slice
    BY <2>1, FieldFound
  <2>3. s.fields[i] \in Range(s.fields)
    BY DEF Range
  <2> QED
    BY <2>1, <2>2, <2>3 DEF TrueHints
<1> QED
  BY <1>1, <1>2, <1>4, <1>5

(* One call returns a result if those it makes do.                         *)
LEMMA CallResult ==
  ASSUME NEW r, NEW n, ReturnsResults(r, n),
         NEW d \in Deserializers, NEW hints \in SUBSET Hints, NEW s \in Sent
  PROVE  IsResult(DeserializeWith(r, n, d, hints, s))
<1>0. /\ s.kind = "object" => s \in Slices
      /\ s.kind = "array" => s \in Slices
  BY NoSliceIsNone DEF Sent
<1>1. IsResult(Unpack(r, n, d, hints, s))
  <2>1. CASE d.plan = "value"
    <3>1. Unpack(r, n, d, hints, s) = Read(d.type, s)
      BY <2>1 DEF Unpack
    <3> QED
      BY <3>1, ResultsMade DEF Read
  <2>2. CASE d.plan = "parameters"
    <3>1. s.kind = "object" => IsResult(UnpackParameters(r, n, d.params, hints, s))
      BY <1>0, <2>2, DeserializerParts, ParametersResult
    <3> QED
      BY <2>2, <3>1, ResultsMade DEF Unpack, ExpectObject
  <2>3. CASE d.plan = "array"
    <3>1. s.kind = "array" => IsResult(UnpackElements(r, n, d.element, s))
      BY <1>0, <2>3, DeserializerParts, ElementsResult
    <3> QED
      BY <2>3, <3>1, ResultsMade DEF Unpack, ExpectArray
  <2>4. CASE d.plan = "map"
    <3>1. s.kind = "object" => IsResult(UnpackMembers(r, n, d.member, hints, s))
      BY <1>0, <2>4, DeserializerParts, MembersResult
    <3> QED
      BY <2>4, <3>1, ResultsMade DEF Unpack, ExpectObject
  <2>5. CASE d.plan = "tuple"
    <3>1. s.kind = "array" => IsResult(UnpackTuple(r, n, d.elements, s))
      BY <1>0, <2>5, DeserializerParts, TupleResult
    <3> QED
      BY <2>5, <3>1, ResultsMade DEF Unpack, ExpectArray
  <2>6. CASE d.plan = "attribute"
    <3>1. s.kind = "object" => IsResult(UnpackAttribute(r, n, d, hints, s))
      <4> SUFFICES ASSUME s.kind = "object" PROVE IsResult(UnpackAttribute(r, n, d, hints, s))
        OBVIOUS
      <4> DEFINE known == {h \in hints : h.hint = "has_field" /\ h.name = d.name}
                 slice == IF known # {} THEN (CHOOSE h \in known : TRUE).slice ELSE GetField(s, d.name)
      <4>1. slice \in Sent
        BY <1>0, AttributeSent
      <4>2. UnpackAttribute(r, n, d, hints, s) = TracedBy(d.name, Nested(r, n, d.of, {}, slice))
        BY DEF UnpackAttribute
      <4> HIDE DEF slice
      <4>3. d.name \in Steps /\ d.of \in Deserializers
        BY <2>6, DeserializerParts DEF Steps
      <4>4. IsResult(Nested(r, n, d.of, {}, slice))
        BY <4>1, <4>3, HintsMade DEF ReturnsResults
      <4> QED
        BY <4>2, <4>3, <4>4, TracedParts
    <3> QED
      BY <2>6, <3>1, ResultsMade DEF Unpack, ExpectObject
  <2>7. CASE d.plan = "field_name"
    <3> DEFINE pairs == d.pairs
               present == {i \in DOMAIN pairs : pairs[i].name \in Names(s)}
               pair == pairs[Min(present)]
               result == Nested(r, n, pair.of, {HasField(pair.name, GetField(s, pair.name))}, s)
    <3>1. Unpack(r, n, d, hints, s) = UnpackByName(r, n, pairs, s)
      BY <2>7 DEF Unpack
    <3>2. s.kind = "object" /\ present # {} =>
            /\ pair.name \in Steps /\ pair.of \in Deserializers
            /\ {HasField(pair.name, GetField(s, pair.name))} \in SUBSET Hints
      <4>1. /\ pairs \in Seq(Range(pairs))
            /\ \A i \in DOMAIN pairs : pairs[i].name \in Keys /\ pairs[i].of \in Deserializers
        BY <2>7, DeserializerParts
      <4> HIDE DEF pairs
      <4> QED
        BY <1>0, <4>1, ByNameParts
    <3>3. s.kind = "object" /\ present # {} => IsResult(TracedBy(pair.name, result))
      <4> HIDE DEF pair, present
      <4>1. s.kind = "object" /\ present # {} => IsResult(result)
        BY <3>2 DEF ReturnsResults
      <4> HIDE DEF result
      <4> QED
        BY <3>2, <4>1, TracedParts
    <3>4. UnpackByName(r, n, pairs, s) =
            IF s.kind # "object" THEN Throws
            ELSE IF present = {} THEN Error("format not recognized") ELSE TracedBy(pair.name, result)
      BY DEF UnpackByName
    <3> HIDE DEF pairs, present, pair, result
    <3> QED
      BY <3>1, <3>3, <3>4, ResultsMade
  <2>8. CASE d.plan = "field_value"
    <3> DEFINE pairs == d.pairs
               slice == GetField(s, d.name)
               equal == {i \in DOMAIN pairs : pairs[i].value = slice}
               made == {HasFieldWithValue(d.name, slice), IsObject, HasField(d.name, slice)}
               of == pairs[Min(equal)].of
    <3>1. Unpack(r, n, d, hints, s) = UnpackByValue(r, n, d.name, pairs, s)
      BY <2>8 DEF Unpack
    <3>2. s.kind = "object" /\ equal # {} => of \in Deserializers /\ made \in SUBSET Hints
      <4>1. /\ pairs \in Seq(Range(pairs)) /\ d.name \in Keys
            /\ \A i \in DOMAIN pairs : pairs[i].value # NoSlice /\ pairs[i].of \in Deserializers
        BY <2>8, DeserializerParts
      <4> HIDE DEF pairs
      <4> QED
        BY <1>0, <4>1, ByValueParts
    <3>3. s.kind = "object" /\ equal # {} => IsResult(Nested(r, n, of, made, s))
      <4> HIDE DEF of, equal, made
      <4> QED
        BY <3>2 DEF ReturnsResults
    <3>4. UnpackByValue(r, n, d.name, pairs, s) =
            IF s.kind # "object" THEN Throws
            ELSE IF equal # {} THEN Nested(r, n, of, made, s)
            ELSE IF slice = NoSlice THEN Throws
            ELSE TracedBy(d.name, Error("unrecognized value"))
      BY DEF UnpackByValue
    <3>5. IsResult(TracedBy(d.name, Error("unrecognized value")))
      BY <2>8, DeserializerParts, TracedParts, ResultsMade DEF Steps
    <3> HIDE DEF pairs, slice, equal, made, of
    <3> QED
      BY <3>1, <3>3, <3>4, <3>5, ResultsMade
  <2>9. CASE d.plan = "conditional"
    <3>1. IsResult(Nested(r, n, d.object, {IsObject}, s)) /\ IsResult(Nested(r, n, d.default, {}, s))
      BY <2>9, DeserializerParts, HintsMade DEF ReturnsResults
    <3> QED
      BY <2>9, <3>1 DEF Unpack, UnpackConditional
  <2>10. CASE d.plan = "validate"
    <3>1. IsResult(Nested(r, n, d.of, hints, s))
      BY <2>10, DeserializerParts DEF ReturnsResults
    <3> QED
      BY <2>10, <3>1, ResultsMade DEF Unpack, UnpackValidated
  <2>11. CASE d.plan = "proxy"
    <3>1. IsResult(Nested(r, n, Definitions[d.name], hints, s))
      BY <2>11, DeserializerParts DEF ReturnsResults
    <3> QED
      BY <2>11, <3>1 DEF Unpack
  <2> QED
    BY <2>1, <2>2, <2>3, <2>4, <2>5, <2>6, <2>7, <2>8, <2>9, <2>10, <2>11, DeserializerParts DEF Plans
<1> QED
  BY <1>1, ResultsMade DEF DeserializeWith

(* By induction on the nesting.                                            *)
LEMMA ResultsReturned ==
  ASSUME NEW r, Tabulates(r)
  PROVE  \A n \in 0..MaxNesting : ReturnsResults(r, n)
<1> DEFINE Good == {n \in Nat : n \in 0..MaxNesting => ReturnsResults(r, n)}
<1>1. 0 \in Good
  BY ResultsMade DEF Tabulates, ReturnsResults
<1>2. ASSUME NEW n \in Nat, n \in Good PROVE n + 1 \in Good
  <2> SUFFICES ASSUME n + 1 \in 0..MaxNesting PROVE ReturnsResults(r, n + 1)
    OBVIOUS
  <2>1. n \in 0..MaxNesting /\ n \in 0..(MaxNesting - 1)
    BY NestingAssumption
  <2>2. ReturnsResults(r, n)
    BY <1>2, <2>1
  <2>3. ASSUME NEW d \in Deserializers, NEW hints \in SUBSET Hints, NEW s \in Sent
        PROVE  IsResult(Nested(r, n + 1, d, hints, s))
    <3>1. Nested(r, n + 1, d, hints, s) = DeserializeWith(r, n, d, hints, s)
      BY <2>1 DEF Tabulates
    <3> QED
      BY <2>2, <3>1, CallResult
  <2> QED
    BY <2>3 DEF ReturnsResults
<1> HIDE DEF Good
<1>3. Nat \subseteq Good
  BY <1>1, <1>2, Induction
<1> QED
  BY <1>3 DEF Good

-----------------------------------------------------------------------------
(* What conforms is accepted, and nothing else.                            *)

(* An object has as many fields as names.                                  *)
LEMMA FieldsCounted ==
  ASSUME NEW s \in Slices, s.kind = "object"
  PROVE  IsFiniteSet(Names(s)) /\ Cardinality(Names(s)) = Len(s.fields)
<1> DEFINE m == Len(s.fields)
           f == [i \in 1..m |-> s.fields[i].name]
<1>1. s.fields \in Fields(Slices)
  BY SliceParts
<1>2. m \in Nat /\ DOMAIN s.fields = 1..m
  BY <1>1, FieldParts
<1>3. \A i, j \in 1..m : s.fields[i].name = s.fields[j].name => i = j
  BY <1>1, <1>2, FieldParts
<1>4. Names(s) = {s.fields[i].name : i \in 1..m}
  BY <1>2 DEF Names, Range
<1> HIDE DEF m
<1>5. f \in Bijection(1..m, Names(s))
  BY <1>3, <1>4 DEF Bijection, Injection, Surjection, IsInjective
<1>6. IsFiniteSet(1..m) /\ Cardinality(1..m) = m
  BY <1>2, FS_Interval
<1> QED
  BY <1>5, <1>6, FS_Bijection DEF ExistsBijection, m

(* The parameters that are there, with different names, are all fields of  *)
(* the object if and only if they are as many.                             *)
LEMMA VisitedCounted ==
  ASSUME NEW s \in Slices, s.kind = "object", NEW params, params \in Seq(Range(params)),
         \A i, j \in DOMAIN params : params[i].name = params[j].name => i = j,
         NEW visited, visited = {i \in DOMAIN params : params[i].name \in Names(s)}
  PROVE  Len(s.fields) = Cardinality(visited) <=> Names(s) \subseteq {p.name : p \in Range(params)}
<1> DEFINE f == [i \in visited |-> params[i].name]
<1>1. f \in Injection(visited, Names(s))
  BY DEF Injection, IsInjective
<1>2. IsFiniteSet(Names(s)) /\ Cardinality(Names(s)) = Len(s.fields)
  BY FieldsCounted
<1>3. Cardinality(visited) = Cardinality(Names(s)) <=> f \in Surjection(visited, Names(s))
  BY <1>1, <1>2, FS_Injection
<1>4. f \in [visited -> Names(s)] /\ \A i \in visited : f[i] = params[i].name
  OBVIOUS
<1> HIDE DEF f
<1>5. f \in Surjection(visited, Names(s)) <=> \A name \in Names(s) : \E i \in visited : params[i].name = name
  BY <1>4 DEF Surjection
<1>6. (\A name \in Names(s) : \E i \in visited : params[i].name = name)
        <=> Names(s) \subseteq {p.name : p \in Range(params)}
  BY DEF Range
<1> QED
  BY <1>2, <1>3, <1>5, <1>6

Accepts(r, c, n) ==
  \A d \in Deserializers, s \in Sent : IsOk(Nested(r, n, d, {}, s)) <=> Conforming(c, n, d, s)

Refuses(c, n) == \A d \in Deserializers : ~Conforming(c, n, d, NoSlice)

Empty(of) == IF of.plan = "array" THEN <<>> ELSE ""

KnowsEmpty(r, n) ==
  \A d \in Deserializers, s \in Sent :
    d.factory = "identity" /\ (d = Value("string") \/ d.plan = "array") /\ IsOk(Nested(r, n, d, {}, s))
      => (Nested(r, n, d, {}, s).value = Empty(d) <=> s \in {EmptyArray, String("")})

(* Nothing is what a field that is not there conforms to.                  *)
LEMMA NoneRefused ==
  ASSUME NEW c, TabulatesPairs(c)
  PROVE  \A n \in 0..MaxNesting : Refuses(c, n)
<1> DEFINE Good == {n \in Nat : n \in 0..MaxNesting => Refuses(c, n)}
<1>0. NoSlice \in Sent /\ NoSlice.kind = "none"
  BY NoSliceIsNone DEF Sent
<1>1. 0 \in Good
  BY <1>0 DEF TabulatesPairs, Refuses
<1>2. ASSUME NEW n \in Nat, n \in Good PROVE n + 1 \in Good
  <2> SUFFICES ASSUME n + 1 \in 0..MaxNesting, NEW d \in Deserializers
               PROVE  ~Conforming(c, n + 1, d, NoSlice)
    BY DEF Refuses
  <2>1. n \in 0..MaxNesting /\ n \in 0..(MaxNesting - 1)
    BY NestingAssumption
  <2>2. \A e \in Deserializers : ~Conforming(c, n, e, NoSlice)
    BY <1>2, <2>1 DEF Refuses
  <2>3. ~ConformsToPlan(c, n, d, NoSlice)
    <3>1. CASE d.plan \in {"parameters", "array", "map", "tuple", "attribute", "field_name", "field_value"}
      BY <1>0, <3>1 DEF ConformsToPlan
    <3>2. CASE d.plan = "value"
      BY <1>0, <3>2 DEF ConformsToPlan
    <3>3. CASE d.plan = "conditional"
      BY <1>0, <2>2, <3>3, DeserializerParts DEF ConformsToPlan
    <3>4. CASE d.plan = "validate"
      BY <2>2, <3>4, DeserializerParts DEF ConformsToPlan
    <3>5. CASE d.plan = "proxy"
      BY <2>2, <3>5, DeserializerParts DEF ConformsToPlan
    <3> QED
      BY <3>1, <3>2, <3>3, <3>4, <3>5, DeserializerParts DEF Plans
  <2> QED
    BY <1>0, <2>1, <2>3 DEF TabulatesPairs
<1> HIDE DEF Good
<1>3. Nat \subseteq Good
  BY <1>1, <1>2, Induction
<1> QED
  BY <1>3 DEF Good

(* What a string or an array has been read from is empty if the value is.  *)
LEMMA EmptyKnown ==
  ASSUME NEW r, Tabulates(r), NEW n \in 0..MaxNesting
  PROVE  KnowsEmpty(r, n)
<1> SUFFICES ASSUME NEW d \in Deserializers, NEW s \in Sent, d.factory = "identity",
                    d = Value("string") \/ d.plan = "array", IsOk(Nested(r, n, d, {}, s))
             PROVE  Nested(r, n, d, {}, s).value = Empty(d) <=> s \in {EmptyArray, String("")}
  BY DEF KnowsEmpty
<1> DEFINE k == n - 1
<1>1. n # 0
  BY HintsMade, ResultsMade DEF Tabulates
<1>2. k \in 0..(MaxNesting - 1) /\ k \in 0..MaxNesting /\ n = k + 1
  BY <1>1, NestingAssumption
<1> HIDE DEF k
<1>3. Nested(r, n, d, {}, s) = DeserializeWith(r, k, d, {}, s)
  BY <1>2, HintsMade DEF Tabulates
<1>4. Nested(r, n, d, {}, s) = Unpack(r, k, d, {}, s)
  BY <1>3 DEF DeserializeWith
<1>5. CASE d = Value("string")
  <2>1. d.plan = "value" /\ d.type = "string"
    BY <1>5 DEF Value
  <2>2. Nested(r, n, d, {}, s) = Read("string", s)
    BY <1>4, <2>1 DEF Unpack
  <2>3. s.kind = "string" /\ Nested(r, n, d, {}, s).value = s.string
    BY <2>2, ResultsMade DEF Read
  <2>4. s = String(s.string)
    BY <2>3, SliceParts, NoSliceIsNone DEF Sent
  <2>5. s # EmptyArray
    BY <2>3 DEF EmptyArray, Array
  <2>6. s = String("") <=> s.string = ""
    <3>1. String("").string = ""
      BY DEF String
    <3> QED
      BY <2>4, <3>1
  <2> QED
    BY <2>1, <2>3, <2>5, <2>6 DEF Empty
<1>6. CASE d.plan = "array"
  <2>1. Unpack(r, k, d, {}, s) = ExpectArray(s, UnpackElements(r, k, d.element, s))
    BY <1>6 DEF Unpack
  <2>2. s.kind = "array" /\ Nested(r, n, d, {}, s) = UnpackElements(r, k, d.element, s)
    BY <1>4, <2>1, ResultsMade DEF ExpectArray
  <2>3. s \in Slices /\ s = Array(s.elems) /\ s.elems \in Seq(Slices) /\ d.element \in Deserializers
    BY <1>6, <2>2, SliceParts, NoSliceIsNone, DeserializerParts DEF Sent
  <2> DEFINE slices == s.elems
             results == [i \in DOMAIN slices |-> TracedBy(Index(i), Nested(r, k, d.element, {}, slices[i]))]
             values == [i \in DOMAIN slices |-> results[i].value]
  <2>4. UnpackElements(r, k, d.element, s) = AllOf(results)
    BY DEF UnpackElements
  <2>5. DOMAIN results = DOMAIN slices /\ DOMAIN slices \subseteq Nat
    BY <2>3
  <2>6. \A i \in DOMAIN results : IsResult(results[i])
    <3>1. ReturnsResults(r, k)
      BY <1>2, ResultsReturned
    <3> QED
      BY <2>2, <2>3, <3>1, ElementsResult, TracedParts
  <2> HIDE DEF results
  <2>7. Nested(r, n, d, {}, s).value = values
    <3>1. Nested(r, n, d, {}, s) = AllOf(results)
      BY <2>2, <2>4
    <3>2. IsOk(AllOf(results))
      BY <3>1
    <3>3. AllOf(results).value = [i \in DOMAIN results |-> results[i].value]
      BY <2>5, <2>6, <3>2, AllOfParts
    <3> QED
      BY <2>5, <3>1, <3>3
  <2>8. slices \in Seq(Slices)
    BY <2>3
  <2> HIDE DEF slices
  <2>9. values = <<>> <=> slices = <<>>
    BY <2>8
  <2>10. s = EmptyArray <=> slices = <<>>
    BY <2>3 DEF EmptyArray, Array, slices
  <2>11. s # String("")
    <3>1. String("").kind = "string"
      BY DEF String
    <3> QED
      BY <2>2, <3>1
  <2> HIDE DEF values
  <2> QED
    BY <1>6, <2>7, <2>9, <2>10, <2>11 DEF Empty
<1> QED
  BY <1>5, <1>6

(* What is known of the calls a call makes.                                *)
BelowAgree(r, c, n) ==
  /\ Accepts(r, c, n) /\ Refuses(c, n) /\ KnowsEmpty(r, n)
  /\ HintsAreIdle(r, n) /\ ReturnsResults(r, n)

(* A parameter is accepted iff the object conforms to it.                  *)
LEMMA ParameterAccepts ==
  ASSUME NEW r, NEW c, NEW n, BelowAgree(r, c, n), NEW p, IsParameter(p), NEW s \in Slices, s.kind = "object"
  PROVE  IsOk(UnpackParameter(r, n, p, {}, s)) <=> ConformsToParameter(c, n, p, s)
<1>0. /\ p.name \in Steps /\ GetField(s, p.name) \in Sent
      /\ GetField(s, p.name) = NoSlice <=> p.name \notin Names(s)
  BY GetFieldParts DEF IsParameter, Steps, Sent
<1>1. CASE p.param = "value"
  <2> DEFINE result == Nested(r, n, p.of, {}, GetField(s, p.name))
  <2>1. IsResult(result)
    BY <1>0, <1>1, HintsMade DEF BelowAgree, ReturnsResults, IsParameter
  <2>2. IsOk(result) <=> Conforming(c, n, p.of, GetField(s, p.name))
    BY <1>0, <1>1 DEF BelowAgree, Accepts, IsParameter
  <2> HIDE DEF result
  <2> DEFINE value == TracedBy(p.name, result)
  <2>3. IsOk(value) <=> IsOk(result)
    BY <1>0, <2>1, TracedParts
  <2> HIDE DEF value
  <2>4. UnpackParameter(r, n, p, {}, s) =
          IF GetField(s, p.name) = NoSlice THEN IF p.required THEN Error("required") ELSE Ok(<<p.default>>)
          ELSE IF IsOk(value) THEN Ok(<<value.value>>) ELSE value
    BY <1>1 DEF UnpackParameter, value, result
  <2>5. IsOk(UnpackParameter(r, n, p, {}, s)) <=>
          IF GetField(s, p.name) = NoSlice THEN ~p.required ELSE IsOk(value)
    BY <2>4, ResultsMade
  <2>6. ConformsToParameter(c, n, p, s) <=>
          IF p.name \in Names(s) THEN Conforming(c, n, p.of, GetField(s, p.name)) ELSE ~p.required
    BY <1>1 DEF ConformsToParameter
  <2> QED
    BY <1>0, <2>2, <2>3, <2>5, <2>6
<1>2. CASE p.param = "slice"
  <2>1. p.required
    BY <1>2 DEF IsParameter
  <2> QED
    BY <1>0, <1>2, <2>1, ResultsMade DEF UnpackParameter, ConformsToParameter
<1>3. CASE p.param = "expected"
  <2>1. ~IsOk(TracedBy(p.name, Error("not as expected")))
    BY <1>0, ResultsMade, TracedParts
  <2> QED
    BY <1>3, <2>1, ResultsMade DEF UnpackParameter, ConformsToParameter
<1> QED
  BY <1>1, <1>2, <1>3 DEF IsParameter

(* Parameters are accepted iff the object conforms to all and has no more. *)
LEMMA ParametersAccept ==
  ASSUME NEW r, NEW c, NEW n, BelowAgree(r, c, n), NEW params, params \in Seq(Range(params)),
         \A i, j \in DOMAIN params : params[i].name = params[j].name => i = j,
         \A i \in DOMAIN params : IsParameter(params[i]), NEW s \in Slices, s.kind = "object"
  PROVE  IsOk(UnpackParameters(r, n, params, {}, s)) <=>
           /\ Names(s) \subseteq {p.name : p \in Range(params)}
           /\ \A p \in Range(params) : ConformsToParameter(c, n, p, s)
<1> DEFINE results == [i \in DOMAIN params |-> UnpackParameter(r, n, params[i], {}, s)]
           counted == {i \in DOMAIN params : params[i].param = "expected" \/ params[i].name \in Names(s)}
           visited == {i \in DOMAIN params : params[i].name \in Names(s)}
           all == \A p \in Range(params) : ConformsToParameter(c, n, p, s)
<1>1. DOMAIN results \subseteq Nat
  OBVIOUS
<1>2. \A i \in DOMAIN results : IsResult(results[i])
  BY ParameterResult DEF BelowAgree
<1>3. \A i \in DOMAIN params : IsOk(results[i]) <=> ConformsToParameter(c, n, params[i], s)
  BY ParameterAccepts
<1>4. (\A i \in DOMAIN params : ConformsToParameter(c, n, params[i], s)) <=> all
  BY DEF Range
<1>5. DOMAIN results = DOMAIN params
  OBVIOUS
<1>6. UnpackParameters(r, n, params, {}, s) =
        IF ~IsOk(AllOf(results)) THEN AllOf(results)
        ELSE IF Len(s.fields) # Cardinality(counted) THEN Error("superfluous field")
        ELSE Ok(FlattenSeq(AllOf(results).value))
  BY DEF UnpackParameters
<1> HIDE DEF results
<1>7. IsOk(AllOf(results)) <=> \A i \in DOMAIN results : IsOk(results[i])
  BY <1>1, <1>2, AllOfParts
<1>8. IsOk(AllOf(results)) <=> all
  <2> HIDE DEF all
  <2> QED
    BY <1>3, <1>4, <1>5, <1>7
<1>9. all => counted = visited
  <2> SUFFICES ASSUME all, NEW i \in DOMAIN params, params[i].param = "expected"
               PROVE  params[i].name \in Names(s)
    OBVIOUS
  <2>1. ConformsToParameter(c, n, params[i], s)
    BY <1>4
  <2>2. GetField(s, params[i].name) # NoSlice
    BY <2>1 DEF ConformsToParameter, IsParameter
  <2> QED
    BY <2>2, GetFieldParts
<1>10. Len(s.fields) = Cardinality(visited) <=> Names(s) \subseteq {p.name : p \in Range(params)}
  BY VisitedCounted
<1> HIDE DEF all, counted, visited
<1>11. IsOk(UnpackParameters(r, n, params, {}, s)) <=> IsOk(AllOf(results)) /\ Len(s.fields) = Cardinality(counted)
  BY <1>6, ResultsMade
<1>12. IsOk(UnpackParameters(r, n, params, {}, s)) <=> Names(s) \subseteq {p.name : p \in Range(params)} /\ all
  BY <1>8, <1>9, <1>10, <1>11
<1> QED
  BY <1>12 DEF all

(* An array is accepted iff all its elements conform.                      *)
LEMMA ElementsAccept ==
  ASSUME NEW r, NEW c, NEW n, BelowAgree(r, c, n), NEW element \in Deserializers, NEW s \in Slices, s.kind = "array"
  PROVE  IsOk(UnpackElements(r, n, element, s)) <=> \A e \in Range(s.elems) : Conforming(c, n, element, e)
<1> DEFINE results == [i \in DOMAIN s.elems |-> TracedBy(Index(i), Nested(r, n, element, {}, s.elems[i]))]
<1>0. s.elems \in Seq(Slices)
  BY SliceParts
<1>1. DOMAIN results \subseteq Nat /\ DOMAIN results = DOMAIN s.elems
  BY <1>0
<1>2. \A i \in DOMAIN results : IsResult(results[i]) /\ (IsOk(results[i]) <=> IsOk(Nested(r, n, element, {}, s.elems[i])))
  BY ElementsResult, TracedParts DEF BelowAgree
<1>3. \A i \in DOMAIN s.elems : IsOk(Nested(r, n, element, {}, s.elems[i])) <=> Conforming(c, n, element, s.elems[i])
  <2>1. \A i \in DOMAIN s.elems : s.elems[i] \in Sent
    BY <1>0 DEF Sent
  <2> QED
    BY <2>1 DEF BelowAgree, Accepts
<1>4. UnpackElements(r, n, element, s) = AllOf(results)
  BY DEF UnpackElements
<1> HIDE DEF results
<1>5. IsOk(AllOf(results)) <=> \A i \in DOMAIN results : IsOk(results[i])
  BY <1>1, <1>2, AllOfParts
<1>6. (\A e \in Range(s.elems) : Conforming(c, n, element, e)) <=> \A i \in DOMAIN s.elems : Conforming(c, n, element, s.elems[i])
  BY DEF Range
<1> QED
  BY <1>1, <1>2, <1>3, <1>4, <1>5, <1>6

(* A map is accepted iff the values of all its members conform.            *)
LEMMA MembersAccept ==
  ASSUME NEW r, NEW c, NEW n, BelowAgree(r, c, n), NEW member \in Deserializers, NEW s \in Slices, s.kind = "object"
  PROVE  IsOk(UnpackMembers(r, n, member, {}, s)) <=> \A f \in Range(s.fields) : Conforming(c, n, member, f.slice)
<1> DEFINE value(i) == TracedBy(s.fields[i].name, Nested(r, n, member, Stateless({}), s.fields[i].slice))
           results == [i \in DOMAIN s.fields |->
                         IF IsOk(value(i)) THEN Ok(<<s.fields[i].name, value(i).value>>) ELSE value(i)]
<1>0. s.fields \in Fields(Slices)
  BY SliceParts
<1>1. DOMAIN results \subseteq Nat /\ DOMAIN results = DOMAIN s.fields
  BY <1>0, FieldParts
<1>2. Stateless({}) = {}
  BY DEF Stateless
<1>3. ASSUME NEW i \in DOMAIN s.fields
      PROVE  IsResult(value(i)) /\ (IsOk(value(i)) <=> Conforming(c, n, member, s.fields[i].slice))
  <2>1. s.fields[i].name \in Steps /\ s.fields[i].slice \in Sent
    BY <1>0, FieldParts DEF Sent, Steps
  <2>2. IsResult(Nested(r, n, member, Stateless({}), s.fields[i].slice))
    BY <2>1, HintsMade DEF BelowAgree, ReturnsResults
  <2>3. IsOk(value(i)) <=> IsOk(Nested(r, n, member, Stateless({}), s.fields[i].slice))
    BY <2>1, <2>2, TracedParts
  <2>4. IsOk(Nested(r, n, member, {}, s.fields[i].slice)) <=> Conforming(c, n, member, s.fields[i].slice)
    BY <2>1 DEF BelowAgree, Accepts
  <2> QED
    BY <1>2, <2>1, <2>2, <2>3, <2>4, TracedParts
<1> HIDE DEF value
<1>4. \A i \in DOMAIN results : IsResult(results[i]) /\ (IsOk(results[i]) <=> Conforming(c, n, member, s.fields[i].slice))
  BY <1>3, ResultsMade
<1> HIDE DEF results
<1>5. IsOk(AllOf(results)) <=> \A i \in DOMAIN results : IsOk(results[i])
  BY <1>1, <1>4, AllOfParts
<1>6. UnpackMembers(r, n, member, {}, s) = AllOf(results)
  BY DEF UnpackMembers, results, value
<1>7. (\A f \in Range(s.fields) : Conforming(c, n, member, f.slice))
        <=> \A i \in DOMAIN s.fields : Conforming(c, n, member, s.fields[i].slice)
  BY DEF Range
<1> QED
  BY <1>1, <1>4, <1>5, <1>6, <1>7

(* A tuple is accepted iff it has its length and all its elements conform. *)
LEMMA TupleAccepts ==
  ASSUME NEW r, NEW c, NEW n, BelowAgree(r, c, n), NEW elements \in Seq(Deserializers),
         NEW s \in Slices, s.kind = "array"
  PROVE  IsOk(UnpackTuple(r, n, elements, s)) <=>
           /\ Len(s.elems) = Len(elements)
           /\ \A i \in DOMAIN s.elems : Conforming(c, n, elements[i], s.elems[i])
<1> DEFINE results == TupleResults(r, n, elements, s)
           slices == s.elems
           failed == {i \in DOMAIN results : ~IsOk(results[i])}
           passed == IF failed = {} THEN Len(elements) ELSE Min(failed)
           all == \A i \in DOMAIN elements : i \in DOMAIN slices /\ Conforming(c, n, elements[i], slices[i])
<1>1. slices \in Seq(Slices)
  BY SliceParts
<1>2. /\ DOMAIN results = DOMAIN elements /\ DOMAIN results \subseteq Nat
      /\ \A i \in DOMAIN results : IsResult(results[i])
      /\ \A i \in DOMAIN elements : IsOk(results[i]) <=>
           i \in DOMAIN slices /\ IsOk(Nested(r, n, elements[i], {}, slices[i]))
  BY TupleResult DEF BelowAgree
<1>3. \A i \in DOMAIN elements : i \in DOMAIN slices =>
        (IsOk(Nested(r, n, elements[i], {}, slices[i])) <=> Conforming(c, n, elements[i], slices[i]))
  <2> HIDE DEF slices
  <2>1. \A i \in DOMAIN elements : i \in DOMAIN slices => slices[i] \in Sent /\ elements[i] \in Deserializers
    BY <1>1 DEF Sent
  <2> QED
    BY <2>1 DEF BelowAgree, Accepts
<1>4. UnpackTuple(r, n, elements, s) =
        IF AllOf(results).status # "throws" /\ passed # Len(slices) THEN Error("excess elements") ELSE AllOf(results)
  BY DEF UnpackTuple, TupleResults
<1> HIDE DEF results, slices
<1>5. IsOk(AllOf(results)) <=> \A i \in DOMAIN results : IsOk(results[i])
  BY <1>2, AllOfParts
<1>6. IsOk(AllOf(results)) <=> failed = {}
  BY <1>5
<1>7. IsOk(AllOf(results)) <=> all
  BY <1>2, <1>3, <1>5
<1>8. IsOk(AllOf(results)) => AllOf(results).status # "throws"
  BY DEF IsOk
<1> HIDE DEF failed, all
<1>9. IsOk(UnpackTuple(r, n, elements, s)) <=> IsOk(AllOf(results)) /\ Len(elements) = Len(slices)
  BY <1>4, <1>6, <1>8, ResultsMade
<1>10. Len(elements) = Len(slices) => DOMAIN elements = DOMAIN slices
  BY <1>1
<1> QED
  BY <1>7, <1>9, <1>10 DEF all, slices

(* An attribute is accepted iff it is there and conforms.                  *)
LEMMA AttributeAccepts ==
  ASSUME NEW r, NEW c, NEW n, BelowAgree(r, c, n), NEW d, d.name \in Keys, d.of \in Deserializers,
         NEW s \in Slices, s.kind = "object"
  PROVE  IsOk(UnpackAttribute(r, n, d, {}, s)) <=>
           d.name \in Names(s) /\ Conforming(c, n, d.of, GetField(s, d.name))
<1> DEFINE result == Nested(r, n, d.of, {}, GetField(s, d.name))
<1>1. /\ GetField(s, d.name) \in Sent /\ d.name \in Steps
      /\ GetField(s, d.name) = NoSlice <=> d.name \notin Names(s)
  BY GetFieldParts DEF Sent, Steps
<1>2. UnpackAttribute(r, n, d, {}, s) = TracedBy(d.name, result)
  BY DEF UnpackAttribute
<1>3. IsResult(result) /\ (IsOk(result) <=> Conforming(c, n, d.of, GetField(s, d.name)))
  BY <1>1, HintsMade DEF BelowAgree, ReturnsResults, Accepts
<1> HIDE DEF result
<1>4. IsOk(UnpackAttribute(r, n, d, {}, s)) <=> IsOk(result)
  BY <1>1, <1>2, <1>3, TracedParts
<1>5. d.name \notin Names(s) => ~Conforming(c, n, d.of, GetField(s, d.name))
  BY <1>1 DEF BelowAgree, Refuses
<1> QED
  BY <1>3, <1>4, <1>5

(* The first alternative whose name is there decides.                      *)
LEMMA ByNameAccepts ==
  ASSUME NEW r, NEW c, NEW n, BelowAgree(r, c, n), NEW pairs, pairs \in Seq(Range(pairs)),
         \A i \in DOMAIN pairs : pairs[i].name \in Keys /\ pairs[i].of \in Deserializers,
         NEW s \in Slices, s.kind = "object"
  PROVE  IsOk(UnpackByName(r, n, pairs, s)) <=>
           \E i \in DOMAIN pairs :
             /\ pairs[i].name \in Names(s)
             /\ \A j \in 1..(i - 1) : pairs[j].name \notin Names(s)
             /\ Conforming(c, n, pairs[i].of, s)
<1> DEFINE present == {i \in DOMAIN pairs : pairs[i].name \in Names(s)}
           first == Min(present)
           hints == {HasField(pairs[first].name, GetField(s, pairs[first].name))}
           result == Nested(r, n, pairs[first].of, hints, s)
<1>0. s \in Sent /\ DOMAIN pairs = 1..Len(pairs) /\ Len(pairs) \in Nat
  BY DEF Sent
<1>1. UnpackByName(r, n, pairs, s) =
        IF present = {} THEN Error("format not recognized") ELSE TracedBy(pairs[first].name, result)
  BY DEF UnpackByName
<1>2. CASE present = {}
  <2>1. ~IsOk(UnpackByName(r, n, pairs, s))
    BY <1>1, <1>2, ResultsMade
  <2> QED
    BY <1>2, <2>1
<1>3. CASE present # {}
  <2>1. /\ first \in present /\ \A i \in present : first <= i
        /\ pairs[first].name \in Steps /\ pairs[first].of \in Deserializers
        /\ hints \in SUBSET Hints /\ hints \in SUBSET TrueHints(s)
    BY <1>3, ByNameParts
  <2>2. UnpackByName(r, n, pairs, s) = TracedBy(pairs[first].name, result)
    BY <1>1, <1>3
  <2> HIDE DEF hints, first
  <2>3. IsResult(result)
    BY <1>0, <2>1 DEF BelowAgree, ReturnsResults
  <2>4. result = Nested(r, n, pairs[first].of, {}, s)
    BY <1>0, <2>1 DEF BelowAgree, HintsAreIdle
  <2>5. IsOk(Nested(r, n, pairs[first].of, {}, s)) <=> Conforming(c, n, pairs[first].of, s)
    BY <1>0, <2>1 DEF BelowAgree, Accepts
  <2> HIDE DEF result
  <2>6. IsOk(UnpackByName(r, n, pairs, s)) <=> Conforming(c, n, pairs[first].of, s)
    BY <2>1, <2>2, <2>3, <2>4, <2>5, TracedParts
  <2>7. first \in DOMAIN pairs /\ pairs[first].name \in Names(s)
    BY <2>1
  <2>8. ASSUME NEW j \in 1..(first - 1) PROVE pairs[j].name \notin Names(s)
    BY <1>0, <2>1, <2>7
  <2>9. ASSUME NEW i \in DOMAIN pairs, pairs[i].name \in Names(s), \A j \in 1..(i - 1) : pairs[j].name \notin Names(s)
        PROVE  i = first
    <3>1. first <= i
      BY <2>1, <2>9
    <3>2. ~(first \in 1..(i - 1))
      BY <2>7, <2>9
    <3> QED
      BY <1>0, <2>7, <2>9, <3>1, <3>2
  <2> QED
    BY <2>6, <2>7, <2>8, <2>9
<1> QED
  BY <1>2, <1>3

(* The alternative of the value that is there decides.                     *)
LEMMA ByValueAccepts ==
  ASSUME NEW r, NEW c, NEW n, BelowAgree(r, c, n), NEW name \in Keys, NEW pairs, pairs \in Seq(Range(pairs)),
         \A i, j \in DOMAIN pairs : pairs[i].value = pairs[j].value => i = j,
         \A i \in DOMAIN pairs : pairs[i].value # NoSlice /\ pairs[i].of \in Deserializers,
         NEW s \in Slices, s.kind = "object"
  PROVE  IsOk(UnpackByValue(r, n, name, pairs, s)) <=>
           \E pair \in Range(pairs) : GetField(s, name) = pair.value /\ Conforming(c, n, pair.of, s)
<1> DEFINE slice == GetField(s, name)
           equal == {i \in DOMAIN pairs : pairs[i].value = slice}
           hints == {HasFieldWithValue(name, slice), IsObject, HasField(name, slice)}
           first == Min(equal)
<1>0. s \in Sent /\ name \in Steps
  BY DEF Sent, Steps
<1>1. (\E pair \in Range(pairs) : slice = pair.value /\ Conforming(c, n, pair.of, s))
        <=> \E i \in equal : Conforming(c, n, pairs[i].of, s)
  BY DEF Range
<1>2. UnpackByValue(r, n, name, pairs, s) =
        IF equal # {} THEN Nested(r, n, pairs[first].of, hints, s)
        ELSE IF slice = NoSlice THEN Throws ELSE TracedBy(name, Error("unrecognized value"))
  BY DEF UnpackByValue
<1>3. CASE equal = {}
  <2>1. ~IsOk(TracedBy(name, Error("unrecognized value")))
    BY <1>0, TracedParts, ResultsMade
  <2>2. ~IsOk(UnpackByValue(r, n, name, pairs, s))
    BY <1>2, <1>3, <2>1, ResultsMade
  <2> QED
    BY <1>1, <1>3, <2>2
<1>4. CASE equal # {}
  <2>1. /\ first \in equal /\ pairs[first].of \in Deserializers
        /\ hints \in SUBSET Hints /\ hints \in SUBSET TrueHints(s)
    BY <1>4, ByValueParts
  <2>2. \A i \in equal : i = first
    BY <2>1
  <2>3. UnpackByValue(r, n, name, pairs, s) = Nested(r, n, pairs[first].of, hints, s)
    BY <1>2, <1>4
  <2> HIDE DEF hints, first, equal
  <2>4. Nested(r, n, pairs[first].of, hints, s) = Nested(r, n, pairs[first].of, {}, s)
    BY <1>0, <2>1 DEF BelowAgree, HintsAreIdle
  <2>5. IsOk(Nested(r, n, pairs[first].of, {}, s)) <=> Conforming(c, n, pairs[first].of, s)
    BY <1>0, <2>1 DEF BelowAgree, Accepts
  <2>6. (\E i \in equal : Conforming(c, n, pairs[i].of, s)) <=> Conforming(c, n, pairs[first].of, s)
    BY <2>1, <2>2
  <2> QED
    BY <1>1, <2>3, <2>4, <2>5, <2>6
<1> QED
  BY <1>3, <1>4

(* One call accepts what conforms if those it makes do.                    *)
LEMMA CallAccepts ==
  ASSUME NEW r, NEW c, NEW n, BelowAgree(r, c, n), NEW d \in Deserializers, NEW s \in Sent
  PROVE  IsOk(DeserializeWith(r, n, d, {}, s)) <=> ConformsToPlan(c, n, d, s)
<1>0. /\ s.kind = "object" => s \in Slices
      /\ s.kind = "array" => s \in Slices
      /\ ~(IsObject \in {})
  BY NoSliceIsNone DEF Sent
<1>1. IsOk(Unpack(r, n, d, {}, s)) <=> ConformsToPlan(c, n, d, s)
  <2>1. CASE d.plan = "value"
    <3>1. Unpack(r, n, d, {}, s) = Read(d.type, s)
      BY <2>1 DEF Unpack
    <3>2. IsOk(Read(d.type, s)) <=> \/ d.type = "double" /\ s.kind = "number"
                                    \/ d.type = "bool" /\ s.kind = "bool"
                                    \/ d.type = "string" /\ s.kind = "string"
      BY ResultsMade DEF Read
    <3>3. ConformsToPlan(c, n, d, s) <=> \/ d.type = "double" /\ s.kind = "number"
                                         \/ d.type = "bool" /\ s.kind = "bool"
                                         \/ d.type = "string" /\ s.kind = "string"
      BY <2>1 DEF ConformsToPlan
    <3> QED
      BY <3>1, <3>2, <3>3
  <2>2. CASE d.plan = "parameters"
    <3>1. Unpack(r, n, d, {}, s) =
            IF s.kind = "object" THEN UnpackParameters(r, n, d.params, {}, s) ELSE Error("object expected")
      BY <1>0, <2>2 DEF Unpack, ExpectObject
    <3>2. s.kind = "object" =>
            (IsOk(UnpackParameters(r, n, d.params, {}, s)) <=>
               /\ Names(s) \subseteq {p.name : p \in Range(d.params)}
               /\ \A p \in Range(d.params) : ConformsToParameter(c, n, p, s))
      <4>1. /\ d.params \in Seq(Range(d.params))
            /\ \A i, j \in DOMAIN d.params : d.params[i].name = d.params[j].name => i = j
            /\ \A i \in DOMAIN d.params : IsParameter(d.params[i])
        BY <2>2, DeserializerParts
      <4> QED
        BY <1>0, <4>1, ParametersAccept
    <3>3. ConformsToPlan(c, n, d, s) <=>
            /\ s.kind = "object"
            /\ Names(s) \subseteq {p.name : p \in Range(d.params)}
            /\ \A p \in Range(d.params) : ConformsToParameter(c, n, p, s)
      BY <2>2 DEF ConformsToPlan
    <3> QED
      BY <3>1, <3>2, <3>3, ResultsMade
  <2>3. CASE d.plan = "array"
    <3>1. Unpack(r, n, d, {}, s) =
            IF s.kind = "array" THEN UnpackElements(r, n, d.element, s) ELSE Error("array expected")
      BY <2>3 DEF Unpack, ExpectArray
    <3>2. s.kind = "array" =>
            (IsOk(UnpackElements(r, n, d.element, s)) <=> \A e \in Range(s.elems) : Conforming(c, n, d.element, e))
      BY <1>0, <2>3, DeserializerParts, ElementsAccept
    <3> QED
      BY <2>3, <3>1, <3>2, ResultsMade DEF ConformsToPlan
  <2>4. CASE d.plan = "map"
    <3>1. Unpack(r, n, d, {}, s) =
            IF s.kind = "object" THEN UnpackMembers(r, n, d.member, {}, s) ELSE Error("object expected")
      BY <1>0, <2>4 DEF Unpack, ExpectObject
    <3>2. s.kind = "object" =>
            (IsOk(UnpackMembers(r, n, d.member, {}, s)) <=>
               \A f \in Range(s.fields) : Conforming(c, n, d.member, f.slice))
      BY <1>0, <2>4, DeserializerParts, MembersAccept
    <3> QED
      BY <2>4, <3>1, <3>2, ResultsMade DEF ConformsToPlan
  <2>5. CASE d.plan = "tuple"
    <3>1. Unpack(r, n, d, {}, s) =
            IF s.kind = "array" THEN UnpackTuple(r, n, d.elements, s) ELSE Error("array expected")
      BY <2>5 DEF Unpack, ExpectArray
    <3>2. s.kind = "array" =>
            (IsOk(UnpackTuple(r, n, d.elements, s)) <=>
               /\ Len(s.elems) = Len(d.elements)
               /\ \A i \in DOMAIN s.elems : Conforming(c, n, d.elements[i], s.elems[i]))
      BY <1>0, <2>5, DeserializerParts, TupleAccepts
    <3> QED
      BY <2>5, <3>1, <3>2, ResultsMade DEF ConformsToPlan
  <2>6. CASE d.plan = "attribute"
    <3>1. Unpack(r, n, d, {}, s) =
            IF s.kind = "object" THEN UnpackAttribute(r, n, d, {}, s) ELSE Error("object expected")
      BY <1>0, <2>6 DEF Unpack, ExpectObject
    <3>2. s.kind = "object" =>
            (IsOk(UnpackAttribute(r, n, d, {}, s)) <=>
               d.name \in Names(s) /\ Conforming(c, n, d.of, GetField(s, d.name)))
      BY <1>0, <2>6, DeserializerParts, AttributeAccepts
    <3> QED
      BY <2>6, <3>1, <3>2, ResultsMade DEF ConformsToPlan
  <2>7. CASE d.plan = "field_name"
    <3>1. Unpack(r, n, d, {}, s) = UnpackByName(r, n, d.pairs, s)
      BY <2>7 DEF Unpack
    <3>2. s.kind # "object" => UnpackByName(r, n, d.pairs, s) = Throws
      BY DEF UnpackByName
    <3>3. s.kind = "object" =>
            (IsOk(UnpackByName(r, n, d.pairs, s)) <=>
               \E i \in DOMAIN d.pairs :
                 /\ d.pairs[i].name \in Names(s)
                 /\ \A j \in 1..(i - 1) : d.pairs[j].name \notin Names(s)
                 /\ Conforming(c, n, d.pairs[i].of, s))
      <4>1. /\ d.pairs \in Seq(Range(d.pairs))
            /\ \A i \in DOMAIN d.pairs : d.pairs[i].name \in Keys /\ d.pairs[i].of \in Deserializers
        BY <2>7, DeserializerParts
      <4> QED
        BY <1>0, <4>1, ByNameAccepts
    <3> QED
      BY <2>7, <3>1, <3>2, <3>3, ResultsMade DEF ConformsToPlan
  <2>8. CASE d.plan = "field_value"
    <3>1. Unpack(r, n, d, {}, s) = UnpackByValue(r, n, d.name, d.pairs, s)
      BY <2>8 DEF Unpack
    <3>2. s.kind # "object" => UnpackByValue(r, n, d.name, d.pairs, s) = Throws
      BY DEF UnpackByValue
    <3>3. s.kind = "object" =>
            (IsOk(UnpackByValue(r, n, d.name, d.pairs, s)) <=>
               \E pair \in Range(d.pairs) : GetField(s, d.name) = pair.value /\ Conforming(c, n, pair.of, s))
      <4>1. /\ d.pairs \in Seq(Range(d.pairs)) /\ d.name \in Keys
            /\ \A i, j \in DOMAIN d.pairs : d.pairs[i].value = d.pairs[j].value => i = j
            /\ \A i \in DOMAIN d.pairs : d.pairs[i].value # NoSlice /\ d.pairs[i].of \in Deserializers
        BY <2>8, DeserializerParts
      <4> QED
        BY <1>0, <4>1, ByValueAccepts
    <3> QED
      BY <2>8, <3>1, <3>2, <3>3, ResultsMade DEF ConformsToPlan
  <2>9. CASE d.plan = "conditional"
    <3>1. d.object \in Deserializers /\ d.default \in Deserializers
      BY <2>9, DeserializerParts
    <3>2. CASE s.kind = "object"
      <4>1. {IsObject} \in SUBSET TrueHints(s)
        BY <3>2 DEF TrueHints
      <4>2. Nested(r, n, d.object, {IsObject}, s) = Nested(r, n, d.object, {}, s)
        BY <3>1, <4>1 DEF BelowAgree, HintsAreIdle
      <4>3. IsOk(Nested(r, n, d.object, {}, s)) <=> Conforming(c, n, d.object, s)
        BY <3>1 DEF BelowAgree, Accepts
      <4> QED
        BY <2>9, <3>2, <4>2, <4>3 DEF Unpack, UnpackConditional, ConformsToPlan
    <3>3. CASE s.kind # "object"
      <4>1. IsOk(Nested(r, n, d.default, {}, s)) <=> Conforming(c, n, d.default, s)
        BY <3>1 DEF BelowAgree, Accepts
      <4> QED
        BY <2>9, <3>3, <4>1 DEF Unpack, UnpackConditional, ConformsToPlan
    <3> QED
      BY <3>2, <3>3
  <2>10. CASE d.plan = "validate"
    <3>1. d.of \in Deserializers /\ d.of.factory = "identity" /\ (d.of = Value("string") \/ d.of.plan = "array")
      BY <2>10, DeserializerParts
    <3> DEFINE result == Nested(r, n, d.of, {}, s)
    <3>2. IsOk(result) <=> Conforming(c, n, d.of, s)
      BY <3>1 DEF BelowAgree, Accepts
    <3>3. IsOk(result) => (result.value = Empty(d.of) <=> s \in {EmptyArray, String("")})
      BY <3>1 DEF BelowAgree, KnowsEmpty
    <3>4. Unpack(r, n, d, {}, s) =
            IF IsOk(result) /\ result.value = Empty(d.of) THEN Error("must not be empty") ELSE result
      BY <2>10 DEF Unpack, UnpackValidated, Empty
    <3>5. ConformsToPlan(c, n, d, s) <=> Conforming(c, n, d.of, s) /\ s \notin {EmptyArray, String("")}
      BY <2>10 DEF ConformsToPlan
    <3> HIDE DEF result
    <3> QED
      BY <3>2, <3>3, <3>4, <3>5, ResultsMade
  <2>11. CASE d.plan = "proxy"
    <3>1. IsOk(Nested(r, n, Definitions[d.name], {}, s)) <=> Conforming(c, n, Definitions[d.name], s)
      BY <2>11, DeserializerParts DEF BelowAgree, Accepts
    <3> QED
      BY <2>11, <3>1 DEF Unpack, ConformsToPlan
  <2> QED
    BY <2>1, <2>2, <2>3, <2>4, <2>5, <2>6, <2>7, <2>8, <2>9, <2>10, <2>11, DeserializerParts DEF Plans
<1>2. IsOk(DeserializeWith(r, n, d, {}, s)) <=> IsOk(Unpack(r, n, d, {}, s))
  BY ResultsMade DEF DeserializeWith
<1> QED
  BY <1>1, <1>2

(* By induction on the nesting.                                            *)
LEMMA AllAccepts ==
  ASSUME NEW r, Tabulates(r), NEW c, TabulatesPairs(c)
  PROVE  \A n \in 0..MaxNesting : Accepts(r, c, n)
<1> DEFINE Good == {n \in Nat : n \in 0..MaxNesting => Accepts(r, c, n)}
<1>1. 0 \in Good
  BY HintsMade, ResultsMade DEF Tabulates, TabulatesPairs, Accepts
<1>2. ASSUME NEW n \in Nat, n \in Good PROVE n + 1 \in Good
  <2> SUFFICES ASSUME n + 1 \in 0..MaxNesting, NEW d \in Deserializers, NEW s \in Sent
               PROVE  IsOk(Nested(r, n + 1, d, {}, s)) <=> Conforming(c, n + 1, d, s)
    BY DEF Accepts
  <2>1. n \in 0..MaxNesting /\ n \in 0..(MaxNesting - 1)
    BY NestingAssumption
  <2>2. BelowAgree(r, c, n)
    BY <1>2, <2>1, NoneRefused, EmptyKnown, HintsIdle, ResultsReturned DEF BelowAgree
  <2>3. Nested(r, n + 1, d, {}, s) = DeserializeWith(r, n, d, {}, s)
    BY <2>1, HintsMade DEF Tabulates
  <2>4. Conforming(c, n + 1, d, s) <=> ConformsToPlan(c, n, d, s)
    BY <2>1 DEF TabulatesPairs
  <2> QED
    BY <2>2, <2>3, <2>4, CallAccepts
<1> HIDE DEF Good
<1>3. Nat \subseteq Good
  BY <1>1, <1>2, Induction
<1> QED
  BY <1>3 DEF Good

(* For every deserializer and every slice: what is described is accepted.  *)
LEMMA DeserializeAccepts ==
  ASSUME NEW d \in Deserializers, NEW s \in Slices
  PROVE  IsOk(Deserialize(d, {}, s)) <=> Conforms(d, s)
<1>1. PICK r : /\ Tabulates(r)
               /\ \A e, hints, t : Deserialize(e, hints, t) = Nested(r, MaxNesting, e, hints, t)
  BY DeserializeMade
<1>2. PICK c : TabulatesPairs(c) /\ \A n, e, t : ConformsWithin(n, e, t) = Conforming(c, n, e, t)
  BY ConformsMade
<1>3. MaxNesting \in 0..MaxNesting /\ s \in Sent
  BY NestingAssumption DEF Sent
<1>4. IsOk(Nested(r, MaxNesting, d, {}, s)) <=> Conforming(c, MaxNesting, d, s)
  BY <1>1, <1>2, <1>3, AllAccepts DEF Accepts
<1> QED
  BY <1>1, <1>2, <1>4 DEF Conforms

(* For every deserializer and every slice: true hints change nothing.      *)
LEMMA DeserializeIdle ==
  ASSUME NEW d \in Deserializers, NEW s \in Slices, NEW hints \in SUBSET TrueHints(s)
  PROVE  Deserialize(d, hints, s) = Deserialize(d, {}, s)
<1>1. PICK r : /\ Tabulates(r)
               /\ \A e, h, t : Deserialize(e, h, t) = Nested(r, MaxNesting, e, h, t)
  BY DeserializeMade
<1>2. MaxNesting \in 0..MaxNesting /\ s \in Sent
  BY NestingAssumption DEF Sent
<1>3. HintsAreIdle(r, MaxNesting)
  BY <1>1, <1>2, HintsIdle
<1>4. Nested(r, MaxNesting, d, hints, s) = Nested(r, MaxNesting, d, {}, s)
  BY <1>2, <1>3 DEF HintsAreIdle
<1> QED
  BY <1>1, <1>4

(* For every array and all its elements: an error is the first one's.      *)
LEMMA DeserializeFaults ==
  ASSUME NEW d \in Deserializers, d.plan = "array", NEW s \in Slices, s.kind = "array",
         Deserialize(d, {}, s).status = "error"
  PROVE  LET faulty == {i \in DOMAIN s.elems : ~ConformsWithin(MaxNesting - 1, d.element, s.elems[i])}
         IN  Deserialize(d, {}, s).trace[1] = Index(Min(faulty))
<1>1. PICK r : /\ Tabulates(r)
               /\ \A e, hints, t : Deserialize(e, hints, t) = Nested(r, MaxNesting, e, hints, t)
  BY DeserializeMade
<1>2. PICK c : TabulatesPairs(c) /\ \A n, e, t : ConformsWithin(n, e, t) = Conforming(c, n, e, t)
  BY ConformsMade
<1>3. s \in Sent /\ d.element \in Deserializers /\ s.elems \in Seq(Slices)
  BY DeserializerParts, SliceParts DEF Sent
<1> DEFINE outcome0 == Deserialize(d, {}, s)
           n == MaxNesting - 1
<1>4. MaxNesting # 0
  <2>1. Nested(r, 0, d, {}, s) = Throws
    BY <1>1, <1>3, HintsMade DEF Tabulates
  <2>2. Deserialize(d, {}, s) = Nested(r, MaxNesting, d, {}, s)
    BY <1>1
  <2>3. Throws.status # "error"
    BY DEF Throws
  <2> QED
    BY <2>1, <2>2, <2>3
<1>5. n \in 0..(MaxNesting - 1) /\ n \in 0..MaxNesting /\ n + 1 = MaxNesting
  BY <1>4, NestingAssumption
<1> HIDE DEF n
<1> DEFINE results == [i \in DOMAIN s.elems |-> TracedBy(Index(i), Nested(r, n, d.element, {}, s.elems[i]))]
           first == Min({i \in DOMAIN results : ~IsOk(results[i])})
<1>6. outcome0 = AllOf(results) /\ outcome0.status = "error" /\ ~IsOk(AllOf(results))
  <2>1. outcome0 = DeserializeWith(r, n, d, {}, s)
    <3>1. outcome0 = Nested(r, MaxNesting, d, {}, s)
      BY <1>1
    <3> QED
      BY <1>1, <1>3, <1>5, <3>1, HintsMade DEF Tabulates
  <2>2. outcome0.status = "error"
    OBVIOUS
  <2> HIDE DEF outcome0
  <2>3. outcome0 = Unpack(r, n, d, {}, s)
    BY <2>1, <2>2, ResultsMade DEF DeserializeWith, Ok
  <2>4. Unpack(r, n, d, {}, s) = AllOf(results)
    BY DEF Unpack, ExpectArray, UnpackElements
  <2> HIDE DEF results
  <2> QED
    BY <2>2, <2>3, <2>4 DEF IsOk
<1> HIDE DEF outcome0
<1>7. ReturnsResults(r, n) /\ Accepts(r, c, n)
  BY <1>1, <1>2, <1>5, ResultsReturned, AllAccepts
<1>8. \A i \in DOMAIN s.elems :
        /\ IsResult(Nested(r, n, d.element, {}, s.elems[i])) /\ Index(i) \in Steps
        /\ IsOk(Nested(r, n, d.element, {}, s.elems[i])) <=> ConformsWithin(n, d.element, s.elems[i])
  <2>1. \A i \in DOMAIN s.elems : s.elems[i] \in Sent
    BY <1>3 DEF Sent
  <2>2. \A i \in DOMAIN s.elems : IsOk(Nested(r, n, d.element, {}, s.elems[i])) <=> ConformsWithin(n, d.element, s.elems[i])
    BY <1>2, <1>3, <1>7, <2>1 DEF Accepts
  <2> QED
    BY <1>3, <1>7, <2>2, ElementsResult
<1>9. DOMAIN results = DOMAIN s.elems /\ DOMAIN results \subseteq Nat
  BY <1>3
<1>10. \A i \in DOMAIN results :
         /\ IsResult(results[i])
         /\ IsOk(results[i]) <=> ConformsWithin(n, d.element, s.elems[i])
         /\ results[i].status = "error" => results[i].trace[1] = Index(i)
  <2> SUFFICES ASSUME NEW i \in DOMAIN s.elems
               PROVE  LET x == Nested(r, n, d.element, {}, s.elems[i])
                      IN  /\ IsResult(TracedBy(Index(i), x))
                          /\ IsOk(TracedBy(Index(i), x)) <=> ConformsWithin(n, d.element, s.elems[i])
                          /\ TracedBy(Index(i), x).status = "error" => TracedBy(Index(i), x).trace[1] = Index(i)
    OBVIOUS
  <2> DEFINE x == Nested(r, n, d.element, {}, s.elems[i])
  <2>1. IsResult(x) /\ Index(i) \in Steps /\ (IsOk(x) <=> ConformsWithin(n, d.element, s.elems[i]))
    BY <1>8
  <2> HIDE DEF x
  <2>2. /\ IsResult(TracedBy(Index(i), x))
        /\ IsOk(TracedBy(Index(i), x)) <=> IsOk(x)
        /\ TracedBy(Index(i), x).status = x.status
        /\ x.status = "error" => TracedBy(Index(i), x).trace[1] = Index(i)
    BY <2>1, TracedParts
  <2> QED
    BY <2>1, <2>2 DEF x
<1>11. {i \in DOMAIN results : ~IsOk(results[i])} = {i \in DOMAIN s.elems : ~ConformsWithin(n, d.element, s.elems[i])}
  BY <1>9, <1>10
<1> HIDE DEF results
<1>12. first \in DOMAIN results /\ AllOf(results) = results[first]
  BY <1>6, <1>9, <1>10, AllOfParts
<1>13. outcome0.trace[1] = Index(first)
  BY <1>6, <1>10, <1>12
<1> QED
  BY <1>11, <1>13 DEF outcome0, n

-----------------------------------------------------------------------------
(* What is within a slice is a slice.                                      *)
Items(part) ==
  CASE part.kind = "array"  -> Range(part.elems)
    [] part.kind = "object" -> {f.slice : f \in Range(part.fields)}
    [] OTHER                -> {}

IsParting(s, m, f) == f = [d \in 0..m |-> IF d = 0 THEN {s} ELSE UNION {Items(part) : part \in f[d - 1]}]

(* What a slice consists of are slices.                                    *)
LEMMA ItemsAreSlices ==
  ASSUME NEW part \in Slices
  PROVE  Items(part) \subseteq Slices
<1>1. CASE part.kind = "array"
  <2>1. part.elems \in Seq(Slices)
    BY <1>1, SliceParts
  <2> QED
    BY <1>1, <2>1 DEF Items, Range
<1>2. CASE part.kind = "object"
  <2>1. part.fields \in Fields(Slices)
    BY <1>2, SliceParts
  <2>2. \A i \in DOMAIN part.fields : part.fields[i].slice \in Slices
    BY <2>1, FieldParts
  <2> QED
    BY <1>2, <2>2 DEF Items, Range
<1>3. CASE part.kind \notin {"array", "object"}
  BY <1>3 DEF Items
<1> QED
  BY <1>1, <1>2, <1>3

(* By induction on the depth.                                              *)
LEMMA PartingExists ==
  ASSUME NEW s
  PROVE  \A m \in Nat : \E f : IsParting(s, m, f)
<1> DEFINE Good == {m \in Nat : \E f : IsParting(s, m, f)}
<1>1. 0 \in Good
  <2>1. IsParting(s, 0, [d \in 0..0 |-> {s}])
    BY DEF IsParting
  <2> QED
    BY <2>1
<1>2. ASSUME NEW m \in Nat, m \in Good PROVE m + 1 \in Good
  <2>1. PICK g : IsParting(s, m, g)
    BY <1>2
  <2> DEFINE below(parts) == UNION {Items(part) : part \in parts}
             last == below(g[m])
             f == [d \in 0..(m + 1) |-> IF d = m + 1 THEN last ELSE g[d]]
  <2>2. \A d \in 0..m : g[d] = IF d = 0 THEN {s} ELSE below(g[d - 1])
    BY <2>1 DEF IsParting
  <2>3. last = below(g[m])
    OBVIOUS
  <2> HIDE DEF last, below
  <2>4. \A d \in 0..(m + 1) : f[d] = IF d = 0 THEN {s} ELSE below(f[d - 1])
    <3> SUFFICES ASSUME NEW d \in 0..(m + 1) PROVE f[d] = IF d = 0 THEN {s} ELSE below(f[d - 1])
      OBVIOUS
    <3>1. CASE d = m + 1
      <4>1. f[d] = last /\ f[d - 1] = g[m] /\ d # 0
        BY <3>1
      <4> QED
        BY <2>3, <4>1
    <3>2. CASE d \in 0..m
      <4>1. f[d] = g[d] /\ (d # 0 => f[d - 1] = g[d - 1])
        BY <3>2
      <4> QED
        BY <2>2, <3>2, <4>1
    <3> QED
      BY <3>1, <3>2
  <2>5. f = [d \in 0..(m + 1) |-> f[d]]
    OBVIOUS
  <2> HIDE DEF f
  <2>6. f = [d \in 0..(m + 1) |-> IF d = 0 THEN {s} ELSE below(f[d - 1])]
    BY <2>4, <2>5
  <2>7. IsParting(s, m + 1, f)
    BY <2>6 DEF IsParting, below
  <2> QED
    BY <2>7
<1> HIDE DEF Good
<1>3. Nat \subseteq Good
  BY <1>1, <1>2, Induction
<1> QED
  BY <1>3 DEF Good

(* By induction on the depth, so is everything within it.                  *)
LEMMA WithinSlices ==
  ASSUME NEW s \in Slices
  PROVE  Within(s) \subseteq Slices
<1> DEFINE f == CHOOSE g : IsParting(s, MaxDepth, g)
<1>1. Within(s) = UNION {f[d] : d \in 0..MaxDepth}
  BY DEF Within, IsParting, Items
<1>2. IsParting(s, MaxDepth, f)
  BY PartingExists, MaxDepthAssumption
<1> HIDE DEF f
<1> DEFINE Good == {d \in Nat : d \in 0..MaxDepth => f[d] \subseteq Slices}
           below(parts) == UNION {Items(part) : part \in parts}
<1>3. \A d \in 0..MaxDepth : f[d] = IF d = 0 THEN {s} ELSE below(f[d - 1])
  BY <1>2 DEF IsParting
<1>4. 0 \in Good
  BY <1>3, MaxDepthAssumption
<1>5. ASSUME NEW d \in Nat, d \in Good PROVE d + 1 \in Good
  <2> SUFFICES ASSUME d + 1 \in 0..MaxDepth PROVE f[d + 1] \subseteq Slices
    OBVIOUS
  <2>1. f[d + 1] = below(f[d])
    <3> HIDE DEF below
    <3> QED
      BY <1>3
  <2>2. f[d] \subseteq Slices
    BY <1>5, MaxDepthAssumption
  <2> QED
    BY <2>1, <2>2, ItemsAreSlices
<1> HIDE DEF Good
<1>6. Nat \subseteq Good
  BY <1>4, <1>5, Induction
<1> QED
  BY <1>1, <1>6 DEF Good

-----------------------------------------------------------------------------
(* FromSlice: its recursive function exists, level by level.               *)
NodeOf(f, s) ==
  CASE s.kind = "object" -> Object([name \in Names(s) |-> f[GetField(s, name)]])
    [] s.kind = "array"  -> Array([i \in DOMAIN s.elems |-> f[s.elems[i]]])
    [] OTHER             -> s

AreNodes(slices, f) == f = [s \in slices |-> NodeOf(f, s)]

(* A slice is made of slices one level below.                              *)
LEMMA BelowParts ==
  ASSUME NEW few, NEW s \in SlicesOf(few)
  PROVE  /\ s.kind = "object" => \A name \in Names(s) : GetField(s, name) \in few
         /\ s.kind = "array"  => \A i \in DOMAIN s.elems : s.elems[i] \in few
<1>1. CASE s \in Scalars
  BY <1>1 DEF Scalars
<1>2. CASE s \in [kind : {"array"}, elems : Seq(few)]
  BY <1>2
<1>3. CASE s \in [kind : {"object"}, fields : Fields(few)]
  <2>1. s.kind = "object" /\ s.fields \in Fields(few)
    BY <1>3
  <2> DEFINE fields == s.fields
             S == [name : Keys, slice : few]
  <2>2. fields \in Seq(S)
    BY <2>1 DEF Fields
  <2>3. \A f \in S : f.slice \in few
    OBVIOUS
  <2> HIDE DEF fields, S
  <2>4. \A i \in DOMAIN fields : fields[i] \in S
    BY <2>2
  <2>5. \A f \in Range(fields) : f.slice \in few
    BY <2>4, <2>3 DEF Range
  <2>6. ASSUME NEW name \in Names(s) PROVE GetField(s, name) \in few
    <3> DEFINE named(f) == f.name = name
               f0 == CHOOSE f \in Range(s.fields) : named(f)
    <3>1. \E f \in Range(s.fields) : named(f)
      BY DEF Names
    <3>2. f0 \in Range(s.fields)
      BY <3>1
    <3>3. GetField(s, name) = f0.slice
      BY DEF GetField
    <3> HIDE DEF f0
    <3> QED
      BY <2>5, <3>2, <3>3 DEF fields
  <2> QED
    BY <2>1, <2>6
<1> QED
  BY <1>1, <1>2, <1>3 DEF SlicesOf

(* The node of a slice depends on those of its parts alone.                *)
LEMMA SameNode ==
  ASSUME NEW f, NEW g, NEW few, \A s \in few : f[s] = g[s], NEW s \in SlicesOf(few)
  PROVE  NodeOf(f, s) = NodeOf(g, s)
<1>1. CASE s.kind = "object"
  <2>1. [name \in Names(s) |-> f[GetField(s, name)]] = [name \in Names(s) |-> g[GetField(s, name)]]
    BY <1>1, BelowParts
  <2> QED
    BY <1>1, <2>1 DEF NodeOf
<1>2. CASE s.kind = "array"
  <2>1. [i \in DOMAIN s.elems |-> f[s.elems[i]]] = [i \in DOMAIN s.elems |-> g[s.elems[i]]]
    BY <1>2, BelowParts
  <2> QED
    BY <1>2, <2>1 DEF NodeOf
<1>3. CASE s.kind \notin {"object", "array"}
  BY <1>3 DEF NodeOf
<1> QED
  BY <1>1, <1>2, <1>3

(* By induction on the level.                                              *)
LEMMA NodesExist == \E f : AreNodes(Slices, f)
<1> DEFINE levels == CHOOSE g : IsSlicing(MaxDepth, g)
           Good == {d \in Nat : d \in 0..MaxDepth => \E f : AreNodes(levels[d], f)}
<1>1. Slices = levels[MaxDepth]
  BY DEF Slices, IsSlicing, SlicesOf
<1>2. IsSlicing(MaxDepth, levels)
  BY SlicingExists, MaxDepthAssumption
<1> HIDE DEF levels
<1>3. 0 \in Good
  <2> DEFINE f == [s \in Scalars |-> s]
  <2>1. \A s \in Scalars : NodeOf(f, s) = s
    BY DEF Scalars, NodeOf
  <2>2. f = [s \in Scalars |-> NodeOf(f, s)]
    BY <2>1
  <2> HIDE DEF f
  <2>3. AreNodes(Scalars, f)
    BY <2>2 DEF AreNodes
  <2>4. 0 \in 0..MaxDepth => levels[0] = Scalars
    BY <1>2 DEF IsSlicing
  <2> QED
    BY <2>3, <2>4
<1>4. ASSUME NEW d \in Nat, d \in Good PROVE d + 1 \in Good
  <2> SUFFICES ASSUME d + 1 \in 0..MaxDepth PROVE \E f : AreNodes(levels[d + 1], f)
    OBVIOUS
  <2> DEFINE few == levels[d]
             many == levels[d + 1]
  <2>1. PICK g : AreNodes(few, g)
    BY <1>4, MaxDepthAssumption
  <2>2. many = SlicesOf(few)
    BY <1>2, MaxDepthAssumption DEF IsSlicing
  <2>3. few \subseteq many
    <3>1. d + 1 \in 1..MaxDepth /\ (d + 1) - 1 = d
      BY MaxDepthAssumption
    <3> DEFINE k == d + 1
    <3>2. k \in 1..MaxDepth /\ k - 1 = d
      BY <3>1
    <3> HIDE DEF k
    <3>3. levels[k - 1] \subseteq levels[k]
      BY <1>2, <3>2, SlicingGrows, MaxDepthAssumption
    <3> QED
      BY <3>2, <3>3 DEF k
  <2> HIDE DEF few, many
  <2> DEFINE f == [s \in many |-> NodeOf(g, s)]
  <2>4. \A s \in few : f[s] = g[s]
    BY <2>1, <2>3 DEF AreNodes
  <2>5. \A s \in many : f[s] = NodeOf(g, s)
    OBVIOUS
  <2>6. f = [s \in many |-> f[s]]
    OBVIOUS
  <2> HIDE DEF f
  <2>7. \A s \in many : NodeOf(f, s) = NodeOf(g, s)
    BY <2>2, <2>4, SameNode
  <2>8. f = [s \in many |-> NodeOf(f, s)]
    BY <2>5, <2>6, <2>7
  <2> QED
    BY <2>8 DEF AreNodes, many
<1> HIDE DEF Good
<1>5. MaxDepth \in Good
  BY <1>3, <1>4, Induction, MaxDepthAssumption
<1> QED
  BY <1>1, <1>5, MaxDepthAssumption DEF Good

(* So the node of a slice is made of the nodes of its parts.               *)
LEMMA FromSliceMade ==
  ASSUME NEW s \in Slices
  PROVE  /\ s.kind = "object" =>
              FromSlice(s) = Object([name \in Names(s) |-> FromSlice(GetField(s, name))])
         /\ s.kind \notin {"object", "array"} => FromSlice(s) = s
<1> DEFINE f == CHOOSE g : AreNodes(Slices, g)
<1>1. \A x : FromSlice(x) = f[x]
  BY DEF FromSlice, AreNodes, NodeOf
<1>2. AreNodes(Slices, f)
  BY NodesExist
<1> HIDE DEF f
<1>3. f[s] = NodeOf(f, s)
  BY <1>2 DEF AreNodes
<1> QED
  BY <1>1, <1>3 DEF NodeOf

-----------------------------------------------------------------------------
(* What accepted calls return, in the terms of the calls they make.        *)

(* An accepted call is not too deep, and its plan has read a value.        *)
LEMMA CallReturns ==
  ASSUME NEW r, Tabulates(r), NEW n \in 0..MaxNesting, NEW d \in Deserializers,
         NEW s \in Sent, IsOk(Nested(r, n, d, {}, s))
  PROVE  /\ n - 1 \in 0..MaxNesting
         /\ IsOk(Unpack(r, n - 1, d, {}, s))
         /\ Nested(r, n, d, {}, s).value =
              IF d.factory = "identity" THEN Unpack(r, n - 1, d, {}, s).value
              ELSE Build(d.factory, Unpack(r, n - 1, d, {}, s).value)
<1>1. n # 0
  BY HintsMade, ResultsMade DEF Tabulates
<1> DEFINE m == n - 1
<1>2. m \in 0..(MaxNesting - 1) /\ m + 1 = n /\ m \in 0..MaxNesting
  BY <1>1, NestingAssumption
<1> HIDE DEF m
<1>3. Nested(r, m + 1, d, {}, s) = DeserializeWith(r, m, d, {}, s)
  BY <1>2, HintsMade DEF Tabulates
<1>4. IsOk(DeserializeWith(r, m, d, {}, s))
  BY <1>2, <1>3
<1> DEFINE result == Unpack(r, m, d, {}, s)
<1>5. DeserializeWith(r, m, d, {}, s) =
        IF ~IsOk(result) THEN result
        ELSE IF d.factory = "identity" THEN result ELSE Ok(Build(d.factory, result.value))
  BY DEF DeserializeWith
<1> HIDE DEF result
<1>6. IsOk(result)
  BY <1>4, <1>5
<1>7. DeserializeWith(r, m, d, {}, s).value =
        IF d.factory = "identity" THEN result.value ELSE Build(d.factory, result.value)
  BY <1>5, <1>6, ResultsMade
<1> QED
  BY <1>2, <1>3, <1>6, <1>7 DEF m, result

(* An array: the values of its elements.                                   *)
LEMMA ElementsReturn ==
  ASSUME NEW r, NEW n, ReturnsResults(r, n), NEW element \in Deserializers,
         NEW s \in Slices, s.kind = "array", IsOk(UnpackElements(r, n, element, s))
  PROVE  /\ \A i \in DOMAIN s.elems : IsOk(Nested(r, n, element, {}, s.elems[i]))
         /\ UnpackElements(r, n, element, s).value =
              [i \in DOMAIN s.elems |-> Nested(r, n, element, {}, s.elems[i]).value]
<1> DEFINE results == [i \in DOMAIN s.elems |-> TracedBy(Index(i), Nested(r, n, element, {}, s.elems[i]))]
<1>0. s.elems \in Seq(Slices)
  BY SliceParts
<1>1. DOMAIN results \subseteq Nat /\ DOMAIN results = DOMAIN s.elems
  BY <1>0
<1>2. \A i \in DOMAIN results :
        /\ IsResult(results[i])
        /\ IsOk(results[i]) <=> IsOk(Nested(r, n, element, {}, s.elems[i]))
        /\ IsOk(results[i]) => results[i] = Nested(r, n, element, {}, s.elems[i])
  BY ElementsResult, TracedParts
<1>3. UnpackElements(r, n, element, s) = AllOf(results)
  BY DEF UnpackElements
<1> HIDE DEF results
<1>4. /\ \A i \in DOMAIN results : IsOk(results[i])
      /\ AllOf(results).value = [i \in DOMAIN results |-> results[i].value]
  BY <1>1, <1>2, <1>3, AllOfParts
<1>5. [i \in DOMAIN results |-> results[i].value]
        = [i \in DOMAIN s.elems |-> Nested(r, n, element, {}, s.elems[i]).value]
  BY <1>1, <1>2, <1>4
<1> QED
  BY <1>1, <1>2, <1>3, <1>4, <1>5

(* A map: the names and values of its members, in order.                   *)
LEMMA MembersReturn ==
  ASSUME NEW r, NEW n, ReturnsResults(r, n), NEW member \in Deserializers,
         NEW s \in Slices, s.kind = "object", IsOk(UnpackMembers(r, n, member, {}, s))
  PROVE  /\ \A i \in DOMAIN s.fields : IsOk(Nested(r, n, member, {}, s.fields[i].slice))
         /\ UnpackMembers(r, n, member, {}, s).value =
              [i \in DOMAIN s.fields |->
                 <<s.fields[i].name, Nested(r, n, member, {}, s.fields[i].slice).value>>]
<1> DEFINE value(i) == TracedBy(s.fields[i].name, Nested(r, n, member, Stateless({}), s.fields[i].slice))
           results == [i \in DOMAIN s.fields |->
                         IF IsOk(value(i)) THEN Ok(<<s.fields[i].name, value(i).value>>) ELSE value(i)]
<1>0. s.fields \in Fields(Slices) /\ Stateless({}) = {}
  BY SliceParts DEF Stateless
<1>1. DOMAIN results \subseteq Nat /\ DOMAIN results = DOMAIN s.fields
  BY <1>0, FieldParts
<1>2. ASSUME NEW i \in DOMAIN s.fields
      PROVE  /\ IsResult(value(i))
             /\ IsOk(value(i)) <=> IsOk(Nested(r, n, member, {}, s.fields[i].slice))
             /\ IsOk(value(i)) => value(i) = Nested(r, n, member, {}, s.fields[i].slice)
  <2>1. s.fields[i].name \in Steps /\ s.fields[i].slice \in Sent
    BY <1>0, FieldParts DEF Steps, Sent
  <2>2. IsResult(Nested(r, n, member, {}, s.fields[i].slice))
    BY <2>1, HintsMade DEF ReturnsResults
  <2> QED
    BY <1>0, <2>1, <2>2, TracedParts
<1> HIDE DEF value
<1>3. \A i \in DOMAIN results :
        /\ IsResult(results[i])
        /\ IsOk(results[i]) <=> IsOk(value(i))
        /\ IsOk(results[i]) => results[i].value = <<s.fields[i].name, value(i).value>>
  BY <1>2, ResultsMade
<1>4. UnpackMembers(r, n, member, {}, s) = AllOf(results)
  BY DEF UnpackMembers, value
<1> HIDE DEF results
<1>5. /\ \A i \in DOMAIN results : IsOk(results[i])
      /\ AllOf(results).value = [i \in DOMAIN results |-> results[i].value]
  BY <1>1, <1>3, <1>4, AllOfParts
<1>6. [i \in DOMAIN results |-> results[i].value]
        = [i \in DOMAIN s.fields |-> <<s.fields[i].name, Nested(r, n, member, {}, s.fields[i].slice).value>>]
  BY <1>1, <1>2, <1>3, <1>5
<1> QED
  BY <1>1, <1>2, <1>3, <1>4, <1>5, <1>6

(* A tuple: the values of its elements.                                    *)
LEMMA TupleReturns ==
  ASSUME NEW r, NEW n, ReturnsResults(r, n), NEW elements \in Seq(Deserializers),
         NEW s \in Slices, s.kind = "array", IsOk(UnpackTuple(r, n, elements, s))
  PROVE  /\ \A i \in DOMAIN elements : i \in DOMAIN s.elems /\ IsOk(Nested(r, n, elements[i], {}, s.elems[i]))
         /\ UnpackTuple(r, n, elements, s).value =
              [i \in DOMAIN elements |-> Nested(r, n, elements[i], {}, s.elems[i]).value]
<1> DEFINE results == TupleResults(r, n, elements, s)
<1>0. s.elems \in Seq(Slices)
  BY SliceParts
<1>1. /\ DOMAIN results = DOMAIN elements /\ DOMAIN elements \subseteq Nat
      /\ \A i \in DOMAIN elements : IsResult(results[i])
      /\ \A i \in DOMAIN elements : IsOk(results[i]) <=>
           i \in DOMAIN s.elems /\ IsOk(Nested(r, n, elements[i], {}, s.elems[i]))
  BY TupleResult
<1>2. UnpackTuple(r, n, elements, s) \in {Error("excess elements"), AllOf(results)}
  BY DEF UnpackTuple, TupleResults
<1>3. ASSUME NEW i \in DOMAIN elements, IsOk(results[i])
      PROVE  results[i] = Nested(r, n, elements[i], {}, s.elems[i])
  <2> DEFINE slices == s.elems
             result == Nested(r, n, elements[i], {}, slices[i])
  <2>1. i \in DOMAIN slices /\ IsOk(result)
    BY <1>1, <1>3
  <2>2. slices \in Seq(Slices)
    BY <1>0
  <2>3. results[i] = IF i > Len(slices) THEN Error("bad array length") ELSE TracedBy(Index(i), result)
    BY DEF TupleResults
  <2> HIDE DEF slices, result, results
  <2>4. ~(i > Len(slices))
    BY <2>1, <2>2
  <2>5. result.status = "ok" /\ results[i] = TracedBy(Index(i), result)
    BY <2>1, <2>3, <2>4 DEF IsOk
  <2> QED
    BY <2>5 DEF TracedBy, result, slices
<1> HIDE DEF results
<1>4. UnpackTuple(r, n, elements, s) = AllOf(results) /\ IsOk(AllOf(results))
  BY <1>2, ResultsMade
<1>5. /\ \A i \in DOMAIN results : IsOk(results[i])
      /\ AllOf(results).value = [i \in DOMAIN results |-> results[i].value]
  BY <1>1, <1>4, AllOfParts
<1>6. [i \in DOMAIN results |-> results[i].value]
        = [i \in DOMAIN elements |-> Nested(r, n, elements[i], {}, s.elems[i]).value]
  BY <1>1, <1>3, <1>5
<1> QED
  BY <1>1, <1>4, <1>5, <1>6

(* Parameters: the values of all of them, one after the other.             *)
LEMMA ParametersReturn ==
  ASSUME NEW r, NEW n, ReturnsResults(r, n), NEW params, params \in Seq(Range(params)),
         \A i \in DOMAIN params : IsParameter(params[i]),
         NEW s \in Slices, s.kind = "object", IsOk(UnpackParameters(r, n, params, {}, s))
  PROVE  /\ \A i \in DOMAIN params : IsOk(UnpackParameter(r, n, params[i], {}, s))
         /\ UnpackParameters(r, n, params, {}, s).value =
              FlattenSeq([i \in DOMAIN params |-> UnpackParameter(r, n, params[i], {}, s).value])
<1> DEFINE results == [i \in DOMAIN params |-> UnpackParameter(r, n, params[i], {}, s)]
<1>1. DOMAIN results \subseteq Nat /\ DOMAIN results = DOMAIN params
  OBVIOUS
<1>2. \A i \in DOMAIN results : IsResult(results[i])
  BY ParameterResult
<1> DEFINE values == AllOf(results)
           visited == {i \in DOMAIN params : params[i].param = "expected" \/ params[i].name \in Names(s)}
<1>3. UnpackParameters(r, n, params, {}, s) =
        IF ~IsOk(values) THEN values
        ELSE IF Len(s.fields) # Cardinality(visited) THEN Error("superfluous field")
        ELSE Ok(FlattenSeq(values.value))
  BY DEF UnpackParameters
<1>4. IsOk(values)
  BY <1>3, ResultsMade
<1>5. UnpackParameters(r, n, params, {}, s).value = FlattenSeq(values.value)
  <2> HIDE DEF values, visited
  <2> QED
    BY <1>3, <1>4, ResultsMade
<1>6. \A i \in DOMAIN results : results[i] = UnpackParameter(r, n, params[i], {}, s)
  OBVIOUS
<1> HIDE DEF results
<1>7. /\ \A i \in DOMAIN results : IsOk(results[i])
      /\ values.value = [i \in DOMAIN results |-> results[i].value]
  BY <1>1, <1>2, <1>4, AllOfParts
<1>8. [i \in DOMAIN results |-> results[i].value]
        = [i \in DOMAIN params |-> UnpackParameter(r, n, params[i], {}, s).value]
  BY <1>1, <1>6
<1> QED
  BY <1>1, <1>5, <1>6, <1>7, <1>8

(* Sequences of two and three sequences, one after the other.              *)
LEMMA FlattenMade ==
  ASSUME NEW m \in {1, 2, 3}, NEW seqs, DOMAIN seqs = 1..m, Len(seqs) = m
  PROVE  /\ m = 1 => FlattenSeq(seqs) = seqs[1]
         /\ m = 2 => FlattenSeq(seqs) = seqs[1] \o seqs[2]
         /\ m = 3 => FlattenSeq(seqs) = (seqs[1] \o seqs[2]) \o seqs[3]
<1> DEFINE then(x, y) == x \o y
           next(g, i) == then(g[i - 1], seqs[i])
           Flattens(g) == g = [i \in 1..m |-> IF i = 1 THEN seqs[i] ELSE next(g, i)]
           f == CHOOSE g : Flattens(g)
           one == seqs[1]
           two == then(one, seqs[2])
           three == then(two, seqs[3])
           h == [i \in 1..m |-> IF i = 1 THEN one ELSE IF i = 2 THEN two ELSE three]
<1>0. /\ 1 \in 1..m /\ (m # 1 => 2 \in 1..m) /\ (m = 3 => 3 \in 1..m /\ m # 1)
      /\ \A i \in 1..m : i \in {1, 2, 3} /\ (i = 2 => m # 1) /\ (i = 3 => m = 3)
  OBVIOUS
<1>1. FlattenSeq(seqs) = f[m]
  BY DEF FlattenSeq
<1> HIDE DEF then
<1>2. \A g : next(g, 2) = then(g[1], seqs[2]) /\ next(g, 3) = then(g[2], seqs[3])
  OBVIOUS
<1> HIDE DEF next
<1>3. Flattens(h)
  <2>1. two = then(one, seqs[2]) /\ three = then(two, seqs[3]) /\ one = seqs[1]
    OBVIOUS
  <2> HIDE DEF one, two, three
  <2>2. /\ h[1] = one
        /\ m # 1 => h[2] = two
        /\ m = 3 => h[3] = three
    BY <1>0
  <2>3. h = [i \in 1..m |-> h[i]]
    OBVIOUS
  <2> HIDE DEF h
  <2>4. \A i \in 1..m : h[i] = IF i = 1 THEN seqs[i] ELSE next(h, i)
    <3>1. m # 1 => next(h, 2) = two
      BY <1>2, <2>1, <2>2
    <3>2. m = 3 => next(h, 3) = three
      BY <1>0, <1>2, <2>1, <2>2
    <3> QED
      BY <1>0, <2>1, <2>2, <3>1, <3>2
  <2> QED
    BY <2>3, <2>4
<1>4. Flattens(f)
  <2> HIDE DEF Flattens, h
  <2> QED
    BY <1>3
<1> HIDE DEF f, h
<1>5. \A i \in 1..m : f[i] = IF i = 1 THEN seqs[i] ELSE next(f, i)
  BY <1>4
<1> HIDE DEF Flattens
<1>6. /\ f[1] = one
      /\ m # 1 => f[2] = then(f[1], seqs[2])
      /\ m = 3 => f[3] = then(f[2], seqs[3])
  <2>1. m # 1 => f[2] = next(f, 2)
    BY <1>0, <1>5
  <2>2. m = 3 => f[3] = next(f, 3)
    BY <1>0, <1>5
  <2>3. f[1] = one
    BY <1>0, <1>5
  <2> QED
    BY <1>2, <2>1, <2>2, <2>3
<1>7. (m = 1 => f[m] = one) /\ (m = 2 => f[m] = two) /\ (m = 3 => f[m] = three)
  <2>1. m # 1 => f[2] = two
    BY <1>6
  <2>2. m = 3 => f[3] = three
    BY <1>0, <1>6, <2>1
  <2>3. m = 2 => m # 1
    OBVIOUS
  <2> QED
    BY <1>6, <2>1, <2>2, <2>3
<1> QED
  BY <1>1, <1>7 DEF then

(* Alternatives told apart by a value: what the one of the value returns.  *)
LEMMA ByValueReturns ==
  ASSUME NEW r, NEW n, HintsAreIdle(r, n), NEW d \in Deserializers, d.plan = "field_value",
         NEW s \in Sent, IsOk(Unpack(r, n, d, {}, s))
  PROVE  /\ s \in Slices /\ s.kind = "object"
         /\ \E i \in DOMAIN d.pairs :
              /\ GetField(s, d.name) = d.pairs[i].value /\ d.pairs[i].of \in Deserializers
              /\ Unpack(r, n, d, {}, s) = Nested(r, n, d.pairs[i].of, {}, s)
<1> DEFINE pairs == d.pairs
           slice == GetField(s, d.name)
           equal == {i \in DOMAIN pairs : pairs[i].value = slice}
           hints == {HasFieldWithValue(d.name, slice), IsObject, HasField(d.name, slice)}
           first == Min(equal)
<1>1. /\ pairs \in Seq(Range(pairs)) /\ d.name \in Keys
      /\ \A i \in DOMAIN pairs : pairs[i].value # NoSlice /\ pairs[i].of \in Deserializers
  BY DeserializerParts
<1>2. Unpack(r, n, d, {}, s) =
        IF s.kind # "object" THEN Throws
        ELSE IF equal # {} THEN Nested(r, n, pairs[first].of, hints, s)
        ELSE IF slice = NoSlice THEN Throws
        ELSE TracedBy(d.name, Error("unrecognized value"))
  BY DEF Unpack, UnpackByValue
<1>3. ~IsOk(TracedBy(d.name, Error("unrecognized value")))
  BY <1>1, TracedParts, ResultsMade DEF Steps
<1> HIDE DEF pairs, slice, equal, hints, first
<1>4. s.kind = "object" /\ equal # {} /\ Unpack(r, n, d, {}, s) = Nested(r, n, pairs[first].of, hints, s)
  BY <1>2, <1>3, ResultsMade
<1>5. s \in Slices
  BY <1>4, NoSliceIsNone DEF Sent
<1>6. first \in equal /\ hints \in SUBSET TrueHints(s)
  BY <1>1, <1>4, <1>5, ByValueParts DEF slice, equal, hints, first
<1>7. first \in DOMAIN pairs /\ pairs[first].value = slice
  BY <1>6 DEF equal
<1>8. Nested(r, n, pairs[first].of, hints, s) = Nested(r, n, pairs[first].of, {}, s)
  BY <1>1, <1>6, <1>7 DEF HintsAreIdle
<1>9. pairs[first].of \in Deserializers
  BY <1>1, <1>7
<1> QED
  BY <1>4, <1>5, <1>7, <1>8, <1>9 DEF pairs, slice

(* Alternatives told apart by a name: what the first one returns.          *)
LEMMA ByNameReturns ==
  ASSUME NEW r, NEW n, HintsAreIdle(r, n), ReturnsResults(r, n),
         NEW d \in Deserializers, d.plan = "field_name",
         NEW s \in Sent, IsOk(Unpack(r, n, d, {}, s))
  PROVE  /\ s \in Slices /\ s.kind = "object"
         /\ \E i \in DOMAIN d.pairs :
              /\ d.pairs[i].of \in Deserializers
              /\ Unpack(r, n, d, {}, s) = Nested(r, n, d.pairs[i].of, {}, s)
<1> DEFINE pairs == d.pairs
           present == {i \in DOMAIN pairs : pairs[i].name \in Names(s)}
           first == Min(present)
           hints == {HasField(pairs[first].name, GetField(s, pairs[first].name))}
           result == Nested(r, n, pairs[first].of, hints, s)
<1>1. /\ pairs \in Seq(Range(pairs))
      /\ \A i \in DOMAIN pairs : pairs[i].name \in Keys /\ pairs[i].of \in Deserializers
  BY DeserializerParts
<1>2. Unpack(r, n, d, {}, s) =
        IF s.kind # "object" THEN Throws
        ELSE IF present = {} THEN Error("format not recognized")
        ELSE TracedBy(pairs[first].name, result)
  BY DEF Unpack, UnpackByName
<1> HIDE DEF pairs, present, hints, first, result
<1>3. s.kind = "object" /\ present # {} /\ Unpack(r, n, d, {}, s) = TracedBy(pairs[first].name, result)
  BY <1>2, ResultsMade
<1>4. s \in Slices
  BY <1>3, NoSliceIsNone DEF Sent
<1>5. /\ first \in present /\ pairs[first].name \in Steps /\ pairs[first].of \in Deserializers
      /\ hints \in SUBSET Hints /\ hints \in SUBSET TrueHints(s)
  BY <1>1, <1>3, <1>4, ByNameParts DEF present, hints, first
<1>6. IsResult(result)
  BY <1>5 DEF ReturnsResults, result
<1>7. TracedBy(pairs[first].name, result) = result
  BY <1>3, <1>5, <1>6, TracedParts
<1>8. result = Nested(r, n, pairs[first].of, {}, s)
  BY <1>5 DEF HintsAreIdle, result
<1>9. first \in DOMAIN pairs
  BY <1>5 DEF present
<1> QED
  BY <1>3, <1>4, <1>5, <1>7, <1>8, <1>9 DEF pairs

(* A scalar is what its value says.                                        *)
LEMMA ScalarReturns ==
  ASSUME NEW r, Tabulates(r), NEW n \in 0..MaxNesting, NEW type, Value(type) \in Deserializers,
         NEW s \in Slices, IsOk(Nested(r, n, Value(type), {}, s))
  PROVE  LET value == Nested(r, n, Value(type), {}, s).value
         IN  /\ type = "double" => s = Number(value)
             /\ type = "bool"   => s = Bool(value)
             /\ type = "string" => s = String(value)
<1> DEFINE d == Value(type)
           result == Unpack(r, n - 1, d, {}, s)
<1>1. d.factory = "identity" /\ d.plan = "value" /\ d.type = type
  BY DEF Value
<1>2. s \in Sent /\ d \in Deserializers
  BY DEF Sent
<1>3. result = Read(type, s)
  BY <1>1 DEF Unpack
<1>4. IsOk(result) /\ Nested(r, n, d, {}, s).value = result.value
  <2>1. IsOk(Nested(r, n, d, {}, s))
    OBVIOUS
  <2> HIDE DEF d
  <2>2. /\ IsOk(Unpack(r, n - 1, d, {}, s))
        /\ Nested(r, n, d, {}, s).value =
             IF d.factory = "identity" THEN Unpack(r, n - 1, d, {}, s).value
             ELSE Build(d.factory, Unpack(r, n - 1, d, {}, s).value)
    BY <1>2, <2>1, CallReturns
  <2> QED
    BY <1>1, <2>2
<1> HIDE DEF result
<1>5. /\ s.kind = "number" => s = Number(s.number)
      /\ s.kind = "bool" => s = Bool(s.bool)
      /\ s.kind = "string" => s = String(s.string)
  <2>1. CASE s \in Scalars
    BY <2>1 DEF Scalars, Number, Bool, String
  <2>2. CASE s \notin Scalars
    <3>1. \E few : s \in SlicesOf(few)
      BY <2>2, SlicesMade
    <3> QED
      BY <2>2, <3>1 DEF SlicesOf
  <2> QED
    BY <2>1, <2>2
<1>6. CASE type = "double"
  BY <1>3, <1>4, <1>5, <1>6, ResultsMade DEF Read
<1>7. CASE type = "bool"
  BY <1>3, <1>4, <1>5, <1>7, ResultsMade DEF Read
<1>8. CASE type = "string"
  BY <1>3, <1>4, <1>5, <1>8, ResultsMade DEF Read
<1> QED
  BY <1>6, <1>7, <1>8

(* One parameter: what stands for it among the values of the object.       *)
LEMMA ParameterReturns ==
  ASSUME NEW r, NEW n, ReturnsResults(r, n), NEW p, IsParameter(p), NEW s \in Slices, s.kind = "object",
         IsOk(UnpackParameter(r, n, p, {}, s))
  PROVE  LET slice == GetField(s, p.name)
             value == UnpackParameter(r, n, p, {}, s).value
         IN  /\ p.param = "expected" => value = <<>> /\ slice = p.value
             /\ p.param = "slice" => p.name \in Names(s) /\ value = <<slice>>
             /\ p.param = "value" /\ p.name \in Names(s) =>
                  IsOk(Nested(r, n, p.of, {}, slice)) /\ value = <<Nested(r, n, p.of, {}, slice).value>>
             /\ p.param = "value" /\ p.name \notin Names(s) => ~p.required /\ value = <<p.default>>
<1> DEFINE slice == GetField(s, p.name)
           result == UnpackParameter(r, n, p, {}, s)
<1>0. /\ slice \in Sent /\ (slice = NoSlice <=> p.name \notin Names(s))
      /\ p.name \in Steps /\ p.param \in {"value", "slice", "expected"}
  BY GetFieldParts DEF IsParameter, Sent, Steps
<1> HIDE DEF slice
<1>1. CASE p.param = "expected"
  <2>1. result = IF slice = p.value THEN Ok(<<>>)
                 ELSE IF slice = NoSlice THEN Throws
                 ELSE TracedBy(p.name, Error("not as expected"))
    BY <1>1 DEF UnpackParameter, slice
  <2>2. ~IsOk(TracedBy(p.name, Error("not as expected")))
    BY <1>0, TracedParts, ResultsMade
  <2> HIDE DEF result
  <2>3. slice = p.value /\ result = Ok(<<>>)
    <3>1. IsOk(result)
      BY DEF result
    <3> QED
      BY <2>1, <2>2, <3>1, ResultsMade
  <2> QED
    BY <1>1, <2>3, ResultsMade DEF slice, result
<1>2. CASE p.param = "slice"
  <2>1. p.required
    BY <1>2 DEF IsParameter
  <2>2. result = IF slice = NoSlice THEN Error("required") ELSE Ok(<<slice>>)
    BY <1>2, <2>1 DEF UnpackParameter, slice
  <2> HIDE DEF result
  <2>3. slice # NoSlice /\ result = Ok(<<slice>>)
    <3>1. IsOk(result)
      BY DEF result
    <3> QED
      BY <2>2, <3>1, ResultsMade
  <2> QED
    BY <1>0, <1>2, <2>3, ResultsMade DEF slice, result
<1>3. CASE p.param = "value" /\ slice = NoSlice
  <2>1. result = IF p.required THEN Error("required") ELSE Ok(<<p.default>>)
    BY <1>3 DEF UnpackParameter, slice
  <2> HIDE DEF result
  <2>2. ~p.required /\ result = Ok(<<p.default>>)
    <3>1. IsOk(result)
      BY DEF result
    <3> QED
      BY <2>1, <3>1, ResultsMade
  <2> QED
    BY <1>0, <1>3, <2>2, ResultsMade DEF slice, result
<1>4. CASE p.param = "value" /\ slice # NoSlice
  <2> DEFINE nested == Nested(r, n, p.of, {}, slice)
             value == TracedBy(p.name, nested)
  <2>1. IsResult(nested)
    BY <1>0, <1>4, HintsMade DEF ReturnsResults, IsParameter
  <2>2. result = IF IsOk(value) THEN Ok(<<value.value>>) ELSE value
    BY <1>4 DEF UnpackParameter, slice
  <2> HIDE DEF nested
  <2>3. IsOk(value) => IsOk(nested) /\ value = nested
    BY <1>0, <2>1, TracedParts
  <2> HIDE DEF value, result
  <2>4. IsOk(value) /\ result = Ok(<<value.value>>)
    <3>1. IsOk(result)
      BY DEF result
    <3> QED
      BY <2>2, <3>1
  <2>5. IsOk(nested) /\ result.value = <<nested.value>>
    BY <2>3, <2>4, ResultsMade
  <2> QED
    BY <1>0, <1>4, <2>5 DEF slice, result, nested
<1> QED
  BY <1>0, <1>1, <1>2, <1>3, <1>4

(* An object: its names are those of parameters, its values in order.      *)
LEMMA ObjectReturns ==
  ASSUME NEW r, Tabulates(r), NEW n \in 0..MaxNesting, NEW d \in Deserializers, d.plan = "parameters",
         d.factory # "identity", NEW s \in Sent, IsOk(Nested(r, n, d, {}, s))
  PROVE  /\ s \in Slices /\ s.kind = "object" /\ n - 1 \in 0..MaxNesting
         /\ Names(s) \subseteq {d.params[i].name : i \in DOMAIN d.params}
         /\ \A i \in DOMAIN d.params :
              IsParameter(d.params[i]) /\ IsOk(UnpackParameter(r, n - 1, d.params[i], {}, s))
         /\ Nested(r, n, d, {}, s).value =
              Build(d.factory, FlattenSeq([i \in DOMAIN d.params |->
                                             UnpackParameter(r, n - 1, d.params[i], {}, s).value]))
<1> DEFINE m == n - 1
           result == Unpack(r, m, d, {}, s)
<1>1. m \in 0..MaxNesting /\ IsOk(result) /\ Nested(r, n, d, {}, s).value = Build(d.factory, result.value)
  BY CallReturns
<1>2. m + 1 = n
  BY NestingAssumption
<1> HIDE DEF m
<1>3. result = IF s.kind = "object" THEN UnpackParameters(r, m, d.params, {}, s) ELSE Error("object expected")
  BY DEF Unpack, ExpectObject
<1> HIDE DEF result
<1>4. s.kind = "object" /\ result = UnpackParameters(r, m, d.params, {}, s)
  BY <1>1, <1>3, ResultsMade
<1>5. s \in Slices
  BY <1>4, NoSliceIsNone DEF Sent
<1>6. /\ d.params \in Seq(Range(d.params))
      /\ \A i \in DOMAIN d.params : IsParameter(d.params[i])
  BY DeserializerParts
<1>7. ReturnsResults(r, m)
  BY <1>1, ResultsReturned
<1>8. /\ \A i \in DOMAIN d.params : IsOk(UnpackParameter(r, m, d.params[i], {}, s))
      /\ result.value = FlattenSeq([i \in DOMAIN d.params |-> UnpackParameter(r, m, d.params[i], {}, s).value])
  BY <1>1, <1>4, <1>5, <1>6, <1>7, ParametersReturn
<1>9. Names(s) \subseteq {d.params[i].name : i \in DOMAIN d.params}
  <2>1. PICK c : TabulatesPairs(c)
    BY ConformsMade
  <2>2. Conforming(c, n, d, s)
    BY <2>1, AllAccepts DEF Accepts
  <2>3. ConformsToPlan(c, m, d, s)
    <3>1. m \in 0..(MaxNesting - 1)
      BY <1>1, <1>2, NestingAssumption
    <3>2. Conforming(c, m + 1, d, s) <=> ConformsToPlan(c, m, d, s)
      BY <2>1, <3>1 DEF TabulatesPairs
    <3> QED
      BY <1>2, <2>2, <3>2
  <2>4. Names(s) \subseteq {p.name : p \in Range(d.params)}
    BY <2>3 DEF ConformsToPlan
  <2> QED
    BY <2>4 DEF Range
<1> QED
  BY <1>1, <1>4, <1>5, <1>6, <1>8, <1>9 DEF m

-----------------------------------------------------------------------------
(* The agency's operations and preconditions keep what they are sent.      *)
BuildsAsAgency == \A factory, values : Build(factory, values) = AgencyBuild(factory, values)

(* The names are different.                                                *)
LEMMA NamesDiffer ==
  /\ Op # Delta /\ Op # New /\ Op # Ttl /\ Op # Old /\ Op # OldNot /\ Op # OldEmpty
  /\ New # Ttl /\ Old # Ttl /\ OldNot # Ttl /\ OldEmpty # Ttl
BY DEF Op, Delta, New, Ttl, Old, OldNot, OldEmpty, Name

(* The members of the node of an object are the nodes of its fields.       *)
LEMMA MembersMade ==
  ASSUME NEW s \in Slices, s.kind = "object"
  PROVE  /\ FromSlice(s).members = [name \in Names(s) |-> FromSlice(GetField(s, name))]
         /\ \A name \in Names(s) : GetField(s, name).kind \notin {"object", "array"} =>
              FromSlice(s).members[name] = GetField(s, name)
<1>1. FromSlice(s).members = [name \in Names(s) |-> FromSlice(GetField(s, name))]
  BY FromSliceMade DEF Object
<1>2. \A name \in Names(s) : GetField(s, name) \in Slices
  BY GetFieldParts
<1>3. \A name \in Names(s) : GetField(s, name).kind \notin {"object", "array"} =>
        FromSlice(GetField(s, name)) = GetField(s, name)
  BY <1>2, FromSliceMade
<1> QED
  BY <1>1, <1>3

(* An increment has the delta it is sent, or none.                         *)
LEMMA IncrementReturns ==
  ASSUME BuildsAsAgency, NEW r, Tabulates(r), NEW n \in 0..MaxNesting, IncrementDeserializer \in Deserializers,
         NEW s \in Sent, IsOk(Nested(r, n, IncrementDeserializer, {}, s))
  PROVE  /\ s \in Slices /\ s.kind = "object" /\ GetField(s, Op) = String("increment")
         /\ Names(s) \subseteq {Op, Delta}
         /\ \E x : /\ Nested(r, n, IncrementDeserializer, {}, s).value = [op |-> "increment", delta |-> x]
                   /\ IF Delta \in Names(s) THEN GetField(s, Delta) = Number(x) ELSE x = 0
<1> DEFINE d == IncrementDeserializer
           m == n - 1
           p1 == Expected(Op, String("increment"))
           p2 == Optional(Delta, Value("double"), 0)
           value(p) == UnpackParameter(r, m, p, {}, s).value
           seqs == [i \in DOMAIN d.params |-> value(d.params[i])]
<1>1. d.params = <<p1, p2>> /\ d.plan = "parameters" /\ d.factory = "increment"
  BY DEF IncrementDeserializer, ParameterList
<1>2. /\ p1.param = "expected" /\ p1.name = Op /\ p1.value = String("increment")
      /\ p2.param = "value" /\ p2.name = Delta /\ p2.of = Value("double") /\ p2.default = 0
  BY DEF Expected, Optional
<1> HIDE DEF d, p1, p2
<1>3. DOMAIN d.params = 1..2 /\ d.params[1] = p1 /\ d.params[2] = p2
  BY <1>1
<1>4. /\ s \in Slices /\ s.kind = "object" /\ m \in 0..MaxNesting
      /\ Names(s) \subseteq {d.params[i].name : i \in DOMAIN d.params}
      /\ \A i \in DOMAIN d.params : IsParameter(d.params[i]) /\ IsOk(UnpackParameter(r, m, d.params[i], {}, s))
      /\ Nested(r, n, d, {}, s).value = Build(d.factory, FlattenSeq(seqs))
  <2>1. d \in Deserializers /\ IsOk(Nested(r, n, d, {}, s))
    BY DEF d
  <2>2. d.plan = "parameters" /\ d.factory # "identity"
    BY <1>1
  <2> QED
    BY <2>1, <2>2, ObjectReturns
<1> HIDE DEF m
<1>5. /\ IsParameter(p1) /\ IsOk(UnpackParameter(r, m, p1, {}, s))
      /\ IsParameter(p2) /\ IsOk(UnpackParameter(r, m, p2, {}, s))
      /\ Names(s) \subseteq {Op, Delta}
  BY <1>2, <1>3, <1>4
<1>6. ReturnsResults(r, m)
  BY <1>4, ResultsReturned
<1>7. value(p1) = <<>> /\ GetField(s, Op) = String("increment")
  BY <1>2, <1>4, <1>5, <1>6, ParameterReturns
<1>8. \E x : value(p2) = <<x>> /\ IF Delta \in Names(s) THEN GetField(s, Delta) = Number(x) ELSE x = 0
  <2>1. CASE Delta \in Names(s)
    <3> DEFINE slice == GetField(s, Delta)
    <3>1. /\ IsOk(Nested(r, m, Value("double"), {}, slice))
          /\ value(p2) = <<Nested(r, m, Value("double"), {}, slice).value>>
      BY <1>2, <1>4, <1>5, <1>6, <2>1, ParameterReturns
    <3>2. Value("double") \in Deserializers
      BY <1>2, <1>5 DEF IsParameter
    <3>3. slice \in Slices
      BY <1>4, <2>1, GetFieldParts
    <3> HIDE DEF slice
    <3>4. slice = Number(Nested(r, m, Value("double"), {}, slice).value)
      BY <1>4, <3>1, <3>2, <3>3, ScalarReturns
    <3> QED
      BY <2>1, <3>1, <3>4 DEF slice
  <2>2. CASE Delta \notin Names(s)
    <3>1. value(p2) = <<0>>
      BY <1>2, <1>4, <1>5, <1>6, <2>2, ParameterReturns
    <3> QED
      BY <2>2, <3>1
  <2> QED
    BY <2>1, <2>2
<1>9. PICK x : value(p2) = <<x>> /\ IF Delta \in Names(s) THEN GetField(s, Delta) = Number(x) ELSE x = 0
  BY <1>8
<1>10. FlattenSeq(seqs) = <<x>>
  <2>1. DOMAIN seqs = 1..2 /\ seqs[1] = <<>> /\ seqs[2] = <<x>> /\ seqs = <<value(p1), value(p2)>>
    BY <1>3, <1>7, <1>9
  <2> HIDE DEF value
  <2>2. Len(seqs) = 2
    BY <2>1
  <2> HIDE DEF seqs
  <2>3. FlattenSeq(seqs) = seqs[1] \o seqs[2]
    BY <2>1, <2>2, FlattenMade
  <2>4. <<>> \o <<x>> = <<x>>
    OBVIOUS
  <2> QED
    BY <2>1, <2>3, <2>4
<1>11. Nested(r, n, d, {}, s).value = [op |-> "increment", delta |-> x]
  <2>1. Build("increment", <<x>>) = [op |-> "increment", delta |-> x]
    BY DEF BuildsAsAgency, AgencyBuild
  <2> QED
    BY <1>1, <1>4, <1>10, <2>1
<1> QED
  BY <1>4, <1>5, <1>7, <1>9, <1>11 DEF d

(* Two values, one after the other.                                        *)
LEMMA TwoJoined ==
  ASSUME NEW x, NEW y
  PROVE  <<x>> \o <<y>> = <<x, y>>
<1> DEFINE seq == <<x>> \o <<y>>
<1>1. seq \in Seq({x, y}) /\ Len(seq) = 2
  OBVIOUS
<1>2. seq[1] = x
  OBVIOUS
<1>3. seq[2] = y
  OBVIOUS
<1> HIDE DEF seq
<1>4. seq = <<seq[1], seq[2]>>
  BY <1>1
<1> QED
  BY <1>2, <1>3, <1>4 DEF seq

(* A set has the node it is sent; the ttl is read and dropped.             *)
LEMMA SetReturns ==
  ASSUME BuildsAsAgency, NEW r, Tabulates(r), NEW n \in 0..MaxNesting, SetDeserializer \in Deserializers,
         NEW s \in Sent, IsOk(Nested(r, n, SetDeserializer, {}, s))
  PROVE  /\ s \in Slices /\ s.kind = "object" /\ GetField(s, Op) = String("set")
         /\ Names(s) \subseteq {Op, New, Ttl} /\ New \in Names(s)
         /\ Nested(r, n, SetDeserializer, {}, s).value = [op |-> "set", node |-> FromSlice(GetField(s, New))]
<1> DEFINE d == SetDeserializer
           m == n - 1
           p1 == Expected(Op, String("set"))
           p2 == SliceParameter(New)
           p3 == Optional(Ttl, Value("double"), 0)
           value(p) == UnpackParameter(r, m, p, {}, s).value
           seqs == [i \in DOMAIN d.params |-> value(d.params[i])]
<1>1. d.params = <<p1, p2, p3>> /\ d.plan = "parameters" /\ d.factory = "set"
  BY DEF SetDeserializer, ParameterList
<1>2. /\ p1.param = "expected" /\ p1.name = Op /\ p1.value = String("set")
      /\ p2.param = "slice" /\ p2.name = New
      /\ p3.param = "value" /\ p3.name = Ttl
  BY DEF Expected, SliceParameter, Optional
<1> HIDE DEF d, p1, p2, p3
<1>3. DOMAIN d.params = 1..3 /\ d.params[1] = p1 /\ d.params[2] = p2 /\ d.params[3] = p3
  BY <1>1
<1>4. /\ s \in Slices /\ s.kind = "object" /\ m \in 0..MaxNesting
      /\ Names(s) \subseteq {d.params[i].name : i \in DOMAIN d.params}
      /\ \A i \in DOMAIN d.params : IsParameter(d.params[i]) /\ IsOk(UnpackParameter(r, m, d.params[i], {}, s))
      /\ Nested(r, n, d, {}, s).value = Build(d.factory, FlattenSeq(seqs))
  <2>1. d \in Deserializers /\ IsOk(Nested(r, n, d, {}, s))
    BY DEF d
  <2>2. d.plan = "parameters" /\ d.factory # "identity"
    BY <1>1
  <2> QED
    BY <2>1, <2>2, ObjectReturns
<1> HIDE DEF m
<1>5. /\ IsParameter(p1) /\ IsOk(UnpackParameter(r, m, p1, {}, s))
      /\ IsParameter(p2) /\ IsOk(UnpackParameter(r, m, p2, {}, s))
      /\ IsParameter(p3) /\ IsOk(UnpackParameter(r, m, p3, {}, s))
      /\ Names(s) \subseteq {Op, New, Ttl}
  BY <1>2, <1>3, <1>4
<1>6. ReturnsResults(r, m)
  BY <1>4, ResultsReturned
<1>7. value(p1) = <<>> /\ GetField(s, Op) = String("set")
  BY <1>2, <1>4, <1>5, <1>6, ParameterReturns
<1>8. value(p2) = <<GetField(s, New)>> /\ New \in Names(s)
  BY <1>2, <1>4, <1>5, <1>6, ParameterReturns
<1>9. \E x : value(p3) = <<x>>
  BY <1>2, <1>4, <1>5, <1>6, ParameterReturns
<1>10. PICK x : value(p3) = <<x>>
  BY <1>9
<1> DEFINE new == GetField(s, New)
<1>11. FlattenSeq(seqs) = <<new, x>>
  <2>1. DOMAIN seqs = 1..3 /\ seqs[1] = <<>> /\ seqs[2] = <<new>> /\ seqs[3] = <<x>>
        /\ seqs = <<value(p1), value(p2), value(p3)>>
    BY <1>3, <1>7, <1>8, <1>10
  <2> HIDE DEF value
  <2>2. Len(seqs) = 3
    BY <2>1
  <2> HIDE DEF seqs, new
  <2>3. FlattenSeq(seqs) = (seqs[1] \o seqs[2]) \o seqs[3]
    BY <2>1, <2>2, FlattenMade
  <2>4. <<>> \o <<new>> = <<new>>
    OBVIOUS
  <2>5. <<new>> \o <<x>> = <<new, x>>
    BY TwoJoined
  <2> QED
    BY <2>1, <2>3, <2>4, <2>5
<1>12. Nested(r, n, d, {}, s).value = [op |-> "set", node |-> FromSlice(new)]
  <2> HIDE DEF new
  <2>1. Build("set", <<new, x>>) = [op |-> "set", node |-> FromSlice(new)]
    BY DEF BuildsAsAgency, AgencyBuild
  <2> QED
    BY <1>1, <1>4, <1>11, <2>1
<1> QED
  BY <1>4, <1>5, <1>7, <1>8, <1>12 DEF d

(* A deserializer of one parameter that must be there, and what it makes.  *)
IsCondition(d, p) ==
  /\ d = ParameterList(<<p>>, d.factory) /\ d.factory # "identity"
  /\ p.param = "slice" \/ (p.param = "value" /\ p.required)

IsMadeOf(value, d, p, s) ==
  \E x : /\ value = Build(d.factory, <<x>>)
         /\ p.param = "slice" => x = GetField(s, p.name)
         /\ p.param = "value" /\ p.of = Value("bool") => GetField(s, p.name) = Bool(x)

(* A parameter that is passed on as a slice must be there.                 *)
LEMMA SliceIsCondition ==
  ASSUME NEW d, NEW p, d = ParameterList(<<p>>, d.factory), d.factory # "identity", p.param = "slice"
  PROVE  IsCondition(d, p)
BY DEF IsCondition

(* A condition has the only field of its object.                           *)
LEMMA ConditionReturns ==
  ASSUME NEW r, Tabulates(r), NEW n \in 0..MaxNesting, NEW d \in Deserializers,
         NEW p, IsCondition(d, p), NEW s \in Sent, IsOk(Nested(r, n, d, {}, s))
  PROVE  Names(s) = {p.name} /\ IsMadeOf(Nested(r, n, d, {}, s).value, d, p, s)
<1> DEFINE m == n - 1
           value == UnpackParameter(r, m, p, {}, s).value
           seqs == [i \in DOMAIN d.params |-> UnpackParameter(r, m, d.params[i], {}, s).value]
           slice == GetField(s, p.name)
<1>1. d.params = <<p>> /\ d.plan = "parameters" /\ d.factory # "identity"
  BY DEF ParameterList, IsCondition
<1>2. DOMAIN d.params = 1..1 /\ d.params[1] = p
  BY <1>1
<1>3. /\ s \in Slices /\ s.kind = "object" /\ m \in 0..MaxNesting
      /\ Names(s) \subseteq {d.params[i].name : i \in DOMAIN d.params}
      /\ \A i \in DOMAIN d.params : IsParameter(d.params[i]) /\ IsOk(UnpackParameter(r, m, d.params[i], {}, s))
      /\ Nested(r, n, d, {}, s).value = Build(d.factory, FlattenSeq(seqs))
  <2>1. d.plan = "parameters" /\ d.factory # "identity"
    BY <1>1
  <2> QED
    BY <2>1, ObjectReturns
<1> HIDE DEF m
<1>4. IsParameter(p) /\ IsOk(UnpackParameter(r, m, p, {}, s)) /\ Names(s) \subseteq {p.name}
  BY <1>2, <1>3
<1>5. ReturnsResults(r, m)
  BY <1>3, ResultsReturned
<1>6. FlattenSeq(seqs) = value
  <2>1. DOMAIN seqs = 1..1 /\ seqs[1] = value /\ seqs = <<value>>
    BY <1>2
  <2> HIDE DEF value
  <2>2. Len(seqs) = 1
    BY <2>1
  <2> HIDE DEF seqs
  <2> QED
    BY <2>1, <2>2, FlattenMade
<1>7. CASE p.param = "slice"
  <2>1. p.name \in Names(s) /\ value = <<slice>>
    BY <1>3, <1>4, <1>5, <1>7, ParameterReturns
  <2> QED
    BY <1>3, <1>4, <1>6, <1>7, <2>1 DEF IsMadeOf
<1>8. CASE p.param = "value" /\ p.required
  <2> DEFINE x == Nested(r, m, p.of, {}, slice).value
  <2>1. p.name \in Names(s) /\ IsOk(Nested(r, m, p.of, {}, slice)) /\ value = <<x>>
    BY <1>3, <1>4, <1>5, <1>8, ParameterReturns
  <2>2. slice \in Slices /\ p.of \in Deserializers
    BY <1>3, <1>4, <1>8, <2>1, GetFieldParts DEF IsParameter
  <2>3. p.of = Value("bool") => slice = Bool(x)
    <3> HIDE DEF slice
    <3> QED
      BY <1>3, <2>1, <2>2, ScalarReturns
  <2> HIDE DEF x
  <2> QED
    BY <1>3, <1>4, <1>6, <1>8, <2>1, <2>3 DEF IsMadeOf
<1> QED
  BY <1>7, <1>8 DEF IsCondition

(* An operation is what its slice asks for.                                *)
LEMMA OperationKept ==
  ASSUME BuildsAsAgency, NEW r, Tabulates(r), NEW n \in 0..MaxNesting, OperationDeserializer \in Deserializers,
         NEW s \in Slices, IsOk(Nested(r, n, OperationDeserializer, {}, s))
  PROVE  Written(Nested(r, n, OperationDeserializer, {}, s).value) = Asked(s)
<1> DEFINE d == OperationDeserializer
           m == n - 1
           outcome0 == Nested(r, n, d, {}, s)
<1>1. /\ d.plan = "field_value" /\ d.factory = "identity" /\ d.name = Op /\ DOMAIN d.pairs = 1..2
      /\ d.pairs[1].value = String("increment") /\ d.pairs[1].of = IncrementDeserializer
      /\ d.pairs[2].value = String("set") /\ d.pairs[2].of = SetDeserializer
  BY DEF OperationDeserializer, FieldValueDependent
<1>2. d \in Deserializers /\ s \in Sent /\ IsOk(outcome0)
  BY DEF Sent
<1> HIDE DEF d
<1>3. /\ m \in 0..MaxNesting /\ IsOk(Unpack(r, m, d, {}, s))
      /\ outcome0.value = Unpack(r, m, d, {}, s).value
  BY <1>1, <1>2, CallReturns
<1> HIDE DEF m, outcome0
<1>4. HintsAreIdle(r, m)
  BY <1>3, HintsIdle
<1>5. PICK i \in DOMAIN d.pairs :
        /\ GetField(s, Op) = d.pairs[i].value /\ d.pairs[i].of \in Deserializers
        /\ Unpack(r, m, d, {}, s) = Nested(r, m, d.pairs[i].of, {}, s)
  BY <1>1, <1>2, <1>3, <1>4, ByValueReturns
<1>6. s.kind = "object"
  BY <1>1, <1>2, <1>3, <1>4, ByValueReturns
<1> DEFINE members == FromSlice(s).members
<1>7. /\ members = [name \in Names(s) |-> FromSlice(GetField(s, name))]
      /\ \A name \in Names(s) : GetField(s, name).kind \notin {"object", "array"} => members[name] = GetField(s, name)
  BY <1>6, MembersMade
<1>8. /\ String("increment").kind = "string" /\ String("set").kind = "string"
      /\ String("increment") # String("set")
      /\ \A x : Number(x).kind = "number"
  BY DEF String, Number
<1>9. Op \in Names(s)
  <2>1. \A x : String(x) # NoSlice
    BY DEF String, NoSlice
  <2> QED
    BY <1>1, <1>5, <1>6, <2>1, GetFieldParts
<1>10. Asked(s) = IF members[Op] = String("increment")
                    THEN [key \in Names(s) \cup {Delta} |-> IF key \in Names(s) THEN members[key] ELSE Number(0)]
                    ELSE [key \in Names(s) \ {Ttl} |-> members[key]]
  BY <1>9 DEF Asked, Restrict
<1> HIDE DEF members
<1>11. CASE i = 1
  <2>1. IsOk(Nested(r, m, IncrementDeserializer, {}, s)) /\ IncrementDeserializer \in Deserializers
    BY <1>1, <1>3, <1>5, <1>11
  <2>2. /\ GetField(s, Op) = String("increment") /\ Names(s) \subseteq {Op, Delta}
        /\ \E x : /\ Nested(r, m, IncrementDeserializer, {}, s).value = [op |-> "increment", delta |-> x]
                  /\ IF Delta \in Names(s) THEN GetField(s, Delta) = Number(x) ELSE x = 0
    BY <1>2, <1>3, <2>1, IncrementReturns
  <2>3. PICK x : /\ Nested(r, m, IncrementDeserializer, {}, s).value = [op |-> "increment", delta |-> x]
                 /\ IF Delta \in Names(s) THEN GetField(s, Delta) = Number(x) ELSE x = 0
    BY <2>2
  <2>4. outcome0.value = [op |-> "increment", delta |-> x]
    BY <1>1, <1>3, <1>5, <1>11, <2>3
  <2>5. Written(outcome0.value) = [key \in {Op, Delta} |-> IF key = Op THEN String("increment") ELSE Number(x)]
    BY <2>4 DEF Written
  <2>6. members[Op] = String("increment") /\ Names(s) \cup {Delta} = {Op, Delta}
    BY <1>7, <1>8, <1>9, <2>2
  <2>7. Delta \in Names(s) => members[Delta] = Number(x)
    BY <1>7, <1>8, <2>3
  <2>8. Asked(s) = [key \in {Op, Delta} |-> IF key \in Names(s) THEN members[key] ELSE Number(0)]
    BY <1>10, <2>6
  <2>9. \A key \in {Op, Delta} : (IF key \in Names(s) THEN members[key] ELSE Number(0))
                                   = IF key = Op THEN String("increment") ELSE Number(x)
    BY <1>9, <2>3, <2>6, <2>7, NamesDiffer
  <2> QED
    BY <2>5, <2>8, <2>9 DEF outcome0, d
<1>12. CASE i = 2
  <2>1. IsOk(Nested(r, m, SetDeserializer, {}, s)) /\ SetDeserializer \in Deserializers
    BY <1>1, <1>3, <1>5, <1>12
  <2> DEFINE node == FromSlice(GetField(s, New))
  <2>2. /\ GetField(s, Op) = String("set") /\ Names(s) \subseteq {Op, New, Ttl} /\ New \in Names(s)
        /\ Nested(r, m, SetDeserializer, {}, s).value = [op |-> "set", node |-> node]
    BY <1>2, <1>3, <2>1, SetReturns
  <2>3. members[New] = node
    BY <1>7, <2>2
  <2> HIDE DEF node
  <2>4. outcome0.value = [op |-> "set", node |-> node]
    BY <1>1, <1>3, <1>5, <1>12, <2>2
  <2>5. Written(outcome0.value) = [key \in {Op, New} |-> IF key = Op THEN String("set") ELSE node]
    BY <2>4 DEF Written
  <2>6. members[Op] = String("set") /\ Names(s) \ {Ttl} = {Op, New}
    BY <1>7, <1>8, <1>9, <2>2, NamesDiffer
  <2>7. Asked(s) = [key \in {Op, New} |-> members[key]]
    BY <1>8, <1>10, <2>6
  <2>8. \A key \in {Op, New} : members[key] = IF key = Op THEN String("set") ELSE node
    BY <2>3, <2>6, NamesDiffer
  <2> QED
    BY <2>5, <2>7, <2>8 DEF outcome0, d
<1> QED
  BY <1>1, <1>11, <1>12

(* A precondition is what its slice asks for.                              *)
LEMMA PreconditionKept ==
  ASSUME BuildsAsAgency, NEW r, Tabulates(r), NEW n \in 0..MaxNesting, PreconditionDeserializer \in Deserializers,
         NEW s \in Slices, IsOk(Nested(r, n, PreconditionDeserializer, {}, s))
  PROVE  Written(Nested(r, n, PreconditionDeserializer, {}, s).value) = Asked(s)
<1> DEFINE d == PreconditionDeserializer
           m == n - 1
           outcome0 == Nested(r, n, d, {}, s)
<1>1. /\ d.plan = "field_name" /\ d.factory = "identity" /\ DOMAIN d.pairs = 1..3
      /\ d.pairs[1].of = OldDeserializer /\ d.pairs[2].of = OldNotDeserializer
      /\ d.pairs[3].of = OldEmptyDeserializer
  BY DEF PreconditionDeserializer, FieldNameDependent
<1>2. d \in Deserializers /\ s \in Sent /\ IsOk(outcome0)
  BY DEF Sent
<1> HIDE DEF d
<1>3. /\ m \in 0..MaxNesting /\ IsOk(Unpack(r, m, d, {}, s))
      /\ outcome0.value = Unpack(r, m, d, {}, s).value
  BY <1>1, <1>2, CallReturns
<1> HIDE DEF m, outcome0
<1>4. HintsAreIdle(r, m) /\ ReturnsResults(r, m)
  BY <1>3, HintsIdle, ResultsReturned
<1>5. PICK i \in DOMAIN d.pairs :
        d.pairs[i].of \in Deserializers /\ Unpack(r, m, d, {}, s) = Nested(r, m, d.pairs[i].of, {}, s)
  BY <1>1, <1>2, <1>3, <1>4, ByNameReturns
<1>6. s.kind = "object"
  BY <1>1, <1>2, <1>3, <1>4, ByNameReturns
<1> DEFINE members == FromSlice(s).members
           of == d.pairs[i].of
<1>7. /\ members = [name \in Names(s) |-> FromSlice(GetField(s, name))]
      /\ \A name \in Names(s) : GetField(s, name).kind \notin {"object", "array"} => members[name] = GetField(s, name)
  BY <1>6, MembersMade
<1>8. ASSUME NEW name, Names(s) = {name}, name # Op, name # Ttl
      PROVE  Asked(s) = [key \in {name} |-> members[name]] /\ members[name] = FromSlice(GetField(s, name))
  <2>1. Names(s) \ {Ttl} = {name} /\ Op \notin Names(s)
    BY <1>8
  <2>2. Asked(s) = [key \in {name} |-> members[key]]
    BY <2>1 DEF Asked, Restrict
  <2>3. members[name] = FromSlice(GetField(s, name))
    BY <1>7, <1>8
  <2> HIDE DEF members
  <2> QED
    BY <2>2, <2>3
<1> HIDE DEF members
<1>9. of \in Deserializers /\ IsOk(Nested(r, m, of, {}, s)) /\ outcome0.value = Nested(r, m, of, {}, s).value
  BY <1>3, <1>5
<1>10. of \in {OldDeserializer, OldNotDeserializer, OldEmptyDeserializer}
  BY <1>1
<1> HIDE DEF of
<1>11. ASSUME NEW p, IsCondition(of, p) PROVE Names(s) = {p.name} /\ IsMadeOf(outcome0.value, of, p, s)
  BY <1>2, <1>3, <1>9, <1>11, ConditionReturns
<1>12. ASSUME NEW name, NEW factory, of = ParameterList(<<SliceParameter(name)>>, factory),
              factory \in {"equal", "not_equal"}, name # Op, name # Ttl
       PROVE  /\ outcome0.value = [condition |-> factory, node |-> FromSlice(GetField(s, name))]
              /\ Asked(s) = [key \in {name} |-> FromSlice(GetField(s, name))]
  <2> DEFINE p == SliceParameter(name)
             slice == GetField(s, name)
  <2>1. p.param = "slice" /\ p.name = name
    BY DEF SliceParameter
  <2> HIDE DEF p
  <2>2. of.factory = factory /\ IsCondition(of, p)
    <3>1. of = ParameterList(<<p>>, factory) /\ factory # "identity"
      BY <1>12 DEF p
    <3>2. of.factory = factory
      BY <3>1 DEF ParameterList
    <3> QED
      BY <2>1, <3>1, <3>2, SliceIsCondition
  <2>3. Names(s) = {name} /\ outcome0.value = Build(factory, <<slice>>)
    BY <1>11, <2>1, <2>2 DEF IsMadeOf
  <2>4. Asked(s) = [key \in {name} |-> members[name]] /\ members[name] = FromSlice(slice)
    BY <1>8, <1>12, <2>3
  <2> HIDE DEF slice
  <2>5. Build(factory, <<slice>>) = [condition |-> factory, node |-> FromSlice(slice)]
    BY <1>12 DEF BuildsAsAgency, AgencyBuild
  <2> QED
    BY <2>3, <2>4, <2>5 DEF slice
<1>13. CASE of = OldDeserializer
  <2>1. of = ParameterList(<<SliceParameter(Old)>>, "equal")
    BY <1>13 DEF OldDeserializer
  <2> DEFINE node == FromSlice(GetField(s, Old))
  <2>2. outcome0.value = [condition |-> "equal", node |-> node] /\ Asked(s) = [key \in {Old} |-> node]
    BY <1>12, <2>1, NamesDiffer
  <2> HIDE DEF node
  <2>3. Written(outcome0.value) = [key \in {Old} |-> node]
    BY <2>2 DEF Written
  <2> QED
    BY <2>2, <2>3 DEF outcome0, d
<1>14. CASE of = OldNotDeserializer
  <2>1. of = ParameterList(<<SliceParameter(OldNot)>>, "not_equal")
    BY <1>14 DEF OldNotDeserializer
  <2> DEFINE node == FromSlice(GetField(s, OldNot))
  <2>2. outcome0.value = [condition |-> "not_equal", node |-> node] /\ Asked(s) = [key \in {OldNot} |-> node]
    BY <1>12, <2>1, NamesDiffer
  <2> HIDE DEF node
  <2>3. Written(outcome0.value) = [key \in {OldNot} |-> node]
    BY <2>2 DEF Written
  <2> QED
    BY <2>2, <2>3 DEF outcome0, d
<1>15. CASE of = OldEmptyDeserializer
  <2> DEFINE p == Parameter(OldEmpty, Value("bool"))
  <2>1. p.param = "value" /\ p.required /\ p.name = OldEmpty /\ p.of = Value("bool")
    BY DEF Parameter
  <2> HIDE DEF p
  <2>2. of.factory = "is_empty" /\ IsCondition(of, p)
    BY <1>15, <2>1 DEF p, OldEmptyDeserializer, ParameterList, IsCondition
  <2>3. Names(s) = {OldEmpty} /\ \E x : outcome0.value = Build("is_empty", <<x>>) /\ GetField(s, OldEmpty) = Bool(x)
    BY <1>11, <2>1, <2>2 DEF IsMadeOf
  <2>4. PICK x : outcome0.value = Build("is_empty", <<x>>) /\ GetField(s, OldEmpty) = Bool(x)
    BY <2>3
  <2>5. outcome0.value = [condition |-> "is_empty", inverted |-> x]
    BY <2>4 DEF BuildsAsAgency, AgencyBuild
  <2>6. Written(outcome0.value) = [key \in {OldEmpty} |-> Bool(x)]
    BY <2>5 DEF Written
  <2>7. Asked(s) = [key \in {OldEmpty} |-> members[OldEmpty]]
    BY <1>8, <2>3, NamesDiffer
  <2>8. members[OldEmpty] = Bool(x)
    BY <1>7, <2>3, <2>4 DEF members, Bool
  <2> QED
    BY <2>6, <2>7, <2>8 DEF outcome0, d
<1> QED
  BY <1>10, <1>13, <1>14, <1>15

(* A map keeps its members if they are kept.                               *)
LEMMA MapKept ==
  ASSUME NEW r, Tabulates(r), NEW n \in 0..MaxNesting, NEW member, MapOf(member) \in Deserializers,
         \A k \in 0..MaxNesting, t \in Slices : IsOk(Nested(r, k, member, {}, t)) =>
           Written(Nested(r, k, member, {}, t).value) = Asked(t),
         NEW s \in Slices, IsOk(Nested(r, n, MapOf(member), {}, s))
  PROVE  Keeps(Nested(r, n, MapOf(member), {}, s).value, s)
<1> DEFINE d == MapOf(member)
           m == n - 1
           values == Nested(r, n, d, {}, s).value
           value(i) == Nested(r, m, member, {}, s.fields[i].slice).value
<1>1. d.plan = "map" /\ d.member = member /\ d.factory = "identity"
  BY DEF MapOf
<1>2. d \in Deserializers /\ s \in Sent /\ IsOk(Nested(r, n, d, {}, s))
  BY DEF Sent
<1> HIDE DEF d
<1>3. /\ m \in 0..MaxNesting /\ IsOk(Unpack(r, m, d, {}, s))
      /\ values = Unpack(r, m, d, {}, s).value
  BY <1>1, <1>2, CallReturns
<1> HIDE DEF m, values
<1>4. Unpack(r, m, d, {}, s) = IF s.kind = "object" THEN UnpackMembers(r, m, member, {}, s) ELSE Error("object expected")
  BY <1>1 DEF Unpack, ExpectObject
<1>5. s.kind = "object" /\ IsOk(UnpackMembers(r, m, member, {}, s))
  BY <1>3, <1>4, ResultsMade
<1>6. member \in Deserializers
  BY <1>1, <1>2, DeserializerParts
<1>7. ReturnsResults(r, m)
  BY <1>3, ResultsReturned
<1>8. /\ \A i \in DOMAIN s.fields : IsOk(Nested(r, m, member, {}, s.fields[i].slice))
      /\ values = [i \in DOMAIN s.fields |-> <<s.fields[i].name, value(i)>>]
  BY <1>3, <1>4, <1>5, <1>6, <1>7, MembersReturn
<1>9. s.fields \in Fields(Slices)
  BY <1>5, SliceParts
<1>10. ASSUME NEW i \in DOMAIN s.fields PROVE Written(value(i)) = Asked(s.fields[i].slice)
  <2>1. s.fields[i].slice \in Slices
    BY <1>9, FieldParts
  <2> QED
    BY <1>3, <1>8, <2>1
<1> HIDE DEF value
<1> DEFINE length == Len(s.fields)
<1>11. length \in Nat /\ DOMAIN s.fields = 1..length
  BY <1>9, FieldParts
<1>12. \A i \in DOMAIN values : values[i][1] = s.fields[i].name /\ Written(values[i][2]) = Asked(s.fields[i].slice)
  BY <1>8, <1>10
<1>13. Len(values) = length
  <2> HIDE DEF length
  <2> QED
    BY <1>8, <1>11
<1> QED
  BY <1>12, <1>13 DEF Keeps, values, d

(* A transaction keeps its operations, its preconditions and its client.   *)
LEMMA TransactionKept ==
  ASSUME BuildsAsAgency, NEW r, Tabulates(r), NEW n \in 0..MaxNesting, TransactionDeserializer \in Deserializers,
         NEW s \in Slices, IsOk(Nested(r, n, TransactionDeserializer, {}, s))
  PROVE  /\ Keeps(Nested(r, n, TransactionDeserializer, {}, s).value.operations, s.elems[1])
         /\ Keeps(Nested(r, n, TransactionDeserializer, {}, s).value.preconditions, s.elems[2])
         /\ String(Nested(r, n, TransactionDeserializer, {}, s).value.client_id) = s.elems[3]
<1> DEFINE d == TransactionDeserializer
           m == n - 1
           transaction == Nested(r, n, d, {}, s).value
           d1 == MapOf(OperationDeserializer)
           d2 == MapOf(PreconditionDeserializer)
           d3 == Value("string")
           value(i) == Nested(r, m, d.elements[i], {}, s.elems[i]).value
           values == [i \in DOMAIN d.elements |-> value(i)]
<1>1. d.plan = "tuple" /\ d.elements = <<d1, d2, d3>> /\ d.factory = "transaction"
  BY DEF TransactionDeserializer, FixedOrder
<1>2. d \in Deserializers /\ s \in Sent /\ IsOk(Nested(r, n, d, {}, s))
  BY DEF Sent
<1> HIDE DEF d
<1>3. /\ m \in 0..MaxNesting /\ IsOk(Unpack(r, m, d, {}, s))
      /\ transaction = Build("transaction", Unpack(r, m, d, {}, s).value)
  BY <1>1, <1>2, CallReturns
<1> HIDE DEF m, transaction, d1, d2, d3
<1>4. Unpack(r, m, d, {}, s) = IF s.kind = "array" THEN UnpackTuple(r, m, d.elements, s) ELSE Error("array expected")
  BY <1>1 DEF Unpack, ExpectArray
<1>5. s.kind = "array" /\ IsOk(UnpackTuple(r, m, d.elements, s))
  BY <1>3, <1>4, ResultsMade
<1>6. d.elements \in Seq(Deserializers)
  BY <1>1, <1>2, DeserializerParts
<1>7. ReturnsResults(r, m)
  BY <1>3, ResultsReturned
<1>8. /\ \A i \in DOMAIN d.elements :
           i \in DOMAIN s.elems /\ IsOk(Nested(r, m, d.elements[i], {}, s.elems[i]))
      /\ Unpack(r, m, d, {}, s).value = values
  BY <1>4, <1>5, <1>6, <1>7, TupleReturns
<1>9. s.elems \in Seq(Slices)
  BY <1>5, SliceParts
<1>10. /\ DOMAIN d.elements = 1..3
       /\ d.elements[1] = d1 /\ d.elements[2] = d2 /\ d.elements[3] = d3
  BY <1>1
<1>11. /\ d1 \in Deserializers /\ d2 \in Deserializers /\ d3 \in Deserializers
       /\ s.elems[1] \in Slices /\ s.elems[2] \in Slices /\ s.elems[3] \in Slices
       /\ IsOk(Nested(r, m, d1, {}, s.elems[1])) /\ IsOk(Nested(r, m, d2, {}, s.elems[2]))
       /\ IsOk(Nested(r, m, d3, {}, s.elems[3]))
  BY <1>6, <1>8, <1>9, <1>10
<1>12. value(1) = Nested(r, m, d1, {}, s.elems[1]).value /\ value(2) = Nested(r, m, d2, {}, s.elems[2]).value
       /\ value(3) = Nested(r, m, d3, {}, s.elems[3]).value
  BY <1>10
<1>13. transaction = [operations |-> value(1), preconditions |-> value(2), client_id |-> value(3)]
  <2>1. values[1] = value(1) /\ values[2] = value(2) /\ values[3] = value(3)
    BY <1>10
  <2> HIDE DEF values, value
  <2>2. Build("transaction", values) =
          [operations |-> values[1], preconditions |-> values[2], client_id |-> values[3]]
    BY DEF BuildsAsAgency, AgencyBuild
  <2> QED
    BY <1>3, <1>8, <2>1, <2>2
<1> HIDE DEF value
<1>14. Keeps(value(1), s.elems[1])
  <2>1. d1.plan = "map" /\ d1.member = OperationDeserializer
    BY DEF d1, MapOf
  <2>2. OperationDeserializer \in Deserializers
    BY <1>11, <2>1, DeserializerParts
  <2>3. \A k \in 0..MaxNesting, t \in Slices : IsOk(Nested(r, k, OperationDeserializer, {}, t)) =>
          Written(Nested(r, k, OperationDeserializer, {}, t).value) = Asked(t)
    BY <2>2, OperationKept
  <2> QED
    BY <1>3, <1>11, <1>12, <2>3, MapKept DEF d1
<1>15. Keeps(value(2), s.elems[2])
  <2>1. d2.plan = "map" /\ d2.member = PreconditionDeserializer
    BY DEF d2, MapOf
  <2>2. PreconditionDeserializer \in Deserializers
    BY <1>11, <2>1, DeserializerParts
  <2>3. \A k \in 0..MaxNesting, t \in Slices : IsOk(Nested(r, k, PreconditionDeserializer, {}, t)) =>
          Written(Nested(r, k, PreconditionDeserializer, {}, t).value) = Asked(t)
    BY <2>2, PreconditionKept
  <2> QED
    BY <1>3, <1>11, <1>12, <2>3, MapKept DEF d2
<1>16. String(value(3)) = s.elems[3]
  BY <1>3, <1>11, <1>12, ScalarReturns DEF d3
<1> QED
  BY <1>13, <1>14, <1>15, <1>16 DEF transaction, d

(* An envelope keeps its transactions.                                     *)
LEMMA EnvelopeKept ==
  ASSUME BuildsAsAgency, EnvelopeDeserializer \in Deserializers,
         NEW s \in Slices, IsOk(Deserialize(EnvelopeDeserializer, {}, s))
  PROVE  LET values == Deserialize(EnvelopeDeserializer, {}, s).value
         IN  /\ Len(values) = Len(s.elems)
             /\ \A i \in DOMAIN values :
                  /\ Keeps(values[i].operations, s.elems[i].elems[1])
                  /\ Keeps(values[i].preconditions, s.elems[i].elems[2])
                  /\ String(values[i].client_id) = s.elems[i].elems[3]
<1> DEFINE d == EnvelopeDeserializer
           values == Deserialize(d, {}, s).value
           m == MaxNesting - 1
<1>1. PICK r : /\ Tabulates(r)
               /\ \A e, hints, t : Deserialize(e, hints, t) = Nested(r, MaxNesting, e, hints, t)
  BY DeserializeMade
<1> DEFINE value(i) == Nested(r, m, TransactionDeserializer, {}, s.elems[i]).value
<1>2. d.plan = "array" /\ d.element = TransactionDeserializer /\ d.factory = "identity"
  BY DEF EnvelopeDeserializer, ArrayOf
<1>3. d \in Deserializers /\ s \in Sent /\ IsOk(Nested(r, MaxNesting, d, {}, s))
  BY <1>1 DEF Sent
<1>4. values = Nested(r, MaxNesting, d, {}, s).value /\ MaxNesting \in 0..MaxNesting
  BY <1>1, NestingAssumption
<1> HIDE DEF d, values
<1>5. /\ m \in 0..MaxNesting /\ IsOk(Unpack(r, m, d, {}, s))
      /\ values = Unpack(r, m, d, {}, s).value
  BY <1>1, <1>2, <1>3, <1>4, CallReturns
<1> HIDE DEF m
<1>6. Unpack(r, m, d, {}, s) =
        IF s.kind = "array" THEN UnpackElements(r, m, TransactionDeserializer, s) ELSE Error("array expected")
  BY <1>2 DEF Unpack, ExpectArray
<1>7. s.kind = "array" /\ IsOk(UnpackElements(r, m, TransactionDeserializer, s))
  BY <1>5, <1>6, ResultsMade
<1>8. TransactionDeserializer \in Deserializers
  BY <1>2, <1>3, DeserializerParts
<1>9. ReturnsResults(r, m)
  BY <1>1, <1>5, ResultsReturned
<1>10. /\ \A i \in DOMAIN s.elems : IsOk(Nested(r, m, TransactionDeserializer, {}, s.elems[i]))
       /\ values = [i \in DOMAIN s.elems |-> value(i)]
  BY <1>5, <1>6, <1>7, <1>8, <1>9, ElementsReturn
<1>11. s.elems \in Seq(Slices)
  BY <1>7, SliceParts
<1>12. ASSUME NEW i \in DOMAIN s.elems
       PROVE  /\ Keeps(value(i).operations, s.elems[i].elems[1])
              /\ Keeps(value(i).preconditions, s.elems[i].elems[2])
              /\ String(value(i).client_id) = s.elems[i].elems[3]
  <2>1. s.elems[i] \in Slices
    BY <1>11
  <2> QED
    BY <1>1, <1>5, <1>8, <1>10, <2>1, TransactionKept
<1> HIDE DEF value
<1> DEFINE length == Len(s.elems)
<1>13. length \in Nat /\ DOMAIN s.elems = 1..length
  BY <1>11
<1>14. Len(values) = length
  <2> HIDE DEF length
  <2> QED
    BY <1>10, <1>13
<1>15. \A i \in DOMAIN values : values[i] = value(i) /\ i \in DOMAIN s.elems
  BY <1>10
<1> QED
  BY <1>12, <1>14, <1>15 DEF values, d

-----------------------------------------------------------------------------
(* The server: what it holds is a slice, and the outcome is of that slice. *)
Current ==
  /\ schema \in Schemas
  /\ request \in Slices
  /\ outcome = Deserialize(schema.of, {}, request)

(* The outcome is always that of the request and the schema at hand.       *)
THEOREM OutcomeIsCurrent == Spec => []Current
<1>1. Init => Current
  BY SchemasAssumption DEF Init, Current
<1>2. Current /\ [Next]_requestVars => Current'
  <2> SUFFICES ASSUME Current, [Next]_requestVars PROVE Current'
    OBVIOUS
  <2>1. ASSUME NEW s, Receive(s) PROVE Current'
    BY <2>1 DEF Receive, Current
  <2>2. CASE Next
    BY <2>1, <2>2 DEF Next
  <2>3. CASE UNCHANGED requestVars
    BY <2>3 DEF requestVars, Current
  <2> QED
    BY <2>2, <2>3
<1> QED
  BY <1>1, <1>2, PTL DEF Spec

(* deserialize accepts what its type describes and nothing else, whatever  *)
(* the deserializers and the requests are.                                 *)
THEOREM RequestsAreChecked == Spec => []AcceptsWhatConforms
<1>1. Current => AcceptsWhatConforms
  <2> SUFFICES ASSUME Current PROVE AcceptsWhatConforms
    OBVIOUS
  <2>1. schema.of \in Deserializers /\ request \in Slices
    BY SchemasAssumption DEF Current
  <2>2. IsOk(Deserialize(schema.of, {}, request)) <=> Conforms(schema.of, request)
    BY <2>1, DeserializeAccepts
  <2> QED
    BY <2>2 DEF Current, AcceptsWhatConforms
<1> QED
  BY <1>1, OutcomeIsCurrent, PTL

(* The trace of an error in an array begins with the first faulty element. *)
THEOREM FaultsAreLocated == Spec => []FirstFaultReported
<1>1. Current => FirstFaultReported
  <2> SUFFICES ASSUME Current, outcome.status = "error", schema.of.plan = "array", request.kind = "array"
               PROVE  LET faulty == {i \in DOMAIN request.elems :
                                       ~ConformsWithin(MaxNesting - 1, schema.of.element, request.elems[i])}
                      IN  outcome.trace[1] = Index(Min(faulty))
    BY DEF FirstFaultReported
  <2>1. schema.of \in Deserializers /\ request \in Slices /\ outcome = Deserialize(schema.of, {}, request)
    BY SchemasAssumption DEF Current
  <2> QED
    BY <2>1, DeserializeFaults
<1> QED
  BY <1>1, OutcomeIsCurrent, PTL

(* A slice is read as it would be without the hints that are true of it.   *)
THEOREM HintsAreOnlyHints == Spec => []HintsChangeNothing
<1>1. Current => HintsChangeNothing
  <2> SUFFICES ASSUME Current, NEW d \in schema.parts, NEW s \in Within(request),
                      NEW hints \in {TrueHints(s)} \cup {{h} : h \in TrueHints(s)}
               PROVE  Deserialize(d, hints, s) = Deserialize(d, {}, s)
    BY DEF HintsChangeNothing
  <2>1. d \in Deserializers /\ request \in Slices
    BY SchemasAssumption DEF Current
  <2>2. s \in Slices
    BY <2>1, WithinSlices
  <2>3. hints \in SUBSET TrueHints(s)
    OBVIOUS
  <2> QED
    BY <2>1, <2>2, <2>3, DeserializeIdle
<1> QED
  BY <1>1, OutcomeIsCurrent, PTL

(* A transaction holds what its request asks for, path by path and in      *)
(* order, if the factories are those of the agency.                        *)
THEOREM RequestsAreKept ==
  ASSUME \A factory, values : Build(factory, values) = AgencyBuild(factory, values)
  PROVE  Spec => []NothingLost
<1>1. BuildsAsAgency
  BY DEF BuildsAsAgency
<1>2. Current => NothingLost
  <2> SUFFICES ASSUME Current, schema.of = EnvelopeDeserializer, IsOk(outcome) PROVE NothingLost
    BY DEF NothingLost
  <2>1. EnvelopeDeserializer \in Deserializers /\ request \in Slices
        /\ outcome = Deserialize(EnvelopeDeserializer, {}, request)
    BY SchemasAssumption DEF Current
  <2>2. /\ Len(outcome.value) = Len(request.elems)
        /\ \A i \in DOMAIN outcome.value :
             /\ Keeps(outcome.value[i].operations, request.elems[i].elems[1])
             /\ Keeps(outcome.value[i].preconditions, request.elems[i].elems[2])
             /\ String(outcome.value[i].client_id) = request.elems[i].elems[3]
    BY <1>1, <2>1, EnvelopeKept
  <2> QED
    BY <2>2 DEF NothingLost
<1> QED
  BY <1>2, OutcomeIsCurrent, PTL

=============================================================================
