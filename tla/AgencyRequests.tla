--------------------------- MODULE AgencyRequests ---------------------------
(***************************************************************************)
(* The agency's requests: the deserializers of operation-deserializer.h,   *)
(* from envelopes of transactions down to operators and conditions.        *)
(***************************************************************************)
EXTENDS Requests, NodeConditions

Delta    == Name("delta")
New      == Name("new")
Op       == Name("op")
Ttl      == Name("ttl")
Old      == Name("old")
OldNot   == Name("oldNot")
OldEmpty == Name("oldEmpty")

-----------------------------------------------------------------------------
(* Operations.                                                             *)
IncrementDeserializer ==
  ParameterList(<<Expected(Op, String("increment")), Optional(Delta, Value("double"), 0)>>, "increment")

SetDeserializer ==
  ParameterList(<<Expected(Op, String("set")), SliceParameter(New), Optional(Ttl, Value("double"), 0)>>, "set")

OperationDeserializer ==
  FieldValueDependent(Op, <<[value |-> String("increment"), of |-> IncrementDeserializer],
                            [value |-> String("set"), of |-> SetDeserializer]>>)

(* Preconditions.                                                          *)
OldDeserializer      == ParameterList(<<SliceParameter(Old)>>, "equal")
OldNotDeserializer   == ParameterList(<<SliceParameter(OldNot)>>, "not_equal")
OldEmptyDeserializer == ParameterList(<<Parameter(OldEmpty, Value("bool"))>>, "is_empty")

PreconditionDeserializer ==
  FieldNameDependent(<<[name |-> Old, of |-> OldDeserializer],
                       [name |-> OldNot, of |-> OldNotDeserializer],
                       [name |-> OldEmpty, of |-> OldEmptyDeserializer]>>)

TransactionDeserializer ==
  FixedOrder(<<MapOf(OperationDeserializer), MapOf(PreconditionDeserializer), Value("string")>>, "transaction")

EnvelopeDeserializer == ArrayOf(TransactionDeserializer)

-----------------------------------------------------------------------------
(* node::from_slice.                                                       *)
FromSlice(slice) ==
  LET node[s \in Slices] ==
        CASE s.kind = "object" -> Object([name \in Names(s) |-> node[GetField(s, name)]])
          [] s.kind = "array"  -> Array([i \in DOMAIN s.elems |-> node[s.elems[i]]])
          [] OTHER             -> s
  IN  node[slice]

(* Mutant: oldNot makes the condition of old.                              *)
AgencyBuildEqual(factory, values) ==
  CASE factory = "increment"   -> [op |-> "increment", delta |-> values[1]]
    [] factory = "set"         -> [op |-> "set", node |-> FromSlice(values[1])]
    [] factory \in {"equal", "not_equal"} -> [condition |-> "equal", node |-> FromSlice(values[1])]
    [] factory = "is_empty"    -> [condition |-> "is_empty", inverted |-> values[1]]
    [] factory = "transaction" -> [operations |-> values[1], preconditions |-> values[2], client_id |-> values[3]]

(* The factories.  A ttl is read and dropped.                              *)
AgencyBuild(factory, values) ==
  CASE factory = "increment"   -> [op |-> "increment", delta |-> values[1]]
    [] factory = "set"         -> [op |-> "set", node |-> FromSlice(values[1])]
    [] factory \in {"equal", "not_equal"} -> [condition |-> factory, node |-> FromSlice(values[1])]
    [] factory = "is_empty"    -> [condition |-> "is_empty", inverted |-> values[1]]
    [] factory = "transaction" -> [operations |-> values[1], preconditions |-> values[2], client_id |-> values[3]]

-----------------------------------------------------------------------------
(* The document a transaction is the deserialization of, but for the ttl.  *)
Written(value) ==
  CASE "op" \in DOMAIN value /\ value.op = "increment" ->
         [key \in {Op, Delta} |-> IF key = Op THEN String("increment") ELSE Number(value.delta)]
    [] "op" \in DOMAIN value /\ value.op = "set" ->
         [key \in {Op, New} |-> IF key = Op THEN String("set") ELSE value.node]
    [] "op" \notin DOMAIN value /\ value.condition = "equal"     -> [key \in {Old} |-> value.node]
    [] "op" \notin DOMAIN value /\ value.condition = "not_equal" -> [key \in {OldNot} |-> value.node]
    [] "op" \notin DOMAIN value /\ value.condition = "is_empty"  -> [key \in {OldEmpty} |-> Bool(value.inverted)]

(* The same of a slice: no ttl, and a delta in any case.                   *)
Asked(s) ==
  LET members == FromSlice(s).members
  IN  IF Op \in Names(s) /\ members[Op] = String("increment")
        THEN [key \in Names(s) \cup {Delta} |-> IF key \in Names(s) THEN members[key] ELSE Number(0)]
        ELSE Restrict(members, Names(s) \ {Ttl})

Keeps(values, s) ==
  /\ Len(values) = Len(s.fields)
  /\ \A i \in DOMAIN values :
       values[i][1] = s.fields[i].name /\ Written(values[i][2]) = Asked(s.fields[i].slice)

(***************************************************************************)
(* A transaction holds what its request asks for, path by path and in      *)
(* order, and nothing else: every operand reaches the operator or the      *)
(* condition it was sent for.                                              *)
(***************************************************************************)
NothingLost ==
  schema.of = EnvelopeDeserializer /\ IsOk(outcome) =>
    /\ Len(outcome.value) = Len(request.elems)
    /\ \A i \in DOMAIN outcome.value :
         LET transaction == outcome.value[i]
             parts == request.elems[i].elems
         IN  /\ Keeps(transaction.operations, parts[1])
             /\ Keeps(transaction.preconditions, parts[2])
             /\ String(transaction.client_id) = parts[3]

=============================================================================
