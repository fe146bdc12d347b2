----------------------------- MODULE MCNodeTree -----------------------------
(***************************************************************************)
(* Instances of NodeTree for TLC.  FlatPaths are one key deep: the root is *)
(* the container, and "01" is a second spelling of index 1.  NestedPaths   *)
(* are a chain of three containers with a sibling at each level.           *)
(***************************************************************************)
EXTENDS NodeTree

LOCAL a == Name("a")
LOCAL b == Name("b")

FlatPaths == {<<>>, <<a>>, <<Decimal(0)>>, <<Decimal(1)>>, <<Alias("01", 1)>>}

NestedPaths == {<<a>>, <<a, b>>, <<a, Decimal(1)>>, <<a, Decimal(1), b>>}

OneValue == {Number(0)}

NoDocument == EmptyObject

(* An object, an array and a value where the paths go; a key of their own; *)
(* and an overlay that deletes, at the top and below.                      *)
Samples ==
  {Object(a :> Object(b :> NullNode)),
   Object(a :> Array(<<NullNode, Object(b :> NullNode), NullNode>>) @@ b :> NullNode),
   Object(a :> NullNode),
   Object(a :> Object(b :> NullPtr)),
   Object(a :> NullPtr)}

FlatUse   == [paths |-> FlatPaths, others |-> {}, maxNumber |-> 1]
NestedUse == [paths |-> NestedPaths, others |-> Samples, maxNumber |-> 0]

BothUses == {FlatUse, NestedUse}

=============================================================================
