---------------------------- MODULE NodeOverlay ----------------------------
(***************************************************************************)
(* node::overlay: a document laid over another one.  An object replaces    *)
(* and deletes members and goes on below those that both have; an array    *)
(* replaces elements as a whole; everything else is replaced.  The caller  *)
(* passes no nullptr: overlay dereferences it.                             *)
(***************************************************************************)
EXTENDS NodeConditions

(* node_array::overlay_impl: nullptr overrides nothing.                    *)
OverlayElements(base, ov) ==
  [i \in 1..(IF Len(base) < Len(ov) THEN Len(ov) ELSE Len(base)) |->
     IF i \in DOMAIN ov /\ ov[i] # NullPtr THEN ov[i]
     ELSE IF i \in DOMAIN base THEN base[i] ELSE NullNode]

(* Mutant: a member that both have is replaced.                            *)
OverlayMembersShallow(below, base, ov) ==
  LET set == {key \in DOMAIN ov : ov[key] # NullPtr}
  IN  [key \in (DOMAIN base \ DOMAIN ov) \cup set |-> IF key \in set THEN ov[key] ELSE base[key]]

(* node_object::overlay_impl: nullptr deletes.  A member the base does not *)
(* have is taken as it is, with any nullptr below it; where both have one, *)
(* below is what becomes of the two.                                       *)
OverlayMembers(below, base, ov) ==
  LET set == {key \in DOMAIN ov : ov[key] # NullPtr}
  IN  [key \in (DOMAIN base \ DOMAIN ov) \cup set |->
         CASE key \notin set -> base[key]
           [] key \in set /\ key \in DOMAIN base /\ base[key] # NullPtr -> below[<<base[key], ov[key]>>]
           [] OTHER -> ov[key]]

(* node_overlay_visitor.                                                   *)
OverlayNode(below, base, ov) ==
  CASE base.kind = "object" /\ ov.kind = "object" ->
         Object(OverlayMembers(below, base.members, ov.members))
    [] base.kind = "array" /\ ov.kind = "array" ->
         Array(OverlayElements(base.elems, ov.elems))
    [] OTHER -> ov

(* overlaid[d] is what becomes of nodes that are less than d levels deep.  *)
Overlay(base, ov) ==
  LET overlaid[d \in 0..(MaxDepth + 1)] ==
        IF d = 0 THEN <<>>
        ELSE [pair \in Descendants(base) \X Descendants(ov) |->
                OverlayNode(overlaid[d - 1], pair[1], pair[2])]
  IN  overlaid[MaxDepth + 1][<<base, ov>>]

=============================================================================
