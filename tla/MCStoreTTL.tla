---------------------------- MODULE MCStoreTTL ----------------------------
(***************************************************************************)
(* Instances of StoreTTL for TLC.  A document is the set of its keys, and  *)
(* an operation puts keys into it or removes some.                         *)
(***************************************************************************)
EXTENDS StoreTTL

(* The sweeper makes a call for every batch, of which there is one for     *)
(* every set_ttl at most.                                                  *)
Bound(t) == IF t = Sweeper THEN 2 ELSE 1

MCFoldOf(node, conds) == conds \subseteq node
MCTransformOf(node, ops) == (node \cup ops.put) \ ops.removed
MCDefined(node, x) == node # NullRoot
MCRemovalOf(removed) == [put |-> {}, removed |-> removed]

Documents == {{}}
Puts == {Write([put |-> {p}, removed |-> {}]) : p \in Paths}
Sweeps == {Write(MCRemovalOf(P)) : P \in (SUBSET Paths) \ {{}}}
MCCalls == Puts \cup Sweeps
LifeTimes == {1}

=============================================================================
