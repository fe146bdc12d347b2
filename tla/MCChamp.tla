------------------------------ MODULE MCChamp -------------------------------
(***************************************************************************)
(* Instances of ChampMap for TLC: four keys under hash functions that      *)
(* make them differ at the first level, at the second, or not at all.      *)
(***************************************************************************)
EXTENDS ChampMap

CONSTANTS k1, k2, k3, k4

Hash(a, b, c, d) == k1 :> a @@ k2 :> b @@ k3 :> c @@ k4 :> d

(* Only operator== looks at values: two keys with two of them are enough.  *)
SomeValues == k1 :> {1, 2} @@ k2 :> {1, 2} @@ k3 :> {1} @@ k4 :> {1}

SomeHashings == {Hash(0, 0, 0, 4), Hash(0, 0, 4, 1), Hash(0, 4, 1, 5)}

=============================================================================
