---------------------------- MODULE MapContract ----------------------------
(***************************************************************************)
(* What immer/map.hpp promises: maps are values.  set and erase make a new *)
(* map of an old one, which stays as it is, and a call that fails for want *)
(* of memory changes none.                                                 *)
(***************************************************************************)
EXTENDS Functions

CONSTANTS Handles, Keys, ValuesOf

VARIABLE contents   \* of each map: a function from keys to values

Empty == [k \in {} |-> k]

Init == contents = [h \in Handles |-> Empty]

Assign(h, map) == contents' = [contents EXCEPT ![h] = map]

Set(h, k, v) ==
  Assign(h, [key \in DOMAIN contents[h] \cup {k} |-> IF key = k THEN v ELSE contents[h][key]])

Erase(h, k) == Assign(h, Restrict(contents[h], DOMAIN contents[h] \ {k}))

Copy(from, to) == Assign(to, contents[from])

Construct(h) == Assign(h, Empty)

Fail == UNCHANGED contents

=============================================================================
