----------------------------- MODULE MCFutures -----------------------------
(***************************************************************************)
(* Programs for Futures: chains made of the three forms of future::then    *)
(* and of make_future, with their calls spread over three threads, and a   *)
(* program that sets copies of one promise.                                *)
(***************************************************************************)
EXTENDS Futures, FiniteSets

CONSTANTS t1, t2, t3, k1, k2, k3, k4, k5

Nothing == <<>>
Sets(x) == <<SetCall(x)>>
Attaches(x) == <<ThenCall(x)>>

Program(threads, callbacks, ready) ==
  [does |-> [o \in Owners |-> IF o \in Threads THEN threads[o] ELSE callbacks[o]],
   ready |-> ready]

(* k1.then(f).reschedule().then(h), attached by three threads; t1 also     *)
(* sets k1.  Nobody has the future of k5.                                  *)
Pipeline ==
  Program([x \in Threads |-> CASE x = t1 -> Sets(k1) \o Attaches(k3)
                               [] x = t2 -> Attaches(k2)
                               [] x = t3 -> Attaches(k1)],
          [x \in Cells |-> CASE x = k1 -> ThenValue(k2)
                             [] x = k2 -> Reschedule(k3, k5)
                             [] x = k3 -> ThenValue(k4)
                             [] x \in {k4, k5} -> Nothing], {})

(* k1.then(f), where f sets nothing and returns the future of k2: the value *)
(* of k2, which t2 sets, goes to k3.                                       *)
Handover ==
  Program([x \in Threads |-> CASE x = t1 -> Sets(k1)
                               [] x = t2 -> Sets(k2)
                               [] x = t3 -> Attaches(k1) \o Attaches(k3)],
          [x \in Cells |-> CASE x = k1 -> ThenFuture(Nothing, k2)
                             [] x = k2 -> ThenValue(k3)
                             [] x = k3 -> Nothing
                             [] x \in {k4, k5} -> Nothing], {})

(* The future that f returns has its value: f set k2 itself, and k4 comes  *)
(* from make_future.                                                       *)
ReadyMade ==
  Program([x \in Threads |-> CASE x = t1 -> Sets(k1)
                               [] x = t2 -> Attaches(k1)
                               [] x = t3 -> Attaches(k4) \o Attaches(k3)],
          [x \in Cells |-> CASE x = k1 -> ThenFuture(Sets(k2), k2)
                             [] x = k2 -> ThenValue(k3)
                             [] x = k3 -> Nothing
                             [] x \in {k4, k5} -> Nothing], {k4})

(* The promise of k2 is never set: what waits for it is never run.         *)
Broken ==
  Program([x \in Threads |-> CASE x = t1 -> Sets(k1)
                               [] x = t2 -> Attaches(k2)
                               [] x = t3 -> Attaches(k1) \o Attaches(k4)],
          [x \in Cells |-> CASE x = k1 -> ThenValue(k3)
                             [] x = k2 -> ThenValue(k4)
                             [] x = k3 -> Nothing
                             [] x \in {k4, k5} -> Nothing], {})

(* Two threads set copies of the promise of k1.                            *)
Copies ==
  Program([x \in Threads |-> CASE x = t1 -> Sets(k1)
                               [] x = t2 -> Sets(k1)
                               [] x = t3 -> Attaches(k1)],
          [x \in Cells |-> CASE x = k1 -> ThenValue(k2)
                             [] x = k2 -> ThenValue(k3)
                             [] x = k3 -> Nothing
                             [] x \in {k4, k5} -> Nothing], {})

Chains == {Pipeline, Handover, ReadyMade, Broken}
AllPrograms == Chains \cup {Copies}

ASSUME ChainsAreLinear == \A p \in Chains : LinearUse(p)

=============================================================================
