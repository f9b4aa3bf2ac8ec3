---------------------------- MODULE MCPrebundle ----------------------------
(* Bounds for the model checker: e1 and e2 share m and n, so that the      *)
(* registration of e3, which uses only m, splits their chunk. Two handlers *)
(* race; restarts may come at any instant, and one step may fail.          *)
EXTENDS Prebundle, TLC

CONSTANTS e1, e2, e3, m, n

One == {e1}
Three == {e1, e2, e3}
MCModules == {m, n}
ThreeUses == [e \in Three |-> IF e = e3 THEN {m} ELSE {m, n}]
OneUses == [e \in One |-> ThreeUses[e]]

Handlers == Permutations(Reqs)
HandlersAndTwins == Handlers \union Permutations({e1, e2})
=============================================================================
