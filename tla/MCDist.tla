------------------------------- MODULE MCDist -------------------------------
(* Bounds for the model checker: version 1 has a stylesheet and a worker,  *)
(* version 2 only the same worker, and each has a chunk of its own. There  *)
(* are two public directories, the first of which is empty, and two upsets *)
(* in two builds that may overlap and are alike.                           *)
EXTENDS Dist, TLC

CONSTANTS b1, b2, js, css, index, c1, c2, worker, icon

MCBuilders == {b1, b2}
MCSymmetry == Permutations(MCBuilders)
MCVersions == {1, 2}
MCHashed == {c1, c2, worker}
MCChunksOf == <<{c1}, {c2}>>
MCWorkersOf == <<{worker}, {worker}>>
MCStyled == {1}
MCPublicFiles == <<{}, {icon}>>
=============================================================================
