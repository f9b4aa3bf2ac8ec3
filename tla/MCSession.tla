----------------------------- MODULE MCSession -----------------------------
(* Bounds for the model checker: a dev session and a build of one project, *)
(* and two upsets at any of their steps.                                   *)
EXTENDS Session

CONSTANTS dev, build

Both == {dev, build}
OneBuild == {build}
=============================================================================
