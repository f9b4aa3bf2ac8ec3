------------------------------- MODULE MCHost -------------------------------
(* Bounds for the model checker: dom imports react; other, which imports   *)
(* nothing and is not installed at first, has the sanitized name of dom.   *)
EXTENDS Host

CONSTANTS react, dom, other, nReact, nDom

MCSpecs == {react, dom, other}
MCNames == {nReact, nDom}
MCImports == [s \in MCSpecs |-> IF s = dom THEN {react} ELSE {}]
MCNameOf == [s \in MCSpecs |-> IF s = react THEN nReact ELSE nDom]
MCFamily == {react}
MCElsewhere == {dom}
MCLate == {other}
=============================================================================
