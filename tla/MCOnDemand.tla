----------------------------- MODULE MCOnDemand -----------------------------
(* Bounds for the model checker: react-dom imports react, two releases of  *)
(* which are in the declared range.                                        *)
EXTENDS OnDemand

CONSTANTS react, reactdom, dev, b1, b2, w1, w2, w3

MCSpecs    == {react, reactdom}
MCDeclared == [s \in MCSpecs |-> IF s = react THEN {1, 2} ELSE {1}]
MCLatest   == [s \in MCSpecs |-> IF s = react THEN 2 ELSE 1]
MCNeeds    == [s \in MCSpecs |-> IF s = reactdom THEN {react} ELSE {}]
MCImports  == {<<react, FALSE>>, <<react, TRUE>>, <<reactdom, FALSE>>}
MCHomes    == {[h \in {w1, w2, w3} |-> IF h = w3 THEN b2 ELSE b1],
               [h \in {w1, w2, w3} |-> IF h = w3 THEN b1 ELSE dev]}
MCShipped  == {{}, {<<react, 1>>}}
=============================================================================
