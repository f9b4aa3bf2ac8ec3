----------------------------- MODULE MCFetcher -----------------------------
(* Bounds for the model checker. The root and one import are floating      *)
(* specs, whose request URL q* is not their resolved URL; icon is a        *)
(* package without JavaScript, whose package.json names the file sc        *)
(* stands for, too.                                                        *)
EXTENDS Fetcher

CONSTANTS sa, sb, sc, icon, qa, a, b, qc, c, qi, none, failed

MCURLs  == {qa, a, b, qc, c, qi}
MCSpecs == {sa, sb, sc, icon}

MCReqURL == [s \in MCSpecs |-> CASE s = sa -> qa [] s = sb -> b
                                 [] s = sc -> qc [] s = icon -> qi]
MCResolved == [u \in MCURLs |-> CASE u = qa -> a [] u = qc -> c [] OTHER -> u]
MCEntry == [s \in MCSpecs |-> IF s = icon THEN sc ELSE none]

Graph(ofA, ofB) ==
  [u \in MCURLs |-> CASE u = a -> ofA [] u = b -> ofB [] OTHER -> {}]

Diamond  == Graph({sb, sc}, {sc})
Assets   == Graph({sb, icon}, {sc})
Cycle    == Graph({sb, sc}, {sa})

AcyclicGraphs == {Diamond, Assets}
CyclicGraphs  == {Cycle}
AllGraphs     == AcyclicGraphs \union CyclicGraphs
=============================================================================
