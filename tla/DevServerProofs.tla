--------------------------- MODULE DevServerProofs --------------------------
(***************************************************************************)
(* Proofs about the dev server of dev.go, for any number of sessions,      *)
(* files, pages, saves and size of a subscriber's buffer. About Session:   *)
(* the types, what sessions leave behind, and why JavaScript plugins do not *)
(* run. About Updates: the types, why a page that has settled can be stale, *)
(* and that it never goes back to an earlier content otherwise.            *)
(***************************************************************************)
EXTENDS Session, Updates, FiniteSetTheorems, SequenceTheorems, TLAPS

(* Where the sessions of each kind can be, and where the sidecar of one    *)
(* may run and its Close have begun.                                       *)
Phases == \A p \in Sessions :
  /\ p \in Builds =>
       pc[p] \in Loading \union {"loaded", "build", "over", "failed", "exited"}
  /\ pc[p] \in Loading \union {"loaded", "lockfile", "store", "compiler"} =>
       ~vite \/ pc[p] = "start"
  /\ node[p] # "none" => pc[p] = "ready"
  /\ closed[p] # "open" =>
       pc[p] \in {"up", "wait", "closing", "over", "exited"}
  /\ server[p] = "runs" =>
       pc[p] \in {"url", "up", "wait", "closing", "over"}

(* What a session may hold where it is.                                    *)
Holdings == \A p \in Sessions :
  /\ pc[p] \in Loading => holds[p] = {}
  /\ pc[p] \in {"loaded", "lockfile", "store", "failed"} =>
       holds[p] \subseteq {"sidecar"}
  /\ pc[p] = "compiler" => holds[p] \subseteq {"sidecar", "compiler"}
  /\ pc[p] = "url"    => holds[p] \subseteq {"vite"}
  /\ pc[p] = "build"  => holds[p] \subseteq {"sidecar", "vite"}
  /\ pc[p] = "over"   => holds[p] = {}
  /\ pc[p] = "failed" /\ holds[p] # {} => p \notin Builds /\ ~vite
  /\ pc[p] = "exited" => holds[p] \subseteq {"vite"}
  /\ closed[p] = "done" => holds[p] = {} \/ pc[p] = "exited"

(* Somebody is to remove the bundled config, or its program has ended.     *)
FileKept == tmp # "absent" =>
  \E p \in Sessions : \/ pc[p] \in {"bundling", "spawn", "ready", "exited"}
                      \/ "sidecar" \in holds[p]

(* A session that has not got, or will not get, its own bundle read has    *)
(* somebody to blame.                                                      *)
Blamed == \A p \in Sessions :
  /\ pc[p] = "bundling" /\ p \notin opened => blame[p] # {}
  /\ pc[p] = "spawn"     /\ tmp # "whole" => blame[p] # {}
  /\ node[p] = "started" /\ tmp # "whole" => blame[p] # {}
  /\ node[p] = "failed" => blame[p] # {}
  /\ plugins[p] = "lost" => blame[p] # {}

SessionInv == SessionTypeOK /\ Phases /\ Holdings /\ FileKept /\ Blamed

-----------------------------------------------------------------------------
(* Every step keeps the types.                                             *)
LEMMA SessionTypes ==
  ASSUME SessionTypeOK, [SessionNext]_sessionVars
  PROVE  SessionTypeOK'
<1>1. ASSUME NEW p \in Sessions, Start(p) PROVE SessionTypeOK'
  BY <1>1 DEF Start, Goto, config, run, SessionTypeOK, Loading, Preparing,
    Returned, Resources
<1>2. ASSUME NEW p \in Sessions, NoConfig(p) PROVE SessionTypeOK'
  BY <1>2 DEF NoConfig, Goto, run, SessionTypeOK, Loading, Preparing, Returned,
    Resources
<1>3. ASSUME NEW p \in Sessions, Bundle(p) PROVE SessionTypeOK'
  BY <1>3 DEF Bundle, Goto, Disturbs, Victims, run, SessionTypeOK, Loading,
    Preparing, Returned, Resources
<1>4. ASSUME NEW p \in Sessions, WriteBundle(p) PROVE SessionTypeOK'
  BY <1>4 DEF WriteBundle, Goto, run, SessionTypeOK, Loading, Preparing,
    Returned, Resources
<1>5. ASSUME NEW p \in Sessions, Spawn(p) PROVE SessionTypeOK'
  BY <1>5 DEF Spawn, Goto, run, SessionTypeOK, Loading, Preparing, Returned,
    Resources
<1>6. ASSUME NEW p \in Sessions, NodeReads(p) PROVE SessionTypeOK'
  BY <1>6, SessionAssumption DEF NodeReads, Upset, run, SessionTypeOK, Loading,
    Preparing, Returned, Resources
<1>7. ASSUME NEW p \in Sessions, KeepHost(p) PROVE SessionTypeOK'
  BY <1>7 DEF KeepHost, Goto, Acquire, run, SessionTypeOK, Loading, Preparing,
    Returned, Resources
<1>8. ASSUME NEW p \in Sessions, DropHost(p) PROVE SessionTypeOK'
  BY <1>8 DEF DropHost, Goto, RemoveTmp, Disturbs, Victims, run, SessionTypeOK,
    Loading, Preparing, Returned, Resources
<1>9. ASSUME NEW p \in Sessions, HostFails(p) PROVE SessionTypeOK'
  <2>1. upsets' \in 0 .. MaxUpsets
    BY <1>9, SessionAssumption DEF HostFails, Upset, SessionTypeOK
  <2>2. Disturbs(p) \in [Sessions -> SUBSET {"own", "other"}]
    BY DEF Disturbs, SessionTypeOK
  <2>3. blame' \in [Sessions -> SUBSET {"own", "other"}]
    <3>1. \/ blame' = [blame EXCEPT ![p] = @ \union {"own"}]
          \/ blame' = [Disturbs(p) EXCEPT ![p] = @ \union {"own"}]
      BY <1>9 DEF HostFails
    <3>2. QED
      BY <2>2, <3>1 DEF SessionTypeOK
  <2>4. tmp' \in {"absent", "torn", "whole"} /\ opened' \in SUBSET Sessions
    BY <1>9 DEF HostFails, SessionTypeOK
  <2>5. QED
    BY <1>9, <2>1, <2>3, <2>4 DEF HostFails, run, SessionTypeOK, Loading,
      Preparing, Returned
<1>10. ASSUME NEW p \in Sessions, Prepare(p) PROVE SessionTypeOK'
  BY <1>10 DEF Prepare, Goto, Acquire, config, run, SessionTypeOK, Loading,
    Preparing, Returned, Resources
<1>11. ASSUME NEW p \in Sessions, Listen(p) PROVE SessionTypeOK'
  BY <1>11 DEF Listen, Goto, Acquire, config, SessionTypeOK, Loading,
    Preparing, Returned, Resources
<1>12. ASSUME NEW p \in Sessions, DevFails(p) PROVE SessionTypeOK'
  BY <1>12, SessionAssumption DEF DevFails, Upset, Release, config, run,
    SessionTypeOK, Loading, Preparing, Returned, Resources
<1>13. ASSUME NEW p \in Sessions, StartVite(p) PROVE SessionTypeOK'
  BY <1>13 DEF StartVite, Goto, Acquire, config, SessionTypeOK, Loading,
    Preparing, Returned, Resources
<1>14. ASSUME NEW p \in Sessions, ViteFails(p) PROVE SessionTypeOK'
  BY <1>14, SessionAssumption DEF ViteFails, Goto, Upset, config, run,
    SessionTypeOK, Loading, Preparing, Returned, Resources
<1>15. ASSUME NEW p \in Sessions, Url(p) PROVE SessionTypeOK'
  BY <1>15 DEF Url, Goto, config, run, SessionTypeOK, Loading, Preparing,
    Returned, Resources
<1>16. ASSUME NEW p \in Sessions, Build(p) PROVE SessionTypeOK'
  BY <1>16 DEF Build, Goto, Release, RemoveTmp, Disturbs, Victims, run,
    SessionTypeOK, Loading, Preparing, Returned, Resources
<1>17. ASSUME NEW p \in Sessions, ServerClosed(p) PROVE SessionTypeOK'
  BY <1>17 DEF ServerClosed, config, SessionTypeOK, Loading, Preparing,
    Returned, Resources
<1>18. ASSUME NEW p \in Sessions, ServerBreaks(p) PROVE SessionTypeOK'
  BY <1>18, SessionAssumption DEF ServerBreaks, Upset, Release, config,
    SessionTypeOK, Loading, Preparing, Returned, Resources
<1>19. ASSUME NEW p \in Sessions, Wait(p) PROVE SessionTypeOK'
  BY <1>19 DEF Wait, Goto, config, run, SessionTypeOK, Loading, Preparing,
    Returned, Resources
<1>20. ASSUME NEW p \in Sessions, Cancel(p) PROVE SessionTypeOK'
  BY <1>20 DEF Cancel, config, SessionTypeOK, Loading, Preparing, Returned,
    Resources
<1>21. ASSUME NEW p \in Sessions, Wakes(p) PROVE SessionTypeOK'
  BY <1>21 DEF Wakes, Goto, EnterClose, config, SessionTypeOK, Loading,
    Preparing, Returned, Resources
<1>22. ASSUME NEW p \in Sessions, CloseBegins(p) PROVE SessionTypeOK'
  BY <1>22 DEF CloseBegins, EnterClose, config, SessionTypeOK, Loading,
    Preparing, Returned, Resources
<1>23. ASSUME NEW p \in Sessions, CloseStep(p) PROVE SessionTypeOK'
  BY <1>23 DEF CloseStep, Releases, Release, RemoveTmp, Disturbs, Victims,
    SessionTypeOK, Loading, Preparing, Returned, Resources
<1>24. ASSUME NEW p \in Sessions, CloseReturns(p) PROVE SessionTypeOK'
  BY <1>24 DEF CloseReturns, Goto, config, SessionTypeOK, Loading, Preparing,
    Returned, Resources
<1>25. ASSUME NEW p \in Sessions, Exit(p) PROVE SessionTypeOK'
  BY <1>25 DEF Exit, Release, SessionTypeOK, Loading, Preparing, Returned,
    Resources
<1>26. ASSUME UNCHANGED sessionVars PROVE SessionTypeOK'
  BY <1>26 DEF sessionVars, config, run, SessionTypeOK, Loading, Preparing,
    Returned, Resources
<1>27. QED
  BY <1>1, <1>2, <1>3, <1>4, <1>5, <1>6, <1>7, <1>8, <1>9, <1>10, <1>11,
    <1>12, <1>13, <1>14, <1>15, <1>16, <1>17, <1>18, <1>19, <1>20, <1>21,
    <1>22, <1>23, <1>24, <1>25, <1>26 DEF SessionNext, Loads, Goes, Ends

(* Every step keeps to the phases.                                         *)
LEMMA PhasesStep ==
  ASSUME SessionTypeOK, Phases, [SessionNext]_sessionVars
  PROVE  Phases'
<1>1. ASSUME NEW p \in Sessions, Start(p) PROVE Phases'
  BY <1>1 DEF Start, Goto, config, run, SessionTypeOK, Phases, Loading,
    Preparing, Returned, Resources
<1>2. ASSUME NEW p \in Sessions, NoConfig(p) PROVE Phases'
  BY <1>2 DEF NoConfig, Goto, run, SessionTypeOK, Phases, Loading, Preparing,
    Returned, Resources
<1>3. ASSUME NEW p \in Sessions, Bundle(p) PROVE Phases'
  BY <1>3 DEF Bundle, Goto, Disturbs, Victims, run, SessionTypeOK, Phases,
    Loading, Preparing, Returned, Resources
<1>4. ASSUME NEW p \in Sessions, WriteBundle(p) PROVE Phases'
  BY <1>4 DEF WriteBundle, Goto, run, SessionTypeOK, Phases, Loading,
    Preparing, Returned, Resources
<1>5. ASSUME NEW p \in Sessions, Spawn(p) PROVE Phases'
  BY <1>5 DEF Spawn, Goto, run, SessionTypeOK, Phases, Loading, Preparing,
    Returned, Resources
<1>6. ASSUME NEW p \in Sessions, NodeReads(p) PROVE Phases'
  BY <1>6 DEF NodeReads, Upset, run, SessionTypeOK, Phases, Loading, Preparing,
    Returned, Resources
<1>7. ASSUME NEW p \in Sessions, KeepHost(p) PROVE Phases'
  BY <1>7 DEF KeepHost, Goto, Acquire, run, SessionTypeOK, Phases, Loading,
    Preparing, Returned, Resources
<1>8. ASSUME NEW p \in Sessions, DropHost(p) PROVE Phases'
  BY <1>8 DEF DropHost, Goto, RemoveTmp, Disturbs, Victims, run, SessionTypeOK,
    Phases, Loading, Preparing, Returned, Resources
<1>9. ASSUME NEW p \in Sessions, HostFails(p) PROVE Phases'
  BY <1>9 DEF HostFails, Upset, Disturbs, Victims, run, SessionTypeOK, Phases,
    Loading, Preparing, Returned, Resources
<1>10. ASSUME NEW p \in Sessions, Prepare(p) PROVE Phases'
  BY <1>10 DEF Prepare, Goto, Acquire, config, run, SessionTypeOK, Phases,
    Loading, Preparing, Returned, Resources
<1>11. ASSUME NEW p \in Sessions, Listen(p) PROVE Phases'
  BY <1>11 DEF Listen, Goto, Acquire, config, SessionTypeOK, Phases, Loading,
    Preparing, Returned, Resources
<1>12. ASSUME NEW p \in Sessions, DevFails(p) PROVE Phases'
  BY <1>12 DEF DevFails, Upset, Release, config, run, SessionTypeOK, Phases,
    Loading, Preparing, Returned, Resources
<1>13. ASSUME NEW p \in Sessions, StartVite(p) PROVE Phases'
  BY <1>13 DEF StartVite, Goto, Acquire, config, SessionTypeOK, Phases,
    Loading, Preparing, Returned, Resources
<1>14. ASSUME NEW p \in Sessions, ViteFails(p) PROVE Phases'
  BY <1>14 DEF ViteFails, Goto, Upset, config, run, SessionTypeOK, Phases,
    Loading, Preparing, Returned, Resources
<1>15. ASSUME NEW p \in Sessions, Url(p) PROVE Phases'
  BY <1>15 DEF Url, Goto, config, run, SessionTypeOK, Phases, Loading,
    Preparing, Returned, Resources
<1>16. ASSUME NEW p \in Sessions, Build(p) PROVE Phases'
  BY <1>16 DEF Build, Goto, Release, RemoveTmp, Disturbs, Victims, run,
    SessionTypeOK, Phases, Loading, Preparing, Returned, Resources
<1>17. ASSUME NEW p \in Sessions, ServerClosed(p) PROVE Phases'
  BY <1>17 DEF ServerClosed, config, SessionTypeOK, Phases, Loading, Preparing,
    Returned, Resources
<1>18. ASSUME NEW p \in Sessions, ServerBreaks(p) PROVE Phases'
  BY <1>18 DEF ServerBreaks, Upset, Release, config, SessionTypeOK, Phases,
    Loading, Preparing, Returned, Resources
<1>19. ASSUME NEW p \in Sessions, Wait(p) PROVE Phases'
  BY <1>19 DEF Wait, Goto, config, run, SessionTypeOK, Phases, Loading,
    Preparing, Returned, Resources
<1>20. ASSUME NEW p \in Sessions, Cancel(p) PROVE Phases'
  BY <1>20 DEF Cancel, config, SessionTypeOK, Phases, Loading, Preparing,
    Returned, Resources
<1>21. ASSUME NEW p \in Sessions, Wakes(p) PROVE Phases'
  BY <1>21 DEF Wakes, Goto, EnterClose, config, SessionTypeOK, Phases, Loading,
    Preparing, Returned, Resources
<1>22. ASSUME NEW p \in Sessions, CloseBegins(p) PROVE Phases'
  BY <1>22 DEF CloseBegins, EnterClose, config, SessionTypeOK, Phases, Loading,
    Preparing, Returned, Resources
<1>23. ASSUME NEW p \in Sessions, CloseStep(p) PROVE Phases'
  BY <1>23 DEF CloseStep, Releases, Release, RemoveTmp, Disturbs, Victims,
    SessionTypeOK, Phases, Loading, Preparing, Returned, Resources
<1>24. ASSUME NEW p \in Sessions, CloseReturns(p) PROVE Phases'
  BY <1>24 DEF CloseReturns, Goto, config, SessionTypeOK, Phases, Loading,
    Preparing, Returned, Resources
<1>25. ASSUME NEW p \in Sessions, Exit(p) PROVE Phases'
  BY <1>25 DEF Exit, Release, SessionTypeOK, Phases, Loading, Preparing,
    Returned, Resources
<1>26. ASSUME UNCHANGED sessionVars PROVE Phases'
  BY <1>26 DEF sessionVars, config, run, Phases, Loading, Preparing, Returned,
    Resources
<1>27. QED
  BY <1>1, <1>2, <1>3, <1>4, <1>5, <1>6, <1>7, <1>8, <1>9, <1>10, <1>11,
    <1>12, <1>13, <1>14, <1>15, <1>16, <1>17, <1>18, <1>19, <1>20, <1>21,
    <1>22, <1>23, <1>24, <1>25, <1>26 DEF SessionNext, Loads, Goes, Ends

(* Every step keeps to what a session may hold.                            *)
LEMMA HoldingsStep ==
  ASSUME SessionTypeOK, Phases, Holdings, [SessionNext]_sessionVars
  PROVE  Holdings'
<1>1. ASSUME NEW p \in Sessions, Start(p) PROVE Holdings'
  BY <1>1 DEF Start, Goto, config, run, SessionTypeOK, Holdings, Loading,
    Preparing, Returned, Resources
<1>2. ASSUME NEW p \in Sessions, NoConfig(p) PROVE Holdings'
  BY <1>2 DEF NoConfig, Goto, run, SessionTypeOK, Holdings, Loading, Preparing,
    Returned, Resources
<1>3. ASSUME NEW p \in Sessions, Bundle(p) PROVE Holdings'
  BY <1>3 DEF Bundle, Goto, Disturbs, Victims, run, SessionTypeOK, Holdings,
    Loading, Preparing, Returned, Resources
<1>4. ASSUME NEW p \in Sessions, WriteBundle(p) PROVE Holdings'
  BY <1>4 DEF WriteBundle, Goto, run, SessionTypeOK, Holdings, Loading,
    Preparing, Returned, Resources
<1>5. ASSUME NEW p \in Sessions, Spawn(p) PROVE Holdings'
  BY <1>5 DEF Spawn, Goto, run, SessionTypeOK, Holdings, Loading, Preparing,
    Returned, Resources
<1>6. ASSUME NEW p \in Sessions, NodeReads(p) PROVE Holdings'
  BY <1>6 DEF NodeReads, Upset, run, SessionTypeOK, Holdings, Loading,
    Preparing, Returned, Resources
<1>7. ASSUME NEW p \in Sessions, KeepHost(p) PROVE Holdings'
  BY <1>7 DEF KeepHost, Goto, Acquire, run, SessionTypeOK, Phases, Holdings,
    Loading, Preparing, Returned, Resources
<1>8. ASSUME NEW p \in Sessions, DropHost(p) PROVE Holdings'
  BY <1>8 DEF DropHost, Goto, RemoveTmp, Disturbs, Victims, run, SessionTypeOK,
    Holdings, Loading, Preparing, Returned, Resources
<1>9. ASSUME NEW p \in Sessions, HostFails(p) PROVE Holdings'
  BY <1>9 DEF HostFails, Upset, Disturbs, Victims, run, SessionTypeOK,
    Holdings, Loading, Preparing, Returned, Resources
<1>10. ASSUME NEW p \in Sessions, Prepare(p) PROVE Holdings'
  BY <1>10 DEF Prepare, Goto, Acquire, config, run, SessionTypeOK, Phases,
    Holdings, Loading, Preparing, Returned, Resources
<1>11. ASSUME NEW p \in Sessions, Listen(p) PROVE Holdings'
  BY <1>11 DEF Listen, Goto, Acquire, config, SessionTypeOK, Phases, Holdings,
    Loading, Preparing, Returned, Resources
<1>12. ASSUME NEW p \in Sessions, DevFails(p) PROVE Holdings'
  BY <1>12 DEF DevFails, Upset, Release, config, run, SessionTypeOK, Phases,
    Holdings, Loading, Preparing, Returned, Resources
<1>13. ASSUME NEW p \in Sessions, StartVite(p) PROVE Holdings'
  BY <1>13 DEF StartVite, Goto, Acquire, config, SessionTypeOK, Phases,
    Holdings, Loading, Preparing, Returned, Resources
<1>14. ASSUME NEW p \in Sessions, ViteFails(p) PROVE Holdings'
  BY <1>14 DEF ViteFails, Goto, Upset, config, run, SessionTypeOK, Holdings,
    Loading, Preparing, Returned, Resources
<1>15. ASSUME NEW p \in Sessions, Url(p) PROVE Holdings'
  BY <1>15 DEF Url, Goto, config, run, SessionTypeOK, Holdings, Loading,
    Preparing, Returned, Resources
<1>16. ASSUME NEW p \in Sessions, Build(p) PROVE Holdings'
  BY <1>16 DEF Build, Goto, Release, RemoveTmp, Disturbs, Victims, run,
    SessionTypeOK, Holdings, Loading, Preparing, Returned, Resources
<1>17. ASSUME NEW p \in Sessions, ServerClosed(p) PROVE Holdings'
  BY <1>17 DEF ServerClosed, config, SessionTypeOK, Holdings, Loading,
    Preparing, Returned, Resources
<1>18. ASSUME NEW p \in Sessions, ServerBreaks(p) PROVE Holdings'
  BY <1>18 DEF ServerBreaks, Upset, Release, config, SessionTypeOK, Holdings,
    Loading, Preparing, Returned, Resources
<1>19. ASSUME NEW p \in Sessions, Wait(p) PROVE Holdings'
  BY <1>19 DEF Wait, Goto, config, run, SessionTypeOK, Holdings, Loading,
    Preparing, Returned, Resources
<1>20. ASSUME NEW p \in Sessions, Cancel(p) PROVE Holdings'
  BY <1>20 DEF Cancel, config, SessionTypeOK, Holdings, Loading, Preparing,
    Returned, Resources
<1>21. ASSUME NEW p \in Sessions, Wakes(p) PROVE Holdings'
  BY <1>21 DEF Wakes, Goto, EnterClose, config, SessionTypeOK, Holdings,
    Loading, Preparing, Returned, Resources
<1>22. ASSUME NEW p \in Sessions, CloseBegins(p) PROVE Holdings'
  BY <1>22 DEF CloseBegins, EnterClose, config, SessionTypeOK, Holdings,
    Loading, Preparing, Returned, Resources
<1>23. ASSUME NEW p \in Sessions, CloseStep(p) PROVE Holdings'
  <2>1. pc' = pc /\ \A q \in Sessions : holds'[q] \subseteq holds[q]
    BY <1>23 DEF CloseStep, Releases, Release, SessionTypeOK
  <2>2. ASSUME NEW q \in Sessions, closed'[q] = "done", closed[q] # "done"
        PROVE  holds'[q] = {}
    <3>1. \A i \in DOMAIN Steps : Steps[i] \notin holds[q]
      BY <1>23, <2>2 DEF CloseStep, Releases, SessionTypeOK
    <3>2. \A r \in Resources : \E i \in DOMAIN Steps : Steps[i] = r
      BY DEF Resources, Steps
    <3>3. holds[q] \subseteq Resources
      BY DEF SessionTypeOK
    <3>4. QED
      BY <2>1, <3>1, <3>2, <3>3
  <2>3. vite' = vite
    BY <1>23 DEF CloseStep
  <2>4. QED
    BY <2>1, <2>2, <2>3 DEF Holdings, Loading
<1>24. ASSUME NEW p \in Sessions, CloseReturns(p) PROVE Holdings'
  BY <1>24 DEF CloseReturns, Goto, config, SessionTypeOK, Holdings, Loading,
    Preparing, Returned, Resources
<1>25. ASSUME NEW p \in Sessions, Exit(p) PROVE Holdings'
  BY <1>25 DEF Exit, Release, SessionTypeOK, Holdings, Loading, Preparing,
    Returned, Resources
<1>26. ASSUME UNCHANGED sessionVars PROVE Holdings'
  BY <1>26 DEF sessionVars, config, run, Holdings, Loading, Preparing,
    Returned, Resources
<1>27. QED
  BY <1>1, <1>2, <1>3, <1>4, <1>5, <1>6, <1>7, <1>8, <1>9, <1>10, <1>11,
    <1>12, <1>13, <1>14, <1>15, <1>16, <1>17, <1>18, <1>19, <1>20, <1>21,
    <1>22, <1>23, <1>24, <1>25, <1>26 DEF SessionNext, Loads, Goes, Ends

(* Every step that takes the last keeper of the file away removes it.      *)
LEMMA FileStep ==
  ASSUME SessionTypeOK, Phases, FileKept, [SessionNext]_sessionVars
  PROVE  FileKept'
<1>1. ASSUME NEW p \in Sessions, Start(p) PROVE FileKept'
  BY <1>1 DEF Start, Goto, config, run, SessionTypeOK, FileKept, Loading
<1>2. ASSUME NEW p \in Sessions, NoConfig(p) PROVE FileKept'
  BY <1>2 DEF NoConfig, Goto, run, SessionTypeOK, FileKept, Loading
<1>3. ASSUME NEW p \in Sessions, Bundle(p) PROVE FileKept'
  BY <1>3 DEF Bundle, Goto, Disturbs, Victims, run, SessionTypeOK, FileKept,
    Loading
<1>4. ASSUME NEW p \in Sessions, WriteBundle(p) PROVE FileKept'
  BY <1>4 DEF WriteBundle, Goto, run, SessionTypeOK, FileKept, Loading
<1>5. ASSUME NEW p \in Sessions, Spawn(p) PROVE FileKept'
  BY <1>5 DEF Spawn, Goto, run, SessionTypeOK, FileKept, Loading
<1>6. ASSUME NEW p \in Sessions, NodeReads(p) PROVE FileKept'
  BY <1>6 DEF NodeReads, Upset, run, SessionTypeOK, FileKept, Loading
<1>7. ASSUME NEW p \in Sessions, KeepHost(p) PROVE FileKept'
  BY <1>7 DEF KeepHost, Goto, Acquire, run, SessionTypeOK, FileKept, Loading
<1>8. ASSUME NEW p \in Sessions, DropHost(p) PROVE FileKept'
  BY <1>8 DEF DropHost, Goto, RemoveTmp, Disturbs, Victims, run, SessionTypeOK,
    FileKept, Loading
<1>9. ASSUME NEW p \in Sessions, HostFails(p) PROVE FileKept'
  BY <1>9 DEF HostFails, Upset, Disturbs, Victims, run, SessionTypeOK,
    FileKept, Loading
<1>10. ASSUME NEW p \in Sessions, Prepare(p) PROVE FileKept'
  BY <1>10 DEF Prepare, Goto, Acquire, config, run, SessionTypeOK, FileKept,
    Loading
<1>11. ASSUME NEW p \in Sessions, Listen(p) PROVE FileKept'
  BY <1>11 DEF Listen, Goto, Acquire, config, SessionTypeOK, FileKept, Loading
<1>12. ASSUME NEW p \in Sessions, DevFails(p) PROVE FileKept'
  BY <1>12 DEF DevFails, Upset, Release, config, run, SessionTypeOK, FileKept,
    Loading
<1>13. ASSUME NEW p \in Sessions, StartVite(p) PROVE FileKept'
  BY <1>13 DEF StartVite, Goto, Acquire, config, SessionTypeOK, FileKept,
    Loading
<1>14. ASSUME NEW p \in Sessions, ViteFails(p) PROVE FileKept'
  BY <1>14 DEF ViteFails, Goto, Upset, config, run, SessionTypeOK, FileKept,
    Loading
<1>15. ASSUME NEW p \in Sessions, Url(p) PROVE FileKept'
  BY <1>15 DEF Url, Goto, config, run, SessionTypeOK, FileKept, Loading
<1>16. ASSUME NEW p \in Sessions, Build(p) PROVE FileKept'
  BY <1>16 DEF Build, Goto, Release, RemoveTmp, Disturbs, Victims, run,
    SessionTypeOK, FileKept, Loading
<1>17. ASSUME NEW p \in Sessions, ServerClosed(p) PROVE FileKept'
  BY <1>17 DEF ServerClosed, config, SessionTypeOK, FileKept, Loading
<1>18. ASSUME NEW p \in Sessions, ServerBreaks(p) PROVE FileKept'
  BY <1>18 DEF ServerBreaks, Upset, Release, config, SessionTypeOK, FileKept,
    Loading
<1>19. ASSUME NEW p \in Sessions, Wait(p) PROVE FileKept'
  BY <1>19 DEF Wait, Goto, config, run, SessionTypeOK, FileKept, Loading
<1>20. ASSUME NEW p \in Sessions, Cancel(p) PROVE FileKept'
  BY <1>20 DEF Cancel, config, SessionTypeOK, FileKept, Loading
<1>21. ASSUME NEW p \in Sessions, Wakes(p) PROVE FileKept'
  BY <1>21 DEF Wakes, Goto, EnterClose, config, SessionTypeOK, FileKept,
    Loading
<1>22. ASSUME NEW p \in Sessions, CloseBegins(p) PROVE FileKept'
  BY <1>22 DEF CloseBegins, EnterClose, config, SessionTypeOK, FileKept,
    Loading
<1>23. ASSUME NEW p \in Sessions, CloseStep(p) PROVE FileKept'
  BY <1>23 DEF CloseStep, Releases, Release, RemoveTmp, Disturbs, Victims,
    SessionTypeOK, FileKept, Loading
<1>24. ASSUME NEW p \in Sessions, CloseReturns(p) PROVE FileKept'
  BY <1>24 DEF CloseReturns, Goto, config, SessionTypeOK, FileKept, Loading
<1>25. ASSUME NEW p \in Sessions, Exit(p) PROVE FileKept'
  BY <1>25 DEF Exit, Release, SessionTypeOK, FileKept, Loading
<1>26. ASSUME UNCHANGED sessionVars PROVE FileKept'
  BY <1>26 DEF sessionVars, config, run, FileKept, Loading
<1>27. QED
  BY <1>1, <1>2, <1>3, <1>4, <1>5, <1>6, <1>7, <1>8, <1>9, <1>10, <1>11,
    <1>12, <1>13, <1>14, <1>15, <1>16, <1>17, <1>18, <1>19, <1>20, <1>21,
    <1>22, <1>23, <1>24, <1>25, <1>26 DEF SessionNext, Loads, Goes, Ends

(* Whoever spoils the file of another session is to blame.                 *)
LEMMA BlameStep ==
  ASSUME SessionTypeOK, Phases, Blamed, [SessionNext]_sessionVars
  PROVE  Blamed'
<1>1. ASSUME NEW p \in Sessions, Start(p) PROVE Blamed'
  BY <1>1 DEF Start, Goto, config, run, SessionTypeOK, Blamed, Loading
<1>2. ASSUME NEW p \in Sessions, NoConfig(p) PROVE Blamed'
  BY <1>2 DEF NoConfig, Goto, run, SessionTypeOK, Blamed, Loading
<1>3. ASSUME NEW p \in Sessions, Bundle(p) PROVE Blamed'
  BY <1>3 DEF Bundle, Goto, Disturbs, Victims, run, SessionTypeOK, Phases,
    Blamed, Loading
<1>4. ASSUME NEW p \in Sessions, WriteBundle(p) PROVE Blamed'
  BY <1>4 DEF WriteBundle, Goto, run, SessionTypeOK, Blamed, Loading
<1>5. ASSUME NEW p \in Sessions, Spawn(p) PROVE Blamed'
  BY <1>5 DEF Spawn, Goto, run, SessionTypeOK, Blamed, Loading
<1>6. ASSUME NEW p \in Sessions, NodeReads(p) PROVE Blamed'
  BY <1>6, SessionAssumption DEF NodeReads, Upset, run, SessionTypeOK, Phases,
    Blamed, Loading
<1>7. ASSUME NEW p \in Sessions, KeepHost(p) PROVE Blamed'
  BY <1>7 DEF KeepHost, Goto, Acquire, run, SessionTypeOK, Blamed, Loading
<1>8. ASSUME NEW p \in Sessions, DropHost(p) PROVE Blamed'
  BY <1>8 DEF DropHost, Goto, RemoveTmp, Disturbs, Victims, run, SessionTypeOK,
    Blamed, Loading
<1>9. ASSUME NEW p \in Sessions, HostFails(p) PROVE Blamed'
  <2>1. /\ plugins' = [plugins EXCEPT ![p] = "lost"] /\ node' = node
        /\ pc' = [pc EXCEPT ![p] = "loaded"]
    BY <1>9 DEF HostFails
  <2>2. node[p] = "none"
    BY <1>9 DEF HostFails, Phases
  <2>3. CASE pc[p] = "bundle"
    <3>1. /\ blame' = [blame EXCEPT ![p] = @ \union {"own"}]
          /\ tmp' = tmp /\ opened' = opened
      BY <1>9, <2>3 DEF HostFails
    <3>2. blame'[p] # {} /\ \A q \in Sessions \ {p} : blame'[q] = blame[q]
      BY <3>1 DEF SessionTypeOK
    <3>3. QED
      BY <2>1, <2>2, <3>1, <3>2 DEF SessionTypeOK, Blamed
  <2>4. CASE pc[p] = "spawn"
    <3>1. blame' = [Disturbs(p) EXCEPT ![p] = @ \union {"own"}]
      BY <1>9, <2>4 DEF HostFails
    <3>2. blame'[p] # {} /\ \A q \in Sessions \ {p} :
            blame'[q] = blame[q] \union (IF q \in Victims(p) THEN {"other"}
                                                             ELSE {})
      BY <3>1 DEF Disturbs
    <3>3. \A q \in Sessions \ {p} : /\ blame[q] # {} => blame'[q] # {}
                                    /\ q \in Victims(p) => blame'[q] # {}
      BY <3>2
    <3>4. \A q \in Sessions \ {p} :
            pc'[q] \in {"bundling", "spawn"} \/ node'[q] = "started"
              => blame'[q] # {}
      BY <2>1, <3>3 DEF Victims, SessionTypeOK
    <3>5. QED
      BY <2>1, <3>2, <3>3, <3>4 DEF SessionTypeOK, Blamed
  <2>5. QED
    BY <1>9, <2>3, <2>4 DEF HostFails
<1>10. ASSUME NEW p \in Sessions, Prepare(p) PROVE Blamed'
  BY <1>10 DEF Prepare, Goto, Acquire, config, run, SessionTypeOK, Blamed,
    Loading
<1>11. ASSUME NEW p \in Sessions, Listen(p) PROVE Blamed'
  BY <1>11 DEF Listen, Goto, Acquire, config, SessionTypeOK, Blamed, Loading
<1>12. ASSUME NEW p \in Sessions, DevFails(p) PROVE Blamed'
  BY <1>12 DEF DevFails, Upset, Release, config, run, SessionTypeOK, Blamed,
    Loading
<1>13. ASSUME NEW p \in Sessions, StartVite(p) PROVE Blamed'
  BY <1>13 DEF StartVite, Goto, Acquire, config, SessionTypeOK, Blamed, Loading
<1>14. ASSUME NEW p \in Sessions, ViteFails(p) PROVE Blamed'
  BY <1>14 DEF ViteFails, Goto, Upset, config, run, SessionTypeOK, Blamed,
    Loading
<1>15. ASSUME NEW p \in Sessions, Url(p) PROVE Blamed'
  BY <1>15 DEF Url, Goto, config, run, SessionTypeOK, Blamed, Loading
<1>16. ASSUME NEW p \in Sessions, Build(p) PROVE Blamed'
  <2>1. CASE tmp' = tmp /\ opened' = opened /\ blame' = blame
    BY <1>16, <2>1 DEF Build, Goto, SessionTypeOK, Phases, Blamed
  <2>2. CASE RemoveTmp(p)
    <3>1. pc[p] \notin {"bundling", "spawn"} /\ node[p] = "none"
      BY <1>16 DEF Build, Goto, Phases
    <3>2. \A q \in Sessions : /\ blame[q] \subseteq blame'[q]
                              /\ q \in Victims(p) => blame'[q] # {}
      BY <2>2 DEF RemoveTmp, Disturbs, SessionTypeOK
    <3>3. /\ node' = node /\ plugins' = plugins
          /\ \A q \in Sessions \ {p} : pc'[q] = pc[q]
          /\ pc'[p] \notin {"bundling", "spawn"}
      BY <1>16, <3>1 DEF Build, Goto, SessionTypeOK
    <3>4. \A q \in Sessions :
            pc'[q] \in {"bundling", "spawn"} \/ node'[q] = "started"
              => blame'[q] # {}
      BY <3>1, <3>2, <3>3 DEF Victims
    <3>5. QED
      BY <3>2, <3>3, <3>4 DEF Blamed
  <2>3. QED
    BY <1>16, <2>1, <2>2 DEF Build
<1>17. ASSUME NEW p \in Sessions, ServerClosed(p) PROVE Blamed'
  BY <1>17 DEF ServerClosed, config, SessionTypeOK, Blamed, Loading
<1>18. ASSUME NEW p \in Sessions, ServerBreaks(p) PROVE Blamed'
  BY <1>18 DEF ServerBreaks, Upset, Release, config, SessionTypeOK, Blamed,
    Loading
<1>19. ASSUME NEW p \in Sessions, Wait(p) PROVE Blamed'
  BY <1>19 DEF Wait, Goto, config, run, SessionTypeOK, Blamed, Loading
<1>20. ASSUME NEW p \in Sessions, Cancel(p) PROVE Blamed'
  BY <1>20 DEF Cancel, config, SessionTypeOK, Blamed, Loading
<1>21. ASSUME NEW p \in Sessions, Wakes(p) PROVE Blamed'
  BY <1>21 DEF Wakes, Goto, EnterClose, config, SessionTypeOK, Blamed, Loading
<1>22. ASSUME NEW p \in Sessions, CloseBegins(p) PROVE Blamed'
  BY <1>22 DEF CloseBegins, EnterClose, config, SessionTypeOK, Blamed, Loading
<1>23. ASSUME NEW p \in Sessions, CloseStep(p) PROVE Blamed'
  <2>1. CASE tmp' = tmp /\ opened' = opened /\ blame' = blame
    BY <1>23, <2>1 DEF CloseStep, SessionTypeOK, Phases, Blamed
  <2>2. CASE RemoveTmp(p)
    <3>1. pc[p] \notin {"bundling", "spawn"} /\ node[p] = "none"
      BY <1>23 DEF CloseStep, Phases
    <3>2. \A q \in Sessions : /\ blame[q] \subseteq blame'[q]
                              /\ q \in Victims(p) => blame'[q] # {}
      BY <2>2 DEF RemoveTmp, Disturbs, SessionTypeOK
    <3>3. /\ node' = node /\ plugins' = plugins
          /\ \A q \in Sessions \ {p} : pc'[q] = pc[q]
          /\ pc'[p] \notin {"bundling", "spawn"}
      BY <1>23, <3>1 DEF CloseStep, SessionTypeOK
    <3>4. \A q \in Sessions :
            pc'[q] \in {"bundling", "spawn"} \/ node'[q] = "started"
              => blame'[q] # {}
      BY <3>1, <3>2, <3>3 DEF Victims
    <3>5. QED
      BY <3>2, <3>3, <3>4 DEF Blamed
  <2>3. QED
    BY <1>23, <2>1, <2>2 DEF CloseStep, Releases
<1>24. ASSUME NEW p \in Sessions, CloseReturns(p) PROVE Blamed'
  BY <1>24 DEF CloseReturns, Goto, config, SessionTypeOK, Blamed, Loading
<1>25. ASSUME NEW p \in Sessions, Exit(p) PROVE Blamed'
  BY <1>25 DEF Exit, Release, SessionTypeOK, Blamed, Loading
<1>26. ASSUME UNCHANGED sessionVars PROVE Blamed'
  BY <1>26 DEF sessionVars, config, run, Blamed, Loading
<1>27. QED
  BY <1>1, <1>2, <1>3, <1>4, <1>5, <1>6, <1>7, <1>8, <1>9, <1>10, <1>11,
    <1>12, <1>13, <1>14, <1>15, <1>16, <1>17, <1>18, <1>19, <1>20, <1>21,
    <1>22, <1>23, <1>24, <1>25, <1>26 DEF SessionNext, Loads, Goes, Ends

-----------------------------------------------------------------------------
(* The invariant holds before any session has begun.                       *)
LEMMA SessionInitially == SessionInit => SessionInv
<1>1. SUFFICES ASSUME SessionInit PROVE SessionInv
  OBVIOUS
<1>2. SessionTypeOK
  BY <1>1, SessionAssumption DEF SessionInit, SessionTypeOK, Loading
<1>3. Phases
  BY <1>1 DEF SessionInit, Phases, Loading
<1>4. Holdings
  BY <1>1 DEF SessionInit, Holdings
<1>5. FileKept /\ Blamed
  BY <1>1 DEF SessionInit, FileKept, Blamed
<1>6. QED
  BY <1>2, <1>3, <1>4, <1>5 DEF SessionInv

(* Every step keeps it.                                                    *)
LEMMA SessionInductive ==
  SessionInv /\ [SessionNext]_sessionVars => SessionInv'
<1>1. SUFFICES ASSUME SessionInv, [SessionNext]_sessionVars PROVE SessionInv'
  OBVIOUS
<1>2. SessionTypeOK' /\ Phases'
  BY <1>1, SessionTypes, PhasesStep DEF SessionInv
<1>3. Holdings' /\ FileKept' /\ Blamed'
  BY <1>1, HoldingsStep, FileStep, BlameStep DEF SessionInv
<1>4. QED
  BY <1>2, <1>3 DEF SessionInv

(* Sessions keep the invariant for as long as they run.                    *)
THEOREM SessionInvariance == SessionSpec => []SessionInv
BY SessionInitially, SessionInductive, PTL DEF SessionSpec

(* The variables keep their types, whichever steps fail, and however the   *)
(* sessions end.                                                           *)
THEOREM SessionTypeCorrect == SessionSpec => []SessionTypeOK
<1>1. SessionInv => SessionTypeOK
  BY DEF SessionInv
<1>2. QED
  BY <1>1, SessionInvariance, PTL

(* A session that is over, has failed or whose program has ended leaves    *)
(* behind nothing but what LeaksExplained allows it (dev.go, build.go,     *)
(* jsplugin.go), however the sessions of a project overlap.                *)
THEOREM Leaks == SessionSpec => []LeaksExplained
<1>1. SessionInv => LeaksExplained
  <2>1. SUFFICES ASSUME SessionInv PROVE LeaksExplained
    OBVIOUS
  <2>2. \A p \in Sessions : pc[p] = "over" => node[p] = "none"
    BY <2>1 DEF SessionInv, Phases
  <2>3. QED
    BY <2>1, <2>2 DEF SessionInv, Holdings, FileKept, LeaksExplained
<1>2. QED
  BY <1>1, SessionInvariance, PTL

(* The JavaScript plugins of a config that Node can evaluate run, unless   *)
(* another session has spoilt the bundled file that they share.            *)
THEOREM Plugins == SessionSpec => []PluginsExplained
<1>1. SessionInv => PluginsExplained
  BY DEF SessionInv, Blamed, PluginsExplained
<1>2. QED
  BY <1>1, SessionInvariance, PTL

(***************************************************************************)
(* Updates.                                                                *)
(***************************************************************************)

Elements(s) == {s[i] : i \in DOMAIN s}

(* Something is still to come for file f of page p, or p has missed it.    *)
OnItsWay(p, f) ==
  \/ f \in excused[p]
  \/ f \in torn
  \/ \E e \in Elements(events) : e[1] = f
  \/ f \in Elements(buffer[p])

(* No more saves are made than MaxSaves: what bounds a content.            *)
Spent == \A f \in Files :
  content[f] + saves + (IF f \in torn THEN 1 ELSE 0) <= MaxSaves

(* What page p runs of f is current, or will be replaced; so will what     *)
(* arrives. A re-import is for a module that runs, brings what is not      *)
(* older, and is the only one of its file unless the file is excused.      *)
ShownOK(p, f) ==
  /\ \/ shown[p][f] \in {content[f], Absent}
     \/ OnItsWay(p, f) \/ Imports(p, f) # {}
  /\ shown[p][f] \in Nat => shown[p][f] <= content[f]

ImportOK(p, f, i) ==
  /\ shown[p][f] # Absent
  /\ i[3] \in {None, content[f]} \/ OnItsWay(p, f)
  /\ i[3] \in Nat => i[3] <= content[f]
  /\ f \notin excused[p] =>
       /\ i[3] \in Nat /\ shown[p][f] \in Nat => shown[p][f] <= i[3]
       /\ \A j \in Imports(p, f) : j = i

FileOK(p, f) ==
  ShownOK(p, f) /\ \A i \in Imports(p, f) : ImportOK(p, f, i)

PagesOK == \A p \in Pages, f \in Files : FileOK(p, f)

IInv == TypeOK /\ Spent /\ PagesOK

-----------------------------------------------------------------------------
LEMMA Apart ==
  /\ Absent # Torn /\ Absent # None /\ Torn # None
  /\ Absent \notin Nat /\ Torn \notin Nat /\ None \notin Nat
<1>1. \A x, y : Cardinality({x, y}) <= 2
  <2>1. SUFFICES ASSUME NEW x, NEW y PROVE Cardinality({x, y}) <= 2
    OBVIOUS
  <2>2. IsFiniteSet({x}) /\ Cardinality({x}) = 1
    BY FS_Singleton
  <2>3. Cardinality({x} \union {y}) \in {1, 2}
    BY <2>2, FS_AddElement
  <2>4. {x} \union {y} = {x, y}
    OBVIOUS
  <2>5. QED
    BY <2>3, <2>4
<1>2. Cardinality({Absent, Torn, None}) = 3
  BY UpdatesAssumption
<1>3. ~(3 <= 2)
  OBVIOUS
<1>4. Absent # Torn
  <2>1. SUFFICES ASSUME Absent = Torn PROVE FALSE
    OBVIOUS
  <2>2. {Absent, Torn, None} = {Absent, None}
    BY <2>1
  <2>3. QED
    BY <1>1, <1>2, <1>3, <2>2
<1>5. Absent # None
  <2>1. SUFFICES ASSUME Absent = None PROVE FALSE
    OBVIOUS
  <2>2. {Absent, Torn, None} = {Absent, Torn}
    BY <2>1
  <2>3. QED
    BY <1>1, <1>2, <1>3, <2>2
<1>6. Torn # None
  <2>1. SUFFICES ASSUME Torn = None PROVE FALSE
    OBVIOUS
  <2>2. {Absent, Torn, None} = {Absent, Torn}
    BY <2>1
  <2>3. QED
    BY <1>1, <1>2, <1>3, <2>2
<1>7. QED
  BY <1>4, <1>5, <1>6, UpdatesAssumption

(* What is in a sequence after an addition, and after a removal.           *)
LEMMA Appending ==
  ASSUME NEW S, NEW s \in Seq(S), NEW e \in S
  PROVE  /\ Append(s, e) \in Seq(S) /\ Len(Append(s, e)) = Len(s) + 1
         /\ Elements(Append(s, e)) = Elements(s) \union {e}
<1>1. /\ Append(s, e) \in Seq(S) /\ Len(Append(s, e)) = Len(s) + 1
      /\ \A i \in 1 .. Len(s) : Append(s, e)[i] = s[i]
      /\ Append(s, e)[Len(s) + 1] = e
  OBVIOUS
<1>2. DOMAIN s = 1 .. Len(s) /\ Len(s) \in Nat
      /\ DOMAIN Append(s, e) = 1 .. Len(s) + 1
  BY <1>1
<1>3. \A i \in DOMAIN Append(s, e) : i \in DOMAIN s \/ i = Len(s) + 1
  BY <1>2
<1>4. DOMAIN s \subseteq DOMAIN Append(s, e)
      /\ Len(s) + 1 \in DOMAIN Append(s, e)
  BY <1>2
<1>5. QED
  BY <1>1, <1>2, <1>3, <1>4 DEF Elements

LEMMA Removing ==
  ASSUME NEW S, NEW s \in Seq(S), s # <<>>
  PROVE  /\ Tail(s) \in Seq(S) /\ Head(s) \in S /\ Len(Tail(s)) <= Len(s)
         /\ Elements(s) = Elements(Tail(s)) \union {Head(s)}
<1>1. /\ Tail(s) \in Seq(S) /\ Head(s) \in S /\ Head(s) = s[1]
      /\ Len(s) \in Nat /\ Len(s) >= 1 /\ Len(Tail(s)) = Len(s) - 1
      /\ \A i \in 1 .. Len(s) - 1 : Tail(s)[i] = s[i + 1]
  OBVIOUS
<1>2. DOMAIN s = 1 .. Len(s) /\ DOMAIN Tail(s) = 1 .. Len(s) - 1
  BY <1>1
<1>3. ASSUME NEW i \in DOMAIN s PROVE s[i] \in Elements(Tail(s)) \union {s[1]}
  <2>1. CASE i = 1
    BY <2>1
  <2>2. CASE i # 1
    <3>1. i - 1 \in DOMAIN Tail(s) /\ Tail(s)[i - 1] = s[i]
      BY <1>1, <1>2, <2>2
    <3>2. QED
      BY <3>1 DEF Elements
  <2>3. QED
    BY <2>1, <2>2
<1>4. ASSUME NEW i \in DOMAIN Tail(s) PROVE Tail(s)[i] \in Elements(s)
  <2>1. i + 1 \in DOMAIN s /\ Tail(s)[i] = s[i + 1]
    BY <1>1, <1>2
  <2>2. QED
    BY <2>1 DEF Elements
<1>5. s[1] \in Elements(s)
  BY <1>1, <1>2 DEF Elements
<1>6. QED
  BY <1>1, <1>3, <1>4, <1>5 DEF Elements

LEMMA Nothing == Elements(<<>>) = {} /\ Len(<<>>) = 0
BY DEF Elements

-----------------------------------------------------------------------------
(* Types. *)
LEMMA Bounds ==
  /\ MaxSaves \in Nat /\ MaxDrops \in Nat /\ MaxImports \in Nat
  /\ Capacity \in Nat \ {0} /\ Contents \subseteq Nat
BY UpdatesAssumption DEF Contents

LEMMA SavedTyped ==
  ASSUME TypeOK, NEW f \in Files, content[f] < MaxSaves, Saved(f)
  PROVE  /\ content' \in [Files -> Contents]
         /\ excused' \in [Pages -> SUBSET Files]
         /\ content'[f] = content[f] + 1
         /\ \A g \in Files \ {f} : content'[g] = content[g]
<1>1. content[f] \in Nat /\ content[f] + 1 \in Contents
  BY Bounds DEF TypeOK, Contents
<1>2. QED
  BY <1>1 DEF TypeOK, Saved

LEMMA ReloadTyped ==
  ASSUME TypeOK, NEW p \in Pages, Reload(p)
  PROVE  /\ clients' \subseteq Pages
         /\ buffer' \in [Pages -> Seq(Files)]
         /\ \A q \in Pages : Len(buffer'[q]) <= Capacity
         /\ shown' \in [Pages -> [Files -> Contents \union {Torn, Absent}]]
         /\ importing' \in [Pages -> SUBSET (Files \X Slots \X Arrivals)]
         /\ excused' \in [Pages -> SUBSET Files]
<1>1. <<>> \in Seq(Files) /\ Len(<<>>) <= Capacity
  BY Bounds
<1>2. [f \in Files |-> Absent] \in [Files -> Contents \union {Torn, Absent}]
  OBVIOUS
<1>3. QED
  BY <1>1, <1>2 DEF TypeOK, Reload

LEMMA CurrentTyped ==
  ASSUME TypeOK, NEW f \in Files
  PROVE  Current(f) \in Contents \union {Torn}
BY DEF TypeOK, Current

LEMMA Room1 ==
  ASSUME TypeOK, NEW f \in Files, Broadcast(f)
  PROVE  /\ buffer' \in [Pages -> Seq(Files)]
         /\ excused' \in [Pages -> SUBSET Files]
         /\ \A q \in Pages :
              /\ Len(buffer'[q]) <= Capacity
              /\ Elements(buffer[q]) \subseteq Elements(buffer'[q])
              /\ excused[q] \subseteq excused'[q]
              /\ f \in Elements(buffer'[q]) \union excused'[q]
<1>1. ASSUME NEW q \in Pages
      PROVE  /\ Append(buffer[q], f) \in Seq(Files)
             /\ Len(Append(buffer[q], f)) = Len(buffer[q]) + 1
             /\ Elements(Append(buffer[q], f)) = Elements(buffer[q]) \union {f}
  BY Appending DEF TypeOK
<1>2. \A q \in Pages : Len(buffer[q]) \in Nat /\ Len(buffer[q]) <= Capacity
  BY DEF TypeOK
<1>3. /\ buffer' \in [Pages -> Seq(Files)]
      /\ excused' \in [Pages -> SUBSET Files]
  BY <1>1 DEF TypeOK, Broadcast
<1>4. SUFFICES ASSUME NEW q \in Pages
      PROVE  /\ Len(buffer'[q]) <= Capacity
             /\ Elements(buffer[q]) \subseteq Elements(buffer'[q])
             /\ excused[q] \subseteq excused'[q]
             /\ f \in Elements(buffer'[q]) \union excused'[q]
  BY <1>3
<1>5. CASE Room(q)
  <2>1. buffer'[q] = Append(buffer[q], f) /\ excused'[q] = excused[q]
    BY <1>5 DEF Broadcast
  <2>2. Len(buffer'[q]) <= Capacity
    BY <1>1, <1>2, <1>5, <2>1, Bounds DEF Room
  <2>3. Elements(buffer'[q]) = Elements(buffer[q]) \union {f}
    BY <1>1, <2>1
  <2>4. QED
    BY <2>1, <2>2, <2>3
<1>6. CASE ~Room(q)
  <2>1. buffer'[q] = buffer[q] /\ excused'[q] = excused[q] \union {f}
    BY <1>6 DEF Broadcast
  <2>2. QED
    BY <1>2, <2>1
<1>7. QED
  BY <1>5, <1>6

LEMMA EventsTyped ==
  ASSUME TypeOK, NEW f \in Files, NEW o \in {"write", "create"},
         events' = Append(events, <<f, o>>)
  PROVE  /\ events' \in Seq(Files \X {"write", "create"})
         /\ Elements(events') = Elements(events) \union {<<f, o>>}
<1>1. <<f, o>> \in Files \X {"write", "create"}
      /\ events \in Seq(Files \X {"write", "create"})
  BY DEF TypeOK
<1>2. QED
  BY <1>1, Appending

LEMMA Types ==
  ASSUME TypeOK, Spent, [Next]_vars
  PROVE  TypeOK' /\ Spent'
<1>0. saves \in Nat /\ saves <= MaxSaves /\ MaxSaves \in Nat
      /\ drops \in Nat /\ drops <= MaxDrops /\ MaxDrops \in Nat
      /\ \A f \in Files : content[f] \in Nat
  <2>1. saves \in 0 .. MaxSaves /\ drops \in 0 .. MaxDrops
        /\ content \in [Files -> Contents]
    BY DEF TypeOK
  <2>2. \A f \in Files : content[f] \in Nat
    BY <2>1, Bounds
  <2>3. QED
    BY <2>1, <2>2, Bounds
<1>1. ASSUME NEW f \in Files, Truncate(f) PROVE TypeOK' /\ Spent'
  <2>1. saves' \in 0 .. MaxSaves /\ saves' = saves - 1 /\ f \notin torn
        /\ torn' = torn \union {f} /\ content' = content
    BY <1>0, <1>1 DEF Truncate
  <2>2. events' \in Seq(Files \X {"write", "create"})
    BY <1>1, EventsTyped DEF Truncate
  <2>3. Spent'
    BY <1>0, <2>1 DEF Spent
  <2>4. TypeOK'
    BY <1>1, <2>1, <2>2 DEF Truncate, TypeOK, page
  <2>5. QED
    BY <2>3, <2>4
<1>2. ASSUME NEW f \in Files, Write(f) PROVE TypeOK' /\ Spent'
  <2>1. f \in torn /\ torn' = torn \ {f} /\ saves' = saves /\ Saved(f)
    BY <1>2 DEF Write, env
  <2>2. content[f] < MaxSaves
    BY <1>0, <2>1 DEF Spent
  <2>3. events' \in Seq(Files \X {"write", "create"})
    BY <1>2, EventsTyped DEF Write
  <2>4. Spent'
    BY <1>0, <2>1, <2>2, SavedTyped DEF Spent
  <2>5. TypeOK'
    BY <1>2, <2>1, <2>2, <2>3, SavedTyped DEF Write, TypeOK, page, env
  <2>6. QED
    BY <2>4, <2>5
<1>3. ASSUME NEW f \in Files, Replace(f) PROVE TypeOK' /\ Spent'
  <2>1. saves' \in 0 .. MaxSaves /\ saves' = saves - 1 /\ saves > 0
        /\ f \notin torn /\ torn' = torn /\ Saved(f)
    BY <1>0, <1>3 DEF Replace
  <2>2. content[f] < MaxSaves
    BY <1>0, <2>1 DEF Spent
  <2>3. events' \in Seq(Files \X {"write", "create"})
    BY <1>3, EventsTyped DEF Replace
  <2>4. Spent'
    BY <1>0, <2>1, <2>2, SavedTyped DEF Spent
  <2>5. TypeOK'
    BY <1>3, <2>1, <2>2, <2>3, SavedTyped DEF Replace, TypeOK, page
  <2>6. QED
    BY <2>4, <2>5
<1>4. ASSUME Watch PROVE TypeOK' /\ Spent'
  <2>1. /\ events' \in Seq(Files \X {"write", "create"})
        /\ Head(events) \in Files \X {"write", "create"}
    BY <1>4, Removing DEF Watch, TypeOK
  <2>2. Head(events)[1] \in Files
    BY <2>1
  <2>3. CASE UNCHANGED <<hot, buffer>>
             /\ excused' = [p \in Pages |->
                              excused[p] \union {Head(events)[1]}]
    BY <1>4, <2>1, <2>2, <2>3 DEF Watch, TypeOK, Spent, env, source, page
  <2>4. CASE hot' = hot \union {Head(events)[1]}
             /\ Broadcast(Head(events)[1])
    BY <1>4, <2>1, <2>2, <2>4, Room1
    DEF Watch, TypeOK, Spent, env, source, page
  <2>5. QED
    BY <1>4, <2>3, <2>4 DEF Watch
<1>5. ASSUME NEW f \in Files, Cool(f) PROVE TypeOK' /\ Spent'
  BY <1>5 DEF Cool, TypeOK, Spent, env, source, page
<1>6. ASSUME NEW p \in Pages, Connect(p) PROVE TypeOK' /\ Spent'
  BY <1>6 DEF Connect, TypeOK, Spent, env, source, page
<1>7. ASSUME NEW p \in Pages, Disconnect(p) PROVE TypeOK' /\ Spent'
  <2>1. <<>> \in Seq(Files) /\ Len(<<>>) <= Capacity
    BY Bounds
  <2>2. {buffer[p][i] : i \in DOMAIN buffer[p]} \subseteq Files
    BY DEF TypeOK
  <2>3. drops' \in 0 .. MaxDrops
    BY <1>0, <1>7 DEF Disconnect
  <2>4. QED
    BY <1>7, <2>1, <2>2, <2>3 DEF Disconnect, TypeOK, Spent, source, page
<1>8. ASSUME NEW p \in Pages, Message(p) PROVE TypeOK' /\ Spent'
  <2>0. UNCHANGED <<env, source, events, hot>>
    BY <1>8 DEF Message
  <2>1. ASSUME NEW f \in Files, StartImport(p, f), buffer[p] # <<>>
        PROVE  TypeOK'
    <3>1. PICK s \in FreeSlots(p, f) :
            importing' = [importing EXCEPT ![p] = @ \union {<<f, s, None>>}]
      BY <2>1 DEF StartImport
    <3>2. <<f, s, None>> \in Files \X Slots \X Arrivals
      BY <3>1 DEF FreeSlots, Arrivals
    <3>3. /\ Tail(buffer[p]) \in Seq(Files)
          /\ Len(Tail(buffer[p])) <= Capacity
      <4>1. buffer[p] \in Seq(Files) /\ Len(buffer[p]) <= Capacity
        BY DEF TypeOK
      <4>2. Tail(buffer[p]) \in Seq(Files)
            /\ Len(Tail(buffer[p])) <= Len(buffer[p])
        BY <2>1, <4>1, Removing
      <4>3. QED
        BY <4>1, <4>2, Bounds
    <3>4. importing' \in [Pages -> SUBSET (Files \X Slots \X Arrivals)]
      BY <3>1, <3>2 DEF TypeOK
    <3>5. excused' \in [Pages -> SUBSET Files]
      BY <2>1 DEF StartImport, TypeOK
    <3>6. QED
      BY <2>0, <2>1, <3>3, <3>4, <3>5
      DEF StartImport, TypeOK, env, source
  <2>2. ASSUME Reload(p) PROVE TypeOK'
    BY <2>0, <2>2, ReloadTyped DEF TypeOK, env, source
  <2>3. Head(buffer[p]) \in Files
    BY <1>8, Removing DEF Message, TypeOK
  <2>4. QED
    BY <1>8, <2>0, <2>1, <2>2, <2>3 DEF Message, Spent, env, source
<1>9. ASSUME NEW p \in Pages, NEW f \in Files, Load(p, f)
      PROVE  TypeOK' /\ Spent'
  BY <1>9, CurrentTyped DEF Load, TypeOK, Spent, env, source, hmr
<1>10. ASSUME NEW p \in Pages, NEW i \in importing[p], Serve(p, i)
       PROVE  TypeOK' /\ Spent'
  <2>1. i[1] \in Files /\ i[2] \in Slots
    BY DEF TypeOK
  <2>2. <<i[1], i[2], Current(i[1])>> \in Files \X Slots \X Arrivals
    BY <2>1, CurrentTyped DEF Arrivals
  <2>3. importing' \in [Pages -> SUBSET (Files \X Slots \X Arrivals)]
    BY <1>10, <2>2 DEF Serve, TypeOK
  <2>4. QED
    BY <1>10, <2>3 DEF Serve, TypeOK, Spent, env, source, hmr
<1>11. ASSUME NEW p \in Pages, NEW i \in importing[p], Apply(p, i)
       PROVE  TypeOK' /\ Spent'
  <2>0. UNCHANGED <<env, source, events, hot>>
    BY <1>11 DEF Apply
  <2>1. CASE /\ shown' = [shown EXCEPT ![p][i[1]] = i[3]]
             /\ importing' = [importing EXCEPT ![p] = @ \ {i}]
             /\ UNCHANGED <<clients, buffer, excused>>
    <3>1. i[1] \in Files /\ i[3] \in Contents \union {Torn}
      BY <1>11 DEF TypeOK, Arrivals, Apply
    <3>2. shown' \in [Pages -> [Files -> Contents \union {Torn, Absent}]]
      BY <2>1, <3>1 DEF TypeOK
    <3>3. QED
      BY <2>0, <2>1, <3>2 DEF TypeOK, Spent, env, source
  <2>2. CASE Reload(p)
    BY <2>0, <2>2, ReloadTyped DEF TypeOK, Spent, env, source
  <2>3. QED
    BY <1>11, <2>1, <2>2 DEF Apply
<1>12. CASE UNCHANGED vars
  BY <1>12 DEF vars, env, source, hmr, page, TypeOK, Spent
<1>13. QED
  BY <1>1, <1>2, <1>3, <1>4, <1>5, <1>6, <1>7, <1>8, <1>9, <1>10, <1>11,
    <1>12 DEF Next

-----------------------------------------------------------------------------
(* Page q keeps what it relies on for f when nothing of that changes and   *)
(* nothing that is on its way is lost.                                     *)
LEMMA Steady ==
  ASSUME NEW q \in Pages, NEW f \in Files, FileOK(q, f),
         content'[f] = content[f], shown'[q][f] = shown[q][f],
         Imports(q, f)' = Imports(q, f),
         f \in excused[q] => f \in excused'[q],
         OnItsWay(q, f) => OnItsWay(q, f)'
  PROVE  FileOK(q, f)'
BY DEF FileOK, ShownOK, ImportOK

(* A save is on its way to every page.                                     *)
LEMMA SavedKeeps ==
  ASSUME IInv, NEW q \in Pages, NEW f \in Files, content[f] < MaxSaves,
         Saved(f), shown' = shown, importing' = importing,
         \E e \in Elements(events') : e[1] = f
  PROVE  FileOK(q, f)'
<1>0. TypeOK /\ FileOK(q, f) /\ content[f] \in Nat
  BY Bounds DEF IInv, PagesOK, TypeOK
<1>1. content'[f] = content[f] + 1
  BY <1>0, SavedTyped
<1>2. OnItsWay(q, f)' /\ Imports(q, f)' = Imports(q, f)
  BY DEF OnItsWay, Imports
<1>3. Imports(q, f) # {} => excused'[q] = excused[q]
  BY <1>0 DEF Saved, TypeOK
<1>4. ShownOK(q, f)'
  BY <1>0, <1>1, <1>2 DEF FileOK, ShownOK
<1>5. ASSUME NEW i \in Imports(q, f) PROVE ImportOK(q, f, i)'
  <2>1. ImportOK(q, f, i) /\ Imports(q, f) # {}
    BY <1>0 DEF FileOK
  <2>2. i[3] \in Nat => i[3] <= content'[f]
    BY <1>0, <1>1, <2>1 DEF ImportOK
  <2>3. QED
    BY <1>2, <1>3, <2>1, <2>2 DEF ImportOK
<1>6. QED
  BY <1>2, <1>4, <1>5 DEF FileOK

(* A reload forgets everything.                                            *)
LEMMA ReloadKeeps ==
  ASSUME IInv, NEW p \in Pages, Reload(p),
         content' = content, torn' = torn, events' = events
  PROVE  PagesOK'
<1>0. TypeOK /\ PagesOK
  BY DEF IInv
<1>1. SUFFICES ASSUME NEW q \in Pages, NEW f \in Files PROVE FileOK(q, f)'
  BY DEF PagesOK
<1>2. CASE q = p
  <2>1. shown'[p][f] = Absent /\ importing'[p] = {}
    BY <1>0 DEF Reload, TypeOK
  <2>2. QED
    BY <1>2, <2>1, Apart DEF FileOK, ShownOK, Imports
<1>3. CASE q # p
  <2>1. /\ shown'[q] = shown[q] /\ importing'[q] = importing[q]
        /\ buffer'[q] = buffer[q] /\ excused'[q] = excused[q]
    BY <1>0, <1>3 DEF Reload, TypeOK
  <2>2. OnItsWay(q, f) => OnItsWay(q, f)'
    BY <2>1 DEF OnItsWay
  <2>3. QED
    BY <1>0, <2>1, <2>2, Steady DEF PagesOK, Imports
<1>4. QED
  BY <1>2, <1>3

(* A re-import starts, in place of the message that asks for it.           *)
LEMMA StartKeeps ==
  ASSUME IInv, NEW p \in Pages, NEW f \in Files, buffer[p] # <<>>,
         f = Head(buffer[p]), StartImport(p, f),
         content' = content, torn' = torn, events' = events
  PROVE  PagesOK'
<1>0. TypeOK /\ PagesOK
  BY DEF IInv
<1>1. Elements(buffer[p]) = Elements(Tail(buffer[p])) \union {f}
  BY <1>0, Removing DEF TypeOK
<1>2. PICK s \in Slots :
        importing' = [importing EXCEPT ![p] = @ \union {<<f, s, None>>}]
  BY DEF StartImport, FreeSlots
<1>3. /\ shown' = shown /\ shown[p][f] # Absent
      /\ buffer' = [buffer EXCEPT ![p] = Tail(@)]
      /\ excused' = IF Imports(p, f) = {} THEN excused
                    ELSE [excused EXCEPT ![p] = @ \union {f}]
  BY DEF StartImport
<1>4. \A q \in Pages : excused[q] \subseteq excused'[q]
  BY <1>0, <1>3 DEF TypeOK
<1>5. SUFFICES ASSUME NEW q \in Pages, NEW g \in Files PROVE FileOK(q, g)'
  BY DEF PagesOK
<1>6. FileOK(q, g)
  BY <1>0 DEF PagesOK
<1>7. CASE q # p
  <2>1. importing'[q] = importing[q] /\ buffer'[q] = buffer[q]
    BY <1>0, <1>2, <1>3, <1>7 DEF TypeOK
  <2>2. OnItsWay(q, g) => OnItsWay(q, g)'
    BY <1>4, <2>1 DEF OnItsWay
  <2>3. QED
    BY <1>3, <1>4, <1>6, <2>1, <2>2, Steady DEF Imports
<1>8. CASE q = p /\ g # f
  <2>1. /\ importing'[p] = importing[p] \union {<<f, s, None>>}
        /\ buffer'[p] = Tail(buffer[p])
    BY <1>0, <1>2, <1>3 DEF TypeOK
  <2>2. Imports(p, g)' = Imports(p, g)
    BY <1>8, <2>1 DEF Imports
  <2>3. OnItsWay(p, g) => OnItsWay(p, g)'
    BY <1>1, <1>4, <1>8, <2>1 DEF OnItsWay
  <2>4. QED
    BY <1>3, <1>4, <1>6, <1>8, <2>2, <2>3, Steady
<1>9. CASE q = p /\ g = f
  <2>1. importing'[p] = importing[p] \union {<<f, s, None>>}
    BY <1>0, <1>2 DEF TypeOK
  <2>2. Imports(p, f)' = Imports(p, f) \union {<<f, s, None>>}
    BY <2>1 DEF Imports
  <2>3. Imports(p, f) # {} => f \in excused'[p]
    BY <1>0, <1>3 DEF TypeOK
  <2>4. ShownOK(p, f)'
    BY <1>1, <1>3, <1>6, <1>9, <2>2 DEF FileOK, ShownOK
  <2>5. ASSUME NEW i \in Imports(p, f) PROVE ImportOK(p, f, i)'
    <3>1. ImportOK(p, f, i) /\ f \in excused'[p]
      BY <1>6, <1>9, <2>3 DEF FileOK
    <3>2. QED
      BY <1>3, <3>1 DEF ImportOK, OnItsWay
  <2>6. ImportOK(p, f, <<f, s, None>>)'
    BY <1>3, <2>2, <2>3, Apart DEF ImportOK
  <2>7. QED
    BY <1>9, <2>2, <2>4, <2>5, <2>6 DEF FileOK
<1>10. QED
  BY <1>7, <1>8, <1>9

(* A re-import is answered with what the file is now.                      *)
LEMMA ServeKeeps ==
  ASSUME IInv, NEW p \in Pages, NEW i \in importing[p], Serve(p, i)
  PROVE  PagesOK'
<1> DEFINE f == i[1]
<1>0. TypeOK /\ PagesOK /\ f \in Files /\ content[f] \in Nat
      /\ content[f] <= content[f]
  <2>1. f \in Files /\ content \in [Files -> Contents]
    BY DEF IInv, TypeOK
  <2>2. content[f] \in Nat
    BY <2>1, Bounds
  <2>3. QED
    BY <2>1, <2>2 DEF IInv
<1>j. PICK j : j = <<f, i[2], Current(f)>>
  OBVIOUS
<1>1. importing'[p] = (importing[p] \ {i}) \union {j}
      /\ UNCHANGED <<env, source, hmr, shown, excused>>
      /\ \A q \in Pages \ {p} : importing'[q] = importing[q]
  BY <1>0, <1>j DEF Serve, TypeOK
<1>2. SUFFICES ASSUME NEW q \in Pages, NEW g \in Files PROVE FileOK(q, g)'
  BY DEF PagesOK
<1>3. FileOK(q, g) /\ (OnItsWay(q, g) <=> OnItsWay(q, g)')
  BY <1>0, <1>1 DEF PagesOK, OnItsWay, source, hmr
<1>4. CASE q # p \/ g # f
  <2>1. Imports(q, g)' = Imports(q, g)
    BY <1>1, <1>4, <1>j DEF Imports
  <2>2. QED
    BY <1>1, <1>3, <2>1, Steady DEF source
<1>5. CASE q = p /\ g = f
  <2>1. Imports(p, f)' = (Imports(p, f) \ {i}) \union {j}
        /\ i \in Imports(p, f)
    BY <1>1, <1>j DEF Imports
  <2>2. ImportOK(p, f, i)
    BY <1>3, <1>5, <2>1 DEF FileOK
  <2>3. ShownOK(p, f)'
    BY <1>1, <1>3, <1>5, <2>1 DEF FileOK, ShownOK, source
  <2>4. Current(f) = content[f] \/ (f \in torn /\ Current(f) = Torn)
    BY DEF Current
  <2>5. ImportOK(p, f, j)'
    <3>1. j[3] = content[f] \/ OnItsWay(p, f)'
      BY <1>1, <1>j, <2>4 DEF OnItsWay, source
    <3>2. j[3] \in Nat => j[3] = content[f]
      BY <1>j, <2>4, Apart
    <3>3. shown'[p][f] \in Nat => shown'[p][f] <= content[f]
      BY <1>1, <1>3, <1>5 DEF FileOK, ShownOK
    <3>4. f \notin excused[p] => Imports(p, f)' = {j}
      BY <2>1, <2>2 DEF ImportOK
    <3>5. QED
      BY <1>0, <1>1, <2>2, <3>1, <3>2, <3>3, <3>4 DEF ImportOK, source
  <2>6. ASSUME NEW k \in Imports(p, f) \ {i} PROVE ImportOK(p, f, k)'
    <3>1. ImportOK(p, f, k) /\ f \in excused[p]
      BY <1>3, <1>5, <2>1, <2>2 DEF FileOK, ImportOK
    <3>2. QED
      BY <1>1, <1>3, <1>5, <3>1 DEF ImportOK, source
  <2>7. QED
    BY <1>5, <2>1, <2>3, <2>5, <2>6 DEF FileOK
<1>6. QED
  BY <1>4, <1>5

(* A module that has arrived replaces the one that runs.                   *)
LEMMA ApplyKeeps ==
  ASSUME IInv, NEW p \in Pages, NEW i \in importing[p], i[3] # None,
         shown' = [shown EXCEPT ![p][i[1]] = i[3]],
         importing' = [importing EXCEPT ![p] = @ \ {i}],
         UNCHANGED <<env, source, events, buffer, excused>>
  PROVE  PagesOK'
<1> DEFINE f == i[1]
<1>0. TypeOK /\ PagesOK /\ f \in Files /\ i[3] \in Contents \union {Torn}
  BY DEF IInv, TypeOK, Arrivals
<1>1. /\ importing'[p] = importing[p] \ {i} /\ shown'[p][f] = i[3]
      /\ \A g \in Files \ {f} : shown'[p][g] = shown[p][g]
      /\ \A q \in Pages \ {p} : /\ importing'[q] = importing[q]
                                /\ shown'[q] = shown[q]
  BY <1>0 DEF TypeOK
<1>2. SUFFICES ASSUME NEW q \in Pages, NEW g \in Files PROVE FileOK(q, g)'
  BY DEF PagesOK
<1>3. FileOK(q, g) /\ (OnItsWay(q, g) <=> OnItsWay(q, g)')
  BY <1>0 DEF PagesOK, OnItsWay, source
<1>4. CASE q # p \/ g # f
  <2>1. Imports(q, g)' = Imports(q, g) /\ shown'[q][g] = shown[q][g]
    BY <1>1, <1>4 DEF Imports
  <2>2. QED
    BY <1>3, <2>1, Steady DEF source
<1>5. CASE q = p /\ g = f
  <2>1. Imports(p, f)' = Imports(p, f) \ {i} /\ i \in Imports(p, f)
    BY <1>1 DEF Imports
  <2>2. ImportOK(p, f, i)
    BY <1>3, <1>5, <2>1 DEF FileOK
  <2>3. ShownOK(p, f)'
    BY <1>1, <1>3, <1>5, <2>2 DEF ImportOK, ShownOK, source
  <2>4. ASSUME NEW k \in Imports(p, f) \ {i} PROVE ImportOK(p, f, k)'
    <3>1. ImportOK(p, f, k) /\ f \in excused[p]
      BY <1>3, <1>5, <2>1, <2>2 DEF FileOK, ImportOK
    <3>2. shown'[p][f] # Absent
      BY <1>0, <1>1, Apart, Bounds
    <3>3. QED
      BY <1>3, <1>5, <3>1, <3>2 DEF ImportOK, source
  <2>5. QED
    BY <1>5, <2>1, <2>3, <2>4 DEF FileOK
<1>6. QED
  BY <1>4, <1>5

(* The lost connection's messages are missed.                              *)
LEMMA LostKeeps ==
  ASSUME IInv, NEW p \in Pages, Disconnect(p)
  PROVE  PagesOK'
<1>0. TypeOK /\ PagesOK
  BY DEF IInv
<1>1. /\ UNCHANGED <<content, torn, events, shown, importing>>
      /\ \A q \in Pages : excused[q] \subseteq excused'[q]
      /\ \A q \in Pages \ {p} : buffer'[q] = buffer[q]
      /\ Elements(buffer[p]) \subseteq excused'[p]
  BY <1>0 DEF Disconnect, TypeOK, source, page, Elements
<1>2. SUFFICES ASSUME NEW q \in Pages, NEW g \in Files PROVE FileOK(q, g)'
  BY DEF PagesOK
<1>3. OnItsWay(q, g) => OnItsWay(q, g)'
  <2>1. CASE q = p
    BY <1>1, <2>1 DEF OnItsWay
  <2>2. CASE q # p
    <3>1. buffer'[q] = buffer[q] /\ excused[q] \subseteq excused'[q]
      BY <1>1, <2>2
    <3>2. QED
      BY <1>1, <3>1 DEF OnItsWay
  <2>3. QED
    BY <2>1, <2>2
<1>4. FileOK(q, g) /\ Imports(q, g)' = Imports(q, g)
      /\ shown'[q][g] = shown[q][g] /\ content'[g] = content[g]
      /\ (g \in excused[q] => g \in excused'[q])
  BY <1>0, <1>1 DEF PagesOK, Imports
<1>5. QED
  BY <1>3, <1>4, Steady

(* What the watcher takes from its queue is in every buffer or missed.     *)
LEMMA WatchKeeps ==
  ASSUME IInv, Watch
  PROVE  PagesOK'
<1>0. TypeOK /\ PagesOK /\ events # <<>>
  BY DEF IInv, Watch
<1>1. /\ Head(events) \in Files \X {"write", "create"}
      /\ Elements(events) = Elements(Tail(events)) \union {Head(events)}
  BY <1>0, Removing DEF TypeOK
<1>2. PICK f \in Files : f = Head(events)[1]
  BY <1>1
<1>3. UNCHANGED <<content, torn, shown, importing>> /\ events' = Tail(events)
  BY DEF Watch, source, page
<1>4. \A q \in Pages :
        /\ excused[q] \subseteq excused'[q]
        /\ Elements(buffer[q]) \subseteq Elements(buffer'[q])
        /\ f \in Elements(buffer'[q]) \union excused'[q]
  <2>1. CASE UNCHANGED <<hot, buffer>>
             /\ excused' = [q \in Pages |-> excused[q] \union {f}]
    BY <2>1
  <2>2. CASE Broadcast(f)
    BY <1>0, <2>2, Room1
  <2>3. QED
    BY <1>2, <2>1, <2>2 DEF Watch
<1>5. SUFFICES ASSUME NEW q \in Pages, NEW g \in Files PROVE FileOK(q, g)'
  BY DEF PagesOK
<1>6. OnItsWay(q, g) => OnItsWay(q, g)'
  <2>1. CASE g = f
    BY <1>4, <2>1 DEF OnItsWay
  <2>2. CASE g # f
    BY <1>1, <1>2, <1>3, <1>4, <2>2 DEF OnItsWay
  <2>3. QED
    BY <2>1, <2>2
<1>7. QED
  BY <1>0, <1>3, <1>4, <1>6, Steady DEF PagesOK, Imports

(* A save, which is an event for the watcher.                              *)
LEMMA SaveKeeps ==
  ASSUME IInv, NEW f \in Files, Write(f) \/ Replace(f)
  PROVE  PagesOK'
<1>0. TypeOK /\ Spent /\ PagesOK
  BY DEF IInv
<1>1. PICK o \in {"write", "create"} : events' = Append(events, <<f, o>>)
  BY DEF Write, Replace
<1>2. Elements(events') = Elements(events) \union {<<f, o>>}
  BY <1>0, <1>1, EventsTyped
<1>3. /\ Saved(f) /\ UNCHANGED <<buffer, shown, importing>>
      /\ torn \ {f} \subseteq torn'
  BY DEF Write, Replace, page
<1>4. content[f] < MaxSaves
  <2>1. saves \in Nat /\ content[f] \in Nat /\ MaxSaves \in Nat
        /\ content[f] + saves + (IF f \in torn THEN 1 ELSE 0) <= MaxSaves
    <3>1. saves \in 0 .. MaxSaves /\ content[f] \in Contents
      BY <1>0 DEF TypeOK
    <3>2. saves \in Nat
      BY <3>1, Bounds
    <3>3. content[f] \in Nat
      BY <3>1, Bounds
    <3>4. QED
      BY <1>0, <3>2, <3>3, Bounds DEF Spent
  <2>2. f \in torn \/ saves > 0
    BY DEF Write, Replace
  <2>3. QED
    BY <2>1, <2>2
<1>5. SUFFICES ASSUME NEW q \in Pages, NEW g \in Files PROVE FileOK(q, g)'
  BY DEF PagesOK
<1>6. CASE g = f
  <2>1. \E e \in Elements(events') : e[1] = f
    <3>1. <<f, o>> \in Elements(events') /\ <<f, o>>[1] = f
      BY <1>2
    <3>2. QED
      BY <3>1
  <2>2. QED
    BY <1>3, <1>4, <1>6, <2>1, SavedKeeps
<1>7. CASE g # f
  <2>1. /\ content'[g] = content[g]
        /\ g \in excused[q] => g \in excused'[q]
    BY <1>0, <1>3, <1>7 DEF Saved, TypeOK
  <2>2. OnItsWay(q, g) => OnItsWay(q, g)'
    BY <1>2, <1>3, <1>7, <2>1 DEF OnItsWay
  <2>3. QED
    BY <1>0, <1>3, <2>1, <2>2, Steady DEF PagesOK, Imports
<1>8. QED
  BY <1>6, <1>7

(* A page loads a module as the file is now.                               *)
LEMMA LoadKeeps ==
  ASSUME IInv, NEW p \in Pages, NEW f \in Files, Load(p, f)
  PROVE  PagesOK'
<1>0. /\ TypeOK /\ PagesOK
      /\ shown[p][f] = Absent
      /\ UNCHANGED <<content, torn, events, buffer, importing, excused>>
  BY DEF IInv, Load, source, hmr
<1>1. PICK c : c = Current(f)
  OBVIOUS
<1>2. /\ shown'[p][f] = c
      /\ \A q \in Pages, g \in Files :
           q # p \/ g # f => shown'[q][g] = shown[q][g]
  BY <1>0, <1>1 DEF Load, TypeOK
<1>3. c = content[f] \/ (f \in torn /\ c = Torn)
  BY <1>1 DEF Current
<1>4. SUFFICES ASSUME NEW q \in Pages, NEW g \in Files PROVE FileOK(q, g)'
  BY DEF PagesOK
<1>5. FileOK(q, g) /\ (OnItsWay(q, g) <=> OnItsWay(q, g)')
      /\ Imports(q, g)' = Imports(q, g)
  BY <1>0 DEF PagesOK, OnItsWay, Imports
<1>6. CASE q # p \/ g # f
  BY <1>0, <1>2, <1>5, <1>6, Steady
<1>7. CASE q = p /\ g = f
  <2>1. Imports(p, f) = {}
    BY <1>0, <1>5, <1>7 DEF FileOK, ImportOK
  <2>2. content[f] \in Nat
    <3>1. content[f] \in Contents
      BY <1>0 DEF TypeOK
    <3>2. QED
      BY <3>1, Bounds
  <2>3. ShownOK(p, f)'
    BY <1>0, <1>2, <1>3, <2>2, Apart DEF ShownOK, OnItsWay
  <2>4. QED
    BY <1>5, <1>7, <2>1, <2>3 DEF FileOK
<1>8. QED
  BY <1>6, <1>7

-----------------------------------------------------------------------------
LEMMA Initially == Init => IInv
<1>1. SUFFICES ASSUME Init PROVE IInv
  OBVIOUS
<1>2. 0 \in Contents /\ MaxSaves \in 0 .. MaxSaves
      /\ MaxDrops \in 0 .. MaxDrops
  BY Bounds DEF Contents
<1>3. /\ <<>> \in Seq(Files) /\ Len(<<>>) <= Capacity
      /\ <<>> \in Seq(Files \X {"write", "create"})
  BY Bounds
<1>4. TypeOK
  BY <1>1, <1>2, <1>3 DEF Init, TypeOK
<1>5. Spent
  BY <1>1, Bounds DEF Init, Spent
<1>6. PagesOK
  BY <1>1 DEF Init, PagesOK, FileOK, ShownOK, Imports
<1>7. QED
  BY <1>4, <1>5, <1>6 DEF IInv

LEMMA Inductive == IInv /\ [Next]_vars => IInv'
<1>1. SUFFICES ASSUME IInv, [Next]_vars PROVE PagesOK'
  BY Types DEF IInv
<1>2. ASSUME UNCHANGED <<content, torn, shown, importing, buffer, excused>>,
             events' = events
      PROVE  PagesOK'
  BY <1>1, <1>2, Steady DEF IInv, PagesOK, Imports, OnItsWay
<1>3. ASSUME Watch PROVE PagesOK'
  BY <1>1, <1>3, WatchKeeps
<1>4. ASSUME NEW f \in Files, Truncate(f) PROVE PagesOK'
  <2>1. /\ UNCHANGED <<content, shown, importing, buffer, excused>>
        /\ torn \subseteq torn'
        /\ Elements(events) \subseteq Elements(events')
    BY <1>1, <1>4, EventsTyped DEF IInv, Truncate, page
  <2>2. \A q \in Pages, g \in Files : OnItsWay(q, g) => OnItsWay(q, g)'
    BY <2>1 DEF OnItsWay
  <2>3. QED
    BY <1>1, <2>1, <2>2, Steady DEF IInv, PagesOK, Imports
<1>5. ASSUME NEW f \in Files, Write(f) \/ Replace(f) PROVE PagesOK'
  BY <1>1, <1>5, SaveKeeps
<1>6. ASSUME NEW f \in Files, Cool(f) PROVE PagesOK'
  BY <1>2, <1>6 DEF Cool, source, page
<1>7. ASSUME NEW p \in Pages, Connect(p) PROVE PagesOK'
  BY <1>2, <1>7 DEF Connect, source, page
<1>8. ASSUME NEW p \in Pages, Disconnect(p) PROVE PagesOK'
  BY <1>1, <1>8, LostKeeps
<1>9. ASSUME NEW p \in Pages, Message(p) PROVE PagesOK'
  <2>1. content' = content /\ torn' = torn /\ events' = events
        /\ buffer[p] # <<>>
    BY <1>9 DEF Message, source
  <2>2. PICK f \in Files : f = Head(buffer[p])
    BY <1>1, <2>1, Removing DEF IInv, TypeOK
  <2>3. QED
    BY <1>1, <1>9, <2>1, <2>2, StartKeeps, ReloadKeeps DEF Message
<1>10. ASSUME NEW p \in Pages, NEW f \in Files, Load(p, f) PROVE PagesOK'
  BY <1>1, <1>10, LoadKeeps
<1>11. ASSUME NEW p \in Pages, NEW i \in importing[p], Serve(p, i)
       PROVE  PagesOK'
  BY <1>1, <1>11, ServeKeeps
<1>12. ASSUME NEW p \in Pages, NEW i \in importing[p], Apply(p, i)
       PROVE  PagesOK'
  <2>1. i[3] # None /\ UNCHANGED <<env, source, events>>
    BY <1>12 DEF Apply
  <2>2. content' = content /\ torn' = torn
    BY <2>1 DEF source
  <2>3. QED
    BY <1>1, <1>12, <2>1, <2>2, ApplyKeeps, ReloadKeeps DEF Apply
<1>13. CASE UNCHANGED vars
  BY <1>2, <1>13 DEF vars, source, hmr, page
<1>14. QED
  BY <1>1, <1>3, <1>4, <1>5, <1>6, <1>7, <1>8, <1>9, <1>10, <1>11, <1>12,
    <1>13 DEF Next

(* The invariant of Updates: what a page runs is the file's content unless *)
(* an update of it is on its way, has been missed or is being imported.    *)
THEOREM Invariance == Spec => []IInv
BY Initially, Inductive, PTL DEF Spec

(* The types of the variables, and the size of a subscriber's buffer.      *)
THEOREM TypeCorrect == Spec => []TypeOK
<1>1. IInv => TypeOK
  BY DEF IInv
<1>2. QED
  BY Invariance, <1>1, PTL

(* StaleExplained: a page for which nothing is under way runs the last     *)
(* content of every file of which it has missed nothing.                   *)
THEOREM Stale == Spec => []StaleExplained
<1>1. IInv => StaleExplained
  <2>1. SUFFICES ASSUME IInv, NEW p \in Pages, NEW f \in Files, Settled(p)
                 PROVE  shown[p][f] = content[f] \/ f \in excused[p]
    BY DEF StaleExplained
  <2>2. ShownOK(p, f)
    BY <2>1 DEF IInv, PagesOK, FileOK
  <2>3. Imports(p, f) = {} /\ shown[p][f] # Absent /\ f \notin torn
        /\ Elements(events) = {} /\ Elements(buffer[p]) = {}
    BY <2>1, Nothing DEF Settled, Imports
  <2>4. QED
    BY <2>2, <2>3 DEF ShownOK, OnItsWay
<1>2. QED
  BY Invariance, <1>1, PTL

(* What one step of page p does to file f, when p has missed nothing of it.*)
LEMMA StepForward ==
  ASSUME IInv, [Next]_vars, NEW p \in Pages, NEW f \in Files,
         shown[p][f] \in Nat, shown'[p][f] \in Nat, f \notin excused[p]
  PROVE  shown'[p][f] >= shown[p][f]
<1>0. TypeOK /\ FileOK(p, f)
  BY DEF IInv, PagesOK
<1>1. CASE shown' = shown
  BY <1>1
<1>2. ASSUME NEW q \in Pages, Reload(q) PROVE shown'[p][f] >= shown[p][f]
  <2>1. shown'[q][f] = Absent /\ (p # q => shown'[p] = shown[p])
    BY <1>0, <1>2 DEF Reload, TypeOK
  <2>2. QED
    BY <2>1, Apart
<1>3. ASSUME NEW q \in Pages, NEW g \in Files, Load(q, g)
      PROVE  shown'[p][f] >= shown[p][f]
  <2>1. shown[q][g] = Absent
        /\ (p # q \/ f # g => shown'[p][f] = shown[p][f])
    BY <1>0, <1>3 DEF Load, TypeOK
  <2>2. QED
    BY <2>1, Apart
<1>4. ASSUME NEW q \in Pages, NEW i \in importing[q],
             shown' = [shown EXCEPT ![q][i[1]] = i[3]]
      PROVE  shown'[p][f] >= shown[p][f]
  <2>1. CASE p = q /\ f = i[1]
    <3>1. ImportOK(p, f, i)
      BY <1>0, <2>1 DEF FileOK, Imports
    <3>2. shown'[p][f] = i[3]
      BY <1>0, <1>4, <2>1 DEF TypeOK
    <3>3. QED
      BY <3>1, <3>2 DEF ImportOK
  <2>2. CASE p # q \/ f # i[1]
    <3>1. shown'[p][f] = shown[p][f]
      BY <1>0, <1>4, <2>2 DEF TypeOK
    <3>2. QED
      BY <3>1
  <2>3. QED
    BY <2>1, <2>2
<1>5. CASE UNCHANGED vars
  BY <1>1, <1>5 DEF vars, page
<1>6. ASSUME NEW q \in Pages, Message(q)
      PROVE  shown'[p][f] >= shown[p][f]
  BY <1>1, <1>2, <1>6 DEF Message, StartImport
<1>7. ASSUME NEW q \in Pages, NEW i \in importing[q],
             Serve(q, i) \/ Apply(q, i)
      PROVE  shown'[p][f] >= shown[p][f]
  BY <1>1, <1>2, <1>4, <1>7 DEF Serve, Apply
<1>8. ASSUME NEW q \in Pages, Connect(q) \/ Disconnect(q)
      PROVE  shown'[p][f] >= shown[p][f]
  BY <1>1, <1>8 DEF Connect, Disconnect, page
<1>9. CASE Watch
  BY <1>1, <1>9 DEF Watch, page
<1>10. ASSUME NEW g \in Files, Truncate(g) \/ Write(g) \/ Replace(g) \/ Cool(g)
       PROVE  shown'[p][f] >= shown[p][f]
  BY <1>1, <1>10 DEF Truncate, Write, Replace, Cool, page
<1>11. QED
  BY <1>3, <1>5, <1>6, <1>7, <1>8, <1>9, <1>10 DEF Next

(* OnlyForward: a page goes back to an earlier content of a file only      *)
(* after overlapping re-imports of it, or a missed update.                 *)
THEOREM Forward == Spec => OnlyForward
<1>1. IInv /\ [Next]_vars =>
        [\A p \in Pages, f \in Files :
           shown[p][f] \in Nat /\ shown'[p][f] \in Nat /\ f \notin excused[p]
             => shown'[p][f] >= shown[p][f]]_vars
  BY StepForward
<1>2. QED
  BY Invariance, <1>1, PTL DEF Spec, OnlyForward

=============================================================================
