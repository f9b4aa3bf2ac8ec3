--------------------------- MODULE OnDemandProofs ---------------------------
(***************************************************************************)
(* Proofs about OnDemand for any number of packages, releases, processes,  *)
(* handlers and imports: the types, where a second version of a package    *)
(* comes from, that what is pinned is cached, and that builds repeat.      *)
(***************************************************************************)
EXTENDS OnDemand, FiniteSetTheorems, WellFoundedInduction, TLAPS

(* What a fetch has found is in the cache before it is pinned.             *)
FetchedFirst == \A h \in Handlers : pc[h] \in {"add", "locked"} =>
  /\ \A d \in found[h] : <<d[1], d[2], FALSE>> \in cached
  /\ job[h] = "root" => <<Name(h), ver[h], FALSE>> \in cached

(* The packages of which there can be only one version.                    *)
Single(s) ==
  s \notin raced \union dragged
    /\ \A v, w \in VersionsOf(shipped, s) : v = w

(* Of such a package no lockfile has two versions, and it is fetched by    *)
(* one handler of a process, as long as that has none.                     *)
OneVersion == \A s \in Specs : Single(s) =>
  /\ \A v, w \in VersionsOf(file, s) : v = w
  /\ \A p \in Procs : \A v, w \in VersionsOf(lf[p], s) : v = w
  /\ \A h \in Handlers : Fetching(h) /\ Name(h) = s =>
       VersionsOf(lf[home[h]], s) = {}
  /\ \A g, h \in Handlers :
       (/\ Fetching(g) /\ Fetching(h) /\ home[g] = home[h]
        /\ Name(g) = s /\ Name(h) = s)
         => g = h

(* Only a package that is pinned is looked up.                             *)
AsksForPinned ==
  \A h \in Handlers : pc[h] = "get" => job[h] \in {"pinned", "join"}

(* A process that does not run has nothing in its memory, and no other     *)
(* build runs with one that is alone.                                      *)
AtRest ==
  /\ \A p \in Procs \ running : lf[p] = {}
  /\ \A b \in Builds \ running : served[b] = {}
  /\ \A p \in alone : running \cap Builds = {p}

(* The version a handler works on has been found in the lockfile or added. *)
Settled(h) ==
  \/ /\ pc[h] \in {"get", "fetch", "add", "locked"}
     /\ job[h] \in {"pinned", "join"}
  \/ pc[h] = "locked" /\ job[h] = "root"

(* What a build has answered, and what it is about to, is in its lockfile. *)
ServedIsPinned ==
  /\ \A b \in Builds : served[b] \subseteq lf[b]
  /\ \A h \in Handlers : Settled(h) => <<Name(h), ver[h]>> \in lf[home[h]]

(* The file is what a build that is alone has saved, unless it is about to *)
(* save again or has failed to.                                            *)
SavedAlone == \A p \in alone :
  p \notin unsaved /\ (\A h \in Mine(p) : pc[h] # "locked") => file = lf[p]

(* The pins of the last good build are in the file and in every build that *)
(* runs, which uses them.                                                  *)
LastPins ==
  /\ last \subseteq file
  /\ \A p \in running \cap Builds : last \subseteq lf[p]
  /\ \A h \in Handlers : \A b \in last :
       (/\ home[h] \in Builds /\ b[1] = Name(h)
        /\ pc[h] \in {"get", "fetch", "add", "locked"})
       => /\ job[h] # "root"
          /\ job[h] \in {"pinned", "join"} => ver[h] = b[2]

RepeatsLast == \A p \in running \cap Builds : \A a \in served[p], b \in last :
  a[1] = b[1] => a[2] = b[2]

IInv ==
  /\ TypeOK
  /\ FetchedFirst /\ PinsAreCached
  /\ AsksForPinned /\ OneVersion
  /\ AtRest /\ ServedIsPinned /\ SavedAlone
  /\ LastPins /\ RepeatsLast

-----------------------------------------------------------------------------
(* A nonempty set of naturals that is bounded has a greatest element.      *)
LEMMA HasMax ==
  ASSUME NEW S \in SUBSET Nat, NEW n \in Nat, S # {}, \A s \in S : s <= n
  PROVE  \E m \in S : \A s \in S : s <= m
<1>1. DEFINE R == {ss \in Nat \X Nat : ss[1] < ss[2]}
<1>2. IsWellFoundedOn(R, Nat)
  BY NatLessThanWellFounded DEF OpToRel
<1>3. DEFINE T == {n - s : s \in S}
<1>4. T \subseteq Nat /\ T # {}
  <2>1. \A s \in S : n - s \in Nat
    OBVIOUS
  <2>2. QED
    BY <2>1
<1>5. PICK x \in T : \A y \in T : ~(<<y, x>> \in R)
  <2> HIDE DEF R, T
  <2>1. QED
    BY <1>2, <1>4, WFMin
<1>6. PICK m \in S : x = n - m
  BY <1>5
<1>7. \A s \in S : ~(n - s < n - m)
  BY <1>4, <1>5, <1>6
<1>8. QED
  BY <1>7

(* What the assumption says of versions and of imports.                    *)
LEMMA Values ==
  /\ Versions \subseteq Nat
  /\ \A s \in Specs : 1 \in Versions /\ 1 .. Latest[s] \subseteq Versions
  /\ \A s \in Specs : Latest[s] \in Nat /\ Declared[s] \subseteq Versions
  /\ \A s \in Specs : Needs[s] \subseteq Specs
  /\ NoImport \in Imports
  /\ \A i \in Imports : i[1] \in Specs /\ i[2] \in BOOLEAN
  /\ 1 \in Versions
  /\ MaxImports \in Nat /\ MaxFaults \in Nat
  /\ IsFiniteSet(Versions)
<1>1. Versions \subseteq Nat
  BY OnDemandAssumption DEF Versions
<1>2. \A s \in Specs : 1 \in Versions /\ 1 .. Latest[s] \subseteq Versions
  BY OnDemandAssumption DEF Versions
<1>3. NoImport \in Imports
  BY OnDemandAssumption DEF NoImport
<1>4. \A i \in Imports : i[1] \in Specs /\ i[2] \in BOOLEAN
  BY OnDemandAssumption
<1>5. IsFiniteSet(Versions)
  <2>1. DEFINE R == {1 .. Latest[s] : s \in Specs}
  <2>2. IsFiniteSet(R)
    <3>1. IsFiniteSet(Specs)
      BY OnDemandAssumption
    <3>2. DEFINE f == [s \in Specs |-> 1 .. Latest[s]]
    <3>3. f \in Surjection(Specs, R)
      BY DEF Surjection
    <3>4. QED
      BY <3>1, <3>3, FS_Surjection
  <2>3. \A r \in R : IsFiniteSet(r)
    BY OnDemandAssumption, FS_Interval
  <2>4. QED
    BY <2>2, <2>3, FS_UNION DEF Versions
<1>6. QED
  BY <1>1, <1>2, <1>3, <1>4, <1>5, OnDemandAssumption

(* The registry has a version in the declared range.                       *)
LEMMA PickType ==
  ASSUME TypeOK, NEW s \in Specs
  PROVE  Pick(s) \in Versions
<1>1. newest[s] \in Nat /\ newest[s] >= 1
  <2>1. newest[s] \in Versions
    BY DEF TypeOK
  <2>2. QED
    BY <2>1, OnDemandAssumption DEF Versions
<1>2. InRange(s) \in SUBSET Nat /\ InRange(s) \subseteq Versions
  BY Values DEF InRange
<1>3. 1 \in InRange(s)
  BY <1>1, OnDemandAssumption DEF InRange
<1>4. \A v \in InRange(s) : v <= newest[s]
  BY DEF InRange
<1>5. \E m \in InRange(s) : \A v \in InRange(s) : v <= m
  <2> HIDE DEF InRange
  <2>1. QED
    BY <1>1, <1>2, <1>3, <1>4, HasMax
<1>6. Pick(s) \in InRange(s)
  BY <1>5 DEF Pick
<1>7. QED
  BY <1>2, <1>6

(* What a fetch is for, and what it downloads.                             *)
LEMMA FetchTypes ==
  ASSUME TypeOK, NEW h \in Handlers
  PROVE  /\ Name(h) \in Specs /\ Subpath(h) \in BOOLEAN
         /\ Fetched(h)[2] \in Versions
         /\ Dragged(h) \subseteq Pins
         /\ Downloads(h) \subseteq Blobs
         /\ home[h] \in Procs
<1>1. Name(h) \in Specs /\ Subpath(h) \in BOOLEAN
  BY Values DEF TypeOK, Name, Subpath
<1>2. newest[Name(h)] \in Versions /\ ver[h] \in Versions
  BY <1>1 DEF TypeOK
<1>3. Fetched(h) \in Blobs /\ Fetched(h)[2] \in Versions
  BY <1>1, <1>2, PickType DEF Fetched, Blobs
<1>4. Dragged(h) \subseteq Pins
  BY <1>1, Values DEF Dragged, Pins, TypeOK
<1>5. Downloads(h) \subseteq Blobs
  <2>1. \A d \in Dragged(h) : <<d[1], d[2], FALSE>> \in Blobs
    BY <1>4 DEF Blobs, Pins
  <2>2. QED
    BY <1>3, <2>1 DEF Downloads
<1>6. home[h] \in Procs
  BY OnDemandAssumption DEF TypeOK
<1>7. QED
  BY <1>1, <1>3, <1>4, <1>5, <1>6

-----------------------------------------------------------------------------
(* What a step of h does to the handlers: nothing to the others; it ends   *)
(* its import, and may have answered it.                                   *)
LocalOK ==
  /\ pc    \in [Handlers -> PCs]
  /\ want  \in [Handlers -> Imports]
  /\ job   \in [Handlers -> Jobs]
  /\ ver   \in [Handlers -> Versions]
  /\ found \in [Handlers -> SUBSET Pins]

Others(h) == \A g \in Handlers \ {h} :
  /\ pc'[g] = pc[g] /\ want'[g] = want[g] /\ job'[g] = job[g]
  /\ ver'[g] = ver[g] /\ found'[g] = found[g]

Idled(h) ==
  /\ pc'[h] = "idle" /\ want'[h] = NoImport /\ job'[h] = "root"
  /\ ver'[h] = 1 /\ found'[h] = {}

Answered(h) ==
  /\ served' \in [Builds -> SUBSET Pins]
  /\ \/ served' = served
     \/ /\ home[h] \in Builds /\ job[h] # "path"
        /\ \A b \in Builds \ {home[h]} : served'[b] = served[b]
        /\ served'[home[h]] = served[home[h]] \union {<<Name(h), ver[h]>>}

LEMMA ReadyEffect ==
  ASSUME TypeOK, NEW h \in Handlers, Ready(h)
  PROVE  LocalOK' /\ Others(h) /\ Idled(h)
BY Values DEF TypeOK, Ready, LocalOK, Others, Idled, PCs, Jobs

LEMMA AnswerEffect ==
  ASSUME TypeOK, NEW h \in Handlers, Answer(h, ver[h])
  PROVE  LocalOK' /\ Others(h) /\ Idled(h) /\ Answered(h)
<1>1. LocalOK' /\ Others(h) /\ Idled(h)
  BY ReadyEffect DEF Answer
<1>2. Answered(h)
  <2>1. <<Name(h), ver[h]>> \in Pins /\ home[h] \in Procs
    BY FetchTypes DEF TypeOK, Pins
  <2>2. served \in [Builds -> SUBSET Pins]
    BY DEF TypeOK
  <2>3. QED
    BY <2>1, <2>2 DEF Answer, Answered, InDev, Procs
<1>3. QED
  BY <1>1, <1>2

(* h stays with its import, at another step.                               *)
Goes(h, l) == pc'[h] = l /\ want'[h] = want[h]

(* Resolve: h has found no version, one, or several.                       *)
Resolved(h) ==
  /\ LocalOK' /\ Others(h)
  /\ pc[h] = "resolve"
  /\ \/ /\ VersionsOf(lf[home[h]], Name(h)) = {}
        /\ Goes(h, "fetch") /\ job'[h] = "root"
        /\ \/ Name(h) \in raced'
           \/ \A g \in Handlers \ {h} :
                ~(home[g] = home[h] /\ Name(g) = Name(h) /\ Fetching(g))
     \/ /\ VersionsOf(lf[home[h]], Name(h)) = {ver'[h]}
        /\ Goes(h, "get") /\ job'[h] = "pinned"
     \/ Idled(h)
  /\ failed' \subseteq Builds
  /\ raced \subseteq raced' /\ raced' \subseteq Specs
  /\ UNCHANGED <<world, disk, running, lf, mutex, unsaved, served, alone,
                 last, dragged>>

LEMMA ResolveEffect ==
  ASSUME TypeOK, NEW h \in Handlers, Resolve(h)
  PROVE  Resolved(h)
<1>1. DEFINE vs == VersionsOf(lf[home[h]], Name(h))
<1>2. Name(h) \in Specs /\ vs \subseteq Versions
  BY FetchTypes DEF VersionsOf
<1>3. UNCHANGED <<world, disk, running, lf, mutex, unsaved, served, alone,
                  last, dragged>> /\ pc[h] = "resolve"
  BY DEF Resolve
<1>4. CASE /\ vs = {}
           /\ job' = [job EXCEPT ![h] = "root"]
           /\ GoTo(h, "fetch")
           /\ raced' = IF \E g \in Mine(home[h]) \ {h} :
                            Name(g) = Name(h) /\ Fetching(g)
                       THEN raced \union {Name(h)} ELSE raced
           /\ UNCHANGED <<failed, want, ver, found>>
  <2>1. LocalOK' /\ Others(h) /\ Goes(h, "fetch") /\ job'[h] = "root"
    BY <1>4 DEF TypeOK, LocalOK, Others, Goes, GoTo, PCs, Jobs
  <2>2. failed' \subseteq Builds /\ raced \subseteq raced'
        /\ raced' \subseteq Specs
    BY <1>2, <1>4 DEF TypeOK
  <2>3. \/ Name(h) \in raced'
        \/ \A g \in Handlers \ {h} :
             ~(home[g] = home[h] /\ Name(g) = Name(h) /\ Fetching(g))
    BY <1>4 DEF Mine
  <2>4. QED
    BY <1>3, <1>4, <2>1, <2>2, <2>3 DEF Resolved
<1>5. CASE /\ Cardinality(vs) = 1
           /\ job' = [job EXCEPT ![h] = "pinned"]
           /\ ver' = [ver EXCEPT ![h] = CHOOSE v \in vs : TRUE]
           /\ GoTo(h, "get")
           /\ UNCHANGED <<failed, want, found, raced>>
  <2>1. PICK v : vs = {v}
    <3>1. IsFiniteSet(vs)
      BY <1>2, Values, FS_Subset
    <3>2. QED
      BY <1>5, <3>1, FS_Singleton
  <2>2. (CHOOSE w \in vs : TRUE) \in vs
    BY <2>1
  <2>3. vs = {ver'[h]}
    BY <1>5, <2>1, <2>2 DEF TypeOK
  <2>4. LocalOK' /\ Others(h) /\ Goes(h, "get") /\ job'[h] = "pinned"
    <3> HIDE DEF vs
    <3>1. QED
      BY <1>2, <1>5, <2>2 DEF TypeOK, LocalOK, Others, Goes, GoTo, PCs, Jobs
  <2>5. failed' \subseteq Builds /\ raced' = raced /\ raced' \subseteq Specs
    BY <1>5 DEF TypeOK
  <2>6. QED
    BY <1>3, <2>3, <2>4, <2>5 DEF Resolved
<1>6. CASE Refuse(h) /\ raced' = raced
  <2>1. LocalOK' /\ Others(h) /\ Idled(h)
    BY <1>6, ReadyEffect DEF Refuse
  <2>2. failed' \subseteq Builds /\ raced' \subseteq Specs
    BY <1>6 DEF Refuse, TypeOK
  <2>3. QED
    BY <1>3, <1>6, <2>1, <2>2 DEF Resolved
<1>7. QED
  BY <1>4, <1>5, <1>6 DEF Resolve

(* Get: h has its blob, or goes on to fetch it, or gives up.               *)
Got(h) ==
  /\ LocalOK' /\ Others(h) /\ Answered(h)
  /\ pc[h] = "get"
  /\ \/ Idled(h)
     \/ /\ Goes(h, "fetch") /\ job'[h] = job[h] /\ ver'[h] = ver[h]
        /\ served' = served
  /\ failed' \subseteq Builds
  /\ UNCHANGED <<world, disk, running, lf, mutex, unsaved, history>>

LEMMA GetEffect ==
  ASSUME TypeOK, NEW h \in Handlers, Get(h)
  PROVE  Got(h)
<1>1. UNCHANGED <<world, disk, running, lf, mutex, unsaved, history>>
      /\ pc[h] = "get"
  BY DEF Get
<1>2. CASE Answer(h, ver[h]) /\ failed' = failed
  BY <1>1, <1>2, AnswerEffect DEF Got, TypeOK
<1>3. CASE GoTo(h, "fetch") /\ UNCHANGED <<served, failed, want, job, ver,
                                           found>>
  <2>1. LocalOK' /\ Others(h) /\ Goes(h, "fetch")
    BY <1>3 DEF TypeOK, LocalOK, Others, Goes, GoTo, PCs
  <2>2. Answered(h) /\ failed' \subseteq Builds
    BY <1>3 DEF TypeOK, Answered
  <2>3. QED
    BY <1>1, <1>3, <2>1, <2>2 DEF Got
<1>4. CASE Refuse(h) /\ served' = served
  <2>1. LocalOK' /\ Others(h) /\ Idled(h)
    BY <1>4, ReadyEffect DEF Refuse
  <2>2. Answered(h) /\ failed' \subseteq Builds
    BY <1>4 DEF Refuse, TypeOK, Answered
  <2>3. QED
    BY <1>1, <2>1, <2>2 DEF Got
<1>5. QED
  BY <1>2, <1>3, <1>4 DEF Get

(* Fetch: h has a result.                                                  *)
Has(h) ==
  /\ LocalOK' /\ Others(h) /\ Goes(h, "add")
  /\ pc[h] = "fetch"
  /\ job'[h] = job[h] /\ ver'[h] = Fetched(h)[2] /\ found'[h] = Dragged(h)
  /\ cached' = cached \union Downloads(h)
  /\ UNCHANGED <<world, shipped, file, procs, history>>

LEMMA FetchEffect ==
  ASSUME TypeOK, NEW h \in Handlers, Fetch(h)
  PROVE  Has(h)
<1>1. LocalOK' /\ Others(h) /\ Goes(h, "add")
  BY FetchTypes DEF Fetch, TypeOK, LocalOK, Others, Goes, GoTo, PCs
<1>2. /\ job'[h] = job[h] /\ ver'[h] = Fetched(h)[2]
      /\ found'[h] = Dragged(h)
  BY DEF Fetch, TypeOK
<1>3. QED
  BY <1>1, <1>2 DEF Fetch, Has

(* FetchFails: h tries the path once more, or gives up.                    *)
Fails(h) ==
  /\ LocalOK' /\ Others(h)
  /\ pc[h] = "fetch"
  /\ \/ Goes(h, "fetch") /\ job'[h] = "path"
     \/ Idled(h)
  /\ cached \subseteq cached' /\ cached' \subseteq Blobs
  /\ faults' \in 0 .. MaxFaults /\ failed' \subseteq Builds
  /\ UNCHANGED <<home, newest, imports, shipped, file, running, lf, mutex,
                 unsaved, served, history>>

LEMMA FailEffect ==
  ASSUME TypeOK, NEW h \in Handlers, FetchFails(h)
  PROVE  Fails(h)
<1>1. cached \subseteq cached' /\ cached' \subseteq Blobs
  BY FetchTypes DEF FetchFails, TypeOK
<1>2. faults' \in 0 .. MaxFaults
  BY Values DEF FetchFails, TypeOK
<1>3. pc[h] = "fetch" /\ UNCHANGED <<home, newest, imports, shipped, file,
        running, lf, mutex, unsaved, served, history>>
  BY DEF FetchFails
<1>4. CASE job' = [job EXCEPT ![h] = "path"]
           /\ UNCHANGED <<failed, pc, want, ver, found>>
  <2>1. LocalOK' /\ Others(h) /\ Goes(h, "fetch") /\ job'[h] = "path"
    BY <1>3, <1>4 DEF TypeOK, LocalOK, Others, Goes, Jobs
  <2>2. QED
    BY <1>1, <1>2, <1>3, <1>4, <2>1 DEF Fails, TypeOK
<1>5. CASE Refuse(h)
  <2>1. LocalOK' /\ Others(h) /\ Idled(h)
    BY <1>5, ReadyEffect DEF Refuse
  <2>2. failed' \subseteq Builds
    BY <1>5 DEF Refuse, TypeOK
  <2>3. QED
    BY <1>1, <1>2, <1>3, <2>1, <2>2 DEF Fails
<1>6. QED
  BY <1>4, <1>5 DEF FetchFails

(* Add and AddTransitive: pins are added to the lockfile of h's process.   *)
Adds(h, D) ==
  /\ lf' \in [Procs -> SUBSET Pins]
  /\ \A p \in Procs : lf'[p] = IF p = home[h] THEN lf[p] \union D ELSE lf[p]
  /\ UNCHANGED <<world, disk, running, unsaved, failed, served, alone, last,
                 raced>>

LEMMA AddEffect ==
  ASSUME TypeOK, NEW h \in Handlers, Add(h)
  PROVE  /\ Adds(h, Root(h)) /\ Root(h) \subseteq {<<Name(h), ver[h]>>}
         /\ LocalOK' /\ Others(h) /\ Goes(h, "locked")
         /\ pc[h] = "add" /\ dragged' = dragged
         /\ job'[h] = job[h] /\ ver'[h] = ver[h] /\ found'[h] = found[h]
         /\ mutex' \in [Procs -> Handlers \union {Nobody}]
<1>1. home[h] \in Procs /\ Root(h) \subseteq Pins
      /\ Root(h) \subseteq {<<Name(h), ver[h]>>}
  BY FetchTypes DEF Root, Pins, TypeOK
<1>2. lf \in [Procs -> SUBSET Pins]
  BY DEF TypeOK
<1>3. Adds(h, Root(h))
  BY <1>1, <1>2 DEF Add, Adds, history
<1>4. LocalOK' /\ Others(h) /\ Goes(h, "locked")
  BY DEF Add, TypeOK, LocalOK, Others, Goes, GoTo, PCs
<1>5. mutex' \in [Procs -> Handlers \union {Nobody}]
  BY <1>1 DEF Add, TypeOK
<1>6. QED
  BY <1>1, <1>3, <1>4, <1>5 DEF Add, history

LEMMA AddTransitiveEffect ==
  ASSUME TypeOK, NEW h \in Handlers, AddTransitive(h)
  PROVE  /\ pc[h] = "locked"
         /\ \E d \in found[h] : /\ d \in Pins /\ Adds(h, {d})
                                /\ dragged' = dragged \union {d[1]}
         /\ UNCHANGED <<mutex, local>>
<1>1. home[h] \in Procs /\ found[h] \subseteq Pins
  BY FetchTypes DEF TypeOK
<1>2. PICK d \in found[h] :
        /\ lf' = [lf EXCEPT ![home[h]] = @ \union {d}]
        /\ dragged' = dragged \union {d[1]}
  BY DEF AddTransitive
<1>3. lf \in [Procs -> SUBSET Pins] /\ d \in Pins
  BY <1>1 DEF TypeOK
<1>4. Adds(h, {d})
  BY <1>1, <1>2, <1>3 DEF AddTransitive, Adds
<1>5. QED
  BY <1>2, <1>3, <1>4 DEF AddTransitive

(* Save, SaveFails and SkipSave: h leaves the mutex, with its import       *)
(* answered or to go on with the subpath.                                  *)
Left(h) ==
  /\ LocalOK' /\ Others(h) /\ Answered(h)
  /\ \/ Idled(h)
     \/ /\ pc'[h] \in {"get", "fetch"} /\ want'[h] = want[h]
        /\ job[h] = "root" /\ job'[h] = "join"
        /\ ver'[h] = ver[h] /\ found'[h] = {} /\ served' = served
  /\ mutex' \in [Procs -> Handlers \union {Nobody}]
  /\ pc[h] = "locked"
  /\ UNCHANGED <<home, newest, imports, cached, shipped, running, lf, failed,
                 history>>

LEMMA LeaveEffect ==
  ASSUME TypeOK, NEW h \in Handlers, Leave(h)
  PROVE  Left(h)
<1>1. mutex' \in [Procs -> Handlers \union {Nobody}]
  BY DEF Leave, TypeOK
<1>2. CASE Answer(h, ver[h])
  BY <1>1, <1>2, AnswerEffect DEF Leave, Left
<1>3. CASE /\ job[h] = "root" /\ Subpath(h)
           /\ job' = [job EXCEPT ![h] = "join"]
           /\ GoTo(h, IF InDev(h) THEN "get" ELSE "fetch")
           /\ found' = [found EXCEPT ![h] = {}]
           /\ UNCHANGED <<served, want, ver>>
  <2>1. LocalOK' /\ Others(h)
    BY <1>3 DEF TypeOK, LocalOK, Others, GoTo, PCs, Jobs
  <2>2. /\ pc'[h] \in {"get", "fetch"} /\ want'[h] = want[h]
        /\ job[h] = "root" /\ job'[h] = "join"
        /\ ver'[h] = ver[h] /\ found'[h] = {} /\ served' = served
    BY <1>3 DEF TypeOK, GoTo
  <2>3. Answered(h)
    BY <2>2 DEF TypeOK, Answered
  <2>4. QED
    BY <1>1, <2>1, <2>2, <2>3 DEF Leave, Left
<1>4. QED
  BY <1>2, <1>3 DEF Leave, Return

(* Every step keeps the types.                                             *)
LEMMA Types ==
  ASSUME TypeOK, [Next]_vars
  PROVE  TypeOK'
<1>1. ASSUME NEW s \in Specs, Release(s) PROVE TypeOK'
  <2>1. newest[s] + 1 \in Versions
    <3>1. newest[s] \in Versions
      BY DEF TypeOK
    <3>2. newest[s] \in Nat /\ Latest[s] \in Nat
      BY <1>1, <3>1, Values
    <3>3. newest[s] < Latest[s]
      BY <1>1 DEF Release
    <3>4. newest[s] + 1 \in 1 .. Latest[s]
      BY <3>2, <3>3
    <3>5. QED
      BY <1>1, <3>4, Values
  <2>2. newest' \in [Specs -> Versions]
    BY <1>1, <2>1 DEF Release, TypeOK
  <2>3. QED
    BY <1>1, <2>2 DEF Release, TypeOK, disk, procs, local, history
<1>2. ASSUME NEW p \in Procs, Start(p) PROVE TypeOK'
  <2>1. /\ running' \subseteq Procs
        /\ lf' \in [Procs -> SUBSET Pins]
        /\ alone' \subseteq Builds
    BY <1>2 DEF Start, TypeOK, Procs
  <2>2. \A g \in Handlers : pc'[g] # "idle" => home'[g] \in running'
    BY <1>2 DEF Start, world, local, TypeOK
  <2>3. QED
    BY <1>2, <2>1, <2>2 DEF Start, TypeOK, world, disk, local
<1>3. ASSUME NEW p \in Procs, Finish(p) PROVE TypeOK'
  BY <1>3 DEF Finish, Mine, End, world, disk, local, TypeOK, PCs, Jobs
<1>4. ASSUME NEW p \in Procs, Kill(p) PROVE TypeOK'
  BY <1>4, Values DEF Kill, Mine, End, world, disk, TypeOK, PCs, Jobs
<1>5. ASSUME NEW h \in Handlers, NEW i \in Imports, Import(h, i) PROVE
  TypeOK'
  BY <1>5, Values DEF Import, GoTo, disk, procs, history, TypeOK, PCs, Jobs
<1>6. ASSUME NEW h \in Handlers, Resolve(h) PROVE TypeOK'
  <2>1. Resolved(h)
    BY <1>6, ResolveEffect
  <2>8. \A g \in Handlers : pc'[g] # "idle" => home'[g] \in running'
    BY <2>1 DEF Resolved, Goes, Idled, Others, procs, world, TypeOK
  <2>9. QED
    BY <2>1, <2>8, FetchTypes DEF Resolved, LocalOK, TypeOK, world,
      disk, procs, history
<1>7. ASSUME NEW h \in Handlers, Get(h) PROVE TypeOK'
  <2>1. Got(h)
    BY <1>7, GetEffect
  <2>8. \A g \in Handlers : pc'[g] # "idle" => home'[g] \in running'
    BY <2>1 DEF Got, Goes, Idled, Others, procs, world, TypeOK
  <2>9. QED
    BY <2>1, <2>8, FetchTypes DEF Got, LocalOK, TypeOK, world,
      disk, procs, history, Answered
<1>8. ASSUME NEW h \in Handlers, Fetch(h) PROVE TypeOK'
  <2>1. Has(h)
    BY <1>8, FetchEffect
  <2>8. \A g \in Handlers : pc'[g] # "idle" => home'[g] \in running'
    BY <2>1 DEF Has, Goes, Others, procs, world, TypeOK
  <2>9. QED
    BY <2>1, <2>8, FetchTypes DEF Has, LocalOK, TypeOK, world,
      disk, procs, history
<1>9. ASSUME NEW h \in Handlers, FetchFails(h) PROVE TypeOK'
  <2>1. Fails(h)
    BY <1>9, FailEffect
  <2>8. \A g \in Handlers : pc'[g] # "idle" => home'[g] \in running'
    BY <2>1 DEF Fails, Goes, Idled, Others, procs, world, TypeOK
  <2>9. QED
    BY <2>1, <2>8, FetchTypes DEF Fails, LocalOK, TypeOK, world,
      disk, procs, history
<1>10. ASSUME NEW h \in Handlers, Add(h) PROVE TypeOK'
  <2>1. /\ Adds(h, Root(h)) /\ Root(h) \subseteq {<<Name(h), ver[h]>>}
        /\ LocalOK' /\ Others(h) /\ Goes(h, "locked")
        /\ pc[h] = "add" /\ dragged' = dragged
        /\ job'[h] = job[h] /\ ver'[h] = ver[h] /\ found'[h] = found[h]
        /\ mutex' \in [Procs -> Handlers \union {Nobody}]
    BY <1>10, AddEffect
  <2>8. \A g \in Handlers : pc'[g] # "idle" => home'[g] \in running'
    BY <2>1 DEF Others, Goes, Adds, procs, world, TypeOK
  <2>9. QED
    BY <2>1, <2>8 DEF Adds, LocalOK, TypeOK, world, disk
<1>11. ASSUME NEW h \in Handlers, AddTransitive(h) PROVE TypeOK'
  <2>1. /\ pc[h] = "locked"
        /\ UNCHANGED <<mutex, local>>
    BY <1>11, AddTransitiveEffect
  <2>2. PICK d \in found[h] : /\ d \in Pins /\ Adds(h, {d})
                              /\ dragged' = dragged \union {d[1]}
    BY <1>11, AddTransitiveEffect
  <2>3. d[1] \in Specs
    BY <2>2 DEF Pins
  <2>9. QED
    BY <2>1, <2>2, <2>3 DEF Adds, TypeOK, world, disk, local
<1>12. ASSUME NEW h \in Handlers, Save(h) PROVE TypeOK'
  <2>1. Left(h)
    BY <1>12, LeaveEffect DEF Save
  <2>2. home[h] \in Procs
    BY FetchTypes
  <2>3. file' \subseteq Pins /\ unsaved' \subseteq Builds /\ faults' = faults
    BY <1>12, <2>2, Values DEF Save, InDev, Procs, TypeOK
  <2>4. \A g \in Handlers : pc'[g] # "idle" => home'[g] \in running'
    BY <2>1 DEF Left, Others, Idled, TypeOK
  <2>5. QED
    BY <2>1, <2>3, <2>4 DEF Left, LocalOK, Answered, history, TypeOK
<1>13. ASSUME NEW h \in Handlers, SaveFails(h) PROVE TypeOK'
  <2>1. Left(h)
    BY <1>13, LeaveEffect DEF SaveFails
  <2>2. home[h] \in Procs
    BY FetchTypes
  <2>3. file' = file /\ unsaved' \subseteq Builds /\ faults' \in 0 .. MaxFaults
    BY <1>13, <2>2, Values DEF SaveFails, InDev, Procs, TypeOK
  <2>4. \A g \in Handlers : pc'[g] # "idle" => home'[g] \in running'
    BY <2>1 DEF Left, Others, Idled, TypeOK
  <2>5. QED
    BY <2>1, <2>3, <2>4 DEF Left, LocalOK, Answered, history, TypeOK
<1>14. ASSUME NEW h \in Handlers, SkipSave(h) PROVE TypeOK'
  <2>1. Left(h)
    BY <1>14, LeaveEffect DEF SkipSave
  <2>2. home[h] \in Procs
    BY FetchTypes
  <2>3. file' = file /\ unsaved' = unsaved /\ faults' = faults
    BY <1>14, <2>2, Values DEF SkipSave, InDev, Procs, TypeOK
  <2>4. \A g \in Handlers : pc'[g] # "idle" => home'[g] \in running'
    BY <2>1 DEF Left, Others, Idled, TypeOK
  <2>5. QED
    BY <2>1, <2>3, <2>4 DEF Left, LocalOK, Answered, history, TypeOK
<1>15. ASSUME UNCHANGED vars PROVE TypeOK'
  BY <1>15 DEF vars, world, disk, procs, local, history, TypeOK, PCs, Jobs
<1>16. QED
  BY <1>1, <1>2, <1>3, <1>4, <1>5, <1>6, <1>7, <1>8, <1>9, <1>10, <1>11,
    <1>12, <1>13, <1>14, <1>15 DEF Next

(* Every step fetches first.                                               *)
LEMMA FetchedStep ==
  ASSUME TypeOK, FetchedFirst, [Next]_vars
  PROVE  FetchedFirst'
<1>1. ASSUME NEW s \in Specs, Release(s) PROVE FetchedFirst'
  BY <1>1 DEF Release, disk, procs, local, history, TypeOK, FetchedFirst,
    Name
<1>2. ASSUME NEW p \in Procs, Start(p) PROVE FetchedFirst'
  BY <1>2 DEF Start, Mine, world, disk, local, TypeOK, FetchedFirst, Name
<1>3. ASSUME NEW p \in Procs, Finish(p) PROVE FetchedFirst'
  BY <1>3 DEF Finish, Mine, End, world, disk, local, TypeOK, FetchedFirst,
    Name
<1>4. ASSUME NEW p \in Procs, Kill(p) PROVE FetchedFirst'
  BY <1>4 DEF Kill, Mine, End, world, disk, TypeOK, FetchedFirst, Name
<1>5. ASSUME NEW h \in Handlers, NEW i \in Imports, Import(h, i) PROVE
  FetchedFirst'
  BY <1>5 DEF Import, GoTo, disk, procs, history, TypeOK, FetchedFirst, Name
<1>6. ASSUME NEW h \in Handlers, Resolve(h) PROVE FetchedFirst'
  BY <1>6 DEF Resolve, Refuse, Ready, GoTo, VersionsOf, world, disk, TypeOK,
    FetchedFirst, Name
<1>7. ASSUME NEW h \in Handlers, Get(h) PROVE FetchedFirst'
  BY <1>7 DEF Get, Answer, Refuse, Ready, GoTo, InDev, world, disk, history,
    TypeOK, FetchedFirst, Name
<1>8. ASSUME NEW h \in Handlers, Fetch(h) PROVE FetchedFirst'
  <2>1. Has(h)
    BY <1>8, FetchEffect
  <2>2. \A g \in Handlers \ {h} : pc'[g] \in {"add", "locked"} =>
          /\ \A d \in found'[g] : <<d[1], d[2], FALSE>> \in cached'
          /\ job'[g] = "root" =>
               <<want'[g][1], ver'[g], FALSE>> \in cached'
    BY <2>1 DEF Has, Others, FetchedFirst, Name
  <2>3. \A d \in found'[h] : <<d[1], d[2], FALSE>> \in cached'
    BY <2>1 DEF Has, Downloads
  <2>4. job'[h] = "root" => <<want'[h][1], ver'[h], FALSE>> \in cached'
    <3>1. ASSUME job[h] = "root"
          PROVE  Fetched(h) = <<Name(h), Fetched(h)[2], FALSE>>
      BY <3>1 DEF Fetched
    <3>2. QED
      BY <2>1, <3>1 DEF Has, Goes, Downloads, Name
  <2>5. QED
    BY <2>2, <2>3, <2>4 DEF FetchedFirst, Name
<1>9. ASSUME NEW h \in Handlers, FetchFails(h) PROVE FetchedFirst'
  BY <1>9 DEF FetchFails, Refuse, Ready, history, TypeOK, FetchedFirst, Name
<1>10. ASSUME NEW h \in Handlers, Add(h) PROVE FetchedFirst'
  BY <1>10 DEF Add, GoTo, Root, world, disk, history, TypeOK, FetchedFirst,
    Name
<1>11. ASSUME NEW h \in Handlers, AddTransitive(h) PROVE FetchedFirst'
  BY <1>11 DEF AddTransitive, world, disk, local, TypeOK, FetchedFirst, Name
<1>12. ASSUME NEW h \in Handlers, Save(h) PROVE FetchedFirst'
  <2>1. Left(h)
    BY <1>12, LeaveEffect DEF Save
  <2>2. QED
    BY <1>12, <2>1 DEF Save, Left, Others, Idled, Answered, TypeOK,
      FetchedFirst, Name
<1>13. ASSUME NEW h \in Handlers, SaveFails(h) PROVE FetchedFirst'
  <2>1. Left(h)
    BY <1>13, LeaveEffect DEF SaveFails
  <2>2. QED
    BY <1>13, <2>1 DEF SaveFails, Left, Others, Idled, Answered, TypeOK,
      FetchedFirst, Name
<1>14. ASSUME NEW h \in Handlers, SkipSave(h) PROVE FetchedFirst'
  <2>1. Left(h)
    BY <1>14, LeaveEffect DEF SkipSave
  <2>2. QED
    BY <1>14, <2>1 DEF SkipSave, Left, Others, Idled, Answered, TypeOK,
      FetchedFirst, Name
<1>15. ASSUME UNCHANGED vars PROVE FetchedFirst'
  BY <1>15 DEF vars, world, disk, procs, local, history, FetchedFirst, Name
<1>16. QED
  BY <1>1, <1>2, <1>3, <1>4, <1>5, <1>6, <1>7, <1>8, <1>9, <1>10, <1>11,
    <1>12, <1>13, <1>14, <1>15 DEF Next

(* Every step pins only what is cached.                                    *)
LEMMA CachedStep ==
  ASSUME TypeOK, FetchedFirst, PinsAreCached, [Next]_vars
  PROVE  PinsAreCached'
<1>1. ASSUME NEW s \in Specs, Release(s) PROVE PinsAreCached'
  BY <1>1 DEF Release, disk, procs, local, history, TypeOK, PinsAreCached
<1>2. ASSUME NEW p \in Procs, Start(p) PROVE PinsAreCached'
  BY <1>2 DEF Start, Mine, world, disk, local, TypeOK, PinsAreCached
<1>3. ASSUME NEW p \in Procs, Finish(p) PROVE PinsAreCached'
  BY <1>3 DEF Finish, Mine, End, world, disk, local, TypeOK, PinsAreCached
<1>4. ASSUME NEW p \in Procs, Kill(p) PROVE PinsAreCached'
  BY <1>4 DEF Kill, Mine, End, world, disk, TypeOK, PinsAreCached
<1>5. ASSUME NEW h \in Handlers, NEW i \in Imports, Import(h, i) PROVE
  PinsAreCached'
  BY <1>5 DEF Import, GoTo, disk, procs, history, TypeOK, PinsAreCached
<1>6. ASSUME NEW h \in Handlers, Resolve(h) PROVE PinsAreCached'
  BY <1>6 DEF Resolve, Refuse, Ready, GoTo, VersionsOf, world, disk, TypeOK,
    PinsAreCached
<1>7. ASSUME NEW h \in Handlers, Get(h) PROVE PinsAreCached'
  BY <1>7 DEF Get, Answer, Refuse, Ready, GoTo, InDev, world, disk, history,
    TypeOK, PinsAreCached
<1>8. ASSUME NEW h \in Handlers, Fetch(h) PROVE PinsAreCached'
  BY <1>8 DEF Fetch, GoTo, world, procs, history, TypeOK, PinsAreCached
<1>9. ASSUME NEW h \in Handlers, FetchFails(h) PROVE PinsAreCached'
  BY <1>9 DEF FetchFails, Refuse, Ready, history, TypeOK, PinsAreCached
<1>10. ASSUME NEW h \in Handlers, Add(h) PROVE PinsAreCached'
  <2>1. /\ Adds(h, Root(h)) /\ Root(h) \subseteq {<<Name(h), ver[h]>>}
        /\ LocalOK' /\ Others(h) /\ Goes(h, "locked")
        /\ pc[h] = "add" /\ dragged' = dragged
        /\ job'[h] = job[h] /\ ver'[h] = ver[h] /\ found'[h] = found[h]
        /\ mutex' \in [Procs -> Handlers \union {Nobody}]
    BY <1>10, AddEffect
  <2>2. \A d \in Root(h) : <<d[1], d[2], FALSE>> \in cached
    <3>1. CASE job[h] = "root"
      <4>1. <<Name(h), ver[h], FALSE>> \in cached
        BY <2>1, <3>1 DEF FetchedFirst
      <4>2. Root(h) = {<<Name(h), ver[h]>>}
        BY <3>1 DEF Root
      <4>3. \A d \in Root(h) : d[1] = Name(h) /\ d[2] = ver[h]
        BY <4>2
      <4>4. QED
        BY <4>1, <4>3
    <3>2. CASE job[h] # "root"
      BY <3>2 DEF Root
    <3>3. QED
      BY <3>1, <3>2
  <2>3. SUFFICES ASSUME NEW p \in Procs,
                        NEW d \in (lf'[p] \union file') \ shipped'
        PROVE  <<d[1], d[2], FALSE>> \in cached'
    BY DEF PinsAreCached
  <2>4. d \in Root(h) \/ d \in (lf[p] \union file) \ shipped
    BY <2>1, <2>3 DEF Adds, disk
  <2>5. QED
    BY <2>1, <2>2, <2>4 DEF Adds, disk, PinsAreCached
<1>11. ASSUME NEW h \in Handlers, AddTransitive(h) PROVE PinsAreCached'
  <2>1. /\ pc[h] = "locked"
        /\ UNCHANGED <<mutex, local>>
    BY <1>11, AddTransitiveEffect
  <2>2. PICK e \in found[h] : /\ e \in Pins /\ Adds(h, {e})
                              /\ dragged' = dragged \union {e[1]}
    BY <1>11, AddTransitiveEffect
  <2>3. <<e[1], e[2], FALSE>> \in cached
    BY <2>1, <2>2 DEF FetchedFirst
  <2>4. SUFFICES ASSUME NEW p \in Procs,
                        NEW d \in (lf'[p] \union file') \ shipped'
        PROVE  <<d[1], d[2], FALSE>> \in cached'
    BY DEF PinsAreCached
  <2>5. d = e \/ d \in (lf[p] \union file) \ shipped
    BY <2>2, <2>4 DEF Adds, disk
  <2>6. QED
    BY <2>2, <2>3, <2>5 DEF Adds, disk, PinsAreCached
<1>12. ASSUME NEW h \in Handlers, Save(h) PROVE PinsAreCached'
  <2>1. Left(h)
    BY <1>12, LeaveEffect DEF Save
  <2>2. QED
    BY <1>12, <2>1 DEF Save, Left, Others, Idled, Answered, TypeOK,
      PinsAreCached
<1>13. ASSUME NEW h \in Handlers, SaveFails(h) PROVE PinsAreCached'
  <2>1. Left(h)
    BY <1>13, LeaveEffect DEF SaveFails
  <2>2. QED
    BY <1>13, <2>1 DEF SaveFails, Left, Others, Idled, Answered, TypeOK,
      PinsAreCached
<1>14. ASSUME NEW h \in Handlers, SkipSave(h) PROVE PinsAreCached'
  <2>1. Left(h)
    BY <1>14, LeaveEffect DEF SkipSave
  <2>2. QED
    BY <1>14, <2>1 DEF SkipSave, Left, Others, Idled, Answered, TypeOK,
      PinsAreCached
<1>15. ASSUME UNCHANGED vars PROVE PinsAreCached'
  BY <1>15 DEF vars, world, disk, procs, local, history, PinsAreCached
<1>16. QED
  BY <1>1, <1>2, <1>3, <1>4, <1>5, <1>6, <1>7, <1>8, <1>9, <1>10, <1>11,
    <1>12, <1>13, <1>14, <1>15 DEF Next

(* Every step looks up what is pinned only.                                *)
LEMMA AsksStep ==
  ASSUME TypeOK, AsksForPinned, [Next]_vars
  PROVE  AsksForPinned'
<1>1. ASSUME NEW s \in Specs, Release(s) PROVE AsksForPinned'
  BY <1>1 DEF Release, disk, procs, local, history, TypeOK, AsksForPinned
<1>2. ASSUME NEW p \in Procs, Start(p) PROVE AsksForPinned'
  BY <1>2 DEF Start, Mine, world, disk, local, TypeOK, AsksForPinned
<1>3. ASSUME NEW p \in Procs, Finish(p) PROVE AsksForPinned'
  BY <1>3 DEF Finish, Mine, End, world, disk, local, TypeOK, AsksForPinned
<1>4. ASSUME NEW p \in Procs, Kill(p) PROVE AsksForPinned'
  BY <1>4 DEF Kill, Mine, End, world, disk, TypeOK, AsksForPinned
<1>5. ASSUME NEW h \in Handlers, NEW i \in Imports, Import(h, i) PROVE
  AsksForPinned'
  BY <1>5 DEF Import, GoTo, disk, procs, history, TypeOK, AsksForPinned
<1>6. ASSUME NEW h \in Handlers, Resolve(h) PROVE AsksForPinned'
  <2>1. Resolved(h)
    BY <1>6, ResolveEffect
  <2>2. QED
    BY <2>1 DEF AsksForPinned, Resolved, Goes, Idled, Others
<1>7. ASSUME NEW h \in Handlers, Get(h) PROVE AsksForPinned'
  <2>1. Got(h)
    BY <1>7, GetEffect
  <2>2. QED
    BY <2>1 DEF AsksForPinned, Got, Goes, Idled, Others
<1>8. ASSUME NEW h \in Handlers, Fetch(h) PROVE AsksForPinned'
  <2>1. Has(h)
    BY <1>8, FetchEffect
  <2>2. QED
    BY <2>1 DEF AsksForPinned, Has, Goes, Others
<1>9. ASSUME NEW h \in Handlers, FetchFails(h) PROVE AsksForPinned'
  <2>1. Fails(h)
    BY <1>9, FailEffect
  <2>2. QED
    BY <2>1 DEF AsksForPinned, Fails, Goes, Idled, Others
<1>10. ASSUME NEW h \in Handlers, Add(h) PROVE AsksForPinned'
  BY <1>10 DEF Add, GoTo, Root, world, disk, history, TypeOK, AsksForPinned
<1>11. ASSUME NEW h \in Handlers, AddTransitive(h) PROVE AsksForPinned'
  BY <1>11 DEF AddTransitive, world, disk, local, TypeOK, AsksForPinned
<1>12. ASSUME NEW h \in Handlers, Save(h) PROVE AsksForPinned'
  <2>1. Left(h)
    BY <1>12, LeaveEffect DEF Save
  <2>2. QED
    BY <2>1 DEF AsksForPinned, Left, Idled, Others
<1>13. ASSUME NEW h \in Handlers, SaveFails(h) PROVE AsksForPinned'
  <2>1. Left(h)
    BY <1>13, LeaveEffect DEF SaveFails
  <2>2. QED
    BY <2>1 DEF AsksForPinned, Left, Idled, Others
<1>14. ASSUME NEW h \in Handlers, SkipSave(h) PROVE AsksForPinned'
  <2>1. Left(h)
    BY <1>14, LeaveEffect DEF SkipSave
  <2>2. QED
    BY <2>1 DEF AsksForPinned, Left, Idled, Others
<1>15. ASSUME UNCHANGED vars PROVE AsksForPinned'
  BY <1>15 DEF vars, world, disk, procs, local, history, AsksForPinned
<1>16. QED
  BY <1>1, <1>2, <1>3, <1>4, <1>5, <1>6, <1>7, <1>8, <1>9, <1>10, <1>11,
    <1>12, <1>13, <1>14, <1>15 DEF Next

(* A step keeps OneVersion when it pins nothing, when the file, if it is   *)
(* written, is some lockfile, and when nobody begins to fetch a package.   *)
LEMMA PinsNothing ==
  ASSUME OneVersion, lf' = lf, home' = home,
         file' = file \/ \E p \in Procs : file' = lf[p],
         \A s \in Specs : Single(s)' => Single(s),
         \A g \in Handlers : Fetching(g)' =>
           Fetching(g) /\ want'[g] = want[g]
  PROVE  OneVersion'
<1>1. SUFFICES ASSUME NEW s \in Specs, Single(s)'
      PROVE  /\ \A v, w \in VersionsOf(file', s) : v = w
             /\ \A p \in Procs : \A v, w \in VersionsOf(lf[p], s) : v = w
             /\ \A g \in Handlers : Fetching(g)' /\ Name(g)' = s =>
                  VersionsOf(lf[home[g]], s) = {}
             /\ \A f, g \in Handlers :
                  (/\ Fetching(f)' /\ Fetching(g)' /\ home[f] = home[g]
                   /\ Name(f)' = s /\ Name(g)' = s)
                    => f = g
  BY DEF OneVersion
<1>2. Single(s)
  BY <1>1
<1>3. \A v, w \in VersionsOf(file, s) : v = w
  BY <1>2 DEF OneVersion
<1>4. \A p \in Procs : \A v, w \in VersionsOf(lf[p], s) : v = w
  BY <1>2 DEF OneVersion
<1>5. \A v, w \in VersionsOf(file', s) : v = w
  BY <1>3, <1>4
<1>6. \A g \in Handlers : Fetching(g)' /\ Name(g)' = s =>
        Fetching(g) /\ Name(g) = s
  BY DEF Name
<1>7. \A g \in Handlers : Fetching(g) /\ Name(g) = s =>
        VersionsOf(lf[home[g]], s) = {}
  BY <1>2 DEF OneVersion
<1>8. \A f, g \in Handlers :
        (/\ Fetching(f) /\ Fetching(g) /\ home[f] = home[g]
         /\ Name(f) = s /\ Name(g) = s)
          => f = g
  BY <1>2 DEF OneVersion
<1>9. QED
  BY <1>4, <1>5, <1>6, <1>7, <1>8

(* Every step that can add a second version is accounted for.              *)
LEMMA OneStep ==
  ASSUME TypeOK, AsksForPinned, OneVersion, [Next]_vars
  PROVE  OneVersion'
<1>1. ASSUME NEW s \in Specs, Release(s) PROVE OneVersion'
  BY <1>1 DEF Release, disk, procs, local, history, TypeOK, OneVersion,
    Single, Name, Fetching, VersionsOf
<1>2. ASSUME NEW p \in Procs, Start(p) PROVE OneVersion'
  BY <1>2 DEF Start, Mine, world, disk, local, TypeOK, OneVersion, Single,
    Name, Fetching, VersionsOf
<1>3. ASSUME NEW p \in Procs, Finish(p) PROVE OneVersion'
  BY <1>3 DEF Finish, Mine, End, world, disk, local, TypeOK, OneVersion,
    Single, Name, Fetching, VersionsOf
<1>4. ASSUME NEW p \in Procs, Kill(p) PROVE OneVersion'
  BY <1>4, FetchTypes DEF Kill, Mine, End, world, disk, TypeOK,
    AsksForPinned, OneVersion, Single, Name, Fetching, VersionsOf
<1>5. ASSUME NEW h \in Handlers, NEW i \in Imports, Import(h, i) PROVE
  OneVersion'
  BY <1>5 DEF Import, GoTo, disk, procs, history, TypeOK, OneVersion,
    Single, Name, Fetching, VersionsOf
<1>6. ASSUME NEW h \in Handlers, Resolve(h) PROVE OneVersion'
  <2>1. Resolved(h)
    BY <1>6, ResolveEffect
  <2>2. \A s \in Specs : Single(s)' => Single(s)
    BY <2>1 DEF Resolved, Single, VersionsOf, disk, history
  <2>3. \A s \in Specs : Single(s)' =>
          \A v, w \in VersionsOf(file', s) : v = w
    <3>1. file' = file \/ \E p \in Procs : file' = lf[p]
      BY <1>6, <2>1, FetchTypes DEF Resolved, disk
    <3>2. QED
      BY <2>2, <3>1 DEF OneVersion
  <2>4. lf' = lf
    BY <2>1 DEF Resolved
  <2>5. \A g \in Handlers \ {h} : Fetching(g)' =>
          Fetching(g) /\ want'[g] = want[g]
    BY <2>1 DEF Resolved, Others, Fetching
  <2>6. Fetching(h)' =>
          /\ want'[h] = want[h]
          /\ VersionsOf(lf[home[h]], Name(h)) = {}
          /\ \/ Name(h) \in raced'
             \/ \A g \in Handlers \ {h} :
                  ~(home[g] = home[h] /\ Name(g) = Name(h) /\ Fetching(g))
    BY <2>1 DEF Resolved, Goes, Idled, Fetching
  <2>7. SUFFICES ASSUME NEW s \in Specs, Single(s)'
        PROVE  /\ \A p \in Procs :
                    \A v, w \in VersionsOf(lf'[p], s) : v = w
               /\ \A g \in Handlers : Fetching(g)' /\ want'[g][1] = s =>
                    VersionsOf(lf'[home'[g]], s) = {}
               /\ \A f, g \in Handlers :
                    (/\ Fetching(f)' /\ Fetching(g)'
                     /\ home'[f] = home'[g]
                     /\ want'[f][1] = s /\ want'[g][1] = s)
                      => f = g
    BY <2>3 DEF OneVersion, Name
  <2>8. home' = home /\ s \notin raced'
    BY <2>1, <2>7 DEF Resolved, world, Single
  <2>9. QED
    BY <2>2, <2>4, <2>5, <2>6, <2>7, <2>8 DEF OneVersion, Name
<1>7. ASSUME NEW h \in Handlers, Get(h) PROVE OneVersion'
  <2>1. Got(h)
    BY <1>7, GetEffect
  <2>2. \A s \in Specs : Single(s)' => Single(s)
    BY <2>1 DEF Got, Single, VersionsOf, disk, history
  <2>3. file' = file \/ \E p \in Procs : file' = lf[p]
    BY <1>7, <2>1, FetchTypes DEF Got, disk
  <2>4. lf' = lf /\ home' = home
    BY <2>1 DEF Got, world
  <2>5. ~Fetching(h)'
    BY <2>1 DEF Got, Goes, Idled, Others, Fetching, AsksForPinned
  <2>6. \A g \in Handlers : Fetching(g)' =>
          Fetching(g) /\ want'[g] = want[g]
    BY <2>1, <2>5 DEF Got, Others, Fetching
  <2>7. QED
    BY <2>2, <2>3, <2>4, <2>6, PinsNothing
<1>8. ASSUME NEW h \in Handlers, Fetch(h) PROVE OneVersion'
  BY <1>8 DEF Fetch, GoTo, world, procs, history, TypeOK, OneVersion,
    Single, Name, Fetching, VersionsOf
<1>9. ASSUME NEW h \in Handlers, FetchFails(h) PROVE OneVersion'
  <2>1. Fails(h)
    BY <1>9, FailEffect
  <2>2. \A s \in Specs : Single(s)' => Single(s)
    BY <2>1 DEF Fails, Single, VersionsOf, disk, history
  <2>3. file' = file \/ \E p \in Procs : file' = lf[p]
    BY <1>9, <2>1, FetchTypes DEF Fails, disk
  <2>4. lf' = lf /\ home' = home
    BY <2>1 DEF Fails, world
  <2>5. ~Fetching(h)'
    BY <2>1 DEF Fails, Goes, Idled, Others, Fetching
  <2>6. \A g \in Handlers : Fetching(g)' =>
          Fetching(g) /\ want'[g] = want[g]
    BY <2>1, <2>5 DEF Fails, Others, Fetching
  <2>7. QED
    BY <2>2, <2>3, <2>4, <2>6, PinsNothing
<1>10. ASSUME NEW h \in Handlers, Add(h) PROVE OneVersion'
  BY <1>10, FetchTypes DEF Add, GoTo, Root, world, disk, history, TypeOK,
    AsksForPinned, OneVersion, Single, Name, Fetching, VersionsOf
<1>11. ASSUME NEW h \in Handlers, AddTransitive(h) PROVE OneVersion'
  BY <1>11 DEF AddTransitive, world, disk, local, TypeOK, OneVersion,
    Single, Name, Fetching, VersionsOf
<1>12. ASSUME NEW h \in Handlers, Save(h) PROVE OneVersion'
  <2>1. Left(h)
    BY <1>12, LeaveEffect DEF Save
  <2>2. \A s \in Specs : Single(s)' => Single(s)
    BY <2>1 DEF Left, Single, VersionsOf, disk, history
  <2>3. file' = file \/ \E p \in Procs : file' = lf[p]
    BY <1>12, <2>1, FetchTypes DEF Save, Left, disk
  <2>4. lf' = lf /\ home' = home
    BY <2>1 DEF Left, world
  <2>5. ~Fetching(h)'
    BY <2>1 DEF Left, Idled, Others, Fetching
  <2>6. \A g \in Handlers : Fetching(g)' =>
          Fetching(g) /\ want'[g] = want[g]
    BY <2>1, <2>5 DEF Left, Others, Fetching
  <2>7. QED
    BY <2>2, <2>3, <2>4, <2>6, PinsNothing
<1>13. ASSUME NEW h \in Handlers, SaveFails(h) PROVE OneVersion'
  <2>1. Left(h)
    BY <1>13, LeaveEffect DEF SaveFails
  <2>2. \A s \in Specs : Single(s)' => Single(s)
    BY <2>1 DEF Left, Single, VersionsOf, disk, history
  <2>3. file' = file \/ \E p \in Procs : file' = lf[p]
    BY <1>13, <2>1, FetchTypes DEF SaveFails, Left, disk
  <2>4. lf' = lf /\ home' = home
    BY <2>1 DEF Left, world
  <2>5. ~Fetching(h)'
    BY <2>1 DEF Left, Idled, Others, Fetching
  <2>6. \A g \in Handlers : Fetching(g)' =>
          Fetching(g) /\ want'[g] = want[g]
    BY <2>1, <2>5 DEF Left, Others, Fetching
  <2>7. QED
    BY <2>2, <2>3, <2>4, <2>6, PinsNothing
<1>14. ASSUME NEW h \in Handlers, SkipSave(h) PROVE OneVersion'
  <2>1. Left(h)
    BY <1>14, LeaveEffect DEF SkipSave
  <2>2. \A s \in Specs : Single(s)' => Single(s)
    BY <2>1 DEF Left, Single, VersionsOf, disk, history
  <2>3. file' = file \/ \E p \in Procs : file' = lf[p]
    BY <1>14, <2>1, FetchTypes DEF SkipSave, Left, disk
  <2>4. lf' = lf /\ home' = home
    BY <2>1 DEF Left, world
  <2>5. ~Fetching(h)'
    BY <2>1 DEF Left, Idled, Others, Fetching
  <2>6. \A g \in Handlers : Fetching(g)' =>
          Fetching(g) /\ want'[g] = want[g]
    BY <2>1, <2>5 DEF Left, Others, Fetching
  <2>7. QED
    BY <2>2, <2>3, <2>4, <2>6, PinsNothing
<1>15. ASSUME UNCHANGED vars PROVE OneVersion'
  BY <1>15 DEF vars, world, disk, procs, local, history, OneVersion, Single,
    Name, Fetching, VersionsOf
<1>16. QED
  BY <1>1, <1>2, <1>3, <1>4, <1>5, <1>6, <1>7, <1>8, <1>9, <1>10, <1>11,
    <1>12, <1>13, <1>14, <1>15 DEF Next

(* Every step leaves processes that do not run at rest.                    *)
LEMMA RestStep ==
  ASSUME TypeOK, AtRest, [Next]_vars
  PROVE  AtRest'
<1>1. ASSUME NEW s \in Specs, Release(s) PROVE AtRest'
  BY <1>1 DEF Release, disk, procs, local, history, TypeOK, AtRest
<1>2. ASSUME NEW p \in Procs, Start(p) PROVE AtRest'
  <2>1. \A q \in Procs \ running' : lf'[q] = {}
    BY <1>2 DEF Start, TypeOK, AtRest
  <2>2. \A b \in Builds \ running' : served'[b] = {}
    BY <1>2 DEF Start, AtRest
  <2>3. \A q \in alone' : running' \cap Builds = {q}
    <3>1. CASE p \in Devs
      BY <1>2, <3>1, OnDemandAssumption DEF Start, AtRest
    <3>2. CASE p \in Builds
      BY <1>2, <3>2, OnDemandAssumption DEF Start, AtRest
    <3>3. QED
      BY <1>2, <3>1, <3>2 DEF Procs
  <2>4. QED
    BY <2>1, <2>2, <2>3 DEF AtRest
<1>3. ASSUME NEW p \in Procs, Finish(p) PROVE AtRest'
  BY <1>3 DEF Finish, Mine, End, world, disk, local, TypeOK, AtRest
<1>4. ASSUME NEW p \in Procs, Kill(p) PROVE AtRest'
  BY <1>4 DEF Kill, Mine, End, world, disk, TypeOK, AtRest
<1>5. ASSUME NEW h \in Handlers, NEW i \in Imports, Import(h, i) PROVE
  AtRest'
  BY <1>5 DEF Import, GoTo, disk, procs, history, TypeOK, AtRest
<1>6. ASSUME NEW h \in Handlers, Resolve(h) PROVE AtRest'
  BY <1>6 DEF Resolve, Refuse, Ready, GoTo, VersionsOf, world, disk, TypeOK,
    AtRest
<1>7. ASSUME NEW h \in Handlers, Get(h) PROVE AtRest'
  BY <1>7 DEF Get, Answer, Refuse, Ready, GoTo, InDev, world, disk, history,
    TypeOK, AtRest
<1>8. ASSUME NEW h \in Handlers, Fetch(h) PROVE AtRest'
  BY <1>8 DEF Fetch, GoTo, world, procs, history, TypeOK, AtRest
<1>9. ASSUME NEW h \in Handlers, FetchFails(h) PROVE AtRest'
  BY <1>9 DEF FetchFails, Refuse, Ready, history, TypeOK, AtRest
<1>10. ASSUME NEW h \in Handlers, Add(h) PROVE AtRest'
  BY <1>10 DEF Add, GoTo, Root, world, disk, history, TypeOK, AtRest
<1>11. ASSUME NEW h \in Handlers, AddTransitive(h) PROVE AtRest'
  BY <1>11 DEF AddTransitive, world, disk, local, TypeOK, AtRest
<1>12. ASSUME NEW h \in Handlers, Save(h) PROVE AtRest'
  <2>1. Left(h)
    BY <1>12, LeaveEffect DEF Save
  <2>2. QED
    BY <1>12, <2>1 DEF Save, Left, Others, Idled, Answered, TypeOK, history,
      AtRest
<1>13. ASSUME NEW h \in Handlers, SaveFails(h) PROVE AtRest'
  <2>1. Left(h)
    BY <1>13, LeaveEffect DEF SaveFails
  <2>2. QED
    BY <1>13, <2>1 DEF SaveFails, Left, Others, Idled, Answered, TypeOK,
      history, AtRest
<1>14. ASSUME NEW h \in Handlers, SkipSave(h) PROVE AtRest'
  <2>1. Left(h)
    BY <1>14, LeaveEffect DEF SkipSave
  <2>2. QED
    BY <1>14, <2>1 DEF SkipSave, Left, Others, Idled, Answered, TypeOK,
      history, AtRest
<1>15. ASSUME UNCHANGED vars PROVE AtRest'
  BY <1>15 DEF vars, world, disk, procs, local, history, AtRest
<1>16. QED
  BY <1>1, <1>2, <1>3, <1>4, <1>5, <1>6, <1>7, <1>8, <1>9, <1>10, <1>11,
    <1>12, <1>13, <1>14, <1>15 DEF Next

(* Every step answers with what is pinned.                                 *)
LEMMA ServedStep ==
  ASSUME TypeOK, AtRest, AsksForPinned, ServedIsPinned, [Next]_vars
  PROVE  ServedIsPinned'
<1>1. ASSUME NEW s \in Specs, Release(s) PROVE ServedIsPinned'
  BY <1>1 DEF Release, disk, procs, local, history, TypeOK, ServedIsPinned,
    Name, Settled
<1>2. ASSUME NEW p \in Procs, Start(p) PROVE ServedIsPinned'
  BY <1>2 DEF Start, Mine, world, disk, local, TypeOK, AtRest,
    AsksForPinned, ServedIsPinned, Name, Settled
<1>3. ASSUME NEW p \in Procs, Finish(p) PROVE ServedIsPinned'
  BY <1>3 DEF Finish, Mine, End, world, disk, local, TypeOK, ServedIsPinned,
    Name, Settled
<1>4. ASSUME NEW p \in Procs, Kill(p) PROVE ServedIsPinned'
  BY <1>4 DEF Kill, Mine, End, world, disk, TypeOK, ServedIsPinned, Name,
    Settled
<1>5. ASSUME NEW h \in Handlers, NEW i \in Imports, Import(h, i) PROVE
  ServedIsPinned'
  BY <1>5 DEF Import, GoTo, disk, procs, history, TypeOK, ServedIsPinned,
    Name, Settled
<1>6. ASSUME NEW h \in Handlers, Resolve(h) PROVE ServedIsPinned'
  <2>1. Resolved(h)
    BY <1>6, ResolveEffect
  <2>2. \A g \in Handlers \ {h} : Settled(g)' =>
          /\ Settled(g) /\ want'[g] = want[g] /\ ver'[g] = ver[g]
    BY <2>1 DEF Resolved, Others, Settled
  <2>3. Settled(h)' => /\ want'[h] = want[h]
                      /\ <<Name(h), ver'[h]>> \in lf[home[h]]
    <3>1. CASE Goes(h, "fetch") /\ job'[h] = "root"
      BY <3>1 DEF Settled, Goes
    <3>2. CASE /\ VersionsOf(lf[home[h]], Name(h)) = {ver'[h]}
               /\ Goes(h, "get")
      <4>1. ver'[h] \in VersionsOf(lf[home[h]], Name(h))
        BY <3>2
      <4>2. QED
        BY <3>2, <4>1 DEF VersionsOf, Goes
    <3>3. CASE Idled(h)
      BY <3>3 DEF Settled, Idled
    <3>4. QED
      BY <2>1, <3>1, <3>2, <3>3 DEF Resolved
  <2>4. lf' = lf /\ home' = home /\ served' = served
    BY <2>1 DEF Resolved, world
  <2>5. QED
    BY <2>2, <2>3, <2>4 DEF ServedIsPinned, Name
<1>7. ASSUME NEW h \in Handlers, Get(h) PROVE ServedIsPinned'
  <2>1. Got(h)
    BY <1>7, GetEffect
  <2>2. \A g \in Handlers : Settled(g)' =>
          /\ Settled(g) /\ want'[g] = want[g] /\ ver'[g] = ver[g]
    BY <2>1 DEF Got, Goes, Others, Idled, Settled
  <2>3. lf' = lf /\ home' = home
    BY <2>1 DEF Got, world
  <2>4. \A b \in Builds : served'[b] \subseteq lf[b]
    <3>1. job[h] # "path" => Settled(h)
      BY <2>1 DEF Got, Settled, TypeOK, Jobs, AsksForPinned
    <3>2. job[h] # "path" => <<Name(h), ver[h]>> \in lf[home[h]]
      BY <3>1 DEF ServedIsPinned
    <3>3. QED
      BY <2>1, <3>2 DEF Got, Answered, ServedIsPinned
  <2>5. QED
    BY <2>2, <2>3, <2>4 DEF ServedIsPinned, Name
<1>8. ASSUME NEW h \in Handlers, Fetch(h) PROVE ServedIsPinned'
  <2>1. Has(h)
    BY <1>8, FetchEffect
  <2>2. job[h] \in {"pinned", "join"} => Fetched(h)[2] = ver[h]
    BY DEF Fetched
  <2>3. \A g \in Handlers : Settled(g)' =>
          /\ Settled(g) /\ want'[g] = want[g] /\ ver'[g] = ver[g]
    BY <2>1, <2>2 DEF Has, Goes, Others, Settled
  <2>4. lf' = lf /\ home' = home /\ served' = served
    BY <2>1 DEF Has, world, procs
  <2>5. QED
    BY <2>3, <2>4 DEF ServedIsPinned, Name
<1>9. ASSUME NEW h \in Handlers, FetchFails(h) PROVE ServedIsPinned'
  BY <1>9 DEF FetchFails, Refuse, Ready, history, TypeOK, ServedIsPinned,
    Name, Settled
<1>10. ASSUME NEW h \in Handlers, Add(h) PROVE ServedIsPinned'
  BY <1>10 DEF Add, GoTo, Root, world, disk, history, TypeOK,
    ServedIsPinned, Name, Settled
<1>11. ASSUME NEW h \in Handlers, AddTransitive(h) PROVE ServedIsPinned'
  BY <1>11 DEF AddTransitive, world, disk, local, TypeOK, ServedIsPinned,
    Name, Settled
<1>12. ASSUME NEW h \in Handlers, Save(h) PROVE ServedIsPinned'
  <2>1. Left(h)
    BY <1>12, LeaveEffect DEF Save
  <2>2. \A g \in Handlers : Settled(g)' =>
          /\ Settled(g) /\ want'[g] = want[g] /\ ver'[g] = ver[g]
    BY <2>1 DEF Left, Others, Idled, Settled
  <2>3. lf' = lf /\ home' = home
    BY <2>1 DEF Left
  <2>4. \A b \in Builds : served'[b] \subseteq lf[b]
    <3>1. job[h] # "path" => Settled(h)
      BY <2>1 DEF Left, Settled, TypeOK, Jobs, AsksForPinned
    <3>2. job[h] # "path" => <<Name(h), ver[h]>> \in lf[home[h]]
      BY <3>1 DEF ServedIsPinned
    <3>3. QED
      BY <2>1, <3>2 DEF Left, Answered, ServedIsPinned
  <2>5. QED
    BY <2>2, <2>3, <2>4 DEF ServedIsPinned, Name
<1>13. ASSUME NEW h \in Handlers, SaveFails(h) PROVE ServedIsPinned'
  <2>1. Left(h)
    BY <1>13, LeaveEffect DEF SaveFails
  <2>2. \A g \in Handlers : Settled(g)' =>
          /\ Settled(g) /\ want'[g] = want[g] /\ ver'[g] = ver[g]
    BY <2>1 DEF Left, Others, Idled, Settled
  <2>3. lf' = lf /\ home' = home
    BY <2>1 DEF Left
  <2>4. \A b \in Builds : served'[b] \subseteq lf[b]
    <3>1. job[h] # "path" => Settled(h)
      BY <2>1 DEF Left, Settled, TypeOK, Jobs, AsksForPinned
    <3>2. job[h] # "path" => <<Name(h), ver[h]>> \in lf[home[h]]
      BY <3>1 DEF ServedIsPinned
    <3>3. QED
      BY <2>1, <3>2 DEF Left, Answered, ServedIsPinned
  <2>5. QED
    BY <2>2, <2>3, <2>4 DEF ServedIsPinned, Name
<1>14. ASSUME NEW h \in Handlers, SkipSave(h) PROVE ServedIsPinned'
  <2>1. Left(h)
    BY <1>14, LeaveEffect DEF SkipSave
  <2>2. \A g \in Handlers : Settled(g)' =>
          /\ Settled(g) /\ want'[g] = want[g] /\ ver'[g] = ver[g]
    BY <2>1 DEF Left, Others, Idled, Settled
  <2>3. lf' = lf /\ home' = home
    BY <2>1 DEF Left
  <2>4. \A b \in Builds : served'[b] \subseteq lf[b]
    <3>1. job[h] # "path" => Settled(h)
      BY <2>1 DEF Left, Settled, TypeOK, Jobs, AsksForPinned
    <3>2. job[h] # "path" => <<Name(h), ver[h]>> \in lf[home[h]]
      BY <3>1 DEF ServedIsPinned
    <3>3. QED
      BY <2>1, <3>2 DEF Left, Answered, ServedIsPinned
  <2>5. QED
    BY <2>2, <2>3, <2>4 DEF ServedIsPinned, Name
<1>15. ASSUME UNCHANGED vars PROVE ServedIsPinned'
  BY <1>15 DEF vars, world, disk, procs, local, history, ServedIsPinned,
    Name, Settled
<1>16. QED
  BY <1>1, <1>2, <1>3, <1>4, <1>5, <1>6, <1>7, <1>8, <1>9, <1>10, <1>11,
    <1>12, <1>13, <1>14, <1>15 DEF Next

(* Every step of a build that is alone leads to a save.                    *)
LEMMA SavedStep ==
  ASSUME TypeOK, AtRest, SavedAlone, [Next]_vars
  PROVE  SavedAlone'
<1>1. ASSUME NEW s \in Specs, Release(s) PROVE SavedAlone'
  BY <1>1 DEF Release, disk, procs, local, history, TypeOK, SavedAlone, Mine
<1>2. ASSUME NEW p \in Procs, Start(p) PROVE SavedAlone'
  BY <1>2 DEF Start, Mine, world, disk, local, TypeOK, SavedAlone
<1>3. ASSUME NEW p \in Procs, Finish(p) PROVE SavedAlone'
  BY <1>3 DEF Finish, Mine, End, world, disk, local, TypeOK, SavedAlone
<1>4. ASSUME NEW p \in Procs, Kill(p) PROVE SavedAlone'
  BY <1>4 DEF Kill, Mine, End, world, disk, TypeOK, SavedAlone
<1>5. ASSUME NEW h \in Handlers, NEW i \in Imports, Import(h, i) PROVE
  SavedAlone'
  BY <1>5 DEF Import, GoTo, disk, procs, history, TypeOK, SavedAlone, Mine
<1>6. ASSUME NEW h \in Handlers, Resolve(h) PROVE SavedAlone'
  BY <1>6 DEF Resolve, Refuse, Ready, GoTo, VersionsOf, world, disk, TypeOK,
    SavedAlone, Mine
<1>7. ASSUME NEW h \in Handlers, Get(h) PROVE SavedAlone'
  BY <1>7 DEF Get, Answer, Refuse, Ready, GoTo, InDev, world, disk, history,
    TypeOK, SavedAlone, Mine
<1>8. ASSUME NEW h \in Handlers, Fetch(h) PROVE SavedAlone'
  BY <1>8 DEF Fetch, GoTo, world, procs, history, TypeOK, SavedAlone, Mine
<1>9. ASSUME NEW h \in Handlers, FetchFails(h) PROVE SavedAlone'
  BY <1>9 DEF FetchFails, Refuse, Ready, history, TypeOK, SavedAlone, Mine
<1>10. ASSUME NEW h \in Handlers, Add(h) PROVE SavedAlone'
  BY <1>10 DEF Add, GoTo, Root, world, disk, history, TypeOK, SavedAlone,
    Mine
<1>11. ASSUME NEW h \in Handlers, AddTransitive(h) PROVE SavedAlone'
  BY <1>11 DEF AddTransitive, world, disk, local, TypeOK, SavedAlone, Mine
<1>12. ASSUME NEW h \in Handlers, Save(h) PROVE SavedAlone'
  <2>1. Left(h)
    BY <1>12, LeaveEffect DEF Save
  <2>2. home[h] \in running \cap Builds
    BY <1>12, <2>1, FetchTypes DEF Save, Left, InDev, Procs, TypeOK
  <2>3. \A p \in alone : p = home[h]
    BY <2>2 DEF AtRest
  <2>4. QED
    BY <1>12, <2>1, <2>3 DEF Save, Left, history, SavedAlone
<1>13. ASSUME NEW h \in Handlers, SaveFails(h) PROVE SavedAlone'
  <2>1. Left(h)
    BY <1>13, LeaveEffect DEF SaveFails
  <2>2. QED
    BY <1>13, <2>1 DEF SaveFails, Left, Others, Idled, Answered, history,
      TypeOK, SavedAlone, Mine
<1>14. ASSUME NEW h \in Handlers, SkipSave(h) PROVE SavedAlone'
  <2>1. Left(h)
    BY <1>14, LeaveEffect DEF SkipSave
  <2>2. \A p \in alone : h \notin Mine(p)
    BY <1>14, OnDemandAssumption DEF SkipSave, InDev, Mine, TypeOK
  <2>3. \A p \in alone : \A g \in Mine(p) : pc'[g] = pc[g]
    BY <2>1, <2>2 DEF Left, Others, Mine
  <2>4. \A p \in Procs : Mine(p)' = Mine(p)
    BY <2>1 DEF Left, Mine
  <2>5. QED
    BY <1>14, <2>1, <2>3 DEF SkipSave, Left, history, SavedAlone, Mine
<1>15. ASSUME UNCHANGED vars PROVE SavedAlone'
  BY <1>15 DEF vars, world, disk, procs, local, history, SavedAlone, Mine
<1>16. QED
  BY <1>1, <1>2, <1>3, <1>4, <1>5, <1>6, <1>7, <1>8, <1>9, <1>10, <1>11,
    <1>12, <1>13, <1>14, <1>15 DEF Next

(* Every step keeps and uses the pins of the last good build.              *)
LEMMA LastStep ==
  ASSUME TypeOK, AtRest, ServedIsPinned, SavedAlone, LastPins, [Next]_vars
  PROVE  LastPins'
<1>1. ASSUME NEW s \in Specs, Release(s) PROVE LastPins'
  BY <1>1 DEF Release, disk, procs, local, history, TypeOK, LastPins, Name,
    Settled
<1>2. ASSUME NEW p \in Procs, Start(p) PROVE LastPins'
  BY <1>2 DEF Start, Mine, world, disk, local, TypeOK, LastPins, Name,
    Settled
<1>3. ASSUME NEW p \in Procs, Finish(p) PROVE LastPins'
  BY <1>3 DEF Finish, Mine, End, world, disk, local, TypeOK, AtRest,
    ServedIsPinned, SavedAlone, LastPins, Name, Settled
<1>4. ASSUME NEW p \in Procs, Kill(p) PROVE LastPins'
  BY <1>4 DEF Kill, Mine, End, world, disk, TypeOK, LastPins, Name, Settled
<1>5. ASSUME NEW h \in Handlers, NEW i \in Imports, Import(h, i) PROVE
  LastPins'
  BY <1>5 DEF Import, GoTo, disk, procs, history, TypeOK, LastPins, Name,
    Settled
<1>6. ASSUME NEW h \in Handlers, Resolve(h) PROVE LastPins'
  <2>1. Resolved(h)
    BY <1>6, ResolveEffect
  <2>2. last' = last /\ file' = file /\ lf' = lf /\ running' = running
        /\ home' = home
    BY <2>1 DEF Resolved, disk, world
  <2>3. SUFFICES ASSUME NEW g \in Handlers, NEW b \in last,
                        home[g] \in Builds, b[1] = want'[g][1],
                        pc'[g] \in {"get", "fetch", "add", "locked"}
        PROVE  /\ job'[g] # "root"
               /\ job'[g] \in {"pinned", "join"} => ver'[g] = b[2]
    BY <2>2 DEF LastPins, Name
  <2>4. CASE g # h
    BY <2>1, <2>3, <2>4 DEF Resolved, Others, LastPins, Name
  <2>5. CASE g = h
    <3>1. pc'[h] # "idle" /\ want'[h] = want[h] /\ home[h] \in running
      BY <2>1, <2>3, <2>5 DEF Resolved, Goes, Idled, TypeOK
    <3>2. b \in lf[home[h]]
      BY <2>3, <2>5, <3>1 DEF LastPins
    <3>3. b[2] \in Versions /\ b = <<b[1], b[2]>>
      BY <2>3 DEF TypeOK, Pins
    <3>4. b[2] \in VersionsOf(lf[home[h]], Name(h))
      BY <2>3, <2>5, <3>1, <3>2, <3>3 DEF VersionsOf, Name
    <3>5. QED
      BY <2>1, <2>5, <3>1, <3>4 DEF Resolved, Idled
  <2>6. QED
    BY <2>4, <2>5
<1>7. ASSUME NEW h \in Handlers, Get(h) PROVE LastPins'
  BY <1>7 DEF Get, Answer, Refuse, Ready, GoTo, InDev, world, disk, history,
    TypeOK, LastPins, Name, Settled
<1>8. ASSUME NEW h \in Handlers, Fetch(h) PROVE LastPins'
  <2>1. Has(h)
    BY <1>8, FetchEffect
  <2>2. job[h] \in {"pinned", "join"} => Fetched(h)[2] = ver[h]
    BY DEF Fetched
  <2>3. last' = last /\ file' = file /\ lf' = lf /\ running' = running
        /\ home' = home
    BY <2>1 DEF Has, procs, history, world
  <2>4. \A g \in Handlers : pc'[g] \in {"get", "fetch", "add", "locked"} =>
          /\ pc[g] \in {"get", "fetch", "add", "locked"}
          /\ want'[g] = want[g] /\ job'[g] = job[g]
          /\ job[g] \in {"pinned", "join"} => ver'[g] = ver[g]
    BY <2>1, <2>2 DEF Has, Goes, Others
  <2>5. QED
    BY <2>3, <2>4 DEF LastPins, Name
<1>9. ASSUME NEW h \in Handlers, FetchFails(h) PROVE LastPins'
  BY <1>9 DEF FetchFails, Refuse, Ready, history, TypeOK, LastPins, Name,
    Settled
<1>10. ASSUME NEW h \in Handlers, Add(h) PROVE LastPins'
  BY <1>10 DEF Add, GoTo, Root, world, disk, history, TypeOK, LastPins,
    Name, Settled
<1>11. ASSUME NEW h \in Handlers, AddTransitive(h) PROVE LastPins'
  BY <1>11 DEF AddTransitive, world, disk, local, TypeOK, LastPins, Name,
    Settled
<1>12. ASSUME NEW h \in Handlers, Save(h) PROVE LastPins'
  <2>1. Left(h)
    BY <1>12, LeaveEffect DEF Save
  <2>2. home[h] \in running \cap Builds
    BY <1>12, <2>1, FetchTypes DEF Save, Left, InDev, Procs, TypeOK
  <2>3. /\ last' = last /\ lf' = lf /\ running' = running /\ home' = home
        /\ file' = lf[home[h]]
    BY <1>12, <2>1 DEF Left, history, Save
  <2>4. \A g \in Handlers, b \in last :
          (/\ home[g] \in Builds /\ b[1] = want'[g][1]
           /\ pc'[g] \in {"get", "fetch", "add", "locked"})
          => /\ want'[g] = want[g] /\ job'[g] = job[g] /\ ver'[g] = ver[g]
             /\ pc[g] \in {"get", "fetch", "add", "locked"}
    BY <2>1 DEF Left, Idled, Others, LastPins, Name
  <2>5. QED
    BY <2>2, <2>3, <2>4 DEF LastPins, Name
<1>13. ASSUME NEW h \in Handlers, SaveFails(h) PROVE LastPins'
  <2>1. Left(h)
    BY <1>13, LeaveEffect DEF SaveFails
  <2>2. QED
    BY <1>13, <2>1 DEF SaveFails, Left, Others, Idled, Answered, history,
      TypeOK, AtRest, SavedAlone, LastPins, Name
<1>14. ASSUME NEW h \in Handlers, SkipSave(h) PROVE LastPins'
  <2>1. Left(h)
    BY <1>14, LeaveEffect DEF SkipSave
  <2>2. QED
    BY <1>14, <2>1 DEF SkipSave, Left, Others, Idled, Answered, history,
      TypeOK, AtRest, SavedAlone, LastPins, Name
<1>15. ASSUME UNCHANGED vars PROVE LastPins'
  BY <1>15 DEF vars, world, disk, procs, local, history, LastPins, Name,
    Settled
<1>16. QED
  BY <1>1, <1>2, <1>3, <1>4, <1>5, <1>6, <1>7, <1>8, <1>9, <1>10, <1>11,
    <1>12, <1>13, <1>14, <1>15 DEF Next

(* Every step repeats the last good build.                                 *)
LEMMA RepeatsStep ==
  ASSUME TypeOK, AtRest, LastPins, RepeatsLast, [Next]_vars
  PROVE  RepeatsLast'
<1>1. ASSUME NEW s \in Specs, Release(s) PROVE RepeatsLast'
  BY <1>1 DEF Release, disk, procs, local, history, TypeOK, RepeatsLast,
    Name
<1>2. ASSUME NEW p \in Procs, Start(p) PROVE RepeatsLast'
  BY <1>2 DEF Start, Mine, world, disk, local, TypeOK, AtRest, LastPins,
    RepeatsLast, Name
<1>3. ASSUME NEW p \in Procs, Finish(p) PROVE RepeatsLast'
  BY <1>3 DEF Finish, Mine, End, world, disk, local, TypeOK, AtRest,
    LastPins, RepeatsLast, Name
<1>4. ASSUME NEW p \in Procs, Kill(p) PROVE RepeatsLast'
  BY <1>4 DEF Kill, Mine, End, world, disk, TypeOK, RepeatsLast, Name
<1>5. ASSUME NEW h \in Handlers, NEW i \in Imports, Import(h, i) PROVE
  RepeatsLast'
  BY <1>5 DEF Import, GoTo, disk, procs, history, TypeOK, RepeatsLast, Name
<1>6. ASSUME NEW h \in Handlers, Resolve(h) PROVE RepeatsLast'
  BY <1>6 DEF Resolve, Refuse, Ready, GoTo, VersionsOf, world, disk, TypeOK,
    RepeatsLast, Name
<1>7. ASSUME NEW h \in Handlers, Get(h) PROVE RepeatsLast'
  <2>1. Got(h)
    BY <1>7, GetEffect
  <2>2. last' = last /\ running' = running
    BY <2>1 DEF Got, history
  <2>3. SUFFICES ASSUME NEW p \in running \cap Builds, NEW x \in served'[p],
                        NEW b \in last, x[1] = b[1]
        PROVE  x[2] = b[2]
    BY <2>2 DEF RepeatsLast
  <2>4. CASE x \in served[p]
    BY <2>3, <2>4 DEF RepeatsLast
  <2>5. CASE /\ p = home[h] /\ job[h] # "path" /\ x = <<Name(h), ver[h]>>
    <3>1. job[h] # "root" /\ (job[h] \in {"pinned", "join"} => ver[h] = b[2])
      BY <2>1, <2>3, <2>5 DEF Got, LastPins
    <3>2. QED
      BY <2>5, <3>1 DEF TypeOK, Jobs
  <2>6. QED
    BY <2>1, <2>3, <2>4, <2>5 DEF Got, Answered
<1>8. ASSUME NEW h \in Handlers, Fetch(h) PROVE RepeatsLast'
  BY <1>8 DEF Fetch, GoTo, world, procs, history, TypeOK, RepeatsLast, Name
<1>9. ASSUME NEW h \in Handlers, FetchFails(h) PROVE RepeatsLast'
  BY <1>9 DEF FetchFails, Refuse, Ready, history, TypeOK, RepeatsLast, Name
<1>10. ASSUME NEW h \in Handlers, Add(h) PROVE RepeatsLast'
  BY <1>10 DEF Add, GoTo, Root, world, disk, history, TypeOK, RepeatsLast,
    Name
<1>11. ASSUME NEW h \in Handlers, AddTransitive(h) PROVE RepeatsLast'
  BY <1>11 DEF AddTransitive, world, disk, local, TypeOK, RepeatsLast, Name
<1>12. ASSUME NEW h \in Handlers, Save(h) PROVE RepeatsLast'
  <2>1. Left(h)
    BY <1>12, LeaveEffect DEF Save
  <2>2. last' = last /\ running' = running
    BY <2>1 DEF Left, history
  <2>3. SUFFICES ASSUME NEW p \in running \cap Builds, NEW x \in served'[p],
                        NEW b \in last, x[1] = b[1]
        PROVE  x[2] = b[2]
    BY <2>2 DEF RepeatsLast
  <2>4. CASE x \in served[p]
    BY <2>3, <2>4 DEF RepeatsLast
  <2>5. CASE /\ p = home[h] /\ job[h] # "path" /\ x = <<Name(h), ver[h]>>
    <3>1. job[h] # "root" /\ (job[h] \in {"pinned", "join"} => ver[h] = b[2])
      BY <2>1, <2>3, <2>5 DEF Left, LastPins
    <3>2. QED
      BY <2>5, <3>1 DEF TypeOK, Jobs
  <2>6. QED
    BY <2>1, <2>3, <2>4, <2>5 DEF Left, Answered
<1>13. ASSUME NEW h \in Handlers, SaveFails(h) PROVE RepeatsLast'
  <2>1. Left(h)
    BY <1>13, LeaveEffect DEF SaveFails
  <2>2. last' = last /\ running' = running
    BY <2>1 DEF Left, history
  <2>3. SUFFICES ASSUME NEW p \in running \cap Builds, NEW x \in served'[p],
                        NEW b \in last, x[1] = b[1]
        PROVE  x[2] = b[2]
    BY <2>2 DEF RepeatsLast
  <2>4. CASE x \in served[p]
    BY <2>3, <2>4 DEF RepeatsLast
  <2>5. CASE /\ p = home[h] /\ job[h] # "path" /\ x = <<Name(h), ver[h]>>
    <3>1. job[h] # "root" /\ (job[h] \in {"pinned", "join"} => ver[h] = b[2])
      BY <2>1, <2>3, <2>5 DEF Left, LastPins
    <3>2. QED
      BY <2>5, <3>1 DEF TypeOK, Jobs
  <2>6. QED
    BY <2>1, <2>3, <2>4, <2>5 DEF Left, Answered
<1>14. ASSUME NEW h \in Handlers, SkipSave(h) PROVE RepeatsLast'
  <2>1. Left(h)
    BY <1>14, LeaveEffect DEF SkipSave
  <2>2. last' = last /\ running' = running
    BY <2>1 DEF Left, history
  <2>3. SUFFICES ASSUME NEW p \in running \cap Builds, NEW x \in served'[p],
                        NEW b \in last, x[1] = b[1]
        PROVE  x[2] = b[2]
    BY <2>2 DEF RepeatsLast
  <2>4. CASE x \in served[p]
    BY <2>3, <2>4 DEF RepeatsLast
  <2>5. CASE /\ p = home[h] /\ job[h] # "path" /\ x = <<Name(h), ver[h]>>
    <3>1. job[h] # "root" /\ (job[h] \in {"pinned", "join"} => ver[h] = b[2])
      BY <2>1, <2>3, <2>5 DEF Left, LastPins
    <3>2. QED
      BY <2>5, <3>1 DEF TypeOK, Jobs
  <2>6. QED
    BY <2>1, <2>3, <2>4, <2>5 DEF Left, Answered
<1>15. ASSUME UNCHANGED vars PROVE RepeatsLast'
  BY <1>15 DEF vars, world, disk, procs, local, history, RepeatsLast, Name
<1>16. QED
  BY <1>1, <1>2, <1>3, <1>4, <1>5, <1>6, <1>7, <1>8, <1>9, <1>10, <1>11,
    <1>12, <1>13, <1>14, <1>15 DEF Next

-----------------------------------------------------------------------------
(* The invariant holds of a fresh clone.                                   *)
LEMMA Initially == Init => IInv
<1>1. SUFFICES ASSUME Init PROVE IInv
  OBVIOUS
<1>2. TypeOK
  <2>1. shipped \subseteq Pins
    BY <1>1, OnDemandAssumption DEF Init
  <2>2. newest \in [Specs -> Versions]
    BY <1>1, Values DEF Init
  <2>3. imports \in 0 .. MaxImports /\ faults \in 0 .. MaxFaults
    BY <1>1, Values DEF Init
  <2>4. QED
    BY <1>1, <2>1, <2>2, <2>3, Values DEF Init, TypeOK, PCs, Jobs
<1>3. FetchedFirst /\ PinsAreCached
  BY <1>1 DEF Init, FetchedFirst, PinsAreCached
<1>4. AsksForPinned /\ OneVersion
  <2>1. \A p \in Procs, s \in Specs : VersionsOf(lf[p], s) = {}
    BY <1>1 DEF Init, VersionsOf
  <2>2. \A h \in Handlers : ~Fetching(h)
    BY <1>1 DEF Init, Fetching
  <2>3. QED
    BY <1>1, <2>1, <2>2 DEF Init, OneVersion, Single,
      AsksForPinned
<1>5. AtRest /\ ServedIsPinned /\ SavedAlone
  <2>1. \A h \in Handlers : ~Settled(h)
    BY <1>1 DEF Init, Settled
  <2>2. \A b \in Builds : served[b] = {} /\ \A p \in Procs : lf[p] = {}
    BY <1>1 DEF Init
  <2>3. alone = {}
    BY <1>1 DEF Init
  <2>4. AtRest /\ SavedAlone
    BY <1>1, <2>2, <2>3 DEF Init, AtRest, SavedAlone
  <2>5. ServedIsPinned
    BY <2>1, <2>2 DEF ServedIsPinned
  <2>6. QED
    BY <2>4, <2>5
<1>6. LastPins /\ RepeatsLast
  BY <1>1 DEF Init, LastPins, RepeatsLast
<1>7. QED
  BY <1>2, <1>3, <1>4, <1>5, <1>6 DEF IInv

(* Every step keeps it.                                                    *)
LEMMA Inductive == IInv /\ [Next]_vars => IInv'
<1>1. SUFFICES ASSUME IInv, [Next]_vars PROVE IInv'
  OBVIOUS
<1>2. TypeOK' /\ FetchedFirst' /\ PinsAreCached'
  BY <1>1, Types, FetchedStep, CachedStep DEF IInv
<1>3. AsksForPinned' /\ OneVersion' /\ AtRest' /\ ServedIsPinned'
  BY <1>1, AsksStep, OneStep, RestStep, ServedStep DEF IInv
<1>4. SavedAlone' /\ LastPins' /\ RepeatsLast'
  BY <1>1, SavedStep, LastStep, RepeatsStep DEF IInv
<1>5. QED
  BY <1>2, <1>3, <1>4 DEF IInv

(* Processes keep the invariant for as long as they run.                   *)
THEOREM Invariance == Spec => []IInv
BY Initially, Inductive, PTL DEF Spec

(* The variables keep their types, however processes overlap and fail.     *)
THEOREM TypeCorrect == Spec => []TypeOK
<1>1. IInv => TypeOK
  BY DEF IInv
<1>2. QED
  BY <1>1, Invariance, PTL

(* A second version of a package in a lockfile has one of the origins that *)
(* PinsExplained lists (build.go, newOnDemandFetch; resolver.go).          *)
THEOREM Explained == Spec => []PinsExplained
<1>1. IInv => PinsExplained
  <2>1. SUFFICES ASSUME IInv, NEW p \in Procs, NEW s \in Specs,
                        Cardinality(VersionsOf(lf[p], s)) > 1
        PROVE  \/ s \in raced \union dragged
               \/ \E v, w \in VersionsOf(shipped, s) : v # w
    BY DEF PinsExplained
  <2>2. \E v, w \in VersionsOf(lf[p], s) : v # w
    <3>1. ~(Cardinality({}) > 1)
      BY FS_EmptySet
    <3>2. VersionsOf(lf[p], s) # {}
      BY <2>1, <3>1
    <3>3. PICK v : v \in VersionsOf(lf[p], s)
      BY <3>2
    <3>4. VersionsOf(lf[p], s) # {v}
      <4>1. Cardinality({v}) = 1
        BY FS_Singleton
      <4>2. ~(1 > 1)
        OBVIOUS
      <4>3. QED
        BY <2>1, <4>1, <4>2
    <3>5. QED
      BY <3>3, <3>4
  <2>3. ~Single(s)
    BY <2>1, <2>2 DEF IInv, OneVersion
  <2>4. QED
    BY <2>3 DEF Single
<1>2. QED
  BY <1>1, Invariance, PTL

(* What this machine has pinned it has cached (build.go, newOnDemandFetch: *)
(* the fetch comes before the pin), across processes and restarts.         *)
THEOREM Cached == Spec => []PinsAreCached
<1>1. IInv => PinsAreCached
  BY DEF IInv
<1>2. QED
  BY <1>1, Invariance, PTL

(* A build that succeeded alone and saved its lockfile is repeatable, as   *)
(* long as that file is kept, whatever the registry releases.              *)
THEOREM Repeats == Spec => []Repeatable
<1>1. IInv => Repeatable
  BY DEF IInv, TypeOK, RepeatsLast, Repeatable
<1>2. QED
  BY <1>1, Invariance, PTL

=============================================================================
