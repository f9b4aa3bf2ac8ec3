------------------------------ MODULE OnDemand ------------------------------
(***************************************************************************)
(* How an import of a package gets its version: the resolver               *)
(* (internal/resolver), the lockfile (internal/lockfile) and the on-demand *)
(* hook of build.go, in several processes of one project. A build reads    *)
(* nexus.lock, resolves imports on esbuild's workers and saves the         *)
(* lockfile after each fetch; the dev server reads the same file, resolves *)
(* imports in its HTTP handlers and never saves.                           *)
(*                                                                         *)
(* A pin is a package <<s, v>> of a lockfile, found by its bare name s. An *)
(* entry for a URL or a file path is never found by a bare name and is     *)
(* left out. A blob <<s, v, sub>> is the root of a package or its subpath; *)
(* the query variants that the resolver tries in turn are one blob.        *)
(***************************************************************************)
EXTENDS Naturals, FiniteSets

CONSTANTS
  Specs,       (* bare package names                                       *)
  Latest,      (* [Specs -> Nat \ {0}], bound: the last release            *)
  Declared,    (* [Specs -> SUBSET Versions]: the range package.json gives *)
  Needs,       (* [Specs -> SUBSET Specs]: bare imports in a package's     *)
               (* body, those of its dependencies included                 *)
  Builds,      (* processes that run Build                                 *)
  Devs,        (* processes that run Dev                                   *)
  Imports,     (* the imports <<spec, has a subpath>> that are made        *)
  Handlers,    (* goroutines that resolve imports                          *)
  Homes,       (* functions [Handlers -> Procs]: who runs in which process *)
  Shipped,     (* the lockfiles a fresh clone may come with                *)
  Nobody,      (* holds no mutex                                           *)
  MaxImports,  (* bound: imports resolved in one run                       *)
  MaxFaults    (* bound: fetches and saves that fail                       *)

Versions == UNION {1 .. Latest[s] : s \in Specs}
Pins     == Specs \X Versions
Blobs    == Specs \X Versions \X BOOLEAN
NoImport == CHOOSE i \in Imports : TRUE
Procs    == Builds \union Devs

ASSUME OnDemandAssumption ==
  /\ IsFiniteSet(Specs)
  /\ Latest \in [Specs -> Nat \ {0}]
  /\ Declared \in [Specs -> SUBSET Versions]
  /\ \A s \in Specs : 1 \in Declared[s]
  /\ Needs \in [Specs -> SUBSET Specs]
  /\ Imports \subseteq Specs \X BOOLEAN
  /\ Imports # {}
  /\ Builds \cap Devs = {}
  /\ Homes \subseteq [Handlers -> Procs]
  /\ Shipped \subseteq SUBSET Pins
  /\ Nobody \notin Handlers
  /\ MaxImports \in Nat
  /\ MaxFaults \in Nat

VARIABLES
  home,     (* home[h]: the process of h                                   *)
  newest,   (* newest[s]: what the registry redirects a bare s to          *)
  imports,  (* how many more imports are resolved                          *)
  faults,   (* how many more operations fail                               *)
  cached,   (* the blobs of the store                                      *)
  shipped,  (* the pins the file came with                                 *)
  file,     (* nexus.lock                                                  *)
  running,  (* the processes that run                                      *)
  lf,       (* lf[p]: File.Packages of p                                   *)
  mutex,    (* mutex[p]: the handler inside newOnDemandFetch's mutex       *)
  unsaved,  (* the processes whose last save failed                        *)
  failed,   (* the builds with an error                                    *)
  served,   (* served[p]: the pins build p has answered imports with       *)
  pc,       (* pc[h]: the next step of h                                   *)
  want,     (* want[h]: the import h resolves, <<spec, has a subpath>>     *)
  job,      (* job[h]: what h looks up or fetches                          *)
  ver,      (* ver[h]: the version it does that at                         *)
  found,    (* found[h]: the transitive pins in the result of h's fetch    *)
  alone,    (* the builds that no other build has overlapped               *)
  last,     (* the pins of the last build that succeeded, if it was alone  *)
  raced,    (* the specs that two handlers have fetched at the same time   *)
  dragged   (* the specs pinned because another package imports them       *)

world   == <<home, newest, imports, faults>>
disk    == <<cached, shipped, file>>
procs   == <<running, lf, mutex, unsaved, failed, served>>
local   == <<pc, want, job, ver, found>>
history == <<alone, last, raced, dragged>>
vars    == <<world, disk, procs, local, history>>

PCs  == {"idle", "resolve", "get", "fetch", "add", "locked"}

(* root:   FetchOnDemand of a bare spec                                    *)
(* join:   of the subpath of the root it has just fetched                  *)
(* pinned: of the URL of a pinned package, or of its subpath               *)
(* path:   of the subpath import as it was written                         *)
Jobs == {"root", "join", "pinned", "path"}

TypeOK ==
  /\ home    \in Homes
  /\ newest  \in [Specs -> Versions]
  /\ imports \in 0 .. MaxImports
  /\ faults  \in 0 .. MaxFaults
  /\ cached  \subseteq Blobs
  /\ shipped \subseteq Pins
  /\ file    \subseteq Pins
  /\ running \subseteq Procs
  /\ lf      \in [Procs -> SUBSET Pins]
  /\ mutex   \in [Procs -> Handlers \union {Nobody}]
  /\ unsaved \subseteq Builds
  /\ failed  \subseteq Builds
  /\ served  \in [Builds -> SUBSET Pins]
  /\ pc      \in [Handlers -> PCs]
  /\ want    \in [Handlers -> Imports]
  /\ job     \in [Handlers -> Jobs]
  /\ ver     \in [Handlers -> Versions]
  /\ found   \in [Handlers -> SUBSET Pins]
  /\ alone   \subseteq Builds
  /\ last    \subseteq Pins
  /\ raced   \subseteq Specs
  /\ dragged \subseteq Specs
  /\ \A h \in Handlers : pc[h] # "idle" => home[h] \in running

Init ==
  /\ home \in Homes
  /\ newest = [s \in Specs |-> 1]
  /\ imports = MaxImports
  /\ faults = MaxFaults
  /\ cached = {}
  /\ shipped \in Shipped
  /\ file = shipped
  /\ running = {}
  /\ lf = [p \in Procs |-> {}]
  /\ mutex = [p \in Procs |-> Nobody]
  /\ unsaved = {}
  /\ failed = {}
  /\ served = [p \in Builds |-> {}]
  /\ pc = [h \in Handlers |-> "idle"]
  /\ want = [h \in Handlers |-> NoImport]
  /\ job = [h \in Handlers |-> "root"]
  /\ ver = [h \in Handlers |-> 1]
  /\ found = [h \in Handlers |-> {}]
  /\ alone = {}
  /\ last = {}
  /\ raced = {}
  /\ dragged = {}

-----------------------------------------------------------------------------
Mine(p)    == {h \in Handlers : home[h] = p}
Name(h)    == want[h][1]
Subpath(h) == want[h][2]
InDev(h)   == home[h] \in Devs

(* The versions a lockfile has of s: lockfile.Resolve(s, "") finds one,    *)
(* none (ErrNotResolved) or several (AmbiguousError).                      *)
VersionsOf(pins, s) == {v \in Versions : <<s, v>> \in pins}

(* What the registry makes of the range that pinVersion puts into the      *)
(* request for a bare spec.                                                *)
InRange(s) == {v \in Declared[s] : v <= newest[s]}
Pick(s)    == CHOOSE v \in InRange(s) : \A w \in InRange(s) : w <= v

(* A handler is done with its import. What it leaves in its variables is   *)
(* never read again.                                                       *)
Ready(h) ==
  /\ pc' = [pc EXCEPT ![h] = "idle"]
  /\ want' = [want EXCEPT ![h] = NoImport]
  /\ job' = [job EXCEPT ![h] = "root"]
  /\ ver' = [ver EXCEPT ![h] = 1]
  /\ found' = [found EXCEPT ![h] = {}]

(* The import resolves to a blob of <<s, v>>, whose URL esbuild, or the    *)
(* page, gets. A path that was fetched as written is pinned under that     *)
(* path, where no import finds it.                                         *)
Answer(h, v) ==
  /\ Ready(h)
  /\ served' = IF InDev(h) \/ job[h] = "path" THEN served
               ELSE [served EXCEPT ![home[h]] = @ \union {<<Name(h), v>>}]

(* The import fails: a build reports an error. *)
Refuse(h) ==
  /\ Ready(h)
  /\ failed' = failed \union ({home[h]} \cap Builds)

GoTo(h, l) == pc' = [pc EXCEPT ![h] = l]

-----------------------------------------------------------------------------
(* The registry publishes a version. *)
Release(s) ==
  /\ newest[s] < Latest[s]
  /\ newest' = [newest EXCEPT ![s] = @ + 1]
  /\ UNCHANGED <<home, imports, faults, disk, procs, local, history>>

(* A process starts and loads the lockfile: LoadOrNew. *)
Start(p) ==
  /\ p \notin running
  /\ Mine(p) # {}
  /\ running' = running \union {p}
  /\ lf' = [lf EXCEPT ![p] = file]
  /\ alone' = IF p \in Devs THEN alone
              ELSE IF running \cap Builds = {} THEN {p} ELSE {}
  /\ UNCHANGED <<world, disk, mutex, unsaved, failed, served, local, last,
                 raced, dragged>>

(* The memory of a process goes with it. *)
End(p) ==
  /\ running' = running \ {p}
  /\ lf' = [lf EXCEPT ![p] = {}]
  /\ served' = [b \in Builds |-> IF b = p THEN {} ELSE served[b]]
  /\ failed' = failed \ {p}
  /\ unsaved' = unsaved \ {p}
  /\ alone' = alone \ {p}

(* A build has resolved everything and ends, with an error or with output. *)
(* The pins of a build that could not save them are not expected to last.  *)
Finish(p) ==
  /\ p \in running \cap Builds
  /\ \A h \in Mine(p) : pc[h] = "idle"
  /\ End(p)
  /\ last' = IF p \in failed THEN last
             ELSE IF p \in alone \ unsaved THEN served[p] ELSE {}
  /\ UNCHANGED <<world, disk, mutex, local, raced, dragged>>

(* A process is killed, or the dev server closed. *)
Kill(p) ==
  /\ p \in running
  /\ End(p)
  /\ mutex' = [mutex EXCEPT ![p] = Nobody]
  /\ LET Idle(f, x) == [h \in Handlers |-> IF h \in Mine(p) THEN x ELSE f[h]]
     IN  /\ pc' = Idle(pc, "idle")
         /\ want' = Idle(want, NoImport)
         /\ job' = Idle(job, "root")
         /\ ver' = Idle(ver, 1)
         /\ found' = Idle(found, {})
  /\ UNCHANGED <<world, disk, last, raced, dragged>>

-----------------------------------------------------------------------------
(* A bare import reaches the resolver. *)
Import(h, i) ==
  /\ pc[h] = "idle"
  /\ home[h] \in running
  /\ imports > 0
  /\ imports' = imports - 1
  /\ want' = [want EXCEPT ![h] = i]
  /\ GoTo(h, "resolve")
  /\ UNCHANGED <<home, newest, faults, disk, procs, job, ver, found,
                 history>>

Fetching(g) == job[g] = "root" /\ pc[g] \in {"fetch", "add"}

(* The lockfile is asked for the spec, under its own lock only. *)
Resolve(h) ==
  /\ pc[h] = "resolve"
  /\ LET vs == VersionsOf(lf[home[h]], Name(h))
     IN  \/ /\ vs = {}
            /\ job' = [job EXCEPT ![h] = "root"]
            /\ GoTo(h, "fetch")
            /\ raced' = IF \E g \in Mine(home[h]) \ {h} :
                             Name(g) = Name(h) /\ Fetching(g)
                        THEN raced \union {Name(h)} ELSE raced
            /\ UNCHANGED <<failed, want, ver, found>>
         \/ /\ Cardinality(vs) = 1
            /\ job' = [job EXCEPT ![h] = "pinned"]
            /\ ver' = [ver EXCEPT ![h] = CHOOSE v \in vs : TRUE]
            /\ GoTo(h, "get")
            /\ UNCHANGED <<failed, want, found, raced>>
         \/ /\ Cardinality(vs) > 1
            /\ Refuse(h)
            /\ UNCHANGED raced
  /\ UNCHANGED <<world, disk, running, lf, mutex, unsaved, served, alone,
                 last, dragged>>

MutGetRefetchesSpec(h) ==
  /\ pc[h] = "get"
  /\ <<Name(h), ver[h], Subpath(h)>> \notin cached
  /\ job' = [job EXCEPT ![h] = "root"]
  /\ GoTo(h, "fetch")
  /\ UNCHANGED <<world, disk, procs, want, ver, found, history>>

(* The store is asked for the blob. On a miss of a pinned package's root   *)
(* a build gives up; the dev server, and either for a subpath, fetches.    *)
Get(h) ==
  /\ pc[h] = "get"
  /\ \/ /\ <<Name(h), ver[h], Subpath(h)>> \in cached
        /\ Answer(h, ver[h])
        /\ UNCHANGED failed
     \/ /\ <<Name(h), ver[h], Subpath(h)>> \notin cached
        /\ InDev(h) \/ Subpath(h)
        /\ GoTo(h, "fetch")
        /\ UNCHANGED <<served, failed, want, job, ver, found>>
     \/ /\ <<Name(h), ver[h], Subpath(h)>> \notin cached
        /\ ~InDev(h) /\ ~Subpath(h)
        /\ Refuse(h)
        /\ UNCHANGED served
  /\ UNCHANGED <<world, disk, running, lf, mutex, unsaved, history>>

-----------------------------------------------------------------------------
(* What FetchOnDemand asks the registry for. *)
Fetched(h) ==
  CASE job[h] = "root" -> <<Name(h), Pick(Name(h)), FALSE>>
    [] job[h] = "path" -> <<Name(h), newest[Name(h)], TRUE>>
    [] OTHER           -> <<Name(h), ver[h], Subpath(h)>>

(* The walk follows the bare imports of a body too, and unpinned: nobody   *)
(* sets Fetcher.PinnedVersions.                                            *)
Dragged(h)   == {<<s, newest[s]>> : s \in Needs[Name(h)]}
Downloads(h) == {Fetched(h)} \union {<<d[1], d[2], FALSE>> : d \in Dragged(h)}

MutFetchRootOnly(h) ==
  /\ pc[h] = "fetch"
  /\ cached' = cached \union {Fetched(h)}
  /\ ver' = [ver EXCEPT ![h] = Fetched(h)[2]]
  /\ found' = [found EXCEPT ![h] = Dragged(h)]
  /\ GoTo(h, "add")
  /\ UNCHANGED <<world, shipped, file, procs, want, job, history>>

(* f.Fetch succeeds, outside the mutex. *)
Fetch(h) ==
  /\ pc[h] = "fetch"
  /\ cached' = cached \union Downloads(h)
  /\ ver' = [ver EXCEPT ![h] = Fetched(h)[2]]
  /\ found' = [found EXCEPT ![h] = Dragged(h)]
  /\ GoTo(h, "add")
  /\ UNCHANGED <<world, shipped, file, procs, want, job, history>>

(* f.Fetch fails, with part of the blobs stored. An import of a subpath is *)
(* tried once more, as it was written.                                     *)
FetchFails(h) ==
  /\ pc[h] = "fetch"
  /\ faults > 0
  /\ faults' = faults - 1
  /\ \E S \in (SUBSET Downloads(h)) \ {Downloads(h)} :
       cached' = cached \union S
  /\ \/ /\ Subpath(h) /\ job[h] \in {"root", "join"}
        /\ job' = [job EXCEPT ![h] = "path"]
        /\ UNCHANGED <<failed, pc, want, ver, found>>
     \/ /\ ~Subpath(h) \/ job[h] \in {"pinned", "path"}
        /\ Refuse(h)
  /\ UNCHANGED <<home, newest, imports, shipped, file, running, lf, mutex,
                 unsaved, served, history>>

(* The root of a result is found by its bare name only if it was fetched   *)
(* by that.                                                                *)
Root(h) == IF job[h] = "root" THEN {<<Name(h), ver[h]>>} ELSE {}

(* What follows when the hook has returned. *)
Return(h) ==
  \/ /\ job[h] = "root" /\ Subpath(h)
     /\ job' = [job EXCEPT ![h] = "join"]
     /\ GoTo(h, IF InDev(h) THEN "get" ELSE "fetch")
     /\ found' = [found EXCEPT ![h] = {}]
     /\ UNCHANGED <<served, want, ver>>
  \/ /\ ~(job[h] = "root" /\ Subpath(h))
     /\ Answer(h, ver[h])

(* The hook takes its mutex and adds the root of the result. *)
Add(h) ==
  /\ pc[h] = "add"
  /\ mutex[home[h]] = Nobody
  /\ mutex' = [mutex EXCEPT ![home[h]] = h]
  /\ lf' = [lf EXCEPT ![home[h]] = @ \union Root(h)]
  /\ GoTo(h, "locked")
  /\ UNCHANGED <<world, disk, running, unsaved, failed, served, want, job,
                 ver, found, history>>

(* Then the transitive packages one by one, between two of which others    *)
(* look into the lockfile.                                                 *)
AddTransitive(h) ==
  /\ pc[h] = "locked"
  /\ \E d \in found[h] \ lf[home[h]] :
       /\ lf' = [lf EXCEPT ![home[h]] = @ \union {d}]
       /\ dragged' = dragged \union {d[1]}
  /\ UNCHANGED <<world, disk, running, mutex, unsaved, failed, served, local,
                 alone, last, raced>>

(* The handler inside the mutex has added everything and leaves. *)
Leave(h) ==
  /\ pc[h] = "locked"
  /\ found[h] \subseteq lf[home[h]]
  /\ mutex' = [mutex EXCEPT ![home[h]] = Nobody]
  /\ Return(h)
  /\ UNCHANGED <<home, newest, imports, cached, shipped, running, lf, failed,
                 history>>

MutSaveInDevToo(h) ==
  /\ file' = lf[home[h]]
  /\ unsaved' = unsaved \ {home[h]}
  /\ Leave(h)
  /\ UNCHANGED faults

(* File.Save: the mutex keeps others from adding between File.Bytes and    *)
(* the rename.                                                             *)
Save(h) ==
  /\ ~InDev(h)
  /\ file' = lf[home[h]]
  /\ unsaved' = unsaved \ {home[h]}
  /\ Leave(h)
  /\ UNCHANGED faults

(* Any step of the save fails: a warning, and the import goes on. *)
SaveFails(h) ==
  /\ ~InDev(h)
  /\ faults > 0
  /\ faults' = faults - 1
  /\ unsaved' = unsaved \union {home[h]}
  /\ Leave(h)
  /\ UNCHANGED file

(* The dev server has no path to save to. *)
SkipSave(h) ==
  /\ InDev(h)
  /\ Leave(h)
  /\ UNCHANGED <<faults, file, unsaved>>

-----------------------------------------------------------------------------
Next ==
  \/ \E s \in Specs : Release(s)
  \/ \E p \in Procs : Start(p) \/ Finish(p) \/ Kill(p)
  \/ \E h \in Handlers :
       \/ \E i \in Imports : Import(h, i)
       \/ Resolve(h) \/ Get(h) \/ Fetch(h) \/ FetchFails(h)
       \/ Add(h) \/ AddTransitive(h)
       \/ Save(h) \/ SaveFails(h) \/ SkipSave(h)

Spec == Init /\ [][Next]_vars

-----------------------------------------------------------------------------
(* A package has two versions in a lockfile, which makes every further     *)
(* import of it fail, only if two handlers fetched it at the same time, or *)
(* it came in as the import of another package, or the repository came     *)
(* with both: neither a refetch of a pinned package nor a later release    *)
(* adds a second version.                                                  *)
PinsExplained ==
  \A p \in Procs, s \in Specs :
    Cardinality(VersionsOf(lf[p], s)) > 1 =>
      \/ s \in raced \union dragged
      \/ \E v, w \in VersionsOf(shipped, s) : v # w

(* What this machine has pinned it has cached: only a pin that came with   *)
(* the repository can be missing when an import finds it in the lockfile,  *)
(* however handlers, processes and failures interleave. A build relies on  *)
(* it, since it does not fetch the root of a package that is pinned.       *)
PinsAreCached ==
  \A p \in Procs : \A d \in (lf[p] \union file) \ shipped :
    <<d[1], d[2], FALSE>> \in cached

(* A build that succeeded, alone and with its lockfile saved, is           *)
(* repeatable: no later build resolves one of its packages to another      *)
(* version, whatever the registry releases and however processes were      *)
(* killed in between.                                                      *)
Repeatable ==
  \A p \in running \cap alone : \A a \in served[p], b \in last :
    a[1] = b[1] => a[2] = b[2]

=============================================================================
