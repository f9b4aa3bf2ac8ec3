-------------------------------- MODULE Dist --------------------------------
(***************************************************************************)
(* The output directory of production builds (build.go, bundler.go,        *)
(* worker_plugin.go, public_copy.go). A build bundles the workers that the *)
(* sources import and writes them while it is still bundling, then lets    *)
(* esbuild write the entry (with its map), its stylesheet and its chunks,  *)
(* copies the public files and writes index.html, last. Nothing empties    *)
(* the directory; the names of chunks and workers carry the hash of their  *)
(* content, the other names are fixed. Builds may fail or be killed at any *)
(* step, and may overlap. A file is written in place, public files apart:  *)
(* it is torn from when it is opened until it is written.                  *)
(*                                                                         *)
(* The sources have versions; a file shows the version it was made from.  *)
(* The page and the public files are read from the sources when esbuild is *)
(* done, and so may be of a later version than the entry.                  *)
(***************************************************************************)
EXTENDS Naturals

CONSTANTS
  Builders,    (* the builds that may overlap                              *)
  Versions,    (* what the sources may be                                  *)
  Js, Css, Index, (* the entry and its map, its stylesheet, the page       *)
  Hashed,      (* the files with a hash in their name                      *)
  ChunksOf,    (* [Versions -> SUBSET Hashed]                              *)
  WorkersOf,   (* [Versions -> SUBSET Hashed]                              *)
  Styled,      (* the versions that have a stylesheet                      *)
  PublicDirs,  (* the directories of public files, in order of preference  *)
  PublicFiles, (* [1 .. PublicDirs -> files]: the names in each            *)
  Absent, Torn,(* of a file that is not there, or opened and not written   *)
  None,        (* no build, no file                                        *)
  MaxUpsets    (* bound: builds that fail or are killed, failed copies     *)

Public == UNION {PublicFiles[i] : i \in 1 .. PublicDirs}
Fixed  == {Js, Css, Index}
Files  == Fixed \union Hashed \union Public

ASSUME DistAssumption ==
  /\ ChunksOf  \in [Versions -> SUBSET Hashed]
  /\ WorkersOf \in [Versions -> SUBSET Hashed]
  /\ \A v, w \in Versions : ChunksOf[v] \intersect WorkersOf[w] = {}
  /\ Styled \subseteq Versions
  /\ PublicDirs \in Nat
  /\ Fixed \intersect Hashed = {}
  /\ (Fixed \union Hashed) \intersect Public = {}
  /\ Js \notin {Css, Index} /\ Css # Index
  /\ None \notin Versions \union Files
  /\ {Absent, Torn} \intersect Versions = {} /\ Absent # Torn
  /\ MaxUpsets \in Nat

VARIABLES
  src,      (* the version of the sources                                  *)
  dist,     (* dist[f]: the version that f was made from, if it is there   *)
  linked,   (* index.html has a link to the stylesheet                     *)
  pc,       (* pc[b]: what the build b is doing                            *)
  snap,     (* snap[b]: the version of the sources it bundled              *)
  shell,    (* shell[b]: the version of the index.html it has read         *)
  todo,     (* todo[b]: the files it has still to write                    *)
  open,     (* open[b]: the file it has opened and not written             *)
  dir,      (* dir[b]: the public directory it copies                      *)
  copied,   (* copied[b]: it has copied a file of it                       *)
  hasCSS,   (* hasCSS[b]: it has seen the stylesheet in the directory      *)
  alone,    (* the build that writes with no other build writing, if any   *)
  span,     (* the versions the sources have had since it began to write   *)
  skipped,  (* a public file that failed to copy has been passed over      *)
  good,     (* the version of the last build, when it was alone and done   *)
  reign,    (* what span was of it                                         *)
  scars,    (* the workers that were open when a build was cut short       *)
  upsets    (* how many more upsets there may be                           *)

site    == <<dist, linked>>
builder == <<pc, snap, shell, todo, open, dir, copied, hasCSS>>
history == <<alone, span, skipped, good, reign, scars>>
vars == <<src, site, builder, history, upsets>>

Workers == UNION {WorkersOf[v] : v \in Versions}
Writing(b) == pc[b] \in {"emit", "public", "index", "shell", "html"}

TypeOK ==
  /\ src     \in Versions
  /\ dist    \in [Files -> Versions \union {Absent, Torn}]
  /\ linked  \in BOOLEAN
  /\ pc      \in [Builders -> {"idle", "bundle", "emit", "public", "index",
                               "shell", "html"}]
  /\ snap    \in [Builders -> Versions \union {None}]
  /\ shell   \in [Builders -> Versions \union {None}]
  /\ todo    \in [Builders -> SUBSET Files]
  /\ open    \in [Builders -> Files \union {None}]
  /\ dir     \in [Builders -> 0 .. PublicDirs]
  /\ copied  \in [Builders -> BOOLEAN]
  /\ hasCSS  \in [Builders -> BOOLEAN]
  /\ alone   \in SUBSET Builders
  /\ skipped \in BOOLEAN
  /\ good    \in Versions \union {None}
  /\ span    \in SUBSET Versions
  /\ reign   \in SUBSET Versions
  /\ scars   \in SUBSET Files
  /\ upsets  \in 0 .. MaxUpsets

Init ==
  /\ src     \in Versions
  /\ dist    = [f \in Files |-> Absent]
  /\ linked  = FALSE
  /\ pc      = [b \in Builders |-> "idle"]
  /\ snap    = [b \in Builders |-> None]
  /\ shell   = [b \in Builders |-> None]
  /\ todo    = [b \in Builders |-> {}]
  /\ open    = [b \in Builders |-> None]
  /\ dir     = [b \in Builders |-> 0]
  /\ copied  = [b \in Builders |-> FALSE]
  /\ hasCSS  = [b \in Builders |-> FALSE]
  /\ alone   = {}
  /\ skipped = FALSE
  /\ good    = None
  /\ span    = {}
  /\ reign   = {}
  /\ scars   = {}
  /\ upsets  = MaxUpsets

Goto(b, from, to) == pc[b] = from /\ pc' = [pc EXCEPT ![b] = to]
Upset == upsets > 0 /\ upsets' = upsets - 1

(* The build is over: what it knew is forgotten.                           *)
Ends(b) ==
  /\ pc'     = [pc EXCEPT ![b] = "idle"]
  /\ snap'   = [snap EXCEPT ![b] = None]
  /\ shell'  = [shell EXCEPT ![b] = None]
  /\ todo'   = [todo EXCEPT ![b] = {}]
  /\ open'   = [open EXCEPT ![b] = None]
  /\ dir'    = [dir EXCEPT ![b] = 0]
  /\ copied' = [copied EXCEPT ![b] = FALSE]
  /\ hasCSS' = [hasCSS EXCEPT ![b] = FALSE]

(* Of the builds only those of B may still count as writing alone.         *)
Keeps(B) ==
  /\ alone' = alone \intersect B
  /\ span' = IF alone \intersect B = {} THEN {} ELSE span

(* b is about to change what the site consists of.                         *)
Touches(b) ==
  /\ good' = None
  /\ reign' = {}
  /\ Keeps({b})

-----------------------------------------------------------------------------
(* The outputs of esbuild.                                                 *)
Outputs(v) == {Js} \union ChunksOf[v]
                \union (IF v \in Styled THEN {Css} ELSE {})

-----------------------------------------------------------------------------
(***************************************************************************)
(* Mutants: plausible mistakes in the code, each of which breaks one of    *)
(* the properties below (README, "Mutants"). No specification uses them.   *)
(***************************************************************************)
MutCompileFailsGoesOn(b) ==
  /\ Upset
  /\ Goto(b, "bundle", "index")
  /\ open[b] = None
  /\ alone' = {b} /\ span' = {src}
  /\ todo' = [todo EXCEPT ![b] = {}]
  /\ UNCHANGED <<src, site, snap, shell, open, dir, copied, hasCSS, skipped,
                 good, reign, scars>>

MutStatAnything(b) ==
  /\ Goto(b, "index", "shell")
  /\ hasCSS' = [hasCSS EXCEPT ![b] = TRUE]
  /\ UNCHANGED <<src, site, snap, shell, todo, open, dir, copied, history,
                 upsets>>

-----------------------------------------------------------------------------
Edit(v) ==
  /\ v # src
  /\ src' = v
  /\ span' = IF alone = {} THEN {} ELSE span \union {v}
  /\ UNCHANGED <<site, builder, alone, skipped, good, reign, scars, upsets>>

(* Build reads the sources; the worker plugin bundles their workers.       *)
Begin(b) ==
  /\ Goto(b, "idle", "bundle")
  /\ snap' = [snap EXCEPT ![b] = src]
  /\ todo' = [todo EXCEPT ![b] = WorkersOf[src]]
  /\ UNCHANGED <<src, site, shell, open, dir, copied, hasCSS, history, upsets>>

(* os.WriteFile: bundleWorker's, esbuild's, writeProductionIndex's.        *)
OpenFile(b, f) ==
  /\ pc[b] \in {"bundle", "emit", "html"}
  /\ open[b] = None
  /\ f \in todo[b]
  /\ dist' = [dist EXCEPT ![f] = Torn]
  /\ open' = [open EXCEPT ![b] = f]
  /\ todo' = [todo EXCEPT ![b] = @ \ {f}]
  /\ IF pc[b] = "bundle" THEN UNCHANGED <<good, reign, alone, span>>
                         ELSE Touches(b)
  /\ UNCHANGED <<src, linked, pc, snap, shell, dir, copied, hasCSS, skipped,
                 scars, upsets>>

WriteFile(b) ==
  /\ open[b] \notin {None, Index}
  /\ dist' = [dist EXCEPT ![open[b]] = snap[b]]
  /\ open' = [open EXCEPT ![b] = None]
  /\ scars' = scars \ {open[b]}
  /\ UNCHANGED <<src, linked, pc, snap, shell, todo, dir, copied, hasCSS, span,
                 alone, skipped, good, reign, upsets>>

(* The sources do not compile: esbuild writes nothing, and Build returns   *)
(* its errors.                                                             *)
CompileFails(b) ==
  /\ Upset
  /\ pc[b] = "bundle"
  /\ open[b] = None
  /\ Ends(b)
  /\ UNCHANGED <<src, site, history>>

Bundled(b) ==
  /\ Goto(b, "bundle", "emit")
  /\ open[b] = None /\ todo[b] = {}
  /\ todo' = [todo EXCEPT ![b] = Outputs(snap[b])]
  /\ IF \E c \in Builders \ {b} : Writing(c)
       THEN alone' = {}  /\ span' = {}
       ELSE alone' = {b} /\ span' = {src}
  /\ UNCHANGED <<src, site, snap, shell, open, dir, copied, hasCSS, skipped,
                 good, reign, scars, upsets>>

Emitted(b) ==
  /\ Goto(b, "emit", "public")
  /\ open[b] = None /\ todo[b] = {}
  /\ skipped' = FALSE
  /\ UNCHANGED <<src, site, snap, shell, todo, open, dir, copied, hasCSS, span,
                 alone, good, reign, scars, upsets>>

(* CopyPublicDir, for one candidate after the other until one is copied    *)
(* that has files. They are read as they are then. An error ends the       *)
(* candidate, and is not returned.                                         *)
NextDir(b) ==
  /\ pc[b] = "public"
  /\ todo[b] = {} /\ ~copied[b] /\ dir[b] < PublicDirs
  /\ dir' = [dir EXCEPT ![b] = @ + 1]
  /\ todo' = [todo EXCEPT ![b] = PublicFiles[dir[b] + 1]]
  /\ UNCHANGED <<src, site, pc, snap, shell, open, copied, hasCSS, history,
                 upsets>>

CopyFile(b, f) ==
  /\ pc[b] = "public"
  /\ f \in todo[b]
  /\ dist' = [dist EXCEPT ![f] = src]
  /\ todo' = [todo EXCEPT ![b] = @ \ {f}]
  /\ copied' = [copied EXCEPT ![b] = TRUE]
  /\ Touches(b)
  /\ UNCHANGED <<src, linked, pc, snap, shell, open, dir, hasCSS, skipped,
                 scars, upsets>>

CopyFails(b) ==
  /\ Upset
  /\ pc[b] = "public"
  /\ todo[b] # {}
  /\ todo' = [todo EXCEPT ![b] = {}]
  /\ copied' = [copied EXCEPT ![b] = FALSE]
  /\ skipped' = TRUE
  /\ UNCHANGED <<src, site, pc, snap, shell, open, dir, hasCSS, span, alone,
                 good, reign, scars>>

PublicCopied(b) ==
  /\ Goto(b, "public", "index")
  /\ todo[b] = {} /\ (copied[b] \/ dir[b] = PublicDirs)
  /\ dir' = [dir EXCEPT ![b] = 0]
  /\ copied' = [copied EXCEPT ![b] = FALSE]
  /\ UNCHANGED <<src, site, snap, shell, todo, open, hasCSS, history,
                 upsets>>

(* writeProductionIndex looks for the stylesheet in the directory, reads   *)
(* the page as it is then, has the plugins transform it, and writes it.    *)
StatCSS(b) ==
  /\ Goto(b, "index", "shell")
  /\ hasCSS' = [hasCSS EXCEPT ![b] = dist[Css] # Absent]
  /\ UNCHANGED <<src, site, snap, shell, todo, open, dir, copied, history,
                 upsets>>

ReadShell(b) ==
  /\ Goto(b, "shell", "html")
  /\ shell' = [shell EXCEPT ![b] = src]
  /\ todo' = [todo EXCEPT ![b] = {Index}]
  /\ UNCHANGED <<src, site, snap, open, dir, copied, hasCSS, history,
                 upsets>>

WriteIndex(b) ==
  /\ open[b] = Index
  /\ Ends(b)
  /\ dist' = [dist EXCEPT ![Index] = shell[b]]
  /\ linked' = hasCSS[b]
  /\ good' = IF b \in alone THEN snap[b] ELSE None
  /\ reign' = IF b \in alone THEN span ELSE {}
  /\ Keeps({})
  /\ UNCHANGED <<src, skipped, scars, upsets>>

(* The build is killed; or a file cannot be written, or a plugin fails on  *)
(* the page, and it returns the error.                                     *)
CutShort(b) ==
  /\ Upset
  /\ pc[b] # "idle"
  /\ Ends(b)
  /\ Keeps(Builders \ {b})
  /\ scars' = scars \union ({open[b]} \intersect Workers)
  /\ UNCHANGED <<src, site, skipped, good, reign>>

Next ==
  \/ \E v \in Versions : Edit(v)
  \/ \E b \in Builders :
       \/ Begin(b) \/ CompileFails(b) \/ Bundled(b) \/ Emitted(b)
       \/ NextDir(b) \/ CopyFails(b) \/ PublicCopied(b)
       \/ StatCSS(b) \/ ReadShell(b)
       \/ WriteFile(b) \/ WriteIndex(b) \/ CutShort(b)
       \/ \E f \in Files : OpenFile(b, f) \/ CopyFile(b, f)

Spec == Init /\ [][Next]_vars

-----------------------------------------------------------------------------
(* What Build promises when it returns without errors (build.go:206-223),  *)
(* and as long as no later build has come to writing its outputs: the      *)
(* entry is the build's, the page is whole and of a version that the       *)
(* sources had while the build wrote (so of the entry's, if they were left *)
(* alone), and all that the entry loads is there and whole. In particular  *)
(* a later build that does not compile leaves the site alone. The          *)
(* exceptions are public files after a failed copy, which Build does not   *)
(* report, and a worker that a later build writes again or was killed      *)
(* over, since workers are written before it is known that all compiles.   *)
SiteIsWhole ==
  good # None =>
    /\ dist[Js] = good
    /\ dist[Index] \in reign
    /\ \A f \in ChunksOf[good] : dist[f] \in Versions
    /\ \A f \in WorkersOf[good] : \/ dist[f] \in Versions
                                  \/ f \in scars
                                  \/ \E b \in Builders : open[b] = f
    /\ ~skipped => \A i \in 1 .. PublicDirs :
         (\A j \in 1 .. i - 1 : PublicFiles[j] = {}) =>
           \A f \in PublicFiles[i] : dist[f] \in Versions

(* writeProductionIndex is to link the stylesheet when the entry produced  *)
(* one (build.go:449-451). A build with a stylesheet is linked to its own; *)
(* one without is linked to nothing, or to what an earlier build with one  *)
(* has left behind, whole or torn.                                         *)
StyleExplained ==
  good # None =>
    /\ good \in Styled => linked /\ dist[Css] = good
    /\ good \notin Styled /\ linked => dist[Css] \in Styled \union {Torn}

=============================================================================
