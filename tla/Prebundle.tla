----------------------------- MODULE Prebundle -----------------------------
(***************************************************************************)
(* Pre-bundling of one npm package by the dev server (prebundle.go): the   *)
(* entries of the package that the application imports are registered as   *)
(* its modules are transformed, and built together on the first request.   *)
(* Request handlers share the entry set and the last build under a mutex,  *)
(* build outside of it, and keep builds in a directory per entry set that  *)
(* outlives the process. A browser page asks for the files: each URL once  *)
(* until the page is loaded anew.                                          *)
(*                                                                         *)
(* A build is a function of the entry set: a module that one entry uses is *)
(* inlined into it, and those that several use form chunks. A chunk is     *)
(* named after its content, here the set of its modules.                   *)
(***************************************************************************)
EXTENDS Naturals, FiniteSets

CONSTANTS
  Entries,     (* the entries of the package, and their served basenames   *)
  Modules,     (* the modules of the package                               *)
  Uses,        (* [Entries -> SUBSET Modules]: what an entry reaches       *)
  Reqs,        (* the request handlers                                     *)
  Persistent,  (* there is a directory for builds: diskDir # ""            *)
  Manifest,    (* the manifest file of a cache directory                   *)
  None,        (* no build, no file                                        *)
  MaxFaults,   (* bound: failed builds and failed saves                    *)
  MaxRestarts  (* bound: restarts of the dev server                        *)

ASSUME PrebundleAssumption ==
  /\ Uses \in [Entries -> SUBSET Modules]
  /\ \A M \in SUBSET Modules : M \notin Entries \union {Manifest, None}
  /\ Manifest \notin Entries
  /\ None \notin Entries \union {Manifest}
  /\ Persistent \in BOOLEAN
  /\ MaxFaults \in Nat
  /\ MaxRestarts \in Nat

VARIABLES
  entries,   (* the registered entries of the package                      *)
  built,     (* the last build, or None                                    *)
  disk,      (* disk[S]: the files of the cache directory of entry set S   *)
  dirs,      (* the entry sets that have a directory                       *)
  old,       (* the directories not used for prebundleTTL                  *)
  gc,        (* what gcDisk is doing                                       *)
  victim,    (* the directory it removes                                   *)
  names,     (* the files it has listed there and not yet removed          *)
  pc,        (* pc[r]: the next step of r                                  *)
  base,      (* base[r]: the basename r is asked for                       *)
  nb,        (* nb[r]: the build r loads or makes; its sig is what r wants *)
  todo,      (* todo[r]: the files r has still to read or write            *)
  open,      (* open[r]: the file r has truncated and not yet written      *)
  waiting,   (* the handlers whose answer the page still waits for         *)
  imported,  (* the entries the page knows from its transformed modules    *)
  page,      (* page[b]: what the page got for b                           *)
  grown,     (* the entry set has changed since the page was loaded        *)
  contended, (* entry sets saved while another save ran or was complete,   *)
             (* or while another handler was loading them                  *)
  swept,     (* those that gcDisk has removed a file of since a save began *)
  faults,    (* how many more builds and saves may fail                    *)
  restarts   (* how many more restarts there may be                        *)

server  == <<entries, built>>
sweeper == <<gc, victim, names>>
cache   == <<disk, dirs, old, contended, swept, sweeper>>
handler == <<pc, base, nb, todo, open>>
browser == <<waiting, imported, page, grown>>
vars == <<server, cache, handler, browser, faults, restarts>>

-----------------------------------------------------------------------------
(* What esbuild makes of the entry set S, with code splitting. *)
UsersOf(m, S) == {e \in S : m \in Uses[e]}

Chunks(S) == {{m \in Modules : UsersOf(m, S) = g} :
                 g \in {h \in SUBSET S : Cardinality(h) > 1}} \ {{}}

Outputs(S) == S \union Chunks(S)

(* The modules that a file of the build of S carries, and the files it     *)
(* imports.                                                                *)
Carries(b, S) ==
  IF b \in Entries THEN {m \in Modules : UsersOf(m, S) = {b}} ELSE b

ImportsOf(b, S) ==
  IF b \in Entries THEN {c \in Chunks(S) : c \cap Uses[b] # {}} ELSE {}

Sigs   == SUBSET Entries
Bases  == UNION {Outputs(S) : S \in Sigs}
Files(S) == Outputs(S) \union {Manifest}
Builds == [sig : Sigs, ok : BOOLEAN, torn : SUBSET Bases]
NoBuild(S) == [sig |-> S, ok |-> FALSE, torn |-> {}]
Whole(S)   == [sig |-> S, ok |-> TRUE,  torn |-> {}]

Shown(status) == [status |-> status, sig |-> {}, torn |-> FALSE]
Got(b) == page[b].status = "got"
Begun  == imported # {}

TypeOK ==
  /\ entries   \in Sigs
  /\ built     \in {None} \union Builds
  /\ DOMAIN disk = Sigs
  /\ \A S \in Sigs : disk[S] \in [Files(S) -> {"absent", "torn", "whole"}]
  /\ dirs      \in SUBSET Sigs
  /\ old       \in SUBSET Sigs
  /\ gc        \in {"rest", "list", "unlink"}
  /\ victim    \in Sigs
  /\ names     \subseteq Files(victim)
  /\ pc        \in [Reqs -> {"idle", "serve", "manifest", "read", "build",
                             "save", "install"}]
  /\ base      \in [Reqs -> Bases \union {None}]
  /\ nb        \in [Reqs -> Builds]
  /\ \A r \in Reqs : todo[r] \subseteq Files(nb[r].sig)
  /\ \A r \in Reqs : open[r] \in Files(nb[r].sig) \union {None}
  /\ waiting   \in SUBSET Reqs
  /\ imported  \in SUBSET Entries
  /\ page      \in [Bases -> [sig : Sigs, torn : BOOLEAN,
                             status : {"unasked", "asked", "missing", "error",
                                       "got"}]]
  /\ grown     \in BOOLEAN
  /\ contended \in SUBSET Sigs
  /\ swept     \in SUBSET Sigs
  /\ faults    \in 0 .. MaxFaults
  /\ restarts  \in 0 .. MaxRestarts

Empty(S) == [f \in Files(S) |-> "absent"]

Init ==
  /\ entries   = {}
  /\ built     = None
  /\ disk      = [S \in Sigs |-> Empty(S)]
  /\ dirs      = {}
  /\ old       = {}
  /\ gc        = "rest"
  /\ victim    = {}
  /\ names     = {}
  /\ pc        = [r \in Reqs |-> "idle"]
  /\ base      = [r \in Reqs |-> None]
  /\ nb        = [r \in Reqs |-> NoBuild({})]
  /\ todo      = [r \in Reqs |-> {}]
  /\ open      = [r \in Reqs |-> None]
  /\ waiting   = {}
  /\ imported  = {}
  /\ page      = [b \in Bases |-> Shown("unasked")]
  /\ grown     = FALSE
  /\ contended = {}
  /\ swept     = {}
  /\ faults    = MaxFaults
  /\ restarts  = MaxRestarts

Goto(r, from, to) == pc[r] = from /\ pc' = [pc EXCEPT ![r] = to]

(* What serve makes of the build b for basename f. *)
Outcome(b, f) ==
  CASE ~b.ok                             -> Shown("error")
    [] b.ok /\ f \notin Outputs(b.sig) -> Shown("missing")
    [] b.ok /\ f \in Outputs(b.sig)    ->
         [status |-> "got", sig |-> b.sig, torn |-> f \in b.torn]

(* serve returns; a page that has been left in the meantime gets nothing. *)
Answer(r, b) ==
  /\ pc'   = [pc EXCEPT ![r] = "idle"]
  /\ base' = [base EXCEPT ![r] = None]
  /\ nb'   = [nb EXCEPT ![r] = NoBuild({})]
  /\ todo' = [todo EXCEPT ![r] = {}]
  /\ page' = IF r \notin waiting THEN page
             ELSE [page EXCEPT ![base[r]] = Outcome(b, base[r])]
  /\ waiting' = waiting \ {r}
  /\ UNCHANGED <<open, imported, grown>>

(* The handlers that load or save the directory of S.                      *)
Using(S) == {r \in Reqs : pc[r] \in {"read", "save"} /\ nb[r].sig = S}

(***************************************************************************)
(* Mutants: plausible mistakes in the code, each of which breaks one of    *)
(* the properties below (README, "Mutants"). No specification uses them.   *)
(***************************************************************************)
MutServeAnyBuild(r) ==
  LET hit == built # None IN
  /\ pc[r] = "serve"
  /\ \/ /\ hit
        /\ Answer(r, built)
     \/ /\ ~hit
        /\ Goto(r, "serve", "manifest")
        /\ nb' = [nb EXCEPT ![r] = NoBuild(entries)]
        /\ UNCHANGED <<base, todo, open, browser>>
  /\ UNCHANGED <<server, cache, faults, restarts>>

MutSaveInAnyOrder(r) ==
  LET S == nb[r].sig IN
  /\ pc[r] = "save"
  /\ open[r] = None
  /\ S \in dirs
  /\ \E f \in todo[r] :
       /\ disk' = [disk EXCEPT ![S][f] = "torn"]
       /\ open' = [open EXCEPT ![r] = f]
       /\ todo' = [todo EXCEPT ![r] = @ \ {f}]
       /\ old'  = IF disk[S][f] = "absent" THEN old \ {S} ELSE old
  /\ UNCHANGED <<server, dirs, contended, swept, sweeper, pc, base, nb,
                 browser, faults, restarts>>

MutSaveFailLeavesFileOpen(r) ==
  /\ faults > 0
  /\ faults' = faults - 1
  /\ Goto(r, "save", "install")
  /\ todo' = [todo EXCEPT ![r] = {}]
  /\ UNCHANGED <<server, cache, base, nb, open, browser, restarts>>

-----------------------------------------------------------------------------
(* register: a module of the page that imports the entry is transformed. *)
Register(e) ==
  /\ e \notin imported
  /\ entries'  = entries \union {e}
  /\ imported' = imported \union {e}
  /\ grown'    = (grown \/ (e \notin entries /\ Begun))
  /\ UNCHANGED <<built, cache, handler, waiting, page, faults, restarts>>

(* The page asks for an entry it imports, or for a chunk a file imports. *)
Ask(r, b) ==
  /\ \/ b \in imported
     \/ \E e \in Entries : /\ Got(e)
                           /\ ~page[e].torn
                           /\ b \in ImportsOf(e, page[e].sig)
  /\ page[b].status = "unasked"
  /\ Goto(r, "idle", "serve")
  /\ base'    = [base EXCEPT ![r] = b]
  /\ page'    = [page EXCEPT ![b] = Shown("asked")]
  /\ waiting' = waiting \union {r}
  /\ UNCHANGED <<server, cache, nb, todo, open, imported, grown,
                 faults, restarts>>

(* serve, under the mutex: the last build will do if it covers exactly the *)
(* entries that are registered now.                                        *)
Serve(r) ==
  LET hit == built # None /\ built.sig = entries IN
  /\ pc[r] = "serve"
  /\ \/ /\ hit
        /\ Answer(r, built)
     \/ /\ ~hit
        /\ Goto(r, "serve", "manifest")
        /\ nb' = [nb EXCEPT ![r] = NoBuild(entries)]
        /\ UNCHANGED <<base, todo, open, browser>>
  /\ UNCHANGED <<server, cache, faults, restarts>>

(* loadFromDisk: a file that is missing, or cannot be read, is a miss.     *)
ReadManifest(r) ==
  LET S == nb[r].sig IN
  /\ \/ /\ disk[S][Manifest] = "whole"
        /\ Goto(r, "manifest", "read")
        /\ todo' = [todo EXCEPT ![r] = Outputs(S)]
        /\ nb'   = [nb EXCEPT ![r] = Whole(S)]
     \/ /\ Goto(r, "manifest", "build")
        /\ UNCHANGED <<todo, nb>>
  /\ UNCHANGED <<server, cache, base, open, browser, faults, restarts>>

ReadFile(r, f) ==
  LET S == nb[r].sig IN
  /\ pc[r] = "read"
  /\ f \in todo[r]
  /\ \/ /\ Goto(r, "read", "build")
        /\ todo' = [todo EXCEPT ![r] = {}]
        /\ nb'   = [nb EXCEPT ![r] = NoBuild(S)]
     \/ /\ disk[S][f] # "absent"
        /\ todo' = [todo EXCEPT ![r] = @ \ {f}]
        /\ nb'   = [nb EXCEPT ![r].torn = IF disk[S][f] = "torn"
                                         THEN @ \union {f} ELSE @]
        /\ UNCHANGED pc
  /\ UNCHANGED <<server, cache, base, open, browser, faults, restarts>>

(* Every file is read: the directory is touched. *)
Touch(r) ==
  /\ Goto(r, "read", "install")
  /\ todo[r] = {}
  /\ old' = old \ {nb[r].sig}
  /\ UNCHANGED <<server, disk, dirs, contended, swept, sweeper, base, nb,
                 todo, open, browser, faults, restarts>>

(* buildPackage succeeds; if there is a place to, the build is saved there *)
(* after MkdirAll.                                                         *)
Bundle(r) ==
  LET S == nb[r].sig IN
  /\ pc[r] = "build"
  /\ S # {}
  /\ nb' = [nb EXCEPT ![r] = Whole(S)]
  /\ \/ /\ Persistent
        /\ Goto(r, "build", "save")
        /\ todo' = [todo EXCEPT ![r] = Files(S)]
        /\ dirs' = dirs \union {S}
        /\ swept' = swept \ {S}
        /\ contended' = IF Using(S) # {} \/ disk[S][Manifest] = "whole"
                        THEN contended \union {S} ELSE contended
     \/ /\ ~Persistent
        /\ Goto(r, "build", "install")
        /\ UNCHANGED <<todo, dirs, swept, contended>>
  /\ UNCHANGED <<server, disk, old, sweeper, base, open, browser,
                 faults, restarts>>

(* It has an error for an empty entry set, and when esbuild or the         *)
(* download of a module fails. The error is installed like a build.        *)
BundleError(r) ==
  /\ Goto(r, "build", "install")
  /\ \/ /\ nb[r].sig = {}
        /\ UNCHANGED faults
     \/ /\ nb[r].sig # {}
        /\ faults > 0
        /\ faults' = faults - 1
  /\ UNCHANGED <<server, cache, base, nb, todo, open, browser, restarts>>

(* saveToDisk, one file after the other and the manifest last: WriteFile   *)
(* makes or truncates a file, then writes it. A file that is new makes the *)
(* directory new.                                                          *)
SaveOpen(r) ==
  LET S == nb[r].sig IN
  /\ pc[r] = "save"
  /\ open[r] = None
  /\ S \in dirs
  /\ \E f \in todo[r] :
       /\ f = Manifest => todo[r] = {Manifest}
       /\ disk' = [disk EXCEPT ![S][f] = "torn"]
       /\ open' = [open EXCEPT ![r] = f]
       /\ todo' = [todo EXCEPT ![r] = @ \ {f}]
       /\ old'  = IF disk[S][f] = "absent" THEN old \ {S} ELSE old
  /\ UNCHANGED <<server, dirs, contended, swept, sweeper, pc, base, nb,
                 browser, faults, restarts>>

SaveWrite(r) ==
  /\ open[r] # None
  /\ disk' = [disk EXCEPT ![nb[r].sig][open[r]] = "whole"]
  /\ open' = [open EXCEPT ![r] = None]
  /\ UNCHANGED <<server, dirs, old, contended, swept, sweeper, pc, base, nb,
                 todo, browser, faults, restarts>>

(* The directory is gone: the next file cannot be made.                    *)
SaveLost(r) ==
  /\ nb[r].sig \notin dirs
  /\ open[r] = None /\ todo[r] # {}
  /\ Goto(r, "save", "install")
  /\ todo' = [todo EXCEPT ![r] = {}]
  /\ UNCHANGED <<server, cache, base, nb, open, browser, faults, restarts>>

(* A write fails: saveToDisk gives up where it is, but for the manifest.   *)
SaveFail(r) ==
  /\ faults > 0
  /\ faults' = faults - 1
  /\ pc[r] = "save"
  /\ todo[r] # {} \/ open[r] # None
  /\ IF todo[r] \union {open[r]} \subseteq {Manifest, None}
       THEN UNCHANGED pc
       ELSE Goto(r, "save", "install")
  /\ todo' = [todo EXCEPT ![r] = {}]
  /\ open' = [open EXCEPT ![r] = None]
  /\ UNCHANGED <<server, cache, base, nb, browser, restarts>>

(* All is written: the directory is touched.                               *)
SaveDone(r) ==
  /\ Goto(r, "save", "install")
  /\ open[r] = None /\ todo[r] = {}
  /\ old' = old \ {nb[r].sig}
  /\ UNCHANGED <<server, disk, dirs, contended, swept, sweeper, base, nb,
                 todo, open, browser, faults, restarts>>

(* Back under the mutex: keep a build of the same entries that another     *)
(* handler was faster with, replace any other, and answer.                 *)
Install(r) ==
  LET b == IF built = None \/ built.sig # nb[r].sig THEN nb[r] ELSE built IN
  /\ pc[r] = "install"
  /\ built' = b
  /\ Answer(r, b)
  /\ UNCHANGED <<entries, cache, faults, restarts>>

-----------------------------------------------------------------------------
(* gcDisk, in the background after each start: one directory after the     *)
(* other is found old, and os.RemoveAll lists its files, removes each, and *)
(* then the directory if there is nothing in it. Handlers go on meanwhile; *)
(* a save may write to a file that has lost its name.                      *)
GcStat(S) ==
  /\ gc = "rest"
  /\ S \in dirs \intersect old
  /\ gc'     = "list"
  /\ victim' = S
  /\ names'  = {}
  /\ UNCHANGED <<server, disk, dirs, old, contended, swept, handler, browser,
                 faults, restarts>>

GcList ==
  /\ gc = "list"
  /\ gc'    = "unlink"
  /\ names' = {f \in Files(victim) : disk[victim][f] # "absent"}
  /\ UNCHANGED <<server, disk, dirs, old, contended, swept, victim, handler,
                 browser, faults, restarts>>

GcUnlink(f) ==
  /\ gc = "unlink"
  /\ f \in names
  /\ names' = names \ {f}
  /\ disk'  = [disk EXCEPT ![victim][f] = "absent"]
  /\ swept' = swept \union {victim}
  /\ old'   = old \ {victim}
  /\ open'  = [r \in Reqs |-> IF nb[r].sig = victim /\ open[r] = f
                               THEN None ELSE open[r]]
  /\ UNCHANGED <<server, dirs, contended, gc, victim, pc, base, nb, todo,
                 browser, faults, restarts>>

(* A file cannot be removed, and stays.                                    *)
GcFail(f) ==
  /\ faults > 0
  /\ faults' = faults - 1
  /\ gc = "unlink"
  /\ f \in names
  /\ names' = names \ {f}
  /\ UNCHANGED <<server, disk, dirs, old, contended, swept, gc, victim,
                 handler, browser, restarts>>

GcRmdir ==
  /\ gc = "unlink"
  /\ names = {}
  /\ IF disk[victim] = Empty(victim)
       THEN dirs' = dirs \ {victim} /\ old' = old \ {victim}
       ELSE UNCHANGED <<dirs, old>>
  /\ gc'     = "rest"
  /\ victim' = {}
  /\ UNCHANGED <<server, disk, contended, swept, names, handler, browser,
                 faults, restarts>>

Gc ==
  \/ \E S \in Sigs : GcStat(S)
  \/ GcList
  \/ \E f \in Files(victim) : GcUnlink(f) \/ GcFail(f)
  \/ GcRmdir

(* The dev server is stopped, at any instant, and started again, at once   *)
(* or when the directories have become old. The page stays open; what it   *)
(* was waiting for fails.                                                  *)
Restart ==
  /\ restarts > 0
  /\ restarts' = restarts - 1
  /\ entries'  = {}
  /\ built'    = None
  /\ old' \in {{}, dirs}
  /\ gc'       = "rest"
  /\ victim'   = {}
  /\ names'    = {}
  /\ pc'       = [r \in Reqs |-> "idle"]
  /\ base'     = [r \in Reqs |-> None]
  /\ nb'       = [r \in Reqs |-> NoBuild({})]
  /\ todo'     = [r \in Reqs |-> {}]
  /\ open'     = [r \in Reqs |-> None]
  /\ waiting'  = {}
  /\ page'     = [b \in Bases |-> IF page[b].status # "asked" THEN page[b]
                                  ELSE Shown("error")]
  /\ grown'    = Begun
  /\ UNCHANGED <<disk, dirs, contended, swept, imported, faults>>

(* The page is loaded anew; handlers that work for the old one go on. *)
Reload ==
  /\ imported # {}
  /\ page'     = [b \in Bases |-> Shown("unasked")]
  /\ imported' = {}
  /\ waiting'  = {}
  /\ grown'    = FALSE
  /\ UNCHANGED <<server, cache, handler, faults, restarts>>

Handle(r) ==
  \/ Serve(r) \/ ReadManifest(r) \/ (\E f \in Bases : ReadFile(r, f))
  \/ Touch(r) \/ Bundle(r) \/ BundleError(r)
  \/ SaveOpen(r) \/ SaveWrite(r) \/ SaveLost(r) \/ SaveFail(r) \/ SaveDone(r)
  \/ Install(r)

Next ==
  \/ \E e \in Entries : Register(e)
  \/ \E r \in Reqs : Handle(r) \/ \E b \in Bases : Ask(r, b)
  \/ Gc
  \/ Restart
  \/ Reload

Spec == Init /\ [][Next]_vars

-----------------------------------------------------------------------------
(* A page can only be told that a file does not exist when the build that  *)
(* referred to it is out of date: entries have been registered, or the     *)
(* server has been restarted, since the page was loaded. In particular the *)
(* handler that installs an older build over a newer one, and those that   *)
(* race with it, still find what they were asked for.                      *)
MissesExplained == \A b \in Bases : page[b].status = "missing" => grown

(* Within one page, two files carry copies of a module only if the entry   *)
(* set has changed since the page was loaded, although handlers that work  *)
(* for an earlier page may install older builds in between.                *)
Copies(b, c) == Carries(b, page[b].sig) \cap Carries(c, page[c].sig)

ForksExplained ==
  \A b, c \in Bases :
    b # c /\ Got(b) /\ Got(c) /\ Copies(b, c) # {} => grown

(* Wherever handlers, gcDisk and the server are stopped: a directory with  *)
(* a manifest holds every file of its build, whole, but for those that     *)
(* gcDisk has removed since the last save there began, which a load takes  *)
(* for a miss; and a page is sent no file that a save has torn. Neither    *)
(* holds where a save has begun while another ran or had succeeded, or     *)
(* while another handler was loading the files.                            *)
DiskComplete ==
  /\ \A S \in Sigs \ contended : disk[S][Manifest] = "whole" =>
       \A f \in Files(S) : \/ disk[S][f] = "whole"
                           \/ disk[S][f] = "absent" /\ S \in swept
  /\ \A b \in Bases : page[b].torn => page[b].sig \in contended

=============================================================================
