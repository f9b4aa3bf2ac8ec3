----------------------------- MODULE Optimizer -----------------------------
(***************************************************************************)
(* The node_modules optimizer of the dev server (nodemodules.go): a bare   *)
(* import of user code is recorded, and answered with the URL its bundle   *)
(* will have; the first request after the set has grown bundles every      *)
(* recorded spec anew, together and with code splitting, into a directory  *)
(* of the cache that is never emptied. One mutex per server covers both.   *)
(*                                                                         *)
(* The directory belongs to the project root, not to the server: servers   *)
(* on one root (a second one gets another port, dev.go:266) share it, and  *)
(* it outlives them. Host.tla adds the servers' other half and a page.     *)
(*                                                                         *)
(* Every spec has an entry module; Imports says which modules import which.*)
(* esbuild inlines a module that one entry reaches and puts those that     *)
(* several reach in a chunk, named after its content.                      *)
(***************************************************************************)
EXTENDS Naturals, FiniteSets

CONSTANTS
  Servers,    (* the dev servers of the project                            *)
  Specs,      (* bare specs, each standing for the module it names         *)
  Imports,    (* [Specs -> SUBSET Specs]: the imports of each module       *)
  Names,      (* what sanitizeSpec makes of specs                          *)
  NameOf,     (* [Specs -> Names]: sanitizeSpec, which is not injective    *)
  Late,       (* packages that are not installed yet, if they ever are     *)
  None,       (* no build, no file, no request                             *)
  MaxUpsets   (* bound: failing file operations, requests to servers other *)
              (* than the page's, and restarts of the page's server        *)

ASSUME OptimizerAssumption ==
  /\ Imports \in [Specs -> SUBSET Specs]
  /\ NameOf \in [Specs -> Names]
  /\ \A C \in SUBSET Specs : C \notin Names \union {None}
  /\ None \notin Specs \union Names
  /\ Late \subseteq Specs
  /\ MaxUpsets \in Nat

VARIABLES
  specs,      (* specs[v]: the bare imports requested so far               *)
  builtSig,   (* builtSig[v]: the spec set last built, None when dirty     *)
  at,         (* at[v]: where the request that holds v's mutex is          *)
  want,       (* want[v]: the file it asks for, None: the mutex is free    *)
  plan,       (* plan[v]: what esbuild bundles, by entry name              *)
  todo,       (* todo[v]: the output files it has still to write           *)
  entriesDir, (* the proxy files: the spec each re-exports, or None        *)
  out,        (* the entries in the output directory, or None              *)
  chunks,     (* the chunks in the output directory                        *)
  installed,  (* the packages found in node_modules                        *)
  upsets      (* how many more of these there may be                       *)

lists == <<specs, builtSig>>
request == <<at, want, plan, todo>>
cacheDir == <<entriesDir, out, chunks>>
optimizer == <<lists, request, cacheDir, installed, upsets>>

-----------------------------------------------------------------------------
(* What a module pulls into a bundle, and whether node_modules has it all. *)
Reach == [s \in Specs |->
            {m \in Specs : \A C \in SUBSET Specs :
               s \in C /\ (\A c \in C : Imports[c] \subseteq C) => m \in C}]

Resolvable(s) == Reach[s] \subseteq installed

(* esbuild's outputs for a plan, which maps entry names to specs.          *)
Users(m, p) == {n \in Names : p[n] # None /\ m \in Reach[p[n]]}
Split(p) == {{m \in Specs : Users(m, p) = g} :
               g \in {h \in SUBSET Names : Cardinality(h) > 1}} \ {{}}
Entries(p) == {n \in Names : p[n] # None}

(* An output entry: its spec, the modules inlined, the chunks it imports.  *)
EntryOf(n, p) ==
  [spec |-> p[n],
   carries |-> {m \in Specs : Users(m, p) = {n}},
   imports |-> {c \in Split(p) : c \cap Reach[p[n]] # {}}]

NoPlan == [n \in Names |-> None]
Plans  == [Names -> Specs \union {None}]
Chunks == UNION {Split(p) : p \in Plans}
NmFiles == Names \union Chunks
EntryFiles == [spec : Specs, carries : SUBSET Specs, imports : SUBSET Chunks]

ASSUME NoFileAssumption == None \notin EntryFiles

OptimizerTypeOK ==
  /\ specs      \in [Servers -> SUBSET Specs]
  /\ builtSig   \in [Servers -> (SUBSET Specs) \union {None}]
  /\ at         \in [Servers -> {"idle", "write", "bundle", "emit", "read"}]
  /\ want       \in [Servers -> NmFiles \union {None}]
  /\ plan       \in [Servers -> Plans]
  /\ todo       \in [Servers -> SUBSET NmFiles]
  /\ entriesDir \in Plans
  /\ out        \in [Names -> EntryFiles \union {None}]
  /\ chunks     \in SUBSET Chunks
  /\ installed  \in SUBSET Specs
  /\ upsets     \in 0 .. MaxUpsets

OptimizerInit ==
  /\ specs      = [v \in Servers |-> {}]
  /\ builtSig   = [v \in Servers |-> None]
  /\ at         = [v \in Servers |-> "idle"]
  /\ want       = [v \in Servers |-> None]
  /\ plan       = [v \in Servers |-> NoPlan]
  /\ todo       = [v \in Servers |-> {}]
  /\ entriesDir = NoPlan
  /\ out        = [n \in Names |-> None]
  /\ chunks     = {}
  /\ installed  = Specs \ Late
  /\ upsets     = MaxUpsets

Upset == upsets > 0 /\ upsets' = upsets - 1

Step(v, from, to) == at[v] = from /\ at' = [at EXCEPT ![v] = to]

-----------------------------------------------------------------------------
(***************************************************************************)
(* Mutants: plausible mistakes in the code, each of which breaks one of    *)
(* the properties of Host (README, "Mutants"). No specification uses them. *)
(***************************************************************************)
MutTakeEmptiesCache(v, f) ==
  LET current == specs[v] \in {builtSig[v], {}} IN
  /\ Step(v, "idle", IF current THEN "read" ELSE "write")
  /\ want' = [want EXCEPT ![v] = f]
  /\ entriesDir' = IF current THEN entriesDir ELSE NoPlan
  /\ out' = IF current THEN out ELSE [n \in Names |-> None]
  /\ chunks' = IF current THEN chunks ELSE {}
  /\ UNCHANGED <<lists, plan, todo, installed>>

MutEmitKeepsOldFiles(v, f) ==
  LET last == todo[v] = {f} IN
  /\ at[v] = "emit"
  /\ f \in todo[v]
  /\ todo' = [todo EXCEPT ![v] = @ \ {f}]
  /\ IF f \in Names
       THEN /\ out' = [out EXCEPT ![f] =
                         IF @ = None THEN EntryOf(f, plan[v]) ELSE @]
            /\ UNCHANGED chunks
       ELSE chunks' = chunks \union {f} /\ UNCHANGED out
  /\ at' = [at EXCEPT ![v] = IF last THEN "read" ELSE @]
  /\ plan' = [plan EXCEPT ![v] = IF last THEN NoPlan ELSE @]
  /\ builtSig' = [builtSig EXCEPT ![v] = IF last THEN specs[v] ELSE @]
  /\ UNCHANGED <<specs, want, entriesDir, installed, upsets>>

-----------------------------------------------------------------------------
(* resolve, under the mutex: a spec that is new makes the build dirty.     *)
Resolve(v, s) ==
  /\ at[v] = "idle"
  /\ specs'    = [specs EXCEPT ![v] = @ \union {s}]
  /\ builtSig' = [builtSig EXCEPT ![v] = IF s \in specs[v] THEN @ ELSE None]
  /\ UNCHANGED <<request, cacheDir, installed, upsets>>

(* load takes the mutex for a file; ensureBuilt has nothing to do when the *)
(* set is the one last built, or when it is empty, in which case whatever  *)
(* the directory holds is served. Otherwise it removes the last proxies.   *)
Current(v) == specs[v] \in {builtSig[v], {}}

Take(v, f) ==
  /\ Step(v, "idle", IF Current(v) THEN "read" ELSE "write")
  /\ want' = [want EXCEPT ![v] = f]
  /\ entriesDir' = IF Current(v) THEN entriesDir ELSE NoPlan
  /\ UNCHANGED <<lists, plan, todo, out, chunks, installed>>

(* One proxy per spec, in the random order of the map: of specs that share *)
(* a name, the proxy of one overwrites the others'.                        *)
WriteProxies(v) ==
  /\ Step(v, "write", "bundle")
  /\ \E p \in [{NameOf[s] : s \in specs[v]} -> specs[v]] :
       /\ \A n \in DOMAIN p : NameOf[p[n]] = n
       /\ entriesDir' = [n \in Names |->
                           IF n \in DOMAIN p THEN p[n] ELSE entriesDir[n]]
  /\ UNCHANGED <<lists, want, plan, todo, out, chunks, installed, upsets>>

(* esbuild reads the proxies and everything they reach. Another server may *)
(* have removed proxies or written its own meanwhile.                      *)
Planned(v) == [n \in Names |-> IF \E s \in specs[v] : NameOf[s] = n
                               THEN entriesDir[n] ELSE None]

Bundles(v) == \A s \in specs[v] :
                /\ entriesDir[NameOf[s]] # None
                /\ Resolvable(entriesDir[NameOf[s]])

(* What remains of the proxies that matters: they stay where they are, but *)
(* nobody reads them again but a server that was about to.                 *)
Leftover(v) == IF \E w \in Servers \ {v} : at[w] = "bundle"
                 THEN entriesDir ELSE NoPlan

Bundle(v) ==
  /\ Step(v, "bundle", "emit")
  /\ Bundles(v)
  /\ plan' = [plan EXCEPT ![v] = Planned(v)]
  /\ todo' = [todo EXCEPT ![v] = Entries(Planned(v)) \union Split(Planned(v))]
  /\ entriesDir' = Leftover(v)
  /\ UNCHANGED <<lists, want, out, chunks, installed, upsets>>

(* It writes its outputs in any order, over those of earlier builds. After *)
(* the last one the set is the one last built.                             *)
Emit(v, f) ==
  LET last == todo[v] = {f} IN
  /\ at[v] = "emit"
  /\ f \in todo[v]
  /\ todo' = [todo EXCEPT ![v] = @ \ {f}]
  /\ IF f \in Names
       THEN out' = [out EXCEPT ![f] = EntryOf(f, plan[v])] /\ UNCHANGED chunks
       ELSE chunks' = chunks \union {f} /\ UNCHANGED out
  /\ at' = [at EXCEPT ![v] = IF last THEN "read" ELSE @]
  /\ plan' = [plan EXCEPT ![v] = IF last THEN NoPlan ELSE @]
  /\ builtSig' = [builtSig EXCEPT ![v] = IF last THEN specs[v] ELSE @]
  /\ UNCHANGED <<specs, want, entriesDir, installed, upsets>>

(* load gives the mutex back.                                              *)
Release(v) ==
  /\ at'   = [at EXCEPT ![v] = "idle"]
  /\ want' = [want EXCEPT ![v] = None]
  /\ plan' = [plan EXCEPT ![v] = NoPlan]
  /\ todo' = [todo EXCEPT ![v] = {}]
  /\ UNCHANGED lists

(* The build fails, for a package that is not installed, a proxy that is   *)
(* gone, or a file that cannot be removed or written: the answer is that   *)
(* there is no such file, and the set stays dirty.                         *)
BuildFails(v) ==
  /\ \/ /\ at[v] = "bundle"
        /\ ~Bundles(v)
        /\ UNCHANGED upsets
     \/ /\ at[v] \in {"write", "emit"}
        /\ Upset
  /\ Release(v)
  /\ entriesDir' = Leftover(v)
  /\ UNCHANGED <<out, chunks, installed>>

(* The file is read; Present says whether it is there.                     *)
Present(f) == IF f \in Names THEN out[f] # None ELSE f \in chunks

Read(v) ==
  /\ at[v] = "read"
  /\ Release(v)
  /\ UNCHANGED <<cacheDir, installed, upsets>>

(* The server is stopped and started: only the directories remain.         *)
Forget(v) ==
  /\ specs'    = [specs EXCEPT ![v] = {}]
  /\ builtSig' = [builtSig EXCEPT ![v] = None]
  /\ at'   = [at EXCEPT ![v] = "idle"]
  /\ want' = [want EXCEPT ![v] = None]
  /\ plan' = [plan EXCEPT ![v] = NoPlan]
  /\ todo' = [todo EXCEPT ![v] = {}]
  /\ entriesDir' = Leftover(v)
  /\ Upset
  /\ UNCHANGED <<out, chunks, installed>>

(* npm install adds a package.                                             *)
NpmInstall(s) ==
  /\ s \notin installed
  /\ installed' = installed \union {s}
  /\ UNCHANGED <<lists, request, cacheDir, upsets>>

=============================================================================
