-------------------------------- MODULE Host --------------------------------
(***************************************************************************)
(* The dev server's host (host.go) as one browser page sees it: the import *)
(* of a bare spec by user code becomes a URL (ResolveImport), and a URL    *)
(* becomes a module (LoadModule). A project with a node_modules directory  *)
(* is served by the optimizer of Optimizer.tla under /@nm/; one without is *)
(* served from the registry's blobs, eligible packages bundled one by one  *)
(* under /@pre/ (Prebundle.tla models how) and all others as they are      *)
(* under /@dep/. A browser asks for a URL once and keeps what it got until *)
(* the page is loaded anew. Aliases and the user's own files, which        *)
(* ResolveImport also handles, have no state and are left out.             *)
(***************************************************************************)
EXTENDS Optimizer

CONSTANTS
  Home,      (* the server of the page                                     *)
  Elsewhere, (* the specs that pages of other servers import               *)
  Family     (* the specs of the Vue and React families                    *)

ASSUME HostAssumption ==
  /\ Home \in Servers
  /\ Elsewhere \subseteq Specs
  /\ Family \subseteq Specs

VARIABLES
  mode,     (* "nm" or "cdn": is there a node_modules directory            *)
  imported, (* the bare imports of the page's modules transformed so far   *)
  page,     (* page[u]: what the page got for the URL u                    *)
  since,    (* what happened that the page may have noticed                *)
  foreign   (* another server wrote in the directory since Home last began *)

browser == <<imported, page>>
history == <<since, foreign>>
vars == <<optimizer, browser, history, mode>>

Nm(f)  == <<"nm", f>>
Dep(s) == <<"dep", s>>
Pre(s) == <<"pre", s>>
Urls   == {Nm(f) : f \in NmFiles} \union {Dep(s) : s \in Specs}
            \union {Pre(s) : s \in Specs}

Events == {"grown", "fault", "poisoned", "crossed", "restarted"}

(* What a page shows for a URL. "failed": the build failed; "missing": no  *)
(* such file. Both are a 404.                                              *)
NoFile == [spec |-> None, carries |-> {}, imports |-> {}]
Shown(status) == [status |-> status, file |-> NoFile]
Loaded(file)  == [status |-> "got", file |-> file]
Got(u) == page[u].status = "got"

HostTypeOK ==
  /\ mode     \in {"nm", "cdn"}
  /\ imported \in SUBSET Specs
  /\ page     \in [Urls -> [status : {"unasked", "asked", "failed", "missing",
                                      "got"},
                            file : EntryFiles \union
                                   [spec : {None}, carries : SUBSET Specs,
                                    imports : {{}}]]]
  /\ since    \in SUBSET Events
  /\ foreign  \in BOOLEAN

TypeOK == OptimizerTypeOK /\ HostTypeOK

Init ==
  /\ OptimizerInit
  /\ mode \in {"nm", "cdn"}
  /\ imported = {}
  /\ page     = [u \in Urls |-> Shown("unasked")]
  /\ since    = {}
  /\ foreign  = FALSE

-----------------------------------------------------------------------------
(***************************************************************************)
(* A mutant, as in Optimizer.                                              *)
(***************************************************************************)
MutAllEligible(s) == TRUE

(* prebundleEligible: packages that must be one instance are not bundled.  *)
Eligible(s) == s \notin Family

(* ResolveImport for the bare import s of user code.                       *)
UrlOf(s) == CASE mode = "nm"                 -> Nm(NameOf[s])
              [] mode = "cdn" /\ Eligible(s)  -> Pre(s)
              [] mode = "cdn" /\ ~Eligible(s) -> Dep(s)

(* The URLs in the body of u: chunks, relative to an /@nm/ file; blobs,    *)
(* for what a package or its bundle imports of other packages.             *)
References(u) == IF u[1] = "nm" THEN {Nm(c) : c \in page[u].file.imports}
                                ELSE {Dep(s) : s \in Imports[u[2]]}

Known == {UrlOf(s) : s \in imported}
           \union UNION {References(u) : u \in {w \in Urls : Got(w)}}

(* The modules that the page has an instance of by u.                      *)
Carries(u) == IF u[1] = "nm" THEN page[u].file.carries ELSE {u[2]}

-----------------------------------------------------------------------------
Since(e) == since' = since \union e
Poison(S) == IF \A s \in S : Resolvable(s) THEN {} ELSE {"poisoned"}

(* A user module that imports s is transformed. In node_modules mode any   *)
(* spec is taken; the resolver knows only what the registry has.           *)
Import(s) ==
  /\ s \notin imported
  /\ imported' = imported \union {s}
  /\ \/ /\ mode = "nm"
        /\ Resolve(Home, s)
        /\ Since(Poison({s}) \union
                 IF s \notin specs[Home] /\ \E f \in NmFiles : Got(Nm(f))
                   THEN {"grown"} ELSE {})
     \/ /\ mode = "cdn"
        /\ s \in installed
        /\ UNCHANGED <<optimizer, since>>
  /\ UNCHANGED <<mode, page, foreign>>

Asks(u) == page[u].status = "unasked" /\ u \in Known

(* LoadModule in registry mode: loadPrebundle, or loadDep.                 *)
LoadBlob(u) ==
  /\ mode = "cdn"
  /\ Asks(u)
  /\ \/ /\ u[2] \in installed
        /\ page' = [page EXCEPT ![u] = Loaded(NoFile)]
        /\ UNCHANGED <<upsets, since>>
     \/ /\ u[2] \notin installed
        /\ page' = [page EXCEPT ![u] = Shown("missing")]
        /\ UNCHANGED <<upsets, since>>
     \/ /\ u[1] = "pre"
        /\ Upset
        /\ page' = [page EXCEPT ![u] = Shown("failed")]
        /\ Since({"fault"})
  /\ UNCHANGED <<lists, request, cacheDir, installed, mode, imported, foreign>>

(* v writes in the directory, or starts over with it.                      *)
Writes(v) == IF v = Home THEN UNCHANGED history
                         ELSE foreign' = TRUE /\ Since({"crossed"})

Begins(v) ==
  CASE Current(v)                -> UNCHANGED history
    [] ~Current(v) /\ v = Home  -> foreign' = FALSE /\ UNCHANGED since
    [] ~Current(v) /\ v # Home  -> Writes(v)

(* LoadModule in node_modules mode. What a page of another server asks for *)
(* makes no difference, except that the server may have to build first.    *)
TakeOwn(f) ==
  /\ mode = "nm"
  /\ Take(Home, f)
  /\ Begins(Home)
  /\ Asks(Nm(f))
  /\ page' = [page EXCEPT ![Nm(f)] = Shown("asked")]
  /\ UNCHANGED <<mode, imported, upsets>>

TakeElsewhere(v) ==
  /\ mode = "nm"
  /\ v # Home
  /\ ~Current(v)
  /\ Take(v, CHOOSE n \in Names : TRUE)
  /\ Begins(v)
  /\ Upset
  /\ UNCHANGED <<mode, browser>>

(* The answer to the request that v handles, if this page waits for it.    *)
Mine(v) == v = Home /\ want[v] # None /\ page[Nm(want[v])].status = "asked"

Answer(v, a) ==
  /\ page' = IF Mine(v) THEN [page EXCEPT ![Nm(want[v])] = a] ELSE page
  /\ UNCHANGED imported

LoadFails(v) ==
  /\ BuildFails(v)
  /\ Answer(v, Shown("failed"))
  /\ IF v = Home /\ at[v] # "bundle" THEN Since({"fault"})
                                     ELSE UNCHANGED since
  /\ UNCHANGED <<mode, foreign>>

File(f) == IF f \in Names
             THEN out[f] ELSE [spec |-> None, carries |-> f, imports |-> {}]

LoadReads(v) ==
  /\ Read(v)
  /\ Answer(v, IF Present(want[v]) THEN Loaded(File(want[v]))
                                   ELSE Shown("missing"))
  /\ UNCHANGED <<mode, history>>

LoadBuilds(v) ==
  /\ \/ WriteProxies(v) /\ Writes(v)
     \/ Bundle(v) /\ UNCHANGED history
     \/ (\E f \in NmFiles : Emit(v, f)) /\ Writes(v)
  /\ UNCHANGED <<mode, browser>>

(* The page is loaded anew: requests it waits for are answered in vain.    *)
Reload ==
  /\ imported # {}
  /\ imported' = {}
  /\ page' = [u \in Urls |-> Shown("unasked")]
  /\ since' = (IF foreign THEN {"crossed"} ELSE {}) \union Poison(specs[Home])
  /\ UNCHANGED <<optimizer, mode, foreign>>

(* Home is started again; a request that it was handling is lost.          *)
Restart ==
  /\ Forget(Home)
  /\ Answer(Home, Shown("missing"))
  /\ Since({"restarted"})
  /\ UNCHANGED <<mode, foreign>>

(* A page of another server has a spec resolved.                           *)
ImportElsewhere(v, s) ==
  /\ mode = "nm"
  /\ v # Home
  /\ s \in Elsewhere
  /\ Resolve(v, s)
  /\ UNCHANGED <<mode, browser, history>>

Install(s) == NpmInstall(s) /\ UNCHANGED <<mode, browser, history>>

Next ==
  \/ \E s \in Specs : Import(s) \/ Install(s)
  \/ \E u \in Urls : LoadBlob(u)
  \/ \E f \in NmFiles : TakeOwn(f)
  \/ Reload \/ Restart
  \/ \E v \in Servers :
       \/ TakeElsewhere(v)
       \/ LoadFails(v)
       \/ LoadReads(v)
       \/ LoadBuilds(v)
       \/ \E s \in Specs : ImportElsewhere(v, s)

Spec == Init /\ [][Next]_vars

-----------------------------------------------------------------------------
(* What a page gets for a bare import is the entry of that spec, unless a  *)
(* spec with the same sanitized name was requested too (nodemodules.go:55  *)
(* calls the names reversible enough), another server wrote in the shared  *)
(* directory, or the server has forgotten its set.                         *)
RightModule ==
  \A s \in imported :
    (mode = "nm" /\ Got(Nm(NameOf[s]))) =>
      \/ page[Nm(NameOf[s])].file.spec = s
      \/ \E t \in specs[Home] \ {s} : NameOf[t] = NameOf[s]
      \/ {"crossed", "restarted"} \intersect since # {}

(* nodemodules.go:24-27 and rewrite.go:7-10 promise a page one instance of *)
(* each module. In node_modules mode a page has two only when a spec was   *)
(* registered after it got its first bundle, or its server was restarted   *)
(* or shares the directory. In registry mode it has two only of a package  *)
(* that may be bundled, and that both user code and a package import.      *)
ForksExplained ==
  \A u, w \in {x \in Urls : Got(x)} :
    u # w => \A m \in Carries(u) \intersect Carries(w) :
      IF mode = "nm"
      THEN {"grown", "crossed", "restarted"} \intersect since # {}
      ELSE /\ m \in imported \ Family
           /\ {u, w} = {Pre(m), Dep(m)}
           /\ \E x \in Urls : Got(x) /\ Dep(m) \in References(x)

(* A page asks for chunks of builds that have been replaced meanwhile, and *)
(* still gets them. A file is missing only when a package is not installed *)
(* or a server that was restarted forgot the request; a build fails only   *)
(* for a failed file operation, another server on the directory, or a spec *)
(* that was requested, by whichever page, before it could be resolved.     *)
MissesExplained ==
  \A u \in Urls :
    /\ page[u].status = "missing" =>
         IF u[1] = "nm" THEN {"crossed", "restarted"} \intersect since # {}
                        ELSE u[1] = "dep"
    /\ page[u].status = "failed" =>
         {"fault", "poisoned", "crossed"} \intersect since # {}

=============================================================================
