----------------------------- MODULE HostProofs -----------------------------
(***************************************************************************)
(* Proofs about Host, and the Optimizer it extends, for every number of    *)
(* servers, set of packages and bound: the types, that a page gets the     *)
(* module it imports, that it has one instance of each, and that what it   *)
(* asks for is there, each up to the events that excuse the program. And   *)
(* about the Pool of compilers that the host serves Vue components from:   *)
(* the types, exclusive use of a compiler, conservation of the free-list,  *)
(* and that nothing survives Close or a NewPool that failed.               *)
(***************************************************************************)
EXTENDS Host, Pool, FiniteSetTheorems, TLAPS

(* A server that emits has a plan with every entry it has still to write.  *)
PlanInv ==
  \A v \in Servers, n \in Names : n \in todo[v] => plan[v][n] # None

(* p is a plan of Home's set: of the specs that share a name, any one.     *)
PlanFor(p) ==
  /\ p \in Plans
  /\ \A n \in Names :
       p[n] # None => p[n] \in specs[Home] /\ NameOf[p[n]] = n
  /\ \A s \in specs[Home] : p[NameOf[s]] # None

OutputsOf(p) == Entries(p) \union Split(p)

Written(f, p) == IF f \in Names THEN out[f] = EntryOf(f, p) ELSE f \in chunks

Served(p) == PlanFor(p) /\ \A f \in OutputsOf(p) : Written(f, p)

(* What a page gets for an output file of p.                               *)
FileOf(f, p) == IF f \in Names
                  THEN EntryOf(f, p)
                  ELSE [spec |-> None, carries |-> f, imports |-> {}]

(* How far Home's build has come. As long as no other server has written   *)
(* in the directory, what it holds of Home's files is of one plan.         *)
SetInv ==
  /\ builtSig[Home] \in {None, specs[Home]}
  /\ at[Home] \in {"write", "bundle", "emit"} => builtSig[Home] = None
  /\ at[Home] = "read" =>
       builtSig[Home] = specs[Home] \/ specs[Home] = {}

DirectoryInv ==
  ~foreign =>
    /\ at[Home] = "bundle" => PlanFor(Planned(Home))
    /\ at[Home] = "emit" =>
         /\ PlanFor(plan[Home])
         /\ \A f \in OutputsOf(plan[Home]) \ todo[Home] :
              Written(f, plan[Home])
    /\ builtSig[Home] # None => \E p \in Plans : Served(p)

(* What the page has noticed.                                              *)
SinceInv ==
  /\ foreign => "crossed" \in since
  /\ "poisoned" \notin since => \A s \in specs[Home] : Resolvable(s)

(* The page waits for what Home is working on, and for nothing before its  *)
(* first import.                                                           *)
AskInv ==
  /\ \A u \in Urls : page[u].status = "asked" =>
       mode = "nm" /\ at[Home] # "idle" /\ u = Nm(want[Home])
  /\ imported = {} => \A u \in Urls : page[u].status = "unasked"
  /\ mode = "nm" /\ "restarted" \notin since => imported \subseteq specs[Home]

Apart == {"crossed", "restarted"} \intersect since = {}
Calm == mode = "nm" /\ Apart /\ "grown" \notin since
GotAny == \E f \in NmFiles : Got(Nm(f))
Requested == {NameOf[s] : s \in specs[Home]}

(* In node_modules mode: entries have the name that was asked for, chunks  *)
(* that the page knows of are there.                                       *)
NmInv ==
  mode = "nm" =>
    /\ \A s \in Specs : /\ page[Dep(s)].status = "unasked"
                        /\ page[Pre(s)].status = "unasked"
    /\ Apart => \A f \in NmFiles :
         /\ Got(Nm(f)) =>
              /\ page[Nm(f)].file.imports \subseteq chunks
              /\ f \in Names => /\ page[Nm(f)].file.spec \in specs[Home]
                                /\ NameOf[page[Nm(f)].file.spec] = f
         /\ page[Nm(f)].status = "asked" =>
              f \in Requested \/ (f \in chunks /\ GotAny)

(* While the set is that of the page's first bundle: all it has and all it *)
(* waits for is of one plan.                                               *)
OnePlanInv ==
  Calm /\ GotAny =>
    /\ builtSig[Home] # None
    /\ \E p \in Plans :
         /\ Served(p)
         /\ \A f \in NmFiles :
              /\ page[Nm(f)].status \in {"asked", "got"} => f \in OutputsOf(p)
              /\ Got(Nm(f)) => page[Nm(f)].file = FileOf(f, p)

(* In registry mode: what has made the page ask.                           *)
CdnInv ==
  mode = "cdn" =>
    /\ imported \subseteq installed
    /\ \A f \in NmFiles : page[Nm(f)].status = "unasked"
    /\ \A s \in Specs :
         /\ page[Pre(s)].status # "unasked" => s \in imported \ Family
         /\ page[Dep(s)].status # "unasked" =>
              \/ s \in Family
              \/ \E x \in Urls : Got(x) /\ Dep(s) \in References(x)

HostInv ==
  /\ SetInv
  /\ DirectoryInv
  /\ SinceInv
  /\ AskInv
  /\ NmInv
  /\ OnePlanInv
  /\ CdnInv
  /\ MissesExplained

-----------------------------------------------------------------------------
(* What the optimizer names its files, and the host its URLs.              *)
LEMMA Filenames ==
  /\ None \notin NmFiles
  /\ None \notin SUBSET Specs
  /\ None \notin Specs
  /\ Names \subseteq NmFiles
  /\ Chunks \subseteq NmFiles
  /\ \A f \in NmFiles : f \notin Names => f \in Chunks
  /\ \A c \in Chunks : c \in SUBSET Specs /\ c \notin Names
  /\ NoPlan \in Plans
  /\ \A p \in Plans : /\ Entries(p) \subseteq Names
                      /\ Split(p) \subseteq Chunks
<1>1. ASSUME NEW p \in Plans
      PROVE  \A c \in Split(p) : c \in SUBSET Specs
  BY DEF Split
<1>2. \A c \in Chunks : c \in SUBSET Specs
  BY <1>1 DEF Chunks
<1>3. \A p \in Plans : Split(p) \subseteq Chunks
  BY DEF Chunks
<1>4. \A C \in SUBSET Specs : C \notin Names \union {None}
  BY OptimizerAssumption
<1>5. None \notin Specs \union Names
  BY OptimizerAssumption
<1>6. NoPlan \in Plans
  BY DEF NoPlan, Plans
<1>7. \A p \in Plans : Entries(p) \subseteq Names
  BY DEF Entries
<1>8. QED
  BY <1>2, <1>3, <1>4, <1>5, <1>6, <1>7 DEF NmFiles

LEMMA Addresses ==
  /\ \A f \in NmFiles : Nm(f) \in Urls
  /\ \A s \in Specs : Dep(s) \in Urls /\ Pre(s) \in Urls
  /\ \A u \in Urls : \/ \E f \in NmFiles : u = Nm(f)
                     \/ \E s \in Specs : u = Dep(s)
                     \/ \E s \in Specs : u = Pre(s)
  /\ \A f, g : Nm(f) = Nm(g) => f = g
  /\ \A s, t : Dep(s) = Dep(t) => s = t
  /\ \A s, t : Pre(s) = Pre(t) => s = t
  /\ \A f, s : Nm(f) # Dep(s) /\ Nm(f) # Pre(s) /\ Pre(s) # Dep(f)
  /\ \A f : /\ Nm(f)[1] = "nm"   /\ Nm(f)[2] = f
            /\ Dep(f)[1] = "dep" /\ Dep(f)[2] = f
            /\ Pre(f)[1] = "pre" /\ Pre(f)[2] = f
BY DEF Urls, Nm, Dep, Pre

(* What a page shows for a URL has the type of its views.                  *)
Views == [status : {"unasked", "asked", "failed", "missing", "got"},
          file : EntryFiles \union [spec : {None}, carries : SUBSET Specs,
                                    imports : {{}}]]

LEMMA ViewTypes ==
  /\ \A status \in {"unasked", "asked", "failed", "missing", "got"} :
       /\ Shown(status) \in Views
       /\ Shown(status).status = status
  /\ \A file : Loaded(file).status = "got" /\ Loaded(file).file = file
  /\ \A file \in EntryFiles : Loaded(file) \in Views
  /\ \A c \in SUBSET Specs :
       Loaded([spec |-> None, carries |-> c, imports |-> {}]) \in Views
<1>1. \A c \in SUBSET Specs :
        [spec |-> None, carries |-> c, imports |-> {}]
          \in [spec : {None}, carries : SUBSET Specs, imports : {{}}]
  OBVIOUS
<1>2. NoFile \in [spec : {None}, carries : SUBSET Specs, imports : {{}}]
  BY <1>1 DEF NoFile
<1>3. QED
  BY <1>1, <1>2 DEF Views, Shown, Loaded

(* esbuild's output for an entry of a plan: of the spec planned, importing *)
(* chunks of the same plan.                                                *)
LEMMA EntryTypes ==
  ASSUME NEW p \in Plans, NEW n \in Names, p[n] # None
  PROVE  /\ EntryOf(n, p) \in EntryFiles
         /\ EntryOf(n, p) # None
         /\ EntryOf(n, p).spec = p[n]
         /\ EntryOf(n, p).imports \subseteq Split(p)
         /\ EntryOf(n, p).carries = {m \in Specs : Users(m, p) = {n}}
<1>1. p[n] \in Specs
  BY DEF Plans
<1>2. Split(p) \subseteq Chunks
  BY Filenames
<1>3. {c \in Split(p) : c \cap Reach[p[n]] # {}} \in SUBSET Chunks
  BY <1>2
<1>4. EntryOf(n, p) \in EntryFiles
  BY <1>1, <1>3 DEF EntryOf, EntryFiles
<1>5. None \notin EntryFiles
  BY NoFileAssumption
<1>6. QED
  BY <1>4, <1>5 DEF EntryOf

-----------------------------------------------------------------------------
LEMMA PageType ==
  HostTypeOK <=> /\ mode     \in {"nm", "cdn"}
                 /\ imported \in SUBSET Specs
                 /\ page     \in [Urls -> Views]
                 /\ since    \in SUBSET Events
                 /\ foreign  \in BOOLEAN
BY DEF HostTypeOK, Views

LEMMA InitTypes == Init => TypeOK /\ PlanInv
<1> SUFFICES ASSUME Init PROVE TypeOK /\ PlanInv
  OBVIOUS
<1>1. OptimizerTypeOK
  <2>1. upsets \in 0 .. MaxUpsets
    BY OptimizerAssumption DEF Init, OptimizerInit
  <2>2. /\ plan \in [Servers -> Plans]
        /\ entriesDir \in Plans
    BY Filenames DEF Init, OptimizerInit
  <2>3. /\ specs \in [Servers -> SUBSET Specs]
        /\ builtSig \in [Servers -> (SUBSET Specs) \union {None}]
        /\ at \in [Servers -> {"idle", "write", "bundle", "emit", "read"}]
        /\ want \in [Servers -> NmFiles \union {None}]
        /\ todo \in [Servers -> SUBSET NmFiles]
        /\ out \in [Names -> EntryFiles \union {None}]
        /\ chunks \in SUBSET Chunks
        /\ installed \in SUBSET Specs
    BY DEF Init, OptimizerInit
  <2>4. QED
    BY <2>1, <2>2, <2>3 DEF OptimizerTypeOK
<1>2. HostTypeOK
  BY PageType, ViewTypes DEF Init
<1>3. PlanInv
  BY DEF Init, OptimizerInit, PlanInv
<1>4. QED
  BY <1>1, <1>2, <1>3 DEF TypeOK

(* The steps of the optimizer keep its types, whichever server takes them. *)
LEMMA ResolveTypes ==
  ASSUME OptimizerTypeOK, PlanInv, NEW v \in Servers, NEW s \in Specs,
         Resolve(v, s)
  PROVE  OptimizerTypeOK' /\ PlanInv'
<1> USE DEF Resolve, request, cacheDir
<1>1. PlanInv'
  BY DEF PlanInv
<1>2. specs' \in [Servers -> SUBSET Specs]
  BY DEF OptimizerTypeOK
<1>3. builtSig' \in [Servers -> (SUBSET Specs) \union {None}]
  <2>1. CASE s \in specs[v]
    BY <2>1 DEF OptimizerTypeOK
  <2>2. CASE s \notin specs[v]
    BY <2>2 DEF OptimizerTypeOK
  <2>3. QED
    BY <2>1, <2>2
<1>4. QED
  BY <1>1, <1>2, <1>3 DEF OptimizerTypeOK

LEMMA TakeTypes ==
  ASSUME OptimizerTypeOK, PlanInv, NEW v \in Servers, NEW f \in NmFiles,
         Take(v, f), upsets' \in 0 .. MaxUpsets
  PROVE  OptimizerTypeOK' /\ PlanInv'
<1> USE DEF Take, Step, lists
<1>1. PlanInv'
  BY DEF PlanInv
<1>2. entriesDir' \in Plans
  BY Filenames DEF OptimizerTypeOK
<1>3. QED
  BY <1>1, <1>2 DEF OptimizerTypeOK

LEMMA WriteProxiesTypes ==
  ASSUME OptimizerTypeOK, PlanInv, NEW v \in Servers, WriteProxies(v)
  PROVE  OptimizerTypeOK' /\ PlanInv'
<1> USE DEF WriteProxies, Step, lists
<1>1. PlanInv'
  BY DEF PlanInv
<1>2. entriesDir' \in Plans
  <2>1. PICK p \in [{NameOf[s] : s \in specs[v]} -> specs[v]] :
               entriesDir' = [n \in Names |->
                                IF n \in DOMAIN p THEN p[n] ELSE entriesDir[n]]
    OBVIOUS
  <2>2. \A n \in DOMAIN p : p[n] \in Specs
    BY DEF OptimizerTypeOK
  <2>3. \A n \in Names : entriesDir[n] \in Specs \union {None}
    BY DEF OptimizerTypeOK, Plans
  <2>4. QED
    BY <2>1, <2>2, <2>3 DEF Plans
<1>3. QED
  BY <1>1, <1>2 DEF OptimizerTypeOK

LEMMA PlannedType ==
  ASSUME OptimizerTypeOK, NEW v \in Servers
  PROVE  Planned(v) \in Plans /\ Leftover(v) \in Plans
<1>1. \A n \in Names : entriesDir[n] \in Specs \union {None}
  BY DEF OptimizerTypeOK, Plans
<1>2. Planned(v) \in Plans
  BY <1>1 DEF Planned, Plans
<1>3. Leftover(v) \in Plans
  BY Filenames DEF Leftover, OptimizerTypeOK
<1>4. QED
  BY <1>2, <1>3

LEMMA BundleTypes ==
  ASSUME OptimizerTypeOK, PlanInv, NEW v \in Servers, Bundle(v)
  PROVE  OptimizerTypeOK' /\ PlanInv'
<1> USE DEF Bundle, Step, lists
<1>1. PICK p \in Plans : p = Planned(v)
  BY PlannedType
<1>2. /\ plan' = [plan EXCEPT ![v] = p]
      /\ todo' = [todo EXCEPT ![v] = Entries(p) \union Split(p)]
  BY <1>1
<1>3. Entries(p) \union Split(p) \in SUBSET NmFiles
  BY Filenames
<1>4. \A n \in Names : n \in Entries(p) \union Split(p) => p[n] # None
  BY Filenames DEF Entries
<1>5. PlanInv'
  BY <1>2, <1>4 DEF PlanInv, OptimizerTypeOK
<1>6. entriesDir' \in Plans
  BY PlannedType
<1>7. QED
  BY <1>2, <1>3, <1>5, <1>6 DEF OptimizerTypeOK

LEMMA EmitFiles ==
  ASSUME OptimizerTypeOK, PlanInv, NEW v \in Servers, NEW f \in NmFiles,
         Emit(v, f)
  PROVE  /\ out' \in [Names -> EntryFiles \union {None}]
         /\ chunks' \in SUBSET Chunks
<1>1. CASE f \in Names
  <2>1. plan[v] \in Plans /\ plan[v][f] # None
    BY <1>1 DEF OptimizerTypeOK, PlanInv, Emit
  <2>2. EntryOf(f, plan[v]) \in EntryFiles
    BY <1>1, <2>1, EntryTypes
  <2>3. QED
    BY <1>1, <2>2 DEF Emit, OptimizerTypeOK
<1>2. CASE f \notin Names
  BY <1>2, Filenames DEF Emit, OptimizerTypeOK
<1>3. QED
  BY <1>1, <1>2

LEMMA EmitTypes ==
  ASSUME OptimizerTypeOK, PlanInv, NEW v \in Servers, NEW f \in NmFiles,
         Emit(v, f)
  PROVE  OptimizerTypeOK' /\ PlanInv'
<1> USE DEF Emit
<1>1. todo' = [todo EXCEPT ![v] = @ \ {f}] /\ f \in todo[v]
  OBVIOUS
<1>2. CASE todo[v] = {f}
  <2>1. todo'[v] = {} /\ \A w \in Servers \ {v} : /\ todo'[w] = todo[w]
                                                  /\ plan'[w] = plan[w]
    BY <1>1, <1>2 DEF OptimizerTypeOK
  <2>2. PlanInv'
    BY <2>1 DEF PlanInv
  <2>3. plan' \in [Servers -> Plans]
    BY Filenames, <1>2 DEF OptimizerTypeOK
  <2>4. builtSig' \in [Servers -> (SUBSET Specs) \union {None}]
    BY <1>2 DEF OptimizerTypeOK
  <2>5. QED
    BY <2>2, <2>3, <2>4, EmitFiles DEF OptimizerTypeOK
<1>3. CASE todo[v] # {f}
  <2>1. plan' = plan /\ builtSig' = builtSig /\ at' = at
    BY <1>3 DEF OptimizerTypeOK
  <2>2. PlanInv'
    BY <1>1, <2>1 DEF PlanInv, OptimizerTypeOK
  <2>3. todo' \in [Servers -> SUBSET NmFiles]
    BY <1>1 DEF OptimizerTypeOK
  <2>4. /\ out' \in [Names -> EntryFiles \union {None}]
        /\ chunks' \in SUBSET Chunks
    BY EmitFiles
  <2>5. QED
    BY <2>1, <2>2, <2>3, <2>4 DEF OptimizerTypeOK
<1>4. QED
  BY <1>2, <1>3

LEMMA ReleaseTypes ==
  ASSUME OptimizerTypeOK, PlanInv, NEW v \in Servers, Release(v)
  PROVE  /\ at'   \in [Servers -> {"idle", "write", "bundle", "emit", "read"}]
         /\ want' \in [Servers -> NmFiles \union {None}]
         /\ plan' \in [Servers -> Plans]
         /\ todo' \in [Servers -> SUBSET NmFiles]
         /\ UNCHANGED lists
         /\ PlanInv'
<1> USE DEF Release
<1>1. plan' \in [Servers -> Plans]
  BY Filenames DEF OptimizerTypeOK
<1>2. PlanInv'
  BY DEF PlanInv, OptimizerTypeOK
<1>3. QED
  BY <1>1, <1>2 DEF OptimizerTypeOK

LEMMA UpsetType ==
  ASSUME OptimizerTypeOK, Upset
  PROVE  upsets' \in 0 .. MaxUpsets
BY OptimizerAssumption DEF OptimizerTypeOK, Upset

LEMMA BuildFailsTypes ==
  ASSUME OptimizerTypeOK, PlanInv, NEW v \in Servers, BuildFails(v)
  PROVE  OptimizerTypeOK' /\ PlanInv'
<1>1. entriesDir' \in Plans
  BY PlannedType DEF BuildFails
<1>2. upsets' \in 0 .. MaxUpsets
  BY UpsetType DEF BuildFails, OptimizerTypeOK
<1>3. UNCHANGED <<out, chunks, installed>> /\ Release(v)
  BY DEF BuildFails
<1>4. QED
  BY <1>1, <1>2, <1>3, ReleaseTypes DEF OptimizerTypeOK, lists

LEMMA ReadTypes ==
  ASSUME OptimizerTypeOK, PlanInv, NEW v \in Servers, Read(v)
  PROVE  OptimizerTypeOK' /\ PlanInv'
BY ReleaseTypes DEF Read, OptimizerTypeOK, lists, cacheDir

LEMMA ForgetTypes ==
  ASSUME OptimizerTypeOK, PlanInv, NEW v \in Servers, Forget(v)
  PROVE  OptimizerTypeOK' /\ PlanInv'
<1> USE DEF Forget
<1>1. entriesDir' \in Plans
  BY PlannedType
<1>2. upsets' \in 0 .. MaxUpsets
  BY UpsetType
<1>3. plan' \in [Servers -> Plans]
  BY Filenames DEF OptimizerTypeOK
<1>4. specs' \in [Servers -> SUBSET Specs]
  BY DEF OptimizerTypeOK
<1>5. builtSig' \in [Servers -> (SUBSET Specs) \union {None}]
  BY DEF OptimizerTypeOK
<1>6. PlanInv'
  BY DEF PlanInv, OptimizerTypeOK
<1>7. QED
  BY <1>1, <1>2, <1>3, <1>4, <1>5, <1>6 DEF OptimizerTypeOK

(* What the page gets is the file as it is in the directory at that time.  *)
LEMMA FileType ==
  ASSUME OptimizerTypeOK, NEW f \in NmFiles, Present(f)
  PROVE  /\ Loaded(File(f)) \in Views
         /\ f \in Names => File(f) = out[f]
         /\ f \notin Names =>
              File(f) = [spec |-> None, carries |-> f, imports |-> {}]
<1>1. CASE f \in Names
  <2>1. out[f] \in EntryFiles
    BY <1>1 DEF OptimizerTypeOK, Present
  <2>2. QED
    BY <1>1, <2>1, ViewTypes DEF File
<1>2. CASE f \notin Names
  BY <1>2, Filenames, ViewTypes DEF File
<1>3. QED
  BY <1>1, <1>2

LEMMA AnswerType ==
  ASSUME HostTypeOK, NEW v \in Servers, NEW a \in Views, Answer(v, a)
  PROVE  page' \in [Urls -> Views] /\ imported' = imported
BY PageType DEF Answer

LEMMA EventTypes ==
  /\ \A S : Poison(S) \in SUBSET Events
  /\ {} \in SUBSET Events
  /\ \A e \in Events : {e} \in SUBSET Events
  /\ \A e, d \in SUBSET Events : e \union d \in SUBSET Events
BY DEF Poison, Events

(* HostTypeOK, one page and its history at a time. *)
LEMMA HostTypes ==
  ASSUME HostTypeOK, mode' = mode, imported' \in SUBSET Specs,
         page' \in [Urls -> Views], foreign' \in BOOLEAN,
         since' \in SUBSET Events
  PROVE  HostTypeOK'
<1>1. /\ mode'     \in {"nm", "cdn"}
      /\ imported' \in SUBSET Specs
      /\ page'     \in [Urls -> Views]
      /\ since'    \in SUBSET Events
      /\ foreign'  \in BOOLEAN
  BY PageType
<1>2. QED
  BY <1>1 DEF HostTypeOK, Views

LEMMA TypesPreserved ==
  ASSUME TypeOK, PlanInv, Next
  PROVE  TypeOK' /\ PlanInv'
<1> USE HostAssumption DEF TypeOK
<1>0. /\ imported \in SUBSET Specs
      /\ page \in [Urls -> Views]
      /\ since \in SUBSET Events
      /\ foreign \in BOOLEAN
  BY PageType
<1>1. ASSUME NEW s \in Specs, Import(s) PROVE TypeOK' /\ PlanInv'
  <2>1. /\ mode' = mode /\ foreign' = foreign /\ page' = page
        /\ imported' \in SUBSET Specs
    BY <1>0, <1>1 DEF Import
  <2>2. CASE mode = "nm"
    <3>1. Resolve(Home, s)
      BY <1>1, <2>2 DEF Import
    <3>2. since' \in SUBSET Events
      <4>1. PICK e \in SUBSET Events : since' = since \union (Poison({s})
                                                              \union e)
        BY <1>1, <2>2, EventTypes DEF Import, Since, Events
      <4>2. QED
        BY <1>0, <4>1, EventTypes
    <3>3. QED
      BY <1>0, <2>1, <3>1, <3>2, ResolveTypes, HostTypes
  <2>3. CASE UNCHANGED <<optimizer, since>>
    <3>1. OptimizerTypeOK' /\ PlanInv'
      BY <2>3 DEF OptimizerTypeOK, PlanInv, optimizer, lists, request, cacheDir
    <3>2. QED
      BY <1>0, <2>1, <2>3, <3>1, HostTypes
  <2>4. QED
    BY <1>1, <2>2, <2>3 DEF Import
<1>2. ASSUME NEW s \in Specs, Install(s) PROVE TypeOK' /\ PlanInv'
  <2>1. OptimizerTypeOK' /\ PlanInv'
    BY <1>2 DEF Install, NpmInstall, OptimizerTypeOK, PlanInv, lists, request,
       cacheDir
  <2>2. QED
    BY <1>0, <1>2, <2>1, HostTypes DEF Install, browser, history
<1>3. ASSUME NEW u \in Urls, LoadBlob(u) PROVE TypeOK' /\ PlanInv'
  <2>1. page' \in [Urls -> Views]
    <3>1. Loaded(NoFile) \in Views
      BY ViewTypes DEF NoFile
    <3>2. QED
      BY <1>0, <1>3, <3>1, ViewTypes DEF LoadBlob
  <2>2. since' \in SUBSET Events
    BY <1>0, <1>3, EventTypes DEF LoadBlob, Since, Events
  <2>3. upsets' \in 0 .. MaxUpsets
    BY <1>3, UpsetType DEF LoadBlob, OptimizerTypeOK
  <2>4. OptimizerTypeOK' /\ PlanInv'
    BY <1>3, <2>3 DEF LoadBlob, OptimizerTypeOK, PlanInv, lists, request,
       cacheDir
  <2>5. QED
    BY <1>0, <1>3, <2>1, <2>2, <2>4, HostTypes DEF LoadBlob
<1>4. ASSUME NEW f \in NmFiles, TakeOwn(f) PROVE TypeOK' /\ PlanInv'
  <2>1. OptimizerTypeOK' /\ PlanInv'
    BY <1>4, TakeTypes DEF TakeOwn, OptimizerTypeOK
  <2>2. page' \in [Urls -> Views]
    BY <1>0, <1>4, ViewTypes DEF TakeOwn
  <2>3. foreign' \in BOOLEAN /\ since' = since
    BY <1>0, <1>4 DEF TakeOwn, Begins, history
  <2>4. QED
    BY <1>0, <1>4, <2>1, <2>2, <2>3, HostTypes DEF TakeOwn
<1>5. CASE Reload
  <2>1. page' \in [Urls -> Views]
    BY <1>5, ViewTypes DEF Reload
  <2>2. since' \in SUBSET Events
    BY <1>5, EventTypes DEF Reload, Events
  <2>3. OptimizerTypeOK' /\ PlanInv'
    BY <1>5 DEF Reload, OptimizerTypeOK, PlanInv, optimizer, lists, request,
       cacheDir
  <2>4. QED
    BY <1>0, <1>5, <2>1, <2>2, <2>3, HostTypes DEF Reload
<1>6. CASE Restart
  <2>1. OptimizerTypeOK' /\ PlanInv'
    BY <1>6, ForgetTypes DEF Restart
  <2>2. page' \in [Urls -> Views] /\ imported' = imported
    BY <1>6, AnswerType, ViewTypes DEF Restart
  <2>3. since' \in SUBSET Events
    BY <1>0, <1>6, EventTypes DEF Restart, Since, Events
  <2>4. QED
    BY <1>0, <1>6, <2>1, <2>2, <2>3, HostTypes DEF Restart
<1>7. ASSUME NEW v \in Servers, TakeElsewhere(v) PROVE TypeOK' /\ PlanInv'
  <2>1. PICK f \in NmFiles : Take(v, f)
    <3>1. specs[v] # {}
      BY <1>7 DEF TakeElsewhere, Current
    <3>2. \E n \in Names : TRUE
      BY <3>1, OptimizerAssumption DEF OptimizerTypeOK
    <3>3. (CHOOSE n \in Names : TRUE) \in Names
      BY <3>2
    <3>4. QED
      BY <1>7, <3>3, Filenames DEF TakeElsewhere
  <2>2. OptimizerTypeOK' /\ PlanInv'
    BY <1>7, <2>1, TakeTypes, UpsetType DEF TakeElsewhere
  <2>3. since' \in SUBSET Events /\ foreign' \in BOOLEAN
    BY <1>0, <1>7, EventTypes
       DEF TakeElsewhere, Begins, Writes, Since, Events, history
  <2>4. QED
    BY <1>0, <1>7, <2>2, <2>3, HostTypes DEF TakeElsewhere, browser
<1>8. ASSUME NEW v \in Servers, LoadFails(v) PROVE TypeOK' /\ PlanInv'
  <2>1. OptimizerTypeOK' /\ PlanInv'
    BY <1>8, BuildFailsTypes DEF LoadFails
  <2>2. page' \in [Urls -> Views] /\ imported' = imported
    BY <1>8, AnswerType, ViewTypes DEF LoadFails
  <2>3. since' \in SUBSET Events
    BY <1>0, <1>8, EventTypes DEF LoadFails, Since, Events
  <2>4. QED
    BY <1>0, <1>8, <2>1, <2>2, <2>3, HostTypes DEF LoadFails
<1>9. ASSUME NEW v \in Servers, LoadReads(v) PROVE TypeOK' /\ PlanInv'
  <2>1. OptimizerTypeOK' /\ PlanInv'
    BY <1>9, ReadTypes DEF LoadReads
  <2>2. page' \in [Urls -> Views] /\ imported' = imported
    <3>1. CASE Mine(v)
      <4>1. want[v] \in NmFiles
        BY <3>1 DEF Mine, OptimizerTypeOK
      <4>2. CASE Present(want[v])
        BY <1>9, <4>1, <4>2, FileType, AnswerType DEF LoadReads
      <4>3. CASE ~Present(want[v])
        BY <1>9, <4>3, AnswerType, ViewTypes DEF LoadReads
      <4>4. QED
        BY <4>2, <4>3
    <3>2. CASE ~Mine(v)
      BY <1>0, <1>9, <3>2 DEF LoadReads, Answer
    <3>3. QED
      BY <3>1, <3>2
  <2>3. QED
    BY <1>0, <1>9, <2>1, <2>2, HostTypes DEF LoadReads, history
<1>10. ASSUME NEW v \in Servers, LoadBuilds(v) PROVE TypeOK' /\ PlanInv'
  <2>1. OptimizerTypeOK' /\ PlanInv'
    BY <1>10, WriteProxiesTypes, BundleTypes, EmitTypes DEF LoadBuilds
  <2>2. since' \in SUBSET Events /\ foreign' \in BOOLEAN
    BY <1>0, <1>10, EventTypes DEF LoadBuilds, Writes, Since, Events, history
  <2>3. QED
    BY <1>0, <1>10, <2>1, <2>2, HostTypes DEF LoadBuilds, browser
<1>11. ASSUME NEW v \in Servers, NEW s \in Specs, ImportElsewhere(v, s)
       PROVE  TypeOK' /\ PlanInv'
  <2>1. OptimizerTypeOK' /\ PlanInv'
    BY <1>11, ResolveTypes DEF ImportElsewhere
  <2>2. QED
    BY <1>0, <1>11, <2>1, HostTypes DEF ImportElsewhere, browser, history
<1>12. QED
  BY <1>1, <1>2, <1>3, <1>4, <1>5, <1>6, <1>7, <1>8, <1>9, <1>10, <1>11
     DEF Next

LEMMA TypesInvariant == Spec => [](TypeOK /\ PlanInv)
<1>1. TypeOK /\ PlanInv /\ [Next]_vars => (TypeOK /\ PlanInv)'
  <2>1. TypeOK /\ PlanInv /\ UNCHANGED vars => (TypeOK /\ PlanInv)'
    BY DEF TypeOK, OptimizerTypeOK, HostTypeOK, PlanInv, vars, optimizer,
       lists, request, cacheDir, browser, history
  <2>2. QED
    BY <2>1, TypesPreserved
<1>2. QED
  BY <1>1, InitTypes, PTL DEF Spec

(* The data of the host and of every optimizer has the types declared.     *)
THEOREM TypeCorrect == Spec => []TypeOK
BY TypesInvariant, PTL

-----------------------------------------------------------------------------
LEMMA InitEstablishes == Init => HostInv
<1> SUFFICES ASSUME Init PROVE HostInv
  OBVIOUS
<1>1. /\ specs[Home] = {} /\ builtSig[Home] = None /\ at[Home] = "idle"
      /\ imported = {} /\ since = {} /\ foreign = FALSE
  BY HostAssumption DEF Init, OptimizerInit
<1>2. \A u \in Urls : page[u].status = "unasked"
  BY ViewTypes DEF Init
<1>3. SetInv /\ DirectoryInv /\ SinceInv /\ AskInv
  BY <1>1, <1>2 DEF SetInv, DirectoryInv, SinceInv, AskInv
<1>4. \A f \in NmFiles : page[Nm(f)].status = "unasked"
  BY <1>2, Addresses
<1>5. \A s \in Specs : page[Dep(s)].status = "unasked"
                       /\ page[Pre(s)].status = "unasked"
  BY <1>2, Addresses
<1>6. NmInv /\ OnePlanInv /\ CdnInv
  BY <1>1, <1>4, <1>5 DEF NmInv, OnePlanInv, CdnInv, GotAny, Got
<1>7. MissesExplained
  BY <1>2 DEF MissesExplained
<1>8. QED
  BY <1>3, <1>6, <1>7 DEF HostInv

(* A step that the page does not see, other than by what it finds in the   *)
(* directory later.                                                        *)
Unseen ==
  /\ UNCHANGED <<mode, imported, page, installed>>
  /\ specs'[Home] = specs[Home]
  /\ want'[Home] = want[Home]
  /\ at[Home] # "idle" => at'[Home] # "idle"
  /\ chunks \subseteq chunks'
  /\ since \subseteq since'
  /\ foreign' => "crossed" \in since'

LEMMA UnseenKeeps ==
  ASSUME HostInv, Unseen
  PROVE  SinceInv' /\ AskInv' /\ NmInv' /\ CdnInv' /\ MissesExplained'
<1> USE DEF HostInv, Unseen
<1>1. SinceInv'
  BY DEF SinceInv, Resolvable
<1>2. AskInv'
  BY DEF AskInv
<1>3. NmInv'
  <2> SUFFICES ASSUME mode = "nm"
               PROVE  NmInv'
    BY DEF NmInv
  <2>1. Apart' => Apart
    BY DEF Apart
  <2>2. (GotAny' <=> GotAny) /\ Requested' = Requested
    BY DEF GotAny, Got, Requested
  <2>3. \A f : Got(Nm(f))' <=> Got(Nm(f))
    BY DEF Got
  <2>4. QED
    BY <2>1, <2>2, <2>3 DEF NmInv
<1>4. CdnInv'
  BY DEF CdnInv, Got, References
<1>5. MissesExplained'
  BY DEF MissesExplained
<1>6. QED
  BY <1>1, <1>2, <1>3, <1>4, <1>5

(* A step of another server: it writes in the directory, and that counts,  *)
(* or it is of no consequence to Home's build.                             *)
Afar ==
  /\ Unseen
  /\ builtSig'[Home] = builtSig[Home]
  /\ at'[Home] = at[Home]
  /\ plan'[Home] = plan[Home]
  /\ todo'[Home] = todo[Home]
  /\ \/ foreign' = TRUE /\ "crossed" \in since'
     \/ /\ UNCHANGED <<foreign, out, chunks>>
        /\ at[Home] = "bundle" => entriesDir' = entriesDir

LEMMA AfarKeeps ==
  ASSUME HostInv, Afar
  PROVE  HostInv'
<1>1. SinceInv' /\ AskInv' /\ NmInv' /\ CdnInv' /\ MissesExplained'
  BY UnseenKeeps DEF Afar
<1>2. SetInv'
  BY DEF HostInv, SetInv, Afar, Unseen
<1>3. specs'[Home] = specs[Home] /\ page' = page /\ mode' = mode
      /\ since \subseteq since' /\ builtSig'[Home] = builtSig[Home]
  BY DEF Afar, Unseen
<1>4. CASE foreign' = TRUE /\ "crossed" \in since'
  BY <1>1, <1>2, <1>4 DEF HostInv, DirectoryInv, OnePlanInv, Calm, Apart
<1>5. CASE UNCHANGED <<foreign, out, chunks>>
           /\ (at[Home] = "bundle" => entriesDir' = entriesDir)
  <2>1. \A p : PlanFor(p)' <=> PlanFor(p)
    BY <1>3 DEF PlanFor
  <2>2. \A f, p : Written(f, p)' <=> Written(f, p)
    BY <1>5 DEF Written
  <2>3. \A p : Served(p)' <=> Served(p)
    BY <2>1, <2>2 DEF Served
  <2>4. DirectoryInv'
    <3>1. at[Home] = "bundle" =>
            (PlanFor(Planned(Home))' <=> PlanFor(Planned(Home)))
      BY <1>3, <1>5 DEF Planned, PlanFor
    <3>2. at'[Home] = at[Home] /\ plan'[Home] = plan[Home]
          /\ todo'[Home] = todo[Home]
      BY DEF Afar
    <3>3. at'[Home] = "bundle" /\ ~foreign' => PlanFor(Planned(Home))'
      BY <1>5, <2>1, <3>1, <3>2 DEF HostInv, DirectoryInv
    <3>4. QED
      BY <1>3, <1>5, <2>1, <2>2, <2>3, <3>2, <3>3 DEF HostInv, DirectoryInv
  <2>5. OnePlanInv'
    <3>1. Calm' => Calm
      BY <1>3 DEF Calm, Apart
    <3>2. GotAny' <=> GotAny
      BY <1>3 DEF GotAny, Got
    <3>3. \A f : Got(Nm(f))' <=> Got(Nm(f))
      BY <1>3 DEF Got
    <3>4. QED
      BY <1>3, <2>3, <3>1, <3>2, <3>3 DEF HostInv, OnePlanInv
  <2>6. QED
    BY <1>1, <1>2, <2>4, <2>5 DEF HostInv
<1>6. QED
  BY <1>4, <1>5 DEF Afar

LEMMA AfarSteps ==
  ASSUME TypeOK, HostInv, NEW v \in Servers, v # Home,
         \/ TakeElsewhere(v) \/ LoadFails(v) \/ LoadReads(v) \/ LoadBuilds(v)
         \/ \E s \in Specs : ImportElsewhere(v, s)
  PROVE  Afar
<1> USE HostAssumption DEF TypeOK, OptimizerTypeOK
<1>1. foreign => "crossed" \in since
  BY DEF HostInv, SinceInv
<1>2. \A a : Answer(v, a) => page' = page /\ imported' = imported
  BY DEF Answer, Mine
<1>3. at[Home] = "bundle" => Leftover(v) = entriesDir
  BY DEF Leftover
<1>4. CASE TakeElsewhere(v)
  BY <1>1, <1>4 DEF TakeElsewhere, Take, Step, Begins, Writes, Since, lists,
     browser, Afar, Unseen
<1>5. CASE LoadFails(v)
  BY <1>1, <1>2, <1>3, <1>5 DEF LoadFails, BuildFails, Release, lists, Afar,
     Unseen
<1>6. CASE LoadReads(v)
  BY <1>1, <1>2, <1>6 DEF LoadReads, Read, Release, lists, cacheDir, history,
     Afar, Unseen
<1>7. CASE WriteProxies(v) /\ Writes(v) /\ UNCHANGED <<mode, browser>>
  BY <1>1, <1>7 DEF WriteProxies, Step, Writes, Since, lists, browser, Afar,
     Unseen
<1>8. CASE Bundle(v) /\ UNCHANGED history /\ UNCHANGED <<mode, browser>>
  BY <1>1, <1>3, <1>8 DEF Bundle, Step, lists, browser, history, Afar, Unseen
<1>9. ASSUME NEW f \in NmFiles, Emit(v, f), Writes(v),
             UNCHANGED <<mode, browser>>
      PROVE  Afar
  BY <1>1, <1>9 DEF Emit, Writes, Since, browser, Afar, Unseen
<1>10. ASSUME NEW s \in Specs, ImportElsewhere(v, s) PROVE Afar
  BY <1>1, <1>10 DEF ImportElsewhere, Resolve, request, cacheDir, browser,
     history, Afar, Unseen
<1>11. QED
  BY <1>4, <1>5, <1>6, <1>7, <1>8, <1>9, <1>10 DEF LoadBuilds

(* A step that leaves the directory and Home's set as they are keeps what  *)
(* is served: plans, what is written of them, and what a page has of one.  *)
LEMMA StillServed ==
  ASSUME specs'[Home] = specs[Home], UNCHANGED <<out, chunks>>
  PROVE  /\ \A p : PlanFor(p)' <=> PlanFor(p)
         /\ \A f, p : Written(f, p)' <=> Written(f, p)
         /\ \A p : Served(p)' <=> Served(p)
<1>1. \A p : PlanFor(p)' <=> PlanFor(p)
  BY DEF PlanFor
<1>2. \A f, p : Written(f, p)' <=> Written(f, p)
  BY DEF Written
<1>3. QED
  BY <1>1, <1>2 DEF Served

LEMMA StillOnePlan ==
  ASSUME OnePlanInv, Calm' => Calm, builtSig'[Home] = builtSig[Home],
         \A p : Served(p)' <=> Served(p), UNCHANGED page
  PROVE  OnePlanInv'
<1>1. GotAny' <=> GotAny
  BY DEF GotAny, Got
<1>2. \A f : Got(Nm(f))' <=> Got(Nm(f))
  BY DEF Got
<1>3. QED
  BY <1>1, <1>2 DEF OnePlanInv

(* A spec that is new after the page has got something makes it not calm.  *)
LEMMA ImportKeeps ==
  ASSUME TypeOK, HostInv, NEW s \in Specs, Import(s)
  PROVE  HostInv'
<1> USE HostAssumption, OptimizerAssumption DEF TypeOK
<1>1. /\ imported' = imported \union {s}
      /\ UNCHANGED <<mode, page, foreign>>
  BY DEF Import
<1>2. CASE mode = "nm" /\ Resolve(Home, s)
  <2>1. /\ specs'[Home] = specs[Home] \union {s}
        /\ builtSig'[Home] = IF s \in specs[Home] THEN builtSig[Home] ELSE None
        /\ at[Home] = "idle"
        /\ UNCHANGED <<at, want, plan, todo, entriesDir, out, chunks,
                       installed>>
    BY <1>2 DEF Resolve, OptimizerTypeOK, request, cacheDir
  <2>2. since' = since \union
                   (Poison({s}) \union
                      IF s \notin specs[Home] /\ \E f \in NmFiles : Got(Nm(f))
                        THEN {"grown"} ELSE {})
    BY <1>2 DEF Import, Since
  <2>3. since \subseteq since'
    BY <2>2
  <2>4. SetInv'
    BY <2>1 DEF HostInv, SetInv
  <2>5. SinceInv'
    <3>1. foreign' => "crossed" \in since'
      BY <1>1, <2>3 DEF HostInv, SinceInv
    <3>2. ASSUME "poisoned" \notin since'
          PROVE  Resolvable(s) /\ \A t \in specs[Home] : Resolvable(t)
      BY <2>2, <2>3, <3>2 DEF Poison, HostInv, SinceInv
    <3>3. \A t : Resolvable(t)' <=> Resolvable(t)
      BY <2>1 DEF Resolvable
    <3>4. QED
      BY <2>1, <3>1, <3>2, <3>3 DEF SinceInv
  <2>6. AskInv'
    BY <1>1, <2>1, <2>3 DEF HostInv, AskInv
  <2>7. NmInv'
    <3>1. Apart' => Apart
      BY <2>3 DEF Apart
    <3>2. GotAny' <=> GotAny
      BY <1>1 DEF GotAny, Got
    <3>3. \A f : Got(Nm(f))' <=> Got(Nm(f))
      BY <1>1 DEF Got
    <3>4. Requested \subseteq Requested'
      BY <2>1 DEF Requested
    <3>5. QED
      BY <1>1, <2>1, <3>1, <3>2, <3>3, <3>4 DEF HostInv, NmInv
  <2>8. DirectoryInv' /\ OnePlanInv'
    <3>1. CASE s \in specs[Home]
      <4>1. specs'[Home] = specs[Home] /\ builtSig'[Home] = builtSig[Home]
        BY <2>1, <3>1
      <4>2. \A p : Served(p)' <=> Served(p)
        BY <2>1, <4>1, StillServed
      <4>3. Calm' => Calm
        BY <1>1, <2>3 DEF Calm, Apart
      <4>4. DirectoryInv'
        BY <1>1, <2>1, <4>1, <4>2 DEF HostInv, DirectoryInv
      <4>5. QED
        BY <1>1, <4>1, <4>2, <4>3, <4>4, StillOnePlan DEF HostInv
    <3>2. CASE s \notin specs[Home]
      <4>1. builtSig'[Home] = None /\ at'[Home] = "idle"
        BY <2>1, <3>2
      <4>2. DirectoryInv'
        BY <4>1 DEF DirectoryInv
      <4>3. GotAny' => ~Calm'
        BY <1>1, <2>2, <3>2 DEF GotAny, Got, Calm
      <4>4. QED
        BY <4>2, <4>3 DEF OnePlanInv
    <3>3. QED
      BY <3>1, <3>2
  <2>9. CdnInv'
    BY <1>1, <1>2 DEF CdnInv
  <2>10. MissesExplained'
    BY <1>1, <2>3 DEF HostInv, MissesExplained
  <2>11. QED
    BY <2>4, <2>5, <2>6, <2>7, <2>8, <2>9, <2>10 DEF HostInv
<1>3. CASE /\ mode = "cdn"
           /\ s \in installed
           /\ UNCHANGED <<optimizer, since>>
  <2>1. UNCHANGED <<specs, builtSig, at, want, plan, todo, entriesDir, out,
                    chunks, installed, since>>
    BY <1>3 DEF optimizer, lists, request, cacheDir
  <2>2. SetInv' /\ SinceInv' /\ AskInv'
    BY <1>1, <1>3, <2>1 DEF HostInv, SetInv, SinceInv, AskInv, Resolvable
  <2>3. DirectoryInv'
    <3>1. PlanFor(Planned(Home))' <=> PlanFor(Planned(Home))
      BY <2>1 DEF Planned, PlanFor
    <3>2. QED
      BY <1>1, <2>1, <3>1, StillServed DEF HostInv, DirectoryInv
  <2>4. NmInv' /\ OnePlanInv'
    BY <1>1, <1>3 DEF NmInv, OnePlanInv, Calm
  <2>5. CdnInv'
    <3>1. \A u : Got(u)' <=> Got(u)
      BY <1>1 DEF Got
    <3>2. \A u : References(u)' = References(u)
      BY <1>1 DEF References
    <3>3. QED
      BY <1>1, <1>3, <2>1, <3>1, <3>2 DEF HostInv, CdnInv
  <2>6. MissesExplained'
    BY <1>1, <2>1 DEF HostInv, MissesExplained
  <2>7. QED
    BY <2>2, <2>3, <2>4, <2>5, <2>6 DEF HostInv
<1>4. QED
  BY <1>2, <1>3 DEF Import

LEMMA InstallKeeps ==
  ASSUME HostInv, NEW s \in Specs, Install(s)
  PROVE  HostInv'
<1>1. /\ installed' = installed \union {s}
      /\ UNCHANGED <<specs, builtSig, at, want, plan, todo, entriesDir, out,
                     chunks, mode, imported, page, since, foreign>>
  BY DEF Install, NpmInstall, lists, request, cacheDir, browser, history
<1>2. SetInv' /\ AskInv'
  BY <1>1 DEF HostInv, SetInv, AskInv
<1>3. SinceInv'
  BY <1>1 DEF HostInv, SinceInv, Resolvable
<1>4. DirectoryInv'
  <2>1. PlanFor(Planned(Home))' <=> PlanFor(Planned(Home))
    BY <1>1 DEF Planned, PlanFor
  <2>2. QED
    BY <1>1, <2>1, StillServed DEF HostInv, DirectoryInv
<1>5. OnePlanInv'
  <2>1. Calm' => Calm
    BY <1>1 DEF Calm, Apart
  <2>2. QED
    BY <1>1, <2>1, StillServed, StillOnePlan DEF HostInv
<1>6. NmInv' /\ CdnInv' /\ MissesExplained'
  BY <1>1 DEF HostInv, NmInv, CdnInv, MissesExplained, Apart, GotAny, Got,
     Requested, References
<1>7. QED
  BY <1>2, <1>3, <1>4, <1>5, <1>6 DEF HostInv

(* In registry mode the page asks for a bundle only because it imports the *)
(* spec itself, and for a blob of a package that may be bundled only       *)
(* because of another.                                                     *)
LEMMA CdnKnown ==
  ASSUME TypeOK, HostInv, mode = "cdn", NEW u \in Urls, u \in Known
  PROVE  \/ \E s \in imported \ Family : u = Pre(s)
         \/ \E s \in Specs : /\ u = Dep(s)
                             /\ \/ s \in Family
                                \/ \E x \in Urls : /\ Got(x)
                                                   /\ Dep(s) \in References(x)
<1>1. ASSUME NEW s \in imported, u = UrlOf(s)
      PROVE  \/ u = Pre(s) /\ s \in imported \ Family
             \/ u = Dep(s) /\ s \in Family
  BY <1>1 DEF UrlOf, Eligible
<1>2. ASSUME NEW w \in Urls, Got(w), u \in References(w)
      PROVE  \E s \in Specs : u = Dep(s) /\ Dep(s) \in References(w)
  <2>1. w[1] # "nm" /\ w[2] \in Specs
    BY <1>2, Addresses DEF HostInv, CdnInv, Got
  <2>2. References(w) = {Dep(s) : s \in Imports[w[2]]}
    BY <2>1 DEF References
  <2>3. Imports[w[2]] \subseteq Specs
    BY <2>1, OptimizerAssumption
  <2>4. QED
    BY <1>2, <2>2, <2>3
<1>3. imported \subseteq Specs
  BY PageType DEF TypeOK
<1>4. (\E s \in imported : u = UrlOf(s))
        \/ \E w \in Urls : Got(w) /\ u \in References(w)
  BY DEF Known
<1>5. QED
  BY <1>1, <1>2, <1>3, <1>4

LEMMA LoadBlobKeeps ==
  ASSUME TypeOK, HostInv, NEW u \in Urls, LoadBlob(u)
  PROVE  HostInv'
<1>1. /\ mode = "cdn" /\ page[u].status = "unasked" /\ u \in Known
      /\ UNCHANGED <<specs, builtSig, at, want, plan, todo, entriesDir, out,
                     chunks, installed, mode, imported, foreign>>
      /\ since \subseteq since' /\ since' \subseteq since \union {"fault"}
  BY DEF LoadBlob, Asks, lists, request, cacheDir, Since
<1>2. PICK a \in Views :
        /\ page' = [page EXCEPT ![u] = a]
        /\ a.status \in {"got", "missing", "failed"}
        /\ a.status = "missing" => u[2] \notin installed
        /\ a.status = "failed" => "fault" \in since'
  <2>1. NoFile \in [spec : {None}, carries : SUBSET Specs, imports : {{}}]
    BY DEF NoFile
  <2>2. Loaded(NoFile) \in Views /\ Loaded(NoFile).status = "got"
    BY <2>1 DEF Loaded, Views
  <2>3. QED
    BY <2>2, ViewTypes DEF LoadBlob, Since
<1>3. \A w \in Urls : page'[w] = IF w = u THEN a ELSE page[w]
  BY <1>2, PageType DEF TypeOK
<1>4. SetInv' /\ SinceInv'
  BY <1>1 DEF HostInv, SetInv, SinceInv, Resolvable
<1>5. DirectoryInv'
  <2>1. PlanFor(Planned(Home))' <=> PlanFor(Planned(Home))
    BY <1>1 DEF Planned, PlanFor
  <2>2. QED
    BY <1>1, <2>1, StillServed DEF HostInv, DirectoryInv
<1>6. \/ \E s \in imported \ Family : u = Pre(s)
      \/ \E s \in Specs : /\ u = Dep(s)
                          /\ \/ s \in Family
                             \/ \E x \in Urls : /\ Got(x)
                                                /\ Dep(s) \in References(x)
  BY <1>1, CdnKnown
<1>7. imported # {}
  BY <1>1 DEF Known, HostInv, AskInv, Got
<1>8. AskInv'
  BY <1>1, <1>2, <1>3, <1>7 DEF HostInv, AskInv
<1>9. NmInv' /\ OnePlanInv'
  BY <1>1 DEF NmInv, OnePlanInv, Calm
<1>10. CdnInv'
  <2>1. \A f \in NmFiles : page'[Nm(f)].status = "unasked"
    <3>1. \A f \in NmFiles : Nm(f) # u
      BY <1>6, Addresses
    <3>2. QED
      BY <1>1, <1>3, <3>1, Addresses DEF HostInv, CdnInv
  <2>2. \A x \in Urls : Got(x) => Got(x)'
    BY <1>1, <1>3 DEF Got
  <2>3. \A x \in Urls : Got(x) => References(x)' = References(x)
    <3>1. \A x \in Urls : Got(x) => x[1] # "nm"
      BY <1>1, Addresses DEF HostInv, CdnInv, Got
    <3>2. QED
      BY <3>1 DEF References
  <2>4. \A s \in Specs :
          page'[Pre(s)].status # "unasked" => s \in imported \ Family
    <3>1. ASSUME NEW s \in Specs, Pre(s) = u PROVE s \in imported \ Family
      BY <1>6, <3>1, Addresses
    <3>2. QED
      BY <1>1, <1>3, <3>1, Addresses DEF HostInv, CdnInv
  <2>5. \A s \in Specs :
          page'[Dep(s)].status # "unasked" =>
            s \in Family \/ \E x \in Urls : Got(x) /\ Dep(s) \in References(x)
    <3>1. ASSUME NEW s \in Specs, Dep(s) = u
          PROVE  s \in Family
                   \/ \E x \in Urls : Got(x) /\ Dep(s) \in References(x)
      BY <1>6, <3>1, Addresses
    <3>2. QED
      BY <1>1, <1>3, <3>1, Addresses DEF HostInv, CdnInv
  <2>6. QED
    BY <1>1, <2>1, <2>2, <2>3, <2>4, <2>5 DEF HostInv, CdnInv
<1>11. MissesExplained'
  <2>1. u[1] # "nm" /\ (a.status = "missing" => u[1] = "dep")
    <3>1. ASSUME NEW s \in imported, u = Pre(s) PROVE u[2] \in installed
      BY <1>1, <3>1, Addresses DEF HostInv, CdnInv
    <3>2. QED
      BY <1>2, <1>6, <3>1, Addresses
  <2>2. QED
    BY <1>1, <1>2, <1>3, <2>1 DEF HostInv, MissesExplained
<1>12. QED
  BY <1>4, <1>5, <1>8, <1>9, <1>10, <1>11 DEF HostInv

(* In node_modules mode the page knows the entries of what it imports, and *)
(* the chunks that the files it has got refer to.                          *)
LEMMA NmKnown ==
  ASSUME TypeOK, HostInv, mode = "nm", NEW f \in NmFiles, Nm(f) \in Known
  PROVE  \/ \E s \in imported : f = NameOf[s]
         \/ \E g \in NmFiles : Got(Nm(g)) /\ f \in page[Nm(g)].file.imports
<1>1. ASSUME NEW s \in imported, Nm(f) = UrlOf(s) PROVE f = NameOf[s]
  BY <1>1, Addresses DEF UrlOf
<1>2. ASSUME NEW w \in Urls, Got(w), Nm(f) \in References(w)
      PROVE  \E g \in NmFiles : Got(Nm(g)) /\ f \in page[Nm(g)].file.imports
  <2>1. PICK g \in NmFiles : w = Nm(g)
    BY <1>2, Addresses DEF HostInv, NmInv, Got
  <2>2. References(w) = {Nm(c) : c \in page[w].file.imports}
    BY <2>1, Addresses DEF References
  <2>3. f \in page[w].file.imports
    BY <1>2, <2>2, Addresses
  <2>4. QED
    BY <1>2, <2>1, <2>3
<1>3. (\E s \in imported : Nm(f) = UrlOf(s))
        \/ \E w \in Urls : Got(w) /\ Nm(f) \in References(w)
  BY DEF Known
<1>4. QED
  BY <1>1, <1>2, <1>3

LEMMA NameIsName ==
  ASSUME TypeOK, NEW s \in specs[Home]
  PROVE  s \in Specs /\ NameOf[s] \in Names
<1>1. s \in Specs
  BY HostAssumption DEF TypeOK, OptimizerTypeOK
<1>2. QED
  BY <1>1, OptimizerAssumption

(* The files that an output of a plan imports are its chunks.              *)
LEMMA ImportsOfOutputs ==
  ASSUME NEW p \in Plans, NEW g \in OutputsOf(p)
  PROVE  /\ FileOf(g, p).imports \subseteq OutputsOf(p)
         /\ \A c \in FileOf(g, p).imports : c \in Chunks
<1>1. CASE g \in Names
  <2>1. p[g] # None
    BY <1>1, Filenames DEF OutputsOf, Entries
  <2>2. FileOf(g, p).imports \subseteq Split(p)
    BY <1>1, <2>1, EntryTypes DEF FileOf
  <2>3. QED
    BY <2>2, Filenames DEF OutputsOf
<1>2. CASE g \notin Names
  BY <1>2 DEF FileOf
<1>3. QED
  BY <1>1, <1>2

(* An entry that is requested is an output of every plan of the set.       *)
LEMMA RequestedIsPlanned ==
  ASSUME TypeOK, NEW f \in Requested, NEW p, PlanFor(p)
  PROVE  /\ f \in Names /\ f \in OutputsOf(p) /\ p[f] # None
         /\ p[f] \in specs[Home] /\ NameOf[p[f]] = f
<1>1. PICK s \in specs[Home] : f = NameOf[s]
  BY DEF Requested
<1>2. p[f] # None
  BY <1>1 DEF PlanFor
<1>3. f \in Names
  BY <1>1, NameIsName
<1>4. QED
  BY <1>2, <1>3 DEF PlanFor, OutputsOf, Entries

LEMMA TakeKeeps ==
  ASSUME TypeOK, HostInv, NEW f \in NmFiles, TakeOwn(f)
  PROVE  HostInv'
<1> USE HostAssumption
<1>1. /\ mode = "nm" /\ at[Home] = "idle"
      /\ page[Nm(f)].status = "unasked" /\ Nm(f) \in Known
      /\ at'[Home] = IF Current(Home) THEN "read" ELSE "write"
      /\ want'[Home] = f
      /\ UNCHANGED <<specs, builtSig, plan, todo, out, chunks, installed,
                     mode, imported, since>>
      /\ foreign' = (IF Current(Home) THEN foreign ELSE FALSE)
  BY DEF TakeOwn, Take, Step, Asks, Begins, history, lists, TypeOK,
     OptimizerTypeOK
<1>2. /\ \A w \in Urls :
           page'[w] = IF w = Nm(f) THEN Shown("asked") ELSE page[w]
      /\ Shown("asked").status = "asked"
  BY PageType, ViewTypes DEF TypeOK, TakeOwn
<1>3. \A w \in Urls : page[w].status # "asked"
  BY <1>1 DEF HostInv, AskInv
<1>4. \A w \in Urls : /\ Got(w)' <=> Got(w)
                      /\ Got(w) => page'[w] = page[w]
  BY <1>1, <1>2 DEF Got
<1>5. GotAny' <=> GotAny
  BY <1>4, Addresses DEF GotAny
<1>6. SetInv'
  BY <1>1 DEF HostInv, SetInv, Current
<1>7. DirectoryInv'
  <2>1. ~Current(Home) => builtSig[Home] = None
    BY DEF HostInv, SetInv, Current
  <2>2. QED
    BY <1>1, <2>1, StillServed DEF HostInv, DirectoryInv
<1>8. SinceInv'
  BY <1>1 DEF HostInv, SinceInv, Resolvable, TypeOK, HostTypeOK
<1>9. imported # {}
  BY <1>1 DEF Known, HostInv, AskInv, Got
<1>10. AskInv'
  BY <1>1, <1>2, <1>3, <1>9 DEF HostInv, AskInv
<1>11. (\E s \in imported : f = NameOf[s])
         \/ \E g \in NmFiles : Got(Nm(g)) /\ f \in page[Nm(g)].file.imports
  BY <1>1, NmKnown
<1>12. ASSUME Apart PROVE f \in Requested \/ (f \in chunks /\ GotAny)
  <2>1. imported \subseteq specs[Home]
    BY <1>1, <1>12 DEF HostInv, AskInv, Apart
  <2>2. CASE \E s \in imported : f = NameOf[s]
    BY <2>1, <2>2 DEF Requested
  <2>3. ASSUME NEW g \in NmFiles, Got(Nm(g)), f \in page[Nm(g)].file.imports
        PROVE  f \in chunks /\ GotAny
    BY <1>1, <1>12, <2>3 DEF HostInv, NmInv, GotAny
  <2>4. QED
    BY <1>11, <2>2, <2>3
<1>13. NmInv'
  <2>1. \A s \in Specs : /\ page'[Dep(s)] = page[Dep(s)]
                         /\ page'[Pre(s)] = page[Pre(s)]
    BY <1>2, Addresses
  <2>2. Apart' <=> Apart
    BY <1>1 DEF Apart
  <2>3. Requested' = Requested
    BY <1>1 DEF Requested
  <2>4. \A g \in NmFiles : page'[Nm(g)].status = "asked" => g = f
    BY <1>2, <1>3, Addresses
  <2>5. \A g \in NmFiles : Got(Nm(g)) => page'[Nm(g)] = page[Nm(g)]
    BY <1>4, Addresses
  <2>6. \A g \in NmFiles : Got(Nm(g))' <=> Got(Nm(g))
    BY <1>4, Addresses
  <2>7. QED
    BY <1>1, <1>5, <1>12, <2>1, <2>2, <2>3, <2>4, <2>5, <2>6
       DEF HostInv, NmInv
<1>14. OnePlanInv'
  <2> SUFFICES ASSUME Calm, GotAny
               PROVE  OnePlanInv'
    BY <1>1, <1>5 DEF OnePlanInv, Calm, Apart
  <2>1. PICK p \in Plans :
          /\ Served(p)
          /\ \A g \in NmFiles :
               /\ page[Nm(g)].status \in {"asked", "got"} => g \in OutputsOf(p)
               /\ Got(Nm(g)) => page[Nm(g)].file = FileOf(g, p)
    BY DEF HostInv, OnePlanInv
  <2>2. f \in OutputsOf(p)
    <3>1. CASE \E s \in imported : f = NameOf[s]
      <4>1. f \in Requested
        BY <1>1, <3>1 DEF HostInv, AskInv, Calm, Apart, Requested
      <4>2. QED
        BY <2>1, <4>1, RequestedIsPlanned DEF Served
    <3>2. ASSUME NEW g \in NmFiles, Got(Nm(g)), f \in page[Nm(g)].file.imports
          PROVE  f \in OutputsOf(p)
      <4>1. f \in FileOf(g, p).imports /\ g \in OutputsOf(p)
        BY <2>1, <3>2 DEF Got
      <4>2. QED
        BY <4>1, ImportsOfOutputs
    <3>3. QED
      BY <1>11, <3>1, <3>2
  <2>3. Served(p)'
    BY <1>1, <2>1, StillServed
  <2>4. \A g \in NmFiles :
          /\ page'[Nm(g)].status \in {"asked", "got"} => g \in OutputsOf(p)
          /\ Got(Nm(g))' => page'[Nm(g)].file = FileOf(g, p)
    BY <1>2, <1>4, <2>1, <2>2, Addresses DEF Got
  <2>5. builtSig'[Home] # None
    BY <1>1 DEF HostInv, OnePlanInv
  <2>6. QED
    BY <2>3, <2>4, <2>5 DEF OnePlanInv
<1>15. CdnInv'
  BY <1>1 DEF CdnInv
<1>16. MissesExplained'
  BY <1>1, <1>2 DEF HostInv, MissesExplained
<1>17. QED
  BY <1>6, <1>7, <1>8, <1>10, <1>13, <1>14, <1>15, <1>16 DEF HostInv

(* The page starts over; what it will notice is what is so already.        *)
LEMMA ReloadKeeps ==
  ASSUME TypeOK, HostInv, Reload
  PROVE  HostInv'
<1>1. /\ UNCHANGED <<specs, builtSig, at, want, plan, todo, entriesDir, out,
                     chunks, installed, mode, foreign>>
      /\ imported' = {}
      /\ since' = (IF foreign THEN {"crossed"} ELSE {})
                     \union Poison(specs[Home])
  BY DEF Reload, optimizer, lists, request, cacheDir
<1>2. \A u \in Urls : page'[u].status = "unasked"
  BY ViewTypes DEF Reload
<1>3. SetInv'
  BY <1>1 DEF HostInv, SetInv
<1>4. DirectoryInv'
  <2>1. PlanFor(Planned(Home))' <=> PlanFor(Planned(Home))
    BY <1>1 DEF Planned, PlanFor
  <2>2. QED
    BY <1>1, <2>1, StillServed DEF HostInv, DirectoryInv
<1>5. SinceInv'
  BY <1>1 DEF HostInv, SinceInv, Poison, Resolvable
<1>6. AskInv'
  BY <1>1, <1>2 DEF AskInv
<1>7. NmInv' /\ OnePlanInv' /\ CdnInv'
  <2>1. \A f \in NmFiles : page'[Nm(f)].status = "unasked"
    BY <1>2, Addresses
  <2>2. \A s \in Specs : /\ page'[Dep(s)].status = "unasked"
                         /\ page'[Pre(s)].status = "unasked"
    BY <1>2, Addresses
  <2>3. QED
    BY <1>1, <2>1, <2>2 DEF NmInv, OnePlanInv, CdnInv, GotAny, Got
<1>8. MissesExplained'
  BY <1>2 DEF MissesExplained
<1>9. QED
  BY <1>3, <1>4, <1>5, <1>6, <1>7, <1>8 DEF HostInv

(* Home answers its request: whatever the page still waits for is that.    *)
LEMMA AnswerEffect ==
  ASSUME TypeOK, HostInv, NEW a \in Views, Answer(Home, a)
  PROVE  /\ \A u \in Urls :
              page'[u] = IF page[u].status = "asked" THEN a ELSE page[u]
         /\ \A u \in Urls : page[u].status = "asked" =>
              /\ mode = "nm"
              /\ want[Home] \in NmFiles
              /\ u = Nm(want[Home])
         /\ imported' = imported
<1>1. page \in [Urls -> Views] /\ want[Home] \in NmFiles \union {None}
  BY PageType, HostAssumption DEF TypeOK, OptimizerTypeOK
<1>2. ASSUME NEW u \in Urls, page[u].status = "asked"
      PROVE  mode = "nm" /\ u = Nm(want[Home]) /\ want[Home] \in NmFiles
  <2>1. mode = "nm" /\ u = Nm(want[Home])
    BY <1>2 DEF HostInv, AskInv
  <2>2. PICK f \in NmFiles : u = Nm(f)
    <3>1. \A s \in Specs : u # Dep(s) /\ u # Pre(s)
      BY <2>1, Addresses
    <3>2. QED
      BY <3>1, Addresses
  <2>3. want[Home] = f
    BY <2>1, <2>2 DEF Nm
  <2>4. QED
    BY <2>1, <2>2, <2>3
<1>3. CASE Mine(Home)
  <2>1. page' = [page EXCEPT ![Nm(want[Home])] = a]
    BY <1>3 DEF Answer
  <2>2. page[Nm(want[Home])].status = "asked"
    BY <1>3 DEF Mine
  <2>3. QED
    BY <1>1, <1>2, <2>1, <2>2 DEF Answer
<1>4. CASE ~Mine(Home)
  <2>1. \A u \in Urls : page[u].status # "asked"
    BY <1>2, <1>4, Filenames DEF Mine
  <2>2. QED
    BY <1>2, <1>4, <2>1 DEF Answer
<1>5. QED
  BY <1>3, <1>4

(* What all answers have in common: Home is idle, and the page waits for   *)
(* nothing.                                                                *)
LEMMA AnswerKeeps ==
  ASSUME TypeOK, HostInv, NEW a \in Views, Answer(Home, a),
         a.status \in {"failed", "missing", "got"}, mode' = mode,
         "restarted" \in since' \/ specs'[Home] = specs[Home],
         since \subseteq since', installed' = installed
  PROVE  /\ AskInv'
         /\ CdnInv'
         /\ \A u \in Urls : page'[u].status # "asked"
         /\ \A u \in Urls : Got(u) => page'[u] = page[u]
         /\ \A u \in Urls : Got(u)' => Got(u) \/ (/\ page[u].status = "asked"
                                                  /\ u = Nm(want[Home])
                                                  /\ want[Home] \in NmFiles
                                                  /\ page'[u] = a)
         /\ mode = "nm" => \A s \in Specs :
              /\ page'[Dep(s)].status = "unasked"
              /\ page'[Pre(s)].status = "unasked"
<1>1. \A u \in Urls :
        page'[u] = IF page[u].status = "asked" THEN a ELSE page[u]
  BY AnswerEffect
<1>2. \A u \in Urls : page[u].status = "asked" =>
        mode = "nm" /\ want[Home] \in NmFiles /\ u = Nm(want[Home])
  BY AnswerEffect
<1>3. imported' = imported
  BY AnswerEffect
<1>4. \A u \in Urls : page'[u].status # "asked"
  BY <1>1
<1>5. \A u \in Urls : Got(u) => page'[u] = page[u]
  BY <1>1 DEF Got
<1>6. \A u \in Urls : Got(u)' => Got(u) \/ (/\ page[u].status = "asked"
                                            /\ u = Nm(want[Home])
                                            /\ want[Home] \in NmFiles
                                            /\ page'[u] = a)
  BY <1>1, <1>2 DEF Got
<1>7. AskInv'
  <2>1. imported' = {} => \A u \in Urls : page'[u].status = "unasked"
    BY <1>1, <1>3 DEF HostInv, AskInv
  <2>2. mode = "nm" /\ "restarted" \notin since' =>
          imported \subseteq specs'[Home]
    BY DEF HostInv, AskInv
  <2>3. QED
    BY <1>3, <1>4, <2>1, <2>2 DEF AskInv
<1>8. CdnInv'
  <2> SUFFICES ASSUME mode = "cdn" PROVE CdnInv'
    BY DEF CdnInv
  <2>1. \A u \in Urls : page'[u] = page[u]
    BY <1>1, <1>2
  <2>2. \A u \in Urls : Got(u)' <=> Got(u)
    BY <2>1 DEF Got
  <2>3. \A u \in Urls : References(u)' = References(u)
    BY <2>1 DEF References
  <2>4. \A f \in NmFiles : page'[Nm(f)] = page[Nm(f)]
    BY <2>1, Addresses
  <2>5. \A s \in Specs : /\ page'[Dep(s)] = page[Dep(s)]
                         /\ page'[Pre(s)] = page[Pre(s)]
    BY <2>1, Addresses
  <2>6. QED
    BY <1>3, <2>2, <2>3, <2>4, <2>5 DEF HostInv, CdnInv
<1>9. mode = "nm" => \A s \in Specs : /\ page'[Dep(s)].status = "unasked"
                                      /\ page'[Pre(s)].status = "unasked"
  BY <1>1, Addresses DEF HostInv, NmInv
<1>10. QED
  BY <1>4, <1>5, <1>6, <1>7, <1>8, <1>9

LEMMA RestartKeeps ==
  ASSUME TypeOK, HostInv, Restart
  PROVE  HostInv'
<1> USE HostAssumption
<1>1. /\ specs'[Home] = {} /\ builtSig'[Home] = None /\ at'[Home] = "idle"
      /\ installed' = installed
  BY DEF Restart, Forget, TypeOK, OptimizerTypeOK
<1>2. /\ since' = since \union {"restarted"} /\ UNCHANGED <<mode, foreign>>
  BY DEF Restart, Since
<1>3. PICK a \in Views : Answer(Home, a) /\ a.status = "missing"
  BY ViewTypes DEF Restart
<1>4. SetInv' /\ DirectoryInv'
  BY <1>1 DEF SetInv, DirectoryInv
<1>5. SinceInv'
  BY <1>1, <1>2 DEF HostInv, SinceInv
<1>6. /\ AskInv'
      /\ CdnInv'
      /\ mode = "nm" => \A s \in Specs : /\ page'[Dep(s)].status = "unasked"
                                         /\ page'[Pre(s)].status = "unasked"
  BY <1>1, <1>2, <1>3, AnswerKeeps
<1>7. ~Apart' /\ ~Calm'
  BY <1>2 DEF Apart, Calm
<1>8. NmInv' /\ OnePlanInv'
  BY <1>2, <1>6, <1>7 DEF NmInv, OnePlanInv
<1>9. MissesExplained'
  <2>1. \A u \in Urls :
          /\ page'[u] = page[u] \/ (page'[u] = a /\ u = Nm(want[Home]))
    BY <1>3, AnswerEffect
  <2>2. QED
    BY <1>2, <1>3, <2>1, Addresses DEF HostInv, MissesExplained
<1>10. QED
  BY <1>4, <1>5, <1>6, <1>8, <1>9 DEF HostInv

(* A build of Home fails only for an excuse: with the directory its own,   *)
(* the proxies are those of its set.                                       *)
LEMMA FailsForACause ==
  ASSUME TypeOK, HostInv, BuildFails(Home), at[Home] = "bundle"
  PROVE  {"poisoned", "crossed"} \intersect since # {}
<1> SUFFICES ASSUME "poisoned" \notin since, "crossed" \notin since
             PROVE  FALSE
  OBVIOUS
<1>1. PlanFor(Planned(Home)) /\ \A s \in specs[Home] : Resolvable(s)
  BY DEF HostInv, DirectoryInv, SinceInv, TypeOK, HostTypeOK
<1>2. ASSUME NEW s \in specs[Home]
      PROVE  /\ entriesDir[NameOf[s]] # None
             /\ entriesDir[NameOf[s]] \in specs[Home]
  <2>1. NameOf[s] \in Names
    BY NameIsName
  <2>2. Planned(Home)[NameOf[s]] = entriesDir[NameOf[s]]
    BY <2>1 DEF Planned
  <2>3. QED
    BY <1>1, <2>1, <2>2 DEF PlanFor
<1>3. Bundles(Home)
  BY <1>1, <1>2 DEF Bundles
<1>4. QED
  BY <1>3 DEF BuildFails

LEMMA FailKeeps ==
  ASSUME TypeOK, HostInv, LoadFails(Home)
  PROVE  HostInv'
<1> USE HostAssumption
<1>1. /\ at'[Home] = "idle" /\ at[Home] \in {"write", "bundle", "emit"}
      /\ UNCHANGED <<specs, builtSig, out, chunks, installed, mode, foreign>>
      /\ BuildFails(Home)
  BY DEF LoadFails, BuildFails, Release, lists, TypeOK, OptimizerTypeOK
<1>2. /\ since \subseteq since'
      /\ since' \subseteq since \union {"fault"}
      /\ at[Home] # "bundle" => "fault" \in since'
  BY DEF LoadFails, Since
<1>3. PICK a \in Views : Answer(Home, a) /\ a.status = "failed"
  BY ViewTypes DEF LoadFails
<1>4. builtSig'[Home] = None
  BY <1>1 DEF HostInv, SetInv
<1>5. SetInv' /\ DirectoryInv'
  BY <1>1, <1>4 DEF SetInv, DirectoryInv
<1>6. SinceInv'
  BY <1>1, <1>2 DEF HostInv, SinceInv, Resolvable
<1>7. /\ AskInv'
      /\ CdnInv'
      /\ \A u \in Urls : page'[u].status # "asked"
      /\ \A u \in Urls : Got(u) => page'[u] = page[u]
      /\ \A u \in Urls : Got(u)' => Got(u)
      /\ mode = "nm" => \A s \in Specs : /\ page'[Dep(s)].status = "unasked"
                                         /\ page'[Pre(s)].status = "unasked"
  <2>1. a.status # "got"
    BY <1>3
  <2>2. \A u \in Urls : Got(u)' => page'[u] # a
    BY <2>1 DEF Got
  <2>3. QED
    BY <1>1, <1>2, <1>3, <2>2, AnswerKeeps
<1>8. NmInv'
  <2> SUFFICES ASSUME mode = "nm" PROVE NmInv'
    BY <1>1 DEF NmInv
  <2>1. Apart' => Apart
    BY <1>2 DEF Apart
  <2>2. \A f \in NmFiles : Got(Nm(f))' => Got(Nm(f))
                                          /\ page'[Nm(f)] = page[Nm(f)]
    BY <1>7, Addresses
  <2>3. \A f \in NmFiles : page'[Nm(f)].status # "asked"
    BY <1>7, Addresses
  <2>4. QED
    BY <1>1, <1>7, <2>1, <2>2, <2>3 DEF HostInv, NmInv
<1>9. OnePlanInv'
  <2>1. ~(Calm /\ GotAny)
    BY <1>1, <1>4 DEF HostInv, OnePlanInv
  <2>2. Calm' => Calm
    BY <1>1, <1>2 DEF Calm, Apart
  <2>3. GotAny' => GotAny
    BY <1>7, Addresses DEF GotAny
  <2>4. QED
    BY <2>1, <2>2, <2>3 DEF OnePlanInv
<1>10. MissesExplained'
  <2>1. \A u \in Urls : page'[u] = page[u] \/ page'[u] = a
    BY <1>3, AnswerEffect
  <2>2. {"fault", "poisoned", "crossed"} \intersect since' # {}
    BY <1>1, <1>2, FailsForACause
  <2>3. QED
    BY <1>2, <1>3, <2>1, <2>2 DEF HostInv, MissesExplained
<1>11. QED
  BY <1>5, <1>6, <1>7, <1>8, <1>9, <1>10 DEF HostInv

(* What Home reads for a request of a calm page: it is there, and of the   *)
(* plan that the directory holds.                                          *)
LEMMA ReadFinds ==
  ASSUME TypeOK, HostInv, mode = "nm", Apart, at[Home] = "read",
         NEW f \in NmFiles, page[Nm(f)].status = "asked"
  PROVE  /\ Present(f)
         /\ File(f).imports \subseteq chunks
         /\ f \in Names => File(f).spec \in specs[Home]
                           /\ NameOf[File(f).spec] = f
         /\ builtSig[Home] # None
<1> USE HostAssumption
<1>1. specs[Home] # {} /\ builtSig[Home] = specs[Home]
  <2>1. imported # {} /\ imported \subseteq specs[Home]
    BY Addresses DEF HostInv, AskInv, Apart
  <2>2. QED
    BY <2>1 DEF HostInv, SetInv
<1>2. builtSig[Home] # None
  BY <1>1, Filenames DEF TypeOK, OptimizerTypeOK
<1>3. PICK p \in Plans : Served(p)
  <2>1. ~foreign
    BY DEF HostInv, SinceInv, Apart, TypeOK, HostTypeOK
  <2>2. QED
    BY <1>2, <2>1 DEF HostInv, DirectoryInv
<1>4. CASE f \in Requested
  <2>1. f \in Names /\ f \in OutputsOf(p) /\ p[f] # None
        /\ p[f] \in specs[Home] /\ NameOf[p[f]] = f
    BY <1>3, <1>4, RequestedIsPlanned DEF Served
  <2>2. out[f] = EntryOf(f, p)
    BY <1>3, <2>1 DEF Served, Written
  <2>3. /\ EntryOf(f, p) # None
        /\ EntryOf(f, p).spec = p[f]
        /\ EntryOf(f, p).imports \subseteq Split(p)
    BY <2>1, EntryTypes
  <2>4. Present(f) /\ File(f) = EntryOf(f, p)
    BY <2>1, <2>2, <2>3 DEF Present, File
  <2>5. Split(p) \subseteq chunks
    <3>1. \A c \in Split(p) : c \in OutputsOf(p) /\ c \notin Names
      BY Filenames DEF OutputsOf
    <3>2. QED
      BY <1>3, <3>1 DEF Served, Written
  <2>6. QED
    BY <1>2, <2>1, <2>3, <2>4, <2>5
<1>5. CASE f \in chunks
  <2>1. f \notin Names
    BY <1>5, Filenames DEF TypeOK, OptimizerTypeOK
  <2>2. QED
    BY <1>2, <1>5, <2>1 DEF Present, File
<1>6. QED
  BY <1>4, <1>5 DEF HostInv, NmInv

(* What Home answers is the file, if it is there.                          *)
LEMMA ReadAnswers ==
  ASSUME TypeOK, HostInv, LoadReads(Home)
  PROVE  \E a \in Views :
           /\ Answer(Home, a)
           /\ \/ a.status = "missing"
              \/ /\ a.status = "got"
                 /\ a.file = File(want[Home])
           /\ want[Home] \in NmFiles /\ Present(want[Home]) => a.status = "got"
<1>1. CASE Present(want[Home]) /\ want[Home] \in NmFiles
  <2>1. Loaded(File(want[Home])) \in Views
    BY <1>1, FileType DEF TypeOK
  <2>2. Answer(Home, Loaded(File(want[Home])))
    BY <1>1 DEF LoadReads
  <2>3. QED
    BY <2>1, <2>2, ViewTypes
<1>2. CASE ~Present(want[Home])
  <2>1. Answer(Home, Shown("missing"))
    BY <1>2 DEF LoadReads
  <2>2. QED
    BY <1>2, <2>1, ViewTypes
<1>3. CASE Present(want[Home]) /\ want[Home] \notin NmFiles
  <2>1. ~Mine(Home)
    BY <1>3, HostAssumption DEF Mine, TypeOK, OptimizerTypeOK
  <2>2. Answer(Home, Shown("missing"))
    BY <2>1 DEF LoadReads, Answer
  <2>3. QED
    BY <1>3, <2>2, ViewTypes
<1>4. QED
  BY <1>1, <1>2, <1>3

LEMMA ReadKeeps ==
  ASSUME TypeOK, HostInv, LoadReads(Home)
  PROVE  HostInv'
<1> USE HostAssumption
<1>1. /\ at[Home] = "read" /\ at'[Home] = "idle"
      /\ UNCHANGED <<specs, builtSig, entriesDir, out, chunks, installed, mode,
                     since, foreign>>
  BY DEF LoadReads, Read, Release, lists, cacheDir, history, TypeOK,
     OptimizerTypeOK
<1>2. PICK a \in Views :
           /\ Answer(Home, a)
           /\ \/ a.status = "missing"
              \/ /\ a.status = "got"
                 /\ a.file = File(want[Home])
           /\ want[Home] \in NmFiles /\ Present(want[Home]) => a.status = "got"
  BY ReadAnswers
<1>3. SetInv'
  BY <1>1 DEF HostInv, SetInv
<1>4. DirectoryInv'
  BY <1>1, StillServed DEF HostInv, DirectoryInv
<1>5. SinceInv'
  BY <1>1 DEF HostInv, SinceInv, Resolvable
<1>6. /\ AskInv'
      /\ CdnInv'
      /\ \A u \in Urls : page'[u].status # "asked"
      /\ \A u \in Urls : Got(u) => page'[u] = page[u]
      /\ \A u \in Urls : Got(u)' => Got(u) \/ (/\ page[u].status = "asked"
                                               /\ u = Nm(want[Home])
                                               /\ want[Home] \in NmFiles
                                               /\ page'[u] = a)
      /\ mode = "nm" => \A s \in Specs : /\ page'[Dep(s)].status = "unasked"
                                         /\ page'[Pre(s)].status = "unasked"
  BY <1>1, <1>2, AnswerKeeps
<1>7. \A f \in NmFiles : Got(Nm(f))' /\ ~Got(Nm(f)) =>
        /\ page[Nm(f)].status = "asked"
        /\ f = want[Home]
        /\ page'[Nm(f)].file = File(f)
  <2>1. ASSUME NEW f \in NmFiles, Got(Nm(f))', ~Got(Nm(f))
        PROVE  /\ page[Nm(f)].status = "asked"
               /\ f = want[Home]
               /\ page'[Nm(f)].file = File(f)
    <3>1. page[Nm(f)].status = "asked" /\ Nm(f) = Nm(want[Home])
          /\ page'[Nm(f)] = a
      BY <1>6, <2>1, Addresses
    <3>2. f = want[Home]
      BY <3>1, Addresses
    <3>3. a.status = "got"
      BY <2>1, <3>1 DEF Got
    <3>4. QED
      BY <1>2, <3>1, <3>2, <3>3
  <2>2. QED
    BY <2>1
<1>8. \A f \in NmFiles : Got(Nm(f)) => page'[Nm(f)] = page[Nm(f)]
  BY <1>6, Addresses
<1>9. NmInv'
  <2> SUFFICES ASSUME mode = "nm" PROVE NmInv'
    BY <1>1 DEF NmInv
  <2>1. \A f \in NmFiles : page'[Nm(f)].status # "asked"
    BY <1>6, Addresses
  <2>2. ASSUME Apart, NEW f \in NmFiles, Got(Nm(f))'
        PROVE  /\ page'[Nm(f)].file.imports \subseteq chunks
               /\ f \in Names => /\ page'[Nm(f)].file.spec \in specs[Home]
                                 /\ NameOf[page'[Nm(f)].file.spec] = f
    <3>1. CASE Got(Nm(f))
      BY <1>8, <2>2, <3>1 DEF HostInv, NmInv
    <3>2. CASE ~Got(Nm(f))
      BY <1>1, <1>7, <2>2, <3>2, ReadFinds
    <3>3. QED
      BY <3>1, <3>2
  <2>3. Apart' <=> Apart
    BY <1>1 DEF Apart
  <2>4. QED
    BY <1>1, <1>6, <2>1, <2>2, <2>3 DEF NmInv
<1>10. OnePlanInv'
  <2> SUFFICES ASSUME Calm, GotAny'
               PROVE  OnePlanInv'
    BY <1>1 DEF OnePlanInv, Calm, Apart
  <2>1. mode = "nm" /\ Apart
    BY DEF Calm
  <2>2. builtSig[Home] # None /\
        \E p \in Plans :
          /\ Served(p)
          /\ \A f \in NmFiles :
               /\ page[Nm(f)].status \in {"asked", "got"} => f \in OutputsOf(p)
               /\ Got(Nm(f)) => page[Nm(f)].file = FileOf(f, p)
    <3>1. CASE GotAny
      BY <3>1 DEF HostInv, OnePlanInv
    <3>2. CASE ~GotAny
      <4>1. PICK f \in NmFiles : page[Nm(f)].status = "asked"
        BY <1>7, <3>2, <1>6, Addresses DEF GotAny
      <4>2. builtSig[Home] # None
        BY <1>1, <2>1, <4>1, ReadFinds
      <4>3. ~foreign
        BY <2>1 DEF HostInv, SinceInv, Apart, TypeOK, HostTypeOK
      <4>4. PICK p \in Plans : Served(p)
        BY <4>2, <4>3 DEF HostInv, DirectoryInv
      <4>5. \A g \in NmFiles : page[Nm(g)].status = "asked" => g \in Requested
        BY <2>1, <3>2 DEF HostInv, NmInv
      <4>6. \A g \in NmFiles :
              page[Nm(g)].status = "asked" => g \in OutputsOf(p)
        BY <4>4, <4>5, RequestedIsPlanned DEF Served
      <4>7. QED
        BY <3>2, <4>2, <4>4, <4>6 DEF GotAny, Got
    <3>3. QED
      BY <3>1, <3>2
  <2>3. PICK p \in Plans :
          /\ Served(p)
          /\ \A f \in NmFiles :
               /\ page[Nm(f)].status \in {"asked", "got"} => f \in OutputsOf(p)
               /\ Got(Nm(f)) => page[Nm(f)].file = FileOf(f, p)
    BY <2>2
  <2>4. Served(p)'
    BY <1>1, <2>3, StillServed
  <2>5. ASSUME NEW f \in NmFiles, Got(Nm(f))'
        PROVE  f \in OutputsOf(p) /\ page'[Nm(f)].file = FileOf(f, p)
    <3>1. CASE Got(Nm(f))
      BY <1>8, <2>3, <3>1 DEF Got
    <3>2. CASE ~Got(Nm(f))
      <4>1. f \in OutputsOf(p) /\ page'[Nm(f)].file = File(f)
        BY <1>7, <2>3, <2>5, <3>2
      <4>2. Written(f, p)
        BY <2>3, <4>1 DEF Served
      <4>3. File(f) = FileOf(f, p)
        BY <4>2 DEF Written, File, FileOf
      <4>4. QED
        BY <4>1, <4>3
    <3>3. QED
      BY <3>1, <3>2
  <2>6. \A f \in NmFiles : page'[Nm(f)].status # "asked"
    BY <1>6, Addresses
  <2>7. \A f \in NmFiles : page'[Nm(f)].status = "got" => Got(Nm(f))'
    BY DEF Got
  <2>8. builtSig'[Home] # None
    BY <1>1, <2>2
  <2>9. QED
    BY <2>4, <2>5, <2>6, <2>7, <2>8 DEF OnePlanInv
<1>11. MissesExplained'
  <2>1. ASSUME NEW u \in Urls, page'[u] # page[u]
        PROVE  /\ page'[u].status # "failed"
               /\ page'[u].status = "missing" =>
                    /\ u[1] = "nm"
                    /\ {"crossed", "restarted"} \intersect since # {}
    <3>1. page[u].status = "asked" /\ page'[u] = a /\ mode = "nm"
          /\ want[Home] \in NmFiles /\ u = Nm(want[Home])
      BY <1>2, <2>1, AnswerEffect
    <3>2. a.status = "missing" => ~Apart
      BY <1>1, <1>2, <3>1, ReadFinds
    <3>3. u[1] = "nm"
      BY <3>1, Addresses
    <3>4. QED
      BY <1>2, <3>1, <3>2, <3>3 DEF Apart
  <2>2. QED
    BY <1>1, <2>1 DEF HostInv, MissesExplained
<1>12. QED
  BY <1>3, <1>4, <1>5, <1>6, <1>9, <1>10, <1>11 DEF HostInv

(* While Home builds, nothing is served of its set, and a page that is     *)
(* calm has got nothing.                                                   *)
LEMMA BuildingKeeps ==
  ASSUME HostInv, at[Home] \in {"write", "bundle", "emit"}, Unseen,
         UNCHANGED history
  PROVE  /\ builtSig[Home] = None
         /\ OnePlanInv'
<1>1. builtSig[Home] = None
  BY DEF HostInv, SetInv
<1>2. ~(Calm /\ GotAny)
  BY <1>1 DEF HostInv, OnePlanInv
<1>3. (Calm' <=> Calm) /\ (GotAny' <=> GotAny)
  BY DEF Unseen, Calm, Apart, GotAny, Got, history
<1>4. QED
  BY <1>1, <1>2, <1>3 DEF OnePlanInv

LEMMA WriteProxiesKeeps ==
  ASSUME TypeOK, HostInv, WriteProxies(Home), UNCHANGED history,
         UNCHANGED <<mode, browser>>, TypeOK'
  PROVE  HostInv'
<1> USE HostAssumption
<1>1. /\ at[Home] = "write" /\ at'[Home] = "bundle"
      /\ UNCHANGED <<specs, builtSig, want, plan, todo, out, chunks, installed,
                     mode, imported, page, since, foreign>>
  BY DEF WriteProxies, Step, lists, history, browser, TypeOK, OptimizerTypeOK
<1>2. Unseen
  BY <1>1 DEF Unseen, HostInv, SinceInv
<1>3. OnePlanInv' /\ builtSig[Home] = None
  BY <1>1, <1>2, BuildingKeeps
<1>4. SetInv'
  BY <1>1, <1>3 DEF SetInv
<1>5. PICK p \in [{NameOf[s] : s \in specs[Home]} -> specs[Home]] :
        /\ \A n \in DOMAIN p : NameOf[p[n]] = n
        /\ entriesDir' = [n \in Names |->
                            IF n \in DOMAIN p THEN p[n] ELSE entriesDir[n]]
  BY DEF WriteProxies
<1>6. PICK q : q = Planned(Home)'
  OBVIOUS
<1>7. q \in Plans
  <2>1. entriesDir' \in Plans
    BY DEF TypeOK, OptimizerTypeOK
  <2>2. QED
    BY <1>6, <2>1 DEF Planned, Plans
<1>8. \A n \in Names :
        q[n] = IF \E s \in specs[Home] : NameOf[s] = n THEN p[n] ELSE None
  BY <1>1, <1>5, <1>6 DEF Planned
<1>9. \A s \in specs[Home] : /\ NameOf[s] \in Names
                             /\ p[NameOf[s]] \in specs[Home]
                             /\ NameOf[p[NameOf[s]]] = NameOf[s]
  BY <1>5, NameIsName
<1>10. None \notin specs[Home]
  BY Filenames DEF TypeOK, OptimizerTypeOK
<1>11. PlanFor(q)
  BY <1>7, <1>8, <1>9, <1>10 DEF PlanFor
<1>12. PlanFor(Planned(Home))'
  BY <1>1, <1>6, <1>11 DEF PlanFor
<1>13. DirectoryInv'
  BY <1>1, <1>3, <1>12 DEF DirectoryInv
<1>14. QED
  BY <1>2, <1>3, <1>4, <1>13, UnseenKeeps DEF HostInv

LEMMA BundleKeeps ==
  ASSUME TypeOK, HostInv, Bundle(Home), UNCHANGED history,
         UNCHANGED <<mode, browser>>
  PROVE  HostInv'
<1> USE HostAssumption
<1>1. /\ at[Home] = "bundle" /\ at'[Home] = "emit"
      /\ plan'[Home] = Planned(Home)
      /\ todo'[Home] = OutputsOf(Planned(Home))
      /\ UNCHANGED <<specs, builtSig, want, out, chunks, installed,
                     mode, imported, page, since, foreign>>
  BY DEF Bundle, Step, lists, history, browser, TypeOK, OptimizerTypeOK,
     OutputsOf
<1>2. Unseen
  BY <1>1 DEF Unseen, HostInv, SinceInv
<1>3. OnePlanInv' /\ builtSig[Home] = None
  BY <1>1, <1>2, BuildingKeeps
<1>4. SetInv'
  BY <1>1, <1>3 DEF SetInv
<1>5. PICK q : q = Planned(Home)
  OBVIOUS
<1>6. plan'[Home] = q /\ todo'[Home] = OutputsOf(q)
  BY <1>1, <1>5
<1>7. ~foreign => PlanFor(q)'
  BY <1>1, <1>5, StillServed DEF HostInv, DirectoryInv
<1>8. DirectoryInv'
  BY <1>1, <1>3, <1>6, <1>7 DEF DirectoryInv
<1>9. QED
  BY <1>2, <1>3, <1>4, <1>8, UnseenKeeps DEF HostInv

(* The last file makes the plan's outputs complete.                        *)
LEMMA EmitKeeps ==
  ASSUME TypeOK, HostInv, PlanInv, NEW f \in NmFiles, Emit(Home, f),
         UNCHANGED history, UNCHANGED <<mode, browser>>
  PROVE  HostInv'
<1> USE HostAssumption
<1>1. /\ at[Home] = "emit" /\ f \in todo[Home]
      /\ todo'[Home] = todo[Home] \ {f}
      /\ at'[Home] = IF todo[Home] = {f} THEN "read" ELSE "emit"
      /\ todo[Home] # {f} => plan'[Home] = plan[Home]
      /\ builtSig'[Home] = IF todo[Home] = {f} THEN specs[Home]
                                               ELSE builtSig[Home]
      /\ chunks \subseteq chunks'
      /\ UNCHANGED <<specs, want, installed, mode, imported, page, since,
                     foreign>>
  BY DEF Emit, history, browser, TypeOK, OptimizerTypeOK
<1>2. Unseen
  BY <1>1 DEF Unseen, HostInv, SinceInv
<1>3. OnePlanInv' /\ builtSig[Home] = None
  BY <1>1, <1>2, BuildingKeeps
<1>4. SetInv'
  BY <1>1, <1>3 DEF SetInv
<1>5. PICK p : p = plan[Home]
  OBVIOUS
<1>6. Written(f, p)'
  BY <1>5 DEF Emit, Written, TypeOK, OptimizerTypeOK
<1>7. \A g : Written(g, p) => Written(g, p)'
  BY <1>1, <1>5, <1>6 DEF Emit, Written, TypeOK, OptimizerTypeOK
<1>8. PlanFor(p)' <=> PlanFor(p)
  BY <1>1 DEF PlanFor
<1>9. DirectoryInv'
  <2> SUFFICES ASSUME ~foreign
               PROVE  DirectoryInv'
    BY <1>1 DEF DirectoryInv
  <2>1. PlanFor(p)' /\ \A g \in OutputsOf(p) \ todo[Home] : Written(g, p)
    BY <1>1, <1>5, <1>8 DEF HostInv, DirectoryInv
  <2>2. \A g \in OutputsOf(p) \ todo'[Home] : Written(g, p)'
    BY <1>1, <1>6, <1>7, <2>1
  <2>3. CASE todo[Home] = {f}
    <3>1. Served(p)'
      BY <1>1, <2>1, <2>2, <2>3 DEF Served
    <3>2. p \in Plans
      BY <2>1 DEF PlanFor
    <3>3. QED
      BY <1>1, <2>3, <3>1, <3>2 DEF DirectoryInv
  <2>4. CASE todo[Home] # {f}
    <3>1. plan'[Home] = p /\ at'[Home] = "emit" /\ builtSig'[Home] = None
      BY <1>1, <1>3, <1>5, <2>4
    <3>2. QED
      BY <2>1, <2>2, <3>1 DEF DirectoryInv
  <2>5. QED
    BY <2>3, <2>4
<1>10. QED
  BY <1>2, <1>3, <1>4, <1>9, UnseenKeeps DEF HostInv

(* The inductive invariant, of every step of every server and the page.    *)
THEOREM Invariance == Spec => [](TypeOK /\ HostInv)
<1>1. ASSUME TypeOK, PlanInv, HostInv, TypeOK', [Next]_vars
      PROVE  HostInv'
  <2>1. CASE UNCHANGED vars
    <3>1. Afar
      BY <1>1, <2>1 DEF vars, optimizer, lists, request, cacheDir, browser,
         history, Afar, Unseen, HostInv, SinceInv
    <3>2. QED
      BY <1>1, <3>1, AfarKeeps
  <2>2. ASSUME NEW v \in Servers,
               \/ TakeElsewhere(v) \/ LoadFails(v) \/ LoadReads(v)
               \/ LoadBuilds(v) \/ \E s \in Specs : ImportElsewhere(v, s)
        PROVE  HostInv'
    <3>1. CASE v # Home
      BY <1>1, <2>2, <3>1, AfarSteps, AfarKeeps
    <3>2. CASE v = Home
      <4>1. CASE LoadFails(Home)
        BY <1>1, <4>1, FailKeeps
      <4>2. CASE LoadReads(Home)
        BY <1>1, <4>2, ReadKeeps
      <4>3. CASE LoadBuilds(Home)
        <5>1. Writes(Home) => UNCHANGED history
          BY DEF Writes
        <5>2. CASE WriteProxies(Home) /\ Writes(Home)
          BY <4>3, <5>1, <5>2, WriteProxiesKeeps, <1>1 DEF LoadBuilds
        <5>3. CASE Bundle(Home) /\ UNCHANGED history
          BY <4>3, <5>3, BundleKeeps, <1>1 DEF LoadBuilds
        <5>4. ASSUME NEW f \in NmFiles, Emit(Home, f), Writes(Home)
              PROVE  HostInv'
          BY <4>3, <5>1, <5>4, EmitKeeps, <1>1 DEF LoadBuilds
        <5>5. QED
          BY <4>3, <5>2, <5>3, <5>4 DEF LoadBuilds
      <4>4. QED
        BY <2>2, <3>2, <4>1, <4>2, <4>3 DEF TakeElsewhere, ImportElsewhere
    <3>3. QED
      BY <3>1, <3>2
  <2>3. QED
    BY <1>1, <2>1, <2>2, ImportKeeps, InstallKeeps, LoadBlobKeeps, TakeKeeps,
       ReloadKeeps, RestartKeeps DEF Next
<1>2. QED
  BY <1>1, InitEstablishes, TypesInvariant, PTL DEF Spec

(* A file is missing only when a package is not installed or a server that *)
(* was restarted forgot it; a build fails only for a failed file           *)
(* operation, another server's writes or a spec that was not resolvable.   *)
THEOREM MissesAreExplained == Spec => []MissesExplained
<1>1. TypeOK /\ HostInv => MissesExplained
  BY DEF HostInv
<1>2. QED
  BY <1>1, Invariance, PTL

(* A bare import gets the entry of its spec, or of one with the same       *)
(* sanitized name, while the directory is the server's own.                *)
THEOREM RightModuleServed == Spec => []RightModule
<1>1. TypeOK /\ HostInv => RightModule
  <2> SUFFICES ASSUME TypeOK, HostInv, NEW s \in imported, mode = "nm",
                      Got(Nm(NameOf[s])), Apart
               PROVE  \/ page[Nm(NameOf[s])].file.spec = s
                      \/ \E t \in specs[Home] \ {s} : NameOf[t] = NameOf[s]
    BY DEF RightModule, Apart
  <2>1. NameOf[s] \in Names /\ NameOf[s] \in NmFiles
    BY OptimizerAssumption, PageType, Filenames DEF TypeOK
  <2>2. page[Nm(NameOf[s])].file.spec \in specs[Home]
        /\ NameOf[page[Nm(NameOf[s])].file.spec] = NameOf[s]
    BY <2>1 DEF HostInv, NmInv
  <2>3. QED
    BY <2>2
<1>2. QED
  BY <1>1, Invariance, PTL

(* Outputs of one plan carry disjoint sets of modules: a module that one   *)
(* entry reaches is inlined there, and one that several reach is in the    *)
(* chunk of just these.                                                    *)
LEMMA OneCopyPerPlan ==
  ASSUME NEW p \in Plans, NEW f \in OutputsOf(p), NEW g \in OutputsOf(p),
         NEW m \in FileOf(f, p).carries \intersect FileOf(g, p).carries
  PROVE  f = g
<1>1. ASSUME NEW h \in OutputsOf(p), m \in FileOf(h, p).carries
      PROVE  \/ h \in Names /\ Users(m, p) = {h}
             \/ \E U \in SUBSET Names :
                  /\ Cardinality(U) > 1
                  /\ Users(m, p) = U
                  /\ h = {x \in Specs : Users(x, p) = U}
  <2>1. CASE h \in Names
    <3>1. p[h] # None
      BY <2>1, Filenames DEF OutputsOf, Entries
    <3>2. FileOf(h, p).carries = {x \in Specs : Users(x, p) = {h}}
      BY <2>1, <3>1, EntryTypes DEF FileOf
    <3>3. QED
      BY <1>1, <2>1, <3>2
  <2>2. CASE h \notin Names
    <3>1. h \in Split(p)
      BY <2>2 DEF OutputsOf, Entries
    <3>2. PICK U \in {z \in SUBSET Names : Cardinality(z) > 1} :
                h = {x \in Specs : Users(x, p) = U}
      BY <3>1 DEF Split
    <3>3. m \in h
      BY <1>1, <2>2 DEF FileOf
    <3>4. QED
      BY <3>2, <3>3
  <2>3. QED
    BY <2>1, <2>2
<1>2. \A n : Cardinality({n}) = 1
  BY FS_Singleton
<1>3. ~(1 > 1)
  OBVIOUS
<1>4. CASE f \in Names /\ Users(m, p) = {f}
  <2>1. ASSUME NEW U \in SUBSET Names, Cardinality(U) > 1, Users(m, p) = U
        PROVE  FALSE
    <3>1. Cardinality(U) = 1
      BY <1>2, <1>4, <2>1
    <3>2. QED
      BY <1>3, <2>1, <3>1
  <2>2. g \in Names /\ Users(m, p) = {g}
    BY <1>1, <2>1
  <2>3. QED
    BY <1>4, <2>2
<1>5. CASE g \in Names /\ Users(m, p) = {g}
  <2>1. ASSUME NEW U \in SUBSET Names, Cardinality(U) > 1, Users(m, p) = U
        PROVE  FALSE
    <3>1. Cardinality(U) = 1
      BY <1>2, <1>5, <2>1
    <3>2. QED
      BY <1>3, <2>1, <3>1
  <2>2. f \in Names /\ Users(m, p) = {f}
    BY <1>1, <2>1
  <2>3. QED
    BY <1>5, <2>2
<1>6. CASE /\ \E U \in SUBSET Names :
                 Users(m, p) = U /\ f = {x \in Specs : Users(x, p) = U}
           /\ \E U \in SUBSET Names :
                 Users(m, p) = U /\ g = {x \in Specs : Users(x, p) = U}
  BY <1>6
<1>7. QED
  <2>1. \/ f \in Names /\ Users(m, p) = {f}
        \/ \E U \in SUBSET Names :
             Users(m, p) = U /\ f = {x \in Specs : Users(x, p) = U}
    BY <1>1
  <2>2. \/ g \in Names /\ Users(m, p) = {g}
        \/ \E U \in SUBSET Names :
             Users(m, p) = U /\ g = {x \in Specs : Users(x, p) = U}
    BY <1>1
  <2>3. QED
    BY <1>4, <1>5, <1>6, <2>1, <2>2

(* A page runs a module twice only after its set has grown, a restart or   *)
(* another server's writes; in registry mode only a package that it        *)
(* imports itself, as a bundle, and that another one imports as a blob.    *)
THEOREM ForksAreExplained == Spec => []ForksExplained
<1>1. TypeOK /\ HostInv => ForksExplained
  <2> SUFFICES ASSUME TypeOK, HostInv, NEW u \in Urls, NEW w \in Urls,
                      Got(u), Got(w), u # w,
                      NEW m \in Carries(u) \intersect Carries(w)
               PROVE  IF mode = "nm"
                      THEN {"grown", "crossed", "restarted"} \intersect since
                             # {}
                      ELSE /\ m \in imported \ Family
                           /\ {u, w} = {Pre(m), Dep(m)}
                           /\ \E x \in Urls : /\ Got(x)
                                             /\ Dep(m) \in References(x)
    BY DEF ForksExplained
  <2>1. CASE mode = "nm"
    <3> SUFFICES ASSUME Calm
                 PROVE  FALSE
      BY <2>1 DEF Calm, Apart
    <3>1. PICK f \in NmFiles, g \in NmFiles : u = Nm(f) /\ w = Nm(g)
      BY <2>1, Addresses DEF HostInv, NmInv, Got
    <3>2. PICK p \in Plans :
            \A h \in NmFiles :
               /\ page[Nm(h)].status \in {"asked", "got"} => h \in OutputsOf(p)
               /\ Got(Nm(h)) => page[Nm(h)].file = FileOf(h, p)
      BY <3>1 DEF HostInv, OnePlanInv, GotAny
    <3>3. f \in OutputsOf(p) /\ g \in OutputsOf(p)
      BY <3>1, <3>2 DEF Got
    <3>4. /\ Carries(u) = FileOf(f, p).carries
          /\ Carries(w) = FileOf(g, p).carries
      BY <3>1, <3>2, Addresses DEF Carries
    <3>5. QED
      BY <3>1, <3>3, <3>4, OneCopyPerPlan
  <2>2. CASE mode # "nm"
    <3>1. mode = "cdn"
      BY <2>2, PageType DEF TypeOK
    <3>2. ASSUME NEW x \in Urls, Got(x), m \in Carries(x)
          PROVE  m \in Specs /\ (x = Pre(m) \/ x = Dep(m))
      <4>1. \A f \in NmFiles : x # Nm(f)
        BY <3>1, <3>2 DEF HostInv, CdnInv, Got
      <4>2. PICK s \in Specs : x = Dep(s) \/ x = Pre(s)
        BY <4>1, Addresses
      <4>3. Carries(x) = {s}
        BY <4>2, Addresses DEF Carries
      <4>4. QED
        BY <3>2, <4>2, <4>3
    <3>3. m \in Specs /\ {u, w} = {Pre(m), Dep(m)}
      BY <3>2
    <3>4. Got(Pre(m)) /\ Got(Dep(m))
      BY <3>3
    <3>5. QED
      BY <2>2, <3>1, <3>3, <3>4 DEF HostInv, CdnInv, Got
  <2>3. QED
    BY <2>1, <2>2
<1>2. QED
  BY <1>1, Invariance, PTL

(***************************************************************************)
(* Pool, for every number of callers, owners and compilers.                *)
(***************************************************************************)

(* Who holds a mutex is running a script on a live compiler it has taken. *)
MutexInv ==
  \A u \in Callers, c \in Compilers :
    mu[c] = u <=> pc[u] = "eval" /\ holds[u] = c

LiveInv == \A c \in Compilers : mu[c] # Nobody => ~dead[c]

HoldsInv == \A u \in Callers : u \in Holding <=> holds[u] # Nobody

(* How far NewPool has come. *)
BuildInv ==
  /\ pool # "collecting" => Collected
  /\ pool = "failed" => pc[Builder] = "closed"
  /\ pool = "collecting" => once = "new" /\ \A k \in Closers : pc[k] = "open"
  /\ \A u \in Callers : pc[u] # "out" => pool = "ready"

(* How far Close has come: a member is dead or still to be closed. *)
CloseInv ==
  /\ once # "new" => \A c \in Members : dead[c] \/ c \in left
  /\ once = "done" => left = {}
  /\ \A k \in Closers : pc[k] = "closed" => once = "done"

PoolInv ==
  /\ PoolTypeOK
  /\ MutexInv
  /\ LiveInv
  /\ HoldsInv
  /\ FreeListConserved
  /\ BuildInv
  /\ CloseInv

-----------------------------------------------------------------------------
LEMMA Distinct ==
  /\ Nobody \notin Compilers
  /\ Nobody \notin Callers
  /\ Builder \in Closers
  /\ Callers \cap Closers = {}
  /\ \A k \in Owners : k \in Closers
BY PoolAssumption DEF Closers

LEMMA PoolInitially == PoolInit => PoolInv
<1> SUFFICES ASSUME PoolInit PROVE PoolInv
  OBVIOUS
<1>1. PoolTypeOK
  BY Distinct DEF PoolInit, PoolTypeOK, FactoryStates, CallerPCs, CloserPCs
<1>2. MutexInv /\ LiveInv /\ HoldsInv
  BY Distinct DEF PoolInit, MutexInv, LiveInv, HoldsInv, Holding
<1>3. FreeListConserved
  BY DEF PoolInit, FreeListConserved, Members, Holding
<1>4. BuildInv /\ CloseInv
  BY Distinct DEF PoolInit, BuildInv, CloseInv
<1>5. QED
  BY <1>1, <1>2, <1>3, <1>4 DEF PoolInv



(* No step of NewPool breaks the invariant. *)
LEMMA NewPoolPreserves ==
  ASSUME PoolInv, NewPool
  PROVE  PoolInv'
<1> USE Distinct DEF PoolInv
<1>1. ASSUME NEW c \in Compilers, Build(c) PROVE PoolInv'
  <2>1. PoolTypeOK'
    BY <1>1 DEF Build, Goto, building, closure, PoolTypeOK, FactoryStates,
      CallerPCs, CloserPCs, Members
  <2>2. MutexInv'
    BY <1>1 DEF Build, Goto, building, closure, PoolTypeOK, MutexInv,
      CallerPCs, CloserPCs, Holding, HoldsInv
  <2>3. LiveInv' /\ HoldsInv'
    BY <1>1 DEF Build, Goto, building, closure, PoolTypeOK, LiveInv, HoldsInv,
      Holding
  <2>4. FreeListConserved'
    BY <1>1 DEF Build, Goto, building, closure, PoolTypeOK, FreeListConserved,
      Members, Holding, HoldsInv
  <2>5. BuildInv' /\ CloseInv'
    BY <1>1 DEF Build, Goto, building, closure, PoolTypeOK, BuildInv, CloseInv,
      Collected, Members, CloserPCs, CallerPCs
  <2>6. QED
    BY <2>1, <2>2, <2>3, <2>4, <2>5
<1>2. ASSUME NEW c \in Compilers, Collect(c) PROVE PoolInv'
  <2>1. PoolTypeOK'
    BY <1>2 DEF Collect, Goto, building, closure, PoolTypeOK, FactoryStates,
      CallerPCs, CloserPCs, Members
  <2>2. MutexInv'
    BY <1>2 DEF Collect, Goto, building, closure, PoolTypeOK, MutexInv,
      CallerPCs, CloserPCs, Holding, HoldsInv
  <2>3. LiveInv' /\ HoldsInv'
    BY <1>2 DEF Collect, Goto, building, closure, PoolTypeOK, LiveInv,
      HoldsInv, Holding
  <2>4. FreeListConserved'
    BY <1>2 DEF Collect, Goto, building, closure, PoolTypeOK,
      FreeListConserved, Members, Holding, HoldsInv
  <2>5. BuildInv' /\ CloseInv'
    BY <1>2 DEF Collect, Goto, building, closure, PoolTypeOK, BuildInv,
      CloseInv, Collected, Members, CloserPCs, CallerPCs
  <2>6. QED
    BY <2>1, <2>2, <2>3, <2>4, <2>5
<1>3. CASE HandOver
  <2>1. PoolTypeOK'
    BY <1>3 DEF HandOver, Goto, building, closure, PoolTypeOK, FactoryStates,
      CallerPCs, CloserPCs, Members
  <2>2. MutexInv'
    BY <1>3 DEF HandOver, Goto, building, closure, PoolTypeOK, MutexInv,
      CallerPCs, CloserPCs, Holding, HoldsInv
  <2>3. LiveInv' /\ HoldsInv'
    BY <1>3 DEF HandOver, Goto, building, closure, PoolTypeOK, LiveInv,
      HoldsInv, Holding
  <2>4. FreeListConserved'
    BY <1>3 DEF HandOver, Goto, building, closure, PoolTypeOK,
      FreeListConserved, Members, Holding, HoldsInv
  <2>5. BuildInv' /\ CloseInv'
    BY <1>3 DEF HandOver, Goto, building, closure, PoolTypeOK, BuildInv,
      CloseInv, Collected, Members, CloserPCs, CallerPCs
  <2>6. QED
    BY <2>1, <2>2, <2>3, <2>4, <2>5
<1>4. CASE TearDown
  <2>1. PoolTypeOK'
    BY <1>4 DEF TearDown, Goto, building, closure, PoolTypeOK, FactoryStates,
      CallerPCs, CloserPCs, Members
  <2>2. MutexInv'
    BY <1>4 DEF TearDown, Goto, building, closure, PoolTypeOK, MutexInv,
      CallerPCs, CloserPCs, Holding, HoldsInv
  <2>3. LiveInv' /\ HoldsInv'
    BY <1>4 DEF TearDown, Goto, building, closure, PoolTypeOK, LiveInv,
      HoldsInv, Holding
  <2>4. FreeListConserved'
    BY <1>4 DEF TearDown, Goto, building, closure, PoolTypeOK,
      FreeListConserved, Members, Holding, HoldsInv
  <2>5. BuildInv' /\ CloseInv'
    BY <1>4 DEF TearDown, Goto, building, closure, PoolTypeOK, BuildInv,
      CloseInv, Collected, Members, CloserPCs, CallerPCs
  <2>6. QED
    BY <2>1, <2>2, <2>3, <2>4, <2>5
<1>5. CASE GiveUp
  <2>1. PoolTypeOK'
    BY <1>5 DEF GiveUp, Goto, building, closure, PoolTypeOK, FactoryStates,
      CallerPCs, CloserPCs, Members
  <2>2. MutexInv'
    BY <1>5 DEF GiveUp, Goto, building, closure, PoolTypeOK, MutexInv,
      CallerPCs, CloserPCs, Holding, HoldsInv
  <2>3. LiveInv' /\ HoldsInv'
    BY <1>5 DEF GiveUp, Goto, building, closure, PoolTypeOK, LiveInv, HoldsInv,
      Holding
  <2>4. FreeListConserved'
    BY <1>5 DEF GiveUp, Goto, building, closure, PoolTypeOK, FreeListConserved,
      Members, Holding, HoldsInv
  <2>5. BuildInv' /\ CloseInv'
    BY <1>5 DEF GiveUp, Goto, building, closure, PoolTypeOK, BuildInv,
      CloseInv, Collected, Members, CloserPCs, CallerPCs
  <2>6. QED
    BY <2>1, <2>2, <2>3, <2>4, <2>5
<1>6. QED
  BY <1>1, <1>2, <1>3, <1>4, <1>5 DEF NewPool

(* No step of a caller breaks it. *)
LEMMA CompilePreserves ==
  ASSUME PoolInv, NEW u \in Callers, Call(u) \/ Compile(u)
  PROVE  PoolInv'
<1> USE Distinct DEF PoolInv
<1>1. CASE Call(u)
  <2>1. PoolTypeOK'
    BY <1>1 DEF Call, Goto, building, closure, PoolTypeOK, FactoryStates,
      CallerPCs, CloserPCs, Members
  <2>2. MutexInv'
    BY <1>1 DEF Call, Goto, building, closure, PoolTypeOK, MutexInv, CallerPCs,
      CloserPCs, Holding, HoldsInv
  <2>3. LiveInv' /\ HoldsInv'
    BY <1>1 DEF Call, Goto, building, closure, PoolTypeOK, LiveInv, HoldsInv,
      Holding
  <2>4. FreeListConserved'
    BY <1>1 DEF Call, Goto, building, closure, PoolTypeOK, FreeListConserved,
      Members, Holding, HoldsInv
  <2>5. BuildInv' /\ CloseInv'
    BY <1>1 DEF Call, Goto, building, closure, PoolTypeOK, BuildInv, CloseInv,
      Collected, Members, CloserPCs, CallerPCs
  <2>6. QED
    BY <2>1, <2>2, <2>3, <2>4, <2>5
<1>2. CASE Check(u)
  <2>1. PoolTypeOK'
    BY <1>2 DEF Check, Goto, building, closure, PoolTypeOK, FactoryStates,
      CallerPCs, CloserPCs, Members
  <2>2. MutexInv'
    BY <1>2 DEF Check, Goto, building, closure, PoolTypeOK, MutexInv,
      CallerPCs, CloserPCs, Holding, HoldsInv
  <2>3. LiveInv' /\ HoldsInv'
    BY <1>2 DEF Check, Goto, building, closure, PoolTypeOK, LiveInv, HoldsInv,
      Holding
  <2>4. FreeListConserved'
    BY <1>2 DEF Check, Goto, building, closure, PoolTypeOK, FreeListConserved,
      Members, Holding, HoldsInv
  <2>5. BuildInv' /\ CloseInv'
    BY <1>2 DEF Check, Goto, building, closure, PoolTypeOK, BuildInv, CloseInv,
      Collected, Members, CloserPCs, CallerPCs
  <2>6. QED
    BY <2>1, <2>2, <2>3, <2>4, <2>5
<1>3. ASSUME NEW c \in Compilers, TakeIdle(u, c) PROVE PoolInv'
  <2>1. PoolTypeOK'
    BY <1>3 DEF TakeIdle, Goto, building, closure, PoolTypeOK, FactoryStates,
      CallerPCs, CloserPCs, Members
  <2>2. MutexInv'
    BY <1>3 DEF TakeIdle, Goto, building, closure, PoolTypeOK, MutexInv,
      CallerPCs, CloserPCs, Holding, HoldsInv
  <2>3. LiveInv' /\ HoldsInv'
    BY <1>3 DEF TakeIdle, Goto, building, closure, PoolTypeOK, LiveInv,
      HoldsInv, Holding
  <2>4. FreeListConserved'
    BY <1>3 DEF TakeIdle, Goto, building, closure, PoolTypeOK,
      FreeListConserved, Members, Holding, HoldsInv
  <2>5. BuildInv' /\ CloseInv'
    BY <1>3 DEF TakeIdle, Goto, building, closure, PoolTypeOK, BuildInv,
      CloseInv, Collected, Members, CloserPCs, CallerPCs
  <2>6. QED
    BY <2>1, <2>2, <2>3, <2>4, <2>5
<1>4. CASE Lock(u)
  <2>1. PoolTypeOK'
    BY <1>4 DEF Lock, Goto, building, closure, PoolTypeOK, FactoryStates,
      CallerPCs, CloserPCs, Members
  <2>2. MutexInv'
    BY <1>4 DEF Lock, Goto, building, closure, PoolTypeOK, MutexInv, CallerPCs,
      CloserPCs, Holding, HoldsInv
  <2>3. LiveInv' /\ HoldsInv'
    BY <1>4 DEF Lock, Goto, building, closure, PoolTypeOK, LiveInv, HoldsInv,
      Holding
  <2>4. FreeListConserved'
    BY <1>4 DEF Lock, Goto, building, closure, PoolTypeOK, FreeListConserved,
      Members, Holding, HoldsInv
  <2>5. BuildInv' /\ CloseInv'
    BY <1>4 DEF Lock, Goto, building, closure, PoolTypeOK, BuildInv, CloseInv,
      Collected, Members, CloserPCs, CallerPCs
  <2>6. QED
    BY <2>1, <2>2, <2>3, <2>4, <2>5
<1>5. CASE Eval(u)
  <2>1. PoolTypeOK'
    BY <1>5 DEF Eval, Goto, building, closure, PoolTypeOK, FactoryStates,
      CallerPCs, CloserPCs, Members
  <2>2. MutexInv'
    BY <1>5 DEF Eval, Goto, building, closure, PoolTypeOK, MutexInv, CallerPCs,
      CloserPCs, Holding, HoldsInv
  <2>3. LiveInv' /\ HoldsInv'
    BY <1>5 DEF Eval, Goto, building, closure, PoolTypeOK, LiveInv, HoldsInv,
      Holding
  <2>4. FreeListConserved'
    BY <1>5 DEF Eval, Goto, building, closure, PoolTypeOK, FreeListConserved,
      Members, Holding, HoldsInv
  <2>5. BuildInv' /\ CloseInv'
    BY <1>5 DEF Eval, Goto, building, closure, PoolTypeOK, BuildInv, CloseInv,
      Collected, Members, CloserPCs, CallerPCs
  <2>6. QED
    BY <2>1, <2>2, <2>3, <2>4, <2>5
<1>6. CASE Give(u)
  <2>1. PoolTypeOK'
    BY <1>6 DEF Give, Goto, building, closure, PoolTypeOK, FactoryStates,
      CallerPCs, CloserPCs, Members, HoldsInv, Holding
  <2>2. MutexInv'
    BY <1>6 DEF Give, Goto, building, closure, PoolTypeOK, MutexInv, CallerPCs,
      CloserPCs, Holding, HoldsInv
  <2>3. LiveInv' /\ HoldsInv'
    BY <1>6 DEF Give, Goto, building, closure, PoolTypeOK, LiveInv, HoldsInv,
      Holding
  <2>4. FreeListConserved'
    BY <1>6 DEF Give, Goto, building, closure, PoolTypeOK, FreeListConserved,
      Members, Holding, HoldsInv
  <2>5. BuildInv' /\ CloseInv'
    BY <1>6 DEF Give, Goto, building, closure, PoolTypeOK, BuildInv, CloseInv,
      Collected, Members, CloserPCs, CallerPCs
  <2>6. QED
    BY <2>1, <2>2, <2>3, <2>4, <2>5
<1>7. QED
  BY <1>1, <1>2, <1>3, <1>4, <1>5, <1>6 DEF Compile

(* No step of Close breaks it. *)
LEMMA ClosePreserves ==
  ASSUME PoolInv, NEW k \in Closers, Close(k) \/ Shut(k)
  PROVE  PoolInv'
<1> USE Distinct DEF PoolInv
<1>1. CASE Close(k)
  <2>1. PoolTypeOK'
    BY <1>1 DEF Close, Goto, building, closure, PoolTypeOK, FactoryStates,
      CallerPCs, CloserPCs, Members
  <2>2. MutexInv'
    BY <1>1 DEF Close, Goto, building, closure, PoolTypeOK, MutexInv,
      CallerPCs, CloserPCs, Holding, HoldsInv
  <2>3. LiveInv' /\ HoldsInv'
    BY <1>1 DEF Close, Goto, building, closure, PoolTypeOK, LiveInv, HoldsInv,
      Holding
  <2>4. FreeListConserved'
    BY <1>1 DEF Close, Goto, building, closure, PoolTypeOK, FreeListConserved,
      Members, Holding, HoldsInv
  <2>5. BuildInv' /\ CloseInv'
    BY <1>1 DEF Close, Goto, building, closure, PoolTypeOK, BuildInv, CloseInv,
      Collected, Members, CloserPCs, CallerPCs
  <2>6. QED
    BY <2>1, <2>2, <2>3, <2>4, <2>5
<1>2. CASE Enter(k)
  <2>1. PoolTypeOK'
    BY <1>2 DEF Enter, Goto, building, closure, PoolTypeOK, FactoryStates,
      CallerPCs, CloserPCs, Members
  <2>2. MutexInv'
    BY <1>2 DEF Enter, Goto, building, closure, PoolTypeOK, MutexInv,
      CallerPCs, CloserPCs, Holding, HoldsInv
  <2>3. LiveInv' /\ HoldsInv'
    BY <1>2 DEF Enter, Goto, building, closure, PoolTypeOK, LiveInv, HoldsInv,
      Holding
  <2>4. FreeListConserved'
    BY <1>2 DEF Enter, Goto, building, closure, PoolTypeOK, FreeListConserved,
      Members, Holding, HoldsInv
  <2>5. BuildInv' /\ CloseInv'
    BY <1>2 DEF Enter, Goto, building, closure, PoolTypeOK, BuildInv, CloseInv,
      Collected, Members, CloserPCs, CallerPCs
  <2>6. QED
    BY <2>1, <2>2, <2>3, <2>4, <2>5
<1>3. ASSUME NEW c \in Compilers, CloseOne(k, c) PROVE PoolInv'
  <2>1. PoolTypeOK'
    BY <1>3 DEF CloseOne, Goto, building, closure, PoolTypeOK, FactoryStates,
      CallerPCs, CloserPCs, Members
  <2>2. MutexInv'
    BY <1>3 DEF CloseOne, Goto, building, closure, PoolTypeOK, MutexInv,
      CallerPCs, CloserPCs, Holding, HoldsInv
  <2>3. LiveInv' /\ HoldsInv'
    BY <1>3 DEF CloseOne, Goto, building, closure, PoolTypeOK, LiveInv,
      HoldsInv, Holding
  <2>4. FreeListConserved'
    BY <1>3 DEF CloseOne, Goto, building, closure, PoolTypeOK,
      FreeListConserved, Members, Holding, HoldsInv
  <2>5. BuildInv' /\ CloseInv'
    BY <1>3 DEF CloseOne, Goto, building, closure, PoolTypeOK, BuildInv,
      CloseInv, Collected, Members, CloserPCs, CallerPCs
  <2>6. QED
    BY <2>1, <2>2, <2>3, <2>4, <2>5
<1>4. CASE Finish(k)
  <2>1. PoolTypeOK'
    BY <1>4 DEF Finish, Goto, building, closure, PoolTypeOK, FactoryStates,
      CallerPCs, CloserPCs, Members
  <2>2. MutexInv'
    BY <1>4 DEF Finish, Goto, building, closure, PoolTypeOK, MutexInv,
      CallerPCs, CloserPCs, Holding, HoldsInv
  <2>3. LiveInv' /\ HoldsInv'
    BY <1>4 DEF Finish, Goto, building, closure, PoolTypeOK, LiveInv, HoldsInv,
      Holding
  <2>4. FreeListConserved'
    BY <1>4 DEF Finish, Goto, building, closure, PoolTypeOK, FreeListConserved,
      Members, Holding, HoldsInv
  <2>5. BuildInv' /\ CloseInv'
    BY <1>4 DEF Finish, Goto, building, closure, PoolTypeOK, BuildInv,
      CloseInv, Collected, Members, CloserPCs, CallerPCs
  <2>6. QED
    BY <2>1, <2>2, <2>3, <2>4, <2>5
<1>5. CASE Leave(k)
  <2>1. PoolTypeOK'
    BY <1>5 DEF Leave, Goto, building, closure, PoolTypeOK, FactoryStates,
      CallerPCs, CloserPCs, Members
  <2>2. MutexInv'
    BY <1>5 DEF Leave, Goto, building, closure, PoolTypeOK, MutexInv,
      CallerPCs, CloserPCs, Holding, HoldsInv
  <2>3. LiveInv' /\ HoldsInv'
    BY <1>5 DEF Leave, Goto, building, closure, PoolTypeOK, LiveInv, HoldsInv,
      Holding
  <2>4. FreeListConserved'
    BY <1>5 DEF Leave, Goto, building, closure, PoolTypeOK, FreeListConserved,
      Members, Holding, HoldsInv
  <2>5. BuildInv' /\ CloseInv'
    BY <1>5 DEF Leave, Goto, building, closure, PoolTypeOK, BuildInv, CloseInv,
      Collected, Members, CloserPCs, CallerPCs
  <2>6. QED
    BY <2>1, <2>2, <2>3, <2>4, <2>5
<1>6. QED
  BY <1>1, <1>2, <1>3, <1>4, <1>5 DEF Shut

LEMMA PoolInductive == PoolInv /\ [PoolNext]_poolVars => PoolInv'
<1> SUFFICES ASSUME PoolInv, [PoolNext]_poolVars PROVE PoolInv'
  OBVIOUS
<1>1. CASE NewPool
  BY <1>1, NewPoolPreserves
<1>2. ASSUME NEW u \in Callers, Call(u) \/ Compile(u) PROVE PoolInv'
  BY <1>2, CompilePreserves
<1>3. ASSUME NEW k \in Closers, Close(k) \/ Shut(k) PROVE PoolInv'
  BY <1>3, ClosePreserves
<1>4. CASE UNCHANGED poolVars
  BY <1>4 DEF poolVars, building, closure, PoolInv, PoolTypeOK, MutexInv,
    LiveInv, HoldsInv, FreeListConserved, BuildInv, CloseInv, Collected,
    Members, Holding
<1>5. QED
  BY <1>1, <1>2, <1>3, <1>4 DEF PoolNext

-----------------------------------------------------------------------------
(* The invariant holds in every reachable state. *)
THEOREM PoolInvariance == PoolSpec => []PoolInv
BY PoolInitially, PoolInductive, PTL DEF PoolSpec

(* Every variable keeps its type: the free-list only ever holds compilers, *)
(* never the nil that comes with a factory's error.                        *)
THEOREM PoolTypeCorrect == PoolSpec => []PoolTypeOK
<1>1. PoolInv => PoolTypeOK
  BY DEF PoolInv
<1>2. QED
  BY <1>1, PoolInvariance, PTL

(* A script has its compiler to itself and alive, whenever Close comes.    *)
THEOREM Exclusive == PoolSpec => []ExclusiveUse
<1>1. ASSUME PoolInv PROVE ExclusiveUse
  <2> SUFFICES ASSUME NEW u \in Callers, pc[u] = "eval"
               PROVE  /\ mu[holds[u]] = u
                      /\ ~dead[holds[u]]
                      /\ \A v \in Holding : v # u => holds[v] # holds[u]
    BY DEF ExclusiveUse
  <2>1. u \in Holding /\ holds[u] \in Compilers
    BY <1>1 DEF PoolInv, Holding, HoldsInv, PoolTypeOK
  <2>2. mu[holds[u]] = u
    BY <1>1, <2>1 DEF PoolInv, MutexInv
  <2>3. ~dead[holds[u]]
    BY <1>1, <2>1, <2>2, Distinct DEF PoolInv, LiveInv
  <2>4. QED
    BY <1>1, <2>1, <2>2, <2>3 DEF PoolInv, FreeListConserved
<1>2. QED
  BY <1>1, PoolInvariance, PTL

(* No path through Compile loses or duplicates a compiler.                 *)
THEOREM Conserved == PoolSpec => []FreeListConserved
<1>1. PoolInv => FreeListConserved
  BY DEF PoolInv
<1>2. QED
  BY <1>1, PoolInvariance, PTL

(* After Close, and after a NewPool that failed, no runtime is left.       *)
THEOREM NothingSurvives == PoolSpec => []NothingSurvivesClose
<1>1. ASSUME PoolInv PROVE NothingSurvivesClose
  <2> SUFFICES ASSUME pool = "failed" \/ (\E k \in Owners : pc[k] = "closed"),
                      NEW c \in Compilers
               PROVE  /\ factory[c] \in {"member", "dropped"}
                      /\ factory[c] = "member" => dead[c] /\ mu[c] = Nobody
    BY DEF NothingSurvivesClose
  <2>1. once = "done"
    BY <1>1, Distinct DEF PoolInv, BuildInv, CloseInv
  <2>2. factory[c] \in {"member", "dropped"}
    BY <1>1, <2>1 DEF PoolInv, BuildInv, Collected
  <2>3. factory[c] = "member" => dead[c]
    BY <1>1, <2>1 DEF PoolInv, CloseInv, Members
  <2>4. QED
    BY <1>1, <2>2, <2>3 DEF PoolInv, LiveInv
<1>2. QED
  BY <1>1, PoolInvariance, PTL

=============================================================================
