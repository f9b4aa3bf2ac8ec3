-------------------------- MODULE PrebundleProofs --------------------------
(***************************************************************************)
(* Proofs about Prebundle for every package, number of handlers and bound: *)
(* the types, that an uncontended cache directory with a manifest holds no *)
(* torn file and misses only what gcDisk has removed, and that a page      *)
(* misses no file and runs no module twice while the entry set is the one  *)
(* it was loaded with.                                                     *)
(***************************************************************************)
EXTENDS Prebundle, FiniteSetTheorems, TLAPS

(* A handler has files to do only while it reads or saves, and a file open *)
(* only while it saves.                                                    *)
HandlerInv ==
  /\ DOMAIN todo = Reqs
  /\ DOMAIN open = Reqs
  /\ \A r \in Reqs :
       /\ pc[r] \notin {"read", "save"} => todo[r] = {}
       /\ open[r] # None => pc[r] = "save"

(* The manifest is the last file of a save.                                *)
ManifestLast ==
  \A r \in Reqs :
    pc[r] = "save" => \/ Manifest \in todo[r] /\ open[r] # Manifest
                      \/ todo[r] = {} /\ open[r] \in {Manifest, None}

Saving(S)  == {r \in Reqs : pc[r] = "save" /\ nb[r].sig = S}
Reading(S) == {r \in Reqs : pc[r] = "read" /\ nb[r].sig = S}
Done(r)    == todo[r] = {} /\ open[r] = None

(* A file is as a save has left it, or gcDisk has removed it since.        *)
Kept(S, f) == \/ disk[S][f] = "whole"
              \/ disk[S][f] = "absent" /\ S \in swept

(* Of a directory that was never contended: with a whole manifest it is    *)
(* kept; it has one saver at most, which began without a whole manifest    *)
(* and keeps what it has written; and while it is read nobody is writing,  *)
(* and no file is torn.                                                    *)
WholeDir(S) ==
  disk[S][Manifest] = "whole" => \A f \in Files(S) : Kept(S, f)

OneSaver(S) ==
  \A r \in Saving(S) :
    /\ \A q \in Saving(S) : q = r
    /\ disk[S][Manifest] = "whole" => Done(r)
    /\ \A f \in Outputs(S) : f \in todo[r] \/ f = open[r] \/ Kept(S, f)

CalmRead(S) ==
  Reading(S) # {} => /\ \A q \in Saving(S) : Done(q)
                     /\ \A f \in Outputs(S) : disk[S][f] # "torn"

DirInv == \A S \in Sigs \ contended : WholeDir(S) /\ OneSaver(S) /\ CalmRead(S)

(* Torn files have been loaded from contended directories only.            *)
LoadInv ==
  /\ \A r \in Reqs : nb[r].torn # {} => nb[r].sig \in contended
  /\ built # None => (built.torn # {} => built.sig \in contended)
  /\ \A b \in Bases : page[b].torn => page[b].sig \in contended

(* A page that has not transformed an import has asked for nothing.        *)
FreshInv ==
  ~Begun => /\ ~grown
            /\ waiting = {}
            /\ \A b \in Bases : page[b].status = "unasked"

(* While the entry set is that of the page: all it has got is of the build *)
(* of that set, which has all that it waits for, and the handlers it waits *)
(* for want no other build.                                                *)
PageInv ==
  ~grown =>
    /\ imported \subseteq entries
    /\ \A b \in Bases :
         /\ Got(b) => page[b].sig = entries /\ b \in Outputs(entries)
         /\ page[b].status # "missing"
    /\ \A r \in waiting :
         /\ pc[r] # "idle"
         /\ base[r] \in Outputs(entries)
         /\ pc[r] # "serve" => nb[r].sig = entries

DiskInv == HandlerInv /\ ManifestLast /\ DirInv /\ LoadInv

-----------------------------------------------------------------------------
(* What buildPackage names its files: entries, chunks and the manifest are *)
(* told apart, and the page asks for entries and chunks only.              *)
LEMMA Filenames ==
  /\ {} \in Sigs
  /\ None # Manifest
  /\ None \notin Bases
  /\ Manifest \notin Bases
  /\ Entries \subseteq Bases
  /\ \A S \in Sigs : /\ Outputs(S) \subseteq Bases
                     /\ Chunks(S) \subseteq Outputs(S)
                     /\ S \subseteq Outputs(S)
                     /\ Files(S) = Outputs(S) \union {Manifest}
                     /\ \A c \in Chunks(S) : c \notin Entries
<1>1. ASSUME NEW S \in Sigs
      PROVE  \A c \in Chunks(S) : c \in SUBSET Modules
  BY DEF Chunks
<1>2. ASSUME NEW S \in Sigs
      PROVE  /\ \A c \in Chunks(S) : c \notin Entries \union {Manifest, None}
             /\ \A f \in Outputs(S) : f \notin {Manifest, None}
  BY <1>1, PrebundleAssumption DEF Outputs, Sigs
<1>3. ASSUME NEW e \in Entries PROVE e \in Bases
  <2>1. {e} \in Sigs /\ e \in Outputs({e})
    BY DEF Sigs, Outputs
  <2>2. QED
    BY <2>1 DEF Bases
<1>4. \A S \in Sigs : Outputs(S) \subseteq Bases
  BY DEF Bases
<1>5. \A b \in Bases : \E S \in Sigs : b \in Outputs(S)
  BY DEF Bases
<1>6. {} \in Sigs
  BY DEF Sigs
<1>7. \A S \in Sigs : Chunks(S) \subseteq Outputs(S) /\ S \subseteq Outputs(S)
  BY DEF Outputs
<1>8. None # Manifest
  BY PrebundleAssumption
<1>9. QED
  BY <1>2, <1>3, <1>4, <1>5, <1>6, <1>7, <1>8 DEF Files

(* Two files of one build never carry the same module: it is inlined into  *)
(* its only user, or in the chunk of its users.                            *)
LEMMA OneCopyPerBuild ==
  ASSUME NEW S \in Sigs, NEW b \in Outputs(S), NEW c \in Outputs(S), b # c
  PROVE  Carries(b, S) \cap Carries(c, S) = {}
<1> SUFFICES ASSUME NEW m \in Modules, m \in Carries(b, S), m \in Carries(c, S)
             PROVE  FALSE
  <2>1. ASSUME NEW d \in Outputs(S), NEW m \in Carries(d, S)
        PROVE  m \in Modules
    BY <2>1 DEF Carries, Outputs, Chunks, Sigs
  <2>2. QED
    BY <2>1
<1>1. ASSUME NEW d \in Outputs(S), m \in Carries(d, S)
      PROVE  \/ d \in Entries /\ UsersOf(m, S) = {d}
             \/ \E g \in SUBSET S : /\ Cardinality(g) > 1
                                    /\ UsersOf(m, S) = g
                                    /\ d = {k \in Modules : UsersOf(k, S) = g}
  <2>1. CASE d \in Entries
    BY <1>1, <2>1 DEF Carries
  <2>2. CASE d \notin Entries
    <3>1. d \in Chunks(S) /\ m \in d
      BY <1>1, <2>2 DEF Carries, Outputs, Sigs
    <3>2. PICK g \in SUBSET S : /\ Cardinality(g) > 1
                                /\ d = {k \in Modules : UsersOf(k, S) = g}
      BY <3>1 DEF Chunks
    <3>3. UsersOf(m, S) = g
      BY <3>1, <3>2
    <3>4. QED
      BY <3>2, <3>3
  <2>3. QED
    BY <2>1, <2>2
<1>2. \A d : Cardinality({d}) = 1
  BY FS_Singleton
<1>3. ~(1 > 1)
  OBVIOUS
<1>4. CASE b \in Entries /\ UsersOf(m, S) = {b}
  <2>1. CASE c \in Entries /\ UsersOf(m, S) = {c}
    BY <1>4, <2>1
  <2>2. CASE \E g \in SUBSET S : Cardinality(g) > 1 /\ UsersOf(m, S) = g
    BY <1>2, <1>3, <1>4, <2>2
  <2>3. QED
    BY <1>1, <2>1, <2>2
<1>5. CASE \E g \in SUBSET S : /\ Cardinality(g) > 1
                               /\ UsersOf(m, S) = g
                               /\ b = {k \in Modules : UsersOf(k, S) = g}
  <2>1. CASE c \in Entries /\ UsersOf(m, S) = {c}
    BY <1>2, <1>3, <1>5, <2>1
  <2>2. CASE \E g \in SUBSET S : /\ UsersOf(m, S) = g
                                 /\ c = {k \in Modules : UsersOf(k, S) = g}
    BY <1>5, <2>2
  <2>3. QED
    BY <1>1, <2>1, <2>2
<1>6. QED
  BY <1>1, <1>4, <1>5

(* A chunk that a file imports is a chunk of the same build.               *)
LEMMA ImportsAreChunks ==
  ASSUME NEW S \in Sigs, NEW e \in Entries, NEW b \in ImportsOf(e, S)
  PROVE  b \in Chunks(S)
BY DEF ImportsOf

-----------------------------------------------------------------------------
(* What serve shows of a build has the type of a page's file.              *)
Views == [status : {"unasked", "asked", "missing", "error", "got"},
          sig : Sigs, torn : BOOLEAN]

LEMMA OutcomeType ==
  ASSUME NEW n \in Builds, NEW f
  PROVE  Outcome(n, f) \in Views
BY Filenames DEF Outcome, Shown, Builds, Views

LEMMA BuildTypes ==
  ASSUME NEW S \in Sigs
  PROVE  /\ NoBuild(S) \in Builds /\ NoBuild(S).sig = S
         /\ Whole(S) \in Builds /\ Whole(S).sig = S
         /\ Empty(S) \in [Files(S) -> {"absent", "torn", "whole"}]
         /\ Shown("unasked") \in Views
         /\ Shown("asked") \in Views
         /\ Shown("error") \in Views
BY Filenames DEF NoBuild, Whole, Builds, Empty, Shown, Views

LEMMA PageType ==
  [Bases -> [sig : Sigs, torn : BOOLEAN,
             status : {"unasked", "asked", "missing", "error", "got"}]]
    = [Bases -> Views]
BY DEF Views

LEMMA InitTypes == Init => TypeOK /\ HandlerInv
<1> SUFFICES ASSUME Init PROVE TypeOK /\ HandlerInv
  OBVIOUS
<1>1. page \in [Bases -> Views]
  BY Filenames, BuildTypes DEF Init
<1>2. \A S \in Sigs : disk[S] \in [Files(S) -> {"absent", "torn", "whole"}]
  BY BuildTypes DEF Init
<1>3. nb \in [Reqs -> Builds] /\ \A r \in Reqs : nb[r].sig = {}
  BY Filenames, BuildTypes DEF Init
<1>4. /\ entries \in Sigs
      /\ imported \in SUBSET Entries
      /\ dirs \in SUBSET Sigs /\ old \in SUBSET Sigs
      /\ contended \in SUBSET Sigs /\ swept \in SUBSET Sigs
      /\ victim \in Sigs /\ names \subseteq Files(victim)
      /\ waiting \in SUBSET Reqs
  BY Filenames DEF Init
<1>5. faults \in 0 .. MaxFaults /\ restarts \in 0 .. MaxRestarts
  BY PrebundleAssumption DEF Init
<1>6. HandlerInv
  BY DEF Init, HandlerInv
<1>7. QED
  BY <1>1, <1>2, <1>3, <1>4, <1>5, <1>6, PageType DEF Init, TypeOK

(* Answer leaves the handler idle and the page with what the build shows.  *)
LEMMA AnswerTypes ==
  ASSUME TypeOK, HandlerInv, NEW r \in Reqs, NEW n \in Builds, Answer(r, n),
         pc[r] \notin {"read", "save"}
  PROVE  /\ pc' \in [Reqs -> {"idle", "serve", "manifest", "read", "build",
                              "save", "install"}]
         /\ base' \in [Reqs -> Bases \union {None}]
         /\ nb' \in [Reqs -> Builds]
         /\ \A q \in Reqs : todo'[q] \subseteq Files(nb'[q].sig)
         /\ \A q \in Reqs : open'[q] \in Files(nb'[q].sig) \union {None}
         /\ waiting' \in SUBSET Reqs
         /\ page' \in [Bases -> Views]
         /\ HandlerInv'
<1>1. nb' \in [Reqs -> Builds]
  BY Filenames, BuildTypes DEF TypeOK, Answer
<1>2. page' \in [Bases -> Views]
  BY OutcomeType, PageType DEF TypeOK, Answer
<1>3. HandlerInv'
  BY DEF TypeOK, HandlerInv, Answer
<1>4. \A q \in Reqs : todo'[q] \subseteq Files(nb'[q].sig)
  BY DEF TypeOK, HandlerInv, Answer
<1>5. \A q \in Reqs : open'[q] \in Files(nb'[q].sig) \union {None}
  BY DEF TypeOK, HandlerInv, Answer
<1>6. QED
  BY <1>1, <1>2, <1>3, <1>4, <1>5 DEF TypeOK, Answer

LEMMA TypesPreserved ==
  ASSUME TypeOK, HandlerInv, Next
  PROVE  TypeOK' /\ HandlerInv'
<1> USE Filenames DEF HandlerInv, server, cache, sweeper, handler, browser
<1>1. ASSUME NEW e \in Entries, Register(e) PROVE TypeOK' /\ HandlerInv'
  BY <1>1 DEF TypeOK, Register, Sigs
<1>2. ASSUME NEW r \in Reqs, NEW b \in Bases, Ask(r, b)
      PROVE  TypeOK' /\ HandlerInv'
  <2>1. page' \in [Bases -> Views]
    BY <1>2, BuildTypes, PageType DEF TypeOK, Ask
  <2>2. QED
    BY <1>2, <2>1, PageType DEF TypeOK, Ask, Goto
<1>3. ASSUME NEW r \in Reqs, Serve(r) PROVE TypeOK' /\ HandlerInv'
  <2>1. CASE built # None /\ Answer(r, built)
    <3>1. built \in Builds /\ pc[r] = "serve"
      BY <1>3, <2>1 DEF TypeOK, Serve
    <3>2. UNCHANGED <<server, cache, faults, restarts, imported, grown>>
      BY <1>3, <2>1 DEF Serve, Answer
    <3>3. QED
      BY <2>1, <3>1, <3>2, AnswerTypes, PageType DEF TypeOK
  <2>2. CASE Goto(r, "serve", "manifest")
             /\ nb' = [nb EXCEPT ![r] = NoBuild(entries)]
             /\ UNCHANGED <<base, todo, open, browser>>
    <3>1. NoBuild(entries) \in Builds
      BY BuildTypes DEF TypeOK
    <3>2. UNCHANGED <<server, cache, faults, restarts>>
      BY <1>3 DEF Serve
    <3>3. QED
      BY <2>2, <3>1, <3>2 DEF TypeOK, Goto
  <2>3. QED
    BY <1>3, <2>1, <2>2 DEF Serve
<1>4. ASSUME NEW r \in Reqs, ReadManifest(r) PROVE TypeOK' /\ HandlerInv'
  <2>1. nb[r].sig \in Sigs
    BY DEF TypeOK, Builds
  <2>2. CASE nb' = [nb EXCEPT ![r] = Whole(nb[r].sig)]
             /\ todo' = [todo EXCEPT ![r] = Outputs(nb[r].sig)]
             /\ Goto(r, "manifest", "read")
    <3>1. /\ Whole(nb[r].sig) \in Builds
          /\ Whole(nb[r].sig).sig = nb[r].sig
          /\ Outputs(nb[r].sig) \subseteq Files(nb[r].sig)
      BY <2>1, BuildTypes
    <3>2. QED
      BY <1>4, <2>2, <3>1 DEF TypeOK, ReadManifest, Goto
  <2>3. CASE Goto(r, "manifest", "build") /\ UNCHANGED <<todo, nb>>
    BY <1>4, <2>3 DEF TypeOK, ReadManifest, Goto
  <2>4. QED
    BY <1>4, <2>2, <2>3 DEF ReadManifest
<1>5. ASSUME NEW r \in Reqs, NEW f \in Bases, ReadFile(r, f)
      PROVE  TypeOK' /\ HandlerInv'
  <2>1. nb[r].sig \in Sigs
    BY DEF TypeOK, Builds
  <2>2. CASE /\ Goto(r, "read", "build")
             /\ todo' = [todo EXCEPT ![r] = {}]
             /\ nb' = [nb EXCEPT ![r] = NoBuild(nb[r].sig)]
    <3>1. /\ NoBuild(nb[r].sig) \in Builds
          /\ NoBuild(nb[r].sig).sig = nb[r].sig
      BY <2>1, BuildTypes
    <3>2. QED
      BY <1>5, <2>2, <3>1 DEF TypeOK, ReadFile, Goto
  <2>3. CASE /\ todo' = [todo EXCEPT ![r] = @ \ {f}]
             /\ nb' = [nb EXCEPT ![r].torn =
                         IF disk[nb[r].sig][f] = "torn" THEN @ \union {f}
                                                        ELSE @]
             /\ UNCHANGED pc
    <3>1. nb' \in [Reqs -> Builds] /\ \A q \in Reqs : nb'[q].sig = nb[q].sig
      <4>1. PICK t \in SUBSET Bases : nb' = [nb EXCEPT ![r].torn = t]
        <5>1. nb[r].torn \in SUBSET Bases
          BY DEF TypeOK, Builds
        <5>2. nb[r].torn \union {f} \in SUBSET Bases
          BY <5>1
        <5>3. CASE disk[nb[r].sig][f] = "torn"
          BY <2>3, <5>2, <5>3
        <5>4. CASE disk[nb[r].sig][f] # "torn"
          BY <2>3, <5>1, <5>4
        <5>5. QED
          BY <5>3, <5>4
      <4>2. QED
        <5>1. nb \in [Reqs -> [sig : Sigs, ok : BOOLEAN, torn : SUBSET Bases]]
          BY DEF TypeOK, Builds
        <5>2. QED
          BY <4>1, <5>1 DEF Builds
    <3>2. \A q \in Reqs : todo'[q] \subseteq todo[q]
      BY <2>3
    <3>3. HandlerInv'
      BY <1>5, <2>3, <3>2 DEF ReadFile, TypeOK
    <3>4. QED
      BY <1>5, <2>3, <3>1, <3>2, <3>3 DEF TypeOK, ReadFile
  <2>4. QED
    BY <1>5, <2>2, <2>3 DEF ReadFile
<1>6. ASSUME NEW r \in Reqs, Touch(r) PROVE TypeOK' /\ HandlerInv'
  BY <1>6 DEF TypeOK, Touch, Goto
<1>7. ASSUME NEW r \in Reqs, Bundle(r) PROVE TypeOK' /\ HandlerInv'
  <2>1. nb[r].sig \in Sigs
    BY DEF TypeOK, Builds
  <2>2. /\ Whole(nb[r].sig) \in Builds
        /\ Whole(nb[r].sig).sig = nb[r].sig
    BY <2>1, BuildTypes
  <2>3. /\ contended' \in SUBSET Sigs /\ swept' \in SUBSET Sigs
        /\ dirs' \in SUBSET Sigs
    BY <1>7, <2>1 DEF TypeOK, Bundle
  <2>4. CASE Goto(r, "build", "save")
             /\ todo' = [todo EXCEPT ![r] = Files(nb[r].sig)]
    BY <1>7, <2>2, <2>3, <2>4 DEF TypeOK, Bundle, Goto
  <2>5. CASE Goto(r, "build", "install") /\ UNCHANGED todo
    BY <1>7, <2>2, <2>3, <2>5 DEF TypeOK, Bundle, Goto
  <2>6. QED
    BY <1>7, <2>4, <2>5 DEF Bundle
<1>8. ASSUME NEW r \in Reqs, BundleError(r) PROVE TypeOK' /\ HandlerInv'
  BY <1>8, PrebundleAssumption DEF TypeOK, BundleError, Goto
<1>9. ASSUME NEW r \in Reqs, SaveOpen(r) PROVE TypeOK' /\ HandlerInv'
  <2>1. nb[r].sig \in Sigs
    BY DEF TypeOK, Builds
  <2>2. QED
    BY <1>9, <2>1 DEF TypeOK, SaveOpen
<1>10. ASSUME NEW r \in Reqs, SaveWrite(r) PROVE TypeOK' /\ HandlerInv'
  <2>1. nb[r].sig \in Sigs /\ pc[r] = "save"
    BY <1>10 DEF TypeOK, Builds, SaveWrite
  <2>2. /\ DOMAIN disk' = Sigs
        /\ \A S \in Sigs :
             disk'[S] \in [Files(S) -> {"absent", "torn", "whole"}]
    BY <1>10, <2>1 DEF TypeOK, SaveWrite
  <2>3. QED
    BY <1>10, <2>1, <2>2 DEF TypeOK, SaveWrite
<1>11. ASSUME NEW r \in Reqs, SaveFail(r) PROVE TypeOK' /\ HandlerInv'
  <2>1. faults' \in 0 .. MaxFaults
    BY <1>11, PrebundleAssumption DEF TypeOK, SaveFail
  <2>2. \A q \in Reqs : /\ todo'[q] \subseteq todo[q]
                        /\ open'[q] \in {open[q], None}
    BY <1>11 DEF SaveFail
  <2>3. pc' = pc \/ pc' = [pc EXCEPT ![r] = "install"]
    BY <1>11 DEF SaveFail, Goto
  <2>4. HandlerInv'
    BY <1>11, <2>2, <2>3 DEF TypeOK, SaveFail
  <2>5. QED
    BY <1>11, <2>1, <2>2, <2>3, <2>4 DEF TypeOK, SaveFail
<1>12. ASSUME NEW r \in Reqs, Install(r) PROVE TypeOK' /\ HandlerInv'
  <2>1. PICK n \in Builds : built' = n /\ Answer(r, n) /\ pc[r] = "install"
    BY <1>12 DEF TypeOK, Install
  <2>2. UNCHANGED <<entries, cache, faults, restarts, imported, grown>>
    BY <1>12, <2>1 DEF Install, Answer
  <2>3. QED
    BY <2>1, <2>2, AnswerTypes, PageType DEF TypeOK
<1>13. ASSUME NEW r \in Reqs, SaveLost(r) \/ SaveDone(r)
       PROVE  TypeOK' /\ HandlerInv'
  <2>1. pc' = [pc EXCEPT ![r] = "install"] /\ pc[r] = "save"
    BY <1>13 DEF SaveLost, SaveDone, Goto
  <2>2. /\ old' \subseteq old /\ open[r] = None
        /\ DOMAIN todo' = Reqs /\ todo'[r] = {}
        /\ \A q \in Reqs : todo'[q] \subseteq todo[q]
        /\ UNCHANGED <<server, disk, dirs, contended, swept, sweeper, base,
                       nb, open, browser, faults, restarts>>
    BY <1>13 DEF SaveLost, SaveDone
  <2>3. QED
    BY <2>1, <2>2 DEF TypeOK
<1>14. CASE Gc
  <2>1. ASSUME NEW S \in Sigs, GcStat(S) PROVE TypeOK' /\ HandlerInv'
    BY <2>1 DEF TypeOK, GcStat
  <2>2. ASSUME GcList PROVE TypeOK' /\ HandlerInv'
    BY <2>2 DEF TypeOK, GcList
  <2>3. ASSUME NEW f \in Files(victim), GcUnlink(f)
        PROVE  TypeOK' /\ HandlerInv'
    <3>1. /\ DOMAIN disk' = Sigs
          /\ \A S \in Sigs :
               disk'[S] \in [Files(S) -> {"absent", "torn", "whole"}]
      BY <2>3 DEF TypeOK, GcUnlink
    <3>2. \A r \in Reqs : open'[r] \in {open[r], None}
      BY <2>3 DEF GcUnlink
    <3>3. HandlerInv'
      BY <2>3, <3>2 DEF TypeOK, GcUnlink
    <3>4. QED
      BY <2>3, <3>1, <3>2, <3>3 DEF TypeOK, GcUnlink
  <2>4. ASSUME NEW f \in Files(victim), GcFail(f)
        PROVE  TypeOK' /\ HandlerInv'
    BY <2>4, PrebundleAssumption DEF TypeOK, GcFail
  <2>5. ASSUME GcRmdir PROVE TypeOK' /\ HandlerInv'
    BY <2>5 DEF TypeOK, GcRmdir
  <2>6. QED
    BY <1>14, <2>1, <2>2, <2>3, <2>4, <2>5 DEF Gc
<1>15. CASE Restart
  <2>1. page' \in [Bases -> Views]
    <3>1. \A b \in Bases : page[b] \in Views
      BY PageType DEF TypeOK
    <3>2. Shown("error") \in Views
      BY BuildTypes, Filenames
    <3>3. QED
      BY <1>15, <3>1, <3>2 DEF Restart
  <2>2. nb' \in [Reqs -> Builds]
    BY <1>15, BuildTypes DEF Restart
  <2>3. old' \in SUBSET Sigs
    BY <1>15 DEF TypeOK, Restart
  <2>4. restarts' \in 0 .. MaxRestarts
    BY <1>15, PrebundleAssumption DEF TypeOK, Restart
  <2>5. QED
    BY <1>15, <2>1, <2>2, <2>3, <2>4, PageType DEF TypeOK, Restart, Begun
<1>16. CASE Reload
  <2>1. page' \in [Bases -> Views]
    BY <1>16, BuildTypes DEF Reload
  <2>2. QED
    BY <1>16, <2>1, PageType DEF TypeOK, Reload
<1>17. QED
  BY <1>1, <1>2, <1>3, <1>4, <1>5, <1>6, <1>7, <1>8, <1>9, <1>10, <1>11,
     <1>12, <1>13, <1>14, <1>15, <1>16 DEF Next, Handle

(* The program's data has the types that the model declares.               *)
THEOREM TypeCorrect == Spec => []TypeOK
<1>1. Init => TypeOK /\ HandlerInv
  BY InitTypes
<1>2. TypeOK /\ HandlerInv /\ [Next]_vars => (TypeOK /\ HandlerInv)'
  <2>1. TypeOK /\ HandlerInv /\ UNCHANGED vars => (TypeOK /\ HandlerInv)'
    BY DEF TypeOK, HandlerInv, vars, server, cache, sweeper, handler,
       browser
  <2>2. QED
    BY <2>1, TypesPreserved
<1>3. QED
  BY <1>1, <1>2, PTL DEF Spec

-----------------------------------------------------------------------------
(* A step that writes and removes no file, begins no save, and leaves      *)
(* those under way as they are or done, or ends them; a load begins only   *)
(* where there is a manifest.                                              *)
Quiet ==
  /\ UNCHANGED <<disk, contended, swept>>
  /\ \A r \in Reqs : pc'[r] = "save" =>
       /\ pc[r] = "save"
       /\ nb'[r].sig = nb[r].sig
       /\ \/ todo'[r] = todo[r] /\ open'[r] = open[r]
          \/ /\ todo[r] \union {open[r]} \subseteq {Manifest, None}
             /\ todo'[r] = {} /\ open'[r] = None
  /\ \A r \in Reqs : pc'[r] = "read" =>
       /\ nb'[r].sig = nb[r].sig
       /\ pc[r] = "read" \/ disk[nb[r].sig][Manifest] = "whole"

LEMMA QuietKeepsDir ==
  ASSUME TypeOK, ManifestLast, DirInv, Quiet
  PROVE  ManifestLast' /\ DirInv'
<1>1. ManifestLast'
  BY DEF ManifestLast, Quiet
<1>2. SUFFICES ASSUME NEW S \in Sigs, S \notin contended
               PROVE  (WholeDir(S) /\ OneSaver(S) /\ CalmRead(S))'
  BY <1>1 DEF DirInv, Quiet
<1>3. /\ WholeDir(S) /\ OneSaver(S) /\ CalmRead(S)
      /\ disk' = disk /\ swept' = swept
  BY <1>2 DEF DirInv, Quiet
<1>4. \A f : Kept(S, f)' = Kept(S, f)
  BY <1>3 DEF Kept
<1>5. WholeDir(S)'
  BY <1>3, <1>4 DEF WholeDir
<1>6. /\ Saving(S)' \subseteq Saving(S)
      /\ \A r \in Saving(S)' : Done(r) => Done(r)'
  BY DEF Saving, Quiet, Done
<1>7. ASSUME NEW r \in Saving(S)'
      PROVE  /\ disk[S][Manifest] = "whole" => Done(r)'
             /\ \A f \in Outputs(S) :
                  f \in todo'[r] \/ f = open'[r] \/ Kept(S, f)
  <2>1. /\ r \in Saving(S)
        /\ disk[S][Manifest] = "whole" => Done(r)
        /\ \A f \in Outputs(S) : f \in todo[r] \/ f = open[r] \/ Kept(S, f)
    BY <1>3, <1>6 DEF OneSaver
  <2>2. \A f \in Outputs(S) : f \notin {Manifest, None}
    BY Filenames
  <2>3. CASE todo'[r] = todo[r] /\ open'[r] = open[r]
    BY <1>6, <2>1, <2>3
  <2>4. CASE todo[r] \union {open[r]} \subseteq {Manifest, None}
    BY <1>6, <2>1, <2>2, <2>4
  <2>5. QED
    BY <1>7, <2>3, <2>4 DEF Quiet, Saving
<1>8. OneSaver(S)'
  BY <1>3, <1>4, <1>6, <1>7 DEF OneSaver
<1>9. ASSUME NEW r \in Reading(S)'
      PROVE  Reading(S) # {} \/ disk[S][Manifest] = "whole"
  BY <1>9 DEF Reading, Quiet
<1>10. ASSUME Reading(S) # {} PROVE CalmRead(S)'
  <2>1. /\ \A q \in Saving(S) : Done(q)
        /\ \A f \in Outputs(S) : disk[S][f] # "torn"
    BY <1>3, <1>10 DEF CalmRead
  <2>2. \A q \in Saving(S)' : Done(q)'
    BY <1>6, <2>1
  <2>3. QED
    BY <1>3, <2>1, <2>2 DEF CalmRead
<1>11. ASSUME disk[S][Manifest] = "whole" PROVE CalmRead(S)'
  <2>1. \A f \in Outputs(S) : disk[S][f] # "torn"
    BY <1>3, <1>11, Filenames DEF WholeDir, Kept
  <2>2. \A q \in Saving(S) : Done(q)
    BY <1>3, <1>11 DEF OneSaver
  <2>3. \A q \in Saving(S)' : Done(q)'
    BY <1>6, <2>2
  <2>4. QED
    BY <1>3, <2>1, <2>3 DEF CalmRead
<1>12. CalmRead(S)'
  BY <1>9, <1>10, <1>11 DEF CalmRead
<1>13. QED
  BY <1>5, <1>8, <1>12

LEMMA QuietSteps ==
  ASSUME TypeOK, HandlerInv, [Next]_vars
  PROVE  \/ Quiet
         \/ \E r \in Reqs : Bundle(r) \/ SaveOpen(r) \/ SaveWrite(r)
         \/ \E f \in Files(victim) : GcUnlink(f)
<1> USE DEF TypeOK, Quiet, server, cache, sweeper, handler, browser
<1>1. ASSUME NEW e \in Entries, Register(e) PROVE Quiet
  BY <1>1 DEF Register
<1>2. ASSUME NEW r \in Reqs, NEW b \in Bases, Ask(r, b) PROVE Quiet
  BY <1>2 DEF Ask, Goto
<1>3. ASSUME NEW r \in Reqs, Serve(r) PROVE Quiet
  <2>1. \A q \in Reqs \ {r} : /\ pc'[q] = pc[q]
                              /\ nb'[q] = nb[q]
                              /\ todo'[q] = todo[q]
    BY <1>3 DEF Serve, Answer, Goto, HandlerInv
  <2>2. pc'[r] \notin {"save", "read"}
    BY <1>3 DEF Serve, Answer, Goto
  <2>3. UNCHANGED <<cache, open>>
    BY <1>3 DEF Serve, Answer
  <2>4. QED
    BY <2>1, <2>2, <2>3
<1>4. ASSUME NEW r \in Reqs, ReadManifest(r) PROVE Quiet
  <2>1. \A q \in Reqs \ {r} : /\ pc'[q] = pc[q]
                              /\ nb'[q] = nb[q]
                              /\ todo'[q] = todo[q]
    BY <1>4 DEF ReadManifest, Goto, HandlerInv
  <2>2. pc'[r] # "save"
    BY <1>4 DEF ReadManifest, Goto
  <2>3. pc'[r] = "read" => /\ disk[nb[r].sig][Manifest] = "whole"
                           /\ nb'[r] = Whole(nb[r].sig)
    BY <1>4 DEF ReadManifest, Goto
  <2>4. Whole(nb[r].sig).sig = nb[r].sig
    BY DEF Whole
  <2>5. UNCHANGED <<cache, open>>
    BY <1>4 DEF ReadManifest
  <2>6. QED
    BY <2>1, <2>2, <2>3, <2>4, <2>5
<1>5. ASSUME NEW r \in Reqs, NEW f \in Bases, ReadFile(r, f) PROVE Quiet
  <2>1. \A q \in Reqs \ {r} : nb'[q] = nb[q] /\ todo'[q] = todo[q]
    BY <1>5 DEF ReadFile, HandlerInv
  <2>2. pc'[r] # "save" /\ pc[r] = "read"
    BY <1>5 DEF ReadFile, Goto
  <2>3. nb'[r].sig = nb[r].sig
    BY <1>5 DEF ReadFile, NoBuild, Builds
  <2>4. \A q \in Reqs \ {r} : pc'[q] = pc[q]
    BY <1>5 DEF ReadFile, Goto
  <2>5. QED
    BY <1>5, <2>1, <2>2, <2>3, <2>4 DEF ReadFile
<1>6. ASSUME NEW r \in Reqs, Touch(r) PROVE Quiet
  BY <1>6 DEF Touch, Goto
<1>7. ASSUME NEW r \in Reqs, BundleError(r) PROVE Quiet
  BY <1>7 DEF BundleError, Goto
<1>8. ASSUME NEW r \in Reqs, SaveFail(r) PROVE Quiet
  <2>1. pc' = pc \/ pc' = [pc EXCEPT ![r] = "install"]
    BY <1>8 DEF SaveFail, Goto
  <2>2. pc'[r] = "save" => todo[r] \union {open[r]} \subseteq {Manifest, None}
    BY <1>8 DEF SaveFail, Goto
  <2>3. /\ \A q \in Reqs \ {r} : todo'[q] = todo[q] /\ open'[q] = open[q]
        /\ todo'[r] = {} /\ open'[r] = None
        /\ nb' = nb /\ UNCHANGED cache
    BY <1>8 DEF SaveFail, HandlerInv
  <2>4. pc[r] = "save"
    BY <1>8 DEF SaveFail
  <2>5. QED
    BY <2>1, <2>2, <2>3, <2>4
<1>9. ASSUME NEW r \in Reqs, SaveLost(r) \/ SaveDone(r) PROVE Quiet
  <2>1. pc' = [pc EXCEPT ![r] = "install"]
    BY <1>9 DEF SaveLost, SaveDone, Goto
  <2>2. \A q \in Reqs \ {r} : todo'[q] = todo[q]
    BY <1>9 DEF SaveLost, SaveDone, HandlerInv
  <2>3. UNCHANGED <<disk, contended, swept, nb, open>>
    BY <1>9 DEF SaveLost, SaveDone
  <2>4. QED
    BY <2>1, <2>2, <2>3
<1>10. ASSUME NEW r \in Reqs, Install(r) PROVE Quiet
  BY <1>10 DEF Install, Answer
<1>11. ASSUME NEW S \in Sigs, GcStat(S) PROVE Quiet
  BY <1>11 DEF GcStat
<1>12. CASE GcList \/ GcRmdir \/ \E f \in Files(victim) : GcFail(f)
  BY <1>12 DEF GcList, GcRmdir, GcFail
<1>13. CASE Restart
  BY <1>13 DEF Restart
<1>14. CASE Reload
  BY <1>14 DEF Reload
<1>15. CASE UNCHANGED vars
  BY <1>15 DEF vars
<1>16. QED
  BY <1>1, <1>2, <1>3, <1>4, <1>5, <1>6, <1>7, <1>8, <1>9, <1>10, <1>11,
     <1>12, <1>13, <1>14, <1>15 DEF Next, Handle, Gc

(* What a step does to one directory, it leaves the others as they are.    *)
LEMMA OthersKept ==
  ASSUME NEW S \in Sigs, WholeDir(S), OneSaver(S), CalmRead(S),
         disk'[S] = disk[S], S \in swept' <=> S \in swept,
         Reading(S)' \subseteq Reading(S), Saving(S)' \subseteq Saving(S),
         \A q \in Saving(S)' : todo'[q] = todo[q] /\ open'[q] = open[q]
  PROVE  (WholeDir(S) /\ OneSaver(S) /\ CalmRead(S))'
<1>1. \A f : Kept(S, f)' = Kept(S, f)
  BY DEF Kept
<1>2. WholeDir(S)'
  BY <1>1 DEF WholeDir
<1>3. OneSaver(S)'
  BY <1>1 DEF OneSaver, Done
<1>4. CalmRead(S)'
  BY DEF CalmRead, Done
<1>5. QED
  BY <1>2, <1>3, <1>4

(* A save begins: alone, in a directory without a whole manifest that      *)
(* nobody is reading, or the directory counts as contended from now on.    *)
LEMMA BundleKeepsDir ==
  ASSUME TypeOK, HandlerInv, ManifestLast, DirInv, NEW r \in Reqs, Bundle(r)
  PROVE  ManifestLast' /\ DirInv'
<1>1. PICK T \in Sigs : T = nb[r].sig
  BY DEF TypeOK, Builds
<1>2. CASE ~Persistent
  BY <1>2, QuietKeepsDir DEF Bundle, Goto, TypeOK, Quiet, server, browser
<1>3. CASE Persistent
  <2>1. /\ todo' = [todo EXCEPT ![r] = Files(T)]
        /\ pc' = [pc EXCEPT ![r] = "save"]
        /\ open' = open /\ disk' = disk
        /\ nb' = [nb EXCEPT ![r] = Whole(T)]
        /\ swept' = swept \ {T}
        /\ contended' = IF Using(T) # {} \/ disk[T][Manifest] = "whole"
                        THEN contended \union {T} ELSE contended
        /\ pc[r] = "build"
    BY <1>1, <1>3 DEF Bundle, Goto, TypeOK, server, browser
  <2>2. \A q \in Reqs \ {r} : /\ pc'[q] = pc[q]
                              /\ nb'[q] = nb[q]
                              /\ todo'[q] = todo[q]
    BY <2>1 DEF HandlerInv
  <2>3. /\ pc'[r] = "save" /\ nb'[r].sig = T
        /\ todo'[r] = Files(T) /\ open'[r] = None
    BY <1>1, <2>1, BuildTypes DEF TypeOK, HandlerInv
  <2>4. ManifestLast'
    BY <2>1, <2>2, <2>3, Filenames DEF ManifestLast
  <2>5. SUFFICES ASSUME NEW S \in Sigs, S \notin contended'
                 PROVE  (WholeDir(S) /\ OneSaver(S) /\ CalmRead(S))'
    BY <2>4 DEF DirInv
  <2>6. WholeDir(S) /\ OneSaver(S) /\ CalmRead(S)
    BY <2>1, <2>5 DEF DirInv
  <2>7. CASE S = T
    <3>1. Using(T) = {} /\ disk'[T][Manifest] # "whole"
      BY <2>1, <2>5, <2>7
    <3>2. Saving(T)' \subseteq {r} /\ Reading(T)' = {}
      BY <2>2, <2>3, <3>1 DEF Saving, Reading, Using
    <3>3. QED
      BY <2>3, <2>7, <3>1, <3>2, Filenames DEF WholeDir, OneSaver, CalmRead
  <2>8. CASE S # T
    <3>1. Saving(S)' \subseteq Saving(S) /\ Reading(S)' \subseteq Reading(S)
      BY <2>2, <2>3, <2>8 DEF Saving, Reading
    <3>2. \A q \in Saving(S)' : todo'[q] = todo[q] /\ open'[q] = open[q]
      BY <2>1, <2>2, <2>3, <2>8 DEF Saving
    <3>3. QED
      BY <2>1, <2>6, <2>8, <3>1, <3>2, OthersKept
  <2>9. QED
    BY <2>7, <2>8
<1>4. QED
  BY <1>2, <1>3, PrebundleAssumption

(* A file is truncated: only the manifest when nothing else is left.       *)
LEMMA OpenKeepsDir ==
  ASSUME TypeOK, HandlerInv, ManifestLast, DirInv, NEW r \in Reqs, SaveOpen(r)
  PROVE  ManifestLast' /\ DirInv'
<1>1. PICK T \in Sigs : T = nb[r].sig
  BY DEF TypeOK, Builds
<1>2. PICK f \in todo[r] :
        /\ f = Manifest => todo[r] = {Manifest}
        /\ disk' = [disk EXCEPT ![T][f] = "torn"]
        /\ open' = [open EXCEPT ![r] = f]
        /\ todo' = [todo EXCEPT ![r] = @ \ {f}]
  BY <1>1 DEF SaveOpen
<1>3. /\ pc[r] = "save" /\ open[r] = None
      /\ pc' = pc /\ nb' = nb /\ contended' = contended /\ swept' = swept
  BY DEF SaveOpen, browser, server
<1>4. r \in Saving(T) /\ f \in Files(T)
  BY <1>1, <1>2, <1>3 DEF Saving, TypeOK
<1>5. /\ \A q \in Reqs \ {r} : todo'[q] = todo[q] /\ open'[q] = open[q]
      /\ open'[r] = f /\ todo'[r] = todo[r] \ {f}
  BY <1>2 DEF HandlerInv
<1>6. /\ \A S \in Sigs \ {T} : disk'[S] = disk[S]
      /\ \A g \in Files(T) : disk'[T][g] = IF g = f THEN "torn" ELSE disk[T][g]
  BY <1>2, <1>4 DEF TypeOK
<1>7. ManifestLast'
  <2>1. Manifest \in todo[r]
    BY <1>2, <1>3 DEF ManifestLast
  <2>2. QED
    BY <1>2, <1>3, <1>5, <2>1, Filenames DEF ManifestLast
<1>8. \A S \in Sigs : Saving(S)' = Saving(S) /\ Reading(S)' = Reading(S)
  BY <1>3 DEF Saving, Reading
<1>9. SUFFICES ASSUME NEW S \in Sigs, S \notin contended
               PROVE  (WholeDir(S) /\ OneSaver(S) /\ CalmRead(S))'
  BY <1>3, <1>7 DEF DirInv
<1>10. WholeDir(S) /\ OneSaver(S) /\ CalmRead(S)
  BY <1>9 DEF DirInv
<1>11. CASE S = T
  <2>1. /\ \A q \in Saving(T) : q = r
        /\ disk[T][Manifest] # "whole"
        /\ \A g \in Outputs(T) : g \in todo[r] \/ g = open[r] \/ Kept(T, g)
    BY <1>2, <1>4, <1>10, <1>11 DEF OneSaver, Done
  <2>2. /\ Manifest \in Files(T)
        /\ \A g \in Outputs(T) : g \in Files(T) /\ g # None
    BY Filenames
  <2>3. disk'[T][Manifest] # "whole"
    BY <1>6, <2>1, <2>2
  <2>4. ASSUME NEW g \in Outputs(T)
        PROVE  g \in todo'[r] \/ g = open'[r] \/ Kept(T, g)'
    <3>1. CASE g = f
      BY <1>5, <3>1
    <3>2. CASE g # f
      <4>1. disk'[T][g] = disk[T][g]
        BY <1>6, <2>2, <3>2
      <4>2. QED
        BY <1>3, <1>5, <2>1, <2>2, <3>2, <4>1 DEF Kept
    <3>3. QED
      BY <3>1, <3>2
  <2>5. OneSaver(T)'
    BY <1>8, <2>1, <2>3, <2>4 DEF OneSaver
  <2>6. Reading(T) = {}
    BY <1>2, <1>4, <1>10, <1>11 DEF CalmRead, Done
  <2>7. QED
    BY <1>8, <1>11, <2>3, <2>5, <2>6 DEF WholeDir, CalmRead
<1>12. CASE S # T
  <2>1. r \notin Saving(S)
    BY <1>1, <1>12 DEF Saving
  <2>2. \A q \in Saving(S)' : todo'[q] = todo[q] /\ open'[q] = open[q]
    BY <1>5, <1>8, <2>1 DEF Saving
  <2>3. QED
    BY <1>3, <1>6, <1>8, <1>10, <1>12, <2>2, OthersKept
<1>13. QED
  BY <1>11, <1>12

(* A file is written: with the manifest, the directory is kept.            *)
LEMMA WriteKeepsDir ==
  ASSUME TypeOK, HandlerInv, ManifestLast, DirInv, NEW r \in Reqs, SaveWrite(r)
  PROVE  ManifestLast' /\ DirInv'
<1>1. PICK T \in Sigs : T = nb[r].sig
  BY DEF TypeOK, Builds
<1>2. PICK f : f = open[r]
  OBVIOUS
<1>3. /\ pc[r] = "save" /\ f # None /\ f \in Files(T)
      /\ open' = [open EXCEPT ![r] = None]
      /\ disk' = [disk EXCEPT ![T][f] = "whole"]
      /\ UNCHANGED <<pc, todo, nb, contended, swept>>
  BY <1>1, <1>2 DEF SaveWrite, HandlerInv, TypeOK, browser, server
<1>4. r \in Saving(T)
  BY <1>1, <1>3 DEF Saving
<1>5. /\ \A q \in Reqs \ {r} : open'[q] = open[q]
      /\ open'[r] = None
  BY <1>3 DEF HandlerInv
<1>6. /\ \A S \in Sigs \ {T} : disk'[S] = disk[S]
      /\ \A g \in Files(T) :
           disk'[T][g] = IF g = f THEN "whole" ELSE disk[T][g]
  BY <1>3 DEF TypeOK
<1>7. ManifestLast'
  BY <1>2, <1>3, <1>5, Filenames DEF ManifestLast
<1>8. \A S \in Sigs : Saving(S)' = Saving(S) /\ Reading(S)' = Reading(S)
  BY <1>3 DEF Saving, Reading
<1>9. SUFFICES ASSUME NEW S \in Sigs, S \notin contended
               PROVE  (WholeDir(S) /\ OneSaver(S) /\ CalmRead(S))'
  BY <1>3, <1>7 DEF DirInv
<1>10. WholeDir(S) /\ OneSaver(S) /\ CalmRead(S)
  BY <1>9 DEF DirInv
<1>11. CASE S = T
  <2>1. /\ \A q \in Saving(T) : q = r
        /\ disk[T][Manifest] # "whole"
        /\ \A g \in Outputs(T) : g \in todo[r] \/ g = f \/ Kept(T, g)
    BY <1>2, <1>3, <1>4, <1>10, <1>11 DEF OneSaver, Done
  <2>2. Manifest \in Files(T) /\ \A g \in Outputs(T) : g \in Files(T)
    BY Filenames
  <2>3. \A g \in Outputs(T) : g \in todo[r] \/ Kept(T, g)'
    BY <1>3, <1>6, <2>1, <2>2 DEF Kept
  <2>4. disk'[T][Manifest] = "whole" => f = Manifest /\ todo[r] = {}
    BY <1>2, <1>3, <1>6, <2>1, <2>2 DEF ManifestLast
  <2>5. OneSaver(T)'
    BY <1>3, <1>5, <1>8, <2>1, <2>3, <2>4 DEF OneSaver, Done
  <2>6. WholeDir(T)'
    <3>1. Files(T) = Outputs(T) \union {Manifest}
      BY Filenames
    <3>2. QED
      BY <2>3, <2>4, <3>1 DEF WholeDir, Kept
  <2>7. Reading(T) = {}
    BY <1>2, <1>3, <1>4, <1>10, <1>11 DEF CalmRead, Done
  <2>8. QED
    BY <1>8, <1>11, <2>5, <2>6, <2>7 DEF CalmRead
<1>12. CASE S # T
  <2>1. r \notin Saving(S)
    BY <1>1, <1>12 DEF Saving
  <2>2. \A q \in Saving(S)' : todo'[q] = todo[q] /\ open'[q] = open[q]
    BY <1>3, <1>5, <1>8, <2>1 DEF Saving
  <2>3. QED
    BY <1>3, <1>6, <1>8, <1>10, <1>12, <2>2, OthersKept
<1>13. QED
  BY <1>11, <1>12

(* gcDisk removes a file, which somebody may have open.                    *)
LEMMA UnlinkKeepsDir ==
  ASSUME TypeOK, HandlerInv, ManifestLast, DirInv,
         NEW f \in Files(victim), GcUnlink(f)
  PROVE  ManifestLast' /\ DirInv'
<1>1. PICK T \in Sigs : T = victim
  BY DEF TypeOK
<1>2. /\ UNCHANGED <<pc, nb, todo, contended>>
      /\ swept' = swept \union {T}
      /\ disk' = [disk EXCEPT ![T][f] = "absent"]
      /\ \A q \in Reqs : open'[q] = IF nb[q].sig = T /\ open[q] = f
                                    THEN None ELSE open[q]
  BY <1>1 DEF GcUnlink, browser, server
<1>3. /\ \A S \in Sigs \ {T} : disk'[S] = disk[S]
      /\ \A g \in Files(T) :
           disk'[T][g] = IF g = f THEN "absent" ELSE disk[T][g]
  BY <1>1, <1>2 DEF TypeOK
<1>4. ManifestLast'
  BY <1>2, Filenames DEF ManifestLast
<1>5. \A S \in Sigs : Saving(S)' = Saving(S) /\ Reading(S)' = Reading(S)
  BY <1>2 DEF Saving, Reading
<1>6. SUFFICES ASSUME NEW S \in Sigs, S \notin contended
               PROVE  (WholeDir(S) /\ OneSaver(S) /\ CalmRead(S))'
  BY <1>2, <1>4 DEF DirInv
<1>7. WholeDir(S) /\ OneSaver(S) /\ CalmRead(S)
  BY <1>6 DEF DirInv
<1>8. CASE S = T
  <2>1. Manifest \in Files(T) /\ \A g \in Outputs(T) : g \in Files(T)
    BY Filenames
  <2>2. \A g \in Files(T) : Kept(T, g) \/ g = f => Kept(T, g)'
    BY <1>2, <1>3 DEF Kept
  <2>3. disk'[T][Manifest] = "whole" => disk[T][Manifest] = "whole"
    BY <1>3, <2>1
  <2>4. WholeDir(T)'
    BY <1>7, <1>8, <2>2, <2>3 DEF WholeDir
  <2>5. \A q \in Saving(T) : /\ q \in Reqs /\ nb[q].sig = T
                             /\ Done(q) => Done(q)'
    BY <1>2 DEF Saving, Done
  <2>6. ASSUME NEW q \in Saving(T), NEW g \in Outputs(T)
        PROVE  g \in todo'[q] \/ g = open'[q] \/ Kept(T, g)'
    BY <1>2, <1>7, <1>8, <2>1, <2>2, <2>5 DEF OneSaver
  <2>7. OneSaver(T)'
    BY <1>5, <1>7, <1>8, <2>3, <2>5, <2>6 DEF OneSaver
  <2>8. CalmRead(T)'
    BY <1>3, <1>5, <1>7, <1>8, <2>1, <2>5 DEF CalmRead
  <2>9. QED
    BY <1>8, <2>4, <2>7, <2>8
<1>9. CASE S # T
  <2>1. \A q \in Saving(S)' : todo'[q] = todo[q] /\ open'[q] = open[q]
    BY <1>2, <1>5, <1>9 DEF Saving
  <2>2. QED
    BY <1>2, <1>3, <1>5, <1>7, <1>9, <2>1, OthersKept
<1>10. QED
  BY <1>8, <1>9

(* What has been loaded stays as it is, or is forgotten.                   *)
LEMMA LoadsKept ==
  ASSUME LoadInv, UNCHANGED <<built, page>>, contended \subseteq contended',
         \A r \in Reqs : nb'[r] = nb[r] \/ nb'[r].torn = {}
  PROVE  LoadInv'
BY DEF LoadInv

(* Torn files reach the page through the build it is answered with.        *)
LEMMA AnswerKeepsLoads ==
  ASSUME TypeOK, LoadInv, NEW r \in Reqs, NEW n \in Builds, Answer(r, n),
         n.torn # {} => n.sig \in contended,
         built' \in {built, n}, contended' = contended
  PROVE  LoadInv'
<1>1. Outcome(n, base[r]).torn => Outcome(n, base[r]).sig \in contended
  BY DEF Outcome, Shown
<1>2. \A b \in Bases : page'[b].torn => page'[b].sig \in contended
  BY <1>1 DEF TypeOK, Answer, LoadInv
<1>3. \A q \in Reqs : nb'[q].torn # {} => nb'[q].sig \in contended
  BY DEF TypeOK, Answer, LoadInv, NoBuild
<1>4. QED
  BY <1>2, <1>3 DEF LoadInv

(* A file is torn when it is read only if its directory is contended.      *)
LEMMA ReadKeepsLoads ==
  ASSUME TypeOK, DirInv, LoadInv, NEW r \in Reqs, NEW f \in Bases,
         ReadFile(r, f)
  PROVE  LoadInv'
<1>1. PICK S \in Sigs : S = nb[r].sig
  BY DEF TypeOK, Builds
<1>2. UNCHANGED <<built, page, contended>> /\ pc[r] = "read" /\ f \in todo[r]
  BY DEF ReadFile, server, cache, browser
<1>3. CASE nb' = [nb EXCEPT ![r] = NoBuild(nb[r].sig)]
  BY <1>2, <1>3, LoadsKept DEF NoBuild, TypeOK
<1>4. CASE /\ disk[S][f] # "absent"
           /\ nb' = [nb EXCEPT ![r].torn = IF disk[nb[r].sig][f] = "torn"
                                          THEN @ \union {f} ELSE @]
  <2>1. CASE S \in contended
    <3>1. nb'[r].sig = S /\ \A q \in Reqs \ {r} : nb'[q] = nb[q]
      BY <1>1, <1>4 DEF TypeOK, Builds
    <3>2. QED
      BY <1>2, <2>1, <3>1 DEF LoadInv
  <2>2. CASE S \notin contended
    <3>1. Reading(S) # {} /\ CalmRead(S)
      BY <1>1, <1>2, <2>2 DEF Reading, DirInv
    <3>2. f \in Files(S) /\ f # Manifest
      BY <1>1, <1>2, Filenames DEF TypeOK
    <3>3. disk[S][f] # "torn"
      BY <3>1, <3>2, Filenames DEF CalmRead
    <3>4. nb' = [nb EXCEPT ![r].torn = @]
      BY <1>1, <1>4, <3>3
    <3>5. \A q \in Reqs : nb'[q] = nb[q]
      BY <3>4 DEF TypeOK, Builds
    <3>6. QED
      BY <1>2, <3>5, LoadsKept
  <2>3. QED
    BY <2>1, <2>2
<1>5. QED
  BY <1>1, <1>3, <1>4 DEF ReadFile

LEMMA LoadSteps ==
  ASSUME TypeOK, DirInv, LoadInv, [Next]_vars
  PROVE  LoadInv'
<1> USE DEF TypeOK, server, cache, sweeper, handler, browser
<1>1. ASSUME NEW e \in Entries, Register(e) PROVE LoadInv'
  BY <1>1, LoadsKept DEF Register
<1>2. ASSUME NEW r \in Reqs, NEW b \in Bases, Ask(r, b) PROVE LoadInv'
  BY <1>2 DEF Ask, LoadInv, Shown
<1>3. ASSUME NEW r \in Reqs, Serve(r) PROVE LoadInv'
  <2>1. CASE built # None /\ Answer(r, built)
    BY <1>3, <2>1, AnswerKeepsLoads DEF Serve, LoadInv
  <2>2. CASE nb' = [nb EXCEPT ![r] = NoBuild(entries)] /\ UNCHANGED browser
    BY <1>3, <2>2, LoadsKept DEF Serve, NoBuild
  <2>3. QED
    BY <1>3, <2>1, <2>2 DEF Serve
<1>4. ASSUME NEW r \in Reqs, ReadManifest(r) PROVE LoadInv'
  BY <1>4, LoadsKept DEF ReadManifest, Whole
<1>5. ASSUME NEW r \in Reqs, NEW f \in Bases, ReadFile(r, f) PROVE LoadInv'
  BY <1>5, ReadKeepsLoads
<1>6. ASSUME NEW r \in Reqs, Touch(r) \/ BundleError(r) PROVE LoadInv'
  BY <1>6, LoadsKept DEF Touch, BundleError
<1>7. ASSUME NEW r \in Reqs, Bundle(r) PROVE LoadInv'
  BY <1>7, LoadsKept DEF Bundle, Whole
<1>8. ASSUME NEW r \in Reqs, SaveOpen(r) \/ SaveWrite(r) PROVE LoadInv'
  BY <1>8, LoadsKept DEF SaveOpen, SaveWrite
<1>9. ASSUME NEW r \in Reqs, SaveLost(r) \/ SaveFail(r) \/ SaveDone(r)
      PROVE  LoadInv'
  BY <1>9, LoadsKept DEF SaveLost, SaveFail, SaveDone
<1>10. ASSUME NEW r \in Reqs, Install(r) PROVE LoadInv'
  <2>1. PICK n \in Builds : /\ built' = n /\ Answer(r, n)
                            /\ n \in {nb[r], built}
    BY <1>10 DEF Install
  <2>2. n.torn # {} => n.sig \in contended
    BY <1>10, <2>1 DEF Install, LoadInv
  <2>3. QED
    BY <1>10, <2>1, <2>2, AnswerKeepsLoads DEF Install
<1>11. CASE Gc
  BY <1>11, LoadsKept DEF Gc, GcStat, GcList, GcUnlink, GcFail, GcRmdir
<1>12. CASE Restart
  BY <1>12 DEF Restart, LoadInv, NoBuild, Shown
<1>13. CASE Reload
  BY <1>13 DEF Reload, LoadInv, Shown
<1>14. CASE UNCHANGED vars
  BY <1>14, LoadsKept DEF vars
<1>15. QED
  BY <1>1, <1>2, <1>3, <1>4, <1>5, <1>6, <1>7, <1>8, <1>9, <1>10, <1>11,
     <1>12, <1>13, <1>14 DEF Next, Handle

(* Whenever the server was stopped, whatever failed, and whatever gcDisk   *)
(* removed: a directory with a manifest holds its whole build but for what *)
(* was swept away, and no page gets a torn file; unless a save has begun   *)
(* there while another ran or had succeeded, or while it was loaded.       *)
THEOREM DiskIsComplete == Spec => []DiskComplete
<1>1. Init => TypeOK /\ DiskInv
  <2> SUFFICES ASSUME Init PROVE ManifestLast /\ DirInv /\ LoadInv
    BY InitTypes DEF DiskInv
  <2>1. \A S \in Sigs : disk[S][Manifest] # "whole"
    BY Filenames DEF Init, Empty
  <2>2. ManifestLast /\ DirInv
    BY <2>1 DEF Init, ManifestLast, DirInv, WholeDir, OneSaver, CalmRead,
       Saving, Reading
  <2>3. LoadInv
    BY DEF Init, LoadInv, NoBuild, Shown
  <2>4. QED
    BY <2>2, <2>3
<1>2. TypeOK /\ DiskInv /\ [Next]_vars => (TypeOK /\ DiskInv)'
  <2> SUFFICES ASSUME TypeOK, DiskInv, [Next]_vars PROVE TypeOK' /\ DiskInv'
    OBVIOUS
  <2>1. TypeOK' /\ HandlerInv'
    <3>1. CASE Next
      BY <3>1, TypesPreserved DEF DiskInv
    <3>2. CASE UNCHANGED vars
      BY <3>2 DEF DiskInv, TypeOK, HandlerInv, vars, server, cache, sweeper,
         handler, browser
    <3>3. QED
      BY <3>1, <3>2
  <2>2. ManifestLast' /\ DirInv'
    BY QuietSteps, QuietKeepsDir, BundleKeepsDir, OpenKeepsDir,
       WriteKeepsDir, UnlinkKeepsDir DEF DiskInv
  <2>3. LoadInv'
    BY LoadSteps DEF DiskInv
  <2>4. QED
    BY <2>1, <2>2, <2>3 DEF DiskInv
<1>3. DiskInv => DiskComplete
  BY DEF DiskInv, DirInv, WholeDir, Kept, LoadInv, DiskComplete
<1>4. QED
  BY <1>1, <1>2, <1>3, PTL DEF Spec

-----------------------------------------------------------------------------
(* A step of a handler or of gcDisk between the two times that a request   *)
(* has the mutex: of no consequence to the page.                           *)
Aside ==
  /\ UNCHANGED <<browser, entries, base>>
  /\ \A r \in Reqs : /\ pc[r] # "idle" => pc'[r] # "idle"
                     /\ pc[r] = "serve" => pc'[r] = "serve"
                     /\ nb'[r].sig = nb[r].sig

LEMMA AsideKeepsPage ==
  ASSUME TypeOK, FreshInv, PageInv, Aside
  PROVE  FreshInv' /\ PageInv'
<1>1. FreshInv'
  BY DEF FreshInv, Aside, browser, Begun
<1>2. PageInv'
  <2> SUFFICES ASSUME ~grown PROVE PageInv'
    BY DEF PageInv, Aside, browser
  <2>1. UNCHANGED <<waiting, imported, page, grown, entries, base>>
    BY DEF Aside, browser
  <2>2. \A r \in waiting :
          /\ r \in Reqs
          /\ pc'[r] # "idle"
          /\ base'[r] \in Outputs(entries)
          /\ pc'[r] # "serve" => nb'[r].sig = entries
    BY <2>1 DEF PageInv, Aside, TypeOK
  <2>3. \A b \in Bases :
          /\ page'[b].status = "got" =>
               page'[b].sig = entries' /\ b \in Outputs(entries')
          /\ page'[b].status # "missing"
    BY <2>1 DEF PageInv, Got
  <2>4. imported' \subseteq entries'
    BY <2>1 DEF PageInv
  <2>5. \A r \in waiting' :
          /\ pc'[r] # "idle"
          /\ base'[r] \in Outputs(entries')
          /\ pc'[r] # "serve" => nb'[r].sig = entries'
    BY <2>1, <2>2
  <2>6. QED
    BY <2>3, <2>4, <2>5 DEF PageInv, Got
<1>3. QED
  BY <1>1, <1>2

LEMMA AsideSteps ==
  ASSUME TypeOK, HandlerInv, [Next]_vars
  PROVE  \/ Aside
         \/ \E e \in Entries : Register(e)
         \/ \E r \in Reqs : Serve(r) \/ Install(r)
         \/ \E r \in Reqs, b \in Bases : Ask(r, b)
         \/ Restart
         \/ Reload
<1> USE DEF TypeOK, Aside, server, cache, sweeper
<1>1. ASSUME NEW r \in Reqs, ReadManifest(r) PROVE Aside
  <2>1. \A q \in Reqs : nb'[q].sig = nb[q].sig
    <3>1. nb[r].sig \in Sigs
      BY DEF Builds
    <3>2. Whole(nb[r].sig).sig = nb[r].sig
      BY <3>1, BuildTypes
    <3>3. QED
      BY <1>1, <3>2 DEF ReadManifest
  <2>2. QED
    BY <1>1, <2>1 DEF ReadManifest, Goto
<1>2. ASSUME NEW r \in Reqs, NEW f \in Bases, ReadFile(r, f) PROVE Aside
  <2>1. \A q \in Reqs : nb'[q].sig = nb[q].sig
    <3>1. nb[r].sig \in Sigs
      BY DEF Builds
    <3>2. NoBuild(nb[r].sig).sig = nb[r].sig
      BY <3>1, BuildTypes
    <3>3. CASE nb' = [nb EXCEPT ![r] = NoBuild(nb[r].sig)]
      BY <3>2, <3>3
    <3>4. CASE nb' = [nb EXCEPT ![r].torn = IF disk[nb[r].sig][f] = "torn"
                                            THEN @ \union {f} ELSE @]
      BY <3>4 DEF Builds
    <3>5. QED
      BY <1>2, <3>3, <3>4 DEF ReadFile
  <2>2. QED
    BY <1>2, <2>1 DEF ReadFile, Goto
<1>3. ASSUME NEW r \in Reqs, Touch(r) PROVE Aside
  BY <1>3 DEF Touch, Goto
<1>4. ASSUME NEW r \in Reqs, Bundle(r) PROVE Aside
  <2>1. \A q \in Reqs : nb'[q].sig = nb[q].sig
    BY <1>4, BuildTypes DEF Bundle, Builds
  <2>2. QED
    BY <1>4, <2>1 DEF Bundle, Goto
<1>5. ASSUME NEW r \in Reqs, BundleError(r) PROVE Aside
  BY <1>5 DEF BundleError, Goto
<1>6. ASSUME NEW r \in Reqs, SaveOpen(r) PROVE Aside
  BY <1>6 DEF SaveOpen
<1>7. ASSUME NEW r \in Reqs, SaveWrite(r) PROVE Aside
  BY <1>7 DEF SaveWrite
<1>8. ASSUME NEW r \in Reqs, SaveFail(r) PROVE Aside
  BY <1>8 DEF SaveFail, Goto
<1>9. ASSUME NEW r \in Reqs, SaveLost(r) \/ SaveDone(r) PROVE Aside
  BY <1>9 DEF SaveLost, SaveDone, Goto
<1>10. CASE Gc
  BY <1>10 DEF Gc, GcStat, GcList, GcUnlink, GcFail, GcRmdir, handler
<1>11. CASE UNCHANGED vars
  BY <1>11 DEF vars, handler
<1>12. QED
  BY <1>1, <1>2, <1>3, <1>4, <1>5, <1>6, <1>7, <1>8, <1>9, <1>10, <1>11
     DEF Next, Handle

(* An import is transformed: the page's first, an entry that is registered *)
(* already, or one that makes the entry set another than the page's.       *)
LEMMA RegisterKeepsPage ==
  ASSUME TypeOK, FreshInv, PageInv, NEW e \in Entries, Register(e)
  PROVE  FreshInv' /\ PageInv'
<1> USE DEF Register, handler
<1>1. FreshInv'
  BY DEF FreshInv, Begun
<1>2. CASE grown'
  BY <1>1, <1>2 DEF PageInv
<1>3. CASE ~grown' /\ Begun
  <2>1. ~grown /\ entries' = entries
    BY <1>3 DEF TypeOK
  <2>2. QED
    BY <1>1, <1>3, <2>1 DEF PageInv, Got
<1>4. CASE ~grown' /\ ~Begun
  <2>1. imported = {} /\ waiting = {} /\ page' = page /\ waiting' = waiting
    BY <1>4 DEF FreshInv, Begun
  <2>2. \A b \in Bases : page[b].status = "unasked"
    BY <1>4 DEF FreshInv
  <2>3. imported' \subseteq entries'
    BY <2>1
  <2>4. PageInv'
    BY <2>1, <2>2, <2>3 DEF PageInv, Got
  <2>5. QED
    BY <1>1, <2>4
<1>5. QED
  BY <1>2, <1>3, <1>4 DEF TypeOK

(* What a page asks for is an entry it imports, or a chunk of the build    *)
(* that it has files of.                                                   *)
LEMMA AskKeepsPage ==
  ASSUME TypeOK, FreshInv, PageInv, NEW r \in Reqs, NEW b \in Bases, Ask(r, b)
  PROVE  FreshInv' /\ PageInv'
<1>1. Begun
  BY Filenames DEF Ask, FreshInv, Got, Begun
<1>2. /\ pc' = [pc EXCEPT ![r] = "serve"]
      /\ base' = [base EXCEPT ![r] = b]
      /\ page' = [page EXCEPT ![b] = Shown("asked")]
      /\ waiting' = waiting \union {r}
      /\ UNCHANGED <<entries, imported, grown, nb>>
  BY DEF Ask, Goto, server
<1>3. FreshInv'
  BY <1>1, <1>2 DEF FreshInv, Begun
<1>4. PageInv'
  <2> SUFFICES ASSUME ~grown
               PROVE  /\ \A c \in Bases :
                           /\ Got(c)' => /\ page'[c].sig = entries
                                         /\ c \in Outputs(entries)
                           /\ page'[c].status # "missing"
                      /\ \A q \in waiting' :
                           /\ pc'[q] # "idle"
                           /\ base'[q] \in Outputs(entries)
                           /\ pc'[q] # "serve" => nb[q].sig = entries
    BY <1>2 DEF PageInv
  <2>1. \A c \in Bases : page'[c] = IF c = b THEN Shown("asked") ELSE page[c]
    BY <1>2 DEF TypeOK
  <2>2. \A c \in Bases : page'[c].status = "got" => c # b /\ Got(c)
    BY <2>1 DEF Shown, Got
  <2>3. \A c \in Bases : page'[c].status # "missing"
    BY <2>1 DEF PageInv, Shown
  <2>4. b \in Outputs(entries)
    <3>1. entries \in Sigs
      BY DEF TypeOK
    <3>2. CASE b \in imported
      BY <3>1, <3>2, Filenames DEF PageInv
    <3>3. ASSUME NEW e \in Entries, Got(e), b \in ImportsOf(e, page[e].sig)
          PROVE  b \in Outputs(entries)
      <4>1. page[e].sig = entries
        BY <3>3, Filenames DEF PageInv
      <4>2. QED
        BY <3>1, <3>3, <4>1, ImportsAreChunks, Filenames
    <3>4. QED
      BY <3>2, <3>3 DEF Ask
  <2>5. ASSUME NEW q \in waiting'
        PROVE  /\ pc'[q] # "idle"
               /\ base'[q] \in Outputs(entries)
               /\ pc'[q] # "serve" => nb[q].sig = entries
    <3>1. CASE q = r
      BY <1>2, <2>4, <3>1 DEF TypeOK
    <3>2. CASE q # r
      <4>1. q \in waiting /\ q \in Reqs
        BY <1>2, <3>2 DEF TypeOK
      <4>2. pc'[q] = pc[q] /\ base'[q] = base[q]
        BY <1>2, <3>2, <4>1 DEF TypeOK
      <4>3. QED
        BY <4>1, <4>2 DEF PageInv
    <3>3. QED
      BY <3>1, <3>2
  <2>6. QED
    BY <2>1, <2>2, <2>3, <2>5 DEF PageInv, Got
<1>5. QED
  BY <1>3, <1>4

(* A build of the page's entry set has what the page waits for.            *)
LEMMA AnswerKeepsPage ==
  ASSUME TypeOK, FreshInv, PageInv, NEW r \in Reqs, NEW n \in Builds,
         Answer(r, n), UNCHANGED entries,
         ~grown /\ r \in waiting => n.sig = entries
  PROVE  FreshInv' /\ PageInv'
<1>1. /\ pc'   = [pc EXCEPT ![r] = "idle"]
      /\ base' = [base EXCEPT ![r] = None]
      /\ nb'   = [nb EXCEPT ![r] = NoBuild({})]
      /\ waiting' = waiting \ {r}
      /\ UNCHANGED <<imported, grown, entries>>
  BY DEF Answer
<1>2. CASE r \notin waiting
  <2>1. page' = page
    BY <1>2 DEF Answer
  <2>2. \A q \in waiting' : /\ q \in waiting /\ q \in Reqs
                            /\ pc'[q] = pc[q]
                            /\ base'[q] = base[q]
                            /\ nb'[q] = nb[q]
    BY <1>1, <1>2 DEF TypeOK
  <2>3. FreshInv'
    BY <1>1, <2>1 DEF FreshInv, Begun
  <2>4. PageInv'
    BY <1>1, <2>1, <2>2 DEF PageInv, Got
  <2>5. QED
    BY <2>3, <2>4
<1>3. CASE r \in waiting
  <2>1. page' = [page EXCEPT ![base[r]] = Outcome(n, base[r])]
    BY <1>3 DEF Answer
  <2>2. Begun
    BY <1>3 DEF FreshInv
  <2>3. FreshInv'
    BY <1>1, <2>2 DEF FreshInv, Begun
  <2>4. CASE ~grown
    <3>1. n.sig = entries /\ base[r] \in Outputs(entries)
      BY <1>3, <2>4 DEF PageInv
    <3>2. /\ Outcome(n, base[r]).status # "missing"
          /\ Outcome(n, base[r]).status = "got" =>
               Outcome(n, base[r]).sig = entries
      <4>1. n.ok \in BOOLEAN
        BY DEF Builds
      <4>2. CASE n.ok
        <5>1. Outcome(n, base[r]) =
                [status |-> "got", sig |-> n.sig, torn |-> base[r] \in n.torn]
          BY <3>1, <4>2 DEF Outcome
        <5>2. QED
          BY <3>1, <5>1
      <4>3. CASE ~n.ok
        <5>1. Outcome(n, base[r]) = Shown("error")
          BY <4>3 DEF Outcome
        <5>2. QED
          BY <5>1 DEF Shown
      <4>4. QED
        BY <4>1, <4>2, <4>3
    <3>3. \A c \in Bases :
            page'[c] = IF c = base[r] THEN Outcome(n, c) ELSE page[c]
      BY <2>1 DEF TypeOK
    <3>4. \A c \in Bases :
            /\ Got(c)' => page'[c].sig = entries /\ c \in Outputs(entries)
            /\ page'[c].status # "missing"
      BY <2>4, <3>1, <3>2, <3>3 DEF PageInv, Got
    <3>5. \A q \in waiting' : /\ q \in waiting /\ q \in Reqs
                              /\ pc'[q] = pc[q]
                              /\ base'[q] = base[q]
                              /\ nb'[q] = nb[q]
      BY <1>1 DEF TypeOK
    <3>6. PageInv'
      BY <1>1, <2>4, <3>4, <3>5 DEF PageInv
    <3>7. QED
      BY <2>3, <3>6
  <2>5. CASE grown
    BY <1>1, <2>3, <2>5 DEF PageInv
  <2>6. QED
    BY <2>4, <2>5 DEF TypeOK
<1>4. QED
  BY <1>2, <1>3

LEMMA ServeKeepsPage ==
  ASSUME TypeOK, HandlerInv, FreshInv, PageInv, NEW r \in Reqs, Serve(r)
  PROVE  FreshInv' /\ PageInv'
<1>1. UNCHANGED entries
  BY DEF Serve, server
<1>2. CASE built # None /\ built.sig = entries /\ Answer(r, built)
  <2>1. built \in Builds
    BY <1>2 DEF TypeOK
  <2>2. QED
    BY <1>1, <1>2, <2>1, AnswerKeepsPage
<1>3. CASE /\ Goto(r, "serve", "manifest")
           /\ nb' = [nb EXCEPT ![r] = NoBuild(entries)]
           /\ UNCHANGED <<base, todo, open, browser>>
  <2>1. FreshInv'
    BY <1>3 DEF FreshInv, browser, Begun
  <2>2. nb'[r].sig = entries
    BY <1>3 DEF TypeOK, NoBuild
  <2>3. \A q \in Reqs : /\ pc[q] # "idle" => pc'[q] # "idle"
                        /\ q # r => pc'[q] = pc[q] /\ nb'[q] = nb[q]
    BY <1>3 DEF TypeOK, Goto
  <2>4. PageInv'
    BY <1>1, <1>3, <2>2, <2>3 DEF PageInv, browser, Got, TypeOK
  <2>5. QED
    BY <2>1, <2>4
<1>4. QED
  BY <1>2, <1>3 DEF Serve

(* What a handler answers with is of the set that it began with, whatever  *)
(* build it finds installed and whichever it replaces.                     *)
LEMMA InstallKeepsPage ==
  ASSUME TypeOK, HandlerInv, FreshInv, PageInv, NEW r \in Reqs, Install(r)
  PROVE  FreshInv' /\ PageInv'
<1>1. PICK n \in Builds : Answer(r, n) /\ n.sig = nb[r].sig
  <2>1. CASE built = None \/ built.sig # nb[r].sig
    BY <2>1 DEF Install, TypeOK
  <2>2. CASE ~(built = None \/ built.sig # nb[r].sig)
    BY <2>2 DEF Install, TypeOK
  <2>3. QED
    BY <2>1, <2>2
<1>2. UNCHANGED entries /\ pc[r] = "install"
  BY DEF Install
<1>3. ~grown /\ r \in waiting => n.sig = entries
  BY <1>1, <1>2 DEF PageInv
<1>4. QED
  BY <1>1, <1>2, <1>3, AnswerKeepsPage

LEMMA RestartKeepsPage ==
  ASSUME TypeOK, FreshInv, PageInv, Restart
  PROVE  FreshInv' /\ PageInv'
<1>1. grown' = Begun /\ imported' = imported /\ waiting' = {}
  BY DEF Restart
<1>2. CASE Begun
  BY <1>1, <1>2 DEF FreshInv, PageInv, Begun
<1>3. CASE ~Begun
  <2>1. \A b \in Bases : page[b].status = "unasked"
    BY <1>3 DEF FreshInv
  <2>2. \A b \in Bases : page'[b] = page[b]
    BY <2>1 DEF Restart
  <2>3. QED
    BY <1>1, <1>3, <2>1, <2>2 DEF FreshInv, PageInv, Begun, Got
<1>4. QED
  BY <1>2, <1>3

LEMMA ReloadKeepsPage ==
  ASSUME Reload
  PROVE  FreshInv' /\ PageInv'
<1>1. \A b \in Bases : page'[b].status = "unasked"
  BY DEF Reload, Shown
<1>2. imported' = {} /\ waiting' = {} /\ grown' = FALSE
  BY DEF Reload
<1>3. QED
  BY <1>1, <1>2 DEF FreshInv, PageInv, Begun, Got

PagesInv == TypeOK /\ HandlerInv /\ FreshInv /\ PageInv

LEMMA PagesInvariant == Spec => []PagesInv
<1>1. Init => PagesInv
  <2> SUFFICES ASSUME Init PROVE FreshInv /\ PageInv
    BY InitTypes DEF PagesInv
  <2>1. \A b \in Bases : page[b].status = "unasked"
    BY DEF Init, Shown
  <2>2. QED
    BY <2>1 DEF Init, FreshInv, PageInv, Begun, Got
<1>2. PagesInv /\ [Next]_vars => PagesInv'
  <2> SUFFICES ASSUME PagesInv, [Next]_vars PROVE PagesInv'
    OBVIOUS
  <2>1. TypeOK' /\ HandlerInv'
    <3>1. CASE Next
      BY <3>1, TypesPreserved DEF PagesInv
    <3>2. CASE UNCHANGED vars
      BY <3>2 DEF PagesInv, TypeOK, HandlerInv, vars, server, cache, sweeper,
         handler, browser
    <3>3. QED
      BY <3>1, <3>2
  <2>2. FreshInv' /\ PageInv'
    BY AsideSteps, AsideKeepsPage, RegisterKeepsPage, AskKeepsPage,
       ServeKeepsPage, InstallKeepsPage, RestartKeepsPage, ReloadKeepsPage
       DEF PagesInv
  <2>3. QED
    BY <2>1, <2>2 DEF PagesInv
<1>3. QED
  BY <1>1, <1>2, PTL DEF Spec

(* A page is told that a file does not exist only after the entry set of   *)
(* its package has changed.                                                *)
THEOREM MissesAreExplained == Spec => []MissesExplained
<1>1. PagesInv => MissesExplained
  BY DEF PagesInv, PageInv, MissesExplained, TypeOK
<1>2. QED
  BY <1>1, PagesInvariant, PTL

(* Two files that a page has got carry a module twice only after the entry *)
(* set of their package has changed.                                       *)
THEOREM ForksAreExplained == Spec => []ForksExplained
<1>1. PagesInv => ForksExplained
  <2> SUFFICES ASSUME PagesInv, NEW b \in Bases, NEW c \in Bases,
                      b # c, Got(b), Got(c), ~grown
               PROVE  Copies(b, c) = {}
    BY DEF ForksExplained
  <2>1. /\ page[b].sig = entries /\ b \in Outputs(entries)
        /\ page[c].sig = entries /\ c \in Outputs(entries)
        /\ entries \in Sigs
    BY DEF PagesInv, PageInv, TypeOK
  <2>2. QED
    BY <2>1, OneCopyPerBuild DEF Copies
<1>2. QED
  BY <1>1, PagesInvariant, PTL

=============================================================================
