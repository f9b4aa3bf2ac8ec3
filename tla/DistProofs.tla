----------------------------- MODULE DistProofs -----------------------------
(***************************************************************************)
(* Proofs about Dist for any number of builds, versions, files and public  *)
(* directories: the types, and the two properties of the site that a build *)
(* leaves behind when it succeeded with no other build writing.            *)
(***************************************************************************)
EXTENDS Dist, TLAPS

(* What a build has still to write, and has open, in each of its phases.   *)
Places == \A b \in Builders :
  /\ pc[b] = "idle" => snap[b] = None /\ todo[b] = {} /\ open[b] = None
  /\ pc[b] # "idle" => snap[b] \in Versions
  /\ pc[b] = "bundle" => /\ todo[b] \subseteq WorkersOf[snap[b]]
                         /\ open[b] \in WorkersOf[snap[b]] \union {None}
  /\ pc[b] = "emit" => /\ todo[b] \subseteq Outputs(snap[b])
                       /\ open[b] \in Outputs(snap[b]) \union {None}
  /\ pc[b] = "public" => open[b] = None
  /\ pc[b] \in {"index", "shell"} => open[b] = None /\ todo[b] = {}
  /\ pc[b] = "html" => /\ shell[b] \in Versions
                       /\ \/ open[b] = None /\ todo[b] = {Index}
                          \/ open[b] = Index /\ todo[b] = {}

(* What it copies: the files of the candidate it has come to.              *)
Copies == \A b \in Builders :
  /\ pc[b] \in {"idle", "bundle", "emit"} => dir[b] = 0 /\ ~copied[b]
  /\ pc[b] = "public" /\ todo[b] # {} =>
       dir[b] \in 1 .. PublicDirs /\ todo[b] \subseteq PublicFiles[dir[b]]
  /\ copied[b] => dir[b] \in 1 .. PublicDirs /\ PublicFiles[dir[b]] # {}

(* No other build is writing while one writes alone.                       *)
Solitude == \A b \in alone :
  Writing(b) /\ \A c \in Builders \ {b} : ~Writing(c)

(* Workers are torn only while or because they were open, and those of a   *)
(* build are there once it has bundled.                                    *)
WorkersKept ==
  /\ \A f \in Workers : dist[f] = Torn =>
       f \in scars \/ \E c \in Builders : open[c] = f
  /\ \A b \in Builders : pc[b] # "idle" =>
       \A f \in WorkersOf[snap[b]] :
         dist[f] = Absent => pc[b] = "bundle" /\ f \in todo[b]

(* Only versions with a stylesheet write one, and it is never removed.     *)
StyleKept ==
  /\ dist[Css] \in Styled \union {Torn, Absent}
  /\ \A b \in Builders : hasCSS[b] => dist[Css] # Absent

(* What a build that writes alone has written is as it wrote it.           *)
OutputsKept == \A b \in alone :
  /\ \A f \in Outputs(snap[b]) :
       dist[f] = snap[b] \/ (pc[b] = "emit" /\ f \in todo[b] \union {open[b]})
  /\ pc[b] \in {"shell", "html"} /\ snap[b] \in Styled => hasCSS[b]

(* The page it has read is of a version the sources have had meanwhile.    *)
ShellKept == \A b \in alone :
  /\ src \in span
  /\ pc[b] = "html" => shell[b] \in span

(* The same of public files: all of the first candidate that has any.      *)
FirstOf(i) == \A j \in 1 .. i - 1 : PublicFiles[j] = {}

PublicKept == \A b \in alone : ~skipped =>
  /\ pc[b] = "public" =>
       \A i \in 1 .. dir[b] : FirstOf(i) =>
         \A f \in PublicFiles[i] : f \in todo[b] \/ dist[f] \in Versions
  /\ pc[b] \in {"index", "shell", "html"} =>
       \A i \in 1 .. PublicDirs : FirstOf(i) =>
         \A f \in PublicFiles[i] : dist[f] \in Versions

(* Nobody has written an output since the last good build.                 *)
Calm == good # None =>
  \A c \in Builders :
    /\ pc[c] \in {"idle", "bundle", "emit"}
    /\ pc[c] = "emit" => open[c] = None /\ todo[c] = Outputs(snap[c])

IInv ==
  /\ TypeOK
  /\ Places /\ Copies
  /\ Solitude
  /\ WorkersKept
  /\ StyleKept
  /\ OutputsKept /\ ShellKept /\ PublicKept
  /\ Calm
  /\ SiteIsWhole /\ StyleExplained

-----------------------------------------------------------------------------
(* What the assumption says of names, and of the kinds of files.           *)
LEMMA Names ==
  /\ Js \in Files /\ Css \in Files /\ Index \in Files
  /\ Js # Css /\ Js # Index /\ Css # Index
  /\ None \notin Files /\ None \notin Versions
  /\ Absent \notin Versions /\ Torn \notin Versions /\ Absent # Torn
  /\ Styled \subseteq Versions /\ PublicDirs \in Nat /\ MaxUpsets \in Nat
BY DistAssumption DEF Files, Fixed

LEMMA Kinds ==
  /\ \A f \in Workers : /\ f \in Files /\ f \notin Public
                       /\ f # Js /\ f # Css /\ f # Index
  /\ \A f \in Public : f \in Files /\ f # Js /\ f # Css /\ f # Index
  /\ \A v \in Versions : \A f \in WorkersOf[v] : f \in Workers /\ f \in Files
  /\ \A i \in 1 .. PublicDirs : \A f \in PublicFiles[i] :
       f \in Public /\ f \in Files
<1>1. Workers \subseteq Hashed
  BY DistAssumption DEF Workers
<1>2. \A v \in Versions : WorkersOf[v] \subseteq Workers
  BY DistAssumption DEF Workers
<1>3. \A i \in 1 .. PublicDirs : PublicFiles[i] \subseteq Public
  BY DEF Public
<1>4. QED
  BY <1>1, <1>2, <1>3, DistAssumption DEF Files, Fixed

LEMMA OutputKinds ==
  ASSUME NEW v \in Versions
  PROVE  /\ \A f \in Outputs(v) : /\ f \in Files /\ f \notin Workers
                                 /\ f \notin Public /\ f # Index
         /\ Js \in Outputs(v)
         /\ Css \in Outputs(v) <=> v \in Styled
         /\ \A f \in ChunksOf[v] : f \in Outputs(v)
<1>1. ChunksOf[v] \subseteq Hashed
  BY DistAssumption
<1>2. ChunksOf[v] \intersect Workers = {}
  BY DistAssumption DEF Workers
<1>3. \A f \in ChunksOf[v] : f \in Files /\ f \notin Fixed /\ f \notin Public
  BY <1>1, DistAssumption DEF Files
<1>4. \A f \in Fixed : f \in Files /\ f \notin Workers /\ f \notin Public
  BY Kinds, DistAssumption DEF Files, Fixed
<1>5. QED
  BY <1>2, <1>3, <1>4, Names DEF Outputs, Fixed

(* Only the last phase has the page open.                                  *)
LEMMA AtPage ==
  ASSUME TypeOK, Places, NEW b \in Builders, open[b] = Index
  PROVE  pc[b] = "html" /\ snap[b] \in Versions /\ shell[b] \in Versions
<1>1. pc[b] \notin {"idle", "public", "index", "shell"}
  BY Names DEF Places
<1>2. pc[b] # "bundle"
  BY Kinds, Names DEF Places
<1>3. pc[b] # "emit"
  BY OutputKinds, Names DEF Places
<1>4. pc[b] \in {"idle", "bundle", "emit", "public", "index", "shell", "html"}
  BY DEF TypeOK
<1>5. QED
  BY <1>1, <1>2, <1>3, <1>4 DEF Places

(* Every step keeps the types.                                             *)
LEMMA Types ==
  ASSUME TypeOK, Places, Copies, [Next]_vars
  PROVE  TypeOK'
<1>1. ASSUME NEW v \in Versions, Edit(v) PROVE TypeOK'
  BY <1>1 DEF Edit, site, builder, history, TypeOK
<1>2. ASSUME NEW b \in Builders, Begin(b) PROVE TypeOK'
  <2>1. WorkersOf[src] \subseteq Files /\ src \in Versions
    BY Kinds DEF TypeOK
  <2>2. QED
    BY <1>2, <2>1 DEF Begin, Goto, site, history, TypeOK
<1>3. ASSUME NEW b \in Builders, CompileFails(b) PROVE TypeOK'
  <2>1. upsets' \in 0 .. MaxUpsets
    BY <1>3, Names DEF CompileFails, Upset, TypeOK
  <2>2. QED
    BY <1>3, <2>1, Names DEF CompileFails, Ends, site, history, TypeOK
<1>4. ASSUME NEW b \in Builders, Bundled(b) PROVE TypeOK'
  <2>1. Outputs(snap[b]) \subseteq Files
    BY <1>4, OutputKinds DEF Bundled, Goto, Places
  <2>2. QED
    BY <1>4, <2>1 DEF Bundled, Goto, site, TypeOK
<1>5. ASSUME NEW b \in Builders, Emitted(b) PROVE TypeOK'
  BY <1>5, Names DEF Emitted, Goto, site, history, TypeOK
<1>6. ASSUME NEW b \in Builders, NextDir(b) PROVE TypeOK'
  <2>1. dir[b] + 1 \in 1 .. PublicDirs
    BY <1>6, Names DEF NextDir, TypeOK
  <2>2. PublicFiles[dir[b] + 1] \subseteq Files
    BY <2>1, Kinds
  <2>3. QED
    BY <1>6, <2>1, <2>2 DEF NextDir, site, history, TypeOK
<1>7. ASSUME NEW b \in Builders, CopyFails(b) PROVE TypeOK'
  <2>1. upsets' \in 0 .. MaxUpsets
    BY <1>7, Names DEF CopyFails, Upset, TypeOK
  <2>2. QED
    BY <1>7, <2>1 DEF CopyFails, site, TypeOK
<1>8. ASSUME NEW b \in Builders, PublicCopied(b) PROVE TypeOK'
  BY <1>8, Names DEF PublicCopied, Goto, site, history, TypeOK
<1>9. ASSUME NEW b \in Builders, StatCSS(b) PROVE TypeOK'
  BY <1>9, Names DEF StatCSS, Goto, site, history, TypeOK
<1>10. ASSUME NEW b \in Builders, ReadShell(b) PROVE TypeOK'
  BY <1>10, Names DEF ReadShell, Goto, site, history, TypeOK
<1>11. ASSUME NEW b \in Builders, WriteFile(b) PROVE TypeOK'
  BY <1>11 DEF WriteFile, TypeOK, Places, Copies
<1>12. ASSUME NEW b \in Builders, WriteIndex(b) PROVE TypeOK'
  BY <1>12, AtPage, Names DEF WriteIndex, Keeps, Ends, TypeOK
<1>13. ASSUME NEW b \in Builders, CutShort(b) PROVE TypeOK'
  <2>1. scars' \subseteq Files
    BY <1>13, Kinds DEF CutShort, TypeOK
  <2>2. upsets' \in 0 .. MaxUpsets
    BY <1>13, DistAssumption DEF CutShort, Upset, TypeOK
  <2>3. QED
    BY <1>13, <2>1, <2>2, Names DEF CutShort, Keeps, Ends, site, TypeOK
<1>14. ASSUME NEW b \in Builders, NEW f \in Files, OpenFile(b, f) PROVE
  TypeOK'
  BY <1>14 DEF OpenFile, Touches, Keeps, TypeOK
<1>15. ASSUME NEW b \in Builders, NEW f \in Files, CopyFile(b, f) PROVE
  TypeOK'
  BY <1>15 DEF CopyFile, Touches, Keeps, TypeOK
<1>16. ASSUME UNCHANGED vars PROVE TypeOK'
  BY <1>16 DEF vars, site, builder, history, TypeOK
<1>17. QED
  BY <1>1, <1>2, <1>3, <1>4, <1>5, <1>6, <1>7, <1>8, <1>9, <1>10,
    <1>11, <1>12, <1>13, <1>14, <1>15, <1>16 DEF Next

(* Every step keeps to the phases.                                         *)
LEMMA PlacesStep ==
  ASSUME TypeOK, Places, [Next]_vars
  PROVE  Places'
<1>1. ASSUME NEW v \in Versions, Edit(v) PROVE Places'
  BY <1>1 DEF Edit, site, builder, history, TypeOK, Places
<1>2. ASSUME NEW b \in Builders, Begin(b) PROVE Places'
  BY <1>2 DEF Begin, Goto, site, history, TypeOK, Places
<1>3. ASSUME NEW b \in Builders, CompileFails(b) PROVE Places'
  BY <1>3 DEF CompileFails, Upset, Ends, site, history, TypeOK, Places
<1>4. ASSUME NEW b \in Builders, Bundled(b) PROVE Places'
  BY <1>4 DEF Bundled, Goto, site, TypeOK, Places
<1>5. ASSUME NEW b \in Builders, Emitted(b) PROVE Places'
  BY <1>5 DEF Emitted, Goto, site, TypeOK, Places
<1>6. ASSUME NEW b \in Builders, NextDir(b) PROVE Places'
  BY <1>6 DEF NextDir, site, history, TypeOK, Places
<1>7. ASSUME NEW b \in Builders, CopyFails(b) PROVE Places'
  BY <1>7 DEF CopyFails, Upset, site, TypeOK, Places
<1>8. ASSUME NEW b \in Builders, PublicCopied(b) PROVE Places'
  BY <1>8 DEF PublicCopied, Goto, site, history, TypeOK, Places
<1>9. ASSUME NEW b \in Builders, StatCSS(b) PROVE Places'
  BY <1>9 DEF StatCSS, Goto, site, history, TypeOK, Places
<1>10. ASSUME NEW b \in Builders, ReadShell(b) PROVE Places'
  BY <1>10 DEF ReadShell, Goto, site, history, TypeOK, Places
<1>11. ASSUME NEW b \in Builders, WriteFile(b) PROVE Places'
  BY <1>11 DEF WriteFile, TypeOK, Places
<1>12. ASSUME NEW b \in Builders, WriteIndex(b) PROVE Places'
  BY <1>12 DEF WriteIndex, Keeps, Ends, TypeOK, Places
<1>13. ASSUME NEW b \in Builders, CutShort(b) PROVE Places'
  BY <1>13 DEF CutShort, Keeps, Upset, Ends, site, TypeOK, Places
<1>14. ASSUME NEW b \in Builders, NEW f \in Files, OpenFile(b, f) PROVE
  Places'
  BY <1>14 DEF OpenFile, Touches, Keeps, TypeOK, Places
<1>15. ASSUME NEW b \in Builders, NEW f \in Files, CopyFile(b, f) PROVE
  Places'
  BY <1>15 DEF CopyFile, Touches, Keeps, TypeOK, Places
<1>16. ASSUME UNCHANGED vars PROVE Places'
  BY <1>16 DEF vars, site, builder, history, TypeOK, Places
<1>17. QED
  BY <1>1, <1>2, <1>3, <1>4, <1>5, <1>6, <1>7, <1>8, <1>9, <1>10,
    <1>11, <1>12, <1>13, <1>14, <1>15, <1>16 DEF Next

(* Every step keeps to the candidates of public files.                     *)
LEMMA CopiesStep ==
  ASSUME TypeOK, Places, Copies, [Next]_vars
  PROVE  Copies'
<1>1. ASSUME NEW v \in Versions, Edit(v) PROVE Copies'
  BY <1>1 DEF Edit, site, builder, history, TypeOK, Copies
<1>2. ASSUME NEW b \in Builders, Begin(b) PROVE Copies'
  BY <1>2 DEF Begin, Goto, site, history, TypeOK, Copies
<1>3. ASSUME NEW b \in Builders, CompileFails(b) PROVE Copies'
  BY <1>3 DEF CompileFails, Upset, Ends, site, history, TypeOK, Copies
<1>4. ASSUME NEW b \in Builders, Bundled(b) PROVE Copies'
  BY <1>4 DEF Bundled, Goto, site, TypeOK, Copies
<1>5. ASSUME NEW b \in Builders, Emitted(b) PROVE Copies'
  BY <1>5 DEF Emitted, Goto, site, TypeOK, Copies
<1>6. ASSUME NEW b \in Builders, NextDir(b) PROVE Copies'
  BY <1>6, Names DEF NextDir, site, history, TypeOK, Copies
<1>7. ASSUME NEW b \in Builders, CopyFails(b) PROVE Copies'
  BY <1>7 DEF CopyFails, Upset, site, TypeOK, Copies
<1>8. ASSUME NEW b \in Builders, PublicCopied(b) PROVE Copies'
  BY <1>8 DEF PublicCopied, Goto, site, history, TypeOK, Copies
<1>9. ASSUME NEW b \in Builders, StatCSS(b) PROVE Copies'
  BY <1>9 DEF StatCSS, Goto, site, history, TypeOK, Copies
<1>10. ASSUME NEW b \in Builders, ReadShell(b) PROVE Copies'
  BY <1>10 DEF ReadShell, Goto, site, history, TypeOK, Copies
<1>11. ASSUME NEW b \in Builders, WriteFile(b) PROVE Copies'
  BY <1>11 DEF WriteFile, TypeOK, Copies
<1>12. ASSUME NEW b \in Builders, WriteIndex(b) PROVE Copies'
  BY <1>12 DEF WriteIndex, Keeps, Ends, TypeOK, Copies
<1>13. ASSUME NEW b \in Builders, CutShort(b) PROVE Copies'
  BY <1>13 DEF CutShort, Keeps, Upset, Ends, site, TypeOK, Copies
<1>14. ASSUME NEW b \in Builders, NEW f \in Files, OpenFile(b, f) PROVE
  Copies'
  BY <1>14 DEF OpenFile, Touches, Keeps, TypeOK, Copies
<1>15. ASSUME NEW b \in Builders, NEW f \in Files, CopyFile(b, f) PROVE
  Copies'
  BY <1>15 DEF CopyFile, Touches, Keeps, TypeOK, Copies
<1>16. ASSUME UNCHANGED vars PROVE Copies'
  BY <1>16 DEF vars, site, builder, history, TypeOK, Copies
<1>17. QED
  BY <1>1, <1>2, <1>3, <1>4, <1>5, <1>6, <1>7, <1>8, <1>9, <1>10,
    <1>11, <1>12, <1>13, <1>14, <1>15, <1>16 DEF Next

(* Every step leaves who writes alone alone.                               *)
LEMMA SolitudeStep ==
  ASSUME TypeOK, Places, Solitude, [Next]_vars
  PROVE  Solitude'
<1>1. ASSUME NEW v \in Versions, Edit(v) PROVE Solitude'
  BY <1>1 DEF Edit, site, builder, history, TypeOK, Places, Solitude,
    Writing
<1>2. ASSUME NEW b \in Builders, Begin(b) PROVE Solitude'
  BY <1>2 DEF Begin, Goto, site, history, TypeOK, Places, Solitude, Writing
<1>3. ASSUME NEW b \in Builders, CompileFails(b) PROVE Solitude'
  BY <1>3 DEF CompileFails, Upset, Ends, site, history, TypeOK, Places,
    Solitude, Writing
<1>4. ASSUME NEW b \in Builders, Bundled(b) PROVE Solitude'
  BY <1>4 DEF Bundled, Goto, site, TypeOK, Places, Solitude, Writing
<1>5. ASSUME NEW b \in Builders, Emitted(b) PROVE Solitude'
  BY <1>5 DEF Emitted, Goto, site, TypeOK, Places, Solitude, Writing
<1>6. ASSUME NEW b \in Builders, NextDir(b) PROVE Solitude'
  BY <1>6 DEF NextDir, site, history, TypeOK, Places, Solitude, Writing
<1>7. ASSUME NEW b \in Builders, CopyFails(b) PROVE Solitude'
  BY <1>7 DEF CopyFails, Upset, site, TypeOK, Places, Solitude, Writing
<1>8. ASSUME NEW b \in Builders, PublicCopied(b) PROVE Solitude'
  BY <1>8 DEF PublicCopied, Goto, site, history, TypeOK, Places, Solitude,
    Writing
<1>9. ASSUME NEW b \in Builders, StatCSS(b) PROVE Solitude'
  BY <1>9 DEF StatCSS, Goto, site, history, TypeOK, Places, Solitude,
    Writing
<1>10. ASSUME NEW b \in Builders, ReadShell(b) PROVE Solitude'
  BY <1>10 DEF ReadShell, Goto, site, history, TypeOK, Places, Solitude,
    Writing
<1>11. ASSUME NEW b \in Builders, WriteFile(b) PROVE Solitude'
  BY <1>11 DEF WriteFile, TypeOK, Places, Solitude, Writing
<1>12. ASSUME NEW b \in Builders, WriteIndex(b) PROVE Solitude'
  BY <1>12 DEF WriteIndex, Keeps, Ends, TypeOK, Solitude
<1>13. ASSUME NEW b \in Builders, CutShort(b) PROVE Solitude'
  BY <1>13 DEF CutShort, Keeps, Upset, Ends, site, TypeOK, Places, Solitude,
    Writing
<1>14. ASSUME NEW b \in Builders, NEW f \in Files, OpenFile(b, f) PROVE
  Solitude'
  BY <1>14 DEF OpenFile, Touches, Keeps, TypeOK, Places, Solitude, Writing
<1>15. ASSUME NEW b \in Builders, NEW f \in Files, CopyFile(b, f) PROVE
  Solitude'
  BY <1>15 DEF CopyFile, Touches, Keeps, TypeOK, Places, Solitude, Writing
<1>16. ASSUME UNCHANGED vars PROVE Solitude'
  BY <1>16 DEF vars, site, builder, history, TypeOK, Solitude, Writing
<1>17. QED
  BY <1>1, <1>2, <1>3, <1>4, <1>5, <1>6, <1>7, <1>8, <1>9, <1>10,
    <1>11, <1>12, <1>13, <1>14, <1>15, <1>16 DEF Next

(* Every step keeps the workers.                                           *)
LEMMA WorkersStep ==
  ASSUME TypeOK, Places, WorkersKept, [Next]_vars
  PROVE  WorkersKept'
<1>1. ASSUME NEW v \in Versions, Edit(v) PROVE WorkersKept'
  BY <1>1 DEF Edit, site, builder, history, TypeOK, WorkersKept
<1>2. ASSUME NEW b \in Builders, Begin(b) PROVE WorkersKept'
  BY <1>2 DEF Begin, Goto, site, history, TypeOK, WorkersKept
<1>3. ASSUME NEW b \in Builders, CompileFails(b) PROVE WorkersKept'
  BY <1>3 DEF CompileFails, Upset, Ends, site, history, TypeOK, WorkersKept
<1>4. ASSUME NEW b \in Builders, Bundled(b) PROVE WorkersKept'
  BY <1>4 DEF Bundled, Goto, site, TypeOK, WorkersKept
<1>5. ASSUME NEW b \in Builders, Emitted(b) PROVE WorkersKept'
  BY <1>5 DEF Emitted, Goto, site, TypeOK, WorkersKept
<1>6. ASSUME NEW b \in Builders, NextDir(b) PROVE WorkersKept'
  BY <1>6 DEF NextDir, site, history, TypeOK, WorkersKept
<1>7. ASSUME NEW b \in Builders, CopyFails(b) PROVE WorkersKept'
  BY <1>7 DEF CopyFails, Upset, site, TypeOK, WorkersKept
<1>8. ASSUME NEW b \in Builders, PublicCopied(b) PROVE WorkersKept'
  BY <1>8 DEF PublicCopied, Goto, site, history, TypeOK, WorkersKept
<1>9. ASSUME NEW b \in Builders, StatCSS(b) PROVE WorkersKept'
  BY <1>9 DEF StatCSS, Goto, site, history, TypeOK, WorkersKept
<1>10. ASSUME NEW b \in Builders, ReadShell(b) PROVE WorkersKept'
  BY <1>10 DEF ReadShell, Goto, site, history, TypeOK, WorkersKept
<1>11. ASSUME NEW b \in Builders, WriteFile(b) PROVE WorkersKept'
  BY <1>11, Names DEF WriteFile, TypeOK, Places, WorkersKept
<1>12. ASSUME NEW b \in Builders, WriteIndex(b) PROVE WorkersKept'
  BY <1>12, AtPage, Names DEF WriteIndex, Keeps, Ends, TypeOK, Places, WorkersKept
<1>13. ASSUME NEW b \in Builders, CutShort(b) PROVE WorkersKept'
  BY <1>13 DEF CutShort, Keeps, Upset, Ends, site, TypeOK, WorkersKept
<1>14. ASSUME NEW b \in Builders, NEW f \in Files, OpenFile(b, f) PROVE
  WorkersKept'
  BY <1>14, Names, Kinds DEF OpenFile, Touches, Keeps, TypeOK, WorkersKept
<1>15. ASSUME NEW b \in Builders, NEW f \in Files, CopyFile(b, f) PROVE
  WorkersKept'
  BY <1>15, Names DEF CopyFile, Touches, Keeps, TypeOK, WorkersKept
<1>16. ASSUME UNCHANGED vars PROVE WorkersKept'
  BY <1>16 DEF vars, site, builder, history, TypeOK, WorkersKept
<1>17. QED
  BY <1>1, <1>2, <1>3, <1>4, <1>5, <1>6, <1>7, <1>8, <1>9, <1>10,
    <1>11, <1>12, <1>13, <1>14, <1>15, <1>16 DEF Next

(* Every step keeps the stylesheet.                                        *)
LEMMA StyleStep ==
  ASSUME TypeOK, Places, Copies, StyleKept, [Next]_vars
  PROVE  StyleKept'
<1>1. ASSUME NEW v \in Versions, Edit(v) PROVE StyleKept'
  BY <1>1 DEF Edit, site, builder, history, TypeOK, StyleKept
<1>2. ASSUME NEW b \in Builders, Begin(b) PROVE StyleKept'
  BY <1>2 DEF Begin, Goto, site, history, TypeOK, StyleKept
<1>3. ASSUME NEW b \in Builders, CompileFails(b) PROVE StyleKept'
  BY <1>3 DEF CompileFails, Upset, Ends, site, history, TypeOK, StyleKept
<1>4. ASSUME NEW b \in Builders, Bundled(b) PROVE StyleKept'
  BY <1>4 DEF Bundled, Goto, site, TypeOK, StyleKept
<1>5. ASSUME NEW b \in Builders, Emitted(b) PROVE StyleKept'
  BY <1>5 DEF Emitted, Goto, site, TypeOK, StyleKept
<1>6. ASSUME NEW b \in Builders, NextDir(b) PROVE StyleKept'
  BY <1>6 DEF NextDir, site, history, TypeOK, StyleKept
<1>7. ASSUME NEW b \in Builders, CopyFails(b) PROVE StyleKept'
  BY <1>7 DEF CopyFails, Upset, site, TypeOK, StyleKept
<1>8. ASSUME NEW b \in Builders, PublicCopied(b) PROVE StyleKept'
  BY <1>8 DEF PublicCopied, Goto, site, history, TypeOK, StyleKept
<1>9. ASSUME NEW b \in Builders, StatCSS(b) PROVE StyleKept'
  BY <1>9 DEF StatCSS, Goto, site, history, TypeOK, StyleKept
<1>10. ASSUME NEW b \in Builders, ReadShell(b) PROVE StyleKept'
  BY <1>10 DEF ReadShell, Goto, site, history, TypeOK, StyleKept
<1>11. ASSUME NEW b \in Builders, WriteFile(b) PROVE StyleKept'
  <2>1. open[b] = Css => snap[b] \in Styled
    <3>1. open[b] = Css => pc[b] # "bundle" /\ snap[b] \in Versions
      BY <1>11, Kinds, Names DEF WriteFile, Places
    <3>2. open[b] = Css => Css \in Outputs(snap[b])
      BY <1>11, <3>1, Names DEF WriteFile, Places, TypeOK
    <3>3. QED
      BY <3>1, <3>2, OutputKinds
  <2>2. snap[b] # Absent
    BY <1>11, Names DEF WriteFile, Places, TypeOK
  <2>3. QED
    BY <1>11, <2>1, <2>2 DEF WriteFile, TypeOK, StyleKept
<1>12. ASSUME NEW b \in Builders, WriteIndex(b) PROVE StyleKept'
  BY <1>12, Names DEF WriteIndex, Keeps, Ends, TypeOK, StyleKept
<1>13. ASSUME NEW b \in Builders, CutShort(b) PROVE StyleKept'
  BY <1>13 DEF CutShort, Keeps, Upset, Ends, site, TypeOK, StyleKept
<1>14. ASSUME NEW b \in Builders, NEW f \in Files, OpenFile(b, f) PROVE
  StyleKept'
  BY <1>14, Names DEF OpenFile, Touches, Keeps, TypeOK, StyleKept
<1>15. ASSUME NEW b \in Builders, NEW f \in Files, CopyFile(b, f) PROVE
  StyleKept'
  <2>1. f # Css
    BY <1>15, Kinds DEF CopyFile, Copies
  <2>2. QED
    BY <1>15, <2>1 DEF CopyFile, TypeOK, StyleKept
<1>16. ASSUME UNCHANGED vars PROVE StyleKept'
  BY <1>16 DEF vars, site, builder, history, TypeOK, StyleKept
<1>17. QED
  BY <1>1, <1>2, <1>3, <1>4, <1>5, <1>6, <1>7, <1>8, <1>9, <1>10,
    <1>11, <1>12, <1>13, <1>14, <1>15, <1>16 DEF Next

(* Every step keeps the outputs of who writes alone.                       *)
LEMMA OutputsStep ==
  ASSUME TypeOK, Places, Copies, Solitude, OutputsKept, [Next]_vars
  PROVE  OutputsKept'
<1>1. ASSUME NEW v \in Versions, Edit(v) PROVE OutputsKept'
  BY <1>1 DEF Edit, site, builder, history, TypeOK, OutputsKept
<1>2. ASSUME NEW b \in Builders, Begin(b) PROVE OutputsKept'
  BY <1>2 DEF Begin, Goto, site, history, TypeOK, Places, Solitude, Writing,
    OutputsKept
<1>3. ASSUME NEW b \in Builders, CompileFails(b) PROVE OutputsKept'
  BY <1>3 DEF CompileFails, Upset, Ends, site, history, TypeOK, Places,
    Solitude, Writing, OutputsKept
<1>4. ASSUME NEW b \in Builders, Bundled(b) PROVE OutputsKept'
  BY <1>4 DEF Bundled, Goto, site, TypeOK, OutputsKept
<1>5. ASSUME NEW b \in Builders, Emitted(b) PROVE OutputsKept'
  <2>1. \A c \in alone : c = b => \A f \in Outputs(snap[c]) : dist[f] = snap[c]
    <3>1. pc[b] = "emit" => snap[b] \in Versions
      BY DEF Places
    <3>2. pc[b] = "emit" /\ todo[b] = {} /\ open[b] = None
      BY <1>5 DEF Emitted, Goto
    <3>3. \A f \in Outputs(snap[b]) : f # None
      BY <3>1, <3>2, OutputKinds, Names
    <3>4. QED
      BY <3>2, <3>3 DEF OutputsKept
  <2>2. QED
    BY <1>5, <2>1 DEF Emitted, Goto, site, TypeOK, OutputsKept
<1>6. ASSUME NEW b \in Builders, NextDir(b) PROVE OutputsKept'
  BY <1>6 DEF NextDir, site, history, TypeOK, OutputsKept
<1>7. ASSUME NEW b \in Builders, CopyFails(b) PROVE OutputsKept'
  BY <1>7 DEF CopyFails, Upset, site, TypeOK, OutputsKept
<1>8. ASSUME NEW b \in Builders, PublicCopied(b) PROVE OutputsKept'
  BY <1>8 DEF PublicCopied, Goto, site, history, TypeOK, OutputsKept
<1>9. ASSUME NEW b \in Builders, StatCSS(b) PROVE OutputsKept'
  <2>1. b \in alone /\ snap[b] \in Styled => dist[Css] # Absent
    BY <1>9, Names, OutputKinds DEF StatCSS, Goto, OutputsKept, Places
  <2>2. QED
    BY <1>9, <2>1 DEF StatCSS, Goto, site, history, TypeOK, OutputsKept
<1>10. ASSUME NEW b \in Builders, ReadShell(b) PROVE OutputsKept'
  BY <1>10 DEF ReadShell, Goto, site, history, TypeOK, OutputsKept
<1>11. ASSUME NEW b \in Builders, WriteFile(b) PROVE OutputsKept'
  <2>1. SUFFICES ASSUME NEW c \in alone
        PROVE  /\ \A f \in Outputs(snap[c]) :
                    \/ dist'[f] = snap[c]
                    \/ pc[c] = "emit" /\ f \in todo[c] \union {open'[c]}
               /\ pc[c] \in {"shell", "html"} /\ snap[c] \in Styled =>
                    hasCSS[c]
    BY <1>11 DEF WriteFile, OutputsKept
  <2>2. CASE c = b
    <3>1. dist' = [dist EXCEPT ![open[b]] = snap[b]] /\ open[b] \in Files
      BY <1>11 DEF WriteFile, TypeOK
    <3>2. QED
      BY <2>2, <3>1, <1>11 DEF WriteFile, TypeOK, OutputsKept
  <2>3. CASE c # b
    <3>1. open[b] \in Workers /\ snap[c] \in Versions
      BY <2>3, <1>11, Kinds DEF WriteFile, TypeOK, Places, Solitude, Writing
    <3>2. open[b] \notin Outputs(snap[c])
      BY <3>1, OutputKinds
    <3>3. QED
      BY <2>3, <3>2, <1>11 DEF WriteFile, TypeOK, OutputsKept
  <2>4. QED
    BY <2>2, <2>3
<1>12. ASSUME NEW b \in Builders, WriteIndex(b) PROVE OutputsKept'
  BY <1>12 DEF WriteIndex, Keeps, Ends, TypeOK, OutputsKept
<1>13. ASSUME NEW b \in Builders, CutShort(b) PROVE OutputsKept'
  BY <1>13 DEF CutShort, Keeps, Upset, Ends, site, TypeOK, OutputsKept
<1>14. ASSUME NEW b \in Builders, NEW f \in Files, OpenFile(b, f) PROVE
  OutputsKept'
  <2>1. SUFFICES ASSUME NEW c \in alone, c \in alone'
        PROVE  /\ \A g \in Outputs(snap[c]) :
                    \/ dist'[g] = snap[c]
                    \/ pc[c] = "emit" /\ g \in todo'[c] \union {open'[c]}
               /\ pc[c] \in {"shell", "html"} /\ snap[c] \in Styled =>
                    hasCSS[c]
    BY <1>14 DEF OpenFile, Touches, Keeps, OutputsKept
  <2>2. CASE pc[b] = "bundle"
    <3>1. f \in Workers /\ c # b /\ snap[c] \in Versions
      BY <2>2, <1>14, Kinds DEF OpenFile, TypeOK, Places, Solitude, Writing
    <3>2. f \notin Outputs(snap[c])
      BY <3>1, OutputKinds
    <3>3. QED
      BY <2>2, <3>1, <3>2, <1>14 DEF OpenFile, TypeOK, OutputsKept
  <2>3. CASE pc[b] # "bundle"
    <3>1. c = b /\ snap[c] \in Versions
      BY <2>1, <2>3, <1>14 DEF OpenFile, Touches, Keeps, Places, TypeOK
    <3>2. pc[b] = "html" => f \notin Outputs(snap[c])
      BY <3>1, <1>14, OutputKinds, Names DEF OpenFile, Places
    <3>3. \A g \in Outputs(snap[c]) : g # None
      BY <3>1, OutputKinds, Names
    <3>4. QED
      BY <2>3, <3>1, <3>2, <3>3, <1>14 DEF OpenFile, TypeOK, OutputsKept
  <2>4. QED
    BY <2>2, <2>3
<1>15. ASSUME NEW b \in Builders, NEW f \in Files, CopyFile(b, f) PROVE
  OutputsKept'
  <2>1. f \in Public
    BY <1>15, Kinds DEF CopyFile, Copies
  <2>2. \A c \in alone' : c = b /\ c \in alone /\ snap[c] \in Versions
    BY <1>15 DEF CopyFile, Touches, Keeps, Places, TypeOK
  <2>3. \A c \in alone' : f \notin Outputs(snap[c])
    BY <2>1, <2>2, OutputKinds
  <2>4. QED
    BY <1>15, <2>2, <2>3 DEF CopyFile, TypeOK, OutputsKept
<1>16. ASSUME UNCHANGED vars PROVE OutputsKept'
  BY <1>16 DEF vars, site, builder, history, TypeOK, Writing, OutputsKept
<1>17. QED
  BY <1>1, <1>2, <1>3, <1>4, <1>5, <1>6, <1>7, <1>8, <1>9, <1>10,
    <1>11, <1>12, <1>13, <1>14, <1>15, <1>16 DEF Next

(* Every step keeps what is known of the page.                             *)
LEMMA ShellStep ==
  ASSUME TypeOK, ShellKept, [Next]_vars
  PROVE  ShellKept'
<1>1. ASSUME NEW v \in Versions, Edit(v) PROVE ShellKept'
  BY <1>1 DEF Edit, builder, TypeOK, ShellKept
<1>2. ASSUME NEW b \in Builders, Begin(b) PROVE ShellKept'
  BY <1>2 DEF Begin, Goto, history, TypeOK, ShellKept
<1>3. ASSUME NEW b \in Builders, CompileFails(b) PROVE ShellKept'
  BY <1>3 DEF CompileFails, Ends, history, TypeOK, ShellKept
<1>4. ASSUME NEW b \in Builders, Bundled(b) PROVE ShellKept'
  BY <1>4 DEF Bundled, Goto, TypeOK, ShellKept
<1>5. ASSUME NEW b \in Builders, Emitted(b) PROVE ShellKept'
  BY <1>5 DEF Emitted, Goto, TypeOK, ShellKept
<1>6. ASSUME NEW b \in Builders, NextDir(b) PROVE ShellKept'
  BY <1>6 DEF NextDir, history, TypeOK, ShellKept
<1>7. ASSUME NEW b \in Builders, CopyFails(b) PROVE ShellKept'
  BY <1>7 DEF CopyFails, TypeOK, ShellKept
<1>8. ASSUME NEW b \in Builders, PublicCopied(b) PROVE ShellKept'
  BY <1>8 DEF PublicCopied, Goto, history, TypeOK, ShellKept
<1>9. ASSUME NEW b \in Builders, StatCSS(b) PROVE ShellKept'
  BY <1>9 DEF StatCSS, Goto, history, TypeOK, ShellKept
<1>10. ASSUME NEW b \in Builders, ReadShell(b) PROVE ShellKept'
  BY <1>10 DEF ReadShell, Goto, history, TypeOK, ShellKept
<1>11. ASSUME NEW b \in Builders, WriteFile(b) PROVE ShellKept'
  BY <1>11 DEF WriteFile, TypeOK, ShellKept
<1>12. ASSUME NEW b \in Builders, WriteIndex(b) PROVE ShellKept'
  BY <1>12 DEF WriteIndex, Keeps, TypeOK, ShellKept
<1>13. ASSUME NEW b \in Builders, CutShort(b) PROVE ShellKept'
  BY <1>13 DEF CutShort, Keeps, Ends, TypeOK, ShellKept
<1>14. ASSUME NEW b \in Builders, NEW f \in Files, OpenFile(b, f) PROVE
  ShellKept'
  BY <1>14 DEF OpenFile, Touches, Keeps, TypeOK, ShellKept
<1>15. ASSUME NEW b \in Builders, NEW f \in Files, CopyFile(b, f) PROVE
  ShellKept'
  BY <1>15 DEF CopyFile, Touches, Keeps, TypeOK, ShellKept
<1>16. ASSUME UNCHANGED vars PROVE ShellKept'
  BY <1>16 DEF vars, builder, history, ShellKept
<1>17. QED
  BY <1>1, <1>2, <1>3, <1>4, <1>5, <1>6, <1>7, <1>8, <1>9, <1>10,
    <1>11, <1>12, <1>13, <1>14, <1>15, <1>16 DEF Next

(* Every step keeps the public files of who writes alone.                  *)
LEMMA PublicStep ==
  ASSUME TypeOK, Places, Copies, Solitude, PublicKept, [Next]_vars
  PROVE  PublicKept'
<1>1. ASSUME NEW v \in Versions, Edit(v) PROVE PublicKept'
  BY <1>1 DEF Edit, site, builder, history, TypeOK, PublicKept, FirstOf
<1>2. ASSUME NEW b \in Builders, Begin(b) PROVE PublicKept'
  BY <1>2 DEF Begin, Goto, site, history, TypeOK, PublicKept, FirstOf
<1>3. ASSUME NEW b \in Builders, CompileFails(b) PROVE PublicKept'
  BY <1>3 DEF CompileFails, Upset, Ends, site, history, TypeOK, PublicKept,
    FirstOf
<1>4. ASSUME NEW b \in Builders, Bundled(b) PROVE PublicKept'
  BY <1>4 DEF Bundled, Goto, site, TypeOK, PublicKept, FirstOf
<1>5. ASSUME NEW b \in Builders, Emitted(b) PROVE PublicKept'
  BY <1>5 DEF Emitted, Goto, site, TypeOK, Places, Copies, Solitude,
    Writing, PublicKept, FirstOf
<1>6. ASSUME NEW b \in Builders, NextDir(b) PROVE PublicKept'
  <2>1. SUFFICES ASSUME NEW c \in alone, c = b, ~skipped,
                        NEW i \in 1 .. dir'[b], FirstOf(i),
                        NEW f \in PublicFiles[i]
        PROVE  f \in todo'[b] \/ dist[f] \in Versions
    BY <1>6 DEF NextDir, site, history, TypeOK, PublicKept, FirstOf
  <2>2. dir[b] \in Nat /\ dir'[b] = dir[b] + 1 /\ todo[b] = {}
        /\ todo'[b] = PublicFiles[dir[b] + 1]
    BY <1>6 DEF NextDir, TypeOK
  <2>3. CASE i = dir[b] + 1
    BY <2>2, <2>3
  <2>4. CASE i # dir[b] + 1
    <3>1. i \in 1 .. dir[b]
      BY <2>2, <2>4
    <3>2. QED
      BY <1>6, <2>1, <2>2, <3>1 DEF NextDir, PublicKept
  <2>5. QED
    BY <2>3, <2>4
<1>7. ASSUME NEW b \in Builders, CopyFails(b) PROVE PublicKept'
  BY <1>7 DEF CopyFails, Upset, site, TypeOK, PublicKept, FirstOf
<1>8. ASSUME NEW b \in Builders, PublicCopied(b) PROVE PublicKept'
  BY <1>8 DEF PublicCopied, Goto, site, history, TypeOK, Places, Copies,
    Solitude, Writing, PublicKept, FirstOf
<1>9. ASSUME NEW b \in Builders, StatCSS(b) PROVE PublicKept'
  BY <1>9 DEF StatCSS, Goto, site, history, TypeOK, PublicKept, FirstOf
<1>10. ASSUME NEW b \in Builders, ReadShell(b) PROVE PublicKept'
  BY <1>10 DEF ReadShell, Goto, site, history, TypeOK, PublicKept, FirstOf
<1>11. ASSUME NEW b \in Builders, WriteFile(b) PROVE PublicKept'
  BY <1>11 DEF WriteFile, TypeOK, Places, Copies, Solitude, Writing,
    PublicKept, FirstOf
<1>12. ASSUME NEW b \in Builders, WriteIndex(b) PROVE PublicKept'
  BY <1>12 DEF WriteIndex, Keeps, Ends, TypeOK, PublicKept, FirstOf
<1>13. ASSUME NEW b \in Builders, CutShort(b) PROVE PublicKept'
  BY <1>13 DEF CutShort, Keeps, Upset, Ends, site, TypeOK, PublicKept, FirstOf
<1>14. ASSUME NEW b \in Builders, NEW f \in Files, OpenFile(b, f) PROVE
  PublicKept'
  <2>1. f \notin Public
    <3>1. pc[b] = "bundle" => f \in Workers
      BY <1>14, Kinds DEF OpenFile, Places
    <3>2. pc[b] = "emit" => f \in Outputs(snap[b]) /\ snap[b] \in Versions
      BY <1>14 DEF OpenFile, Places
    <3>3. pc[b] = "html" => f = Index
      BY <1>14 DEF OpenFile, Places
    <3>4. QED
      BY <1>14, <3>1, <3>2, <3>3, Kinds, OutputKinds DEF OpenFile
  <2>2. \A i \in 1 .. PublicDirs : f \notin PublicFiles[i]
    BY <2>1, Kinds
  <2>3. alone' \subseteq alone
    BY <1>14 DEF OpenFile, Touches, Keeps
  <2>4. \A c \in Builders : dir[c] \in 0 .. PublicDirs
    BY DEF TypeOK
  <2>5. \A c \in Builders : pc[c] = "public" => todo'[c] = todo[c]
    BY <1>14 DEF OpenFile, TypeOK
  <2>6. \A i \in 1 .. PublicDirs : \A g \in PublicFiles[i] :
          dist'[g] = dist[g]
    BY <1>14, <2>2 DEF OpenFile, TypeOK
  <2>7. alone \subseteq Builders /\ PublicDirs \in Nat
    BY Names DEF TypeOK
  <2>8. QED
    BY <1>14, <2>3, <2>4, <2>5, <2>6, <2>7 DEF OpenFile, PublicKept, FirstOf
<1>15. ASSUME NEW b \in Builders, NEW f \in Files, CopyFile(b, f) PROVE
  PublicKept'
  BY <1>15 DEF CopyFile, Touches, Keeps, TypeOK, PublicKept, FirstOf
<1>16. ASSUME UNCHANGED vars PROVE PublicKept'
  BY <1>16 DEF vars, site, builder, history, TypeOK, Writing, PublicKept,
    FirstOf
<1>17. QED
  BY <1>1, <1>2, <1>3, <1>4, <1>5, <1>6, <1>7, <1>8, <1>9, <1>10,
    <1>11, <1>12, <1>13, <1>14, <1>15, <1>16 DEF Next

(* Whoever writes after a good build ends its reign first.                 *)
LEMMA CalmStep ==
  ASSUME TypeOK, Places, Solitude, Calm, [Next]_vars
  PROVE  Calm'
<1>1. ASSUME NEW v \in Versions, Edit(v) PROVE Calm'
  BY <1>1 DEF Edit, site, builder, history, TypeOK, Calm
<1>2. ASSUME NEW b \in Builders, Begin(b) PROVE Calm'
  BY <1>2 DEF Begin, Goto, site, history, TypeOK, Calm
<1>3. ASSUME NEW b \in Builders, CompileFails(b) PROVE Calm'
  BY <1>3 DEF CompileFails, Upset, Ends, site, history, TypeOK, Calm
<1>4. ASSUME NEW b \in Builders, Bundled(b) PROVE Calm'
  BY <1>4 DEF Bundled, Goto, site, TypeOK, Calm
<1>5. ASSUME NEW b \in Builders, Emitted(b) PROVE Calm'
  <2>1. good = None
    BY <1>5, OutputKinds DEF Emitted, Goto, Places, Calm
  <2>2. QED
    BY <1>5, <2>1 DEF Emitted, Calm
<1>6. ASSUME NEW b \in Builders, NextDir(b) PROVE Calm'
  BY <1>6 DEF NextDir, site, history, TypeOK, Calm
<1>7. ASSUME NEW b \in Builders, CopyFails(b) PROVE Calm'
  BY <1>7 DEF CopyFails, Upset, site, TypeOK, Calm
<1>8. ASSUME NEW b \in Builders, PublicCopied(b) PROVE Calm'
  BY <1>8 DEF PublicCopied, Goto, site, history, TypeOK, Calm
<1>9. ASSUME NEW b \in Builders, StatCSS(b) PROVE Calm'
  BY <1>9 DEF StatCSS, Goto, site, history, TypeOK, Calm
<1>10. ASSUME NEW b \in Builders, ReadShell(b) PROVE Calm'
  BY <1>10 DEF ReadShell, Goto, site, history, TypeOK, Calm
<1>11. ASSUME NEW b \in Builders, WriteFile(b) PROVE Calm'
  BY <1>11 DEF WriteFile, TypeOK, Calm
<1>12. ASSUME NEW b \in Builders, WriteIndex(b) PROVE Calm'
  BY <1>12 DEF WriteIndex, Keeps, Ends, TypeOK, Places, Solitude, Writing, Calm
<1>13. ASSUME NEW b \in Builders, CutShort(b) PROVE Calm'
  BY <1>13 DEF CutShort, Keeps, Upset, Ends, site, TypeOK, Calm
<1>14. ASSUME NEW b \in Builders, NEW f \in Files, OpenFile(b, f) PROVE
  Calm'
  BY <1>14 DEF OpenFile, Touches, Keeps, TypeOK, Calm
<1>15. ASSUME NEW b \in Builders, NEW f \in Files, CopyFile(b, f) PROVE
  Calm'
  BY <1>15 DEF CopyFile, Touches, Keeps, TypeOK, Calm
<1>16. ASSUME UNCHANGED vars PROVE Calm'
  BY <1>16 DEF vars, site, builder, history, TypeOK, Writing, Calm
<1>17. QED
  BY <1>1, <1>2, <1>3, <1>4, <1>5, <1>6, <1>7, <1>8, <1>9, <1>10,
    <1>11, <1>12, <1>13, <1>14, <1>15, <1>16 DEF Next

(* Every step keeps the site of the last good build whole.                 *)
LEMMA WholeStep ==
  ASSUME IInv, [Next]_vars
  PROVE  SiteIsWhole'
<1>1. ASSUME NEW v \in Versions, Edit(v) PROVE SiteIsWhole'
  BY <1>1 DEF Edit, builder, site, history, IInv, SiteIsWhole
<1>2. ASSUME NEW b \in Builders, Begin(b) PROVE SiteIsWhole'
  BY <1>2 DEF Begin, Goto, site, history, IInv, SiteIsWhole
<1>3. ASSUME NEW b \in Builders, CompileFails(b) PROVE SiteIsWhole'
  <2>1. \A c \in Builders : open'[c] = open[c]
    BY <1>3 DEF CompileFails, Ends, IInv, TypeOK
  <2>2. QED
    BY <1>3, <2>1 DEF CompileFails, site, history, IInv, SiteIsWhole
<1>4. ASSUME NEW b \in Builders, Bundled(b) PROVE SiteIsWhole'
  BY <1>4 DEF Bundled, Goto, site, history, IInv, SiteIsWhole
<1>5. ASSUME NEW b \in Builders, Emitted(b) PROVE SiteIsWhole'
  <2>1. good = None
    BY <1>5, OutputKinds DEF Emitted, Goto, IInv, Places, Calm
  <2>2. QED
    BY <1>5, <2>1 DEF Emitted, IInv, SiteIsWhole
<1>6. ASSUME NEW b \in Builders, NextDir(b) PROVE SiteIsWhole'
  BY <1>6 DEF NextDir, history, site, history, IInv, SiteIsWhole
<1>7. ASSUME NEW b \in Builders, CopyFails(b) PROVE SiteIsWhole'
  <2>1. good = None
    BY <1>7 DEF CopyFails, IInv, Calm
  <2>2. QED
    BY <1>7, <2>1 DEF CopyFails, IInv, SiteIsWhole
<1>8. ASSUME NEW b \in Builders, PublicCopied(b) PROVE SiteIsWhole'
  BY <1>8 DEF PublicCopied, Goto, history, site, history, IInv, SiteIsWhole
<1>9. ASSUME NEW b \in Builders, StatCSS(b) PROVE SiteIsWhole'
  BY <1>9 DEF StatCSS, Goto, history, site, history, IInv, SiteIsWhole
<1>10. ASSUME NEW b \in Builders, ReadShell(b) PROVE SiteIsWhole'
  BY <1>10 DEF ReadShell, Goto, history, site, history, IInv, SiteIsWhole
<1>11. ASSUME NEW b \in Builders, WriteFile(b) PROVE SiteIsWhole'
  <2>1. SUFFICES ASSUME good # None
        PROVE  SiteIsWhole'
    BY <1>11 DEF WriteFile, SiteIsWhole
  <2>2. pc[b] = "bundle" /\ open[b] \in Workers /\ snap[b] \in Versions
    BY <1>11, <2>1, Kinds, Names DEF WriteFile, IInv, Places, Calm
  <2>3. /\ open[b] \in Files /\ open[b] # Js /\ open[b] # Index
        /\ open[b] \notin Public /\ good \in Versions
    BY <2>1, <2>2, Kinds DEF IInv, TypeOK
  <2>4. /\ dist'[open[b]] \in Versions
        /\ \A f \in Files \ {open[b]} : dist'[f] = dist[f]
    BY <1>11, <2>2, <2>3 DEF WriteFile, IInv, TypeOK
  <2>5. dist'[Js] = good /\ dist'[Index] \in reign
    BY <2>1, <2>3, <2>4, Names DEF IInv, SiteIsWhole
  <2>6. \A f \in ChunksOf[good] : dist'[f] \in Versions
    BY <2>1, <2>3, <2>4, OutputKinds DEF IInv, SiteIsWhole
  <2>7. ASSUME NEW f \in WorkersOf[good]
        PROVE  \/ dist'[f] \in Versions
               \/ f \in scars'
               \/ \E c \in Builders : open'[c] = f
    <3>1. f \in Files
      BY <2>3, Kinds
    <3>2. CASE f = open[b]
      BY <2>4, <3>2
    <3>3. CASE f # open[b]
      <4>1. \/ dist[f] \in Versions
            \/ f \in scars
            \/ \E c \in Builders : open[c] = f
        BY <2>1 DEF IInv, SiteIsWhole
      <4>2. f \in scars => f \in scars'
        BY <1>11, <3>3 DEF WriteFile
      <4>3. \A c \in Builders : open[c] = f => open'[c] = f
        BY <1>11, <3>3 DEF WriteFile, IInv, TypeOK
      <4>4. QED
        BY <2>4, <3>1, <3>3, <4>1, <4>2, <4>3
    <3>4. QED
      BY <3>2, <3>3
  <2>8. ~skipped => \A i \in 1 .. PublicDirs :
          (\A j \in 1 .. i - 1 : PublicFiles[j] = {}) =>
            \A f \in PublicFiles[i] : dist'[f] \in Versions
    BY <2>1, <2>3, <2>4, Kinds DEF IInv, SiteIsWhole
  <2>9. good' = good /\ reign' = reign /\ skipped' = skipped
    BY <1>11 DEF WriteFile
  <2>10. QED
    BY <2>5, <2>6, <2>7, <2>8, <2>9 DEF SiteIsWhole
<1>12. ASSUME NEW b \in Builders, WriteIndex(b) PROVE SiteIsWhole'
  <2>1. SUFFICES ASSUME b \in alone
        PROVE  SiteIsWhole'
    BY <1>12 DEF WriteIndex, SiteIsWhole
  <2>2. /\ pc[b] = "html" /\ snap[b] \in Versions
        /\ good' = snap[b] /\ reign' = span /\ shell[b] \in span
        /\ skipped' = skipped /\ scars' = scars
    <3>1. pc[b] = "html" /\ snap[b] \in Versions
      BY <1>12, AtPage DEF WriteIndex, IInv
    <3>2. QED
      BY <1>12, <2>1, <3>1 DEF WriteIndex, IInv, ShellKept
  <2>3. /\ dist'[Index] = shell[b]
        /\ \A f \in Files \ {Index} : dist'[f] = dist[f]
    BY <1>12, Names DEF WriteIndex, IInv, TypeOK
  <2>4. \A f \in Outputs(snap[b]) : dist'[f] = snap[b]
    BY <2>1, <2>2, <2>3, OutputKinds DEF IInv, OutputsKept
  <2>5. /\ dist'[Js] = snap[b]
        /\ \A f \in ChunksOf[snap[b]] : dist'[f] \in Versions
    BY <2>2, <2>3, <2>4, OutputKinds
  <2>6. ASSUME NEW f \in WorkersOf[snap[b]]
        PROVE  \/ dist'[f] \in Versions
               \/ f \in scars'
               \/ \E c \in Builders : open'[c] = f
    <3>1. f \in Workers /\ f \in Files /\ f # Index
      BY <2>2, Kinds
    <3>2. dist[f] # Absent
      BY <2>2 DEF IInv, WorkersKept
    <3>3. \/ dist[f] \in Versions
          \/ f \in scars
          \/ \E c \in Builders : open[c] = f
      BY <3>1, <3>2 DEF IInv, WorkersKept, TypeOK
    <3>4. \A c \in Builders : open[c] = f => open'[c] = f
      BY <1>12, <3>1 DEF WriteIndex, Keeps, Ends, IInv, TypeOK
    <3>5. QED
      BY <2>2, <2>3, <3>1, <3>3, <3>4
  <2>7. ~skipped => \A i \in 1 .. PublicDirs :
          (\A j \in 1 .. i - 1 : PublicFiles[j] = {}) =>
            \A f \in PublicFiles[i] : dist'[f] \in Versions
    <3>1. ~skipped => \A i \in 1 .. PublicDirs :
            (\A j \in 1 .. i - 1 : PublicFiles[j] = {}) =>
              \A f \in PublicFiles[i] : dist[f] \in Versions
      BY <2>1, <2>2 DEF IInv, PublicKept, FirstOf
    <3>2. \A i \in 1 .. PublicDirs : \A f \in PublicFiles[i] :
            f \in Files /\ f # Index
      BY Kinds
    <3>3. QED
      BY <2>3, <3>1, <3>2
  <2>8. QED
    BY <2>2, <2>3, <2>5, <2>6, <2>7 DEF SiteIsWhole
<1>13. ASSUME NEW b \in Builders, CutShort(b) PROVE SiteIsWhole'
  <2>1. \A f \in Workers : \A c \in Builders :
          open[c] = f => f \in scars' \/ open'[c] = f
    BY <1>13 DEF CutShort, Keeps, Ends, IInv, TypeOK
  <2>2. good \in Versions => \A f \in WorkersOf[good] : f \in Workers
    BY Kinds
  <2>3. /\ good' = good /\ reign' = reign /\ dist' = dist
        /\ skipped' = skipped
        /\ scars \subseteq scars' /\ good \in Versions \union {None}
    BY <1>13 DEF CutShort, site, IInv, TypeOK
  <2>4. QED
    BY <2>1, <2>2, <2>3 DEF IInv, SiteIsWhole
<1>14. ASSUME NEW b \in Builders, NEW f \in Files, OpenFile(b, f) PROVE
  SiteIsWhole'
  <2>1. SUFFICES ASSUME good # None, pc[b] = "bundle"
        PROVE  SiteIsWhole'
    BY <1>14 DEF OpenFile, Touches, Keeps, SiteIsWhole
  <2>2. f \in Workers /\ good \in Versions
    BY <1>14, <2>1, Kinds DEF OpenFile, IInv, Places, TypeOK
  <2>3. f # Js /\ f # Index /\ f \notin Public
    BY <2>2, Kinds
  <2>4. \A g \in Files \ {f} : dist'[g] = dist[g]
    BY <1>14 DEF OpenFile, IInv, TypeOK
  <2>5. dist'[Js] = good /\ dist'[Index] \in reign
    BY <2>1, <2>3, <2>4, Names DEF IInv, SiteIsWhole
  <2>6. \A g \in ChunksOf[good] : dist'[g] \in Versions
    BY <2>1, <2>2, <2>4, OutputKinds DEF IInv, SiteIsWhole
  <2>7. ASSUME NEW g \in WorkersOf[good]
        PROVE  \/ dist'[g] \in Versions
               \/ g \in scars'
               \/ \E c \in Builders : open'[c] = g
    <3>1. g \in Files
      BY <2>2, Kinds
    <3>2. CASE g = f
      BY <1>14, <3>2 DEF OpenFile, IInv, TypeOK
    <3>3. CASE g # f
      <4>1. \A c \in Builders : open[c] = g => open'[c] = g
        BY <1>14, <3>1, Names DEF OpenFile, IInv, TypeOK
      <4>2. QED
        BY <1>14, <2>1, <2>4, <3>1, <3>3, <4>1 DEF OpenFile, IInv, SiteIsWhole
    <3>4. QED
      BY <3>2, <3>3
  <2>8. ~skipped => \A i \in 1 .. PublicDirs :
          (\A j \in 1 .. i - 1 : PublicFiles[j] = {}) =>
            \A g \in PublicFiles[i] : dist'[g] \in Versions
    BY <2>1, <2>3, <2>4, Kinds DEF IInv, SiteIsWhole
  <2>9. good' = good /\ reign' = reign /\ skipped' = skipped
    BY <1>14, <2>1 DEF OpenFile
  <2>10. QED
    BY <2>5, <2>6, <2>7, <2>8, <2>9 DEF SiteIsWhole
<1>15. ASSUME NEW b \in Builders, NEW f \in Files, CopyFile(b, f) PROVE
  SiteIsWhole'
  BY <1>15 DEF CopyFile, Touches, Keeps, IInv, SiteIsWhole
<1>16. ASSUME UNCHANGED vars PROVE SiteIsWhole'
  BY <1>16 DEF vars, site, builder, history, IInv, SiteIsWhole
<1>17. QED
  BY <1>1, <1>2, <1>3, <1>4, <1>5, <1>6, <1>7, <1>8, <1>9, <1>10,
    <1>11, <1>12, <1>13, <1>14, <1>15, <1>16 DEF Next

(* Every step keeps the link to the stylesheet explained.                 *)
LEMMA StyledStep ==
  ASSUME IInv, [Next]_vars
  PROVE  StyleExplained'
<1>1. ASSUME NEW v \in Versions, Edit(v) PROVE StyleExplained'
  BY <1>1 DEF Edit, builder, site, history, IInv, StyleExplained
<1>2. ASSUME NEW b \in Builders, Begin(b) PROVE StyleExplained'
  BY <1>2 DEF Begin, Goto, site, history, IInv, StyleExplained
<1>3. ASSUME NEW b \in Builders, CompileFails(b) PROVE StyleExplained'
  BY <1>3 DEF CompileFails, site, history, IInv, StyleExplained
<1>4. ASSUME NEW b \in Builders, Bundled(b) PROVE StyleExplained'
  BY <1>4 DEF Bundled, Goto, site, history, IInv, StyleExplained
<1>5. ASSUME NEW b \in Builders, Emitted(b) PROVE StyleExplained'
  <2>1. good = None
    BY <1>5, OutputKinds DEF Emitted, Goto, IInv, Places, Calm
  <2>2. QED
    BY <1>5, <2>1 DEF Emitted, IInv, StyleExplained
<1>6. ASSUME NEW b \in Builders, NextDir(b) PROVE StyleExplained'
  BY <1>6 DEF NextDir, history, site, history, IInv, StyleExplained
<1>7. ASSUME NEW b \in Builders, CopyFails(b) PROVE StyleExplained'
  <2>1. good = None
    BY <1>7 DEF CopyFails, IInv, Calm
  <2>2. QED
    BY <1>7, <2>1 DEF CopyFails, IInv, StyleExplained
<1>8. ASSUME NEW b \in Builders, PublicCopied(b) PROVE StyleExplained'
  BY <1>8 DEF PublicCopied, Goto, history, site, history, IInv, StyleExplained
<1>9. ASSUME NEW b \in Builders, StatCSS(b) PROVE StyleExplained'
  BY <1>9 DEF StatCSS, Goto, history, site, history, IInv, StyleExplained
<1>10. ASSUME NEW b \in Builders, ReadShell(b) PROVE StyleExplained'
  BY <1>10 DEF ReadShell, Goto, history, site, history, IInv, StyleExplained
<1>11. ASSUME NEW b \in Builders, WriteFile(b) PROVE StyleExplained'
  <2>1. SUFFICES ASSUME good # None
        PROVE  StyleExplained'
    BY <1>11 DEF WriteFile, StyleExplained
  <2>2. pc[b] = "bundle" /\ open[b] \in Workers
    BY <1>11, <2>1, Kinds, Names DEF WriteFile, IInv, Places, Calm
  <2>3. open[b] \in Files /\ open[b] # Css
    BY <2>2, Kinds
  <2>4. dist'[Css] = dist[Css]
    BY <1>11, <2>3, Names DEF WriteFile, IInv, TypeOK
  <2>5. QED
    BY <1>11, <2>4 DEF WriteFile, IInv, StyleExplained
<1>12. ASSUME NEW b \in Builders, WriteIndex(b) PROVE StyleExplained'
  <2>1. SUFFICES ASSUME b \in alone
        PROVE  StyleExplained'
    BY <1>12 DEF WriteIndex, StyleExplained
  <2>2. /\ pc[b] = "html" /\ snap[b] \in Versions
        /\ good' = snap[b] /\ linked' = hasCSS[b]
    <3>1. pc[b] = "html" /\ snap[b] \in Versions
      BY <1>12, AtPage DEF WriteIndex, IInv
    <3>2. QED
      BY <1>12, <2>1, <3>1 DEF WriteIndex
  <2>3. dist'[Css] = dist[Css]
    BY <1>12, Names DEF WriteIndex, IInv, TypeOK
  <2>4. snap[b] \in Styled => hasCSS[b] /\ dist[Css] = snap[b]
    BY <2>1, <2>2, OutputKinds DEF IInv, OutputsKept
  <2>5. hasCSS[b] => dist[Css] \in Styled \union {Torn}
    BY DEF IInv, StyleKept
  <2>6. QED
    BY <2>2, <2>3, <2>4, <2>5 DEF StyleExplained
<1>13. ASSUME NEW b \in Builders, CutShort(b) PROVE StyleExplained'
  BY <1>13 DEF CutShort, site, IInv, StyleExplained
<1>14. ASSUME NEW b \in Builders, NEW f \in Files, OpenFile(b, f) PROVE
  StyleExplained'
  <2>1. SUFFICES ASSUME good # None, pc[b] = "bundle"
        PROVE  StyleExplained'
    BY <1>14 DEF OpenFile, Touches, Keeps, StyleExplained
  <2>2. f # Css
    BY <1>14, <2>1, Kinds DEF OpenFile, IInv, Places
  <2>3. dist'[Css] = dist[Css]
    BY <1>14, <2>2, Names DEF OpenFile, IInv, TypeOK
  <2>4. QED
    BY <1>14, <2>1, <2>3 DEF OpenFile, IInv, StyleExplained
<1>15. ASSUME NEW b \in Builders, NEW f \in Files, CopyFile(b, f) PROVE
  StyleExplained'
  BY <1>15 DEF CopyFile, Touches, Keeps, IInv, StyleExplained
<1>16. ASSUME UNCHANGED vars PROVE StyleExplained'
  BY <1>16 DEF vars, site, builder, history, IInv, StyleExplained
<1>17. QED
  BY <1>1, <1>2, <1>3, <1>4, <1>5, <1>6, <1>7, <1>8, <1>9, <1>10,
    <1>11, <1>12, <1>13, <1>14, <1>15, <1>16 DEF Next

-----------------------------------------------------------------------------
(* The invariant holds of an empty directory with no build running.        *)
LEMMA Initially == Init => IInv
<1>1. SUFFICES ASSUME Init PROVE IInv
  OBVIOUS
<1>2. TypeOK
  <2>1. 0 \in 0 .. PublicDirs /\ MaxUpsets \in 0 .. MaxUpsets
    BY Names
  <2>2. QED
    BY <1>1, <2>1 DEF Init, TypeOK
<1>3. Places /\ Copies /\ Solitude /\ Calm
  BY <1>1, Names DEF Init, Places, Copies, Solitude, Calm
<1>4. \A f \in Workers : dist[f] = Absent
  BY <1>1, Kinds DEF Init
<1>5. WorkersKept
  BY <1>1, <1>4, Names DEF Init, WorkersKept
<1>6. StyleKept /\ OutputsKept /\ ShellKept /\ PublicKept
  BY <1>1, Names DEF Init, StyleKept, OutputsKept, ShellKept, PublicKept
<1>7. SiteIsWhole /\ StyleExplained
  BY <1>1 DEF Init, SiteIsWhole, StyleExplained
<1>8. QED
  BY <1>2, <1>3, <1>5, <1>6, <1>7 DEF IInv

(* Every step keeps it.                                                    *)
LEMMA Inductive == IInv /\ [Next]_vars => IInv'
<1>1. SUFFICES ASSUME IInv, [Next]_vars PROVE IInv'
  OBVIOUS
<1>2. TypeOK' /\ Places'
  BY <1>1, Types, PlacesStep DEF IInv
<1>3. Copies' /\ Solitude'
  BY <1>1, CopiesStep, SolitudeStep DEF IInv
<1>4. WorkersKept' /\ StyleKept' /\ OutputsKept' /\ PublicKept' /\ Calm'
  BY <1>1, WorkersStep, StyleStep, OutputsStep, PublicStep, CalmStep DEF IInv
<1>5. ShellKept'
  BY <1>1, ShellStep DEF IInv
<1>6. SiteIsWhole' /\ StyleExplained'
  BY <1>1, WholeStep, StyledStep
<1>7. QED
  BY <1>2, <1>3, <1>4, <1>5, <1>6 DEF IInv

(* Builds keep the invariant for as long as they run.                      *)
THEOREM Invariance == Spec => []IInv
BY Initially, Inductive, PTL DEF Spec

(* The variables keep their types, however many builds overlap, fail or    *)
(* are killed.                                                             *)
THEOREM TypeCorrect == Spec => []TypeOK
<1>1. IInv => TypeOK
  BY DEF IInv
<1>2. QED
  BY <1>1, Invariance, PTL

(* Build leaves a whole site behind when it returns without errors and no  *)
(* other build wrote meanwhile, and a later build that does not compile    *)
(* leaves it alone (build.go, Build): for any number of builds, versions   *)
(* of the sources, files and public directories.                           *)
THEOREM Whole == Spec => []SiteIsWhole
<1>1. IInv => SiteIsWhole
  BY DEF IInv
<1>2. QED
  BY <1>1, Invariance, PTL

(* Its page links its own stylesheet, if it has one, and otherwise none or *)
(* one that an earlier build left behind (build.go, writeProductionIndex). *)
THEOREM Style == Spec => []StyleExplained
<1>1. IInv => StyleExplained
  BY DEF IInv
<1>2. QED
  BY <1>1, Invariance, PTL

=============================================================================
