------------------------------ MODULE Updates ------------------------------
(***************************************************************************)
(* The path of a saved file to the open pages: the watcher of dev.go with  *)
(* its debounce, the hub of hmr.go with a bounded buffer per subscriber,   *)
(* the event stream, and the client runtime that re-imports a module or    *)
(* reloads the page.                                                       *)
(*                                                                         *)
(* The content of a file is the number of saves it has seen. An editor     *)
(* saves in place, by truncating and writing, or by renaming a new file    *)
(* over the old one. Time is abstract: the debounce window of a file may   *)
(* end at any moment after an event was let through.                       *)
(***************************************************************************)
EXTENDS Naturals, Sequences, FiniteSets

CONSTANTS
  Files,      (* source files that are watched and served                  *)
  Hot,        (* those whose module accepts updates of itself              *)
  Html,       (* index.html                                                *)
  Pages,      (* browser tabs                                              *)
  Capacity,   (* the buffer of a subscriber, 16 in the code                *)
  MaxSaves,   (* bound: saves                                              *)
  MaxDrops,   (* bound: connections lost                                   *)
  MaxImports, (* bound: re-imports of a module in flight in a page         *)
  Absent,     (* the page has not run the module                           *)
  Torn,       (* the file between truncation and write                     *)
  None        (* nothing has arrived yet                                   *)

ASSUME UpdatesAssumption ==
  /\ Hot \subseteq Files
  /\ Html \notin Hot
  /\ Capacity \in Nat \ {0}
  /\ {MaxSaves, MaxDrops, MaxImports} \subseteq Nat
  /\ {Absent, Torn, None} \cap Nat = {}
  /\ Cardinality({Absent, Torn, None}) = 3

VARIABLES
  saves,     (* how many more saves are made                               *)
  drops,     (* how many more connections are lost                         *)
  content,   (* content[f]: the number of saves of f                       *)
  torn,      (* the files that are truncated and not yet written           *)
  events,    (* the watcher's queue of <<file, operation>>                 *)
  hot,       (* the files inside their debounce window                     *)
  clients,   (* the pages in HMR.clients                                   *)
  buffer,    (* buffer[p]: the subscriber's channel                        *)
  shown,     (* shown[p][f]: the content that p runs                       *)
  importing, (* importing[p]: re-imports <<file, slot, what has arrived>>  *)
  excused    (* excused[p]: files of which p has missed an update, or had  *)
             (* two re-imports in flight, since the file was last saved    *)

env    == <<saves, drops>>
source == <<content, torn>>
hmr    == <<events, hot, clients, buffer>>
page   == <<shown, importing>>
vars   == <<env, source, hmr, page, excused>>

Contents == 0 .. MaxSaves
Slots    == 1 .. MaxImports
Arrivals == Contents \union {Torn, None}

TypeOK ==
  /\ saves   \in 0 .. MaxSaves
  /\ drops   \in 0 .. MaxDrops
  /\ content \in [Files -> Contents]
  /\ torn    \subseteq Files
  /\ events  \in Seq(Files \X {"write", "create"})
  /\ hot     \subseteq Files
  /\ clients \subseteq Pages
  /\ buffer  \in [Pages -> Seq(Files)]
  /\ shown   \in [Pages -> [Files -> Contents \union {Torn, Absent}]]
  /\ importing \in [Pages -> SUBSET (Files \X Slots \X Arrivals)]
  /\ excused \in [Pages -> SUBSET Files]
  /\ \A p \in Pages : Len(buffer[p]) <= Capacity

(* The pages have loaded and are connected. *)
Init ==
  /\ saves = MaxSaves
  /\ drops = MaxDrops
  /\ content = [f \in Files |-> 0]
  /\ torn = {}
  /\ events = <<>>
  /\ hot = {}
  /\ clients = Pages
  /\ buffer = [p \in Pages |-> <<>>]
  /\ shown = [p \in Pages |-> content]
  /\ importing = [p \in Pages |-> {}]
  /\ excused = [p \in Pages |-> {}]

-----------------------------------------------------------------------------
(* What a request for f is answered with. *)
Current(f) == IF f \in torn THEN Torn ELSE content[f]

Imports(p, f) == {i \in importing[p] : i[1] = f}

(* A new content is a new chance: what was missed before no longer counts, *)
(* except that a re-import in flight may still come back after a later one.*)
Saved(f) ==
  /\ content' = [content EXCEPT ![f] = @ + 1]
  /\ excused' = [p \in Pages |-> IF Imports(p, f) = {} THEN excused[p] \ {f}
                                 ELSE excused[p]]

(* An editor opens the file for writing, which truncates it. *)
Truncate(f) ==
  /\ saves > 0
  /\ saves' = saves - 1
  /\ f \notin torn
  /\ torn' = torn \union {f}
  /\ events' = Append(events, <<f, "write">>)
  /\ UNCHANGED <<drops, content, hot, clients, buffer, page, excused>>

Write(f) ==
  /\ f \in torn
  /\ torn' = torn \ {f}
  /\ Saved(f)
  /\ events' = Append(events, <<f, "write">>)
  /\ UNCHANGED <<env, hot, clients, buffer, page>>

(* An editor renames a file it has written over f. *)
Replace(f) ==
  /\ saves > 0
  /\ saves' = saves - 1
  /\ f \notin torn
  /\ Saved(f)
  /\ events' = Append(events, <<f, "create">>)
  /\ UNCHANGED <<drops, torn, hot, clients, buffer, page>>

-----------------------------------------------------------------------------
Room(p) == p \in clients /\ Len(buffer[p]) < Capacity

(* Broadcast: a subscriber whose buffer is full is skipped. *)
Broadcast(f) ==
  /\ buffer' = [p \in Pages |-> IF Room(p) THEN Append(buffer[p], f)
                                ELSE buffer[p]]
  /\ excused' = [p \in Pages |-> IF Room(p) THEN excused[p]
                                 ELSE excused[p] \union {f}]

MutWatchWritesOnly ==
  /\ events # <<>>
  /\ LET f == Head(events)[1]
     IN  IF Head(events)[2] = "create"
         THEN UNCHANGED <<hot, buffer, excused>>
         ELSE IF f \in hot
         THEN /\ excused' = [p \in Pages |-> excused[p] \union {f}]
              /\ UNCHANGED <<hot, buffer>>
         ELSE /\ hot' = hot \union {f}
              /\ Broadcast(f)
  /\ events' = Tail(events)
  /\ UNCHANGED <<env, source, clients, page>>

MutWatchWaitsForRoom ==
  /\ events # <<>>
  /\ \A p \in clients : Len(buffer[p]) < Capacity
  /\ hot' = hot \union {Head(events)[1]}
  /\ Broadcast(Head(events)[1])
  /\ events' = Tail(events)
  /\ UNCHANGED <<env, source, clients, page>>

(* devWatch takes an event. One inside the window of an earlier event of   *)
(* the file is dropped; nothing remembers that there was one.              *)
Watch ==
  /\ events # <<>>
  /\ LET f == Head(events)[1]
     IN  \/ /\ f \in hot
            /\ excused' = [p \in Pages |-> excused[p] \union {f}]
            /\ UNCHANGED <<hot, buffer>>
         \/ /\ f \notin hot
            /\ hot' = hot \union {f}
            /\ Broadcast(f)
  /\ events' = Tail(events)
  /\ UNCHANGED <<env, source, clients, page>>

(* 80 milliseconds have passed since the event that was let through. *)
Cool(f) ==
  /\ f \in hot
  /\ hot' = hot \ {f}
  /\ UNCHANGED <<env, source, events, clients, buffer, page, excused>>

-----------------------------------------------------------------------------
(* The page's EventSource opens, at the first load or by itself after a    *)
(* loss. Nothing is replayed, and the page is not reloaded.                *)
Connect(p) ==
  /\ p \notin clients
  /\ clients' = clients \union {p}
  /\ UNCHANGED <<env, source, events, hot, buffer, page, excused>>

(* The connection is lost with all that was buffered. *)
Disconnect(p) ==
  /\ p \in clients
  /\ drops > 0
  /\ drops' = drops - 1
  /\ clients' = clients \ {p}
  /\ buffer' = [buffer EXCEPT ![p] = <<>>]
  /\ excused' = [excused EXCEPT ![p] =
                   @ \union {buffer[p][i] : i \in DOMAIN buffer[p]}]
  /\ UNCHANGED <<saves, source, events, hot, page>>

MutReloadKeepsImports(p) ==
  /\ clients' = clients \ {p}
  /\ buffer' = [buffer EXCEPT ![p] = <<>>]
  /\ shown' = [shown EXCEPT ![p] = [f \in Files |-> Absent]]
  /\ excused' = [excused EXCEPT ![p] = {}]
  /\ UNCHANGED importing

(* location.reload(): the page starts again from nothing. *)
Reload(p) ==
  /\ clients' = clients \ {p}
  /\ buffer' = [buffer EXCEPT ![p] = <<>>]
  /\ shown' = [shown EXCEPT ![p] = [f \in Files |-> Absent]]
  /\ importing' = [importing EXCEPT ![p] = {}]
  /\ excused' = [excused EXCEPT ![p] = {}]

(* A page that loads requests each module, before or after its event       *)
(* stream is open.                                                         *)
Load(p, f) ==
  /\ shown[p][f] = Absent
  /\ shown' = [shown EXCEPT ![p][f] = Current(f)]
  /\ UNCHANGED <<env, source, hmr, importing, excused>>

FreeSlots(p, f) == Slots \ {i[2] : i \in Imports(p, f)}

(* applyUpdate starts: the module has a hot entry and accepts.             *)
StartImport(p, f) ==
  /\ f \in Hot
  /\ shown[p][f] # Absent
  /\ \E s \in FreeSlots(p, f) :
       /\ \A r \in FreeSlots(p, f) : s <= r
       /\ importing' = [importing EXCEPT ![p] = @ \union {<<f, s, None>>}]
  /\ buffer' = [buffer EXCEPT ![p] = Tail(@)]
  /\ excused' = IF Imports(p, f) = {} THEN excused
                ELSE [excused EXCEPT ![p] = @ \union {f}]
  /\ UNCHANGED <<clients, shown>>

(* A message reaches the page. index.html, a module without a hot entry,   *)
(* which one that failed to parse may be, and one that does not accept     *)
(* reload it.                                                              *)
Message(p) ==
  /\ p \in clients
  /\ buffer[p] # <<>>
  /\ LET f == Head(buffer[p])
     IN  \/ StartImport(p, f)
         \/ /\ f \notin Hot \/ shown[p][f] \in {Absent, Torn}
            /\ Reload(p)
  /\ UNCHANGED <<env, source, events, hot>>

(* The dev server answers the re-import. The timestamp in its URL keeps    *)
(* the browser from answering itself.                                      *)
Serve(p, i) ==
  /\ i[3] = None
  /\ importing' = [importing EXCEPT ![p] =
                     (@ \ {i}) \union {<<i[1], i[2], Current(i[1])>>}]
  /\ UNCHANGED <<env, source, hmr, shown, excused>>

(* The module has arrived and is handed to accept, in the order of arrival *)
(* rather than of the updates. One that does not parse, or that accept     *)
(* throws on, reloads the page.                                            *)
Apply(p, i) ==
  /\ i[3] # None
  /\ \/ /\ shown' = [shown EXCEPT ![p][i[1]] = i[3]]
        /\ importing' = [importing EXCEPT ![p] = @ \ {i}]
        /\ UNCHANGED <<clients, buffer, excused>>
     \/ /\ i[3] = Torn
        /\ Reload(p)
  /\ UNCHANGED <<env, source, events, hot>>

-----------------------------------------------------------------------------
Next ==
  \/ Watch
  \/ \E f \in Files : Truncate(f) \/ Write(f) \/ Replace(f) \/ Cool(f)
  \/ \E p \in Pages :
       \/ Connect(p) \/ Disconnect(p) \/ Message(p)
       \/ \E f \in Files : Load(p, f)
       \/ \E i \in importing[p] : Serve(p, i) \/ Apply(p, i)

(* The watcher's goroutine runs. Nothing is asked of browsers: a tab may   *)
(* be frozen for ever.                                                     *)
Spec     == Init /\ [][Next]_vars
FairSpec == Spec /\ WF_vars(Watch)

-----------------------------------------------------------------------------
(* Nothing is under way to the page. *)
Settled(p) ==
  /\ events = <<>> /\ torn = {}
  /\ buffer[p] = <<>> /\ importing[p] = {}
  /\ \A f \in Files : shown[p][f] # Absent

(* When nothing is under way any more, a page runs the last content of     *)
(* each file, unless it has missed an update of the file since its last    *)
(* save (the debounce, a full buffer, no connection), or two re-imports of *)
(* it overlapped. Nothing else leaves a page behind: not a file that is    *)
(* read half written, and not a save while the page loads.                 *)
StaleExplained ==
  \A p \in Pages, f \in Files :
    Settled(p) => shown[p][f] = content[f] \/ f \in excused[p]

(* A page goes back to an earlier content only by overlapping re-imports.  *)
OnlyForward ==
  [][\A p \in Pages, f \in Files :
       shown[p][f] \in Nat /\ shown'[p][f] \in Nat /\ f \notin excused[p]
         => shown'[p][f] >= shown[p][f]]_vars

(* The watcher gets through its events, whatever the pages do: one that is *)
(* frozen with a full buffer does not hold it up.                          *)
WatcherRuns == events # <<>> ~> events = <<>>

=============================================================================
