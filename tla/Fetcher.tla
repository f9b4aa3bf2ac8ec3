------------------------------ MODULE Fetcher ------------------------------
(***************************************************************************)
(* One Fetch of internal/fetcher: the walk over the import graph of a      *)
(* package. Every call of fetchOne is a goroutine, here a task: the root   *)
(* call, and one per import of a package that was read. The tasks share    *)
(* the walkContext: a counting semaphore for network work, the table of    *)
(* URLs somebody has claimed, and the packages found so far.               *)
(*                                                                         *)
(* URLs, specs and bodies are abstract: ReqURL is specToURL, Resolved is   *)
(* what the registry's redirects and its X-ESM-Path header make of a       *)
(* request URL, Entry is the file a package without JavaScript declares in *)
(* its package.json, and imports is what resolveAgainst makes of the       *)
(* imports extracted from each body.                                       *)
(***************************************************************************)
EXTENDS Naturals, FiniteSets

CONSTANTS
  URLs,        (* request and resolved URLs                                *)
  Specs,       (* what fetchOne is called with                             *)
  Root,        (* the spec Fetch is called with                            *)
  None,        (* no URL, no spec, nobody                                  *)
  Failed,      (* an error returned                                        *)
  ReqURL,      (* [Specs -> URLs]                                          *)
  Resolved,    (* [URLs -> URLs]                                           *)
  Entry,       (* [Specs -> Specs \union {None}]; not None: the spec 404s  *)
  Graphs,      (* the import graphs [URLs -> SUBSET Specs] considered      *)
  Concurrency, (* Fetcher.Concurrency                                      *)
  MaxAttempts, (* maxFetchAttempts                                         *)
  MaxFaults    (* bound: failed requests and disk operations in one run    *)

ASSUME FetcherAssumption ==
  /\ Root \in Specs
  /\ ReqURL \in [Specs -> URLs]
  /\ Resolved \in [URLs -> URLs]
  /\ Entry \in [Specs -> Specs \union {None}]
  /\ Graphs \subseteq [URLs -> SUBSET Specs]
  /\ Concurrency \in Nat \ {0}
  /\ MaxAttempts \in Nat \ {0}
  /\ MaxFaults \in Nat
  /\ None \notin URLs \union Specs
  /\ Failed \notin URLs \union {None}

(* The registry serves a resolved URL under that URL, and redirects        *)
(* nothing to a URL that it answers with 404; and an entry is a file path, *)
(* for which fetchOne makes no second attempt.                             *)
ASSUME RegistryAssumption ==
  /\ \A u \in URLs : Resolved[Resolved[u]] = Resolved[u]
  /\ \A r, s \in Specs : Entry[r] = None /\ Entry[s] # None =>
       Resolved[ReqURL[r]] # ReqURL[s]
  /\ \A s \in Specs : Entry[s] # None => Entry[Entry[s]] = None

(* A task is the import of a spec by the package at a URL. *)
Tasks    == (URLs \union {None}) \X Specs
RootTask == <<None, Root>>
NoTask   == <<None, None>>

VARIABLES
  imports,    (* the import graph the registry serves                      *)
  cached,     (* the URLs the store holds                                  *)
  faults,     (* how many more operations may fail                         *)
  cancelled,  (* ctx is cancelled                                          *)
  sem,        (* the frames <<task, frame>> that hold a semaphore slot     *)
  inflight,   (* inflight[u]: the task that has claimed u                  *)
  done,       (* the URLs whose done channel is closed                     *)
  pending,    (* pending[u]: result or err of u; None: both still zero     *)
  visited,    (* the resolved URLs recorded in walkContext.visited         *)
  deps,       (* deps[u]: Package.Deps of u                                *)
  pc,         (* pc[t]: the next step of t                                 *)
  spec,       (* spec[t]: the spec of t's innermost fetchOne               *)
  frame,      (* frame[t]: 2 inside the fetchOne of the fallback, else 1   *)
  key,        (* key[t]: the URL t waits for or has resolved its spec to   *)
  tries,      (* tries[t]: the attempt of the current request              *)
  result      (* result[t]: what t has returned                            *)

shared == <<sem, inflight, done, pending, visited, deps>>
local  == <<spec, frame, key, tries, result>>
env    == <<imports, cached, faults, cancelled>>
vars   == <<env, shared, pc, local>>

Network  == {"resolve", "discover", "body"}
Leading  == {"recheck", "stored", "body", "save", "record", "children"}
PCs      == {"off", "load", "wait", "lookup", "acquire", "resolve",
             "discover", "claim", "end"} \union Leading
Outcomes == URLs \union {None, Failed}

TypeOK ==
  /\ imports   \in Graphs
  /\ cached    \in SUBSET URLs
  /\ faults    \in Nat
  /\ cancelled \in BOOLEAN
  /\ sem       \in SUBSET (Tasks \X {1, 2})
  /\ inflight  \in [URLs -> Tasks \union {NoTask}]
  /\ done      \in SUBSET URLs
  /\ pending   \in [URLs -> Outcomes]
  /\ visited   \in SUBSET URLs
  /\ deps      \in [URLs -> SUBSET Outcomes]
  /\ pc        \in [Tasks -> PCs]
  /\ spec      \in [Tasks -> Specs]
  /\ frame     \in [Tasks -> {1, 2}]
  /\ key       \in [Tasks -> URLs \union {None}]
  /\ tries     \in [Tasks -> Nat]
  /\ result    \in [Tasks -> Outcomes]

Children(u) == {u} \X imports[u]
Results(u)  == {result[t] : t \in Children(u)}

-----------------------------------------------------------------------------
(* What a GET can deliver, and so what earlier runs may have stored. *)
Served == {Resolved[u] : u \in URLs}
            \ {ReqURL[s] : s \in {x \in Specs : Entry[x] # None}}

Init ==
  /\ imports \in Graphs
  /\ cached \in SUBSET Served
  /\ faults    = MaxFaults
  /\ cancelled = FALSE
  /\ sem       = {}
  /\ inflight  = [u \in URLs |-> NoTask]
  /\ done      = {}
  /\ pending   = [u \in URLs |-> None]
  /\ visited   = {}
  /\ deps      = [u \in URLs |-> {}]
  /\ pc        = [t \in Tasks |-> IF t = RootTask THEN "load" ELSE "off"]
  /\ spec      = [t \in Tasks |-> t[2]]
  /\ frame     = [t \in Tasks |-> 1]
  /\ key       = [t \in Tasks |-> None]
  /\ tries     = [t \in Tasks |-> 0]
  /\ result    = [t \in Tasks |-> None]

Goto(t, from, to) == pc[t] = from /\ pc' = [pc EXCEPT ![t] = to]

Slot(t) == <<t, frame[t]>>

(* A mutant, too: the return paths on which releaseSlot is forgotten. *)
MutReturnWithSlot(t, r) ==
  /\ pc'     = [pc EXCEPT ![t] = "end"]
  /\ result' = [result EXCEPT ![t] = r]
  /\ UNCHANGED <<sem, spec, frame, key, tries>>

(* fetchOne returns r from its innermost frame and, under the fallback,    *)
(* from the one around it; the deferred releaseSlot runs in both.          *)
Return(t, r) ==
  /\ pc'     = [pc EXCEPT ![t] = "end"]
  /\ result' = [result EXCEPT ![t] = r]
  /\ sem'    = sem \ ({t} \X {1, 2})
  /\ UNCHANGED <<spec, frame, key, tries>>

(* A task that has claimed its URL leaves p in the pending entry and its   *)
(* deferred close wakes those who wait for it.                             *)
ReturnClaimed(t, r, p) ==
  /\ pending' = [pending EXCEPT ![key[t]] = p]
  /\ done' = done \union {key[t]}
  /\ Return(t, r)

(***************************************************************************)
(* Mutants: plausible mistakes in the code, each of which breaks one of    *)
(* the properties below (README, "Mutants"). No specification uses them.   *)
(***************************************************************************)
MutAcquireOneMore(t) ==
  /\ Goto(t, "acquire", "resolve")
  /\ Cardinality(sem) <= Concurrency
  /\ sem' = sem \union {Slot(t)}
  /\ tries' = [tries EXCEPT ![t] = 1]
  /\ UNCHANGED <<env, inflight, done, pending, visited, deps,
                 spec, frame, key, result>>

MutClaimAnyway(t) ==
  /\ Goto(t, "claim", "recheck")
  /\ inflight' = [inflight EXCEPT ![key[t]] = t]
  /\ UNCHANGED <<env, sem, done, pending, visited, deps, local>>

MutRecordSlotInHand(t) ==
  /\ pc[t] = "record"
  /\ visited' = visited \union {key[t]}
  /\ pc' = [c \in Tasks |-> IF c = t THEN "children"
                            ELSE IF c \in Children(key[t]) THEN "load"
                            ELSE pc[c]]
  /\ UNCHANGED <<env, sem, inflight, done, pending, deps, local>>

MutJoinWithoutWait(t) ==
  /\ pc[t] = "children"
  /\ ReturnClaimed(t, key[t], key[t])
  /\ deps' = [deps EXCEPT ![key[t]] = Results(key[t])]
  /\ UNCHANGED <<env, inflight, visited>>

MutJoinIgnoresErrors(t) ==
  /\ pc[t] = "children"
  /\ \A c \in Children(key[t]) : pc[c] = "end"
  /\ ReturnClaimed(t, key[t], key[t])
  /\ deps' = [deps EXCEPT ![key[t]] = Results(key[t]) \ {Failed}]
  /\ UNCHANGED <<env, inflight, visited>>

-----------------------------------------------------------------------------
(* Somebody has claimed the request URL: wait for its result. *)
Load(t) ==
  LET u == ReqURL[spec[t]] IN
  /\ \/ /\ inflight[u] # NoTask
        /\ Goto(t, "load", "wait")
        /\ key' = [key EXCEPT ![t] = u]
     \/ /\ inflight[u] = NoTask
        /\ Goto(t, "load", "lookup")
        /\ UNCHANGED key
  /\ UNCHANGED <<env, shared, spec, frame, tries, result>>

Wait(t) ==
  /\ pc[t] = "wait"
  /\ key[t] \in done
  /\ Return(t, pending[key[t]])
  /\ UNCHANGED <<env, inflight, done, pending, visited, deps>>

(* Store.Get of the request URL: a hit makes any request unnecessary. *)
Lookup(t) ==
  LET u == ReqURL[spec[t]] IN
  /\ \/ /\ u \in cached
        /\ Goto(t, "lookup", "claim")
        /\ key' = [key EXCEPT ![t] = u]
     \/ /\ u \notin cached
        /\ Goto(t, "lookup", "acquire")
        /\ UNCHANGED key
  /\ UNCHANGED <<env, shared, spec, frame, tries, result>>

Acquire(t) ==
  /\ Goto(t, "acquire", "resolve")
  /\ Cardinality(sem) < Concurrency
  /\ sem' = sem \union {Slot(t)}
  /\ tries' = [tries EXCEPT ![t] = 1]
  /\ UNCHANGED <<env, inflight, done, pending, visited, deps,
                 spec, frame, key, result>>

(* The request that follows the redirects is answered with the URL they    *)
(* end at or, for a package without JavaScript, with 404.                  *)
Resolve(t) ==
  /\ Entry[spec[t]] = None
  /\ Goto(t, "resolve", "claim")
  /\ key' = [key EXCEPT ![t] = Resolved[ReqURL[spec[t]]]]
  /\ UNCHANGED <<env, shared, spec, frame, tries, result>>

NotFound(t) ==
  /\ Entry[spec[t]] # None
  /\ Goto(t, "resolve", "discover")
  /\ tries' = [tries EXCEPT ![t] = 1]
  /\ UNCHANGED <<env, shared, spec, frame, key, result>>

(* The package.json names an entry: fetchOne calls itself for it, in the   *)
(* middle of its own body.                                                 *)
Discover(t) ==
  /\ Goto(t, "discover", "load")
  /\ spec'  = [spec EXCEPT ![t] = Entry[spec[t]]]
  /\ frame' = [frame EXCEPT ![t] = 2]
  /\ UNCHANGED <<env, shared, key, tries, result>>

(* inflight.LoadOrStore of the resolved URL. *)
Claim(t) ==
  /\ pc[t] = "claim"
  /\ \/ /\ inflight[key[t]] # NoTask
        /\ Goto(t, "claim", "wait")
        /\ sem' = sem \ {Slot(t)}
        /\ UNCHANGED inflight
     \/ /\ inflight[key[t]] = NoTask
        /\ Goto(t, "claim", "recheck")
        /\ inflight' = [inflight EXCEPT ![key[t]] = t]
        /\ UNCHANGED sem
  /\ UNCHANGED <<env, done, pending, visited, deps, local>>

(* The scan of the finished packages for the URL just claimed. *)
Recheck(t) ==
  /\ pc[t] = "recheck"
  /\ IF key[t] \in visited
       THEN ReturnClaimed(t, key[t], key[t])
       ELSE /\ Goto(t, "recheck", "stored")
            /\ UNCHANGED <<sem, done, pending, local>>
  /\ UNCHANGED <<env, inflight, visited, deps>>

(* Store.Get of the resolved URL and, on a hit, reading its bytes. *)
Stored(t) ==
  /\ Goto(t, "stored", IF key[t] \in cached THEN "record" ELSE "body")
  /\ tries' = [tries EXCEPT ![t] = 1]
  /\ UNCHANGED <<env, shared, spec, frame, key, result>>

Body(t) ==
  /\ Goto(t, "body", "save")
  /\ UNCHANGED <<env, shared, local>>

Save(t) ==
  /\ Goto(t, "save", "record")
  /\ cached' = cached \union {key[t]}
  /\ UNCHANGED <<imports, faults, cancelled, shared, local>>

(* The network work is over: release the slot, record the package and      *)
(* start one goroutine per import.                                         *)
Record(t) ==
  /\ pc[t] = "record"
  /\ sem' = sem \ {Slot(t)}
  /\ visited' = visited \union {key[t]}
  /\ pc' = [c \in Tasks |-> IF c = t THEN "children"
                            ELSE IF c \in Children(key[t]) THEN "load"
                            ELSE pc[c]]
  /\ UNCHANGED <<env, inflight, done, pending, deps, local>>

(* wg.Wait has returned: the first error wins, else the dependencies are   *)
(* what the children have returned.                                        *)
Join(t) ==
  /\ pc[t] = "children"
  /\ \A c \in Children(key[t]) : pc[c] = "end"
  /\ \/ /\ Failed \in Results(key[t])
        /\ ReturnClaimed(t, Failed, Failed)
        /\ UNCHANGED deps
     \/ /\ Failed \notin Results(key[t])
        /\ ReturnClaimed(t, key[t], key[t])
        /\ deps' = [deps EXCEPT ![key[t]] = Results(key[t])]
  /\ UNCHANGED <<env, inflight, visited>>

-----------------------------------------------------------------------------
(* fetchOne returns an error from any of its steps but the last. A task    *)
(* that has claimed its URL closes done without having set pending.err.    *)
Fail(t) ==
  /\ \/ /\ pc[t] \in Leading
        /\ ReturnClaimed(t, Failed, None)
     \/ /\ pc[t] \notin Leading
        /\ Return(t, Failed)
        /\ UNCHANGED <<pending, done>>
  /\ UNCHANGED <<imports, cached, cancelled, inflight, visited, deps>>

MutAbortRequestsOnly(t) ==
  /\ cancelled
  /\ pc[t] \in Network
  /\ Fail(t)
  /\ UNCHANGED faults

(* A request fails: a transient failure (429, 5xx, connection reset) is    *)
(* retried, slot in hand.                                                  *)
Retry(t) ==
  /\ pc[t] \in Network
  /\ faults > 0
  /\ faults' = faults - 1
  /\ tries[t] < MaxAttempts
  /\ tries' = [tries EXCEPT ![t] = @ + 1]
  /\ UNCHANGED <<imports, cached, cancelled, shared, pc,
                 spec, frame, key, result>>

(* The last attempt fails, or the failure is a stable one, or the disk     *)
(* does not deliver.                                                       *)
Fault(t) ==
  /\ pc[t] \in Network \union {"lookup", "stored", "save"}
  /\ faults > 0
  /\ faults' = faults - 1
  /\ Fail(t)

(* Whoever is blocked, or in a request, may notice that ctx is cancelled. *)
Abort(t) ==
  /\ cancelled
  /\ pc[t] \in Network \union {"wait", "acquire"}
  /\ Fail(t)
  /\ UNCHANGED faults

Cancel ==
  /\ ~cancelled
  /\ pc[RootTask] # "end"
  /\ cancelled' = TRUE
  /\ UNCHANGED <<imports, cached, faults, shared, pc, local>>

Progress(t) ==
  \/ Load(t)   \/ Wait(t)     \/ Lookup(t)  \/ Acquire(t) \/ Resolve(t)
  \/ NotFound(t) \/ Discover(t) \/ Claim(t) \/ Recheck(t) \/ Stored(t)
  \/ Body(t)   \/ Save(t)     \/ Record(t)  \/ Join(t)

Next ==
  \/ \E t \in Tasks : Progress(t) \/ Retry(t) \/ Fault(t) \/ Abort(t)
  \/ Cancel

(* Every goroutine is scheduled, and the registry answers every request.   *)
Fairness == \A t \in Tasks : WF_vars(Progress(t)) /\ WF_vars(Abort(t))

Spec     == Init /\ [][Next]_vars
FairSpec == Spec /\ Fairness

-----------------------------------------------------------------------------
Ended == pc[RootTask] = "end"

(* Every HTTP request, its retries included, is made slot in hand, and no  *)
(* more slots are out than Fetcher.Concurrency: also when a goroutine skips *)
(* the acquisition because the store had its package.                      *)
RequestsBounded ==
  /\ Cardinality(sem) <= Concurrency
  /\ \A t \in Tasks : pc[t] \in Network => Slot(t) \in sem

(* Between its claim and the close of its done channel a URL has one       *)
(* leader: however the diamonds of the graph interleave, no two goroutines *)
(* download, store and recurse into the same package, and none does so     *)
(* after the waiters have been woken.                                      *)
OneDownload ==
  \A t \in Tasks : pc[t] \in Leading =>
    /\ inflight[key[t]] = t
    /\ key[t] \notin done

(* What a spec stands for, the fallback of a 404 included. *)
Target(s) == Resolved[ReqURL[IF Entry[s] = None THEN s ELSE Entry[s]]]

Targets(u) == {Target(s) : s \in imports[u]}

(* The packages reachable from the root. *)
Closed(S) == Target(Root) \in S /\ \A u \in S : Targets(u) \subseteq S
Closure   == {u \in URLs : \A S \in SUBSET URLs : Closed(S) => u \in S}

(* A Fetch that succeeds hands the lockfile the whole closure of the root, *)
(* each package with its own dependencies and with its bytes in the store: *)
(* the zero Package that the waiters of a failed download receive as a     *)
(* success never gets into a result.                                       *)
SuccessIsClosure ==
  result[RootTask] # Failed /\ Ended =>
    /\ result[RootTask] = Target(Root)
    /\ visited = Closure
    /\ \A u \in visited : deps[u] = Targets(u) /\ u \in cached

(* When Fetch returns, on whichever path, no goroutine of the walk is left *)
(* running, no slot is held and no claim is open.                          *)
NothingLeftBehind ==
  Ended => /\ \A t \in Tasks : pc[t] \in {"off", "end"}
           /\ sem = {}
           /\ \A u \in URLs : inflight[u] # NoTask => u \in done

(* A failure, or a cancelled context, that one goroutine has seen on its   *)
(* own reaches the caller: Fetch does not report success over it.          *)
FailureSurfaces ==
  Ended /\ (\E t \in Tasks : result[t] = Failed) => result[RootTask] = Failed

Acyclic == \A S \in SUBSET URLs \ {{}} : \E u \in S : Targets(u) \cap S = {}

(* Fewer goroutines can sit in a fallback than there are slots. *)
Callable == {RootTask} \union UNION {Children(u) : u \in URLs}
SlotsToSpare ==
  Cardinality({t \in Callable : Entry[t[2]] # None}) < Concurrency

(* On an acyclic graph Fetch returns, although parents wait for children,  *)
(* waiters for leaders and everybody for slots.                            *)
FetchReturns == Acyclic /\ SlotsToSpare ~> Ended

(* A cancelled Fetch returns, whatever the graph and whoever is blocked.   *)
CancelUnblocks == cancelled ~> Ended

(* fetcher.go:393: done gets closed "so waiters don't block forever". *)
AlwaysReturns == <>Ended

=============================================================================
