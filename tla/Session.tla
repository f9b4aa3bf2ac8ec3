------------------------------ MODULE Session ------------------------------
(***************************************************************************)
(* The lifetime of the sessions of one project: calls of Dev (dev.go),     *)
(* with the Wait and the Close that end it, and of Build (build.go), in    *)
(* one program or in several. A session loads the vite.config, through a   *)
(* Node sidecar when it can (viteconfig.go, jsplugin.go), acquires a Vue   *)
(* compiler, a port and a watcher, and releases all that when it ends; or  *)
(* it hands everything to an installed Vite (realvite.go). The config is   *)
(* bundled into a file whose name depends on the project only, so that the *)
(* sessions share it. What a build writes is modelled in Dist, the calls   *)
(* of the sidecar's hooks are in PluginHost.                               *)
(***************************************************************************)
EXTENDS Naturals

CONSTANTS
  Sessions,   (* the sessions                                              *)
  Builds,     (* those that are builds; the others are dev sessions        *)
  MaxUpsets   (* bound: steps that fail, and servers that stop             *)

ASSUME SessionAssumption == Builds \subseteq Sessions /\ MaxUpsets \in Nat

VARIABLES
  vite,      (* Vite is installed, and VITELESS_ENGINE is not set          *)
  pc,        (* pc[p]: where the goroutine is that runs session p          *)
  holds,     (* holds[p]: what p has acquired and not released             *)
  node,      (* node[p]: its sidecar, from the spawn to the handshake      *)
  plugins,   (* plugins[p]: what became of its JavaScript plugins          *)
  tmp,       (* the bundled config file                                    *)
  opened,    (* the sessions that have it open and have not written it     *)
  server,    (* server[p]: the goroutine in Serve, or in cmd.Wait          *)
  serveErr,  (* serveErr[p]: the channel holds the server's error          *)
  ctx,       (* ctx[p]: the context of Wait is cancelled                   *)
  closed,    (* closed[p]: the sync.Once of Close                          *)
  closer,    (* closer[p]: another goroutine that calls Close              *)
  blame,     (* blame[p]: what kept p's plugins from running               *)
  upsets     (* how many more upsets there may be                          *)

config      == <<node, plugins, tmp, opened, blame>>
run         == <<server, serveErr, ctx, closed, closer>>
sessionVars == <<vite, pc, holds, config, run, upsets>>

Resources == {"watcher", "port", "compiler", "sidecar", "vite"}
Loading   == {"start", "bundle", "bundling", "spawn", "ready"}
Preparing == {"loaded", "lockfile", "store", "compiler", "url", "build"}
Returned  == {"failed", "over", "exited"}

SessionTypeOK ==
  /\ vite     \in BOOLEAN
  /\ pc       \in [Sessions -> Loading \union Preparing \union Returned
                               \union {"up", "wait", "closing"}]
  /\ holds    \in [Sessions -> SUBSET Resources]
  /\ node     \in [Sessions -> {"none", "started", "sent", "failed", "hung"}]
  /\ plugins  \in [Sessions -> {"unknown", "none", "run", "lost"}]
  /\ tmp      \in {"absent", "torn", "whole"}
  /\ opened   \in SUBSET Sessions
  /\ server   \in [Sessions -> {"none", "runs", "ended"}]
  /\ serveErr \in [Sessions -> BOOLEAN]
  /\ ctx      \in [Sessions -> BOOLEAN]
  /\ closed   \in [Sessions -> {"open", "running", "done"}]
  /\ closer   \in [Sessions -> {"idle", "closing", "done"}]
  /\ blame    \in [Sessions -> SUBSET {"own", "other"}]
  /\ upsets   \in 0 .. MaxUpsets

SessionInit ==
  /\ vite     \in BOOLEAN
  /\ pc       = [p \in Sessions |-> "start"]
  /\ holds    = [p \in Sessions |-> {}]
  /\ node     = [p \in Sessions |-> "none"]
  /\ plugins  = [p \in Sessions |-> "unknown"]
  /\ tmp      = "absent"
  /\ opened   = {}
  /\ server   = [p \in Sessions |-> "none"]
  /\ serveErr = [p \in Sessions |-> FALSE]
  /\ ctx      = [p \in Sessions |-> FALSE]
  /\ closed   = [p \in Sessions |-> "open"]
  /\ closer   = [p \in Sessions |-> "idle"]
  /\ blame    = [p \in Sessions |-> {}]
  /\ upsets   = MaxUpsets

Goto(p, from, to) == pc[p] = from /\ pc' = [pc EXCEPT ![p] = to]
Upset == upsets > 0 /\ upsets' = upsets - 1
Acquire(p, R) == holds' = [holds EXCEPT ![p] = @ \union R]
Release(p, R) == holds' = [holds EXCEPT ![p] = @ \ R]

(* The sessions other than p whose sidecar has yet to read the file.       *)
Victims(p) == {q \in Sessions \ {p} :
                 pc[q] \in {"bundling", "spawn"} \/ node[q] = "started"}
Disturbs(p) == [q \in Sessions |->
                  blame[q] \union (IF q \in Victims(p) THEN {"other"} ELSE {})]
RemoveTmp(p) == tmp' = "absent" /\ opened' = {} /\ blame' = Disturbs(p)

-----------------------------------------------------------------------------
(***************************************************************************)
(* Mutants: plausible mistakes in the code, each of which breaks one of    *)
(* the properties below (README, "Mutants"). No specification uses them.   *)
(***************************************************************************)
MutSpawnRemoves(p) ==
  /\ Goto(p, "spawn", "ready")
  /\ node' = [node EXCEPT ![p] = "started"]
  /\ RemoveTmp(p)
  /\ UNCHANGED <<vite, holds, plugins, run, upsets>>

MutSteps == <<"watcher", "port", "compiler", "vite">>

MutClosedIsNoResult(p) ==
  /\ server[p] = "runs"
  /\ holds[p] \intersect {"port", "vite"} = {}
  /\ server' = [server EXCEPT ![p] = "ended"]
  /\ UNCHANGED <<vite, pc, holds, config, serveErr, ctx, closed, closer,
                 upsets>>

-----------------------------------------------------------------------------
(* LoadViteConfig. Without a config file, or without node on the path, no  *)
(* sidecar is started.                                                     *)
Start(p) ==
  /\ ~vite
  /\ Goto(p, "start", "bundle")
  /\ UNCHANGED <<vite, holds, config, run, upsets>>

NoConfig(p) ==
  /\ ~vite
  /\ Goto(p, "start", "loaded")
  /\ plugins' = [plugins EXCEPT ![p] = "none"]
  /\ UNCHANGED <<vite, holds, node, tmp, opened, blame, run, upsets>>

(* esbuild truncates the file and writes it, whole, in a second step.      *)
Bundle(p) ==
  /\ Goto(p, "bundle", "bundling")
  /\ tmp' = "torn"
  /\ opened' = opened \union {p}
  /\ blame' = Disturbs(p)
  /\ UNCHANGED <<vite, holds, node, plugins, run, upsets>>

WriteBundle(p) ==
  /\ Goto(p, "bundling", "spawn")
  /\ tmp' = IF p \in opened THEN "whole" ELSE tmp
  /\ opened' = opened \ {p}
  /\ UNCHANGED <<vite, holds, node, plugins, blame, run, upsets>>

Spawn(p) ==
  /\ Goto(p, "spawn", "ready")
  /\ node' = [node EXCEPT ![p] = "started"]
  /\ UNCHANGED <<vite, holds, plugins, tmp, opened, blame, run, upsets>>

(* The sidecar imports the file and answers with the ready message. It     *)
(* exits when there is no such module; the config may also throw, or wait  *)
(* for something that never comes, which nothing limits.                   *)
NodeReads(p) ==
  /\ node[p] = "started"
  /\ \/ /\ node' = [node EXCEPT ![p] = IF tmp = "whole" THEN "sent"
                                                          ELSE "failed"]
        /\ UNCHANGED <<blame, upsets>>
     \/ /\ \E n \in {"failed", "hung"} : node' = [node EXCEPT ![p] = n]
        /\ blame' = [blame EXCEPT ![p] = @ \union {"own"}]
        /\ Upset
  /\ UNCHANGED <<vite, pc, holds, plugins, tmp, opened, run>>

(* The handshake. Without hooks to run, and without an answer, the host is *)
(* closed, and the file removed; in the latter case QuickJS evaluates the  *)
(* config, which runs no hooks.                                            *)
KeepHost(p) ==
  /\ Goto(p, "ready", "loaded")
  /\ node[p] = "sent"
  /\ node' = [node EXCEPT ![p] = "none"]
  /\ plugins' = [plugins EXCEPT ![p] = "run"]
  /\ Acquire(p, {"sidecar"})
  /\ UNCHANGED <<vite, tmp, opened, blame, run, upsets>>

DropHost(p) ==
  /\ Goto(p, "ready", "loaded")
  /\ node[p] \in {"sent", "failed"}
  /\ node' = [node EXCEPT ![p] = "none"]
  /\ plugins' = [plugins EXCEPT ![p] = IF node[p] = "sent" THEN "none"
                                                             ELSE "lost"]
  /\ RemoveTmp(p)
  /\ UNCHANGED <<vite, holds, run, upsets>>

(* The bundle has errors, and is not written; or node cannot be started.   *)
HostFails(p) ==
  /\ Upset
  /\ pc[p] \in {"bundle", "spawn"}
  /\ pc' = [pc EXCEPT ![p] = "loaded"]
  /\ plugins' = [plugins EXCEPT ![p] = "lost"]
  /\ IF pc[p] = "bundle"
       THEN /\ blame' = [blame EXCEPT ![p] = @ \union {"own"}]
            /\ UNCHANGED <<tmp, opened>>
       ELSE /\ tmp' = "absent" /\ opened' = {}
            /\ blame' = [Disturbs(p) EXCEPT ![p] = @ \union {"own"}]
  /\ UNCHANGED <<vite, holds, node, run>>

-----------------------------------------------------------------------------
(* Dev from the loaded config to the listening server.                     *)
Prepare(p) ==
  /\ p \notin Builds
  /\ \/ Goto(p, "loaded", "lockfile") /\ UNCHANGED holds
     \/ Goto(p, "lockfile", "store") /\ UNCHANGED holds
     \/ Goto(p, "store", "compiler") /\ UNCHANGED holds
     \/ Goto(p, "store", "compiler") /\ Acquire(p, {"compiler"})
  /\ UNCHANGED <<vite, config, run, upsets>>

Listen(p) ==
  /\ Goto(p, "compiler", "up")
  /\ Acquire(p, {"port", "watcher"})
  /\ server' = [server EXCEPT ![p] = "runs"]
  /\ UNCHANGED <<vite, config, serveErr, ctx, closed, closer, upsets>>

(* The lockfile, the store, the compiler or the port cannot be had: Dev    *)
(* returns the error. It closes the compiler then, and not the config.     *)
DevFails(p) ==
  /\ p \notin Builds
  /\ Upset
  /\ pc[p] \in {"loaded", "lockfile", "store", "compiler"}
  /\ pc' = [pc EXCEPT ![p] = "failed"]
  /\ Release(p, {"compiler"})
  /\ UNCHANGED <<vite, config, run>>

(* devWithRealVite: the URL is read from Vite's output, or guessed after   *)
(* thirty seconds. buildWithRealVite waits for vite build.                 *)
StartVite(p) ==
  /\ vite
  /\ Goto(p, "start", IF p \in Builds THEN "build" ELSE "url")
  /\ Acquire(p, {"vite"})
  /\ server' = [server EXCEPT ![p] = IF p \in Builds THEN @ ELSE "runs"]
  /\ UNCHANGED <<vite, config, serveErr, ctx, closed, closer, upsets>>

ViteFails(p) ==
  /\ vite
  /\ Upset
  /\ Goto(p, "start", "failed")
  /\ UNCHANGED <<vite, holds, config, run>>

Url(p) ==
  /\ Goto(p, "url", "up")
  /\ UNCHANGED <<vite, holds, config, run, upsets>>

(* Build, done or failed: the deferred Close of the config is called.      *)
Build(p) ==
  /\ p \in Builds
  /\ \/ Goto(p, "loaded", "build") /\ UNCHANGED <<holds, tmp, opened, blame>>
     \/ /\ Goto(p, "build", "over")
        /\ Release(p, {"sidecar", "vite"})
        /\ IF "sidecar" \in holds[p] THEN RemoveTmp(p)
                                     ELSE UNCHANGED <<tmp, opened, blame>>
  /\ UNCHANGED <<vite, node, plugins, run, upsets>>

-----------------------------------------------------------------------------
(* The server ends, because it was closed or by itself, and the goroutine  *)
(* that waited for it puts the result in the channel.                      *)
ServerClosed(p) ==
  /\ server[p] = "runs"
  /\ holds[p] \intersect {"port", "vite"} = {}
  /\ server'   = [server EXCEPT ![p] = "ended"]
  /\ serveErr' = [serveErr EXCEPT ![p] = TRUE]
  /\ UNCHANGED <<vite, pc, holds, config, ctx, closed, closer, upsets>>

ServerBreaks(p) ==
  /\ server[p] = "runs"
  /\ Upset
  /\ Release(p, {"port", "vite"})
  /\ server'   = [server EXCEPT ![p] = "ended"]
  /\ serveErr' = [serveErr EXCEPT ![p] = TRUE]
  /\ UNCHANGED <<vite, pc, config, ctx, closed, closer>>

(* Wait, and the Close it ends with.                                       *)
Wait(p) ==
  /\ Goto(p, "up", "wait")
  /\ UNCHANGED <<vite, holds, config, run, upsets>>

Cancel(p) ==
  /\ pc[p] = "wait"
  /\ ~ctx[p]
  /\ ctx' = [ctx EXCEPT ![p] = TRUE]
  /\ UNCHANGED <<vite, pc, holds, config, server, serveErr, closed, closer,
                 upsets>>

EnterClose(p) == closed' = [closed EXCEPT ![p] = IF @ = "open" THEN "running"
                                                              ELSE @]

Wakes(p) ==
  /\ Goto(p, "wait", "closing")
  /\ \/ ctx[p] /\ UNCHANGED serveErr
     \/ serveErr[p] /\ serveErr' = [serveErr EXCEPT ![p] = FALSE]
  /\ EnterClose(p)
  /\ UNCHANGED <<vite, holds, config, server, ctx, closer, upsets>>

(* Close, called by another goroutine once Dev has returned.               *)
CloseBegins(p) ==
  /\ pc[p] \in {"up", "wait", "closing", "over"}
  /\ p \notin Builds
  /\ closer[p] = "idle"
  /\ closer' = [closer EXCEPT ![p] = "closing"]
  /\ EnterClose(p)
  /\ UNCHANGED <<vite, pc, holds, config, server, serveErr, ctx, upsets>>

(* What the function in the Once does, in this order.                      *)
Steps == <<"watcher", "port", "compiler", "sidecar", "vite">>

Releases(p, i) ==
  /\ Steps[i] \in holds[p]
  /\ \A j \in 1 .. i - 1 : Steps[j] \notin holds[p]
  /\ Release(p, {Steps[i]})
  /\ IF Steps[i] = "sidecar" THEN RemoveTmp(p)
                             ELSE UNCHANGED <<tmp, opened, blame>>
  /\ UNCHANGED closed

CloseStep(p) ==
  /\ closed[p] = "running"
  /\ \/ \E i \in DOMAIN Steps : Releases(p, i)
     \/ /\ \A i \in DOMAIN Steps : Steps[i] \notin holds[p]
        /\ closed' = [closed EXCEPT ![p] = "done"]
        /\ UNCHANGED <<holds, tmp, opened, blame>>
  /\ UNCHANGED <<vite, pc, node, plugins, server, serveErr, ctx, closer,
                 upsets>>

(* Every caller of Do returns when the one that runs it is done.           *)
CloseReturns(p) ==
  /\ closed[p] = "done"
  /\ \/ Goto(p, "closing", "over") /\ UNCHANGED closer
     \/ /\ closer[p] = "closing"
        /\ closer' = [closer EXCEPT ![p] = "done"]
        /\ UNCHANGED pc
  /\ UNCHANGED <<vite, holds, config, server, serveErr, ctx, closed, upsets>>

(* The program of p ends: by a signal, or by log.Fatalf after an error. A  *)
(* sidecar ends with its stdin; a Vite that was started goes on.           *)
Exit(p) ==
  /\ pc[p] \notin {"start", "over", "exited"}
  /\ pc' = [pc EXCEPT ![p] = "exited"]
  /\ Release(p, Resources \ {"vite"})
  /\ node' = [node EXCEPT ![p] = "none"]
  /\ opened' = opened \ {p}
  /\ server'   = [server EXCEPT ![p] = "none"]
  /\ serveErr' = [serveErr EXCEPT ![p] = FALSE]
  /\ ctx'      = [ctx EXCEPT ![p] = FALSE]
  /\ closed'   = [closed EXCEPT ![p] = "done"]
  /\ closer'   = [closer EXCEPT ![p] = "done"]
  /\ UNCHANGED <<vite, plugins, tmp, blame, upsets>>

Loads(p)  == Start(p) \/ NoConfig(p) \/ Bundle(p) \/ WriteBundle(p) \/ Spawn(p)
               \/ KeepHost(p) \/ DropHost(p)
Goes(p)   == Prepare(p) \/ Listen(p) \/ StartVite(p) \/ Url(p) \/ Build(p)
Ends(p)   == Wakes(p) \/ ServerClosed(p) \/ CloseStep(p) \/ CloseReturns(p)

SessionNext == \E p \in Sessions :
  \/ Loads(p) \/ NodeReads(p) \/ Goes(p) \/ Ends(p)
  \/ HostFails(p) \/ DevFails(p) \/ ViteFails(p) \/ ServerBreaks(p)
  \/ Wait(p) \/ Cancel(p) \/ CloseBegins(p) \/ Exit(p)

(* Goroutines and processes that can go on do; no caller has to call Wait, *)
(* cancel its context or call Close.                                       *)
Fairness == \A p \in Sessions :
  /\ WF_sessionVars(Loads(p)) /\ WF_sessionVars(NodeReads(p))
  /\ WF_sessionVars(Goes(p))
  /\ WF_sessionVars(Wakes(p)) /\ WF_sessionVars(ServerClosed(p))
  /\ WF_sessionVars(CloseStep(p)) /\ WF_sessionVars(CloseReturns(p))

SessionSpec == SessionInit /\ [][SessionNext]_sessionVars /\ Fairness

-----------------------------------------------------------------------------
(* ViteConfig.Close asks callers to keep the config and to close it        *)
(* afterwards (viteconfig.go:33). A session that is over has released      *)
(* everything; one whose Dev has failed has, except for the sidecar; of a  *)
(* program that has ended only a Vite it started goes on. The bundled      *)
(* config is left behind only with a sidecar, or by a program that ended.  *)
LeaksExplained ==
  /\ \A p \in Sessions :
       /\ pc[p] = "over" => holds[p] = {} /\ node[p] = "none"
       /\ pc[p] = "failed" => holds[p] \subseteq {"sidecar"}
       /\ (pc[p] = "failed" /\ holds[p] # {}) => p \notin Builds /\ ~vite
       /\ pc[p] = "exited" => holds[p] \subseteq {"vite"}
       /\ closed[p] = "done" => holds[p] = {} \/ pc[p] = "exited"
  /\ tmp # "absent" =>
       \E p \in Sessions :
         \/ pc[p] \in {"bundling", "spawn", "ready", "exited"}
         \/ "sidecar" \in holds[p]

(* The JavaScript plugins of a config that Node can evaluate run, unless   *)
(* another session of the project, which shares the bundled config file,   *)
(* wrote or removed it before the sidecar had read it.                     *)
PluginsExplained ==
  \A p \in Sessions : plugins[p] = "lost" => blame[p] # {}

(* A call of Dev or Build returns, unless the config never finishes in its *)
(* sidecar. A Wait returns when its context is cancelled, when the server  *)
(* ends, and when another goroutine calls Close; and so does that Close.   *)
CallsReturn == \A p \in Sessions :
  /\ (pc[p] \in Loading \union Preparing) ~>
       (pc[p] \in Returned \union {"up"} \/ node[p] = "hung")
  /\ (pc[p] = "wait" /\ (ctx[p] \/ closer[p] # "idle" \/ server[p] = "ended"))
       ~> (pc[p] \in Returned)
  /\ (closer[p] = "closing") ~> (closer[p] = "done")

=============================================================================
