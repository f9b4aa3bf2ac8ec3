# Verification of viteless

viteless is a Vite-like development server and bundler written in Go. It fetches
npm packages from an ESM registry into a cache shared by all projects of a user,
pins them in a lockfile, pre-bundles them for the browser, compiles Vue components
with a pool of embedded JavaScript engines, runs JavaScript Vite plugins in a Node
sidecar, and pushes hot updates to open pages. This directory holds TLA+ models of
its stateful parts, the TLC runs that check them on small instances, and proofs
that TLAPS checks for all instances. File names are relative to `src/`.

Contents: [Parts of the system](#parts-of-the-system) ·
[Modules](#modules) · [Runs and bounds](#runs-and-bounds) ·
[Fairness](#fairness) · [Disagreements](#disagreements) · [Mutants](#mutants) ·
[Proofs](#proofs) · [Not modelled](#not-modelled) · [Plan](#plan)

## Parts of the system

| part | state | operations | hard behaviour | what makes it correct |
|---|---|---|---|---|
| download cache, `internal/store` | content files `cas/<hash>`, metadata files `meta/<url hash>`, a lock file per URL, temporary files | `Get`, `Put`, `Delete`; each under `flock` | several processes share it; any system call fails; any process dies; the lock covers a URL but not a content file | metadata never names missing or torn bytes; operations are atomic, though a `Get` may miss; no lock leaks |
| dependency fetcher, `internal/fetcher` | per `Fetch`: semaphore, table of claimed URLs with `done` channels, packages found | `Fetch`; recursive `fetchOne`, `recurseImports` | a goroutine per import, parents wait for children, waiters for leaders, all for slots; retries; fallbacks; cancellation | bounded requests, one download per URL, a successful fetch is a closure, it returns, nothing is left |
| Vue compiler pool, `internal/sfc/vue` | free-list channel, `closed`, `closeOnce`, a mutex and a runtime per compiler | `NewPool`, `Compile`, `Close` | `Close` against running and queued compiles; factories that fail | scripts run alone on live runtimes; compilers are conserved; no runtime outlives the pool |
| pre-bundler, `prebundle.go` | entry set and last build per package; a directory per entry set on disk | `register`, `serve`, `loadFromDisk`, `saveToDisk`, `gcDisk` | builds outside the mutex; stops in the middle of a save; a page that mixes builds | every file a page was sent to exists; one copy of a module per page; directories are complete |
| JavaScript plugin host, `jsplugin.go`, `jsplugin_sidecar.mjs` | pending map, call ids, pipes, process, bundled config | start and handshake, `call`, `dispatch`, `Close` | answers in any order, overlapping hooks, full pipes, a dying sidecar, `Close` in flight | the right answer reaches each caller; every call and `Close` end; no process or file is left |
| lockfile, `internal/lockfile` | package map under an RW mutex; `nexus.lock` | `Add`, `Remove`, `Resolve`, `Save`, `Load` | lost updates of two processes; ambiguous versions | a build that succeeded is repeatable; a spec has one version |
| on-demand hook, `build.go` `newOnDemandFetch` | a mutex around the lockfile | fetch outside, add and save under the mutex | concurrent fetches of one bare spec; fetches that bring other packages along | the mutex is given back; what is pinned is cached and in the declared range |
| resolver, `internal/resolver` | none of its own; reads lockfile and store | `ResolveURL`, `resolveOne` | two paths that are meant to agree | dev and build resolve alike |
| dev server and HMR, `dev.go`, `server.go`, `host.go`, `hmr.go` | watcher debounce, hub of subscriber channels, page registry | `devWatch`, `Broadcast`, `applyUpdate` | dropped writes, full buffers, overlapping re-imports, reconnects | a page ends up with the file's last version |
| node_modules optimizer, `nodemodules.go` | spec set and last build, under one mutex per server; a directory per project | `resolve`, `load`, `ensureBuilt` | rebuilds under an open page; names that collide; servers that share the directory; failing builds | the page gets the package it imports, one copy of each, and no 404 |
| module host, `host.go` | which of the two modes a project is in; the page's view of URLs | `ResolveImport`, `LoadModule` | one package under two URLs; URLs that outlive a restart | as above |
| sessions: `dev.go`, `build.go`, `viteconfig.go`, `realvite.go`, `cmd` | sidecar, port, watcher, compiler, child processes; the bundled config file | `Dev`, `Wait`, `Close`, `Build`, `LoadViteConfig` | failures half way; `Close` from two sides; two programs on one config file; exit by `log.Fatalf` | what is acquired is released; plugins run; calls return |
| production output: `build.go`, `internal/bundler`, `worker_plugin.go`, `public_copy.go` | the output directory | `Build`: workers, esbuild's outputs, public files, `index.html` | overlapping and killed builds; nothing empties the directory | a build that succeeded leaves a whole site |
| Go plugin container, `plugin.go` | the ordered plugin list | `resolveId`, `load`, `transform`, ... | order and short-circuit | first answer wins, transforms fold in order |
| rewriting, SFC front end, shims | none that outlives a call | pure functions | | |

How they interact. A page asks the dev server (`server.go`, `host.go`) for a
module. The host transforms it: it compiles `.vue` files in the *pool*, passes
sources through Go *plugins* and the *plugin host*, and rewrites each bare import
with the *resolver*, which reads the *lockfile* and the *cache*. A spec that is
not pinned goes to the *on-demand hook*, which runs a *fetch* (its goroutines call
the cache's `Get` and `Put`), adds the packages to the lockfile and saves it. The
rewritten import is *registered* with the *pre-bundler*, whose builds read the
cache; its files are what the page asks for next. A project with a `node_modules`
directory has the *optimizer* in place of all that. Meanwhile the watcher calls the
hub, which sends updates to the page. A *session* starts all of these, and the sidecar
of the plugin host with them, and is to end them; a production build uses the same
resolver, hook and plugins, and writes the *output directory*. Everything but the
fetch's own goroutines and the plugin host's dispatcher runs in HTTP handlers, which
are concurrent. The cache, the directories of the pre-bundler and the optimizer, the bundled config and the
output directory are shared with other processes and survive restarts.

The hazards of each part, with lines, are listed in `PROJECT.json`, each with the
properties that would catch it going wrong. Five more are real and have none:
neither file of the cache is synced before it is renamed (`store.go:345`; see "Not
modelled"); two builds that overlap lose the lockfile additions of the first to save
(`lockfile.go:168`; the model has it, and what it costs is why `Repeatable` is asked
of builds that ran alone); when the fetch of a subpath's root fails, the import is
fetched as written and pins nothing (`resolver.go:323`; likewise); directories created
after the start are never watched (`dev.go:352`); and the on-demand mutex is
unlocked by hand on each path (`build.go:291`), which all paths of the model do.

## Modules

| module | models | based on |
|---|---|---|
| `StoreAbs` | what the cache promises: an atomic map from URLs to bytes, in which a `Get` may miss | |
| `Store` | the cache, one action per system call | refines `StoreAbs` |
| `StoreProofs` | theorems about `Store` | `Store` |
| `Fetcher` | one `Fetch` | |
| `FetcherProofs` | theorems about `Fetcher` | `Fetcher` |
| `Pool` | the compiler pool with the locking of its compilers | |
| `Prebundle`, `PrebundleProofs` | the pre-bundler of one package, its directories, and a page; theorems | |
| `PluginHost`, `PluginHostProofs` | host, dispatcher, pipes and sidecar; theorems | |
| `OnDemand`, `OnDemandProofs` | resolver, lockfile and on-demand hook, in several processes of a project; theorems | |
| `Updates` | watcher, hub, event stream and the runtime in a page | |
| `Optimizer` | the node_modules optimizer of several servers on one directory | |
| `Host` | the module host and a page, in both modes | extends `Optimizer` |
| `HostProofs` | theorems about `Host`, and about the pool whose compilers it serves components from | `Host`, `Pool` |
| `Session` | the lifetime of dev sessions and builds of a project | |
| `DevServerProofs` | theorems about the two models of `dev.go` | `Session`, `Updates` |
| `Dist`, `DistProofs` | the output directory of builds that may overlap; theorems | |
| `MC*` | constants and symmetry for TLC | the module they name |

Where two components have their theorems in one module, the names of one of them carry
its own (`PoolSpec`, `PoolTypeOK`, `SessionSpec`, ...); they share no state.

### Store

`meta` and `cas` are the two directories: for each URL the hash its metadata
names, for each hash the content of the file of that name. A hash and the bytes
it is the hash of are one value; `Torn` is any content that is not complete.
`holders` is who holds a URL's `flock`; `tmp` is the temporary file each caller
writes. `pc` follows `Get`,
`Put` and `Delete` from the lock call on; the mutex-like helper `lock` in
`lock.go`, with its deferred unlock, is `Lock` and the `Unlock` inside `Return`.
A caller is a goroutine of any process: `flock` is taken on a new descriptor per
call, so two goroutines of one process exclude each other like two processes do.
Every system call may fail: most by `IOError`, which ends the operation with an error. The
two calls of `os.Stat` return none. In `Get` any error of it, whether or not the content file is
there, becomes the reply "not cached" (`StatBlob`, `store.go:149`); in `writeBlobAtomic` it
means that the file is written again over the one that is there (`StatDst`). `Crash` is the death of the process: descriptors close,
the temporary file stays. One crash in the model kills one caller; a process with
two callers is two crashes in a row, which the model allows.

`Atomic` is the refinement: `value` is `meta`, an operation takes effect at the
step that returns, and a Get's reply is computed when the lock is released. A
Get may be told "not cached" of what is there (`StoreAbs!Miss`), and its callers
fetch it again; what it may never do is answer with other bytes, or with none. The
path that Get returns is opened later by the caller; no code under `src/` removes
content files, so it stays valid.

### Fetcher

A task is a goroutine of the walk: the root call, or the import of a spec by the
package at a URL (`recurseImports` starts one per import). `imports` is the
graph, chosen in the initial state from `Graphs`; `ReqURL` is `specToURL`,
`Resolved` where redirects and `X-ESM-Path` lead, `Entry` the file a package
without JavaScript declares in its `package.json`. `sem` is the semaphore with its
holders, `inflight` the `sync.Map` of claims, `done` the closed channels,
`pending` what a leader left for its waiters: `None` is the zero `Package` with a
nil error, which is what `fetchOne` leaves after an error. The fallback calls `fetchOne` inside `fetchOne`; a task
therefore has a `frame`, and a slot belongs to a frame. `Fail` is every return
with an error, `Retry` an attempt that is repeated, `Abort` the noticing of a
cancelled context. The store is the set `cached`; its own behaviour is `Store`'s.

### Pool

`NewPool` runs one factory per compiler (`Build`) and collects the results one
by one (`Collect`): `HandOver` if all came up, `TearDown` if any failed.
`Compile` is `Check` (closed, under the pool's mutex), `TakeIdle` from the channel,
`Lock` of the compiler's own mutex, `Eval`, and the deferred `Give`. `Close` is
`closeOnce.Do`: `Enter`, `CloseOne` per member under its mutex, `Finish`,
`Leave`. `idle` is the free-list: a set, because its order only matters for
fairness.

### Prebundle

`entries` and `built` are the two maps of the pre-bundler for one package;
handlers follow `serve` through its two critical sections (`Serve`, `Install`)
and the work between them: `ReadManifest`, `ReadFile`, `Touch`, or `Bundle` /
`BundleError` and then `SaveOpen` / `SaveWrite` per file and `SaveDone`. `disk[S]` is the
directory of entry set `S`, if `dirs` has it; a file is absent, torn (truncated, not yet
written) or whole. A torn manifest reads as empty, which is a miss, and any read may fail,
which is one too. `SaveFail` is a write that fails, `SaveLost` one that finds the directory
gone. `gcDisk` removes a directory that was old when it looked (`GcStat`) the way
`os.RemoveAll` does: it lists the files (`GcList`), unlinks one after the other (`GcUnlink`,
or `GcFail`), and removes the directory if nothing has come into it meanwhile (`GcRmdir`).
Handlers go on between any two of these steps, and the server may be stopped there, which
leaves the rest. A save that has a file open when its name is removed writes to no name.
A build is a function of the entry set (`Outputs`, `Carries`, `ImportsOf`): esbuild
with splitting inlines a module that one entry uses and puts modules used by the
same several entries in a chunk, which is named by its content. The page asks
for each URL once until it is reloaded, as a browser's module map does; it outlives
`Restart`, in which the process forgets everything but the disk.

Three variables record history for the properties: `grown`, the entry set has changed
since the page was loaded; `contended`, a save of the set began while another handler was
saving or loading its directory, or over a whole manifest; `swept`, `gcDisk` has
removed a file of the directory since the last save there began.

### PluginHost

`startNodePluginHost` is `Start`, `Handshake` or `HandshakeFails`, which closes
the half-built host (`Starter` in `Shut`). `call` is `Register` (id and channel
under the mutex), `Write` (blocks while the pipe is full) and `Receive`. `dispatch`
is `Route` (look up and delete under the mutex), `Send`, and at the end of the
stream `StreamEnds` and `Sweep`. `Close` is `SetClosed`, `CloseStdin`, `Kill`,
`Reap` and `Remove`; a second caller returns at `SetClosed`. The sidecar is one
thread: it starts hooks as lines arrive (`Begin`), hooks settle in any order
(`Settle`), and an answer is written to a pipe that may be full (`Reply`). A plugin
that prints without a newline destroys the answer after it (`Garble`).
The sidecar may exit by itself at any instant (`Die`). The lines in the stdin pipe
are a set: hooks overlap, so their order there does not show.

### OnDemand

A process is a build or the dev server; `home` says which handlers run in it.
`Start` is `LoadOrNew`; a handler follows `resolveOne` (builds) or `ResolveURL` (dev):
`Resolve` asks the lockfile of its process, `Get` the store, `Fetch` the registry, and
then the hook of `build.go` takes its mutex (`Add`), adds the rest of the result
(`AddTransitive`) and saves (`Save`, `SaveFails`; `SkipSave` in dev, which has no path
to save to). `job` says what is fetched, since an import with a subpath
takes up to three fetches: the root, the subpath joined to it, and the path as
written. `newest` is where the registry redirects a name without a version; `Release`
moves it. `Pick` is what it makes of the range that `pinVersion` adds. `Fetch` is one
step, with `FetchFails` leaving any part of the blobs in the store: how it comes
about is `Fetcher`'s subject.

History variables: `raced`, specs two handlers of a process fetched at once;
`dragged`, specs that were pinned as another package's import; `alone`, builds that no
other build overlapped; `last`, what the last such build answered with.

### Updates

The content of a file is the number of its saves; an editor truncates and writes
(`Truncate`, `Write`), or renames a new file over the old one (`Replace`). `events` is
the channel of fsnotify, `hot` the files inside the debounce window, which ends at any
moment (`Cool`). `Watch` is one round of `devWatch` with `Broadcast`; `buffer` holds
the channel of each subscriber. In a page, `Message` is `onmessage`, `StartImport`,
`Serve` and `Apply` are `applyUpdate` before, in and after its `await`, and `Reload` is
`location.reload()`, after which the modules (`Load`) and the event stream
(`Connect`) come in any order. A module that is served half written may or may not
parse, so `Apply` may take it or reload.

`excused` records history: the files of which a page has missed an event (debounce,
full buffer, no connection) or overlapped two re-imports since their last save.

### Optimizer and Host

A spec stands for the module it names, and `Imports` for the graph of `node_modules`.
`specs` and `builtSig` are the two fields under the server's mutex; a request that holds
it is `want`, and `at` is where it is: `Take` (lock, and `ensureBuilt` up to the removal
of the old proxies), `WriteProxies`, `Bundle`, `Emit` per output file, `Read`. `Resolve`
is `resolve`. The mutex is held through a build, so a server does one thing at a time;
what interleaves is a second server on the same root (`dev.go:266` gives it another
port), whose `entriesDir`, `out` and `chunks` are the same directories. `NameOf` is
`sanitizeSpec`, which maps two specs to one name if they differ in punctuation only;
of the proxies of such specs the one that is written last wins, in the order of a Go
map. esbuild is `EntryOf` and `Split`, as in `Prebundle`.

`Host` adds `ResolveImport` (`Import`), `LoadModule` in registry mode (`LoadBlob`) and in
node_modules mode (`TakeOwn`, the steps above, `LoadReads`, `LoadFails`), and a page
that asks for a URL once until it is reloaded. `NpmInstall` adds a package; `Restart`
forgets all but the directories. `since` and `foreign` record history: the spec set has
grown under the page, a file operation failed, an import that cannot be resolved was
registered, another server wrote in the directory, the server was restarted.

### Session

`pc` follows a goroutine through `LoadViteConfig` (`Start` to `KeepHost` or `DropHost`, with
`HostFails` for what fails before the handshake), `Dev` (`Prepare`, `Listen`), `Build`, or
the delegation to an installed Vite (`StartVite`, `Url`). `holds` is what it has acquired.
`tmp` is the bundled config file: `Bundle` truncates it, `WriteBundle` fills it, `NodeReads`
is the sidecar's import of it, `RemoveTmp` the removal in the host's `Close`. The
file's name depends on the project only, so another session may truncate or remove it
in between; `blame` records who did, or that the config itself failed. `Wait`, `Cancel`
and `Wakes` are `DevServer.Wait`; `CloseBegins`, `CloseStep` and `CloseReturns` are `Close`
and its `sync.Once`, step by step in its order. `Exit` is the end of the program at any
instant, by a signal or by `log.Fatalf`.

### Dist

`dist[f]` is the version of the sources that a file of the output directory was made
from; it is `Torn` from `OpenFile` to `WriteFile`, except for public files, which are renamed
into place (`CopyFile`) and are read when they are copied, not when the build began.
A build bundles (`Begin`; workers are written here, `CompileFails` or `Bundled` ends it),
emits, copies the first public directory that has files (`NextDir`, `CopyFails`), looks
for the stylesheet (`StatCSS`), reads the project's `index.html` (`ReadShell`) and
writes the site's (`WriteIndex`). The page, like the public files, is read when all else is
written, and is of the version the sources have then (`shell`), while the entry is of the one
they had at `Begin` (`snap`); `Edit` may come between. `CutShort` is a kill
or an error at any step. esbuild writes its outputs one after the other, in any order.
Public files have names of their own: a public file that overwrites an output is
the project's doing. `alone`, `span`, `good`, `reign`, `skipped` and `scars` record history:
which build writes by itself and which versions the sources have had since it began to write,
the last build that did and succeeded and the same of it, a failed copy, and
the workers a killed build had open.

## Runs and bounds

| run | checks | bounds |
|---|---|---|
| `store` | `LockProtocol`, `RecordedBytesAreThere`, `BlobsAreWhole`, `Atomic` | 2 callers, 2 URLs, 2 contents; any number of operations, failures and crashes; all initial states of an intact cache that `Init` allows |
| `fetch` | `RequestsBounded`, `OneDownload`, `SuccessIsClosure`, `NothingLeftBehind`, `FailureSurfaces`, `FetchReturns`, `CancelUnblocks` | three graphs (a diamond, one with a package without JavaScript, one with a cycle), floating specs, any part of the cache filled; 2 slots, 2 attempts, 2 failures |
| `fetch_cycle` | `AlwaysReturns` is violated | the cycle, no failures |
| `pool` | `ExclusiveUse`, `FreeListConserved`, `NothingSurvivesClose`, `CompileReturns`, `CloseReturns` | 3 callers, 2 compilers, 2 closers; any factory may fail, any number of compiles |
| `prebundle_page` | `MissesExplained`, `ForksExplained` | 3 entries over 2 modules, 2 handlers, 1 restart, any number of reloads; no directory |
| `prebundle_disk` | `TypeOK`, `DiskComplete` | 1 entry (two entry sets, one of them empty), 2 handlers, 2 restarts, 2 failing builds, writes or unlinks, any number of failing reads |
| `plugin_host` | `RightAnswer`, `DispatcherFree`, `NothingLeft`, `CallsEnd`, `Answered`, `CloseReturns` | 2 callers, 3 calls, 2 closers and the starter, pipes of one line, 1 answer destroyed |
| `ondemand` | `PinsExplained`, `PinsAreCached`, `Repeatable` | 2 specs, one of which imports the other, which has two releases in the declared range; 3 handlers in two builds, or in the dev server and a build; 3 imports, 1 failure; an empty lockfile or one that came with the repository; any number of starts and kills |
| `updates` | `StaleExplained`, `OnlyForward`, `WatcherRuns` | a module that accepts updates and index.html; 1 page with a buffer of 1; 3 saves, 1 lost connection, 2 re-imports in flight |
| `host` | `RightModule`, `ForksExplained`, `MissesExplained` | 3 specs, one of which imports another and two of which share a sanitized name; one is installed late; 2 servers on one root, both modes; 2 upsets (failing file operations, requests to the other server, restarts); any number of reloads |
| `session` | `LeaksExplained`, `PluginsExplained`, `CallsReturn` | a dev session and a build of one project, with and without Vite; 2 upsets (failing steps, configs that hang, servers that stop); exits anywhere |
| `dist` | `SiteIsWhole`, `StyleExplained` | 2 builds that may overlap (symmetric); 2 versions of the sources, one with a stylesheet, with a chunk each and a worker in common; 2 public directories, the first empty, one public file; 2 upsets |

Every run also evaluates the assumptions of its module. The type invariants are
theorems for all modules.

Why these are enough.

* *Store*: operations meet on a lock or on a content file; two callers make
  every pair meet on either. The proofs remove the bound.
* *Fetcher*: the diamond makes two goroutines reach one URL, by a floating spec
  and by a fixed one and with the package cached or not; with 2 slots and 4
  goroutines there are waiters for slots, leaders and children at once; two
  failures allow a retry followed by a final failure, and two independent ones. The
  proofs remove the bounds for the safety part that they cover.
* *Pool*: the third caller queues while the other two run; the second closer
  waits in `closeOnce`.
* *Prebundle*: e1 and e2 share both modules, e3 uses one of them, so that its
  registration splits their chunk: some files of the old build do not exist in the
  new one, others keep their names. Pages and directories are checked apart: the
  page does not care where a build came from unless a file is torn, and the
  directory does not depend on how many entries a build has. Two files, an entry and the
  manifest, are enough for a sweep to be cut between them, and two restarts to let the
  directory become old, stop its removal and come back to what is left. The proofs remove
  the bounds, and the split with them.
* *PluginHost*: pipes of one line fill up at once; the third call is made after one
  of the first two has ended, in success or failure, so that left-over entries of
  the pending map and late answers occur.
* *OnDemand*: two handlers of one process race for the mutex and for a spec, the
  third is in another process and writes or reads the same file and store. Three
  imports are enough for a spec to be fetched, dragged in and looked up again by the
  next build after a release.
* *Updates*: pages share nothing but the watcher, which never waits for one, so
  one page stands for each. Three saves give two updates that overlap and one
  that comes after; a truncating save makes two events, so the buffer of one overflows and
  the debounce bites. The real buffer of 16 overflows in the same way.
* *Host*: dom and react are the shortest graph with a chunk, and react is imported both
  by the user and by dom. The third spec collides with dom's name and cannot be resolved
  until it is installed. Servers meet only in the directory, so a third adds no
  new meeting of two. Two upsets allow a failure followed by a restart. The proofs
  remove the bounds.
* *Session*: sessions meet only in the bundled config, where one is the victim and the
  other the cause; the proofs remove the bound. Two upsets allow a failure of each.
* *Dist*: of two builds each has its outputs overwritten by the other at every step,
  and one of them leaves a stylesheet the other does not have. Two upsets cut a build
  short and fail the next. The proofs remove the bounds.

Deadlock is checked in `store`, `host`, `dist` and in the `prebundle` and `ondemand` runs. A
fetch, a pool, a plugin host and a session end, and a page at rest waits for saves, so
their runs switch it off; that they get as far as they should is what their
liveness properties say.

`FetchReturns` has the premise that the graph has no cycle and that fewer
goroutines may enter the fallback than there are slots. Both are properties of
the initial state. `fetch_cycle` shows that the first cannot be dropped; for the
second see "Disagreements", 2. `Answered` has the premise that hooks settle.

## Fairness

* *Fetcher*: each goroutine's next step (the scheduler), where a request's
  answer and a slot's release count as the step of who waits for it; the registry
  answers. A waiter for a slot may be overtaken, but each goroutine takes a
  slot at most twice, so weak fairness is enough.
* *Pool*: scripts end; goroutines are scheduled; and, because a Go channel
  serves its receivers in the order of their arrival, a caller who waits is not
  passed over for ever (strong fairness of `TakeIdle`). The closers lock a compiler's
  mutex under weak fairness: once `closed` is set, no new caller passes `Check`, so
  the competition ends.
* *PluginHost*: callers, dispatcher, closers and the sidecar's thread are
  scheduled. Nothing makes a hook settle, a caller call, or anyone close.
* *Updates*: the watcher's goroutine runs. Nothing is asked of browsers, whose tabs
  may be frozen, nor of the debounce window, which a stream of events may keep open.
* *Session*: goroutines and processes that can take a step do (the loading of a config,
  its sidecar, the steps to a running server, `Wait` once its context is cancelled,
  `Close`). No caller has to call `Wait` or `Close`, no context to be cancelled, no
  server to stop; a config that never finishes in its sidecar is an outcome of
  `NodeReads`, and `CallsReturn` excepts it, since nothing in the code limits it.
* *Store*, *Prebundle*, *OnDemand*, *Host*, *Dist*: no fairness; their properties are safety.

## Disagreements

What the code does against what its comments say. The first is a run that TLC must
find violated; the next three are disjuncts or premises of properties of passing runs
and could be.

1. `fetch_cycle`: packages that import each other deadlock `Fetch`. The
   leader of the first waits for its child, the leader of the second; the latter's
   child waits for the former's `done` channel. `fetcher.go:393` says done is closed
   "so waiters don't block forever"; the on-demand hook passes a context that
   nobody cancels.
2. The fallback for packages without JavaScript calls `fetchOne` with a slot in hand
   (`fetcher.go:346`); with `Concurrency` 1, or as many such packages at once as there are
   slots, `Fetch` hangs. `fetcher.go:306-310` says the slot is never held across
   recursion, and `:103` offers 1 as a setting. It is the premise `SlotsToSpare`
   of `FetchReturns`.
3. One package bundle can put two copies of a module in a page (`prebundle.go:290`),
   against `prebundle.go:46` and `:66`. `Prebundle!ForksExplained` says when: only after
   the entry set has changed under the page.
4. A bare import in the body of a package is fetched, at the registry's latest version,
   and pinned (`fetcher.go:1030`), against `fetcher.go:1011` ("the caller drops them")
   and `build.go:298` (versions are pinned "to what the project declares").
   `PinsExplained` names it as one of three ways to two versions of a
   package in a lockfile; the others are a race of two handlers, and a lockfile that
   came with both.

What the properties of `Host`, `Session` and `Dist` except, because the code does it:

* One import that cannot be resolved makes every later build of the node_modules bundle
  fail, for all pages, until the server is restarted: `ensureBuilt` bundles all specs ever
  requested ("poisoned" in `Host!MissesExplained`).
* Specs whose names differ in punctuation only get one file, and a page that imports
  one may run the other (`RightModule`), though `nodemodules.go:54-55` calls the names
  "reversible enough".
* The bundle forks when a spec is registered after a page has its first file, or when
  two servers share the directory, against `nodemodules.go:24-27`; in registry mode a
  package that user code and another package import is loaded under `/@pre/` and under
  `/@dep/`, against `rewrite.go:7-10` (`Host!ForksExplained`).
* A package that fails to pre-bundle is answered with 404, where `host.go:630` and
  `prebundle.go:52-54` promise to fall back to serving it module by module.
* After a restart the directory is served as it is until a spec is registered
  (`RightModule`, "restarted").
* A `Dev` that fails after it has loaded the config leaves its sidecar running
  (`LeaksExplained`), and a Vite it delegated to survives an exit by signal or `log.Fatalf`.
* Two sessions of a project share the bundled config file, and one may lose its plugins
  to the other without an error (`PluginsExplained`).
* The handshake with a sidecar whose config never settles has no timeout (`CallsReturn`).
* `index.html` links whatever stylesheet it finds, also one an earlier build has left,
  whole or torn, where `build.go:451` says "when the entry produced a CSS sibling"
  (`StyleExplained`); errors while public files are copied are not reported
  (`SiteIsWhole`, `skipped`).
* When the sources are edited during a build, the page, which is read last
  (`build.go:470`), may be of later sources than the entry it loads (`SiteIsWhole`, `reign`).
* A `Get` of the cache may answer "not cached" of bytes that are there and whole, since any
  error of `os.Stat` is taken for a missing file (`store.go:149`; `StoreAbs!Miss`). What comes
  of it is another download.

Smaller ones, seen in the code and without a property: the temporary file of a `Put`
that died is not removed by "the next Put" (`store.go:185`), since its name is unique;
a waiter for a URL whose leader failed gets a zero package and no error, against
`fetcher.go:397`, but `FailureSurfaces` holds through the leader's own parent; a stop in the
middle of the second of two saves of one build directory leaves an empty file under
a manifest, against `prebundle.go:222`, and a save that meets a load has it read one:
`DiskComplete` says that it takes two handlers, or a save over a whole manifest; `gcDisk` may
remove the files of a directory that a handler has just loaded or is writing to, against
`prebundle.go:193` ("an in-use dir is never at risk"), and if it is stopped leaves a
manifest with files missing, which makes the next load miss (`DiskComplete`, `swept`);
a missed frame leaves a module stale until the file is saved again, where
`hmr.go:35` calls it "momentarily stale" (`StaleExplained`); `Sourcemap: false` makes no
difference, since `SourceMapNone` (`build.go:178`) is the zero value that `bundler.go:507`
replaces by linked maps; when a delegated Vite exits at once, `Dev` still waits thirty
seconds and then guesses its URL (`realvite.go:95`).

## Mutants

Each component module has a section of mutants: operators that change one
action as a plausible mistake would (a forgotten release, a check that is missing,
an entry that is not deleted, an order that is swapped). `PROJECT.json` pairs each
property of each passing run with the mutant that breaks it under the run's own
configuration, so no property holds for want of something that could go wrong.

## Proofs

Every theorem holds for every value of the constants that the named assumption of
its module allows: any number of callers, URLs, packages, slots and compilers. TLC
evaluates the assumptions in the runs.

* `StoreProofs`, from no assumption on sizes: `Invariance` (the inductive
  invariant), `TypeCorrect`, `Locking`, `Recorded`, `Whole` and `Refinement`. The properties
  are not inductive alone. That metadata names whole bytes when
  `RenameMeta` runs needs what each process knows at each step: past
  `renameBlob` its content file is whole, in `renameMeta` its temporary file holds
  the bytes of its call, and content files never go away. Locking needs that
  the holders of a URL are exactly the processes past their lock call. The
  refinement then maps each returning step to a step of `StoreAbs` (that of a Get whose
  `os.Stat` fails to `Miss`) and every other step to a stutter. For a Get that takes three steps it needs that the
  metadata it has read is still what the file says, which holds because a shared
  lock excludes writers.
* `FetcherProofs`: `TypeCorrect`, `Bounded`, `SingleLeader`, and about the tree of
  tasks `CleanedUp`, `Surfaces`, `WholeClosure`. The first invariant is
  `TypeOK /\ SlotsBounded /\ DoneAreClaimed /\ TaskInv`. A request holds the slot of
  its own frame, which has to be carried from `Acquire` through the fallback and the
  claim; a task that leads has its URL in `inflight` under its own name and not in
  `done`, and to keep the latter, `done` may hold claimed URLs only. The cardinality
  of the slots comes from the guard of `Acquire` with the theorems on finite sets.

  What a Fetch returns depends on tasks that have long ended, so the second invariant,
  `Tree`, relates them: who claimed a URL leads it until its channel is closed, and then
  the URL is recorded or its leader failed (`Claims`); the leader of a recorded URL has
  started all its imports and ends when they have, and fails when one has (`Recorded`); a
  task is the root or the import of a recorded package (`Born`). From these one would
  follow parents up to the root by induction on the length of the chain, which is
  out of the prover's reach. `Rooted` says it without numbers: every nonempty set of
  started tasks that has with each of them its importer's leader has the root. It is applied to the
  set of tasks that have not ended, and to the set of those that have failed. `Needed`
  does the same for the closure. That the registry redirects nothing to a URL it
  answers with 404 is assumed here: what is stored and claimed is then never a URL that
  stands for another (`Honest`).
* `PluginHostProofs`: `TypeCorrect`, `Right`, `Free`, `Nothing`. Ids above `nextID` are out of
  use (`Numbered`), which is what makes a new channel empty; their number is bounded together
  with the calls under way (`Counted`); a channel holds its own id's answer
  (`OwnAnswers`). For `Nothing`: once the host is closed, somebody is between the first
  `Close` and its end until the process is dead and the file removed (`CloseInHand`).
  The assumption is that callers, closers and the starter are different goroutines.
* `OnDemandProofs`: `TypeCorrect`, `Explained`, `Cached`, `Repeats`. That what
  is about to be pinned has been fetched (`FetchedFirst`) gives `Cached`. `Explained` needs
  `OneVersion`: a package that is neither raced nor dragged is fetched only by one
  handler of a process and only while the lockfile has none. `Repeats` goes over several
  processes and restarts: what a build answered is in its lockfile (`ServedIsPinned`), the
  file is the lockfile of a build that is alone (`SavedAlone`), so the pins of the
  last good build are in the file and in every lockfile loaded since, and handlers use
  them (`LastPins`). The number of specs is assumed finite, for the cardinality
  in `PinsExplained`.
* `DevServerProofs`, on `Updates`: `TypeCorrect`, `Stale`, `Forward`. For each page and file, what the page
  runs is the content of the file, or something is on its way: a truncation, an event, a
  message, a re-import, unless the page is excused (`ShownOK`, `OnItsWay`). A re-import that
  has arrived is not older than what runs, and is the only one of its file
  unless excused (`ImportOK`), which gives `Forward`. `Spent` bounds the contents.
* `DevServerProofs`, on `Session`: `SessionTypeCorrect`, `Leaks`, `Plugins`. `Phases` and `Holdings` say what a
  session may have where it is, `FileKept` who will remove the bundled config, `Blamed` that
  whoever finds less than its own bundle has been disturbed.
* `DistProofs`: `TypeCorrect`, `Whole`, `Style`. While a build writes alone, what it has
  written is as it wrote it (`OutputsKept`, `PublicKept`), because nobody else is in a
  writing phase (`Solitude`) and no name of one kind is a name of another; the page it
  has read is of a version that the sources have had since it began to write (`ShellKept`), and
  the sources have one of those now; after it
  has succeeded nobody has written an output (`Calm`). Workers are written by builds that do
  not count as writing yet, so they have a part of their own (`WorkersKept`).
* `HostProofs`, on `Pool`: `PoolTypeCorrect`, `Exclusive`, `Conserved`, `NothingSurvives`. The
  invariant adds: who is in a script holds the mutex of the compiler it took, and a
  mutex is held by no one else (`MutexInv`); a script runs on a live runtime, since
  `CloseOne` needs the mutex and `Lock` refuses a dead one (`LiveInv`); a caller past
  `TakeIdle` holds a member (`HoldsInv`); what a factory's state says of membership
  (`BuildInv`); and that what is not left to close is dead (`CloseInv`).

* `PrebundleProofs`: `TypeCorrect`, `DiskIsComplete`, `MissesAreExplained`,
  `ForksAreExplained`. Directories: the manifest is the last file of a save (`ManifestLast`),
  and a directory that is not contended has one saver at most and nobody who loads it
  meanwhile (`OneSaver`, `CalmRead`): the files it has behind it are whole, or the sweep has
  removed them (`WholeDir`); with no saver and a whole manifest this holds of all the files. What
  a handler has read there, and so what it installs and answers with, is not torn
  (`LoadInv`). `HandlerInv` says what a handler holds at each step. The steps of the sweep only
  remove files, so they keep all of this once they count as sweeps. Pages: while the
  entry set is the one the page was loaded with, all it has got is of the build of that
  set, and the handlers it waits for want no other (`PageInv`), across restarts, in which the
  process forgets the set and the page does not. Such a build has every chunk that its
  own files import, which gives the misses; and `OneCopyPerBuild` gives the forks: a module is
  inlined into its only user or is in the chunk of exactly its users, and the cardinality of a
  singleton tells the two apart.
* `HostProofs`, on `Host`: `TypeCorrect`, `MissesAreExplained`, `RightModuleServed`,
  `ForksAreExplained`. `HostInv` follows the page's own server and sees the others only by
  what they write. As long as none has (`foreign`), the directory holds the outputs of one
  plan, of which `todo` is what is missing (`DirectoryInv`, `SetInv`); a page that waits does so
  for what its server works on (`AskInv`); entries have the name asked for, and chunks that
  a page knows of stay in the directory, although the build they belong to has been replaced
  (`NmInv`); and while the set has not grown since the page's first file, all it has and waits
  for is of one plan (`OnePlanInv`). `CdnInv` says for registry mode what made the page ask. A step of
  another server is dealt with once, by its effect (`Afar`, `AfarKeeps`). Besides
  the assumptions on names, `NoFileAssumption` says that `None` is no output file.

The longer proofs have two layers: lemmas that say what the effect of a kind of step
(a task that moves, a handler that goes on, a page that reloads) keeps of the
invariant, and one that goes through the actions of `Next` and cites them.

The graph of imports is no obstacle in the last two: `Reach` is defined as the least closed set
and not by recursion, and the proofs only need that a module in it has the
entry among its users.

Model-checked only: liveness, which TLAPS does not reason about in this version
(`FetchReturns`, `CancelUnblocks`, `CompileReturns`, `Pool!CloseReturns`, `CallsEnd`, `Answered`,
`PluginHost!CloseReturns`, `WatcherRuns`, `CallsReturn`). Every invariant and every action
property of the runs, and the refinement of the cache, is a theorem.

## Not modelled

* Power loss (as opposed to the death of a process): nothing under `src/` syncs
  files, so everything renamed may be empty afterwards. It needs a model of the file
  system rather than of this code.
* The content of packages, scripts, builds and hooks, and all parsing: the
  properties only tell identities apart.
* That the cache misses what is there: `Fetcher` and `OnDemand` take a hit for a hit. A miss
  is a download there like any other, of bytes that are recorded already.
* `Has`, `EachBlob` and `EachURL` of the store only read and have no callers.
* In `Prebundle`: one process at a time works on the directories, though the cache
  may be shared by several dev servers; two handlers of one process already produce
  every order of reads and writes of a directory. A directory's files are listed at once (`RemoveAll` reads up to
  1024 names at a time). Files written in place are torn between truncation and write only.
  `DiskComplete` is checked with one output file per directory; the theorem is for any number.
* In `PluginHost`: two hosts that share one bundled config file (`Session` has them); answers with
  ids that were never asked; `Write` of a line is one step (lines are short of the
  atomic pipe size or serialised by the descriptor's lock).
* In `Fetcher`: lockfile keys. The result is recorded by URL; the pins that come of
  it are `OnDemand`'s.
* In `OnDemand`: imports inside a package, which go by URL and not by pin; the
  development rewrite of `vue`; the fallback for ranges in URLs; entries of the lockfile
  for URLs and paths, which no bare name finds. Two builds that overlap overwrite each
  other's additions to the file; the model has it, and `Repeatable` is asked only of
  builds that ran alone. An import answered by its path as written is fetched
  anew by every build, and left out of `served`.
* In `Updates`: plugins that override the set of updates (`handleHotUpdate`); files in
  directories that are created later, which are never watched; modules that import an
  updated one (the runtime re-imports the module itself and nothing else).
* In `Host`: aliases and the user's own files, which have no state; the stylesheet and
  asset URLs of packages. A server handles one request of this page at a time.
* In `Session`: what the config says (`mapViteConfig`, `applyDev`, `applyBuild`) and the
  QuickJS evaluator that replaces the sidecar, which runs no hooks and keeps nothing.
* In `Dist`: reads and stats that fail of files that are there (the page would be the default
  one, or without its stylesheet), and an `index.html` that is read while an editor writes it;
  the plugins' transformation of the page; what esbuild emits; the watch mode of the bundler, which `Build` does not use.
  When two builds write one file at the same time, it holds what the last to write
  wrote.
* The Go plugin container: an immutable list, and folds over it.
* Rewriting, the SFC front end, shims and the glob rewriter are functions from text to
  text: no state, no concurrency, no failure to handle. Flag parsing likewise.

## Plan

What could follow, in order of what matters most:

1. **Resolver**: `ResolveURL` and `resolveOne` as functions over small
   lockfiles and stores, and where they agree, also for imports inside a package.
2. **More refinements**: the plugin host as a remote procedure call that is answered once
   or fails, and the pre-bundler's directories as an atomic map from entry sets to builds.
3. **Overrides by plugins** (`handleHotUpdate`) in `Updates`.
