-------------------------------- MODULE Pool --------------------------------
(***************************************************************************)
(* The pool of Vue SFC compilers (internal/sfc/vue): NewPool builds them   *)
(* concurrently, Compile takes one from the free-list, runs it under the   *)
(* mutex of its QuickJS context and returns it, and Close shuts them all   *)
(* down, at any moment and more than once. The free-list is a buffered     *)
(* channel, here a set: which compiler a caller gets does not matter.      *)
(***************************************************************************)
EXTENDS Naturals, FiniteSets

CONSTANTS
  Callers,    (* the goroutines that call Compile                          *)
  Owners,     (* the goroutines that call Close                            *)
  Builder,    (* the goroutine that calls NewPool, and may have to Close   *)
  Compilers,  (* the factory calls of NewPool, and what they return        *)
  Nobody      (* no compiler, no goroutine                                 *)

ASSUME PoolAssumption ==
  /\ Compilers # {}
  /\ IsFiniteSet(Compilers)
  /\ Builder \notin Owners
  /\ Callers \cap (Owners \union {Builder}) = {}
  /\ Nobody \notin Compilers \union Callers \union Owners \union {Builder}

Closers == Owners \union {Builder}

VARIABLES
  factory,  (* factory[c]: what has become of the factory call c           *)
  firstErr, (* a factory call has failed                                   *)
  pool,     (* what NewPool is doing or has returned                       *)
  idle,     (* the free-list                                               *)
  closed,   (* the closed channel is closed                                *)
  once,     (* closeOnce: not entered, running, done                       *)
  closing,  (* who runs the body of closeOnce                              *)
  left,     (* the compilers that body has still to close                  *)
  dead,     (* dead[c]: QJSCompiler.closed, its runtime is released        *)
  mu,       (* mu[c]: who holds the mutex of c                             *)
  pc,       (* pc[g]: the next step of a user or closer                    *)
  holds     (* holds[u]: the compiler u has taken from the free-list       *)

building == <<factory, firstErr, pool>>
closure  == <<closed, once, closing, left>>
poolVars == <<building, idle, closure, dead, mu, pc, holds>>

FactoryStates == {"running", "built", "error", "member", "dropped"}
CallerPCs == {"out", "check", "take", "lock", "eval", "give"}
CloserPCs == {"open", "once", "closed"}

Members == {c \in Compilers : factory[c] = "member"}
Holding == {u \in Callers : pc[u] \in {"lock", "eval", "give"}}

PoolTypeOK ==
  /\ factory  \in [Compilers -> FactoryStates]
  /\ firstErr \in BOOLEAN
  /\ pool     \in {"collecting", "ready", "tearing", "failed"}
  /\ idle     \in SUBSET Compilers
  /\ closed   \in BOOLEAN
  /\ once     \in {"new", "running", "done"}
  /\ closing  \in Closers \union {Nobody}
  /\ left     \in SUBSET Compilers
  /\ dead     \in [Compilers -> BOOLEAN]
  /\ mu       \in [Compilers -> Callers \union {Nobody}]
  /\ pc       \in [Callers \union Closers -> CallerPCs \union CloserPCs]
  /\ \A u \in Callers : pc[u] \in CallerPCs
  /\ \A k \in Closers : pc[k] \in CloserPCs
  /\ holds    \in [Callers -> Compilers \union {Nobody}]

PoolInit ==
  /\ factory  = [c \in Compilers |-> "running"]
  /\ firstErr = FALSE
  /\ pool     = "collecting"
  /\ idle     = {}
  /\ closed   = FALSE
  /\ once     = "new"
  /\ closing  = Nobody
  /\ left     = {}
  /\ dead     = [c \in Compilers |-> FALSE]
  /\ mu       = [c \in Compilers |-> Nobody]
  /\ pc       = [g \in Callers \union Closers |->
                   IF g \in Callers THEN "out" ELSE "open"]
  /\ holds    = [u \in Callers |-> Nobody]

Goto(g, from, to) == pc[g] = from /\ pc' = [pc EXCEPT ![g] = to]

(***************************************************************************)
(* Mutants: plausible mistakes in the code, each of which breaks one of    *)
(* the properties below (README, "Mutants"). No specification uses them.   *)
(***************************************************************************)
MutTearDownNothing ==
  /\ pool = "collecting"
  /\ firstErr
  /\ pool' = "failed"
  /\ UNCHANGED <<factory, firstErr, idle, closure, dead, mu, pc, holds>>

MutLockErrorKeepsCompiler(u) ==
  LET c == holds[u] IN
  /\ pc[u] = "lock"
  /\ mu[c] = Nobody
  /\ \/ /\ dead[c]
        /\ Goto(u, "lock", "out")
        /\ UNCHANGED mu
     \/ /\ ~dead[c]
        /\ Goto(u, "lock", "eval")
        /\ mu' = [mu EXCEPT ![c] = u]
  /\ UNCHANGED <<building, idle, closure, dead, holds>>

MutEvalWithoutUnlock(u) ==
  /\ Goto(u, "eval", "give")
  /\ UNCHANGED <<building, idle, closure, dead, mu, holds>>

MutCloseWithoutMutex(k, c) ==
  /\ closing = k
  /\ once = "running"
  /\ c \in left
  /\ dead' = [dead EXCEPT ![c] = TRUE]
  /\ left' = left \ {c}
  /\ UNCHANGED <<building, idle, closed, once, closing, mu, pc, holds>>

-----------------------------------------------------------------------------
(* NewPool: one goroutine per factory call sends its result; a failed      *)
(* factory has released its own runtime.                                   *)
Build(c) ==
  /\ factory[c] = "running"
  /\ \E r \in {"built", "error"} : factory' = [factory EXCEPT ![c] = r]
  /\ UNCHANGED <<firstErr, pool, idle, closure, dead, mu, pc, holds>>

Collect(c) ==
  /\ pool = "collecting"
  /\ \/ /\ factory[c] = "built"
        /\ factory' = [factory EXCEPT ![c] = "member"]
        /\ idle' = idle \union {c}
        /\ UNCHANGED firstErr
     \/ /\ factory[c] = "error"
        /\ factory' = [factory EXCEPT ![c] = "dropped"]
        /\ firstErr' = TRUE
        /\ UNCHANGED idle
  /\ UNCHANGED <<pool, closure, dead, mu, pc, holds>>

Collected == \A c \in Compilers : factory[c] \in {"member", "dropped"}

(* Every result is in: NewPool returns the pool or, after closing what did *)
(* come up, the first error.                                               *)
HandOver ==
  /\ pool = "collecting"
  /\ Collected
  /\ ~firstErr
  /\ pool' = "ready"
  /\ UNCHANGED <<factory, firstErr, idle, closure, dead, mu, pc, holds>>

TearDown ==
  /\ pool = "collecting"
  /\ Collected
  /\ firstErr
  /\ pool' = "tearing"
  /\ Goto(Builder, "open", "once")
  /\ UNCHANGED <<factory, firstErr, idle, closure, dead, mu, holds>>

GiveUp ==
  /\ pool = "tearing"
  /\ pc[Builder] = "closed"
  /\ pool' = "failed"
  /\ UNCHANGED <<factory, firstErr, idle, closure, dead, mu, pc, holds>>

-----------------------------------------------------------------------------
(* Compile *)
Call(u) ==
  /\ pool = "ready"
  /\ Goto(u, "out", "check")
  /\ UNCHANGED <<building, idle, closure, dead, mu, holds>>

(* The select with a default: after Close the call returns an error. *)
Check(u) ==
  /\ Goto(u, "check", IF closed THEN "out" ELSE "take")
  /\ UNCHANGED <<building, idle, closure, dead, mu, holds>>

TakeIdle(u, c) ==
  /\ Goto(u, "take", "lock")
  /\ c \in idle
  /\ idle' = idle \ {c}
  /\ holds' = [holds EXCEPT ![u] = c]
  /\ UNCHANGED <<building, closure, dead, mu>>

(* QJSCompiler.Compile: lock, and return an error if Close was faster. *)
Lock(u) ==
  LET c == holds[u] IN
  /\ pc[u] = "lock"
  /\ mu[c] = Nobody
  /\ \/ /\ dead[c]
        /\ Goto(u, "lock", "give")
        /\ UNCHANGED mu
     \/ /\ ~dead[c]
        /\ Goto(u, "lock", "eval")
        /\ mu' = [mu EXCEPT ![c] = u]
  /\ UNCHANGED <<building, idle, closure, dead, holds>>

(* The script returns or throws; the deferred unlock runs either way. *)
Eval(u) ==
  /\ Goto(u, "eval", "give")
  /\ mu' = [mu EXCEPT ![holds[u]] = Nobody]
  /\ UNCHANGED <<building, idle, closure, dead, holds>>

(* The deferred send to the free-list. *)
Give(u) ==
  /\ Goto(u, "give", "out")
  /\ idle' = idle \union {holds[u]}
  /\ holds' = [holds EXCEPT ![u] = Nobody]
  /\ UNCHANGED <<building, closure, dead, mu>>

-----------------------------------------------------------------------------
(* Close *)
Close(k) ==
  /\ k \in Owners
  /\ pool = "ready"
  /\ Goto(k, "open", "once")
  /\ UNCHANGED <<building, idle, closure, dead, mu, holds>>

(* closeOnce.Do: the first caller runs the body, the others wait for it. *)
Enter(k) ==
  /\ pc[k] = "once"
  /\ once = "new"
  /\ once' = "running"
  /\ closing' = k
  /\ closed' = TRUE
  /\ left' = Members
  /\ UNCHANGED <<building, idle, dead, mu, pc, holds>>

(* QJSCompiler.Close: a compile that is running on c finishes first. The   *)
(* order of the compilers, that in which they came up, does not matter.    *)
CloseOne(k, c) ==
  /\ closing = k
  /\ once = "running"
  /\ c \in left
  /\ mu[c] = Nobody
  /\ dead' = [dead EXCEPT ![c] = TRUE]
  /\ left' = left \ {c}
  /\ UNCHANGED <<building, idle, closed, once, closing, mu, pc, holds>>

Finish(k) ==
  /\ closing = k
  /\ once = "running"
  /\ left = {}
  /\ once' = "done"
  /\ UNCHANGED <<building, idle, closed, closing, left, dead, mu, pc, holds>>

Leave(k) ==
  /\ once = "done"
  /\ Goto(k, "once", "closed")
  /\ UNCHANGED <<building, idle, closure, dead, mu, holds>>

NewPool == (\E c \in Compilers : Build(c) \/ Collect(c))
             \/ HandOver \/ TearDown \/ GiveUp
Compile(u) == Check(u) \/ (\E c \in Compilers : TakeIdle(u, c))
                \/ Lock(u) \/ Eval(u) \/ Give(u)
Shut(k) == Enter(k) \/ (\E c \in Compilers : CloseOne(k, c))
             \/ Finish(k) \/ Leave(k)

PoolNext ==
  \/ NewPool
  \/ \E u \in Callers : Call(u) \/ Compile(u)
  \/ \E k \in Closers : Close(k) \/ Shut(k)

(* Scripts end, goroutines are scheduled, and a channel serves those who   *)
(* wait to receive from it in turn. Nobody has to call Compile or Close.   *)
Fairness ==
  /\ WF_poolVars(NewPool)
  /\ \A u \in Callers :
       /\ WF_poolVars(Compile(u))
       /\ SF_poolVars(\E c \in Compilers : TakeIdle(u, c))
  /\ \A k \in Closers : WF_poolVars(Shut(k))

PoolSpec     == PoolInit /\ [][PoolNext]_poolVars
PoolFairSpec == PoolSpec /\ Fairness

-----------------------------------------------------------------------------
(* A script runs on a compiler that nobody else has taken and that is not  *)
(* released under it: also when Close comes between Compile's check of     *)
(* closed and its turn on the compiler.                                    *)
ExclusiveUse ==
  \A u \in Callers : pc[u] = "eval" =>
    /\ mu[holds[u]] = u
    /\ ~dead[holds[u]]
    /\ \A v \in Holding : v # u => holds[v] # holds[u]

(* No compiler is lost or handed out twice, on any path through Compile:   *)
(* each is on the free-list or in the hands of one caller, so the deferred *)
(* send never blocks, and there are never more compiles than compilers.    *)
FreeListConserved ==
  /\ Members = idle \union {holds[u] : u \in Holding}
  /\ \A u \in Holding : holds[u] \notin idle
  /\ \A u, v \in Holding : u # v => holds[u] # holds[v]

(* Once any Close has returned, or NewPool has returned an error, every    *)
(* runtime that was ever built is released: none is still being built,     *)
(* none sits in the results channel, none runs a script.                   *)
NothingSurvivesClose ==
  pool = "failed" \/ (\E k \in Owners : pc[k] = "closed") =>
    \A c \in Compilers : /\ factory[c] \in {"member", "dropped"}
                         /\ factory[c] = "member" => dead[c] /\ mu[c] = Nobody

(* Every Compile returns, although callers queue for compilers and Close   *)
(* may take the compilers away while they do.                              *)
CompileReturns == \A u \in Callers : pc[u] = "check" ~> pc[u] = "out"

(* Every Close returns, although it waits for the scripts that run.        *)
CloseReturns == \A k \in Closers : pc[k] = "once" ~> pc[k] = "closed"

=============================================================================
