----------------------------- MODULE PluginHost -----------------------------
(***************************************************************************)
(* The host of JavaScript plugins (jsplugin.go): a Node process, the       *)
(* sidecar (jsplugin_sidecar.mjs), that runs the hooks of the plugins.     *)
(* Calls are lines on its stdin, answers are lines on its stdout, in any   *)
(* order. A caller registers a channel under the id of its call, writes    *)
(* the line and waits; the dispatcher hands out the answers. The sidecar   *)
(* may die at any instant, hooks may never settle, plugins may print, and  *)
(* the host may be closed while calls are in flight.                       *)
(***************************************************************************)
EXTENDS Naturals, Sequences, FiniteSets

CONSTANTS
  Callers,   (* the goroutines that call hooks                             *)
  Closers,   (* the goroutines that call Close                             *)
  Starter,   (* the goroutine in startNodePluginHost, which may Close      *)
  None,      (* nobody, no answer                                          *)
  Exited,    (* the answer "sidecar exited"                                *)
  Error,     (* an error that call returns itself                          *)
  Noise,     (* a line that is not an answer                               *)
  Capacity,  (* how many lines a pipe holds                                *)
  MaxCalls,  (* bound: calls made                                          *)
  MaxNoise   (* bound: answers lost to the output of a plugin              *)

ASSUME PluginHostAssumption ==
  /\ Starter \notin Closers
  /\ Callers \cap (Closers \union {Starter}) = {}
  /\ None \notin Callers \union Closers \union {Starter}
  /\ Capacity \in Nat \ {0}
  /\ MaxCalls \in Nat
  /\ MaxNoise \in Nat
  /\ {None, Exited, Error, Noise} \cap Nat = {}
  /\ Cardinality({None, Exited, Error, Noise}) = 4

Ids  == 1 .. MaxCalls
Shut == Closers \union {Starter}

VARIABLES
  host,     (* what startNodePluginHost is doing or has returned           *)
  closed,   (* nodePluginHost.closed                                       *)
  nextID,   (* nodePluginHost.nextID                                       *)
  pending,  (* pending[i]: the call i has an entry in the pending map      *)
  chan,     (* chan[i]: what the channel of call i holds                   *)
  pc,       (* pc[g]: the next step of a caller or closer                  *)
  id,       (* id[c]: the id of c's call                                   *)
  result,   (* result[c]: what c's last call returned                      *)
  dpc,      (* the next step of the dispatcher                             *)
  msg,      (* the id of the answer the dispatcher has in its hands        *)
  stdin,    (* the write end of the sidecar's stdin is open                *)
  reader,   (* the read end of its stdout is open                          *)
  wire,     (* the calls in the stdin pipe                                 *)
  out,      (* the lines in the stdout pipe                                *)
  alive,    (* the sidecar runs                                            *)
  running,  (* the hooks that have been started and have not settled       *)
  writing,  (* the answer the sidecar is writing                           *)
  noise,    (* how many more answers may be lost                           *)
  tmp       (* the bundled config file exists                              *)

goside  == <<host, closed, nextID, pending, chan>>
caller  == <<pc, id, result>>
disp    == <<dpc, msg>>
pipes   == <<stdin, reader, wire, out>>
sidecar == <<alive, running, writing, noise>>
vars == <<goside, caller, disp, pipes, sidecar, tmp>>

CallerPCs == {"out", "call", "write", "wait"}
CloserPCs == {"open", "close", "stdin", "kill", "wait", "remove", "closed"}

TypeOK ==
  /\ host    \in {"new", "starting", "ready", "failing", "failed"}
  /\ closed  \in BOOLEAN
  /\ nextID  \in 0 .. MaxCalls
  /\ pending \in [Ids -> BOOLEAN]
  /\ chan    \in [Ids -> Ids \union {None, Exited}]
  /\ pc      \in [Callers \union Shut -> CallerPCs \union CloserPCs]
  /\ \A c \in Callers : pc[c] \in CallerPCs
  /\ \A k \in Shut : pc[k] \in CloserPCs
  /\ id      \in [Callers -> 0 .. MaxCalls]
  /\ result  \in [Callers -> Ids \union {None, Exited, Error}]
  /\ dpc     \in {"off", "read", "send", "sweep", "done"}
  /\ msg     \in Ids \union {None}
  /\ stdin   \in BOOLEAN
  /\ reader  \in BOOLEAN
  /\ wire    \in SUBSET Ids
  /\ out     \in Seq(Ids \union {Noise})
  /\ alive   \in BOOLEAN
  /\ running \in SUBSET Ids
  /\ writing \in Ids \union {None}
  /\ noise   \in 0 .. MaxNoise
  /\ tmp     \in BOOLEAN

Init ==
  /\ host    = "new"
  /\ closed  = FALSE
  /\ nextID  = 0
  /\ pending = [i \in Ids |-> FALSE]
  /\ chan    = [i \in Ids |-> None]
  /\ pc      = [g \in Callers \union Shut |->
                  IF g \in Callers THEN "out" ELSE "open"]
  /\ id      = [c \in Callers |-> 0]
  /\ result  = [c \in Callers |-> None]
  /\ dpc     = "off"
  /\ msg     = None
  /\ stdin   = FALSE
  /\ reader  = FALSE
  /\ wire    = {}
  /\ out     = <<>>
  /\ alive   = FALSE
  /\ running = {}
  /\ writing = None
  /\ noise   = MaxNoise
  /\ tmp     = FALSE

Goto(g, from, to) == pc[g] = from /\ pc' = [pc EXCEPT ![g] = to]

Return(c, r) ==
  /\ pc'     = [pc EXCEPT ![c] = "out"]
  /\ result' = [result EXCEPT ![c] = r]
  /\ UNCHANGED id

(***************************************************************************)
(* Mutants: plausible mistakes in the code, each of which breaks one of    *)
(* the properties below (README, "Mutants"). No specification uses them.   *)
(***************************************************************************)
MutRouteOldestFirst ==
  /\ dpc = "read"
  /\ out # <<>>
  /\ out' = Tail(out)
  /\ \/ /\ Head(out) # Noise
        /\ \E i \in Ids : /\ pending[i]
                          /\ \A j \in Ids : pending[j] => i <= j
                          /\ pending' = [pending EXCEPT ![i] = FALSE]
                          /\ chan' = [chan EXCEPT ![i] = Head(out)]
        /\ UNCHANGED <<dpc, msg>>
     \/ /\ Head(out) = Noise
        /\ UNCHANGED <<dpc, msg, pending, chan>>
  /\ UNCHANGED <<host, closed, nextID, caller, stdin, reader, wire, sidecar,
                 tmp>>

MutRouteKeepsEntry ==
  /\ dpc = "read"
  /\ out # <<>>
  /\ out' = Tail(out)
  /\ \/ /\ Head(out) \in Ids
        /\ pending[Head(out)]
        /\ dpc' = "send"
        /\ msg' = Head(out)
     \/ /\ Head(out) \notin {i \in Ids : pending[i]}
        /\ UNCHANGED <<dpc, msg>>
  /\ UNCHANGED <<goside, caller, stdin, reader, wire, sidecar, tmp>>

MutSweepNothing ==
  /\ dpc = "sweep"
  /\ dpc' = "done"
  /\ UNCHANGED <<goside, caller, msg, pipes, sidecar, tmp>>

MutHandshakeFailsOnly ==
  /\ host = "starting"
  /\ host' = "failed"
  /\ UNCHANGED <<closed, nextID, pending, chan, caller, disp, pipes, sidecar,
                 tmp>>

MutSettleSilently(i) ==
  /\ alive /\ writing = None
  /\ i \in running
  /\ running' = running \ {i}
  /\ writing' \in {i, None}
  /\ UNCHANGED <<goside, caller, disp, pipes, alive, noise, tmp>>

MutKillNobody(k) ==
  /\ Goto(k, "kill", "wait")
  /\ UNCHANGED <<goside, id, result, disp, pipes, sidecar, tmp>>

-----------------------------------------------------------------------------
(* startNodePluginHost: bundle the config, start Node, and wait for the    *)
(* line with the config and the plugins. A failure before Node runs leaves *)
(* nothing; one after it closes the host that was being built.             *)
Start ==
  /\ host = "new"
  /\ \/ /\ host' = "failed"
        /\ UNCHANGED <<stdin, reader, alive, tmp>>
     \/ /\ host'   = "starting"
        /\ stdin'  = TRUE
        /\ reader' = TRUE
        /\ alive'  = TRUE
        /\ tmp'    = TRUE
  /\ UNCHANGED <<closed, nextID, pending, chan, caller, disp, wire, out,
                 running, writing, noise>>

Handshake ==
  /\ host = "starting"
  /\ host' = "ready"
  /\ dpc' = "read"
  /\ UNCHANGED <<closed, nextID, pending, chan, caller, msg, pipes, sidecar,
                 tmp>>

HandshakeFails ==
  /\ host = "starting"
  /\ host' = "failing"
  /\ Goto(Starter, "open", "close")
  /\ UNCHANGED <<closed, nextID, pending, chan, id, result, disp, pipes,
                 sidecar, tmp>>

GiveUp ==
  /\ host = "failing"
  /\ pc[Starter] = "closed"
  /\ host' = "failed"
  /\ UNCHANGED <<closed, nextID, pending, chan, caller, disp, pipes, sidecar,
                 tmp>>

-----------------------------------------------------------------------------
(* call *)
Call(c) ==
  /\ host = "ready"
  /\ nextID + Cardinality({d \in Callers : pc[d] = "call"}) < MaxCalls
  /\ Goto(c, "out", "call")
  /\ UNCHANGED <<goside, id, result, disp, pipes, sidecar, tmp>>

(* Under the mutex: an id, and a channel under it. *)
Register(c) ==
  /\ pc[c] = "call"
  /\ \/ /\ closed
        /\ Return(c, Error)
        /\ UNCHANGED <<nextID, pending>>
     \/ /\ ~closed
        /\ nextID' = nextID + 1
        /\ pending' = [pending EXCEPT ![nextID'] = TRUE]
        /\ id' = [id EXCEPT ![c] = nextID']
        /\ Goto(c, "call", "write")
        /\ UNCHANGED result
  /\ UNCHANGED <<host, closed, chan, disp, pipes, sidecar, tmp>>

(* Writing the line blocks while the pipe is full. When the host has been  *)
(* closed or the sidecar is gone it fails, and the entry stays behind.     *)
Write(c) ==
  /\ stdin /\ alive
  /\ Cardinality(wire) < Capacity
  /\ Goto(c, "write", "wait")
  /\ wire' = wire \union {id[c]}
  /\ UNCHANGED <<goside, id, result, disp, stdin, reader, out, sidecar, tmp>>

WriteFails(c) ==
  /\ ~(stdin /\ alive)
  /\ pc[c] = "write"
  /\ Return(c, Error)
  /\ UNCHANGED <<goside, disp, pipes, sidecar, tmp>>

Receive(c) ==
  /\ pc[c] = "wait"
  /\ chan[id[c]] # None
  /\ Return(c, chan[id[c]])
  /\ chan' = [chan EXCEPT ![id[c]] = None]
  /\ UNCHANGED <<host, closed, nextID, pending, disp, pipes, sidecar, tmp>>

-----------------------------------------------------------------------------
(* dispatch: take the channel of an answer out of the map, then send;      *)
(* other lines, and answers nobody waits for, are skipped.                 *)
Route ==
  /\ dpc = "read"
  /\ out # <<>>
  /\ out' = Tail(out)
  /\ \/ /\ Head(out) \in Ids
        /\ pending[Head(out)]
        /\ pending' = [pending EXCEPT ![Head(out)] = FALSE]
        /\ dpc' = "send"
        /\ msg' = Head(out)
     \/ /\ Head(out) \notin {i \in Ids : pending[i]}
        /\ UNCHANGED <<dpc, msg, pending>>
  /\ UNCHANGED <<host, closed, nextID, chan, caller, stdin, reader, wire,
                 sidecar, tmp>>

Send ==
  /\ dpc = "send"
  /\ chan[msg] = None
  /\ chan' = [chan EXCEPT ![msg] = msg]
  /\ dpc' = "read"
  /\ msg' = None
  /\ UNCHANGED <<host, closed, nextID, pending, caller, pipes, sidecar, tmp>>

(* The stream ends when the sidecar is gone and its output read, or when   *)
(* Wait has closed the read end, output or not.                            *)
StreamEnds ==
  /\ dpc = "read"
  /\ ~reader \/ (~alive /\ out = <<>>)
  /\ dpc' = "sweep"
  /\ UNCHANGED <<goside, caller, msg, pipes, sidecar, tmp>>

(* Under the mutex: fail every call in the map, for which each channel     *)
(* must have room.                                                         *)
Sweep ==
  /\ dpc = "sweep"
  /\ \A i \in Ids : pending[i] => chan[i] = None
  /\ chan' = [i \in Ids |-> IF pending[i] THEN Exited ELSE chan[i]]
  /\ pending' = [i \in Ids |-> FALSE]
  /\ dpc' = "done"
  /\ UNCHANGED <<host, closed, nextID, caller, msg, pipes, sidecar, tmp>>

-----------------------------------------------------------------------------
(* Close: only the first caller does anything. *)
Close(k) ==
  /\ k \in Closers
  /\ host = "ready"
  /\ Goto(k, "open", "close")
  /\ UNCHANGED <<goside, id, result, disp, pipes, sidecar, tmp>>

SetClosed(k) ==
  /\ Goto(k, "close", IF closed THEN "closed" ELSE "stdin")
  /\ closed' = TRUE
  /\ UNCHANGED <<host, nextID, pending, chan, id, result, disp, pipes, sidecar,
                 tmp>>

CloseStdin(k) ==
  /\ Goto(k, "stdin", "kill")
  /\ stdin' = FALSE
  /\ UNCHANGED <<goside, id, result, disp, reader, wire, out, sidecar, tmp>>

(* What has not reached stdout is gone with the process. *)
Gone ==
  /\ alive'   = FALSE
  /\ wire'    = {}
  /\ running' = {}
  /\ writing' = None

Kill(k) ==
  /\ Goto(k, "kill", "wait")
  /\ Gone
  /\ UNCHANGED <<goside, id, result, disp, stdin, reader, out, noise, tmp>>

Reap(k) ==
  /\ ~alive
  /\ Goto(k, "wait", "remove")
  /\ reader' = FALSE
  /\ UNCHANGED <<goside, id, result, disp, stdin, wire, out, sidecar, tmp>>

Remove(k) ==
  /\ Goto(k, "remove", "closed")
  /\ tmp' = FALSE
  /\ UNCHANGED <<goside, id, result, disp, pipes, sidecar>>

-----------------------------------------------------------------------------
(* The sidecar: one thread, on which hooks that wait for something overlap. *)
(* A write to stdout that finds the pipe full blocks the thread.           *)
Begin(i) ==
  /\ alive /\ writing = None
  /\ i \in wire
  /\ wire' = wire \ {i}
  /\ running' = running \union {i}
  /\ UNCHANGED <<goside, caller, disp, stdin, reader, out, alive, writing,
                 noise, tmp>>

(* The hook has returned or thrown; without one the answer is null. *)
Settle(i) ==
  /\ alive /\ writing = None
  /\ i \in running
  /\ running' = running \ {i}
  /\ writing' = i
  /\ UNCHANGED <<goside, caller, disp, pipes, alive, noise, tmp>>

Reply ==
  /\ writing # None
  /\ Len(out) < Capacity
  /\ out' = Append(out, writing)
  /\ writing' = None
  /\ UNCHANGED <<goside, caller, disp, stdin, reader, wire, alive, running,
                 noise, tmp>>

(* A plugin has printed something without a newline: the answer that       *)
(* follows on the same line cannot be parsed.                              *)
Garble ==
  /\ noise > 0
  /\ writing # None
  /\ Len(out) < Capacity
  /\ out' = Append(out, Noise)
  /\ writing' = None
  /\ noise' = noise - 1
  /\ UNCHANGED <<goside, caller, disp, stdin, reader, wire, alive, running,
                 tmp>>

(* The sidecar exits by itself. *)
Die ==
  /\ alive
  /\ Gone
  /\ UNCHANGED <<goside, caller, disp, stdin, reader, out, noise, tmp>>

InCall(c)  == Register(c) \/ Write(c) \/ WriteFails(c) \/ Receive(c)
Dispatch   == Route \/ Send \/ StreamEnds \/ Sweep
InClose(k) == SetClosed(k) \/ CloseStdin(k) \/ Kill(k) \/ Reap(k) \/ Remove(k)
Node       == (\E i \in Ids : Begin(i)) \/ Reply

Next ==
  \/ Start \/ Handshake \/ HandshakeFails \/ GiveUp
  \/ \E c \in Callers : Call(c) \/ InCall(c)
  \/ Dispatch
  \/ \E k \in Closers : Close(k)
  \/ \E k \in Shut : InClose(k)
  \/ Node \/ (\E i \in Ids : Settle(i)) \/ Garble \/ Die

(* Goroutines and the sidecar's thread are scheduled. Nobody has to call,  *)
(* to close or to die, and hooks need not settle.                          *)
Fairness ==
  /\ \A c \in Callers : WF_vars(InCall(c))
  /\ WF_vars(Dispatch)
  /\ \A k \in Shut : WF_vars(InClose(k))
  /\ WF_vars(Node)

Spec     == Init /\ [][Next]_vars
FairSpec == Spec /\ Fairness

-----------------------------------------------------------------------------
(* A call returns the answer to itself, whatever the order in which hooks  *)
(* settle, also when answers were lost and calls failed before it.         *)
RightAnswer ==
  \A c \in Callers : pc[c] = "out" /\ result[c] \in Ids => result[c] = id[c]

(* The dispatcher never blocks on a channel, in Sweep with the mutex in    *)
(* its hands: an id leaves the map before its channel is filled, once.     *)
DispatcherFree ==
  /\ \A i \in Ids : pending[i] => chan[i] = None
  /\ dpc = "send" => chan[msg] = None /\ ~pending[msg]

(* A host that could not be started, or whose Close has returned to the    *)
(* one who did the closing, leaves no process and no file behind.          *)
NothingLeft ==
  host = "failed" \/ (closed /\ \A k \in Shut : pc[k] \in {"open", "closed"})
    => ~alive /\ ~tmp

(* A call that is waiting, or about to, when the host is closed or the     *)
(* sidecar dies returns: also if it registers after the sweep.             *)
CallsEnd ==
  \A c \in Callers : pc[c] # "out" /\ (closed \/ ~alive) ~> pc[c] = "out"

(* If every hook settles, every call returns, although both pipes may be   *)
(* full, unless a plugin's output has destroyed an answer.                 *)
Answered ==
  (\A i \in Ids : WF_vars(Settle(i))) =>
    \A c \in Callers : pc[c] = "call" ~> pc[c] = "out" \/ noise < MaxNoise

(* Whoever calls Close gets through it.                                    *)
CloseReturns == \A k \in Shut : pc[k] = "close" ~> pc[k] = "closed"

=============================================================================
