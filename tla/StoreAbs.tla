------------------------------ MODULE StoreAbs ------------------------------
(***************************************************************************)
(* What the cache of internal/store promises its callers, whatever the     *)
(* number of goroutines and processes that share one cache directory: a    *)
(* map from URLs to bytes on which every Get, Put and Delete takes effect  *)
(* at one instant between its call and its return, or not at all. A Get    *)
(* may miss what is there: its caller fetches the bytes again.             *)
(***************************************************************************)
CONSTANTS
  Procs,    (* callers: goroutines of any process that opened the cache    *)
  URLs,     (* the URLs the cache is indexed by                            *)
  Bytes,    (* the contents a registry serves                              *)
  Missing   (* no entry; also the empty expectedHash of a Put              *)

VARIABLES
  value,    (* value[u]: what a Get of u returns, unless it misses         *)
  call,     (* call[p]: the operation p is in, NoCall between operations   *)
  reply     (* reply[p]: how p's last operation ended                      *)

vars == <<value, call, reply>>

(***************************************************************************)
(* A call carries the URL and, for a Put, the bytes and the hash the       *)
(* caller expects of them (Missing: the caller expects none).              *)
(***************************************************************************)
Lookups == [kind : {"get", "delete"}, url : URLs]
Puts    == [kind : {"put"}, url : URLs, bytes : Bytes,
            want : Bytes \union {Missing}]
Calls   == Lookups \union Puts
NoCall  == [kind |-> "none"]

Status  == {"none", "ok", "notCached", "integrity", "failed"}
Reply(status, bytes) == [status |-> status, bytes |-> bytes]
NoReply == Reply("none", Missing)

(* The reply a call gets when it takes effect on the map v. *)
Outcome(c, v) ==
  CASE c.kind = "get" /\ v[c.url] = Missing  -> Reply("notCached", Missing)
    [] c.kind = "get" /\ v[c.url] # Missing  -> Reply("ok", v[c.url])
    [] c.kind = "delete"                     -> Reply("ok", Missing)
    [] c.kind = "put" /\ c.want \in {Missing, c.bytes}
                                             -> Reply("ok", c.bytes)
    [] c.kind = "put" /\ c.want \notin {Missing, c.bytes}
                                             -> Reply("integrity", Missing)

(* The map after a call took effect on the map v. *)
Effect(c, v) ==
  CASE c.kind = "get"    -> v
    [] c.kind = "delete" -> [v EXCEPT ![c.url] = Missing]
    [] c.kind = "put" /\ c.want \in {Missing, c.bytes}
                         -> [v EXCEPT ![c.url] = c.bytes]
    [] c.kind = "put" /\ c.want \notin {Missing, c.bytes} -> v

-----------------------------------------------------------------------------
Init ==
  /\ value \in [URLs -> Bytes \union {Missing}]
  /\ call  = [p \in Procs |-> NoCall]
  /\ reply = [p \in Procs |-> NoReply]

Invoke(p) ==
  /\ call[p] = NoCall
  /\ \E c \in Calls : call' = [call EXCEPT ![p] = c]
  /\ reply' = [reply EXCEPT ![p] = NoReply]
  /\ UNCHANGED value

Complete(p) ==
  /\ call[p] # NoCall
  /\ value' = Effect(call[p], value)
  /\ reply' = [reply EXCEPT ![p] = Outcome(call[p], value)]
  /\ call'  = [call EXCEPT ![p] = NoCall]

(* An operation that fails, or whose process dies, has had no effect.      *)
Abandon(p) ==
  /\ call[p] # NoCall
  /\ \E r \in {NoReply, Reply("failed", Missing)} :
        reply' = [reply EXCEPT ![p] = r]
  /\ call' = [call EXCEPT ![p] = NoCall]
  /\ UNCHANGED value

(* A Get that cannot see whether the recorded bytes are there is told that *)
(* they are not cached.                                                    *)
Miss(p) ==
  /\ call[p].kind = "get"
  /\ reply' = [reply EXCEPT ![p] = Reply("notCached", Missing)]
  /\ call'  = [call EXCEPT ![p] = NoCall]
  /\ UNCHANGED value

Next ==
  \E p \in Procs : Invoke(p) \/ Complete(p) \/ Miss(p) \/ Abandon(p)

Spec == Init /\ [][Next]_vars

=============================================================================
