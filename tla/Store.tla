------------------------------- MODULE Store -------------------------------
(***************************************************************************)
(* The content-addressed download cache (internal/store): a directory      *)
(* shared by every goroutine and every process that opens it.              *)
(*                                                                         *)
(*   cas/<hash>        one file per distinct content                       *)
(*   url/<key>.meta    one file per URL, holding the hash of its content   *)
(*   lock/<key>.lock   one flock per URL: shared for Get, exclusive for    *)
(*                     Put and Delete                                      *)
(*                                                                         *)
(* A file is written under a fresh temporary name and renamed into place.  *)
(* The lock of a URL does not protect the content files: two Puts of       *)
(* different URLs may write the same one at the same time. A process may   *)
(* die at any instruction; its locks go with it, its files stay.           *)
(***************************************************************************)
EXTENDS Naturals, FiniteSets

CONSTANTS
  Procs,    (* callers: goroutines of any process that opened the cache    *)
  URLs,     (* the URLs the cache is indexed by                            *)
  Bytes,    (* the contents a registry serves; a content names its hash    *)
  Missing,  (* no such file; also the empty expectedHash of a Put          *)
  Torn      (* the content of a file whose writing has not finished        *)

ASSUME StoreAssumption ==
  /\ Missing \notin Bytes
  /\ Torn \notin Bytes
  /\ Missing # Torn

VARIABLES
  cas,      (* cas[b]: what the file named after the hash of b holds       *)
  meta,     (* meta[u]: the content hash recorded for u                    *)
  tmp,      (* tmp[p]: what the temporary file of p's Put holds            *)
  holders,  (* holders[u]: who has the flock of u                          *)
  pc,       (* pc[p]: the next step of p                                   *)
  call,     (* call[p]: the operation p is in                              *)
  seen,     (* seen[p]: the hash p's Get has read from the metadata        *)
  reply     (* reply[p]: how p's last operation ended                      *)

disk == <<cas, meta>>
vars == <<cas, meta, tmp, holders, pc, call, seen, reply>>

Abs == INSTANCE StoreAbs WITH value <- meta

File == Bytes \union {Missing, Torn}
Hash == Bytes \union {Missing}

LockedPCs == {"readMeta", "statBlob", "verify", "statDst", "writeBlob",
              "renameBlob", "createMeta", "writeMeta", "renameMeta", "unlink"}
PCs == {"idle", "lock"} \union LockedPCs

TypeOK ==
  /\ cas     \in [Bytes -> File]
  /\ meta    \in [URLs -> Hash]
  /\ tmp     \in [Procs -> File]
  /\ holders \in [URLs -> SUBSET Procs]
  /\ pc      \in [Procs -> PCs]
  /\ call    \in [Procs -> Abs!Calls \union {Abs!NoCall}]
  /\ seen    \in [Procs -> Hash]
  /\ reply   \in [Procs -> [status : Abs!Status, bytes : Hash]]

-----------------------------------------------------------------------------
(* A cache directory an earlier run may have left: every recorded hash has *)
(* its file, and files no URL refers to are possible.                      *)
Init ==
  /\ cas \in {c \in [Bytes -> Hash] : \A b \in Bytes : c[b] \in {Missing, b}}
  /\ meta \in {m \in [URLs -> Hash] : \A u \in URLs :
                  m[u] # Missing => cas[m[u]] = m[u]}
  /\ tmp     = [p \in Procs |-> Missing]
  /\ holders = [u \in URLs |-> {}]
  /\ pc      = [p \in Procs |-> "idle"]
  /\ call    = [p \in Procs |-> Abs!NoCall]
  /\ seen    = [p \in Procs |-> Missing]
  /\ reply   = [p \in Procs |-> Abs!NoReply]

Goto(p, from, to) == pc[p] = from /\ pc' = [pc EXCEPT ![p] = to]

(* The deferred unlock, with which every operation ends. *)
Unlock(p) == holders' = [u \in URLs |-> holders[u] \ {p}]

Return(p, r) ==
  /\ reply' = [reply EXCEPT ![p] = r]
  /\ call'  = [call EXCEPT ![p] = Abs!NoCall]
  /\ pc'    = [pc EXCEPT ![p] = "idle"]
  /\ seen'  = [seen EXCEPT ![p] = Missing]
  /\ Unlock(p)

Invoke(p) ==
  /\ Goto(p, "idle", "lock")
  /\ \E c \in Abs!Calls : call' = [call EXCEPT ![p] = c]
  /\ reply' = [reply EXCEPT ![p] = Abs!NoReply]
  /\ UNCHANGED <<disk, tmp, holders, seen>>

(***************************************************************************)
(* Mutants: plausible mistakes in the code, each of which breaks one of    *)
(* the properties below (README, "Mutants"). No specification uses them.   *)
(***************************************************************************)
MutLockAlways(p) ==
  /\ call[p].kind # "get"
  /\ Goto(p, "lock", IF call[p].kind = "put" THEN "verify" ELSE "unlink")

MutVerifyNothing(p) ==
  /\ Goto(p, "verify", "statDst")
  /\ UNCHANGED <<disk, tmp, holders, call, seen, reply>>

MutRenameUnwrittenBlob(p) ==
  /\ Goto(p, "writeBlob", "renameBlob")
  /\ UNCHANGED <<disk, tmp, holders, call, seen, reply>>

MutUnlinkContent(p) ==
  /\ pc[p] = "unlink"
  /\ meta' = [meta EXCEPT ![call[p].url] = Missing]
  /\ cas' = [b \in Bytes |-> IF b = meta[call[p].url] THEN Missing ELSE cas[b]]
  /\ Return(p, Abs!Reply("ok", Missing))
  /\ UNCHANGED tmp

-----------------------------------------------------------------------------
(* flock(LOCK_SH) and flock(LOCK_EX) on the lock file of the URL. *)
LockShared(p) ==
  /\ call[p].kind = "get"
  /\ \A q \in holders[call[p].url] : call[q].kind = "get"
  /\ Goto(p, "lock", "readMeta")

LockExclusive(p) ==
  /\ call[p].kind # "get"
  /\ holders[call[p].url] = {}
  /\ Goto(p, "lock", IF call[p].kind = "put" THEN "verify" ELSE "unlink")

Lock(p) ==
  /\ pc[p] = "lock"
  /\ LockShared(p) \/ LockExclusive(p)
  /\ holders' = [holders EXCEPT ![call[p].url] = @ \union {p}]
  /\ UNCHANGED <<disk, tmp, call, seen, reply>>

-----------------------------------------------------------------------------
(* Get *)
ReadMeta(p) ==
  LET h == meta[call[p].url] IN
  /\ pc[p] = "readMeta"
  /\ \/ /\ h = Missing
        /\ Return(p, Abs!Reply("notCached", Missing))
     \/ /\ h # Missing
        /\ Goto(p, "readMeta", "statBlob")
        /\ seen' = [seen EXCEPT ![p] = h]
        /\ UNCHANGED <<holders, call, reply>>
  /\ UNCHANGED <<disk, tmp>>

(* Recorded bytes that are not there count as not cached, and so do those  *)
(* that os.Stat fails on for any other reason.                             *)
StatBlob(p) ==
  /\ pc[p] = "statBlob"
  /\ \/ /\ cas[seen[p]] # Missing
        /\ Return(p, Abs!Reply("ok", seen[p]))
     \/ Return(p, Abs!Reply("notCached", Missing))
  /\ UNCHANGED <<disk, tmp>>

-----------------------------------------------------------------------------
(* Put: compare the hash, write the content file, then the metadata file.  *)
Verify(p) ==
  /\ pc[p] = "verify"
  /\ \/ /\ call[p].want \notin {Missing, call[p].bytes}
        /\ Return(p, Abs!Reply("integrity", Missing))
     \/ /\ call[p].want \in {Missing, call[p].bytes}
        /\ Goto(p, "verify", "statDst")
        /\ UNCHANGED <<holders, call, seen, reply>>
  /\ UNCHANGED <<disk, tmp>>

(* A content file that exists is not written again, unless os.Stat fails   *)
(* on it.                                                                  *)
StatDst(p) ==
  /\ pc[p] = "statDst"
  /\ \/ /\ cas[call[p].bytes] # Missing
        /\ Goto(p, "statDst", "createMeta")
        /\ UNCHANGED tmp
     \/ /\ Goto(p, "statDst", "writeBlob")
        /\ tmp' = [tmp EXCEPT ![p] = Torn]
  /\ UNCHANGED <<disk, holders, call, seen, reply>>

WriteBlob(p) ==
  /\ Goto(p, "writeBlob", "renameBlob")
  /\ tmp' = [tmp EXCEPT ![p] = call[p].bytes]
  /\ UNCHANGED <<disk, holders, call, seen, reply>>

RenameBlob(p) ==
  /\ Goto(p, "renameBlob", "createMeta")
  /\ cas' = [cas EXCEPT ![call[p].bytes] = tmp[p]]
  /\ tmp' = [tmp EXCEPT ![p] = Missing]
  /\ UNCHANGED <<meta, holders, call, seen, reply>>

CreateMeta(p) ==
  /\ Goto(p, "createMeta", "writeMeta")
  /\ tmp' = [tmp EXCEPT ![p] = Torn]
  /\ UNCHANGED <<disk, holders, call, seen, reply>>

WriteMeta(p) ==
  /\ Goto(p, "writeMeta", "renameMeta")
  /\ tmp' = [tmp EXCEPT ![p] = call[p].bytes]
  /\ UNCHANGED <<disk, holders, call, seen, reply>>

RenameMeta(p) ==
  /\ pc[p] = "renameMeta"
  /\ meta' = [meta EXCEPT ![call[p].url] = tmp[p]]
  /\ tmp'  = [tmp EXCEPT ![p] = Missing]
  /\ Return(p, Abs!Reply("ok", call[p].bytes))
  /\ UNCHANGED cas

-----------------------------------------------------------------------------
(* Delete drops the mapping and keeps the content, which other URLs may    *)
(* refer to.                                                               *)
Unlink(p) ==
  /\ pc[p] = "unlink"
  /\ meta' = [meta EXCEPT ![call[p].url] = Missing]
  /\ Return(p, Abs!Reply("ok", Missing))
  /\ UNCHANGED <<cas, tmp>>

(* Any system call may fail: the temporary file is removed, the lock       *)
(* released and the error returned. A content file already renamed stays.  *)
(* The two calls of os.Stat return no error: StatBlob and StatDst have     *)
(* what comes of theirs ("statDst" is also the mkdir before it).           *)
IOError(p) ==
  /\ pc[p] \notin {"idle", "statBlob"}
  /\ tmp' = [tmp EXCEPT ![p] = Missing]
  /\ Return(p, Abs!Reply("failed", Missing))
  /\ UNCHANGED disk

(* The process dies. Its descriptors close, which drops its lock. The      *)
(* temporary file it was writing stays on disk under a name that no one    *)
(* uses again.                                                             *)
Crash(p) ==
  /\ pc[p] # "idle"
  /\ tmp' = [tmp EXCEPT ![p] = Missing]
  /\ Return(p, Abs!NoReply)
  /\ UNCHANGED disk

Step(p) ==
  \/ Invoke(p)     \/ Lock(p)
  \/ ReadMeta(p)   \/ StatBlob(p)
  \/ Verify(p)     \/ StatDst(p)   \/ WriteBlob(p) \/ RenameBlob(p)
  \/ CreateMeta(p) \/ WriteMeta(p) \/ RenameMeta(p)
  \/ Unlink(p)     \/ IOError(p)   \/ Crash(p)

Next == \E p \in Procs : Step(p)

Spec == Init /\ [][Next]_vars

-----------------------------------------------------------------------------
(* The lock protocol: whoever is past its flock call holds the lock of its *)
(* own URL, nobody else holds one (no early return leaks it), and a Put or *)
(* a Delete holds it alone.                                                *)
LockProtocol ==
  /\ \A p \in Procs, u \in URLs :
        p \in holders[u] <=> pc[p] \in LockedPCs /\ call[p].url = u
  /\ \A u \in URLs : \A p, q \in holders[u] :
        p # q => call[p].kind = "get" /\ call[q].kind = "get"

(* A metadata file names bytes whose content file is there and whole, at   *)
(* every instant: also while a Put of the same bytes under another URL is  *)
(* renaming the same file, and after a crash between the two renames.      *)
RecordedBytesAreThere ==
  \A u \in URLs : meta[u] # Missing => cas[meta[u]] = meta[u]

(* No reader can ever open a content file that is torn or holds the bytes  *)
(* of another hash.                                                        *)
BlobsAreWhole == \A b \in Bytes : cas[b] \in {Missing, b}

(* What the cache promises its callers (StoreAbs): every operation takes   *)
(* effect atomically, or not at all when it fails or its process dies; a   *)
(* Get that cannot see the bytes misses, and never answers with others.    *)
Atomic == Abs!Spec

=============================================================================
