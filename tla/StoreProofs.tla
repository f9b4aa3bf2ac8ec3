---------------------------- MODULE StoreProofs ----------------------------
(***************************************************************************)
(* The cache is correct for every number of callers, URLs and contents:    *)
(* its invariants, and that it implements StoreAbs.                        *)
(***************************************************************************)
EXTENDS Store, TLAPS

PutPCs == {"verify", "statDst", "writeBlob", "renameBlob",
           "createMeta", "writeMeta", "renameMeta"}

(* What a caller knows at each step of its operation: which operation it   *)
(* is in, and what the steps it has behind it have established.            *)
CallAtStep(p) ==
  /\ pc[p] = "idle" => call[p] = Abs!NoCall
  /\ pc[p] # "idle" => call[p] \in Abs!Calls
  /\ pc[p] \in {"readMeta", "statBlob"} => call[p].kind = "get"
  /\ pc[p] = "unlink" => call[p].kind = "delete"
  /\ pc[p] \in PutPCs => call[p].kind = "put"

KnownAtStep(p) ==
  /\ pc[p] = "statBlob" =>
        seen[p] # Missing /\ seen[p] = meta[call[p].url]
  /\ pc[p] \in PutPCs \ {"verify"} =>
        call[p].want \in {Missing, call[p].bytes}
  /\ pc[p] \in {"renameBlob", "renameMeta"} => tmp[p] = call[p].bytes
  /\ pc[p] \in {"createMeta", "writeMeta", "renameMeta"} =>
        cas[call[p].bytes] = call[p].bytes

CallersInv == \A p \in Procs : CallAtStep(p) /\ KnownAtStep(p)

DiskInv == RecordedBytesAreThere /\ BlobsAreWhole

(* The inductive invariant. RecordedBytesAreThere alone is not inductive:  *)
(* RenameMeta keeps it because the content file was seen or renamed before *)
(* (KnownAtStep), and StatBlob answers for the present metadata because    *)
(* the shared lock has kept writers of that URL out since ReadMeta.        *)
IInv == TypeOK /\ LockProtocol /\ DiskInv /\ CallersInv

-----------------------------------------------------------------------------
(* The three kinds of calls, told apart by their kind. *)
LEMMA CallKinds ==
  /\ Abs!NoCall \notin Abs!Calls
  /\ \A c \in Abs!Calls :
       /\ c.url \in URLs
       /\ c.kind \in {"get", "delete", "put"}
       /\ c.kind = "put" => c.bytes \in Bytes /\ c.want \in Hash
BY DEF Abs!NoCall, Abs!Calls, Abs!Lookups, Abs!Puts, Hash

Replies == [status : Abs!Status, bytes : Hash]

(* Every reply the operations give is a reply. *)
LEMMA ReplyTyped ==
  /\ Abs!NoReply \in Replies
  /\ \A s \in {"none", "ok", "notCached", "integrity", "failed"}, b \in Hash :
       Abs!Reply(s, b) \in Replies
BY DEF Abs!NoReply, Abs!Reply, Abs!Status, Hash, Replies

(* Return ends the call of p, types everything it changes and releases     *)
(* exactly the lock of p.                                                  *)
LEMMA ReturnTyped ==
  ASSUME TypeOK, NEW p \in Procs, NEW r \in Replies, Return(p, r)
  PROVE  /\ holders' \in [URLs -> SUBSET Procs]
         /\ pc' \in [Procs -> PCs]
         /\ call' \in [Procs -> Abs!Calls \union {Abs!NoCall}]
         /\ seen' \in [Procs -> Hash]
         /\ reply' \in [Procs -> Replies]
BY DEF TypeOK, Return, Unlock, PCs, Hash, Replies

LEMMA ReturnUnlocks ==
  ASSUME TypeOK, LockProtocol, NEW p \in Procs, NEW r, Return(p, r)
  PROVE  LockProtocol'
BY DEF TypeOK, LockProtocol, Return, Unlock, LockedPCs

(* What the other callers know survives a Return of p that leaves the      *)
(* content files and the metadata of every URL some other Get is reading.  *)
LEMMA ReturnKeepsCallers ==
  ASSUME IInv, NEW p \in Procs, NEW r, Return(p, r),
         cas' = cas, \A q \in Procs : q # p => tmp'[q] = tmp[q],
         \A q \in Procs : q # p /\ pc[q] = "statBlob" =>
                                meta'[call[q].url] = meta[call[q].url]
  PROVE  CallersInv'
BY DEF IInv, TypeOK, CallersInv, CallAtStep, KnownAtStep, Return, PutPCs, PCs,
   LockedPCs

(* A step inside an operation touches no lock. *)
LEMMA StayLocked ==
  ASSUME TypeOK, LockProtocol, NEW p \in Procs,
         NEW from \in LockedPCs, NEW to \in LockedPCs,
         Goto(p, from, to), UNCHANGED <<holders, call>>
  PROVE  LockProtocol'
BY DEF LockProtocol, TypeOK, Goto

(* The disk invariant is about cas and meta. *)
LEMMA DiskUnchanged ==
  ASSUME DiskInv, UNCHANGED <<cas, meta>>
  PROVE  DiskInv'
BY DEF DiskInv, RecordedBytesAreThere, BlobsAreWhole

-----------------------------------------------------------------------------
LEMMA InitEstablishes == Init => IInv
<1> SUFFICES ASSUME Init PROVE IInv
  OBVIOUS
<1>1. TypeOK
  BY ReplyTyped DEF Init, TypeOK, PCs, File, Hash, Replies
<1>2. LockProtocol
  BY DEF Init, LockProtocol, LockedPCs
<1>3. DiskInv
  BY DEF Init, DiskInv, RecordedBytesAreThere, BlobsAreWhole, Hash
<1>4. CallersInv
  BY DEF Init, CallersInv, CallAtStep, KnownAtStep, PutPCs
<1>5. QED
  BY <1>1, <1>2, <1>3, <1>4 DEF IInv

(* No step of any caller breaks the invariant. *)
LEMMA StepPreserves ==
  ASSUME IInv, NEW p \in Procs, Step(p)
  PROVE  IInv'
<1> USE StoreAssumption DEF IInv
<1>1. CASE Invoke(p)
  <2>1. TypeOK'
    BY <1>1, ReplyTyped DEF Invoke, Goto, disk, TypeOK, PCs, Replies
  <2>2. LockProtocol'
    <3>1. pc[p] = "idle" /\ pc'[p] = "lock"
      BY <1>1 DEF Invoke, Goto, TypeOK
    <3>2. /\ \A q \in Procs : q # p => pc'[q] = pc[q] /\ call'[q] = call[q]
          /\ holders' = holders
      BY <1>1 DEF Invoke, Goto, TypeOK
    <3>3. \A u \in URLs : p \notin holders[u] /\ holders[u] \subseteq Procs
      BY <3>1 DEF LockProtocol, LockedPCs, TypeOK
    <3>4. QED
      BY <3>1, <3>2, <3>3 DEF LockProtocol, LockedPCs
  <2>3. DiskInv'
    BY <1>1, DiskUnchanged DEF Invoke, disk
  <2>4. CallersInv'
    BY <1>1 DEF Invoke, Goto, disk, TypeOK, CallersInv, CallAtStep,
       KnownAtStep, PutPCs
  <2>5. QED
    BY <2>1, <2>2, <2>3, <2>4 DEF CallersInv
<1>2. CASE Lock(p)
  <2>1. TypeOK'
    BY <1>2, CallKinds DEF Lock, LockShared, LockExclusive, Goto, disk, TypeOK,
       PCs, LockedPCs
  <2>2. LockProtocol'
    BY <1>2, CallKinds DEF Lock, LockShared, LockExclusive, Goto, disk, TypeOK,
       LockProtocol, LockedPCs, CallersInv, CallAtStep
  <2>3. DiskInv'
    BY <1>2, DiskUnchanged DEF Lock, disk
  <2>4. CallersInv'
    BY <1>2, CallKinds DEF Lock, LockShared, LockExclusive, Goto, disk, TypeOK,
       CallersInv, CallAtStep, KnownAtStep, PutPCs
  <2>5. QED
    BY <2>1, <2>2, <2>3, <2>4 DEF CallersInv
<1>3. CASE ReadMeta(p)
  <2>1. CASE pc'[p] = "idle"
    <3>1. PICK r \in Replies : Return(p, r)
      BY <1>3, <2>1, ReplyTyped DEF ReadMeta, Goto, TypeOK, Hash
    <3>2. TypeOK'
      BY <1>3, <3>1, ReturnTyped DEF ReadMeta, disk, TypeOK, Replies
    <3>3. LockProtocol'
      BY <3>1, ReturnUnlocks
    <3>4. CallersInv'
      BY <1>3, <3>1, ReturnKeepsCallers DEF ReadMeta, disk
    <3>5. QED
      BY <1>3, <3>2, <3>3, <3>4, DiskUnchanged DEF ReadMeta, disk
  <2>2. CASE pc'[p] # "idle"
    <3>1. /\ Goto(p, "readMeta", "statBlob")
          /\ UNCHANGED <<cas, meta, tmp, holders, call, reply>>
          /\ seen' = [seen EXCEPT ![p] = meta[call[p].url]]
      BY <1>3, <2>2 DEF ReadMeta, Return, TypeOK, disk
    <3>2. TypeOK'
      <4>1. meta[call[p].url] \in Hash
        BY <3>1, CallKinds DEF Goto, TypeOK, CallersInv, CallAtStep
      <4>2. QED
        BY <3>1, <4>1 DEF Goto, TypeOK, PCs, LockedPCs
    <3>3. LockProtocol'
      BY <3>1, StayLocked DEF LockedPCs
    <3>4. CallersInv'
      BY <1>3, <2>2, CallKinds DEF ReadMeta, Goto, Return, disk, TypeOK,
         CallersInv, CallAtStep, KnownAtStep, PutPCs
    <3>5. QED
      BY <1>3, <3>2, <3>3, <3>4, DiskUnchanged DEF ReadMeta, disk
  <2>3. QED
    BY <2>1, <2>2
<1>4. CASE StatBlob(p)
  <2>1. PICK r \in Replies : Return(p, r)
    BY <1>4, ReplyTyped, CallKinds DEF StatBlob, CallersInv, CallAtStep, Hash,
       TypeOK
  <2>2. TypeOK'
    BY <1>4, <2>1, ReturnTyped, CallKinds DEF StatBlob, disk, TypeOK, File,
       Hash, Replies, TypeOK
  <2>3. LockProtocol'
    BY <2>1, ReturnUnlocks
  <2>4. DiskInv'
    BY <1>4, DiskUnchanged DEF StatBlob, disk
  <2>5. CallersInv'
    BY <1>4, <2>1, ReturnKeepsCallers DEF StatBlob, disk, TypeOK
  <2>6. QED
    BY <2>1, <2>2, <2>3, <2>4, <2>5 DEF CallersInv
<1>5. CASE Verify(p)
  <2>1. CASE pc'[p] = "idle"
    <3>1. PICK r \in Replies : Return(p, r)
      BY <1>5, <2>1, ReplyTyped DEF Verify, Goto, TypeOK, Hash
    <3>2. TypeOK'
      BY <1>5, <3>1, ReturnTyped DEF Verify, disk, TypeOK, Replies
    <3>3. LockProtocol'
      BY <3>1, ReturnUnlocks
    <3>4. CallersInv'
      BY <1>5, <3>1, ReturnKeepsCallers DEF Verify, disk
    <3>5. QED
      BY <1>5, <3>2, <3>3, <3>4, DiskUnchanged DEF Verify, disk
  <2>2. CASE pc'[p] # "idle"
    <3>1. Goto(p, "verify", "statDst") /\ UNCHANGED <<holders, call>>
      BY <1>5, <2>2 DEF Verify, Return, TypeOK
    <3>2. TypeOK'
      BY <1>5, <2>2, CallKinds DEF Verify, Goto, Return, disk, TypeOK, PCs,
         LockedPCs, Hash, CallersInv, CallAtStep
    <3>3. LockProtocol'
      BY <3>1, StayLocked DEF LockedPCs
    <3>4. CallersInv'
      BY <1>5, <2>2, CallKinds DEF Verify, Goto, Return, disk, TypeOK,
         CallersInv, CallAtStep, KnownAtStep, PutPCs
    <3>5. QED
      BY <1>5, <3>2, <3>3, <3>4, DiskUnchanged DEF Verify, disk
  <2>3. QED
    BY <2>1, <2>2
<1>6. CASE StatDst(p)
  <2>1. TypeOK'
    <3>1. pc' \in [Procs -> PCs]
      BY <1>6 DEF StatDst, Goto, TypeOK, PCs, LockedPCs
    <3>2. tmp' \in [Procs -> File]
      BY <1>6 DEF StatDst, TypeOK, File
    <3>3. QED
      BY <1>6, <3>1, <3>2 DEF StatDst, disk, TypeOK
  <2>2. LockProtocol'
    BY <1>6, StayLocked DEF StatDst, LockedPCs
  <2>3. DiskInv'
    BY <1>6, DiskUnchanged DEF StatDst, disk
  <2>4. CallersInv'
    BY <1>6, CallKinds DEF StatDst, Goto, disk, TypeOK, CallersInv, CallAtStep,
       KnownAtStep, PutPCs, DiskInv, BlobsAreWhole
  <2>5. QED
    BY <2>1, <2>2, <2>3, <2>4
<1>7. CASE WriteBlob(p)
  <2>1. TypeOK'
    BY <1>7, CallKinds DEF WriteBlob, Goto, disk, TypeOK, PCs, LockedPCs, File,
       CallersInv, CallAtStep, PutPCs
  <2>2. LockProtocol'
    BY <1>7, StayLocked DEF WriteBlob, disk, LockedPCs
  <2>3. DiskInv'
    BY <1>7, DiskUnchanged DEF WriteBlob, disk
  <2>4. CallersInv'
    BY <1>7, CallKinds DEF WriteBlob, Goto, disk, TypeOK, CallersInv,
       CallAtStep, KnownAtStep, PutPCs
  <2>5. QED
    BY <2>1, <2>2, <2>3, <2>4 DEF CallersInv
<1>8. CASE RenameBlob(p)
  <2>1. call[p].bytes \in Bytes /\ tmp[p] = call[p].bytes
    BY <1>8, CallKinds DEF RenameBlob, Goto, CallersInv, CallAtStep,
       KnownAtStep, PutPCs
  <2>2. TypeOK'
    BY <1>8, <2>1 DEF RenameBlob, Goto, TypeOK, PCs, LockedPCs, File
  <2>3. LockProtocol'
    BY <1>8, StayLocked DEF RenameBlob, LockedPCs
  <2>4. DiskInv'
    BY <1>8, <2>1 DEF RenameBlob, TypeOK, DiskInv, RecordedBytesAreThere,
       BlobsAreWhole, Hash
  <2>5. CallersInv'
    BY <1>8, <2>1, CallKinds DEF RenameBlob, Goto, TypeOK, CallersInv,
       CallAtStep, KnownAtStep, PutPCs
  <2>6. QED
    BY <2>2, <2>3, <2>4, <2>5
<1>9. CASE CreateMeta(p)
  <2>1. TypeOK'
    BY <1>9, CallKinds DEF CreateMeta, Goto, disk, TypeOK, PCs, LockedPCs, File
  <2>2. LockProtocol'
    BY <1>9, StayLocked DEF CreateMeta, disk, LockedPCs
  <2>3. DiskInv'
    BY <1>9, DiskUnchanged DEF CreateMeta, disk
  <2>4. CallersInv'
    BY <1>9, CallKinds DEF CreateMeta, Goto, disk, TypeOK, CallersInv,
       CallAtStep, KnownAtStep, PutPCs
  <2>5. QED
    BY <2>1, <2>2, <2>3, <2>4 DEF CallersInv
<1>10. CASE WriteMeta(p)
  <2>1. TypeOK'
    BY <1>10, CallKinds DEF WriteMeta, Goto, disk, TypeOK, PCs, LockedPCs,
       File, CallersInv, CallAtStep, PutPCs
  <2>2. LockProtocol'
    BY <1>10, StayLocked DEF WriteMeta, disk, LockedPCs
  <2>3. DiskInv'
    BY <1>10, DiskUnchanged DEF WriteMeta, disk
  <2>4. CallersInv'
    BY <1>10, CallKinds DEF WriteMeta, Goto, disk, TypeOK, CallersInv,
       CallAtStep, KnownAtStep, PutPCs
  <2>5. QED
    BY <2>1, <2>2, <2>3, <2>4 DEF CallersInv
<1>11. CASE RenameMeta(p)
  <2>1. /\ call[p].url \in URLs /\ call[p].bytes \in Bytes
        /\ tmp[p] = call[p].bytes /\ cas[call[p].bytes] = call[p].bytes
    BY <1>11, CallKinds DEF RenameMeta, CallersInv, CallAtStep, KnownAtStep,
       PutPCs
  <2>2. PICK r \in Replies : Return(p, r)
    BY <1>11, <2>1, ReplyTyped DEF RenameMeta, Hash
  <2>3. TypeOK'
    BY <1>11, <2>1, <2>2, ReturnTyped DEF RenameMeta, TypeOK, File, Hash,
       Replies
  <2>4. LockProtocol'
    BY <2>2, ReturnUnlocks
  <2>5. DiskInv'
    BY <1>11, <2>1 DEF RenameMeta, TypeOK, DiskInv, RecordedBytesAreThere,
       BlobsAreWhole
  <2>6. ASSUME NEW q \in Procs, q # p, pc[q] = "statBlob"
        PROVE  meta'[call[q].url] = meta[call[q].url]
    <3>1. p \in holders[call[p].url] /\ call[p].kind # "get"
      BY <1>11, <2>1 DEF RenameMeta, LockProtocol, LockedPCs, CallersInv,
         CallAtStep, PutPCs
    <3>2. call[q].url \in URLs /\ q \in holders[call[q].url]
      BY <2>6, CallKinds DEF LockProtocol, LockedPCs, CallersInv, CallAtStep
    <3>3. call[q].url # call[p].url
      BY <2>1, <2>6, <3>1, <3>2 DEF LockProtocol
    <3>4. QED
      BY <1>11, <2>1, <3>2, <3>3 DEF RenameMeta, TypeOK
  <2>7. CallersInv'
    BY <1>11, <2>2, <2>6, ReturnKeepsCallers DEF RenameMeta, TypeOK
  <2>8. QED
    BY <2>3, <2>4, <2>5, <2>7
<1>12. CASE Unlink(p)
  <2>1. call[p].url \in URLs
    BY <1>12, CallKinds DEF Unlink, CallersInv, CallAtStep
  <2>2. PICK r \in Replies : Return(p, r)
    BY <1>12, <2>1, ReplyTyped DEF Unlink, Hash
  <2>3. TypeOK'
    BY <1>12, <2>1, <2>2, ReturnTyped DEF Unlink, TypeOK, File, Hash, Replies
  <2>4. LockProtocol'
    BY <2>2, ReturnUnlocks
  <2>5. DiskInv'
    BY <1>12, <2>1 DEF Unlink, TypeOK, DiskInv, RecordedBytesAreThere,
       BlobsAreWhole
  <2>6. ASSUME NEW q \in Procs, q # p, pc[q] = "statBlob"
        PROVE  meta'[call[q].url] = meta[call[q].url]
    <3>1. p \in holders[call[p].url] /\ call[p].kind # "get"
      BY <1>12, <2>1 DEF Unlink, LockProtocol, LockedPCs, CallersInv,
         CallAtStep, PutPCs
    <3>2. call[q].url \in URLs /\ q \in holders[call[q].url]
      BY <2>6, CallKinds DEF LockProtocol, LockedPCs, CallersInv, CallAtStep
    <3>3. call[q].url # call[p].url
      BY <2>1, <2>6, <3>1, <3>2 DEF LockProtocol
    <3>4. QED
      BY <1>12, <2>1, <3>2, <3>3 DEF Unlink, TypeOK
  <2>7. CallersInv'
    BY <1>12, <2>2, <2>6, ReturnKeepsCallers DEF Unlink, TypeOK
  <2>8. QED
    BY <2>3, <2>4, <2>5, <2>7
<1>13. CASE IOError(p)
  <2>1. PICK r \in Replies : Return(p, r)
    BY <1>13, ReplyTyped, CallKinds DEF IOError, CallersInv, CallAtStep, Hash
  <2>2. TypeOK'
    BY <1>13, <2>1, ReturnTyped, CallKinds DEF IOError, disk, TypeOK, File,
       Hash, Replies
  <2>3. LockProtocol'
    BY <2>1, ReturnUnlocks
  <2>4. DiskInv'
    BY <1>13, DiskUnchanged DEF IOError, disk
  <2>5. CallersInv'
    BY <1>13, <2>1, ReturnKeepsCallers DEF IOError, disk, TypeOK
  <2>6. QED
    BY <2>1, <2>2, <2>3, <2>4, <2>5 DEF CallersInv
<1>14. CASE Crash(p)
  <2>1. Return(p, Abs!NoReply)
    BY <1>14 DEF Crash
  <2>2. TypeOK'
    BY <1>14, <2>1, ReturnTyped, ReplyTyped DEF Crash, disk, TypeOK, File,
       Replies
  <2>3. LockProtocol'
    BY <2>1, ReturnUnlocks
  <2>4. CallersInv'
    BY <1>14, <2>1, ReturnKeepsCallers DEF Crash, disk, TypeOK
  <2>5. QED
    BY <1>14, <2>2, <2>3, <2>4, DiskUnchanged DEF Crash, disk
<1>15. QED
  BY <1>1, <1>2, <1>3, <1>4, <1>5, <1>6, <1>7, <1>8, <1>9, <1>10, <1>11, <1>12,
     <1>13, <1>14 DEF Step

LEMMA StutterPreserves ==
  ASSUME IInv, UNCHANGED vars
  PROVE  IInv'
BY DEF IInv, vars, disk, TypeOK, LockProtocol, DiskInv, RecordedBytesAreThere,
   BlobsAreWhole, CallersInv, CallAtStep, KnownAtStep

(* The invariant holds in every reachable state of every instance. *)
THEOREM Invariance == Spec => []IInv
<1>1. IInv /\ [Next]_vars => IInv'
  BY StepPreserves, StutterPreserves DEF Next
<1>2. QED
  BY InitEstablishes, <1>1, PTL DEF Spec

(* Every variable keeps its type. *)
THEOREM TypeCorrect == Spec => []TypeOK
BY Invariance, PTL DEF IInv

(* Nobody leaks or shares a writer's lock, for any number of callers. *)
THEOREM Locking == Spec => []LockProtocol
BY Invariance, PTL DEF IInv

(* A URL that is recorded has its bytes on disk, through interleaved Puts  *)
(* of the same bytes, failures and crashes.                                *)
THEOREM Recorded == Spec => []RecordedBytesAreThere
BY Invariance, PTL DEF IInv, DiskInv

(* No content file is ever torn or misnamed. *)
THEOREM Whole == Spec => []BlobsAreWhole
BY Invariance, PTL DEF IInv, DiskInv

-----------------------------------------------------------------------------
(* The cache implements the atomic map. An operation takes effect when it  *)
(* returns: a Put when it renames the metadata file, a Delete when it      *)
(* removes it, a Get when it answers.                                      *)
LEMMA InitRefines == Init => Abs!Init
BY DEF Init, Abs!Init, Hash

LEMMA ReturnCompletes ==
  ASSUME TypeOK, NEW p \in Procs, call[p] \in Abs!Calls,
         Return(p, Abs!Outcome(call[p], meta)), meta' = Abs!Effect(call[p], meta)
  PROVE  Abs!Complete(p)
BY CallKinds DEF Abs!Complete, Return

LEMMA StepRefines ==
  ASSUME IInv, NEW p \in Procs, Step(p)
  PROVE  \/ Abs!Invoke(p) \/ Abs!Complete(p) \/ Abs!Miss(p) \/ Abs!Abandon(p)
         \/ UNCHANGED Abs!vars
<1> USE DEF IInv
<1>1. CASE Invoke(p)
  BY <1>1 DEF Invoke, Goto, disk, CallersInv, CallAtStep, Abs!Invoke
<1>2. CASE ReadMeta(p) /\ pc'[p] = "idle"
  <2>1. call[p] \in Abs!Calls /\ call[p].kind = "get" /\ meta[call[p].url] = Missing
    BY <1>2 DEF ReadMeta, Goto, TypeOK, CallersInv, CallAtStep
  <2>2. Return(p, Abs!Outcome(call[p], meta)) /\ meta' = Abs!Effect(call[p], meta)
    BY <1>2, <2>1 DEF ReadMeta, disk, Abs!Outcome, Abs!Effect
  <2>3. QED
    BY <2>1, <2>2, ReturnCompletes
<1>3. CASE StatBlob(p)
  <2>1. /\ call[p] \in Abs!Calls /\ call[p].kind = "get"
        /\ call[p].url \in URLs
        /\ seen[p] # Missing /\ seen[p] = meta[call[p].url]
    BY <1>3, CallKinds DEF StatBlob, CallersInv, CallAtStep, KnownAtStep
  <2>2. CASE Return(p, Abs!Reply("ok", seen[p]))
    <3>1. Return(p, Abs!Outcome(call[p], meta)) /\ meta' = Abs!Effect(call[p], meta)
      BY <1>3, <2>1, <2>2 DEF StatBlob, disk, Abs!Outcome, Abs!Effect
    <3>2. QED
      BY <2>1, <3>1, ReturnCompletes
  <2>3. CASE Return(p, Abs!Reply("notCached", Missing))
    BY <1>3, <2>1, <2>3 DEF StatBlob, Return, disk, Abs!Miss
  <2>4. QED
    BY <1>3, <2>2, <2>3 DEF StatBlob
<1>4. CASE Verify(p) /\ pc'[p] = "idle"
  <2>1. /\ call[p] \in Abs!Calls /\ call[p].kind = "put"
        /\ call[p].want \notin {Missing, call[p].bytes}
    BY <1>4 DEF Verify, Goto, TypeOK, CallersInv, CallAtStep, PutPCs
  <2>2. Return(p, Abs!Outcome(call[p], meta)) /\ meta' = Abs!Effect(call[p], meta)
    BY <1>4, <2>1 DEF Verify, disk, Abs!Outcome, Abs!Effect
  <2>3. QED
    BY <2>1, <2>2, ReturnCompletes
<1>5. CASE RenameMeta(p)
  <2>1. /\ call[p] \in Abs!Calls /\ call[p].kind = "put"
        /\ call[p].want \in {Missing, call[p].bytes} /\ tmp[p] = call[p].bytes
    BY <1>5 DEF RenameMeta, CallersInv, CallAtStep, KnownAtStep, PutPCs
  <2>2. Return(p, Abs!Outcome(call[p], meta)) /\ meta' = Abs!Effect(call[p], meta)
    BY <1>5, <2>1 DEF RenameMeta, Abs!Outcome, Abs!Effect
  <2>3. QED
    BY <2>1, <2>2, ReturnCompletes
<1>6. CASE Unlink(p)
  <2>1. call[p] \in Abs!Calls /\ call[p].kind = "delete"
    BY <1>6 DEF Unlink, CallersInv, CallAtStep
  <2>2. Return(p, Abs!Outcome(call[p], meta)) /\ meta' = Abs!Effect(call[p], meta)
    BY <1>6, <2>1 DEF Unlink, Abs!Outcome, Abs!Effect
  <2>3. QED
    BY <2>1, <2>2, ReturnCompletes
<1>7. CASE IOError(p) \/ Crash(p)
  <2>1. call[p] # Abs!NoCall
    BY <1>7, CallKinds DEF IOError, Crash, CallersInv, CallAtStep
  <2>2. QED
    BY <1>7, <2>1 DEF IOError, Crash, Return, disk, Abs!Abandon
<1>8. CASE \/ Lock(p) \/ StatDst(p) \/ WriteBlob(p) \/ RenameBlob(p)
           \/ CreateMeta(p) \/ WriteMeta(p)
  BY <1>8 DEF Lock, StatDst, WriteBlob, RenameBlob, CreateMeta, WriteMeta,
     disk, Abs!vars
<1>9. CASE (ReadMeta(p) \/ Verify(p)) /\ pc'[p] # "idle"
  BY <1>9 DEF ReadMeta, Verify, Return, TypeOK, disk, Abs!vars
<1>10. QED
  BY <1>1, <1>2, <1>3, <1>4, <1>5, <1>6, <1>7, <1>8, <1>9 DEF Step

(* The cache implements StoreAbs. *)
THEOREM Refinement == Spec => Atomic
<1>1. IInv /\ [Next]_vars => [Abs!Next]_(Abs!vars)
  <2>1. ASSUME IInv, UNCHANGED vars PROVE UNCHANGED Abs!vars
    BY <2>1 DEF vars, disk, Abs!vars
  <2>2. QED
    BY <2>1, StepRefines DEF Next, Abs!Next
<1>2. QED
  BY InitRefines, Invariance, <1>1, PTL DEF Spec, Atomic, Abs!Spec
=============================================================================
