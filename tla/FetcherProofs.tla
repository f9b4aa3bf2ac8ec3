--------------------------- MODULE FetcherProofs ---------------------------
(***************************************************************************)
(* Proofs about Fetcher for every set of URLs and specs, every import      *)
(* graph, every Concurrency and any number of retries and failures: the    *)
(* types are kept, requests are made slot in hand and never more than      *)
(* Concurrency at a time, and a URL has one leader from its claim to the   *)
(* close of its done channel. The second half is about the tree of tasks:  *)
(* a Fetch that has returned has left nothing behind, has reported every   *)
(* failure, and has fetched all that its result refers to.                 *)
(***************************************************************************)
EXTENDS Fetcher, FiniteSetTheorems, TLAPS

(* The slots that are out are finitely many, and few enough. *)
SlotsBounded == IsFiniteSet(sem) /\ Cardinality(sem) <= Concurrency

(* What a task relies on at each of its steps: the key it waits for or     *)
(* works on is a URL; a fallback spec exists; a task without a slot has    *)
(* found its package in the store, so that it will not make a request; and *)
(* a leading task is the one that claimed its key.                         *)
TaskInv(x) ==
  /\ pc[x] \in {"wait", "claim"} \union Leading => key[x] \in URLs
  /\ pc[x] = "discover" => Entry[spec[x]] # None
  /\ pc[x] \in Network => Slot(x) \in sem
  /\ pc[x] \in {"claim", "recheck", "stored"} =>
        Slot(x) \in sem \/ key[x] \in cached
  /\ pc[x] \in Leading => inflight[key[x]] = x /\ key[x] \notin done

(* A done channel exists only for a URL that was claimed. *)
DoneAreClaimed == \A u \in done : inflight[u] # NoTask

IInv ==
  /\ TypeOK
  /\ SlotsBounded
  /\ DoneAreClaimed
  /\ \A x \in Tasks : TaskInv(x)

-----------------------------------------------------------------------------
LEMMA TaskIsSomebody == NoTask \notin Tasks
BY FetcherAssumption DEF Tasks, NoTask

(* Giving slots back keeps the bound. *)
LEMMA FewerSlots ==
  ASSUME TypeOK, SlotsBounded, sem' \subseteq sem
  PROVE  SlotsBounded'
<1>1. IsFiniteSet(sem') /\ Cardinality(sem') <= Cardinality(sem)
  BY FS_Subset DEF SlotsBounded
<1>2. Cardinality(sem') \in Nat /\ Cardinality(sem) \in Nat
  BY <1>1, FS_CardinalityType DEF SlotsBounded
<1>3. QED
  BY <1>1, <1>2, FetcherAssumption DEF SlotsBounded

(* A task other than t keeps what it relies on when the step of t leaves   *)
(* its local state, its slot, the store and its claim alone.               *)
LEMMA OthersKept ==
  ASSUME NEW x \in Tasks, TaskInv(x),
         pc'[x] = pc[x], key'[x] = key[x],
         spec'[x] = spec[x], frame'[x] = frame[x],
         Slot(x) \in sem => Slot(x) \in sem',
         cached \subseteq cached',
         pc[x] \in Leading => inflight'[key[x]] = x /\ key[x] \notin done'
  PROVE  TaskInv(x)'
BY DEF TaskInv, Slot

(* A return of t: the types. *)
LEMMA ReturnTyped ==
  ASSUME TypeOK, NEW t \in Tasks, NEW r \in Outcomes, Return(t, r)
  PROVE  /\ sem'    \in SUBSET (Tasks \X {1, 2})
         /\ pc'     \in [Tasks -> PCs]
         /\ spec'   \in [Tasks -> Specs]
         /\ frame'  \in [Tasks -> {1, 2}]
         /\ key'    \in [Tasks -> URLs \union {None}]
         /\ tries'  \in [Tasks -> Nat]
         /\ result' \in [Tasks -> Outcomes]
BY DEF TypeOK, Return, PCs

(* A return of t, which may close the done channel of its own claim, takes *)
(* nothing from another task.                                              *)
LEMMA ReturnKeeps ==
  ASSUME IInv, NEW t \in Tasks, NEW r, Return(t, r),
         inflight' = inflight, cached' = cached,
         done' = done \/ (pc[t] \in Leading /\ done' = done \union {key[t]})
  PROVE  SlotsBounded' /\ DoneAreClaimed' /\ \A x \in Tasks : TaskInv(x)'
<1>1. SlotsBounded'
  BY FewerSlots DEF IInv, Return
<1>2. TaskInv(t)'
  BY DEF IInv, TypeOK, Return, TaskInv, Leading, Network
<1>3. ASSUME NEW x \in Tasks, x # t PROVE TaskInv(x)'
  <2>1. /\ pc'[x] = pc[x] /\ key'[x] = key[x]
        /\ spec'[x] = spec[x] /\ frame'[x] = frame[x]
    BY <1>3 DEF IInv, TypeOK, Return
  <2>2. Slot(x) \in sem => Slot(x) \in sem'
    BY <1>3 DEF Return, Slot
  <2>3. pc[x] \in Leading => inflight'[key[x]] = x /\ key[x] \notin done'
    BY <1>3 DEF IInv, TaskInv
  <2>4. TaskInv(x)
    BY DEF IInv
  <2>5. QED
    BY <2>1, <2>2, <2>3, <2>4, OthersKept
<1>4. DoneAreClaimed'
  BY TaskIsSomebody DEF IInv, DoneAreClaimed, TaskInv
<1>5. QED
  BY <1>1, <1>2, <1>3, <1>4

(* The same for a task that returns from its claim. *)
LEMMA ReturnClaimedPreserves ==
  ASSUME IInv, NEW t \in Tasks, NEW r \in Outcomes, NEW p \in Outcomes,
         ReturnClaimed(t, r, p), pc[t] \in Leading,
         UNCHANGED <<imports, cached, cancelled, inflight, visited>>,
         faults' \in Nat, deps' \in [URLs -> SUBSET Outcomes]
  PROVE  IInv'
<1>1. TypeOK'
  <2>1. key[t] \in URLs
    BY DEF IInv, TaskInv
  <2>2. pending' \in [URLs -> Outcomes] /\ done' \in SUBSET URLs
    BY <2>1 DEF IInv, TypeOK, ReturnClaimed
  <2>3. QED
    BY <2>2, ReturnTyped DEF IInv, TypeOK, ReturnClaimed
<1>2. QED
  BY <1>1, ReturnKeeps DEF IInv, ReturnClaimed

LEMMA FailPreserves ==
  ASSUME IInv, NEW t \in Tasks, Fail(t), faults' \in Nat
  PROVE  IInv'
<1>0. Failed \in Outcomes /\ None \in Outcomes
  BY DEF Outcomes
<1>1. CASE pc[t] \in Leading
  BY <1>0, <1>1, ReturnClaimedPreserves DEF Fail, IInv, TypeOK
<1>2. CASE pc[t] \notin Leading
  <2>1. TypeOK'
    BY <1>0, <1>2, ReturnTyped DEF Fail, IInv, TypeOK
  <2>2. QED
    BY <1>2, <2>1, ReturnKeeps DEF Fail, IInv
<1>3. QED
  BY <1>1, <1>2

(* A step of t that only moves t on: what is left to show is its types and *)
(* what t itself relies on.                                                *)
LEMMA MovePreserves ==
  ASSUME IInv, NEW t \in Tasks, TypeOK', SlotsBounded', TaskInv(t)',
         cached \subseteq cached', inflight' = inflight, done' = done,
         \A x \in Tasks : x # t =>
           /\ pc'[x] = pc[x] /\ key'[x] = key[x]
           /\ spec'[x] = spec[x] /\ frame'[x] = frame[x]
           /\ Slot(x) \in sem => Slot(x) \in sem'
  PROVE  IInv'
<1>1. ASSUME NEW x \in Tasks, x # t PROVE TaskInv(x)'
  <2>1. TaskInv(x)
    BY DEF IInv
  <2>2. pc[x] \in Leading => inflight'[key[x]] = x /\ key[x] \notin done'
    BY <2>1 DEF TaskInv
  <2>3. QED
    BY <1>1, <2>1, <2>2, OthersKept
<1>2. QED
  BY <1>1 DEF IInv, DoneAreClaimed

LEMMA ChildrenAreTasks ==
  ASSUME TypeOK, NEW u \in URLs
  PROVE  Children(u) \subseteq Tasks /\ Results(u) \subseteq Outcomes
<1>1. imports[u] \subseteq Specs
  BY FetcherAssumption DEF TypeOK
<1>2. Children(u) \subseteq Tasks
  BY <1>1 DEF Children, Tasks
<1>3. QED
  BY <1>2 DEF Results, TypeOK

-----------------------------------------------------------------------------
LEMMA InitEstablishes == Init => IInv
<1> SUFFICES ASSUME Init PROVE IInv
  OBVIOUS
<1>1. RootTask \in Tasks /\ \A t \in Tasks : t[2] \in Specs
  BY FetcherAssumption DEF RootTask, Tasks
<1>2. TypeOK
  <2>1. cached \in SUBSET URLs
    BY FetcherAssumption DEF Init, Served
  <2>2. pc \in [Tasks -> PCs]
    BY <1>1 DEF Init, PCs
  <2>3. spec \in [Tasks -> Specs]
    BY <1>1 DEF Init
  <2>4. faults \in Nat
    BY FetcherAssumption DEF Init
  <2>5. QED
    BY <2>1, <2>2, <2>3, <2>4 DEF Init, TypeOK, Outcomes
<1>3. SlotsBounded
  BY FS_EmptySet, FetcherAssumption DEF Init, SlotsBounded
<1>4. ASSUME NEW x \in Tasks PROVE TaskInv(x)
  BY DEF Init, TaskInv, Leading, Network
<1>5. DoneAreClaimed
  BY DEF Init, DoneAreClaimed
<1>6. QED
  BY <1>2, <1>3, <1>4, <1>5 DEF IInv

(* No step of any task breaks the invariant. *)
LEMMA ProgressPreserves ==
  ASSUME IInv, NEW t \in Tasks, Progress(t)
  PROVE  IInv'
<1> DEFINE Others ==
      \A x \in Tasks : x # t =>
        /\ pc'[x] = pc[x] /\ key'[x] = key[x]
        /\ spec'[x] = spec[x] /\ frame'[x] = frame[x]
        /\ Slot(x) \in sem => Slot(x) \in sem'
<1>0. /\ TypeOK /\ SlotsBounded /\ TaskInv(t)
      /\ ReqURL[spec[t]] \in URLs
      /\ Entry[spec[t]] \in Specs \union {None}
      /\ Resolved[ReqURL[spec[t]]] \in URLs
  BY FetcherAssumption DEF IInv, TypeOK
<1>1. CASE Load(t)
  <2>1. TypeOK'
    BY <1>0, <1>1 DEF Load, Goto, env, shared, local, TypeOK, PCs, TaskInv,
       Leading
  <2>2. SlotsBounded'
    BY <1>0, <1>1, FewerSlots DEF Load, env, shared
  <2>3. TaskInv(t)'
    BY <1>0, <1>1 DEF Load, Goto, env, shared, local, TypeOK, TaskInv, Slot,
       Network, Leading
  <2>4. Others
    BY <1>0, <1>1 DEF Load, Goto, env, shared, local, TypeOK
  <2>5. QED
    BY <1>1, <2>1, <2>2, <2>3, <2>4, MovePreserves DEF Load, env, shared
<1>2. CASE Lookup(t)
  <2>1. TypeOK'
    BY <1>0, <1>2 DEF Lookup, Goto, env, shared, local, TypeOK, PCs, TaskInv,
       Leading
  <2>2. SlotsBounded'
    BY <1>0, <1>2, FewerSlots DEF Lookup, env, shared
  <2>3. TaskInv(t)'
    BY <1>0, <1>2 DEF Lookup, Goto, env, shared, local, TypeOK, TaskInv, Slot,
       Network, Leading
  <2>4. Others
    BY <1>0, <1>2 DEF Lookup, Goto, env, shared, local, TypeOK
  <2>5. QED
    BY <1>2, <2>1, <2>2, <2>3, <2>4, MovePreserves DEF Lookup, env, shared
<1>3. CASE Resolve(t)
  <2>1. TypeOK'
    BY <1>0, <1>3 DEF Resolve, Goto, env, shared, local, TypeOK, PCs, TaskInv,
       Leading
  <2>2. SlotsBounded'
    BY <1>0, <1>3, FewerSlots DEF Resolve, env, shared
  <2>3. TaskInv(t)'
    BY <1>0, <1>3 DEF Resolve, Goto, env, shared, local, TypeOK, TaskInv, Slot,
       Network, Leading
  <2>4. Others
    BY <1>0, <1>3 DEF Resolve, Goto, env, shared, local, TypeOK
  <2>5. QED
    BY <1>3, <2>1, <2>2, <2>3, <2>4, MovePreserves DEF Resolve, env, shared
<1>4. CASE NotFound(t)
  <2>1. TypeOK'
    BY <1>0, <1>4 DEF NotFound, Goto, env, shared, local, TypeOK, PCs, TaskInv,
       Leading
  <2>2. SlotsBounded'
    BY <1>0, <1>4, FewerSlots DEF NotFound, env, shared
  <2>3. TaskInv(t)'
    BY <1>0, <1>4 DEF NotFound, Goto, env, shared, local, TypeOK, TaskInv,
       Slot, Network, Leading
  <2>4. Others
    BY <1>0, <1>4 DEF NotFound, Goto, env, shared, local, TypeOK
  <2>5. QED
    BY <1>4, <2>1, <2>2, <2>3, <2>4, MovePreserves DEF NotFound, env, shared
<1>5. CASE Discover(t)
  <2>1. TypeOK'
    BY <1>0, <1>5 DEF Discover, Goto, env, shared, local, TypeOK, PCs, TaskInv,
       Leading
  <2>2. SlotsBounded'
    BY <1>0, <1>5, FewerSlots DEF Discover, env, shared
  <2>3. TaskInv(t)'
    BY <1>0, <1>5 DEF Discover, Goto, env, shared, local, TypeOK, TaskInv,
       Slot, Network, Leading
  <2>4. Others
    BY <1>0, <1>5 DEF Discover, Goto, env, shared, local, TypeOK
  <2>5. QED
    BY <1>5, <2>1, <2>2, <2>3, <2>4, MovePreserves DEF Discover, env, shared
<1>6. CASE Stored(t)
  <2>1. TypeOK'
    BY <1>0, <1>6 DEF Stored, Goto, env, shared, local, TypeOK, PCs, TaskInv,
       Leading
  <2>2. SlotsBounded'
    BY <1>0, <1>6, FewerSlots DEF Stored, env, shared
  <2>3. TaskInv(t)'
    BY <1>0, <1>6 DEF Stored, Goto, env, shared, local, TypeOK, TaskInv, Slot,
       Network, Leading
  <2>4. Others
    BY <1>0, <1>6 DEF Stored, Goto, env, shared, local, TypeOK
  <2>5. QED
    BY <1>6, <2>1, <2>2, <2>3, <2>4, MovePreserves DEF Stored, env, shared
<1>7. CASE Body(t)
  <2>1. TypeOK'
    BY <1>0, <1>7 DEF Body, Goto, env, shared, local, TypeOK, PCs, TaskInv,
       Leading
  <2>2. SlotsBounded'
    BY <1>0, <1>7, FewerSlots DEF Body, env, shared
  <2>3. TaskInv(t)'
    BY <1>0, <1>7 DEF Body, Goto, env, shared, local, TypeOK, TaskInv, Slot,
       Network, Leading
  <2>4. Others
    BY <1>0, <1>7 DEF Body, Goto, env, shared, local, TypeOK
  <2>5. QED
    BY <1>7, <2>1, <2>2, <2>3, <2>4, MovePreserves DEF Body, env, shared
<1>8. CASE Save(t)
  <2>1. TypeOK'
    BY <1>0, <1>8 DEF Save, Goto, env, shared, local, TypeOK, PCs, TaskInv,
       Leading
  <2>2. SlotsBounded'
    BY <1>0, <1>8, FewerSlots DEF Save, env, shared
  <2>3. TaskInv(t)'
    BY <1>0, <1>8 DEF Save, Goto, env, shared, local, TypeOK, TaskInv, Slot,
       Network, Leading
  <2>4. Others
    BY <1>0, <1>8 DEF Save, Goto, env, shared, local, TypeOK
  <2>5. QED
    BY <1>8, <2>1, <2>2, <2>3, <2>4, MovePreserves DEF Save, env, shared
<1>9. CASE Acquire(t)
  <2>1. TypeOK'
    BY <1>0, <1>9 DEF Acquire, Goto, env, TypeOK, PCs, Slot
  <2>2. SlotsBounded'
    <3>1. IsFiniteSet(sem) /\ Cardinality(sem) \in Nat
      BY <1>0, FS_CardinalityType DEF SlotsBounded
    <3>2. sem' = sem \union {Slot(t)} /\ Cardinality(sem) < Concurrency
      BY <1>9 DEF Acquire
    <3>3. /\ IsFiniteSet(sem')
          /\ \/ Cardinality(sem') = Cardinality(sem)
             \/ Cardinality(sem') = Cardinality(sem) + 1
      BY <3>1, <3>2, FS_AddElement
    <3>4. QED
      BY <3>1, <3>2, <3>3, FetcherAssumption DEF SlotsBounded
  <2>3. TaskInv(t)'
    BY <1>0, <1>9 DEF Acquire, Goto, env, TypeOK, TaskInv, Slot, Network,
       Leading
  <2>4. Others
    BY <1>0, <1>9 DEF Acquire, Goto, env, TypeOK
  <2>5. QED
    BY <1>9, <2>1, <2>2, <2>3, <2>4, MovePreserves DEF Acquire, env
<1>10. CASE Wait(t)
  <2>1. key[t] \in URLs /\ pending[key[t]] \in Outcomes
    BY <1>0, <1>10 DEF Wait, TaskInv, TypeOK
  <2>2. TypeOK'
    BY <1>0, <1>10, <2>1, ReturnTyped DEF Wait, env, TypeOK
  <2>3. QED
    BY <1>10, <2>2, ReturnKeeps DEF Wait, env, IInv
<1>11. CASE Claim(t)
  <2>0. key[t] \in URLs
    BY <1>0, <1>11 DEF Claim, TaskInv
  <2>1. CASE inflight[key[t]] # NoTask
    <3>1. TypeOK'
      BY <1>0, <1>11, <2>1 DEF Claim, Goto, env, local, TypeOK, PCs
    <3>2. SlotsBounded'
      BY <1>0, <1>11, <2>1, FewerSlots DEF Claim
    <3>3. TaskInv(t)'
      BY <1>0, <1>11, <2>0, <2>1 DEF Claim, Goto, local, TypeOK, TaskInv,
         Network, Leading
    <3>4. Others
      BY <1>0, <1>11, <2>1 DEF Claim, Goto, local, TypeOK, Slot
    <3>5. QED
      BY <1>11, <2>1, <3>1, <3>2, <3>3, <3>4, MovePreserves DEF Claim, env
  <2>2. CASE inflight[key[t]] = NoTask
    <3>1. TypeOK'
      BY <1>0, <1>11, <2>2 DEF Claim, Goto, env, local, TypeOK, PCs, Leading
    <3>2. SlotsBounded'
      BY <1>0, <1>11, <2>2, FewerSlots DEF Claim
    <3>3. TaskInv(t)'
      <4>1. key[t] \notin done
        BY <2>2 DEF IInv, DoneAreClaimed
      <4>2. /\ pc[t] = "claim" /\ pc'[t] = "recheck" /\ inflight'[key[t]] = t
            /\ UNCHANGED <<key, spec, frame, cached, sem, done>>
        BY <1>0, <1>11, <2>0, <2>2 DEF Claim, Goto, env, local, TypeOK
      <4>3. QED
        BY <1>0, <2>0, <4>1, <4>2 DEF TaskInv, Slot, Network, Leading
    <3>4. ASSUME NEW x \in Tasks, x # t PROVE TaskInv(x)'
      <4>1. TaskInv(x)
        BY DEF IInv
      <4>2. x # NoTask
        BY TaskIsSomebody
      <4>3. pc[x] \in Leading => key[x] # key[t]
        BY <2>2, <4>1, <4>2 DEF TaskInv
      <4>4. pc[x] \in Leading => inflight'[key[x]] = x /\ key[x] \notin done'
        BY <1>0, <1>11, <2>0, <2>2, <4>1, <4>3 DEF Claim, TaskInv, TypeOK
      <4>5. QED
        BY <1>0, <1>11, <2>2, <3>4, <4>1, <4>4, OthersKept
        DEF Claim, Goto, env, local, TypeOK
    <3>5. DoneAreClaimed'
      BY <1>0, <1>11, <2>0, <2>2, TaskIsSomebody
      DEF Claim, IInv, DoneAreClaimed, TypeOK
    <3>6. QED
      BY <3>1, <3>2, <3>3, <3>4, <3>5 DEF IInv
  <2>3. QED
    BY <2>1, <2>2
<1>12. CASE Recheck(t)
  <2>0. key[t] \in URLs
    BY <1>0, <1>12 DEF Recheck, TaskInv, Leading
  <2>1. CASE key[t] \in visited
    BY <1>0, <1>12, <2>0, <2>1, ReturnClaimedPreserves
    DEF Recheck, env, TypeOK, Outcomes, Leading
  <2>2. CASE key[t] \notin visited
    <3>1. TypeOK'
      BY <1>0, <1>12, <2>2 DEF Recheck, Goto, env, local, TypeOK, PCs, Leading
    <3>2. SlotsBounded'
      BY <1>0, <1>12, <2>2, FewerSlots DEF Recheck
    <3>3. TaskInv(t)'
      BY <1>0, <1>12, <2>2 DEF Recheck, Goto, env, local, TypeOK, TaskInv,
         Slot, Network, Leading
    <3>4. Others
      BY <1>0, <1>12, <2>2 DEF Recheck, Goto, local, TypeOK
    <3>5. QED
      BY <1>12, <2>2, <3>1, <3>2, <3>3, <3>4, MovePreserves DEF Recheck, env
  <2>3. QED
    BY <2>1, <2>2
<1>13. CASE Record(t)
  <2>0. key[t] \in URLs /\ inflight[key[t]] = t /\ key[t] \notin done
    BY <1>0, <1>13 DEF Record, TaskInv, Leading
  <2>1. TypeOK'
    BY <1>0, <1>13, <2>0 DEF Record, env, local, TypeOK, PCs, Leading
  <2>2. SlotsBounded'
    BY <1>0, <1>13, FewerSlots DEF Record
  <2>3. ASSUME NEW x \in Tasks PROVE TaskInv(x)'
    <3>1. TaskInv(x)
      BY DEF IInv
    <3>2. /\ key'[x] = key[x] /\ spec'[x] = spec[x] /\ frame'[x] = frame[x]
          /\ inflight' = inflight /\ done' = done /\ cached' = cached
      BY <1>13 DEF Record, env, local
    <3>3. CASE x = t
      BY <1>0, <1>13, <2>0, <3>2, <3>3 DEF Record, TaskInv, Network, Leading
    <3>4. CASE x # t /\ x \in Children(key[t])
      <4>1. pc'[x] = "load"
        BY <1>13, <3>4 DEF Record
      <4>2. QED
        BY <4>1 DEF TaskInv, Network, Leading
    <3>5. CASE x # t /\ x \notin Children(key[t])
      <4>1. pc'[x] = pc[x]
        BY <1>13, <3>5 DEF Record
      <4>2. Slot(x) \in sem => Slot(x) \in sem'
        BY <1>13, <3>5 DEF Record, Slot
      <4>3. pc[x] \in Leading => inflight'[key[x]] = x /\ key[x] \notin done'
        BY <3>1, <3>2 DEF TaskInv
      <4>4. QED
        BY <3>1, <3>2, <4>1, <4>2, <4>3, OthersKept
    <3>6. QED
      BY <3>3, <3>4, <3>5
  <2>4. DoneAreClaimed'
    BY <1>13 DEF Record, IInv, DoneAreClaimed
  <2>5. QED
    BY <2>1, <2>2, <2>3, <2>4 DEF IInv
<1>14. CASE Join(t)
  <2>1. key[t] \in URLs
    BY <1>0, <1>14 DEF Join, TaskInv, Leading
  <2>2. Results(key[t]) \subseteq Outcomes
    BY <1>0, <2>1, ChildrenAreTasks
  <2>3. deps' \in [URLs -> SUBSET Outcomes]
    BY <1>0, <1>14, <2>2 DEF Join, TypeOK
  <2>4. QED
    BY <1>0, <1>14, <2>1, <2>3, ReturnClaimedPreserves
    DEF Join, env, TypeOK, Outcomes, Leading
<1>15. QED
  BY <1>1, <1>2, <1>3, <1>4, <1>5, <1>6, <1>7, <1>8, <1>9, <1>10, <1>11, <1>12,
     <1>13, <1>14 DEF Progress

LEMMA StepPreserves == IInv /\ [Next]_vars => IInv'
<1> SUFFICES ASSUME IInv, [Next]_vars PROVE IInv'
  OBVIOUS
<1>1. ASSUME NEW t \in Tasks, Progress(t) PROVE IInv'
  BY <1>1, ProgressPreserves
<1>2. ASSUME NEW t \in Tasks, Retry(t) PROVE IInv'
  <2>1. TypeOK'
    BY <1>2 DEF IInv, TypeOK, Retry, shared
  <2>2. SlotsBounded'
    BY <1>2, FewerSlots DEF IInv, Retry, shared
  <2>3. ASSUME NEW x \in Tasks PROVE TaskInv(x)'
    BY <1>2, <2>3 DEF IInv, TaskInv, Slot, Retry, shared
  <2>4. DoneAreClaimed'
    BY <1>2 DEF IInv, DoneAreClaimed, Retry, shared
  <2>5. QED
    BY <2>1, <2>2, <2>3, <2>4 DEF IInv
<1>3. ASSUME NEW t \in Tasks, Fault(t) PROVE IInv'
  BY <1>3, FailPreserves DEF Fault, IInv, TypeOK
<1>4. ASSUME NEW t \in Tasks, Abort(t) PROVE IInv'
  BY <1>4, FailPreserves DEF Abort, IInv, TypeOK
<1>5. CASE Cancel \/ UNCHANGED vars
  <2>1. TypeOK'
    BY <1>5 DEF IInv, TypeOK, Cancel, vars, env, shared, local
  <2>2. SlotsBounded'
    BY <1>5, FewerSlots DEF IInv, Cancel, vars, shared
  <2>3. ASSUME NEW x \in Tasks PROVE TaskInv(x)'
    BY <1>5, <2>3 DEF IInv, TaskInv, Slot, Cancel, vars, env, shared, local
  <2>4. DoneAreClaimed'
    BY <1>5 DEF IInv, DoneAreClaimed, Cancel, vars, shared
  <2>5. QED
    BY <2>1, <2>2, <2>3, <2>4 DEF IInv
<1>6. QED
  BY <1>1, <1>2, <1>3, <1>4, <1>5 DEF Next

-----------------------------------------------------------------------------
(* The invariant holds in every reachable state. *)
THEOREM Invariance == Spec => []IInv
BY InitEstablishes, StepPreserves, PTL DEF Spec

(* Every variable keeps its type: in particular a fallback is only ever    *)
(* entered with a spec, and only a URL is ever claimed.                    *)
THEOREM TypeCorrect == Spec => []TypeOK
<1>1. IInv => TypeOK
  BY DEF IInv
<1>2. QED
  BY <1>1, Invariance, PTL

(* No request is made without a slot, and there are never more slots out   *)
(* than Fetcher.Concurrency, whatever the graph, retries and fallbacks.    *)
THEOREM Bounded == Spec => []RequestsBounded
<1>1. IInv => RequestsBounded
  BY DEF IInv, RequestsBounded, SlotsBounded, TaskInv
<1>2. QED
  BY <1>1, Invariance, PTL

(* A URL is led by one task, the one that claimed it, and its done channel *)
(* is open while it is led: no package is downloaded by two goroutines of  *)
(* a walk, and its channel is closed once.                                 *)
THEOREM SingleLeader == Spec => []OneDownload
<1>1. IInv => OneDownload
  BY DEF IInv, OneDownload, TaskInv
<1>2. QED
  BY <1>1, Invariance, PTL

-----------------------------------------------------------------------------
(***************************************************************************)
(* The walk as a tree. IInv says nothing about how the tasks hang          *)
(* together; what a Fetch returns depends on it.                           *)
(***************************************************************************)

(* A URL that no request is redirected from and no package.json stands for.*)
Genuine(u) ==
  /\ Resolved[u] = u
  /\ \A s \in Specs : Entry[s] # None => ReqURL[s] # u

(* Only such URLs are stored and claimed.                                  *)
Honest ==
  /\ \A u \in cached : Genuine(u)
  /\ \A u \in URLs : inflight[u] # NoTask => Genuine(u)

(* A task works on its spec or on the entry of that, waits for and leads   *)
(* what the spec stands for, and has stored it before it records it.       *)
KeyOK(x) ==
  /\ \/ spec[x] = x[2]
     \/ Entry[x[2]] # None /\ spec[x] = Entry[x[2]]
  /\ pc[x] \in {"wait", "claim"} \union Leading => key[x] = Target(x[2])
  /\ pc[x] \in {"record", "children"} => key[x] \in cached
  /\ pc[x] = "children" => key[x] \in visited

Keyed == \A x \in Tasks : KeyOK(x)

(* Only tasks that run hold slots, and only those that have ended have     *)
(* failed.                                                                 *)
Running(x) == pc[x] \notin {"off", "end"}
Owned ==
  /\ \A h \in sem : Running(h[1])
  /\ \A x \in Tasks : result[x] = Failed => pc[x] = "end"

(* Who has claimed a URL leads it until it has closed its done channel. A  *)
(* URL whose channel is closed was recorded, or its leader has failed.     *)
LeaderOK(u, t) ==
  /\ t \in Tasks /\ key[t] = u
  /\ pc[t] \in Leading \union {"end"}
  /\ pc[t] = "end" => u \in done
  /\ u \in done => result[t] = Failed \/ (pending[u] = u /\ u \in visited)

Claims ==
  \A u \in URLs : inflight[u] # NoTask => LeaderOK(u, inflight[u])

(* A package that is recorded is stored and all its imports are started;   *)
(* its leader joins them, and fails if one of them has.                    *)
RecordOK(u, t) ==
  /\ t # NoTask /\ u \in cached
  /\ pc[t] \in {"children", "end"}
  /\ \A k \in Children(u) : pc[k] # "off"
  /\ pc[t] = "end" =>
       /\ \A k \in Children(u) : pc[k] = "end"
       /\ result[t] # Failed => Failed \notin Results(u)
                                /\ deps[u] = Results(u)

Recorded == \A u \in visited : RecordOK(u, inflight[u])

(* A task is the root or the import of a package that is recorded.         *)
Born == \A x \in Tasks : pc[x] # "off" =>
  x = RootTask \/ (x[1] \in visited /\ x \in Children(x[1]))

(* The parents lead to the root: a set of tasks that has with each of them *)
(* the leader of the package that imports it has the root, too.            *)
Started == {x \in Tasks : pc[x] # "off"}
Upward(S) == \A x \in S : x # RootTask => inflight[x[1]] \in S
Rooted == \A S \in SUBSET Started : S # {} /\ Upward(S) => RootTask \in S

(* As long as no task has failed, a task has returned what its spec stands *)
(* for, and that is recorded.                                              *)
SomeFailed == \E x \in Tasks : result[x] = Failed
Truthful == \A x \in Tasks : pc[x] = "end" =>
  SomeFailed \/ (result[x] = Target(x[2]) /\ result[x] \in visited)

(* What is recorded is in every set that is closed under imports.          *)
Needed == \A S \in SUBSET URLs : Closed(S) => visited \subseteq S

Tree ==
  /\ Honest /\ Keyed /\ Owned
  /\ Claims /\ Recorded /\ Born
  /\ Rooted /\ Truthful /\ Needed

(* What a spec stands for is the URL of some package.                      *)
LEMMA TargetsAreGenuine ==
  ASSUME NEW s \in Specs
  PROVE  Target(s) \in URLs /\ Genuine(Target(s))
<1>1. DEFINE r == IF Entry[s] = None THEN s ELSE Entry[s]
<1>2. r \in Specs /\ Entry[r] = None
  BY FetcherAssumption, RegistryAssumption
<1>3. Target(s) = Resolved[ReqURL[r]]
  BY DEF Target
<1>4. ReqURL[r] \in URLs /\ Resolved[ReqURL[r]] \in URLs
  BY <1>2, FetcherAssumption
<1>5. QED
  BY <1>2, <1>3, <1>4, RegistryAssumption DEF Genuine

(* The URL a task resolves its spec to is what its own spec stands for.    *)
LEMMA ResolvedIsTarget ==
  ASSUME TypeOK, NEW x \in Tasks, KeyOK(x), Entry[spec[x]] = None
  PROVE  Resolved[ReqURL[spec[x]]] = Target(x[2])
BY DEF KeyOK, Target

LEMMA GenuineIsTarget ==
  ASSUME TypeOK, NEW x \in Tasks, KeyOK(x), Genuine(ReqURL[spec[x]])
  PROVE  ReqURL[spec[x]] = Target(x[2])
<1>1. spec[x] \in Specs
  BY DEF TypeOK
<1>2. Entry[spec[x]] = None /\ Resolved[ReqURL[spec[x]]] = ReqURL[spec[x]]
  BY <1>1 DEF Genuine
<1>3. QED
  BY <1>2, ResolvedIsTarget

LEMMA TasksAre ==
  ASSUME NEW x \in Tasks
  PROVE  /\ x = <<x[1], x[2]>> /\ x[2] \in Specs
         /\ x[1] \in URLs \union {None}
BY DEF Tasks

-----------------------------------------------------------------------------
(* The steps of t, by what they do to the tree. *)
Rest(t) == \A x \in Tasks \ {t} :
  /\ pc'[x] = pc[x] /\ key'[x] = key[x]
  /\ spec'[x] = spec[x] /\ result'[x] = result[x]

(* t moves on, and starts and ends nothing.                                *)
Moves(t) ==
  /\ Rest(t) /\ Running(t) /\ Running(t)'
  /\ pc[t] # "children" /\ pc'[t] # "children"
  /\ pc'[t] \in Leading <=> pc[t] \in Leading
  /\ pc[t] \in Leading => key'[t] = key[t]
  /\ \A h \in sem' : h \in sem \/ h[1] = t
  /\ cached \subseteq cached'
  /\ \A u \in cached' \ cached : pc[t] = "save" /\ u = key[t]
  /\ UNCHANGED <<imports, inflight, done, pending, visited, deps, result>>

Quiet(t) ==
  \/ Load(t) \/ Lookup(t) \/ Acquire(t) \/ Resolve(t) \/ NotFound(t)
  \/ Discover(t) \/ Stored(t) \/ Body(t) \/ Save(t) \/ Retry(t)
  \/ Claim(t) /\ inflight[key[t]] # NoTask
  \/ Recheck(t) /\ key[t] \notin visited

(* t ends, and returns r.                                                  *)
Joined(t) == \A k \in Children(key[t]) : pc[k] = "end"
Ends(t, r) ==
  /\ Rest(t) /\ Running(t)
  /\ pc'[t] = "end" /\ result'[t] = r
  /\ key'[t] = key[t] /\ spec'[t] = spec[t]
  /\ sem' = sem \ ({t} \X {1, 2})
  /\ UNCHANGED <<imports, cached, inflight, visited>>
  /\ \/ /\ pc[t] \notin Leading
        /\ r = Failed \/ (/\ pc[t] = "wait" /\ key[t] \in done
                          /\ r = pending[key[t]])
        /\ UNCHANGED <<done, pending, deps>>
     \/ /\ pc[t] \in Leading
        /\ done' = done \union {key[t]}
        /\ \A u \in URLs \ {key[t]} :
             pending'[u] = pending[u] /\ deps'[u] = deps[u]
        /\ pc[t] = "children" => Joined(t)
        /\ r = Failed \/ (/\ pc[t] = "children"
                          /\ r = key[t] /\ pending'[key[t]] = key[t]
                          /\ Failed \notin Results(key[t])
                          /\ deps'[key[t]] = Results(key[t]))

LEMMA QuietMoves ==
  ASSUME IInv, NEW t \in Tasks, Quiet(t)
  PROVE  Moves(t)
<1>0. TypeOK
  BY DEF IInv
<1>1. CASE Load(t)
  BY <1>0, <1>1 DEF Load, Goto, Slot, Moves, Rest, Running, Leading,
    TypeOK, env, shared, local
<1>2. CASE Lookup(t)
  BY <1>0, <1>2 DEF Lookup, Goto, Slot, Moves, Rest, Running, Leading,
    TypeOK, env, shared, local
<1>3. CASE Acquire(t)
  BY <1>0, <1>3 DEF Acquire, Goto, Slot, Moves, Rest, Running, Leading,
    TypeOK, env, shared, local
<1>4. CASE Resolve(t)
  BY <1>0, <1>4 DEF Resolve, Goto, Slot, Moves, Rest, Running, Leading,
    TypeOK, env, shared, local
<1>5. CASE NotFound(t)
  BY <1>0, <1>5 DEF NotFound, Goto, Slot, Moves, Rest, Running, Leading,
    TypeOK, env, shared, local
<1>6. CASE Discover(t)
  BY <1>0, <1>6 DEF Discover, Goto, Slot, Moves, Rest, Running, Leading,
    TypeOK, env, shared, local
<1>7. CASE Stored(t)
  BY <1>0, <1>7 DEF Stored, Goto, Slot, Moves, Rest, Running, Leading,
    TypeOK, env, shared, local
<1>8. CASE Body(t)
  BY <1>0, <1>8 DEF Body, Goto, Slot, Moves, Rest, Running, Leading,
    TypeOK, env, shared, local
<1>9. CASE Save(t)
  BY <1>0, <1>9 DEF Save, Goto, Slot, Moves, Rest, Running, Leading,
    TypeOK, env, shared, local
<1>10. CASE Retry(t)
  BY <1>0, <1>10 DEF Retry, Moves, Rest, Running, Leading, Network, shared
<1>11. CASE Claim(t) /\ inflight[key[t]] # NoTask
  BY <1>0, <1>11 DEF Claim, Goto, Moves, Rest, Running, Leading, TypeOK, env,
    local
<1>12. CASE Recheck(t) /\ key[t] \notin visited
  BY <1>0, <1>12 DEF Recheck, Goto, Moves, Rest, Running, Leading, TypeOK,
    env, local
<1>13. QED
  BY <1>1, <1>2, <1>3, <1>4, <1>5, <1>6, <1>7, <1>8, <1>9, <1>10, <1>11,
    <1>12 DEF Quiet

(* A task that fails. *)
LEMMA FailEnds ==
  ASSUME IInv, NEW t \in Tasks, Fail(t), Running(t), pc[t] # "children"
  PROVE  Ends(t, Failed)
<1>1. TypeOK /\ TaskInv(t)
  BY DEF IInv
<1>2. CASE pc[t] \in Leading
  <2>1. key[t] \in URLs
    BY <1>1, <1>2 DEF TaskInv
  <2>2. QED
    BY <1>1, <1>2, <2>1 DEF Fail, ReturnClaimed, Return, Ends, Rest, TypeOK
<1>3. CASE pc[t] \notin Leading
  BY <1>1, <1>3 DEF Fail, Return, Ends, Rest, TypeOK
<1>4. QED
  BY <1>2, <1>3

LEMMA WaitEnds ==
  ASSUME IInv, NEW t \in Tasks, Wait(t)
  PROVE  Ends(t, pending[key[t]])
<1>1. TypeOK
  BY DEF IInv
<1>2. pc[t] \notin Leading /\ Running(t)
  BY DEF Wait, Leading, Running
<1>3. QED
  BY <1>1, <1>2 DEF Wait, Return, Ends, Rest, TypeOK, env

LEMMA JoinEnds ==
  ASSUME IInv, NEW t \in Tasks, Join(t)
  PROVE  \E r \in {Failed, key[t]} : Ends(t, r)
<1>1. TypeOK /\ TaskInv(t) /\ pc[t] = "children"
  BY DEF IInv, Join
<1>2. pc[t] \in Leading /\ Running(t)
  BY <1>1 DEF Leading, Running
<1>3. key[t] \in URLs
  BY <1>1, <1>2 DEF TaskInv
<1>4. Joined(t)
  BY DEF Join, Joined
<1>5. CASE ReturnClaimed(t, Failed, Failed) /\ deps' = deps
  <2>1. Ends(t, Failed)
    BY <1>1, <1>2, <1>3, <1>4, <1>5
    DEF Join, ReturnClaimed, Return, Ends, Rest, TypeOK, env
  <2>2. QED
    BY <2>1
<1>6. CASE /\ Failed \notin Results(key[t])
           /\ ReturnClaimed(t, key[t], key[t])
           /\ deps' = [deps EXCEPT ![key[t]] = Results(key[t])]
  <2>1. Ends(t, key[t])
    BY <1>1, <1>2, <1>3, <1>4, <1>6
    DEF Join, ReturnClaimed, Return, Ends, Rest, TypeOK, env
  <2>2. QED
    BY <2>1
<1>7. QED
  BY <1>5, <1>6 DEF Join

-----------------------------------------------------------------------------
(* A step that only moves a task on keeps the tree. *)
LEMMA MovesKeep ==
  ASSUME IInv, Tree, NEW t \in Tasks, Moves(t)
  PROVE  Owned' /\ Claims' /\ Recorded' /\ Born' /\ Rooted' /\ Truthful'
         /\ Needed'
<1>0. TypeOK /\ TaskInv(t) /\ pc[t] # "end" /\ pc'[t] # "end"
      /\ pc[t] # "off" /\ pc'[t] # "off"
  BY DEF IInv, Moves, Running
<1>1. Owned'
  <2>1. ASSUME NEW h \in sem' PROVE Running(h[1])'
    <3>1. CASE h[1] = t
      BY <3>1 DEF Moves
    <3>2. CASE h[1] # t
      <4>1. h \in sem /\ h[1] \in Tasks \ {t}
        BY <1>0, <3>2 DEF Moves, TypeOK
      <4>2. QED
        BY <4>1 DEF Tree, Owned, Moves, Rest, Running
    <3>3. QED
      BY <3>1, <3>2
  <2>2. \A x \in Tasks : result'[x] = Failed => pc'[x] = "end"
    BY <1>0 DEF Tree, Owned, Moves, Rest
  <2>3. QED
    BY <2>1, <2>2 DEF Owned
<1>2. \A u : Children(u)' = Children(u) /\ Results(u)' = Results(u)
  BY DEF Moves, Children, Results
<1>3. \A x \in Tasks : /\ pc'[x] = "off" <=> pc[x] = "off"
                       /\ pc'[x] = "end" <=> pc[x] = "end"
                       /\ pc'[x] = "children" <=> pc[x] = "children"
                       /\ pc'[x] \in Leading <=> pc[x] \in Leading
                       /\ pc[x] \in Leading \union {"end"} => key'[x] = key[x]
  BY <1>0 DEF Moves, Rest, Leading
<1>4. Claims'
  <2>1. SUFFICES ASSUME NEW u \in URLs, inflight[u] # NoTask
                 PROVE  LeaderOK(u, inflight[u])'
    BY DEF Moves, Claims
  <2>2. LeaderOK(u, inflight[u])
    BY <2>1 DEF Tree, Claims
  <2>3. QED
    BY <1>3, <2>2 DEF LeaderOK, Moves
<1>5. Recorded'
  <2>1. SUFFICES ASSUME NEW u \in visited PROVE RecordOK(u, inflight[u])'
    BY DEF Moves, Recorded
  <2>2. RecordOK(u, inflight[u]) /\ u \in URLs
    BY <1>0, <2>1 DEF Tree, Recorded, TypeOK
  <2>3. Children(u) \subseteq Tasks /\ inflight[u] \in Tasks
    BY <1>0, <2>2, ChildrenAreTasks DEF RecordOK, TypeOK
  <2>4. QED
    BY <1>2, <1>3, <2>2, <2>3 DEF RecordOK, Moves
<1>6. Born'
  BY <1>2, <1>3 DEF Tree, Born, Moves
<1>7. Rooted'
  <2>1. Started' = Started
    BY <1>3 DEF Started
  <2>2. QED
    BY <2>1 DEF Tree, Rooted, Upward, Moves
<1>8. Truthful'
  BY <1>3 DEF Tree, Truthful, SomeFailed, Moves, Target
<1>9. Needed'
  BY DEF Tree, Needed, Moves, Closed, Targets, Target
<1>10. QED
  BY <1>1, <1>4, <1>5, <1>6, <1>7, <1>8, <1>9

(* The step of a task that returns keeps the tree. *)
LEMMA EndsKeep ==
  ASSUME IInv, Tree, NEW t \in Tasks, NEW r \in Outcomes, Ends(t, r)
  PROVE  Tree'
<1>0. /\ TypeOK /\ TaskInv(t)
      /\ pc[t] # "end" /\ pc[t] # "off" /\ pc'[t] = "end"
  BY DEF IInv, Ends, Running
<1>1. Honest'
  BY DEF Tree, Honest, Ends, Genuine
<1>2. Keyed'
  <2>1. SUFFICES ASSUME NEW x \in Tasks PROVE KeyOK(x)'
    BY DEF Keyed
  <2>2. KeyOK(x)
    BY DEF Tree, Keyed
  <2>3. /\ spec'[x] = spec[x] /\ key'[x] = key[x]
        /\ cached' = cached /\ visited' = visited
        /\ pc'[x] = pc[x] \/ pc'[x] = "end"
    BY <1>0 DEF Ends, Rest
  <2>4. QED
    BY <2>2, <2>3 DEF KeyOK, Target, Leading
<1>3. Owned'
  BY <1>0 DEF Tree, Owned, Ends, Rest, Running, TypeOK
<1>4. \A u : Children(u)' = Children(u)
  BY DEF Ends, Children
<1>5. \A x \in Tasks : /\ pc'[x] = "off" <=> pc[x] = "off"
                       /\ pc[x] = "end" => pc'[x] = "end"
                       /\ key'[x] = key[x]
  BY <1>0 DEF Ends, Rest
<1>6. ASSUME NEW u \in URLs, inflight[u] # t, inflight[u] # NoTask
      PROVE  pending'[u] = pending[u] /\ deps'[u] = deps[u]
             /\ (u \in done' <=> u \in done)
  <2>1. pc[t] \in Leading => u # key[t]
    BY <1>0, <1>6 DEF TaskInv
  <2>2. QED
    BY <2>1 DEF Ends
<1>7. Claims'
  <2>1. SUFFICES ASSUME NEW u \in URLs, inflight[u] # NoTask
                 PROVE  LeaderOK(u, inflight[u])'
    BY DEF Ends, Claims
  <2>2. LeaderOK(u, inflight[u])
    BY <2>1 DEF Tree, Claims
  <2>3. CASE inflight[u] = t
    <3>1. pc[t] \in Leading /\ key[t] = u
      BY <1>0, <2>2, <2>3 DEF LeaderOK
    <3>2. u \in done' /\ visited' = visited /\ inflight' = inflight
      BY <3>1 DEF Ends
    <3>3. r = Failed \/ (pc[t] = "children" /\ pending'[u] = u)
      BY <3>1 DEF Ends
    <3>4. pc[t] = "children" => u \in visited
      BY <3>1 DEF Tree, Keyed, KeyOK
    <3>5. QED
      BY <1>0, <2>2, <2>3, <3>1, <3>2, <3>3, <3>4 DEF LeaderOK, Ends
  <2>4. CASE inflight[u] # t
    BY <1>6, <2>1, <2>2, <2>4 DEF LeaderOK, Ends, Rest
  <2>5. QED
    BY <2>3, <2>4
<1>8. Recorded'
  <2>1. SUFFICES ASSUME NEW u \in visited PROVE RecordOK(u, inflight[u])'
    BY DEF Ends, Recorded
  <2>2. RecordOK(u, inflight[u]) /\ u \in URLs
    BY <1>0, <2>1 DEF Tree, Recorded, TypeOK
  <2>3. /\ Children(u) \subseteq Tasks /\ inflight[u] \in Tasks
        /\ LeaderOK(u, inflight[u])
    BY <1>0, <2>2, ChildrenAreTasks DEF RecordOK, TypeOK, Tree, Claims
  <2>4. inflight[u] # NoTask /\ inflight' = inflight /\ cached' = cached
    BY <2>2 DEF RecordOK, Ends
  <2>5. CASE inflight[u] = t
    <3>1. pc[t] = "children" /\ key[t] = u /\ pc[t] \in Leading
      BY <1>0, <2>2, <2>3, <2>5 DEF RecordOK, LeaderOK, Leading
    <3>2. \A k \in Children(u) : pc[k] = "end"
      BY <3>1 DEF Ends, Joined
    <3>3. t \notin Children(u)
      BY <1>0, <3>2
    <3>4. Results(u)' = Results(u)
      BY <1>4, <2>3, <3>3 DEF Ends, Rest, Results
    <3>5. r # Failed => Failed \notin Results(u) /\ deps'[u] = Results(u)
      BY <3>1 DEF Ends
    <3>6. QED
      BY <1>0, <1>4, <1>5, <2>2, <2>3, <2>4, <2>5, <3>2, <3>4, <3>5
      DEF RecordOK, Ends
  <2>6. CASE inflight[u] # t
    <3>1. pc'[inflight[u]] = pc[inflight[u]]
          /\ result'[inflight[u]] = result[inflight[u]]
          /\ deps'[u] = deps[u]
      BY <1>6, <2>2, <2>3, <2>4, <2>6 DEF Ends, Rest
    <3>2. pc[inflight[u]] = "end" => t \notin Children(u)
      BY <1>0, <2>2 DEF RecordOK
    <3>3. pc[inflight[u]] = "end" => Results(u)' = Results(u)
      BY <1>4, <2>3, <3>2 DEF Ends, Rest, Results
    <3>4. QED
      BY <1>4, <1>5, <2>2, <2>3, <2>4, <3>1, <3>3 DEF RecordOK
  <2>7. QED
    BY <2>5, <2>6
<1>9. Born'
  BY <1>4, <1>5 DEF Tree, Born, Ends
<1>10. Rooted'
  <2>1. Started' = Started /\ inflight' = inflight
    BY <1>5 DEF Started, Ends
  <2>2. QED
    BY <2>1 DEF Tree, Rooted, Upward
<1>11. Truthful'
  <2>1. SomeFailed => SomeFailed'
    BY <1>0 DEF Tree, Owned, SomeFailed, Ends, Rest
  <2>2. SUFFICES ASSUME ~SomeFailed, ~SomeFailed',
                        NEW x \in Tasks, pc'[x] = "end"
        PROVE  result'[x] = Target(x[2]) /\ result'[x] \in visited
    BY <2>1 DEF Truthful, Ends, Target
  <2>3. CASE x # t
    BY <2>2, <2>3 DEF Tree, Truthful, Ends, Rest
  <2>4. CASE x = t
    <3>1. r # Failed
      BY <2>2 DEF SomeFailed, Ends
    <3>2. CASE /\ pc[t] = "wait" /\ key[t] \in done /\ r = pending[key[t]]
      <4>1. key[t] \in URLs /\ inflight[key[t]] # NoTask
        BY <1>0, <3>2 DEF IInv, TaskInv, DoneAreClaimed
      <4>2. LeaderOK(key[t], inflight[key[t]])
        BY <4>1 DEF Tree, Claims
      <4>3. pending[key[t]] = key[t] /\ key[t] \in visited
        BY <2>2, <3>2, <4>2 DEF LeaderOK, SomeFailed
      <4>4. key[t] = Target(t[2])
        BY <3>2 DEF Tree, Keyed, KeyOK
      <4>5. QED
        BY <2>4, <3>2, <4>3, <4>4 DEF Ends
    <3>3. CASE pc[t] = "children" /\ r = key[t]
      <4>1. key[t] = Target(t[2]) /\ key[t] \in visited
        BY <3>3 DEF Tree, Keyed, KeyOK, Leading
      <4>2. QED
        BY <2>4, <3>3, <4>1 DEF Ends
    <3>4. QED
      BY <3>1, <3>2, <3>3 DEF Ends
  <2>5. QED
    BY <2>3, <2>4
<1>12. Needed'
  BY DEF Tree, Needed, Ends, Closed, Targets, Target
<1>13. QED
  BY <1>1, <1>2, <1>3, <1>7, <1>8, <1>9, <1>10, <1>11, <1>12 DEF Tree

(* The key of a task that moves on. *)
LEMMA QuietKeyed ==
  ASSUME IInv, Tree, NEW t \in Tasks, Quiet(t), Moves(t)
  PROVE  Honest' /\ Keyed'
<1>0. /\ TypeOK /\ TaskInv(t) /\ KeyOK(t)
      /\ t[2] \in Specs /\ spec[t] \in Specs
      /\ ReqURL[spec[t]] \in URLs
      /\ \A s \in Specs : Target(s)' = Target(s)
  BY TasksAre, FetcherAssumption DEF IInv, Tree, Keyed, TypeOK, Target
<1>1. Honest'
  <2>1. ASSUME NEW u \in cached' PROVE Genuine(u)
    <3>1. CASE u \in cached
      BY <3>1 DEF Tree, Honest
    <3>2. CASE pc[t] = "save" /\ u = key[t]
      <4>1. u = Target(t[2])
        BY <1>0, <3>2 DEF KeyOK, Leading
      <4>2. QED
        BY <1>0, <4>1, TargetsAreGenuine
    <3>3. QED
      BY <3>1, <3>2 DEF Moves
  <2>2. QED
    BY <2>1 DEF Tree, Honest, Moves, Genuine
<1>2. ASSUME NEW x \in Tasks \ {t} PROVE KeyOK(x)'
  <2>1. KeyOK(x)
    BY DEF Tree, Keyed
  <2>2. QED
    BY <1>0, <2>1, TasksAre DEF KeyOK, Moves, Rest
<1>3. KeyOK(t)'
  <2>1. CASE Load(t)
    <3>1. CASE inflight[ReqURL[spec[t]]] # NoTask /\ pc'[t] = "wait"
               /\ key'[t] = ReqURL[spec[t]] /\ spec' = spec
      <4>1. Genuine(ReqURL[spec[t]])
        BY <1>0, <3>1 DEF Tree, Honest
      <4>2. key'[t] = Target(t[2])
        BY <1>0, <3>1, <4>1, GenuineIsTarget
      <4>3. QED
        BY <1>0, <3>1, <4>2 DEF KeyOK
    <3>2. CASE pc'[t] = "lookup" /\ spec' = spec
      BY <1>0, <3>2 DEF KeyOK, Leading
    <3>3. QED
      BY <1>0, <2>1, <3>1, <3>2 DEF Load, Goto, TypeOK
  <2>2. CASE Lookup(t)
    <3>1. CASE ReqURL[spec[t]] \in cached /\ pc'[t] = "claim"
               /\ key'[t] = ReqURL[spec[t]] /\ spec' = spec
      <4>1. Genuine(ReqURL[spec[t]])
        BY <1>0, <3>1 DEF Tree, Honest
      <4>2. key'[t] = Target(t[2])
        BY <1>0, <3>1, <4>1, GenuineIsTarget
      <4>3. QED
        BY <1>0, <3>1, <4>2 DEF KeyOK
    <3>2. CASE pc'[t] = "acquire" /\ spec' = spec
      BY <1>0, <3>2 DEF KeyOK, Leading
    <3>3. QED
      BY <1>0, <2>2, <3>1, <3>2 DEF Lookup, Goto, TypeOK
  <2>3. CASE Acquire(t) \/ NotFound(t)
    <3>1. pc'[t] \in {"resolve", "discover"} /\ spec' = spec
      BY <1>0, <2>3 DEF Acquire, NotFound, Goto, TypeOK
    <3>2. QED
      BY <1>0, <3>1 DEF KeyOK, Leading
  <2>4. CASE Resolve(t)
    <3>1. /\ pc'[t] = "claim" /\ spec' = spec
          /\ key'[t] = Resolved[ReqURL[spec[t]]] /\ Entry[spec[t]] = None
      BY <1>0, <2>4 DEF Resolve, Goto, TypeOK
    <3>2. key'[t] = Target(t[2])
      BY <1>0, <3>1, ResolvedIsTarget
    <3>3. QED
      BY <1>0, <3>1, <3>2 DEF KeyOK
  <2>5. CASE Discover(t)
    <3>1. /\ pc[t] = "discover" /\ pc'[t] = "load"
          /\ spec'[t] = Entry[spec[t]]
      BY <1>0, <2>5 DEF Discover, Goto, TypeOK
    <3>2. Entry[spec[t]] # None
      BY <1>0, <3>1 DEF TaskInv
    <3>3. spec[t] = t[2]
      BY <1>0, <3>2, RegistryAssumption DEF KeyOK
    <3>4. QED
      BY <3>1, <3>2, <3>3 DEF KeyOK, Leading
  <2>6. CASE Stored(t)
    <3>1. /\ pc[t] = "stored" /\ pc'[t] \in {"record", "body"}
          /\ pc'[t] = "record" => key[t] \in cached
          /\ key' = key /\ spec' = spec /\ cached' = cached
      BY <1>0, <2>6 DEF Stored, Goto, TypeOK, env
    <3>2. QED
      BY <1>0, <3>1 DEF KeyOK, Leading
  <2>7. CASE Body(t)
    <3>1. pc[t] = "body" /\ pc'[t] = "save" /\ key' = key /\ spec' = spec
      BY <1>0, <2>7 DEF Body, Goto, TypeOK, local
    <3>2. QED
      BY <1>0, <3>1 DEF KeyOK, Leading
  <2>8. CASE Save(t)
    <3>1. /\ pc[t] = "save" /\ pc'[t] = "record" /\ key[t] \in cached'
          /\ key' = key /\ spec' = spec
      BY <1>0, <2>8 DEF Save, Goto, TypeOK, local
    <3>2. QED
      BY <1>0, <3>1 DEF KeyOK, Leading
  <2>9. CASE Retry(t)
    <3>1. pc' = pc /\ key' = key /\ spec' = spec /\ cached' = cached
          /\ visited' = visited
      BY <2>9 DEF Retry, shared
    <3>2. QED
      BY <1>0, <3>1 DEF KeyOK
  <2>10. CASE Claim(t) /\ inflight[key[t]] # NoTask
    <3>1. pc[t] = "claim" /\ pc'[t] = "wait" /\ key' = key /\ spec' = spec
      BY <1>0, <2>10 DEF Claim, Goto, TypeOK, local
    <3>2. QED
      BY <1>0, <3>1 DEF KeyOK
  <2>11. CASE Recheck(t) /\ key[t] \notin visited
    <3>1. /\ pc[t] = "recheck" /\ pc'[t] = "stored"
          /\ key' = key /\ spec' = spec
      BY <1>0, <2>11 DEF Recheck, Goto, TypeOK, local
    <3>2. QED
      BY <1>0, <3>1 DEF KeyOK, Leading
  <2>12. QED
    BY <2>1, <2>2, <2>3, <2>4, <2>5, <2>6, <2>7, <2>8, <2>9, <2>10, <2>11
    DEF Quiet
<1>4. QED
  BY <1>1, <1>2, <1>3 DEF Keyed

(* A URL is claimed. *)
LEMMA ClaimKeeps ==
  ASSUME IInv, Tree, NEW t \in Tasks, Claim(t), inflight[key[t]] = NoTask
  PROVE  Tree'
<1>0. /\ TypeOK /\ TaskInv(t) /\ KeyOK(t) /\ pc[t] = "claim"
      /\ t[2] \in Specs
  BY TasksAre DEF IInv, Tree, Keyed, Claim
<1>1. /\ key[t] \in URLs /\ key[t] = Target(t[2]) /\ key[t] \notin done
  BY <1>0 DEF TaskInv, KeyOK, IInv, DoneAreClaimed
<1>2. /\ pc'[t] = "recheck" /\ inflight'[key[t]] = t
      /\ \A x \in Tasks \ {t} : pc'[x] = pc[x]
      /\ \A u \in URLs \ {key[t]} : inflight'[u] = inflight[u]
      /\ UNCHANGED <<env, sem, done, pending, visited, deps, local>>
  BY <1>0, <1>1 DEF Claim, Goto, TypeOK
<1>3. \A x \in Tasks : /\ pc'[x] = "off" <=> pc[x] = "off"
                       /\ pc'[x] = "end" <=> pc[x] = "end"
                       /\ pc'[x] = "children" <=> pc[x] = "children"
                       /\ pc[x] \in Leading => pc'[x] \in Leading
  BY <1>0, <1>2 DEF Leading
<1>4. \A u \in visited : u \in URLs /\ u # key[t]
  <2>1. \A u \in visited : inflight[u] # NoTask
    BY DEF Tree, Recorded, RecordOK
  <2>2. QED
    BY <1>0, <2>1 DEF TypeOK
<1>5. \A u : Children(u)' = Children(u) /\ Results(u)' = Results(u)
  BY <1>2 DEF Children, Results, env, local
<1>6. Honest'
  <2>1. Genuine(key[t])
    BY <1>0, <1>1, TargetsAreGenuine
  <2>2. QED
    BY <1>2, <2>1 DEF Tree, Honest, Genuine, env
<1>7. Keyed'
  BY <1>0, <1>2 DEF Tree, Keyed, KeyOK, Target, Leading, env, local
<1>8. Owned'
  BY <1>0, <1>3, <1>2 DEF Tree, Owned, Running, TypeOK, local
<1>9. Claims'
  <2>1. SUFFICES ASSUME NEW u \in URLs, inflight'[u] # NoTask
                 PROVE  LeaderOK(u, inflight[u])'
    BY DEF Claims
  <2>2. CASE u = key[t]
    BY <1>0, <1>1, <1>2, <2>2 DEF LeaderOK, Leading, local
  <2>3. CASE u # key[t]
    <3>1. LeaderOK(u, inflight[u])
      BY <1>2, <2>1, <2>3 DEF Tree, Claims
    <3>2. QED
      BY <1>2, <1>3, <2>3, <3>1 DEF LeaderOK, local
  <2>4. QED
    BY <2>2, <2>3
<1>10. Recorded'
  <2>1. SUFFICES ASSUME NEW u \in visited PROVE RecordOK(u, inflight[u])'
    BY <1>2 DEF Recorded
  <2>2. RecordOK(u, inflight[u]) /\ u \in URLs /\ inflight'[u] = inflight[u]
    BY <1>2, <1>4 DEF Tree, Recorded
  <2>3. Children(u) \subseteq Tasks /\ inflight[u] \in Tasks
    BY <1>0, <2>2, ChildrenAreTasks DEF RecordOK, TypeOK
  <2>4. QED
    BY <1>2, <1>3, <1>5, <2>2, <2>3 DEF RecordOK, env, local
<1>11. Born'
  BY <1>2, <1>3, <1>5 DEF Tree, Born
<1>12. Rooted'
  <2>1. Started' = Started
    BY <1>3 DEF Started
  <2>2. \A x \in Started : x # RootTask => inflight'[x[1]] = inflight[x[1]]
    BY <1>2, <1>4 DEF Tree, Born, Started
  <2>3. QED
    BY <2>1, <2>2 DEF Tree, Rooted, Upward
<1>13. Truthful'
  BY <1>2, <1>3 DEF Tree, Truthful, SomeFailed, Target, local
<1>14. Needed'
  BY <1>2 DEF Tree, Needed, Closed, Targets, Target, env
<1>15. QED
  BY <1>6, <1>7, <1>8, <1>9, <1>10, <1>11, <1>12, <1>13, <1>14 DEF Tree

(* A package is recorded, and its imports are started. *)
LEMMA RecordKeeps ==
  ASSUME IInv, Tree, NEW t \in Tasks, Record(t)
  PROVE  Tree'
<1> DEFINE u == key[t]
<1>0. /\ TypeOK /\ TaskInv(t) /\ KeyOK(t) /\ pc[t] = "record"
      /\ t[2] \in Specs
  BY TasksAre DEF IInv, Tree, Keyed, Record
<1>1. /\ u \in URLs /\ u = Target(t[2]) /\ u \in cached
      /\ inflight[u] = t /\ u \notin done /\ t # NoTask
  BY <1>0, TaskIsSomebody DEF TaskInv, KeyOK, Leading
<1>2. u \notin visited
  BY <1>0, <1>1 DEF Tree, Recorded, RecordOK
<1>3. Children(u) \subseteq Tasks
  BY <1>0, <1>1, ChildrenAreTasks
<1>4. \A x \in Children(u) : pc[x] = "off"
  <2>1. \A x \in Children(u) : x[1] = u /\ x # RootTask
    BY <1>1, FetcherAssumption DEF Children, RootTask
  <2>2. QED
    BY <1>2, <1>3, <2>1 DEF Tree, Born
<1>5. /\ t \notin Children(u)
      /\ pc'[t] = "children" /\ \A x \in Children(u) : pc'[x] = "load"
      /\ \A x \in Tasks \ {t} : x \notin Children(u) => pc'[x] = pc[x]
      /\ visited' = visited \union {u} /\ sem' \subseteq sem
      /\ UNCHANGED <<env, inflight, done, pending, deps, local>>
  BY <1>0, <1>3, <1>4 DEF Record
<1>6. \A x \in Tasks : /\ pc'[x] = "end" <=> pc[x] = "end"
                       /\ pc[x] # "off" => pc'[x] # "off"
                       /\ pc[x] \in Leading => pc'[x] \in Leading
                       /\ pc[x] # "off" /\ x # t => pc'[x] = pc[x]
  BY <1>0, <1>4, <1>5 DEF Leading
<1>7. \A v : Children(v)' = Children(v) /\ Results(v)' = Results(v)
  BY <1>5 DEF Children, Results, env, local
<1>8. Honest'
  BY <1>5 DEF Tree, Honest, Genuine, env
<1>9. Keyed'
  <2>1. SUFFICES ASSUME NEW x \in Tasks PROVE KeyOK(x)'
    BY DEF Keyed
  <2>2. KeyOK(x)
    BY DEF Tree, Keyed
  <2>3. CASE x = t
    BY <1>0, <1>1, <1>5, <2>2, <2>3 DEF KeyOK, Target, Leading, env, local
  <2>4. CASE x \in Children(u)
    BY <1>5, <2>2, <2>4 DEF KeyOK, Leading, local
  <2>5. CASE x # t /\ x \notin Children(u)
    BY <1>5, <2>2, <2>5 DEF KeyOK, Target, env, local
  <2>6. QED
    BY <2>3, <2>4, <2>5
<1>10. Owned'
  <2>1. ASSUME NEW h \in sem' PROVE Running(h[1])'
    <3>1. h \in sem /\ h[1] \in Tasks /\ Running(h[1])
      BY <1>0, <1>5 DEF Tree, Owned, TypeOK
    <3>2. QED
      BY <1>6, <3>1 DEF Running
  <2>2. QED
    BY <1>5, <1>6, <2>1 DEF Tree, Owned, local
<1>11. Claims'
  <2>1. SUFFICES ASSUME NEW v \in URLs, inflight[v] # NoTask
                 PROVE  LeaderOK(v, inflight[v])'
    BY <1>5 DEF Claims
  <2>2. LeaderOK(v, inflight[v])
    BY <2>1 DEF Tree, Claims
  <2>3. QED
    BY <1>5, <1>6, <2>2 DEF LeaderOK, local
<1>12. Recorded'
  <2>1. ASSUME NEW v \in visited PROVE RecordOK(v, inflight[v])'
    <3>1. RecordOK(v, inflight[v]) /\ v \in URLs
      BY <1>0 DEF Tree, Recorded, TypeOK
    <3>2. Children(v) \subseteq Tasks /\ inflight[v] \in Tasks
      BY <1>0, <3>1, ChildrenAreTasks DEF RecordOK, TypeOK
    <3>3. inflight[v] # t
      BY <1>0, <3>1 DEF RecordOK
    <3>4. QED
      BY <1>5, <1>6, <1>7, <3>1, <3>2, <3>3 DEF RecordOK, env, local
  <2>2. RecordOK(u, inflight[u])'
    BY <1>1, <1>5, <1>7 DEF RecordOK, env, local
  <2>3. QED
    BY <1>5, <2>1, <2>2 DEF Recorded, local
<1>13. Born'
  <2>1. SUFFICES ASSUME NEW x \in Tasks, pc'[x] # "off"
        PROVE  x = RootTask \/ (x[1] \in visited' /\ x \in Children(x[1])')
    BY DEF Born
  <2>2. CASE x \in Children(u)
    BY <1>5, <1>7, <2>2 DEF Children
  <2>3. CASE x \notin Children(u)
    BY <1>0, <1>5, <1>7, <2>1, <2>3 DEF Tree, Born
  <2>4. QED
    BY <2>2, <2>3
<1>14. Rooted'
  <2>1. SUFFICES ASSUME NEW S \in SUBSET Started', S # {}, Upward(S)'
                 PROVE  RootTask \in S
    BY DEF Rooted
  <2>2. DEFINE R == S \cap Started
  <2>3. \A x \in S : x \in Started \/ x \in Children(u)
    BY <1>0, <1>5, <2>1 DEF Started
  <2>4. ASSUME NEW x \in S, x \notin Started PROVE t \in R
    <3>1. x \in Children(u) /\ x # RootTask /\ x[1] = u
      BY <1>1, <2>3, <2>4, FetcherAssumption DEF Children, RootTask
    <3>2. inflight'[u] \in S
      BY <2>1, <3>1 DEF Upward
    <3>3. QED
      BY <1>0, <1>1, <1>5, <3>2 DEF Started
  <2>5. R # {}
    BY <2>1, <2>4
  <2>6. Upward(R)
    <3>1. SUFFICES ASSUME NEW x \in R, x # RootTask
                   PROVE  inflight[x[1]] \in R
      BY DEF Upward
    <3>2. inflight[x[1]] \in S
      BY <1>5, <2>1, <3>1 DEF Upward
    <3>3. x[1] \in visited
      BY <3>1 DEF Tree, Born, Started
    <3>4. inflight[x[1]] \in Tasks /\ pc[inflight[x[1]]] # "off"
      BY <1>0, <3>3 DEF Tree, Recorded, RecordOK, TypeOK
    <3>5. QED
      BY <3>2, <3>4 DEF Started
  <2>7. RootTask \in R
    BY <2>5, <2>6 DEF Tree, Rooted
  <2>8. QED
    BY <2>7
<1>15. Truthful'
  BY <1>5, <1>6 DEF Tree, Truthful, SomeFailed, Target, local
<1>16. Needed'
  <2>1. SUFFICES ASSUME NEW S \in SUBSET URLs, Closed(S)
                 PROVE  visited' \subseteq S
    BY <1>5 DEF Needed, Closed, Targets, Target, env
  <2>2. visited \subseteq S
    BY <2>1 DEF Tree, Needed
  <2>3. Target(t[2]) \in S
    <3>1. CASE t = RootTask
      BY <2>1, <3>1 DEF RootTask, Closed
    <3>2. CASE t # RootTask
      <4>1. t[1] \in visited /\ t \in Children(t[1])
        BY <1>0, <3>2 DEF Tree, Born
      <4>2. t[2] \in imports[t[1]]
        BY <4>1 DEF Children
      <4>3. Target(t[2]) \in Targets(t[1])
        BY <4>2 DEF Targets
      <4>4. QED
        BY <2>1, <2>2, <4>1, <4>3 DEF Closed
    <3>3. QED
      BY <3>1, <3>2
  <2>4. QED
    BY <1>1, <1>5, <2>2, <2>3
<1>17. QED
  BY <1>8, <1>9, <1>10, <1>11, <1>12, <1>13, <1>14, <1>15, <1>16 DEF Tree

LEMMA TreeStarts == Init => Tree
<1>1. SUFFICES ASSUME Init PROVE Tree
  OBVIOUS
<1>2. RootTask \in Tasks /\ IInv
  BY <1>1, InitEstablishes, FetcherAssumption DEF RootTask, Tasks
<1>3. \A x \in Tasks : /\ pc[x] # "off" => x = RootTask /\ pc[x] = "load"
                       /\ spec[x] = x[2] /\ result[x] = None
  BY <1>1 DEF Init
<1>4. sem = {} /\ visited = {} /\ \A u \in URLs : inflight[u] = NoTask
  BY <1>1 DEF Init
<1>5. Honest
  <2>1. \A u \in cached : Genuine(u)
    BY <1>1, RegistryAssumption DEF Init, Served, Genuine
  <2>2. QED
    BY <1>4, <2>1 DEF Honest
<1>6. Keyed
  BY <1>3 DEF Keyed, KeyOK, Leading
<1>7. Owned /\ Claims /\ Recorded /\ Born /\ Truthful
  BY <1>3, <1>4, FetcherAssumption
  DEF Owned, Claims, Recorded, Born, Truthful, Running
<1>8. Rooted
  BY <1>3 DEF Rooted, Started
<1>9. Needed
  BY <1>4 DEF Needed
<1>10. QED
  BY <1>5, <1>6, <1>7, <1>8, <1>9 DEF Tree

LEMMA TreeKept == IInv /\ Tree /\ [Next]_vars => Tree'
<1> SUFFICES ASSUME IInv, Tree, [Next]_vars PROVE Tree'
  OBVIOUS
<1>0. TypeOK /\ Failed \in Outcomes
  BY DEF IInv, Outcomes
<1>1. ASSUME NEW t \in Tasks, Quiet(t) PROVE Tree'
  <2>1. Moves(t)
    BY <1>1, QuietMoves
  <2>2. QED
    BY <1>1, <2>1, MovesKeep, QuietKeyed DEF Tree
<1>2. ASSUME NEW t \in Tasks, Wait(t) PROVE Tree'
  <2>1. Ends(t, pending[key[t]])
    BY <1>2, WaitEnds
  <2>2. pending[key[t]] \in Outcomes
    BY <1>0, <1>2 DEF IInv, TaskInv, Wait, TypeOK
  <2>3. QED
    BY <2>1, <2>2, EndsKeep
<1>3. ASSUME NEW t \in Tasks, Claim(t), inflight[key[t]] = NoTask
      PROVE  Tree'
  BY <1>3, ClaimKeeps
<1>4. ASSUME NEW t \in Tasks, Recheck(t) PROVE key[t] \notin visited
  <2>1. /\ key[t] \in URLs /\ inflight[key[t]] = t /\ pc[t] = "recheck"
    BY <1>4 DEF IInv, TaskInv, Recheck, Leading
  <2>2. QED
    BY <2>1 DEF Tree, Recorded, RecordOK
<1>5. ASSUME NEW t \in Tasks, Record(t) PROVE Tree'
  BY <1>5, RecordKeeps
<1>6. ASSUME NEW t \in Tasks, Join(t) PROVE Tree'
  <2>1. key[t] \in Outcomes
    BY <1>6 DEF IInv, TaskInv, Join, Leading, Outcomes
  <2>2. PICK r \in {Failed, key[t]} : Ends(t, r)
    BY <1>6, JoinEnds
  <2>3. r \in Outcomes
    BY <1>0, <2>1, <2>2
  <2>4. QED
    BY <2>2, <2>3, EndsKeep
<1>7. ASSUME NEW t \in Tasks, Fault(t) \/ Abort(t) PROVE Tree'
  <2>1. Fail(t) /\ Running(t) /\ pc[t] # "children"
    BY <1>7 DEF Fault, Abort, Running, Network
  <2>2. QED
    BY <1>0, <2>1, FailEnds, EndsKeep
<1>8. CASE Cancel \/ UNCHANGED vars
  <2>1. UNCHANGED <<imports, cached, shared, pc, local>>
    BY <1>8 DEF Cancel, vars, env
  <2>2. Honest' /\ Keyed' /\ Owned' /\ Claims'
    BY <2>1 DEF Tree, Honest, Genuine, Keyed, KeyOK, Target, Owned, Running,
      Claims, LeaderOK, shared, local
  <2>3. Recorded' /\ Born' /\ Rooted'
    BY <2>1 DEF Tree, Recorded, RecordOK, Children, Results, Born, Rooted,
      Started, Upward, shared, local
  <2>4. Truthful' /\ Needed'
    BY <2>1 DEF Tree, Truthful, SomeFailed, Target, Needed, Closed, Targets,
      shared, local
  <2>5. QED
    BY <2>2, <2>3, <2>4 DEF Tree
<1>9. QED
  BY <1>1, <1>2, <1>3, <1>4, <1>5, <1>6, <1>7, <1>8
  DEF Next, Progress, Quiet

(* The tasks of a walk stay a tree, whatever fails and whoever is faster. *)
THEOREM TreeInvariance == Spec => [](IInv /\ Tree)
BY InitEstablishes, StepPreserves, TreeStarts, TreeKept, PTL DEF Spec

-----------------------------------------------------------------------------
(* When the root has ended, everybody has. *)
LEMMA AllEnded ==
  ASSUME IInv, Tree, Ended
  PROVE  \A x \in Tasks : ~Running(x)
<1>1. DEFINE S == {x \in Tasks : Running(x)}
<1>2. S \in SUBSET Started
  BY DEF Started, Running
<1>3. RootTask \notin S
  BY DEF Ended, Running
<1>4. Upward(S)
  <2>1. SUFFICES ASSUME NEW x \in S, x # RootTask
                 PROVE  inflight[x[1]] \in S
    BY DEF Upward
  <2>2. x[1] \in visited /\ x \in Children(x[1])
    BY <2>1 DEF Tree, Born, Running
  <2>3. RecordOK(x[1], inflight[x[1]]) /\ inflight[x[1]] \in Tasks
    BY <2>2 DEF Tree, Recorded, RecordOK, IInv, TypeOK
  <2>4. pc[x] # "end"
    BY <2>1 DEF Running
  <2>5. QED
    BY <2>2, <2>3, <2>4 DEF RecordOK, Running
<1>5. S = {}
  BY <1>2, <1>3, <1>4 DEF Tree, Rooted
<1>6. QED
  BY <1>5

(* A failure has gone up to the root. *)
LEMMA FailureAtRoot ==
  ASSUME IInv, Tree, Ended, SomeFailed
  PROVE  result[RootTask] = Failed
<1>1. DEFINE S == {x \in Tasks : result[x] = Failed}
<1>2. S \in SUBSET Started /\ S # {}
  BY DEF Tree, Owned, Started, SomeFailed
<1>3. Upward(S)
  <2>1. SUFFICES ASSUME NEW x \in S, x # RootTask
                 PROVE  inflight[x[1]] \in S
    BY DEF Upward
  <2>2. x[1] \in visited /\ x \in Children(x[1])
    BY <2>1 DEF Tree, Owned, Born
  <2>3. RecordOK(x[1], inflight[x[1]]) /\ inflight[x[1]] \in Tasks
    BY <2>2 DEF Tree, Recorded, RecordOK, IInv, TypeOK
  <2>4. pc[inflight[x[1]]] = "end"
    BY <2>3, AllEnded DEF RecordOK, Running
  <2>5. Failed \in Results(x[1])
    BY <2>1, <2>2 DEF Results
  <2>6. QED
    BY <2>3, <2>4, <2>5 DEF RecordOK
<1>4. RootTask \in S
  BY <1>2, <1>3 DEF Tree, Rooted
<1>5. QED
  BY <1>4

(* Fetch leaves no goroutine, no slot and no open claim behind.            *)
THEOREM CleanedUp == Spec => []NothingLeftBehind
<1>1. IInv /\ Tree => NothingLeftBehind
  <2>1. SUFFICES ASSUME IInv, Tree, Ended
        PROVE  /\ \A t \in Tasks : pc[t] \in {"off", "end"}
               /\ sem = {}
               /\ \A u \in URLs : inflight[u] # NoTask => u \in done
    BY DEF NothingLeftBehind
  <2>2. \A t \in Tasks : pc[t] \in {"off", "end"}
    BY <2>1, AllEnded DEF Running
  <2>3. sem = {}
    BY <2>1, AllEnded DEF Tree, Owned, IInv, TypeOK
  <2>4. \A u \in URLs : inflight[u] # NoTask => u \in done
    BY <2>1, <2>2 DEF Tree, Claims, LeaderOK, Leading
  <2>5. QED
    BY <2>2, <2>3, <2>4
<1>2. QED
  BY <1>1, TreeInvariance, PTL

(* Fetch reports no success over a failure of any goroutine.               *)
THEOREM Surfaces == Spec => []FailureSurfaces
<1>1. IInv /\ Tree => FailureSurfaces
  BY FailureAtRoot DEF FailureSurfaces, SomeFailed
<1>2. QED
  BY <1>1, TreeInvariance, PTL

(* A Fetch that succeeds returns the closure of the root, every package    *)
(* with its dependencies and its bytes.                                    *)
THEOREM WholeClosure == Spec => []SuccessIsClosure
<1>1. IInv /\ Tree => SuccessIsClosure
  <2>1. SUFFICES ASSUME IInv, Tree, Ended, result[RootTask] # Failed
        PROVE  /\ result[RootTask] = Target(Root)
               /\ visited = Closure
               /\ \A u \in visited : deps[u] = Targets(u) /\ u \in cached
    BY DEF SuccessIsClosure
  <2>2. ~SomeFailed /\ TypeOK
    BY <2>1, FailureAtRoot DEF IInv
  <2>3. \A x \in Tasks : pc[x] = "end" =>
          result[x] = Target(x[2]) /\ result[x] \in visited
    BY <2>1, <2>2 DEF Tree, Truthful
  <2>4. RootTask \in Tasks /\ RootTask[2] = Root
    BY FetcherAssumption DEF RootTask, Tasks
  <2>5. result[RootTask] = Target(Root) /\ Target(Root) \in visited
    BY <2>1, <2>3, <2>4 DEF Ended
  <2>6. ASSUME NEW u \in visited
        PROVE  /\ Results(u) = Targets(u) /\ Targets(u) \subseteq visited
               /\ deps[u] = Targets(u) /\ u \in cached
    <3>1. RecordOK(u, inflight[u]) /\ inflight[u] \in Tasks /\ u \in URLs
      BY <2>1, <2>2 DEF Tree, Recorded, RecordOK, TypeOK
    <3>2. pc[inflight[u]] = "end" /\ result[inflight[u]] # Failed
      BY <2>1, <2>2, <3>1, AllEnded DEF RecordOK, Running, SomeFailed
    <3>3. Children(u) \subseteq Tasks
      BY <2>2, <3>1, ChildrenAreTasks
    <3>4. \A x \in Children(u) :
            result[x] = Target(x[2]) /\ result[x] \in visited
      BY <2>3, <3>1, <3>2, <3>3 DEF RecordOK
    <3>5. \A s \in imports[u] : <<u, s>> \in Children(u)
      BY DEF Children
    <3>6. Results(u) = Targets(u)
      <4>1. \A x \in Children(u) : x[2] \in imports[u]
        BY DEF Children
      <4>2. Results(u) \subseteq Targets(u)
        BY <3>4, <4>1 DEF Results, Targets
      <4>3. \A s \in imports[u] : Target(s) = result[<<u, s>>]
        BY <3>4, <3>5
      <4>4. Targets(u) \subseteq Results(u)
        BY <3>5, <4>3 DEF Results, Targets
      <4>5. QED
        BY <4>2, <4>4
    <3>7. Targets(u) \subseteq visited
      BY <3>4, <3>6 DEF Results
    <3>8. QED
      BY <3>1, <3>2, <3>6, <3>7 DEF RecordOK
  <2>7. Closed(visited) /\ visited \in SUBSET URLs
    BY <2>2, <2>5, <2>6 DEF Closed, TypeOK
  <2>8. visited = Closure
    BY <2>1, <2>7 DEF Closure, Tree, Needed
  <2>9. QED
    BY <2>5, <2>6, <2>8
<1>2. QED
  BY <1>1, TreeInvariance, PTL

=============================================================================
