-------------------------- MODULE PluginHostProofs --------------------------
(***************************************************************************)
(* Proofs about PluginHost for any number of callers, closers and calls:   *)
(* the types, that a call gets its own answer, that the dispatcher never   *)
(* blocks on a channel, and that a closed host leaves nothing behind.      *)
(***************************************************************************)
EXTENDS PluginHost, FiniteSetTheorems, TLAPS

(* The bound on calls counts those that are about to take an id.           *)
Registering == {d \in Callers : pc[d] = "call"}

Counted ==
  /\ IsFiniteSet(Registering)
  /\ nextID + Cardinality(Registering) <= MaxCalls

(* Ids that have not been given out are not in use.                        *)
Numbered ==
  /\ \A c \in Callers : pc[c] \in {"write", "wait"} => id[c] \in Ids
  /\ \A i \in Ids : i > nextID => ~pending[i] /\ chan[i] = None
  /\ dpc = "send" => msg \in Ids /\ msg <= nextID

(* A channel never holds the answer to another call.                       *)
OwnAnswers == \A i \in Ids : chan[i] \in Ids => chan[i] = i

(* Nobody closes a host that does not run yet, and only the one that       *)
(* started it closes a host that failed to.                                *)
ClosersWait ==
  /\ host \in {"new", "starting"} =>
       ~closed /\ \A k \in Shut : pc[k] = "open"
  /\ host \in {"failing", "failed"} => \A k \in Closers : pc[k] = "open"
  /\ \A k \in Shut : pc[k] \notin {"open", "close"} => closed

(* Between the first Close and the end of what it does, somebody does it.  *)
CloseInHand ==
  /\ host \in {"new", "failed"} => ~alive /\ ~tmp
  /\ \A k \in Shut : pc[k] \in {"wait", "remove"} => ~alive
  /\ closed => \/ ~alive /\ ~tmp
               \/ \E k \in Shut : pc[k] \in {"stdin", "kill", "wait", "remove"}

IInv ==
  /\ TypeOK
  /\ Counted /\ Numbered
  /\ OwnAnswers /\ RightAnswer
  /\ DispatcherFree
  /\ ClosersWait /\ CloseInHand

-----------------------------------------------------------------------------
(* What the assumption says of answers that are no ids, and of goroutines. *)
LEMMA Answers ==
  /\ \A x \in {None, Exited, Error, Noise} : x \notin Ids
  /\ MaxCalls \in Nat /\ MaxNoise \in Nat
  /\ \A c \in Callers : c \notin Shut
  /\ Starter \notin Closers
<1>1. \A c \in Callers : c \notin Shut
  BY PluginHostAssumption DEF Shut
<1>2. Ids \subseteq Nat /\ MaxCalls \in Nat
  BY PluginHostAssumption DEF Ids
<1>3. \A x \in {None, Exited, Error, Noise} : x \notin Ids
  BY <1>2, PluginHostAssumption
<1>4. QED
  BY <1>1, <1>2, <1>3, PluginHostAssumption

(* There is an id left for whoever is about to take one.                   *)
LEMMA Room ==
  ASSUME TypeOK, Counted, NEW c \in Callers, pc[c] = "call"
  PROVE  /\ nextID + 1 \in Ids
         /\ Cardinality(Registering \ {c}) = Cardinality(Registering) - 1
         /\ IsFiniteSet(Registering \ {c})
         /\ Cardinality(Registering) \in Nat
<1>1. c \in Registering /\ IsFiniteSet(Registering)
  BY DEF Registering, Counted
<1>2. /\ Cardinality(Registering \ {c}) = Cardinality(Registering) - 1
      /\ IsFiniteSet(Registering \ {c})
  BY <1>1, FS_RemoveElement
<1>3. /\ Cardinality(Registering) \in Nat
      /\ Cardinality(Registering \ {c}) \in Nat
  BY <1>1, <1>2, FS_CardinalityType
<1>4. nextID \in Nat /\ nextID + Cardinality(Registering) <= MaxCalls
  BY Answers DEF TypeOK, Counted
<1>5. QED
  BY <1>2, <1>3, <1>4, <1>1, Answers DEF Ids

(* Every step keeps the types.                                             *)
LEMMA Types ==
  ASSUME TypeOK, Counted, Numbered, [Next]_vars
  PROVE  TypeOK'
<1>1. ASSUME Start PROVE TypeOK'
  BY <1>1 DEF Start, caller, disp, TypeOK, CallerPCs, CloserPCs
<1>2. ASSUME Handshake PROVE TypeOK'
  BY <1>2 DEF Handshake, caller, pipes, sidecar, TypeOK, CallerPCs,
    CloserPCs
<1>3. ASSUME HandshakeFails PROVE TypeOK'
  BY <1>3 DEF HandshakeFails, Goto, disp, pipes, sidecar, TypeOK, CallerPCs,
    CloserPCs
<1>4. ASSUME GiveUp PROVE TypeOK'
  BY <1>4 DEF GiveUp, caller, disp, pipes, sidecar, TypeOK, CallerPCs,
    CloserPCs
<1>5. ASSUME NEW c \in Callers, Call(c) PROVE TypeOK'
  BY <1>5 DEF Call, Goto, goside, disp, pipes, sidecar, TypeOK, CallerPCs,
    CloserPCs
<1>6. ASSUME NEW c \in Callers, Register(c) PROVE TypeOK'
  <2>1. nextID + 1 \in Ids /\ Ids \subseteq 0 .. MaxCalls
    <3>1. pc[c] = "call"
      BY <1>6 DEF Register
    <3>2. nextID + 1 \in Ids
      BY <3>1, Room
    <3>3. Ids \subseteq 0 .. MaxCalls
      BY Answers DEF Ids
    <3>4. QED
      BY <3>2, <3>3
  <2>2. CASE Return(c, Error) /\ UNCHANGED <<nextID, pending>>
    BY <1>6, <2>2, Answers
    DEF Register, Return, disp, pipes, sidecar, TypeOK, CallerPCs, CloserPCs
  <2>3. CASE /\ nextID' = nextID + 1
             /\ pending' = [pending EXCEPT ![nextID'] = TRUE]
             /\ id' = [id EXCEPT ![c] = nextID']
             /\ Goto(c, "call", "write")
             /\ UNCHANGED result
    BY <1>6, <2>1, <2>3, Answers
    DEF Register, Goto, disp, pipes, sidecar, TypeOK, CallerPCs, CloserPCs
  <2>4. QED
    BY <1>6, <2>2, <2>3 DEF Register
<1>7. ASSUME NEW c \in Callers, Write(c) PROVE TypeOK'
  BY <1>7 DEF Write, Goto, goside, disp, sidecar, TypeOK, Counted, Numbered,
    CallerPCs, CloserPCs
<1>8. ASSUME NEW c \in Callers, WriteFails(c) PROVE TypeOK'
  BY <1>8 DEF WriteFails, Return, goside, disp, pipes, sidecar, TypeOK,
    CallerPCs, CloserPCs
<1>9. ASSUME NEW c \in Callers, Receive(c) PROVE TypeOK'
  BY <1>9, Answers DEF Receive, Return, disp, pipes, sidecar, TypeOK,
    Counted, Numbered, CallerPCs, CloserPCs
<1>10. ASSUME Route PROVE TypeOK'
  <2>1. Head(out) \in Ids \union {Noise} /\ out' \in Seq(Ids \union {Noise})
    BY <1>10 DEF Route, TypeOK
  <2>2. /\ pending' \in [Ids -> BOOLEAN] /\ msg' \in Ids \union {None}
        /\ dpc' \in {"off", "read", "send", "sweep", "done"}
    BY <1>10, <2>1 DEF Route, TypeOK
  <2>3. QED
    BY <1>10, <2>1, <2>2 DEF Route, caller, sidecar, TypeOK
<1>11. ASSUME Send PROVE TypeOK'
  BY <1>11 DEF Send, caller, pipes, sidecar, TypeOK, CallerPCs, CloserPCs
<1>12. ASSUME StreamEnds PROVE TypeOK'
  BY <1>12 DEF StreamEnds, goside, caller, pipes, sidecar, TypeOK,
    CallerPCs, CloserPCs
<1>13. ASSUME Sweep PROVE TypeOK'
  BY <1>13 DEF Sweep, caller, pipes, sidecar, TypeOK, CallerPCs, CloserPCs
<1>14. ASSUME NEW k \in Closers, Close(k) PROVE TypeOK'
  BY <1>14 DEF Close, Goto, goside, disp, pipes, sidecar, TypeOK, CallerPCs,
    CloserPCs
<1>15. ASSUME NEW k \in Shut, SetClosed(k) PROVE TypeOK'
  BY <1>15 DEF SetClosed, Goto, disp, pipes, sidecar, TypeOK, CallerPCs,
    CloserPCs
<1>16. ASSUME NEW k \in Shut, CloseStdin(k) PROVE TypeOK'
  BY <1>16 DEF CloseStdin, Goto, goside, disp, sidecar, TypeOK, CallerPCs,
    CloserPCs
<1>17. ASSUME NEW k \in Shut, Kill(k) PROVE TypeOK'
  BY <1>17 DEF Kill, Goto, Gone, goside, disp, TypeOK, CallerPCs, CloserPCs
<1>18. ASSUME NEW k \in Shut, Reap(k) PROVE TypeOK'
  BY <1>18, Answers DEF Reap, Goto, goside, disp, sidecar, TypeOK,
    CallerPCs, CloserPCs
<1>19. ASSUME NEW k \in Shut, Remove(k) PROVE TypeOK'
  BY <1>19 DEF Remove, Goto, goside, disp, pipes, sidecar, TypeOK,
    CallerPCs, CloserPCs
<1>20. ASSUME NEW i \in Ids, Begin(i) PROVE TypeOK'
  BY <1>20 DEF Begin, goside, caller, disp, TypeOK, CallerPCs, CloserPCs
<1>21. ASSUME NEW i \in Ids, Settle(i) PROVE TypeOK'
  BY <1>21 DEF Settle, goside, caller, disp, pipes, TypeOK, CallerPCs,
    CloserPCs
<1>22. ASSUME Reply PROVE TypeOK'
  BY <1>22 DEF Reply, goside, caller, disp, TypeOK, CallerPCs, CloserPCs
<1>23. ASSUME Garble PROVE TypeOK'
  BY <1>23, Answers DEF Garble, goside, caller, disp, TypeOK, CallerPCs,
    CloserPCs
<1>24. ASSUME Die PROVE TypeOK'
  BY <1>24 DEF Die, Gone, goside, caller, disp, TypeOK, CallerPCs, CloserPCs
<1>25. ASSUME UNCHANGED vars PROVE TypeOK'
  BY <1>25 DEF vars, goside, caller, disp, pipes, sidecar, TypeOK,
    CallerPCs, CloserPCs
<1>26. QED
  BY <1>1, <1>2, <1>3, <1>4, <1>5, <1>6, <1>7, <1>8, <1>9, <1>10, <1>11,
    <1>12, <1>13, <1>14, <1>15, <1>16, <1>17, <1>18, <1>19, <1>20, <1>21,
    <1>22, <1>23, <1>24, <1>25 DEF Next, InCall, Dispatch, InClose, Node

(* Every step keeps to the bound.                                          *)
LEMMA CountedStep ==
  ASSUME TypeOK, Counted, [Next]_vars
  PROVE  Counted'
<1>1. ASSUME Start PROVE Counted'
  BY <1>1 DEF Start, caller, disp, TypeOK, Counted, Registering
<1>2. ASSUME Handshake PROVE Counted'
  BY <1>2 DEF Handshake, caller, pipes, sidecar, TypeOK, Counted,
    Registering
<1>3. ASSUME HandshakeFails PROVE Counted'
  BY <1>3 DEF HandshakeFails, Goto, disp, pipes, sidecar, TypeOK, Counted,
    Registering
<1>4. ASSUME GiveUp PROVE Counted'
  BY <1>4 DEF GiveUp, caller, disp, pipes, sidecar, TypeOK, Counted,
    Registering
<1>5. ASSUME NEW c \in Callers, Call(c) PROVE Counted'
  <2>1. Registering' = Registering \union {c} /\ c \notin Registering
    BY <1>5 DEF Call, Goto, TypeOK, Registering
  <2>2. /\ IsFiniteSet(Registering)
        /\ nextID + Cardinality(Registering) < MaxCalls
    BY <1>5 DEF Call, Counted, Registering
  <2>3. /\ IsFiniteSet(Registering')
        /\ Cardinality(Registering') = Cardinality(Registering) + 1
    BY <2>1, <2>2, FS_AddElement
  <2>4. Cardinality(Registering) \in Nat /\ nextID \in Nat /\ nextID' = nextID
    BY <1>5, <2>2, FS_CardinalityType, Answers DEF Call, goside, TypeOK
  <2>5. QED
    BY <2>2, <2>3, <2>4, Answers DEF Counted
<1>6. ASSUME NEW c \in Callers, Register(c) PROVE Counted'
  <2>1. Registering' = Registering \ {c}
    BY <1>6 DEF Register, Return, Goto, TypeOK, Registering
  <2>2. /\ IsFiniteSet(Registering')
        /\ Cardinality(Registering') = Cardinality(Registering) - 1
        /\ Cardinality(Registering) \in Nat
    BY <1>6, <2>1, Room DEF Register
  <2>3. nextID \in Nat /\ (nextID' = nextID \/ nextID' = nextID + 1)
    BY <1>6, Answers DEF Register, TypeOK
  <2>4. nextID + Cardinality(Registering) <= MaxCalls
    BY DEF Counted
  <2>5. QED
    BY <2>2, <2>3, <2>4, Answers DEF Counted
<1>7. ASSUME NEW c \in Callers, Write(c) PROVE Counted'
  BY <1>7 DEF Write, Goto, goside, disp, sidecar, TypeOK, Counted,
    Registering
<1>8. ASSUME NEW c \in Callers, WriteFails(c) PROVE Counted'
  BY <1>8 DEF WriteFails, Return, goside, disp, pipes, sidecar, TypeOK,
    Counted, Registering
<1>9. ASSUME NEW c \in Callers, Receive(c) PROVE Counted'
  BY <1>9 DEF Receive, Return, disp, pipes, sidecar, TypeOK, Counted,
    Registering
<1>10. ASSUME Route PROVE Counted'
  BY <1>10 DEF Route, caller, sidecar, TypeOK, Counted, Registering
<1>11. ASSUME Send PROVE Counted'
  BY <1>11 DEF Send, caller, pipes, sidecar, TypeOK, Counted, Registering
<1>12. ASSUME StreamEnds PROVE Counted'
  BY <1>12 DEF StreamEnds, goside, caller, pipes, sidecar, TypeOK, Counted,
    Registering
<1>13. ASSUME Sweep PROVE Counted'
  BY <1>13 DEF Sweep, caller, pipes, sidecar, TypeOK, Counted, Registering
<1>14. ASSUME NEW k \in Closers, Close(k) PROVE Counted'
  BY <1>14 DEF Close, Goto, goside, disp, pipes, sidecar, TypeOK, Counted,
    Registering
<1>15. ASSUME NEW k \in Shut, SetClosed(k) PROVE Counted'
  BY <1>15 DEF SetClosed, Goto, disp, pipes, sidecar, TypeOK, Counted,
    Registering
<1>16. ASSUME NEW k \in Shut, CloseStdin(k) PROVE Counted'
  BY <1>16 DEF CloseStdin, Goto, goside, disp, sidecar, TypeOK, Counted,
    Registering
<1>17. ASSUME NEW k \in Shut, Kill(k) PROVE Counted'
  BY <1>17 DEF Kill, Goto, Gone, goside, disp, TypeOK, Counted, Registering
<1>18. ASSUME NEW k \in Shut, Reap(k) PROVE Counted'
  BY <1>18 DEF Reap, Goto, goside, disp, sidecar, TypeOK, Counted,
    Registering
<1>19. ASSUME NEW k \in Shut, Remove(k) PROVE Counted'
  BY <1>19 DEF Remove, Goto, goside, disp, pipes, sidecar, TypeOK, Counted,
    Registering
<1>20. ASSUME NEW i \in Ids, Begin(i) PROVE Counted'
  BY <1>20 DEF Begin, goside, caller, disp, TypeOK, Counted, Registering
<1>21. ASSUME NEW i \in Ids, Settle(i) PROVE Counted'
  BY <1>21 DEF Settle, goside, caller, disp, pipes, TypeOK, Counted,
    Registering
<1>22. ASSUME Reply PROVE Counted'
  BY <1>22 DEF Reply, goside, caller, disp, TypeOK, Counted, Registering
<1>23. ASSUME Garble PROVE Counted'
  BY <1>23 DEF Garble, goside, caller, disp, TypeOK, Counted, Registering
<1>24. ASSUME Die PROVE Counted'
  BY <1>24 DEF Die, Gone, goside, caller, disp, TypeOK, Counted, Registering
<1>25. ASSUME UNCHANGED vars PROVE Counted'
  BY <1>25 DEF vars, goside, caller, disp, pipes, sidecar, Counted,
    Registering
<1>26. QED
  BY <1>1, <1>2, <1>3, <1>4, <1>5, <1>6, <1>7, <1>8, <1>9, <1>10, <1>11,
    <1>12, <1>13, <1>14, <1>15, <1>16, <1>17, <1>18, <1>19, <1>20, <1>21,
    <1>22, <1>23, <1>24, <1>25 DEF Next, InCall, Dispatch, InClose, Node

(* Every step keeps to the ids given out.                                  *)
LEMMA NumberedStep ==
  ASSUME TypeOK, Counted, Numbered, [Next]_vars
  PROVE  Numbered'
<1>1. ASSUME Start PROVE Numbered'
  BY <1>1 DEF Start, caller, disp, TypeOK, Numbered
<1>2. ASSUME Handshake PROVE Numbered'
  BY <1>2 DEF Handshake, caller, pipes, sidecar, TypeOK, Numbered
<1>3. ASSUME HandshakeFails PROVE Numbered'
  BY <1>3 DEF HandshakeFails, Goto, disp, pipes, sidecar, TypeOK, Numbered
<1>4. ASSUME GiveUp PROVE Numbered'
  BY <1>4 DEF GiveUp, caller, disp, pipes, sidecar, TypeOK, Numbered
<1>5. ASSUME NEW c \in Callers, Call(c) PROVE Numbered'
  BY <1>5 DEF Call, Goto, goside, disp, pipes, sidecar, TypeOK, Numbered
<1>6. ASSUME NEW c \in Callers, Register(c) PROVE Numbered'
  <2>1. nextID + 1 \in Ids /\ nextID \in Nat
    <3>1. pc[c] = "call"
      BY <1>6 DEF Register
    <3>2. nextID + 1 \in Ids
      BY <3>1, Room
    <3>3. QED
      BY <3>2, Answers DEF TypeOK
  <2>2. CASE Return(c, Error) /\ UNCHANGED <<nextID, pending>>
    BY <1>6, <2>2 DEF Register, Return, disp, TypeOK, Numbered
  <2>3. CASE /\ nextID' = nextID + 1
             /\ pending' = [pending EXCEPT ![nextID'] = TRUE]
             /\ id' = [id EXCEPT ![c] = nextID']
             /\ Goto(c, "call", "write")
             /\ UNCHANGED result
    <3>1. \A d \in Callers : pc'[d] \in {"write", "wait"} => id'[d] \in Ids
      BY <2>1, <2>3 DEF Goto, TypeOK, Numbered
    <3>2. \A i \in Ids : i > nextID' => ~pending'[i] /\ chan'[i] = None
      BY <1>6, <2>1, <2>3 DEF Register, TypeOK, Numbered, Ids
    <3>3. dpc' = "send" => msg' \in Ids /\ msg' <= nextID'
      BY <1>6, <2>1, <2>3 DEF Register, disp, Numbered, Ids
    <3>4. QED
      BY <3>1, <3>2, <3>3 DEF Numbered
  <2>4. QED
    BY <1>6, <2>2, <2>3 DEF Register
<1>7. ASSUME NEW c \in Callers, Write(c) PROVE Numbered'
  BY <1>7 DEF Write, Goto, goside, disp, sidecar, TypeOK, Numbered
<1>8. ASSUME NEW c \in Callers, WriteFails(c) PROVE Numbered'
  BY <1>8 DEF WriteFails, Return, goside, disp, pipes, sidecar, TypeOK,
    Numbered
<1>9. ASSUME NEW c \in Callers, Receive(c) PROVE Numbered'
  BY <1>9 DEF Receive, Return, disp, pipes, sidecar, TypeOK, Numbered
<1>10. ASSUME Route PROVE Numbered'
  <2>1. \A i \in Ids : pending'[i] => pending[i]
    BY <1>10 DEF Route, TypeOK
  <2>2. dpc' = "send" => msg' \in Ids /\ pending[msg']
    BY <1>10 DEF Route
  <2>3. \A i \in Ids : pending[i] => i <= nextID
    BY Answers DEF Numbered, TypeOK, Ids
  <2>4. QED
    BY <1>10, <2>1, <2>2, <2>3 DEF Route, caller, Numbered
<1>11. ASSUME Send PROVE Numbered'
  <2>1. \A i \in Ids : i > nextID => i # msg /\ chan[i] = None
    BY <1>11, Answers DEF Send, TypeOK, Numbered, Ids
  <2>2. QED
    BY <1>11, <2>1 DEF Send, caller, TypeOK, Numbered
<1>12. ASSUME StreamEnds PROVE Numbered'
  BY <1>12 DEF StreamEnds, goside, caller, pipes, sidecar, TypeOK, Numbered
<1>13. ASSUME Sweep PROVE Numbered'
  BY <1>13 DEF Sweep, caller, pipes, sidecar, TypeOK, Numbered
<1>14. ASSUME NEW k \in Closers, Close(k) PROVE Numbered'
  BY <1>14 DEF Close, Goto, goside, disp, pipes, sidecar, TypeOK, Numbered
<1>15. ASSUME NEW k \in Shut, SetClosed(k) PROVE Numbered'
  BY <1>15 DEF SetClosed, Goto, disp, pipes, sidecar, TypeOK, Numbered
<1>16. ASSUME NEW k \in Shut, CloseStdin(k) PROVE Numbered'
  BY <1>16 DEF CloseStdin, Goto, goside, disp, sidecar, TypeOK, Numbered
<1>17. ASSUME NEW k \in Shut, Kill(k) PROVE Numbered'
  BY <1>17, Answers DEF Kill, Goto, Gone, goside, disp, TypeOK, Numbered
<1>18. ASSUME NEW k \in Shut, Reap(k) PROVE Numbered'
  BY <1>18 DEF Reap, Goto, goside, disp, sidecar, TypeOK, Numbered
<1>19. ASSUME NEW k \in Shut, Remove(k) PROVE Numbered'
  BY <1>19 DEF Remove, Goto, goside, disp, pipes, sidecar, TypeOK, Numbered
<1>20. ASSUME NEW i \in Ids, Begin(i) PROVE Numbered'
  BY <1>20 DEF Begin, goside, caller, disp, TypeOK, Numbered
<1>21. ASSUME NEW i \in Ids, Settle(i) PROVE Numbered'
  BY <1>21 DEF Settle, goside, caller, disp, pipes, TypeOK, Numbered
<1>22. ASSUME Reply PROVE Numbered'
  BY <1>22 DEF Reply, goside, caller, disp, TypeOK, Numbered
<1>23. ASSUME Garble PROVE Numbered'
  BY <1>23 DEF Garble, goside, caller, disp, TypeOK, Numbered
<1>24. ASSUME Die PROVE Numbered'
  BY <1>24 DEF Die, Gone, goside, caller, disp, TypeOK, Numbered
<1>25. ASSUME UNCHANGED vars PROVE Numbered'
  BY <1>25 DEF vars, goside, caller, disp, pipes, sidecar, Numbered
<1>26. QED
  BY <1>1, <1>2, <1>3, <1>4, <1>5, <1>6, <1>7, <1>8, <1>9, <1>10, <1>11,
    <1>12, <1>13, <1>14, <1>15, <1>16, <1>17, <1>18, <1>19, <1>20, <1>21,
    <1>22, <1>23, <1>24, <1>25 DEF Next, InCall, Dispatch, InClose, Node

(* Every step keeps channels to their own answers.                         *)
LEMMA OwnStep ==
  ASSUME TypeOK, Numbered, OwnAnswers, [Next]_vars
  PROVE  OwnAnswers'
<1>1. ASSUME Start PROVE OwnAnswers'
  BY <1>1 DEF Start, caller, disp, TypeOK, OwnAnswers
<1>2. ASSUME Handshake PROVE OwnAnswers'
  BY <1>2 DEF Handshake, caller, pipes, sidecar, TypeOK, OwnAnswers
<1>3. ASSUME HandshakeFails PROVE OwnAnswers'
  BY <1>3 DEF HandshakeFails, Goto, disp, pipes, sidecar, TypeOK, OwnAnswers
<1>4. ASSUME GiveUp PROVE OwnAnswers'
  BY <1>4 DEF GiveUp, caller, disp, pipes, sidecar, TypeOK, OwnAnswers
<1>5. ASSUME NEW c \in Callers, Call(c) PROVE OwnAnswers'
  BY <1>5 DEF Call, Goto, goside, disp, pipes, sidecar, TypeOK, OwnAnswers
<1>6. ASSUME NEW c \in Callers, Register(c) PROVE OwnAnswers'
  BY <1>6 DEF Register, Goto, Return, disp, pipes, sidecar, TypeOK,
    OwnAnswers
<1>7. ASSUME NEW c \in Callers, Write(c) PROVE OwnAnswers'
  BY <1>7 DEF Write, Goto, goside, disp, sidecar, TypeOK, OwnAnswers
<1>8. ASSUME NEW c \in Callers, WriteFails(c) PROVE OwnAnswers'
  BY <1>8 DEF WriteFails, Return, goside, disp, pipes, sidecar, TypeOK,
    OwnAnswers
<1>9. ASSUME NEW c \in Callers, Receive(c) PROVE OwnAnswers'
  BY <1>9, Answers DEF Receive, Return, disp, pipes, sidecar, TypeOK,
    OwnAnswers
<1>10. ASSUME Route PROVE OwnAnswers'
  BY <1>10 DEF Route, caller, sidecar, TypeOK, OwnAnswers
<1>11. ASSUME Send PROVE OwnAnswers'
  BY <1>11 DEF Send, caller, pipes, sidecar, TypeOK, OwnAnswers
<1>12. ASSUME StreamEnds PROVE OwnAnswers'
  BY <1>12 DEF StreamEnds, goside, caller, pipes, sidecar, TypeOK,
    OwnAnswers
<1>13. ASSUME Sweep PROVE OwnAnswers'
  BY <1>13, Answers DEF Sweep, caller, pipes, sidecar, TypeOK, OwnAnswers
<1>14. ASSUME NEW k \in Closers, Close(k) PROVE OwnAnswers'
  BY <1>14 DEF Close, Goto, goside, disp, pipes, sidecar, TypeOK, OwnAnswers
<1>15. ASSUME NEW k \in Shut, SetClosed(k) PROVE OwnAnswers'
  BY <1>15 DEF SetClosed, Goto, disp, pipes, sidecar, TypeOK, OwnAnswers
<1>16. ASSUME NEW k \in Shut, CloseStdin(k) PROVE OwnAnswers'
  BY <1>16 DEF CloseStdin, Goto, goside, disp, sidecar, TypeOK, OwnAnswers
<1>17. ASSUME NEW k \in Shut, Kill(k) PROVE OwnAnswers'
  BY <1>17 DEF Kill, Goto, Gone, goside, disp, TypeOK, OwnAnswers
<1>18. ASSUME NEW k \in Shut, Reap(k) PROVE OwnAnswers'
  BY <1>18 DEF Reap, Goto, goside, disp, sidecar, TypeOK, OwnAnswers
<1>19. ASSUME NEW k \in Shut, Remove(k) PROVE OwnAnswers'
  BY <1>19 DEF Remove, Goto, goside, disp, pipes, sidecar, TypeOK,
    OwnAnswers
<1>20. ASSUME NEW i \in Ids, Begin(i) PROVE OwnAnswers'
  BY <1>20 DEF Begin, goside, caller, disp, TypeOK, OwnAnswers
<1>21. ASSUME NEW i \in Ids, Settle(i) PROVE OwnAnswers'
  BY <1>21 DEF Settle, goside, caller, disp, pipes, TypeOK, OwnAnswers
<1>22. ASSUME Reply PROVE OwnAnswers'
  BY <1>22 DEF Reply, goside, caller, disp, TypeOK, OwnAnswers
<1>23. ASSUME Garble PROVE OwnAnswers'
  BY <1>23 DEF Garble, goside, caller, disp, TypeOK, OwnAnswers
<1>24. ASSUME Die PROVE OwnAnswers'
  BY <1>24 DEF Die, Gone, goside, caller, disp, TypeOK, OwnAnswers
<1>25. ASSUME UNCHANGED vars PROVE OwnAnswers'
  BY <1>25 DEF vars, goside, caller, disp, pipes, sidecar, OwnAnswers
<1>26. QED
  BY <1>1, <1>2, <1>3, <1>4, <1>5, <1>6, <1>7, <1>8, <1>9, <1>10, <1>11,
    <1>12, <1>13, <1>14, <1>15, <1>16, <1>17, <1>18, <1>19, <1>20, <1>21,
    <1>22, <1>23, <1>24, <1>25 DEF Next, InCall, Dispatch, InClose, Node

(* Every step keeps calls to their own answers.                            *)
LEMMA RightStep ==
  ASSUME TypeOK, Numbered, OwnAnswers, RightAnswer, [Next]_vars
  PROVE  RightAnswer'
<1>1. ASSUME Start PROVE RightAnswer'
  BY <1>1 DEF Start, caller, disp, TypeOK, RightAnswer
<1>2. ASSUME Handshake PROVE RightAnswer'
  BY <1>2 DEF Handshake, caller, pipes, sidecar, TypeOK, RightAnswer
<1>3. ASSUME HandshakeFails PROVE RightAnswer'
  BY <1>3 DEF HandshakeFails, Goto, disp, pipes, sidecar, TypeOK,
    RightAnswer
<1>4. ASSUME GiveUp PROVE RightAnswer'
  BY <1>4 DEF GiveUp, caller, disp, pipes, sidecar, TypeOK, RightAnswer
<1>5. ASSUME NEW c \in Callers, Call(c) PROVE RightAnswer'
  BY <1>5 DEF Call, Goto, goside, disp, pipes, sidecar, TypeOK, RightAnswer
<1>6. ASSUME NEW c \in Callers, Register(c) PROVE RightAnswer'
  BY <1>6, Answers DEF Register, Goto, Return, disp, pipes, sidecar, TypeOK,
    RightAnswer
<1>7. ASSUME NEW c \in Callers, Write(c) PROVE RightAnswer'
  BY <1>7 DEF Write, Goto, goside, disp, sidecar, TypeOK, RightAnswer
<1>8. ASSUME NEW c \in Callers, WriteFails(c) PROVE RightAnswer'
  BY <1>8, Answers DEF WriteFails, Return, goside, disp, pipes, sidecar,
    TypeOK, RightAnswer
<1>9. ASSUME NEW c \in Callers, Receive(c) PROVE RightAnswer'
  BY <1>9 DEF Receive, Return, disp, pipes, sidecar, TypeOK, Numbered,
    OwnAnswers, RightAnswer
<1>10. ASSUME Route PROVE RightAnswer'
  BY <1>10 DEF Route, caller, sidecar, TypeOK, RightAnswer
<1>11. ASSUME Send PROVE RightAnswer'
  BY <1>11 DEF Send, caller, pipes, sidecar, TypeOK, RightAnswer
<1>12. ASSUME StreamEnds PROVE RightAnswer'
  BY <1>12 DEF StreamEnds, goside, caller, pipes, sidecar, TypeOK,
    RightAnswer
<1>13. ASSUME Sweep PROVE RightAnswer'
  BY <1>13 DEF Sweep, caller, pipes, sidecar, TypeOK, RightAnswer
<1>14. ASSUME NEW k \in Closers, Close(k) PROVE RightAnswer'
  BY <1>14 DEF Close, Goto, goside, disp, pipes, sidecar, TypeOK,
    RightAnswer
<1>15. ASSUME NEW k \in Shut, SetClosed(k) PROVE RightAnswer'
  BY <1>15 DEF SetClosed, Goto, disp, pipes, sidecar, TypeOK, RightAnswer
<1>16. ASSUME NEW k \in Shut, CloseStdin(k) PROVE RightAnswer'
  BY <1>16 DEF CloseStdin, Goto, goside, disp, sidecar, TypeOK, RightAnswer
<1>17. ASSUME NEW k \in Shut, Kill(k) PROVE RightAnswer'
  BY <1>17 DEF Kill, Goto, Gone, goside, disp, TypeOK, RightAnswer
<1>18. ASSUME NEW k \in Shut, Reap(k) PROVE RightAnswer'
  BY <1>18 DEF Reap, Goto, goside, disp, sidecar, TypeOK, RightAnswer
<1>19. ASSUME NEW k \in Shut, Remove(k) PROVE RightAnswer'
  BY <1>19 DEF Remove, Goto, goside, disp, pipes, sidecar, TypeOK,
    RightAnswer
<1>20. ASSUME NEW i \in Ids, Begin(i) PROVE RightAnswer'
  BY <1>20 DEF Begin, goside, caller, disp, TypeOK, RightAnswer
<1>21. ASSUME NEW i \in Ids, Settle(i) PROVE RightAnswer'
  BY <1>21 DEF Settle, goside, caller, disp, pipes, TypeOK, RightAnswer
<1>22. ASSUME Reply PROVE RightAnswer'
  BY <1>22 DEF Reply, goside, caller, disp, TypeOK, RightAnswer
<1>23. ASSUME Garble PROVE RightAnswer'
  BY <1>23 DEF Garble, goside, caller, disp, TypeOK, RightAnswer
<1>24. ASSUME Die PROVE RightAnswer'
  BY <1>24 DEF Die, Gone, goside, caller, disp, TypeOK, RightAnswer
<1>25. ASSUME UNCHANGED vars PROVE RightAnswer'
  BY <1>25 DEF vars, goside, caller, disp, pipes, sidecar, RightAnswer
<1>26. QED
  BY <1>1, <1>2, <1>3, <1>4, <1>5, <1>6, <1>7, <1>8, <1>9, <1>10, <1>11,
    <1>12, <1>13, <1>14, <1>15, <1>16, <1>17, <1>18, <1>19, <1>20, <1>21,
    <1>22, <1>23, <1>24, <1>25 DEF Next, InCall, Dispatch, InClose, Node

(* Every step leaves room in the channels that are sent to.                *)
LEMMA FreeStep ==
  ASSUME TypeOK, Counted, Numbered, DispatcherFree, [Next]_vars
  PROVE  DispatcherFree'
<1>1. ASSUME Start PROVE DispatcherFree'
  BY <1>1 DEF Start, caller, disp, TypeOK, DispatcherFree
<1>2. ASSUME Handshake PROVE DispatcherFree'
  BY <1>2 DEF Handshake, caller, pipes, sidecar, TypeOK, DispatcherFree
<1>3. ASSUME HandshakeFails PROVE DispatcherFree'
  BY <1>3 DEF HandshakeFails, Goto, disp, pipes, sidecar, TypeOK,
    DispatcherFree
<1>4. ASSUME GiveUp PROVE DispatcherFree'
  BY <1>4 DEF GiveUp, caller, disp, pipes, sidecar, TypeOK, DispatcherFree
<1>5. ASSUME NEW c \in Callers, Call(c) PROVE DispatcherFree'
  BY <1>5 DEF Call, Goto, goside, disp, pipes, sidecar, TypeOK,
    DispatcherFree
<1>6. ASSUME NEW c \in Callers, Register(c) PROVE DispatcherFree'
  <2>1. nextID + 1 \in Ids /\ nextID \in Nat
    <3>1. pc[c] = "call"
      BY <1>6 DEF Register
    <3>2. nextID + 1 \in Ids
      BY <3>1, Room
    <3>3. QED
      BY <3>2, Answers DEF TypeOK
  <2>2. /\ chan' = chan /\ dpc' = dpc /\ msg' = msg
        /\ \/ pending' = pending
           \/ pending' = [pending EXCEPT ![nextID + 1] = TRUE]
    BY <1>6 DEF Register, disp
  <2>3. chan[nextID + 1] = None
    BY <2>1 DEF Numbered
  <2>4. dpc = "send" => msg \in Ids /\ msg # nextID + 1
    BY <2>1 DEF Numbered, Ids
  <2>5. QED
    BY <2>1, <2>2, <2>3, <2>4 DEF TypeOK, DispatcherFree
<1>7. ASSUME NEW c \in Callers, Write(c) PROVE DispatcherFree'
  BY <1>7 DEF Write, Goto, goside, disp, sidecar, TypeOK, DispatcherFree
<1>8. ASSUME NEW c \in Callers, WriteFails(c) PROVE DispatcherFree'
  BY <1>8 DEF WriteFails, Return, goside, disp, pipes, sidecar, TypeOK,
    DispatcherFree
<1>9. ASSUME NEW c \in Callers, Receive(c) PROVE DispatcherFree'
  BY <1>9 DEF Receive, Return, disp, pipes, sidecar, TypeOK, DispatcherFree
<1>10. ASSUME Route PROVE DispatcherFree'
  BY <1>10 DEF Route, caller, sidecar, TypeOK, DispatcherFree
<1>11. ASSUME Send PROVE DispatcherFree'
  BY <1>11 DEF Send, caller, pipes, sidecar, TypeOK, DispatcherFree
<1>12. ASSUME StreamEnds PROVE DispatcherFree'
  BY <1>12 DEF StreamEnds, goside, caller, pipes, sidecar, TypeOK,
    DispatcherFree
<1>13. ASSUME Sweep PROVE DispatcherFree'
  BY <1>13 DEF Sweep, caller, pipes, sidecar, TypeOK, DispatcherFree
<1>14. ASSUME NEW k \in Closers, Close(k) PROVE DispatcherFree'
  BY <1>14 DEF Close, Goto, goside, disp, pipes, sidecar, TypeOK,
    DispatcherFree
<1>15. ASSUME NEW k \in Shut, SetClosed(k) PROVE DispatcherFree'
  BY <1>15 DEF SetClosed, Goto, disp, pipes, sidecar, TypeOK, DispatcherFree
<1>16. ASSUME NEW k \in Shut, CloseStdin(k) PROVE DispatcherFree'
  BY <1>16 DEF CloseStdin, Goto, goside, disp, sidecar, TypeOK,
    DispatcherFree
<1>17. ASSUME NEW k \in Shut, Kill(k) PROVE DispatcherFree'
  BY <1>17 DEF Kill, Goto, Gone, goside, disp, TypeOK, DispatcherFree
<1>18. ASSUME NEW k \in Shut, Reap(k) PROVE DispatcherFree'
  BY <1>18 DEF Reap, Goto, goside, disp, sidecar, TypeOK, DispatcherFree
<1>19. ASSUME NEW k \in Shut, Remove(k) PROVE DispatcherFree'
  BY <1>19 DEF Remove, Goto, goside, disp, pipes, sidecar, TypeOK,
    DispatcherFree
<1>20. ASSUME NEW i \in Ids, Begin(i) PROVE DispatcherFree'
  BY <1>20 DEF Begin, goside, caller, disp, TypeOK, DispatcherFree
<1>21. ASSUME NEW i \in Ids, Settle(i) PROVE DispatcherFree'
  BY <1>21 DEF Settle, goside, caller, disp, pipes, TypeOK, DispatcherFree
<1>22. ASSUME Reply PROVE DispatcherFree'
  BY <1>22 DEF Reply, goside, caller, disp, TypeOK, DispatcherFree
<1>23. ASSUME Garble PROVE DispatcherFree'
  BY <1>23 DEF Garble, goside, caller, disp, TypeOK, DispatcherFree
<1>24. ASSUME Die PROVE DispatcherFree'
  BY <1>24 DEF Die, Gone, goside, caller, disp, TypeOK, DispatcherFree
<1>25. ASSUME UNCHANGED vars PROVE DispatcherFree'
  BY <1>25 DEF vars, goside, caller, disp, pipes, sidecar, DispatcherFree
<1>26. QED
  BY <1>1, <1>2, <1>3, <1>4, <1>5, <1>6, <1>7, <1>8, <1>9, <1>10, <1>11,
    <1>12, <1>13, <1>14, <1>15, <1>16, <1>17, <1>18, <1>19, <1>20, <1>21,
    <1>22, <1>23, <1>24, <1>25 DEF Next, InCall, Dispatch, InClose, Node

(* Every step lets the closers wait for the host.                          *)
LEMMA ClosersStep ==
  ASSUME TypeOK, ClosersWait, [Next]_vars
  PROVE  ClosersWait'
<1>1. ASSUME Start PROVE ClosersWait'
  BY <1>1 DEF Start, caller, disp, TypeOK, ClosersWait, Shut
<1>2. ASSUME Handshake PROVE ClosersWait'
  BY <1>2 DEF Handshake, caller, pipes, sidecar, TypeOK, ClosersWait, Shut
<1>3. ASSUME HandshakeFails PROVE ClosersWait'
  <2>1. pc' = [pc EXCEPT ![Starter] = "close"] /\ closed' = closed
    BY <1>3 DEF HandshakeFails, Goto
  <2>2. \A k \in Closers : k \in Shut /\ k # Starter
    BY Answers DEF Shut
  <2>3. QED
    BY <1>3, <2>1, <2>2 DEF HandshakeFails, TypeOK, ClosersWait
<1>4. ASSUME GiveUp PROVE ClosersWait'
  BY <1>4 DEF GiveUp, caller, disp, pipes, sidecar, TypeOK, ClosersWait,
    Shut
<1>5. ASSUME NEW c \in Callers, Call(c) PROVE ClosersWait'
  BY <1>5 DEF Call, Goto, goside, disp, pipes, sidecar, TypeOK, ClosersWait,
    Shut
<1>6. ASSUME NEW c \in Callers, Register(c) PROVE ClosersWait'
  BY <1>6 DEF Register, Goto, Return, disp, pipes, sidecar, TypeOK,
    ClosersWait, Shut
<1>7. ASSUME NEW c \in Callers, Write(c) PROVE ClosersWait'
  BY <1>7 DEF Write, Goto, goside, disp, sidecar, TypeOK, ClosersWait, Shut
<1>8. ASSUME NEW c \in Callers, WriteFails(c) PROVE ClosersWait'
  BY <1>8 DEF WriteFails, Return, goside, disp, pipes, sidecar, TypeOK,
    ClosersWait, Shut
<1>9. ASSUME NEW c \in Callers, Receive(c) PROVE ClosersWait'
  BY <1>9 DEF Receive, Return, disp, pipes, sidecar, TypeOK, ClosersWait,
    Shut
<1>10. ASSUME Route PROVE ClosersWait'
  BY <1>10 DEF Route, caller, sidecar, TypeOK, ClosersWait, Shut
<1>11. ASSUME Send PROVE ClosersWait'
  BY <1>11 DEF Send, caller, pipes, sidecar, TypeOK, ClosersWait, Shut
<1>12. ASSUME StreamEnds PROVE ClosersWait'
  BY <1>12 DEF StreamEnds, goside, caller, pipes, sidecar, TypeOK,
    ClosersWait, Shut
<1>13. ASSUME Sweep PROVE ClosersWait'
  BY <1>13 DEF Sweep, caller, pipes, sidecar, TypeOK, ClosersWait, Shut
<1>14. ASSUME NEW k \in Closers, Close(k) PROVE ClosersWait'
  BY <1>14 DEF Close, Goto, goside, disp, pipes, sidecar, TypeOK,
    ClosersWait, Shut
<1>15. ASSUME NEW k \in Shut, SetClosed(k) PROVE ClosersWait'
  BY <1>15 DEF SetClosed, Goto, disp, pipes, sidecar, TypeOK, ClosersWait,
    Shut
<1>16. ASSUME NEW k \in Shut, CloseStdin(k) PROVE ClosersWait'
  BY <1>16 DEF CloseStdin, Goto, goside, disp, sidecar, TypeOK, ClosersWait,
    Shut
<1>17. ASSUME NEW k \in Shut, Kill(k) PROVE ClosersWait'
  BY <1>17 DEF Kill, Goto, Gone, goside, disp, TypeOK, ClosersWait, Shut
<1>18. ASSUME NEW k \in Shut, Reap(k) PROVE ClosersWait'
  BY <1>18 DEF Reap, Goto, goside, disp, sidecar, TypeOK, ClosersWait, Shut
<1>19. ASSUME NEW k \in Shut, Remove(k) PROVE ClosersWait'
  BY <1>19 DEF Remove, Goto, goside, disp, pipes, sidecar, TypeOK,
    ClosersWait, Shut
<1>20. ASSUME NEW i \in Ids, Begin(i) PROVE ClosersWait'
  BY <1>20 DEF Begin, goside, caller, disp, TypeOK, ClosersWait, Shut
<1>21. ASSUME NEW i \in Ids, Settle(i) PROVE ClosersWait'
  BY <1>21 DEF Settle, goside, caller, disp, pipes, TypeOK, ClosersWait,
    Shut
<1>22. ASSUME Reply PROVE ClosersWait'
  BY <1>22 DEF Reply, goside, caller, disp, TypeOK, ClosersWait, Shut
<1>23. ASSUME Garble PROVE ClosersWait'
  BY <1>23 DEF Garble, goside, caller, disp, TypeOK, ClosersWait, Shut
<1>24. ASSUME Die PROVE ClosersWait'
  BY <1>24 DEF Die, Gone, goside, caller, disp, TypeOK, ClosersWait, Shut
<1>25. ASSUME UNCHANGED vars PROVE ClosersWait'
  BY <1>25 DEF vars, goside, caller, disp, pipes, sidecar, ClosersWait, Shut
<1>26. QED
  BY <1>1, <1>2, <1>3, <1>4, <1>5, <1>6, <1>7, <1>8, <1>9, <1>10, <1>11,
    <1>12, <1>13, <1>14, <1>15, <1>16, <1>17, <1>18, <1>19, <1>20, <1>21,
    <1>22, <1>23, <1>24, <1>25 DEF Next, InCall, Dispatch, InClose, Node

(* Every step leaves a Close that has begun in hand.                       *)
LEMMA CloseStep ==
  ASSUME TypeOK, ClosersWait, CloseInHand, [Next]_vars
  PROVE  CloseInHand'
<1>1. ASSUME Start PROVE CloseInHand'
  BY <1>1 DEF Start, caller, disp, TypeOK, ClosersWait, CloseInHand, Shut
<1>2. ASSUME Handshake PROVE CloseInHand'
  BY <1>2 DEF Handshake, caller, pipes, sidecar, TypeOK, CloseInHand, Shut
<1>3. ASSUME HandshakeFails PROVE CloseInHand'
  BY <1>3 DEF HandshakeFails, Goto, disp, pipes, sidecar, TypeOK,
    CloseInHand, Shut
<1>4. ASSUME GiveUp PROVE CloseInHand'
  BY <1>4 DEF GiveUp, caller, disp, pipes, sidecar, TypeOK, ClosersWait,
    CloseInHand, Shut
<1>5. ASSUME NEW c \in Callers, Call(c) PROVE CloseInHand'
  BY <1>5 DEF Call, Goto, goside, disp, pipes, sidecar, TypeOK, CloseInHand,
    Shut
<1>6. ASSUME NEW c \in Callers, Register(c) PROVE CloseInHand'
  BY <1>6 DEF Register, Goto, Return, disp, pipes, sidecar, TypeOK,
    CloseInHand, Shut
<1>7. ASSUME NEW c \in Callers, Write(c) PROVE CloseInHand'
  BY <1>7, Answers DEF Write, Goto, goside, disp, sidecar, TypeOK,
    CloseInHand, Shut
<1>8. ASSUME NEW c \in Callers, WriteFails(c) PROVE CloseInHand'
  BY <1>8 DEF WriteFails, Return, goside, disp, pipes, sidecar, TypeOK,
    CloseInHand, Shut
<1>9. ASSUME NEW c \in Callers, Receive(c) PROVE CloseInHand'
  BY <1>9, Answers DEF Receive, Return, disp, pipes, sidecar, TypeOK,
    CloseInHand, Shut
<1>10. ASSUME Route PROVE CloseInHand'
  BY <1>10 DEF Route, caller, sidecar, TypeOK, CloseInHand, Shut
<1>11. ASSUME Send PROVE CloseInHand'
  BY <1>11 DEF Send, caller, pipes, sidecar, TypeOK, CloseInHand, Shut
<1>12. ASSUME StreamEnds PROVE CloseInHand'
  BY <1>12 DEF StreamEnds, goside, caller, pipes, sidecar, TypeOK,
    CloseInHand, Shut
<1>13. ASSUME Sweep PROVE CloseInHand'
  BY <1>13 DEF Sweep, caller, pipes, sidecar, TypeOK, CloseInHand, Shut
<1>14. ASSUME NEW k \in Closers, Close(k) PROVE CloseInHand'
  BY <1>14 DEF Close, Goto, goside, disp, pipes, sidecar, TypeOK,
    CloseInHand, Shut
<1>15. ASSUME NEW k \in Shut, SetClosed(k) PROVE CloseInHand'
  BY <1>15 DEF SetClosed, Goto, disp, pipes, sidecar, TypeOK, CloseInHand,
    Shut
<1>16. ASSUME NEW k \in Shut, CloseStdin(k) PROVE CloseInHand'
  BY <1>16 DEF CloseStdin, Goto, goside, disp, sidecar, TypeOK, CloseInHand,
    Shut
<1>17. ASSUME NEW k \in Shut, Kill(k) PROVE CloseInHand'
  BY <1>17 DEF Kill, Goto, Gone, goside, disp, TypeOK, CloseInHand, Shut
<1>18. ASSUME NEW k \in Shut, Reap(k) PROVE CloseInHand'
  BY <1>18 DEF Reap, Goto, goside, disp, sidecar, TypeOK, CloseInHand, Shut
<1>19. ASSUME NEW k \in Shut, Remove(k) PROVE CloseInHand'
  BY <1>19 DEF Remove, Goto, goside, disp, pipes, sidecar, TypeOK,
    CloseInHand, Shut
<1>20. ASSUME NEW i \in Ids, Begin(i) PROVE CloseInHand'
  BY <1>20 DEF Begin, goside, caller, disp, TypeOK, CloseInHand, Shut
<1>21. ASSUME NEW i \in Ids, Settle(i) PROVE CloseInHand'
  BY <1>21 DEF Settle, goside, caller, disp, pipes, TypeOK, CloseInHand,
    Shut
<1>22. ASSUME Reply PROVE CloseInHand'
  BY <1>22 DEF Reply, goside, caller, disp, TypeOK, CloseInHand, Shut
<1>23. ASSUME Garble PROVE CloseInHand'
  BY <1>23 DEF Garble, goside, caller, disp, TypeOK, CloseInHand, Shut
<1>24. ASSUME Die PROVE CloseInHand'
  BY <1>24 DEF Die, Gone, goside, caller, disp, TypeOK, CloseInHand, Shut
<1>25. ASSUME UNCHANGED vars PROVE CloseInHand'
  BY <1>25 DEF vars, goside, caller, disp, pipes, sidecar, CloseInHand, Shut
<1>26. QED
  BY <1>1, <1>2, <1>3, <1>4, <1>5, <1>6, <1>7, <1>8, <1>9, <1>10, <1>11,
    <1>12, <1>13, <1>14, <1>15, <1>16, <1>17, <1>18, <1>19, <1>20, <1>21,
    <1>22, <1>23, <1>24, <1>25 DEF Next, InCall, Dispatch, InClose, Node

-----------------------------------------------------------------------------
(* The invariant holds before the host is started.                         *)
LEMMA Initially == Init => IInv
<1>1. SUFFICES ASSUME Init PROVE IInv
  OBVIOUS
<1>2. TypeOK
  <2>1. pc \in [Callers \union Shut -> CallerPCs \union CloserPCs]
    BY <1>1 DEF Init, CallerPCs, CloserPCs
  <2>2. /\ \A c \in Callers : pc[c] \in CallerPCs
        /\ \A k \in Shut : pc[k] \in CloserPCs
    BY <1>1, Answers DEF Init, CallerPCs, CloserPCs
  <2>3. nextID \in 0 .. MaxCalls /\ noise \in 0 .. MaxNoise
    BY <1>1, Answers DEF Init
  <2>4. out \in Seq(Ids \union {Noise})
    BY <1>1 DEF Init
  <2>5. id \in [Callers -> 0 .. MaxCalls]
    BY <1>1, Answers DEF Init
  <2>6. QED
    BY <1>1, <2>1, <2>2, <2>3, <2>4, <2>5 DEF Init, TypeOK
<1>3. Counted
  <2>1. Registering = {}
    BY <1>1 DEF Init, Registering
  <2>2. QED
    BY <1>1, <2>1, FS_EmptySet, Answers DEF Init, Counted
<1>4. Numbered /\ OwnAnswers /\ RightAnswer /\ DispatcherFree
  BY <1>1, Answers DEF Init, Numbered, OwnAnswers, RightAnswer,
    DispatcherFree
<1>5. ClosersWait /\ CloseInHand
  BY <1>1, Answers DEF Init, ClosersWait, CloseInHand, Shut
<1>6. QED
  BY <1>2, <1>3, <1>4, <1>5 DEF IInv

(* Every step keeps it.                                                    *)
LEMMA Inductive == IInv /\ [Next]_vars => IInv'
<1>1. SUFFICES ASSUME IInv, [Next]_vars PROVE IInv'
  OBVIOUS
<1>2. TypeOK' /\ Counted' /\ Numbered'
  BY <1>1, Types, CountedStep, NumberedStep DEF IInv
<1>3. OwnAnswers' /\ RightAnswer' /\ DispatcherFree'
  BY <1>1, OwnStep, RightStep, FreeStep DEF IInv
<1>4. ClosersWait' /\ CloseInHand'
  BY <1>1, ClosersStep, CloseStep DEF IInv
<1>5. QED
  BY <1>2, <1>3, <1>4 DEF IInv

(* The host keeps the invariant for as long as it runs.                    *)
THEOREM Invariance == Spec => []IInv
BY Initially, Inductive, PTL DEF Spec

(* The variables keep their types, whenever the sidecar dies and whoever   *)
(* closes the host.                                                        *)
THEOREM TypeCorrect == Spec => []TypeOK
<1>1. IInv => TypeOK
  BY DEF IInv
<1>2. QED
  BY <1>1, Invariance, PTL

(* A call returns the answer to itself (jsplugin.go, call and dispatch),   *)
(* in whatever order hooks settle and whatever calls failed before it.     *)
THEOREM Right == Spec => []RightAnswer
<1>1. IInv => RightAnswer
  BY DEF IInv
<1>2. QED
  BY <1>1, Invariance, PTL

(* The dispatcher finds room in every channel it sends to (jsplugin.go,    *)
(* dispatch), so that it never blocks with the mutex in its hands.         *)
THEOREM Free == Spec => []DispatcherFree
<1>1. IInv => DispatcherFree
  BY DEF IInv
<1>2. QED
  BY <1>1, Invariance, PTL

(* A host that could not be started, or that is closed, leaves no process  *)
(* and no file behind (jsplugin.go, Close and startNodePluginHost).        *)
THEOREM Nothing == Spec => []NothingLeft
<1>1. IInv => NothingLeft
  BY DEF IInv, CloseInHand, NothingLeft
<1>2. QED
  BY <1>1, Invariance, PTL

=============================================================================
