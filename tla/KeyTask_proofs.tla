--------------------------- MODULE KeyTask_proofs ---------------------------
(***************************************************************************)
(* What TLAPS proves of the process-keys task, for every matrix, hold      *)
(* time, tick width, queue length and set of keymaps.                      *)
(***************************************************************************)
EXTENDS KeyTask, SequenceTheorems, TLAPS

(* Reading the layer twice is safe as far as types go: whatever layer is   *)
(* current, known or not, enqueueing through it gives messages.            *)
LEMMA CurrentLayerTypes ==
  /\ CurrentLayer.on_hold_bound \in BOOLEAN
  /\ \A c \in EnqueueCall : LayerEnqueue(CurrentLayer, c.key, c.op, c.bae) \in Seq(QueueMessage)
<1>1. CASE layer \in DOMAIN Layers
  BY <1>1, LayersAssumption DEF CurrentLayer, EnqueueCall
<1>2. CASE layer \notin DOMAIN Layers
  <2>1. CurrentLayer = EmptyLayer
    BY <1>2 DEF CurrentLayer
  <2>2. EmptyLayer.on_hold_bound = FALSE /\ DOMAIN EmptyLayer.bindings = {}
    BY DEF EmptyLayer
  <2>3. \A k, op, bae : LayerEnqueue(EmptyLayer, k, op, bae) = << >>
    BY <2>2 DEF LayerEnqueue, Bound
  <2>4. \A k, op, bae : LayerEnqueue(CurrentLayer, k, op, bae) \in Seq(QueueMessage)
    <3>1. << >> \in Seq(QueueMessage)
      OBVIOUS
    <3> QED BY <2>1, <2>3, <3>1, Zenon
  <2>5. CurrentLayer.on_hold_bound \in BOOLEAN
    BY <2>1, <2>2
  <2> QED BY <2>4, <2>5, Zenon
<1> QED BY <1>1, <1>2

(* The calls a scan step leaves behind are well formed. *)
LEMMA CallTypes ==
  ASSUME TypeOK, keyPos \in Position,
         NEW op \in {"PRESS", "HOLD"}, NEW bae \in BoundActionEnqueue
  PROVE  Call(op, bae) \in EnqueueCall
BY DEF Call, EnqueueCall, KeyNumber

(* What every scan step does to the types: all but its decision. *)
LEMMA ScanTypes ==
  ASSUME TypeOK, NEW pc \in {"hold", "edge"}, Scan(pc),
         calls' \in Seq(EnqueueCall), timeouts' \in [Position -> Tick \cup {-1}],
         dos' \in [Position -> Nat]
  PROVE  TypeOK'
<1>1. keyPos \in Position /\ keyPos' = keyPos + 1
  BY DEF Scan
<1>2. keyPos' \in 1 .. NumPositions + 1
  BY <1>1, PollAssumption DEF Position
<1> QED BY <1>2 DEF Scan, TypeOK, PollTypeOK, pollVars

(* Polling and key movements leave well-formed snapshots in the queue.     *)
LEMMA PollTypes == ASSUME TypeOK, MatrixStep PROVE TypeOK'
<1>1. CASE PollStep
  <2>0. PICK d \in PollSteps, failed \in SUBSET FaultyHalves :
          \E garbage \in SUBSET (UNION failed) : Poll(d, failed, garbage)
    BY <1>1 DEF PollStep
  <2>1. PICK garbage \in SUBSET (UNION failed) : Poll(d, failed, garbage)
    BY <2>0
  <2> DEFINE key == [pressed |-> (matrix \ UNION failed) \cup garbage,
                     time |-> (ticks + d) % TickModulus]
  <2>2. UNION failed \subseteq Position
    BY PollAssumption
  <2>3. (ticks + d) % TickModulus \in Tick
    BY PollAssumption DEF TypeOK, PollTypeOK, Tick
  <2>4. key \in KeyMessage
    BY <2>2, <2>3 DEF KeyMessage, TypeOK, PollTypeOK
  <2>5. /\ keyQueue' = IF Len(keyQueue) < KeyQueueLength THEN Append(keyQueue, key) ELSE keyQueue
        /\ ticks' = key.time /\ matrix' = matrix
    BY <2>1 DEF Poll
  <2> HIDE DEF key
  <2>6. keyQueue' \in Seq(KeyMessage) /\ Len(keyQueue') <= KeyQueueLength
    <3>1. keyQueue \in Seq(KeyMessage) /\ Len(keyQueue) \in Nat /\ Len(keyQueue) <= KeyQueueLength
      BY LenProperties DEF TypeOK, PollTypeOK
    <3>2. /\ Append(keyQueue, key) \in Seq(KeyMessage)
          /\ Len(Append(keyQueue, key)) = Len(keyQueue) + 1
      BY <3>1, <2>4, AppendProperties
    <3> QED BY <3>1, <3>2, <2>5, PollAssumption
  <2>7. ticks' \in Tick
    BY <2>4, <2>5 DEF KeyMessage
  <2> QED BY <2>5, <2>6, <2>7 DEF MatrixStep, TypeOK, PollTypeOK
<1>2. ASSUME NEW p \in Position, KeyMoves(p) PROVE TypeOK'
  BY <1>2 DEF MatrixStep, KeyMoves, TypeOK, PollTypeOK
<1> QED BY <1>1, <1>2 DEF MatrixStep
-----------------------------------------------------------------------------
(* Every variable keeps its type. *)
THEOREM KeyTypeCorrect == Spec => []TypeOK
<1>1. Init => TypeOK
  BY PollAssumption, KeyTaskAssumption
     DEF Init, PollInit, TypeOK, PollTypeOK, Tick, Position
<1>2. TypeOK /\ [Next]_vars => TypeOK'
  <2> SUFFICES ASSUME TypeOK, [Next]_vars PROVE TypeOK'
    OBVIOUS
  <2>1. CASE Receive
    <3>1. /\ Head(keyQueue) \in KeyMessage /\ Tail(keyQueue) \in Seq(KeyMessage)
          /\ Len(Tail(keyQueue)) = Len(keyQueue) - 1 /\ Len(keyQueue) \in Nat
      BY <2>1, HeadTailProperties, LenProperties DEF Receive, TypeOK, PollTypeOK
    <3>2. now' \in Tick /\ current' \in SUBSET Position
      BY <2>1, <3>1 DEF Receive, KeyMessage
    <3>3. keyQueue' \in Seq(KeyMessage) /\ Len(keyQueue') <= KeyQueueLength
      BY <2>1, <3>1, PollAssumption DEF Receive, TypeOK, PollTypeOK
    <3>4. keyPos' \in 1 .. NumPositions + 1
      BY <2>1, PollAssumption DEF Receive
    <3> QED BY <2>1, <3>2, <3>3, <3>4 DEF Receive, TypeOK, PollTypeOK
  <2>2. CASE HoldFires
    <3>1. keyPos \in Position
      BY <2>2 DEF HoldFires, Scan
    <3>2. calls' \in Seq(EnqueueCall)
      BY <2>2, <3>1, CallTypes DEF HoldFires, BoundActionEnqueue
    <3>3. timeouts' \in [Position -> Tick \cup {-1}] /\ dos' \in [Position -> Nat]
      BY <2>2, <3>1 DEF HoldFires, TypeOK
    <3> QED BY <2>2, <3>2, <3>3, ScanTypes DEF HoldFires
  <2>3. CASE HoldSkips
    BY <2>3, ScanTypes DEF HoldSkips, TypeOK
  <2>4. CASE HoldDone \/ EdgeDone
    BY <2>4, PollAssumption DEF HoldDone, EdgeDone, TypeOK, PollTypeOK, pollVars
  <2>5. CASE NoEdge
    BY <2>5, ScanTypes DEF NoEdge, TypeOK
  <2>6. CASE HoldLayerPress
    <3>1. timeouts' \in [Position -> Tick \cup {-1}] /\ dos' \in [Position -> Nat]
      BY <2>6 DEF HoldLayerPress, TypeOK
    <3> QED BY <2>6, <3>1, ScanTypes DEF HoldLayerPress, TypeOK
  <2>7. CASE HoldLayerTap
    <3>1. keyPos \in Position
      BY <2>7 DEF HoldLayerTap, Scan
    <3>2. calls' \in Seq(EnqueueCall)
      BY <2>7, <3>1, CallTypes DEF HoldLayerTap, BoundActionEnqueue
    <3>3. timeouts' \in [Position -> Tick \cup {-1}] /\ dos' \in [Position -> Nat]
      BY <2>7, <3>1 DEF HoldLayerTap, TypeOK
    <3> QED BY <2>7, <3>2, <3>3, ScanTypes DEF HoldLayerTap
  <2>8. CASE HoldLayerRelease
    <3>1. keyPos \in Position
      BY <2>8 DEF HoldLayerRelease, Scan
    <3>2. calls' \in Seq(EnqueueCall)
      BY <2>8, <3>1, CallTypes DEF HoldLayerRelease, BoundActionEnqueue
    <3>3. timeouts' \in [Position -> Tick \cup {-1}] /\ dos' \in [Position -> Nat]
      BY <2>8, <3>1 DEF HoldLayerRelease, TypeOK
    <3> QED BY <2>8, <3>2, <3>3, ScanTypes DEF HoldLayerRelease
  <2>9. CASE PlainPress
    <3>1. keyPos \in Position
      BY <2>9 DEF PlainPress, Scan
    <3>2. calls' \in Seq(EnqueueCall)
      BY <2>9, <3>1, CallTypes DEF PlainPress, BoundActionEnqueue
    <3>3. timeouts' \in [Position -> Tick \cup {-1}] /\ dos' \in [Position -> Nat]
      BY <2>9, <3>1 DEF PlainPress, TypeOK
    <3> QED BY <2>9, <3>2, <3>3, ScanTypes DEF PlainPress
  <2>10. CASE PlainRelease
    <3>1. keyPos \in Position
      BY <2>10 DEF PlainRelease, Scan
    <3>2. calls' \in Seq(EnqueueCall)
      BY <2>10, <3>1, CallTypes DEF PlainRelease, BoundActionEnqueue
    <3> QED BY <2>10, <3>2, ScanTypes DEF PlainRelease, TypeOK
  <2>11. CASE EnqueueStart
    <3>1. Head(calls) \in EnqueueCall /\ Tail(calls) \in Seq(EnqueueCall)
      BY <2>11, HeadTailProperties DEF EnqueueStart, TypeOK
    <3>2. sends' \in Seq(QueueMessage)
      BY <2>11, <3>1, CurrentLayerTypes DEF EnqueueStart
    <3> QED BY <2>11, <3>1, <3>2 DEF EnqueueStart, TypeOK, PollTypeOK, pollVars
  <2>12. CASE Send
    <3>1. Head(sends) \in QueueMessage /\ Tail(sends) \in Seq(QueueMessage)
      BY <2>12, HeadTailProperties DEF Send, TypeOK
    <3>2. /\ eventQueue' \in Seq(QueueMessage) /\ Len(eventQueue) \in Nat
          /\ Len(eventQueue') = Len(eventQueue) + 1
      BY <2>12, <3>1, AppendProperties, LenProperties DEF Send, TypeOK
    <3>3. Len(eventQueue') <= EventQueueLength
      BY <2>12, <3>2, KeyTaskAssumption DEF Send, HasRoom
    <3> QED BY <2>12, <3>1, <3>2, <3>3 DEF Send, TypeOK, PollTypeOK, pollVars
  <2>13. CASE SendTimeout
    <3>1. Tail(sends) \in Seq(QueueMessage)
      BY <2>13, HeadTailProperties DEF SendTimeout, TypeOK
    <3> QED BY <2>13, <3>1 DEF SendTimeout, TypeOK, PollTypeOK, pollVars
  <2>14. CASE MatrixStep
    BY <2>14, PollTypes
  <2>15. CASE Consumed
    <3>1. /\ Head(eventQueue) \in QueueMessage /\ Tail(eventQueue) \in Seq(QueueMessage)
          /\ Len(Tail(eventQueue)) = Len(eventQueue) - 1 /\ Len(eventQueue) \in Nat
      BY <2>15, HeadTailProperties, LenProperties DEF Consumed, TypeOK
    <3>2. Len(eventQueue') <= EventQueueLength
      BY <2>15, <3>1, KeyTaskAssumption DEF Consumed, TypeOK
    <3>3. Head(eventQueue).type = "LAYER_SWITCH" => Head(eventQueue).layer \in LayerIds
      BY <3>1 DEF QueueMessage, KeyEvent, ButtonEvent, LayerEvent, PlainEvent, MotionType
    <3> QED BY <2>15, <3>1, <3>2, <3>3 DEF Consumed, TypeOK, PollTypeOK, keyVars
  <2>16. CASE Restarted
    BY <2>16, PollAssumption, KeyTaskAssumption
       DEF Restarted, TypeOK, PollTypeOK, Tick, Position
  <2>17. CASE UNCHANGED vars
    BY <2>17 DEF vars, keyVars, TypeOK, PollTypeOK
  <2> QED
    BY <2>1, <2>2, <2>3, <2>4, <2>5, <2>6, <2>7, <2>8, <2>9, <2>10, <2>11, <2>12, <2>13,
       <2>14, <2>15, <2>16, <2>17 DEF Next, KeyStep, EdgeScan
<1> QED BY <1>1, <1>2, PTL DEF Spec
-----------------------------------------------------------------------------
(* What is added to make the two claims about timers inductive: where no   *)
(* keymap has a hold binding no timer ever runs.                           *)
TimersUnused == PlainKeymaps => \A p \in Position : timeouts[p] = -1

KeyInv == TimersOfDownKeys /\ OneDoPerPress /\ TimersUnused

(* A scan step moves one key to where the snapshot has it. *)
LEMMA DownAfterEdge ==
  ASSUME TypeOK, Scan("edge")
  PROVE  Down' = IF keyPos \in current THEN Down \cup {keyPos} ELSE Down \ {keyPos}
<1>1. /\ keyPc = "edge" /\ keyPc' = "edge" /\ keyPos' = keyPos + 1
      /\ current' = current /\ previous' = previous /\ keyPos \in Position
  BY DEF Scan, At
<1>2. \A p \in Position : /\ p < keyPos + 1 <=> p < keyPos \/ p = keyPos
                          /\ p >= keyPos + 1 <=> p >= keyPos /\ p # keyPos
  BY <1>1, PollAssumption DEF Position
<1>3. current \subseteq Position /\ previous \subseteq Position
  BY DEF TypeOK
<1>4. /\ Down  = {p \in current : p < keyPos} \cup {p \in previous : p >= keyPos}
      /\ Down' = {p \in current : p < keyPos + 1} \cup {p \in previous : p >= keyPos + 1}
  BY <1>1 DEF Down
<1>5. keyPos >= keyPos /\ ~ (keyPos < keyPos)
  BY <1>1, PollAssumption DEF Position
<1> QED BY <1>1, <1>2, <1>3, <1>4, <1>5

(* Between the scans, and from one snapshot to the next, none moves. *)
LEMMA DownBetween == ASSUME TypeOK, HoldDone \/ EdgeDone \/ Receive PROVE Down' = Down
<1>1. current \subseteq Position /\ previous \subseteq Position
      /\ \A p \in Position : p < NumPositions + 1 /\ ~ (p >= NumPositions + 1)
                             /\ p >= 1 /\ ~ (p < 1)
  BY PollAssumption DEF TypeOK, Position
<1>2. CASE HoldDone
  BY <1>1, <1>2 DEF HoldDone, At, Down
<1>3. CASE EdgeDone
  BY <1>1, <1>3 DEF EdgeDone, At, Down
<1>4. CASE Receive
  BY <1>4 DEF Receive, At, Down
<1> QED BY <1>2, <1>3, <1>4

(* Where all keymaps have hold bindings, or none, every step keeps the     *)
(* timers with the keys that are down and counts no press twice.           *)
LEMMA KeyInvStep ==
  ASSUME UniformLayers, TypeOK, KeyInv, [Next]_vars
  PROVE  KeyInv'
<1> USE DEF KeyInv, TimersOfDownKeys, OneDoPerPress, TimersUnused
<1>1. HoldKeymaps => CurrentLayer.on_hold_bound
  BY DEF HoldKeymaps, CurrentLayer, TypeOK
<1>2. PlainKeymaps => ~ CurrentLayer.on_hold_bound
  BY DEF PlainKeymaps, CurrentLayer, EmptyLayer
<1>3. /\ timeouts \in [Position -> Tick \cup {-1}] /\ dos \in [Position -> Nat]
      /\ \A t \in Tick : t # -1
  BY PollAssumption DEF TypeOK, Tick
<1>4. CASE HoldFires
  <2>1. keyPos \in Position /\ timeouts[keyPos] # -1 /\ Down' = Down
    BY <1>4 DEF HoldFires, HoldDue, Scan, At, Down
  <2>2. /\ timeouts' = [timeouts EXCEPT ![keyPos] = -1]
        /\ dos' = [dos EXCEPT ![keyPos] = @ + 1]
    BY <1>4 DEF HoldFires
  <2> QED BY <1>3, <2>1, <2>2
<1>5. CASE HoldSkips
  BY <1>5 DEF HoldSkips, Scan, At, Down
<1>6. CASE HoldDone \/ EdgeDone \/ Receive
  BY <1>6, DownBetween DEF HoldDone, EdgeDone, Receive
<1>7. CASE NoEdge
  <2>1. Scan("edge") /\ timeouts' = timeouts /\ dos' = dos /\ keyPos \in Position
    BY <1>7 DEF NoEdge, Scan
  <2>2. keyPos \in Down <=> keyPos \in previous
    BY <2>1, PollAssumption DEF Down, Scan, At, Position
  <2>3. keyPos \in current <=> keyPos \in previous
    BY <1>7 DEF NoEdge, Pressed, Released
  <2> QED BY <2>1, <2>2, <2>3, DownAfterEdge
<1>8. CASE HoldLayerPress
  <2>1. /\ Scan("edge") /\ keyPos \in Position /\ keyPos \in current
        /\ timeouts' = [timeouts EXCEPT ![keyPos] = now] /\ dos' = [dos EXCEPT ![keyPos] = 0]
        /\ CurrentLayer.on_hold_bound
    BY <1>8 DEF HoldLayerPress, Pressed, Scan
  <2>2. Down' = Down \cup {keyPos}
    BY <2>1, DownAfterEdge
  <2> QED BY <1>2, <1>3, <2>1, <2>2
<1>9. CASE HoldLayerTap
  <2>1. /\ Scan("edge") /\ keyPos \in Position /\ keyPos \notin current
        /\ timeouts[keyPos] # -1
        /\ timeouts' = [timeouts EXCEPT ![keyPos] = -1] /\ dos' = [dos EXCEPT ![keyPos] = @ + 1]
    BY <1>9 DEF HoldLayerTap, Released, Tapped, Scan
  <2>2. Down' = Down \ {keyPos}
    BY <2>1, DownAfterEdge
  <2> QED BY <1>3, <2>1, <2>2
<1>10. CASE HoldLayerRelease
  <2>1. /\ Scan("edge") /\ keyPos \in Position /\ keyPos \notin current
        /\ timeouts' = [timeouts EXCEPT ![keyPos] = -1] /\ dos' = dos
    BY <1>10 DEF HoldLayerRelease, Released, Scan
  <2>2. Down' = Down \ {keyPos}
    BY <2>1, DownAfterEdge
  <2> QED BY <1>3, <2>1, <2>2
<1>11. CASE PlainPress
  <2>1. /\ Scan("edge") /\ keyPos \in Position /\ timeouts' = timeouts
        /\ dos' = [dos EXCEPT ![keyPos] = 1] /\ ~ CurrentLayer.on_hold_bound
    BY <1>11 DEF PlainPress, Scan
  <2>2. \A p \in Position : timeouts[p] = -1
    BY <1>1, <2>1 DEF UniformLayers
  <2> QED BY <1>3, <2>1, <2>2
<1>12. CASE PlainRelease
  <2>1. timeouts' = timeouts /\ dos' = dos /\ ~ CurrentLayer.on_hold_bound
    BY <1>12 DEF PlainRelease
  <2>2. \A p \in Position : timeouts[p] = -1
    BY <1>1, <2>1 DEF UniformLayers
  <2> QED BY <1>3, <2>1, <2>2
<1>13. CASE EnqueueStart \/ Send \/ SendTimeout \/ MatrixStep \/ Consumed \/ UNCHANGED vars
  BY <1>13 DEF EnqueueStart, Send, SendTimeout, MatrixStep, Consumed, vars, keyVars, Down
<1>14. CASE Restarted
  BY <1>14 DEF Restarted
<1> QED BY <1>4, <1>5, <1>6, <1>7, <1>8, <1>9, <1>10, <1>11, <1>12, <1>13, <1>14
        DEF Next, KeyStep, EdgeScan

(* Where all keymaps have hold bindings, or none, a hold timer runs only   *)
(* for a key that is down.                                                 *)
THEOREM TimersCorrect == UniformLayers => (Spec => []TimersOfDownKeys)
<1> SUFFICES ASSUME UniformLayers PROVE Spec => []TimersOfDownKeys
  OBVIOUS
<1>1. Init => KeyInv
  BY DEF Init, KeyInv, TimersOfDownKeys, OneDoPerPress, TimersUnused
<1>2. TypeOK /\ KeyInv /\ [Next]_vars => KeyInv'
  BY KeyInvStep
<1>3. KeyInv => TimersOfDownKeys
  BY DEF KeyInv
<1> QED BY <1>1, <1>2, <1>3, KeyTypeCorrect, PTL DEF Spec

(* There no press of a key ever counts twice. *)
THEOREM PressCountsOnce == UniformLayers => (Spec => []OneDoPerPress)
<1> SUFFICES ASSUME UniformLayers PROVE Spec => []OneDoPerPress
  OBVIOUS
<1>1. Init => KeyInv
  BY DEF Init, KeyInv, TimersOfDownKeys, OneDoPerPress, TimersUnused
<1>2. TypeOK /\ KeyInv /\ [Next]_vars => KeyInv'
  BY KeyInvStep
<1>3. KeyInv => OneDoPerPress
  BY DEF KeyInv
<1> QED BY <1>1, <1>2, <1>3, KeyTypeCorrect, PTL DEF Spec

(* Nor does a hold fire for a key that is no longer down. *)
THEOREM HoldNeedsKeyDown == UniformLayers => (Spec => HoldOnlyWhileDown)
<1> SUFFICES ASSUME UniformLayers PROVE Spec => HoldOnlyWhileDown
  OBVIOUS
<1>1. TimersOfDownKeys /\ [Next]_vars => [HoldFires => keyPos \in previous]_vars
  BY DEF TimersOfDownKeys, HoldFires, HoldDue, Scan, At, Down
<1> QED BY <1>1, TimersCorrect, PTL DEF Spec, HoldOnlyWhileDown
-----------------------------------------------------------------------------
(* A key that is down and has no timer has been answered; and once the     *)
(* first scan has passed a key, its timer is within the hold time.         *)
Answered == \A p \in Down : timeouts[p] = -1 => dos[p] >= 1
HoldsTaken ==
  keyPc # "receive" =>
    \A p \in Position :
      (keyPc = "edge" \/ p < keyPos) /\ Answerable(p) /\ timeouts[p] # -1 => Since(p) <= Hold

(* Where all keymaps have hold bindings, or none, every step keeps it so.  *)
LEMMA AnsweredStep ==
  ASSUME UniformLayers, TypeOK, KeyInv, Answered, HoldsTaken, [Next]_vars
  PROVE  Answered' /\ HoldsTaken'
<1>. USE DEF Answered, HoldsTaken, Since
<1>1. HoldKeymaps => CurrentLayer.on_hold_bound /\ CurrentLayer = Layers[layer] /\ layer \in DOMAIN Layers
  BY DEF HoldKeymaps, CurrentLayer, TypeOK
<1>2. PlainKeymaps => ~ CurrentLayer.on_hold_bound /\ \A p \in Position : timeouts[p] = -1
  BY DEF PlainKeymaps, CurrentLayer, EmptyLayer, KeyInv, TimersUnused
<1>3. /\ timeouts \in [Position -> Tick \cup {-1}] /\ dos \in [Position -> Nat]
      /\ now \in Tick /\ keyPos \in Int /\ Tick \subseteq Int /\ Hold \in Nat
      /\ \A t \in Tick : t # -1
      /\ Position \subseteq Int /\ Down \subseteq Position
  <2>1. Position \subseteq Int /\ Tick \subseteq Int /\ Hold \in Nat /\ \A t \in Tick : t # -1
    BY PollAssumption, KeyTaskAssumption DEF Tick, Position
  <2>2. Down \subseteq Position
    BY DEF TypeOK, Down
  <2>3. keyPos \in Int
    BY PollAssumption DEF TypeOK
  <2>. QED  BY <2>1, <2>2, <2>3 DEF TypeOK
<1>4. \A p \in Position : Answerable(p)' = Answerable(p)
  BY DEF Answerable
<1>5. CASE HoldFires
  <2>1. keyPos \in Position /\ Down' = Down /\ keyPc = "hold" /\ UNCHANGED <<keyPc, now>> /\ keyPos' = keyPos + 1
    BY <1>5 DEF HoldFires, Scan, At, Down
  <2>2. /\ timeouts' = [timeouts EXCEPT ![keyPos] = -1]
        /\ dos' = [dos EXCEPT ![keyPos] = @ + 1]
    BY <1>5 DEF HoldFires
  <2>. QED  BY <1>3, <1>4, <2>1, <2>2
<1>6. CASE HoldSkips
  <2>1. /\ keyPos \in Position /\ Down' = Down /\ keyPc = "hold" /\ UNCHANGED <<keyPc, now, timeouts, dos>>
        /\ keyPos' = keyPos + 1 /\ ~ HoldDue
    BY <1>6 DEF HoldSkips, Scan, At, Down
  <2>2. Answerable(keyPos) /\ timeouts[keyPos] # -1 => now - timeouts[keyPos] <= Hold
    <3>. SUFFICES ASSUME Answerable(keyPos), timeouts[keyPos] # -1 PROVE now - timeouts[keyPos] <= Hold
      OBVIOUS
    <3>1. Bound(CurrentLayer, keys[keyPos], "HOLD")
      BY <1>1, <1>2, <2>1 DEF UniformLayers, Answerable
    <3>2. ~ (now - timeouts[keyPos] > Hold)
      BY <2>1, <3>1 DEF HoldDue
    <3>3. timeouts[keyPos] \in Tick
      BY <1>3, <2>1
    <3>4. timeouts[keyPos] \in Int /\ now \in Int /\ Hold \in Int
      BY <3>3, PollAssumption, KeyTaskAssumption DEF TypeOK, Tick
    <3>. QED  BY <3>2, <3>4
  <2>3. \A p \in Position : p < keyPos + 1 <=> p < keyPos \/ p = keyPos
    BY <1>3
  <2>. QED  BY <1>4, <2>1, <2>2, <2>3
<1>7. CASE HoldDone \/ EdgeDone \/ Receive
  <2>1. Down' = Down /\ UNCHANGED <<timeouts, dos>>
    BY <1>7, DownBetween DEF HoldDone, EdgeDone, Receive
  <2>2. \A p \in Position : p < NumPositions + 1 /\ ~ (p < 1)
    BY PollAssumption DEF Position
  <2>. QED  BY <1>4, <1>7, <2>1, <2>2 DEF HoldDone, EdgeDone, Receive, At
<1>8. ASSUME Scan("edge"),
             NEW t \in Tick \cup {-1}, timeouts' = [timeouts EXCEPT ![keyPos] = t],
             t # -1 /\ ~ (t = timeouts[keyPos]) => t = now,
             keyPos \in current => t # -1 \/ dos'[keyPos] >= 1,
             \A p \in Position : p # keyPos => dos'[p] = dos[p]
      PROVE  Answered' /\ HoldsTaken'
  <2>1. keyPos \in Position /\ keyPc = "edge" /\ UNCHANGED <<keyPc, now>>
    BY <1>8 DEF Scan, At
  <2>2. Down' = IF keyPos \in current THEN Down \cup {keyPos} ELSE Down \ {keyPos}
    BY <1>8, DownAfterEdge
  <2>3. Answered'
    BY <1>3, <1>8, <2>1, <2>2
  <2>4. HoldsTaken'
    BY <1>3, <1>4, <1>8, <2>1
  <2>. QED  BY <2>3, <2>4
<1>9. CASE NoEdge
  <2>1. Scan("edge") /\ keyPos \in Position /\ UNCHANGED <<timeouts, dos>>
    BY <1>9 DEF NoEdge, Scan
  <2>2. keyPos \in current => keyPos \in Down
    BY <1>9, <2>1, PollAssumption DEF NoEdge, Pressed, Down, Scan, At, Position
  <2>3. timeouts' = [timeouts EXCEPT ![keyPos] = timeouts[keyPos]]
    BY <1>3, <2>1
  <2>. QED  BY <1>3, <1>8, <2>1, <2>2, <2>3
<1>10. CASE HoldLayerPress
  BY <1>3, <1>8, <1>10 DEF HoldLayerPress, Scan
<1>11. CASE HoldLayerTap \/ HoldLayerRelease
  <2>1. Scan("edge") /\ keyPos \notin current /\ timeouts' = [timeouts EXCEPT ![keyPos] = -1]
        /\ \A p \in Position : p # keyPos => dos'[p] = dos[p]
    BY <1>3, <1>11 DEF HoldLayerTap, HoldLayerRelease, Released
  <2>. QED  BY <1>8, <2>1
<1>12. CASE PlainPress \/ PlainRelease
  <2>1. /\ Scan("edge") /\ keyPos \in Position /\ timeouts' = timeouts /\ (keyPos \in current => dos'[keyPos] >= 1)
        /\ \A p \in Position : p # keyPos => dos'[p] = dos[p]
    BY <1>3, <1>12 DEF PlainPress, PlainRelease, Released, Scan
  <2>2. timeouts' = [timeouts EXCEPT ![keyPos] = timeouts[keyPos]]
    BY <1>3, <2>1
  <2>. QED  BY <1>3, <1>8, <2>1, <2>2
<1>13. CASE EnqueueStart \/ Send \/ SendTimeout \/ MatrixStep \/ Consumed \/ UNCHANGED vars
  <2>1. UNCHANGED <<keyPc, keyPos, current, previous, now, timeouts, dos>>
    BY <1>13 DEF EnqueueStart, Send, SendTimeout, MatrixStep, Consumed, vars, keyVars
  <2>. QED  BY <1>4, <2>1 DEF Down
<1>14. CASE Restarted
  BY <1>14 DEF Restarted, Down
<1>. QED  BY <1>5, <1>6, <1>7, <1>9, <1>10, <1>11, <1>12, <1>13, <1>14 DEF Next, KeyStep, EdgeScan

(* A key leaves Down while the second scan is at it, and then it has been  *)
(* answered, unless it was down for exactly the hold time.                 *)
LEMMA ReleaseAnswered ==
  ASSUME UniformLayers, TypeOK, KeyInv, Answered, HoldsTaken, [Next]_vars,
         NEW p \in Position, p \in Down, p \notin Down', keyPc' = "edge",
         Answerable(p), timeouts[p] # -1 => Since(p) # Hold
  PROVE  dos'[p] >= 1
<1>1. HoldKeymaps => CurrentLayer.on_hold_bound
  BY DEF HoldKeymaps, CurrentLayer, TypeOK
<1>2. PlainKeymaps => ~ CurrentLayer.on_hold_bound /\ \A q \in Position : timeouts[q] = -1
  BY DEF PlainKeymaps, CurrentLayer, EmptyLayer, KeyInv, TimersUnused
<1>3. /\ timeouts \in [Position -> Tick \cup {-1}] /\ dos \in [Position -> Nat]
      /\ now \in Tick /\ Tick \subseteq Int /\ Hold \in Nat
  BY PollAssumption, KeyTaskAssumption DEF TypeOK, Tick
<1>4. ASSUME Scan("edge")  PROVE p = keyPos /\ keyPos \notin current
  BY <1>4, DownAfterEdge
<1>5. CASE HoldLayerTap
  BY <1>3, <1>4, <1>5 DEF HoldLayerTap, Released
<1>6. CASE HoldLayerRelease
  <2>1. p = keyPos /\ keyPc = "edge" /\ dos' = dos /\ ~ Tapped
    BY <1>4, <1>6 DEF HoldLayerRelease, Scan, At
  <2>2. timeouts[p] # -1 => Since(p) <= Hold
    BY <2>1 DEF HoldsTaken
  <2>3. timeouts[p] = -1
    <3>. SUFFICES ASSUME timeouts[p] # -1 PROVE FALSE
      OBVIOUS
    <3>1. timeouts[p] \in Tick
      BY <1>3
    <3>2. timeouts[p] \in Int /\ now \in Int /\ Hold \in Int
      BY <3>1, PollAssumption, KeyTaskAssumption DEF TypeOK, Tick
    <3>3. now - timeouts[p] <= Hold /\ now - timeouts[p] # Hold /\ ~ (now - timeouts[p] < Hold)
      BY <2>1, <2>2 DEF Tapped, Since
    <3>. QED  BY <3>2, <3>3
  <2>. QED  BY <2>1, <2>3 DEF Answered
<1>7. CASE PlainRelease
  <2>1. dos' = dos /\ timeouts[p] = -1
    BY <1>1, <1>2, <1>7 DEF PlainRelease, UniformLayers
  <2>. QED  BY <2>1 DEF Answered
<1>8. CASE NoEdge \/ HoldLayerPress \/ PlainPress
  <2>1. Scan("edge") /\ keyPos \in Position /\ (keyPos \in current \/ keyPos \notin previous)
    BY <1>8 DEF NoEdge, HoldLayerPress, PlainPress, Pressed, Released, Scan
  <2>2. p = keyPos /\ keyPos \notin previous
    BY <1>4, <2>1
  <2>. QED  BY <2>1, <2>2, PollAssumption DEF Down, Scan, At, Position
<1>9. CASE HoldFires \/ HoldSkips \/ EnqueueStart \/ Send \/ SendTimeout \/ MatrixStep \/ Consumed \/ UNCHANGED vars
  BY <1>9 DEF HoldFires, HoldSkips, Scan, At, EnqueueStart, Send, SendTimeout, MatrixStep, Consumed, vars, keyVars, Down
<1>10. CASE HoldDone \/ EdgeDone \/ Receive
  BY <1>10, DownBetween
<1>11. CASE Restarted
  BY <1>11 DEF Restarted
<1>. QED  BY <1>5, <1>6, <1>7, <1>8, <1>9, <1>10, <1>11 DEF Next, KeyStep, EdgeScan

(* There every key that comes up has been answered, as a tap or as a hold, *)
(* but for the press of exactly the hold time: no layer change, delay of   *)
(* the scan or wrap of the tick count loses another.                       *)
THEOREM PressIsAnswered == UniformLayers => (Spec => EveryPressCounts)
<1>. SUFFICES ASSUME UniformLayers PROVE Spec => EveryPressCounts
  OBVIOUS
<1>. DEFINE Inv == KeyInv /\ Answered /\ HoldsTaken
            Counts == \A p \in Position :
                        /\ p \in Down /\ p \notin Down' /\ keyPc' = "edge"
                        /\ Answerable(p) /\ (timeouts[p] # -1 => Since(p) # Hold)
                        => dos'[p] >= 1
<1>1. Init => Inv
  BY DEF Init, KeyInv, TimersOfDownKeys, OneDoPerPress, TimersUnused, Answered, HoldsTaken, Down
<1>2. TypeOK /\ Inv /\ [Next]_vars => Inv'
  BY KeyInvStep, AnsweredStep
<1>3. TypeOK /\ Inv /\ [Next]_vars => [Counts]_vars
  BY ReleaseAnswered
<1>. HIDE DEF Inv
<1>4. Spec => [][Counts]_vars
  BY <1>1, <1>2, <1>3, KeyTypeCorrect, PTL DEF Spec
<1>. QED  BY <1>4 DEF EveryPressCounts
=============================================================================
