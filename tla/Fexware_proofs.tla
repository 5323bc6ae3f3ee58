--------------------------- MODULE Fexware_proofs ---------------------------
(***************************************************************************)
(* Proofs about the running firmware, for every matrix, set of keymaps and *)
(* queue length: inside it the usb-hid task and the keyboard side do what  *)
(* the modules about them say, so that the theorems about the parts are    *)
(* theorems about the whole.                                               *)
(***************************************************************************)
EXTENDS Fexware, SequenceTheorems, TLAPS

(* What is proved of the tasks, about the tasks of this firmware. *)
HP == INSTANCE HidTask_proofs WITH EventMessages <- Sendable
KP == INSTANCE KeyTask_proofs

(* A binding sends messages, and by definition sendable ones. *)
LEMMA BindingSends ==
  /\ Sendable \subseteq QueueMessage
  /\ \A l \in DOMAIN Layers, k \in Key!KeyNumber, op \in {"PRESS", "HOLD"},
        bae \in Key!BoundActionEnqueue :
       Key!LayerEnqueue(Layers[l], k, op, bae) \in Seq(Sendable)
<1>1. \A s \in Seq(QueueMessage) : Key!ToSet(s) \subseteq QueueMessage
  BY DEF Key!ToSet
<1>2. Sendable \subseteq QueueMessage
  BY <1>1, KeymapsAssumption DEF Sendable
<1>3. ASSUME NEW s \in Seq(QueueMessage), Key!ToSet(s) \subseteq Sendable  PROVE s \in Seq(Sendable)
  <2>1. \A i \in 1 .. Len(s) : s[i] \in Sendable
    BY <1>3 DEF Key!ToSet
  <2>2. s \in [1 .. Len(s) -> Sendable] /\ Len(s) \in Nat
    BY <2>1
  <2>. QED  BY <2>2
<1>4. ASSUME NEW l \in DOMAIN Layers, NEW k \in Key!KeyNumber, NEW op \in {"PRESS", "HOLD"},
             NEW bae \in Key!BoundActionEnqueue
      PROVE  Key!LayerEnqueue(Layers[l], k, op, bae) \in Seq(Sendable)
  <2>1. Key!ToSet(Key!LayerEnqueue(Layers[l], k, op, bae)) \subseteq Sendable
    BY DEF Sendable
  <2>. QED  BY <1>3, <2>1, KeymapsAssumption
<1>. QED  BY <1>2, <1>4

(* All that is on its way to the event queue was asked for by a binding. *)
SendsSendable == calls \in Seq(Key!EnqueueCall) /\ sends \in Seq(Sendable)

(* Whatever layer is current, known or not, enqueueing through it sends    *)
(* what some binding sends.                                                *)
LEMMA CurrentSendable ==
  ASSUME NEW c \in Key!EnqueueCall
  PROVE  Key!LayerEnqueue(Key!CurrentLayer, c.key, c.op, c.bae) \in Seq(Sendable)
<1>1. c.key \in Key!KeyNumber /\ c.op \in {"PRESS", "HOLD"} /\ c.bae \in Key!BoundActionEnqueue
  BY DEF Key!EnqueueCall
<1>2. CASE layer \in DOMAIN Layers
  <2>1. Key!CurrentLayer = Layers[layer]
    BY <1>2 DEF Key!CurrentLayer
  <2>. QED  BY <1>1, <1>2, <2>1, BindingSends
<1>3. CASE layer \notin DOMAIN Layers
  <2>1. Key!CurrentLayer = Key!EmptyLayer
    BY <1>3 DEF Key!CurrentLayer
  <2>2. DOMAIN Key!EmptyLayer.bindings = {}
    BY DEF Key!EmptyLayer
  <2>3. Key!LayerEnqueue(Key!EmptyLayer, c.key, c.op, c.bae) = << >>
    BY <2>2 DEF Key!LayerEnqueue, Key!Bound
  <2>. QED  BY <2>1, <2>3
<1>. QED  BY <1>2, <1>3

(* The calls of a scan step are well formed. *)
LEMMA ScanCalls ==
  ASSUME NEW pc, Key!Scan(pc), NEW op \in {"PRESS", "HOLD"}, NEW bae \in Key!BoundActionEnqueue
  PROVE  Key!Call(op, bae) \in Key!EnqueueCall
BY DEF Key!Scan, Key!Call, Key!EnqueueCall, Key!KeyNumber, Key!Position

(* A step of the process-keys task keeps its calls and messages so, and    *)
(* puts in the queue at most one of them.                                  *)
LEMMA KeyStepSends ==
  ASSUME SendsSendable, Key!KeyStep
  PROVE  /\ SendsSendable' /\ layer' = layer
         /\ \/ eventQueue' = eventQueue
            \/ \E m \in Sendable : /\ Key!HasRoom(eventQueue, EventQueueLength)
                                   /\ eventQueue' = Append(eventQueue, m)
<1>. USE DEF SendsSendable
<1>1. CASE Key!Receive \/ Key!HoldDone \/ Key!EdgeDone
  BY <1>1 DEF Key!Receive, Key!HoldDone, Key!EdgeDone
<1>2. CASE Key!HoldSkips \/ Key!NoEdge \/ Key!HoldLayerPress
  BY <1>2 DEF Key!HoldSkips, Key!NoEdge, Key!HoldLayerPress, Key!Scan
<1>3. CASE Key!HoldFires \/ Key!HoldLayerTap \/ Key!HoldLayerRelease \/ Key!PlainPress \/ Key!PlainRelease
  <2>1. PICK pc : Key!Scan(pc)
    BY <1>3 DEF Key!HoldFires, Key!HoldLayerTap, Key!HoldLayerRelease, Key!PlainPress, Key!PlainRelease
  <2>2. \A op \in {"PRESS", "HOLD"}, bae \in Key!BoundActionEnqueue : Key!Call(op, bae) \in Key!EnqueueCall
    BY <2>1, ScanCalls
  <2>3. \E c, d \in Key!EnqueueCall : calls' = <<c>> \/ calls' = <<c, d>>
    <3>1. \A op \in {"PRESS", "HOLD"}, bae \in {"DO", "UNDO"} : Key!Call(op, bae) \in Key!EnqueueCall
      BY <2>2 DEF Key!BoundActionEnqueue
    <3>2. CASE Key!HoldFires \/ Key!HoldLayerRelease \/ Key!PlainPress \/ Key!PlainRelease
      <4>1. \E op \in {"PRESS", "HOLD"}, bae \in {"DO", "UNDO"} : calls' = <<Key!Call(op, bae)>>
        BY <3>2 DEF Key!HoldFires, Key!HoldLayerRelease, Key!PlainPress, Key!PlainRelease
      <4>. QED  BY <3>1, <4>1
    <3>3. CASE Key!HoldLayerTap
      <4>1. calls' = <<Key!Call("PRESS", "DO"), Key!Call("PRESS", "UNDO")>>
        BY <3>3 DEF Key!HoldLayerTap
      <4>. QED  BY <3>1, <4>1
    <3>. QED  BY <1>3, <3>2, <3>3
  <2>4. calls' \in Seq(Key!EnqueueCall)
    <3>. DEFINE E == Key!EnqueueCall
    <3>. HIDE DEF E
    <3>1. \A c, d \in E : <<c>> \in Seq(E) /\ <<c, d>> \in Seq(E)
      OBVIOUS
    <3>. QED  BY <2>3, <3>1 DEF E
  <2>. QED  BY <2>1, <2>4 DEF Key!Scan
<1>4. CASE Key!EnqueueStart
  <2>1. Head(calls) \in Key!EnqueueCall /\ Tail(calls) \in Seq(Key!EnqueueCall)
    BY <1>4, HeadTailProperties DEF Key!EnqueueStart
  <2>. QED  BY <1>4, <2>1, CurrentSendable DEF Key!EnqueueStart
<1>5. CASE Key!Send \/ Key!SendTimeout
  <2>1. Head(sends) \in Sendable /\ Tail(sends) \in Seq(Sendable)
    BY <1>5, HeadTailProperties DEF Key!Send, Key!SendTimeout
  <2>. QED  BY <1>5, <2>1 DEF Key!Send, Key!SendTimeout
<1>. QED  BY <1>1, <1>2, <1>3, <1>4, <1>5 DEF Key!KeyStep, Key!EdgeScan

-----------------------------------------------------------------------------
(* Every step of the firmware leaves only such messages to be sent. *)
LEMMA SendsStep == ASSUME SendsSendable, [Next]_vars  PROVE SendsSendable'
<1>. USE DEF SendsSendable
<1>1. CASE KeySide
  BY <1>1, KeyStepSends DEF KeySide
<1>2. CASE MatrixSide
  BY <1>2 DEF MatrixSide, Key!MatrixStep
<1>3. CASE HidSide
  BY <1>3 DEF HidSide, keyVars
<1>4. CASE Reboot
  BY <1>4 DEF Reboot, Key!Restarted
<1>5. CASE UNCHANGED vars
  BY <1>5 DEF vars, keyVars
<1>. QED  BY <1>1, <1>2, <1>3, <1>4, <1>5 DEF Next

(* The usb-hid task does in the firmware what HidTask says of it: all that *)
(* reaches its queue is what some keymap sends.                            *)
THEOREM FirmwareHasHidTask == Spec => HidTaskSpec
<1>1. Init => Hid!Init /\ SendsSendable
  BY DEF Init, Key!Init, SendsSendable
<1>2. SendsSendable /\ [Next]_vars => SendsSendable'
  BY SendsStep
<1>3. ASSUME SendsSendable, [Next]_vars  PROVE [Hid!Next]_(Hid!vars)
  <2>1. CASE KeySide
    <3>1. UNCHANGED <<layer, hidVars>> /\ Hid!Running
      BY <2>1, <1>3, KeyStepSends DEF KeySide
    <3>2. CASE eventQueue' = eventQueue
      BY <3>1, <3>2 DEF hidVars, Hid!vars, Hid!hidVars
    <3>3. CASE \E m \in Sendable : /\ Key!HasRoom(eventQueue, EventQueueLength)
                                   /\ eventQueue' = Append(eventQueue, m)
      <4>1. \E m \in Sendable : Hid!Produce(m)
        BY <3>1, <3>3 DEF hidVars, Hid!Produce, Hid!hidVars, Hid!HasRoom, Key!HasRoom
      <4>. QED  BY <4>1 DEF Hid!Next
    <3>. QED  BY <1>3, <2>1, <3>2, <3>3, KeyStepSends DEF KeySide
  <2>2. CASE MatrixSide
    BY <2>2 DEF MatrixSide, Key!MatrixStep, hidVars, Hid!vars, Hid!hidVars
  <2>3. CASE HidSide
    BY <2>3 DEF HidSide, Hid!Next
  <2>4. CASE Reboot
    BY <2>4 DEF Reboot, Hid!Next
  <2>5. CASE UNCHANGED vars
    BY <2>5 DEF vars, hidVars, Hid!vars, Hid!hidVars
  <2>. QED  BY <1>3, <2>1, <2>2, <2>3, <2>4, <2>5 DEF Next
<1>. QED  BY <1>1, <1>2, <1>3, PTL DEF Spec, HidTaskSpec, Hid!Spec

-----------------------------------------------------------------------------
(* What the usb-hid task takes from the queue concerns the keyboard side   *)
(* only if it is a change of layer.                                        *)
LEMMA HidStepIsConsumed ==
  ASSUME Hid!HidStep, UNCHANGED keyVars
  PROVE  Key!Consumed \/ UNCHANGED <<layer, eventQueue>>
<1>1. CASE Hid!HidDequeue
  <2>1. /\ eventQueue # <<>> /\ eventQueue' = Tail(eventQueue)
        /\ layer' = IF Head(eventQueue).type = "LAYER_SWITCH" THEN Head(eventQueue).layer ELSE layer
    BY <1>1 DEF Hid!HidDequeue, Hid!Take, Hid!TakeReboot, Hid!TakeRebootBootloader, Hid!TakeMotion, Hid!TakeClick,
         Hid!TakeRelease, Hid!TakeLayerSwitch, Hid!TakeDelay, Hid!TakeKeys, Hid!TakeSidewaysScroll, Hid!MotionType
  <2>. QED  BY <2>1 DEF Key!Consumed, Key!keyVars, keyVars
<1>2. CASE ~ Hid!HidDequeue
  BY <1>2 DEF Hid!HidStep, Hid!DelayOver, Hid!PressModifier, Hid!PressKey, Hid!PressSpills, Hid!ReleaseModifier,
       Hid!ReleaseKey, Hid!ReleaseNothing, Hid!ClaimKeyboard, Hid!HidSubmit, Hid!ApplyNext
<1>. QED  BY <1>1, <1>2

(* The keyboard side does in the firmware what KeyTask says of it: the     *)
(* usb-hid task empties its queue, and changes `layer' only by a message   *)
(* taken from there.                                                       *)
THEOREM FirmwareHasKeyTask == Spec => KeyTaskSpec
<1>1. Init => Key!Init
  BY DEF Init
<1>2. ASSUME [Next]_vars  PROVE [Key!Next]_(Key!vars)
  <2>1. CASE KeySide \/ MatrixSide
    BY <2>1 DEF KeySide, MatrixSide, Key!Next
  <2>2. CASE HidSide
    <3>1. UNCHANGED keyVars
      BY <2>2 DEF HidSide
    <3>2. Key!Consumed \/ UNCHANGED <<layer, eventQueue>>
      BY <2>2, <3>1, HidStepIsConsumed
         DEF HidSide, Hid!BusStep, Hid!ReportComplete, Hid!Mount, Hid!Suspend, Hid!Resume, Hid!BusReset, Hid!localVars
    <3>. QED  BY <3>1, <3>2 DEF Key!Next, Key!vars, Key!keyVars, keyVars
  <2>3. CASE Reboot
    BY <2>3 DEF Reboot, Key!Next
  <2>4. CASE UNCHANGED vars
    BY <2>4 DEF vars, keyVars, Key!vars, Key!keyVars
  <2>. QED  BY <1>2, <2>1, <2>2, <2>3, <2>4 DEF Next
<1>. QED  BY <1>1, <1>2, PTL DEF Spec, KeyTaskSpec, Key!Spec

-----------------------------------------------------------------------------
(* What usb-hid does, said in HidTask_proofs, is what it does here. *)
LEMMA SameHidTask ==
  /\ Hid!Init <=> HP!Init
  /\ [Hid!Next]_(Hid!vars) <=> [HP!Next]_(HP!vars)
<1>1. (UNCHANGED Hid!vars <=> UNCHANGED HP!vars) /\ (Hid!Init <=> HP!Init)
  BY DEF
         Hid!Init, HP!Init, Hid!vars, HP!vars, Hid!NoKeys, HP!NoKeys, Hid!NoMsg, HP!NoMsg, Hid!hidVars,
         HP!hidVars, Hid!Slot, HP!Slot
<1>2. Hid!Next <=> HP!Next
  BY DEF
         Hid!Next, HP!Next, Hid!HidStep, HP!HidStep, Hid!BusStep, HP!BusStep, Hid!Restart, HP!Restart,
         Hid!Produce, HP!Produce, Hid!HidDequeue, HP!HidDequeue, Hid!DelayOver, HP!DelayOver,
         Hid!PressModifier, HP!PressModifier, Hid!PressKey, HP!PressKey, Hid!PressSpills, HP!PressSpills,
         Hid!ReleaseModifier, HP!ReleaseModifier, Hid!ReleaseKey, HP!ReleaseKey, Hid!ReleaseNothing,
         HP!ReleaseNothing, Hid!ClaimKeyboard, HP!ClaimKeyboard, Hid!HidSubmit, HP!HidSubmit,
         Hid!ReportComplete, HP!ReportComplete, Hid!Mount, HP!Mount, Hid!Suspend, HP!Suspend, Hid!Resume,
         HP!Resume, Hid!BusReset, HP!BusReset, Hid!NoKeys, HP!NoKeys, Hid!NoMsg, HP!NoMsg, Hid!HasRoom,
         HP!HasRoom, Hid!Running, HP!Running, Hid!hidVars, HP!hidVars, Hid!TakeReboot, HP!TakeReboot,
         Hid!TakeRebootBootloader, HP!TakeRebootBootloader, Hid!TakeMotion, HP!TakeMotion, Hid!TakeClick,
         HP!TakeClick, Hid!TakeRelease, HP!TakeRelease, Hid!TakeLayerSwitch, HP!TakeLayerSwitch, Hid!TakeDelay,
         HP!TakeDelay, Hid!TakeKeys, HP!TakeKeys, Hid!TakeSidewaysScroll, HP!TakeSidewaysScroll, Hid!formVars,
         HP!formVars, Hid!busVars, HP!busVars, Hid!ApplyNext, HP!ApplyNext, Hid!NextCode, HP!NextCode,
         Hid!ModifierCode, HP!ModifierCode, Hid!ModifierBit, HP!ModifierBit, Hid!Slot, HP!Slot, Hid!FirstSlot,
         HP!FirstSlot, Hid!Holds, HP!Holds, Hid!Bits, HP!Bits, Hid!Claim, HP!Claim, Hid!KeyboardForm,
         HP!KeyboardForm, Hid!HidReady, HP!HidReady, Hid!localVars, HP!localVars, Hid!Take, HP!Take,
         Hid!MotionType, HP!MotionType, Hid!MouseForm, HP!MouseForm, Hid!Bit, HP!Bit
<1>. QED  BY <1>1, <1>2

LEMMA SameHidClaims ==
  /\ Hid!TypeOK <=> HP!TypeOK
  /\ Hid!OneReportInFlight <=> HP!OneReportInFlight
  /\ Hid!HostInSync <=> HP!HostInSync
BY DEF
         Hid!TypeOK, HP!TypeOK, Hid!OneReportInFlight, HP!OneReportInFlight, Hid!HostInSync, HP!HostInSync,
         Hid!QueueMessage, HP!QueueMessage, Hid!Slot, HP!Slot, Hid!Code, HP!Code, Hid!Bit, HP!Bit, Hid!Applied,
         HP!Applied, Hid!Report, HP!Report, Hid!KeyboardReport, HP!KeyboardReport, Hid!MouseReport,
         HP!MouseReport, Hid!Synced, HP!Synced, Hid!SyncedBy, HP!SyncedBy, Hid!KeyEvent, HP!KeyEvent,
         Hid!ButtonEvent, HP!ButtonEvent, Hid!LayerEvent, HP!LayerEvent, Hid!PlainEvent, HP!PlainEvent,
         Hid!CodeList, HP!CodeList, Hid!KeyboardForm, HP!KeyboardForm, Hid!MotionType, HP!MotionType

(* The usb-hid task of the firmware has the parameters HidTask asks for. *)
LEMMA HidParameters ==
  /\ KeyRollOver \in Nat \ {0} /\ EventQueueLength \in Nat \ {0}
  /\ Sendable \subseteq HP!QueueMessage /\ BootLayer \in LayerIds
  /\ SpillTargets \subseteq {"padding", "modifer", "mouse_buttons"}
  /\ NoReport \notin HP!Report
<1>1. HP!QueueMessage = QueueMessage
  BY DEF HP!QueueMessage, HP!KeyEvent, HP!ButtonEvent, HP!LayerEvent, HP!PlainEvent, HP!CodeList,
         HP!Code, HP!Bit, HP!MotionType, QueueMessage, KeyEvent, ButtonEvent, LayerEvent, PlainEvent,
         CodeList, Code, Bit, MotionType
<1>2. HP!Report = Hid!Report
  BY DEF HP!Report, HP!KeyboardReport, HP!MouseReport, HP!Slot, HP!Code, HP!Bit,
         Hid!Report, Hid!KeyboardReport, Hid!MouseReport, Hid!Slot, Hid!Code, Hid!Bit
<1>. QED  BY <1>1, <1>2, BindingSends, KeyRollOverAssumption, SizesAssumption, BoardAssumption

(* The usb-hid task keeps its types, its gate and the host's view of the   *)
(* keys in the firmware too.                                               *)
THEOREM FirmwareHidCorrect == Spec => [](Hid!TypeOK /\ Hid!OneReportInFlight /\ Hid!HostInSync)
<1>1. HP!Spec => []HP!TypeOK
  BY HidParameters, HP!TypeCorrect
<1>2. HP!Spec => []HP!OneReportInFlight
  BY HidParameters, HP!GateCorrect
<1>3. HP!Spec => []HP!HostInSync
  BY HidParameters, HP!HostSynced
<1>4. Hid!Init <=> HP!Init
  BY SameHidTask
<1>5. [Hid!Next]_(Hid!vars) <=> [HP!Next]_(HP!vars)
  BY SameHidTask
<1>6. HidTaskSpec => HP!Spec
  BY <1>4, <1>5, PTL DEF HidTaskSpec, Hid!Spec, HP!Spec
<1>. QED  BY <1>1, <1>2, <1>3, <1>6, SameHidClaims, FirmwareHasHidTask, PTL
-----------------------------------------------------------------------------
(* What an action sends does not depend on who asks. *)
LEMMA SameEnqueue ==
  ASSUME NEW l, NEW k, NEW op, NEW bae
  PROVE  Key!LayerEnqueue(l, k, op, bae) = KP!LayerEnqueue(l, k, op, bae)
<1>1. \A s : Key!FlattenSeq(s) = KP!FlattenSeq(s)
  BY Zenon DEF Key!FlattenSeq, KP!FlattenSeq
<1>2. \A c : Key!TypedCharacter(c) = KP!TypedCharacter(c)
  BY DEF Key!TypedCharacter, KP!TypedCharacter, Key!TypedCode, KP!TypedCode, Key!Upper, KP!Upper, Key!Press, KP!Press,
         Key!Release, KP!Release, Key!QueuedCodes, KP!QueuedCodes, Key!Min, KP!Min
<1>3. \A a, b : Key!EnqueueOne(a, b) = KP!EnqueueOne(a, b)
  <2>. TAKE a, b
  <2>1. [i \in DOMAIN a.payload |-> Key!TypedCharacter(a.payload[i])] = [i \in DOMAIN a.payload |-> KP!TypedCharacter(a.payload[i])]
    BY <1>2, Zenon
  <2>2. Key!OnDo(a) = KP!OnDo(a)
    BY <1>1, <2>1, Zenon
       DEF Key!OnDo, KP!OnDo, Key!Press, KP!Press, Key!Release, KP!Release, Key!QueuedCodes, KP!QueuedCodes, Key!Min,
           KP!Min, Key!Scroll, KP!Scroll, Key!Move, KP!Move, Key!SilentAction, KP!SilentAction
  <2>. QED  BY <2>2, Zenon
            DEF Key!EnqueueOne, KP!EnqueueOne, Key!GenericKey, KP!GenericKey, Key!MouseClick, KP!MouseClick, Key!Press,
                KP!Press, Key!Release, KP!Release, Key!QueuedCodes, KP!QueuedCodes, Key!Min, KP!Min
<1>4. \A a, b : Key!Enqueue(a, b) = KP!Enqueue(a, b)
  <2>. TAKE a, b
  <2>1. [i \in DOMAIN a.sequence |-> Key!EnqueueOne(a.sequence[i], "DO") \o Key!EnqueueOne(a.sequence[i], "UNDO")]
          = [i \in DOMAIN a.sequence |-> KP!EnqueueOne(a.sequence[i], "DO") \o KP!EnqueueOne(a.sequence[i], "UNDO")]
    BY <1>3, Zenon
  <2>2. Key!Sequence(a) = KP!Sequence(a)
    BY <1>1, <2>1, Zenon DEF Key!Sequence, KP!Sequence
  <2>. QED  BY <1>3, <2>2, Zenon DEF Key!Enqueue, KP!Enqueue
<1>. QED  BY <1>4, Zenon DEF Key!LayerEnqueue, KP!LayerEnqueue, Key!Bound, KP!Bound

(* What the keyboard side does, said in KeyTask_proofs, is what it does    *)
(* here.                                                                   *)
LEMMA SameKeyTask ==
  /\ Key!Init <=> KP!Init
  /\ [Key!Next]_(Key!vars) <=> [KP!Next]_(KP!vars)
<1>1. (UNCHANGED Key!vars <=> UNCHANGED KP!vars) /\ (Key!Init <=> KP!Init)
  BY DEF
         Key!Init, KP!Init, Key!vars, KP!vars, Key!PollInit, KP!PollInit, Key!Position, KP!Position,
         Key!keyVars, KP!keyVars
<1>2. Key!Next <=> KP!Next
  BY SameEnqueue DEF
         Key!Next, KP!Next, Key!KeyStep, KP!KeyStep, Key!MatrixStep, KP!MatrixStep, Key!Consumed, KP!Consumed,
         Key!Restarted, KP!Restarted, Key!Receive, KP!Receive, Key!HoldFires, KP!HoldFires, Key!HoldSkips,
         KP!HoldSkips, Key!HoldDone, KP!HoldDone, Key!EdgeScan, KP!EdgeScan, Key!EdgeDone, KP!EdgeDone,
         Key!EnqueueStart, KP!EnqueueStart, Key!Send, KP!Send, Key!SendTimeout, KP!SendTimeout, Key!PollStep,
         KP!PollStep, Key!Position, KP!Position, Key!KeyMoves, KP!KeyMoves, Key!keyVars, KP!keyVars, Key!At,
         KP!At, Key!Scan, KP!Scan, Key!HoldDue, KP!HoldDue, Key!Call, KP!Call, Key!pollVars, KP!pollVars,
         Key!NoEdge, KP!NoEdge, Key!HoldLayerPress, KP!HoldLayerPress, Key!HoldLayerTap, KP!HoldLayerTap,
         Key!HoldLayerRelease, KP!HoldLayerRelease, Key!PlainPress, KP!PlainPress, Key!PlainRelease,
         KP!PlainRelease, Key!CurrentLayer, KP!CurrentLayer, Key!HasRoom, KP!HasRoom, Key!Poll, KP!Poll,
         Key!Bound, KP!Bound, Key!Since, KP!Since, Key!Pressed, KP!Pressed, Key!Released, KP!Released,
         Key!Tapped, KP!Tapped, Key!EmptyLayer, KP!EmptyLayer
<1>. QED  BY <1>1, <1>2

LEMMA SameKeyClaims ==
  /\ Key!TypeOK <=> KP!TypeOK
  /\ Key!Down = KP!Down
  /\ Key!HoldKeymaps <=> KP!HoldKeymaps
  /\ Key!PlainKeymaps <=> KP!PlainKeymaps
<1>1. Key!TypeOK <=> KP!TypeOK
  BY DEF
         Key!TypeOK, KP!TypeOK, Key!PollTypeOK, KP!PollTypeOK, Key!QueueMessage, KP!QueueMessage, Key!Position,
         KP!Position, Key!Tick, KP!Tick, Key!EnqueueCall, KP!EnqueueCall, Key!KeyMessage, KP!KeyMessage,
         Key!KeyEvent, KP!KeyEvent, Key!ButtonEvent, KP!ButtonEvent, Key!LayerEvent, KP!LayerEvent,
         Key!PlainEvent, KP!PlainEvent, Key!KeyNumber, KP!KeyNumber, Key!CodeList, KP!CodeList, Key!Bit,
         KP!Bit, Key!MotionType, KP!MotionType, Key!LayerEnqueue, KP!LayerEnqueue, Key!Code, KP!Code,
         Key!Bound, KP!Bound, Key!BoundActionEnqueue, KP!BoundActionEnqueue
<1>. QED  BY <1>1 DEF Key!Down, KP!Down, Key!HoldKeymaps, KP!HoldKeymaps, Key!PlainKeymaps, KP!PlainKeymaps

(* The keyboard side of the firmware has the parameters KeyTask asks for. *)
LEMMA KeyParameters ==
  /\ KeyRollOver \in Nat \ {0}
  /\ NumPositions \in Nat \ {0} /\ KeyQueueLength \in Nat \ {0} /\ TickModulus \in Nat \ {0}
  /\ PollSteps \subseteq Nat /\ FaultyHalves \subseteq SUBSET KP!Position
  /\ DOMAIN keys = KP!Position /\ DOMAIN Layers \subseteq LayerIds /\ BootLayer \in LayerIds
  /\ Hold \in Nat /\ EventQueueLength \in Nat \ {0}
  /\ \A l \in DOMAIN Layers :
       /\ Layers[l].on_hold_bound \in BOOLEAN
       /\ \A k \in KP!KeyNumber, op \in {"PRESS", "HOLD"}, bae \in KP!BoundActionEnqueue :
            KP!LayerEnqueue(Layers[l], k, op, bae) \in Seq(KP!QueueMessage)
<1>1. KP!QueueMessage = QueueMessage
  BY DEF KP!QueueMessage, KP!KeyEvent, KP!ButtonEvent, KP!LayerEvent, KP!PlainEvent, KP!CodeList,
         KP!Code, KP!Bit, KP!MotionType, QueueMessage, KeyEvent, ButtonEvent, LayerEvent, PlainEvent,
         CodeList, Code, Bit, MotionType
<1>2. KP!Position = Key!Position /\ KP!KeyNumber = Key!KeyNumber /\ KP!BoundActionEnqueue = Key!BoundActionEnqueue
  BY DEF KP!Position, Key!Position, KP!KeyNumber, Key!KeyNumber, KP!BoundActionEnqueue, Key!BoundActionEnqueue
<1>3. \A l \in DOMAIN Layers :
        /\ Layers[l].on_hold_bound \in BOOLEAN
        /\ \A k \in KP!KeyNumber, op \in {"PRESS", "HOLD"}, bae \in KP!BoundActionEnqueue :
             KP!LayerEnqueue(Layers[l], k, op, bae) \in Seq(KP!QueueMessage)
  BY <1>1, <1>2, KeymapsAssumption, SameEnqueue
<1>. QED  BY <1>2, <1>3, KeyRollOverAssumption, SizesAssumption, BoardAssumption

(* The keyboard side keeps its types in the firmware, and with keymaps     *)
(* that all have hold bindings, or none, its timers stay with the keys     *)
(* that are down.                                                          *)
THEOREM FirmwareKeysCorrect ==
  /\ Spec => []Key!TypeOK
  /\ Key!UniformLayers => (Spec => []KP!KeyInv)
<1>1. KP!Spec => []KP!TypeOK
  BY KeyParameters, KP!KeyTypeCorrect
<1>2. Key!Init <=> KP!Init
  BY SameKeyTask
<1>3. [Key!Next]_(Key!vars) <=> [KP!Next]_(KP!vars)
  BY SameKeyTask
<1>4. KeyTaskSpec => KP!Spec
  BY <1>2, <1>3, PTL DEF KeyTaskSpec, Key!Spec, KP!Spec
<1>5. Spec => []KP!TypeOK
  BY <1>1, <1>4, FirmwareHasKeyTask, PTL
<1>6. Spec => []Key!TypeOK
  BY <1>5, SameKeyClaims, PTL
<1>7. ASSUME Key!UniformLayers  PROVE Spec => []KP!KeyInv
  <2>1. KP!Init => KP!KeyInv
    BY DEF KP!Init, KP!KeyInv, KP!TimersOfDownKeys, KP!OneDoPerPress, KP!TimersUnused
  <2>2. KP!UniformLayers
    BY <1>7, SameKeyClaims DEF Key!UniformLayers, KP!UniformLayers
  <2>3. KP!TypeOK /\ KP!KeyInv /\ [KP!Next]_(KP!vars) => KP!KeyInv'
    BY <2>2, KeyParameters, KP!KeyInvStep
  <2>. QED  BY <1>4, <1>5, <2>1, <2>3, FirmwareHasKeyTask, PTL DEF KP!Spec
<1>. QED  BY <1>6, <1>7
=============================================================================
