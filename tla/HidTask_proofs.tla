--------------------------- MODULE HidTask_proofs ---------------------------
(***************************************************************************)
(* What TLAPS proves of the usb-hid task, for every queue length, roll-    *)
(* over, set of layers and set of messages.                                *)
(***************************************************************************)
EXTENDS HidTask, SequenceTheorems, TLAPS

(* The fields send_hid_report reads of a message are those its type has. *)
LEMMA MessageFields ==
  ASSUME NEW m \in QueueMessage
  PROVE  /\ m.type \in {"PRESS", "RELEASE"} => m \in Applied /\ m \in KeyEvent
         /\ m.type \in {"MOUSE_CLICK", "MOUSE_RELEASE"} => m.mouse_click \in Bit
         /\ m.type = "LAYER_SWITCH" => m.layer \in LayerIds
<1>1. CASE m \in KeyEvent
  BY <1>1 DEF KeyEvent, Applied
<1>2. CASE m \in ButtonEvent
  BY <1>2 DEF ButtonEvent
<1>3. CASE m \in LayerEvent
  BY <1>3 DEF LayerEvent
<1>4. CASE m \in PlainEvent
  BY <1>4 DEF PlainEvent, MotionType
<1> QED BY <1>1, <1>2, <1>3, <1>4 DEF QueueMessage

(* Receiving takes a well-formed message off the queue and leaves a queue. *)
LEMMA TakeTypes ==
  ASSUME TypeOK, NEW types, Take(types)
  PROVE  /\ Head(eventQueue) \in QueueMessage
         /\ eventQueue' \in Seq(QueueMessage) /\ Len(eventQueue') <= EventQueueLength
         /\ Head(eventQueue).type \in types
<1>1. /\ eventQueue \in Seq(QueueMessage) /\ eventQueue # <<>>
      /\ eventQueue' = Tail(eventQueue) /\ Head(eventQueue).type \in types
  BY DEF TypeOK, Take
<1>2. /\ Head(eventQueue) \in QueueMessage /\ Tail(eventQueue) \in Seq(QueueMessage)
      /\ Len(Tail(eventQueue)) = Len(eventQueue) - 1
  BY <1>1, HeadTailProperties
<1> QED BY <1>1, <1>2, EventQueueAssumption DEF TypeOK

(* What the reports are built from. *)
LEMMA FormTypes ==
  ASSUME TypeOK
  PROVE  /\ KeyboardForm \in KeyboardReport /\ KeyboardForm \in Report
         /\ \A b \in SUBSET Bit : MouseForm(b) \in MouseReport /\ MouseForm(b) \in Report
<1>1. KeyboardForm \in KeyboardReport
  BY DEF TypeOK, KeyboardForm, KeyboardReport
<1>2. \A b \in SUBSET Bit : MouseForm(b) \in MouseReport
  BY DEF MouseForm, MouseReport
<1> QED BY <1>1, <1>2 DEF Report

(* The next code of the message being applied, and the rest of them. *)
LEMMA ApplyTypes ==
  ASSUME TypeOK, NEW type, ApplyNext(type)
  PROVE  NextCode \in Code /\ msg' \in Applied
<1>1. msg \in Applied /\ msg.codes \in Seq(Code) /\ msg.codes # <<>>
      /\ Len(msg.codes) <= KeyRollOver
  BY DEF TypeOK, ApplyNext, Applied, CodeList
<1>2. /\ Head(msg.codes) \in Code /\ Tail(msg.codes) \in Seq(Code)
      /\ Len(Tail(msg.codes)) = Len(msg.codes) - 1
  BY <1>1, HeadTailProperties
<1>3. Tail(msg.codes) \in CodeList
  BY <1>1, <1>2, KeyRollOverAssumption, LenProperties DEF CodeList
<1>4. msg' = [msg EXCEPT !.codes = Tail(@)]
  BY DEF ApplyNext
<1>5. msg' \in Applied
  BY <1>1, <1>3, <1>4 DEF Applied
<1> QED BY <1>2, <1>5 DEF NextCode

(* What a code does to the modifier bits, or to the byte behind the slots, *)
(* are bits of a byte.                                                     *)
LEMMA BitTypes == ASSUME NEW c \in Code
                  PROVE  Bits(c) \in SUBSET Bit /\ (c \in ModifierCode => ModifierBit(c) \in Bit)
BY DEF Bits, ModifierCode, ModifierBit, Bit
-----------------------------------------------------------------------------
(* Every variable keeps its type, whatever messages are queued. *)
THEOREM TypeCorrect == Spec => []TypeOK
<1>1. Init => TypeOK
  <2> SUFFICES ASSUME Init PROVE TypeOK
    OBVIOUS
  <2>1. eventQueue \in Seq(QueueMessage) /\ Len(eventQueue) <= EventQueueLength
    BY EventQueueAssumption DEF Init
  <2>2. keycode \in [Slot -> Code] /\ msg \in Applied
    BY KeyRollOverAssumption DEF Init, NoKeys, NoMsg, Code, Applied, CodeList
  <2> QED BY <2>1, <2>2, EventQueueAssumption DEF Init, TypeOK
<1>2. TypeOK /\ [Next]_vars => TypeOK'
  <2> SUFFICES ASSUME TypeOK, [Next]_vars PROVE TypeOK'
    OBVIOUS
  <2>1. CASE TakeReboot
    BY <2>1, TakeTypes DEF TakeReboot, TypeOK, formVars, busVars
  <2>2. CASE TakeRebootBootloader
    BY <2>2, TakeTypes DEF TakeRebootBootloader, TypeOK, formVars, busVars
  <2>3. CASE TakeMotion
    BY <2>3, TakeTypes, FormTypes DEF TakeMotion, Claim, TypeOK, formVars, busVars
  <2>4. CASE TakeClick
    <3>1. mouse_buttons' \in SUBSET Bit
      BY <2>4, TakeTypes, MessageFields DEF TakeClick, TypeOK
    <3> QED BY <2>4, <3>1, TakeTypes, FormTypes DEF TakeClick, Claim, TypeOK, busVars
  <2>5. CASE TakeRelease
    <3>1. mouse_buttons' \in SUBSET Bit
      BY <2>5 DEF TakeRelease, TypeOK
    <3> QED BY <2>5, <3>1, TakeTypes, FormTypes DEF TakeRelease, Claim, TypeOK, busVars
  <2>6. CASE TakeLayerSwitch
    <3>1. layer' \in LayerIds
      BY <2>6, TakeTypes, MessageFields DEF TakeLayerSwitch
    <3> QED BY <2>6, <3>1, TakeTypes DEF TakeLayerSwitch, TypeOK, hidVars
  <2>7. CASE TakeDelay
    BY <2>7, TakeTypes DEF TakeDelay, TypeOK, formVars, busVars
  <2>8. CASE DelayOver
    BY <2>8 DEF DelayOver, TypeOK, formVars, busVars
  <2>9. CASE TakeKeys
    <3>1. msg' \in Applied
      BY <2>9, TakeTypes, MessageFields DEF TakeKeys
    <3> QED BY <2>9, <3>1, TakeTypes DEF TakeKeys, TypeOK, formVars, busVars
  <2>10. CASE TakeSidewaysScroll
    <3>1. msg' \in Applied
      BY <2>10, KeyRollOverAssumption DEF TakeSidewaysScroll, Applied, CodeList
    <3> QED BY <2>10, <3>1, TakeTypes DEF TakeSidewaysScroll, TypeOK, formVars, busVars
  <2>11. CASE PressModifier
    <3>1. modifer' \in SUBSET Bit /\ msg' \in Applied
      BY <2>11, ApplyTypes, BitTypes DEF PressModifier, TypeOK
    <3> QED BY <2>11, <3>1 DEF PressModifier, ApplyNext, TypeOK, busVars
  <2>12. CASE PressKey
    <3>1. keycode' \in [Slot -> Code] /\ msg' \in Applied
      BY <2>12, ApplyTypes DEF PressKey, TypeOK
    <3> QED BY <2>12, <3>1 DEF PressKey, ApplyNext, TypeOK, busVars
  <2>13. CASE PressSpills
    <3>1. modifer' \in SUBSET Bit /\ mouse_buttons' \in SUBSET Bit /\ msg' \in Applied
      BY <2>13, ApplyTypes, BitTypes DEF PressSpills, TypeOK
    <3> QED BY <2>13, <3>1 DEF PressSpills, ApplyNext, TypeOK, busVars
  <2>14. CASE ReleaseModifier
    <3>1. modifer' \in SUBSET Bit /\ msg' \in Applied
      BY <2>14, ApplyTypes DEF ReleaseModifier, TypeOK
    <3> QED BY <2>14, <3>1 DEF ReleaseModifier, ApplyNext, TypeOK, busVars
  <2>15. CASE ReleaseKey
    <3>1. keycode' \in [Slot -> Code] /\ msg' \in Applied
      BY <2>15, ApplyTypes DEF ReleaseKey, TypeOK, Code
    <3> QED BY <2>15, <3>1 DEF ReleaseKey, ApplyNext, TypeOK, busVars
  <2>16. CASE ReleaseNothing
    BY <2>16, ApplyTypes DEF ReleaseNothing, ApplyNext, TypeOK, formVars, busVars
  <2>17. CASE ClaimKeyboard
    <3>1. msg' \in Applied
      BY <2>17, KeyRollOverAssumption DEF ClaimKeyboard, NoMsg, Applied, CodeList
    <3> QED BY <2>17, <3>1, FormTypes DEF ClaimKeyboard, Claim, TypeOK, formVars, busVars
  <2>18. CASE HidSubmit
    BY <2>18 DEF HidSubmit, TypeOK, formVars
  <2>19. CASE ReportComplete
    <3>1. hostKeys' \in KeyboardReport \cup {NoReport} /\ hostMouse' \in MouseReport \cup {NoReport}
      BY <2>19 DEF ReportComplete, TypeOK, Report, KeyboardReport, MouseReport
    <3> QED BY <2>19, <3>1 DEF ReportComplete, TypeOK, formVars
  <2>20. CASE Mount \/ Suspend \/ Resume \/ BusReset
    BY <2>20 DEF Mount, Suspend, Resume, BusReset, localVars, formVars, TypeOK
  <2>21. CASE Restart
    <3>1. eventQueue' \in Seq(QueueMessage) /\ Len(eventQueue') <= EventQueueLength
      BY <2>21, EventQueueAssumption DEF Restart
    <3>2. keycode' \in [Slot -> Code] /\ msg' \in Applied
      BY <2>21, KeyRollOverAssumption DEF Restart, NoKeys, NoMsg, Code, Applied, CodeList
    <3> QED BY <2>21, <3>1, <3>2, EventQueueAssumption DEF Restart, TypeOK
  <2>22. ASSUME NEW m \in EventMessages, Produce(m) PROVE TypeOK'
    <3>1. eventQueue' \in Seq(QueueMessage) /\ Len(eventQueue') = Len(eventQueue) + 1
      BY <2>22, EventQueueAssumption, AppendProperties DEF Produce, TypeOK
    <3>2. Len(eventQueue') <= EventQueueLength
      BY <2>22, <3>1, EventQueueAssumption, LenProperties DEF Produce, HasRoom, TypeOK
    <3> QED BY <2>22, <3>1, <3>2 DEF Produce, TypeOK, hidVars
  <2>23. CASE UNCHANGED vars
    BY <2>23 DEF vars, hidVars, TypeOK
  <2> QED
    BY <2>1, <2>2, <2>3, <2>4, <2>5, <2>6, <2>7, <2>8, <2>9, <2>10, <2>11, <2>12, <2>13,
       <2>14, <2>15, <2>16, <2>17, <2>18, <2>19, <2>20, <2>21, <2>22, <2>23
       DEF Next, HidStep, HidDequeue, BusStep
<1> QED BY <1>1, <1>2, PTL DEF Spec
-----------------------------------------------------------------------------
(* A report that is claimed is one. *)
LEMMA ClaimIsReport ==
  ASSUME TypeOK
  PROVE  KeyboardForm # NoReport /\ \A b \in SUBSET Bit : MouseForm(b) # NoReport
BY FormTypes, NoReportAssumption

(* The gate and the endpoint agree in every reachable state: the report    *)
(* handed to TinyUSB never meets a busy endpoint.                          *)
LEMMA GateStep ==
  ASSUME TypeOK, TypeOK', OneReportInFlight, [Next]_vars
  PROVE  OneReportInFlight'
<1> USE DEF OneReportInFlight
<1>1. CASE TakeReboot \/ TakeRebootBootloader \/ TakeLayerSwitch \/ TakeDelay
            \/ TakeKeys \/ TakeSidewaysScroll
  BY <1>1 DEF TakeReboot, TakeRebootBootloader, TakeLayerSwitch, TakeDelay, TakeKeys,
              TakeSidewaysScroll, Take, HidReady, busVars, hidVars
<1>2. CASE TakeMotion
  BY <1>2, ClaimIsReport DEF TakeMotion, Take, Claim, HidReady, busVars
<1>3. CASE TakeClick
  BY <1>3, ClaimIsReport DEF TakeClick, Take, Claim, HidReady, busVars, TypeOK
<1>4. CASE TakeRelease
  BY <1>4, ClaimIsReport DEF TakeRelease, Take, Claim, HidReady, busVars, TypeOK
<1>5. CASE DelayOver
  BY <1>5 DEF DelayOver, busVars
<1>6. CASE PressModifier \/ PressKey \/ PressSpills \/ ReleaseModifier \/ ReleaseKey
            \/ ReleaseNothing
  BY <1>6 DEF PressModifier, PressKey, PressSpills, ReleaseModifier, ReleaseKey,
              ReleaseNothing, ApplyNext, busVars
<1>7. CASE ClaimKeyboard
  BY <1>7, ClaimIsReport DEF ClaimKeyboard, Claim, busVars
<1>8. CASE HidSubmit
  BY <1>8 DEF HidSubmit
<1>9. CASE ReportComplete
  BY <1>9 DEF ReportComplete
<1>10. CASE Mount \/ Suspend \/ Resume \/ BusReset
  BY <1>10 DEF Mount, Suspend, Resume, BusReset, localVars
<1>11. CASE Restart
  BY <1>11 DEF Restart
<1>12. CASE (\E m \in EventMessages : Produce(m)) \/ UNCHANGED vars
  BY <1>12 DEF Produce, vars, hidVars
<1> QED BY <1>1, <1>2, <1>3, <1>4, <1>5, <1>6, <1>7, <1>8, <1>9, <1>10, <1>11, <1>12
        DEF Next, HidStep, HidDequeue, BusStep

(* hid_send_complete is true only with no report on its way to the host:   *)
(* send_hid_report never hands TinyUSB a second one.                       *)
THEOREM GateCorrect == Spec => []OneReportInFlight
<1>1. Init => OneReportInFlight
  BY DEF Init, OneReportInFlight
<1>2. TypeOK /\ TypeOK' /\ OneReportInFlight /\ [Next]_vars => OneReportInFlight'
  BY GateStep
<1> QED BY <1>1, <1>2, TypeCorrect, PTL DEF Spec

(* No step leaves the host with a key the firmware has let go of, nor      *)
(* without one it holds, once the gate is open.                            *)
LEMMA SyncStep ==
  ASSUME TypeOK, TypeOK', OneReportInFlight, HostInSync, [Next]_vars
  PROVE  HostInSync'
<1> USE DEF HostInSync, Synced, SyncedBy, KeyboardForm
<1>1. CASE TakeReboot \/ TakeRebootBootloader \/ TakeLayerSwitch \/ TakeDelay
            \/ TakeKeys \/ TakeSidewaysScroll
  BY <1>1 DEF TakeReboot, TakeRebootBootloader, TakeLayerSwitch, TakeDelay, TakeKeys,
              TakeSidewaysScroll, Take, HidReady, busVars, formVars, hidVars
<1>2. CASE TakeMotion
  BY <1>2 DEF TakeMotion, Take, Claim, HidReady, MouseForm, busVars, formVars
<1>3. CASE TakeClick
  BY <1>3 DEF TakeClick, Take, Claim, HidReady, MouseForm, busVars
<1>4. CASE TakeRelease
  BY <1>4 DEF TakeRelease, Take, Claim, HidReady, MouseForm, busVars
<1>5. CASE DelayOver
  BY <1>5 DEF DelayOver, busVars, formVars
<1>6. CASE PressModifier \/ PressKey \/ PressSpills \/ ReleaseModifier \/ ReleaseKey
            \/ ReleaseNothing
  BY <1>6 DEF PressModifier, PressKey, PressSpills, ReleaseModifier, ReleaseKey,
              ReleaseNothing, ApplyNext, busVars, OneReportInFlight
<1>7. CASE ClaimKeyboard
  BY <1>7 DEF ClaimKeyboard, Claim, busVars, formVars, OneReportInFlight
<1>8. CASE HidSubmit
  BY <1>8 DEF HidSubmit, formVars, OneReportInFlight
<1>9. CASE ReportComplete
  BY <1>9 DEF ReportComplete, formVars, OneReportInFlight
<1>10. CASE Mount \/ Suspend \/ Resume \/ BusReset
  BY <1>10 DEF Mount, Suspend, Resume, BusReset, localVars, formVars
<1>11. CASE Restart
  BY <1>11 DEF Restart
<1>12. CASE (\E m \in EventMessages : Produce(m)) \/ UNCHANGED vars
  BY <1>12 DEF Produce, vars, hidVars
<1> QED BY <1>1, <1>2, <1>3, <1>4, <1>5, <1>6, <1>7, <1>8, <1>9, <1>10, <1>11, <1>12
        DEF Next, HidStep, HidDequeue, BusStep

(* Whenever the gate is open and no message is half applied, the host that *)
(* has had a keyboard report has had the slots and modifiers as they are.  *)
THEOREM HostSynced == Spec => []HostInSync
<1>1. Init => HostInSync
  BY DEF Init, HostInSync, Synced
<1>2. TypeOK /\ TypeOK' /\ OneReportInFlight /\ HostInSync /\ [Next]_vars => HostInSync'
  BY SyncStep
<1> QED BY <1>1, <1>2, TypeCorrect, GateCorrect, PTL DEF Spec
-----------------------------------------------------------------------------
(* With the gate and the endpoint in step, only losing the bus leaves a    *)
(* closed gate without a report whose callback would open it.              *)
LEMMA WedgeStep ==
  ASSUME OneReportInFlight, [Next]_vars, ~ Wedged, Wedged'
  PROVE  usb' # "mounted"
<1> USE DEF Wedged, OneReportInFlight
<1>1. CASE HidDequeue
  BY <1>1 DEF HidDequeue, TakeReboot, TakeRebootBootloader, TakeMotion, TakeClick,
              TakeRelease, TakeLayerSwitch, TakeDelay, TakeKeys, TakeSidewaysScroll,
              Take, Claim, HidReady, busVars, hidVars
<1>2. CASE DelayOver \/ ClaimKeyboard
  BY <1>2 DEF DelayOver, ClaimKeyboard, Claim, busVars
<1>3. CASE PressModifier \/ PressKey \/ PressSpills \/ ReleaseModifier \/ ReleaseKey
            \/ ReleaseNothing
  BY <1>3 DEF PressModifier, PressKey, PressSpills, ReleaseModifier, ReleaseKey,
              ReleaseNothing, ApplyNext, busVars
<1>4. CASE HidSubmit
  BY <1>4 DEF HidSubmit, HidReady
<1>5. CASE BusStep \/ Restart
  BY <1>5 DEF BusStep, ReportComplete, Mount, Suspend, Resume, BusReset, Restart, localVars
<1>6. CASE (\E m \in EventMessages : Produce(m)) \/ UNCHANGED vars
  BY <1>6 DEF Produce, vars, hidVars
<1> QED BY <1>1, <1>2, <1>3, <1>4, <1>5, <1>6 DEF Next, HidStep

(* While the board stays on the bus nothing wedges the gate. *)
THEOREM WedgeNeedsBusLoss == Spec => WedgeOnlyOffBus
<1>1. OneReportInFlight /\ [Next]_vars => [~ Wedged /\ Wedged' => usb' # "mounted"]_vars
  BY WedgeStep
<1> QED BY <1>1, GateCorrect, PTL DEF Spec, WedgeOnlyOffBus

(* Nothing but power-up gets a running task out of the wedged state.       *)
LEMMA WedgedStep ==
  ASSUME OneReportInFlight, [Next]_vars, Wedged, mode = "run"
  PROVE  Wedged' /\ mode' = "run" /\ layer' = layer /\ KeyboardForm' = KeyboardForm
<1> USE DEF Wedged, OneReportInFlight, KeyboardForm
<1>1. ~ HidDequeue
  BY DEF HidDequeue, TakeReboot, TakeRebootBootloader, TakeMotion, TakeClick,
         TakeRelease, TakeLayerSwitch, TakeDelay, TakeKeys, TakeSidewaysScroll, Take
<1>2. CASE HidStep
  BY <1>1, <1>2 DEF HidStep, DelayOver, ClaimKeyboard, PressModifier, PressKey, PressSpills,
                    ReleaseModifier, ReleaseKey, ReleaseNothing, ApplyNext, HidSubmit
<1>3. CASE BusStep \/ Restart
  BY <1>3 DEF BusStep, ReportComplete, Mount, Suspend, Resume, BusReset, Restart, localVars,
              formVars
<1>4. CASE (\E m \in EventMessages : Produce(m)) \/ UNCHANGED vars
  BY <1>4 DEF Produce, vars, hidVars
<1> QED BY <1>2, <1>3, <1>4 DEF Next

(* A wedged gate is final: no later step of any task handles a message,    *)
(* changes the layer or the keys, or reboots the board.                    *)
THEOREM WedgeIsFinal == Spec => WedgedForGood
<1>1. OneReportInFlight /\ [Next]_vars
        => [Wedged /\ mode = "run" => Wedged' /\ mode' = "run" /\ layer' = layer
                                       /\ KeyboardForm' = KeyboardForm]_vars
  BY WedgedStep
<1> QED BY <1>1, GateCorrect, PTL DEF Spec, WedgedForGood
=============================================================================
