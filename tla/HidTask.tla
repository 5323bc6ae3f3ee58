------------------------------ MODULE HidTask -------------------------------
(***************************************************************************)
(* The usb-hid task (send_hid_report, src/main.cc), the completion         *)
(* callback the usb-device task runs, and the bus they talk to.            *)
(*                                                                         *)
(* Every 10 ms the task looks at one message of xEventQueue and, for most  *)
(* of them, hands one report to TinyUSB.  hid_send_complete closes the     *)
(* gate until the completion callback opens it again.                      *)
(*                                                                         *)
(* The usb-device task has the higher priority and the same core, so bus   *)
(* events and the callback may come between any two steps of this task.    *)
(* The tests at the head of send_hid_report, the receive and the           *)
(* `hid_send_complete = false' of the branch taken are one step: a bus     *)
(* event between them has the effect of one just before HidSubmit.         *)
(***************************************************************************)
EXTENDS Messages, FiniteSets

CONSTANTS
  EventQueueLength,  (* EVENT_QUEUE_LENGTH *)
  EventMessages,     (* what the environment of this task may queue *)
  BootLayer,         (* `layer' when the scheduler starts *)
  NoReport,          (* no report in the endpoint, or none seen by the host *)
  SpillTargets       (* what the linker may put behind keycode[] *)

ASSUME EventQueueAssumption ==
  /\ EventQueueLength \in Nat \ {0}
  /\ EventMessages \subseteq QueueMessage
  /\ BootLayer \in LayerIds

ASSUME SpillAssumption == SpillTargets \subseteq {"padding", "modifer", "mouse_buttons"}

VARIABLES
  eventQueue,         (* xEventQueue *)
  layer,              (* the current layer, read by the process-keys task *)
  hid_send_complete,  (* the gate *)
  keycode,            (* the key slots of the keyboard report *)
  modifer,            (* its modifier bits *)
  mouse_buttons,      (* the mouse buttons held *)
  hidPc,              (* where send_hid_report is *)
  msg,                (* the key message being applied, with the codes left *)
  report,             (* the report about to be handed to TinyUSB *)
  usb,                (* state of the bus *)
  ep,                 (* the report in the IN endpoint *)
  hostKeys,           (* last keyboard report the host has had since mounting *)
  hostMouse,          (* last mouse report it has had since mounting *)
  mode,               (* running, about to be reset, or in the boot ROM *)
  spill               (* what it did put there *)

busVars  == <<usb, ep, hostKeys, hostMouse>>
formVars == <<keycode, modifer, mouse_buttons>>
hidVars  == <<hid_send_complete, keycode, modifer, mouse_buttons, hidPc, msg, report,
              usb, ep, hostKeys, hostMouse, mode, spill>>
vars     == <<eventQueue, layer, hidVars>>

-----------------------------------------------------------------------------
Slot == 0 .. KeyRollOver - 1

KeyboardReport == [kind : {"keyboard"}, modifer : SUBSET Bit, keycode : [Slot -> Code]]
MouseReport    == [kind : {"mouse"}, buttons : SUBSET Bit]
Report         == KeyboardReport \cup MouseReport

ASSUME NoReportAssumption == NoReport \notin Report

NoKeys  == [s \in Slot |-> 0]
NoMsg   == [type |-> "NONE", codes |-> <<>>]
Applied == [type : {"NONE", "PRESS", "RELEASE", "MOUSE_SCROLL_LEFT_RIGHT"},
            codes : CodeList]

TypeOK ==
  /\ eventQueue \in Seq(QueueMessage) /\ Len(eventQueue) <= EventQueueLength
  /\ layer \in LayerIds
  /\ hid_send_complete \in BOOLEAN
  /\ keycode \in [Slot -> Code]
  /\ modifer \in SUBSET Bit
  /\ mouse_buttons \in SUBSET Bit
  /\ hidPc \in {"sleep", "delay", "apply", "submit"}
  /\ msg \in Applied
  /\ report \in Report \cup {NoReport}
  /\ usb \in {"reset", "mounted", "suspended"}
  /\ ep \in Report \cup {NoReport}
  /\ hostKeys \in KeyboardReport \cup {NoReport}
  /\ hostMouse \in MouseReport \cup {NoReport}
  /\ mode \in {"run", "rebooting", "bootloader"}
  /\ spill \in SpillTargets

(* RAM and bus at power-up. *)
Init ==
  /\ eventQueue = <<>>
  /\ layer = BootLayer
  /\ hid_send_complete = TRUE
  /\ keycode = NoKeys /\ modifer = {} /\ mouse_buttons = {}
  /\ hidPc = "sleep" /\ msg = NoMsg /\ report = NoReport
  /\ usb = "reset" /\ ep = NoReport /\ hostKeys = NoReport /\ hostMouse = NoReport
  /\ mode = "run"
  /\ spill \in SpillTargets

-----------------------------------------------------------------------------
(* tud_hid_ready: mounted, not suspended, and the endpoint not busy. *)
HidReady == usb = "mounted" /\ ep = NoReport

Running == mode # "bootloader"

(* Mutant: nobody looks at the gate. *)
TakeUngated(types) ==
  /\ hidPc = "sleep" /\ Running
  /\ HidReady
  /\ eventQueue # <<>> /\ Head(eventQueue).type \in types
  /\ eventQueue' = Tail(eventQueue)

Take(types) ==
  /\ hidPc = "sleep" /\ Running
  /\ HidReady /\ hid_send_complete
  /\ eventQueue # <<>> /\ Head(eventQueue).type \in types
  /\ eventQueue' = Tail(eventQueue)

(* Mutant: the gate is left open. *)
ClaimOpen(r) == UNCHANGED hid_send_complete /\ report' = r /\ hidPc' = "submit"

(* `hid_send_complete = false' and the call of tud_hid_*_report. *)
Claim(r) == hid_send_complete' = FALSE /\ report' = r /\ hidPc' = "submit"

MouseForm(buttons) == [kind |-> "mouse", buttons |-> buttons]
KeyboardForm == [kind |-> "keyboard", modifer |-> modifer, keycode |-> keycode]

(* Mutant: the layer is put back while the other tasks go on. *)
TakeRebootResetsLayer ==
  /\ Take({"REBOOT"})
  /\ mode' = "rebooting" /\ layer' = BootLayer
  /\ UNCHANGED <<hid_send_complete, formVars, hidPc, msg, report, busVars, spill>>

(* watchdog_reboot(0, 0, 100): the board goes on for 100 ms, then resets. *)
TakeReboot ==
  /\ Take({"REBOOT"})
  /\ mode' = "rebooting"
  /\ UNCHANGED <<layer, hid_send_complete, formVars, hidPc, msg, report, busVars, spill>>

(* reset_usb_boot does not return. *)
TakeRebootBootloader ==
  /\ Take({"REBOOT_BOOTLOADER"})
  /\ mode' = "bootloader"
  /\ UNCHANGED <<layer, hid_send_complete, formVars, hidPc, msg, report, busVars, spill>>

(* The test for sideways scrolling repeats the one for sideways moves. *)
TakeMotion ==
  /\ Take(MotionType \ {"MOUSE_SCROLL_LEFT_RIGHT"})
  /\ Claim(MouseForm({}))
  /\ UNCHANGED <<layer, formVars, msg, busVars, mode, spill>>

TakeClick ==
  /\ Take({"MOUSE_CLICK"})
  /\ mouse_buttons' = mouse_buttons \cup {Head(eventQueue).mouse_click}
  /\ Claim(MouseForm(mouse_buttons'))
  /\ UNCHANGED <<layer, keycode, modifer, msg, busVars, mode, spill>>

TakeRelease ==
  /\ Take({"MOUSE_RELEASE"})
  /\ mouse_buttons' = mouse_buttons \ {Head(eventQueue).mouse_click}
  /\ Claim(MouseForm(mouse_buttons'))
  /\ UNCHANGED <<layer, keycode, modifer, msg, busVars, mode, spill>>

TakeLayerSwitch ==
  /\ Take({"LAYER_SWITCH"})
  /\ layer' = Head(eventQueue).layer
  /\ UNCHANGED hidVars

(* vTaskDelay: the task blocks, everything else goes on. *)
TakeDelay ==
  /\ Take({"DELAY"})
  /\ hidPc' = "delay"
  /\ UNCHANGED <<layer, hid_send_complete, formVars, msg, report, busVars, mode, spill>>

DelayOver ==
  /\ hidPc = "delay" /\ Running
  /\ hidPc' = "sleep"
  /\ UNCHANGED <<eventQueue, layer, hid_send_complete, formVars, msg, report, busVars,
                 mode, spill>>

TakeKeys ==
  /\ Take({"PRESS", "RELEASE"})
  /\ msg' = Head(eventQueue) /\ hidPc' = "apply"
  /\ UNCHANGED <<layer, hid_send_complete, formVars, report, busVars, mode, spill>>

(* No branch is for this message: it falls through to the keyboard report. *)
TakeSidewaysScroll ==
  /\ Take({"MOUSE_SCROLL_LEFT_RIGHT"})
  /\ msg' = [type |-> "MOUSE_SCROLL_LEFT_RIGHT", codes |-> <<>>] /\ hidPc' = "apply"
  /\ UNCHANGED <<layer, hid_send_complete, formVars, report, busVars, mode, spill>>

-----------------------------------------------------------------------------
(* The two loops over the codes of a message, one iteration a step. *)
ApplyNext(type) ==
  /\ hidPc = "apply" /\ Running /\ msg.type = type /\ msg.codes # <<>>
  /\ msg' = [msg EXCEPT !.codes = Tail(@)]
  /\ UNCHANGED <<eventQueue, layer, hid_send_complete, hidPc, report, busVars, mode, spill>>

NextCode == Head(msg.codes)

(* The first slot that holds c, as the scan from slot 0 finds it. *)
FirstSlot(s, c) == keycode[s] = c /\ \A t \in 0 .. s - 1 : keycode[t] # c
Holds(c) == \E s \in Slot : keycode[s] = c

(* Mutant: the bit is counted from 0, not from HID_KEY_CONTROL_LEFT. *)
PressModifierRaw ==
  /\ ApplyNext("PRESS") /\ NextCode \in ModifierCode
  /\ modifer' = modifer \cup {NextCode}
  /\ UNCHANGED <<keycode, mouse_buttons>>

PressModifier ==
  /\ ApplyNext("PRESS") /\ NextCode \in ModifierCode
  /\ modifer' = modifer \cup {ModifierBit(NextCode)}
  /\ UNCHANGED <<keycode, mouse_buttons>>

(* Mutant: no break after the first free slot. *)
PressFillsAll ==
  /\ ApplyNext("PRESS") /\ NextCode \notin ModifierCode /\ Holds(0)
  /\ keycode' = [s \in Slot |-> IF keycode[s] = 0 THEN NextCode ELSE keycode[s]]
  /\ UNCHANGED <<modifer, mouse_buttons>>

PressKey ==
  /\ ApplyNext("PRESS") /\ NextCode \notin ModifierCode
  /\ \E s \in Slot : FirstSlot(s, 0) /\ keycode' = [keycode EXCEPT ![s] = NextCode]
  /\ UNCHANGED <<modifer, mouse_buttons>>

(* No slot is free: keycode[KEY_ROLL_OVER] is the byte behind the array. *)
PressSpills ==
  /\ ApplyNext("PRESS") /\ NextCode \notin ModifierCode /\ ~ Holds(0)
  /\ modifer' = IF spill = "modifer" THEN Bits(NextCode) ELSE modifer
  /\ mouse_buttons' = IF spill = "mouse_buttons" THEN Bits(NextCode) ELSE mouse_buttons
  /\ UNCHANGED keycode

ReleaseModifier ==
  /\ ApplyNext("RELEASE") /\ NextCode \in ModifierCode
  /\ modifer' = modifer \ {ModifierBit(NextCode)}
  /\ UNCHANGED <<keycode, mouse_buttons>>

ReleaseKey ==
  /\ ApplyNext("RELEASE") /\ NextCode \notin ModifierCode
  /\ \E s \in Slot : FirstSlot(s, NextCode) /\ keycode' = [keycode EXCEPT ![s] = 0]
  /\ UNCHANGED <<modifer, mouse_buttons>>

ReleaseNothing ==
  /\ ApplyNext("RELEASE") /\ NextCode \notin ModifierCode /\ ~ Holds(NextCode)
  /\ UNCHANGED formVars

ClaimKeyboard ==
  /\ hidPc = "apply" /\ Running /\ msg.codes = <<>>
  /\ msg' = NoMsg
  /\ Claim(KeyboardForm)
  /\ UNCHANGED <<eventQueue, layer, formVars, busVars, mode, spill>>

(* Mutant: when TinyUSB refuses the report the gate is opened again. *)
HidSubmitReopens ==
  /\ hidPc = "submit" /\ Running
  /\ \/ usb \in {"mounted", "suspended"} /\ ep = NoReport /\ ep' = report
        /\ UNCHANGED hid_send_complete
     \/ ~ HidReady /\ ep' = ep /\ hid_send_complete' = TRUE
  /\ report' = NoReport /\ hidPc' = "sleep"
  /\ UNCHANGED <<eventQueue, layer, formVars, msg, usb, hostKeys, hostMouse, mode, spill>>

(* TinyUSB takes the report or, off the bus, loses it; while suspended it  *)
(* may do either.  The result of the call is not looked at.                *)
HidSubmit ==
  /\ hidPc = "submit" /\ Running
  /\ \/ usb \in {"mounted", "suspended"} /\ ep = NoReport /\ ep' = report
     \/ ~ HidReady /\ ep' = ep
  /\ report' = NoReport /\ hidPc' = "sleep"
  /\ UNCHANGED <<eventQueue, layer, hid_send_complete, formVars, msg, usb, hostKeys,
                 hostMouse, mode, spill>>

(* Mutant: the callback does not open the gate. *)
ReportCompleteForgets ==
  /\ usb = "mounted" /\ Running /\ ep # NoReport
  /\ hostKeys'  = IF ep.kind = "keyboard" THEN ep ELSE hostKeys
  /\ hostMouse' = IF ep.kind = "mouse" THEN ep ELSE hostMouse
  /\ ep' = NoReport
  /\ UNCHANGED <<eventQueue, layer, hid_send_complete, formVars, hidPc, msg, report, usb,
                 mode, spill>>

(* Mutant: the callback looks at the kind of the report. *)
KeyboardReportComplete ==
  /\ usb = "mounted" /\ Running /\ ep # NoReport
  /\ hostKeys'  = IF ep.kind = "keyboard" THEN ep ELSE hostKeys
  /\ hostMouse' = IF ep.kind = "mouse" THEN ep ELSE hostMouse
  /\ ep' = NoReport
  /\ hid_send_complete' = (ep.kind = "keyboard" \/ hid_send_complete)
  /\ UNCHANGED <<eventQueue, layer, formVars, hidPc, msg, report, usb, mode, spill>>

-----------------------------------------------------------------------------
(* The host polls the endpoint; the usb-device task runs                   *)
(* tud_hid_report_complete_cb.                                             *)
ReportComplete ==
  /\ usb = "mounted" /\ Running /\ ep # NoReport
  /\ hostKeys'  = IF ep.kind = "keyboard" THEN ep ELSE hostKeys
  /\ hostMouse' = IF ep.kind = "mouse" THEN ep ELSE hostMouse
  /\ ep' = NoReport
  /\ hid_send_complete' = TRUE
  /\ UNCHANGED <<eventQueue, layer, formVars, hidPc, msg, report, usb, mode, spill>>

localVars == <<eventQueue, layer, hid_send_complete, formVars, hidPc, msg, report, mode, spill>>

Mount ==
  /\ usb = "reset" /\ Running
  /\ usb' = "mounted"
  /\ UNCHANGED <<localVars, ep, hostKeys, hostMouse>>

Suspend ==
  /\ usb = "mounted" /\ Running
  /\ usb' = "suspended"
  /\ UNCHANGED <<localVars, ep, hostKeys, hostMouse>>

(* On the host's initiative, or after the tud_remote_wakeup of this task. *)
Resume ==
  /\ usb = "suspended" /\ Running
  /\ usb' = "mounted"
  /\ UNCHANGED <<localVars, ep, hostKeys, hostMouse>>

(* A bus reset or an unplugged cable: the endpoint is closed without a     *)
(* callback, and the host forgets what it knew.                            *)
BusReset ==
  /\ usb # "reset" /\ Running
  /\ usb' = "reset" /\ ep' = NoReport
  /\ hostKeys' = NoReport /\ hostMouse' = NoReport
  /\ UNCHANGED localVars

(* Mutant: the slots and modifiers survive a reset. *)
RestartWarm ==
  /\ mode # "run"
  /\ eventQueue' = <<>>
  /\ layer' = BootLayer
  /\ hid_send_complete' = TRUE
  /\ hidPc' = "sleep" /\ msg' = NoMsg /\ report' = NoReport
  /\ usb' = "reset" /\ ep' = NoReport /\ hostKeys' = NoReport /\ hostMouse' = NoReport
  /\ mode' = "run"
  /\ UNCHANGED <<formVars, spill>>

(* The watchdog fires, or the boot ROM starts the firmware again: RAM is   *)
(* as at power-up, and the host enumerates the board anew.                 *)
Restart ==
  /\ mode # "run"
  /\ eventQueue' = <<>>
  /\ layer' = BootLayer
  /\ hid_send_complete' = TRUE
  /\ keycode' = NoKeys /\ modifer' = {} /\ mouse_buttons' = {}
  /\ hidPc' = "sleep" /\ msg' = NoMsg /\ report' = NoReport
  /\ usb' = "reset" /\ ep' = NoReport /\ hostKeys' = NoReport /\ hostMouse' = NoReport
  /\ mode' = "run"
  /\ UNCHANGED spill

(* The process-keys task queues a message. *)
Produce(m) ==
  /\ HasRoom(eventQueue, EventQueueLength) /\ Running
  /\ eventQueue' = Append(eventQueue, m)
  /\ UNCHANGED <<layer, hidVars>>

HidDequeue ==
  \/ TakeReboot \/ TakeRebootBootloader \/ TakeMotion \/ TakeClick \/ TakeRelease
  \/ TakeLayerSwitch \/ TakeDelay \/ TakeKeys \/ TakeSidewaysScroll

HidStep ==
  \/ HidDequeue
  \/ DelayOver
  \/ PressModifier \/ PressKey \/ PressSpills
  \/ ReleaseModifier \/ ReleaseKey \/ ReleaseNothing
  \/ ClaimKeyboard \/ HidSubmit

BusStep == ReportComplete \/ Mount \/ Suspend \/ Resume \/ BusReset

Next == HidStep \/ BusStep \/ Restart \/ (\E m \in EventMessages : Produce(m))

(* The task is periodic at the second highest priority, and a mounted host *)
(* polls the endpoint; nothing is promised of the rest of the bus.         *)
Fairness == WF_vars(HidStep) /\ WF_vars(ReportComplete)

Spec     == Init /\ [][Next]_vars
FairSpec == Spec /\ Fairness
-----------------------------------------------------------------------------
(* The gate is open only while no report is on its way, it is open while a *)
(* message is applied, and a report is handed over only to an idle         *)
(* endpoint: TinyUSB would drop a second one.                              *)
OneReportInFlight ==
  /\ hid_send_complete => ep = NoReport /\ hidPc # "submit"
  /\ hidPc \in {"apply", "delay"} => hid_send_complete
  /\ hidPc # "sleep" => ep = NoReport
  /\ hidPc = "submit" <=> report # NoReport

(* The host has had no keyboard report since it mounted the board, or the  *)
(* slots and modifiers as they are now.                                    *)
Synced == hostKeys \in {NoReport, KeyboardForm}

(* What the host has had once r has arrived. *)
SyncedBy(r) == IF r.kind = "keyboard" THEN r = KeyboardForm ELSE Synced

(* No change to the slots and modifiers is left unreported: with the gate  *)
(* open and no message half applied the host has seen them, and a report   *)
(* on its way, of either kind, does not leave it behind.                   *)
HostInSync ==
  /\ hid_send_complete /\ hidPc # "apply" => Synced
  /\ hidPc = "submit" => SyncedBy(report)
  /\ ep # NoReport => SyncedBy(ep)

(* The gate is closed, and no callback is due that would open it. *)
Wedged == ~ hid_send_complete /\ ep = NoReport /\ hidPc # "submit"

(* Only losing the bus wedges the gate: no order of messages, callbacks    *)
(* and task steps does while the board is mounted.                         *)
WedgeOnlyOffBus == [][~ Wedged /\ Wedged' => usb' # "mounted"]_vars

(* Once wedged the task handles no message again, not even the one that    *)
(* would reboot the board.                                                 *)
WedgedForGood ==
  [][Wedged /\ mode = "run" => Wedged' /\ mode' = "run" /\ layer' = layer
                               /\ KeyboardForm' = KeyboardForm]_vars

(* A gate that is not wedged opens again, or the bus is lost. *)
GateReopens ==
  (~ hid_send_complete /\ ~ Wedged) ~> (hid_send_complete \/ usb # "mounted" \/ ~ Running)

(* A board that stays mounted, unwedged and running. *)
Healthy == usb = "mounted" /\ mode = "run" /\ ~ Wedged

(* A comment at hid_send_complete says a bool works in place of a mutex:   *)
(* on a bus that comes back and stays, the gate should open again.         *)
BoolWorks == <>[](usb = "mounted" /\ mode = "run") => []<>hid_send_complete
=============================================================================
