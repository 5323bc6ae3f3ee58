------------------------------ MODULE Fexware -------------------------------
(***************************************************************************)
(* The running firmware (src/main.cc): poll-keys and usb-hid on core 0,    *)
(* process-keys on core 1, coupled by xKeyQueue, xEventQueue and the plain *)
(* global `layer'.  Tasks and callbacks interleave step by step; a reboot  *)
(* takes all of them down at once.                                         *)
(***************************************************************************)
EXTENDS Messages

CONSTANTS
  EventQueueLength, BootLayer, NoReport, SpillTargets,
  NumPositions, KeyQueueLength, TickModulus, PollSteps, FaultyHalves,
  keys, Layers, Hold

VARIABLES
  (* shared *)       layer, eventQueue,
  (* poll-keys *)    matrix, ticks, keyQueue,
  (* process-keys *) keyPc, keyPos, current, previous, now, timeouts, calls, sends, dos,
  (* usb-hid *)      hid_send_complete, keycode, modifer, mouse_buttons, hidPc, msg, report,
                     usb, ep, hostKeys, hostMouse, mode, spill,
  (* history *)      lost,       (* a full event queue has cost a message *)
                     overrun     (* a key has been written over modifer or mouse_buttons *)

Key == INSTANCE KeyTask

(* Every message some binding of some keymap sends. *)
Sendable ==
  UNION {Key!ToSet(Key!LayerEnqueue(Layers[l], k, op, bae)) :
           l \in DOMAIN Layers, k \in Key!KeyNumber, op \in {"PRESS", "HOLD"},
           bae \in Key!BoundActionEnqueue}

(* What the keymap parser has bound sends messages, and nothing else. *)
ASSUME KeymapsAssumption ==
  \A l \in DOMAIN Layers :
    /\ Layers[l].on_hold_bound \in BOOLEAN
    /\ \A k \in Key!KeyNumber, op \in {"PRESS", "HOLD"}, bae \in Key!BoundActionEnqueue :
         Key!LayerEnqueue(Layers[l], k, op, bae) \in Seq(QueueMessage)

Hid == INSTANCE HidTask WITH EventMessages <- Sendable

(* What the modules of the tasks assume of their parameters. *)
ASSUME SizesAssumption ==
  /\ NumPositions \in Nat \ {0} /\ KeyQueueLength \in Nat \ {0}
  /\ TickModulus \in Nat \ {0} /\ EventQueueLength \in Nat \ {0} /\ Hold \in Nat
  /\ PollSteps \subseteq Nat /\ FaultyHalves \subseteq SUBSET Key!Position

ASSUME BoardAssumption ==
  /\ DOMAIN keys = Key!Position
  /\ DOMAIN Layers \subseteq LayerIds /\ BootLayer \in LayerIds
  /\ SpillTargets \subseteq {"padding", "modifer", "mouse_buttons"}
  /\ NoReport \notin Hid!Report

keyVars == <<matrix, ticks, keyQueue, keyPc, keyPos, current, previous, now, timeouts,
             calls, sends, dos>>
hidVars == <<hid_send_complete, keycode, modifer, mouse_buttons, hidPc, msg, report,
             usb, ep, hostKeys, hostMouse, mode, spill>>
vars    == <<layer, eventQueue, keyVars, hidVars, lost, overrun>>

Init == Key!Init /\ Hid!Init /\ lost = FALSE /\ overrun = FALSE

(* A message has left its sender without getting into the queue. *)
Loses == sends # <<>> /\ sends' # sends /\ eventQueue' = eventQueue

KeySide ==
  /\ Hid!Running
  /\ Key!KeyStep
  /\ lost' = (lost \/ Loses)
  /\ UNCHANGED <<hidVars, overrun>>

MatrixSide ==
  /\ Hid!Running
  /\ Key!MatrixStep
  /\ UNCHANGED <<hidVars, lost, overrun>>

(* A press that finds no slot free hits something behind the slots. *)
Overruns == Hid!PressSpills /\ spill # "padding"

HidSide ==
  /\ Hid!HidStep \/ Hid!BusStep
  /\ overrun' = (overrun \/ Overruns)
  /\ UNCHANGED <<keyVars, lost>>

Reboot == Hid!Restart /\ Key!Restarted /\ lost' = FALSE /\ overrun' = FALSE

Next == KeySide \/ MatrixSide \/ HidSide \/ Reboot

(* The scheduler runs every task, and the host polls a mounted board; the  *)
(* rest of the bus, the keys and the boot ROM owe nothing.                 *)
Fairness ==
  /\ WF_vars(KeySide)
  /\ WF_vars(MatrixSide /\ Key!PollStep)
  /\ WF_vars(HidSide /\ Hid!HidStep)
  /\ WF_vars(HidSide /\ Hid!ReportComplete)

Spec     == Init /\ [][Next]_vars
FairSpec == Spec /\ Fairness
-----------------------------------------------------------------------------
(* The usb-hid task and the keyboard side behave, inside the firmware, as  *)
(* the modules about them say: what is shown there holds here.             *)
HidTaskSpec == Hid!Spec
KeyTaskSpec == Key!Spec

(* Nobody touches a key, and all that was queued has been dealt with. *)
AtRest ==
  /\ matrix = {} /\ previous = {} /\ keyPc = "receive" /\ calls = <<>> /\ sends = <<>>
  /\ eventQueue = <<>> /\ hidPc = "sleep" /\ hid_send_complete

NothingHeld == keycode = Hid!NoKeys /\ modifer = {} /\ mouse_buttons = {}

(* A keyboard at rest holds no key, unless the event queue overflowed or a *)
(* press was written over the modifiers or buttons: not in its slots, and  *)
(* not as the host sees it.                                                *)
NoStuckKey ==
  AtRest /\ ~ lost /\ ~ overrun => /\ NothingHeld
                                    /\ hostKeys \in {NoReport, Hid!KeyboardForm}

(* The gate of the usb-hid task opens again, or the bus is lost. *)
GateReopens == Hid!GateReopens

(* Keys that stay as they are get through to the scan, even if the key     *)
(* queue was full on the way.                                              *)
ScanCatchesUp ==
  \A m \in SUBSET Key!Position :
    <>[](matrix = m /\ mode = "run") => <>[](previous = m)

(* Once all keys are up for good, on a bus that works, with no message     *)
(* lost and no press written over the modifiers, the host comes to see no  *)
(* key held.                                                               *)
HostSeesNoKey ==
  hostKeys = NoReport \/ (hostKeys.modifer = {} /\ hostKeys.keycode = Hid!NoKeys)

HostLetsGo ==
  <>[](matrix = {} /\ Hid!Healthy /\ ~ lost /\ ~ overrun) => <>[]HostSeesNoKey

(* A sequence types its keys one after the other: a comment at             *)
(* SequenceAction says they should not be pressed at the same time.        *)
Together(c, d) == Hid!Holds(c) /\ Hid!Holds(d)
=============================================================================
