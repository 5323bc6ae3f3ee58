------------------------------ MODULE Messages ------------------------------
(***************************************************************************)
(* The messages that travel through xEventQueue from the process-keys task *)
(* to the usb-hid task (include/queue_message.h).                          *)
(*                                                                         *)
(* A QueueMessage is a struct whose fields are only meaningful for some of *)
(* its types; here each type is a record with the fields that are written  *)
(* for it.  Durations and mouse distances are not kept: nothing branches   *)
(* on them.                                                                *)
(***************************************************************************)
EXTENDS Integers, Sequences

CONSTANTS
  KeyRollOver,  (* KEY_ROLL_OVER: slots of a keyboard report (6 in the code)  *)
  LayerIds      (* values `layer' can take: hashes of layer names, and 0      *)

ASSUME KeyRollOverAssumption == KeyRollOver \in Nat \ {0}

(* unsigned char, and the bits of one *)
Code == 0 .. 255
Bit  == 0 .. 7
Bits(byte) == {b \in Bit : (byte \div 2^b) % 2 = 1}

(* HID_KEY_CONTROL_LEFT .. HID_KEY_GUI_RIGHT; the i-th sets modifier bit i. *)
ModifierCode   == 224 .. 231
ModifierBit(c) == c - 224

CodeList == {s \in Seq(Code) : Len(s) <= KeyRollOver}

MotionType == {"MOUSE_MOVE_UP_DOWN", "MOUSE_MOVE_LEFT_RIGHT",
               "MOUSE_SCROLL_UP_DOWN", "MOUSE_SCROLL_LEFT_RIGHT"}

KeyEvent    == [type : {"PRESS", "RELEASE"}, codes : CodeList]
ButtonEvent == [type : {"MOUSE_CLICK", "MOUSE_RELEASE"}, mouse_click : Bit]
LayerEvent  == [type : {"LAYER_SWITCH"}, layer : LayerIds]
PlainEvent  == [type : MotionType \cup {"DELAY", "REBOOT", "REBOOT_BOOTLOADER"}]

QueueMessage == KeyEvent \cup ButtonEvent \cup LayerEvent \cup PlainEvent

(***************************************************************************)
(* xQueueSend on a queue of capacity n appends when there is room, and     *)
(* returns without the message once its timeout has passed on a full one;  *)
(* no caller looks at the result.                                          *)
(***************************************************************************)
HasRoom(queue, n) == Len(queue) < n
=============================================================================
