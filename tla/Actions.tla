------------------------------ MODULE Actions -------------------------------
(***************************************************************************)
(* The actions a key can be bound to (include/actions.h, src/actions.cc).  *)
(*                                                                         *)
(* A BoundAction is a record whose `type' is its class; Enqueue(a, bae) is *)
(* the list of messages its Enqueue method hands to xQueueSend, in order.  *)
(* How many of them find room in the queue is up to the caller of this     *)
(* module: every xQueueSend is a step of its own.                          *)
(***************************************************************************)
EXTENDS Messages, SequencesExt

BoundActionEnqueue == {"DO", "UNDO"}

(* Mutant: the keycodes as they are. *)
QueuedCodesWide(keycodes) ==
  [i \in 1 .. Min({Len(keycodes), KeyRollOver}) |-> keycodes[i]]
(* Keycodes are ints; a message holds the low byte of the first ones.  The *)
(* loop reads KEY_ROLL_OVER of them, behind the end of a shorter vector    *)
(* too; nobody looks at those, as `length' says how many there are.        *)
QueuedCodes(keycodes) ==
  [i \in 1 .. Min({Len(keycodes), KeyRollOver}) |-> keycodes[i] % 256]

Press(keycodes)   == <<[type |-> "PRESS",   codes |-> QueuedCodes(keycodes)]>>
Release(keycodes) == <<[type |-> "RELEASE", codes |-> QueuedCodes(keycodes)]>>

(* std::toupper, then the "really bad hack": letters are HID codes from 4 on. *)
Upper(c) == IF c \in 97 .. 122 THEN c - 32 ELSE c
TypedCode(c) == (4 + Upper(c) - 65) % 256
TypedCharacter(c) == Press(<<TypedCode(c)>>) \o Release(<<TypedCode(c)>>)
                       \o <<[type |-> "DELAY"]>>

(* Classes whose Enqueue has an empty body. *)
SilentAction ==
  {"GENERIC_LAYER", "TEMPORARY_LAYER", "LEAVE_LAYER", "TOGGLE_LAYER", "STRING_TYPER",
   "RESET_LAYER", "NOTHINGBURGER", "PASS_THROUGH", "RELOAD_KEYMAP", "GENERIC_MOUSE"}

Scroll(a) == <<[type |-> IF a.up_down THEN "MOUSE_SCROLL_UP_DOWN"
                                      ELSE "MOUSE_SCROLL_LEFT_RIGHT"]>>
Move(a)   == <<[type |-> IF a.up_down THEN "MOUSE_MOVE_UP_DOWN"
                                      ELSE "MOUSE_MOVE_LEFT_RIGHT"]>>

(* Classes that answer to DO only. *)
OnDo(a) ==
  CASE a.type = "PRESS_KEY"         -> Press(a.keycodes)
    [] a.type = "RELEASE_KEY"       -> Release(a.keycodes)
    [] a.type = "CLICK_KEY"         -> Press(a.keycodes) \o Release(a.keycodes)
    [] a.type = "DELAY"             -> <<[type |-> "DELAY"]>>
    [] a.type = "SWITCH_TO_LAYER"   -> <<[type |-> "LAYER_SWITCH", layer |-> a.target_layer]>>
    [] a.type = "NON_REPEATING_STRING_TYPER" ->
         FlattenSeq([i \in DOMAIN a.payload |-> TypedCharacter(a.payload[i])])
    [] a.type = "RESET_KEEB"        -> <<[type |-> "REBOOT"]>>
    [] a.type = "KEEB_BOOTLOADER"   -> <<[type |-> "REBOOT_BOOTLOADER"]>>
    [] a.type = "MOUSE_SCROLL"      -> Scroll(a)
    [] a.type = "MOUSE_MOVE"        -> Move(a)
    [] a.type \in SilentAction      -> <<>>

GenericKey(a, bae) == IF bae = "DO" THEN Press(a.keycodes) ELSE Release(a.keycodes)
MouseClick(a, bae) ==
  <<[type        |-> IF bae = "DO" THEN "MOUSE_CLICK" ELSE "MOUSE_RELEASE",
     mouse_click |-> a.button]>>

(* BoundAction::Enqueue of every class but SequenceAction, which the       *)
(* parser never puts inside another sequence.                              *)
EnqueueOne(a, bae) ==
  CASE a.type = "GENERIC_KEY" -> GenericKey(a, bae)
    [] a.type = "MOUSE_CLICK" -> MouseClick(a, bae)
    [] a.type \notin {"GENERIC_KEY", "MOUSE_CLICK"} -> IF bae = "DO" THEN OnDo(a) ELSE <<>>

Sequence(a) ==
  FlattenSeq([i \in DOMAIN a.sequence |-> EnqueueOne(a.sequence[i], "DO")
                                            \o EnqueueOne(a.sequence[i], "UNDO")])

Enqueue(a, bae) ==
  IF a.type # "SEQUENCE" THEN EnqueueOne(a, bae)
  ELSE IF bae = "DO" THEN Sequence(a) ELSE <<>>
=============================================================================
