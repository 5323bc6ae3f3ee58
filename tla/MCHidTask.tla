----------------------------- MODULE MCHidTask ------------------------------
(* Constants for checking HidTask: two slots, so that a third key spills.  *)
EXTENDS HidTask

CONSTANTS Base, Fn

KeyMsg(type, codes) == [type |-> type, codes |-> codes]

(* One key, and a modifier with another key.  Two messages with the first  *)
(* key fill the slots: the second key then has none.                       *)
MCEventMessages ==
  {KeyMsg("PRESS", <<4>>), KeyMsg("RELEASE", <<4>>),
   KeyMsg("PRESS", <<225, 5>>), KeyMsg("RELEASE", <<225, 5>>),
   [type |-> "MOUSE_CLICK", mouse_click |-> 0],
   [type |-> "MOUSE_RELEASE", mouse_click |-> 0],
   [type |-> "LAYER_SWITCH", layer |-> Fn],
   [type |-> "DELAY"], [type |-> "MOUSE_MOVE_UP_DOWN"],
   [type |-> "MOUSE_SCROLL_LEFT_RIGHT"],
   [type |-> "REBOOT"], [type |-> "REBOOT_BOOTLOADER"]}

(* For liveness. *)
FewMessages ==
  {KeyMsg("PRESS", <<4>>), [type |-> "DELAY"], [type |-> "MOUSE_CLICK", mouse_click |-> 0],
   [type |-> "LAYER_SWITCH", layer |-> Fn]}

AnyTarget == {"padding", "modifer", "mouse_buttons"}

MCLayerIds == {Base, Fn}
=============================================================================
