----------------------------- MODULE MCFexware ------------------------------
(* Constants for checking Fexware: two keys. *)
EXTENDS Fexware, TLC

CONSTANTS Base, Fn

Letter(code) == [type |-> "GENERIC_KEY", keycodes |-> <<code>>]
Two          == [type |-> "SEQUENCE", sequence |-> <<Letter(4), Letter(5)>>]
To(l)        == [type |-> "SWITCH_TO_LAYER", target_layer |-> l]
Reset        == [type |-> "RESET_KEEB"]

(* Through an instance of their own, as the instance of KeyTask takes its   *)
(* keymaps from here.                                                      *)
L == INSTANCE Layer
Tap(l, key, action) == L!Bind(l, key, action, "PRESS")
Long(l, key, action) == L!Bind(l, key, action, "HOLD")

MCKeys     == [p \in 1 .. NumPositions |-> p]
MCLayerIds == {Base, Fn}
BaseOnly   == {Base}
EveryTick  == {1}
NoFaults   == {}
BothHalves == {{1}, {2}}
Padding    == {"padding"}
Modifiers  == {"modifer"}

(* Two keys with one letter. *)
SameLetter   == Base :> Tap(Tap(L!EmptyLayer, 1, Letter(4)), 2, Letter(4))
(* A letter and a change of layer; there the same key reboots the board. *)
LetterThenReset ==
  (Base :> Tap(L!EmptyLayer, 1, [type |-> "SEQUENCE", sequence |-> <<Letter(4), To(Fn)>>]))
    @@ (Fn :> Tap(L!EmptyLayer, 1, Reset))
(* A tap types a letter, a hold leads to a layer without letters. *)
LetterOrLayer ==
  (Base :> Long(Tap(L!EmptyLayer, 1, Letter(4)), 1, To(Fn)))
    @@ (Fn :> Long(L!EmptyLayer, 1, To(Base)))
(* A key that types two letters. *)
TwoLetters   == Base :> Tap(L!EmptyLayer, 1, Two)
OneLetter    == Base :> Tap(L!EmptyLayer, 1, Letter(4))

(* Once a message is lost, NoStuckKey and SlotForEveryKey say nothing more. *)
NothingLost == ~ lost

(* The keys of SameLetter, one code each, are no more than the slots: as    *)
(* long as no message is lost, every press finds a slot and none is written *)
(* behind them, in whatever order the keys go down and up (main.cc 679).    *)
SlotForEveryKey == ~ lost => ~ overrun

(* No two letters of TwoLetters are down at once. *)
SequenceKeysApart == ~ Together(4, 5)

(* A comment at `layer' says it needs no mutex, as only one task uses it:  *)
(* a change of layer should then leave no key behind.                      *)
LayerNeedsNoMutex == layer # BootLayer => NoStuckKey
=============================================================================
