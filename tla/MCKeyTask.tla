----------------------------- MODULE MCKeyTask ------------------------------
(* Constants for checking KeyTask: two keys. *)
EXTENDS KeyTask

CONSTANTS Plain, Base, Fn

To(l)   == [type |-> "SWITCH_TO_LAYER", target_layer |-> l]
Nothing == [type |-> "NOTHINGBURGER"]

MCKeys == [p \in Position |-> p]

(* A tap of key 2 leads to another layer. *)
PlainKeymap(l) == Bind(EmptyLayer, 2, To(l), "PRESS")

(* From a plain keymap, which is never come back to, to one where a tap and *)
(* a hold of key 1 lead to a third, where holds of both keys do nothing.    *)
HoldLayers ==
  (Plain :> PlainKeymap(Base))
    @@ (Base :> Bind(Bind(EmptyLayer, 1, To(Fn), "PRESS"), 1, To(Fn), "HOLD"))
    @@ (Fn :> Bind(Bind(EmptyLayer, 1, Nothing, "HOLD"), 2, Nothing, "HOLD"))
HoldLayerIds == {Plain, Base, Fn}

(* A tap of key 2 leads from a layer to the other; holds are bound in Base  *)
(* only.                                                                    *)
MixedLayers ==
  (Base :> Bind(Bind(PlainKeymap(Fn), 1, Nothing, "HOLD"), 2, To(Fn), "HOLD"))
    @@ (Fn :> PlainKeymap(Base))
MixedLayerIds == {Base, Fn}
EveryTick     == {1}
=============================================================================
