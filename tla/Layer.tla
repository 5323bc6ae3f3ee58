------------------------------- MODULE Layer --------------------------------
(***************************************************************************)
(* fex::Layer (include/layer.h, src/layer.cc): what each key of a layer is *)
(* bound to.  `bindings' is a function from <<key, operation>> to actions. *)
(***************************************************************************)
EXTENDS Actions

Operation == {"PRESS", "CLICK", "HOLD", "DOUBLE_CLICK", "RELEASE"}

(* A default-constructed Layer. *)
EmptyLayer == [on_hold_bound |-> FALSE, bindings |-> <<>>]

(* The function f, with v at x. *)
With(f, x, v) == [y \in DOMAIN f \cup {x} |-> IF y = x THEN v ELSE f[y]]

Bound(l, key, op) == <<key, op>> \in DOMAIN l.bindings

(* Mutant: insert_or_assign. *)
BindLast(l, key, action, op) ==
  [on_hold_bound |-> l.on_hold_bound \/ op = "HOLD",
   bindings      |-> With(l.bindings, <<key, op>>, action)]
(* unordered_map::insert leaves an entry that is already there alone, and  *)
(* the flag is never cleared.                                              *)
Bind(l, key, action, op) ==
  [on_hold_bound |-> l.on_hold_bound \/ op = "HOLD",
   bindings      |-> IF Bound(l, key, op) THEN l.bindings
                     ELSE With(l.bindings, <<key, op>>, action)]

LayerEnqueue(l, key, op, bae) ==
  IF Bound(l, key, op) THEN Enqueue(l.bindings[<<key, op>>], bae) ELSE <<>>
=============================================================================
