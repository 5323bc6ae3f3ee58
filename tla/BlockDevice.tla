---------------------------- MODULE BlockDevice -----------------------------
(***************************************************************************)
(* What the keymap drive promises whoever writes to it: a write is in the  *)
(* disk once it returns, whatever sectors the writes before it went to,    *)
(* and a power cut costs at most one sector, the one written last.         *)
(***************************************************************************)
CONSTANTS Sector, Part, Datum, NoSector

VARIABLES
  disk,      (* the contents of every sector, as its writers know them *)
  unsettled  (* the sector a power cut would cost, or NoSector *)

vars == <<disk, unsettled>>

Contents == [Part -> Datum]
Overwritten(contents, parts, d) == [p \in Part |-> IF p \in parts THEN d ELSE contents[p]]

Init == disk \in [Sector -> Contents] /\ unsettled = NoSector

Write(s, parts, d) ==
  /\ unsettled \in {s, NoSector}
  /\ disk' = [disk EXCEPT ![s] = Overwritten(@, parts, d)]
  /\ unsettled' = s

Settle == unsettled' = NoSector /\ UNCHANGED disk

PowerCut ==
  /\ \/ UNCHANGED disk
     \/ \E s \in Sector, c \in Contents : s = unsettled /\ disk' = [disk EXCEPT ![s] = c]
  /\ unsettled' = NoSector

Next == \/ Settle \/ PowerCut
        \/ \E s \in Sector, parts \in SUBSET Part, d \in Datum : Write(s, parts, d)

Spec == Init /\ [][Next]_vars
=============================================================================
