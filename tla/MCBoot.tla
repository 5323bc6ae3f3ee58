------------------------------- MODULE MCBoot -------------------------------
(* Constants for checking Boot: a drive of four sectors of one part, for   *)
(* two keymaps.                                                            *)
EXTENDS Boot

CONSTANTS Fn, Good, Bad, Throwing

MCKeymap   == {BaseLayer, Fn}
MCText     == {Good, Bad, Throwing}
MCWrong    == {Bad}
MCHalting  == {Throwing}
MCSectorOf == [f \in MCKeymap |-> IF f = BaseLayer THEN 3 ELSE 4]
MCDatum    == {Erased, BootRecord} \cup MCText \cup [label : BOOLEAN, files : SUBSET {BaseLayer, Fn, Readme}]
=============================================================================
