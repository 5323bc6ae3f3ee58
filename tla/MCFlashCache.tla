---------------------------- MODULE MCFlashCache ----------------------------
(* Constants for checking FlashCache: two sectors of two parts each.       *)
EXTENDS FlashCache

CONSTANTS d1, d2

MCDatum == {Erased, d1, d2}
=============================================================================
