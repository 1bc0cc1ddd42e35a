----------------------------- MODULE MCNutPower -----------------------------
(* Two keys, one of them ON, and two pictures of the display.              *)
EXTENDS NutPower

CONSTANTS A
MCKeys == {ON, A}
=============================================================================
