----------------------------- MODULE MCRollover -----------------------------
(* Three buttons of the HP-35 with their numbers and keycodes in 35.kml:   *)
(* the number of the third is the keycode of the second.                   *)
EXTENDS Rollover, TLC

HP35Keycode == (0 :> 11) @@ (1 :> 12) @@ (12 :> 33)
HP35Buttons == {0, 1, 12}
=============================================================================
