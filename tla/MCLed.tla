------------------------------- MODULE MCLed -------------------------------
(* The lamp with the thirty callbacks of its green blinking.                 *)
EXTENDS Led

MCShines == 30
=============================================================================
