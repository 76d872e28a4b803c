----------------------------- MODULE MCRumbleDriver -----------------------------
(* RumbleDriver with the motors off, by 0 or by a magnitude lost in the shift, *)
(* weak and at full strength.                                                  *)
EXTENDS RumbleDriver

MCMagnitudes == {0, 255, 256, 65535}
================================================================================
