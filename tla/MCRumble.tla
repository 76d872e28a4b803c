-------------------------------- MODULE MCRumble --------------------------------
(* Rumble with two effects and two magnitudes, one of which (255) is lost in   *)
(* the shift to eight bits.                                                    *)
EXTENDS Rumble

MCEffects == 0 .. 1
MCMagnitudes == {255, 65535}
================================================================================
