-------------------------------- MODULE MCDriver --------------------------------
(* Driver with the motors off, by 0 or by a magnitude lost in the shift, and   *)
(* at full strength; with and without an interrupt OUT endpoint.               *)
EXTENDS Driver

MCMagnitudes == {0, 255, 65535}
================================================================================
