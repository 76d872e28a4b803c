-------------------------------- MODULE MCDaemon --------------------------------
(* Daemon with the four init commands of the code, two packets that fit the    *)
(* buffer (sixty-four), one of which is drained (ten), and one retry (ten).    *)
EXTENDS Daemon
================================================================================
