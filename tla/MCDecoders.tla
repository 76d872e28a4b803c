------------------------------- MODULE MCDecoders -------------------------------
(* Decoders with every pair of bits, at the ends of the sticks, at rest and a  *)
(* step from the ends, and with reports at and around each length tested.      *)
EXTENDS Decoders

MCSizes == {13, 14, 16, 17, 20, 28, 29}
MCRaws == {-32768, -32767, 0, 32767}
================================================================================
