------------------------------ MODULE MCStream ------------------------------
(* Instances of Stream for TLC: the peers' frames are all of six units.     *)
EXTENDS Stream
=============================================================================
