------------------------------ MODULE MCFabric ------------------------------
(* Instances of Fabric for TLC; the constants are given in the .cfg files.   *)
EXTENDS Fabric
=============================================================================
