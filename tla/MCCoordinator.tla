--------------------------- MODULE MCCoordinator ---------------------------
(* Instances of Coordinator for TLC; the constants are in the .cfg files.    *)
EXTENDS Coordinator
=============================================================================
