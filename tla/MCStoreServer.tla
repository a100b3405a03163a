---------------------------- MODULE MCStoreServer ----------------------------
(* A small instance of the storing server for TLC, without symmetry: its    *)
(* run checks liveness too, which a symmetry reduction may not preserve.   *)
EXTENDS StoreServer
=============================================================================
