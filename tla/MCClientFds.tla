---------------------------- MODULE MCClientFds ----------------------------
(* A small instance of the client queue for TLC, without symmetry: its    *)
(* run checks liveness too, which a symmetry reduction may not preserve.   *)
EXTENDS ClientFds
=============================================================================
