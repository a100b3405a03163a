---------------------------- MODULE MCEpollEcho ----------------------------
(* A small instance of the epoll echo servers for TLC, without symmetry: its    *)
(* run checks liveness too, which a symmetry reduction may not preserve.   *)
EXTENDS EpollEcho
=============================================================================
