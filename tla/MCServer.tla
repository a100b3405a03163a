----------------------------- MODULE MCServer -----------------------------
(* Small instances of the server for TLC.                                  *)
EXTENDS Server, TLC

(* Connections and workers are interchangeable; descriptors are not, the   *)
(* kernel gives out the lowest.                                            *)
Symmetry == Permutations(Conn) \cup Permutations(Worker)

(* The descriptors left to the process: fewer than the connections, so     *)
(* numbers are reused and accept fails at the limit.                       *)
TwoFds == {4, 5}
=============================================================================
