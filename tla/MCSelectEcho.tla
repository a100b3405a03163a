--------------------------- MODULE MCSelectEcho ---------------------------
(* A small instance of the select server and its clients for TLC.          *)
EXTENDS SelectEcho, TLC

CONSTANTS c1, c2

TwoFds == {4, 5}

(* One more than the way there and back holds; two reads of the server.    *)
Lines == c1 :> 6 @@ c2 :> 2
=============================================================================
