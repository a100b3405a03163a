---------------------------- MODULE MCChatServer ----------------------------
(* A small instance of the chat server for TLC: one descriptor more than   *)
(* there are clients, so that numbers are reused.                          *)
EXTENDS ChatServer

ThreeFds == {4, 5, 6}
=============================================================================
