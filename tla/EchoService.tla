---------------------------- MODULE EchoService ----------------------------
(***************************************************************************)
(* What an echo server promises (the comments of echo_mpclient.c:58-77 and *)
(* echo_EPETserv.c:64-65): what a client sends comes back, nothing else    *)
(* does, and a client that has said that it is done is closed when it has  *)
(* everything back.                                                        *)
(***************************************************************************)
EXTENDS Naturals

CONSTANT Conn

VARIABLES
    asked,    \* asked[c]: units the client has sent
    returned, \* returned[c]: units that have come back
    state     \* state[c]: "open", "ended" by the client, "closed", or "lost"

vars == <<asked, returned, state>>

Init ==
    /\ asked = [c \in Conn |-> 0] /\ returned = [c \in Conn |-> 0]
    /\ state = [c \in Conn |-> "open"]

Ask(c) ==
    /\ state[c] = "open"
    /\ asked' = [asked EXCEPT ![c] = @ + 1]
    /\ UNCHANGED <<returned, state>>

Return(c) ==
    /\ state[c] \in {"open", "ended"}
    /\ \E n \in (returned[c] + 1)..asked[c] : returned' = [returned EXCEPT ![c] = n]
    /\ UNCHANGED <<asked, state>>

End(c) ==
    /\ state[c] = "open"
    /\ state' = [state EXCEPT ![c] = "ended"]
    /\ UNCHANGED <<asked, returned>>

Close(c) ==
    /\ state[c] = "ended" /\ returned[c] = asked[c]
    /\ state' = [state EXCEPT ![c] = "closed"]
    /\ UNCHANGED <<asked, returned>>

(* The client is killed.                                                   *)
Lose(c) ==
    /\ state[c] \in {"open", "ended"}
    /\ state' = [state EXCEPT ![c] = "lost"]
    /\ UNCHANGED <<asked, returned>>

Next == \E c \in Conn : Ask(c) \/ Return(c) \/ End(c) \/ Close(c) \/ Lose(c)

Spec == Init /\ [][Next]_vars
=============================================================================
