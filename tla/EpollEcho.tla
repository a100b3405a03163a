----------------------------- MODULE EpollEcho -----------------------------
(***************************************************************************)
(* The single-threaded echo servers of bookcode/chapter17: echo_EPLTserv   *)
(* (level-triggered epoll, blocking sockets, one read per event) and       *)
(* echo_EPETserv (edge-triggered, non-blocking sockets, reads until        *)
(* EAGAIN).                                                                *)
(*                                                                         *)
(* A client sends, and ends by shutdown(SHUT_WR) as chapter10's            *)
(* echo_mpclient does; it reads every echo.  A descriptor number reused    *)
(* after close never has an event left in the same batch, so a socket is   *)
(* named by its connection.                                                *)
(*                                                                         *)
(* A definition Op_Fault is Op with a fault a programmer could make; it is *)
(* used only to test that the properties notice it.                        *)
(***************************************************************************)
EXTENDS Naturals, Sequences, FiniteSets

CONSTANTS
    Conn,          \* connections clients make
    Listener,      \* server_sock
    NoConn,        \* no event under way
    BUF_SIZE,      \* units one read takes at most
    EPOLL_SIZE,    \* events one epoll_wait reports at most
    MaxSent,       \* bound on the units a client sends
    Ending         \* the clients that may end

ASSUME CountAssumption ==
    BUF_SIZE \in Nat \ {0} /\ EPOLL_SIZE \in Nat \ {0} /\ MaxSent \in Nat
ASSUME NameAssumption ==
    Listener \notin Conn /\ NoConn \notin Conn /\ Ending \subseteq Conn

VARIABLES
    edge,     \* which program runs: TRUE echo_EPETserv, FALSE echo_EPLTserv
    client,   \* client[c]: the peer's side of the connection
    server,   \* server[c]: the server's side of it
    sent,     \* sent[c]: units the client has sent
    inbox,    \* inbox[c]: units received and not yet read
    backlog,  \* connections waiting for accept, oldest first
    interest, \* sockets registered with epoll (the listener always is)
    ready,    \* epoll's ready list
    mpc,      \* what the server does: wait, batch or (edge-triggered) read
    events,   \* events of the batch not yet handled
    current   \* the socket the edge-triggered loop reads

netVars == <<client, sent>>
loopVars == <<mpc, events, current>>
vars == <<edge, netVars, server, inbox, backlog, interest, ready, loopVars>>

TypeOK ==
    /\ edge \in BOOLEAN
    /\ client \in [Conn -> {"new", "open", "half"}]
    /\ server \in [Conn -> {"none", "backlog", "open", "closed"}]
    /\ sent \in [Conn -> 0..MaxSent] /\ inbox \in [Conn -> Nat]
    /\ backlog \in Seq(Conn)
    /\ interest \subseteq Conn
    /\ ready \subseteq interest \cup {Listener}
    /\ mpc \in {"wait", "batch", "read"}
    /\ events \subseteq Conn \cup {Listener}
    /\ current \in Conn \cup {NoConn}

Init ==
    /\ edge \in BOOLEAN
    /\ client = [c \in Conn |-> "new"] /\ server = [c \in Conn |-> "none"]
    /\ sent = [c \in Conn |-> 0] /\ inbox = [c \in Conn |-> 0]
    /\ backlog = <<>>
    /\ interest = {} /\ ready = {}
    /\ mpc = "wait" /\ events = {} /\ current = NoConn

-----------------------------------------------------------------------------
(* Clients (external).  What arrives for a registered descriptor puts it   *)
(* on the ready list.                                                      *)

Connect(c) ==
    /\ client[c] = "new"
    /\ client' = [client EXCEPT ![c] = "open"]
    /\ server' = [server EXCEPT ![c] = "backlog"]
    /\ backlog' = Append(backlog, c)
    /\ ready' = ready \cup {Listener}
    /\ UNCHANGED <<edge, sent, inbox, interest, loopVars>>

Arrives(c) == ready' = ready \cup ({c} \cap interest)

Send(c) ==
    /\ client[c] = "open" /\ sent[c] < MaxSent
    /\ sent' = [sent EXCEPT ![c] = @ + 1]
    /\ inbox' = [inbox EXCEPT ![c] = @ + 1]
    /\ Arrives(c)
    /\ UNCHANGED <<edge, client, server, backlog, interest, loopVars>>

Shutdown(c) ==
    /\ client[c] = "open" /\ c \in Ending
    /\ client' = [client EXCEPT ![c] = "half"]
    /\ Arrives(c)
    /\ UNCHANGED <<edge, sent, server, inbox, backlog, interest, loopVars>>

-----------------------------------------------------------------------------
(* The event loop                                                          *)

Readable(c) == inbox[c] > 0 \/ client[c] = "half"

(* What epoll_wait finds ready when it looks through its list.             *)
Reportable == {x \in ready : IF x = Listener THEN backlog # <<>> ELSE Readable(x)}

(* event.events: EPOLLIN, or EPOLLIN | EPOLLET.                            *)
EdgeMask_Always == TRUE
EdgeMask == edge

(* A level-triggered descriptor goes back on the ready list when it is     *)
(* reported, an edge-triggered one does not.                               *)
EpollWait ==
    /\ mpc = "wait" /\ Reportable # {}
    /\ \E E \in SUBSET Reportable :
          /\ Cardinality(E) = (IF Cardinality(Reportable) < EPOLL_SIZE
                               THEN Cardinality(Reportable) ELSE EPOLL_SIZE)
          /\ events' = E
          /\ ready' = IF EdgeMask THEN Reportable \ E ELSE Reportable
    /\ mpc' = "batch"
    /\ UNCHANGED <<edge, netVars, server, inbox, backlog, interest, current>>

BatchDone ==
    /\ mpc = "batch" /\ events = {}
    /\ mpc' = "wait"
    /\ UNCHANGED <<edge, netVars, server, inbox, backlog, interest, ready, events, current>>

(* EPOLL_CTL_ADD reports a descriptor that is readable already.            *)
Registered(c) == interest \cup {c}

(* One accept per event, then EPOLL_CTL_ADD of the new socket.             *)
Accept ==
    /\ mpc = "batch" /\ Listener \in events
    /\ events' = events \ {Listener}
    /\ backlog # <<>>
    /\ LET c == Head(backlog) IN
          /\ server' = [server EXCEPT ![c] = "open"]
          /\ interest' = Registered(c)
          /\ ready' = ready \cup (IF Readable(c) THEN {c} \cap interest' ELSE {})
    /\ backlog' = Tail(backlog)
    /\ UNCHANGED <<edge, netVars, inbox, mpc, current>>

(* read() > 0 followed by write() of the same bytes.                       *)
ReadLen_OneMore(c) == BUF_SIZE + 1
ReadLen(c) == IF inbox[c] < BUF_SIZE THEN inbox[c] ELSE BUF_SIZE

Echo(c) ==
    /\ inbox[c] > 0
    /\ inbox' = [inbox EXCEPT ![c] = @ - ReadLen(c)]
    /\ UNCHANGED <<server, interest, ready>>

EndOfFile_Ignored(c) == FALSE
EndOfFile_Early(c) == client[c] = "half"
EndOfFile(c) == inbox[c] = 0 /\ client[c] = "half"

(* EPOLL_CTL_DEL and close.                                                *)
Close(c) ==
    /\ server' = [server EXCEPT ![c] = "closed"]
    /\ interest' = interest \ {c}
    /\ ready' = ready \ {c}
    /\ UNCHANGED inbox

(* echo_EPLTserv: one read.  Its data or its end of file was there when    *)
(* epoll_wait looked, so the read of the blocking socket returns.          *)
LevelEvent(c) ==
    /\ ~edge
    /\ mpc = "batch" /\ c \in events \ {Listener}
    /\ events' = events \ {c}
    /\ IF EndOfFile(c)
       THEN Close(c)
       ELSE Echo(c)
    /\ UNCHANGED <<edge, netVars, backlog, mpc, current>>

(* echo_EPETserv: reads in a loop.                                         *)
EdgeEvent(c) ==
    /\ edge
    /\ mpc = "batch" /\ c \in events \ {Listener}
    /\ events' = events \ {c}
    /\ current' = c
    /\ mpc' = "read"
    /\ UNCHANGED <<edge, netVars, server, inbox, backlog, interest, ready>>

AfterRead_Leaves == "batch"
AfterRead == "read"

ReadData ==
    /\ mpc = "read" /\ server[current] = "open"
    /\ Echo(current)
    /\ mpc' = AfterRead
    /\ UNCHANGED <<edge, netVars, backlog, events, current>>

(* EAGAIN                                                                  *)
ReadNothing ==
    /\ mpc = "read" /\ server[current] = "open"
    /\ inbox[current] = 0 /\ client[current] = "open"
    /\ mpc' = "batch"
    /\ current' = NoConn
    /\ UNCHANGED <<edge, netVars, server, inbox, backlog, interest, ready, events>>

(* The branch of len == 0 closes the socket and stays in the loop, where   *)
(* each further read returns -1 with EBADF and changes nothing.            *)
ReadEnd ==
    /\ mpc = "read" /\ server[current] = "open"
    /\ EndOfFile(current)
    /\ Close(current)
    /\ UNCHANGED <<edge, netVars, backlog, loopVars>>

ServerStep ==
    \/ EpollWait \/ BatchDone \/ Accept
    \/ \E c \in Conn : LevelEvent(c) \/ EdgeEvent(c)
    \/ ReadData \/ ReadNothing \/ ReadEnd

ClientStep(c) == Connect(c) \/ Send(c) \/ Shutdown(c)

Next == ServerStep \/ \E c \in Conn : ClientStep(c)

Spec == Init /\ [][Next]_vars

(* The server process runs; nothing makes a client do anything.            *)
FairSpec == Spec /\ WF_vars(ServerStep)

-----------------------------------------------------------------------------
(* Properties                                                              *)

(* No readiness is lost: a socket with something to read is still to be    *)
(* reported, reported, or being read (echo_EPETserv.c:64-65: "must read    *)
(* all the data, else epoll_wait() won't remind again").                   *)
SocketsWatched ==
    \A c \in Conn : server[c] = "open" /\ Readable(c) =>
        c \in ready \cup events \/ (mpc = "read" /\ c = current)

(* The same for the connections that wait at the listening socket of the   *)
(* level-triggered server.                                                 *)
ListenerWatched == ~edge /\ backlog # <<>> => Listener \in ready \cup events

(* Nothing that is ready is forgotten by epoll and by the loop             *)
(* (echo_EPLTserv.c:44-74, echo_EPETserv.c:46-92).                         *)
NothingForgotten == SocketsWatched /\ ListenerWatched

(* Whatever happens to events, what a client has sent is echoed once, and  *)
(* it is closed only after it has ended and has everything back: both      *)
(* servers implement EchoService (echo_EPLTserv.c:53-63,                   *)
(* echo_EPETserv.c:66-86).                                                 *)
Service == INSTANCE EchoService WITH
    asked <- sent,
    returned <- [c \in Conn |-> sent[c] - inbox[c]],
    state <- [c \in Conn |->
        IF server[c] = "closed" THEN "closed" ELSE IF client[c] = "half" THEN "ended" ELSE "open"]
ImplementsService == Service!Spec

(* The one way echo_EPETserv stops: it loops over a socket it has closed.  *)
Stuck == edge /\ mpc = "read" /\ server[current] = "closed"

(* The level-triggered server accepts every connection.                    *)
EveryConnectionAccepted ==
    \A c \in Conn : ~edge /\ server[c] = "backlog" ~> server[c] = "open"

(* What a client sends is echoed, to the last unit, and a client that has  *)
(* ended is closed, by either server unless it is stuck                    *)
(* (echo_EPLTserv.c:60-73, echo_EPETserv.c:66-89).                         *)
EveryInputHandled ==
    \A c \in Conn : server[c] = "open" /\ Readable(c) ~>
        server[c] = "closed" \/ ~Readable(c) \/ Stuck
=============================================================================
