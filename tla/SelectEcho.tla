---------------------------- MODULE SelectEcho ----------------------------
(***************************************************************************)
(* bookcode/chapter12/echo_selectserv.c, one thread that select()s over    *)
(* blocking sockets, with its clients, bookcode/chapter10/echo_mpclient.c: *)
(* two processes per client on one socket, one that writes what the user   *)
(* types and one that reads the echo.  Both directions of a connection are *)
(* bounded, so that a write may have to wait for the other side's read.    *)
(*                                                                         *)
(* A definition Op_Fault is Op with a fault a programmer could make; it is *)
(* used only to test that the properties notice it.                        *)
(***************************************************************************)
EXTENDS Naturals, SequencesExt, FiniteSetsExt

CONSTANTS
    Conn,        \* clients
    server_sock, \* the lowest descriptor, as it is opened first
    Fds,         \* the descriptors above it
    NoConn,
    BUF_SIZE,    \* units one read of the server takes at most
    UpCap, DownCap, \* units on their way to the server, to a client
    MaxLines,    \* MaxLines[c]: bound on the lines its user types
    Killed       \* the clients that may be killed

ASSUME CountAssumption ==
    /\ BUF_SIZE \in Nat \ {0} /\ UpCap \in Nat \ {0} /\ DownCap \in Nat \ {0}
    /\ MaxLines \in [Conn -> Nat]
ASSUME FdAssumption ==
    /\ Fds \subseteq Nat /\ server_sock \in Nat /\ \A f \in Fds : server_sock < f
    /\ IsFiniteSet(Conn) /\ IsFiniteSet(Fds)
    /\ Cardinality(Conn) <= Cardinality(Fds) \* descriptors do not run out
ASSUME NameAssumption == NoConn \notin Conn /\ Killed \subseteq Conn

VARIABLES
    client,       \* client[c]: its socket, as TCP shows it to the server
    wpc, rpc,     \* its writing and its reading process
    lines,        \* lines[c]: lines typed so far
    up, down,     \* units on their way: <<c, n>> is the n-th line of c
    received,     \* received[c]: what its reading process has got
    alive,        \* FALSE when a signal has ended the server
    backlog, fdTable, \* the server's kernel: connections waiting, and accepted
    readset, cpy_readset, maxfd, select_num, changed_quantity,
    i,            \* the descriptor the scan goes on from
    spc, buf, written \* select, scan, or write of buf, of which a part is written

clientVars == <<wpc, rpc, lines, received>>
setVars == <<readset, cpy_readset, maxfd, select_num, changed_quantity, i>>
kernelVars == <<backlog, fdTable>>
ioVars == <<spc, buf, written>>
vars == <<client, clientVars, up, down, alive, kernelVars, setVars, ioVars>>

(* shut: its FIN has arrived; closed: both processes have closed the       *)
(* socket; answered: data sent since will be answered by an RST;           *)
(* dead: the RST has arrived after the FIN; reset: it has arrived without  *)
(* FIN, and the error is still to be reported; broken: it was.             *)
Ended == {"shut", "closed", "answered", "dead", "broken"}

TypeOK ==
    /\ client \in [Conn -> {"new", "up", "reset"} \cup Ended]
    /\ wpc \in [Conn -> {"none", "fgets", "write", "ended"}]
    /\ rpc \in [Conn -> {"none", "read", "ended"}]
    /\ lines \in [Conn -> Nat]
    /\ \A c \in Conn : Len(up[c]) <= UpCap /\ Len(down[c]) <= DownCap
    /\ alive \in BOOLEAN
    /\ fdTable \in [Fds -> Conn \cup {NoConn}]
    /\ readset \subseteq Fds \cup {server_sock} /\ cpy_readset \subseteq Fds \cup {server_sock}
    /\ maxfd \in Fds \cup {server_sock}
    /\ spc \in {"select", "scan", "write"}
    /\ Len(buf) <= BUF_SIZE /\ written \in 0..Len(buf)

Init ==
    /\ client = [c \in Conn |-> "new"]
    /\ wpc = [c \in Conn |-> "none"] /\ rpc = [c \in Conn |-> "none"]
    /\ lines = [c \in Conn |-> 0]
    /\ up = [c \in Conn |-> <<>>] /\ down = [c \in Conn |-> <<>>]
    /\ received = [c \in Conn |-> <<>>]
    /\ alive = TRUE
    /\ backlog = <<>> /\ fdTable = [f \in Fds |-> NoConn]
    /\ readset = {server_sock} /\ cpy_readset = {} /\ maxfd = server_sock
    /\ select_num = 0 /\ changed_quantity = 0 /\ i = server_sock
    /\ spc = "select" /\ buf = <<>> /\ written = 0

-----------------------------------------------------------------------------
(* echo_mpclient                                                           *)

(* connect, fork                                                           *)
ReaderStarts_Last == "none"
ReaderStarts == "read"

Connect(c) ==
    /\ client[c] = "new"
    /\ client' = [client EXCEPT ![c] = "up"]
    /\ backlog' = Append(backlog, c)
    /\ wpc' = [wpc EXCEPT ![c] = "fgets"]
    /\ rpc' = [rpc EXCEPT ![c] = ReaderStarts]
    /\ UNCHANGED <<lines, received, up, down, alive, fdTable, setVars, ioVars>>

Type(c) ==
    /\ wpc[c] = "fgets" /\ lines[c] < MaxLines[c]
    /\ lines' = [lines EXCEPT ![c] = @ + 1]
    /\ wpc' = [wpc EXCEPT ![c] = "write"]
    /\ UNCHANGED <<client, rpc, received, up, down, alive, kernelVars, setVars, ioVars>>

Write(c) ==
    /\ wpc[c] = "write" /\ Len(up[c]) < UpCap
    /\ up' = [up EXCEPT ![c] = Append(@, <<c, lines[c]>>)]
    /\ wpc' = [wpc EXCEPT ![c] = "fgets"]
    /\ UNCHANGED <<client, rpc, lines, received, down, alive, kernelVars, setVars, ioVars>>

(* Q: shutdown(SHUT_WR) and close, while the other process has the socket. *)
AfterQ_Both(c) == [rpc EXCEPT ![c] = "ended"]
AfterQ(c) == [rpc EXCEPT ![c] = IF @ = "none" THEN "read" ELSE @]
SocketAfterQ(c) ==
    IF AfterQ(c)[c] # "ended" THEN "shut" ELSE IF down[c] = <<>> THEN "closed" ELSE "reset"

Quit(c) ==
    /\ wpc[c] = "fgets"
    /\ client' = [client EXCEPT ![c] = SocketAfterQ(c)]
    /\ wpc' = [wpc EXCEPT ![c] = "ended"]
    /\ rpc' = AfterQ(c)
    /\ UNCHANGED <<lines, received, up, down, alive, kernelVars, setVars, ioVars>>

Open(c) == \E f \in Fds : fdTable[f] = c
Closed(c) == client[c] # "new" /\ c \notin ToSet(backlog) /\ ~Open(c)

Read(c) ==
    /\ rpc[c] = "read" /\ down[c] # <<>>
    /\ received' = [received EXCEPT ![c] = @ \o down[c]]
    /\ down' = [down EXCEPT ![c] = <<>>]
    /\ UNCHANGED <<client, wpc, rpc, lines, up, alive, kernelVars, setVars, ioVars>>

(* read() returns 0                                                        *)
ReadEnd(c) ==
    /\ rpc[c] = "read" /\ down[c] = <<>> /\ Closed(c)
    /\ rpc' = [rpc EXCEPT ![c] = "ended"]
    /\ client' = [client EXCEPT ![c] = "closed"]
    /\ UNCHANGED <<wpc, lines, received, up, down, alive, kernelVars, setVars, ioVars>>

(* Both processes are killed: a socket with unread data resets the         *)
(* connection, another one ends it.                                        *)
Kill(c) ==
    /\ c \in Killed /\ client[c] \in {"up", "shut"} /\ ~Closed(c)
    /\ client' = [client EXCEPT ![c] =
                    IF down[c] = <<>> THEN "closed" ELSE IF @ = "up" THEN "reset" ELSE "dead"]
    /\ down' = [down EXCEPT ![c] = <<>>]
    /\ wpc' = [wpc EXCEPT ![c] = "none"] /\ rpc' = [rpc EXCEPT ![c] = "none"]
    /\ UNCHANGED <<lines, received, up, alive, kernelVars, setVars, ioVars>>

ResetArrives(c) ==
    /\ client[c] = "answered"
    /\ client' = [client EXCEPT ![c] = "dead"]
    /\ UNCHANGED <<clientVars, up, down, alive, kernelVars, setVars, ioVars>>

-----------------------------------------------------------------------------
(* echo_selectserv                                                         *)

Readable(x) ==
    IF x = server_sock THEN backlog # <<>>
    ELSE up[fdTable[x]] # <<>> \/ client[fdTable[x]] \in Ended \cup {"reset"}

(* cpy_readset = readset, and select() leaves the readable ones in it.     *)
(* (With none it waits, and after five seconds starts again.)              *)
Watched == {x \in readset : x <= maxfd}

Select ==
    /\ spc = "select"
    /\ \E x \in Watched : Readable(x)
    /\ cpy_readset' = {x \in Watched : Readable(x)}
    /\ select_num' = Cardinality(cpy_readset')
    /\ changed_quantity' = 0
    /\ i' = server_sock
    /\ spc' = "scan"
    /\ UNCHANGED <<client, clientVars, up, down, alive, kernelVars, readset, maxfd, buf, written>>

(* The descriptors the loop still comes to, in rising order.               *)
Found == {x \in cpy_readset : i <= x /\ x <= maxfd}
More_Early == Found # {} /\ changed_quantity + 1 < select_num
More == Found # {} /\ changed_quantity <= select_num

ScanEnds ==
    /\ spc = "scan" /\ ~More
    /\ spc' = "select"
    /\ UNCHANGED <<client, clientVars, up, down, alive, kernelVars, setVars, buf, written>>

Step(x) ==
    /\ spc = "scan" /\ More /\ x = Min(Found)
    /\ changed_quantity' = changed_quantity + 1
    /\ i' = x + 1
    /\ UNCHANGED <<cpy_readset, select_num>>

(* accept() gives the lowest free descriptor.                              *)
RaisedMax_Never(f) == maxfd
RaisedMax(f) == IF maxfd < f THEN f ELSE maxfd

Accept ==
    /\ Step(server_sock)
    /\ LET f == Min({g \in Fds : fdTable[g] = NoConn}) IN
          /\ fdTable' = [fdTable EXCEPT ![f] = Head(backlog)]
          /\ maxfd' = RaisedMax(f)
          /\ readset' = readset \cup {f}
    /\ backlog' = Tail(backlog)
    /\ UNCHANGED <<client, clientVars, up, down, alive, ioVars>>

(* read() > 0, and write() of the same bytes begins.                       *)
ReadLen_OneMore(c) == Min({Len(up[c]), BUF_SIZE + 1})
ReadLen(c) == Min({Len(up[c]), BUF_SIZE})

ReadData(f) ==
    LET c == fdTable[f] IN
    /\ Step(f) /\ f \in Fds /\ up[c] # <<>>
    /\ buf' = SubSeq(up[c], 1, ReadLen(c))
    /\ up' = [up EXCEPT ![c] = SubSeq(@, ReadLen(c) + 1, Len(@))]
    /\ written' = 0
    /\ spc' = "write"
    /\ UNCHANGED <<client, clientVars, down, alive, kernelVars, readset, maxfd>>

(* read() = 0: FD_CLR, close                                               *)
Forgotten(f) == readset \ {f}

ReadNothing(f) ==
    LET c == fdTable[f] IN
    /\ Step(f) /\ f \in Fds /\ up[c] = <<>> /\ client[c] \in Ended
    /\ readset' = Forgotten(f)
    /\ fdTable' = [fdTable EXCEPT ![f] = NoConn]
    /\ UNCHANGED <<client, clientVars, up, down, alive, backlog, maxfd, ioVars>>

(* read() = -1 reports the error; neither branch is taken.                 *)
ReadFails(f) ==
    LET c == fdTable[f] IN
    /\ Step(f) /\ f \in Fds /\ up[c] = <<>> /\ client[c] = "reset"
    /\ client' = [client EXCEPT ![c] = "broken"]
    /\ UNCHANGED <<clientVars, up, down, alive, kernelVars, readset, maxfd, ioVars>>

Current == fdTable[i - 1]

(* write() of the blocking socket takes what there is room for, and waits. *)
Room == Min({DownCap - Len(down[Current]), Len(buf) - written})
AfterWrite_Short == Len(buf)
AfterWrite == written + Room

WriteEchoes ==
    /\ spc = "write" /\ client[Current] \in {"up", "shut"} /\ Room > 0
    /\ down' = [down EXCEPT ![Current] = @ \o SubSeq(buf, written + 1, written + Room)]
    /\ written' = AfterWrite
    /\ UNCHANGED <<client, clientVars, up, alive, kernelVars, setVars, spc, buf>>

WriteEnds ==
    /\ spc = "write" /\ written = Len(buf)
    /\ buf' = <<>> /\ written' = 0
    /\ spc' = "scan"
    /\ UNCHANGED <<client, clientVars, up, down, alive, kernelVars, setVars>>

(* The client has gone: its closed socket answers with an RST, the error   *)
(* of a reset one is reported (unless a part was written), and one that    *)
(* was ended, or had its error reported, makes write() raise SIGPIPE.      *)
WriteFails ==
    /\ spc = "write" /\ written < Len(buf)
    /\ client[Current] \in {"closed", "answered", "dead", "reset", "broken"}
    /\ client' = [client EXCEPT ![Current] =
                    CASE @ = "closed" -> "answered"
                      [] @ = "reset" /\ written = 0 -> "broken"
                      [] OTHER -> @]
    /\ alive' = (written > 0 \/ client[Current] \notin {"dead", "broken"})
    /\ buf' = <<>> /\ written' = 0
    /\ spc' = "scan"
    /\ UNCHANGED <<clientVars, up, down, kernelVars, setVars>>

ServerStep ==
    \/ Select \/ ScanEnds \/ Accept
    \/ \E f \in Fds : ReadData(f) \/ ReadNothing(f) \/ ReadFails(f)
    \/ WriteEchoes \/ WriteEnds \/ WriteFails

ReaderStep(c) == Read(c) \/ ReadEnd(c)

Next ==
    /\ alive
    /\ \/ ServerStep
       \/ \E c \in Conn :
             Connect(c) \/ Type(c) \/ Write(c) \/ Quit(c) \/ ReaderStep(c) \/ Kill(c) \/ ResetArrives(c)

Spec == Init /\ [][Next]_vars

(* The processes run; nothing makes a user type or kill.                   *)
FairSpec ==
    /\ Spec
    /\ WF_vars(alive /\ ServerStep)
    /\ \A c \in Conn : WF_vars(alive /\ Write(c)) /\ WF_vars(alive /\ ReaderStep(c))

-----------------------------------------------------------------------------
(* Properties                                                              *)

Sockets == {f \in Fds : fdTable[f] # NoConn}

(* select watches exactly the open sockets, whatever was accepted and      *)
(* closed since it last looked, and what is left of the copy is about open *)
(* ones: nobody is forgotten, no number is used after its close            *)
(* (echo_selectserv.c:48-73).                                              *)
SetsAgree ==
    /\ readset = {server_sock} \cup Sockets
    /\ \A f \in readset : f <= maxfd
    /\ spc # "select" => Found \subseteq readset

Typed(c) == [n \in 1..lines[c] |-> <<c, n>>]
Unwritten(c) == IF spc = "write" /\ Current = c THEN SubSeq(buf, written + 1, Len(buf)) ELSE <<>>
Untyped(c) == IF wpc[c] = "write" THEN <<<<c, lines[c]>>>> ELSE <<>>
Lost(c) == client[c] # "new" /\ wpc[c] = "none"

(* With it, no buffer and no read takes more than it has room for          *)
(* (echo_selectserv.c:73, 80).                                             *)
SetsConsistent == TypeOK /\ SetsAgree

(* Every line a user has typed is at one place of the way to the server    *)
(* and back, in order, and in nobody else's echo, though the server has    *)
(* one buffer for all (echo_selectserv.c:69, 76).                          *)
EchoConserved ==
    \A c \in Conn : ~Lost(c) =>
        received[c] \o down[c] \o Unwritten(c) \o up[c] \o Untyped(c) = Typed(c)

(* A client that is done is closed after it has everything back.           *)
Service == INSTANCE EchoService WITH
    asked <- lines,
    returned <- [c \in Conn |-> Len(received[c])],
    state <- [c \in Conn |->
        IF Lost(c) THEN "lost" ELSE IF rpc[c] = "ended" THEN "closed"
        ELSE IF wpc[c] = "ended" THEN "ended" ELSE "open"]
ImplementsService == Service!Spec

(* What may end the server: SIGPIPE needs a client that is killed, those   *)
(* that end by Q never make a write fail (echo_mpclient.c:62-77).          *)
KillEndsServer == ~alive /\ \E c \in Conn : Lost(c)

(* Nobody waits for ever: a line typed comes back, although the server     *)
(* blocks in write() and its client in write() at the same time            *)
(* (echo_mpclient.c:40-41).                                                *)
EveryLineReturns ==
    \A c \in Conn : wpc[c] = "write" ~> Len(received[c]) = lines[c] \/ Lost(c) \/ KillEndsServer

(* "Shutdown write, and the server's read() return 0 and server code will  *)
(* close the connection. And then the read_routine()'s read() function can *)
(* return 0" (echo_mpclient.c:62-63); and a killed client is closed too.   *)
EveryEndCloses ==
    \A c \in Conn :
        wpc[c] = "ended" \/ Lost(c) ~> (Closed(c) /\ rpc[c] # "read") \/ KillEndsServer
=============================================================================
