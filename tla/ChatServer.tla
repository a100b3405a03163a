---------------------------- MODULE ChatServer ----------------------------
(***************************************************************************)
(* bookcode/chapter18/chat_server.c: the main thread accepts clients,      *)
(* enters their sockets into client_socks and starts a thread for each;    *)
(* a thread sends what it reads from its client to all the clients.        *)
(*                                                                         *)
(* The thread's argument is the address of main's variable client_sock,    *)
(* which the next accept overwrites: a thread reads whatever is there when *)
(* it starts to run.                                                       *)
(*                                                                         *)
(* The clients run bookcode/chapter18/chat_client.c: one thread sends the  *)
(* lines its user types, the other prints what the server sends.           *)
(*                                                                         *)
(* A unit of data is what one read returns; a message longer than BUF_SIZE *)
(* is several units.  A definition Op_Fault is Op with a fault a           *)
(* programmer could make; it is used only to test that the properties      *)
(* notice it.                                                              *)
(***************************************************************************)
EXTENDS Naturals, FiniteSets, Sequences

CONSTANTS
    Conn,    \* connections clients make
    Fds,     \* descriptor numbers left to the process
    NoFd, NoConn,
    Talkers, \* clients that send
    Quitters,\* clients that may close
    Stallers,\* clients that may stop reading
    MaxSent, \* bound on the units a client sends
    Spaced   \* TRUE: no client connects while the thread of another starts

(* The code does not check the bounds of client_socks and of accept.       *)
ASSUME FdAssumption == Fds \subseteq Nat /\ NoFd \notin Fds
ASSUME ConnAssumption ==
    /\ NoConn \notin Conn /\ Talkers \cup Quitters \cup Stallers \subseteq Conn
    /\ IsFiniteSet(Conn) /\ IsFiniteSet(Fds) /\ Cardinality(Conn) <= Cardinality(Fds)
ASSUME BoundAssumption == MaxSent \in Nat /\ Spaced \in BOOLEAN

(* One thread for every accept, numbered in the order of their creation.   *)
Thread == 1..Cardinality(Conn)
NoThread == 0

VARIABLES
    client,       \* client[c]: the peer as TCP shows it
    sent, inbox,  \* units client c has sent, units not yet read
    delivered,    \* delivered[c]: senders of the units that reached c
    backlog,      \* connections waiting for accept
    fdTable,      \* fdTable[f]: the connection behind descriptor f
    alive,        \* FALSE once SIGPIPE has ended the process
    mpc,          \* the main thread's next call
    client_sock,  \* its variable, read by the threads it starts
    client_socks, \* the array, up to client_count
    mutex,        \* holder of the mutex
    next,         \* the loop index of the holder
    tpc, sock,    \* next statement and socket of each thread
    msg,          \* msg[t]: sender of the unit in t's buffer
    log, joined   \* auxiliary: units in the order of their sending to all,
                  \* and how many there were when c was entered

netVars == <<client, sent, inbox, delivered, backlog>>
mainVars == <<mpc, client_sock>>
threadVars == <<tpc, sock, msg>>
auxVars == <<log, joined>>
vars == <<netVars, fdTable, alive, mainVars, client_socks, mutex, next, threadVars, auxVars>>

TypeOK ==
    /\ client \in [Conn -> {"new", "open", "stalled", "closed", "answered", "aborted", "reset"}]
    /\ sent \in [Conn -> 0..MaxSent] /\ inbox \in [Conn -> Nat]
    /\ delivered \in [Conn -> Seq(Conn)]
    /\ backlog \in Seq(Conn)
    /\ fdTable \in [Fds -> Conn \cup {NoConn}]
    /\ alive \in BOOLEAN
    /\ mpc \in {"accept", "enter", "create"}
    /\ client_sock \in Fds \cup {NoFd}
    /\ client_socks \in Seq(Fds)
    /\ mutex \in Thread \cup {NoThread}
    /\ next \in Nat
    /\ tpc \in [Thread -> {"none", "start", "read", "lock", "write", "remove", "close", "done"}]
    /\ sock \in [Thread -> Fds \cup {NoFd}]
    /\ msg \in [Thread -> Conn \cup {NoConn}]
    /\ log \in Seq(Conn) /\ joined \in [Conn -> Nat]

Init ==
    /\ client = [c \in Conn |-> "new"]
    /\ sent = [c \in Conn |-> 0] /\ inbox = [c \in Conn |-> 0]
    /\ delivered = [c \in Conn |-> <<>>]
    /\ backlog = <<>>
    /\ fdTable = [f \in Fds |-> NoConn]
    /\ alive = TRUE
    /\ mpc = "accept" /\ client_sock = NoFd
    /\ client_socks = <<>>
    /\ mutex = NoThread /\ next = 1
    /\ tpc = [t \in Thread |-> "none"]
    /\ sock = [t \in Thread |-> NoFd]
    /\ msg = [t \in Thread |-> NoConn]
    /\ log = <<>> /\ joined = [c \in Conn |-> 0]

-----------------------------------------------------------------------------
(* Clients (external)                                                      *)

Quiet == mpc = "accept" /\ backlog = <<>> /\ \A t \in Thread : tpc[t] # "start"

Connect(c) ==
    /\ client[c] = "new"
    /\ Spaced => Quiet
    /\ client' = [client EXCEPT ![c] = "open"]
    /\ backlog' = Append(backlog, c)
    /\ UNCHANGED <<sent, inbox, delivered, fdTable, alive, mainVars, client_socks, mutex, next,
                   threadVars, auxVars>>

Connected(c) == client[c] \in {"open", "stalled"}

(* send_msg writes a line.                                                 *)
Talk(c) ==
    /\ Connected(c) /\ c \in Talkers /\ sent[c] < MaxSent
    /\ sent' = [sent EXCEPT ![c] = @ + 1]
    /\ inbox' = [inbox EXCEPT ![c] = @ + 1]
    /\ UNCHANGED <<client, delivered, backlog, fdTable, alive, mainVars, client_socks, mutex, next,
                   threadVars, auxVars>>

ClientBecomes(c, state) ==
    /\ client' = [client EXCEPT ![c] = state]
    /\ UNCHANGED <<sent, inbox, delivered, backlog, fdTable, alive, mainVars, client_socks, mutex,
                   next, threadVars, auxVars>>

(* recv_msg waits for its terminal while the buffers fill up, and goes on. *)
Stall(c) == client[c] = "open" /\ c \in Stallers /\ ClientBecomes(c, "stalled")
Resume(c) == client[c] = "stalled" /\ ClientBecomes(c, "open")

(* send_msg reads Q: close and exit, a reset if there is unread data.      *)
Quit(c) ==
    /\ c \in Quitters
    /\ \/ client[c] = "open" /\ ClientBecomes(c, "closed")
       \/ client[c] = "stalled" /\ ClientBecomes(c, "aborted")

(* The answer to data sent to a closed client arrives.                     *)
ResetArrives(c) == client[c] = "answered" /\ ClientBecomes(c, "reset")

-----------------------------------------------------------------------------
(* Main thread                                                             *)

Accept ==
    /\ mpc = "accept" /\ backlog # <<>>
    /\ \E f \in Fds :
          /\ fdTable[f] = NoConn
          /\ \A g \in Fds : fdTable[g] = NoConn => f <= g
          /\ fdTable' = [fdTable EXCEPT ![f] = Head(backlog)]
          /\ client_sock' = f
    /\ backlog' = Tail(backlog)
    /\ mpc' = "enter"
    /\ UNCHANGED <<client, sent, inbox, delivered, alive, client_socks, mutex, next, threadVars,
                   auxVars>>

(* The mutex keeps the array as it is while a unit is sent to everybody.   *)
Free_Always == TRUE
Free == mutex = NoThread

Enter ==
    /\ mpc = "enter" /\ Free
    /\ client_socks' = Append(client_socks, client_sock)
    /\ joined' = [c \in Conn |-> IF c = fdTable[client_sock] THEN Len(log) ELSE joined[c]]
    /\ mpc' = "create"
    /\ UNCHANGED <<netVars, fdTable, alive, client_sock, mutex, next, threadVars, log>>

(* pthread_create with &client_sock                                        *)
Create ==
    /\ mpc = "create"
    /\ \E t \in Thread :
          /\ tpc[t] = "none"
          /\ \A u \in Thread : tpc[u] = "none" => t <= u
          /\ tpc' = [tpc EXCEPT ![t] = "start"]
    /\ mpc' = "accept"
    /\ UNCHANGED <<netVars, fdTable, alive, client_sock, client_socks, mutex, next, sock, msg,
                   auxVars>>

MainStep == Accept \/ Enter \/ Create

-----------------------------------------------------------------------------
(* handle_connection                                                       *)

Goto(t, from, to) == tpc[t] = from /\ tpc' = [tpc EXCEPT ![t] = to]

Start(t) ==
    /\ Goto(t, "start", "read")
    /\ sock' = [sock EXCEPT ![t] = client_sock]
    /\ UNCHANGED <<netVars, fdTable, alive, mainVars, client_socks, mutex, next, msg, auxVars>>

Peer(t) == fdTable[sock[t]]

HasData(t) == Peer(t) \in Conn /\ inbox[Peer(t)] > 0

(* read() of data.  (A closed descriptor would be read in vain: -1, see    *)
(* ReadFails.)                                                             *)
Read(t) ==
    /\ Goto(t, "read", "lock")
    /\ HasData(t)
    /\ inbox' = [inbox EXCEPT ![Peer(t)] = @ - 1]
    /\ msg' = [msg EXCEPT ![t] = Peer(t)]
    /\ UNCHANGED <<client, sent, delivered, backlog, fdTable, alive, mainVars, client_socks, mutex,
                   next, sock, auxVars>>

(* read() returns -1: the while loop calls send_msg with this length.      *)
ReadFails(t) ==
    /\ Goto(t, "read", "lock")
    /\ Peer(t) \in Conn /\ inbox[Peer(t)] = 0 /\ client[Peer(t)] = "aborted"
    /\ client' = [client EXCEPT ![Peer(t)] = "reset"]
    /\ msg' = [msg EXCEPT ![t] = NoConn]
    /\ UNCHANGED <<sent, inbox, delivered, backlog, fdTable, alive, mainVars, client_socks, mutex,
                   next, sock, auxVars>>

(* send_msg takes the mutex                                                *)
Lock(t) ==
    /\ Goto(t, "lock", "write")
    /\ Free
    /\ mutex' = t /\ next' = 1
    /\ log' = IF msg[t] = NoConn THEN log ELSE Append(log, msg[t])
    /\ UNCHANGED <<netVars, fdTable, alive, mainVars, client_socks, sock, msg, joined>>

(* write() to the next client of the array waits for one that does not     *)
(* read; the first after a reset reports it, the next raises SIGPIPE.  A   *)
(* length of -1 is refused before the socket is looked at.                 *)
Refused(t) == msg[t] = NoConn
Blocked(t, c) == c \in Conn /\ client[c] = "stalled" /\ ~Refused(t)

AfterWrite(state) ==
    CASE state = "closed" -> "answered" [] state = "aborted" -> "reset" [] OTHER -> state

Write(t) ==
    /\ Goto(t, "write", "write")
    /\ next <= Len(client_socks)
    /\ LET c == fdTable[client_socks[next]]
           reached == IF Refused(t) THEN {} ELSE {c} \cap Conn
       IN /\ ~Blocked(t, c)
          /\ delivered' = [d \in Conn |-> IF d \in reached /\ client[d] = "open"
                                          THEN Append(delivered[d], msg[t]) ELSE delivered[d]]
          /\ client' = [d \in Conn |-> IF d \in reached THEN AfterWrite(client[d]) ELSE client[d]]
          /\ alive' = \A d \in reached : client[d] # "reset"
    /\ next' = next + 1
    /\ UNCHANGED <<sent, inbox, backlog, fdTable, mainVars, client_socks, mutex, sock, msg, auxVars>>

Unlocked == NoThread

Unlock(t) ==
    /\ Goto(t, "write", "read")
    /\ next > Len(client_socks)
    /\ mutex' = Unlocked
    /\ UNCHANGED <<netVars, fdTable, alive, mainVars, client_socks, next, sock, msg, auxVars>>

EndOfFile_Ignored(t) == FALSE
EndOfFile(t) ==
    Peer(t) \in Conn /\ inbox[Peer(t)] = 0 /\ client[Peer(t)] \in {"closed", "answered", "reset"}

ReadEnd(t) ==
    /\ Goto(t, "read", "remove")
    /\ EndOfFile(t)
    /\ UNCHANGED <<netVars, fdTable, alive, mainVars, client_socks, mutex, next, sock, msg, auxVars>>

(* The loop that takes socket f out of the array, followed by              *)
(* client_count--: without f in the array its last entry is dropped.       *)
ShiftedFrom(i, socks) ==
    [j \in 1..Len(socks) |-> IF i <= j /\ j < Len(socks) THEN socks[j + 1] ELSE socks[j]]

Without_NotShifted(f) == SubSeq(client_socks, 1, Len(client_socks) - 1)
Without(f) ==
    LET n == Len(client_socks)
        shifted[i \in 0..n] ==
            IF i = 0 THEN client_socks
            ELSE IF shifted[i - 1][i] = f THEN ShiftedFrom(i, shifted[i - 1]) ELSE shifted[i - 1]
    IN SubSeq(shifted[n], 1, n - 1)

Leave(t) ==
    /\ Goto(t, "remove", "close")
    /\ Free
    /\ client_socks' = Without(sock[t])
    /\ UNCHANGED <<netVars, fdTable, alive, mainVars, mutex, next, sock, msg, auxVars>>

Close(t) ==
    /\ Goto(t, "close", "done")
    /\ fdTable' = [fdTable EXCEPT ![sock[t]] = NoConn]
    /\ UNCHANGED <<netVars, alive, mainVars, client_socks, mutex, next, sock, msg, auxVars>>

ThreadStep(t) ==
    \/ Start(t) \/ Read(t) \/ ReadFails(t) \/ Lock(t) \/ Write(t) \/ Unlock(t)
    \/ ReadEnd(t) \/ Leave(t) \/ Close(t)

Next ==
    /\ alive
    /\ \/ MainStep
       \/ \E t \in Thread : ThreadStep(t)
       \/ \E c \in Conn :
             Connect(c) \/ Talk(c) \/ Stall(c) \/ Resume(c) \/ Quit(c) \/ ResetArrives(c)

Spec == Init /\ [][Next]_vars

(* The threads run, the mutex serves every thread that keeps asking, and a *)
(* client that goes on reading makes room for the write waiting for it.    *)
FairSpec ==
    /\ Spec
    /\ WF_vars(alive /\ MainStep) /\ SF_vars(alive /\ Enter)
    /\ \A t \in Thread : WF_vars(alive /\ ThreadStep(t)) /\ SF_vars(alive /\ (Lock(t) \/ Write(t) \/ Leave(t)))

-----------------------------------------------------------------------------
(* Properties                                                              *)

Running(t) == tpc[t] \in {"read", "lock", "write", "remove", "close"}
Entered == {client_socks[i] : i \in 1..Len(client_socks)}

(* Every client in the array has a thread of its own, or is about to get   *)
(* it; a thread takes out its own client's socket and closes it once       *)
(* (chat_server.c:51, 57, 64-74).                                          *)
ThreadPerClient ==
    /\ \A t, u \in Thread : Running(t) /\ Running(u) /\ sock[t] = sock[u] => t = u
    /\ \A f \in Entered :
          \/ f = client_sock /\ (mpc = "create" \/ \E t \in Thread : tpc[t] = "start")
          \/ \E t \in Thread : Running(t) /\ sock[t] = f /\ tpc[t] # "close"
    /\ \A i, j \in 1..Len(client_socks) : client_socks[i] = client_socks[j] => i = j

(* One order for everybody: between two broadcasts a connected client has  *)
(* received exactly the units sent since it was entered, in the order in   *)
(* which all the others received them (chat_server.c:79-83, 47-49).        *)
SameConversation ==
    mutex = NoThread =>
        \A c \in Conn :
            Connected(c) /\ (\E f \in Entered : fdTable[f] = c) =>
                delivered[c] = SubSeq(log, joined[c] + 1, Len(log))

(* "remove disconnected client" (chat_server.c:64): no step takes a client *)
(* that is still connected out of the array.                               *)
ConnectedStay ==
    \A c \in Conn :
        Connected(c) /\ (\E f \in Entered : fdTable[f] = c)
            => (\E f \in Entered : fdTable[f] = c)'
OnlyDisconnectedRemoved == [][ConnectedStay]_vars

(* client_count never exceeds the clients that have a descriptor, so the   *)
(* MAX_CLIENT entries overflow only when that many are connected at the    *)
(* same time, however many have come and gone (chat_server.c:48, 72).      *)
WithinArray == Len(client_socks) <= Cardinality({f \in Fds : fdTable[f] # NoConn})

(* The array, the threads and the descriptors agree (chat_server.c:47-74). *)
ArrayConsistent == TypeOK /\ ThreadPerClient /\ WithinArray

(* A unit is written with the mutex held (chat_server.c:79-83): a client   *)
(* that does not read holds up everybody, the main thread included, but    *)
(* only for as long as it does not read.  If none stops reading for ever,  *)
(* everything a client says is read to be sent to all ...                  *)
Resumed == \A c \in Conn : []<>(client[c] # "stalled")
EverybodyHeard ==
    Resumed => \A c \in Conn : inbox[c] > 0 ~> (inbox[c] = 0 \/ ~alive)

(* ... and a client that has left, in order or with data unread, is closed *)
(* (chat_server.c:60-74), unless SIGPIPE has ended the server: everybody   *)
(* is served.                                                              *)
LeaversClosed ==
    Resumed => \A c \in Conn :
        client[c] \in {"closed", "aborted"} ~> (~alive \/ \A f \in Fds : fdTable[f] # c)
EverybodyServed == EverybodyHeard /\ LeaversClosed
=============================================================================
