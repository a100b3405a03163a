------------------------------ MODULE Server ------------------------------
(***************************************************************************)
(* HTTP_server: the main thread of startServer, which accepts connections, *)
(* watches them with epoll and queues the readable ones, and the worker    *)
(* threads of thread_run, each of which takes a socket from the queue,     *)
(* reads the request, answers it and closes the socket.                    *)
(*                                                                         *)
(* The queue is the atomic one of module FdQueue, which ClientFds is shown *)
(* to implement.  Requests are counted in units of data: HeaderLen units   *)
(* of header, then BodyLen units of body when the request is a POST.       *)
(*                                                                         *)
(* A definition Op_Fault is Op with a fault a programmer could make; it is *)
(* used only to test that the properties notice it.                        *)
(***************************************************************************)
EXTENDS Naturals, Sequences, FiniteSets

CONSTANTS
    Conn,       \* connections clients make
    Worker,     \* worker threads, one per processor
    Fds,        \* descriptor numbers left to the process: bounds open files
    Listener,   \* server_sock
    EPOLL_SIZE, \* events one epoll_wait can report
    Backlog,    \* connections the listening socket holds
    Kinds,      \* requests the clients send, see RequestKinds
    Endings,    \* how clients end early, see EndingKinds
    RawWrite,   \* kinds answered with write(), the others use MSG_NOSIGNAL
    HeaderLen, BodyLen,
    NoFd, NoConn, \* "none" values
    File        \* a descriptor's use when it is not a connection

(* Requests: the two addHandler'd URLs of DemoApplication.c, a file below  *)
(* resources/, and any other URL.                                          *)
RequestKinds == {"get", "post", "file", "other"}

(* Clients: shutdown(SHUT_WR), close(), or a close that resets the         *)
(* connection (unread data, SO_LINGER).                                    *)
EndingKinds == {"half", "close", "abort"}

ASSUME CountAssumption ==
    /\ EPOLL_SIZE \in Nat \ {0} /\ Backlog \in Nat \ {0}
    /\ HeaderLen \in Nat \ {0} /\ BodyLen \in Nat
ASSUME FdAssumption == Fds \subseteq Nat /\ NoFd \notin Fds /\ Listener \notin Fds
ASSUME KindAssumption ==
    Kinds \subseteq RequestKinds /\ RawWrite \subseteq RequestKinds /\ Endings \subseteq EndingKinds
ASSUME ConnAssumption == NoConn \notin Conn /\ File \notin Conn /\ File # NoConn

VARIABLES
    (* the clients and the network *)
    client,   \* client[c]: the peer as TCP shows it, see PeerStates
    kind,     \* kind[c]: the request c carries
    sent,     \* sent[c]: units the client has sent
    inbox,    \* inbox[c]: units received and not yet read
    reply,    \* reply[c]: what has reached the client
    (* the kernel's tables for the process *)
    backlog,  \* connections waiting for accept
    phase,    \* phase[c]: the server's side of c
    fdTable,  \* fdTable[f]: connection, file or nothing behind descriptor f
    interest, \* sockets registered with epoll (the listener always is)
    alive,    \* FALSE once a signal has ended the process
    (* the main thread *)
    mpc, events, mfd,
    (* the queue and the workers *)
    queue, wpc, sock, req, got

netVars == <<client, kind, sent, inbox, reply>>
kernelVars == <<backlog, phase, fdTable, interest>>
mainVars == <<mpc, events, mfd>>
workerVars == <<wpc, sock, req, got>>
serverVars == <<alive, mainVars, queue, workerVars>>
vars == <<netVars, kernelVars, serverVars>>

(* new: not connected; open; half: its FIN has arrived, it still receives; *)
(* closed: its FIN has arrived and data sent to it will be refused;        *)
(* answered: such data is under way; reset: the RST has arrived and the    *)
(* error was reported (or arrived after the FIN); aborted: an RST has      *)
(* arrived without FIN and is still to be reported.                        *)
PeerStates == {"new", "open", "half", "closed", "answered", "reset", "aborted"}

TypeOK ==
    /\ client \in [Conn -> PeerStates]
    /\ kind \in [Conn -> RequestKinds]
    /\ sent \in [Conn -> Nat] /\ inbox \in [Conn -> Nat]
    /\ reply \in [Conn -> [head : {"none", "200", "400"}, heads : Nat, body : Nat]]
    /\ backlog \in Seq(Conn)
    /\ phase \in [Conn -> {"none", "backlog", "accepted", "closed"}]
    /\ fdTable \in [Fds -> Conn \cup {File, NoConn}]
    /\ interest \subseteq Fds
    /\ alive \in BOOLEAN
    /\ mpc \in {"wait", "batch", "enqueue"}
    /\ events \subseteq Fds \cup {Listener}
    /\ mfd \in Fds \cup {NoFd}
    /\ queue \in Seq(Fds)
    /\ wpc \in [Worker -> {"dequeue", "header", "open", "errorpage", "head", "content",
                           "received", "body", "close"}]
    /\ sock \in [Worker -> Fds \cup {NoFd}]
    /\ req \in [Worker -> Conn \cup {NoConn}]
    /\ got \in [Worker -> Nat]

(* The state after startServer has set up epoll, the queue and the workers.*)
Init ==
    /\ client = [c \in Conn |-> "new"]
    /\ kind \in [Conn -> Kinds]
    /\ sent = [c \in Conn |-> 0] /\ inbox = [c \in Conn |-> 0]
    /\ reply = [c \in Conn |-> [head |-> "none", heads |-> 0, body |-> 0]]
    /\ backlog = <<>>
    /\ phase = [c \in Conn |-> "none"]
    /\ fdTable = [f \in Fds |-> NoConn]
    /\ interest = {}
    /\ alive = TRUE
    /\ mpc = "wait" /\ events = {} /\ mfd = NoFd
    /\ queue = <<>>
    /\ wpc = [w \in Worker |-> "dequeue"]
    /\ sock = [w \in Worker |-> NoFd]
    /\ req = [w \in Worker |-> NoConn]
    /\ got = [w \in Worker |-> 0]

-----------------------------------------------------------------------------
(* Clients and network (external to the program)                           *)

Total(c) == HeaderLen + (IF kind[c] = "post" THEN BodyLen ELSE 0)

Connect(c) ==
    /\ client[c] = "new"
    /\ Len(backlog) < Backlog
    /\ client' = [client EXCEPT ![c] = "open"]
    /\ backlog' = Append(backlog, c)
    /\ phase' = [phase EXCEPT ![c] = "backlog"]
    /\ UNCHANGED <<kind, sent, inbox, reply, fdTable, interest, serverVars>>

Send(c) ==
    /\ client[c] = "open" /\ phase[c] # "closed"
    /\ sent[c] < Total(c)
    /\ sent' = [sent EXCEPT ![c] = @ + 1]
    /\ inbox' = [inbox EXCEPT ![c] = @ + 1]
    /\ UNCHANGED <<client, kind, reply, kernelVars, serverVars>>

ClientEnds(c) ==
    /\ client[c] \in {"open", "half"} /\ phase[c] # "closed"
    /\ \/ "half" \in Endings /\ client[c] = "open" /\ client' = [client EXCEPT ![c] = "half"]
       \/ "close" \in Endings /\ client' = [client EXCEPT ![c] = "closed"]
       \/ "abort" \in Endings /\ client' = [client EXCEPT ![c] = "aborted"]
    /\ UNCHANGED <<kind, sent, inbox, reply, kernelVars, serverVars>>

(* The answer to data sent to a closed peer arrives.                       *)
ResetArrives(c) ==
    /\ client[c] = "answered" /\ phase[c] # "closed"
    /\ client' = [client EXCEPT ![c] = "reset"]
    /\ UNCHANGED <<kind, sent, inbox, reply, kernelVars, serverVars>>

ClientStep(c) == Connect(c) \/ Send(c) \/ ClientEnds(c) \/ ResetArrives(c)

-----------------------------------------------------------------------------
(* Main thread                                                             *)

(* read would return at once: data, end of file or an error.               *)
Readable(f) ==
    fdTable[f] \in Conn /\ (inbox[fdTable[f]] > 0 \/ client[fdTable[f]] # "open")

Ready ==
    {f \in interest : Readable(f)} \cup (IF backlog = <<>> THEN {} ELSE {Listener})

(* Level-triggered: every ready descriptor is reported, at most EPOLL_SIZE *)
(* at a time.  (A wait that EINTR ends is retried: no change of state.)    *)
EpollWait ==
    /\ mpc = "wait"
    /\ Ready # {}
    /\ \E E \in SUBSET Ready :
          /\ Cardinality(E) = (IF Cardinality(Ready) < EPOLL_SIZE THEN Cardinality(Ready) ELSE EPOLL_SIZE)
          /\ events' = E
    /\ mpc' = "batch"
    /\ UNCHANGED <<netVars, kernelVars, alive, mfd, queue, workerVars>>

BatchDone ==
    /\ mpc = "batch" /\ events = {}
    /\ mpc' = "wait"
    /\ UNCHANGED <<netVars, kernelVars, alive, events, mfd, queue, workerVars>>

(* The kernel gives out the lowest free descriptor.                        *)
Lowest(f) ==
    /\ fdTable[f] = NoConn
    /\ \A g \in Fds : fdTable[g] = NoConn => f <= g

FdLeft == \E f \in Fds : fdTable[f] = NoConn

(* EPOLL_CTL_ADD, which fails on -1; EPOLL_CTL_DEL.                        *)
Registered_Unchecked(f) == interest \cup {f}
Registered(f) == interest \cup ({f} \ {NoFd})

Deregistered_Never(f) == interest
Deregistered(f) == interest \ {f}

(* accept, fcntl(O_NONBLOCK), EPOLL_CTL_ADD                                *)
Accept ==
    /\ mpc = "batch" /\ Listener \in events /\ backlog # <<>>
    /\ \E f \in Fds :
          /\ Lowest(f)
          /\ fdTable' = [fdTable EXCEPT ![f] = Head(backlog)]
          /\ interest' = Registered(f)
    /\ phase' = [phase EXCEPT ![Head(backlog)] = "accepted"]
    /\ backlog' = Tail(backlog)
    /\ events' = events \ {Listener}
    /\ UNCHANGED <<netVars, alive, mpc, mfd, queue, workerVars>>

(* accept returns -1 (EMFILE); the calls that follow fail on -1.           *)
AcceptFails ==
    /\ mpc = "batch" /\ Listener \in events /\ backlog # <<>>
    /\ ~FdLeft
    /\ interest' = Registered(NoFd)
    /\ events' = events \ {Listener}
    /\ UNCHANGED <<netVars, backlog, phase, fdTable, alive, mpc, mfd, queue, workerVars>>

(* EPOLL_CTL_DEL: from here the main thread forgets the socket.            *)
HandOff(f) ==
    /\ mpc = "batch" /\ f \in events \ {Listener}
    /\ interest' = Deregistered(f)
    /\ events' = events \ {f}
    /\ mfd' = f
    /\ mpc' = "enqueue"
    /\ UNCHANGED <<netVars, backlog, phase, fdTable, alive, queue, workerVars>>

Enqueue ==
    /\ mpc = "enqueue"
    /\ queue' = Append(queue, mfd)
    /\ mfd' = NoFd
    /\ mpc' = "batch"
    /\ UNCHANGED <<netVars, kernelVars, alive, events, workerVars>>

MainStep == EpollWait \/ BatchDone \/ Accept \/ AcceptFails \/ (\E f \in Fds : HandOff(f)) \/ Enqueue

-----------------------------------------------------------------------------
(* Worker threads                                                          *)

Goto(w, label) == wpc' = [wpc EXCEPT ![w] = label]

(* An empty queue makes thread_run call dequeue again: no change of state. *)
Dequeue(w) ==
    /\ wpc[w] = "dequeue" /\ queue # <<>>
    /\ sock' = [sock EXCEPT ![w] = Head(queue)]
    /\ queue' = Tail(queue)
    /\ Goto(w, "header")
    /\ UNCHANGED <<netVars, kernelVars, alive, mainVars, req, got>>

Peer(w) == fdTable[sock[w]]

(* read() returns n > 0 units: up to what has arrived.                     *)
Receive(w, n) ==
    /\ n \in 1..inbox[Peer(w)]
    /\ inbox' = [inbox EXCEPT ![Peer(w)] = @ - n]
    /\ got' = [got EXCEPT ![w] = @ + n]

(* read() returns 0: the peer has ended and everything is read.            *)
EndOfFile(w) == inbox[Peer(w)] = 0 /\ client[Peer(w)] \in {"half", "closed", "answered", "reset"}

(* read() returns -1 with an error other than EAGAIN, which it reports     *)
(* once.  (EAGAIN makes both read loops try again: no change of state.)    *)
ReadError(w) ==
    /\ inbox[Peer(w)] = 0 /\ client[Peer(w)] = "aborted"
    /\ client' = [client EXCEPT ![Peer(w)] = "reset"]

(* The method and URL select a handler, or else the static files.          *)
Dispatch_Unmatched(k) == IF k = "get" THEN "head" ELSE "open"
Dispatch(k) == IF k \in {"get", "post"} THEN "head" ELSE "open"

(* The loop that collects the header; it may read into the body.           *)
ReadHeader(w) ==
    /\ wpc[w] = "header"
    /\ \E n \in 1..inbox[Peer(w)] : Receive(w, n)
    /\ req' = [req EXCEPT ![w] = Peer(w)]
    /\ Goto(w, IF got'[w] < HeaderLen THEN "header" ELSE Dispatch(kind[Peer(w)]))
    /\ UNCHANGED <<client, kind, sent, reply, kernelVars, alive, mainVars, queue, sock>>

HeaderEnds(w) ==
    /\ wpc[w] = "header"
    /\ (EndOfFile(w) /\ UNCHANGED client) \/ ReadError(w)
    /\ Goto(w, "close")
    /\ UNCHANGED <<kind, sent, inbox, reply, kernelVars, alive, mainVars, queue, sock, req, got>>

(* One or several write() or send() calls to the peer.  The first call     *)
(* after an unreported RST only reports it.  Later calls fail with EPIPE,  *)
(* and write() then raises SIGPIPE, which ends the process.                *)
Broken(w, calls) ==
    client[Peer(w)] = "reset" \/ (client[Peer(w)] = "aborted" /\ calls > 1)

Write(w, calls, response) ==
    /\ reply' = IF client[Peer(w)] \in {"open", "half"}
                THEN [reply EXCEPT ![Peer(w)] = response] ELSE reply
    /\ client' = [client EXCEPT ![Peer(w)] =
                    IF @ = "closed" THEN "answered" ELSE IF @ = "aborted" THEN "reset" ELSE @]
    /\ alive' = (alive /\ ~(kind[req[w]] \in RawWrite /\ Broken(w, calls)))

(* Status line, two header lines and the empty line.                       *)
WriteHead(w) ==
    /\ wpc[w] = "head"
    /\ Write(w, 4, [reply[Peer(w)] EXCEPT !.head = "200", !.heads = @ + 1])
    /\ Goto(w, IF kind[req[w]] = "post" THEN "received" ELSE "content")
    /\ UNCHANGED <<kind, sent, inbox, kernelVars, mainVars, queue, sock, req, got>>

(* The fixed text of the GET handler, or the lines of the file.            *)
WriteContent(w) ==
    /\ wpc[w] = "content"
    /\ Write(w, 1, [reply[Peer(w)] EXCEPT !.body = @ + 1])
    /\ Goto(w, "close")
    /\ UNCHANGED <<kind, sent, inbox, kernelVars, mainVars, queue, sock, req, got>>

(* The POST handler echoes the part of the body read with the header.      *)
ReceivedBody_Dropped(w) == 0
ReceivedBody(w) == got[w] - HeaderLen

EchoReceived(w) ==
    /\ wpc[w] = "received"
    /\ Write(w, 1, [reply[Peer(w)] EXCEPT !.body = @ + ReceivedBody(w)])
    /\ Goto(w, "body")
    /\ UNCHANGED <<kind, sent, inbox, kernelVars, mainVars, queue, sock, req, got>>

(* Then the rest, as it arrives.                                           *)
BodyLeft_OffByOne(w) == got[w] <= Total(req[w])
BodyLeft(w) == got[w] < Total(req[w])

EchoBody(w) ==
    /\ wpc[w] = "body" /\ BodyLeft(w)
    /\ \E n \in 1..inbox[Peer(w)] :
          /\ Receive(w, n)
          /\ Write(w, 1, [reply[Peer(w)] EXCEPT !.body = @ + n])
    /\ UNCHANGED <<kind, sent, kernelVars, mainVars, queue, wpc, sock, req>>

(* len == 0 is not tested: the loop writes nothing and reads again.        *)
EchoNothing(w) ==
    /\ wpc[w] = "body" /\ BodyLeft(w)
    /\ EndOfFile(w)
    /\ Write(w, 1, reply[Peer(w)])
    /\ UNCHANGED <<kind, sent, inbox, kernelVars, mainVars, queue, wpc, sock, req, got>>

BodyEnds(w) ==
    /\ wpc[w] = "body"
    /\ IF BodyLeft(w) THEN ReadError(w) ELSE UNCHANGED client
    /\ Goto(w, "close")
    /\ UNCHANGED <<kind, sent, inbox, reply, kernelVars, alive, mainVars, queue, sock, req, got>>

(* defaultResonse: fopen of the file takes a descriptor, and nothing ever  *)
(* closes it.                                                              *)
Fopen == \E f \in Fds : Lowest(f) /\ fdTable' = [fdTable EXCEPT ![f] = File]

OpenFile(w) ==
    /\ wpc[w] = "open" /\ kind[req[w]] = "file"
    /\ Fopen
    /\ Goto(w, "head")
    /\ UNCHANGED <<netVars, backlog, phase, interest, alive, mainVars, queue, sock, req, got>>

(* There is no such file, or no descriptor to open it with.                *)
OpenFails(w) ==
    /\ wpc[w] = "open" /\ (kind[req[w]] # "file" \/ ~FdLeft)
    /\ Goto(w, "errorpage")
    /\ UNCHANGED <<netVars, kernelVars, alive, mainVars, queue, sock, req, got>>

(* sendErrorPage: its file is opened, its head is sent, then its content.  *)
SendErrorPage(w) ==
    /\ wpc[w] = "errorpage"
    /\ Fopen
    /\ Write(w, 4, [reply[Peer(w)] EXCEPT !.head = "400", !.heads = @ + 1])
    /\ Goto(w, "content")
    /\ UNCHANGED <<kind, sent, inbox, backlog, phase, interest, mainVars, queue, sock, req, got>>

(* Without a descriptor fopen returns NULL: after the head is sent (which  *)
(* the fault makes irrelevant) fgets ends the process.                     *)
ErrorPageFaults(w) ==
    /\ wpc[w] = "errorpage" /\ ~FdLeft
    /\ alive' = FALSE
    /\ UNCHANGED <<netVars, kernelVars, mainVars, queue, workerVars>>

(* The next call of callProperHandler starts with an empty buffer.         *)
NoRequest(w) == [req EXCEPT ![w] = NoConn]

CloseSocket(w) ==
    /\ wpc[w] = "close"
    /\ phase' = [phase EXCEPT ![Peer(w)] = "closed"]
    /\ fdTable' = [fdTable EXCEPT ![sock[w]] = NoConn]
    /\ interest' = interest \ {sock[w]}
    /\ sock' = [sock EXCEPT ![w] = NoFd]
    /\ req' = NoRequest(w)
    /\ got' = [got EXCEPT ![w] = 0]
    /\ Goto(w, "dequeue")
    /\ UNCHANGED <<netVars, backlog, alive, mainVars, queue>>

WorkerStep(w) ==
    \/ Dequeue(w) \/ ReadHeader(w) \/ HeaderEnds(w) \/ WriteHead(w) \/ WriteContent(w)
    \/ EchoReceived(w) \/ EchoBody(w) \/ EchoNothing(w) \/ BodyEnds(w)
    \/ OpenFile(w) \/ OpenFails(w) \/ SendErrorPage(w) \/ ErrorPageFaults(w) \/ CloseSocket(w)

-----------------------------------------------------------------------------
Next ==
    /\ alive
    /\ \/ \E c \in Conn : ClientStep(c)
       \/ MainStep
       \/ \E w \in Worker : WorkerStep(w)

Spec == Init /\ [][Next]_vars

(* The main thread and every worker run; a client that is connected sends  *)
(* its whole request.  Nothing makes a client connect, or end early.       *)
Fairness ==
    /\ WF_vars(alive /\ MainStep)
    /\ \A w \in Worker : WF_vars(alive /\ WorkerStep(w))
    /\ \A c \in Conn : WF_vars(alive /\ Send(c))

FairSpec == Spec /\ Fairness

-----------------------------------------------------------------------------
(* Properties                                                              *)

Sockets == {f \in Fds : fdTable[f] \in Conn}
InHand == IF mpc = "enqueue" THEN {mfd} ELSE {}
Queued == {queue[i] : i \in 1..Len(queue)}
Busy == {w \in Worker : wpc[w] # "dequeue"}
Served == {sock[w] : w \in Busy}

(* Every open socket has exactly one owner: epoll's interest list, the     *)
(* main thread between EPOLL_CTL_DEL and the end of the enqueue, one place *)
(* in the queue, or one worker.  So no socket is lost, queued twice,       *)
(* handled by two workers, or closed by one while another still uses its   *)
(* number (Server.c:139-142, 155-164).                                     *)
SingleOwner ==
    /\ Sockets = interest \cup InHand \cup Queued \cup Served
    /\ interest \cap (InHand \cup Queued \cup Served) = {}
    /\ InHand \cap (Queued \cup Served) = {}
    /\ Queued \cap Served = {}
    /\ \A i, j \in 1..Len(queue) : queue[i] = queue[j] => i = j
    /\ \A w, x \in Busy : sock[w] = sock[x] => w = x

(* An accepted connection has one descriptor until the server closes it,   *)
(* although numbers are reused at once (Server.c:130, 164).                *)
OneDescriptor ==
    /\ \A f, g \in Sockets : fdTable[f] = fdTable[g] => f = g
    /\ {fdTable[f] : f \in Sockets} = {c \in Conn : phase[c] = "accepted"}

(* The events of a batch are still about registered sockets when the loop  *)
(* reaches them, however long the main thread has been delayed: no worker  *)
(* can have closed, and accept not have reused, a descriptor among them    *)
(* (Server.c:127-142).                                                     *)
EventsFresh == events \subseteq interest \cup {Listener}

(* Nobody works on a socket that is another's, closed or reused: one owner *)
(* and one descriptor each, and no stale event (Server.c:127-164).         *)
SocketsOwned == SingleOwner /\ OneDescriptor /\ EventsFresh

(* A worker answers on the connection it read the request from: the number *)
(* in sock still names that connection (Server.c:162-164, 206).            *)
AnswersItsClient == \A w \in Busy : req[w] # NoConn => Peer(w) = req[w]

Content(c) == IF kind[c] = "post" THEN BodyLen ELSE 1

(* "the client can know that the server has sent all the response content  *)
(* by detect the close of connection" (HTTP_server/README.md:59): a client *)
(* that has sent its request and still receives gets one status line and   *)
(* its whole content before the close.  (Bytes a full send buffer refuses  *)
(* are below this model's grain.)                                          *)
CloseEndsResponse ==
    \A c \in Conn :
        phase[c] = "closed" /\ client[c] \in {"open", "half"} /\ sent[c] = Total(c) =>
            reply[c].heads = 1 /\ reply[c].body = Content(c)

(* Nobody gets more than one response, or bytes past its end.              *)
AtMostOneResponse ==
    \A c \in Conn : reply[c].heads <= 1 /\ reply[c].body <= Content(c)

(* The right response: on the connection of the request, once, and whole   *)
(* when the connection is closed (Server.c:173-231,                        *)
(* DemoApplication.c:32-81).                                               *)
RightResponse == AnswersItsClient /\ CloseEndsResponse /\ AtMostOneResponse

(* A worker in the body loop at an end of file, which the loop does not    *)
(* test (DemoApplication.c:74).                                            *)
Stalled == \E w \in Worker : wpc[w] = "body" /\ BodyLeft(w) /\ EndOfFile(w)

(* A connection the kernel has established is eventually accepted, handed  *)
(* to a worker and closed ("client send -> server response -> server close *)
(* the connection", HTTP_server/README.md:57), as long as the process is   *)
(* alive and no worker has stalled, however many descriptors the files     *)
(* that are never closed take.                                             *)
EveryConnectionCloses ==
    \A c \in Conn : phase[c] = "backlog" ~> phase[c] = "closed" \/ ~alive \/ Stalled

(* The requests no handler takes, which a file or the error page answers.  *)
StaticConn == {c \in Conn : kind[c] \in {"file", "other"}}
Leaked == {f \in Fds : fdTable[f] = File}

(* Nothing closes what defaultResonse and sendErrorPage open               *)
(* (Server.c:253, 308), and no more than that is lost: each descriptor     *)
(* that stays open without a connection was one such request's, one to a   *)
(* request although it may need the error page after its own file, and     *)
(* none of them starts an answer without one.  Handlers, clients that end  *)
(* early, failed calls of fopen and closes lose none.                      *)
LeakPerFile ==
    \E owner \in [Leaked -> StaticConn] :
        /\ \A f, g \in Leaked : owner[f] = owner[g] => f = g
        /\ \A c \in StaticConn : reply[c].heads > 0 => \E f \in Leaked : owner[f] = c
=============================================================================
