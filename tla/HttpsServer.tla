---------------------------- MODULE HttpsServer ----------------------------
(***************************************************************************)
(* HTTPS_server/lib/Server.c: the main thread accepts connections, watches *)
(* them with epoll and queues the readable ones; a worker takes one,       *)
(* starts the handshake on its socket, which does not block, and after one *)
(* SSL_accept, whatever it returns, gives the SSL object two memory BIOs:  *)
(* from then on the worker reads the socket and feeds rbio, and what SSL   *)
(* writes stays in wbio until the worker sends some of its answer.         *)
(*                                                                         *)
(* A TLS record travels in fragments and can be used when its last one is  *)
(* there.  A socket is named by its connection: module Server, whose main  *)
(* thread and queue have the same statements, shows that descriptors name  *)
(* connections.  A definition Op_Fault is Op with a fault a programmer     *)
(* could make; it is used only to test that the properties notice it.      *)
(***************************************************************************)
EXTENDS Naturals, SequencesExt

CONSTANTS
    Conn, Worker,
    Scenarios,       \* what the clients may want: functions from Conn to Request
    MAX_HEADER_SIZE, \* units decryptedBuf holds
    Listener, NoConn

(* tls: the version it asks for; hello: fragments of its ClientHello;      *)
(* kind: the handler of its URL; records: plaintext of the records of the  *)
(* request, "end" the empty line; parts: fragments of each of these        *)
(* records; ends: whether it waits for the server's close.                 *)
BodyUnit == {"b1", "b2", "zero"}
Unit == {"line", "end"} \cup BodyUnit
Request ==
    [tls : {"1.2", "1.3"}, hello : Nat \ {0}, kind : {"get", "post", "file", "other"},
     records : Seq(Seq(Unit)), parts : Nat \ {0}, ends : {"stays", "closes", "resets"}]

(* The empty line comes once, and a record is no shorter than its          *)
(* plaintext.                                                              *)
ASSUME RequestAssumption ==
    \A s \in Scenarios : s \in [Conn -> Request] /\ \A c \in Conn :
        /\ \E i \in 1..Len(FlattenSeq(s[c].records)) :
              \A j \in 1..Len(FlattenSeq(s[c].records)) : FlattenSeq(s[c].records)[j] = "end" <=> j = i
        /\ \A i \in 1..Len(s[c].records) :
              Len(SelectSeq(s[c].records[i], LAMBDA u : u \in BodyUnit)) <= s[c].parts
ASSUME NameAssumption == Listener \notin Conn /\ NoConn \notin Conn
ASSUME LimitAssumption == MAX_HEADER_SIZE \in Nat

VARIABLES
    request,   \* what each client wants
    client,    \* its part of the handshake, or how it has ended
    net, wire, \* fragments under way to the socket, and in its receive queue
    toClient,  \* everything sent to the client
    alive,
    backlog, interest, events, queue, \* the main thread's view of the sockets
    wpc, sock, \* next statement and socket of each worker
    decryptedBuf, \* plaintext read so far
    totalLen,  \* of the body, as the handler counts it
    tls        \* the SSL object of each connection

clientVars == <<request, net>>
mainVars == <<backlog, interest, events, queue>>
vars == <<clientVars, client, wire, toClient, alive, mainVars, wpc, sock, decryptedBuf, totalLen, tls>>

(* stray: what the stack holds after decryptedBuf.                         *)
Message == {"flight", "finished", "200", "400", "page", "ciphertext", "stray"} \cup Unit
Fragment == [of : {"hello", "finished", "data"}, record : Nat, last : BOOLEAN]
Gone == {"closed", "answered", "broken"}

TypeOK ==
    /\ request \in Scenarios
    /\ client \in [Conn -> {"new", "hello", "finished", "sent", "reset"} \cup Gone]
    /\ net \in [Conn -> Seq(Fragment)] /\ wire \in [Conn -> Seq(Fragment)]
    /\ toClient \in [Conn -> Seq(Message)]
    /\ alive \in BOOLEAN
    /\ backlog \in Seq(Conn) /\ queue \in Seq(Conn)
    /\ interest \subseteq Conn /\ events \subseteq Conn \cup {Listener}
    /\ wpc \in [Worker -> {"dequeue", "accept", "read", "respond", "body", "free", "close"}]
    /\ sock \in [Worker -> Conn \cup {NoConn}]
    /\ decryptedBuf \in [Worker -> Seq(Unit)] /\ totalLen \in [Worker -> Nat]
    /\ tls \in [Conn -> [state : {"none", "hello", "finished", "up", "freed"},
                         bio : {"socket", "memory"}, wbio : Seq(Message)]]

Init ==
    /\ request \in Scenarios
    /\ client = [c \in Conn |-> "new"]
    /\ net = [c \in Conn |-> <<>>] /\ wire = [c \in Conn |-> <<>>]
    /\ toClient = [c \in Conn |-> <<>>]
    /\ alive = TRUE
    /\ backlog = <<>> /\ interest = {} /\ events = {} /\ queue = <<>>
    /\ wpc = [w \in Worker |-> "dequeue"] /\ sock = [w \in Worker |-> NoConn]
    /\ decryptedBuf = [w \in Worker |-> <<>>] /\ totalLen = [w \in Worker |-> 0]
    /\ tls = [c \in Conn |-> [state |-> "none", bio |-> "socket", wbio |-> <<>>]]

-----------------------------------------------------------------------------
(* Clients and network (external)                                          *)

workerVars == <<wpc, sock, decryptedBuf, totalLen, tls>>

Fragments(kind, i, n) == [j \in 1..n |-> [of |-> kind, record |-> i, last |-> j = n]]
RequestFragments(r) == FlattenSeq([i \in 1..Len(r.records) |-> Fragments("data", i, r.parts)])
FinishedFragments == Fragments("finished", 1, 1)

Sends(c, state, fragments) ==
    client' = [client EXCEPT ![c] = state] /\ net' = [net EXCEPT ![c] = @ \o fragments]

Connect(c) ==
    /\ client[c] = "new"
    /\ Sends(c, "hello", Fragments("hello", 1, request[c].hello))
    /\ backlog' = Append(backlog, c)
    /\ UNCHANGED <<request, wire, toClient, alive, interest, events, queue, workerVars>>

(* A TLS 1.3 client sends its request after its Finished, a TLS 1.2 client *)
(* when the server's Finished has come.                                    *)
ClientSends(c) ==
    /\ \/ /\ client[c] = "hello" /\ "flight" \in ToSet(toClient[c])
          /\ IF request[c].tls = "1.3"
             THEN Sends(c, "sent", FinishedFragments \o RequestFragments(request[c]))
             ELSE Sends(c, "finished", FinishedFragments)
       \/ /\ client[c] = "finished" /\ "finished" \in ToSet(toClient[c])
          /\ Sends(c, "sent", RequestFragments(request[c]))
    /\ UNCHANGED <<request, wire, toClient, alive, mainVars, workerVars>>

(* It closes, or resets the connection: what is under way is lost then.    *)
ClientEnds(c) ==
    /\ client[c] \in {"hello", "finished", "sent"}
    /\ \/ request[c].ends = "closes" /\ client' = [client EXCEPT ![c] = "closed"] /\ UNCHANGED net
       \/ request[c].ends = "resets" /\ client' = [client EXCEPT ![c] = "reset"]
          /\ net' = [net EXCEPT ![c] = <<>>]
    /\ UNCHANGED <<request, wire, toClient, alive, mainVars, workerVars>>

(* The answer to data sent to a closed client arrives.                     *)
ResetArrives(c) ==
    /\ client[c] = "answered"
    /\ client' = [client EXCEPT ![c] = "reset"]
    /\ UNCHANGED <<clientVars, wire, toClient, alive, mainVars, workerVars>>

Arrives(c) ==
    /\ net[c] # <<>>
    /\ wire' = [wire EXCEPT ![c] = Append(@, Head(net[c]))]
    /\ net' = [net EXCEPT ![c] = Tail(@)]
    /\ UNCHANGED <<request, client, toClient, alive, mainVars, workerVars>>

-----------------------------------------------------------------------------
(* Main thread                                                             *)

NothingLeft(c) == wire[c] = <<>> /\ net[c] = <<>>
Readable(c) == wire[c] # <<>> \/ (NothingLeft(c) /\ client[c] \in Gone \cup {"reset"})

Ready == {c \in interest : Readable(c)} \cup (IF backlog = <<>> THEN {} ELSE {Listener})

EpollWait ==
    /\ events = {} /\ Ready # {}
    /\ events' = Ready
    /\ UNCHANGED <<clientVars, client, wire, toClient, alive, backlog, interest, queue, workerVars>>

Accept ==
    /\ Listener \in events
    /\ interest' = interest \cup {Head(backlog)}
    /\ backlog' = Tail(backlog)
    /\ events' = events \ {Listener}
    /\ UNCHANGED <<clientVars, client, wire, toClient, alive, queue, workerVars>>

(* EPOLL_CTL_DEL and clientFds_enqueue: in between nobody else knows the   *)
(* socket.                                                                 *)
Deregistered_Never(c) == interest
Deregistered(c) == interest \ {c}

HandOff(c) ==
    /\ c \in events
    /\ interest' = Deregistered(c)
    /\ queue' = Append(queue, c)
    /\ events' = events \ {c}
    /\ UNCHANGED <<clientVars, client, wire, toClient, alive, backlog, workerVars>>

MainStep == EpollWait \/ Accept \/ \E c \in Conn : HandOff(c)

-----------------------------------------------------------------------------
(* SSL: its state, the plaintext that can be read and what it writes, when *)
(* it is given fragments; a message is there with its last one (external)  *)

HasLast(kind, fragments) == \E i \in DOMAIN fragments : fragments[i].of = kind /\ fragments[i].last

Plaintext(r, fragments) ==
    FlattenSeq([i \in DOMAIN fragments |->
        IF fragments[i].of = "data" /\ fragments[i].last THEN r.records[fragments[i].record] ELSE <<>>])

Fed(r, state, out, fragments) ==
    LET hello == HasLast("hello", fragments)
        finished == HasLast("finished", fragments) IN
    [state |-> IF finished THEN "up" ELSE IF hello THEN "finished" ELSE state,
     plain |-> Plaintext(r, fragments),
     out |-> out \o (IF hello THEN <<"flight">> ELSE <<>>)
                 \o (IF finished /\ r.tls = "1.2" THEN <<"finished">> ELSE <<>>)]

-----------------------------------------------------------------------------
(* Worker: thread_run and callProperHandler                                *)

Goto(w, label) == wpc' = [wpc EXCEPT ![w] = label]

(* An error of the connection is reported to the first call that meets it. *)
Reported(c) == [client EXCEPT ![c] = IF @ = "reset" /\ wire[c] = <<>> THEN "broken" ELSE @]

(* The buffers of callProperHandler start empty; SSL_new, SSL_set_fd       *)
ClearedBuf_Kept(w) == decryptedBuf[w]
ClearedBuf(w) == <<>>

Dequeue(w) ==
    /\ wpc[w] = "dequeue" /\ queue # <<>>
    /\ sock' = [sock EXCEPT ![w] = Head(queue)]
    /\ queue' = Tail(queue)
    /\ decryptedBuf' = [decryptedBuf EXCEPT ![w] = ClearedBuf(w)]
    /\ tls' = [tls EXCEPT ![Head(queue)].state = "hello"]
    /\ Goto(w, "accept")
    /\ UNCHANGED <<clientVars, client, wire, toClient, alive, backlog, interest, events, totalLen>>

(* SSL_accept reads a fragment from the socket, and writes to the socket.  *)
AcceptReads(w) ==
    LET c == sock[w] IN
    /\ wpc[w] = "accept" /\ tls[c].state # "up" /\ wire[c] # <<>>
    /\ LET s == Fed(request[c], tls[c].state, <<>>, <<Head(wire[c])>>) IN
          /\ tls' = [tls EXCEPT ![c].state = s.state]
          /\ toClient' = [toClient EXCEPT ![c] = @ \o s.out]
    /\ wire' = [wire EXCEPT ![c] = Tail(@)]
    /\ UNCHANGED <<clientVars, client, alive, mainVars, wpc, sock, decryptedBuf, totalLen>>

(* It returns when the handshake is complete or nothing can be read.       *)
AcceptReturns(w) ==
    LET c == sock[w] IN
    /\ wpc[w] = "accept" /\ (tls[c].state = "up" \/ wire[c] = <<>>)
    /\ client' = IF tls[c].state = "up" THEN client ELSE Reported(c)
    /\ tls' = [tls EXCEPT ![c].bio = "memory"]
    /\ Goto(w, "read")
    /\ UNCHANGED <<clientVars, wire, toClient, alive, mainVars, sock, decryptedBuf, totalLen>>

(* read(), BIO_write, and SSL_read until it has nothing more               *)
Decrypted(c, s) == s.plain

(* The length is compared with the limit when the plaintext is there: more *)
(* than the buffer holds has overwritten what follows it, and the process  *)
(* may end; with a full buffer and no empty line a null pointer ends it.   *)
TooLong(units) == Len(units) > MAX_HEADER_SIZE
Complete(units) == "end" \in ToSet(units)
NoEmptyLine(units) == Len(units) = MAX_HEADER_SIZE /\ ~Complete(units)

Read(w) ==
    LET c == sock[w] IN
    /\ wpc[w] = "read" /\ wire[c] # <<>>
    /\ LET s == Fed(request[c], tls[c].state, tls[c].wbio, wire[c])
           units == decryptedBuf[w] \o Decrypted(c, s) IN
          /\ tls' = [tls EXCEPT ![c].state = s.state, ![c].wbio = s.out]
          /\ decryptedBuf' = [decryptedBuf EXCEPT ![w] = units]
          /\ alive' \in (IF TooLong(units) THEN BOOLEAN ELSE {~NoEmptyLine(units)})
          /\ Goto(w, IF TooLong(units) THEN "close" ELSE IF Complete(units) THEN "respond" ELSE "read")
    /\ wire' = [wire EXCEPT ![c] = <<>>]
    /\ UNCHANGED <<clientVars, client, toClient, mainVars, sock, totalLen>>

(* read() returns 0, or -1 with an error: the connection is dropped        *)
(* without freeRequest.                                                    *)
EndOfFile_Ignored(c) == FALSE
EndOfFile(c) == NothingLeft(c) /\ client[c] \in Gone
Error(c) == wire[c] = <<>> /\ client[c] = "reset"

ReadEnd(w) ==
    /\ wpc[w] = "read" /\ (EndOfFile(sock[w]) \/ Error(sock[w]))
    /\ client' = Reported(sock[w])
    /\ Goto(w, "close")
    /\ UNCHANGED <<clientVars, wire, toClient, alive, mainVars, sock, decryptedBuf, totalLen, tls>>

(* my_SSL_write_and_send of s: everything in wbio is sent with it.         *)
WriteAndSend(c, s) ==
    /\ toClient' = [toClient EXCEPT ![c] = @ \o tls[c].wbio \o s]
    /\ tls' = [tls EXCEPT ![c].wbio = <<>>]
    /\ client' = [client EXCEPT ![c] = CASE @ = "closed" -> "answered" [] @ = "reset" -> "broken"
                                         [] OTHER -> @]

(* It takes strlen(s) for the length.                                      *)
BeforeZero(s) == IF "zero" \in ToSet(s) THEN SubSeq(s, 1, SelectInSeq(s, LAMBDA u : u = "zero") - 1) ELSE s

AfterEmptyLine(units) == SubSeq(units, SelectInSeq(units, LAMBDA u : u = "end") + 1, Len(units))
RequestBody(c) == AfterEmptyLine(FlattenSeq(request[c].records))
ContentLength(c) == Len(RequestBody(c))

ReceivedBody(w) == AfterEmptyLine(decryptedBuf[w])

(* The handlers of the two registered URLs; files below resources/ and the *)
(* error page.                                                             *)
StatusLine(k) == IF k = "other" THEN "400" ELSE "200"

RespondPage(w) ==
    LET c == sock[w] IN
    /\ wpc[w] = "respond" /\ request[c].kind # "post"
    /\ WriteAndSend(c, <<StatusLine(request[c].kind), "page">>)
    /\ Goto(w, "free")
    /\ UNCHANGED <<clientVars, wire, alive, mainVars, sock, decryptedBuf, totalLen>>

(* A full buffer has no zero after the plaintext: strlen goes on until it  *)
(* meets one.                                                              *)
PastEnd(units) ==
    IF Len(units) = MAX_HEADER_SIZE /\ "zero" \notin ToSet(AfterEmptyLine(units))
    THEN {<<>>, <<"stray">>} ELSE {<<>>}

(* postDemoHandleFunc sends back the part of the body that came with the   *)
(* header.                                                                 *)
RespondPost(w) ==
    LET c == sock[w] IN
    /\ wpc[w] = "respond" /\ request[c].kind = "post"
    /\ \E stray \in PastEnd(decryptedBuf[w]) :
          WriteAndSend(c, (<<StatusLine("post")>> \o BeforeZero(ReceivedBody(w))) \o stray)
    /\ totalLen' = [totalLen EXCEPT ![w] = Len(ReceivedBody(w))]
    /\ Goto(w, IF totalLen'[w] < ContentLength(c) THEN "body" ELSE "free")
    /\ UNCHANGED <<clientVars, wire, alive, mainVars, sock, decryptedBuf>>

(* The rest of the body is read from the socket as it is there; strlen may *)
(* find a zero in it, or go on after its end.                              *)
BodyRead(w) ==
    LET c == sock[w] IN
    /\ wpc[w] = "body" /\ wire[c] # <<>>
    /\ \E n \in 1..Len(wire[c]) :
          /\ \E m \in 0..(n + 1) : WriteAndSend(c, [i \in 1..m |-> "ciphertext"])
          /\ wire' = [wire EXCEPT ![c] = SubSeq(@, n + 1, Len(@))]
          /\ totalLen' = [totalLen EXCEPT ![w] = @ + n]
    /\ Goto(w, IF totalLen'[w] < ContentLength(c) THEN "body" ELSE "free")
    /\ UNCHANGED <<clientVars, alive, mainVars, sock, decryptedBuf>>

(* read() returns 0: the loop sends what buf still holds, and goes on.  An *)
(* error ends it.                                                          *)
BodyEnds(w) ==
    LET c == sock[w] IN
    /\ wpc[w] = "body"
    /\ \/ /\ EndOfFile(c)
          /\ client' = [client EXCEPT ![c] = IF @ = "closed" THEN "answered" ELSE @]
          /\ UNCHANGED wpc
       \/ /\ Error(c)
          /\ client' = Reported(c)
          /\ Goto(w, "free")
    /\ UNCHANGED <<clientVars, wire, toClient, alive, mainVars, sock, decryptedBuf, totalLen, tls>>

(* freeRequest: SSL_shutdown leaves close_notify in wbio, SSL_free.        *)
Freed_Never == "up"
Freed == "freed"

FreeRequest(w) ==
    /\ wpc[w] = "free"
    /\ tls' = [tls EXCEPT ![sock[w]].state = Freed]
    /\ Goto(w, "close")
    /\ UNCHANGED <<clientVars, client, wire, toClient, alive, mainVars, sock, decryptedBuf, totalLen>>

CloseSocket(w) ==
    /\ wpc[w] = "close"
    /\ sock' = [sock EXCEPT ![w] = NoConn]
    /\ Goto(w, "dequeue")
    /\ UNCHANGED <<clientVars, client, wire, toClient, alive, mainVars, decryptedBuf, totalLen, tls>>

WorkerStep(w) ==
    \/ Dequeue(w) \/ AcceptReads(w) \/ AcceptReturns(w) \/ Read(w) \/ ReadEnd(w)
    \/ RespondPage(w) \/ RespondPost(w) \/ BodyRead(w) \/ BodyEnds(w)
    \/ FreeRequest(w) \/ CloseSocket(w)

Next ==
    /\ alive
    /\ \/ MainStep
       \/ \E w \in Worker : WorkerStep(w)
       \/ \E c \in Conn :
             Connect(c) \/ ClientSends(c) \/ ClientEnds(c) \/ ResetArrives(c) \/ Arrives(c)

Spec == Init /\ [][Next]_vars

(* The threads run; the network delivers; a client goes on as soon as the  *)
(* server lets it.                                                         *)
FairSpec ==
    /\ Spec
    /\ WF_vars(alive /\ MainStep)
    /\ \A w \in Worker : WF_vars(alive /\ WorkerStep(w))
    /\ \A c \in Conn : WF_vars(alive /\ Arrives(c)) /\ WF_vars(alive /\ ClientSends(c))

-----------------------------------------------------------------------------
(* Properties                                                              *)

Closed(c) ==
    /\ client[c] # "new" /\ tls[c].state # "none"
    /\ \A w \in Worker : sock[w] # c
Busy == {w \in Worker : wpc[w] # "dequeue"}

(* A connection the kernel has set up is in the backlog, watched, in one   *)
(* place of the queue, in the hands of one worker, or closed, and events   *)
(* of a batch are about watched ones: none is lost or served by two        *)
(* workers, whose SSL calls would race (Server.c:143-160, 169-184).        *)
OneOwner ==
    /\ \A c \in Conn : client[c] # "new" =>
          \/ c \in ToSet(backlog) \/ c \in interest \/ c \in ToSet(queue)
          \/ (\E w \in Worker : sock[w] = c) \/ Closed(c)
    /\ events \subseteq interest \cup {Listener}
    /\ interest \cap (ToSet(backlog) \cup ToSet(queue)) = {}
    /\ \A i, j \in 1..Len(queue) : queue[i] = queue[j] => i = j
    /\ \A w, x \in Busy : sock[w] = sock[x] => w = x
    /\ \A w \in Busy : sock[w] \notin interest \cup ToSet(backlog) \cup ToSet(queue)

(* With it, every buffer and SSL object is in a state of its own.          *)
ConnectionsOwned == TypeOK /\ OneOwner

Answered(c) == ToSet(toClient[c]) \cap {"200", "400"} # {}

(* An SSL object is alive as long as a worker uses it; after the close it  *)
(* is freed exactly if its request was answered: what the early returns    *)
(* of Server.c:227-241 leave behind is all that is never freed.            *)
SslObjects ==
    /\ \A w \in Worker : wpc[w] \in {"accept", "read", "respond", "body", "free"} =>
          tls[sock[w]].state \in {"hello", "finished", "up"}
    /\ \A c \in Conn : Closed(c) => (tls[c].state = "freed" <=> Answered(c))

Handshake == {"flight", "finished"}
Reply(c) ==
    LET n == SelectInSeq(toClient[c], LAMBDA u : u \notin Handshake) IN
    IF n = 0 THEN <<>> ELSE SubSeq(toClient[c], n, Len(toClient[c]))
Expected(c) ==
    IF request[c].kind = "post" THEN <<"200">> \o RequestBody(c)
    ELSE <<StatusLine(request[c].kind), "page">>

BodyWithHeader(c) == request[c].kind # "post" \/ "end" \in ToSet(Last(request[c].records))
Plain(c) == FlattenSeq(request[c].records)
Ended(c) == request[c].kind = "post" => PastEnd(Plain(c)) = {<<>>}

(* A client whose body ends in the record of the empty line, and fits the  *)
(* buffer with it and a zero, gets the answer to its own request, in       *)
(* plaintext, up to the first zero byte, however records and segments were *)
(* cut and whoever was served before (Server.c:192-224, 425-426).          *)
RightAnswer ==
    \A c \in Conn : BodyWithHeader(c) /\ ~TooLong(Plain(c)) /\ Ended(c) =>
        /\ IsPrefix(Reply(c), Expected(c))
        /\ Closed(c) /\ client[c] = "sent" => Reply(c) = BeforeZero(Expected(c))

(* SSL has written to memory what the client waits for, and nothing sends  *)
(* it before the request is complete; or the worker waits for a body that  *)
(* it counts wrongly.                                                      *)
FlightHeld(w) ==
    wpc[w] = "read" /\ tls[sock[w]].wbio # <<>> /\ client[sock[w]] \in {"hello", "finished"}
BodyHeld(w) == wpc[w] = "body" /\ ~BodyWithHeader(sock[w])
Held(w) == FlightHeld(w) \/ BodyHeld(w)

(* Every connection is closed in the end, unless it holds its worker for   *)
(* ever, or every worker is held: a client that is stuck takes one worker  *)
(* with it and nobody else (Server.c:169-184, 213-244).  A body in records *)
(* of its own is one way: the loop counts ciphertext.                      *)
EveryConnectionCloses ==
    \A c \in Conn : client[c] = "hello" ~>
        \/ ~alive \/ Closed(c)
        \/ [](\E w \in Worker : sock[w] = c /\ Held(w))
        \/ [](\A w \in Worker : Held(w))
=============================================================================
