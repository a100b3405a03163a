-------------------------- MODULE HttpConnection --------------------------
(***************************************************************************)
(* One connection of HTTP_server, byte by byte where module Server counts  *)
(* whole steps: callProperHandler collects the header in a buffer of       *)
(* MAX_HEADER_SIZE, the handlers that addHandler registered or the static  *)
(* files are chosen by method and URL, and the response is sent in many    *)
(* small calls on a socket that does not block, whose results are ignored. *)
(*                                                                         *)
(* A URL is a sequence of characters, a file one of what fgets returns.    *)
(* A definition Op_Fault is Op with a fault a programmer could make; it is *)
(* used only to test that the properties notice it.  ConnInit, ConnNext    *)
(* and ConnSpec are the specification: ServerPartsProofs extends this      *)
(* module together with ClientFds.                                         *)
(***************************************************************************)
EXTENDS Naturals, SequencesExt, FiniteSetsExt

CONSTANTS
    Registered,        \* the handlers that main adds, in this order
    MAX_HANDLER_NUM,
    MAX_HEADER_SIZE,   \* units buf holds
    Requests,          \* what the client may send
    Files, ErrorPage,  \* Files[url]: units of the file, by line; directories are empty
    SndBuf             \* units the kernel keeps for a client that does not read

(* header: length with the empty line; length: Content-Length, 0 without.  *)
Url == Seq(STRING)
Request == [method : {"GET", "POST"}, url : Url, header : Nat \ {0}, body : Seq(STRING), length : Nat]

Handler == [method : {"GET", "POST"}, url : Url, does : {"get", "post"}]
Text == Seq(Seq(STRING))

ASSUME LimitAssumption == MAX_HANDLER_NUM \in Nat /\ MAX_HEADER_SIZE \in Nat /\ SndBuf \in Nat \ {0}
ASSUME RequestAssumption == Requests \subseteq Request /\ \A r \in Requests : r.length <= Len(r.body)
ASSUME HandlerAssumption == Registered \in Seq(Handler)
ASSUME FileAssumption == ErrorPage \in Text /\ \A url \in DOMAIN Files : Files[url] \in Text

VARIABLES
    stage,    \* addHandler, header, send (of a response), body, close
    handlers, \* the table
    request, sent, got, \* what the client sends; units sent, and read
    todo,     \* what is still to be sent, call by call
    sndbuf,   \* units taken by the kernel, and not read by the client
    received, \* what the client has read
    conn,     \* the server's side: "open", "closed", or "reset"
    alive

connVars == <<stage, handlers, request, sent, got, todo, sndbuf, received, conn, alive>>
netVars == <<sndbuf, received, conn>>

ConnTypeOK ==
    /\ stage \in {"addHandler", "header", "send", "body", "close", "closed"}
    /\ Len(handlers) <= MAX_HANDLER_NUM
    /\ request \in Requests
    /\ sent \in 0..(request.header + Len(request.body)) /\ got \in 0..sent
    /\ stage = "header" => got <= MAX_HEADER_SIZE
    /\ Len(sndbuf) <= SndBuf
    /\ conn \in {"open", "closed", "reset"}
    /\ alive \in BOOLEAN

ConnInit ==
    /\ stage = "addHandler" /\ handlers = <<>>
    /\ request \in Requests /\ sent = 0 /\ got = 0
    /\ todo = <<>> /\ sndbuf = <<>> /\ received = <<>>
    /\ conn = "open" /\ alive = TRUE

-----------------------------------------------------------------------------
(* Client (external).  Data for a closed socket, or left unread in one,    *)
(* resets the connection, and what TCP has not delivered is lost.          *)

Total == request.header + Len(request.body)
Prefixed(s) == {SubSeq(s, 1, n) : n \in 0..Len(s)}

ClientSends ==
    /\ stage # "addHandler" /\ conn # "reset" /\ sent < Total
    /\ IF conn = "open"
       THEN \E n \in (sent + 1)..Total : sent' = n /\ UNCHANGED <<conn, sndbuf>>
       ELSE sent' = Total /\ conn' = "reset" /\ sndbuf' \in Prefixed(sndbuf)
    /\ UNCHANGED <<stage, handlers, request, got, todo, received, alive>>

ClientReads ==
    /\ \E n \in 1..Len(sndbuf) :
          /\ received' = received \o SubSeq(sndbuf, 1, n)
          /\ sndbuf' = SubSeq(sndbuf, n + 1, Len(sndbuf))
    /\ UNCHANGED <<stage, handlers, request, sent, got, todo, conn, alive>>

-----------------------------------------------------------------------------
(* Handlers.c                                                              *)

Full == Len(handlers) >= MAX_HANDLER_NUM

(* main adds the handlers one by one, then starts the server.              *)
Left == SubSeq(Registered, Len(handlers) + 1, Len(Registered))

AddHandler ==
    /\ stage = "addHandler"
    /\ IF Left = <<>> \/ Full
       THEN stage' = "header" /\ UNCHANGED handlers
       ELSE handlers' = Append(handlers, Head(Left)) /\ UNCHANGED stage
    /\ UNCHANGED <<request, sent, got, todo, netVars, alive>>

-----------------------------------------------------------------------------
(* Server.c: what is sent to answer the request                            *)

(* src[strlen(src) - i] is compared with subString[strlen(subString) - i], *)
(* for i from 0, where both have their terminating zero, to the length of  *)
(* subString less one: its first character is never looked at.             *)
endsWith_Shorter(src, subString) ==
    /\ Len(src) >= Len(subString)
    /\ \A i \in 1..(Len(subString) - 2) :
          src[Len(src) - i + 1] = subString[Len(subString) - i + 1]
endsWith(src, subString) ==
    /\ Len(src) >= Len(subString)
    /\ \A i \in 1..(Len(subString) - 1) :
          src[Len(src) - i + 1] = subString[Len(subString) - i + 1]

js == <<".", "j", "s">>
css == <<".", "c", "s", "s">>
html == <<".", "h", "t", "m", "l">>

(* The last of three assignments stays.                                    *)
contentType(url) ==
    IF endsWith(url, js) THEN "application/javascript"
    ELSE IF endsWith(url, css) THEN "text/css"
    ELSE IF endsWith(url, html) THEN "text/html" ELSE "text/plain"

(* strlen of a line stops at its first zero byte.                          *)
BeforeZero(s) == IF "zero" \in ToSet(s) THEN SubSeq(s, 1, SelectInSeq(s, LAMBDA u : u = "zero") - 1) ELSE s

HeadOf(status, type) == <<<<status>>, <<"server">>, <<type>>, <<"empty">>>>
Lines(file) == [n \in DOMAIN file |-> BeforeZero(file[n])]

sendErrorPage == HeadOf("400", "text/html") \o Lines(ErrorPage)
defaultResonse ==
    IF request.url \in DOMAIN Files
    THEN HeadOf("200", contentType(request.url)) \o Lines(Files[request.url])
    ELSE sendErrorPage

(* The part of the body read with the header.                              *)
ReceivedBody_Dropped(n) == <<>>
ReceivedBody(n) == SubSeq(request.body, 1, n - request.header)

Answer(does, n) ==
    CASE does = "get" -> HeadOf("200", "text/html") \o <<<<"demo">>>>
      [] does = "post" -> HeadOf("200", "text/html") \o <<ReceivedBody(n)>>

Matches(h) == request.method = h.method /\ request.url = h.url
Found == {n \in DOMAIN handlers : Matches(handlers[n])}
Does == handlers[Min(Found)].does

-----------------------------------------------------------------------------
(* callProperHandler                                                       *)

(* read() of at most MAX_HEADER_SIZE - totalLen                            *)
HeaderRoom == MAX_HEADER_SIZE - got

MoreHeader_Early(n) == n < MAX_HEADER_SIZE - 1 /\ n < request.header
MoreHeader(n) == n < MAX_HEADER_SIZE /\ n < request.header

(* With a full buffer and no empty line in it newString gets a length made *)
(* from a null pointer, and its memset or its copying ends the process.    *)
ReadHeader ==
    /\ stage = "header"
    /\ \E n \in 1..Min({HeaderRoom, sent - got}) : got' = got + n
    /\ alive' = (MoreHeader(got') \/ got' >= request.header)
    /\ IF got' < request.header
       THEN UNCHANGED <<stage, todo>>
       ELSE /\ todo' = IF Found = {} THEN defaultResonse ELSE Answer(Does, got')
            /\ stage' = "send"
    /\ UNCHANGED <<handlers, request, sent, netVars>>

(* send() or write(): takes what there is room for, or fails with EAGAIN;  *)
(* the code goes on with the next call.                                    *)
Room == SndBuf - Len(sndbuf)
AfterCall_Again == IF Len(Head(todo)) <= Room THEN Tail(todo) ELSE todo
AfterCall == Tail(todo)

SendCall ==
    /\ stage \in {"send", "body"} /\ todo # <<>>
    /\ sndbuf' = sndbuf \o SubSeq(Head(todo), 1, Min({Room, Len(Head(todo))}))
    /\ todo' = AfterCall
    /\ UNCHANGED <<stage, handlers, request, sent, got, received, conn, alive>>

BodyLeft == Found # {} /\ Does = "post" /\ got - request.header < request.length

Responded ==
    /\ stage \in {"send", "body"} /\ todo = <<>>
    /\ stage' = IF BodyLeft THEN "body" ELSE "close"
    /\ stage' # stage
    /\ UNCHANGED <<handlers, request, sent, got, todo, netVars, alive>>

(* The loop of postDemoHandleFunc: the rest of the body as it arrives      *)
ReadBody ==
    /\ stage = "body" /\ todo = <<>> /\ BodyLeft
    /\ \E n \in (got + 1)..sent :
          /\ got' = n
          /\ todo' = <<SubSeq(request.body, got - request.header + 1, n - request.header)>>
    /\ UNCHANGED <<stage, handlers, request, sent, netVars, alive>>

Close ==
    /\ stage = "close"
    /\ stage' = "closed"
    /\ IF got = sent
       THEN conn' = "closed" /\ UNCHANGED sndbuf
       ELSE conn' = "reset" /\ sndbuf' \in Prefixed(sndbuf)
    /\ UNCHANGED <<handlers, request, sent, got, todo, received, alive>>

WorkerStep == ReadHeader \/ SendCall \/ Responded \/ ReadBody \/ Close

ConnNext == alive /\ (AddHandler \/ WorkerStep \/ ClientSends \/ ClientReads)

ConnSpec == ConnInit /\ [][ConnNext]_connVars

(* The server runs and the client sends its request; it may never read.    *)
ConnFairSpec ==
    /\ ConnSpec
    /\ WF_connVars(alive /\ (AddHandler \/ WorkerStep)) /\ WF_connVars(alive /\ ClientSends)

-----------------------------------------------------------------------------
(* Properties                                                              *)

(* What should be answered, from the registrations and files alone         *)
TypeBy(ends, url) ==
    IF IsSuffix(ends[1], url) THEN "application/javascript"
    ELSE IF IsSuffix(ends[2], url) THEN "text/css"
    ELSE IF IsSuffix(ends[3], url) THEN "text/html" ELSE "text/plain"
RightType(url) == TypeBy(<<js, css, html>>, url)

(* A name that ends in the letters of a suffix without its dot may be      *)
(* taken for one that has it: the type may be another by this only.        *)
Types(url) == {RightType(url), TypeBy(<<Tail(js), Tail(css), Tail(html)>>, url)}

Taken == SubSeq(Registered, 1, Min({MAX_HANDLER_NUM, Len(Registered)}))
Owner == SelectInSeq(Taken, LAMBDA h : h.method = request.method /\ h.url = request.url)
Page(status, type, file) == <<status, "server", type, "empty">> \o FlattenSeq(file)
Reply(type) ==
    CASE Owner # 0 /\ Taken[Owner].does = "get" -> Page("200", "text/html", <<<<"demo">>>>)
      [] Owner # 0 /\ Taken[Owner].does = "post" -> Page("200", "text/html", <<request.body>>)
      [] Owner = 0 /\ request.url \in DOMAIN Files -> Page("200", type, Files[request.url])
      [] OTHER -> Page("400", "text/html", ErrorPage)
Expected == {Reply(type) : type \in Types(request.url)}

(* Files with zero bytes arrive cut.                                       *)
Binary == \E reply \in Expected : "zero" \in ToSet(reply)

(* s is t with some of its elements left out.                              *)
Subsequence(s, t) ==
    \E kept \in SUBSET DOMAIN t :
        /\ Cardinality(kept) = Len(s)
        /\ \A i \in kept : t[i] = s[Cardinality({j \in kept : j <= i})]

(* What has reached the client's side is the response to its own request   *)
(* from the first handler registered for it, or the file with the type of  *)
(* its suffix: with holes, but nothing twice, out of order or of another   *)
(* response (Server.c:216-226, 276-297, 337-349).                          *)
Sent == received \o sndbuf
InOrder == \E reply \in Expected : Subsequence(Sent, reply)

(* A response that the send buffer holds arrives whole, however slowly the *)
(* client reads, if it has sent nothing that the server leaves unread      *)
(* (Server.c:290-297, DemoApplication.c:41-46, 71-86).                     *)
FitsSndBuf == \A reply \in Expected : Len(reply) <= SndBuf
SmallResponseWhole ==
    ~Binary /\ FitsSndBuf /\ conn = "closed" /\ sent = Total => Sent \in Expected

(* A header that fits the buffer, to the last byte, does not end the       *)
(* process (Server.c:178-182, 211).                                        *)
HeaderFits == request.header <= MAX_HEADER_SIZE => alive

(* With it, no read and no handler goes past the end of an array           *)
(* (Server.c:178, Handlers.c:17-23).                                       *)
WithinBuffers == ConnTypeOK /\ HeaderFits

(* Once the request is sent the connection is closed, although the client  *)
(* may never read: nothing waits for room in the send buffer.              *)
ConnectionEnds == conn = "open" /\ sent = Total ~> conn # "open" \/ ~alive

(* "So the client can know that the server has sent all the response       *)
(* content by detect the close of connection (read() returns 0)"           *)
(* (HTTP_server/README.md:59), of a client that has sent its request, with *)
(* the length of its body as README.md:50 asks, all of which was read.     *)
Announced == request.length = Len(request.body)
CloseMeansAll ==
    ~Binary /\ Announced /\ got = Total /\ conn = "closed" /\ sndbuf = <<>> => received \in Expected
=============================================================================
